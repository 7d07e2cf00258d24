\* One report, two workers: executions that lost their lease run on beside the
\* ones that took it over.
SPECIFICATION Spec
CONSTANTS
    Report = {m1}
    Worker = {w1, w2}
    AutoLimit = 1
    TotalLimit = 2
    Calls = 2
    NoClaim = NoClaim
    NoWorker = NoWorker
SYMMETRY Symmetry
INVARIANTS
    TypeOK
    ExclusiveClaims
    ContentFromSnapshot
PROPERTIES
    SnapshotFixed
    KnownUsageKept
    DeletedStaysGone
\* At the bounds every report has ended for good.
CHECK_DEADLOCK FALSE
