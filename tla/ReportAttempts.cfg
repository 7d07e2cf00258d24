\* Three attempts: two that nobody asks for and one that the member asks for.
\* A single worker still has old executions running beside its current one.
SPECIFICATION Spec
CONSTANTS
    Report = {m1}
    Worker = {w1}
    AutoLimit = 2
    TotalLimit = 3
    Calls = 1
    NoClaim = NoClaim
    NoWorker = NoWorker
INVARIANTS
    ChecksNeverFire
    NoStrandedReport
PROPERTIES
    PromiseSpec
\* At the bounds every report has ended for good.
CHECK_DEADLOCK FALSE
