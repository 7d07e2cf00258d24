\* Crashes, lost leases and lost replies under the fairness of the poll loops.
\* No symmetry: liveness is checked.
SPECIFICATION FairSpec
CONSTANTS
    Report = {m1}
    Worker = {w1}
    AutoLimit = 2
    TotalLimit = 2
    Calls = 1
    NoClaim = NoClaim
    NoWorker = NoWorker
PROPERTIES
    ReportEnds
    UsageEnds
\* At the bounds every report has ended for good.
CHECK_DEADLOCK FALSE
