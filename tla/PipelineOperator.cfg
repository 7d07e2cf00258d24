\* An operator who keeps the contract: an interrupt only for an execution that
\* no process carries any more.  No symmetry: liveness is checked.
SPECIFICATION FairSpec
CONSTANTS
    Run = {r1}
    Issue = {i1, i2}
    Worker = {w1, w2}
    MaxAttempt = 2
    MaxNewIssues = 2
    OperatorConfirms = TRUE
    NoRun = NoRun
    NoIssue = NoIssue
PROPERTIES
    InterruptSparesLive
    ActiveRunEnds
\* At the bounds every run is finished and the operator has nothing to send.
CHECK_DEADLOCK FALSE
