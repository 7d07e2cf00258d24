SPECIFICATION Spec
CONSTANTS
    Run = {r1}
    Issue = {i1}
    Worker = {w1}
    MaxAttempt = 2
    MaxNewIssues = 1
    OperatorConfirms = TRUE
    NoRun = NoRun
    NoIssue = NoIssue
PROPERTIES
    WorkerClosesItsRun
CHECK_DEADLOCK FALSE
