\* Two runs that compete for the global slot, with processes an operator may
\* wrongly believe dead; and the double, with the same runs and two claims.
SPECIFICATION PartSpec
CONSTANTS
    Run = {r1, r2}
    Issue = {i1}
    Worker = {w1, w2}
    MaxAttempt = 2
    MaxNewIssues = 1
    OperatorConfirms = FALSE
    NoRun = NoRun
    NoIssue = NoIssue
    RunId = {r1, r2}
    Title = {t1, t2}
    ClaimToken = {w1, w2}
    LastAttempt = 2
    Nothing = Nothing
SYMMETRY Symmetry
INVARIANTS
    OneActiveRun
PROPERTIES
    GateSpec
    DoubleIsGate
\* At the bounds every run is finished and the operator has nothing to send.
CHECK_DEADLOCK FALSE
