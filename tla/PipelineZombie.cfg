\* One run over three attempts; two processes, either of which an operator may
\* wrongly believe dead.
SPECIFICATION Spec
CONSTANTS
    Run = {r1}
    Issue = {i1, i2}
    Worker = {w1, w2}
    MaxAttempt = 3
    MaxNewIssues = 1
    OperatorConfirms = FALSE
    NoRun = NoRun
    NoIssue = NoIssue
SYMMETRY Symmetry
INVARIANTS
    TypeOK
    SoleExecution
    Ownership
    WorkerLimits
    RunAgreesWithJobs
    PublishedIffSucceeded
    NoForgottenJob
PROPERTIES
    OnlyOwnerWrites
    SettledJobFrozen
    WithdrawnStays
\* At the bounds every run is finished and the operator has nothing to send.
CHECK_DEADLOCK FALSE
