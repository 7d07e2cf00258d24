\* Two issues in batches of one, two repair processes, one disturbance.
SPECIFICATION FairSpec
CONSTANTS
    Issue = {i1, i2}
    Lucky = {i1}
    Proc = {p1, p2}
    BatchSize = 1
    MaxTrouble = 1
    NoProc = NoProc
    NoIssue = NoIssue
INVARIANTS
    VectorIffSucceeded
    NoClaimLeftBehind
PROPERTIES
    ClaimEndedByOwner
    EventuallyEmbedded
