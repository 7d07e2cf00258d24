SPECIFICATION Spec
CONSTANTS
    Process = {w1, w2}
    LastDay = 2
    MaxClaims = 2
    MaxEvents = 1
    Candidate = {1}
    Article = {1, 2, 3}
    PublisherOf <- MCPublisher
    MaxSelected = 2
    Unset = Unset
    Pools <- MCPools
    Before <- MCBefore
    Quota <- MCQuota
    BatchSize = 4
    CandidateBudget = 5
    Proposals = 24
    Rounds = 3
    Replacements = 2
    Null = Null
    Found = {1, 2, 3, 4, 5, 6}
    Shares <- MCShares
    Differs <- MCDiffers
    Important = {2, 3}
    Familiar = {1, 2, 3, 4, 6}
    FollowUp = {4, 5}
    Excluded = {}
    PoolLimit = 5
    MaxChanges = 2
    Address = {1, 2}
    Account = {1}
    MaxRequests <- MCMax
    Window = 2
    MaxKeys = 3
    IdleTtl = 1
    CleanupEvery = 3
    MaxTick = 3
    Story = {1, 2, 3}
    SectionOf <- TwoSections
    PageSize = 1
    AnalysisWindow = 1
    LastTime = 2
    MaxActs = 3
    NoCursor = NoCursor
    Inputs = {{1, 2, 3}, {1}, {}}
    Further = {4, 5, 6, 7}
    Likenesses <- MCLikenesses
    Embedded = {1, 2, 4, 5, 6, 7}
    CategoryNumber <- MCCategory
    Importance <- MCImportance
    Notable = {4, 5, 6, 7}
    Drafts <- MCDrafts
    Minimum = 2
    MaxRelated = 2
    MaxMajor = 1
    MaxConnections = 2
    PerSource = 2
    TopRelated = 2
    PerCategory = 3
    MaxTries = 2
    MaxShifts = 2
    Nil = Nil
    Server = {"p1", "p2", "q"}
    PublicServer = {"p1", "p2"}
    MaxHops = 2
    MaxBytes = 3
    MinText = 2
    MaxAddresses = 2
    MaxChunk = 2
    Canonical = {"housing", "politics"}
    CodeMap <- ApprovedCodes
    NameMap <- ApprovedNames
    OldCode = {"politics", "JUDICIARY", "SPORTS"}
    OldName = {"justice", "none"}
    RowCode = {"JUDICIARY", "SPORTS"}
    MasterId = {1, 2}
    PrefId = {1, 2}
    Labelled = {a1}
    Owner = {u1}
    Absent = Absent
SYMMETRY Symmetry
INVARIANTS
    LimitHolds
    ReadsSound
    StagesSound
    FetchSound
    MigrationHolds
PROPERTIES
    SavedWorkStays
CHECK_DEADLOCK FALSE
