SPECIFICATION Spec
CONSTANTS
    x1 = x1
    x2 = x2
    x3 = x3
    b1 = b1
    k1 = k1
    k2 = k2
    Issue = {i1, i2}
    Category = {c1, c2}
    CategoryOf <- CategoryOfIssue
    EventId = {k1, k2}
    View = {v1, v2}
    Taken = {}
    Session = {s1}
    Entity = {}
    Region = {}
    HalfDwell = 1
    FullDwell = 2
    LifeTime = 3
    NoRow = NoRow
    Token = {x1, x2, x3}
    Request = {k1, k2}
    Login = {l1}
    NoToken = NoToken
    Card = {x1, x2, x3, b1}
    TopicOf <- TopicA
    Client = {k1, k2}
    FeedBatchSize = 2
    NoTopic = NoTopic
SYMMETRY Symmetry
INVARIANTS
    LearningSound
    SessionsSound
    FeedSound
PROPERTIES
    ReuseRevokes
CHECK_DEADLOCK FALSE
