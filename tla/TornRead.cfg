SPECIFICATION Spec
CONSTANTS
    Issue = {i1}
    Category = {c1, c2}
    CategoryOf <- CategoryOfIssue
    EventId = {e1, e2}
    View = {v1}
    Taken = {}
    Session = {s1}
    Entity = {n1}
    Region = {}
    HalfDwell = 1
    FullDwell = 2
    LifeTime = 3
    NoRow = NoRow
    Reader = {g1}
PROPERTIES
    ReadShowsChoice
CHECK_DEADLOCK FALSE
