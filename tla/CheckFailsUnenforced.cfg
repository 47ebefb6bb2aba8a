SPECIFICATION Spec
CONSTANTS
    naming = naming
    w1 = w1
    w2 = w2
    c1 = c1
    c2 = c2
    Categories = {naming}
    NoCategory = NoCategory
    Comments = {c1, c2}
    MaxHead = 1
    Reviewers = {r1}
    Results <- MCResults
    Default <- MCDefault
    InitialRows <- MCInitialRows
    Jobs = {1, 2}
    MaxAttempts = 2
    Workers = {w1}
    Events = {"change"}
    MaxEvents = 1
    None = None
SYMMETRY Symmetry
INVARIANTS
    FailureFollowsItsHeader
CHECK_DEADLOCK FALSE
