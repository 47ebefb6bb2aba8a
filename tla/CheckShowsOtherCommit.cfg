SPECIFICATION Spec
CONSTANTS
    naming = naming
    w1 = w1
    w2 = w2
    c1 = c1
    c2 = c2
    Categories = {naming}
    NoCategory = NoCategory
    Comments = {c1}
    MaxHead = 2
    Reviewers = {r1}
    Results <- MCResults
    Default <- MCDefault
    InitialRows <- MCInitialRows
    Jobs = {1, 2}
    MaxAttempts = 2
    Workers = {w1}
    Events = {}
    MaxEvents = 0
    None = None
SYMMETRY Symmetry
INVARIANTS
    ShowsTheVerifiedCommit
CHECK_DEADLOCK FALSE
