SPECIFICATION Spec
CONSTANTS
    naming = naming
    w1 = w1
    w2 = w2
    c1 = c1
    c2 = c2
    Categories = {naming}
    NoCategory = NoCategory
    Comments = {c1, c2}
    MaxHead = 2
    Reviewers = {r1}
    Results <- MCResults
    Default <- MCDefault
    InitialRows <- MCInitialRows
    Jobs = {1, 2}
    MaxAttempts = 2
    Workers = {w1, w2}
    Events = {"crash", "failure", "lost", "response", "change"}
    MaxEvents = 1
    None = None
SYMMETRY Symmetry
INVARIANTS
    TypeOK
    FailureIsBacked
CHECK_DEADLOCK FALSE
