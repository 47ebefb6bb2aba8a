SPECIFICATION Spec
CONSTANTS
    naming = naming
    w1 = w1
    w2 = w2
    c1 = c1
    c2 = c2
    Categories = {naming}
    NoCategory = NoCategory
    Comments = {c1, c2}
    MaxHead = 2
    Reviewers = {r1}
    Results <- MCResults
    Default <- MCDefault
    InitialRows <- MCSerialRows
    Jobs = {1, 2, 3}
    MaxAttempts = 2
    Workers = {w1}
    Events = {"crash", "failure", "lost", "response", "change"}
    MaxEvents = 1
    None = None
SYMMETRY Symmetry
INVARIANTS
    OneCheckPerHead
    CheckIsCurrent
PROPERTIES
    ChecksNeverGoBack
CHECK_DEADLOCK FALSE
