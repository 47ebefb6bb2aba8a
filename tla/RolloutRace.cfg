SPECIFICATION Spec
CONSTANTS
    o1 = o1
    o2 = o2
    p1 = p1
    p2 = p2
    Categories = {naming}
    NoCategory = NoCategory
    Operators = {o1, o2}
    Presses = {p1, p2}
    MinDays = 1
    MinConfirmations = 2
    Default <- MCDefault
    MaxNow = 2
    MaxChanges = 4
    None = None
SYMMETRY Symmetry
PROPERTIES
    OneStageAtATime
CHECK_DEADLOCK FALSE
