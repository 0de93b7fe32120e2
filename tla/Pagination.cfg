CONSTANTS
    Pages = {p1, p2, p3, p4, p5}
    First = p1
    Foreign = {p5}
    Limit = 3
SPECIFICATION ListSpec
INVARIANTS
    ListedIsComplete
CHECK_DEADLOCK FALSE
