SPECIFICATION Spec
CONSTANTS
    Loops = {l1, l2}
    Waiters = {w1}
    NoLoop = NoLoop
    MaxInbox = 2
SYMMETRY Symmetry
INVARIANTS
    CloseStops
CHECK_DEADLOCK FALSE
