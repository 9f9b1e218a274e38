SPECIFICATION Spec
CONSTANTS
    Writer = {w1, w2}
    MaxAppends = 5
    MaxClock = 3
    NotDrawn = NotDrawn
INVARIANTS ChainVerifies NeighboursLinked
CHECK_DEADLOCK FALSE
