SPECIFICATION LiveSpec
CONSTANTS
    Claims = {c1, c2, c3, c4}
    Keys = {k1, k2}
    None = None
INVARIANT LaneLastsWhileClaimed
PROPERTY ImplementsFifo
PROPERTY EveryWaiterLeaves
CHECK_DEADLOCK FALSE
