CONSTANTS
    a = a
    b = b
    c = c
    d = d
    NoObj = NoObj
    Obj = {a, b, c, d}
    Key <- MCKey
SPECIFICATION HeapSpec
INVARIANTS
    Consistent
    NothingLost
PROPERTIES
    ImplementsPriorityQueue
    LoopEnds
