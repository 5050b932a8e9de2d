CONSTANTS
    Calls = {c1, c2, c3}
    Keys = {k1, k2}
    NoCall = NoCall
    Concurrency = 1
    MaxQueued = 1
    Window = 1
    Droppable = {c1, c2}
SPECIFICATION ServiceSpec
SYMMETRY Symmetry
INVARIANTS
    ServedIsRendered
    InterruptedIsRecycled
    RetryIsClean
CHECK_DEADLOCK FALSE
