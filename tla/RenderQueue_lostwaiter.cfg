CONSTANTS
    Calls = {c1, c2}
    Keys = {k1}
    NoCall = NoCall
    Concurrency = 1
    MaxQueued = 1
    Window = 2
    Droppable = {c1}
SPECIFICATION FairSpec
PROPERTY SharedResultIsBounded
CHECK_DEADLOCK FALSE
