CONSTANTS
    Calls = {c1, c2, c3}
    Keys = {k1, k2, k3}
    NoCall = NoCall
    Concurrency = 1
    MaxQueued = 1
    Window = 2
    Droppable = {c1, c2, c3}
SPECIFICATION FairSpec
INVARIANTS
    SingleFlight
    CapacityBound
    AnswersShared
    PermitsConserved
    CountersExact
PROPERTIES
    RefusedOnlyWhenBusy
    EveryCallReturns
    ImplementsCoalescing
CHECK_DEADLOCK FALSE
