CONSTANTS
    o1 = o1
    o2 = o2
    Ops <- MCOps
    Calls <- MCCalls
    NoCall = NoCall
    Lifetimes = {4}
    Margin = 3
    MintTimeout = 1
    Delays = 2
    Simple = {o2}
    Droppable = {o1}
    MaxClock = 5
SPECIFICATION OpSpec
INVARIANTS
    WaitBounded
    OnlyRequiredFail
PROPERTIES
    TokenFresh
    NoStampede
    OperationsEnd
CHECK_DEADLOCK FALSE
