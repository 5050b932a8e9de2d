CONSTANTS
    Requests = {r1, r2, r3}
    NoRequest = NoRequest
    ChannelSize = 2
    Droppable = {r1}
SPECIFICATION FairSpec
INVARIANTS
    AnswersOwn
    PendingExact
PROPERTY WaitsEnd
CHECK_DEADLOCK FALSE
