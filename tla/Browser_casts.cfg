CONSTANTS
    Renders = {r1, r2}
    Warmers = {w}
    Recyclers = {x}
    QueueSlots = 2
    Droppable = {r1}
    Casts = {{r1, r2, x}, {r1, w}}
    MaxSpawn = 2
    MaxCrash = 1
SPECIFICATION FairSpec
INVARIANTS
    CaptureIsOwn
    NoStaleHandle
    NoOrphans
PROPERTIES
    PanicsAreCaused
    RendersEnd
CHECK_DEADLOCK FALSE
