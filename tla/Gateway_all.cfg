CONSTANTS
    Members = {u1}
    Channels = {ch}
    Guilds = {g1, g2}
    Nowhere = Nowhere
    NoGuild = NoGuild
    MaxEvents = 4
    MaxEnds = 1
SPECIFICATION GatewaySpec
SYMMETRY Symmetry
INVARIANTS
    RegisteredOnce
    ReportTrue
    CacheFollows
PROPERTY NoGap
CHECK_DEADLOCK FALSE
