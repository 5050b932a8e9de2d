CONSTANTS
    Commands = {c1, c2, c3, c4}
    Users = {u1, u2}
    Guilds = {g1}
    UserLimit = 1
    GuildLimit = 2
    Window = 3
    Delay = 1
    MaxClock = 5
SPECIFICATION Spec
SYMMETRY Symmetry
INVARIANT BurstBound
PROPERTY RefusalsEarned
CHECK_DEADLOCK FALSE
