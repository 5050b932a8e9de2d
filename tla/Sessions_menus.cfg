CONSTANTS
    Users = {u1, u2}
    Loadouts = {l1}
    Histories = {h1}
    Clicks = {c1, c2, c3}
    TTL = 2
    Cooldown = 1
    FirstPage = 1
    MaxClock = 3
SPECIFICATION Spec
SYMMETRY Symmetry
INVARIANTS
    LoadoutUsedOnce
    MenuKept
    PagesAgree
CHECK_DEADLOCK FALSE
