CONSTANTS
    Slots = {i1, i2}
    Users = {u1, u2}
SPECIFICATION Spec
SYMMETRY Symmetry
INVARIANTS
    Answered
    AckFirst
    ImagePaid
    MenusObeyOwner
PROPERTY OnlyOwnersLink
CHECK_DEADLOCK FALSE
