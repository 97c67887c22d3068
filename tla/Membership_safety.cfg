\* Three people, two requests at once, two invitations.
SPECIFICATION Spec
CONSTANTS
    Users = {u1, u2, u3}
    Requests = {r1, r2}
    Invitations = {i1, i2}
    Role = {"owner", "admin"}
SYMMETRY Symmetry
INVARIANTS
    KeepsAnOwner
    OnePendingInvitation
PROPERTIES
    OwnershipTouchedByOwners
    JoinsByUnusedInvitation
CHECK_DEADLOCK FALSE
