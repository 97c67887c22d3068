\* Two people, two requests at once.
SPECIFICATION Spec
CONSTANTS
    Users = {u1, u2}
    Requests = {r1, r2}
    Invitations = {i1}
    Role = {"owner", "admin"}
INVARIANT AlwaysAnOwner
CHECK_DEADLOCK FALSE
