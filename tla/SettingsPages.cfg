SPECIFICATION Spec
CONSTANTS
    p1 = p1
    p2 = p2
    Projects = {p1, p2}
    Followed = {"projects", "keys", "members", "users", "invites", "webhooks", "monitors", "usage"}
    MaxNav = 3
    MaxChanges = 2
    MaxFail = 1
SYMMETRY ProjectSymmetry
CHECK_DEADLOCK FALSE
INVARIANTS
    TypeOK
    AcknowledgedChangeShows
    RefetchSeesChange
