\* Two requests at once in one organization, the clock stands still.
\* Three invitations: one more than PendingBounded allows.
SPECIFICATION Spec
CONSTANTS
    User = {u1, u2}
    Org = {o1}
    Membership = {m1, m2, m3}
    Invitation = {i1, i2, i3}
    Request = {r1, r2}
    Handlers = {"create", "change", "remove", "invite", "accept"}
    Assignable = {"owner", "viewer"}
    InviteTTL = 1
    MaxTime = 0
    MaxAudit = 7
    None = None
SYMMETRY Symmetry
INVARIANTS
    TypeOK
    RoleExplained
    RemovalExplained
    AcceptanceComplete
    ActorsEntitled
    PendingBounded
\* The run ends at its bounds, or where no member is left with a permission.
CHECK_DEADLOCK FALSE
