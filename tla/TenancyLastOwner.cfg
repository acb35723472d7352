\* Two requests at once, each demoting one of the two owners.
SPECIFICATION Spec
CONSTANTS
    User = {u1, u2}
    Org = {o1}
    Membership = {m1, m2}
    Invitation = {i1}
    Request = {r1, r2}
    Handlers = {"create", "change", "invite", "accept"}
    Assignable = {"owner", "viewer"}
    InviteTTL = 1
    MaxTime = 0
    MaxAudit = 7
    None = None
SYMMETRY Symmetry
INVARIANTS
    EveryOrgHasOwner
\* The run ends at its bounds, or where no member is left with a permission.
CHECK_DEADLOCK FALSE
