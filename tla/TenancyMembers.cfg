\* One request at a time, every handler, two organizations; invitations expire
\* and are sent again.
SPECIFICATION Spec
CONSTANTS
    User = {u1, u2}
    Org = {o1, o2}
    Membership = {m1, m2, m3}
    Invitation = {i1, i2}
    Request = {r1}
    Handlers = {"create", "change", "remove", "invite", "accept"}
    Assignable = {"owner", "viewer"}
    InviteTTL = 1
    MaxTime = 2
    MaxAudit = 8
    None = None
SYMMETRY Symmetry
INVARIANTS
    EveryOrgHasOwner
    InvitationSingleUse
    TenantIsolation
    OnePending
PROPERTIES
    ChangesAuthorised
    ImplementsOrganizations
\* The run ends at its bounds, or where no member is left with a permission.
CHECK_DEADLOCK FALSE
