\* Two project requests beside one request that changes the members; the clock
\* stands still.
SPECIFICATION ProjectSpec
CONSTANTS
    User = {u1, u2}
    Org = {o1, o2}
    Membership = {m1, m2}
    Invitation = {i1}
    Request = {r1}
    Handlers = {"create", "change", "remove", "invite", "accept"}
    Assignable = {"admin", "member", "viewer"}
    InviteTTL = 1
    MaxTime = 0
    MaxAudit = 4
    None = None
    Project = {p1}
    Call = {c1, c2}
    Name = {n1, n2}
    MaxLog = 4
SYMMETRY ProjectSymmetry
VIEW Unanswered
INVARIANTS
    ProjectTypeOK
    ProjectsAccounted
    AuthorityExplained
    FewAfterDeletion
PROPERTIES
    ForeignIsNotFound
\* The run ends at its bounds, or where no member is left with a permission.
CHECK_DEADLOCK FALSE
