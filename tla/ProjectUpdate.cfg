\* One user, one project, one request at a time.
SPECIFICATION ProjectSpec
CONSTANTS
    User = {u1}
    Org = {o1}
    Membership = {m1}
    Invitation = {i1}
    Request = {r1}
    Handlers = {"create"}
    Assignable = {}
    InviteTTL = 1
    MaxTime = 0
    MaxAudit = 1
    None = None
    Project = {p1}
    Call = {c1}
    Name = {n1, n2}
    MaxLog = 4
PROPERTIES
    UpdateAnswered
\* The run ends at its bounds.
CHECK_DEADLOCK FALSE
