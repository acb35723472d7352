\* Two users, two requests at once, every interleaving, while sessions expire.
\* A time to live of 0: a session is valid at the instant it is made, not later.
\* Three ids: a token exchanged twice, and ended as well, is one use more than
\* there are requests.
SPECIFICATION Spec
CONSTANTS
    User = {u1, u2}
    Session = {s1, s2, s3}
    Request = {r1, r2}
    RefreshTTL = 0
    MaxTime = 1
    None = None
SYMMETRY Symmetry
INVARIANTS
    TypeOK
    Lineage
    RevocationExplained
    AuditTruthful
    UsesBounded
PROPERTIES
    RevocationIsPermanent
