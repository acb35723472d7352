\* A reuse detected while a rotation of the family is in flight.
SPECIFICATION Spec
CONSTANTS
    User = {u1}
    Session = {s1, s2, s3}
    Request = {r1, r2}
    RefreshTTL = 1
    MaxTime = 0
    None = None
INVARIANTS
    ReusedFamilyDead
