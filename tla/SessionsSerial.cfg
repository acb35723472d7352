\* One request at a time: what the code promises of rotation.
SPECIFICATION Spec
CONSTANTS
    User = {u1, u2}
    Session = {s1, s2, s3, s4}
    Request = {r1}
    RefreshTTL = 1
    MaxTime = 2
    None = None
SYMMETRY Symmetry
INVARIANTS
    OneLivePerFamily
    ReusedFamilyDead
    LoggedOutIsLast
PROPERTIES
    ImplementsFamilies
