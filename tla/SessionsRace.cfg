\* The same token presented by two requests at once.
SPECIFICATION Spec
CONSTANTS
    User = {u1}
    Session = {s1, s2, s3}
    Request = {r1, r2}
    RefreshTTL = 1
    MaxTime = 0
    None = None
INVARIANTS
    DoubleExchangeDetected
