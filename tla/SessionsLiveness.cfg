\* Requests that block each other on row locks all end.  Three ids: a double
\* exchange gives a family two live rows, which two family updates then lock in
\* opposite orders.
SPECIFICATION FairSpec
CONSTANTS
    User = {u1}
    Session = {s1, s2, s3}
    Request = {r1, r2}
    RefreshTTL = 0
    MaxTime = 0
    None = None
PROPERTIES
    EveryRequestEnds
