\* Two writers and a client that pages through the log of one of two
\* organizations.
SPECIFICATION Spec
CONSTANTS
    Entry = {e1, e2, e3, e4}
    Org = {o1, o2}
    Reads = o1
    Writer = {w1, w2}
    PageSizes = {1, 2}
    MaxTime = 3
    None = None
SYMMETRY Symmetry
INVARIANTS
    TypeOK
    WalkComplete
    RepeatsExplained
    TotalKept
