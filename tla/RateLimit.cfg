\* Two requests in a window of three, pipelines that take up to one.
SPECIFICATION Spec
CONSTANTS
    Request = {r1, r2, r3, r4, r5}
    MaxRequests = 2
    Window = 3
    Lag = 1
    MaxTime = 6
SYMMETRY Symmetry
INVARIANTS
    TypeOK
    LimitKept
    RefusedForCause
\* The run ends when every request has an outcome and the clock is at its bound.
CHECK_DEADLOCK FALSE
