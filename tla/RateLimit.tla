----------------------------- MODULE RateLimit -----------------------------
(***************************************************************************)
(* The sliding-window limiter in front of login, refresh and invitations    *)
(* (app/core/rate_limit.py): one key, that is one client at one route.      *)
(*                                                                          *)
(* A request takes its time stamp in the service and sends one pipeline     *)
(* (MULTI/EXEC) to Redis.  Pipelines are executed one after the other, but  *)
(* not in the order of their stamps.                                        *)
(***************************************************************************)
EXTENDS Integers, FiniteSets

CONSTANTS
    Request,
    MaxRequests,  \* of the limit's specification, say 10/minute
    Window,       \* its period
    Lag,          \* bound on the time from a stamp to the pipeline's execution
    MaxTime       \* bound on the clock

ASSUME RequestFinite == IsFiniteSet(Request)
ASSUME LimitAssumption ==
    MaxRequests \in Nat /\ Window \in Nat \ {0} /\ Lag \in Nat /\ MaxTime \in Nat

VARIABLES
    now,
    stamp,     \* time.time() of each request that has arrived
    entries,   \* the sorted set: requests, with their stamps as scores
    deadline,  \* when the key expires
    outcome    \* what became of each request

vars == <<now, stamp, entries, deadline, outcome>>

Outcome == {"unsent",
            "sent",      \* stamped, its pipeline not executed
            "admitted",
            "refused",   \* RateLimitError
            "open",      \* Redis could not be reached: let in, not counted
            "lost"}      \* counted, but the answer was lost: let in

Init ==
    /\ now = 0
    /\ stamp = [r \in Request |-> 0]
    /\ entries = {}
    /\ deadline = 0
    /\ outcome = [r \in Request |-> "unsent"]

Become(r, o) == outcome' = [outcome EXCEPT ![r] = o]

\* Mutant: the request is added to the set before its pipeline is executed.
AddOnArrival(r) ==
    /\ outcome[r] = "unsent"
    /\ stamp' = [stamp EXCEPT ![r] = now]
    /\ entries' = entries \cup {r}
    /\ Become(r, "sent")
    /\ UNCHANGED <<now, deadline>>

Arrive(r) ==
    /\ outcome[r] = "unsent"
    /\ stamp' = [stamp EXCEPT ![r] = now]
    /\ Become(r, "sent")
    /\ UNCHANGED <<now, entries, deadline>>

\* What Redis still has under the key.
Held == IF now > deadline THEN {} ELSE entries

\* ZREMRANGEBYSCORE from 0 to the stamp less the window.
Recent(r) == {q \in Held : stamp[q] > stamp[r] - Window}

\* Mutant: the window is counted before the request is added.
CountFirst(r) ==
    /\ outcome[r] = "sent"
    /\ entries' = Recent(r) \cup {r}
    /\ deadline' = now + Window
    /\ \/ Become(r, IF Cardinality(Recent(r)) > MaxRequests THEN "refused"
                    ELSE "admitted")
       \/ Become(r, "lost")
    /\ UNCHANGED <<now, stamp>>

\* Mutant: nothing is taken out of the window but by the key's expiry.
NothingRemoved(r) ==
    /\ outcome[r] = "sent"
    /\ entries' = Held \cup {r}
    /\ deadline' = now + Window
    /\ \/ Become(r, IF Cardinality(entries') > MaxRequests THEN "refused"
                    ELSE "admitted")
       \/ Become(r, "lost")
    /\ UNCHANGED <<now, stamp>>

\* The pipeline: slide the window, add, count, renew the key.  A refused
\* request has been added too.
Execute(r) ==
    /\ outcome[r] = "sent"
    /\ entries' = Recent(r) \cup {r}
    /\ deadline' = now + Window
    /\ \/ Become(r, IF Cardinality(entries') > MaxRequests THEN "refused"
                    ELSE "admitted")
       \/ Become(r, "lost")
    /\ UNCHANGED <<now, stamp>>

\* Any exception but RateLimitError lets the request in.
FailOpen(r) ==
    /\ outcome[r] = "sent"
    /\ Become(r, "open")
    /\ UNCHANGED <<now, stamp, entries, deadline>>

\* Time passes, but no pipeline takes longer than Lag.
Tick ==
    /\ now < MaxTime
    /\ \A r \in Request : outcome[r] = "sent" => now - stamp[r] < Lag
    /\ now' = now + 1
    /\ UNCHANGED <<stamp, entries, deadline, outcome>>

Next ==
    \/ \E r \in Request : Arrive(r) \/ Execute(r) \/ FailOpen(r)
    \/ Tick

Spec == Init /\ [][Next]_vars

-----------------------------------------------------------------------------
Executed == {r \in Request : outcome[r] \in {"admitted", "refused", "lost"}}

\* The type invariant.
TypeOK ==
    /\ now \in 0 .. MaxTime
    /\ stamp \in [Request -> 0 .. now]
    /\ entries \subseteq Executed
    /\ deadline \in 0 .. now + Window
    /\ outcome \in [Request -> Outcome]

\* The limit holds, but only for windows shorter by the time pipelines may take:
\* a pipeline with a later stamp may be executed first and slide the window on
\* (rate_limit.py:49-57).  Sliding and the expiry of the key lose nothing else.
LimitKept ==
    \A t \in -1 .. MaxTime :
        Cardinality({r \in Request : /\ outcome[r] = "admitted"
                                     /\ stamp[r] > t
                                     /\ stamp[r] <= t + Window - Lag})
            <= MaxRequests

\* Nobody is refused without cause: the client made as many other requests as
\* the limit allows since a window before (those refused are counted as well).
RefusedForCause ==
    \A r \in Request : outcome[r] = "refused" =>
        Cardinality({q \in Executed \ {r} : stamp[q] > stamp[r] - Window})
            >= MaxRequests
=============================================================================
