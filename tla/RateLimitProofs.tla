-------------------------- MODULE RateLimitProofs --------------------------
(***************************************************************************)
(* The limiter of RateLimit keeps its limit and refuses nobody without      *)
(* cause, for every limit, window and delay.                                *)
(***************************************************************************)
EXTENDS RateLimit, FiniteSetTheorems, TLAPS

(* A request waits no longer than Lag; a request that has been executed and *)
(* is not in the sorted set any more is a window old, and the key outlives  *)
(* every entry's window.                                                    *)
Waits == \A r \in Request : outcome[r] = "sent" => now <= stamp[r] + Lag

Kept ==
    /\ \A q \in Executed \ entries : stamp[q] + Window <= now
    /\ \A q \in entries : stamp[q] + Window <= deadline

IndLimit == TypeOK /\ Waits /\ Kept

LEMMA InitLimit == Init => IndLimit
  BY LimitAssumption
  DEF Init, IndLimit, TypeOK, Waits, Kept, Executed, Outcome

LEMMA Members ==
  ASSUME IndLimit
  PROVE  /\ now \in Nat /\ deadline \in Nat
         /\ Window \in Nat /\ Window > 0 /\ Lag \in Nat /\ MaxRequests \in Nat
         /\ \A r \in Request : stamp[r] \in Nat /\ stamp[r] <= now
         /\ entries \subseteq Request
  BY LimitAssumption DEF IndLimit, TypeOK, Executed

\* What Redis no longer has is a window old.
LEMMA HeldUnlessOld ==
  ASSUME IndLimit, NEW q \in Executed, q \notin Held
  PROVE  stamp[q] + Window <= now
<1>1. CASE q \in entries
  <2>1. now > deadline
    BY <1>1 DEF Held
  <2>2. stamp[q] + Window <= deadline
    BY <1>1 DEF IndLimit, Kept
  <2>. QED
    BY <1>1, <2>1, <2>2, Members
<1>2. CASE q \notin entries
  BY <1>2 DEF IndLimit, Kept
<1>. QED
  BY <1>1, <1>2

\* What the pipeline takes out, or finds gone, is a window older than now.
LEMMA RecentUnlessOld ==
  ASSUME IndLimit, NEW r \in Request, NEW q \in Executed, q \notin Recent(r)
  PROVE  stamp[q] + Window <= now
<1>1. CASE q \in Held
  <2>1. ~ (stamp[q] > stamp[r] - Window)
    BY <1>1 DEF Recent
  <2>. QED
    BY <2>1, Members DEF Executed
<1>2. CASE q \notin Held
  BY <1>2, HeldUnlessOld
<1>. QED
  BY <1>1, <1>2

\* What a pipeline changes.
LEMMA ExecuteEffect ==
  ASSUME IndLimit, NEW r \in Request, Execute(r)
  PROVE  /\ r \notin Executed
         /\ Executed' = Executed \cup {r}
         /\ entries' = Recent(r) \cup {r}
         /\ Recent(r) \subseteq entries
         /\ outcome' \in [Request -> Outcome]
         /\ outcome'[r] \in {"admitted", "refused", "lost"}
         /\ \A q \in Request \ {r} : outcome'[q] = outcome[q]
         /\ outcome'[r] = "admitted" =>
                ~ (Cardinality(entries') > MaxRequests)
         /\ outcome'[r] = "refused" => Cardinality(entries') > MaxRequests
<1>1. \E o \in {"admitted", "refused", "lost"} :
        /\ outcome' = [outcome EXCEPT ![r] = o]
        /\ o = "admitted" => ~ (Cardinality(entries') > MaxRequests)
        /\ o = "refused" => Cardinality(entries') > MaxRequests
  BY DEF Execute, Become
<1>2. outcome \in [Request -> Outcome] /\ outcome[r] = "sent"
  BY DEF IndLimit, TypeOK, Execute
<1>3. /\ outcome' \in [Request -> Outcome]
      /\ outcome'[r] \in {"admitted", "refused", "lost"}
      /\ \A q \in Request \ {r} : outcome'[q] = outcome[q]
  BY <1>1, <1>2 DEF Outcome
<1>4. r \notin Executed /\ Executed' = Executed \cup {r}
  BY <1>2, <1>3 DEF Executed
<1>5. entries' = Recent(r) \cup {r} /\ Recent(r) \subseteq entries
  BY DEF Execute, Recent, Held
<1>. QED
  BY <1>1, <1>2, <1>3, <1>4, <1>5

LEMMA ExecuteInductive ==
  ASSUME IndLimit, NEW r \in Request, Execute(r)
  PROVE  IndLimit'
<1>1. now' = now /\ stamp' = stamp /\ deadline' = now + Window
  BY DEF Execute
<1>2. TypeOK'
  <2>1. entries \subseteq Executed
    BY DEF IndLimit, TypeOK
  <2>2. (entries \subseteq Executed)'
    BY <2>1, ExecuteEffect
  <2>3. deadline' \in 0 .. now' + Window
    BY <1>1, Members
  <2>4. now' \in 0 .. MaxTime /\ stamp' \in [Request -> 0 .. now']
    BY <1>1 DEF IndLimit, TypeOK
  <2>. QED
    BY <2>2, <2>3, <2>4, ExecuteEffect DEF TypeOK
<1>3. Waits'
  <2> SUFFICES ASSUME NEW q \in Request, outcome'[q] = "sent"
               PROVE  now' <= stamp'[q] + Lag
    BY DEF Waits
  <2>1. outcome[q] = "sent"
    BY ExecuteEffect
  <2>. QED
    BY <1>1, <2>1 DEF IndLimit, Waits
<1>4. Kept'
  <2>1. ASSUME NEW q \in Executed' \ entries'
        PROVE  stamp'[q] + Window <= now'
    <3>1. q \in Executed /\ q \notin Recent(r)
      BY <2>1, ExecuteEffect
    <3>. QED
      BY <1>1, <3>1, RecentUnlessOld
  <2>2. ASSUME NEW q \in entries'
        PROVE  stamp'[q] + Window <= deadline'
    <3>1. q \in Request
      BY <2>2, ExecuteEffect, Members
    <3>. QED
      BY <1>1, <3>1, Members
  <2>. QED
    BY <2>1, <2>2 DEF Kept
<1>. QED
  BY <1>2, <1>3, <1>4 DEF IndLimit

LEMMA ArriveEffect ==
  ASSUME IndLimit, NEW r \in Request, Arrive(r)
  PROVE  /\ r \notin Executed /\ Executed' = Executed
         /\ outcome' \in [Request -> Outcome]
         /\ \A q \in Request \ {r} : /\ outcome'[q] = outcome[q]
                                     /\ stamp'[q] = stamp[q]
         /\ outcome'[r] = "sent" /\ stamp'[r] = now
<1>1. /\ outcome \in [Request -> Outcome] /\ outcome[r] = "unsent"
      /\ stamp \in [Request -> 0 .. now]
      /\ outcome' = [outcome EXCEPT ![r] = "sent"]
      /\ stamp' = [stamp EXCEPT ![r] = now]
  BY DEF IndLimit, TypeOK, Arrive, Become
<1>. QED
  BY <1>1 DEF Executed, Outcome

LEMMA FailEffect ==
  ASSUME IndLimit, NEW r \in Request, FailOpen(r)
  PROVE  /\ Executed' = Executed
         /\ outcome' \in [Request -> Outcome]
         /\ \A q \in Request \ {r} : outcome'[q] = outcome[q]
         /\ outcome'[r] = "open"
         /\ UNCHANGED <<now, stamp, entries, deadline>>
<1>1. /\ outcome \in [Request -> Outcome] /\ outcome[r] = "sent"
      /\ outcome' = [outcome EXCEPT ![r] = "open"]
      /\ UNCHANGED <<now, stamp, entries, deadline>>
  BY DEF IndLimit, TypeOK, FailOpen, Become
<1>. QED
  BY <1>1 DEF Executed, Outcome

LEMMA ArriveInductive ==
  ASSUME IndLimit, NEW r \in Request, Arrive(r)
  PROVE  IndLimit'
<1>1. UNCHANGED <<now, entries, deadline>>
  BY DEF Arrive
<1>2. stamp' \in [Request -> 0 .. now]
  BY Members DEF Arrive, IndLimit, TypeOK
<1>3. TypeOK'
  BY <1>1, <1>2, ArriveEffect DEF IndLimit, TypeOK
<1>4. Waits'
  BY <1>1, ArriveEffect, Members DEF IndLimit, Waits
<1>5. Kept'
  <2>1. \A q \in Executed \cup entries : stamp'[q] = stamp[q]
    BY ArriveEffect DEF IndLimit, TypeOK, Executed
  <2>. QED
    BY <1>1, <2>1, ArriveEffect DEF IndLimit, Kept
<1>. QED
  BY <1>3, <1>4, <1>5 DEF IndLimit

LEMMA FailInductive ==
  ASSUME IndLimit, NEW r \in Request, FailOpen(r)
  PROVE  IndLimit'
<1>1. TypeOK'
  BY FailEffect DEF IndLimit, TypeOK
<1>2. Waits'
  BY FailEffect DEF IndLimit, Waits
<1>3. Kept'
  BY FailEffect DEF IndLimit, Kept
<1>. QED
  BY <1>1, <1>2, <1>3 DEF IndLimit

LEMMA TickInductive ==
  ASSUME IndLimit, Tick
  PROVE  IndLimit'
<1>1. /\ now' = now + 1 /\ now < MaxTime
      /\ UNCHANGED <<stamp, entries, deadline, outcome>>
      /\ \A r \in Request : outcome[r] = "sent" => now - stamp[r] < Lag
  BY DEF Tick
<1>2. Executed' = Executed
  BY <1>1 DEF Executed
<1>3. TypeOK'
  <2>1. now' \in 0 .. MaxTime /\ deadline' \in 0 .. now' + Window
    BY <1>1, LimitAssumption DEF IndLimit, TypeOK
  <2>2. stamp' \in [Request -> 0 .. now']
    BY <1>1, Members DEF IndLimit, TypeOK
  <2>. QED
    BY <1>1, <1>2, <2>1, <2>2 DEF IndLimit, TypeOK
<1>4. Waits'
  BY <1>1, Members DEF Waits
<1>5. Kept'
  <2>1. \A q \in Executed \ entries : stamp[q] + Window <= now + 1
    BY Members DEF IndLimit, Kept, Executed
  <2>. QED
    BY <1>1, <1>2, <2>1 DEF IndLimit, Kept
<1>. QED
  BY <1>3, <1>4, <1>5 DEF IndLimit

LEMMA LimitInductive == IndLimit /\ [Next]_vars => IndLimit'
<1> SUFFICES ASSUME IndLimit, [Next]_vars PROVE IndLimit'
  OBVIOUS
<1>1. CASE \E r \in Request : Arrive(r)
  BY <1>1, ArriveInductive
<1>2. CASE \E r \in Request : Execute(r)
  BY <1>2, ExecuteInductive
<1>3. CASE \E r \in Request : FailOpen(r)
  BY <1>3, FailInductive
<1>4. CASE Tick
  BY <1>4, TickInductive
<1>5. CASE UNCHANGED vars
  BY <1>5 DEF vars, IndLimit, TypeOK, Waits, Kept, Executed
<1>. QED
  BY <1>1, <1>2, <1>3, <1>4, <1>5 DEF Next

\* Clocks, stamps and the set have their types (app/core/rate_limit.py:44-57).
THEOREM LimiterTyped == Spec => []TypeOK
<1>1. IndLimit => TypeOK
  BY DEF IndLimit
<1>. QED
  BY <1>1, InitLimit, LimitInductive, PTL DEF Spec

-----------------------------------------------------------------------------
(* The limit *)

Admitted(t) ==
    {r \in Request : /\ outcome[r] = "admitted"
                     /\ stamp[r] > t
                     /\ stamp[r] <= t + Window - Lag}

\* All that were let in in the window are counted when one more is.
LEMMA WindowCounted ==
  ASSUME IndLimit, NEW r \in Request, Execute(r),
         NEW t \in -1 .. MaxTime, r \in Admitted(t)'
  PROVE  Admitted(t)' \subseteq entries'
<1> SUFFICES ASSUME NEW q \in Admitted(t)', q # r PROVE q \in Recent(r)
  BY ExecuteEffect
<1>1. stamp' = stamp /\ outcome[r] = "sent"
  BY DEF Execute
<1>2. /\ q \in Request /\ outcome'[q] = "admitted" /\ stamp[q] > t
      /\ stamp[r] > t /\ stamp[r] <= t + Window - Lag
  BY <1>1 DEF Admitted
<1>3. q \in Executed
  BY <1>2, ExecuteEffect DEF Executed
<1>4. now <= stamp[r] + Lag
  BY <1>1 DEF IndLimit, Waits
<1>5. ~ (stamp[q] + Window <= now)
  BY <1>2, <1>4, Members
<1>. QED
  BY <1>3, <1>5, RecentUnlessOld

LEMMA LimitStep ==
  ASSUME IndLimit, LimitKept, [Next]_vars
  PROVE  LimitKept'
<1> SUFFICES ASSUME NEW t \in -1 .. MaxTime
             PROVE  Cardinality(Admitted(t)') <= MaxRequests
  BY DEF LimitKept, Admitted
<1>1. Cardinality(Admitted(t)) <= MaxRequests
  BY DEF LimitKept, Admitted
<1>2. CASE Admitted(t)' = Admitted(t)
  BY <1>1, <1>2
<1>3. CASE \E r \in Request : Execute(r) /\ r \in Admitted(t)'
  <2>1. PICK r \in Request : Execute(r) /\ r \in Admitted(t)'
    BY <1>3
  <2>2. Admitted(t)' \subseteq entries'
    BY <2>1, WindowCounted
  <2>3. entries' \subseteq Request
    BY <2>1, ExecuteEffect, Members
  <2>4. outcome'[r] = "admitted"
    BY <2>1 DEF Admitted
  <2>5. ~ (Cardinality(entries') > MaxRequests)
    BY <2>1, <2>4, ExecuteEffect
  <2>6. IsFiniteSet(entries')
    BY <2>3, RequestFinite, FS_Subset
  <2>7. /\ IsFiniteSet(Admitted(t)')
        /\ Cardinality(Admitted(t)') <= Cardinality(entries')
    BY <2>2, <2>6, FS_Subset
  <2>8. Cardinality(entries') \in Nat /\ Cardinality(Admitted(t)') \in Nat
    BY <2>6, <2>7, FS_CardinalityType
  <2>. QED
    BY <2>5, <2>7, <2>8, Members
<1>4. ASSUME NEW r \in Request, Execute(r), r \notin Admitted(t)'
      PROVE  Admitted(t)' = Admitted(t)
  <2>1. stamp' = stamp /\ outcome[r] = "sent"
    BY <1>4 DEF Execute
  <2>. QED
    BY <1>4, <2>1, ExecuteEffect DEF Admitted
<1>5. ASSUME NEW r \in Request, Arrive(r)
      PROVE  Admitted(t)' = Admitted(t)
  <2>1. outcome[r] = "unsent"
    BY <1>5 DEF Arrive
  <2>. QED
    BY <1>5, <2>1, ArriveEffect DEF Admitted
<1>6. ASSUME NEW r \in Request, FailOpen(r)
      PROVE  Admitted(t)' = Admitted(t)
  <2>1. outcome[r] = "sent"
    BY <1>6 DEF FailOpen
  <2>. QED
    BY <1>6, <2>1, FailEffect DEF Admitted
<1>7. CASE Tick \/ UNCHANGED vars
  BY <1>7, <1>2 DEF Tick, vars, Admitted
<1>. QED
  BY <1>2, <1>3, <1>4, <1>5, <1>6, <1>7 DEF Next

\* In a window shorter by the delay of a pipeline no more than the limit are
\* admitted (app/core/rate_limit.py:49-58).
THEOREM LimitIsKept == Spec => []LimitKept
<1>1. Init => LimitKept
  <2> SUFFICES ASSUME Init, NEW t \in -1 .. MaxTime
               PROVE  Cardinality(Admitted(t)) <= MaxRequests
    BY DEF LimitKept, Admitted
  <2>1. Admitted(t) = {}
    BY DEF Init, Admitted
  <2>. QED
    BY <2>1, FS_EmptySet, LimitAssumption
<1>. QED
  BY <1>1, InitLimit, LimitInductive, LimitStep, PTL DEF Spec

-----------------------------------------------------------------------------
(* Refusals *)

Others(r) == {q \in Executed \ {r} : stamp[q] > stamp[r] - Window}

LEMMA OthersFinite ==
  /\ \A r : IsFiniteSet(Others(r)) /\ Cardinality(Others(r)) \in Nat
  /\ \A r : IsFiniteSet(Others(r)') /\ Cardinality(Others(r)') \in Nat
<1>1. \A r : Others(r) \subseteq Request /\ Others(r)' \subseteq Request
  BY DEF Others, Executed
<1>. QED
  BY <1>1, RequestFinite, FS_Subset, FS_CardinalityType

LEMMA CauseKept ==
  ASSUME NEW r, Cardinality(Others(r)) >= MaxRequests,
         Others(r) \subseteq Others(r)'
  PROVE  Cardinality(Others(r)') >= MaxRequests
<1>1. Cardinality(Others(r)) <= Cardinality(Others(r)')
  BY OthersFinite, FS_Subset
<1>. QED
  BY <1>1, OthersFinite, LimitAssumption

LEMMA CauseFound ==
  ASSUME IndLimit, NEW r \in Request, Execute(r), outcome'[r] = "refused"
  PROVE  Cardinality(Others(r)') >= MaxRequests
<1>1. Recent(r) \subseteq Request /\ IsFiniteSet(Recent(r))
  BY ExecuteEffect, Members, RequestFinite, FS_Subset
<1>2. r \notin Recent(r)
  BY ExecuteEffect DEF IndLimit, TypeOK
<1>3. Cardinality(entries') = Cardinality(Recent(r)) + 1
  BY <1>1, <1>2, ExecuteEffect, FS_AddElement
<1>4. Cardinality(Recent(r)) \in Nat
  BY <1>1, FS_CardinalityType
<1>5. Cardinality(entries') > MaxRequests
  BY ExecuteEffect
<1>6. Cardinality(Recent(r)) >= MaxRequests
  BY <1>3, <1>4, <1>5, LimitAssumption
<1>7. Recent(r) \subseteq Others(r)'
  <2>1. stamp' = stamp
    BY DEF Execute
  <2>2. entries \subseteq Executed
    BY DEF IndLimit, TypeOK
  <2>3. \A q \in Recent(r) : stamp[q] > stamp[r] - Window
    BY DEF Recent
  <2>. QED
    BY <1>2, <2>1, <2>2, <2>3, ExecuteEffect DEF Others
<1>8. Cardinality(Recent(r)) <= Cardinality(Others(r)')
  BY <1>7, OthersFinite, FS_Subset
<1>. QED
  BY <1>4, <1>6, <1>8, OthersFinite, LimitAssumption

LEMMA CauseStep ==
  ASSUME IndLimit, RefusedForCause, [Next]_vars
  PROVE  RefusedForCause'
<1> SUFFICES ASSUME NEW r \in Request, outcome'[r] = "refused"
             PROVE  Cardinality(Others(r)') >= MaxRequests
  BY DEF RefusedForCause, Others
<1>1. CASE outcome[r] = "refused" /\ Others(r) \subseteq Others(r)'
  <2>1. Cardinality(Others(r)) >= MaxRequests
    BY <1>1 DEF RefusedForCause, Others
  <2>. QED
    BY <1>1, <2>1, CauseKept
<1>2. ASSUME NEW q \in Request, Execute(q)
      PROVE  Cardinality(Others(r)') >= MaxRequests
  <2>1. CASE q = r
    BY <1>2, <2>1, CauseFound
  <2>2. CASE q # r
    <3>1. stamp' = stamp
      BY <1>2 DEF Execute
    <3>. QED
      BY <1>1, <1>2, <2>2, <3>1, ExecuteEffect DEF Others
  <2>. QED
    BY <2>1, <2>2
<1>3. ASSUME NEW q \in Request, Arrive(q)
      PROVE  Cardinality(Others(r)') >= MaxRequests
  <2>1. q # r
    BY <1>3, ArriveEffect
  <2>2. q \notin Executed
    BY <1>3, ArriveEffect
  <2>3. \A p \in Executed : stamp'[p] = stamp[p]
    BY <1>3, <2>2, ArriveEffect DEF Executed
  <2>. QED
    BY <1>1, <1>3, <2>1, <2>3, ArriveEffect DEF Others
<1>4. ASSUME NEW q \in Request, FailOpen(q)
      PROVE  Cardinality(Others(r)') >= MaxRequests
  BY <1>1, <1>4, FailEffect DEF Others
<1>5. CASE Tick \/ UNCHANGED vars
  BY <1>1, <1>5 DEF Tick, vars, Others, Executed
<1>. QED
  BY <1>2, <1>3, <1>4, <1>5 DEF Next

\* Whoever is refused had as many other requests counted since a window before
\* as the limit allows (app/core/rate_limit.py:53-58).
THEOREM RefusalHasCause == Spec => []RefusedForCause
<1>1. Init => RefusedForCause
  BY DEF Init, RefusedForCause
<1>. QED
  BY <1>1, InitLimit, LimitInductive, CauseStep, PTL DEF Spec
=============================================================================
