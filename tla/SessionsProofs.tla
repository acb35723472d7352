--------------------------- MODULE SessionsProofs ---------------------------
(***************************************************************************)
(* Proofs about Sessions, for every set of users, ids and requests, every   *)
(* time to live and every bound on the clock.                               *)
(***************************************************************************)
EXTENDS Sessions, FiniteSetTheorems, TLAPS

(* The rows a family UPDATE has locked or is still going to lock.           *)
Covered(q) ==
    q.rows \cup (IF q.pc = "lock" THEN {q.want} \cup q.rest ELSE {})

(* What each request in flight knows is still so of the rows it has read.   *)
(* A live row may have been revoked since, but rows are never deleted.      *)
Knows(q) ==
    q.pc # "idle" =>
        /\ q.sess \in Issued
        /\ q.actor = sessions[q.sess].user
        /\ q.pc \in {"scan", "lock"} => q.op = "reuse"
        /\ q.pc = "raised" => q.op = "refresh"
        /\ q.pc = "update" => q.op \in {"refresh", "logout", "revoke"}
        /\ q.pc = "commit" => /\ q.op \in Op
                              /\ q.op # "reuse" => q.rows = {q.sess}
        /\ q.op = "reuse" => Covered(q) \subseteq FamilyOf(q.sess)

RequestsOK == \A r \in Request : Knows(req[r])

IndTyped == TypeOK /\ RequestsOK

LEMMA InitTyped == Init => IndTyped
  BY TimeAssumption
  DEF Init, IndTyped, TypeOK, RequestsOK, Knows, Idle, Pending, PC

LEMMA IdleTyped == Idle \in Pending /\ Knows(Idle)
  BY DEF Idle, Pending, PC, Knows, Covered

\* A step of one request that writes no table.
LEMMA RequestStep ==
  ASSUME IndTyped, NEW r \in Request, NEW q \in Pending, Knows(q),
         req' = [req EXCEPT ![r] = q],
         UNCHANGED <<users, sessions, audit, now>>
  PROVE  IndTyped'
<1>1. \A p : Knows(p)' <=> Knows(p)
  BY DEF Knows, Covered, Issued, FamilyOf
<1>. QED
  BY <1>1 DEF IndTyped, TypeOK, RequestsOK, Row

\* One step of the family UPDATE: the request covers the rows it held and those
\* it had left, and holds the former.
LEMMA VisitStep ==
  ASSUME IndTyped, NEW r \in Request, req[r].pc \in {"scan", "lock"},
         NEW held \in SUBSET FamilyOf(req[r].sess),
         NEW left \in SUBSET FamilyOf(req[r].sess),
         Visit(r, held, left)
  PROVE  \E q \in Pending :
            /\ req' = [req EXCEPT ![r] = q]
            /\ Knows(q)
            /\ q.pc \in {"lock", "commit"}
            /\ q.op = "reuse"
            /\ q.sess = req[r].sess
            /\ q.expires = req[r].expires
            /\ Covered(q) = held \cup left
<1>1. /\ req \in [Request -> Pending]
      /\ req[r] \in Pending
      /\ req[r].op = "reuse"
      /\ req[r].sess \in Issued
      /\ req[r].actor = sessions[req[r].sess].user
  BY DEF IndTyped, TypeOK, RequestsOK, Knows
<1>2. held \subseteq Session /\ left \subseteq Session
  BY DEF FamilyOf, Issued
<1>3. CASE left = {}
  <2> DEFINE q == [req[r] EXCEPT !.pc = "commit", !.rows = held,
                                 !.want = None, !.rest = {}]
  <2>1. q \in Pending
    BY <1>1, <1>2 DEF Pending, PC
  <2>2. /\ q.pc = "commit" /\ q.op = "reuse" /\ q.sess = req[r].sess
        /\ q.actor = req[r].actor /\ q.rows = held
        /\ q.expires = req[r].expires
    BY <1>1 DEF Pending
  <2>3. req' = [req EXCEPT ![r] = q]
    BY <1>1, <1>3 DEF Visit, Pending
  <2> HIDE DEF q
  <2>4. Covered(q) = held \cup left
    BY <1>3, <2>2 DEF Covered
  <2>5. Knows(q)
    BY <1>1, <1>3, <2>2, <2>4 DEF Knows, Op
  <2>. QED
    BY <2>1, <2>2, <2>3, <2>4, <2>5
<1>4. CASE left # {}
  <2>1. PICK s \in left :
              req' = [req EXCEPT ![r].pc = "lock", ![r].rows = held,
                                 ![r].want = s, ![r].rest = left \ {s}]
    BY <1>4 DEF Visit
  <2> DEFINE q == [req[r] EXCEPT !.pc = "lock", !.rows = held,
                                 !.want = s, !.rest = left \ {s}]
  <2>2. q \in Pending
    BY <1>1, <1>2 DEF Pending, PC
  <2>3. /\ q.pc = "lock" /\ q.op = "reuse" /\ q.sess = req[r].sess
        /\ q.actor = req[r].actor /\ q.rows = held
        /\ q.want = s /\ q.rest = left \ {s}
        /\ q.expires = req[r].expires
    BY <1>1 DEF Pending
  <2>4. req' = [req EXCEPT ![r] = q]
    BY <1>1, <2>1 DEF Pending
  <2> HIDE DEF q
  <2>5. Covered(q) = held \cup left
    BY <2>3 DEF Covered
  <2>6. Knows(q)
    BY <1>1, <2>3, <2>5 DEF Knows
  <2>. QED
    BY <2>2, <2>3, <2>4, <2>5, <2>6
<1>. QED
  BY <1>3, <1>4

\* Both steps of the family UPDATE.
LEMMA ReuseStep ==
  ASSUME IndTyped, NEW r \in Request, ReuseScan(r) \/ ReuseLock(r)
  PROVE  \E q \in Pending :
            /\ req' = [req EXCEPT ![r] = q]
            /\ Knows(q)
            /\ q.pc \in {"lock", "commit"}
            /\ q.op = "reuse"
            /\ q.sess = req[r].sess
            /\ q.expires = req[r].expires
            /\ Covered(q) = IF req[r].pc = "scan"
                            THEN FamilyOf(req[r].sess) \cap Live
                            ELSE Covered(req[r])
<1>1. CASE ReuseScan(r)
  <2> DEFINE held == {}
             found == FamilyOf(req[r].sess) \cap Live
  <2>1. req[r].pc = "scan" /\ Visit(r, held, found)
    BY <1>1 DEF ReuseScan
  <2>2. /\ held \in SUBSET FamilyOf(req[r].sess)
        /\ found \in SUBSET FamilyOf(req[r].sess)
        /\ held \cup found = found
    OBVIOUS
  <2> HIDE DEF held, found
  <2>3. PICK q \in Pending :
               /\ req' = [req EXCEPT ![r] = q]
               /\ Knows(q)
               /\ q.pc \in {"lock", "commit"}
               /\ q.op = "reuse"
               /\ q.sess = req[r].sess
               /\ q.expires = req[r].expires
               /\ Covered(q) = held \cup found
    BY <2>1, <2>2, VisitStep
  <2>4. Covered(q) = found
    BY <2>2, <2>3
  <2>. QED
    BY <2>1, <2>3, <2>4 DEF found
<1>2. CASE ReuseLock(r)
  <2> DEFINE held == req[r].rows \cup {req[r].want}
             left == req[r].rest
  <2>1. /\ req[r].pc = "lock"
        /\ Visit(r, held, left)
    BY <1>2 DEF ReuseLock
  <2>2. /\ Covered(req[r]) \subseteq FamilyOf(req[r].sess)
        /\ Covered(req[r]) = held \cup left
    BY <2>1 DEF IndTyped, RequestsOK, Knows, Covered
  <2>3. /\ held \in SUBSET FamilyOf(req[r].sess)
        /\ left \in SUBSET FamilyOf(req[r].sess)
    BY <2>2
  <2> HIDE DEF held, left
  <2>4. PICK q \in Pending :
               /\ req' = [req EXCEPT ![r] = q]
               /\ Knows(q)
               /\ q.pc \in {"lock", "commit"}
               /\ q.op = "reuse"
               /\ q.sess = req[r].sess
               /\ q.expires = req[r].expires
               /\ Covered(q) = held \cup left
    BY <2>1, <2>3, VisitStep
  <2>5. Covered(q) = Covered(req[r])
    BY <2>2, <2>4
  <2>. QED
    BY <2>1, <2>4, <2>5
<1>. QED
  BY <1>1, <1>2

\* The first step of a request.
LEMMA BeginStep ==
  ASSUME IndTyped, NEW r \in Request, NEW s \in Issued,
         NEW pc, NEW op,
         \/ pc = "scan" /\ op = "reuse"
         \/ pc = "raised" /\ op = "refresh"
         \/ pc = "update" /\ op \in {"refresh", "logout", "revoke"},
         Begin(r, pc, op, s, sessions[s].user),
         UNCHANGED <<users, sessions, audit, now>>
  PROVE  IndTyped'
<1> DEFINE q == [Idle EXCEPT !.pc = pc, !.op = op,
                             !.sess = s, !.actor = sessions[s].user]
<1>1. s \in Session /\ sessions[s].user \in User
  BY DEF IndTyped, TypeOK, Issued, Row
<1>2. q \in Pending
  BY <1>1 DEF Idle, Pending, PC, Op
<1>3. Knows(q)
  BY DEF Idle, Knows, Covered, Op
<1>4. req' = [req EXCEPT ![r] = q]
  BY DEF Begin
<1>. QED
  BY <1>2, <1>3, <1>4, RequestStep

\* What marking rows as revoked does to the table, and what it leaves alone.
LEMMA RevokedRows ==
  ASSUME TypeOK, NEW rows \in SUBSET Issued
  PROVE  /\ Revoked(rows) \in [Session -> Row \cup {None}]
         /\ \A s \in Issued :
               /\ s \in Session
               /\ sessions[s] \in Row
               /\ Revoked(rows)[s] # None
               /\ Revoked(rows)[s].user = sessions[s].user
               /\ Revoked(rows)[s].family = sessions[s].family
               /\ Revoked(rows)[s].parent = sessions[s].parent
               /\ Revoked(rows)[s].expires = sessions[s].expires
               /\ Revoked(rows)[s].revoked <=> s \in rows \/ sessions[s].revoked
         /\ \A s \in Session \ Issued : Revoked(rows)[s] = None
<1>1. \A s \in Issued : sessions[s] \in Row /\ s \in Session
  BY DEF TypeOK, Issued
<1>2. ASSUME NEW s \in Issued
      PROVE  LET e == [sessions[s] EXCEPT !.revoked = TRUE] IN
             /\ e \in Row
             /\ e.user = sessions[s].user
             /\ e.family = sessions[s].family
             /\ e.parent = sessions[s].parent
             /\ e.expires = sessions[s].expires
             /\ e.revoked
  BY <1>1 DEF Row
<1>3. \A s \in Session \ Issued : sessions[s] = None
  BY DEF Issued
<1>4. ASSUME NEW s \in Session
      PROVE  Revoked(rows)[s] = IF s \in rows
                                THEN [sessions[s] EXCEPT !.revoked = TRUE]
                                ELSE sessions[s]
  BY DEF Revoked
<1>5. \A s \in Issued : Revoked(rows)[s] \in Row
  BY <1>1, <1>2, <1>4
<1>6. \A s \in Session \ Issued : Revoked(rows)[s] = None
  BY <1>3, <1>4
<1>7. Revoked(rows) \in [Session -> Row \cup {None}]
  BY <1>5, <1>6 DEF Revoked
<1>8. \A s \in Issued : Revoked(rows)[s] # None
  BY <1>5, NoneIsNoRow
<1>. QED
  BY <1>1, <1>2, <1>4, <1>6, <1>7, <1>8

\* What a request knows survives every write that keeps rows, their users and
\* their families.
LEMMA KnowsKept ==
  ASSUME \A s \in Issued : /\ s \in Issued'
                           /\ sessions'[s].user = sessions[s].user
                           /\ sessions'[s].family = sessions[s].family,
         NEW p, Knows(p)
  PROVE  Knows(p)'
  BY DEF Knows, Covered, FamilyOf

\* The rows a request is about to revoke are rows of the table.
LEMMA RowsIssued ==
  ASSUME IndTyped, NEW r \in Request, req[r].pc = "commit"
  PROVE  /\ req[r] \in Pending
         /\ req[r].op \in Op
         /\ req[r].sess \in Issued
         /\ req[r].actor = sessions[req[r].sess].user
         /\ sessions[req[r].sess] \in Row
         /\ req[r].rows \in SUBSET Issued
         /\ req[r].op # "reuse" => req[r].rows = {req[r].sess}
         /\ req[r].op = "reuse" => req[r].rows \subseteq FamilyOf(req[r].sess)
  BY DEF IndTyped, TypeOK, RequestsOK, Knows, Covered, FamilyOf, Issued, Op

\* The three steps that write the tables, as what they do to the rows.
LEMMA LoginEffect ==
  ASSUME IndTyped, NEW u \in User, NEW s \in Session, Login(u, s)
  PROVE  /\ sessions' \in [Session -> Row \cup {None}]
         /\ s \notin Issued
         /\ Issued' = Issued \cup {s}
         /\ \A t \in Issued : sessions'[t] = sessions[t]
         /\ sessions'[s].user = u
         /\ sessions'[s].family = s
         /\ sessions'[s].parent = None
         /\ sessions'[s].expires = now + RefreshTTL
         /\ ~sessions'[s].revoked
<1> DEFINE row == [user |-> u, family |-> s, parent |-> None,
                   expires |-> now + RefreshTTL, revoked |-> FALSE]
<1>1. now \in Nat
  BY TimeAssumption DEF IndTyped, TypeOK
<1>2. row \in Row
  BY <1>1, TimeAssumption DEF Row
<1>3. row # None
  BY <1>2, NoneIsNoRow
<1>4. sessions' = [sessions EXCEPT ![s] = row] /\ s \in Session \ Issued
  BY DEF Login, Unissued
<1>5. sessions \in [Session -> Row \cup {None}]
  BY DEF IndTyped, TypeOK
<1> HIDE DEF row
<1>6. \A t \in Session : sessions'[t] = IF t = s THEN row ELSE sessions[t]
  BY <1>4, <1>5
<1>7. Issued' = Issued \cup {s}
  BY <1>3, <1>6 DEF Issued
<1>8. \A t \in Issued : sessions'[t] = sessions[t]
  BY <1>4, <1>6 DEF Issued
<1>. QED
  BY <1>2, <1>4, <1>5, <1>6, <1>7, <1>8 DEF row

LEMMA RotationEffect ==
  ASSUME IndTyped, NEW r \in Request, NEW c \in Session, CommitRotation(r, c)
  PROVE  /\ req[r].sess \in Issued
         /\ c \notin Issued
         /\ sessions' \in [Session -> Row \cup {None}]
         /\ Issued' = Issued \cup {c}
         /\ \A t \in Issued :
               /\ sessions'[t].user = sessions[t].user
               /\ sessions'[t].family = sessions[t].family
               /\ sessions'[t].parent = sessions[t].parent
               /\ sessions'[t].expires = sessions[t].expires
               /\ sessions'[t].revoked <=> t = req[r].sess \/ sessions[t].revoked
         /\ sessions'[c].user = sessions[req[r].sess].user
         /\ sessions'[c].family = sessions[req[r].sess].family
         /\ sessions'[c].parent = req[r].sess
         /\ sessions'[c].expires = req[r].expires
         /\ ~sessions'[c].revoked
<1> DEFINE s == req[r].sess
           row == [user |-> sessions[s].user, family |-> sessions[s].family,
                   parent |-> s, expires |-> req[r].expires,
                   revoked |-> FALSE]
           R == Revoked(req[r].rows)
<1>1. /\ req[r] \in Pending
      /\ s \in Issued
      /\ sessions[s] \in Row
      /\ req[r].rows = {s}
  BY RowsIssued DEF CommitRotation
<1>2. row \in Row
  BY <1>1 DEF Row, Pending, Issued
<1>3. row # None
  BY <1>2, NoneIsNoRow
<1>4. sessions' = [R EXCEPT ![c] = row] /\ c \notin Issued
  BY DEF CommitRotation, Unissued
<1>5. TypeOK /\ req[r].rows \in SUBSET Issued
  BY <1>1 DEF IndTyped
<1>6. R \in [Session -> Row \cup {None}]
  BY <1>5, RevokedRows
<1> HIDE DEF row, R
<1>7. \A t \in Session : sessions'[t] = IF t = c THEN row ELSE R[t]
  BY <1>4, <1>6
<1>8. \A t \in Issued :
        /\ t \in Session
        /\ R[t] # None
        /\ R[t].user = sessions[t].user
        /\ R[t].family = sessions[t].family
        /\ R[t].parent = sessions[t].parent
        /\ R[t].expires = sessions[t].expires
        /\ R[t].revoked <=> t = s \/ sessions[t].revoked
  BY <1>1, <1>5, RevokedRows DEF R
<1>9. \A t \in Session \ Issued : R[t] = None
  BY <1>5, RevokedRows DEF R
<1>10. Issued' = Issued \cup {c}
  BY <1>3, <1>7, <1>8, <1>9 DEF Issued
<1>11. sessions' \in [Session -> Row \cup {None}]
  BY <1>2, <1>4, <1>6
<1>. QED
  BY <1>1, <1>4, <1>7, <1>8, <1>10, <1>11 DEF row

LEMMA RevocationEffect ==
  ASSUME IndTyped, NEW r \in Request, CommitRevocation(r)
  PROVE  /\ req[r].sess \in Issued
         /\ req[r].op \in {"logout", "revoke", "reuse"}
         /\ req[r].rows \subseteq Issued
         /\ sessions' \in [Session -> Row \cup {None}]
         /\ Issued' = Issued
         /\ \A t \in Issued :
               /\ sessions'[t].user = sessions[t].user
               /\ sessions'[t].family = sessions[t].family
               /\ sessions'[t].parent = sessions[t].parent
               /\ sessions'[t].expires = sessions[t].expires
               /\ sessions'[t].revoked <=>
                     t \in req[r].rows \/ sessions[t].revoked
<1>1. /\ req[r].op \in {"logout", "revoke", "reuse"}
      /\ req[r].sess \in Issued
      /\ req[r].rows \in SUBSET Issued
  BY RowsIssued DEF CommitRevocation, Op
<1>2. sessions' = Revoked(req[r].rows)
  BY DEF CommitRevocation
<1>3. TypeOK
  BY DEF IndTyped
<1>4. Issued' = Issued
  BY <1>1, <1>2, <1>3, RevokedRows DEF Issued
<1>. QED
  BY <1>1, <1>2, <1>3, <1>4, RevokedRows

LEMMA TypedInductive == IndTyped /\ [Next]_vars => IndTyped'
<1> SUFFICES ASSUME IndTyped, [Next]_vars PROVE IndTyped'
  OBVIOUS
<1>1. ASSUME NEW u \in User, Signup(u) PROVE IndTyped'
  <2>1. \A p : Knows(p)' <=> Knows(p)
    BY <1>1 DEF Signup, Knows, Covered, Issued, FamilyOf
  <2>. QED
    BY <1>1, <2>1 DEF Signup, IndTyped, TypeOK, RequestsOK
<1>2. ASSUME NEW u \in User, NEW s \in Session, Login(u, s) PROVE IndTyped'
  <2>1. Audited("auth.login", u, u) \in AuditEntry
    BY DEF Audited, AuditEntry
  <2>2. TypeOK'
    BY <1>2, <2>1, LoginEffect DEF Login, IndTyped, TypeOK
  <2>3. \A p : Knows(p) => Knows(p)'
    BY <1>2, LoginEffect, KnowsKept
  <2>. QED
    BY <1>2, <2>2, <2>3 DEF Login, IndTyped, RequestsOK
<1>3. ASSUME NEW r \in Request, NEW s \in Session, RefreshRead(r, s)
      PROVE IndTyped'
  BY <1>3, BeginStep DEF RefreshRead
<1>4. ASSUME NEW r \in Request, NEW s \in Session, LogoutRead(r, s)
      PROVE IndTyped'
  BY <1>4, BeginStep DEF LogoutRead
<1>5. ASSUME NEW r \in Request, NEW s \in Session, NEW u \in User,
             RevokeRead(r, u, s)
      PROVE IndTyped'
  BY <1>5, BeginStep DEF RevokeRead
<1>6. ASSUME NEW r \in Request, UpdateRow(r) PROVE IndTyped'
  <2> DEFINE q == [req[r] EXCEPT !.pc = "commit", !.rows = {req[r].sess},
                                 !.expires = IF req[r].op = "refresh"
                                             THEN now + RefreshTTL ELSE 0]
  <2>1. req[r] \in Pending /\ Knows(req[r]) /\ now \in Nat
    BY DEF IndTyped, TypeOK, RequestsOK
  <2>2. req[r].pc = "update"
    BY <1>6 DEF UpdateRow
  <2>3. req[r].sess \in Session
    BY <2>1, <2>2 DEF Knows, Issued
  <2>4. (IF req[r].op = "refresh" THEN now + RefreshTTL ELSE 0) \in Nat
    BY <2>1, TimeAssumption
  <2>5. q \in Pending
    BY <2>1, <2>3, <2>4 DEF Pending, PC
  <2>6. Knows(q)
    BY <2>1, <2>2 DEF Knows, Covered, Pending, Op
  <2>. QED
    BY <1>6, <2>5, <2>6, RequestStep DEF UpdateRow
<1>7. ASSUME NEW r \in Request, ReuseScan(r) PROVE IndTyped'
  BY <1>7, ReuseStep, RequestStep DEF ReuseScan
<1>8. ASSUME NEW r \in Request, ReuseLock(r) PROVE IndTyped'
  BY <1>8, ReuseStep, RequestStep DEF ReuseLock
<1>9. ASSUME NEW r \in Request, NEW c \in Session, CommitRotation(r, c)
      PROVE IndTyped'
  <2>1. req' \in [Request -> Pending]
    BY <1>9, IdleTyped DEF CommitRotation, Finished, IndTyped, TypeOK
  <2>2. TypeOK'
    BY <1>9, <2>1, RotationEffect DEF CommitRotation, IndTyped, TypeOK
  <2>3. \A p : Knows(p) => Knows(p)'
    BY <1>9, RotationEffect, KnowsKept
  <2>4. Knows(Idle)'
    BY IdleTyped, <2>3
  <2>5. \A q \in Request : req'[q] = req[q] \/ req'[q] = Idle
    BY <1>9 DEF CommitRotation, Finished, IndTyped, TypeOK
  <2>. QED
    BY <2>2, <2>3, <2>4, <2>5 DEF IndTyped, RequestsOK
<1>10. ASSUME NEW r \in Request, CommitRevocation(r) PROVE IndTyped'
  <2>1. /\ req[r].op \in {"logout", "revoke", "reuse"}
        /\ req[r].sess \in Issued
        /\ req[r].actor = sessions[req[r].sess].user
        /\ sessions[req[r].sess] \in Row
    BY <1>10, RowsIssued, RevocationEffect DEF CommitRevocation
  <2>2. AuditOf(r) \in AuditEntry
    BY <2>1 DEF AuditOf, Audited, AuditEntry, Row, Issued
  <2>3. req' \in [Request -> Pending]
    BY <1>10, IdleTyped DEF CommitRevocation, Finished, IndTyped, TypeOK
  <2>4. TypeOK'
    BY <1>10, <2>2, <2>3, RevocationEffect
    DEF CommitRevocation, IndTyped, TypeOK
  <2>5. \A p : Knows(p) => Knows(p)'
    BY <1>10, RevocationEffect, KnowsKept
  <2>6. Knows(Idle)'
    BY IdleTyped, <2>5
  <2>7. \A q \in Request : req'[q] = req[q] \/ req'[q] = Idle
    BY <1>10 DEF CommitRevocation, Finished, IndTyped, TypeOK
  <2>. QED
    BY <2>4, <2>5, <2>6, <2>7 DEF IndTyped, RequestsOK
<1>11. ASSUME NEW r \in Request, Rollback(r) PROVE IndTyped'
  BY <1>11, IdleTyped, RequestStep DEF Rollback, Finished
<1>12. CASE Tick
  <2>1. \A p : Knows(p)' <=> Knows(p)
    BY <1>12 DEF Tick, Knows, Covered, Issued, FamilyOf
  <2>2. now' \in 0 .. MaxTime
    BY <1>12, TimeAssumption DEF Tick, IndTyped, TypeOK
  <2>. QED
    BY <1>12, <2>1, <2>2 DEF Tick, IndTyped, TypeOK, RequestsOK
<1>13. CASE UNCHANGED vars
  <2>1. \A p : Knows(p)' <=> Knows(p)
    BY <1>13 DEF vars, Knows, Covered, Issued, FamilyOf
  <2>. QED
    BY <1>13, <2>1 DEF vars, IndTyped, TypeOK, RequestsOK
<1>. QED
  BY <1>1, <1>2, <1>3, <1>4, <1>5, <1>6, <1>7, <1>8, <1>9, <1>10, <1>11,
     <1>12, <1>13 DEF Next, Client, Server

\* The tables and the requests keep their types: rows, audit entries and the
\* private state of every request in flight.
THEOREM TypeCorrect == Spec => []TypeOK
<1>1. Spec => []IndTyped
  BY InitTyped, TypedInductive, PTL DEF Spec
<1>2. IndTyped => TypeOK
  BY DEF IndTyped
<1>. QED
  BY <1>1, <1>2, PTL

-----------------------------------------------------------------------------
(* What a step may do to the tables *)

\* Only three steps write a table of this module.
LEMMA TableSteps ==
  ASSUME [Next]_vars
  PROVE  \/ UNCHANGED <<sessions, audit>>
         \/ \E u \in User, s \in Session : Login(u, s)
         \/ \E r \in Request, c \in Session : CommitRotation(r, c)
         \/ \E r \in Request : CommitRevocation(r)
  BY DEF Next, vars, Client, Server, Signup, RefreshRead, LogoutRead,
         RevokeRead, UpdateRow, ReuseScan, ReuseLock, Rollback, Tick

\* No step deletes a row, edits it, or makes a revoked session live again.
LEMMA RowsKept ==
  ASSUME IndTyped, [Next]_vars, NEW s \in Issued
  PROVE  /\ s \in Issued'
         /\ sessions'[s].user = sessions[s].user
         /\ sessions'[s].family = sessions[s].family
         /\ sessions'[s].parent = sessions[s].parent
         /\ sessions'[s].expires = sessions[s].expires
         /\ sessions[s].revoked => sessions'[s].revoked
<1>1. CASE UNCHANGED <<sessions, audit>>
  BY <1>1 DEF Issued
<1>2. CASE \E u \in User, t \in Session : Login(u, t)
  BY <1>2, LoginEffect
<1>3. CASE \E r \in Request, c \in Session : CommitRotation(r, c)
  BY <1>3, RotationEffect
<1>4. CASE \E r \in Request : CommitRevocation(r)
  BY <1>4, RevocationEffect
<1>. QED
  BY <1>1, <1>2, <1>3, <1>4, TableSteps

LEMMA SameRow ==
  ASSUME NEW a \in Row, NEW b \in Row,
         b.user = a.user, b.family = a.family, b.parent = a.parent,
         b.expires = a.expires, a.revoked => b.revoked
  PROVE  b = a \/ b = [a EXCEPT !.revoked = TRUE]
<1>1. CASE b.revoked = a.revoked
  BY <1>1 DEF Row
<1>2. CASE b.revoked # a.revoked
  <2>1. b.revoked = TRUE
    BY <1>2 DEF Row
  <2>. QED
    BY <2>1 DEF Row
<1>. QED
  BY <1>1, <1>2

\* Revocation is for ever, at any level of concurrency.
THEOREM RevocationPermanent == Spec => RevocationIsPermanent
<1>1. IndTyped /\ [Next]_vars =>
        [\A s \in Issued :
            /\ s \in Issued'
            /\ sessions'[s] = sessions[s]
               \/ sessions'[s] = [sessions[s] EXCEPT !.revoked = TRUE]]_vars
  <2> SUFFICES ASSUME IndTyped, [Next]_vars, NEW s \in Issued
               PROVE  /\ s \in Issued'
                      /\ sessions'[s] = sessions[s]
                         \/ sessions'[s] = [sessions[s] EXCEPT !.revoked = TRUE]
    OBVIOUS
  <2>1. /\ s \in Issued'
        /\ sessions'[s].user = sessions[s].user
        /\ sessions'[s].family = sessions[s].family
        /\ sessions'[s].parent = sessions[s].parent
        /\ sessions'[s].expires = sessions[s].expires
        /\ sessions[s].revoked => sessions'[s].revoked
    BY RowsKept
  <2>2. IndTyped'
    BY TypedInductive
  <2>3. sessions[s] \in Row /\ sessions'[s] \in Row
    BY <2>1, <2>2 DEF IndTyped, TypeOK, Issued
  <2>. QED
    BY <2>1, <2>3, SameRow
<1>2. Spec => []IndTyped
  BY InitTyped, TypedInductive, PTL DEF Spec
<1>. QED
  BY <1>1, <1>2, PTL DEF Spec, RevocationIsPermanent

-----------------------------------------------------------------------------
(* Lineage *)

\* Expiries are never further away than the time to live, and the expiry a
\* rotation has computed is not before its parent's.
Dated ==
    /\ \A s \in Issued : sessions[s].expires <= now + RefreshTTL
    /\ \A r \in Request :
          /\ req[r].expires <= now + RefreshTTL
          /\ req[r].pc = "commit" /\ req[r].op = "refresh" =>
                sessions[req[r].sess].expires <= req[r].expires

IndLineage == Dated /\ Lineage

LEMMA InitLineage == Init => IndLineage
  BY TimeAssumption DEF Init, IndLineage, Dated, Lineage, Issued, Idle

LEMMA ClockSteps == [Next]_vars => now' = now \/ now' = now + 1
  BY DEF Next, vars, Signup, Login, Client, Server, RefreshRead, LogoutRead,
     RevokeRead, UpdateRow, ReuseScan, ReuseLock, CommitRotation,
     CommitRevocation, Rollback, Tick

\* What a step does to the request r.
LEMMA RequestSteps ==
  ASSUME IndTyped, [Next]_vars, NEW r \in Request
  PROVE  \/ req'[r] = req[r]
         \/ req'[r].pc # "commit" /\ req'[r].expires \in {0, req[r].expires}
         \/ req'[r].op = "reuse" /\ req'[r].expires = req[r].expires
         \/ UpdateRow(r)
<1>0. req \in [Request -> Pending]
  BY DEF IndTyped, TypeOK
<1>1. CASE \E q \in Request : Client(q)
  <2>1. PICK q \in Request, pc \in {"scan", "raised", "update"},
             op \in Op, s \in Session : \E u : Begin(q, pc, op, s, u)
    BY <1>1 DEF Client, RefreshRead, LogoutRead, RevokeRead, Op
  <2>2. CASE q = r
    BY <1>0, <2>1, <2>2 DEF Begin, Idle
  <2>3. CASE q # r
    BY <1>0, <2>1, <2>3 DEF Begin
  <2>. QED
    BY <2>2, <2>3
<1>2. CASE \E q \in Request : UpdateRow(q)
  BY <1>0, <1>2 DEF UpdateRow
<1>3. CASE \E q \in Request : ReuseScan(q) \/ ReuseLock(q)
  BY <1>0, <1>3, ReuseStep
<1>4. CASE \E q \in Request : Rollback(q)
  BY <1>0, <1>4 DEF Rollback, Finished, Idle
<1>5. CASE \E q \in Request, c \in Session : CommitRotation(q, c)
  BY <1>0, <1>5 DEF CommitRotation, Finished, Idle
<1>6. CASE \E q \in Request : CommitRevocation(q)
  BY <1>0, <1>6 DEF CommitRevocation, Finished, Idle
<1>7. CASE UNCHANGED req
  BY <1>7
<1>. QED
  BY <1>1, <1>2, <1>3, <1>4, <1>5, <1>6, <1>7
  DEF Next, Server, vars, Signup, Login, Tick

LEMMA AddMonotone ==
  ASSUME NEW a \in Nat, NEW b \in Nat, NEW c \in Nat, a <= b
  PROVE  a + c <= b + c
  OBVIOUS

LEMMA DatedInductive == IndTyped /\ Dated /\ [Next]_vars => Dated'
<1> SUFFICES ASSUME IndTyped, Dated, [Next]_vars PROVE Dated'
  OBVIOUS
<1>0. now \in Nat /\ now' \in Nat /\ RefreshTTL \in Nat /\ now <= now'
  <2>1. IndTyped'
    BY TypedInductive
  <2>2. now \in Nat /\ now' \in Nat
    BY <2>1, TimeAssumption DEF IndTyped, TypeOK
  <2>. QED
    BY <2>2, ClockSteps, TimeAssumption
<1>1. /\ now \in Nat /\ now' \in Nat /\ RefreshTTL \in Nat
      /\ now <= now'
      /\ \A s \in Issued : sessions[s].expires \in Nat
      /\ \A r \in Request : req[r].expires \in Nat
  <2>1. \A s \in Issued : sessions[s] \in Row
    BY DEF IndTyped, TypeOK, Issued
  <2>2. \A r \in Request : req[r] \in Pending
    BY DEF IndTyped, TypeOK
  <2>. QED
    BY <1>0, <2>1, <2>2 DEF Row, Pending
<1>2. ASSUME NEW s \in Issued'
      PROVE  sessions'[s].expires <= now' + RefreshTTL
  <2>1. CASE s \in Issued
    BY <1>1, <2>1, RowsKept DEF Dated
  <2>2. CASE s \notin Issued
    <3>1. CASE UNCHANGED <<sessions, audit>>
      BY <2>2, <3>1 DEF Issued
    <3>2. CASE \E u \in User, t \in Session : Login(u, t)
      <4>1. PICK u \in User, t \in Session : Login(u, t)
        BY <3>2
      <4>2. t = s
        BY <2>2, <4>1, LoginEffect
      <4>3. sessions'[s].expires = now + RefreshTTL
        BY <4>1, <4>2, LoginEffect
      <4>4. now + RefreshTTL <= now' + RefreshTTL
        BY <1>0, AddMonotone
      <4>. QED
        BY <4>3, <4>4, Zenon
    <3>3. CASE \E r \in Request, c \in Session : CommitRotation(r, c)
      <4>1. PICK r \in Request, c \in Session : CommitRotation(r, c)
        BY <3>3
      <4>2. c = s
        BY <2>2, <4>1, RotationEffect
      <4>3. sessions'[s].expires = req[r].expires
        BY <4>1, <4>2, RotationEffect
      <4>. QED
        BY <1>1, <4>3 DEF Dated
    <3>4. CASE \E r \in Request : CommitRevocation(r)
      BY <2>2, <3>4, RevocationEffect
    <3>. QED
      BY <3>1, <3>2, <3>3, <3>4, TableSteps
  <2>. QED
    BY <2>1, <2>2
<1>3. ASSUME NEW r \in Request
      PROVE  /\ req'[r].expires <= now' + RefreshTTL
             /\ req'[r].pc = "commit" /\ req'[r].op = "refresh" =>
                   sessions'[req'[r].sess].expires <= req'[r].expires
  <2>1. req[r].pc # "idle" => req[r].sess \in Issued
    BY DEF IndTyped, RequestsOK, Knows
  <2>2. CASE req'[r] = req[r]
    BY <1>1, <2>1, <2>2, RowsKept DEF Dated
  <2>3. CASE req'[r].pc # "commit" /\ req'[r].expires \in {0, req[r].expires}
    BY <1>1, <2>3 DEF Dated
  <2>4. CASE UpdateRow(r)
    <3>1. /\ req'[r].sess = req[r].sess
          /\ req'[r].op = req[r].op
          /\ req'[r].expires = IF req[r].op = "refresh"
                               THEN now + RefreshTTL ELSE 0
          /\ sessions' = sessions
          /\ now' = now
          /\ req[r].sess \in Issued
      BY <2>1, <2>4 DEF UpdateRow, IndTyped, TypeOK, Pending
    <3>2. sessions[req[r].sess].expires <= now + RefreshTTL
      BY <3>1 DEF Dated
    <3>3. CASE req[r].op = "refresh"
      <4>1. req'[r].expires = now + RefreshTTL
        BY <3>1, <3>3
      <4>. QED
        BY <1>1, <3>1, <3>2, <4>1
    <3>4. CASE req[r].op # "refresh"
      <4>1. req'[r].expires = 0 /\ req'[r].op # "refresh"
        BY <3>1, <3>4
      <4>2. 0 <= now' + RefreshTTL
        BY <1>1
      <4>. QED
        BY <4>1, <4>2
    <3>. QED
      BY <3>3, <3>4
  <2>5. CASE req'[r].op = "reuse" /\ req'[r].expires = req[r].expires
    BY <1>1, <2>5 DEF Dated
  <2>. QED
    BY <2>2, <2>3, <2>4, <2>5, RequestSteps
<1>. QED
  BY <1>2, <1>3 DEF Dated

LEMMA LineageInductive == IndTyped /\ IndLineage /\ [Next]_vars => Lineage'
<1> SUFFICES ASSUME IndTyped, IndLineage, [Next]_vars,
                    NEW c \in Issued', sessions'[c].parent # None
             PROVE  LET p == sessions'[c].parent IN
                    /\ p \in Issued'
                    /\ sessions'[p].revoked
                    /\ sessions'[c].family = sessions'[p].family
                    /\ sessions'[c].user = sessions'[p].user
                    /\ sessions'[c].expires >= sessions'[p].expires
  BY DEF Lineage
<1>1. CASE c \in Issued
  BY <1>1, RowsKept DEF IndLineage, Lineage
<1>2. CASE c \notin Issued
  <2>1. CASE UNCHANGED <<sessions, audit>>
    BY <1>2, <2>1 DEF Issued
  <2>2. CASE \E u \in User, s \in Session : Login(u, s)
    <3>1. PICK u \in User, s \in Session : Login(u, s)
      BY <2>2
    <3>2. c = s
      BY <1>2, <3>1, LoginEffect
    <3>. QED
      BY <3>1, <3>2, LoginEffect
  <2>3. CASE \E r \in Request, d \in Session : CommitRotation(r, d)
    <3>1. PICK r \in Request, d \in Session : CommitRotation(r, d)
      BY <2>3
    <3> DEFINE s == req[r].sess
    <3>2. c = d /\ s \in Issued
      BY <1>2, <3>1, RotationEffect
    <3>3. /\ sessions'[c].parent = s
          /\ sessions'[c].family = sessions[s].family
          /\ sessions'[c].user = sessions[s].user
          /\ sessions'[c].expires = req[r].expires
      BY <3>1, <3>2, RotationEffect
    <3>4. /\ s \in Issued'
          /\ sessions'[s].revoked
          /\ sessions'[s].family = sessions[s].family
          /\ sessions'[s].user = sessions[s].user
          /\ sessions'[s].expires = sessions[s].expires
      BY <3>1, <3>2, RotationEffect
    <3>5. sessions[s].expires <= req[r].expires
      BY <3>1 DEF CommitRotation, IndLineage, Dated
    <3>6. sessions[s].expires \in Nat /\ req[r].expires \in Nat
      BY <3>1, RowsIssued DEF CommitRotation, Row, Pending
    <3>. QED
      BY <3>3, <3>4, <3>5, <3>6
  <2>4. CASE \E r \in Request : CommitRevocation(r)
    BY <1>2, <2>4, RevocationEffect
  <2>. QED
    BY <2>1, <2>2, <2>3, <2>4, TableSteps
<1>. QED
  BY <1>1, <1>2

LEMMA LineageInvariant == Spec => [](IndTyped /\ IndLineage)
<1>1. IndTyped /\ IndLineage /\ [Next]_vars => (IndTyped /\ IndLineage)'
  BY TypedInductive, DatedInductive, LineageInductive DEF IndLineage
<1>. QED
  BY <1>1, InitTyped, InitLineage, PTL DEF Spec

\* A rotation is all or nothing: no child without its revoked parent, none
\* outside the parent's family, none of another user, none that ends earlier.
THEOREM LineageCorrect == Spec => []Lineage
<1>1. IndLineage => Lineage
  BY DEF IndLineage
<1>. QED
  BY <1>1, LineageInvariant, PTL

-----------------------------------------------------------------------------
(* The audit log *)

\* The first session of a family is in the table and belongs to the user of
\* every session of the family.
Rooted ==
    \A s \in Issued : /\ sessions[s].family \in Issued
                      /\ sessions[sessions[s].family].user = sessions[s].user

IndAudit == Rooted /\ RevocationExplained /\ AuditTruthful

LEMMA InitAudit == Init => IndAudit
  BY DEF Init, IndAudit, Rooted, RevocationExplained, AuditTruthful, Issued

LEMMA RootedInductive == IndTyped /\ Rooted /\ [Next]_vars => Rooted'
<1> SUFFICES ASSUME IndTyped, Rooted, [Next]_vars, NEW s \in Issued'
             PROVE  /\ sessions'[s].family \in Issued'
                    /\ sessions'[sessions'[s].family].user = sessions'[s].user
  BY DEF Rooted
<1>1. CASE s \in Issued
  BY <1>1, RowsKept DEF Rooted
<1>2. CASE s \notin Issued
  <2>1. CASE UNCHANGED <<sessions, audit>>
    BY <1>2, <2>1 DEF Issued
  <2>2. CASE \E u \in User, t \in Session : Login(u, t)
    <3>1. PICK u \in User, t \in Session : Login(u, t)
      BY <2>2
    <3>2. t = s
      BY <1>2, <3>1, LoginEffect
    <3>. QED
      BY <3>1, <3>2, LoginEffect
  <2>3. CASE \E r \in Request, c \in Session : CommitRotation(r, c)
    <3>1. PICK r \in Request, c \in Session : CommitRotation(r, c)
      BY <2>3
    <3>2. c = s /\ req[r].sess \in Issued
      BY <1>2, <3>1, RotationEffect
    <3>3. /\ sessions'[s].family = sessions[req[r].sess].family
          /\ sessions'[s].user = sessions[req[r].sess].user
      BY <3>1, <3>2, RotationEffect
    <3>. QED
      BY <3>2, <3>3, RowsKept DEF Rooted
  <2>4. CASE \E r \in Request : CommitRevocation(r)
    BY <1>2, <2>4, RevocationEffect
  <2>. QED
    BY <2>1, <2>2, <2>3, <2>4, TableSteps
<1>. QED
  BY <1>1, <1>2

LEMMA AuditGrows == ASSUME [Next]_vars PROVE audit \subseteq audit'
  BY TableSteps DEF Login, CommitRotation, CommitRevocation

LEMMA ExplainedKept ==
  ASSUME IndTyped, [Next]_vars, NEW s \in Issued, Explained(s)
  PROVE  Explained(s)'
<1>1. Children(s) \subseteq Children(s)'
  BY RowsKept DEF Children
<1>2. sessions'[s].family = sessions[s].family
  BY RowsKept
<1>. QED
  BY <1>1, <1>2, AuditGrows DEF Explained

LEMMA ExplainedInductive ==
  IndTyped /\ RevocationExplained /\ [Next]_vars => RevocationExplained'
<1> SUFFICES ASSUME IndTyped, RevocationExplained, [Next]_vars,
                    NEW s \in Issued', sessions'[s].revoked
             PROVE  Explained(s)'
  BY DEF RevocationExplained
<1>1. CASE s \in Issued /\ sessions[s].revoked
  BY <1>1, ExplainedKept DEF RevocationExplained
<1>2. CASE ~(s \in Issued /\ sessions[s].revoked)
  <2>1. CASE UNCHANGED <<sessions, audit>>
    BY <1>2, <2>1 DEF Issued
  <2>2. CASE \E u \in User, t \in Session : Login(u, t)
    BY <1>2, <2>2, LoginEffect
  <2>3. CASE \E r \in Request, c \in Session : CommitRotation(r, c)
    <3>1. PICK r \in Request, c \in Session : CommitRotation(r, c)
      BY <2>3
    <3>2. s = req[r].sess
      BY <1>2, <3>1, RotationEffect
    <3>3. c \in Issued' /\ sessions'[c].parent = s
      BY <3>1, <3>2, RotationEffect
    <3>. QED
      BY <3>3 DEF Explained, Children
  <2>4. CASE \E r \in Request : CommitRevocation(r)
    <3>1. PICK r \in Request : CommitRevocation(r)
      BY <2>4
    <3>2. s \in Issued /\ s \in req[r].rows
      BY <1>2, <3>1, RevocationEffect
    <3>3. AuditOf(r) \in audit'
      BY <3>1 DEF CommitRevocation
    <3>4. CASE req[r].op = "reuse"
      <4>1. sessions[s].family = sessions[req[r].sess].family
        BY <3>1, <3>2, <3>4, RowsIssued DEF CommitRevocation, FamilyOf
      <4>2. sessions'[s].family = sessions[s].family
        BY <3>2, RowsKept
      <4>3. /\ AuditOf(r).action = "auth.refresh_reuse_detected"
            /\ AuditOf(r).resource = sessions[req[r].sess].family
        BY <3>4 DEF AuditOf, Audited
      <4>. QED
        BY <3>3, <4>1, <4>2, <4>3 DEF Explained
    <3>5. CASE req[r].op \in {"logout", "revoke"}
      <4>1. s = req[r].sess
        BY <3>1, <3>2, <3>5, RowsIssued DEF CommitRevocation
      <4>2. /\ AuditOf(r).action \in {"auth.logout", "session.revoked"}
            /\ AuditOf(r).resource = s
        BY <3>5, <4>1 DEF AuditOf, Audited
      <4>. QED
        BY <3>3, <4>2 DEF Explained
    <3>. QED
      BY <3>1, <3>4, <3>5, RevocationEffect
  <2>. QED
    BY <2>1, <2>2, <2>3, <2>4, TableSteps
<1>. QED
  BY <1>1, <1>2

LEMMA TruthfulInductive ==
  IndTyped /\ Rooted /\ AuditTruthful /\ [Next]_vars => AuditTruthful'
<1> SUFFICES ASSUME IndTyped, Rooted, AuditTruthful, [Next]_vars,
                    NEW e \in audit'
             PROVE
       /\ e.action \in {"auth.logout", "session.revoked"} =>
              /\ e.resource \in Issued'
              /\ sessions'[e.resource].revoked
              /\ sessions'[e.resource].user = e.actor
       /\ e.action = "auth.refresh_reuse_detected" =>
              /\ e.resource \in Issued'
              /\ sessions'[e.resource].user = e.actor
  BY DEF AuditTruthful
<1>1. CASE e \in audit
  <2>1. /\ e.action \in {"auth.logout", "session.revoked"} =>
               /\ e.resource \in Issued
               /\ sessions[e.resource].revoked
               /\ sessions[e.resource].user = e.actor
        /\ e.action = "auth.refresh_reuse_detected" =>
               /\ e.resource \in Issued
               /\ sessions[e.resource].user = e.actor
    BY <1>1 DEF AuditTruthful
  <2>. QED
    BY <2>1, RowsKept
<1>2. CASE e \notin audit
  <2>1. CASE UNCHANGED <<sessions, audit>>
    BY <1>2, <2>1
  <2>2. CASE \E u \in User, t \in Session : Login(u, t)
    BY <1>2, <2>2 DEF Login, Audited
  <2>3. CASE \E r \in Request, c \in Session : CommitRotation(r, c)
    BY <1>2, <2>3 DEF CommitRotation
  <2>4. CASE \E r \in Request : CommitRevocation(r)
    <3>1. PICK r \in Request : CommitRevocation(r)
      BY <2>4
    <3> DEFINE s == req[r].sess
    <3>2. e = AuditOf(r)
      BY <1>2, <3>1 DEF CommitRevocation
    <3>3. s \in Issued /\ req[r].actor = sessions[s].user
      BY <3>1, RowsIssued DEF CommitRevocation
    <3>4. CASE req[r].op = "reuse"
      <4>1. /\ e.action = "auth.refresh_reuse_detected"
            /\ e.resource = sessions[s].family
            /\ e.actor = sessions[s].user
        BY <3>2, <3>3, <3>4 DEF AuditOf, Audited
      <4>2. /\ e.resource \in Issued
            /\ sessions[e.resource].user = sessions[s].user
        BY <3>3, <4>1 DEF Rooted
      <4>. QED
        BY <4>1, <4>2, RowsKept
    <3>5. CASE req[r].op \in {"logout", "revoke"}
      <4>1. /\ e.action \in {"auth.logout", "session.revoked"}
            /\ e.resource = s
            /\ e.actor = sessions[s].user
        BY <3>2, <3>3, <3>5 DEF AuditOf, Audited
      <4>2. s \in req[r].rows
        BY <3>1, <3>5, RowsIssued DEF CommitRevocation
      <4>3. s \in Issued' /\ sessions'[s].revoked
        BY <3>1, <3>3, <4>2, RevocationEffect
      <4>. QED
        BY <3>3, <4>1, <4>3, RowsKept
    <3>. QED
      BY <3>1, <3>4, <3>5, RevocationEffect
  <2>. QED
    BY <2>1, <2>2, <2>3, <2>4, TableSteps
<1>. QED
  BY <1>1, <1>2

LEMMA AuditInvariant == Spec => [](IndTyped /\ IndAudit)
<1>1. IndTyped /\ IndAudit /\ [Next]_vars => (IndTyped /\ IndAudit)'
  BY TypedInductive, RootedInductive, ExplainedInductive, TruthfulInductive
  DEF IndAudit
<1>. QED
  BY <1>1, InitTyped, InitAudit, PTL DEF Spec

\* No session is revoked without a child or an audit entry to tell why.
THEOREM RevocationIsExplained == Spec => []RevocationExplained
<1>1. IndAudit => RevocationExplained
  BY DEF IndAudit
<1>. QED
  BY <1>1, AuditInvariant, PTL

\* Every audit entry about a session tells what is so, of its owner.
THEOREM AuditIsTruthful == Spec => []AuditTruthful
<1>1. IndAudit => AuditTruthful
  BY DEF IndAudit
<1>. QED
  BY <1>1, AuditInvariant, PTL

-----------------------------------------------------------------------------
(* How often one token can be used *)

\* The requests that have read s live and may still exchange or end it.
Using(s) ==
    {r \in Request : /\ req[r].op \in {"refresh", "logout", "revoke"}
                     /\ req[r].pc \in {"update", "commit"}
                     /\ req[r].sess = s}

\* The uses made of s and those on their way never outnumber the requests:
\* nobody joins them once the first has committed.
Budget ==
    \A s \in Issued :
        Cardinality(Children(s)) + Cardinality(Endings(s))
            + Cardinality(Using(s)) <= Cardinality(Request)

LEMMA FiniteParts ==
  /\ Cardinality(Request) \in Nat
  /\ \A C \in SUBSET Session : IsFiniteSet(C) /\ Cardinality(C) \in Nat
  /\ \A R \in SUBSET Request : /\ IsFiniteSet(R)
                                /\ Cardinality(R) \in Nat
                                /\ Cardinality(R) <= Cardinality(Request)
  BY SessionFinite, RequestFinite, FS_Subset, FS_CardinalityType

\* A session is logged out or revoked in the log by its owner only, so that
\* there are two entries at most.
LEMMA FiniteEndings ==
  ASSUME IndTyped, AuditTruthful, NEW s \in Issued
  PROVE  IsFiniteSet(Endings(s)) /\ Cardinality(Endings(s)) \in Nat
<1> DEFINE u == sessions[s].user
           E == {Audited("auth.logout", u, s), Audited("session.revoked", u, s)}
<1>1. ASSUME NEW e \in Endings(s) PROVE e \in E
  <2>1. /\ e \in AuditEntry /\ e.resource = s /\ e.actor = u
        /\ e.action \in {"auth.logout", "session.revoked"}
    BY DEF Endings, AuditTruthful, IndTyped, TypeOK
  <2>2. e = [action |-> e.action, actor |-> e.actor, resource |-> e.resource]
    BY <2>1 DEF AuditEntry
  <2>. QED
    BY <2>1, <2>2 DEF Audited
<1>2. IsFiniteSet(E)
  <2> DEFINE a == Audited("auth.logout", u, s)
             b == Audited("session.revoked", u, s)
  <2> HIDE DEF a, b
  <2>1. IsFiniteSet({a} \cup {b})
    BY FS_Singleton, FS_AddElement
  <2>2. {a} \cup {b} = {a, b}
    OBVIOUS
  <2>3. IsFiniteSet({a, b})
    BY <2>1, <2>2, Zenon
  <2>. QED
    BY <2>3 DEF a, b
<1>. QED
  BY <1>1, <1>2, FS_Subset, FS_CardinalityType

LEMMA AddOne ==
  ASSUME NEW S, NEW x, IsFiniteSet(S)
  PROVE  /\ IsFiniteSet(S \cup {x})
         /\ Cardinality(S \cup {x}) <= Cardinality(S) + 1
<1>1. Cardinality(S) \in Nat
  BY FS_CardinalityType
<1>2. CASE x \in S
  <2>1. S \cup {x} = S
    BY <1>2
  <2>2. Cardinality(S \cup {x}) = Cardinality(S)
    BY <2>1, Zenon
  <2>. QED
    BY <1>1, <2>2, FS_AddElement
<1>3. CASE x \notin S
  BY <1>1, <1>3, FS_AddElement
<1>. QED
  BY <1>2, <1>3

LEMMA LiveHasNoChild ==
  ASSUME Lineage, NEW s \in Issued, ~sessions[s].revoked, s # None
  PROVE  Children(s) = {}
  BY DEF Lineage, Children

\* No request starts to use s once it is revoked.
LEMMA UsingShrinks ==
  ASSUME IndTyped, [Next]_vars, NEW s \in Issued, sessions[s].revoked
  PROVE  Using(s)' \subseteq Using(s)
<1> SUFFICES ASSUME NEW r \in Request,
                    req'[r].op \in {"refresh", "logout", "revoke"},
                    req'[r].pc \in {"update", "commit"}, req'[r].sess = s
             PROVE  /\ req[r].op \in {"refresh", "logout", "revoke"}
                    /\ req[r].pc \in {"update", "commit"}
                    /\ req[r].sess = s
  BY DEF Using
<1>0. req \in [Request -> Pending] /\ Knows(req[r])
  BY DEF IndTyped, TypeOK, RequestsOK
<1>1. CASE req'[r] = req[r]
  BY <1>1
<1>2. CASE UpdateRow(r)
  BY <1>0, <1>2 DEF UpdateRow, Pending
<1>3. CASE ReuseScan(r) \/ ReuseLock(r)
  <2>1. req'[r].op = "reuse"
    BY <1>0, <1>3, ReuseStep
  <2>. QED
    BY <2>1
<1>4. CASE Rollback(r)
  BY <1>0, <1>4 DEF Rollback, Finished, Idle
<1>5. CASE \E c \in Session : CommitRotation(r, c)
  BY <1>0, <1>5 DEF CommitRotation, Finished, Idle
<1>6. CASE CommitRevocation(r)
  BY <1>0, <1>6 DEF CommitRevocation, Finished, Idle
<1>7. CASE Client(r)
  <2>1. ASSUME NEW t \in Session, RefreshRead(r, t) PROVE FALSE
    <3>1. CASE sessions[t].revoked
      BY <1>0, <2>1, <3>1 DEF RefreshRead, Begin, Idle
    <3>2. CASE ~sessions[t].revoked
      <4>1. req'[r].sess = t
        BY <1>0, <2>1, <3>2 DEF RefreshRead, Begin, Idle
      <4>. QED
        BY <3>2, <4>1
    <3>. QED
      BY <3>1, <3>2
  <2>2. ASSUME NEW t \in Session, LogoutRead(r, t) PROVE FALSE
    <3>1. req'[r].sess = t /\ ~sessions[t].revoked
      BY <1>0, <2>2 DEF LogoutRead, Begin, Idle
    <3>. QED
      BY <3>1
  <2>3. ASSUME NEW t \in Session, NEW u \in User, RevokeRead(r, u, t)
        PROVE  FALSE
    <3>1. req'[r].sess = t /\ ~sessions[t].revoked
      BY <1>0, <2>3 DEF RevokeRead, Begin, Idle
    <3>. QED
      BY <3>1
  <2>. QED
    BY <1>7, <2>1, <2>2, <2>3 DEF Client
<1>8. CASE \E q \in Request \ {r} :
               Client(q) \/ Server(q) \/ Rollback(q)
  <2>1. PICK q \in Request \ {r} : Client(q) \/ Server(q) \/ Rollback(q)
    BY <1>8
  <2>2. CASE ReuseScan(q) \/ ReuseLock(q)
    BY <1>0, <1>1, <2>1, <2>2, ReuseStep
  <2>3. CASE Client(q) \/ UpdateRow(q) \/ Rollback(q)
    BY <1>0, <1>1, <2>1, <2>3 DEF Client, RefreshRead, LogoutRead,
       RevokeRead, Begin, UpdateRow, Rollback, Finished
  <2>4. CASE CommitRevocation(q) \/ \E c \in Session : CommitRotation(q, c)
    BY <1>0, <1>1, <2>1, <2>4 DEF CommitRotation, CommitRevocation, Finished
  <2>. QED
    BY <2>1, <2>2, <2>3, <2>4 DEF Server
<1>. QED
  BY <1>1, <1>2, <1>3, <1>4, <1>5, <1>6, <1>7, <1>8
  DEF Next, Server, vars, Signup, Login, Tick

\* Only an exchange adds a child.
LEMMA ChildrenSteps ==
  ASSUME IndTyped, [Next]_vars, NEW s \in Issued,
         ~\E r \in Request, c \in Session :
              CommitRotation(r, c) /\ req[r].sess = s
  PROVE  Children(s)' = Children(s)
<1>1. CASE UNCHANGED <<sessions, audit>>
  BY <1>1 DEF Children, Issued
<1>2. CASE \E u \in User, t \in Session : Login(u, t)
  <2>1. s # None
    BY NoneIsNoId DEF Issued
  <2>. QED
    BY <1>2, <2>1, LoginEffect DEF Children
<1>3. CASE \E r \in Request, c \in Session : CommitRotation(r, c)
  BY <1>3, RotationEffect DEF Children
<1>4. CASE \E r \in Request : CommitRevocation(r)
  BY <1>4, RevocationEffect DEF Children
<1>. QED
  BY <1>1, <1>2, <1>3, <1>4, TableSteps

\* Only a logout or a revocation of s adds an entry that ends it.
LEMMA EndingsSteps ==
  ASSUME IndTyped, [Next]_vars, NEW s \in Issued,
         ~\E r \in Request : CommitRevocation(r) /\ req[r].op # "reuse"
                             /\ req[r].sess = s
  PROVE  Endings(s)' = Endings(s)
<1>1. CASE UNCHANGED <<sessions, audit>>
  BY <1>1 DEF Endings
<1>2. CASE \E u \in User, t \in Session : Login(u, t)
  <2>1. PICK u \in User : audit' = audit \cup {Audited("auth.login", u, u)}
    BY <1>2 DEF Login
  <2>2. Audited("auth.login", u, u).action = "auth.login"
    BY DEF Audited
  <2>. QED
    BY <2>1, <2>2 DEF Endings
<1>3. CASE \E r \in Request, c \in Session : CommitRotation(r, c)
  BY <1>3 DEF CommitRotation, Endings
<1>4. CASE \E r \in Request : CommitRevocation(r)
  <2>1. PICK r \in Request : CommitRevocation(r)
    BY <1>4
  <2>2. audit' = audit \cup {AuditOf(r)}
    BY <2>1 DEF CommitRevocation
  <2>3. CASE req[r].op = "reuse"
    <3>1. AuditOf(r).action = "auth.refresh_reuse_detected"
      BY <2>3 DEF AuditOf, Audited
    <3>. QED
      BY <2>2, <3>1 DEF Endings
  <2>4. CASE req[r].op \in {"logout", "revoke"}
    <3>1. AuditOf(r).resource = req[r].sess
      BY <2>4 DEF AuditOf, Audited
    <3>2. req[r].sess # s
      BY <2>1, <2>4
    <3>. QED
      BY <2>2, <3>1, <3>2 DEF Endings
  <2>. QED
    BY <2>1, <2>3, <2>4, RevocationEffect
<1>. QED
  BY <1>1, <1>2, <1>3, <1>4, TableSteps

LEMMA BudgetInductive ==
  IndTyped /\ IndLineage /\ IndAudit /\ Budget /\ [Next]_vars => Budget'
<1> SUFFICES ASSUME IndTyped, IndLineage, IndAudit, Budget, [Next]_vars,
                    NEW s \in Issued'
             PROVE  Cardinality(Children(s)') + Cardinality(Endings(s)')
                       + Cardinality(Using(s)') <= Cardinality(Request)
  BY DEF Budget
<1>1. Lineage' /\ IndTyped' /\ AuditTruthful'
  BY LineageInductive, TypedInductive, TruthfulInductive DEF IndAudit
<1>2. /\ Cardinality(Children(s)') \in Nat
      /\ Cardinality(Using(s)') \in Nat
      /\ Cardinality(Using(s)') <= Cardinality(Request)
      /\ Cardinality(Request) \in Nat
  BY FiniteParts DEF Children, Using, Issued
<1>3. CASE Children(s)' = {} /\ Endings(s)' = {}
  <2>1. Cardinality(Children(s)') = 0 /\ Cardinality(Endings(s)') = 0
    BY <1>3, FS_EmptySet, Zenon
  <2>. QED
    BY <1>2, <2>1
<1>4. CASE ~(Children(s)' = {} /\ Endings(s)' = {})
  <2>0. s # None
    BY NoneIsNoId DEF Issued
  <2>1. sessions'[s].revoked
    <3>1. CASE Children(s)' # {}
      BY <1>1, <2>0, <3>1 DEF Lineage, Children
    <3>2. CASE Endings(s)' # {}
      BY <1>1, <3>2 DEF AuditTruthful, Endings
    <3>. QED
      BY <1>4, <3>1, <3>2
  <2>2. s \in Issued
    BY <2>1, LoginEffect, RotationEffect, RevocationEffect, TableSteps
    DEF Issued
  <2>3. /\ IsFiniteSet(Children(s)) /\ Cardinality(Children(s)) \in Nat
        /\ IsFiniteSet(Using(s)) /\ Cardinality(Using(s)) \in Nat
        /\ IsFiniteSet(Endings(s)) /\ Cardinality(Endings(s)) \in Nat
        /\ Cardinality(Children(s)) + Cardinality(Endings(s))
              + Cardinality(Using(s)) <= Cardinality(Request)
    BY <2>2, FiniteParts, FiniteEndings
    DEF Budget, Children, Using, Issued, IndAudit
  <2>4. CASE \E r \in Request, c \in Session :
                CommitRotation(r, c) /\ req[r].sess = s
    <3>1. PICK r \in Request, c \in Session :
                 CommitRotation(r, c) /\ req[r].sess = s
      BY <2>4
    <3>2. Children(s)' = Children(s) \cup {c} /\ c \notin Children(s)
      BY <3>1, RotationEffect DEF Children
    <3>3. Using(s)' = Using(s) \ {r} /\ r \in Using(s)
      BY <3>1 DEF CommitRotation, Finished, Idle, Using, IndTyped, TypeOK
    <3>4. Endings(s)' = Endings(s)
      BY <3>1 DEF CommitRotation, Endings
    <3>5. Cardinality(Children(s)') = Cardinality(Children(s)) + 1
      BY <2>3, <3>2, FS_AddElement
    <3>6. Cardinality(Using(s)') = Cardinality(Using(s)) - 1
      BY <2>3, <3>3, FS_RemoveElement
    <3>7. Cardinality(Endings(s)') = Cardinality(Endings(s))
      BY <3>4, Zenon
    <3>. QED
      BY <1>2, <2>3, <3>5, <3>6, <3>7
  <2>5. CASE \E r \in Request : /\ CommitRevocation(r)
                                /\ req[r].op # "reuse"
                                /\ req[r].sess = s
    <3>1. PICK r \in Request : /\ CommitRevocation(r)
                               /\ req[r].op # "reuse"
                               /\ req[r].sess = s
      BY <2>5
    <3>2. Children(s)' = Children(s)
      BY <3>1, RevocationEffect DEF Children
    <3>3. Using(s)' = Using(s) \ {r} /\ r \in Using(s)
      BY <3>1, RevocationEffect
      DEF CommitRevocation, Finished, Idle, Using, IndTyped, TypeOK
    <3>4. Endings(s)' \subseteq Endings(s) \cup {AuditOf(r)}
      BY <3>1 DEF CommitRevocation, Endings
    <3>5. /\ IsFiniteSet(Endings(s) \cup {AuditOf(r)})
          /\ Cardinality(Endings(s) \cup {AuditOf(r)})
                <= Cardinality(Endings(s)) + 1
      BY <2>3, AddOne
    <3>6. /\ Cardinality(Endings(s)') \in Nat
          /\ Cardinality(Endings(s) \cup {AuditOf(r)}) \in Nat
          /\ Cardinality(Endings(s)')
                <= Cardinality(Endings(s) \cup {AuditOf(r)})
      BY <3>4, <3>5, FS_Subset, FS_CardinalityType
    <3>7. Cardinality(Using(s)') = Cardinality(Using(s)) - 1
      BY <2>3, <3>3, FS_RemoveElement
    <3>8. Cardinality(Children(s)') = Cardinality(Children(s))
      BY <3>2, Zenon
    <3>. QED
      BY <1>2, <2>3, <3>5, <3>6, <3>7, <3>8
  <2>6. CASE /\ ~\E r \in Request, c \in Session :
                     CommitRotation(r, c) /\ req[r].sess = s
             /\ ~\E r \in Request : /\ CommitRevocation(r)
                                    /\ req[r].op # "reuse"
                                    /\ req[r].sess = s
    <3>1. Children(s)' = Children(s) /\ Endings(s)' = Endings(s)
      BY <2>2, <2>6, ChildrenSteps, EndingsSteps
    <3>2. sessions[s].revoked
      <4>1. CASE Children(s) # {}
        BY <2>0, <2>2, <4>1, LiveHasNoChild DEF IndLineage
      <4>2. CASE Endings(s) # {}
        BY <4>2 DEF IndAudit, AuditTruthful, Endings
      <4>. QED
        BY <1>4, <3>1, <4>1, <4>2
    <3>3. Cardinality(Using(s)') <= Cardinality(Using(s))
      BY <2>2, <2>3, <3>2, UsingShrinks, FS_Subset
    <3>4. /\ Cardinality(Children(s)') = Cardinality(Children(s))
          /\ Cardinality(Endings(s)') = Cardinality(Endings(s))
      BY <3>1, Zenon
    <3>. QED
      BY <1>2, <2>3, <3>3, <3>4
  <2>. QED
    BY <2>4, <2>5, <2>6
<1>. QED
  BY <1>3, <1>4

\* However many requests name the same token at once, its exchanges, its logout
\* and its revocation together are no more than those requests.
THEOREM UsesAreBounded == Spec => []UsesBounded
<1>1. Init => Budget
  BY DEF Init, Budget, Issued
<1>2. IndTyped /\ IndLineage /\ IndAudit /\ Budget /\ [Next]_vars =>
        (IndTyped /\ IndLineage /\ IndAudit /\ Budget)'
  BY TypedInductive, DatedInductive, LineageInductive, RootedInductive,
     ExplainedInductive, TruthfulInductive, BudgetInductive
  DEF IndLineage, IndAudit
<1>3. IndTyped /\ IndAudit /\ Budget => UsesBounded
  <2> SUFFICES ASSUME IndTyped, AuditTruthful, Budget, NEW s \in Issued
               PROVE  Cardinality(Children(s)) + Cardinality(Endings(s))
                         <= Cardinality(Request)
    BY DEF UsesBounded, IndAudit
  <2>1. /\ Cardinality(Children(s)) \in Nat
        /\ Cardinality(Endings(s)) \in Nat
        /\ Cardinality(Using(s)) \in Nat
        /\ Cardinality(Request) \in Nat
    BY FiniteParts, FiniteEndings DEF Children, Using, Issued
  <2>2. Cardinality(Children(s)) + Cardinality(Endings(s))
           + Cardinality(Using(s)) <= Cardinality(Request)
    BY DEF Budget
  <2>. QED
    BY <2>1, <2>2
<1>. QED
  BY <1>1, <1>2, <1>3, InitTyped, InitLineage, InitAudit, PTL DEF Spec

-----------------------------------------------------------------------------
(* Requests handled one at a time *)

Alone == \A q, r \in Request : q = r

\* With nobody else writing, what the request read is still so when it writes.
Fresh(q) ==
    /\ q.pc \in {"update", "commit"} /\ q.op # "reuse" => q.sess \in Live
    /\ q.pc \in {"lock", "commit"} /\ q.op = "reuse" =>
          FamilyOf(q.sess) \cap Live \subseteq Covered(q)

AllFresh == \A r \in Request : Fresh(req[r])

IndSerial ==
    AllFresh /\ OneLivePerFamily /\ ReusedFamilyDead /\ LoggedOutIsLast

LEMMA InitSerial == Init => IndSerial
  BY DEF Init, IndSerial, AllFresh, Fresh, OneLivePerFamily, ReusedFamilyDead,
     LoggedOutIsLast, Live, Issued, Idle

\* A login starts a family no request in flight knows of.
LEMMA FreshLogin ==
  ASSUME IndTyped, Rooted, NEW u \in User, NEW t \in Session, Login(u, t),
         NEW r \in Request, Fresh(req[r])
  PROVE  Fresh(req[r])'
<1>1. req'[r] = req[r] /\ Knows(req[r])
  BY DEF Login, IndTyped, RequestsOK
<1>2. \A s \in Issued : sessions'[s] = sessions[s]
  BY LoginEffect
<1>3. Issued' = Issued \cup {t} /\ t \notin Issued /\ sessions'[t].family = t
  BY LoginEffect
<1>4. \A s \in Issued : sessions[s].family \in Issued
  BY DEF Rooted
<1>5. \A s \in Issued : (FamilyOf(s) \cap Live)' = FamilyOf(s) \cap Live
  BY <1>2, <1>3, <1>4 DEF FamilyOf, Live
<1>6. Live \subseteq Live'
  BY <1>2, <1>3 DEF Live
<1>7. req[r].pc # "idle" => req[r].sess \in Issued
  BY <1>1 DEF Knows
<1>. QED
  BY <1>1, <1>5, <1>6, <1>7 DEF Fresh, Covered

LEMMA FreshInductive ==
  ASSUME Alone, IndTyped, Rooted, AllFresh, [Next]_vars
  PROVE  AllFresh'
<1> SUFFICES ASSUME NEW r \in Request PROVE Fresh(req[r])'
  BY DEF AllFresh
<1>0. /\ req \in [Request -> Pending] /\ Knows(req[r]) /\ Fresh(req[r])
      /\ \A q \in Request : q = r
  BY DEF Alone, IndTyped, TypeOK, RequestsOK, AllFresh
<1>1. CASE \E u \in User, t \in Session : Login(u, t)
  BY <1>0, <1>1, FreshLogin
<1>2. CASE req' = [req EXCEPT ![r] = Idle]
  BY <1>0, <1>2 DEF Fresh, Idle
<1>3. CASE Client(r)
  <2>1. PICK t \in Issued, pc \in PC, op \in Op :
               /\ Begin(r, pc, op, t, sessions[t].user)
               /\ UNCHANGED sessions
               /\ pc \notin {"lock", "commit"}
               /\ pc = "update" => ~sessions[t].revoked
    BY <1>3 DEF Client, RefreshRead, LogoutRead, RevokeRead, PC, Op
  <2>. QED
    BY <1>0, <2>1 DEF Begin, Idle, Fresh, Live, Issued
<1>4. CASE UpdateRow(r)
  <2>1. /\ req'[r].sess = req[r].sess /\ req'[r].op = req[r].op
        /\ req[r].op # "reuse" /\ req[r].pc = "update"
        /\ sessions' = sessions
    BY <1>0, <1>4 DEF UpdateRow, Knows, Pending
  <2>. QED
    BY <1>0, <2>1 DEF Fresh, Live, Issued
<1>5. CASE ReuseScan(r) \/ ReuseLock(r)
  <2>1. PICK q \in Pending :
               /\ req' = [req EXCEPT ![r] = q]
               /\ q.op = "reuse"
               /\ q.sess = req[r].sess
               /\ Covered(q) = IF req[r].pc = "scan"
                               THEN FamilyOf(req[r].sess) \cap Live
                               ELSE Covered(req[r])
    BY <1>5, ReuseStep
  <2>2. sessions' = sessions
    BY <1>5 DEF ReuseScan, ReuseLock
  <2>3. req'[r] = q
    BY <1>0, <2>1
  <2>4. FamilyOf(q.sess) \cap Live \subseteq Covered(q)
    <3>1. CASE req[r].pc = "scan"
      BY <2>1, <3>1
    <3>2. CASE req[r].pc # "scan"
      <4>1. req[r].pc = "lock" /\ req[r].op = "reuse"
        BY <1>0, <1>5, <3>2 DEF ReuseScan, ReuseLock, Knows
      <4>. QED
        BY <1>0, <2>1, <4>1 DEF Fresh
    <3>. QED
      BY <3>1, <3>2
  <2>5. Fresh(q)
    BY <2>1, <2>4 DEF Fresh
  <2>6. Fresh(q)' <=> Fresh(q)
    BY <2>2 DEF Fresh, Covered, FamilyOf, Live, Issued
  <2>. QED
    BY <2>3, <2>5, <2>6
<1>6. CASE UNCHANGED <<sessions, req>>
  BY <1>0, <1>6 DEF Fresh, Covered, FamilyOf, Live, Issued
<1>. QED
  BY <1>0, <1>1, <1>2, <1>3, <1>4, <1>5, <1>6
  DEF Next, Server, Finished, vars, Signup, Tick, Rollback, CommitRotation,
      CommitRevocation

\* What the two kinds of commit do to the live sessions.
LEMMA SerialRotation ==
  ASSUME IndTyped, AllFresh,
         NEW r \in Request, NEW c \in Session, CommitRotation(r, c)
  PROVE  /\ req[r].sess \in Live
         /\ Live' = (Live \ {req[r].sess}) \cup {c}
<1>1. req[r].sess \in Live
  BY DEF AllFresh, Fresh, CommitRotation
<1>. QED
  BY <1>1, RotationEffect DEF Live

LEMMA SerialRevocation ==
  ASSUME IndTyped, AllFresh, NEW r \in Request, CommitRevocation(r)
  PROVE  /\ req[r].op = "reuse" =>
               Live' = Live \ FamilyOf(req[r].sess)
         /\ req[r].op \in {"logout", "revoke"} =>
               req[r].sess \in Live /\ Live' = Live \ {req[r].sess}
<1>1. /\ req[r].pc = "commit" /\ Fresh(req[r])
      /\ req[r].op # "reuse" => req[r].rows = {req[r].sess}
      /\ req[r].op = "reuse" => req[r].rows \subseteq FamilyOf(req[r].sess)
  BY RowsIssued DEF CommitRevocation, AllFresh
<1>2. Live' = Live \ req[r].rows
  BY RevocationEffect DEF Live
<1>3. CASE req[r].op = "reuse"
  BY <1>1, <1>2, <1>3 DEF Fresh, Covered
<1>4. CASE req[r].op \in {"logout", "revoke"}
  BY <1>1, <1>2, <1>4 DEF Fresh
<1>. QED
  BY <1>3, <1>4

LEMMA OneLiveInductive ==
  ASSUME IndTyped, Rooted, AllFresh, OneLivePerFamily, [Next]_vars
  PROVE  OneLivePerFamily'
<1> SUFFICES ASSUME NEW s \in Live', NEW t \in Live',
                    sessions'[s].family = sessions'[t].family
             PROVE  s = t
  BY DEF OneLivePerFamily
<1>1. CASE UNCHANGED <<sessions, audit>>
  BY <1>1 DEF OneLivePerFamily, Live, Issued
<1>2. CASE \E u \in User, c \in Session : Login(u, c)
  <2>1. PICK u \in User, c \in Session : Login(u, c)
    BY <1>2
  <2>2. Live' = Live \cup {c}
    BY <2>1, LoginEffect DEF Live
  <2>3. \A x \in Live : /\ sessions'[x].family = sessions[x].family
                        /\ sessions[x].family # c
    BY <2>1, LoginEffect DEF Live, Rooted
  <2>4. sessions'[c].family = c
    BY <2>1, LoginEffect
  <2>. QED
    BY <2>2, <2>3, <2>4 DEF OneLivePerFamily
<1>3. CASE \E r \in Request, c \in Session : CommitRotation(r, c)
  <2>1. PICK r \in Request, c \in Session : CommitRotation(r, c)
    BY <1>3
  <2>2. /\ req[r].sess \in Live
        /\ Live' = (Live \ {req[r].sess}) \cup {c}
    BY <2>1, SerialRotation
  <2>3. /\ \A x \in Live : sessions'[x].family = sessions[x].family
        /\ sessions'[c].family = sessions[req[r].sess].family
    BY <2>1, RotationEffect DEF Live
  <2>. QED
    BY <2>2, <2>3 DEF OneLivePerFamily
<1>4. CASE \E r \in Request : CommitRevocation(r)
  <2>1. Live' \subseteq Live
    BY <1>4, RevocationEffect DEF Live
  <2>2. \A x \in Live : sessions'[x].family = sessions[x].family
    BY <1>4, RevocationEffect DEF Live
  <2>. QED
    BY <2>1, <2>2 DEF OneLivePerFamily
<1>. QED
  BY <1>1, <1>2, <1>3, <1>4, TableSteps

LEMMA ReusedDeadInductive ==
  ASSUME IndTyped, IndAudit, AllFresh, ReusedFamilyDead, [Next]_vars
  PROVE  ReusedFamilyDead'
<1> SUFFICES ASSUME NEW e \in audit', NEW s \in Live',
                    e.action = "auth.refresh_reuse_detected",
                    sessions'[s].family = e.resource
             PROVE  FALSE
  BY DEF ReusedFamilyDead
<1>1. CASE UNCHANGED <<sessions, audit>>
  BY <1>1 DEF ReusedFamilyDead, Live, Issued
<1>2. CASE \E u \in User, c \in Session : Login(u, c)
  <2>1. PICK u \in User, c \in Session : Login(u, c)
    BY <1>2
  <2>2. e \in audit /\ e.resource \in Issued
    BY <2>1 DEF Login, Audited, IndAudit, AuditTruthful
  <2>3. s \in Live \/ s = c
    BY <2>1, LoginEffect DEF Live
  <2>4. CASE s = c
    BY <2>1, <2>2, <2>4, LoginEffect
  <2>5. CASE s \in Live
    BY <2>1, <2>2, <2>5, RowsKept DEF ReusedFamilyDead, Live
  <2>. QED
    BY <2>3, <2>4, <2>5
<1>3. CASE \E r \in Request, c \in Session : CommitRotation(r, c)
  <2>1. PICK r \in Request, c \in Session : CommitRotation(r, c)
    BY <1>3
  <2>2. e \in audit
    BY <2>1 DEF CommitRotation
  <2>3. /\ req[r].sess \in Live
        /\ Live' = (Live \ {req[r].sess}) \cup {c}
    BY <2>1, SerialRotation
  <2>4. sessions'[c].family = sessions[req[r].sess].family
    BY <2>1, RotationEffect
  <2>. QED
    BY <2>2, <2>3, <2>4, RowsKept DEF ReusedFamilyDead, Live
<1>4. CASE \E r \in Request : CommitRevocation(r)
  <2>1. PICK r \in Request : CommitRevocation(r)
    BY <1>4
  <2>2. s \in Live /\ sessions[s].family = e.resource
    BY <2>1, RevocationEffect DEF Live
  <2>3. e \notin audit
    BY <2>2 DEF ReusedFamilyDead
  <2>4. e = AuditOf(r)
    BY <2>1, <2>3 DEF CommitRevocation
  <2>5. req[r].op = "reuse" /\ e.resource = sessions[req[r].sess].family
    BY <2>1, <2>4, RevocationEffect DEF AuditOf, Audited
  <2>6. s \in FamilyOf(req[r].sess)
    BY <2>2, <2>5 DEF FamilyOf, Live
  <2>. QED
    BY <2>1, <2>5, <2>6, SerialRevocation
<1>. QED
  BY <1>1, <1>2, <1>3, <1>4, TableSteps

LEMMA LastInductive ==
  ASSUME IndTyped, IndLineage, IndAudit, AllFresh, LoggedOutIsLast, [Next]_vars
  PROVE  LoggedOutIsLast'
<1> SUFFICES ASSUME NEW e \in audit', NEW c \in Issued',
                    e.action \in {"auth.logout", "session.revoked"},
                    sessions'[c].parent = e.resource
             PROVE  FALSE
  BY DEF LoggedOutIsLast, Children
<1>0. ASSUME e \in audit
      PROVE  /\ Children(e.resource) = {}
             /\ e.resource \in Issued /\ e.resource # None
             /\ sessions[e.resource].revoked
  BY <1>0, NoneIsNoId DEF LoggedOutIsLast, IndAudit, AuditTruthful, Issued
<1>1. CASE UNCHANGED <<sessions, audit>>
  BY <1>0, <1>1 DEF Children, Issued
<1>2. CASE \E u \in User, t \in Session : Login(u, t)
  <2>1. PICK u \in User, t \in Session : Login(u, t)
    BY <1>2
  <2>2. e \in audit
    BY <2>1 DEF Login, Audited
  <2>. QED
    BY <1>0, <2>1, <2>2, LoginEffect DEF Children
<1>3. CASE \E r \in Request, t \in Session : CommitRotation(r, t)
  <2>1. PICK r \in Request, t \in Session : CommitRotation(r, t)
    BY <1>3
  <2>2. e \in audit
    BY <2>1 DEF CommitRotation
  <2>3. req[r].sess # e.resource
    BY <1>0, <2>1, <2>2, SerialRotation DEF Live
  <2>. QED
    BY <1>0, <2>1, <2>2, <2>3, RotationEffect DEF Children
<1>4. CASE \E r \in Request : CommitRevocation(r)
  <2>1. PICK r \in Request : CommitRevocation(r)
    BY <1>4
  <2>2. c \in Issued /\ sessions[c].parent = e.resource
    BY <2>1, RevocationEffect
  <2>3. e \notin audit
    BY <1>0, <2>2 DEF Children
  <2>4. e = AuditOf(r)
    BY <2>1, <2>3 DEF CommitRevocation
  <2>5. req[r].op \in {"logout", "revoke"} /\ e.resource = req[r].sess
    BY <2>1, <2>4, RevocationEffect DEF AuditOf, Audited
  <2>6. req[r].sess \in Live
    BY <2>1, <2>5, SerialRevocation
  <2>. QED
    BY <2>2, <2>5, <2>6, LiveHasNoChild, NoneIsNoId
    DEF IndLineage, Live, Issued, Children
<1>. QED
  BY <1>1, <1>2, <1>3, <1>4, TableSteps

LEMMA SerialInvariant ==
  ASSUME Alone
  PROVE  Spec => [](IndTyped /\ IndLineage /\ IndAudit /\ IndSerial)
<1> DEFINE Inv == IndTyped /\ IndLineage /\ IndAudit /\ IndSerial
<1>1. Init => Inv
  BY InitTyped, InitLineage, InitAudit, InitSerial
<1>2. Inv /\ [Next]_vars => Inv'
  <2>1. Inv /\ [Next]_vars => IndSerial'
    BY Alone, FreshInductive, OneLiveInductive, ReusedDeadInductive,
       LastInductive DEF IndSerial, IndAudit
  <2>2. Inv /\ [Next]_vars => (IndTyped /\ IndLineage /\ IndAudit)'
    BY TypedInductive, DatedInductive, LineageInductive, RootedInductive,
       ExplainedInductive, TruthfulInductive DEF IndLineage, IndAudit
  <2>. QED
    BY <2>1, <2>2
<1>. QED
  BY <1>1, <1>2, PTL DEF Spec

\* One request at a time, no family ever has two tokens that work.
THEOREM SerialOneLive == ASSUME Alone PROVE Spec => []OneLivePerFamily
<1>1. IndSerial => OneLivePerFamily
  BY DEF IndSerial
<1>. QED
  BY Alone, <1>1, SerialInvariant, PTL

\* One request at a time, a family whose reuse was detected is dead for good.
THEOREM SerialReuseKills == ASSUME Alone PROVE Spec => []ReusedFamilyDead
<1>1. IndSerial => ReusedFamilyDead
  BY DEF IndSerial
<1>. QED
  BY Alone, <1>1, SerialInvariant, PTL

\* One request at a time, nothing descends from a session that was logged out.
THEOREM SerialLogoutEnds == ASSUME Alone PROVE Spec => []LoggedOutIsLast
<1>1. IndSerial => LoggedOutIsLast
  BY DEF IndSerial
<1>. QED
  BY Alone, <1>1, SerialInvariant, PTL

-----------------------------------------------------------------------------
(* Refinement *)

\* The abstract function from a token to its family.
FamilyMap == [s \in Session |-> IF sessions[s] = None THEN None
                                ELSE sessions[s].family]

LEMMA FamilyMapKept ==
  ASSUME IndTyped, [Next]_vars, Issued' = Issued
  PROVE  FamilyMap' = FamilyMap
  BY RowsKept DEF FamilyMap, Issued

\* A new row adds its family to the map and changes nothing else.
LEMMA FamilyMapGrows ==
  ASSUME IndTyped, [Next]_vars, NEW c \in Session \ Issued,
         Issued' = Issued \cup {c}
  PROVE  /\ FamilyMap' = [FamilyMap EXCEPT ![c] = sessions'[c].family]
         /\ FamilyMap[c] = None
  BY RowsKept DEF FamilyMap, Issued

LEMMA FamilyMapOf ==
  ASSUME IndTyped, NEW f \in Session
  PROVE  {t \in Session : FamilyMap[t] = f}
            = {t \in Issued : sessions[t].family = f}
  BY NoneIsNoId DEF FamilyMap, Issued

LEMMA RefinementStep ==
  ASSUME Alone, IndTyped, IndLineage, IndAudit, IndSerial, [Next]_vars
  PROVE  [Families!Next]_Families!vars
<1> USE DEF IndSerial
<1>1. CASE UNCHANGED <<sessions, audit>>
  BY <1>1 DEF Families!vars, Live, Issued
<1>2. CASE \E u \in User, c \in Session : Login(u, c)
  <2>1. PICK u \in User, c \in Session : Login(u, c)
    BY <1>2
  <2>2. /\ c \in Session \ Issued /\ Issued' = Issued \cup {c}
        /\ sessions'[c].family = c
        /\ Live' = Live \cup {c}
    BY <2>1, LoginEffect DEF Live
  <2>3. FamilyMap' = [FamilyMap EXCEPT ![c] = c] /\ FamilyMap[c] = None
    BY <2>2, FamilyMapGrows
  <2>4. Families!Start(c)
    BY <2>2, <2>3 DEF Families!Start, Families!Fresh, FamilyMap
  <2>. QED
    BY <2>4 DEF Families!Next
<1>3. CASE \E r \in Request, c \in Session : CommitRotation(r, c)
  <2>1. PICK r \in Request, c \in Session : CommitRotation(r, c)
    BY <1>3
  <2> DEFINE s == req[r].sess
  <2>2. s \in Live /\ Live' = (Live \ {s}) \cup {c}
    BY <2>1, SerialRotation
  <2>3. /\ c \in Session \ Issued /\ Issued' = Issued \cup {c}
        /\ sessions'[c].family = sessions[s].family
    BY <2>1, RotationEffect
  <2>4. /\ FamilyMap' = [FamilyMap EXCEPT ![c] = sessions[s].family]
        /\ FamilyMap[c] = None
    BY <2>3, FamilyMapGrows
  <2>5. s \in Session /\ FamilyMap[s] = sessions[s].family
    BY <2>2 DEF FamilyMap, Live, Issued
  <2>6. Families!Exchange(s, c)
    BY <2>2, <2>3, <2>4, <2>5 DEF Families!Exchange, Families!Fresh, FamilyMap
  <2>. QED
    BY <2>3, <2>5, <2>6 DEF Families!Next
<1>4. CASE \E r \in Request : CommitRevocation(r)
  <2>1. PICK r \in Request : CommitRevocation(r)
    BY <1>4
  <2> DEFINE s == req[r].sess
  <2>2. /\ s \in Issued /\ s \in Session
        /\ req[r].op \in {"logout", "revoke", "reuse"}
        /\ FamilyMap' = FamilyMap
    BY <2>1, RevocationEffect, FamilyMapKept DEF Issued
  <2>3. CASE req[r].op = "reuse"
    <3> DEFINE f == sessions[s].family
    <3>1. f \in Session
      BY <2>2 DEF IndAudit, Rooted, Issued
    <3>2. Live' = Live \ {t \in Session : FamilyMap[t] = f}
      BY <2>1, <2>3, <3>1, SerialRevocation, FamilyMapOf DEF FamilyOf
    <3>3. Families!EndFamily(f)
      BY <2>2, <3>2 DEF Families!EndFamily, Families!Members, FamilyMap
    <3>. QED
      BY <3>1, <3>3 DEF Families!Next
  <2>4. CASE req[r].op \in {"logout", "revoke"}
    <3>1. s \in Live /\ Live' = Live \ {s}
      BY <2>1, <2>4, SerialRevocation
    <3>2. Families!End(s)
      BY <2>2, <3>1 DEF Families!End, FamilyMap
    <3>. QED
      BY <2>2, <3>2 DEF Families!Next
  <2>. QED
    BY <2>2, <2>3, <2>4
<1>. QED
  BY <1>1, <1>2, <1>3, <1>4, TableSteps

\* One request at a time, the sessions implement the abstract families: what
\* the promise forbids (a token exchanged twice, a dead token that works, a
\* family with two tokens) no sequence of requests can do.
THEOREM SerialRefinement == ASSUME Alone PROVE Spec => ImplementsFamilies
<1>1. Init => Families!Init
  BY DEF Init, Families!Init, Live, Issued
<1>2. IndTyped /\ IndLineage /\ IndAudit /\ IndSerial /\ [Next]_vars =>
        [Families!Next]_Families!vars
  BY Alone, RefinementStep
<1>3. Spec => [](IndTyped /\ IndLineage /\ IndAudit /\ IndSerial)
  BY Alone, SerialInvariant
<1>. QED
  BY <1>1, <1>2, <1>3, PTL DEF Spec, ImplementsFamilies, Families!Spec
=============================================================================
