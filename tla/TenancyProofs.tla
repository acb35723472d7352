---------------------------- MODULE TenancyProofs ----------------------------
(***************************************************************************)
(* Proofs about Tenancy, for every set of users, organizations, ids and     *)
(* requests, however many requests are in flight at once.                   *)
(***************************************************************************)
EXTENDS Tenancy, FiniteSetTheorems, TLAPS

(* u has, or had, a membership in o.                                        *)
Joined(o, u) ==
    \E m \in Membership : /\ members[m] # None
                          /\ members[m].org = o /\ members[m].user = u

(* What a request in flight knows is still so: rows are never taken out of   *)
(* the tables, and neither a membership's organization and user nor anything *)
(* of an invitation but accepted is ever changed.                           *)
Knows(q) ==
    q.pc # "idle" =>
        /\ q.actor \in User /\ q.org \in Org /\ q.target \in User
        /\ q.op \in {"change", "remove", "invite", "accept"}
        /\ q.pc \in {"target", "owners"} => q.op \in {"change", "remove"}
        /\ q.pc \in {"member", "pending"} => q.op = "invite"
        /\ q.pc = "existing" => q.op = "accept"
        /\ q.op \in {"change", "remove", "invite"} => Joined(q.org, q.actor)
        /\ q.op \in {"change", "invite", "accept"} => q.role \in Roles
        /\ q.op = "invite" => q.role # "owner"
        /\ q.op = "remove" => q.role = None
        /\ q.op \in {"change", "remove"} /\ q.row # None => q.old \in Roles
        /\ q.op \in {"change", "remove"} /\ q.pc \in {"owners", "write"} =>
              /\ q.row \in Membership
              /\ members[q.row] # None
              /\ members[q.row].org = q.org
              /\ members[q.row].user = q.target
        /\ q.op = "accept" =>
              /\ q.target = q.actor
              /\ q.row \in Sent
              /\ invites[q.row].org = q.org
              /\ invites[q.row].email = q.actor
              /\ invites[q.row].role = q.role

RequestsOK == \A r \in Request : Knows(req[r])

IndTyped == TypeOK /\ RequestsOK

(* What no step takes back: rows keep their place and what identifies them,  *)
(* an accepted invitation stays accepted, a slug stays taken, and the log    *)
(* only grows.                                                              *)
Kept ==
    /\ \A m \in Membership : members[m] # None =>
          /\ members'[m] # None
          /\ members'[m].org = members[m].org
          /\ members'[m].user = members[m].user
    /\ \A i \in Sent :
          /\ i \in Sent'
          /\ invites'[i].org = invites[i].org
          /\ invites'[i].email = invites[i].email
          /\ invites'[i].role = invites[i].role
          /\ invites[i].accepted => invites'[i].accepted
    /\ audit \subseteq audit'
    /\ \A o \in Org : orgs[o] # None => orgs'[o] = orgs[o]

LEMMA RowTypes ==
  ASSUME TypeOK
  PROVE  /\ \A m \in Membership : members[m] # None => members[m] \in MemberRow
         /\ \A i \in Sent : i \in Invitation /\ invites[i] \in InviteRow
         /\ Present \subseteq Membership
         /\ \A m \in Present : members[m] # None /\ members[m].present
  BY DEF TypeOK, Sent, Present

LEMMA InitTyped == Init => IndTyped
  BY BoundsAssumption
  DEF Init, IndTyped, TypeOK, RequestsOK, Knows, Idle, RequestState, PC

LEMMA IdleTyped == Idle \in RequestState /\ Knows(Idle)
  BY DEF Idle, RequestState, PC, Knows

LEMMA KnowsKept ==
  ASSUME Kept, NEW p, Knows(p)
  PROVE  Knows(p)'
<1>1. ASSUME NEW o, NEW u, Joined(o, u) PROVE Joined(o, u)'
  BY <1>1 DEF Kept, Joined
<1>. QED
  BY <1>1 DEF Kept, Knows

\* A step of one request that writes no table.
LEMMA RequestStep ==
  ASSUME IndTyped, NEW r \in Request, NEW q \in RequestState, Knows(q),
         req' = [req EXCEPT ![r] = q],
         UNCHANGED <<orgs, members, invites, audit, now>>
  PROVE  IndTyped'
<1>1. \A p : Knows(p)' <=> Knows(p)
  BY DEF Knows, Sent, Joined
<1>2. TypeOK'
  BY DEF IndTyped, TypeOK
<1>. QED
  BY <1>1, <1>2 DEF IndTyped, TypeOK, RequestsOK

\* A step that ends a request and writes tables.
LEMMA EndStep ==
  ASSUME IndTyped, NEW r \in Request, Kept, End(r),
         orgs' \in [Org -> User \cup {None}],
         members' \in [Membership -> MemberRow \cup {None}],
         invites' \in [Invitation -> InviteRow \cup {None}],
         audit' \subseteq AuditEntry,
         UNCHANGED now
  PROVE  IndTyped'
<1>1. req' \in [Request -> RequestState]
  BY IdleTyped DEF End, IndTyped, TypeOK
<1>2. TypeOK'
  BY <1>1 DEF IndTyped, TypeOK
<1>3. \A p : Knows(p) => Knows(p)'
  BY KnowsKept
<1>4. Knows(Idle)'
  BY DEF Knows, Idle
<1>5. RequestsOK'
  BY <1>3, <1>4 DEF End, IndTyped, TypeOK, RequestsOK
<1>. QED
  BY <1>2, <1>5 DEF IndTyped

-----------------------------------------------------------------------------
(* The steps that write the tables, as what they do to the rows.            *)

LEMMA CreateEffect ==
  ASSUME IndTyped, NEW a \in User, NEW o \in Org, NEW m \in Membership,
         CreateOrg(a, o, m)
  PROVE  /\ members[m] = None /\ orgs[o] = None
         /\ orgs' \in [Org -> User \cup {None}]
         /\ \A p \in Org : orgs'[p] = IF p = o THEN a ELSE orgs[p]
         /\ members' \in [Membership -> MemberRow \cup {None}]
         /\ members'[m] # None
         /\ members'[m].org = o /\ members'[m].user = a
         /\ members'[m].role = "owner" /\ members'[m].present
         /\ \A n \in Membership : n # m => members'[n] = members[n]
         /\ Kept
<1> DEFINE row == [org |-> o, user |-> a, role |-> "owner", present |-> TRUE]
<1>1. row \in MemberRow
  BY DEF MemberRow, Roles
<1>2. row # None
  BY <1>1, NoneIsNoRow
<1>3. /\ members[m] = None /\ orgs[o] = None
      /\ members' = [members EXCEPT ![m] = row]
      /\ orgs' = [orgs EXCEPT ![o] = a]
      /\ audit \subseteq audit'
      /\ invites' = invites
  BY DEF CreateOrg
<1>4. /\ members \in [Membership -> MemberRow \cup {None}]
      /\ orgs \in [Org -> User \cup {None}]
  BY DEF IndTyped, TypeOK
<1>5. row.org = o /\ row.user = a /\ row.role = "owner" /\ row.present
  OBVIOUS
<1> HIDE DEF row
<1>6. \A n \in Membership : members'[n] = IF n = m THEN row ELSE members[n]
  BY <1>3, <1>4
<1>7. \A p \in Org : orgs'[p] = IF p = o THEN a ELSE orgs[p]
  BY <1>3, <1>4
<1>8. /\ members' \in [Membership -> MemberRow \cup {None}]
      /\ orgs' \in [Org -> User \cup {None}]
  BY <1>1, <1>3, <1>4
<1>9. Kept
  BY <1>3, <1>6, <1>7 DEF Kept, Sent
<1>. QED
  BY <1>2, <1>3, <1>5, <1>6, <1>7, <1>8, <1>9

LEMMA ChangeEffect ==
  ASSUME IndTyped, NEW r \in Request, ChangeWrite(r), req[r].row \in Present
  PROVE  /\ req[r].row \in Membership
         /\ members[req[r].row].org = req[r].org
         /\ members[req[r].row].user = req[r].target
         /\ req[r].role \in Roles /\ req[r].old \in Roles
         /\ members' \in [Membership -> MemberRow \cup {None}]
         /\ \A n \in Membership :
               n # req[r].row \/ req[r].role = req[r].old
                  => members'[n] = members[n]
         /\ LET m == req[r].row IN
               /\ members'[m] # None
               /\ members'[m].org = members[m].org
               /\ members'[m].user = members[m].user
               /\ members'[m].present
               /\ req[r].role # req[r].old => members'[m].role = req[r].role
         /\ audit' = audit \cup {Entry("role.changed", req[r].actor, req[r].org,
                                       req[r].row, req[r].old, req[r].role)}
         /\ Kept
<1> DEFINE m == req[r].row
           row == [members[m] EXCEPT !.role = req[r].role]
<1>1. /\ Knows(req[r]) /\ TypeOK
      /\ members \in [Membership -> MemberRow \cup {None}]
  BY DEF IndTyped, RequestsOK, TypeOK
<1>2. req[r].pc = "write" /\ req[r].op = "change"
  BY DEF ChangeWrite
<1>3. /\ m \in Membership /\ members[m] # None /\ members[m].present
      /\ members[m].org = req[r].org /\ members[m].user = req[r].target
      /\ members[m] \in MemberRow
      /\ req[r].role \in Roles
  BY <1>1, <1>2, RowTypes DEF Knows
<1>4. req[r].old \in Roles
  BY <1>1, <1>2, <1>3, NoneIsNoId DEF Knows
<1>5. /\ row \in MemberRow
      /\ row.org = members[m].org /\ row.user = members[m].user
      /\ row.role = req[r].role /\ row.present
  BY <1>3 DEF MemberRow
<1>6. row # None
  BY <1>5, NoneIsNoRow
<1>7. /\ members' = IF req[r].role = req[r].old THEN members
                    ELSE [members EXCEPT ![m] = row]
      /\ audit' = audit \cup {Entry("role.changed", req[r].actor, req[r].org,
                                    req[r].row, req[r].old, req[r].role)}
      /\ UNCHANGED <<orgs, invites, now>>
  BY DEF ChangeWrite
<1> HIDE DEF row
<1>8. \A n \in Membership :
         members'[n] = IF n = m /\ req[r].role # req[r].old THEN row
                       ELSE members[n]
  BY <1>1, <1>7
<1>9. members' \in [Membership -> MemberRow \cup {None}]
  BY <1>1, <1>5, <1>7
<1>10. Kept
  BY <1>3, <1>5, <1>6, <1>7, <1>8 DEF Kept, Sent
<1>. QED
  BY <1>3, <1>4, <1>5, <1>6, <1>7, <1>8, <1>9, <1>10

LEMMA RemoveEffect ==
  ASSUME IndTyped, NEW r \in Request, RemoveWrite(r)
  PROVE  /\ req[r].row \in Membership
         /\ members[req[r].row] # None
         /\ members[req[r].row].org = req[r].org
         /\ members[req[r].row].user = req[r].target
         /\ members' \in [Membership -> MemberRow \cup {None}]
         /\ \A n \in Membership : n # req[r].row => members'[n] = members[n]
         /\ LET m == req[r].row IN
               /\ members'[m] # None
               /\ members'[m].org = members[m].org
               /\ members'[m].user = members[m].user
               /\ members'[m].role = members[m].role
               /\ ~members'[m].present
         /\ Kept
<1> DEFINE m == req[r].row
           row == [members[m] EXCEPT !.present = FALSE]
<1>1. /\ Knows(req[r]) /\ TypeOK
      /\ members \in [Membership -> MemberRow \cup {None}]
  BY DEF IndTyped, RequestsOK, TypeOK
<1>2. req[r].pc = "write" /\ req[r].op = "remove"
  BY DEF RemoveWrite
<1>3. /\ m \in Membership /\ members[m] # None
      /\ members[m].org = req[r].org /\ members[m].user = req[r].target
      /\ members[m] \in MemberRow
  BY <1>1, <1>2, RowTypes DEF Knows
<1>4. /\ row \in MemberRow
      /\ row.org = members[m].org /\ row.user = members[m].user
      /\ row.role = members[m].role /\ ~row.present
  BY <1>3 DEF MemberRow
<1>5. row # None
  BY <1>4, NoneIsNoRow
<1>6. /\ members' = [members EXCEPT ![m] = row]
      /\ audit \subseteq audit'
      /\ UNCHANGED <<orgs, invites, now>>
  BY DEF RemoveWrite
<1> HIDE DEF row
<1>7. \A n \in Membership : members'[n] = IF n = m THEN row ELSE members[n]
  BY <1>1, <1>6
<1>8. members' \in [Membership -> MemberRow \cup {None}]
  BY <1>1, <1>4, <1>6
<1>9. Kept
  BY <1>3, <1>4, <1>5, <1>6, <1>7 DEF Kept, Sent
<1>. QED
  BY <1>3, <1>4, <1>5, <1>7, <1>8, <1>9

LEMMA InviteEffect ==
  ASSUME IndTyped, NEW r \in Request, NEW i \in Invitation, InviteWrite(r, i)
  PROVE  /\ i \notin Sent
         /\ req[r].role \in Roles /\ req[r].role # "owner"
         /\ req[r].org \in Org /\ req[r].target \in User
         /\ invites' \in [Invitation -> InviteRow \cup {None}]
         /\ Sent' = Sent \cup {i}
         /\ \A j \in Invitation : j # i => invites'[j] = invites[j]
         /\ invites'[i].org = req[r].org
         /\ invites'[i].email = req[r].target
         /\ invites'[i].role = req[r].role
         /\ invites'[i].expires = now + InviteTTL
         /\ ~invites'[i].accepted
         /\ Kept
<1> DEFINE row == [org |-> req[r].org, email |-> req[r].target,
                   role |-> req[r].role, expires |-> now + InviteTTL,
                   accepted |-> FALSE]
<1>1. /\ Knows(req[r]) /\ now \in Nat
      /\ invites \in [Invitation -> InviteRow \cup {None}]
  BY BoundsAssumption DEF IndTyped, RequestsOK, TypeOK
<1>2. /\ req[r].pc = "write" /\ req[r].op = "invite" /\ i \notin Sent
      /\ invites' = [invites EXCEPT ![i] = row]
      /\ audit \subseteq audit'
      /\ UNCHANGED <<orgs, members, now>>
  BY DEF InviteWrite
<1>3. /\ req[r].role \in Roles /\ req[r].role # "owner"
      /\ req[r].org \in Org /\ req[r].target \in User
  BY <1>1, <1>2 DEF Knows
<1>4. now + InviteTTL \in Nat
  BY <1>1, BoundsAssumption
<1>5. row \in InviteRow
  BY <1>3, <1>4 DEF InviteRow
<1>6. row # None
  BY <1>5, NoneIsNoRow
<1>7. /\ row.org = req[r].org /\ row.email = req[r].target
      /\ row.role = req[r].role /\ row.expires = now + InviteTTL
      /\ ~row.accepted
  OBVIOUS
<1> HIDE DEF row
<1>8. \A j \in Invitation : invites'[j] = IF j = i THEN row ELSE invites[j]
  BY <1>1, <1>2
<1>9. invites' \in [Invitation -> InviteRow \cup {None}]
  BY <1>1, <1>2, <1>5
<1>10. Sent' = Sent \cup {i}
  BY <1>6, <1>8 DEF Sent
<1>11. Kept
  BY <1>2, <1>8, <1>10 DEF Kept, Sent
<1>. QED
  BY <1>2, <1>3, <1>7, <1>8, <1>9, <1>10, <1>11

LEMMA AcceptEffect ==
  ASSUME IndTyped, NEW r \in Request, NEW m \in Membership, AcceptWrite(r, m)
  PROVE  LET q == req[r] IN
         /\ q.op = "accept"
         /\ q.actor \in User /\ q.target = q.actor /\ q.org \in Org
         /\ q.role \in Roles
         /\ q.row \in Sent /\ q.row \in Invitation
         /\ invites[q.row].org = q.org
         /\ invites[q.row].email = q.actor
         /\ invites[q.row].role = q.role
         /\ MembersOf(q.org, q.actor) = {}
         /\ members[m] = None
         /\ members' \in [Membership -> MemberRow \cup {None}]
         /\ \A n \in Membership : n # m => members'[n] = members[n]
         /\ members'[m] # None
         /\ members'[m].org = q.org /\ members'[m].user = q.actor
         /\ members'[m].role = q.role /\ members'[m].present
         /\ invites' \in [Invitation -> InviteRow \cup {None}]
         /\ Sent' = Sent
         /\ \A j \in Invitation : j # q.row => invites'[j] = invites[j]
         /\ invites'[q.row].org = q.org
         /\ invites'[q.row].email = q.actor
         /\ invites'[q.row].role = q.role
         /\ invites'[q.row].expires = invites[q.row].expires
         /\ invites'[q.row].accepted
         /\ audit' = audit \cup {Entry("invite.accepted", q.actor, q.org,
                                       q.row, None, None)}
         /\ Kept
<1> DEFINE q == req[r]
           i == q.row
           row == [org |-> q.org, user |-> q.target, role |-> q.role,
                   present |-> TRUE]
           used == [invites[i] EXCEPT !.accepted = TRUE]
<1>1. /\ Knows(q) /\ TypeOK
      /\ members \in [Membership -> MemberRow \cup {None}]
      /\ invites \in [Invitation -> InviteRow \cup {None}]
  BY DEF IndTyped, RequestsOK, TypeOK
<1>2. /\ q.pc = "write" /\ q.op = "accept" /\ members[m] = None
      /\ MembersOf(q.org, q.target) = {}
      /\ members' = [members EXCEPT ![m] = row]
      /\ invites' = [invites EXCEPT ![i] = used]
      /\ audit' = audit \cup {Entry("invite.accepted", q.actor, q.org,
                                    i, None, None)}
      /\ UNCHANGED <<orgs, now>>
  BY DEF AcceptWrite
<1>3. /\ q.actor \in User /\ q.target = q.actor /\ q.org \in Org
      /\ q.role \in Roles
      /\ i \in Sent /\ i \in Invitation /\ invites[i] \in InviteRow
      /\ invites[i].org = q.org
      /\ invites[i].email = q.actor
      /\ invites[i].role = q.role
  BY <1>1, <1>2, RowTypes DEF Knows
<1>4. row \in MemberRow
  BY <1>3 DEF MemberRow
<1>5. /\ used \in InviteRow
      /\ used.org = q.org /\ used.email = q.actor /\ used.role = q.role
      /\ used.expires = invites[i].expires /\ used.accepted
  BY <1>3 DEF InviteRow
<1>6. row # None /\ used # None
  BY <1>4, <1>5, NoneIsNoRow
<1>7. /\ row.org = q.org /\ row.user = q.actor
      /\ row.role = q.role /\ row.present
  BY <1>3
<1> HIDE DEF row, used, q, i
<1>8. \A n \in Membership : members'[n] = IF n = m THEN row ELSE members[n]
  BY <1>1, <1>2
<1>9. \A j \in Invitation : invites'[j] = IF j = i THEN used ELSE invites[j]
  BY <1>1, <1>2
<1>10. /\ members' \in [Membership -> MemberRow \cup {None}]
       /\ invites' \in [Invitation -> InviteRow \cup {None}]
  BY <1>1, <1>2, <1>4, <1>5
<1>11. Sent' = Sent
  BY <1>3, <1>6, <1>9 DEF Sent
<1>12. Kept
  BY <1>2, <1>3, <1>5, <1>8, <1>9, <1>11 DEF Kept, Sent
<1>13. i = q.row
  BY DEF i
<1>. QED
  BY <1>2, <1>3, <1>5, <1>6, <1>7, <1>8, <1>9, <1>10, <1>11, <1>12, <1>13 DEF q

-----------------------------------------------------------------------------
(* Types, and what requests in flight know                                  *)

\* The permission lookup leaves the request with an actor who is a member.
LEMMA AuthoriseStep ==
  ASSUME IndTyped, NEW r \in Request,
         NEW handler, NEW permission, NEW roles, NEW pc,
         \/ handler = "change" /\ roles \subseteq Roles /\ pc = "target"
         \/ handler = "remove" /\ roles = {None} /\ pc = "target"
         \/ handler = "invite" /\ roles \subseteq Roles \ {"owner"} /\ pc = "member",
         Authorise(r, handler, permission, roles, pc)
  PROVE  IndTyped'
<1>0. PICK a \in User, u \in User, o \in Org, role \in roles :
         \E m \in MembersOf(o, a) :
            req' = [req EXCEPT ![r] =
                [Idle EXCEPT !.pc = pc, !.op = handler, !.actor = a, !.org = o,
                             !.target = u, !.role = role,
                             !.row = IF a = u THEN m ELSE None,
                             !.old = IF a = u THEN members[m].role ELSE None]]
  BY DEF Authorise
<1>1. PICK m \in MembersOf(o, a) :
         req' = [req EXCEPT ![r] =
                   [Idle EXCEPT !.pc = pc, !.op = handler, !.actor = a, !.org = o,
                                !.target = u, !.role = role,
                                !.row = IF a = u THEN m ELSE None,
                                !.old = IF a = u THEN members[m].role ELSE None]]
  BY <1>0
<1> DEFINE row == IF a = u THEN m ELSE None
           old == IF a = u THEN members[m].role ELSE None
           q == [Idle EXCEPT !.pc = pc, !.op = handler, !.actor = a, !.org = o,
                             !.target = u, !.role = role, !.row = row, !.old = old]
<1>2. /\ m \in Membership /\ members[m] # None /\ members[m] \in MemberRow
      /\ members[m].org = o /\ members[m].user = a
  BY <1>1, RowTypes DEF MembersOf, Present, IndTyped
<1>3. row \in Membership \cup {None} /\ old \in Roles \cup {None}
  BY <1>2 DEF MemberRow
<1>4. row # None => old \in Roles
  BY <1>2 DEF MemberRow
<1>5. Joined(o, a)
  BY <1>2 DEF Joined
<1> HIDE DEF row, old
<1>6. q \in RequestState
  BY <1>1, <1>3 DEF RequestState, Idle, PC
<1>7. Knows(q)
  BY <1>1, <1>4, <1>5 DEF Knows, Idle
<1>8. UNCHANGED <<orgs, members, invites, audit, now>>
  BY DEF Authorise
<1>9. req' = [req EXCEPT ![r] = q]
  BY <1>1 DEF row, old
<1>. QED
  BY <1>6, <1>7, <1>8, <1>9, RequestStep

\* Going on to another statement of the same handler.
LEMMA GoStep ==
  ASSUME IndTyped, NEW r \in Request, NEW pc,
         \/ req[r].pc = "owners" /\ pc = "write"
         \/ req[r].pc = "member" /\ pc = "pending"
         \/ req[r].pc = "pending" /\ pc = "write"
         \/ req[r].pc = "existing" /\ pc = "write",
         Go(r, pc),
         UNCHANGED <<orgs, members, invites, audit, now>>
  PROVE  IndTyped'
<1> DEFINE q == [req[r] EXCEPT !.pc = pc]
<1>1. req[r] \in RequestState /\ Knows(req[r])
  BY DEF IndTyped, TypeOK, RequestsOK
<1>2. q \in RequestState
  BY <1>1 DEF RequestState, PC
<1>3. Knows(q)
  BY <1>1 DEF Knows, RequestState
<1>4. req' = [req EXCEPT ![r] = q]
  BY DEF Go
<1>. QED
  BY <1>2, <1>3, <1>4, RequestStep

LEMMA EndNoWrite ==
  ASSUME IndTyped, NEW r \in Request, End(r),
         UNCHANGED <<orgs, members, invites, audit, now>>
  PROVE  IndTyped'
  BY IdleTyped, RequestStep DEF End

LEMMA LoadTargetStep ==
  ASSUME IndTyped, NEW r \in Request, LoadTarget(r)
  PROVE  IndTyped'
<1>1. CASE End(r)
  BY <1>1, EndNoWrite DEF LoadTarget
<1>2. CASE ~End(r)
  <2>1. PICK m \in MembersOf(req[r].org, req[r].target) :
          LET old == IF req[r].row = m THEN req[r].old ELSE members[m].role
          IN  req' = [req EXCEPT ![r].row = m, ![r].old = old,
                  ![r].pc = IF LosesOwner(old, req[r].role) THEN "owners"
                            ELSE "write"]
    BY <1>2 DEF LoadTarget
  <2> DEFINE old == IF req[r].row = m THEN req[r].old ELSE members[m].role
             pc == IF LosesOwner(old, req[r].role) THEN "owners" ELSE "write"
             q == [req[r] EXCEPT !.row = m, !.old = old, !.pc = pc]
  <2>2. req[r] \in RequestState /\ Knows(req[r]) /\ req[r].pc = "target"
    BY DEF IndTyped, TypeOK, RequestsOK, LoadTarget
  <2>3. /\ m \in Membership /\ members[m] # None /\ members[m] \in MemberRow
        /\ members[m].org = req[r].org /\ members[m].user = req[r].target
    BY <2>1, RowTypes DEF MembersOf, Present, IndTyped
  <2>4. old \in Roles
    BY <2>2, <2>3, NoneIsNoId DEF Knows, MemberRow
  <2>5. pc \in {"owners", "write"}
    OBVIOUS
  <2>6. req' = [req EXCEPT ![r] = q]
    BY <2>1
  <2> HIDE DEF old, pc
  <2>7. q \in RequestState
    BY <2>2, <2>3, <2>4, <2>5 DEF RequestState, PC
  <2>8. Knows(q)
    BY <2>2, <2>3, <2>4, <2>5 DEF Knows, RequestState
  <2>. QED
    BY <2>6, <2>7, <2>8, RequestStep DEF LoadTarget
<1>. QED
  BY <1>1, <1>2

LEMMA AcceptReadStep ==
  ASSUME IndTyped, NEW r \in Request, NEW u \in User, NEW i \in Invitation,
         AcceptRead(r, u, i)
  PROVE  IndTyped'
<1> DEFINE q == [Idle EXCEPT !.pc = "existing", !.op = "accept", !.actor = u,
                             !.target = u, !.org = invites[i].org,
                             !.role = invites[i].role, !.row = i]
<1>1. /\ i \in Sent /\ invites[i].email = u
      /\ req' = [req EXCEPT ![r] = q]
      /\ UNCHANGED <<orgs, members, invites, audit, now>>
  BY DEF AcceptRead
<1>2. invites[i] \in InviteRow
  BY <1>1, RowTypes DEF IndTyped
<1>3. invites[i].org \in Org /\ invites[i].role \in Roles
  BY <1>2 DEF InviteRow
<1>4. q \in RequestState
  BY <1>3 DEF RequestState, Idle, PC
<1>5. Knows(q)
  BY <1>1, <1>3 DEF Knows, Idle
<1>. QED
  BY <1>1, <1>4, <1>5, RequestStep

LEMMA TypedInductive == IndTyped /\ [Next]_vars => IndTyped'
<1> SUFFICES ASSUME IndTyped, [Next]_vars PROVE IndTyped'
  OBVIOUS
<1>1. ASSUME NEW a \in User, NEW o \in Org, NEW m \in Membership,
             CreateOrg(a, o, m)
      PROVE  IndTyped'
  <2>1. Entry("org.created", a, o, o, None, None) \in AuditEntry
    BY DEF Entry, AuditEntry
  <2>2. TypeOK'
    BY <1>1, <2>1, CreateEffect DEF CreateOrg, IndTyped, TypeOK
  <2>3. \A p : Knows(p) => Knows(p)'
    BY <1>1, CreateEffect, KnowsKept
  <2>4. RequestsOK'
    BY <1>1, <2>3 DEF CreateOrg, IndTyped, RequestsOK
  <2>. QED
    BY <2>2, <2>4 DEF IndTyped
<1>2. ASSUME NEW r \in Request, AuthoriseChange(r) PROVE IndTyped'
  BY <1>2, AuthoriseStep, AssignableAssumption DEF AuthoriseChange
<1>3. ASSUME NEW r \in Request, AuthoriseRemove(r) PROVE IndTyped'
  BY <1>3, AuthoriseStep DEF AuthoriseRemove
<1>4. ASSUME NEW r \in Request, AuthoriseInvite(r) PROVE IndTyped'
  BY <1>4, AuthoriseStep, AssignableAssumption DEF AuthoriseInvite
<1>5. ASSUME NEW r \in Request, LoadTarget(r) PROVE IndTyped'
  BY <1>5, LoadTargetStep
<1>6. ASSUME NEW r \in Request, CountOwners(r) PROVE IndTyped'
  BY <1>6, GoStep, EndNoWrite DEF CountOwners
<1>7. ASSUME NEW r \in Request, ChangeWrite(r) PROVE IndTyped'
  <2>1. CASE req[r].row \notin Present
    BY <1>7, <2>1, EndNoWrite DEF ChangeWrite
  <2>2. CASE req[r].row \in Present
    <3>1. Knows(req[r]) /\ audit \subseteq AuditEntry
      BY DEF IndTyped, TypeOK, RequestsOK
    <3>2. Entry("role.changed", req[r].actor, req[r].org, req[r].row,
                req[r].old, req[r].role) \in AuditEntry
      BY <1>7, <2>2, <3>1, ChangeEffect DEF ChangeWrite, Knows, Entry, AuditEntry
    <3>3. audit' \subseteq AuditEntry
      BY <1>7, <2>2, <3>1, <3>2, ChangeEffect
    <3>. QED
      BY <1>7, <2>2, <3>3, ChangeEffect, EndStep
      DEF ChangeWrite, IndTyped, TypeOK
  <2>. QED
    BY <2>1, <2>2
<1>8. ASSUME NEW r \in Request, RemoveWrite(r) PROVE IndTyped'
  <2>1. Knows(req[r])
    BY DEF IndTyped, RequestsOK
  <2>2. Entry("member.removed", req[r].actor, req[r].org, req[r].target,
              None, None) \in AuditEntry
    BY <1>8, <2>1 DEF RemoveWrite, Knows, Entry, AuditEntry
  <2>3. audit' \subseteq AuditEntry
    BY <1>8, <2>2 DEF RemoveWrite, IndTyped, TypeOK
  <2>. QED
    BY <1>8, <2>3, RemoveEffect, EndStep DEF RemoveWrite, IndTyped, TypeOK
<1>9. ASSUME NEW r \in Request, InviteMember(r) PROVE IndTyped'
  BY <1>9, GoStep, EndNoWrite DEF InviteMember
<1>10. ASSUME NEW r \in Request, InvitePending(r) PROVE IndTyped'
  BY <1>10, GoStep, EndNoWrite DEF InvitePending
<1>11. ASSUME NEW r \in Request, NEW i \in Invitation, InviteWrite(r, i)
       PROVE  IndTyped'
  <2>1. Knows(req[r])
    BY DEF IndTyped, RequestsOK
  <2>2. Entry("invite.created", req[r].actor, req[r].org, i, None,
              req[r].role) \in AuditEntry
    BY <1>11, <2>1 DEF InviteWrite, Knows, Entry, AuditEntry
  <2>3. audit' \subseteq AuditEntry
    BY <1>11, <2>2 DEF InviteWrite, IndTyped, TypeOK
  <2>. QED
    BY <1>11, <2>3, InviteEffect, EndStep DEF InviteWrite, IndTyped, TypeOK
<1>12. ASSUME NEW r \in Request, NEW u \in User, NEW i \in Invitation,
              AcceptRead(r, u, i)
       PROVE  IndTyped'
  BY <1>12, AcceptReadStep
<1>13. ASSUME NEW r \in Request, AcceptExisting(r) PROVE IndTyped'
  BY <1>13, GoStep, EndNoWrite DEF AcceptExisting
<1>14. ASSUME NEW r \in Request, NEW m \in Membership, AcceptWrite(r, m)
       PROVE  IndTyped'
  <2>1. Entry("invite.accepted", req[r].actor, req[r].org, req[r].row,
              None, None) \in AuditEntry
    BY <1>14, AcceptEffect DEF Entry, AuditEntry
  <2>2. audit' \subseteq AuditEntry
    BY <1>14, <2>1 DEF AcceptWrite, IndTyped, TypeOK
  <2>. QED
    BY <1>14, <2>2, AcceptEffect, EndStep DEF AcceptWrite, IndTyped, TypeOK
<1>15. ASSUME NEW r \in Request, AcceptConflict(r) PROVE IndTyped'
  BY <1>15, EndNoWrite DEF AcceptConflict
<1>16. ASSUME NEW r \in Request, Rollback(r) PROVE IndTyped'
  BY <1>16, EndNoWrite DEF Rollback
<1>17. CASE Tick
  <2>1. \A p : Knows(p)' <=> Knows(p)
    BY <1>17 DEF Tick, Knows, Sent, Joined
  <2>2. TypeOK'
    BY <1>17, BoundsAssumption DEF Tick, IndTyped, TypeOK
  <2>. QED
    BY <1>17, <2>1, <2>2 DEF Tick, IndTyped, RequestsOK
<1>18. CASE UNCHANGED vars
  <2>1. \A p : Knows(p)' <=> Knows(p)
    BY <1>18 DEF vars, Knows, Sent, Joined
  <2>. QED
    BY <1>18, <2>1 DEF vars, IndTyped, TypeOK, RequestsOK
<1>. QED
  BY <1>1, <1>2, <1>3, <1>4, <1>5, <1>6, <1>7, <1>8, <1>9, <1>10, <1>11, <1>12,
     <1>13, <1>14, <1>15, <1>16, <1>17, <1>18
  DEF Next, ChangeMember, CreateInvitation, AcceptInvitation

\* Types, and what a request in flight has read: a later commit of another
\* request may make a role or a count stale, but never the identity of a row.
THEOREM TypedInvariant == Spec => []IndTyped
  BY InitTyped, TypedInductive, PTL DEF Spec

\* The tables of organizations, memberships, invitations and audit entries keep
\* their types, and so does what every request in flight has read.
THEOREM TypeCorrect == Spec => []TypeOK
<1>1. IndTyped => TypeOK
  BY DEF IndTyped
<1>. QED
  BY <1>1, TypedInvariant, PTL

-----------------------------------------------------------------------------
(* The committed tables, for any number of requests in flight               *)

\* A step either is one of the five that write tables or leaves them alone.
LEMMA WhatIsWritten ==
  ASSUME [Next]_vars
  PROVE  \/ \E a \in User, o \in Org, m \in Membership : CreateOrg(a, o, m)
         \/ \E r \in Request : ChangeWrite(r) /\ req[r].row \in Present
         \/ \E r \in Request : RemoveWrite(r)
         \/ \E r \in Request, i \in Invitation : InviteWrite(r, i)
         \/ \E r \in Request, m \in Membership : AcceptWrite(r, m)
         \/ UNCHANGED <<orgs, members, invites, audit>>
<1>1. ASSUME NEW r \in Request, ChangeMember(r), ~ChangeWrite(r), ~RemoveWrite(r)
      PROVE  UNCHANGED <<orgs, members, invites, audit>>
  BY <1>1 DEF ChangeMember, AuthoriseChange, AuthoriseRemove, Authorise,
              LoadTarget, CountOwners
<1>2. ASSUME NEW r \in Request, ChangeWrite(r), req[r].row \notin Present
      PROVE  UNCHANGED <<orgs, members, invites, audit>>
  BY <1>2 DEF ChangeWrite
<1>3. ASSUME NEW r \in Request, CreateInvitation(r),
             ~ \E i \in Invitation : InviteWrite(r, i)
      PROVE  UNCHANGED <<orgs, members, invites, audit>>
  BY <1>3 DEF CreateInvitation, AuthoriseInvite, Authorise, InviteMember,
              InvitePending
<1>4. ASSUME NEW r \in Request, AcceptInvitation(r),
             ~ \E m \in Membership : AcceptWrite(r, m)
      PROVE  UNCHANGED <<orgs, members, invites, audit>>
  BY <1>4 DEF AcceptInvitation, AcceptRead, AcceptExisting, AcceptConflict
<1>5. ASSUME NEW r \in Request, Rollback(r)
      PROVE  UNCHANGED <<orgs, members, invites, audit>>
  BY <1>5 DEF Rollback
<1>6. Tick \/ UNCHANGED vars => UNCHANGED <<orgs, members, invites, audit>>
  BY DEF Tick, vars
<1>. QED
  BY <1>1, <1>2, <1>3, <1>4, <1>5, <1>6 DEF Next

\* Only Tick moves the clock.
LEMMA ClockStep == [Next]_vars => now' = now \/ now' = now + 1
<1>1. ASSUME NEW r \in Request, ChangeMember(r) PROVE now' = now
  BY <1>1 DEF ChangeMember, AuthoriseChange, AuthoriseRemove, Authorise,
              LoadTarget, CountOwners, ChangeWrite, RemoveWrite
<1>2. ASSUME NEW r \in Request, CreateInvitation(r) PROVE now' = now
  BY <1>2 DEF CreateInvitation, AuthoriseInvite, Authorise, InviteMember,
              InvitePending, InviteWrite
<1>3. ASSUME NEW r \in Request, AcceptInvitation(r) PROVE now' = now
  BY <1>3 DEF AcceptInvitation, AcceptRead, AcceptExisting, AcceptConflict,
              AcceptWrite
<1>. QED
  BY <1>1, <1>2, <1>3 DEF Next, vars, CreateOrg, Rollback, Tick

\* Nothing is forgotten by any step.
LEMMA AlwaysKept == IndTyped /\ [Next]_vars => Kept
<1>1. UNCHANGED <<orgs, members, invites, audit>> => Kept
  BY DEF Kept, Sent
<1>. QED
  BY <1>1, WhatIsWritten, CreateEffect, ChangeEffect, RemoveEffect, InviteEffect,
     AcceptEffect

(* The role of m's row is one the tables tell: RoleExplained, of one row.    *)
ExplainedRole(m) ==
    LET row == members[m] IN
    \/ row.role = "owner" /\ orgs[row.org] = row.user
    \/ \E e \in audit : /\ e.action = "role.changed"
                        /\ e.resource = m /\ e.new = row.role
    \/ \E i \in Sent : /\ invites[i].accepted
                       /\ invites[i].org = row.org
                       /\ invites[i].email = row.user
                       /\ invites[i].role = row.role

LEMMA ExplanationKept ==
  ASSUME IndTyped, Kept, NEW m \in Present, ExplainedRole(m),
         members'[m].role = members[m].role
  PROVE  ExplainedRole(m)'
<1>1. /\ m \in Membership /\ members[m] # None
      /\ members[m].org \in Org /\ members[m].user \in User
  BY RowTypes DEF IndTyped, MemberRow
<1>2. /\ members'[m].org = members[m].org
      /\ members'[m].user = members[m].user
  BY <1>1 DEF Kept
<1>3. CASE members[m].role = "owner" /\ orgs[members[m].org] = members[m].user
  BY <1>1, <1>2, <1>3, NoneIsNoId DEF Kept, ExplainedRole
<1>4. CASE \E e \in audit : /\ e.action = "role.changed" /\ e.resource = m
                            /\ e.new = members[m].role
  BY <1>4 DEF Kept, ExplainedRole
<1>5. CASE \E i \in Sent : /\ invites[i].accepted
                           /\ invites[i].org = members[m].org
                           /\ invites[i].email = members[m].user
                           /\ invites[i].role = members[m].role
  BY <1>2, <1>5 DEF Kept, ExplainedRole
<1>. QED
  BY <1>3, <1>4, <1>5 DEF ExplainedRole

LEMMA RoleStep ==
  ASSUME IndTyped, RoleExplained, [Next]_vars
  PROVE  RoleExplained'
<1>1. Kept
  BY AlwaysKept
<1>2. \A m \in Present : ExplainedRole(m)
  BY DEF RoleExplained, ExplainedRole
<1>3. SUFFICES ASSUME NEW m \in Present' PROVE ExplainedRole(m)'
  BY DEF RoleExplained, ExplainedRole
<1>4. m \in Membership
  BY DEF Present
<1>5. CASE m \in Present /\ members'[m].role = members[m].role
  BY <1>1, <1>2, <1>5, ExplanationKept
<1>6. ASSUME NEW a \in User, NEW o \in Org, NEW n \in Membership,
             CreateOrg(a, o, n)
      PROVE  ExplainedRole(m)'
  <2>1. CASE m = n
    BY <1>6, <2>1, CreateEffect DEF ExplainedRole
  <2>2. CASE m # n
    BY <1>4, <1>5, <1>6, <2>2, CreateEffect DEF Present
  <2>. QED
    BY <2>1, <2>2
<1>7. ASSUME NEW r \in Request, ChangeWrite(r), req[r].row \in Present
      PROVE  ExplainedRole(m)'
  <2>1. CASE m # req[r].row \/ req[r].role = req[r].old
    BY <1>4, <1>5, <1>7, <2>1, ChangeEffect DEF Present
  <2>2. CASE m = req[r].row /\ req[r].role # req[r].old
    <3>1. members'[m].role = req[r].role
      BY <1>7, <2>2, ChangeEffect
    <3>2. Entry("role.changed", req[r].actor, req[r].org, m,
                req[r].old, req[r].role) \in audit'
      BY <1>7, <2>2, ChangeEffect
    <3>. QED
      BY <3>1, <3>2 DEF ExplainedRole, Entry
  <2>. QED
    BY <2>1, <2>2
<1>8. ASSUME NEW r \in Request, RemoveWrite(r) PROVE ExplainedRole(m)'
  BY <1>4, <1>5, <1>8, RemoveEffect DEF Present
<1>9. ASSUME NEW r \in Request, NEW i \in Invitation, InviteWrite(r, i)
      PROVE  ExplainedRole(m)'
  BY <1>4, <1>5, <1>9 DEF InviteWrite, Present
<1>10. ASSUME NEW r \in Request, NEW n \in Membership, AcceptWrite(r, n)
       PROVE  ExplainedRole(m)'
  <2>1. CASE m = n
    <3> DEFINE i == req[r].row
    <3>1. /\ i \in Sent' /\ invites'[i].accepted
          /\ invites'[i].org = members'[m].org
          /\ invites'[i].email = members'[m].user
          /\ invites'[i].role = members'[m].role
      BY <1>10, <2>1, AcceptEffect
    <3> HIDE DEF i
    <3>. QED
      BY <3>1 DEF ExplainedRole
  <2>2. CASE m # n
    BY <1>4, <1>5, <1>10, <2>2, AcceptEffect DEF Present
  <2>. QED
    BY <2>1, <2>2
<1>11. CASE UNCHANGED <<orgs, members, invites, audit>>
  BY <1>5, <1>11 DEF Present
<1>. QED
  BY <1>6, <1>7, <1>8, <1>9, <1>10, <1>11, WhatIsWritten

LEMMA RemovalStep ==
  ASSUME IndTyped, RemovalExplained, [Next]_vars
  PROVE  RemovalExplained'
<1>1. Kept
  BY AlwaysKept
<1>2. SUFFICES ASSUME NEW m \in Membership, members'[m] # None,
                      ~members'[m].present
               PROVE  \E e \in audit' : /\ e.action = "member.removed"
                                        /\ e.org = members'[m].org
                                        /\ e.resource = members'[m].user
  BY DEF RemovalExplained
<1>3. CASE members[m] # None /\ ~members[m].present
  BY <1>1, <1>3 DEF RemovalExplained, Kept
<1>4. ASSUME NEW a \in User, NEW o \in Org, NEW n \in Membership,
             CreateOrg(a, o, n)
      PROVE  members[m] # None /\ ~members[m].present
  BY <1>2, <1>4, CreateEffect
<1>5. ASSUME NEW r \in Request, ChangeWrite(r), req[r].row \in Present
      PROVE  members[m] # None /\ ~members[m].present
  BY <1>2, <1>5, ChangeEffect
<1>6. ASSUME NEW r \in Request, RemoveWrite(r), m = req[r].row
      PROVE  \E e \in audit' : /\ e.action = "member.removed"
                               /\ e.org = members'[m].org
                               /\ e.resource = members'[m].user
  <2>1. Entry("member.removed", req[r].actor, req[r].org, req[r].target,
              None, None) \in audit'
    BY <1>6 DEF RemoveWrite
  <2>. QED
    BY <1>6, <2>1, RemoveEffect DEF Entry
<1>7. ASSUME NEW r \in Request, RemoveWrite(r), m # req[r].row
      PROVE  members[m] # None /\ ~members[m].present
  BY <1>2, <1>7, RemoveEffect
<1>8. ASSUME NEW r \in Request, NEW i \in Invitation, InviteWrite(r, i)
      PROVE  members[m] # None /\ ~members[m].present
  BY <1>2, <1>8 DEF InviteWrite
<1>9. ASSUME NEW r \in Request, NEW n \in Membership, AcceptWrite(r, n)
      PROVE  members[m] # None /\ ~members[m].present
  BY <1>2, <1>9, AcceptEffect
<1>10. UNCHANGED <<orgs, members, invites, audit>>
          => members[m] # None /\ ~members[m].present
  BY <1>2
<1>. QED
  BY <1>3, <1>4, <1>5, <1>6, <1>7, <1>8, <1>9, <1>10, WhatIsWritten

LEMMA AcceptanceStep ==
  ASSUME IndTyped, AcceptanceComplete, [Next]_vars
  PROVE  AcceptanceComplete'
<1>1. Kept
  BY AlwaysKept
<1>2. SUFFICES ASSUME NEW i \in Sent', invites'[i].accepted
               PROVE  /\ Joined(invites[i].org, invites[i].email)'
                      /\ \E e \in audit' : /\ e.action = "invite.accepted"
                                           /\ e.resource = i
                                           /\ e.org = invites'[i].org
                                           /\ e.actor = invites'[i].email
  BY DEF AcceptanceComplete, Joined
<1>3. i \in Invitation
  BY DEF Sent
<1>4. ASSUME i \in Sent, invites[i].accepted
      PROVE  /\ Joined(invites[i].org, invites[i].email)'
             /\ \E e \in audit' : /\ e.action = "invite.accepted"
                                  /\ e.resource = i
                                  /\ e.org = invites'[i].org
                                  /\ e.actor = invites'[i].email
  BY <1>1, <1>4 DEF AcceptanceComplete, Kept, Joined
<1>5. ASSUME NEW r \in Request, NEW j \in Invitation, InviteWrite(r, j)
      PROVE  i \in Sent /\ invites[i].accepted
  BY <1>2, <1>3, <1>5, InviteEffect
<1>6. ASSUME NEW r \in Request, NEW m \in Membership, AcceptWrite(r, m),
             i # req[r].row
      PROVE  i \in Sent /\ invites[i].accepted
  BY <1>2, <1>3, <1>6, AcceptEffect
<1>7. ASSUME NEW r \in Request, NEW m \in Membership, AcceptWrite(r, m),
             i = req[r].row
      PROVE  /\ Joined(invites[i].org, invites[i].email)'
             /\ \E e \in audit' : /\ e.action = "invite.accepted"
                                  /\ e.resource = i
                                  /\ e.org = invites'[i].org
                                  /\ e.actor = invites'[i].email
  <2>1. Joined(invites[i].org, invites[i].email)'
    BY <1>7, AcceptEffect DEF Joined
  <2>2. Entry("invite.accepted", req[r].actor, req[r].org, i, None, None)
           \in audit'
    BY <1>7, AcceptEffect
  <2>. QED
    BY <1>7, <2>1, <2>2, AcceptEffect DEF Entry
<1>8. UNCHANGED invites => i \in Sent /\ invites[i].accepted
  BY <1>2 DEF Sent
<1>. QED
  BY <1>4, <1>5, <1>6, <1>7, <1>8, WhatIsWritten
  DEF CreateOrg, ChangeWrite, RemoveWrite

(* TenantIsolation of one entry; a changed row is a row of the table.        *)
Isolated(e) ==
    /\ e.action # "org.created" => Joined(e.org, e.actor)
    /\ e.action = "role.changed" =>
          /\ e.resource \in Membership
          /\ members[e.resource] # None
          /\ members[e.resource].org = e.org
    /\ e.action = "member.removed" => Joined(e.org, e.resource)

AllIsolated == \A e \in audit : Isolated(e)

LEMMA IsolatedStep ==
  ASSUME IndTyped, AllIsolated, [Next]_vars
  PROVE  AllIsolated'
<1>1. Kept
  BY AlwaysKept
<1>2. ASSUME NEW o, NEW u, Joined(o, u) PROVE Joined(o, u)'
  BY <1>1, <1>2 DEF Kept, Joined
<1>3. SUFFICES ASSUME NEW e \in audit', e \notin audit PROVE Isolated(e)'
  BY <1>1, <1>2 DEF AllIsolated, Isolated, Kept
<1>4. ASSUME NEW a \in User, NEW o \in Org, NEW m \in Membership,
             CreateOrg(a, o, m)
      PROVE  Isolated(e)'
  BY <1>3, <1>4 DEF CreateOrg, Entry, Isolated
<1>5. ASSUME NEW r \in Request, ChangeWrite(r), req[r].row \in Present
      PROVE  Isolated(e)'
  <2>1. e = Entry("role.changed", req[r].actor, req[r].org, req[r].row,
                  req[r].old, req[r].role)
    BY <1>3, <1>5, ChangeEffect
  <2>2. Knows(req[r]) /\ req[r].pc = "write" /\ req[r].op = "change"
    BY <1>5 DEF ChangeWrite, IndTyped, RequestsOK
  <2>3. Joined(e.org, e.actor)
    BY <2>1, <2>2 DEF Knows, Entry
  <2>4. /\ req[r].row \in Membership
        /\ members'[req[r].row] # None
        /\ members'[req[r].row].org = req[r].org
    BY <1>5, ChangeEffect
  <2>. QED
    BY <1>2, <2>1, <2>3, <2>4 DEF Entry, Isolated
<1>6. ASSUME NEW r \in Request, RemoveWrite(r) PROVE Isolated(e)'
  <2>1. e = Entry("member.removed", req[r].actor, req[r].org, req[r].target,
                  None, None)
    BY <1>3, <1>6 DEF RemoveWrite
  <2>2. Knows(req[r]) /\ req[r].pc = "write" /\ req[r].op = "remove"
    BY <1>6 DEF RemoveWrite, IndTyped, RequestsOK
  <2>3. Joined(e.org, e.actor) /\ Joined(e.org, e.resource)
    BY <2>1, <2>2 DEF Knows, Joined, Entry
  <2>. QED
    BY <1>2, <2>1, <2>3 DEF Entry, Isolated
<1>7. ASSUME NEW r \in Request, NEW i \in Invitation, InviteWrite(r, i)
      PROVE  Isolated(e)'
  <2>1. e = Entry("invite.created", req[r].actor, req[r].org, i, None,
                  req[r].role)
    BY <1>3, <1>7 DEF InviteWrite
  <2>2. Knows(req[r]) /\ req[r].pc = "write" /\ req[r].op = "invite"
    BY <1>7 DEF InviteWrite, IndTyped, RequestsOK
  <2>3. Joined(e.org, e.actor)
    BY <2>1, <2>2 DEF Knows, Entry
  <2>. QED
    BY <1>2, <2>1, <2>3 DEF Entry, Isolated
<1>8. ASSUME NEW r \in Request, NEW m \in Membership, AcceptWrite(r, m)
      PROVE  Isolated(e)'
  <2>1. e = Entry("invite.accepted", req[r].actor, req[r].org, req[r].row,
                  None, None)
    BY <1>3, <1>8, AcceptEffect
  <2>2. Joined(e.org, e.actor)'
    BY <1>8, <2>1, AcceptEffect DEF Joined, Entry
  <2>. QED
    BY <2>1, <2>2 DEF Entry, Isolated
<1>9. ~ UNCHANGED audit
  BY <1>3
<1>. QED
  BY <1>4, <1>5, <1>6, <1>7, <1>8, <1>9, WhatIsWritten

(* Memberships and invitations are of organizations that exist.             *)
OrgsFounded ==
    /\ \A m \in Membership : members[m] # None => orgs[members[m].org] # None
    /\ \A i \in Sent : orgs[invites[i].org] # None

LEMMA FoundedStep ==
  ASSUME IndTyped, OrgsFounded, [Next]_vars
  PROVE  OrgsFounded'
<1>1. Kept
  BY AlwaysKept
<1>2. ASSUME NEW m \in Membership, members[m] # None
      PROVE  members'[m] # None /\ orgs'[members'[m].org] # None
  <2>1. members[m].org \in Org /\ orgs[members[m].org] # None
    BY <1>2, RowTypes DEF IndTyped, MemberRow, OrgsFounded
  <2>. QED
    BY <1>1, <1>2, <2>1 DEF Kept
<1>3. ASSUME NEW i \in Sent PROVE orgs'[invites'[i].org] # None
  <2>1. invites[i].org \in Org /\ orgs[invites[i].org] # None
    BY RowTypes DEF IndTyped, InviteRow, OrgsFounded
  <2>. QED
    BY <1>1, <2>1 DEF Kept
<1>4. ASSUME NEW a \in User, NEW o \in Org, NEW n \in Membership,
             CreateOrg(a, o, n)
      PROVE  OrgsFounded'
  <2>1. orgs'[o] # None /\ members'[n].org = o
    BY <1>4, CreateEffect, NoneIsNoId
  <2>2. \A m \in Membership : m # n => members'[m] = members[m]
    BY <1>4, CreateEffect
  <2>3. invites' = invites /\ Sent' = Sent
    BY <1>4 DEF CreateOrg, Sent
  <2>. QED
    BY <1>2, <1>3, <2>1, <2>2, <2>3 DEF OrgsFounded
<1>5. ASSUME NEW r \in Request, ChangeWrite(r), req[r].row \in Present
      PROVE  OrgsFounded'
  <2>1. \A m \in Membership : members'[m] # None => members[m] # None
    BY <1>5, ChangeEffect, RowTypes DEF IndTyped
  <2>2. Sent' = Sent
    BY <1>5 DEF ChangeWrite, Sent
  <2>. QED
    BY <1>2, <1>3, <2>1, <2>2 DEF OrgsFounded
<1>6. ASSUME NEW r \in Request, RemoveWrite(r) PROVE OrgsFounded'
  <2>1. \A m \in Membership : members'[m] # None => members[m] # None
    BY <1>6, RemoveEffect
  <2>2. Sent' = Sent
    BY <1>6 DEF RemoveWrite, Sent
  <2>. QED
    BY <1>2, <1>3, <2>1, <2>2 DEF OrgsFounded
<1>7. ASSUME NEW r \in Request, NEW i \in Invitation, InviteWrite(r, i)
      PROVE  OrgsFounded'
  <2>1. Joined(req[r].org, req[r].actor)
    BY <1>7 DEF InviteWrite, IndTyped, RequestsOK, Knows
  <2>2. orgs[req[r].org] # None
    BY <2>1 DEF Joined, OrgsFounded
  <2>3. members' = members /\ orgs' = orgs
    BY <1>7 DEF InviteWrite
  <2>4. Sent' = Sent \cup {i} /\ invites'[i].org = req[r].org
    BY <1>7, InviteEffect
  <2>. QED
    BY <1>2, <1>3, <2>2, <2>3, <2>4 DEF OrgsFounded
<1>8. ASSUME NEW r \in Request, NEW n \in Membership, AcceptWrite(r, n)
      PROVE  OrgsFounded'
  <2>1. orgs[req[r].org] # None
    BY <1>8, AcceptEffect DEF OrgsFounded
  <2>2. /\ members'[n].org = req[r].org
        /\ \A m \in Membership : m # n => members'[m] = members[m]
        /\ Sent' = Sent
    BY <1>8, AcceptEffect
  <2>3. orgs' = orgs
    BY <1>8 DEF AcceptWrite
  <2>. QED
    BY <1>2, <1>3, <2>1, <2>2, <2>3 DEF OrgsFounded
<1>9. CASE UNCHANGED <<orgs, members, invites, audit>>
  BY <1>9 DEF OrgsFounded, Sent
<1>. QED
  BY <1>4, <1>5, <1>6, <1>7, <1>8, <1>9, WhatIsWritten

(* A user has one membership of an organization, uq_org_membership_user: a   *)
(* new organization has no rows, and acceptance looks before it inserts.     *)
OneMembership ==
    \A o \in Org, u \in User : \A m, n \in MembersOf(o, u) : m = n

LEMMA OneMembershipStep ==
  ASSUME IndTyped, OrgsFounded, OneMembership, [Next]_vars
  PROVE  OneMembership'
<1>1. SUFFICES ASSUME NEW o \in Org, NEW u \in User,
                      NEW m \in MembersOf(o, u)', NEW n \in MembersOf(o, u)'
               PROVE  m = n
  BY DEF OneMembership
<1>2. /\ m \in Membership /\ n \in Membership
      /\ members'[m] # None /\ members'[m].present
      /\ members'[n] # None /\ members'[n].present
      /\ members'[m].org = o /\ members'[m].user = u
      /\ members'[n].org = o /\ members'[n].user = u
  BY DEF MembersOf, Present
<1>3. m \in MembersOf(o, u) /\ n \in MembersOf(o, u) => m = n
  BY DEF OneMembership
<1>4. ASSUME NEW a \in User, NEW p \in Org, NEW k \in Membership,
             CreateOrg(a, p, k)
      PROVE  m = n
  BY <1>2, <1>3, <1>4, CreateEffect DEF OrgsFounded, MembersOf, Present
<1>5. ASSUME NEW r \in Request, ChangeWrite(r), req[r].row \in Present
      PROVE  m = n
  BY <1>2, <1>3, <1>5, ChangeEffect DEF MembersOf, Present
<1>6. ASSUME NEW r \in Request, RemoveWrite(r) PROVE m = n
  BY <1>2, <1>3, <1>6, RemoveEffect DEF MembersOf, Present
<1>7. ASSUME NEW r \in Request, NEW k \in Membership, AcceptWrite(r, k)
      PROVE  m = n
  <2>1. /\ \A j \in Membership : j # k => members'[j] = members[j]
        /\ members'[k].org = req[r].org /\ members'[k].user = req[r].actor
        /\ MembersOf(req[r].org, req[r].actor) = {}
    BY <1>7, AcceptEffect
  <2>. QED
    BY <1>2, <1>3, <2>1 DEF MembersOf, Present
<1>8. UNCHANGED members => m = n
  BY <1>2, <1>3 DEF MembersOf, Present
<1>. QED
  BY <1>4, <1>5, <1>6, <1>7, <1>8, WhatIsWritten DEF InviteWrite

-----------------------------------------------------------------------------
(* The invariant of the tables, inductive together with IndTyped.           *)
IndTables ==
    /\ RoleExplained
    /\ RemovalExplained
    /\ AcceptanceComplete
    /\ AllIsolated
    /\ OrgsFounded
    /\ OneMembership

LEMMA InitTables == Init => IndTables
  BY DEF Init, IndTables, RoleExplained, RemovalExplained, AcceptanceComplete,
         AllIsolated, OrgsFounded, OneMembership, MembersOf, Present, Sent

LEMMA TablesInductive == IndTyped /\ IndTables /\ [Next]_vars => IndTables'
  BY RoleStep, RemovalStep, AcceptanceStep, IsolatedStep, FoundedStep,
     OneMembershipStep
  DEF IndTables

\* The tables and the log agree at every moment, whatever requests interleave:
\* the invariant the theorems below are read off from.
THEOREM TablesInvariant == Spec => [](IndTyped /\ IndTables)
  BY InitTyped, TypedInductive, InitTables, TablesInductive, PTL DEF Spec

\* However many requests run at once, the role of every member is one the log
\* or an accepted invitation tells, or the creator's: a role changed under a
\* request in flight is overwritten, never mixed up with another row's.
THEOREM RolesExplained == Spec => []RoleExplained
<1>1. IndTables => RoleExplained
  BY DEF IndTables
<1>. QED
  BY <1>1, TablesInvariant, PTL

\* However many requests run at once, no membership goes without the entry of
\* its removal.
THEOREM RemovalsExplained == Spec => []RemovalExplained
<1>1. IndTables => RemovalExplained
  BY DEF IndTables
<1>. QED
  BY <1>1, TablesInvariant, PTL

\* However many requests run at once, an accepted invitation has its audit entry
\* and made its addressee a member: accepting is all or nothing.
THEOREM AcceptancesComplete == Spec => []AcceptanceComplete
<1>1. IndTables => AcceptanceComplete
  BY DEF IndTables
<1>. QED
  BY <1>1, TablesInvariant, PTL

\* However many requests run at once, nobody changes a role, removes a member
\* or invites in an organization they never were a member of, and no row of
\* another organization is changed.
THEOREM TenantsIsolated == Spec => []TenantIsolation
<1>1. IndTables => TenantIsolation
  BY DEF IndTables, AllIsolated, Isolated, Joined, TenantIsolation
<1>. QED
  BY <1>1, TablesInvariant, PTL

\* However many requests run at once, a user never has two memberships of an
\* organization: the query before the insert and uq_org_membership_user see to
\* it in accept_invitation, the fresh slug in create_organization.
THEOREM MembershipsUnique == Spec => []OneMembership
<1>1. IndTables => OneMembership
  BY DEF IndTables
<1>. QED
  BY <1>1, TablesInvariant, PTL

-----------------------------------------------------------------------------
(* Permissions, held now or once                                            *)

(* What the permission lookup saw of a request's actor.                     *)
EntitledRequest(q) ==
    q.pc # "idle" /\ q.op # "accept" =>
        /\ q.org \in Org /\ q.actor \in User
        /\ q.op = "change" => Entitled(q.org, q.actor, "roles.manage")
        /\ q.op = "remove" => Entitled(q.org, q.actor, "users.remove")
        /\ q.op = "invite" => Entitled(q.org, q.actor, "invite")

IndEntitled ==
    /\ ActorsEntitled
    /\ \A r \in Request : EntitledRequest(req[r])

\* The log and the tables never take back that somebody was entitled.
LEMMA EntitledKept ==
  ASSUME Kept, AllIsolated, NEW o \in Org, NEW u \in User, NEW p,
         Entitled(o, u, p)
  PROVE  Entitled(o, u, p)'
<1>1. CASE orgs[o] = u
  BY <1>1, NoneIsNoId DEF Kept, Entitled
<1>2. CASE \E e \in audit : /\ e.action = "role.changed" /\ Grants(e.new, p)
                            /\ members[e.resource].org = o
                            /\ members[e.resource].user = u
  <2>1. PICK e \in audit : /\ e.action = "role.changed" /\ Grants(e.new, p)
                           /\ members[e.resource].org = o
                           /\ members[e.resource].user = u
    BY <1>2
  <2>2. e.resource \in Membership /\ members[e.resource] # None
    BY <2>1 DEF AllIsolated, Isolated
  <2>3. /\ e \in audit'
        /\ members'[e.resource].org = o /\ members'[e.resource].user = u
    BY <2>1, <2>2 DEF Kept
  <2>. QED
    BY <2>1, <2>3 DEF Entitled
<1>3. CASE \E i \in Sent : /\ invites[i].accepted
                           /\ invites[i].org = o /\ invites[i].email = u
                           /\ Grants(invites[i].role, p)
  BY <1>3 DEF Kept, Entitled
<1>. QED
  BY <1>1, <1>2, <1>3 DEF Entitled

\* Who has a permission now was given it at some time.
LEMMA PermittedIsEntitled ==
  ASSUME RoleExplained, NEW o \in Org, NEW u \in User, NEW p, Permitted(u, o, p)
  PROVE  Entitled(o, u, p)
<1>1. PICK m \in Present : /\ members[m].org = o /\ members[m].user = u
                           /\ Grants(members[m].role, p)
  BY DEF Permitted, MembersOf
<1>2. CASE orgs[o] = u
  BY <1>2 DEF Entitled
<1>3. CASE \E e \in audit : /\ e.action = "role.changed" /\ e.resource = m
                            /\ e.new = members[m].role
  BY <1>1, <1>3 DEF Entitled
<1>4. CASE \E i \in Sent : /\ invites[i].accepted /\ invites[i].org = o
                           /\ invites[i].email = u
                           /\ invites[i].role = members[m].role
  BY <1>1, <1>4 DEF Entitled
<1>. QED
  BY <1>1, <1>2, <1>3, <1>4 DEF RoleExplained

\* A request is let in by the permission its handler asks for.
LEMMA AuthoriseEntitles ==
  ASSUME TypeOK, RoleExplained, NEW r \in Request,
         AuthoriseChange(r) \/ AuthoriseRemove(r) \/ AuthoriseInvite(r)
  PROVE  EntitledRequest(req'[r])
<1>1. ASSUME NEW handler, NEW permission, NEW roles, NEW pc,
             Authorise(r, handler, permission, roles, pc)
      PROVE  /\ req'[r].op = handler
             /\ req'[r].org \in Org /\ req'[r].actor \in User
             /\ Entitled(req'[r].org, req'[r].actor, permission)
  <2>1. PICK a \in User, u \in User, o \in Org, role \in roles :
               /\ Permitted(a, o, permission)
               /\ \E m \in MembersOf(o, a) :
                    req' = [req EXCEPT ![r] =
                      [Idle EXCEPT !.pc = pc, !.op = handler, !.actor = a,
                                   !.org = o, !.target = u, !.role = role,
                                   !.row = IF a = u THEN m ELSE None,
                                   !.old = IF a = u THEN members[m].role
                                           ELSE None]]
    BY <1>1 DEF Authorise
  <2>2. req'[r].op = handler /\ req'[r].org = o /\ req'[r].actor = a
    BY <2>1 DEF TypeOK, Idle
  <2>3. Entitled(o, a, permission)
    BY <2>1, PermittedIsEntitled
  <2>. QED
    BY <2>2, <2>3
<1>2. CASE AuthoriseChange(r)
  BY <1>1, <1>2 DEF AuthoriseChange, EntitledRequest
<1>3. CASE AuthoriseRemove(r)
  BY <1>1, <1>3 DEF AuthoriseRemove, EntitledRequest
<1>4. CASE AuthoriseInvite(r)
  BY <1>1, <1>4 DEF AuthoriseInvite, EntitledRequest
<1>. QED
  BY <1>2, <1>3, <1>4

\* Once let in, a request keeps its handler, organization and actor.
LEMMA RequestGoesOn ==
  ASSUME TypeOK, [Next]_vars, NEW r \in Request
  PROVE  \/ AuthoriseChange(r) \/ AuthoriseRemove(r) \/ AuthoriseInvite(r)
         \/ req'[r].pc = "idle" \/ req'[r].op = "accept"
         \/ /\ req[r].pc # "idle"
            /\ req'[r].op = req[r].op
            /\ req'[r].org = req[r].org
            /\ req'[r].actor = req[r].actor
<1>0. req \in [Request -> RequestState]
  BY DEF TypeOK
<1>1. CASE UNCHANGED req
  BY <1>1
<1>2. ASSUME NEW q \in Request, End(q)
      PROVE  req'[r] = req[r] \/ req'[r].pc = "idle"
  BY <1>0, <1>2 DEF End, Idle
<1>3. ASSUME NEW q \in Request, NEW pc, Go(q, pc), req[q].pc # "idle"
      PROVE  \/ req'[r] = req[r]
             \/ /\ req[r].pc # "idle"
                /\ req'[r].op = req[r].op
                /\ req'[r].org = req[r].org
                /\ req'[r].actor = req[r].actor
  BY <1>0, <1>3 DEF Go, RequestState
<1>4. ASSUME NEW q \in Request,
             AuthoriseChange(q) \/ AuthoriseRemove(q) \/ AuthoriseInvite(q)
      PROVE  q = r \/ req'[r] = req[r]
  BY <1>0, <1>4 DEF AuthoriseChange, AuthoriseRemove, AuthoriseInvite, Authorise
<1>5. ASSUME NEW q \in Request, LoadTarget(q), ~End(q)
      PROVE  \/ req'[r] = req[r]
             \/ /\ req[r].pc # "idle"
                /\ req'[r].op = req[r].op
                /\ req'[r].org = req[r].org
                /\ req'[r].actor = req[r].actor
  <2>1. PICK m \in MembersOf(req[q].org, req[q].target) :
          LET old == IF req[q].row = m THEN req[q].old ELSE members[m].role
          IN  req' = [req EXCEPT ![q].row = m, ![q].old = old,
                  ![q].pc = IF LosesOwner(old, req[q].role) THEN "owners"
                            ELSE "write"]
    BY <1>5 DEF LoadTarget
  <2>2. req[q].pc = "target"
    BY <1>5 DEF LoadTarget
  <2>3. CASE q = r
    BY <1>0, <2>1, <2>2, <2>3 DEF RequestState
  <2>4. CASE q # r
    BY <1>0, <2>1, <2>4
  <2>. QED
    BY <2>3, <2>4
<1>6. ASSUME NEW q \in Request, NEW u \in User, NEW i \in Invitation,
             AcceptRead(q, u, i)
      PROVE  req'[r] = req[r] \/ req'[r].op = "accept"
  BY <1>0, <1>6 DEF AcceptRead, Idle
<1>7. ASSUME NEW q \in Request, ChangeMember(q)
      PROVE  \/ AuthoriseChange(q) \/ AuthoriseRemove(q)
             \/ LoadTarget(q) \/ End(q)
             \/ Go(q, "write") /\ req[q].pc # "idle"
  BY <1>7 DEF ChangeMember, CountOwners, ChangeWrite, RemoveWrite
<1>8. ASSUME NEW q \in Request, CreateInvitation(q)
      PROVE  \/ AuthoriseInvite(q)
             \/ End(q)
             \/ (Go(q, "pending") \/ Go(q, "write")) /\ req[q].pc # "idle"
  BY <1>8 DEF CreateInvitation, InviteMember, InvitePending, InviteWrite
<1>9. ASSUME NEW q \in Request, AcceptInvitation(q)
      PROVE  \/ \E u \in User, i \in Invitation : AcceptRead(q, u, i)
             \/ End(q)
             \/ Go(q, "write") /\ req[q].pc # "idle"
  BY <1>9 DEF AcceptInvitation, AcceptExisting, AcceptConflict, AcceptWrite
<1>10. CASE \E q \in Request : Rollback(q)
  BY <1>2, <1>10 DEF Rollback
<1>11. CASE \E q \in Request : ChangeMember(q)
  BY <1>2, <1>3, <1>4, <1>5, <1>7, <1>11
<1>12. CASE \E q \in Request : CreateInvitation(q)
  BY <1>2, <1>3, <1>4, <1>8, <1>12
<1>13. CASE \E q \in Request : AcceptInvitation(q)
  BY <1>2, <1>3, <1>6, <1>9, <1>13
<1>. QED
  BY <1>1, <1>10, <1>11, <1>12, <1>13 DEF Next, CreateOrg, Tick, vars

LEMMA EntitledInductive ==
  IndTyped /\ IndTables /\ IndEntitled /\ [Next]_vars => IndEntitled'
<1> SUFFICES ASSUME IndTyped, IndTables, IndEntitled, [Next]_vars
             PROVE  IndEntitled'
  OBVIOUS
<1>1. Kept /\ AllIsolated /\ RoleExplained /\ TypeOK
  BY AlwaysKept DEF IndTables, IndTyped
<1>2. ASSUME NEW o \in Org, NEW u \in User, NEW p, Entitled(o, u, p)
      PROVE  Entitled(o, u, p)'
  BY <1>1, <1>2, EntitledKept
<1>3. ASSUME NEW q, EntitledRequest(q)
      PROVE  EntitledRequest(q)'
  BY <1>2, <1>3 DEF EntitledRequest
<1>4. ASSUME NEW r \in Request PROVE EntitledRequest(req[r])'
  <2>1. EntitledRequest(req'[r])
    <3>1. CASE AuthoriseChange(r) \/ AuthoriseRemove(r) \/ AuthoriseInvite(r)
      BY <1>1, <3>1, AuthoriseEntitles
    <3>2. CASE req'[r].pc = "idle" \/ req'[r].op = "accept"
      BY <3>2 DEF EntitledRequest
    <3>3. CASE /\ req[r].pc # "idle"
               /\ req'[r].op = req[r].op
               /\ req'[r].org = req[r].org
               /\ req'[r].actor = req[r].actor
      BY <3>3 DEF IndEntitled, EntitledRequest
    <3>. QED
      BY <1>1, <3>1, <3>2, <3>3, RequestGoesOn
  <2> DEFINE q == req'[r]
  <2>. QED
    BY <1>3, <2>1
<1>5. ASSUME NEW e \in audit', e \notin audit,
             e.action \in {"role.changed", "member.removed", "invite.created"}
      PROVE  \E r \in Request :
                /\ req[r].pc = "write" /\ req[r].op # "accept"
                /\ e.org = req[r].org /\ e.actor = req[r].actor
                /\ e.action = "role.changed" => req[r].op = "change"
                /\ e.action = "member.removed" => req[r].op = "remove"
                /\ e.action = "invite.created" => req[r].op = "invite"
  <2>1. ASSUME NEW a \in User, NEW o \in Org, NEW m \in Membership,
               CreateOrg(a, o, m)
        PROVE  FALSE
    BY <1>5, <2>1 DEF CreateOrg, Entry
  <2>2. ASSUME NEW r \in Request, ChangeWrite(r)
        PROVE  /\ req[r].pc = "write"
               /\ e.org = req[r].org /\ e.actor = req[r].actor
               /\ e.action = "role.changed" /\ req[r].op = "change"
    BY <1>5, <2>2 DEF ChangeWrite, Entry
  <2>3. ASSUME NEW r \in Request, RemoveWrite(r)
        PROVE  /\ req[r].pc = "write"
               /\ e.org = req[r].org /\ e.actor = req[r].actor
               /\ e.action = "member.removed" /\ req[r].op = "remove"
    BY <1>5, <2>3 DEF RemoveWrite, Entry
  <2>4. ASSUME NEW r \in Request, NEW i \in Invitation, InviteWrite(r, i)
        PROVE  /\ req[r].pc = "write"
               /\ e.org = req[r].org /\ e.actor = req[r].actor
               /\ e.action = "invite.created" /\ req[r].op = "invite"
    BY <1>5, <2>4 DEF InviteWrite, Entry
  <2>5. ASSUME NEW r \in Request, NEW m \in Membership, AcceptWrite(r, m)
        PROVE  FALSE
    BY <1>5, <2>5 DEF AcceptWrite, Entry
  <2>. QED
    BY <1>5, <2>1, <2>2, <2>3, <2>4, <2>5, WhatIsWritten
<1>6. ASSUME NEW e \in audit'
      PROVE  /\ e.action = "role.changed" =>
                   Entitled(e.org, e.actor, "roles.manage")'
             /\ e.action = "member.removed" =>
                   Entitled(e.org, e.actor, "users.remove")'
             /\ e.action = "invite.created" =>
                   Entitled(e.org, e.actor, "invite")'
  <2>1. CASE e \in audit
    <3>1. e.org \in Org /\ e.actor \in User
      BY <1>1, <2>1 DEF TypeOK, AuditEntry
    <3>. QED
      BY <1>2, <2>1, <3>1 DEF IndEntitled, ActorsEntitled
  <2>2. CASE /\ e \notin audit
             /\ e.action \in {"role.changed", "member.removed", "invite.created"}
    <3>1. PICK r \in Request :
                /\ req[r].pc = "write" /\ req[r].op # "accept"
                /\ e.org = req[r].org /\ e.actor = req[r].actor
                /\ e.action = "role.changed" => req[r].op = "change"
                /\ e.action = "member.removed" => req[r].op = "remove"
                /\ e.action = "invite.created" => req[r].op = "invite"
      BY <1>5, <2>2
    <3>2. EntitledRequest(req[r])
      BY DEF IndEntitled
    <3>. QED
      BY <1>2, <2>2, <3>1, <3>2 DEF EntitledRequest
  <2>. QED
    BY <2>1, <2>2
<1>. QED
  BY <1>4, <1>6 DEF IndEntitled, ActorsEntitled

\* However many requests run at once and however roles change meanwhile, nobody
\* changes a role, removes a member or invites who was not given the permission
\* for it at some time.
THEOREM ActorsAreEntitled == Spec => []ActorsEntitled
<1>1. Init => IndEntitled
  BY DEF Init, IndEntitled, ActorsEntitled, EntitledRequest, Idle
<1>2. IndTyped /\ IndTables /\ IndEntitled /\ [Next]_vars => IndEntitled'
  BY EntitledInductive
<1>3. IndEntitled => ActorsEntitled
  BY DEF IndEntitled
<1>. QED
  BY <1>1, <1>2, <1>3, TablesInvariant, PTL DEF Spec

-----------------------------------------------------------------------------
(* Invitations pending, and requests about to send one                      *)

(* Requests that found no pending invitation for e and have not yet sent one. *)
Inviting(o, e) ==
    {r \in Request : /\ req[r].pc = "write" /\ req[r].op = "invite"
                     /\ req[r].org = o /\ req[r].target = e}

(* Each pending invitation was sent by another of the requests that looked    *)
(* when there was none, and the others are still to send theirs.              *)
Budget(o, e) ==
    /\ IsFiniteSet(Pending(o, e))
    /\ Cardinality(Pending(o, e)) + Cardinality(Inviting(o, e))
          <= Cardinality(Request)

IndPending == \A o \in Org, e \in User : Budget(o, e)

\* A request is about to invite only after it found nothing pending.
LEMMA InvitingStep ==
  ASSUME IndTyped, [Next]_vars, NEW o \in Org, NEW e \in User, NEW r \in Request,
         r \in Inviting(o, e)', r \notin Inviting(o, e)
  PROVE  Pending(o, e) = {} /\ UNCHANGED <<invites, now>>
<1>0. req \in [Request -> RequestState] /\ \A q \in Request : Knows(req[q])
  BY DEF IndTyped, TypeOK, RequestsOK
<1>1. /\ req'[r].pc = "write" /\ req'[r].op = "invite"
      /\ req'[r].org = o /\ req'[r].target = e
  BY DEF Inviting
<1>2. ~(UNCHANGED req) /\ req'[r] # req[r]
  BY <1>1 DEF Inviting
<1>3. ASSUME NEW q \in Request, End(q) PROVE FALSE
  BY <1>0, <1>1, <1>2, <1>3 DEF End, Idle
<1>4. ASSUME NEW q \in Request, NEW pc, Go(q, pc) PROVE
      /\ q = r /\ pc = "write" /\ req[q].op = "invite"
      /\ req[q].org = o /\ req[q].target = e
  BY <1>0, <1>1, <1>2, <1>4 DEF Go, RequestState
<1>5. ASSUME NEW q \in Request,
             AuthoriseChange(q) \/ AuthoriseRemove(q) \/ AuthoriseInvite(q)
      PROVE  FALSE
  <2>1. ASSUME NEW handler, NEW permission, NEW roles,
               NEW pc \in {"target", "member"},
               Authorise(q, handler, permission, roles, pc)
        PROVE  FALSE
    <3>1. PICK a, u \in User, p \in Org, role \in roles :
             \E m \in MembersOf(p, a) :
               req' = [req EXCEPT ![q] =
                 [Idle EXCEPT !.pc = pc, !.op = handler, !.actor = a,
                              !.org = p, !.target = u, !.role = role,
                              !.row = IF a = u THEN m ELSE None,
                              !.old = IF a = u THEN members[m].role ELSE None]]
      BY <2>1 DEF Authorise
    <3>2. req'[r] = req[r] \/ req'[r].pc = pc
      BY <1>0, <3>1 DEF Idle
    <3>. QED
      BY <1>1, <1>2, <3>2
  <2>. QED
    BY <1>5, <2>1 DEF AuthoriseChange, AuthoriseRemove, AuthoriseInvite
<1>6. ASSUME NEW q \in Request, LoadTarget(q) PROVE FALSE
  <2>1. req[q].pc = "target" /\ req[q].op \in {"change", "remove"}
    BY <1>0, <1>6 DEF LoadTarget, Knows
  <2>2. PICK m \in MembersOf(req[q].org, req[q].target) :
          LET old == IF req[q].row = m THEN req[q].old ELSE members[m].role
          IN  req' = [req EXCEPT ![q].row = m, ![q].old = old,
                  ![q].pc = IF LosesOwner(old, req[q].role) THEN "owners"
                            ELSE "write"]
    BY <1>3, <1>6 DEF LoadTarget
  <2>3. q = r
    BY <1>0, <1>2, <2>2
  <2>4. req'[r].op = req[r].op
    BY <1>0, <2>2, <2>3 DEF RequestState
  <2>. QED
    BY <1>1, <2>1, <2>3, <2>4
<1>7. ASSUME NEW q \in Request, ChangeMember(q) PROVE FALSE
  <2>1. CASE CountOwners(q)
    BY <1>0, <1>3, <1>4, <2>1 DEF CountOwners, Knows
  <2>. QED
    BY <1>3, <1>5, <1>6, <1>7, <2>1 DEF ChangeMember, ChangeWrite, RemoveWrite
<1>8. ASSUME NEW q \in Request, CreateInvitation(q)
      PROVE  Pending(o, e) = {} /\ UNCHANGED <<invites, now>>
  <2>1. CASE InvitePending(q)
    BY <1>3, <1>4, <2>1 DEF InvitePending
  <2>2. CASE InviteMember(q)
    BY <1>3, <1>4, <2>2 DEF InviteMember
  <2>. QED
    BY <1>3, <1>5, <1>8, <2>1, <2>2 DEF CreateInvitation, InviteWrite
<1>9. ASSUME NEW q \in Request, NEW u \in User, NEW i \in Invitation,
             AcceptRead(q, u, i)
      PROVE  FALSE
  BY <1>0, <1>1, <1>2, <1>9 DEF AcceptRead, Idle
<1>10. ASSUME NEW q \in Request, AcceptInvitation(q) PROVE FALSE
  <2>1. CASE AcceptExisting(q)
    BY <1>0, <1>3, <1>4, <2>1 DEF AcceptExisting, Knows
  <2>. QED
    BY <1>3, <1>9, <1>10, <2>1 DEF AcceptInvitation, AcceptConflict, AcceptWrite
<1>11. ~ \E q \in Request : Rollback(q)
  BY <1>3 DEF Rollback
<1>. QED
  BY <1>2, <1>7, <1>8, <1>10, <1>11 DEF Next, CreateOrg, Tick, vars

\* Only sending makes an invitation pending: the clock and acceptance take away.
LEMMA PendingShrinks ==
  ASSUME IndTyped, [Next]_vars, NEW o \in Org, NEW e \in User,
         NEW k \in Pending(o, e)', k \notin Pending(o, e)
  PROVE  \E r \in Request : InviteWrite(r, k) /\ r \in Inviting(o, e)
<1>1. ASSUME k \in Sent, invites'[k] = invites[k] PROVE FALSE
  <2>1. now' = now \/ now' = now + 1
    BY ClockStep
  <2>2. now \in Int /\ now' \in Int /\ invites[k].expires \in Int
    BY <1>1, TypedInductive, RowTypes DEF IndTyped, TypeOK, InviteRow
  <2>. QED
    BY <1>1, <2>1, <2>2 DEF Pending
<1>2. k \in Invitation /\ k \in Sent'
  BY DEF Pending, Sent
<1>3. ASSUME NEW r \in Request, NEW i \in Invitation, InviteWrite(r, i)
      PROVE  InviteWrite(r, k) /\ r \in Inviting(o, e)
  <2>1. /\ Sent' = Sent \cup {i}
        /\ \A l \in Invitation : l # i => invites'[l] = invites[l]
        /\ invites'[i].org = req[r].org /\ invites'[i].email = req[r].target
    BY <1>3, InviteEffect
  <2>2. k = i
    BY <1>1, <1>2, <2>1
  <2>3. req[r].org = o /\ req[r].target = e
    BY <2>1, <2>2 DEF Pending
  <2>. QED
    BY <1>3, <2>2, <2>3 DEF InviteWrite, Inviting
<1>4. ASSUME NEW r \in Request, NEW m \in Membership, AcceptWrite(r, m)
      PROVE  FALSE
  <2>1. /\ Sent' = Sent
        /\ \A l \in Invitation : l # req[r].row => invites'[l] = invites[l]
        /\ invites'[req[r].row].accepted
    BY <1>4, AcceptEffect
  <2>. QED
    BY <1>1, <1>2, <2>1 DEF Pending
<1>5. ASSUME UNCHANGED invites PROVE FALSE
  BY <1>1, <1>2, <1>5 DEF Sent
<1>. QED
  BY <1>3, <1>4, <1>5, WhatIsWritten DEF CreateOrg, ChangeWrite, RemoveWrite

LEMMA BudgetStep ==
  ASSUME IndTyped, [Next]_vars, NEW o \in Org, NEW e \in User, Budget(o, e)
  PROVE  Budget(o, e)'
<1> DEFINE P == Pending(o, e)
           Q == Pending(o, e)'
           V == Inviting(o, e)
           W == Inviting(o, e)'
<1>1. V \subseteq Request /\ W \subseteq Request
  BY DEF Inviting
<1>2. /\ IsFiniteSet(V) /\ IsFiniteSet(W) /\ IsFiniteSet(P)
      /\ Cardinality(V) \in Nat /\ Cardinality(W) \in Nat
      /\ Cardinality(P) \in Nat /\ Cardinality(Request) \in Nat
      /\ Cardinality(W) <= Cardinality(Request)
      /\ Cardinality(P) + Cardinality(V) <= Cardinality(Request)
  BY <1>1, RequestsAssumption, FS_Subset, FS_CardinalityType DEF Budget
<1>3. SUFFICES IsFiniteSet(Q) /\ Cardinality(Q) + Cardinality(W)
                                   <= Cardinality(Request)
  BY DEF Budget
<1>4. CASE Q \subseteq P /\ W \subseteq V
  <2>1. /\ IsFiniteSet(Q) /\ Cardinality(Q) \in Nat
        /\ Cardinality(Q) <= Cardinality(P)
        /\ Cardinality(W) <= Cardinality(V)
    BY <1>2, <1>4, FS_Subset, FS_CardinalityType
  <2>. QED
    BY <1>2, <2>1
<1>5. CASE \E r \in W : r \notin V
  <2>1. PICK r \in Request : r \in W /\ r \notin V
    BY <1>1, <1>5
  <2>2. P = {} /\ UNCHANGED <<invites, now>>
    BY <2>1, InvitingStep
  <2>3. Q = {}
    BY <2>2 DEF Pending, Sent
  <2>4. IsFiniteSet(Q) /\ Cardinality(Q) = 0
    BY <2>3, FS_EmptySet
  <2>. QED
    BY <1>2, <2>4
<1>6. CASE W \subseteq V /\ \E k \in Q : k \notin P
  <2>1. PICK k \in Q : k \notin P
    BY <1>6
  <2>2. PICK r \in Request : InviteWrite(r, k) /\ r \in V
    BY <2>1, PendingShrinks
  <2>3. /\ Sent' = Sent \cup {k} /\ k \in Invitation
        /\ \A l \in Invitation : l # k => invites'[l] = invites[l]
        /\ now' = now
    BY <2>2, InviteEffect DEF InviteWrite
  <2>4. Q \subseteq P \cup {k}
    BY <2>3 DEF Pending, Sent
  <2>5. r \notin W
    BY <2>2 DEF InviteWrite, End, Idle, Inviting, IndTyped, TypeOK
  <2>6. W \subseteq V \ {r}
    BY <1>6, <2>5
  <2>7. /\ IsFiniteSet(V \ {r})
        /\ Cardinality(V \ {r}) = Cardinality(V) - 1
    BY <1>2, <2>2, FS_RemoveElement
  <2>8. /\ IsFiniteSet(P \cup {k})
        /\ Cardinality(P \cup {k}) = Cardinality(P) + 1
    BY <1>2, <2>1, FS_AddElement
  <2>9. Cardinality(W) <= Cardinality(V) - 1
    BY <2>6, <2>7, FS_Subset
  <2>10. /\ IsFiniteSet(Q) /\ Cardinality(Q) \in Nat
         /\ Cardinality(Q) <= Cardinality(P) + 1
    BY <2>4, <2>8, FS_Subset, FS_CardinalityType
  <2> HIDE DEF P, Q, V, W
  <2>. QED
    BY <1>2, <2>9, <2>10
<1>. QED
  BY <1>4, <1>5, <1>6

\* An e-mail has at most as many pending invitations in an organization as there
\* can be requests in flight: a request sends one only if it found none, and
\* whatever others send after that is sent by requests in flight with it.
THEOREM PendingIsBounded == Spec => []PendingBounded
<1>1. Init => IndPending
  <2> SUFFICES ASSUME Init, NEW o \in Org, NEW e \in User PROVE Budget(o, e)
    BY DEF IndPending
  <2>1. Pending(o, e) = {} /\ Inviting(o, e) = {}
    BY DEF Init, Pending, Sent, Inviting, Idle
  <2>2. Cardinality({}) = 0 /\ IsFiniteSet({}) /\ Cardinality(Request) \in Nat
    BY RequestsAssumption, FS_EmptySet, FS_CardinalityType
  <2>. QED
    BY <2>1, <2>2 DEF Budget
<1>2. IndTyped /\ IndPending /\ [Next]_vars => IndPending'
  BY BudgetStep DEF IndPending
<1>3. IndPending => PendingBounded
  <2> SUFFICES ASSUME IndPending, NEW o \in Org, NEW e \in User
               PROVE  Cardinality(Pending(o, e)) <= Cardinality(Request)
    BY DEF PendingBounded
  <2>1. Budget(o, e)
    BY DEF IndPending
  <2>2. Cardinality(Inviting(o, e)) \in Nat
    BY RequestsAssumption, FS_Subset, FS_CardinalityType DEF Inviting
  <2>3. /\ Cardinality(Pending(o, e)) \in Nat /\ Cardinality(Request) \in Nat
        /\ Cardinality(Pending(o, e)) + Cardinality(Inviting(o, e))
              <= Cardinality(Request)
    BY <2>1, RequestsAssumption, FS_CardinalityType DEF Budget
  <2>. QED
    BY <2>2, <2>3
<1>. QED
  BY <1>1, <1>2, <1>3, TypedInvariant, PTL DEF Spec
=============================================================================
