------------------------- MODULE TenancySerialProofs -------------------------
(***************************************************************************)
(* What Tenancy promises when requests are handled one at a time: with two   *)
(* at once each of these fails.  The proofs hold for every set of users,    *)
(* organizations and ids, every time to live and every bound.               *)
(***************************************************************************)
EXTENDS TenancyProofs

\* Handlers run one at a time.
Alone == \A q, r \in Request : q = r

(* Nothing changes between what a request reads and what it writes: its      *)
(* actor still has the permission, the target's row and its role are as      *)
(* loaded, a row that is demoted or removed is not the last owner's, nobody  *)
(* has joined or been invited meanwhile, the invitation is still open.       *)
Fresh(q) ==
    q.pc # "idle" =>
        /\ q.op = "change" => Permitted(q.actor, q.org, "roles.manage")
        /\ q.op = "remove" => Permitted(q.actor, q.org, "users.remove")
        /\ q.op = "invite" => Permitted(q.actor, q.org, "invite")
        /\ q.op \in {"change", "remove"} /\ q.row # None =>
              /\ q.row \in MembersOf(q.org, q.target)
              /\ members[q.row].role = q.old
        /\ /\ q.op \in {"change", "remove"} /\ q.pc = "write"
           /\ LosesOwner(q.old, q.role)
           => \E m \in Owners(q.org) : m # q.row
        /\ q.op = "invite" /\ q.pc \in {"pending", "write"} =>
              MembersOf(q.org, q.target) = {}
        /\ q.op = "invite" /\ q.pc = "write" =>
              Pending(q.org, q.target) = {}
        /\ q.op = "accept" => ~invites[q.row].accepted

AllFresh == \A r \in Request : Fresh(req[r])

\* A set with no two elements.
LEMMA AtMostOne == \A S, x : S \subseteq {x} => Cardinality(S) <= 1
<1> SUFFICES ASSUME NEW S, NEW x, S \subseteq {x} PROVE Cardinality(S) <= 1
  OBVIOUS
<1>1. IsFiniteSet({x}) /\ Cardinality({x}) = 1
  BY FS_Singleton
<1>2. Cardinality(S) <= Cardinality({x})
  BY <1>1, FS_Subset
<1>3. Cardinality(S) \in Nat
  BY <1>1, FS_Subset, FS_CardinalityType
<1>. QED
  BY <1>1, <1>2, <1>3

LEMMA InitFresh == Init => AllFresh
  BY DEF Init, AllFresh, Fresh, Idle

LEMMA FreshIdle == Fresh(Idle) /\ Fresh(Idle)'
  BY DEF Fresh, Idle

\* A step that leaves the tables and the clock as they are.
LEMMA FreshRequestStep ==
  ASSUME IndTyped, AllFresh, NEW r \in Request, NEW q, Fresh(q),
         req' = [req EXCEPT ![r] = q],
         UNCHANGED <<orgs, members, invites, audit, now>>
  PROVE  AllFresh'
<1>1. \A p : Fresh(p)' <=> Fresh(p)
  BY DEF Fresh, Permitted, MembersOf, Owners, Pending, Present, Sent
<1>. QED
  BY <1>1 DEF AllFresh, IndTyped, TypeOK

\* A request that ends leaves no other in flight.
LEMMA FreshEnd ==
  ASSUME Alone, IndTyped, NEW r \in Request, End(r)
  PROVE  AllFresh'
<1>1. \A p \in Request : req'[p] = Idle
  BY DEF Alone, End, IndTyped, TypeOK
<1>. QED
  BY <1>1, FreshIdle DEF AllFresh

\* A new organization is none that a request in flight is about.
LEMMA FreshCreate ==
  ASSUME IndTyped, IndTables, AllFresh,
         NEW a \in User, NEW o \in Org, NEW m \in Membership,
         CreateOrg(a, o, m)
  PROVE  AllFresh'
<1>1. /\ members[m] = None /\ orgs[o] = None
      /\ members'[m].org = o /\ members'[m].user = a /\ members'[m].present
      /\ members'[m].role = "owner" /\ members'[m] # None
      /\ \A n \in Membership : n # m => members'[n] = members[n]
  BY CreateEffect
<1>2. UNCHANGED <<invites, now, req>>
  BY DEF CreateOrg
<1>3. Present' = Present \cup {m} /\ m \notin Present
  BY <1>1 DEF Present
<1>4. \A p, u : p # o => MembersOf(p, u)' = MembersOf(p, u)
  BY <1>1, <1>3 DEF MembersOf, Present
<1>5. ASSUME NEW p, NEW u, NEW permission,
             p # o, Permitted(u, p, permission)
      PROVE  Permitted(u, p, permission)'
  <2>1. PICK n \in MembersOf(p, u) : Grants(members[n].role, permission)
    BY <1>5 DEF Permitted
  <2>2. n \in MembersOf(p, u)' /\ members'[n] = members[n]
    BY <1>1, <1>3, <1>4, <1>5 DEF MembersOf, Present
  <2>. QED
    BY <2>1, <2>2 DEF Permitted
<1>6. \A p : p # o => Owners(p)' = Owners(p)
  BY <1>1, <1>3 DEF Owners, Present
<1>7. \A p, e : Pending(p, e)' = Pending(p, e)
  BY <1>2 DEF Pending, Sent
<1>8. ASSUME NEW q, q.pc # "idle", Knows(q), Fresh(q) PROVE Fresh(q)'
  <2>1. q.org # o
    BY <1>1, <1>8 DEF Knows, Joined, IndTables, OrgsFounded
  <2>2. \A n \in MembersOf(q.org, q.target) : members'[n] = members[n]
    BY <1>1 DEF MembersOf, Present
  <2>. QED
    BY <1>2, <1>4, <1>5, <1>6, <1>7, <1>8, <2>1, <2>2 DEF Fresh
<1>9. \A q : q.pc = "idle" => Fresh(q)'
  BY DEF Fresh
<1>. QED
  BY <1>2, <1>8, <1>9 DEF AllFresh, IndTyped, RequestsOK

LEMMA FreshTick == AllFresh /\ IndTyped /\ Tick => AllFresh'
<1> SUFFICES ASSUME AllFresh, IndTyped, Tick PROVE AllFresh'
  OBVIOUS
<1>1. UNCHANGED <<orgs, members, invites, audit, req>> /\ now' = now + 1
  BY DEF Tick
<1>2. \A o, e : Pending(o, e)' \subseteq Pending(o, e)
  <2>1. \A i \in Sent : invites[i].expires \in Nat
    BY RowTypes DEF IndTyped, InviteRow
  <2>2. now \in Int
    BY BoundsAssumption DEF IndTyped, TypeOK
  <2>. QED
    BY <1>1, <2>1, <2>2 DEF Pending, Sent
<1>3. \A o, u : MembersOf(o, u)' = MembersOf(o, u)
  BY <1>1 DEF MembersOf, Present
<1>4. \A o : Owners(o)' = Owners(o)
  BY <1>1 DEF Owners, Present
<1>5. \A a, o, p : Permitted(a, o, p)' <=> Permitted(a, o, p)
  BY <1>1, <1>3 DEF Permitted
<1>6. \A q : Fresh(q) => Fresh(q)'
  BY <1>1, <1>2, <1>3, <1>4, <1>5 DEF Fresh
<1>. QED
  BY <1>1, <1>6 DEF AllFresh

LEMMA FreshAuthorise ==
  ASSUME IndTyped, AllFresh, NEW r \in Request,
         NEW handler, NEW permission, NEW roles, NEW pc,
         \/ handler = "change" /\ permission = "roles.manage" /\ pc = "target"
         \/ handler = "remove" /\ permission = "users.remove" /\ pc = "target"
         \/ handler = "invite" /\ permission = "invite" /\ pc = "member",
         Authorise(r, handler, permission, roles, pc)
  PROVE  AllFresh'
<1>1. PICK a \in User, u \in User, o \in Org, role \in roles :
         /\ Permitted(a, o, permission)
         /\ \E m \in MembersOf(o, a) :
            req' = [req EXCEPT ![r] =
                [Idle EXCEPT !.pc = pc, !.op = handler, !.actor = a, !.org = o,
                             !.target = u, !.role = role,
                             !.row = IF a = u THEN m ELSE None,
                             !.old = IF a = u THEN members[m].role ELSE None]]
  BY DEF Authorise
<1>2. PICK m \in MembersOf(o, a) :
         req' = [req EXCEPT ![r] =
                   [Idle EXCEPT !.pc = pc, !.op = handler, !.actor = a, !.org = o,
                                !.target = u, !.role = role,
                                !.row = IF a = u THEN m ELSE None,
                                !.old = IF a = u THEN members[m].role ELSE None]]
  BY <1>1
<1> DEFINE row == IF a = u THEN m ELSE None
           old == IF a = u THEN members[m].role ELSE None
           q == [Idle EXCEPT !.pc = pc, !.op = handler, !.actor = a, !.org = o,
                             !.target = u, !.role = role, !.row = row, !.old = old]
<1>3. row # None => row \in MembersOf(o, u) /\ members[row].role = old
  OBVIOUS
<1>4. req' = [req EXCEPT ![r] = q]
  BY <1>2
<1> HIDE DEF row, old
<1>5. Fresh(q)
  BY <1>1, <1>3 DEF Fresh, Idle
<1>6. UNCHANGED <<orgs, members, invites, audit, now>>
  BY DEF Authorise
<1>. QED
  BY <1>4, <1>5, <1>6, FreshRequestStep

LEMMA FreshNoWrite ==
  ASSUME IndTyped, AllFresh, NEW r \in Request, End(r),
         UNCHANGED <<orgs, members, invites, audit, now>>
  PROVE  AllFresh'
  BY FreshIdle, FreshRequestStep DEF End

LEMMA FreshLoad ==
  ASSUME IndTyped, AllFresh, NEW r \in Request, LoadTarget(r)
  PROVE  AllFresh'
<1>1. CASE End(r)
  BY <1>1, FreshNoWrite DEF LoadTarget
<1>2. CASE ~End(r)
  <2>1. PICK m \in MembersOf(req[r].org, req[r].target) :
          LET old == IF req[r].row = m THEN req[r].old ELSE members[m].role
          IN  req' = [req EXCEPT ![r].row = m, ![r].old = old,
                  ![r].pc = IF LosesOwner(old, req[r].role) THEN "owners"
                            ELSE "write"]
    BY <1>2 DEF LoadTarget
  <2> DEFINE old == IF req[r].row = m THEN req[r].old ELSE members[m].role
             pc == IF LosesOwner(old, req[r].role) THEN "owners" ELSE "write"
             q == [req[r] EXCEPT !.row = m, !.old = old, !.pc = pc]
  <2>2. /\ req[r] \in RequestState /\ Knows(req[r]) /\ Fresh(req[r])
        /\ req[r].pc = "target"
    BY DEF IndTyped, TypeOK, RequestsOK, LoadTarget, AllFresh
  <2>3. m \in Membership
    BY <2>1 DEF MembersOf, Present
  <2>4. members[m].role = old
    BY <2>2, <2>3, NoneIsNoId DEF Fresh, Knows
  <2>5. pc = "write" => ~LosesOwner(old, req[r].role)
    OBVIOUS
  <2>6. req' = [req EXCEPT ![r] = q]
    BY <2>1
  <2>7. req[r].op \in {"change", "remove"} /\ pc \in {"owners", "write"}
    BY <2>2 DEF Knows
  <2> HIDE DEF old, pc
  <2>8. Fresh(q)
    BY <2>1, <2>2, <2>4, <2>5, <2>7 DEF Fresh, RequestState
  <2>. QED
    BY <2>6, <2>8, FreshRequestStep DEF LoadTarget
<1>. QED
  BY <1>1, <1>2

LEMMA FreshCount ==
  ASSUME IndTyped, AllFresh, NEW r \in Request, CountOwners(r)
  PROVE  AllFresh'
<1>1. CASE End(r)
  BY <1>1, FreshNoWrite DEF CountOwners
<1>2. CASE ~(Cardinality(Owners(req[r].org)) <= 1) /\ Go(r, "write")
  <2> DEFINE q == [req[r] EXCEPT !.pc = "write"]
  <2>1. /\ req[r] \in RequestState /\ Knows(req[r]) /\ Fresh(req[r])
        /\ req[r].pc = "owners"
    BY DEF IndTyped, TypeOK, RequestsOK, CountOwners, AllFresh
  <2>2. \E m \in Owners(req[r].org) : m # req[r].row
    <3>1. SUFFICES ASSUME Owners(req[r].org) \subseteq {req[r].row}
                   PROVE  Cardinality(Owners(req[r].org)) <= 1
      BY <1>2
    <3>. QED
      BY <3>1, AtMostOne
  <2>3. Fresh(q)
    BY <2>1, <2>2 DEF Fresh, RequestState, Knows
  <2>. QED
    BY <1>2, <2>3, FreshRequestStep DEF CountOwners, Go
<1>. QED
  BY <1>1, <1>2 DEF CountOwners

LEMMA FreshInvite ==
  ASSUME IndTyped, AllFresh, NEW r \in Request,
         InviteMember(r) \/ InvitePending(r)
  PROVE  AllFresh'
<1>1. CASE End(r)
  BY <1>1, FreshNoWrite DEF InviteMember, InvitePending
<1>2. /\ req[r] \in RequestState /\ Knows(req[r]) /\ Fresh(req[r])
  BY DEF IndTyped, TypeOK, RequestsOK, AllFresh
<1>3. CASE /\ req[r].pc = "member" /\ MembersOf(req[r].org, req[r].target) = {}
           /\ Go(r, "pending")
  <2> DEFINE q == [req[r] EXCEPT !.pc = "pending"]
  <2>1. Fresh(q)
    BY <1>2, <1>3 DEF Fresh, RequestState, Knows
  <2>. QED
    BY <1>3, <2>1, FreshRequestStep DEF InviteMember, InvitePending, Go
<1>4. CASE /\ req[r].pc = "pending" /\ Pending(req[r].org, req[r].target) = {}
           /\ Go(r, "write")
  <2> DEFINE q == [req[r] EXCEPT !.pc = "write"]
  <2>1. Fresh(q)
    BY <1>2, <1>4 DEF Fresh, RequestState, Knows
  <2>. QED
    BY <1>4, <2>1, FreshRequestStep DEF InviteMember, InvitePending, Go
<1>. QED
  BY <1>1, <1>3, <1>4 DEF InviteMember, InvitePending

LEMMA FreshAccept ==
  ASSUME IndTyped, AllFresh, NEW r \in Request
  PROVE  /\ \A u \in User, i \in Invitation : AcceptRead(r, u, i) => AllFresh'
         /\ AcceptExisting(r) => AllFresh'
<1>1. ASSUME NEW u \in User, NEW i \in Invitation, AcceptRead(r, u, i)
      PROVE  AllFresh'
  <2> DEFINE q == [Idle EXCEPT !.pc = "existing", !.op = "accept", !.actor = u,
                               !.target = u, !.org = invites[i].org,
                               !.role = invites[i].role, !.row = i]
  <2>1. Fresh(q)
    BY <1>1 DEF AcceptRead, Fresh, Idle
  <2>. QED
    BY <1>1, <2>1, FreshRequestStep DEF AcceptRead
<1>2. ASSUME AcceptExisting(r) PROVE AllFresh'
  <2>1. CASE End(r)
    BY <1>2, <2>1, FreshNoWrite DEF AcceptExisting
  <2>2. CASE Go(r, "write")
    <3> DEFINE q == [req[r] EXCEPT !.pc = "write"]
    <3>1. /\ req[r] \in RequestState /\ Knows(req[r]) /\ Fresh(req[r])
          /\ req[r].pc = "existing"
      BY <1>2 DEF IndTyped, TypeOK, RequestsOK, AcceptExisting, AllFresh
    <3>2. Fresh(q)
      BY <3>1 DEF Fresh, RequestState, Knows
    <3>. QED
      BY <1>2, <2>2, <3>2, FreshRequestStep DEF AcceptExisting, Go
  <2>. QED
    BY <1>2, <2>1, <2>2 DEF AcceptExisting
<1>. QED
  BY <1>1, <1>2

LEMMA FreshInductive ==
  ASSUME Alone, IndTyped, IndTables, AllFresh, [Next]_vars
  PROVE  AllFresh'
<1>1. ASSUME NEW r \in Request, ChangeMember(r) PROVE AllFresh'
  BY <1>1, FreshAuthorise, FreshLoad, FreshCount, FreshEnd
  DEF ChangeMember, AuthoriseChange, AuthoriseRemove, ChangeWrite, RemoveWrite
<1>2. ASSUME NEW r \in Request, CreateInvitation(r) PROVE AllFresh'
  BY <1>2, FreshAuthorise, FreshInvite, FreshEnd
  DEF CreateInvitation, AuthoriseInvite, InviteWrite
<1>3. ASSUME NEW r \in Request, AcceptInvitation(r) PROVE AllFresh'
  BY <1>3, FreshAccept, FreshEnd
  DEF AcceptInvitation, AcceptConflict, AcceptWrite
<1>4. ASSUME NEW r \in Request, Rollback(r) PROVE AllFresh'
  BY <1>4, FreshEnd DEF Rollback
<1>5. CASE UNCHANGED vars
  BY <1>5 DEF vars, AllFresh, Fresh, Permitted, MembersOf, Owners, Pending,
              Present, Sent
<1>. QED
  BY <1>1, <1>2, <1>3, <1>4, <1>5, FreshCreate, FreshTick DEF Next

-----------------------------------------------------------------------------
(* The last owner                                                           *)

LEMMA OwnerStep ==
  ASSUME IndTyped, IndTables, AllFresh, EveryOrgHasOwner, [Next]_vars
  PROVE  EveryOrgHasOwner'
<1>1. SUFFICES ASSUME NEW o \in Org, orgs'[o] # None PROVE Owners(o)' # {}
  BY DEF EveryOrgHasOwner
<1>2. Kept
  BY AlwaysKept
<1>3. ASSUME NEW m \in Owners(o), members'[m].present, members'[m].role = "owner"
      PROVE  Owners(o)' # {}
  <2>1. m \in Membership /\ members[m] # None /\ members[m].org = o
    BY DEF Owners, Present
  <2>2. members'[m] # None /\ members'[m].org = o
    BY <1>2, <2>1 DEF Kept
  <2>. QED
    BY <1>3, <2>1, <2>2 DEF Owners, Present
<1>4. \A m \in Owners(o) :
        /\ m \in Membership /\ members[m] # None
        /\ members[m].present /\ members[m].role = "owner"
  BY DEF Owners, Present
<1>5. ASSUME NEW a \in User, NEW p \in Org, NEW m \in Membership,
             CreateOrg(a, p, m)
      PROVE  Owners(o)' # {}
  <2>1. CASE o = p
    BY <1>5, <2>1, CreateEffect DEF Owners, Present
  <2>2. CASE o # p
    <3>1. PICK n \in Owners(o) : TRUE
      BY <1>1, <1>5, <2>2, CreateEffect DEF EveryOrgHasOwner
    <3>2. members'[n] = members[n]
      BY <1>4, <1>5, CreateEffect
    <3>. QED
      BY <1>3, <1>4, <3>2
  <2>. QED
    BY <2>1, <2>2
<1>6. ASSUME NEW r \in Request, ChangeWrite(r) \/ RemoveWrite(r),
             ChangeWrite(r) => req[r].row \in Present
      PROVE  Owners(o)' # {}
  <2> DEFINE q == req[r]
  <2>1. /\ Knows(q) /\ Fresh(q) /\ q.pc = "write"
        /\ q.op \in {"change", "remove"}
        /\ orgs' = orgs
    BY <1>6 DEF IndTyped, RequestsOK, AllFresh, ChangeWrite, RemoveWrite
  <2>2. /\ q.row \in Membership
        /\ members[q.row].org = q.org /\ members[q.row].role = q.old
        /\ q.op = "remove" => q.role = None
        /\ q.op = "change" => q.role \in Roles
    BY <2>1, NoneIsNoId DEF Knows, Fresh
  <2>3. \A n \in Membership : n # q.row => members'[n] = members[n]
    BY <1>6, ChangeEffect, RemoveEffect
  <2>4. CASE \E n \in Owners(o) : n # q.row
    BY <1>3, <1>4, <2>3, <2>4
  <2>5. CASE ~ \E n \in Owners(o) : n # q.row
    <3>1. q.row \in Owners(o)
      BY <1>1, <2>1, <2>5 DEF EveryOrgHasOwner
    <3>2. q.org = o /\ q.old = "owner"
      BY <2>2, <3>1 DEF Owners
    <3>3. ~LosesOwner(q.old, q.role)
      BY <2>1, <2>5, <3>2 DEF Fresh
    <3>4. q.role = "owner" /\ q.op = "change"
      BY <2>1, <2>2, <3>2, <3>3, NoneIsNoRow DEF LosesOwner, Roles
    <3>5. ChangeWrite(r) /\ q.role = q.old
      BY <1>6, <3>2, <3>4 DEF RemoveWrite
    <3>6. members'[q.row] = members[q.row]
      BY <1>6, <2>2, <3>5, ChangeEffect
    <3>. QED
      BY <1>3, <1>4, <3>1, <3>6
  <2>. QED
    BY <2>4, <2>5
<1>7. ASSUME NEW r \in Request, NEW m \in Membership, AcceptWrite(r, m)
      PROVE  Owners(o)' # {}
  <2>1. PICK n \in Owners(o) : TRUE
    BY <1>1, <1>7 DEF EveryOrgHasOwner, AcceptWrite
  <2>2. members'[n] = members[n]
    BY <1>4, <1>7, AcceptEffect
  <2>. QED
    BY <1>3, <1>4, <2>2
<1>8. ASSUME UNCHANGED <<orgs, members>> PROVE Owners(o)' # {}
  BY <1>1, <1>8 DEF EveryOrgHasOwner, Owners, Present
<1>. QED
  BY <1>5, <1>6, <1>7, <1>8, WhatIsWritten DEF InviteWrite, RemoveWrite, ChangeWrite

-----------------------------------------------------------------------------
(* Invitations                                                              *)

(* No two invitations are pending for an e-mail.                            *)
PendingUnique ==
    \A o \in Org, e \in User : \A i, j \in Pending(o, e) : i = j

LEMMA PendingStep ==
  ASSUME IndTyped, AllFresh, PendingUnique, [Next]_vars
  PROVE  PendingUnique'
<1>1. SUFFICES ASSUME NEW o \in Org, NEW e \in User,
                      NEW i \in Pending(o, e)', NEW j \in Pending(o, e)'
               PROVE  i = j
  BY DEF PendingUnique
<1>2. ASSUME NEW k \in Pending(o, e)', k \in Sent, invites'[k] = invites[k]
      PROVE  k \in Pending(o, e)
  <2>1. now' = now \/ now' = now + 1
    BY ClockStep
  <2>2. now \in Int /\ now' \in Int /\ invites[k].expires \in Int
    BY <1>2, TypedInductive, RowTypes DEF IndTyped, TypeOK, InviteRow
  <2>. QED
    BY <1>2, <2>1, <2>2 DEF Pending
<1>3. i \in Invitation /\ j \in Invitation
  BY DEF Pending, Sent
<1>4. i \in Pending(o, e) /\ j \in Pending(o, e) => i = j
  BY DEF PendingUnique
<1>5. ASSUME NEW r \in Request, NEW k \in Invitation, InviteWrite(r, k)
      PROVE  i = j
  <2>1. /\ Sent' = Sent \cup {k} /\ k \notin Sent
        /\ \A l \in Invitation : l # k => invites'[l] = invites[l]
        /\ invites'[k].org = req[r].org /\ invites'[k].email = req[r].target
    BY <1>5, InviteEffect
  <2>2. Pending(req[r].org, req[r].target) = {}
    BY <1>5 DEF InviteWrite, AllFresh, Fresh
  <2>3. \A l \in Pending(o, e)' : l # k => l \in Pending(o, e)
    BY <1>2, <2>1 DEF Pending, Sent
  <2>4. k \in Pending(o, e)' => o = req[r].org /\ e = req[r].target
    BY <2>1 DEF Pending
  <2>. QED
    BY <1>4, <2>2, <2>3, <2>4
<1>6. ASSUME NEW r \in Request, NEW m \in Membership, AcceptWrite(r, m)
      PROVE  i = j
  <2>1. /\ Sent' = Sent
        /\ \A l \in Invitation : l # req[r].row => invites'[l] = invites[l]
        /\ invites'[req[r].row].accepted
    BY <1>6, AcceptEffect
  <2>2. \A l \in Pending(o, e)' : l \in Sent /\ l # req[r].row
    BY <2>1 DEF Pending
  <2>3. \A l \in Pending(o, e)' : l \in Pending(o, e)
    BY <1>2, <2>1, <2>2 DEF Sent
  <2>. QED
    BY <1>4, <2>3
<1>7. ASSUME UNCHANGED invites PROVE i = j
  <2>1. \A k \in Pending(o, e)' : k \in Sent
    BY <1>7 DEF Pending, Sent
  <2>. QED
    BY <1>2, <1>4, <1>7, <2>1
<1>. QED
  BY <1>5, <1>6, <1>7, WhatIsWritten DEF CreateOrg, ChangeWrite, RemoveWrite

(* InvitationSingleUse counts the rows a user ever had in an organization,   *)
(* and the invitations to it they used; both tables are finite.             *)
Ever(o, u) == {m \in Membership : /\ members[m] # None
                                  /\ members[m].org = o
                                  /\ members[m].user = u}

Used(o, u) == {i \in Sent : /\ invites[i].accepted
                            /\ invites[i].org = o
                            /\ invites[i].email = u}

Created(o, u) == IF orgs[o] = u THEN 1 ELSE 0

FiniteTables ==
    IsFiniteSet({m \in Membership : members[m] # None}) /\ IsFiniteSet(Sent)

LEMMA SingleUseMeans ==
  /\ InvitationSingleUse <=>
        \A o \in Org, u \in User :
           Cardinality(Ever(o, u)) <= Cardinality(Used(o, u)) + Created(o, u)
  /\ InvitationSingleUse' <=>
        \A o \in Org, u \in User :
           Cardinality(Ever(o, u)') <= Cardinality(Used(o, u)') + Created(o, u)'
  BY DEF InvitationSingleUse, Ever, Used, Created

LEMMA Counted ==
  ASSUME FiniteTables
  PROVE  \A o, u : /\ IsFiniteSet(Ever(o, u)) /\ Cardinality(Ever(o, u)) \in Nat
                   /\ IsFiniteSet(Used(o, u)) /\ Cardinality(Used(o, u)) \in Nat
<1> SUFFICES ASSUME NEW o, NEW u
             PROVE  /\ IsFiniteSet(Ever(o, u)) /\ Cardinality(Ever(o, u)) \in Nat
                    /\ IsFiniteSet(Used(o, u)) /\ Cardinality(Used(o, u)) \in Nat
  OBVIOUS
<1> DEFINE rows == {m \in Membership : members[m] # None}
<1>1. IsFiniteSet(rows) /\ IsFiniteSet(Sent)
  BY DEF FiniteTables
<1>2. Ever(o, u) \in SUBSET rows /\ Used(o, u) \in SUBSET Sent
  BY DEF Ever, Used
<1> HIDE DEF rows
<1>3. IsFiniteSet(Ever(o, u)) /\ IsFiniteSet(Used(o, u))
  BY <1>1, <1>2, FS_Subset
<1>. QED
  BY <1>3, FS_CardinalityType

LEMMA FiniteStep ==
  ASSUME IndTyped, FiniteTables, [Next]_vars
  PROVE  FiniteTables'
<1> DEFINE rows == {m \in Membership : members[m] # None}
<1>1. IsFiniteSet(rows) /\ IsFiniteSet(Sent)
  BY DEF FiniteTables
<1>2. SUFFICES /\ \/ rows' \subseteq rows
                  \/ \E m : rows' \subseteq rows \cup {m}
               /\ \/ Sent' = Sent
                  \/ \E i : Sent' = Sent \cup {i}
  <2>1. \A m : IsFiniteSet(rows \cup {m}) /\ IsFiniteSet(Sent \cup {m})
    BY <1>1, FS_AddElement
  <2>2. FiniteTables' <=> IsFiniteSet(rows') /\ IsFiniteSet(Sent')
    BY DEF FiniteTables
  <2> HIDE DEF rows
  <2>. QED
    BY <1>1, <1>2, <2>1, <2>2, FS_Subset
<1>3. ASSUME NEW a \in User, NEW o \in Org, NEW m \in Membership,
             CreateOrg(a, o, m)
      PROVE  rows' \subseteq rows \cup {m} /\ Sent' = Sent
  BY <1>3, CreateEffect DEF CreateOrg, Sent
<1>4. ASSUME NEW r \in Request, ChangeWrite(r), req[r].row \in Present
      PROVE  rows' \subseteq rows /\ Sent' = Sent
  BY <1>4, ChangeEffect DEF ChangeWrite, Sent, Present
<1>5. ASSUME NEW r \in Request, RemoveWrite(r)
      PROVE  rows' \subseteq rows /\ Sent' = Sent
  BY <1>5, RemoveEffect DEF RemoveWrite, Sent
<1>6. ASSUME NEW r \in Request, NEW i \in Invitation, InviteWrite(r, i)
      PROVE  rows' \subseteq rows /\ Sent' = Sent \cup {i}
  BY <1>6, InviteEffect DEF InviteWrite
<1>7. ASSUME NEW r \in Request, NEW m \in Membership, AcceptWrite(r, m)
      PROVE  rows' \subseteq rows \cup {m} /\ Sent' = Sent
  BY <1>7, AcceptEffect
<1>8. UNCHANGED <<orgs, members, invites, audit>> =>
         rows' \subseteq rows /\ Sent' = Sent
  BY DEF Sent
<1> HIDE DEF rows
<1>. QED
  BY <1>3, <1>4, <1>5, <1>6, <1>7, <1>8, WhatIsWritten

LEMMA SingleUseStep ==
  ASSUME IndTyped, IndTables, AllFresh, FiniteTables, InvitationSingleUse,
         [Next]_vars
  PROVE  InvitationSingleUse'
<1>1. SUFFICES ASSUME NEW o \in Org, NEW u \in User
               PROVE  Cardinality(Ever(o, u)')
                         <= Cardinality(Used(o, u)') + Created(o, u)'
  BY SingleUseMeans
<1>2. Cardinality(Ever(o, u)) <= Cardinality(Used(o, u)) + Created(o, u)
  BY SingleUseMeans
<1>3. /\ IsFiniteSet(Ever(o, u)) /\ Cardinality(Ever(o, u)) \in Nat
      /\ IsFiniteSet(Used(o, u)) /\ Cardinality(Used(o, u)) \in Nat
  BY Counted
<1>4. Created(o, u) \in Nat /\ Created(o, u)' \in Nat
  BY DEF Created
<1>5. ASSUME Ever(o, u)' = Ever(o, u), Used(o, u)' = Used(o, u),
             Created(o, u)' = Created(o, u)
      PROVE  Cardinality(Ever(o, u)')
                <= Cardinality(Used(o, u)') + Created(o, u)'
  BY <1>2, <1>5
<1>6. ASSUME NEW a \in User, NEW p \in Org, NEW k \in Membership,
             CreateOrg(a, p, k)
      PROVE  Cardinality(Ever(o, u)')
                <= Cardinality(Used(o, u)') + Created(o, u)'
  <2>1. /\ members[k] = None /\ orgs[p] = None
        /\ members'[k] # None /\ members'[k].org = p /\ members'[k].user = a
        /\ \A n \in Membership : n # k => members'[n] = members[n]
        /\ \A q \in Org : orgs'[q] = IF q = p THEN a ELSE orgs[q]
    BY <1>6, CreateEffect
  <2>2. Used(o, u)' = Used(o, u)
    BY <1>6 DEF CreateOrg, Used, Sent
  <2>3. CASE o # p
    <3>1. Ever(o, u)' = Ever(o, u) /\ Created(o, u)' = Created(o, u)
      BY <2>1, <2>3 DEF Ever, Created
    <3>. QED
      BY <1>5, <2>2, <3>1
  <2>4. CASE o = p /\ u = a
    <3>1. Ever(o, u)' \subseteq {k} /\ Created(o, u)' = 1
      BY <2>1, <2>4 DEF Ever, Created, IndTables, OrgsFounded
    <3>2. Cardinality(Ever(o, u)') <= 1
      BY <3>1, AtMostOne
    <3>3. Cardinality(Ever(o, u)') \in Nat
      BY <3>1, FS_Singleton, FS_Subset, FS_CardinalityType
    <3>. QED
      BY <1>3, <2>2, <3>1, <3>2, <3>3
  <2>5. CASE o = p /\ u # a
    <3>1. Ever(o, u)' = {}
      BY <2>1, <2>5 DEF Ever, IndTables, OrgsFounded
    <3>. QED
      BY <1>3, <1>4, <2>2, <3>1, FS_EmptySet
  <2>. QED
    BY <2>3, <2>4, <2>5
<1>7. ASSUME NEW r \in Request, ChangeWrite(r), req[r].row \in Present
      PROVE  Ever(o, u)' = Ever(o, u) /\ Used(o, u)' = Used(o, u)
             /\ Created(o, u)' = Created(o, u)
  <2>1. \A n \in Membership :
           /\ members'[n] # None <=> members[n] # None
           /\ members[n] # None => /\ members'[n].org = members[n].org
                                   /\ members'[n].user = members[n].user
    BY <1>7, ChangeEffect DEF Kept, Present
  <2>. QED
    BY <1>7, <2>1 DEF ChangeWrite, Ever, Used, Created, Sent
<1>8. ASSUME NEW r \in Request, RemoveWrite(r)
      PROVE  Ever(o, u)' = Ever(o, u) /\ Used(o, u)' = Used(o, u)
             /\ Created(o, u)' = Created(o, u)
  <2>1. \A n \in Membership :
           /\ members'[n] # None <=> members[n] # None
           /\ members[n] # None => /\ members'[n].org = members[n].org
                                   /\ members'[n].user = members[n].user
    BY <1>8, RemoveEffect DEF Kept
  <2>. QED
    BY <1>8, <2>1 DEF RemoveWrite, Ever, Used, Created, Sent
<1>9. ASSUME NEW r \in Request, NEW i \in Invitation, InviteWrite(r, i)
      PROVE  Ever(o, u)' = Ever(o, u) /\ Used(o, u)' = Used(o, u)
             /\ Created(o, u)' = Created(o, u)
  <2>1. /\ Sent' = Sent \cup {i} /\ i \notin Sent /\ ~invites'[i].accepted
        /\ \A j \in Invitation : j # i => invites'[j] = invites[j]
    BY <1>9, InviteEffect
  <2>2. Used(o, u)' = Used(o, u)
    BY <2>1 DEF Used, Sent
  <2>. QED
    BY <1>9, <2>2 DEF InviteWrite, Ever, Created
<1>10. ASSUME NEW r \in Request, NEW m \in Membership, AcceptWrite(r, m)
       PROVE  Cardinality(Ever(o, u)')
                 <= Cardinality(Used(o, u)') + Created(o, u)'
  <2> DEFINE i == req[r].row
  <2>1. /\ members[m] = None /\ m \in Membership
        /\ members'[m] # None /\ members'[m].org = req[r].org
        /\ members'[m].user = req[r].actor
        /\ \A n \in Membership : n # m => members'[n] = members[n]
    BY <1>10, AcceptEffect
  <2>2. /\ i \in Sent /\ i \in Invitation /\ Sent' = Sent
        /\ invites[i].org = req[r].org /\ invites[i].email = req[r].actor
        /\ invites'[i].org = req[r].org /\ invites'[i].email = req[r].actor
        /\ invites'[i].accepted
        /\ \A j \in Invitation : j # i => invites'[j] = invites[j]
    BY <1>10, AcceptEffect
  <2>3. ~invites[i].accepted
    BY <1>10, AcceptEffect DEF AcceptWrite, AllFresh, Fresh
  <2>4. Created(o, u)' = Created(o, u)
    BY <1>10 DEF AcceptWrite, Created
  <2> HIDE DEF i
  <2>5. CASE o = req[r].org /\ u = req[r].actor
    <3>1. Ever(o, u)' = Ever(o, u) \cup {m} /\ m \notin Ever(o, u)
      BY <2>1, <2>5 DEF Ever
    <3>2. Used(o, u)' = Used(o, u) \cup {i} /\ i \notin Used(o, u)
      BY <2>2, <2>3, <2>5 DEF Used, Sent
    <3>3. /\ Cardinality(Ever(o, u)') = Cardinality(Ever(o, u)) + 1
          /\ Cardinality(Used(o, u)') = Cardinality(Used(o, u)) + 1
      BY <1>3, <3>1, <3>2, FS_AddElement
    <3>. QED
      BY <1>2, <1>3, <1>4, <2>4, <3>3
  <2>6. CASE ~(o = req[r].org /\ u = req[r].actor)
    <3>1. Ever(o, u)' = Ever(o, u)
      BY <2>1, <2>6 DEF Ever
    <3>2. Used(o, u)' = Used(o, u)
      BY <2>2, <2>6 DEF Used, Sent
    <3>. QED
      BY <1>5, <2>4, <3>1, <3>2
  <2>. QED
    BY <2>5, <2>6
<1>11. UNCHANGED <<orgs, members, invites, audit>> =>
          Ever(o, u)' = Ever(o, u) /\ Used(o, u)' = Used(o, u)
          /\ Created(o, u)' = Created(o, u)
  BY DEF Ever, Used, Created, Sent
<1>. QED
  BY <1>5, <1>6, <1>7, <1>8, <1>9, <1>10, <1>11, WhatIsWritten

-----------------------------------------------------------------------------
(* The invariant of one request at a time                                   *)

IndSerial ==
    /\ AllFresh
    /\ EveryOrgHasOwner
    /\ PendingUnique
    /\ FiniteTables
    /\ InvitationSingleUse

LEMMA InitSerial == Init => IndSerial
<1> SUFFICES ASSUME Init PROVE IndSerial
  OBVIOUS
<1>1. Sent = {} /\ {m \in Membership : members[m] # None} = {}
  BY DEF Init, Sent
<1>2. FiniteTables
  BY <1>1, FS_EmptySet DEF FiniteTables
<1>3. \A o, u : Ever(o, u) = {} /\ Used(o, u) = {}
  BY <1>1 DEF Ever, Used
<1>4. Cardinality({}) = 0
  BY FS_EmptySet
<1>5. \A o, u : Created(o, u) \in {0, 1}
  BY DEF Created
<1>6. InvitationSingleUse
  BY <1>3, <1>4, <1>5, SingleUseMeans
<1>7. EveryOrgHasOwner
  BY DEF Init, EveryOrgHasOwner
<1>8. PendingUnique
  BY <1>1 DEF PendingUnique, Pending
<1>. QED
  BY <1>2, <1>6, <1>7, <1>8, InitFresh DEF IndSerial

LEMMA SerialInductive ==
  ASSUME Alone
  PROVE  IndTyped /\ IndTables /\ IndSerial /\ [Next]_vars => IndSerial'
  BY Alone, FreshInductive, OwnerStep, PendingStep, FiniteStep, SingleUseStep
  DEF IndSerial

\* One request at a time, what the handlers have read is still so when they write,
\* and with that the promises of the serial runs are kept together.
THEOREM SerialInvariant ==
  ASSUME Alone PROVE Spec => [](IndTyped /\ IndTables /\ IndSerial)
<1>1. Init => IndSerial
  BY InitSerial
<1>2. IndTyped /\ IndTables /\ IndSerial /\ [Next]_vars => IndSerial'
  BY Alone, SerialInductive
<1>. QED
  BY <1>1, <1>2, TablesInvariant, PTL DEF Spec

\* One request at a time, an organization never loses its last owner: the count
\* of owners still holds when the row is written.
THEOREM SerialOwnerKept == ASSUME Alone PROVE Spec => []EveryOrgHasOwner
<1>1. IndSerial => EveryOrgHasOwner
  BY DEF IndSerial
<1>. QED
  BY Alone, <1>1, SerialInvariant, PTL

\* One request at a time, no second invitation is sent while one is pending for
\* the same e-mail and organization.
THEOREM SerialOnePending == ASSUME Alone PROVE Spec => []OnePending
<1>1. IndSerial => OnePending
  <2> SUFFICES ASSUME PendingUnique, NEW o \in Org, NEW e \in User
               PROVE  Cardinality(Pending(o, e)) <= 1
    BY DEF IndSerial, OnePending
  <2>1. \E x : Pending(o, e) \subseteq {x}
    BY DEF PendingUnique
  <2>. QED
    BY <2>1, AtMostOne
<1>. QED
  BY Alone, <1>1, SerialInvariant, PTL

\* One request at a time, an invitation makes one membership: nobody ever had
\* more rows in an organization than invitations they used, and one for
\* founding it.
THEOREM SerialSingleUse == ASSUME Alone PROVE Spec => []InvitationSingleUse
<1>1. IndSerial => InvitationSingleUse
  BY DEF IndSerial
<1>. QED
  BY Alone, <1>1, SerialInvariant, PTL

\* One request at a time, what is written is what the permission lookup allowed:
\* the author of a role change, a removal or an invitation has the permission
\* when it is committed, and the log has the role that was replaced.
THEOREM SerialAuthorised == ASSUME Alone PROVE Spec => ChangesAuthorised
<1> DEFINE Step ==
      \A e \in audit' \ audit :
          /\ e.action = "role.changed" =>
                /\ Permitted(e.actor, e.org, "roles.manage")
                /\ members[e.resource].role = e.old
          /\ e.action = "member.removed" =>
                Permitted(e.actor, e.org, "users.remove")
          /\ e.action = "invite.created" =>
                Permitted(e.actor, e.org, "invite")
<1>1. IndTyped /\ IndSerial /\ [Next]_vars => [Step]_vars
  <2> SUFFICES ASSUME IndTyped, IndSerial, [Next]_vars PROVE Step
    OBVIOUS
  <2>1. SUFFICES ASSUME NEW e \in audit' \ audit
        PROVE  /\ e.action = "role.changed" =>
                     /\ Permitted(e.actor, e.org, "roles.manage")
                     /\ members[e.resource].role = e.old
               /\ e.action = "member.removed" =>
                     Permitted(e.actor, e.org, "users.remove")
               /\ e.action = "invite.created" =>
                     Permitted(e.actor, e.org, "invite")
    OBVIOUS
  <2>2. \A r \in Request : Knows(req[r]) /\ Fresh(req[r])
    BY DEF IndTyped, RequestsOK, IndSerial, AllFresh
  <2>3. ASSUME NEW a \in User, NEW o \in Org, NEW m \in Membership,
               CreateOrg(a, o, m)
        PROVE  e.action = "org.created"
    BY <2>1, <2>3 DEF CreateOrg, Entry
  <2>4. ASSUME NEW r \in Request, ChangeWrite(r), req[r].row \in Present
        PROVE  /\ e.action = "role.changed"
               /\ Permitted(e.actor, e.org, "roles.manage")
               /\ members[e.resource].role = e.old
    <3>1. e = Entry("role.changed", req[r].actor, req[r].org, req[r].row,
                    req[r].old, req[r].role)
      BY <2>1, <2>4, ChangeEffect
    <3>2. req[r].pc = "write" /\ req[r].op = "change" /\ req[r].row # None
      BY <2>4, ChangeEffect, NoneIsNoId DEF ChangeWrite
    <3>. QED
      BY <2>2, <3>1, <3>2 DEF Fresh, Entry
  <2>5. ASSUME NEW r \in Request, RemoveWrite(r)
        PROVE  /\ e.action = "member.removed"
               /\ Permitted(e.actor, e.org, "users.remove")
    <3>1. e = Entry("member.removed", req[r].actor, req[r].org, req[r].target,
                    None, None)
      BY <2>1, <2>5 DEF RemoveWrite
    <3>. QED
      BY <2>2, <2>5, <3>1 DEF Fresh, Entry, RemoveWrite
  <2>6. ASSUME NEW r \in Request, NEW i \in Invitation, InviteWrite(r, i)
        PROVE  /\ e.action = "invite.created"
               /\ Permitted(e.actor, e.org, "invite")
    <3>1. e = Entry("invite.created", req[r].actor, req[r].org, i, None,
                    req[r].role)
      BY <2>1, <2>6 DEF InviteWrite
    <3>. QED
      BY <2>2, <2>6, <3>1 DEF Fresh, Entry, InviteWrite
  <2>7. ASSUME NEW r \in Request, NEW m \in Membership, AcceptWrite(r, m)
        PROVE  e.action = "invite.accepted"
    BY <2>1, <2>7, AcceptEffect DEF Entry
  <2>8. ~ UNCHANGED audit
    BY <2>1
  <2>. QED
    BY <2>3, <2>4, <2>5, <2>6, <2>7, <2>8, WhatIsWritten
<1>. QED
  BY Alone, <1>1, SerialInvariant, PTL DEF Spec, ChangesAuthorised

-----------------------------------------------------------------------------
(* Refinement: requests handled one at a time are steps of Organizations.   *)

RoleMap == [o \in Org |-> [u \in User |-> RoleOf(o, u)]]
OpenMap == [i \in Invitation |-> OpenInvitation(i)]

\* What is chosen from a set with one element.
LEMMA ChooseOnly ==
  ASSUME NEW f, NEW S, NEW m \in S, \A n \in S : n = m
  PROVE  f[CHOOSE x \in S : TRUE] = f[m]
<1>1. (CHOOSE x \in S : TRUE) \in S
  OBVIOUS
<1>. QED
  BY <1>1

\* The role of a user is that of the one membership, before and after a step.
LEMMA RoleOfMember ==
  /\ OneMembership =>
        \A o \in Org, u \in User :
           /\ \A m \in MembersOf(o, u) : RoleOf(o, u) = members[m].role
           /\ MembersOf(o, u) = {} => RoleOf(o, u) = None
  /\ OneMembership' =>
        \A o \in Org, u \in User :
           /\ \A m \in MembersOf(o, u)' : RoleOf(o, u)' = members'[m].role
           /\ MembersOf(o, u)' = {} => RoleOf(o, u)' = None
<1>1. ASSUME OneMembership, NEW o \in Org, NEW u \in User
      PROVE  /\ \A m \in MembersOf(o, u) : RoleOf(o, u) = members[m].role
             /\ MembersOf(o, u) = {} => RoleOf(o, u) = None
  <2>1. ASSUME NEW m \in MembersOf(o, u) PROVE RoleOf(o, u) = members[m].role
    <3>1. \A n \in MembersOf(o, u) : n = m
      BY <1>1 DEF OneMembership
    <3>2. members[CHOOSE x \in MembersOf(o, u) : TRUE] = members[m]
      BY <3>1, ChooseOnly
    <3>. QED
      BY <3>2 DEF RoleOf
  <2>. QED
    BY <2>1 DEF RoleOf
<1>2. ASSUME OneMembership', NEW o \in Org, NEW u \in User
      PROVE  /\ \A m \in MembersOf(o, u)' : RoleOf(o, u)' = members'[m].role
             /\ MembersOf(o, u)' = {} => RoleOf(o, u)' = None
  <2>1. ASSUME NEW m \in MembersOf(o, u)' PROVE RoleOf(o, u)' = members'[m].role
    <3>1. \A n \in MembersOf(o, u)' : n = m
      BY <1>2 DEF OneMembership
    <3>2. members'[CHOOSE x \in MembersOf(o, u)' : TRUE] = members'[m]
      BY <3>1, ChooseOnly
    <3>. QED
      BY <3>2 DEF RoleOf
  <2>. QED
    BY <2>1 DEF RoleOf
<1>. QED
  BY <1>1, <1>2

\* A user whose rows and their roles a step leaves alone keeps their role.
LEMMA RoleOfKept ==
  ASSUME OneMembership, OneMembership', NEW o \in Org, NEW u \in User,
         MembersOf(o, u)' = MembersOf(o, u),
         \A m \in MembersOf(o, u) : members'[m].role = members[m].role
  PROVE  RoleOf(o, u)' = RoleOf(o, u)
<1>1. CASE MembersOf(o, u) = {}
  BY <1>1, RoleOfMember
<1>2. ASSUME NEW m \in MembersOf(o, u) PROVE RoleOf(o, u)' = RoleOf(o, u)
  BY <1>2, RoleOfMember
<1>. QED
  BY <1>1, <1>2

\* A step that changes the role of one user.
LEMMA RoleMapChange ==
  ASSUME NEW o \in Org, NEW u \in User,
         \A p \in Org, v \in User : p # o \/ v # u => RoleOf(p, v)' = RoleOf(p, v)
  PROVE  RoleMap' = [RoleMap EXCEPT ![o][u] = RoleOf(o, u)']
  BY DEF RoleMap

LEMMA RoleMapSame ==
  ASSUME UNCHANGED members PROVE RoleMap' = RoleMap
  BY DEF RoleMap, RoleOf, MembersOf, Present

LEMMA OpenMapSame ==
  ASSUME UNCHANGED invites PROVE OpenMap' = OpenMap
  BY DEF OpenMap, OpenInvitation, Sent

\* The permission lookup, seen by a client.
LEMMA MayDoMeans ==
  ASSUME IndTyped, OneMembership, NEW o \in Org, NEW u \in User, NEW p,
         Permitted(u, o, p)
  PROVE  Clients!MayDo(u, o, p)
<1>1. PICK m \in MembersOf(o, u) : Grants(members[m].role, p)
  BY DEF Permitted
<1>2. RoleOf(o, u) = members[m].role
  BY RoleOfMember
<1>3. members[m].role \in Roles
  BY RowTypes DEF IndTyped, MembersOf, MemberRow
<1>4. RoleOf(o, u) # None
  BY <1>2, <1>3, NoneIsNoRow
<1>. QED
  BY <1>1, <1>2, <1>4
  DEF Clients!MayDo, Clients!Grants, Clients!RolePermissions, Grants, RolePermissions

\* An organization that has an owner has one in the eyes of a client.
LEMMA HasOwnerMeans ==
  ASSUME IndTyped', OneMembership', EveryOrgHasOwner', NEW o \in Org,
         orgs'[o] # None
  PROVE  Clients!HasOwner(RoleMap'[o])
<1>1. PICK m \in Owners(o)' : TRUE
  BY DEF EveryOrgHasOwner
<1>2. /\ m \in Membership /\ members'[m] # None /\ members'[m].org = o
      /\ members'[m].role = "owner" /\ m \in Present'
  BY DEF Owners, Present
<1>3. PICK u \in User : members'[m].user = u
  BY <1>2 DEF IndTyped, TypeOK, MemberRow
<1>4. m \in MembersOf(o, u)'
  BY <1>2, <1>3 DEF MembersOf
<1>5. RoleMap'[o][u] = "owner"
  BY <1>2, <1>4, RoleOfMember DEF RoleMap
<1>. QED
  BY <1>5 DEF Clients!HasOwner

LEMMA FoundStep ==
  ASSUME IndTyped, OneMembership, OneMembership', OrgsFounded,
         NEW a \in User, NEW o \in Org, NEW m \in Membership, CreateOrg(a, o, m)
  PROVE  Clients!Next
<1>1. \A u \in User : MembersOf(o, u) = {}
  BY CreateEffect DEF OrgsFounded, MembersOf, Present
<1>2. RoleMap[o] = [v \in User |-> None]
  BY <1>1, RoleOfMember DEF RoleMap
<1>3. m \in MembersOf(o, a)' /\ members'[m].role = "owner"
  BY CreateEffect DEF MembersOf, Present
<1>4. RoleOf(o, a)' = "owner"
  BY <1>3, RoleOfMember
<1>5. ASSUME NEW p \in Org, NEW v \in User, p # o \/ v # a
      PROVE  RoleOf(p, v)' = RoleOf(p, v)
  <2>1. MembersOf(p, v)' = MembersOf(p, v)
    BY <1>5, CreateEffect DEF MembersOf, Present
  <2>2. \A n \in MembersOf(p, v) : members'[n] = members[n]
    BY CreateEffect DEF MembersOf, Present
  <2>. QED
    BY <2>1, <2>2, RoleOfKept
<1>6. RoleMap' = [RoleMap EXCEPT ![o][a] = "owner"]
  BY <1>4, <1>5, RoleMapChange
<1>7. OpenMap' = OpenMap
  BY OpenMapSame DEF CreateOrg
<1>8. Clients!Found(o, a)
  BY <1>2, <1>6, <1>7 DEF Clients!Found, RoleMap, OpenMap
<1>. QED
  BY <1>8 DEF Clients!Next

LEMMA SetRoleStep ==
  ASSUME IndTyped, IndTyped', OneMembership, OneMembership', OrgsFounded,
         EveryOrgHasOwner', AllFresh,
         NEW r \in Request, ChangeWrite(r) \/ RemoveWrite(r)
  PROVE  Clients!Next \/ UNCHANGED <<RoleMap, OpenMap>>
<1>1. PICK q : q = req[r]
  OBVIOUS
<1>2. /\ Knows(q) /\ Fresh(q) /\ q.pc = "write"
      /\ \/ q.op = "change" /\ ChangeWrite(r)
         \/ q.op = "remove" /\ RemoveWrite(r)
      /\ orgs' = orgs /\ invites' = invites
  <2>1. Knows(q) /\ Fresh(q)
    BY <1>1 DEF IndTyped, RequestsOK, AllFresh
  <2>2. CASE ChangeWrite(r)
    <3>1. /\ req[r].pc = "write" /\ req[r].op = "change"
          /\ orgs' = orgs /\ invites' = invites
      BY <2>2 DEF ChangeWrite
    <3>. QED
      BY <1>1, <2>1, <2>2, <3>1
  <2>3. CASE RemoveWrite(r)
    <3>1. /\ req[r].pc = "write" /\ req[r].op = "remove"
          /\ orgs' = orgs /\ invites' = invites
      BY <2>3 DEF RemoveWrite
    <3>. QED
      BY <1>1, <2>1, <2>3, <3>1
  <2>. QED
    BY <2>2, <2>3
<1>3. PICK m \in Membership, o \in Org, u \in User, a \in User :
         m = q.row /\ o = q.org /\ u = q.target /\ a = q.actor
  BY <1>2 DEF Knows
<1>4. /\ m \in MembersOf(o, u) /\ m \in Present
      /\ members[m].org = o /\ members[m].user = u /\ members[m].role = q.old
  BY <1>2, <1>3, NoneIsNoId DEF Fresh, MembersOf
<1>5. members[m].role \in Roles
  BY <1>4, RowTypes DEF IndTyped, MemberRow
<1>6. RoleMap[o][u] # None
  BY <1>4, <1>5, RoleOfMember, NoneIsNoRow DEF RoleMap
<1>7. OpenMap' = OpenMap
  BY <1>2, OpenMapSame
<1>8. /\ \A n \in Membership : n # m => members'[n] = members[n]
      /\ members'[m] # None
      /\ members'[m].org = o /\ members'[m].user = u
  BY <1>1, <1>2, <1>3, <1>4, ChangeEffect, RemoveEffect
<1>9. ASSUME NEW p \in Org, NEW v \in User, p # o \/ v # u
      PROVE  RoleOf(p, v)' = RoleOf(p, v)
  <2>1. MembersOf(p, v)' = MembersOf(p, v)
    BY <1>4, <1>8, <1>9 DEF MembersOf, Present
  <2>2. \A n \in MembersOf(p, v) : members'[n] = members[n]
    BY <1>4, <1>8, <1>9 DEF MembersOf, Present
  <2>. QED
    BY <2>1, <2>2, RoleOfKept
<1>10. RoleMap' = [RoleMap EXCEPT ![o][u] = RoleOf(o, u)']
  BY <1>9, RoleMapChange
<1>11. Clients!HasOwner(RoleMap'[o])
  <2>1. orgs'[o] # None
    BY <1>2, <1>4 DEF OrgsFounded, Present
  <2>. QED
    BY <2>1, HasOwnerMeans
<1>12. CASE q.op = "change"
  <2>1. ChangeWrite(r) /\ req[r].row \in Present /\ req[r].row = m
    BY <1>1, <1>2, <1>3, <1>4, <1>12
  <2>2. CASE q.role = q.old
    <3>1. members' = members
      BY <1>1, <2>1, <2>2 DEF ChangeWrite
    <3>. QED
      BY <1>7, <3>1, RoleMapSame
  <2>3. CASE q.role # q.old
    <3>1. PICK role \in Roles : role = q.role
      BY <1>1, <2>1, ChangeEffect
    <3>2. members'[m].role = role /\ members'[m].present
      BY <1>1, <2>1, <2>3, <3>1, ChangeEffect
    <3>3. m \in MembersOf(o, u)'
      BY <1>8, <3>2 DEF MembersOf, Present
    <3>4. RoleOf(o, u)' = role
      BY <3>2, <3>3, RoleOfMember
    <3>5. Clients!MayDo(a, o, "roles.manage")
      BY <1>2, <1>3, <1>12, MayDoMeans DEF Fresh
    <3>6. Clients!SetRole(o, a, u, role, "roles.manage")
      BY <1>6, <1>7, <1>10, <1>11, <3>4, <3>5
      DEF Clients!SetRole, RoleMap, OpenMap
    <3>. QED
      BY <3>6 DEF Clients!Next, Clients!Roles, Roles
  <2>. QED
    BY <2>2, <2>3
<1>13. CASE q.op = "remove"
  <2>1. RemoveWrite(r) /\ req[r].row = m
    BY <1>1, <1>2, <1>3, <1>13
  <2>2. ~members'[m].present
    BY <2>1, RemoveEffect
  <2>3. \A n \in MembersOf(o, u) : n = m
    BY <1>4 DEF OneMembership
  <2>4. MembersOf(o, u)' = {}
    <3>1. SUFFICES ASSUME NEW n \in MembersOf(o, u)' PROVE FALSE
      OBVIOUS
    <3>2. n \in Membership /\ n # m
      BY <2>2 DEF MembersOf, Present
    <3>3. n \in MembersOf(o, u)
      BY <1>8, <3>2 DEF MembersOf, Present
    <3>. QED
      BY <2>3, <3>2, <3>3
  <2>5. RoleOf(o, u)' = None
    BY <2>4, RoleOfMember
  <2>6. Clients!MayDo(a, o, "users.remove")
    BY <1>2, <1>3, <1>13, MayDoMeans DEF Fresh
  <2>7. Clients!SetRole(o, a, u, None, "users.remove")
    BY <1>6, <1>7, <1>10, <1>11, <2>5, <2>6
    DEF Clients!SetRole, RoleMap, OpenMap
  <2>. QED
    BY <2>7 DEF Clients!Next
<1>. QED
  BY <1>2, <1>12, <1>13

LEMMA InviteStep ==
  ASSUME IndTyped, OneMembership, AllFresh,
         NEW r \in Request, NEW i \in Invitation, InviteWrite(r, i)
  PROVE  Clients!Next
<1>1. PICK q : q = req[r]
  OBVIOUS
<1>2. /\ Knows(q) /\ Fresh(q) /\ q.pc = "write" /\ q.op = "invite"
      /\ members' = members
  BY <1>1 DEF IndTyped, RequestsOK, AllFresh, InviteWrite
<1>3. PICK o \in Org, u \in User, a \in User, role \in Roles \ {"owner"} :
         o = q.org /\ u = q.target /\ a = q.actor /\ role = q.role
  BY <1>2 DEF Knows
<1>4. /\ i \notin Sent /\ Sent' = Sent \cup {i}
      /\ \A j \in Invitation : j # i => invites'[j] = invites[j]
      /\ invites'[i].org = o /\ invites'[i].email = u
      /\ invites'[i].role = role /\ ~invites'[i].accepted
  BY <1>1, <1>3, InviteEffect
<1>5. OpenMap' = [OpenMap EXCEPT ![i] = [org |-> o, user |-> u, role |-> role]]
  BY <1>4 DEF OpenMap, OpenInvitation
<1>6. OpenMap[i] = None
  BY <1>4 DEF OpenMap, OpenInvitation
<1>7. RoleMap[o][u] = None
  BY <1>2, <1>3, RoleOfMember DEF Fresh, RoleMap
<1>8. RoleMap' = RoleMap
  BY <1>2, RoleMapSame
<1>9. Clients!MayDo(a, o, "invite")
  BY <1>2, <1>3, MayDoMeans DEF Fresh
<1>10. Clients!Invite(i, o, a, u, role)
  BY <1>5, <1>6, <1>7, <1>8, <1>9 DEF Clients!Invite, RoleMap, OpenMap
<1>. QED
  BY <1>10 DEF Clients!Next, Clients!Roles, Roles

LEMMA JoinStep ==
  ASSUME IndTyped, OneMembership, OneMembership', AllFresh,
         NEW r \in Request, NEW m \in Membership, AcceptWrite(r, m)
  PROVE  Clients!Next
<1>1. PICK q : q = req[r]
  OBVIOUS
<1>2. Knows(q) /\ Fresh(q) /\ q.pc = "write" /\ q.op = "accept"
  BY <1>1 DEF IndTyped, RequestsOK, AllFresh, AcceptWrite
<1>3. PICK i \in Invitation, o \in Org, u \in User, role \in Roles :
         i = q.row /\ o = q.org /\ u = q.actor /\ role = q.role
  BY <1>1, AcceptEffect
<1>4. /\ i \in Sent /\ Sent' = Sent
      /\ invites[i].org = o /\ invites[i].email = u /\ invites[i].role = role
      /\ ~invites[i].accepted /\ invites'[i].accepted
      /\ \A j \in Invitation : j # i => invites'[j] = invites[j]
  BY <1>1, <1>2, <1>3, AcceptEffect DEF Fresh
<1>5. /\ MembersOf(o, u) = {}
      /\ members[m] = None /\ members'[m] # None
      /\ members'[m].org = o /\ members'[m].user = u
      /\ members'[m].role = role /\ members'[m].present
      /\ \A n \in Membership : n # m => members'[n] = members[n]
  BY <1>1, <1>3, AcceptEffect
<1>6. OpenMap[i] = [org |-> o, user |-> u, role |-> role]
  BY <1>4 DEF OpenMap, OpenInvitation
<1>7. OpenMap' = [OpenMap EXCEPT ![i] = None]
  BY <1>4 DEF OpenMap, OpenInvitation
<1>8. RoleMap[o][u] = None
  BY <1>5, RoleOfMember DEF RoleMap
<1>9. RoleOf(o, u)' = role
  BY <1>5, RoleOfMember DEF MembersOf, Present
<1>10. ASSUME NEW p \in Org, NEW v \in User, p # o \/ v # u
       PROVE  RoleOf(p, v)' = RoleOf(p, v)
  <2>1. MembersOf(p, v)' = MembersOf(p, v)
    BY <1>5, <1>10 DEF MembersOf, Present
  <2>2. \A n \in MembersOf(p, v) : members'[n] = members[n]
    BY <1>5 DEF MembersOf, Present
  <2>. QED
    BY <2>1, <2>2, RoleOfKept
<1>11. RoleMap' = [RoleMap EXCEPT ![o][u] = role]
  BY <1>9, <1>10, RoleMapChange
<1>12. OpenMap[i] # None
  <2> DEFINE invitation == [org |-> o, user |-> u, role |-> role]
  <2>1. invitation \in [org : Org, user : User, role : Roles]
    OBVIOUS
  <2>2. OpenMap[i] = invitation
    BY <1>6
  <2> HIDE DEF invitation
  <2>. QED
    BY <2>1, <2>2, NoneIsNoRow
<1>13. Clients!Join(i)
  <2>1. OpenMap[i].org = o /\ OpenMap[i].user = u /\ OpenMap[i].role = role
    BY <1>6
  <2>2. /\ RoleMap[OpenMap[i].org][OpenMap[i].user] = None
        /\ RoleMap' = [RoleMap EXCEPT
              ![OpenMap[i].org][OpenMap[i].user] = OpenMap[i].role]
    BY <1>8, <1>11, <2>1
  <2>. QED
    BY <1>7, <1>12, <2>2, Zenon DEF Clients!Join, RoleMap, OpenMap
<1>. QED
  BY <1>13 DEF Clients!Next

LEMMA RefinementStep ==
  ASSUME Alone, IndTyped, IndTables, IndSerial, [Next]_vars
  PROVE  [Clients!Next]_Clients!vars
<1>1. /\ IndTyped' /\ OneMembership /\ OneMembership' /\ OrgsFounded
      /\ EveryOrgHasOwner' /\ AllFresh
  BY Alone, TypedInductive, TablesInductive, SerialInductive DEF IndTables, IndSerial
<1>2. CASE UNCHANGED <<RoleMap, OpenMap>>
  BY <1>2 DEF Clients!vars, RoleMap, OpenMap
<1>3. CASE UNCHANGED <<orgs, members, invites, audit>>
  BY <1>2, <1>3, RoleMapSame, OpenMapSame
<1>. QED
  BY <1>1, <1>2, <1>3, FoundStep, SetRoleStep, InviteStep, JoinStep, WhatIsWritten

\* One request at a time, organizations, members and invitations are what a
\* client may rely on: every step is made by somebody who may make it at that
\* moment, an invitation is used up by joining, and an owner always remains.
THEOREM SerialRefinement == ASSUME Alone PROVE Spec => ImplementsOrganizations
<1>1. Init => Clients!Init
  BY DEF Init, Clients!Init, RoleOf, MembersOf, Present, OpenInvitation, Sent
<1>2. IndTyped /\ IndTables /\ IndSerial /\ [Next]_vars =>
        [Clients!Next]_Clients!vars
  BY Alone, RefinementStep
<1>3. Spec => [](IndTyped /\ IndTables /\ IndSerial)
  BY Alone, SerialInvariant
<1>. QED
  BY <1>1, <1>2, <1>3, PTL DEF Spec, ImplementsOrganizations, Clients!Spec
=============================================================================
