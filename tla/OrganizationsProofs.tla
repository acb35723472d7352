------------------------ MODULE OrganizationsProofs -------------------------
(***************************************************************************)
(* What Organizations itself implies, for any users, organizations and       *)
(* invitations: an organization that has members has an owner.              *)
(***************************************************************************)
EXTENDS Organizations, TLAPS

TypeOK ==
    /\ roles \in [Org -> [User -> Roles \cup {None}]]
    /\ open \in [Invitation -> [org : Org, user : User,
                                role : Roles \ {"owner"}] \cup {None}]

(* Somebody is in charge of every organization with a member, ...            *)
Led == \A o \in Org : (\E u \in User : roles[o][u] # None) => HasOwner(roles[o])

(* ... and of every one that somebody is invited to join.                    *)
Hosted == \A i \in Invitation : open[i] # None => HasOwner(roles[open[i].org])

IndLed == TypeOK /\ Led /\ Hosted

(* No organization loses its last owner.                                    *)
OwnersRemain == \A o \in Org : HasOwner(roles[o]) => HasOwner(roles'[o])

NoneIsNoInvitation ==
    None \notin Roles \cup [org : Org, user : User, role : Roles \ {"owner"}]

-----------------------------------------------------------------------------
LEMMA InitLed == Init => IndLed
  BY DEF Init, IndLed, TypeOK, Led, Hosted

\* A role written for one member of one organization: the others keep theirs.
LEMMA OneRole ==
  ASSUME TypeOK, NEW o \in Org, NEW u \in User, NEW role \in Roles \cup {None},
         roles' = [roles EXCEPT ![o][u] = role]
  PROVE  /\ roles' \in [Org -> [User -> Roles \cup {None}]]
         /\ roles'[o][u] = role
         /\ \A v \in User : v # u => roles'[o][v] = roles[o][v]
         /\ \A p \in Org : p # o => roles'[p] = roles[p]
<1>1. roles \in [Org -> [User -> Roles \cup {None}]]
  BY DEF TypeOK
<1>2. roles'[o] = [roles[o] EXCEPT ![u] = role]
  BY <1>1
<1>3. \A p \in Org : p # o => roles'[p] = roles[p]
  BY <1>1
<1>. QED
  BY <1>1, <1>2, <1>3

\* When every organization that had an owner still has one, the members and
\* the invitations that were there do no harm.
LEMMA StillLed ==
  ASSUME Led, Hosted, OwnersRemain, TypeOK,
         NEW o \in Org, HasOwner(roles'[o]),
         \A p \in Org : p # o => roles'[p] = roles[p],
         \A i \in Invitation : open'[i] # None =>
            open'[i] = open[i] \/ HasOwner(roles'[open'[i].org])
  PROVE  Led' /\ Hosted'
<1>1. Led'
  BY DEF Led, HasOwner
<1>2. Hosted'
  <2>1. SUFFICES ASSUME NEW i \in Invitation, open'[i] # None
        PROVE  HasOwner(roles'[open'[i].org])
    BY DEF Hosted, HasOwner
  <2>2. CASE open'[i] = open[i]
    <3>1. open[i].org \in Org
      BY <2>1, <2>2 DEF TypeOK
    <3>. QED
      BY <2>1, <2>2, <3>1 DEF Hosted, OwnersRemain
  <2>. QED
    BY <2>1, <2>2
<1>. QED
  BY <1>1, <1>2

LEMMA FoundStep ==
  ASSUME NoneIsNoInvitation, IndLed, NEW o \in Org, NEW u \in User, Found(o, u)
  PROVE  IndLed' /\ OwnersRemain
<1>1. /\ TypeOK /\ Led /\ Hosted /\ UNCHANGED open
      /\ roles' = [roles EXCEPT ![o][u] = "owner"]
  BY DEF Found, IndLed
<1>2. "owner" \in Roles \cup {None}
  BY DEF Roles
<1>3. /\ roles' \in [Org -> [User -> Roles \cup {None}]]
      /\ roles'[o][u] = "owner"
      /\ \A p \in Org : p # o => roles'[p] = roles[p]
  BY <1>1, <1>2, OneRole
<1>4. HasOwner(roles'[o])
  BY <1>3 DEF HasOwner
<1>5. OwnersRemain
  BY <1>3, <1>4 DEF OwnersRemain
<1>6. Led' /\ Hosted'
  BY <1>1, <1>3, <1>4, <1>5, StillLed
<1>7. TypeOK'
  BY <1>1, <1>3 DEF TypeOK
<1>. QED
  BY <1>5, <1>6, <1>7 DEF IndLed

LEMMA SetRoleStep ==
  ASSUME IndLed, NEW o \in Org, NEW by \in User, NEW u \in User,
         NEW role \in Roles \cup {None}, NEW permission,
         SetRole(o, by, u, role, permission)
  PROVE  IndLed' /\ OwnersRemain
<1>1. /\ TypeOK /\ Led /\ Hosted /\ UNCHANGED open
      /\ roles' = [roles EXCEPT ![o][u] = role]
      /\ HasOwner(roles'[o])
  BY DEF SetRole, IndLed
<1>2. /\ roles' \in [Org -> [User -> Roles \cup {None}]]
      /\ \A p \in Org : p # o => roles'[p] = roles[p]
  BY <1>1, OneRole
<1>3. OwnersRemain
  BY <1>1, <1>2 DEF OwnersRemain
<1>4. Led' /\ Hosted'
  BY <1>1, <1>2, <1>3, StillLed
<1>5. TypeOK'
  BY <1>1, <1>2 DEF TypeOK
<1>. QED
  BY <1>3, <1>4, <1>5 DEF IndLed

\* Who invites is a member, so somebody owns the organization.
LEMMA InviteStep ==
  ASSUME IndLed, NEW i \in Invitation, NEW o \in Org, NEW by \in User,
         NEW u \in User, NEW role \in Roles \ {"owner"},
         Invite(i, o, by, u, role)
  PROVE  IndLed' /\ OwnersRemain
<1> DEFINE sent == [org |-> o, user |-> u, role |-> role]
<1>1. /\ TypeOK /\ Led /\ Hosted /\ UNCHANGED roles
      /\ open' = [open EXCEPT ![i] = sent] /\ roles[o][by] # None
  BY DEF Invite, MayDo, IndLed
<1>2. sent \in [org : Org, user : User, role : Roles \ {"owner"}] /\ sent.org = o
  OBVIOUS
<1> HIDE DEF sent
<1>3. /\ TypeOK'
      /\ open'[i] = sent /\ \A j \in Invitation : j # i => open'[j] = open[j]
  BY <1>1, <1>2 DEF TypeOK
<1>4. HasOwner(roles[o])
  BY <1>1 DEF Led
<1>5. OwnersRemain
  BY <1>1 DEF OwnersRemain
<1>6. Led' /\ Hosted'
  BY <1>1, <1>2, <1>3, <1>4, <1>5, StillLed
<1>. QED
  BY <1>3, <1>5, <1>6 DEF IndLed

\* Who joins was no member, so the owner is somebody else and remains.
LEMMA JoinStep ==
  ASSUME NoneIsNoInvitation, IndLed, NEW i \in Invitation, Join(i)
  PROVE  IndLed' /\ OwnersRemain
<1>1. /\ TypeOK /\ Led /\ Hosted
      /\ open[i] # None /\ open' = [open EXCEPT ![i] = None]
  BY DEF Join, IndLed
<1>2. PICK invitation \in [org : Org, user : User, role : Roles \ {"owner"}] :
         open[i] = invitation
  BY <1>1 DEF TypeOK
<1>3. PICK o \in Org : o = invitation.org
  BY <1>2
<1>4. PICK u \in User : u = invitation.user
  BY <1>2
<1>5. PICK role \in Roles : role = invitation.role
  BY <1>2
<1>6. roles[o][u] = None /\ roles' = [roles EXCEPT ![o][u] = role]
  BY <1>2, <1>3, <1>4, <1>5 DEF Join
<1>7. /\ roles' \in [Org -> [User -> Roles \cup {None}]]
      /\ \A v \in User : v # u => roles'[o][v] = roles[o][v]
      /\ \A p \in Org : p # o => roles'[p] = roles[p]
  BY <1>1, <1>6, OneRole
<1>8. HasOwner(roles[o])
  BY <1>1, <1>2, <1>3 DEF Hosted
<1>9. PICK v \in User : roles[o][v] = "owner"
  BY <1>8 DEF HasOwner
<1>10. v # u
  BY <1>6, <1>9 DEF NoneIsNoInvitation, Roles
<1>11. HasOwner(roles'[o])
  BY <1>7, <1>9, <1>10 DEF HasOwner
<1>12. OwnersRemain
  BY <1>7, <1>11 DEF OwnersRemain
<1>13. TypeOK' /\ \A j \in Invitation : open'[j] # None => open'[j] = open[j]
  BY <1>1, <1>7 DEF TypeOK
<1>14. Led' /\ Hosted'
  BY <1>1, <1>7, <1>11, <1>12, <1>13, StillLed
<1>. QED
  BY <1>12, <1>13, <1>14 DEF IndLed

LEMMA LedInductive ==
  ASSUME NoneIsNoInvitation, IndLed, [Next]_vars PROVE IndLed' /\ OwnersRemain
<1>1. CASE UNCHANGED vars
  BY <1>1 DEF vars, IndLed, TypeOK, Led, Hosted, HasOwner, OwnersRemain
<1>2. CASE \E o \in Org, u \in User : Found(o, u)
  BY <1>2, FoundStep
<1>3. CASE \E o \in Org, by, u \in User, role \in Roles :
              SetRole(o, by, u, role, "roles.manage")
  BY <1>3, SetRoleStep
<1>4. CASE \E o \in Org, by, u \in User :
              SetRole(o, by, u, None, "users.remove")
  BY <1>4, SetRoleStep
<1>5. CASE \E i \in Invitation, o \in Org, by, u \in User,
              role \in Roles \ {"owner"} : Invite(i, o, by, u, role)
  BY <1>5, InviteStep
<1>6. CASE \E i \in Invitation : Join(i)
  BY <1>6, JoinStep
<1>. QED
  BY <1>1, <1>2, <1>3, <1>4, <1>5, <1>6 DEF Next

\* What update_member_role and remove_member promise to keep: in the abstract
\* specification an organization with a member has an owner.
THEOREM OrganizationsLed ==
  ASSUME NoneIsNoInvitation PROVE Spec => []Led
<1>1. IndLed /\ [Next]_vars => IndLed'
  BY LedInductive
<1>2. IndLed => Led
  BY DEF IndLed
<1>. QED
  BY InitLed, <1>1, <1>2, PTL DEF Spec

\* No step of the abstract specification takes the last owner of an
\* organization away, be it a change of role, a removal or an acceptance.
THEOREM OrganizationsKeepOwners ==
  ASSUME NoneIsNoInvitation PROVE Spec => [][OwnersRemain]_vars
<1>1. IndLed /\ [Next]_vars => IndLed' /\ OwnersRemain
  BY LedInductive
<1>. QED
  BY InitLed, <1>1, PTL DEF Spec
=============================================================================
