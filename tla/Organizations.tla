--------------------------- MODULE Organizations ----------------------------
(* What a client may rely on: who holds which role in an organization, and    *)
(* which invitations are open.  Every step is made by somebody who may make   *)
(* it at that moment, and an organization, once founded, keeps an owner.      *)
EXTENDS Rbac

CONSTANTS User, Org, Invitation, None

VARIABLES
    roles,    \* the role of a user in an organization, None for no member
    open      \* the invitations not accepted yet: who may join, where, as what

vars == <<roles, open>>

MayDo(u, o, permission) ==
    roles[o][u] # None /\ Grants(roles[o][u], permission)

HasOwner(members) == \E u \in User : members[u] = "owner"

Init ==
    /\ roles = [o \in Org |-> [u \in User |-> None]]
    /\ open = [i \in Invitation |-> None]

\* Founding an organization makes its founder the owner.
Found(o, u) ==
    /\ roles[o] = [v \in User |-> None]
    /\ roles' = [roles EXCEPT ![o][u] = "owner"]
    /\ UNCHANGED open

\* Giving a member another role, or none: an owner remains.
SetRole(o, by, u, role, permission) ==
    /\ MayDo(by, o, permission)
    /\ roles[o][u] # None
    /\ roles' = [roles EXCEPT ![o][u] = role]
    /\ HasOwner(roles'[o])
    /\ UNCHANGED open

Invite(i, o, by, u, role) ==
    /\ MayDo(by, o, "invite")
    /\ roles[o][u] = None
    /\ open[i] = None
    /\ open' = [open EXCEPT ![i] = [org |-> o, user |-> u, role |-> role]]
    /\ UNCHANGED roles

\* An invitation is used up by joining.
Join(i) ==
    /\ open[i] # None
    /\ roles[open[i].org][open[i].user] = None
    /\ roles' = [roles EXCEPT ![open[i].org][open[i].user] = open[i].role]
    /\ open' = [open EXCEPT ![i] = None]

Next ==
    \/ \E o \in Org, u \in User : Found(o, u)
    \/ \E o \in Org, by, u \in User, role \in Roles :
          SetRole(o, by, u, role, "roles.manage")
    \/ \E o \in Org, by, u \in User : SetRole(o, by, u, None, "users.remove")
    \/ \E i \in Invitation, o \in Org, by, u \in User, role \in Roles \ {"owner"} :
          Invite(i, o, by, u, role)
    \/ \E i \in Invitation : Join(i)

Spec == Init /\ [][Next]_vars
=============================================================================
