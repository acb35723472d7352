------------------------------ MODULE Tenancy ------------------------------
(***************************************************************************)
(* Organizations, their members and their invitations:                      *)
(* app/services/org_service.py and app/services/invitation_service.py, with *)
(* the permission lookup of app/core/deps.py in front of them.              *)
(*                                                                          *)
(* A request is one transaction at READ COMMITTED: each of its statements   *)
(* sees what is committed when the statement starts.  Each statement that   *)
(* another request can come before or after is an action.  The writes and   *)
(* the commit that ends the request are one action: a request writes rows   *)
(* of one membership and one invitation by their ids, a second writer of    *)
(* the same row waits for the first to commit, and readers see nothing      *)
(* before.                                                                  *)
(***************************************************************************)
EXTENDS Rbac, Integers, FiniteSets

CONSTANTS
    User,        \* registered users; an invitation is sent to a user's e-mail
    Org,         \* slugs
    Membership,  \* ids of org_memberships rows, never used again
    Invitation,  \* ids of invitations rows
    Request,     \* requests in flight at once
    Handlers,    \* the handlers clients call in a run
    Assignable,  \* the roles clients ask for in a run
    InviteTTL,   \* INVITE_TTL_DAYS
    MaxTime,     \* bound on the clock
    MaxAudit,    \* bound on the log: no request starts once it is this long
    None

ASSUME HandlersAssumption ==
    Handlers \subseteq {"create", "change", "remove", "invite", "accept"}
ASSUME AssignableAssumption == Assignable \subseteq Roles
ASSUME NoneIsNoId == None \notin User \cup Org \cup Membership \cup Invitation
ASSUME RequestsAssumption == IsFiniteSet(Request)
ASSUME BoundsAssumption ==
    InviteTTL \in Nat /\ MaxTime \in Nat /\ MaxAudit \in Nat

VARIABLES
    orgs,     \* organizations.created_by by slug, None for a free slug
    members,  \* org_memberships; a deleted row keeps its place, not present
    invites,  \* invitations
    audit,    \* the committed audit entries of these handlers
    now,      \* utcnow()
    req       \* what each request in flight has read

vars == <<orgs, members, invites, audit, now, req>>

-----------------------------------------------------------------------------
(* Rows, requests and queries *)

MemberRow == [org : Org, user : User, role : Roles, present : BOOLEAN]

InviteRow == [org : Org, email : User, role : Roles, expires : Nat,
              accepted : BOOLEAN]

ASSUME NoneIsNoRow ==
    None \notin MemberRow \cup InviteRow \cup Roles
                \cup [org : Org, user : User, role : Roles]

AuditEntry ==
    [action : {"org.created", "role.changed", "member.removed",
               "invite.created", "invite.accepted"},
     actor  : User,
     org    : Org,
     resource : Org \cup Membership \cup User \cup Invitation,
     old    : Roles \cup {None},
     new    : Roles \cup {None}]

Idle == [pc |-> "idle", op |-> None, actor |-> None, org |-> None,
         target |-> None, role |-> None, row |-> None, old |-> None]

\* A request's next statement.
PC == {"idle",
       "target",    \* change, remove: the target's membership
       "owners",    \* change, remove: the organization's owners
       "member",    \* invite: is the e-mail a member's
       "pending",   \* invite: is an invitation pending
       "existing",  \* accept: is the user a member
       "write"}     \* the writes and the commit

Present == {m \in Membership : members[m] # None /\ members[m].present}
MembersOf(o, u) == {m \in Present : members[m].org = o /\ members[m].user = u}
Owners(o) == {m \in Present : members[m].org = o /\ members[m].role = "owner"}
Sent == {i \in Invitation : invites[i] # None}

\* create_invitation's query for a pending invitation.
Pending(o, e) ==
    {i \in Sent : /\ invites[i].org = o /\ invites[i].email = e
                  /\ ~invites[i].accepted
                  /\ invites[i].expires > now}

\* require_permission(p) for user a in organization o.
Permitted(a, o, p) ==
    \E m \in MembersOf(o, a) : Grants(members[m].role, p)

Entry(action, a, o, x, old, new) ==
    [action |-> action, actor |-> a, org |-> o, resource |-> x,
     old |-> old, new |-> new]

Room == Cardinality(audit) < MaxAudit

Go(r, pc) == req' = [req EXCEPT ![r].pc = pc]
End(r) == req' = [req EXCEPT ![r] = Idle]

-----------------------------------------------------------------------------
Init ==
    /\ orgs = [o \in Org |-> None]
    /\ members = [m \in Membership |-> None]
    /\ invites = [i \in Invitation |-> None]
    /\ audit = {}
    /\ now = 0
    /\ req = [r \in Request |-> Idle]

\* create_organization: the unique slug decides a race, so the check and the
\* inserts are one step; the caller becomes the owner.
CreateOrg(a, o, m) ==
    /\ "create" \in Handlers
    /\ orgs[o] = None
    /\ members[m] = None
    /\ orgs' = [orgs EXCEPT ![o] = a]
    /\ members' = [members EXCEPT ![m] =
           [org |-> o, user |-> a, role |-> "owner", present |-> TRUE]]
    /\ audit' = audit \cup {Entry("org.created", a, o, o, None, None)}
    /\ UNCHANGED <<invites, now, req>>

\* The permission lookup in front of a guarded handler.  If the target is the
\* actor the request keeps the row it loaded, with its role: a later query that
\* returns this row gives the handler the object as it was.
Authorise(r, handler, permission, roles, pc) ==
    /\ handler \in Handlers
    /\ req[r].pc = "idle" /\ Room
    /\ \E a, u \in User, o \in Org, role \in roles :
        /\ Permitted(a, o, permission)
        /\ \E m \in MembersOf(o, a) :
            req' = [req EXCEPT ![r] =
                [Idle EXCEPT !.pc = pc, !.op = handler, !.actor = a, !.org = o,
                             !.target = u, !.role = role,
                             !.row = IF a = u THEN m ELSE None,
                             !.old = IF a = u THEN members[m].role ELSE None]]
    /\ UNCHANGED <<orgs, members, invites, audit, now>>

\* Mutant: changing a role asks for the permission to list the members.
AuthoriseReader(r) ==
    Authorise(r, "change", "users.read", Assignable, "target")

AuthoriseChange(r) ==
    Authorise(r, "change", "roles.manage", Assignable, "target")

AuthoriseRemove(r) ==
    Authorise(r, "remove", "users.remove", {None}, "target")

\* The role owner is refused before anything else is read.
AuthoriseInvite(r) ==
    Authorise(r, "invite", "invite", Assignable \ {"owner"}, "member")

\* Mutant: a removal is not a loss.
DemotesOwner(old, role) == old = "owner" /\ role \in Roles \ {"owner"}

\* Does a change to the role, or a removal (no role), take an owner away?
LosesOwner(old, role) == old = "owner" /\ role # "owner"

\* Mutant: the target is looked for in every organization.
LoadAnywhere(r) ==
    /\ req[r].pc = "target"
    /\ \E m \in {n \in Present : members[n].user = req[r].target} :
            req' = [req EXCEPT ![r].row = m, ![r].old = members[m].role,
                    ![r].pc = IF LosesOwner(members[m].role, req[r].role)
                              THEN "owners" ELSE "write"]
    /\ UNCHANGED <<orgs, members, invites, audit, now>>

\* The target's row, with its role: the one already loaded if it is the actor's.
LoadTarget(r) ==
    /\ req[r].pc = "target"
    /\ \/ /\ MembersOf(req[r].org, req[r].target) = {}
          /\ End(r)
       \/ \E m \in MembersOf(req[r].org, req[r].target) :
            LET old == IF req[r].row = m THEN req[r].old ELSE members[m].role
            IN  req' = [req EXCEPT ![r].row = m, ![r].old = old,
                    ![r].pc = IF LosesOwner(old, req[r].role) THEN "owners"
                              ELSE "write"]
    /\ UNCHANGED <<orgs, members, invites, audit, now>>

\* The last owner is neither demoted nor removed.
CountOwners(r) ==
    /\ req[r].pc = "owners"
    /\ IF Cardinality(Owners(req[r].org)) <= 1 THEN End(r) ELSE Go(r, "write")
    /\ UNCHANGED <<orgs, members, invites, audit, now>>

\* Mutant: the log takes the new role for the old one.
ChangeLoggedBackwards(r) ==
    /\ req[r].pc = "write" /\ req[r].op = "change"
    /\ LET q == req[r] IN
       /\ q.row \in Present
       /\ members' = [members EXCEPT ![q.row].role = q.role]
       /\ audit' = audit \cup {Entry("role.changed", q.actor, q.org,
                                     q.row, q.role, q.old)}
    /\ End(r)
    /\ UNCHANGED <<orgs, invites, now>>

\* update_member_role's UPDATE by id: sent only if the role differs from the one
\* loaded.  If the row has gone, the UPDATE or the refresh after it is an error.
ChangeWrite(r) ==
    /\ req[r].pc = "write" /\ req[r].op = "change"
    /\ LET q == req[r] IN
       \/ /\ q.row \notin Present
          /\ UNCHANGED <<members, audit>>
       \/ /\ q.row \in Present
          /\ members' = IF q.role = q.old THEN members
                        ELSE [members EXCEPT ![q.row].role = q.role]
          /\ audit' = audit \cup {Entry("role.changed", q.actor, q.org,
                                        q.row, q.old, q.role)}
    /\ End(r)
    /\ UNCHANGED <<orgs, invites, now>>

\* Mutant: the log names the actor as the one removed.
RemoveLoggingActor(r) ==
    /\ req[r].pc = "write" /\ req[r].op = "remove"
    /\ members' = [members EXCEPT ![req[r].row].present = FALSE]
    /\ audit' = audit \cup {Entry("member.removed", req[r].actor, req[r].org,
                                  req[r].actor, None, None)}
    /\ End(r)
    /\ UNCHANGED <<orgs, invites, now>>

\* remove_member's DELETE by id: deleting a row that has gone is no error.
RemoveWrite(r) ==
    /\ req[r].pc = "write" /\ req[r].op = "remove"
    /\ members' = [members EXCEPT ![req[r].row].present = FALSE]
    /\ audit' = audit \cup {Entry("member.removed", req[r].actor, req[r].org,
                                  req[r].target, None, None)}
    /\ End(r)
    /\ UNCHANGED <<orgs, invites, now>>

InviteMember(r) ==
    /\ req[r].pc = "member"
    /\ IF MembersOf(req[r].org, req[r].target) # {}
       THEN End(r)
       ELSE Go(r, "pending")
    /\ UNCHANGED <<orgs, members, invites, audit, now>>

\* Mutant: the query for a pending invitation is left out.
PendingUnchecked(r) ==
    /\ req[r].pc = "pending"
    /\ Go(r, "write")
    /\ UNCHANGED <<orgs, members, invites, audit, now>>

InvitePending(r) ==
    /\ req[r].pc = "pending"
    /\ IF Pending(req[r].org, req[r].target) # {}
       THEN End(r)
       ELSE Go(r, "write")
    /\ UNCHANGED <<orgs, members, invites, audit, now>>

InviteWrite(r, i) ==
    /\ req[r].pc = "write" /\ req[r].op = "invite"
    /\ i \in Invitation \ Sent
    /\ invites' = [invites EXCEPT ![i] =
           [org |-> req[r].org, email |-> req[r].target, role |-> req[r].role,
            expires |-> now + InviteTTL, accepted |-> FALSE]]
    /\ audit' = audit \cup {Entry("invite.created", req[r].actor, req[r].org,
                                  i, None, req[r].role)}
    /\ End(r)
    /\ UNCHANGED <<orgs, members, now>>

\* Mutant: accepted_at is not looked at.
AcceptAgain(r, u, i) ==
    /\ "accept" \in Handlers
    /\ req[r].pc = "idle" /\ Room
    /\ i \in Sent
    /\ invites[i].expires >= now
    /\ invites[i].email = u
    /\ req' = [req EXCEPT ![r] =
           [Idle EXCEPT !.pc = "existing", !.op = "accept", !.actor = u, !.target = u,
                        !.org = invites[i].org, !.role = invites[i].role,
                        !.row = i]]
    /\ UNCHANGED <<orgs, members, invites, audit, now>>

\* accept_invitation, by the user the invitation is addressed to: it must not
\* have been accepted and not have expired when it is read.
AcceptRead(r, u, i) ==
    /\ "accept" \in Handlers
    /\ req[r].pc = "idle" /\ Room
    /\ i \in Sent
    /\ ~invites[i].accepted
    /\ invites[i].expires >= now
    /\ invites[i].email = u
    /\ req' = [req EXCEPT ![r] =
           [Idle EXCEPT !.pc = "existing", !.op = "accept", !.actor = u, !.target = u,
                        !.org = invites[i].org, !.role = invites[i].role,
                        !.row = i]]
    /\ UNCHANGED <<orgs, members, invites, audit, now>>

AcceptExisting(r) ==
    /\ req[r].pc = "existing"
    /\ IF MembersOf(req[r].org, req[r].target) # {}
       THEN End(r)
       ELSE Go(r, "write")
    /\ UNCHANGED <<orgs, members, invites, audit, now>>

\* Mutant: the membership gets no role.
AcceptWithoutRole(r, m) ==
    /\ req[r].pc = "write" /\ req[r].op = "accept"
    /\ MembersOf(req[r].org, req[r].target) = {}
    /\ members[m] = None
    /\ members' = [members EXCEPT ![m] =
           [org |-> req[r].org, user |-> req[r].target, role |-> None,
            present |-> TRUE]]
    /\ invites' = [invites EXCEPT ![req[r].row].accepted = TRUE]
    /\ audit' = audit \cup {Entry("invite.accepted", req[r].actor, req[r].org,
                                  req[r].row, None, None)}
    /\ End(r)
    /\ UNCHANGED <<orgs, now>>

\* Mutant: whoever joins is a member, not what the invitation says.
AcceptAsMember(r, m) ==
    /\ req[r].pc = "write" /\ req[r].op = "accept"
    /\ MembersOf(req[r].org, req[r].target) = {}
    /\ members[m] = None
    /\ members' = [members EXCEPT ![m] =
           [org |-> req[r].org, user |-> req[r].target, role |-> "member",
            present |-> TRUE]]
    /\ invites' = [invites EXCEPT ![req[r].row].accepted = TRUE]
    /\ audit' = audit \cup {Entry("invite.accepted", req[r].actor, req[r].org,
                                  req[r].row, None, None)}
    /\ End(r)
    /\ UNCHANGED <<orgs, now>>

\* The insert, and the UPDATE of the invitation by its id.
AcceptWrite(r, m) ==
    /\ req[r].pc = "write" /\ req[r].op = "accept"
    /\ MembersOf(req[r].org, req[r].target) = {}
    /\ members[m] = None
    /\ members' = [members EXCEPT ![m] =
           [org |-> req[r].org, user |-> req[r].target, role |-> req[r].role,
            present |-> TRUE]]
    /\ invites' = [invites EXCEPT ![req[r].row].accepted = TRUE]
    /\ audit' = audit \cup {Entry("invite.accepted", req[r].actor, req[r].org,
                                  req[r].row, None, None)}
    /\ End(r)
    /\ UNCHANGED <<orgs, now>>

\* Mutant: the refused insert is ignored and the invitation used up.
ConflictIgnored(r) ==
    /\ req[r].pc = "write" /\ req[r].op = "accept"
    /\ MembersOf(req[r].org, req[r].target) # {}
    /\ invites' = [invites EXCEPT ![req[r].row].accepted = TRUE]
    /\ End(r)
    /\ UNCHANGED <<orgs, members, audit, now>>

\* uq_org_membership_user refuses the insert if the user has become a member
\* meanwhile.
AcceptConflict(r) ==
    /\ req[r].pc = "write" /\ req[r].op = "accept"
    /\ MembersOf(req[r].org, req[r].target) # {}
    /\ End(r)
    /\ UNCHANGED <<orgs, members, invites, audit, now>>

\* Any request may fail before it commits.
Rollback(r) ==
    /\ req[r].pc # "idle"
    /\ End(r)
    /\ UNCHANGED <<orgs, members, invites, audit, now>>

Tick ==
    /\ now < MaxTime
    /\ now' = now + 1
    /\ UNCHANGED <<orgs, members, invites, audit, req>>

-----------------------------------------------------------------------------
ChangeMember(r) ==
    \/ AuthoriseChange(r) \/ AuthoriseRemove(r)
    \/ LoadTarget(r) \/ CountOwners(r)
    \/ ChangeWrite(r) \/ RemoveWrite(r)

CreateInvitation(r) ==
    \/ AuthoriseInvite(r) \/ InviteMember(r) \/ InvitePending(r)
    \/ \E i \in Invitation : InviteWrite(r, i)

AcceptInvitation(r) ==
    \/ \E u \in User, i \in Invitation : AcceptRead(r, u, i)
    \/ AcceptExisting(r) \/ AcceptConflict(r)
    \/ \E m \in Membership : AcceptWrite(r, m)

Next ==
    \/ \E a \in User, o \in Org, m \in Membership : CreateOrg(a, o, m)
    \/ \E r \in Request :
        \/ ChangeMember(r) \/ CreateInvitation(r) \/ AcceptInvitation(r)
        \/ Rollback(r)
    \/ Tick

Spec == Init /\ [][Next]_vars

-----------------------------------------------------------------------------
(* Properties, for any number of requests in flight *)

RequestState ==
    [pc     : PC,
     op     : {"change", "remove", "invite", "accept", None},
     actor  : User \cup {None},
     org    : Org \cup {None},
     target : User \cup {None},
     role   : Roles \cup {None},
     row    : Membership \cup Invitation \cup {None},
     old    : Roles \cup {None}]

\* The type invariant of the committed tables and of the requests in flight.
TypeOK ==
    /\ orgs \in [Org -> User \cup {None}]
    /\ members \in [Membership -> MemberRow \cup {None}]
    /\ invites \in [Invitation -> InviteRow \cup {None}]
    /\ audit \subseteq AuditEntry
    /\ now \in 0 .. MaxTime
    /\ req \in [Request -> RequestState]

\* The role of a member is one the log tells: the creator's, one a change set
\* on this very row, or that of an accepted invitation (lost updates and
\* changes that send no UPDATE included).
RoleExplained ==
    \A m \in Present :
        LET row == members[m] IN
        \/ row.role = "owner" /\ orgs[row.org] = row.user
        \/ \E e \in audit : /\ e.action = "role.changed"
                            /\ e.resource = m /\ e.new = row.role
        \/ \E i \in Sent : /\ invites[i].accepted
                           /\ invites[i].org = row.org
                           /\ invites[i].email = row.user
                           /\ invites[i].role = row.role

\* A row goes only with its audit entry: a membership that is no longer there
\* was removed by somebody the log names.
RemovalExplained ==
    \A m \in Membership : members[m] # None /\ ~members[m].present =>
        \E e \in audit : /\ e.action = "member.removed"
                         /\ e.org = members[m].org
                         /\ e.resource = members[m].user

\* Accepting is all or nothing: an accepted invitation has its audit entry, by
\* the user it was sent to, and that user has or had a membership there.
AcceptanceComplete ==
    \A i \in Sent : invites[i].accepted =>
        /\ \E m \in Membership : /\ members[m] # None
                                 /\ members[m].org = invites[i].org
                                 /\ members[m].user = invites[i].email
        /\ \E e \in audit : /\ e.action = "invite.accepted"
                            /\ e.resource = i
                            /\ e.org = invites[i].org
                            /\ e.actor = invites[i].email

\* Was u ever given a role in o that has the permission p: by founding o, by a
\* role change on one of their memberships or by an accepted invitation?
Entitled(o, u, p) ==
    \/ orgs[o] = u
    \/ \E e \in audit : /\ e.action = "role.changed" /\ Grants(e.new, p)
                        /\ members[e.resource].org = o
                        /\ members[e.resource].user = u
    \/ \E i \in Sent : /\ invites[i].accepted
                       /\ invites[i].org = o /\ invites[i].email = u
                       /\ Grants(invites[i].role, p)

\* Nobody changes, removes or invites who was not entitled to it once: the role
\* the permission lookup saw may be gone when the change commits (deps.py:56),
\* by a demotion, a removal or a lost update, but the log must have it.
ActorsEntitled ==
    \A e \in audit :
        /\ e.action = "role.changed" =>
              Entitled(e.org, e.actor, "roles.manage")
        /\ e.action = "member.removed" =>
              Entitled(e.org, e.actor, "users.remove")
        /\ e.action = "invite.created" =>
              Entitled(e.org, e.actor, "invite")

\* Invitations pending for one e-mail are no more than requests can be in flight
\* at once: requests that looked before the first of them committed can each
\* send one (no constraint forbids it), a request that looks later sends none.
PendingBounded ==
    \A o \in Org, e \in User :
        Cardinality(Pending(o, e)) <= Cardinality(Request)

\* No tenant acts on another: whoever the log says changed a role, removed a
\* member or sent an invitation was a member of that organization, and the row
\* changed is a row of that organization.
TenantIsolation ==
    \A e \in audit :
        /\ e.action # "org.created" =>
              \E m \in Membership : /\ members[m] # None
                                   /\ members[m].org = e.org
                                   /\ members[m].user = e.actor
        /\ e.action = "role.changed" => members[e.resource].org = e.org
        /\ e.action = "member.removed" =>
              \E m \in Membership : /\ members[m] # None
                                   /\ members[m].org = e.org
                                   /\ members[m].user = e.resource

-----------------------------------------------------------------------------
(* Properties that hold when requests are handled one at a time *)

\* No organization is ever without an owner.
EveryOrgHasOwner == \A o \in Org : orgs[o] # None => Owners(o) # {}

\* One invitation at a time is pending for an e-mail (PendingBounded is what is
\* left of it with requests in parallel).
OnePending ==
    \A o \in Org, e \in User : Cardinality(Pending(o, e)) <= 1

\* An invitation is worth one membership: the rows a user ever had in an
\* organization are not more than the invitations they accepted, and one for
\* creating it.
InvitationSingleUse ==
    \A o \in Org, u \in User :
        LET ever == {m \in Membership : /\ members[m] # None
                                       /\ members[m].org = o
                                       /\ members[m].user = u}
            used == {i \in Sent : /\ invites[i].accepted
                                 /\ invites[i].org = o
                                 /\ invites[i].email = u}
            created == IF orgs[o] = u THEN 1 ELSE 0
        IN  Cardinality(ever) <= Cardinality(used) + created

\* A change lands only while its author still has the permission, and a role
\* change records the role it replaces.
ChangesAuthorised ==
    [][\A e \in audit' \ audit :
          /\ e.action = "role.changed" =>
                /\ Permitted(e.actor, e.org, "roles.manage")
                /\ members[e.resource].role = e.old
          /\ e.action = "member.removed" =>
                Permitted(e.actor, e.org, "users.remove")
          /\ e.action = "invite.created" =>
                Permitted(e.actor, e.org, "invite")]_vars

\* Requests handled one at a time are steps of Organizations, which knows only
\* roles and open invitations: each takes effect at one moment, under the
\* permissions of that moment, and leaves an owner.
RoleOf(o, u) ==
    LET rows == MembersOf(o, u)
    IN  IF rows = {} THEN None ELSE members[CHOOSE m \in rows : TRUE].role

OpenInvitation(i) ==
    IF i \in Sent /\ ~invites[i].accepted
    THEN [org |-> invites[i].org, user |-> invites[i].email,
          role |-> invites[i].role]
    ELSE None

Clients ==
    INSTANCE Organizations
    WITH roles <- [o \in Org |-> [u \in User |-> RoleOf(o, u)]],
         open  <- [i \in Invitation |-> OpenInvitation(i)]

ImplementsOrganizations == Clients!Spec
=============================================================================
