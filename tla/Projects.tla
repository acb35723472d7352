------------------------------ MODULE Projects ------------------------------
(***************************************************************************)
(* Projects of an organization: app/services/project_service.py and the     *)
(* routes of app/api/v1/projects.py, with the checks of app/core/deps.py in *)
(* front of them and the status codes of app/exceptions.py behind.          *)
(*                                                                          *)
(* The module runs beside Tenancy, on the same memberships: while a call is *)
(* between its permission lookup and its writes, the caller's role may      *)
(* change, and the project may be deleted by another call.  As in Tenancy a *)
(* call is one transaction, each of its statements an action, its writes    *)
(* and the commit one.                                                      *)
(***************************************************************************)
EXTENDS Tenancy, Sequences

CONSTANTS
    Project,     \* ids of projects rows, never used again
    Call,        \* project requests in flight at once
    Name,        \* what a name (or description) can be set to
    MaxLog       \* bound on the entries about one project

ASSUME NoneIsNoProject == None \notin Project \cup Name
ASSUME CallsAssumption == IsFiniteSet(Call)
ASSUME MaxLogAssumption == MaxLog \in Nat

VARIABLES
    answer,      \* the status of the last answer to each caller
    projects,    \* a deleted row keeps its place, not present
    log,         \* the committed audit entries about each project, in order
    work         \* what each call in flight has been given and has read

projectVars == <<projects, log, work, answer>>
allVars == <<vars, projectVars>>

-----------------------------------------------------------------------------
(* Rows, calls and answers *)

ProjectRow == [org : Org, owner : User, name : Name, present : BOOLEAN]

ASSUME NoneIsNoProjectRow == None \notin ProjectRow

ProjectEntry ==
    [action : {"project.created", "project.updated", "project.deleted"},
     actor  : User,
     org    : Org]

Privileged == {"owner", "admin"}

\* The permission a route requires.
Needs == [create |-> "projects.write", get    |-> "projects.read",
          update |-> "projects.write", delete |-> "projects.write"]

Free == [pc |-> "free", op |-> None, actor |-> None, org |-> None,
         project |-> None, name |-> None, role |-> None]

\* register_exception_handlers.
Status ==
    [NotFoundError |-> 404, ForbiddenError |-> 403, UnauthorizedError |-> 401,
     ConflictError |-> 409, ValidationAppError |-> 422, RateLimitError |-> 429,
     AppError |-> 400]

\* The statuses of these routes; 500 is an exception no handler is registered
\* for.
Answers == {Status[e] : e \in {"NotFoundError", "ForbiddenError",
                               "UnauthorizedError", "ValidationAppError"}}
           \cup {200, 201, 204, 500}

\* What the dependencies refuse before they look at the database: the header
\* comes before the credentials.
Refusal(path, header, user) ==
    CASE header = None  -> Status.ValidationAppError
      [] header \notin {None, path} -> Status.NotFoundError
      [] header = path /\ user = None -> Status.UnauthorizedError
      [] OTHER -> None

\* Mutant: the organization is not compared.
FoundAnywhere(p, o) == projects[p] # None /\ projects[p].present

\* Mutant: a deleted project is still found.
FoundDeleted(p, o) == projects[p] # None /\ projects[p].org = o

\* get_project_in_org.
Found(p, o) ==
    projects[p] # None /\ projects[p].present /\ projects[p].org = o

\* Mutant: projects.write is enough.
WriterMayChange(q) == q.role \in Privileged \cup {"member"}

\* The test of update_project and delete_project, with the role that the
\* permission lookup loaded.
MayChange(q) ==
    q.role \in Privileged \/ projects[q.project].owner = q.actor

\* What setting the attribute changes: nothing, if it is the value loaded.
NetChange(q) == IF q.name = projects[q.project].name THEN None ELSE q.name

\* The call ends and its caller gets status s.
Reply(c, s) ==
    /\ work' = [work EXCEPT ![c] = Free]
    /\ answer' = [answer EXCEPT ![c] = s]

Logged(action, q, p) ==
    log' = [log EXCEPT ![p] =
        Append(@, [action |-> action, actor |-> q.actor, org |-> q.org])]

\* Bounds: a free id for every creation in flight, and room for an entry of
\* every call in flight about p.
RoomFor(q) ==
    IF q.op = "create"
    THEN Cardinality({c \in Call : work[c].op = "create"})
            < Cardinality({p \in Project : projects[p] = None})
    ELSE Len(log[q.project])
            + Cardinality({c \in Call : work[c].project = q.project}) < MaxLog

-----------------------------------------------------------------------------
ProjectInit ==
    /\ Init
    /\ projects = [p \in Project |-> None]
    /\ log = [p \in Project |-> <<>>]
    /\ work = [c \in Call |-> Free]
    /\ answer = [c \in Call |-> None]

Refuse(c) ==
    /\ work[c].pc = "free"
    /\ \E s \in {Refusal(path, header, user) :
                path \in Org, header \in Org \cup {None}, user \in User \cup {None}} :
        s # None /\ Reply(c, s)
    /\ UNCHANGED <<projects, log>>

\* What a client may ask.  An update that leaves the name out has the effect of
\* one that sets it to the name that is loaded.
Requests ==
    {q \in [pc : {"free"}, op : DOMAIN Needs, actor : User, org : Org,
            project : Project \cup {None}, name : Name \cup {None},
            role : {None}] :
        /\ (q.op = "create") = (q.project = None)
        /\ (q.op \in {"create", "update"}) = (q.name # None)}

\* An authenticated request whose header names the organization of its path
\* arrives, and require_permission loads the membership with its role, which
\* the call keeps.
Arrive(c) ==
    /\ work[c].pc = "free"
    /\ \E q \in Requests :
       /\ RoomFor(q)
       /\ \/ /\ MembersOf(q.org, q.actor) = {}
             /\ Reply(c, Status.NotFoundError)
          \/ \E m \in MembersOf(q.org, q.actor) :
             \/ /\ ~Grants(members[m].role, Needs[q.op])
                /\ Reply(c, Status.ForbiddenError)
             \/ /\ Grants(members[m].role, Needs[q.op])
                /\ work' = [work EXCEPT ![c] =
                       [q EXCEPT !.role = members[m].role,
                           !.pc = IF q.op = "create" THEN "write" ELSE "project"]]
                /\ answer' = [answer EXCEPT ![c] = None]
    /\ UNCHANGED <<projects, log>>

\* The row is loaded, and what is decided on the loaded objects alone: it is of
\* this organization, the caller may change it.
GetProject(c) ==
    /\ work[c].pc = "project"
    /\ LET q == work[c] IN
       \/ /\ ~Found(q.project, q.org)
          /\ Reply(c, Status.NotFoundError)
       \/ /\ Found(q.project, q.org)
          /\ q.op = "get"
          /\ Reply(c, 200)
       \/ /\ Found(q.project, q.org)
          /\ q.op # "get" /\ ~MayChange(q)
          /\ Reply(c, Status.ForbiddenError)
       \/ /\ Found(q.project, q.org)
          /\ q.op # "get" /\ MayChange(q)
          /\ work' = [work EXCEPT ![c].pc = "write",
                                  ![c].name = NetChange(q)]
          /\ UNCHANGED answer
    /\ UNCHANGED <<projects, log>>

\* Mutant: the project gets no owner.
CreateUnowned(c, p) ==
    /\ work[c].pc = "write" /\ work[c].op = "create"
    /\ projects[p] = None
    /\ projects' = [projects EXCEPT ![p] =
           [org |-> work[c].org, owner |-> None, name |-> work[c].name,
            present |-> TRUE]]
    /\ Logged("project.created", work[c], p)
    /\ Reply(c, 201)

CreateProject(c, p) ==
    /\ work[c].pc = "write" /\ work[c].op = "create"
    /\ projects[p] = None
    /\ projects' = [projects EXCEPT ![p] =
           [org |-> work[c].org, owner |-> work[c].actor,
            name |-> work[c].name, present |-> TRUE]]
    /\ Logged("project.created", work[c], p)
    /\ Reply(c, 201)

\* Without a net change no UPDATE is sent and the entry is committed, whether
\* the row is still there or not.  With one the call fails and is rolled back:
\* if the row has gone the flush finds none; if it is there the UPDATE expires
\* updated_at (onupdate), and the response cannot load it.
UpdateProject(c) ==
    /\ work[c].pc = "write" /\ work[c].op = "update"
    /\ IF work[c].name # None
       THEN Reply(c, 500) /\ UNCHANGED log
       ELSE Reply(c, 200) /\ Logged("project.updated", work[c], work[c].project)
    /\ UNCHANGED projects

\* Mutant: somebody else's project is deleted without an entry.
DeleteOthersUnlogged(c) ==
    /\ work[c].pc = "write" /\ work[c].op = "delete"
    /\ projects' = [projects EXCEPT ![work[c].project].present = FALSE]
    /\ IF projects[work[c].project].owner = work[c].actor
       THEN Logged("project.deleted", work[c], work[c].project)
       ELSE UNCHANGED log
    /\ Reply(c, 204)

\* The entry is flushed first; the DELETE at the commit may match no row, which
\* is a warning only.
DeleteProject(c) ==
    /\ work[c].pc = "write" /\ work[c].op = "delete"
    /\ projects' = [projects EXCEPT ![work[c].project].present = FALSE]
    /\ Logged("project.deleted", work[c], work[c].project)
    /\ Reply(c, 204)

\* A call is cut off: no commit, no answer.
Abort(c) ==
    /\ work[c].pc # "free"
    /\ work' = [work EXCEPT ![c] = Free]
    /\ UNCHANGED <<projects, log, answer>>

-----------------------------------------------------------------------------
HandleCall(c) ==
    \/ Refuse(c) \/ Arrive(c) \/ GetProject(c)
    \/ \E p \in Project : CreateProject(c, p)
    \/ UpdateProject(c) \/ DeleteProject(c) \/ Abort(c)

ProjectNext ==
    \/ Next /\ UNCHANGED projectVars
    \/ (\E c \in Call : HandleCall(c)) /\ UNCHANGED vars

ProjectSpec == ProjectInit /\ [][ProjectNext]_allVars

-----------------------------------------------------------------------------
(* Properties *)

CallState ==
    [pc      : {"free", "project", "write"},
     op      : DOMAIN Needs \cup {None},
     actor   : User \cup {None},
     org     : Org \cup {None},
     project : Project \cup {None},
     name    : Name \cup {None},
     role    : Roles \cup {None}]

\* The type invariant of the table, its log and the calls in flight.
ProjectTypeOK ==
    /\ projects \in [Project -> ProjectRow \cup {None}]
    /\ \A p \in Project : \A i \in 1 .. Len(log[p]) : log[p][i] \in ProjectEntry
    /\ work \in [Call -> CallState]
    /\ answer \in [Call -> Answers \cup {None}]

\* The log accounts for the table: a project begins with the entry of its
\* owner, it is gone exactly when its deletion is in the log, and every entry
\* is filed under the project's own organization.
ProjectsAccounted ==
    \A p \in Project :
        LET row == projects[p] IN
        /\ (row = None) = (log[p] = <<>>)
        /\ row # None =>
            /\ log[p][1] = [action |-> "project.created", actor |-> row.owner,
                            org |-> row.org]
            /\ row.present = (\A i \in 1 .. Len(log[p]) :
                                  log[p][i].action # "project.deleted")
            /\ \A i \in 1 .. Len(log[p]) : log[p][i].org = row.org

\* Whoever updated or deleted a project was its owner, or was made owner or
\* admin of its organization: by creating it, by a role change on one of their
\* memberships there or by an accepted invitation.  The role may be gone by the
\* time the call writes, but there must have been one.
AuthorityExplained ==
    \A p \in Project : \A i \in 1 .. Len(log[p]) :
        LET e == log[p][i] IN
        \/ e.actor = projects[p].owner
        \/ e.actor = orgs[projects[p].org]
        \/ \E x \in audit :
              /\ x.action = "role.changed" /\ x.new \in Privileged
              /\ members[x.resource].org = projects[p].org
              /\ members[x.resource].user = e.actor
        \/ \E j \in Sent : /\ invites[j].accepted
                           /\ invites[j].org = projects[p].org
                           /\ invites[j].email = e.actor
                           /\ invites[j].role \in Privileged

Deletions(p) ==
    {i \in 1 .. Len(log[p]) : log[p][i].action = "project.deleted"}

\* A deleted project is not written about for long: only calls that had read it
\* before may still log an update or another deletion of it, so the entries
\* after the first deletion are fewer than the calls in flight at once; none,
\* if calls are handled one at a time.
FewAfterDeletion ==
    \A p \in Project : \A i \in Deletions(p) :
        Len(log[p]) - i < Cardinality(Call)

\* A call the permission lookup let in, as that of somebody who is or was a
\* member of the organization it names, learns of a project only if it is that
\* organization's: for a foreign id and for no project the answer is the same,
\* 404, whatever runs meanwhile.  (Refuse and Arrive answer before a project is
\* looked up; what they answer is not looked at here.)
ForeignIsNotFound ==
    [][\A c \in Call :
          LET q == work[c] IN
          q.project # None /\ work'[c] = Free
             /\ answer'[c] \notin {None, Status.NotFoundError}
          => /\ projects[q.project] # None /\ projects[q.project].org = q.org
             /\ \E m \in Membership : /\ members[m] # None
                                      /\ members[m].org = q.org
                                      /\ members[m].user = q.actor
      ]_allVars

\* An update that is allowed, of a project that is still there, is not answered
\* with an error (a call that is cut off has no answer).
UpdateAnswered ==
    [][\A c \in Call :
          LET q == work[c] IN
          q.op = "update" /\ q.pc = "write" /\ projects[q.project].present
             /\ work'[c] = Free
          => answer'[c] # 500]_allVars
=============================================================================
