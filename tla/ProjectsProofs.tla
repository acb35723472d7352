--------------------------- MODULE ProjectsProofs ---------------------------
(***************************************************************************)
(* Proofs about Projects, for every set of users, organizations, ids and     *)
(* names, however many calls and requests about members run at once.         *)
(***************************************************************************)
EXTENDS Projects, TenancyProofs

(* u was given the role owner or admin in o: by creating it, by a role       *)
(* change on a membership there or by an accepted invitation.                *)
Raised(o, u) ==
    \/ orgs[o] = u
    \/ \E x \in audit :
          /\ x.action = "role.changed" /\ x.new \in Privileged
          /\ members[x.resource].org = o
          /\ members[x.resource].user = u
    \/ \E j \in Sent : /\ invites[j].accepted
                       /\ invites[j].org = o
                       /\ invites[j].email = u
                       /\ invites[j].role \in Privileged

(* What a call in flight knows stays so: its caller has or had a membership, *)
(* its role was held, the project it is about to write was found in its      *)
(* organization by somebody who may change it.                               *)
CallKnows(q) ==
    IF q.pc = "free" THEN q = Free
    ELSE /\ q.op \in {"create", "get", "update", "delete"}
         /\ q.actor \in User /\ q.org \in Org /\ q.role \in Roles
         /\ Joined(q.org, q.actor)
         /\ q.role \in Privileged => Raised(q.org, q.actor)
         /\ q.op = "create" => q.project = None /\ q.name \in Name /\ q.pc = "write"
         /\ q.op # "create" => q.project \in Project
         /\ q.pc = "write" /\ q.op # "create" =>
               /\ q.op \in {"update", "delete"}
               /\ projects[q.project] # None
               /\ projects[q.project].org = q.org
               /\ q.role \in Privileged \/ projects[q.project].owner = q.actor

CallsOK ==
    \A c \in Call : /\ CallKnows(work[c])
                    /\ work[c].pc # "free" => answer[c] = None

Logs == log \in [Project -> Seq(ProjectEntry)]

IndCalls == ProjectTypeOK /\ Logs /\ CallsOK

(* What no step takes back: a project stays in its organization and its      *)
(* owner's, and its log only grows at the end.                               *)
ProjectsKept ==
    \A p \in Project :
        projects[p] # None =>
            /\ projects'[p] # None
            /\ projects'[p].org = projects[p].org
            /\ projects'[p].owner = projects[p].owner

(* The calls that have read p and are about to write it.                     *)
Writing(p) == {c \in Call : work[c].pc = "write" /\ work[c].project = p}

(* FewAfterDeletion, with the calls that may still write an entry.           *)
FewLeft ==
    \A p \in Project : \A i \in Deletions(p) :
        Len(log[p]) - i + Cardinality(Writing(p)) < Cardinality(Call)

(* AuthorityExplained, of the entries of projects that have been inserted.   *)
Authorised ==
    \A p \in Project : \A i \in 1 .. Len(log[p]) :
        \/ log[p][i].actor = projects[p].owner
        \/ Raised(projects[p].org, log[p][i].actor)

IndProjects == ProjectsAccounted /\ FewLeft /\ Authorised

-----------------------------------------------------------------------------
(* What a step of a call changes                                            *)

LEMMA NeedsDomain == DOMAIN Needs = {"create", "get", "update", "delete"}
  BY DEF Needs

LEMMA FreeKnows == Free \in CallState /\ CallKnows(Free) /\ CallKnows(Free)'
  BY DEF Free, CallState, CallKnows

\* An entry is added at the end of one project's log.
LEMMA LogGrows ==
  ASSUME Logs, NEW p \in Project, NEW e \in ProjectEntry,
         log' = [log EXCEPT ![p] = Append(@, e)]
  PROVE  /\ Logs'
         /\ \A r \in Project : r # p => log'[r] = log[r]
         /\ log[p] \in Seq(ProjectEntry) /\ Len(log[p]) \in Nat
         /\ Len(log'[p]) = Len(log[p]) + 1
         /\ \A i \in 1 .. Len(log[p]) : log'[p][i] = log[p][i]
         /\ log'[p][Len(log[p]) + 1] = e
<1>1. log[p] \in Seq(ProjectEntry)
  BY DEF Logs
<1>2. log'[p] = Append(log[p], e)
  BY DEF Logs
<1>3. Append(log[p], e) \in Seq(ProjectEntry)
  BY <1>1
<1>. QED
  BY <1>1, <1>2, <1>3 DEF Logs

LEMMA RaisedKept ==
  ASSUME Kept, AllIsolated, NEW o \in Org, NEW u \in User, Raised(o, u)
  PROVE  Raised(o, u)'
<1>1. CASE orgs[o] = u
  BY <1>1, NoneIsNoId DEF Kept, Raised
<1>2. CASE \E x \in audit : /\ x.action = "role.changed" /\ x.new \in Privileged
                            /\ members[x.resource].org = o
                            /\ members[x.resource].user = u
  <2>1. PICK x \in audit : /\ x.action = "role.changed" /\ x.new \in Privileged
                           /\ members[x.resource].org = o
                           /\ members[x.resource].user = u
    BY <1>2
  <2>2. x.resource \in Membership /\ members[x.resource] # None
    BY <2>1 DEF AllIsolated, Isolated
  <2>3. /\ x \in audit'
        /\ members'[x.resource].org = o /\ members'[x.resource].user = u
    BY <2>1, <2>2 DEF Kept
  <2>. QED
    BY <2>1, <2>3 DEF Raised
<1>3. CASE \E j \in Sent : /\ invites[j].accepted
                           /\ invites[j].org = o /\ invites[j].email = u
                           /\ invites[j].role \in Privileged
  BY <1>3 DEF Kept, Raised
<1>. QED
  BY <1>1, <1>2, <1>3 DEF Raised

LEMMA CallKnowsKept ==
  ASSUME Kept, AllIsolated, ProjectsKept, NEW q, CallKnows(q)
  PROVE  CallKnows(q)'
<1>1. CASE q.pc = "free"
  BY <1>1 DEF CallKnows
<1>2. CASE q.pc # "free"
  <2>1. Joined(q.org, q.actor)'
    BY <1>2 DEF Kept, Joined, CallKnows
  <2>2. q.role \in Privileged => Raised(q.org, q.actor)'
    BY <1>2, RaisedKept DEF CallKnows
  <2>3. q.pc = "write" /\ q.op # "create" =>
           /\ q.op \in {"update", "delete"}
           /\ projects'[q.project] # None
           /\ projects'[q.project].org = q.org
           /\ q.role \in Privileged \/ projects'[q.project].owner = q.actor
    BY <1>2 DEF CallKnows, ProjectsKept
  <2>. QED
    BY <1>2, <2>1, <2>2, <2>3 DEF CallKnows
<1>. QED
  BY <1>1, <1>2

\* One call moves on, and what the others know stays so.
LEMMA CallsStep ==
  ASSUME IndCalls, Kept, AllIsolated, ProjectsKept,
         projects' \in [Project -> ProjectRow \cup {None}], Logs',
         NEW c \in Call, NEW q \in CallState,
         work' = [work EXCEPT ![c] = q], CallKnows(q)',
         answer' \in [Call -> Answers \cup {None}],
         \A d \in Call : d # c => answer'[d] = answer[d],
         q.pc # "free" => answer'[c] = None
  PROVE  IndCalls'
<1>1. work \in [Call -> CallState]
  BY DEF IndCalls, ProjectTypeOK
<1>2. /\ work' \in [Call -> CallState]
      /\ work'[c] = q /\ \A d \in Call : d # c => work'[d] = work[d]
  BY <1>1
<1>3. \A p \in Project : \A i \in 1 .. Len(log'[p]) : log'[p][i] \in ProjectEntry
  BY DEF Logs
<1>4. ASSUME NEW d \in Call, d # c
      PROVE  \E k : /\ k = work'[d] /\ CallKnows(k)'
                    /\ k.pc # "free" => answer'[d] = None
  <2>1. PICK k : k = work[d]
    OBVIOUS
  <2>2. CallKnows(k) /\ (k.pc # "free" => answer[d] = None)
    BY <2>1 DEF IndCalls, CallsOK
  <2>3. CallKnows(k)'
    BY <2>2, CallKnowsKept
  <2>. QED
    BY <1>2, <1>4, <2>1, <2>2, <2>3
<1>5. CallsOK'
  BY <1>2, <1>4 DEF CallsOK
<1>. QED
  BY <1>2, <1>3, <1>5 DEF IndCalls, ProjectTypeOK

LEMMA StillKept == UNCHANGED vars => Kept
  BY DEF vars, Kept, Sent

LEMMA KnownAnswers == {200, 201, 204, 401, 403, 404, 422, 500} = Answers
  BY DEF Answers, Status

LEMMA ReplyStep ==
  ASSUME IndCalls, Kept, AllIsolated, ProjectsKept,
         projects' \in [Project -> ProjectRow \cup {None}], Logs',
         NEW c \in Call, NEW s \in Answers, Reply(c, s)
  PROVE  IndCalls'
<1>1. answer \in [Call -> Answers \cup {None}]
  BY DEF IndCalls, ProjectTypeOK
<1>2. /\ answer' \in [Call -> Answers \cup {None}]
      /\ \A d \in Call : d # c => answer'[d] = answer[d]
  BY <1>1 DEF Reply
<1>3. work' = [work EXCEPT ![c] = Free] /\ Free.pc = "free"
  BY DEF Reply, Free
<1>. QED
  BY <1>2, <1>3, FreeKnows, CallsStep

\* A step that writes nothing.
LEMMA Unwritten ==
  ASSUME IndCalls, UNCHANGED <<projects, log>>
  PROVE  /\ ProjectsKept /\ Logs'
         /\ projects' \in [Project -> ProjectRow \cup {None}]
  BY DEF IndCalls, ProjectTypeOK, Logs, ProjectsKept

LEMMA RefuseStep ==
  ASSUME IndCalls, AllIsolated, UNCHANGED vars, NEW c \in Call, Refuse(c)
  PROVE  IndCalls'
<1>1. PICK s \in {Refusal(path, header, user) :
                path \in Org, header \in Org \cup {None},
                user \in User \cup {None}} :
         s # None /\ Reply(c, s)
  BY DEF Refuse
<1>2. s \in Answers
  BY <1>1, KnownAnswers DEF Refusal, Status
<1>. QED
  BY <1>1, <1>2, StillKept, Unwritten, ReplyStep DEF Refuse

LEMMA ArriveStep ==
  ASSUME IndTyped, IndTables, IndCalls, UNCHANGED vars,
         NEW c \in Call, Arrive(c)
  PROVE  IndCalls'
<1>1. /\ UNCHANGED <<projects, log>> /\ Kept /\ AllIsolated
      /\ answer \in [Call -> Answers \cup {None}]
  BY StillKept DEF Arrive, IndTables, IndCalls, ProjectTypeOK
<1>2. CASE \E s \in Answers : Reply(c, s)
  BY <1>1, <1>2, Unwritten, ReplyStep
<1>3. CASE \E q \in Requests : \E m \in MembersOf(q.org, q.actor) :
             /\ work' = [work EXCEPT ![c] =
                    [q EXCEPT !.role = members[m].role,
                        !.pc = IF q.op = "create" THEN "write" ELSE "project"]]
             /\ answer' = [answer EXCEPT ![c] = None]
  <2>1. PICK q \in Requests : \E m \in MembersOf(q.org, q.actor) :
             /\ work' = [work EXCEPT ![c] =
                    [q EXCEPT !.role = members[m].role,
                        !.pc = IF q.op = "create" THEN "write" ELSE "project"]]
             /\ answer' = [answer EXCEPT ![c] = None]
    BY <1>3
  <2>2. PICK m \in MembersOf(q.org, q.actor) :
             /\ work' = [work EXCEPT ![c] =
                    [q EXCEPT !.role = members[m].role,
                        !.pc = IF q.op = "create" THEN "write" ELSE "project"]]
             /\ answer' = [answer EXCEPT ![c] = None]
    BY <2>1
  <2>0. PICK k : k = [q EXCEPT !.role = members[m].role,
                        !.pc = IF q.op = "create" THEN "write" ELSE "project"]
    OBVIOUS
  <2>3. /\ m \in Present /\ m \in Membership /\ members[m] # None
        /\ members[m].org = q.org /\ members[m].user = q.actor
        /\ members[m].role \in Roles
    BY RowTypes DEF IndTyped, MembersOf, Present, MemberRow
  <2>4. Joined(q.org, q.actor)
    BY <2>3 DEF Joined
  <2>5. members[m].role \in Privileged => Raised(q.org, q.actor)
    BY <2>3 DEF IndTables, RoleExplained, Raised, Privileged
  <2>6. /\ q \in [pc : {"free"}, op : DOMAIN Needs, actor : User, org : Org,
                  project : Project \cup {None}, name : Name \cup {None},
                  role : {None}]
        /\ (q.op = "create") = (q.project = None)
        /\ (q.op \in {"create", "update"}) = (q.name # None)
    BY DEF Requests
  <2>7. k \in CallState
    BY <2>0, <2>3, <2>6 DEF CallState
  <2>8. /\ k.op = q.op /\ k.actor = q.actor /\ k.org = q.org
        /\ k.project = q.project /\ k.name = q.name
        /\ k.role = members[m].role
        /\ k.pc = IF q.op = "create" THEN "write" ELSE "project"
    BY <2>0, <2>6
  <2>9. CallKnows(k)
    <3>1. k.pc # "free" /\ (k.op = "create" <=> k.pc = "write")
      BY <2>8
    <3>2. k.op \in {"create", "get", "update", "delete"}
      BY <2>6, <2>8, NeedsDomain
    <3>3. k.op = "create" => k.project = None /\ k.name \in Name
      BY <2>6, <2>8
    <3>4. k.op # "create" => k.project \in Project
      BY <2>6, <2>8
    <3>. QED
      BY <2>3, <2>4, <2>5, <2>6, <2>8, <3>1, <3>2, <3>3, <3>4 DEF CallKnows
  <2>10. CallKnows(k)'
    BY <1>1, <2>9, Unwritten, CallKnowsKept
  <2>11. work' = [work EXCEPT ![c] = k]
    BY <2>0, <2>2
  <2>12. /\ answer' \in [Call -> Answers \cup {None}]
         /\ \A d \in Call : d # c => answer'[d] = answer[d]
         /\ answer'[c] = None
    BY <1>1, <2>2
  <2>. QED
    BY <1>1, <2>7, <2>10, <2>11, <2>12, Unwritten, CallsStep
<1>4. /\ Status.NotFoundError \in Answers /\ Status.ForbiddenError \in Answers
  BY KnownAnswers DEF Status
<1>. QED
  BY <1>2, <1>3, <1>4 DEF Arrive

LEMMA GetProjectStep ==
  ASSUME IndTables, IndCalls, UNCHANGED vars, NEW c \in Call, GetProject(c)
  PROVE  IndCalls'
<1>1. /\ UNCHANGED <<projects, log>> /\ Kept /\ AllIsolated
      /\ CallKnows(work[c]) /\ work[c].pc = "project" /\ answer[c] = None
      /\ work[c] \in CallState
      /\ answer \in [Call -> Answers \cup {None}]
  BY StillKept DEF GetProject, IndTables, IndCalls, CallsOK, ProjectTypeOK
<1>2. CASE \E s \in Answers : Reply(c, s)
  BY <1>1, <1>2, Unwritten, ReplyStep
<1>3. CASE LET q == work[c] IN
           /\ Found(q.project, q.org) /\ q.op # "get" /\ MayChange(q)
           /\ work' = [work EXCEPT ![c].pc = "write", ![c].name = NetChange(q)]
           /\ UNCHANGED answer
  <2> DEFINE q == work[c]
  <2>0. PICK k : k = [q EXCEPT !.pc = "write", !.name = NetChange(q)]
    OBVIOUS
  <2>1. NetChange(q) \in Name \cup {None}
    BY <1>1 DEF NetChange, CallState
  <2>2. /\ k \in CallState
        /\ k.op = q.op /\ k.actor = q.actor /\ k.org = q.org
        /\ k.project = q.project /\ k.role = q.role /\ k.pc = "write"
    BY <1>1, <2>0, <2>1 DEF CallState
  <2>3. work' = [work EXCEPT ![c] = k]
    BY <1>3, <2>0
  <2>4. /\ q.op \in {"update", "delete"} /\ q.project \in Project
        /\ q.actor \in User /\ q.org \in Org /\ q.role \in Roles
        /\ Joined(q.org, q.actor)
        /\ q.role \in Privileged => Raised(q.org, q.actor)
    BY <1>1, <1>3 DEF CallKnows
  <2>5. /\ projects[q.project] # None /\ projects[q.project].org = q.org
        /\ q.role \in Privileged \/ projects[q.project].owner = q.actor
    BY <1>3 DEF Found, MayChange
  <2>6. CallKnows(k)
    BY <2>2, <2>4, <2>5 DEF CallKnows
  <2>7. CallKnows(k)'
    BY <1>1, <2>6, Unwritten, CallKnowsKept
  <2>8. /\ answer' \in [Call -> Answers \cup {None}]
        /\ \A d \in Call : d # c => answer'[d] = answer[d]
        /\ answer'[c] = None
    BY <1>1, <1>3
  <2>. QED
    BY <1>1, <2>2, <2>3, <2>7, <2>8, Unwritten, CallsStep
<1>4. /\ Status.NotFoundError \in Answers /\ Status.ForbiddenError \in Answers
      /\ 200 \in Answers
  BY KnownAnswers DEF Status
<1>. QED
  BY <1>2, <1>3, <1>4 DEF GetProject

LEMMA AbortStep ==
  ASSUME IndCalls, AllIsolated, UNCHANGED vars, NEW c \in Call, Abort(c)
  PROVE  IndCalls'
<1>1. /\ UNCHANGED <<projects, log>> /\ Kept
      /\ answer' = answer /\ answer \in [Call -> Answers \cup {None}]
      /\ work' = [work EXCEPT ![c] = Free] /\ Free.pc = "free"
  BY StillKept DEF Abort, IndCalls, ProjectTypeOK, Free
<1>. QED
  BY <1>1, FreeKnows, Unwritten, CallsStep

\* The entry of a call.
By(action, q) == [action |-> action, actor |-> q.actor, org |-> q.org]

Adds(p, e) == log' = [log EXCEPT ![p] = Append(@, e)]

LEMMA CreateProjectEffect ==
  ASSUME IndCalls, NEW c \in Call, NEW p \in Project, CreateProject(c, p)
  PROVE  /\ work[c].pc = "write" /\ work[c].project = None
         /\ projects[p] = None
         /\ projects' \in [Project -> ProjectRow \cup {None}]
         /\ projects'[p] # None
         /\ projects'[p].org = work[c].org
         /\ projects'[p].owner = work[c].actor
         /\ projects'[p].present
         /\ \A r \in Project : r # p => projects'[r] = projects[r]
         /\ By("project.created", work[c]) \in ProjectEntry
         /\ Adds(p, By("project.created", work[c]))
         /\ ProjectsKept /\ Logs'
         /\ Reply(c, 201)
<1> DEFINE q == work[c]
           row == [org |-> q.org, owner |-> q.actor, name |-> q.name,
                   present |-> TRUE]
<1>1. /\ CallKnows(q) /\ Logs
      /\ projects \in [Project -> ProjectRow \cup {None}]
  BY DEF IndCalls, CallsOK, ProjectTypeOK
<1>2. /\ q.pc = "write" /\ q.op = "create" /\ projects[p] = None
      /\ projects' = [projects EXCEPT ![p] = row]
      /\ Adds(p, By("project.created", q))
      /\ Reply(c, 201)
  BY DEF CreateProject, Logged, Adds, By
<1>3. /\ q.actor \in User /\ q.org \in Org /\ q.name \in Name /\ q.project = None
  BY <1>1, <1>2 DEF CallKnows
<1>4. row \in ProjectRow
  BY <1>3 DEF ProjectRow
<1>5. /\ row # None /\ row.org = q.org /\ row.owner = q.actor /\ row.present
  BY <1>4, NoneIsNoProjectRow
<1>6. By("project.created", q) \in ProjectEntry
  BY <1>3 DEF ProjectEntry, By
<1> HIDE DEF row, q
<1>7. \A r \in Project : projects'[r] = IF r = p THEN row ELSE projects[r]
  BY <1>1, <1>2
<1>8. projects' \in [Project -> ProjectRow \cup {None}]
  BY <1>1, <1>2, <1>4
<1>9. ProjectsKept
  BY <1>2, <1>7 DEF ProjectsKept
<1>10. Logs'
  BY <1>1, <1>2, <1>6, LogGrows DEF Adds
<1>. QED
  BY <1>2, <1>3, <1>5, <1>6, <1>7, <1>8, <1>9, <1>10 DEF q

LEMMA UpdateEffect ==
  ASSUME IndCalls, NEW c \in Call, UpdateProject(c)
  PROVE  /\ work[c].pc = "write" /\ work[c].op = "update"
         /\ work[c].project \in Project
         /\ By("project.updated", work[c]) \in ProjectEntry
         /\ UNCHANGED projects /\ ProjectsKept /\ Logs'
         /\ \/ UNCHANGED log /\ Reply(c, 500)
            \/ /\ Adds(work[c].project, By("project.updated", work[c]))
               /\ Reply(c, 200)
<1>1. CallKnows(work[c]) /\ Logs
  BY DEF IndCalls, CallsOK
<1>2. /\ work[c].pc = "write" /\ work[c].op = "update" /\ UNCHANGED projects
      /\ \/ UNCHANGED log /\ Reply(c, 500)
         \/ /\ Adds(work[c].project, By("project.updated", work[c]))
            /\ Reply(c, 200)
  BY DEF UpdateProject, Logged, Adds, By
<1>3. /\ work[c].project \in Project
      /\ work[c].actor \in User /\ work[c].org \in Org
  BY <1>1, <1>2 DEF CallKnows
<1>4. By("project.updated", work[c]) \in ProjectEntry
  BY <1>3 DEF ProjectEntry, By
<1>5. Logs'
  BY <1>1, <1>2, <1>3, <1>4, LogGrows DEF Adds, Logs
<1>. QED
  BY <1>2, <1>3, <1>4, <1>5 DEF ProjectsKept

LEMMA DeleteEffect ==
  ASSUME IndCalls, NEW c \in Call, DeleteProject(c)
  PROVE  LET p == work[c].project IN
         /\ work[c].pc = "write" /\ work[c].op = "delete"
         /\ p \in Project
         /\ projects[p] # None
         /\ projects' \in [Project -> ProjectRow \cup {None}]
         /\ projects'[p] # None
         /\ projects'[p].org = projects[p].org
         /\ projects'[p].owner = projects[p].owner
         /\ ~projects'[p].present
         /\ \A r \in Project : r # p => projects'[r] = projects[r]
         /\ By("project.deleted", work[c]) \in ProjectEntry
         /\ Adds(p, By("project.deleted", work[c]))
         /\ ProjectsKept /\ Logs'
         /\ Reply(c, 204)
<1> DEFINE q == work[c]
           p == q.project
           row == [projects[p] EXCEPT !.present = FALSE]
<1>1. /\ CallKnows(q) /\ Logs
      /\ projects \in [Project -> ProjectRow \cup {None}]
  BY DEF IndCalls, CallsOK, ProjectTypeOK
<1>2. /\ q.pc = "write" /\ q.op = "delete"
      /\ projects' = [projects EXCEPT ![p] = row]
      /\ Adds(p, By("project.deleted", q))
      /\ Reply(c, 204)
  BY DEF DeleteProject, Logged, Adds, By
<1>3. /\ p \in Project /\ q.actor \in User /\ q.org \in Org
      /\ projects[p] # None
  BY <1>1, <1>2 DEF CallKnows
<1>4. projects[p] \in ProjectRow
  BY <1>1, <1>3
<1>5. /\ row \in ProjectRow
      /\ row.org = projects[p].org /\ row.owner = projects[p].owner
      /\ ~row.present
  BY <1>4 DEF ProjectRow
<1>6. row # None
  BY <1>5, NoneIsNoProjectRow
<1>7. By("project.deleted", q) \in ProjectEntry
  BY <1>3 DEF ProjectEntry, By
<1>8. p = work[c].project
  OBVIOUS
<1> HIDE DEF row, p
<1>9. \A r \in Project : projects'[r] = IF r = p THEN row ELSE projects[r]
  BY <1>1, <1>2
<1>10. projects' \in [Project -> ProjectRow \cup {None}]
  BY <1>1, <1>2, <1>5
<1>11. ProjectsKept
  BY <1>3, <1>5, <1>6, <1>9 DEF ProjectsKept
<1>12. Logs'
  BY <1>1, <1>2, <1>3, <1>7, LogGrows DEF Adds
<1>. QED
  BY <1>2, <1>3, <1>5, <1>6, <1>7, <1>8, <1>9, <1>10, <1>11, <1>12

LEMMA WriteStep ==
  ASSUME IndCalls, AllIsolated, UNCHANGED vars, NEW c \in Call,
         \/ \E p \in Project : CreateProject(c, p)
         \/ UpdateProject(c) \/ DeleteProject(c)
  PROVE  IndCalls' /\ ProjectsKept
<1>1. Kept /\ {200, 201, 204, 500} \subseteq Answers
  BY StillKept, KnownAnswers
<1>2. ASSUME NEW p \in Project, CreateProject(c, p) PROVE IndCalls' /\ ProjectsKept
  BY <1>1, <1>2, CreateProjectEffect, ReplyStep
<1>3. CASE UpdateProject(c)
  <2>1. projects' \in [Project -> ProjectRow \cup {None}]
    BY <1>3, UpdateEffect DEF IndCalls, ProjectTypeOK
  <2>. QED
    BY <1>1, <1>3, <2>1, UpdateEffect, ReplyStep
<1>4. CASE DeleteProject(c)
  BY <1>1, <1>4, DeleteEffect, ReplyStep
<1>. QED
  BY <1>2, <1>3, <1>4

\* A step of Tenancy: what the calls know of the members stays so.
LEMMA MembersStep ==
  ASSUME IndTyped, IndTables, IndCalls, [Next]_vars, UNCHANGED projectVars
  PROVE  IndCalls'
<1>1. Kept /\ AllIsolated
  BY AlwaysKept DEF IndTables
<1>2. UNCHANGED <<projects, log, work, answer>>
  BY DEF projectVars
<1>3. ProjectsKept /\ ProjectTypeOK' /\ Logs'
  BY <1>2, Unwritten DEF IndCalls, ProjectTypeOK
<1>4. ASSUME NEW d \in Call
      PROVE  \E k : /\ k = work'[d] /\ CallKnows(k)'
                    /\ k.pc # "free" => answer'[d] = None
  <2>1. PICK k : k = work[d]
    OBVIOUS
  <2>2. CallKnows(k) /\ (k.pc # "free" => answer[d] = None)
    BY <2>1 DEF IndCalls, CallsOK
  <2>3. CallKnows(k)'
    BY <1>1, <1>3, <2>2, CallKnowsKept
  <2>. QED
    BY <1>2, <2>1, <2>2, <2>3
<1>5. CallsOK'
  BY <1>4 DEF CallsOK
<1>. QED
  BY <1>3, <1>5 DEF IndCalls

LEMMA CallsInductive ==
  IndTyped /\ IndTables /\ IndCalls /\ [ProjectNext]_allVars => IndCalls'
<1> SUFFICES ASSUME IndTyped, IndTables, IndCalls, [ProjectNext]_allVars
             PROVE  IndCalls'
  OBVIOUS
<1>1. AllIsolated
  BY DEF IndTables
<1>2. ASSUME NEW c \in Call, HandleCall(c), UNCHANGED vars PROVE IndCalls'
  BY <1>1, <1>2, RefuseStep, ArriveStep, GetProjectStep, WriteStep, AbortStep
  DEF HandleCall
<1>3. CASE [Next]_vars /\ UNCHANGED projectVars
  BY <1>3, MembersStep
<1>. QED
  BY <1>2, <1>3 DEF ProjectNext, allVars

-----------------------------------------------------------------------------
(* Tenancy goes on as before                                                *)

LEMMA TenancyGoesOn == [ProjectNext]_allVars => [Next]_vars
  BY DEF ProjectNext, allVars

\* Types, and what a call in flight knows of its caller, role and project, while
\* requests about members go on beside it.
THEOREM CallsInvariant == ProjectSpec => [](IndTyped /\ IndTables /\ IndCalls)
<1>1. ProjectInit => IndTyped /\ IndTables
  BY InitTyped, InitTables DEF ProjectInit
<1>2. ProjectInit => IndCalls
  <2> SUFFICES ASSUME ProjectInit PROVE IndCalls
    OBVIOUS
  <2>1. /\ projects = [p \in Project |-> None] /\ log = [p \in Project |-> <<>>]
        /\ work = [c \in Call |-> Free] /\ answer = [c \in Call |-> None]
    BY DEF ProjectInit
  <2>2. Logs
    BY <2>1 DEF Logs
  <2>3. CallsOK
    BY <2>1, FreeKnows DEF CallsOK, Free
  <2>4. ProjectTypeOK
    BY <2>1, <2>2, FreeKnows DEF ProjectTypeOK, Logs
  <2>. QED
    BY <2>2, <2>3, <2>4 DEF IndCalls
<1>3. IndTyped /\ IndTables /\ IndCalls /\ [ProjectNext]_allVars
        => (IndTyped /\ IndTables /\ IndCalls)'
  BY TenancyGoesOn, TypedInductive, TablesInductive, CallsInductive
<1>. QED
  BY <1>1, <1>2, <1>3, PTL DEF ProjectSpec

\* The table of projects, its log and the calls in flight keep their types
\* while members, their roles and the invitations change beside them.
THEOREM ProjectTypeCorrect == ProjectSpec => []ProjectTypeOK
<1>1. IndCalls => ProjectTypeOK
  BY DEF IndCalls
<1>. QED
  BY <1>1, CallsInvariant, PTL

-----------------------------------------------------------------------------
(* The table and its log                                                    *)

\* A step that changes the table or its log is one of these.
LEMMA WhatCallsWrite ==
  ASSUME [ProjectNext]_allVars
  PROVE  \/ UNCHANGED <<projects, log>>
         \/ /\ UNCHANGED vars
            /\ \E c \in Call : \/ \E p \in Project : CreateProject(c, p)
                               \/ UpdateProject(c) \/ DeleteProject(c)
<1>1. ASSUME NEW c \in Call, Refuse(c) \/ Arrive(c) \/ GetProject(c) \/ Abort(c)
      PROVE  UNCHANGED <<projects, log>>
  <2>1. CASE Refuse(c) \/ Abort(c)
    BY <2>1 DEF Refuse, Abort
  <2>2. CASE Arrive(c)
    BY <2>2, Zenon DEF Arrive
  <2>3. CASE GetProject(c)
    BY <2>3, Zenon DEF GetProject
  <2>. QED
    BY <1>1, <2>1, <2>2, <2>3
<1>2. UNCHANGED projectVars => UNCHANGED <<projects, log>>
  BY DEF projectVars
<1>. QED
  BY <1>1, <1>2 DEF ProjectNext, allVars, HandleCall

\* ProjectsAccounted, of one project.
Accounted(p) ==
    LET row == projects[p] IN
    /\ (row = None) = (log[p] = <<>>)
    /\ row # None =>
        /\ log[p][1] = [action |-> "project.created", actor |-> row.owner,
                        org |-> row.org]
        /\ row.present = (\A i \in 1 .. Len(log[p]) :
                              log[p][i].action # "project.deleted")
        /\ \A i \in 1 .. Len(log[p]) : log[p][i].org = row.org

LEMMA AccountedMeans ==
  /\ ProjectsAccounted <=> \A p \in Project : Accounted(p)
  /\ ProjectsAccounted' <=> \A p \in Project : Accounted(p)'
<1>1. ProjectsAccounted <=> \A p \in Project : Accounted(p)
  BY Zenon DEF ProjectsAccounted, Accounted
<1>2. ProjectsAccounted' <=> \A p \in Project : Accounted(p)'
  BY Zenon DEF ProjectsAccounted, Accounted
<1>. QED
  BY <1>1, <1>2

LEMMA SameAccounted ==
  ASSUME NEW p \in Project, Accounted(p), projects'[p] = projects[p],
         log'[p] = log[p]
  PROVE  Accounted(p)'
  BY DEF Accounted

LEMMA AccountedStep ==
  ASSUME IndCalls, ProjectsAccounted, [ProjectNext]_allVars
  PROVE  ProjectsAccounted'
<1>1. SUFFICES ASSUME NEW p \in Project PROVE Accounted(p)'
  BY AccountedMeans
<1>2. Accounted(p) /\ Logs /\ log[p] \in Seq(ProjectEntry) /\ Len(log[p]) \in Nat
  BY AccountedMeans DEF IndCalls, Logs
<1>3. ASSUME NEW c \in Call, NEW r \in Project, CreateProject(c, r)
      PROVE  Accounted(p)'
  <2>1. CASE p = r
    <3> DEFINE e == By("project.created", work[c])
    <3>1. /\ Len(log'[p]) = Len(log[p]) + 1
          /\ log'[p][Len(log[p]) + 1] = e
      BY <1>2, <1>3, <2>1, CreateProjectEffect, LogGrows DEF Adds
    <3>2. log[p] = <<>>
      BY <1>2, <1>3, <2>1, CreateProjectEffect DEF Accounted
    <3>3. Len(log'[p]) = 1 /\ log'[p][1] = e
      BY <3>1, <3>2
    <3>4. /\ projects'[p] # None /\ projects'[p].present
          /\ projects'[p].org = work[c].org
          /\ projects'[p].owner = work[c].actor
      BY <1>3, <2>1, CreateProjectEffect
    <3>5. log'[p] # <<>>
      BY <3>3
    <3>6. \A i \in 1 .. Len(log'[p]) : i = 1
      BY <3>3
    <3>7. e.action = "project.created" /\ e.org = work[c].org
      BY DEF By
    <3>8. log'[p][1] = [action |-> "project.created",
                        actor |-> projects'[p].owner, org |-> projects'[p].org]
      BY <3>3, <3>4 DEF By
    <3>. QED
      BY <3>3, <3>4, <3>5, <3>6, <3>7, <3>8 DEF Accounted
  <2>2. CASE p # r
    <3>1. projects'[p] = projects[p] /\ log'[p] = log[p]
      BY <1>2, <1>3, <2>2, CreateProjectEffect, LogGrows DEF Adds
    <3>. QED
      BY <1>2, <3>1, SameAccounted
  <2>. QED
    BY <2>1, <2>2
<1>4. ASSUME NEW c \in Call, NEW e \in ProjectEntry, Adds(work[c].project, e),
             work[c].project \in Project, CallKnows(work[c]),
             work[c].pc = "write", work[c].op \in {"update", "delete"},
             \/ e = By("project.updated", work[c]) /\ UNCHANGED projects
             \/ e = By("project.deleted", work[c]) /\ DeleteProject(c)
      PROVE  Accounted(p)'
  <2>1. CASE p # work[c].project
    <3>1. log'[p] = log[p]
      BY <1>2, <1>4, <2>1, LogGrows DEF Adds
    <3>2. projects'[p] = projects[p]
      BY <1>4, <2>1, DeleteEffect
    <3>. QED
      BY <1>2, <3>1, <3>2, SameAccounted
  <2>2. CASE p = work[c].project
    <3>1. /\ Len(log'[p]) = Len(log[p]) + 1
          /\ \A i \in 1 .. Len(log[p]) : log'[p][i] = log[p][i]
          /\ log'[p][Len(log[p]) + 1] = e
      BY <1>2, <1>4, <2>2, LogGrows DEF Adds
    <3>2. projects[p] # None /\ projects[p].org = work[c].org
      BY <1>4, <2>2 DEF CallKnows
    <3>3. log[p] # <<>> /\ Len(log[p]) >= 1
      BY <1>2, <3>2 DEF Accounted
    <3>4. /\ projects'[p] # None /\ projects'[p].org = projects[p].org
          /\ projects'[p].owner = projects[p].owner
      BY <1>4, <2>2, <3>2, DeleteEffect
    <3>5. log'[p] # <<>> /\ log'[p][1] = log[p][1]
      BY <1>2, <3>1, <3>3
    <3>6. \A i \in 1 .. Len(log'[p]) : i \in 1 .. Len(log[p]) \/ i = Len(log[p]) + 1
      BY <1>2, <3>1
    <3>7. /\ Len(log[p]) + 1 \in 1 .. Len(log'[p])
          /\ 1 .. Len(log[p]) \subseteq 1 .. Len(log'[p])
      BY <1>2, <3>1
    <3>8. e.org = work[c].org
      BY <1>4 DEF By
    <3>9. \A i \in 1 .. Len(log'[p]) : log'[p][i].org = projects'[p].org
      BY <1>2, <3>1, <3>2, <3>4, <3>6, <3>8 DEF Accounted
    <3>10. projects'[p].present = (\A i \in 1 .. Len(log'[p]) :
                                     log'[p][i].action # "project.deleted")
      <4>1. CASE e = By("project.updated", work[c]) /\ UNCHANGED projects
        <5>1. e.action # "project.deleted"
          BY <4>1 DEF By
        <5>2. (\A i \in 1 .. Len(log'[p]) : log'[p][i].action # "project.deleted")
              <=> (\A i \in 1 .. Len(log[p]) : log[p][i].action # "project.deleted")
          BY <3>1, <3>6, <3>7, <5>1
        <5>3. projects[p].present = (\A i \in 1 .. Len(log[p]) :
                                       log[p][i].action # "project.deleted")
          BY <1>2, <3>2 DEF Accounted
        <5>. QED
          BY <4>1, <5>2, <5>3
      <4>2. CASE e = By("project.deleted", work[c]) /\ DeleteProject(c)
        <5>1. e.action = "project.deleted"
          BY <4>2 DEF By
        <5>2. projects' \in [Project -> ProjectRow \cup {None}]
              /\ ~projects'[p].present
          BY <2>2, <4>2, DeleteEffect
        <5>3. projects'[p].present = FALSE
          BY <3>4, <5>2 DEF ProjectRow
        <5>. QED
          BY <3>1, <3>7, <5>1, <5>3
      <4>. QED
        BY <1>4, <4>1, <4>2
    <3>11. log'[p][1] = [action |-> "project.created",
                         actor |-> projects'[p].owner, org |-> projects'[p].org]
      BY <1>2, <3>2, <3>4, <3>5 DEF Accounted
    <3>. QED
      BY <3>4, <3>5, <3>9, <3>10, <3>11 DEF Accounted
  <2>. QED
    BY <2>1, <2>2
<1>5. ASSUME NEW c \in Call PROVE CallKnows(work[c])
  BY DEF IndCalls, CallsOK
<1>6. ASSUME NEW c \in Call, UpdateProject(c) PROVE Accounted(p)'
  <2>1. UNCHANGED <<projects, log>> => Accounted(p)'
    BY <1>2, SameAccounted
  <2>2. CASE Adds(work[c].project, By("project.updated", work[c]))
    BY <1>4, <1>5, <1>6, <2>2, UpdateEffect
  <2>. QED
    BY <1>6, <2>1, <2>2, UpdateEffect
<1>7. ASSUME NEW c \in Call, DeleteProject(c) PROVE Accounted(p)'
  BY <1>4, <1>5, <1>7, DeleteEffect
<1>. QED
  BY <1>2, <1>3, <1>6, <1>7, SameAccounted, WhatCallsWrite

\* A log grows by one entry at a time, of a call that ends with it.
LEMMA OneEntry ==
  ASSUME IndCalls, [ProjectNext]_allVars, NEW p \in Project
  PROVE  \/ log'[p] = log[p]
         \/ \E c \in Call : LET e == log'[p][Len(log[p]) + 1] IN
               /\ UNCHANGED vars
               /\ Len(log'[p]) = Len(log[p]) + 1
               /\ \A i \in 1 .. Len(log[p]) : log'[p][i] = log[p][i]
               /\ work[c].pc = "write"
               /\ work' = [work EXCEPT ![c] = Free]
               /\ e.actor = work[c].actor
               /\ \/ /\ e.action = "project.created" /\ projects[p] = None
                     /\ projects'[p].owner = work[c].actor
                  \/ work[c].project = p /\ work[c].op \in {"update", "delete"}
<1>1. Logs
  BY DEF IndCalls
<1>2. ASSUME NEW c \in Call, NEW q \in Project, NEW action,
             By(action, work[c]) \in ProjectEntry,
             Adds(q, By(action, work[c])), log'[p] # log[p]
      PROVE  /\ p = q
             /\ Len(log'[p]) = Len(log[p]) + 1
             /\ \A i \in 1 .. Len(log[p]) : log'[p][i] = log[p][i]
             /\ log'[p][Len(log[p]) + 1].action = action
             /\ log'[p][Len(log[p]) + 1].actor = work[c].actor
  <2>1. p = q
    BY <1>1, <1>2, LogGrows DEF Adds
  <2>2. /\ Len(log'[p]) = Len(log[p]) + 1
        /\ \A i \in 1 .. Len(log[p]) : log'[p][i] = log[p][i]
        /\ log'[p][Len(log[p]) + 1] = By(action, work[c])
    BY <1>1, <1>2, <2>1, LogGrows DEF Adds
  <2>. QED
    BY <2>1, <2>2 DEF By
<1>3. CASE UNCHANGED log
  BY <1>3
<1>4. ASSUME NEW c \in Call, NEW q \in Project, CreateProject(c, q), UNCHANGED vars,
             log'[p] # log[p]
      PROVE  LET e == log'[p][Len(log[p]) + 1] IN
               /\ Len(log'[p]) = Len(log[p]) + 1
               /\ \A i \in 1 .. Len(log[p]) : log'[p][i] = log[p][i]
               /\ work[c].pc = "write"
               /\ work' = [work EXCEPT ![c] = Free]
               /\ e.actor = work[c].actor
               /\ e.action = "project.created" /\ projects[p] = None
               /\ projects'[p].owner = work[c].actor
  <2>1. work' = [work EXCEPT ![c] = Free]
    BY <1>4, CreateProjectEffect DEF Reply
  <2>2. /\ By("project.created", work[c]) \in ProjectEntry
        /\ Adds(q, By("project.created", work[c]))
        /\ work[c].pc = "write" /\ projects[q] = None
        /\ projects'[q].owner = work[c].actor
    BY <1>4, CreateProjectEffect
  <2>. QED
    BY <1>2, <1>4, <2>1, <2>2
<1>5. ASSUME NEW c \in Call, UpdateProject(c) \/ DeleteProject(c), UNCHANGED vars,
             log'[p] # log[p]
      PROVE  LET e == log'[p][Len(log[p]) + 1] IN
               /\ Len(log'[p]) = Len(log[p]) + 1
               /\ \A i \in 1 .. Len(log[p]) : log'[p][i] = log[p][i]
               /\ work[c].pc = "write"
               /\ work' = [work EXCEPT ![c] = Free]
               /\ e.actor = work[c].actor
               /\ work[c].project = p /\ work[c].op \in {"update", "delete"}
  <2>1. work' = [work EXCEPT ![c] = Free]
    BY <1>5, UpdateEffect, DeleteEffect DEF Reply
  <2>2. CASE UpdateProject(c)
    BY <1>2, <1>5, <2>1, <2>2, UpdateEffect
  <2>3. CASE DeleteProject(c)
    BY <1>2, <1>5, <2>1, <2>3, DeleteEffect
  <2>. QED
    BY <1>5, <2>2, <2>3
<1>6. CASE log'[p] # log[p]
  <2>1. PICK c \in Call : \/ \E q \in Project : CreateProject(c, q)
                          \/ UpdateProject(c) \/ DeleteProject(c)
    BY <1>6, WhatCallsWrite
  <2>2. UNCHANGED vars
    BY <1>6, WhatCallsWrite
  <2>. QED
    BY <1>4, <1>5, <1>6, <2>1, <2>2
<1>. QED
  BY <1>6

LEMMA ProjectsAlwaysKept ==
  ASSUME IndCalls, [ProjectNext]_allVars PROVE ProjectsKept
<1>1. UNCHANGED projects => ProjectsKept
  BY DEF ProjectsKept
<1>. QED
  BY <1>1, WhatCallsWrite, CreateProjectEffect, UpdateEffect, DeleteEffect

LEMMA AuthorisedStep ==
  ASSUME IndTyped, IndTables, IndCalls, ProjectsAccounted, Authorised,
         [ProjectNext]_allVars
  PROVE  Authorised'
<1>1. Kept /\ AllIsolated /\ ProjectsKept /\ Logs /\ Logs'
  BY TenancyGoesOn, AlwaysKept, ProjectsAlwaysKept, CallsInductive
  DEF IndTables, IndCalls
<1>2. SUFFICES ASSUME NEW p \in Project, NEW i \in 1 .. Len(log'[p])
               PROVE  \/ log'[p][i].actor = projects'[p].owner
                      \/ Raised(projects[p].org, log[p][i].actor)'
  BY DEF Authorised
<1>3. log[p] \in Seq(ProjectEntry) /\ Len(log[p]) \in Nat
  BY <1>1 DEF Logs
<1>4. ASSUME i \in 1 .. Len(log[p]), log'[p][i] = log[p][i]
      PROVE  \/ log'[p][i].actor = projects'[p].owner
             \/ Raised(projects[p].org, log[p][i].actor)'
  <2>1. projects[p] # None
    <3>1. log[p] # <<>>
      BY <1>3, <1>4
    <3>. QED
      BY <3>1 DEF ProjectsAccounted
  <2>2. projects'[p].org = projects[p].org /\ projects'[p].owner = projects[p].owner
    BY <1>1, <2>1 DEF ProjectsKept
  <2>3. PICK u \in User : u = log[p][i].actor
    <3>1. log[p][i] \in ProjectEntry
      BY <1>3, <1>4
    <3>. QED
      BY <3>1 DEF ProjectEntry
  <2>4. PICK o \in Org : o = projects[p].org
    BY <2>1 DEF IndCalls, ProjectTypeOK, ProjectRow
  <2>5. CASE u = projects[p].owner
    BY <1>4, <2>2, <2>3, <2>5
  <2>6. CASE Raised(o, u)
    <3>1. Raised(o, u)'
      BY <1>1, <2>6, RaisedKept
    <3>. QED
      BY <1>4, <2>2, <2>3, <2>4, <3>1 DEF Raised
  <2>. QED
    BY <1>4, <2>3, <2>4, <2>5, <2>6 DEF Authorised
<1>5. ASSUME NEW c \in Call, UNCHANGED vars, i = Len(log[p]) + 1,
             log'[p][i].actor = work[c].actor,
             work[c].pc = "write",
             \/ projects'[p].owner = work[c].actor
             \/ work[c].project = p /\ work[c].op \in {"update", "delete"}
      PROVE  \/ log'[p][i].actor = projects'[p].owner
             \/ Raised(projects[p].org, log[p][i].actor)'
  <2>1. CASE projects'[p].owner = work[c].actor
    BY <1>5, <2>1
  <2>2. CASE work[c].project = p /\ work[c].op \in {"update", "delete"}
    <3>1. PICK o \in Org, u \in User : o = work[c].org /\ u = work[c].actor
      BY <1>5, <2>2 DEF IndCalls, CallsOK, CallKnows
    <3>2. /\ projects[p] # None /\ projects[p].org = o
          /\ Raised(o, u) \/ projects[p].owner = u
      BY <1>5, <2>2, <3>1 DEF IndCalls, CallsOK, CallKnows
    <3>3. projects'[p].org = o /\ projects'[p].owner = projects[p].owner
      BY <1>1, <3>2 DEF ProjectsKept
    <3>4. Raised(o, u) => Raised(o, u)'
      BY <1>1, RaisedKept
    <3>. QED
      BY <1>5, <3>1, <3>2, <3>3, <3>4 DEF Raised
  <2>. QED
    BY <1>5, <2>1, <2>2
<1>6. CASE log'[p] = log[p]
  BY <1>2, <1>4, <1>6
<1>7. CASE log'[p] # log[p]
  <2>1. PICK c \in Call : LET e == log'[p][Len(log[p]) + 1] IN
               /\ UNCHANGED vars
               /\ Len(log'[p]) = Len(log[p]) + 1
               /\ \A j \in 1 .. Len(log[p]) : log'[p][j] = log[p][j]
               /\ work[c].pc = "write"
               /\ e.actor = work[c].actor
               /\ \/ projects'[p].owner = work[c].actor
                  \/ work[c].project = p /\ work[c].op \in {"update", "delete"}
    BY <1>7, OneEntry
  <2>2. i \in 1 .. Len(log[p]) \/ i = Len(log[p]) + 1
    BY <1>2, <1>3, <2>1
  <2>. QED
    BY <1>4, <1>5, <2>1, <2>2
<1>. QED
  BY <1>6, <1>7

\* A call is about to write only a project that it found.
LEMMA WritingStep ==
  ASSUME IndCalls, [ProjectNext]_allVars, NEW p \in Project
  PROVE  \/ Writing(p)' \subseteq Writing(p)
         \/ projects[p] # None /\ projects[p].present
<1>1. work \in [Call -> CallState] /\ Free.pc = "free" /\ p # None
  BY NoneIsNoProject DEF IndCalls, ProjectTypeOK, Free
<1>2. UNCHANGED work => Writing(p)' \subseteq Writing(p)
  BY DEF Writing
<1>3. ASSUME NEW c \in Call, NEW k, work' = [work EXCEPT ![c] = k],
             k.pc = "write" => k.project # p
      PROVE  Writing(p)' \subseteq Writing(p)
  BY <1>1, <1>3 DEF Writing
<1>4. ASSUME NEW c \in Call, work' = [work EXCEPT ![c] = Free]
      PROVE  Writing(p)' \subseteq Writing(p)
  BY <1>1, <1>3, <1>4
<1>5. ASSUME NEW c \in Call, Refuse(c) \/ Abort(c)
      PROVE  Writing(p)' \subseteq Writing(p)
  BY <1>4, <1>5 DEF Refuse, Abort, Reply
<1>6. ASSUME NEW c \in Call, Arrive(c) PROVE Writing(p)' \subseteq Writing(p)
  <2>1. ASSUME NEW q \in Requests, NEW role,
               work' = [work EXCEPT ![c] =
                   [q EXCEPT !.role = role,
                       !.pc = IF q.op = "create" THEN "write" ELSE "project"]]
        PROVE  Writing(p)' \subseteq Writing(p)
    <3> DEFINE k == [q EXCEPT !.role = role,
                       !.pc = IF q.op = "create" THEN "write" ELSE "project"]
    <3>1. q.op = "create" => q.project = None
      BY DEF Requests
    <3>2. q \in [pc : {"free"}, op : DOMAIN Needs, actor : User, org : Org,
                project : Project \cup {None}, name : Name \cup {None},
                role : {None}]
      BY DEF Requests
    <3>3. k.pc = "write" => k.project # p
      BY <1>1, <3>1, <3>2
    <3>4. work' = [work EXCEPT ![c] = k]
      BY <2>1
    <3> HIDE DEF k
    <3>. QED
      BY <1>3, <3>3, <3>4
  <2>2. PICK q \in Requests :
          \/ \E s : Reply(c, s)
          \/ \E m \in MembersOf(q.org, q.actor) :
                \/ \E s : Reply(c, s)
                \/ work' = [work EXCEPT ![c] =
                      [q EXCEPT !.role = members[m].role,
                          !.pc = IF q.op = "create" THEN "write" ELSE "project"]]
    BY <1>6 DEF Arrive
  <2>. QED
    BY <1>4, <2>1, <2>2 DEF Reply
<1>7. ASSUME NEW c \in Call, GetProject(c)
      PROVE  \/ Writing(p)' \subseteq Writing(p)
             \/ projects[p] # None /\ projects[p].present
  <2>1. \/ work' = [work EXCEPT ![c] = Free]
        \/ /\ Found(work[c].project, work[c].org)
           /\ work' = [work EXCEPT ![c].pc = "write",
                                   ![c].name = NetChange(work[c])]
    BY <1>7 DEF GetProject, Reply
  <2> DEFINE k == [work[c] EXCEPT !.pc = "write", !.name = NetChange(work[c])]
  <2>2. k.project = work[c].project
    BY <1>1 DEF CallState
  <2>3. CASE work' = [work EXCEPT ![c] = k] /\ Found(work[c].project, work[c].org)
    BY <1>3, <2>2, <2>3 DEF Found
  <2>. QED
    BY <1>1, <1>4, <2>1, <2>3
<1>8. ASSUME NEW c \in Call,
             \/ \E q \in Project : CreateProject(c, q)
             \/ UpdateProject(c) \/ DeleteProject(c)
      PROVE  Writing(p)' \subseteq Writing(p)
  <2>1. work' = [work EXCEPT ![c] = Free]
    BY <1>8, CreateProjectEffect, UpdateEffect, DeleteEffect DEF Reply
  <2>. QED
    BY <1>4, <2>1
<1>. QED
  BY <1>2, <1>5, <1>6, <1>7, <1>8
  DEF ProjectNext, projectVars, allVars, HandleCall

LEMMA FewStep ==
  ASSUME IndCalls, ProjectsAccounted, FewLeft, [ProjectNext]_allVars, Logs'
  PROVE  FewLeft'
<1>1. SUFFICES ASSUME NEW p \in Project, NEW i \in Deletions(p)'
      PROVE  Len(log'[p]) - i + Cardinality(Writing(p)') < Cardinality(Call)
  BY DEF FewLeft
<1>2. /\ log[p] \in Seq(ProjectEntry) /\ Len(log[p]) \in Nat
      /\ i \in 1 .. Len(log'[p]) /\ log'[p][i].action = "project.deleted"
  BY DEF Deletions, IndCalls, Logs
<1>3. /\ IsFiniteSet(Writing(p)) /\ Cardinality(Writing(p)) \in Nat
      /\ IsFiniteSet(Writing(p)') /\ Cardinality(Writing(p)') \in Nat
      /\ Cardinality(Call) \in Nat
  <2>1. Writing(p) \subseteq Call /\ Writing(p)' \subseteq Call
    BY DEF Writing
  <2>. QED
    BY <2>1, CallsAssumption, FS_Subset, FS_CardinalityType
<1>4. Deletions(p) # {} => ~(projects[p] # None /\ projects[p].present)
  BY DEF Deletions, ProjectsAccounted
<1>5. CASE log'[p] = log[p]
  <2>1. i \in Deletions(p)
    BY <1>2, <1>5 DEF Deletions
  <2>2. Len(log[p]) - i + Cardinality(Writing(p)) < Cardinality(Call)
    BY <2>1 DEF FewLeft
  <2>3. Cardinality(Writing(p)') <= Cardinality(Writing(p))
    BY <1>3, <1>4, <2>1, WritingStep, FS_Subset
  <2>. QED
    BY <1>2, <1>3, <1>5, <2>2, <2>3
<1>6. CASE log'[p] # log[p]
  <2>1. PICK c \in Call : LET e == log'[p][Len(log[p]) + 1] IN
               /\ Len(log'[p]) = Len(log[p]) + 1
               /\ \A j \in 1 .. Len(log[p]) : log'[p][j] = log[p][j]
               /\ work[c].pc = "write"
               /\ work' = [work EXCEPT ![c] = Free]
               /\ \/ e.action = "project.created" /\ projects[p] = None
                  \/ work[c].project = p
    BY <1>6, OneEntry
  <2>2. work \in [Call -> CallState] /\ Free.pc = "free"
    BY DEF IndCalls, ProjectTypeOK, Free
  <2>3. Writing(p)' \subseteq Writing(p) \ {c}
    BY <2>1, <2>2 DEF Writing
  <2>4. CASE log'[p][Len(log[p]) + 1].action = "project.created" /\ projects[p] = None
    <3>1. log[p] = <<>>
      BY <2>4 DEF ProjectsAccounted
    <3>. QED
      BY <1>2, <2>1, <2>4, <3>1
  <2>5. CASE work[c].project = p /\ i \in 1 .. Len(log[p])
    <3>1. i \in Deletions(p)
      BY <1>2, <2>1, <2>5 DEF Deletions
    <3>2. Len(log[p]) - i + Cardinality(Writing(p)) < Cardinality(Call)
      BY <3>1 DEF FewLeft
    <3>3. c \in Writing(p)
      BY <2>1, <2>5 DEF Writing
    <3>4. /\ IsFiniteSet(Writing(p) \ {c})
          /\ Cardinality(Writing(p) \ {c}) = Cardinality(Writing(p)) - 1
      BY <1>3, <3>3, FS_RemoveElement
    <3>5. Cardinality(Writing(p)') <= Cardinality(Writing(p)) - 1
      BY <2>3, <3>4, FS_Subset
    <3>. QED
      BY <1>2, <1>3, <2>1, <2>5, <3>2, <3>5
  <2>6. CASE i = Len(log[p]) + 1
    <3>1. Writing(p)' \subseteq Call \ {c}
      BY <2>3 DEF Writing
    <3>2. /\ IsFiniteSet(Call \ {c})
          /\ Cardinality(Call \ {c}) = Cardinality(Call) - 1
      BY CallsAssumption, FS_RemoveElement
    <3>3. Cardinality(Writing(p)') <= Cardinality(Call) - 1
      BY <3>1, <3>2, FS_Subset
    <3>. QED
      BY <1>2, <1>3, <2>1, <2>6, <3>3
  <2>7. i \in 1 .. Len(log[p]) \/ i = Len(log[p]) + 1
    BY <1>2, <2>1
  <2>. QED
    BY <2>1, <2>4, <2>5, <2>6, <2>7
<1>. QED
  BY <1>5, <1>6

-----------------------------------------------------------------------------
(* The invariant of the projects, inductive together with IndTyped,          *)
(* IndTables and IndCalls.                                                   *)

LEMMA ProjectsInductive ==
  IndTyped /\ IndTables /\ IndCalls /\ IndProjects /\ [ProjectNext]_allVars
    => IndProjects'
<1>1. IndTyped /\ IndTables /\ IndCalls /\ [ProjectNext]_allVars => Logs'
  BY CallsInductive DEF IndCalls
<1>. QED
  BY <1>1, AccountedStep, FewStep, AuthorisedStep DEF IndProjects

\* The projects and their log agree at every moment, and every entry's author was
\* entitled: the invariant the theorems below are read off from.
THEOREM ProjectsInvariant ==
  ProjectSpec => [](IndTyped /\ IndTables /\ IndCalls /\ IndProjects)
<1>1. ProjectInit => IndProjects
  <2> SUFFICES ASSUME ProjectInit PROVE IndProjects
    OBVIOUS
  <2>1. \A p \in Project : projects[p] = None /\ log[p] = <<>>
    BY DEF ProjectInit
  <2>2. ProjectsAccounted
    BY <2>1 DEF ProjectsAccounted
  <2>3. \A p \in Project : 1 .. Len(log[p]) = {}
    BY <2>1
  <2>. QED
    BY <2>2, <2>3 DEF IndProjects, FewLeft, Deletions, Authorised
<1>2. IndTyped /\ IndTables /\ IndCalls /\ IndProjects /\ [ProjectNext]_allVars
        => IndProjects'
  BY ProjectsInductive
<1>. QED
  BY <1>1, <1>2, CallsInvariant, PTL DEF ProjectSpec

\* However many calls run at once, a project's log begins with its creation by
\* its owner, tells whether it was deleted, and is of its organization.
THEOREM ProjectLogAccounts == ProjectSpec => []ProjectsAccounted
<1>1. IndProjects => ProjectsAccounted
  BY DEF IndProjects
<1>. QED
  BY <1>1, ProjectsInvariant, PTL

\* However roles change while calls are in flight, nobody who was neither the
\* owner of a project nor ever owner or admin of its organization updates or
\* deletes it.
THEOREM ProjectAuthority == ProjectSpec => []AuthorityExplained
<1>1. IndProjects => AuthorityExplained
  <2> SUFFICES ASSUME Authorised, NEW p \in Project, NEW i \in 1 .. Len(log[p])
               PROVE  LET e == log[p][i] IN
                 \/ e.actor = projects[p].owner
                 \/ e.actor = orgs[projects[p].org]
                 \/ \E x \in audit :
                       /\ x.action = "role.changed" /\ x.new \in Privileged
                       /\ members[x.resource].org = projects[p].org
                       /\ members[x.resource].user = e.actor
                 \/ \E j \in Sent : /\ invites[j].accepted
                                    /\ invites[j].org = projects[p].org
                                    /\ invites[j].email = e.actor
                                    /\ invites[j].role \in Privileged
    BY DEF IndProjects, AuthorityExplained
  <2>. QED
    BY DEF Authorised, Raised
<1>. QED
  BY <1>1, ProjectsInvariant, PTL

\* Of any number of calls at once, fewer than that number write about a project
\* after its deletion: a call that found it before.
THEOREM ProjectFewAfterDeletion == ProjectSpec => []FewAfterDeletion
<1>1. IndCalls /\ IndProjects => FewAfterDeletion
  <2> SUFFICES ASSUME Logs, FewLeft, NEW p \in Project, NEW i \in Deletions(p)
               PROVE  Len(log[p]) - i < Cardinality(Call)
    BY DEF IndCalls, IndProjects, FewAfterDeletion
  <2>1. Writing(p) \subseteq Call
    BY DEF Writing
  <2>2. Cardinality(Writing(p)) \in Nat /\ Cardinality(Call) \in Nat
    BY <2>1, CallsAssumption, FS_Subset, FS_CardinalityType
  <2>3. Len(log[p]) \in Nat /\ i \in Nat
    BY DEF Logs, Deletions
  <2>4. Len(log[p]) - i + Cardinality(Writing(p)) < Cardinality(Call)
    BY DEF FewLeft
  <2>. QED
    BY <2>2, <2>3, <2>4
<1>. QED
  BY <1>1, ProjectsInvariant, PTL

\* A call the permission lookup let in gets an answer other than 404 about a
\* project only if it is of the organization asked about, and its caller is or
\* was a member there: so whatever else runs, to a call let in a project of
\* another organization is as one that never was.
THEOREM ProjectForeignNotFound == ProjectSpec => ForeignIsNotFound
<1> DEFINE Quiet(c) ==
      LET q == work[c] IN
      q.project # None /\ work'[c] = Free
         /\ answer'[c] \notin {None, Status.NotFoundError}
      => /\ projects[q.project] # None /\ projects[q.project].org = q.org
         /\ \E m \in Membership : /\ members[m] # None
                                  /\ members[m].org = q.org
                                  /\ members[m].user = q.actor
<1>1. IndCalls /\ [ProjectNext]_allVars => [\A c \in Call : Quiet(c)]_allVars
  <2> SUFFICES ASSUME IndCalls, [ProjectNext]_allVars, NEW c \in Call,
                      work[c].project # None, work'[c] = Free,
                      answer'[c] \notin {None, Status.NotFoundError}
      PROVE  /\ projects[work[c].project] # None
             /\ projects[work[c].project].org = work[c].org
             /\ Joined(work[c].org, work[c].actor)
    BY Zenon DEF Joined
  <2>1. /\ CallKnows(work[c]) /\ (work[c].pc # "free" => answer[c] = None)
        /\ work \in [Call -> CallState]
        /\ answer \in [Call -> Answers \cup {None}]
    BY DEF IndCalls, CallsOK, ProjectTypeOK
  <2>2. work[c].pc # "free" /\ Joined(work[c].org, work[c].actor)
    <3>1. Free.project = None
      BY DEF Free
    <3>. QED
      BY <2>1, <3>1 DEF CallKnows
  <2>3. answer'[c] # answer[c]
    BY <2>1, <2>2
  <2>4. CASE \E d \in Call : Refuse(d)
    <3>1. PICK d \in Call : Refuse(d)
      BY <2>4
    <3>2. work[d].pc = "free"
      BY <3>1 DEF Refuse
    <3>3. PICK s \in {Refusal(path, header, user) :
                path \in Org, header \in Org \cup {None},
                user \in User \cup {None}} :
             s # None /\ Reply(d, s)
      BY <3>1 DEF Refuse
    <3>4. answer' = [answer EXCEPT ![d] = s]
      BY <3>3 DEF Reply
    <3>. QED
      BY <2>1, <2>2, <2>3, <3>2, <3>4
  <2>5. CASE \E d \in Call : Arrive(d)
    <3>1. PICK d \in Call : Arrive(d)
      BY <2>5
    <3>2. work[d].pc = "free" /\ \E s : answer' = [answer EXCEPT ![d] = s]
      BY <3>1 DEF Arrive, Reply
    <3>. QED
      BY <2>1, <2>2, <2>3, <3>2
  <2>6. CASE \E d \in Call : GetProject(d)
    <3>1. PICK d \in Call : GetProject(d)
      BY <2>6
    <3>2. \/ answer' = [answer EXCEPT ![d] = Status.NotFoundError]
          \/ answer' = answer
          \/ /\ \E s : answer' = [answer EXCEPT ![d] = s]
             /\ Found(work[d].project, work[d].org)
      BY <3>1 DEF GetProject, Reply
    <3>. QED
      BY <2>1, <2>2, <2>3, <3>2 DEF Found
  <2>7. CASE \E d \in Call : \/ \E p \in Project : CreateProject(d, p)
                             \/ UpdateProject(d) \/ DeleteProject(d)
    <3>1. PICK d \in Call : \/ \E p \in Project : CreateProject(d, p)
                            \/ UpdateProject(d) \/ DeleteProject(d)
      BY <2>7
    <3>2. \E s : answer' = [answer EXCEPT ![d] = s]
      BY <3>1, CreateProjectEffect, UpdateEffect, DeleteEffect DEF Reply
    <3>3. d = c
      BY <2>1, <2>3, <3>2
    <3>4. work[c].pc = "write" /\ work[c].op # "create"
      BY <2>2, <3>1, <3>3, CreateProjectEffect, UpdateEffect, DeleteEffect
    <3>. QED
      BY <2>1, <2>2, <3>4 DEF CallKnows
  <2>8. UNCHANGED projectVars \/ (\E d \in Call : Abort(d)) => answer' = answer
    BY DEF projectVars, Abort
  <2>. QED
    BY <2>3, <2>4, <2>5, <2>6, <2>7, <2>8 DEF ProjectNext, allVars, HandleCall
<1>2. ProjectSpec => []IndCalls
  BY CallsInvariant, PTL
<1>. QED
  BY <1>1, <1>2, PTL DEF ProjectSpec, ForeignIsNotFound
=============================================================================
