# Verification of the Team Access Control API

TLA+ modules for the service in `app/` (FastAPI, SQLAlchemy, PostgreSQL), the
TLC configurations that check them on small instances, and theorems proved with
TLAPS for every instance. Paths and line numbers below are relative to the
repository (`src/`).

## The system

| Component | State | Operations | Modelled in |
|---|---|---|---|
| Sessions (`auth_service.py`, `auth.py`, `sessions.py`) | `users`, `sessions`, entries of `audit_logs` | signup, login, refresh (rotate, reuse, expired), logout, revoke | `Sessions` |
| Organizations and members (`org_service.py`) | `organizations`, `org_memberships` | create, change role, remove member | `Tenancy`, `Organizations` |
| Invitations (`invitation_service.py`) | `invitations` | create, accept, expiry | `Tenancy`, `Organizations` |
| Roles and permissions (`seed.py`, `rbac_service.py`, `deps.py`) | constant after seeding | lookup in front of each handler | `Rbac`, `Tenancy`, `Projects` |
| Projects (`project_service.py`) | `projects` | create, get, update, delete | `Projects` |
| Audit log (`audit_service.py`) | `audit_logs`, append only | write (in every handler), paged read | the handlers' modules; `AuditReader` |
| Rate limiter (`rate_limit.py`) | one sorted set in Redis per client and route | slide, add, count, expire, fail open | `RateLimit` |
| Error mapping (`exceptions.py`) | none | exception to status | `Projects`, for its own routes |
| Access tokens (`security.py`) | none | sign, decode | as the user they name |
| Configuration, schemas, migrations | none | | not modelled: no state changes |

How they interact: a route's dependencies look up the user (`get_current_user`)
and the permission (`require_permission`), the handler calls one service
function, the service reads and writes through one `AsyncSession`, and `get_db`
(`database.py:27-34`) commits when the handler returns and rolls back when it
raises. So **one request is one transaction**, at PostgreSQL's default READ
COMMITTED. The only state that survives a request is in the database, and the
only things requests share are committed rows and row locks. Nothing in the code
locks a row to read it (`SELECT ... FOR UPDATE` does not occur), so every test
followed by a write is exposed to whatever commits in between; what stands in
the way is the row locks of `UPDATE`s and the unique constraints of the schema.

What makes each component correct:

* Sessions: a refresh token works once; the family of a token used twice ends;
  rotation is all or nothing; what ends, ends for good and is accounted for.
* Organizations: an owner remains; changes are made by those with the
  permission and stay within the organization; the log accounts for roles and
  removals.
* Invitations: one pending per e-mail, one membership per invitation, acceptance
  all or nothing.
* Projects: only the owner of a project, an admin or an owner of the organization
  changes it; the log tells a project's life; through another organization a
  project is not found.
* Audit reader: paging through a log that grows misses nothing and repeats no
  more than it must.
* Rate limiter: no more than the limit in a window while Redis answers,
  and nobody refused who stayed within it.

The hard behaviours are listed with their lines under `hazards` in
`PROJECT.json`.

## Modules

| Module | What it is |
|---|---|
| `Sessions` | the session handlers, statement by statement, with row locks, expiry, rollback |
| `TokenFamilies` | the abstract promise of rotation: families of tokens, exchange, end |
| `SessionsProofs`, `TokenFamiliesProofs` | theorems and their proofs |
| `Rbac` | the seeded roles and permissions and the lookup |
| `Tenancy` | organizations, members, invitations, statement by statement (extends `Rbac`) |
| `Organizations` | the abstract promise of `Tenancy`: roles, open invitations, an owner remains |
| `TenancyProofs`, `TenancySerialProofs`, `OrganizationsProofs` | theorems: for any number of requests, for one at a time, of the abstract promise |
| `Projects` | projects and their status codes, beside the members of `Tenancy` (extends it) |
| `ProjectsProofs` | theorems, which use those of `TenancyProofs` for the part it extends |
| `AuditReader`, `AuditReaderProofs` | transactions that write `audit_logs`, and a client that pages through it |
| `RateLimit`, `RateLimitProofs` | the sliding-window limiter in Redis and the proof that it keeps its limit |
| `MCSessions`, `MCTenancy`, `MCProjects`, `MCAuditReader`, `MCRateLimit` | symmetry sets (and a view) for TLC |

### Sessions

A row of the table `sessions` is named by its id. The hash of its refresh token is
unique, so "the client presents this token" is "the request names this row";
tokens never issued are refused without any change and are left out. `expires`
and `now` are integers; `parent`, `family` and `revoked` are the columns.
`audit` is the set of committed entries.

`req[r]` is a request in flight: the operation, the row it has read, the rows it
has written and not committed. Those rows (`rows`) are locked until it ends. The
UPDATE of `_revoke_family` locks the rows of its snapshot one after the other, in
an order nothing fixes: `want` is the row it waits for, holding those it has, and
`rest` are the rows it has not come to.

| Action | Code |
|---|---|
| `Signup`, `Login` | `auth_service.py:27-75`, one action each: they test nothing that another request changes except the e-mail's uniqueness, which the index decides |
| `RefreshRead` | the SELECT and the branches of `refresh_tokens` (78-113) |
| `LogoutRead`, `RevokeRead` | the reads and early returns of `logout`, `revoke_session` |
| `UpdateRow` | the flushed `UPDATE sessions SET revoked_at ... WHERE id`: waits for the row lock and tests nothing else |
| `ReuseScan`, `ReuseLock` | `_revoke_family`: the snapshot of the UPDATE, then the lock of one row after another (`Visit` chooses the next) |
| `CommitRotation` | insert of the child (223-245) and the commit |
| `CommitRevocation` | the audit entry and the commit of logout, revocation and reuse; the reuse branch commits itself before it raises (108) |
| `Rollback` | `get_db`'s rollback, or a lost connection, at any point; also of the request PostgreSQL cancels to end a deadlock |

Steps that are merged, and why nothing is lost: the child is invisible until the
commit, so its insert and the commit are one action (its expiry is computed when
the request reaches the insert); the audit entry likewise. Scan and lock of a
single-row UPDATE by id are one action because the WHERE clause tests only the
id. The family UPDATE evaluates its WHERE clause again on a row it had to wait for;
one revoked meanwhile is in the model still among the rows written, which changes
nothing, because to write it is to set what is set. The refresh reads `users`, whose rows are never deleted. An access token
outlives the session it was issued with, so any user that ever logged in may
call `revoke` (`LoggedIn`).

`TokenFamilies` is what a client may rely on. `Sessions` implements it when
requests are handled one at a time, under the mapping family = the column, live =
issued and not revoked. With requests in parallel it does not: see the findings.

### Tenancy

`members[m]` is the row with id m; a deleted row stays with `present = FALSE`, so
ids are never reused. Every statement that another request may come before or
after is an action: the permission lookup (`Authorise...`), the load of the
target, the count of owners, the tests for a member and for a pending
invitation, and the writes with the commit.

Two effects of SQLAlchemy are in the model because the outcome depends on them.
The identity map: a row loaded twice in a request is the same object and keeps
the values of the first load, so a user who changes their own role has the role
that the permission lookup saw (`LoadTarget`). Unit of work: an attribute set to
the value it was loaded with sends no UPDATE (`ChangeWrite`), an UPDATE or a
refresh of a row that has gone is an error, a DELETE of one is not
(`RemoveWrite`).

The e-mail of an invitation stands for the user who registered with it. The
invitation's boundary is as in the code: pending while `expires > now`
(`invitation_service.py:49`), acceptable while `expires >= now` (92).

`Organizations` is what a client may rely on: who has which role where, and which
invitations are open. Its steps are made under the permissions of their moment and
leave an owner. `Tenancy` implements it when requests are handled one at a time,
under the mapping role = that of the present row, open = sent and not accepted;
lookups, tests and the clock are stuttering. With requests in parallel it does
not: see the findings.

### Projects

The module extends `Tenancy` and adds the table `projects`, the entries about each
project in the order of their commits (`log`), the calls in flight (`work`) and the
last status each caller got (`answer`). `ProjectNext` is a step of either part: the
members change while a call is under way.

| Action | Code |
|---|---|
| `Refuse` | the dependencies before any query (`deps.py:20-47`): no or bad header 422, another organization in the header than in the path 404, no token 401, in this order |
| `Arrive` | `require_permission`: 404 for no member, 403 for no permission; else the membership with its role is kept for the call |
| `GetProject` | `get_project_in_org`, and the ownership test (76-80, 107-109), which reads only loaded objects |
| `CreateProject`, `UpdateProject`, `DeleteProject` | the writes, the entry, the commit |
| `Abort` | the call is cut off |

What the unit of work does decides the outcome here too. An update that sets what
is already there sends no UPDATE, so it succeeds and is logged even if the row has
gone. One that changes something fails in any case: the row has gone
(`StaleDataError`), or `updated_at` is expired by the UPDATE and the response
cannot load it (see the findings). A DELETE of a row that has gone is a warning.
A caller's role is as the permission lookup saw it, whatever happened since.

### AuditReader

`created_at` is PostgreSQL's `now()`, the start of the transaction, and an entry is
visible from the commit: `Begin` takes the stamp, `Commit` shows the entry. So
entries appear out of order, also behind what a reader has read. The route counts
(`CountTotal`), then lists (`ListPage`), each statement on what is committed then.
Rows of one stamp may come in any order, and differently for each page: `Pages` is
the set of all pages the statement may return. The client (`walk`) asks for the
first page, then the next, until one is not full; `since` remembers what was there
when it began. The clamps of page and size (43-44) leave every value the route
admits as it is. The permission `audit.read` is that of `Rbac`.

A walk need not end if the log grows faster than it is read, and a client that
stops at the first entry it knows may miss one that was committed late; neither
is promised anywhere.

### RateLimit

One key of the limiter, that is one client at one route. A request takes its time
stamp (`Arrive`, `rate_limit.py:49`) and sends one pipeline, which Redis executes
as a whole (`Execute`, 50-58): slide the window to the stamp, add, count, renew
the key's expiry. Pipelines may be executed in another order than that of their
stamps. An exception lets the request in: Redis was not reached (`FailOpen`), or
it counted the request and the answer was lost (outcome `lost`). The expiry of
the key is part of what Redis still holds (`Held`). `Lag` bounds the time between
a stamp and the pipeline's execution; the code sets no bound, so `LimitKept` is
about windows shorter by `Lag`, and that is exact: with a window longer by one
TLC finds a counterexample. Clocks of the service and of Redis are taken to agree,
and two requests never to have both the same stamp and the same object address.

## Runs

| Run | Requests | Shows |
|---|---|---|
| `SessionsConcurrent` | 2 | types, lineage, explained revocations, truthful log, permanence, bounded uses of a token, under every interleaving |
| `SessionsSerial` | 1 | one live token, a dead family after a reuse, logout is last, refinement of `TokenFamilies` |
| `SessionsLiveness` | 2 | every request ends, family updates in each other's way included |
| `SessionsRace` | 2 | *violation*: a token is exchanged twice and nothing notices |
| `SessionsReuseRace` | 2 | *violation*: a family revoked for reuse has a live session |
| `TenancyMembers` | 1 | an owner remains, an invitation is used once and one is pending, isolation, authorisation, refinement of `Organizations` |
| `TenancyConcurrent` | 2 | roles, removals and acceptances are accounted for, who made a change was entitled to it once, pending invitations are bounded |
| `RateLimit` | 5 | the limit, less the delay of pipelines; nobody is refused without cause |
| `Projects` | 2 and 1 of `Tenancy` | the log accounts for projects, changes are by those entitled, few entries after a deletion, foreign projects are not found by calls let in |
| `AuditReader` | 2 writers, 1 client | no entry missed, repetitions bounded by commits, the total kept |
| `ProjectUpdate` | 1 | *violation*: an allowed update ends in an error |
| `TenancyLastOwner` | 2 | *violation*: an organization without an owner |

### Bounds

* `Session`: three ids are a root and two exchanges, enough for a chain, a fork
  and a second family; `SessionsSerial` has four. `Room` keeps an id for each
  rotation in flight, so that a commit is never blocked by the bound: a login or
  rotation that finds no id does not start. Three are also enough to break
  `UsesBounded` with two requests: a token exchanged twice (three ids) and ended as
  well is used three times; a rotation or a logout that does not look at
  `revoked_at` is found by the run. `SessionsLiveness` has three so that a double
  exchange gives a family two live rows for two family updates to lock in opposite
  orders; the clock stands still there, which leaves a session valid at the instant
  it expires.
* `Request`: two. Every race named in the hazards is between two requests; the
  theorems cover any number.
* `RefreshTTL`, `MaxTime`: a session is seen before, at and after its expiry in
  `SessionsSerial` (1, 2); in `SessionsConcurrent` at and after (0, 1). Where
  expiry plays no part the clock stands still (`MaxTime = 0`).
* `Membership`, `Invitation`: three rows let a user be removed and return; two
  invitations are two to one e-mail, the second sent when the first has expired:
  the clock of `TenancyMembers` passes an expiry. `TenancyConcurrent` has three, one
  more than `PendingBounded` allows with two requests.
* `MaxAudit` bounds a run of `Tenancy`: no request starts once that many
  different entries are in the log. The counterexample of `TenancyLastOwner` needs
  six, its bound is 7; the passing concurrent run has the same.
* `Assignable` in `Tenancy`'s runs is owner and viewer: the most and the least
  powerful role. `member` has no permission these handlers ask for that `viewer`
  lacks; `admin` has all of owner's. For projects all roles differ but the owner's
  and the admin's: `Projects` has admin, member, viewer, and the founder.
* `Projects`: one project, which is nonexistent, present and deleted in turn and
  foreign to the members of the other organization; two calls, and four entries
  about it, room for one more after a deletion than `FewAfterDeletion` allows.
  `RoomFor` keeps room for the calls in flight, so no commit is blocked. The members'
  log is bounded at four: founding, invitation, acceptance and a role change or a
  removal. No guard reads `answer`, so states that differ in it alone are explored
  once (`VIEW`); it occurs in action properties, which are checked on every step.
* `AuditReader`: four entries in two organizations, up to five pages of one or
  three of two; two writers commit out of order, four clock values.
* `RateLimit`: of five requests two fill the window, one is refused, and two can
  come after the window has slid; the clock runs for two windows.
* Symmetry is used where every property is an invariant or an action property,
  never with liveness.
* `Tenancy`'s and `Projects`' runs switch the deadlock check off: they really stop, at the bound of
  the log, or when two concurrent removals leave an organization nobody can
  change.

### Fairness

`FairSpec` asks that the server goes on with a request it has begun. The steps
that wait for row locks are strongly fair: PostgreSQL queues the waiters of a
row, so a request is not passed over for ever. A handler that raised is rolled
back, and so is one of the requests of a deadlock (`Deadlocked`): PostgreSQL looks
for circles of waiting transactions and cancels one. The last is needed. Without it
TLC finds two family updates of which each holds the row the other waits for, which
never end; the code itself has nothing against it, neither an order of the rows nor
a timeout. Only family updates can be in such a circle, since the other handlers
lock a single row of `sessions`. Nothing is asked of clients: no request need ever arrive. The other runs
use `Spec`, without fairness.

## Findings

The first three are races the code has no test for; each comes from a test and a
write in separate statements, without a lock. The fourth needs one request.

1. `SessionsRace`. Two refreshes of one token both find `revoked_at` empty
   (`auth_service.py:86-95`). The second waits for the row lock, then revokes the
   row again and inserts a second child. `AGENT.md:148-150` says a replay of a
   rotated token is detected.
2. `SessionsReuseRace`. `_revoke_family` (248-253) revokes the rows its snapshot
   selected; a rotation in flight then commits a child it never saw.
   `auth.py:72`: "revokes the entire session family".
3. `TenancyLastOwner`. Two demotions each count two owners
   (`org_service.py:126-134`). The comment at 125: "Prevent removing the last
   owner". A removal does the same, and also skips the count altogether when the
   target was promoted after their row was read.

4. `ProjectUpdate`. An update that changes a project is never stored: the flush
   (`project_service.py:96`, or the one inside `write_audit_log`) expires
   `updated_at` (`models/project.py:36-41`), the route reads it synchronously to
   build the response (`projects.py:104`), the exception makes `get_db` roll back.
   The answer is 500. `projects.py:82-85`: "Update a project. Requires
   projects.write plus ownership (or admin/owner role)." A `refresh` before the
   return, as `update_member_role` has one, would mend it. This rests on how
   SQLAlchemy 2 fetches server-side values (for INSERT, not for UPDATE, by default).

What still holds under concurrency is proved below: the damage of the first race
is bounded by the number of requests in flight (`UsesBounded`), as is that of the
two statements of `create_invitation` (`PendingBounded`); a change by somebody who
lost the permission meanwhile is by somebody who had it (`ActorsEntitled`); and every
row is still explained by the log.

The properties checked with one request at a time (`OneLivePerFamily`,
`LoggedOutIsLast`, `InvitationSingleUse`, `OnePending`, `ChangesAuthorised`, the two
refinements) are the promises of the handlers taken one by one. They catch no race
and the hazards of `PROJECT.json` do not list them against one. Some hazards have no
property that would tell: that a chain goes on after a logged-out session when a
rotation was in flight, that one invitation used twice makes two memberships, the
instant at which an invitation is both expired for `create_invitation` and valid for
`accept_invitation`, and the order of log entries of one stamp, which the paging
exempts. There the code does what it does and nothing promises otherwise.

## Theorems

`SessionsProofs`, for any sets of users, ids and requests and any expiry:

| Theorem | Property |
|---|---|
| `TypeCorrect` | `TypeOK` |
| `RevocationPermanent` | `RevocationIsPermanent` |
| `LineageCorrect` | `Lineage` |
| `RevocationIsExplained` | `RevocationExplained` |
| `AuditIsTruthful` | `AuditTruthful` |
| `UsesAreBounded` | `UsesBounded` |
| `SerialOneLive`, `SerialReuseKills`, `SerialLogoutEnds` | the serial promises, for one request at a time |
| `SerialRefinement` | `ImplementsFamilies`, for one request at a time |

Assumptions: the constants' (`SessionFinite`, `RequestFinite` for the counting,
`NoneIsNoId`, `NoneIsNoRow`, `TimeAssumption`); the serial theorems also assume
`Alone`, that there is a single request.

The argument, by inductive invariant:

* `IndTyped` adds to `TypeOK` what a request in flight knows (`Knows`): the row it
  names was issued, it belongs to its actor, the rows it is about to revoke are of
  the family. None of it can be undone, because rows are only ever revoked.
* `IndLineage` adds `Dated`: a request whose rotation is written carries an expiry
  no earlier than that of its parent, because the clock only moves on.
* `IndAudit` adds `Rooted`: the id of a family is itself the first row of the
  family, so that a reuse entry, which names a family, has an owner.
* `Budget` is the inductive form of `UsesBounded`: the children of a session, its
  entries of logout and revocation, and the requests that have read it live and may
  still exchange or end it (`Using`) are together no more than the requests. A
  request leaves the last group when its child or its entry joins the others, and
  nobody enters it once the session is revoked.
* `IndSerial` says that, alone, a request's reading of its row is still what the
  table has (`Fresh`); with that the three serial promises are inductive together
  and every commit maps to `Start`, `Exchange`, `End` or `EndFamily`.

`TokenFamiliesProofs` proves of the abstract specification that no family has two
live tokens (`FamiliesOneLive`) and that a token that ended never works again
(`FamiliesEndedForGood`).

`RateLimitProofs`, for any limit, window, delay and set of requests:

| Theorem | Property |
|---|---|
| `LimiterTyped` | `TypeOK` |
| `LimitIsKept` | `LimitKept` |
| `RefusalHasCause` | `RefusedForCause` |

The invariant `IndLimit` says that a request waits no longer than `Lag` (`Waits`),
that what has left the sorted set is a window old by now, and that the key
outlives the window of every entry (`Kept`). So when one more is admitted, all
those admitted in the shortened window are still in the set and are counted
(`WindowCounted`).

`TenancyProofs`, for any users, organizations, ids, bounds and number of requests
in flight:

| Theorem | Property |
|---|---|
| `TypeCorrect` | `TypeOK` |
| `RolesExplained` | `RoleExplained` |
| `RemovalsExplained` | `RemovalExplained` |
| `AcceptancesComplete` | `AcceptanceComplete` |
| `TenantsIsolated` | `TenantIsolation` |
| `ActorsAreEntitled` | `ActorsEntitled` |
| `PendingIsBounded` | `PendingBounded` |
| `MembershipsUnique` | one membership of a user in an organization at a time (no run states it) |

`TenancySerialProofs`, for any of these and one request at a time (`Alone`):

| Theorem | Property |
|---|---|
| `SerialOwnerKept` | `EveryOrgHasOwner` |
| `SerialOnePending` | `OnePending` |
| `SerialSingleUse` | `InvitationSingleUse` |
| `SerialAuthorised` | `ChangesAuthorised` |
| `SerialRefinement` | `ImplementsOrganizations` |

Without `Alone` none of the five holds: with a second request TLC finds a
counterexample to each (to `EveryOrgHasOwner` in `TenancyLastOwner`). So they are
the promises that rest on the handlers not interleaving, and the eight before are
those that do not.

* `IndTyped` adds to `TypeOK` what a request in flight knows (`Knows`): the row it
  loaded is of the organization and the user it names, the invitation is its
  actor's, the actor was a member. A commit of another request can take the role or
  the row's presence away, but not these, because rows are never reused (`Kept`).
* `IndTables` is the five properties of the tables, with `OrgsFounded` (rows are of
  organizations that exist), which `OneMembership` needs: a new organization starts
  with no rows.
* `IndEntitled` adds to `ActorsEntitled` that the actor of every request let in was
  once given the permission it needs. `RoleExplained` gives it at the lookup: the role
  seen there was founded, logged or accepted, and none of that is taken back.
* `Budget` is the inductive form of `PendingBounded`, as the one of `Sessions` is: the
  pending invitations and the requests that found none and have yet to send theirs
  (`Inviting`) are together no more than the requests.
* `Fresh` says that, alone, what a request has read is still so when it writes: the
  permission, the target's role, that another owner was counted, that nobody is
  pending. With it `IndSerial` is inductive, and every commit that changes a role,
  sends an invitation or accepts one maps to `Found`, `SetRole`, `Invite` or `Join`.
  `InvitationSingleUse` counts rows, which needs `FiniteTables`: only finitely many
  are ever inserted, whatever the set of ids. `OnePending` is kept in the stronger
  form of `PendingUnique`.

`OrganizationsProofs` proves of the abstract specification that an organization with
a member has an owner (`OrganizationsLed`) and that no step takes the last one away
(`OrganizationsKeepOwners`), acceptances included: who is invited was no member, so
the owner is somebody else. `Hosted` is what the invariant needs for it: an
organization that somebody is invited to has an owner.

`ProjectsProofs`, for any number of calls beside any number of requests about
members:

| Theorem | Property |
|---|---|
| `ProjectTypeCorrect` | `ProjectTypeOK` |
| `ProjectLogAccounts` | `ProjectsAccounted` |
| `ProjectAuthority` | `AuthorityExplained` |
| `ProjectFewAfterDeletion` | `FewAfterDeletion` |
| `ProjectForeignNotFound` | `ForeignIsNotFound` |

* A step of `Projects` is a step or a stutter of `Tenancy`, so `IndTyped` and
  `IndTables` hold of it. `IndCalls` adds what a call knows (`CallKnows`): a caller
  whose role is owner or admin was made one (`Raised`, which `RoleExplained`
  gives at the lookup and which nothing takes back), and a call about to write
  found the project in its organization.
* `FewLeft` is the inductive form of `FewAfterDeletion`: the entries after a
  deletion and the calls that are about to write one are together fewer than the
  calls. A call leaves the second group when its entry joins the first, and nobody
  enters the second once the project is gone.
* `ForeignIsNotFound` is about the calls that were let in: the 404 for no member and
  the 403 for no permission come before a project is looked up.
* `Authorised` is `AuthorityExplained` with `Raised` for the last three cases.

`AuditReaderProofs`, for any set of entries and writers, any page sizes of the route
and a walk of any length:

| Theorem | Property |
|---|---|
| `TypeCorrect` | `TypeOK` |
| `WalksComplete` | `WalkComplete` |
| `RepetitionsExplained` | `RepeatsExplained` |
| `TotalsKept` | `TotalKept` |

The invariant `IndWalk` has two parts beside the properties themselves. `Counts`:
the client has been shown as many entries as the offset of the next page. `Ahead`:
an entry that was there when the walk began and has not been seen has at least as
many entries above it as the offset, so it is not among the skipped. Commits only
put more above it. When a page is read, an unseen entry that is not on it is below
all of the page, so its count grows by the page; and if the page was not full,
nothing is below it. Of the repetitions: the skipped and the page are together
entries that were seen or came after the start, so what is shown is no more than
those two numbers.

The assumptions of these theorems are those of the constants: bounds are natural
numbers, `None` is no id, no row, no role and no name, handlers and assignable roles
are of those there are, page sizes are within the route's limits (1 to 100), and
the calls and the requests are finitely many (`CallsAssumption`,
`RequestsAssumption`; their numbers are part of `FewAfterDeletion` and
`PendingBounded`). TLC evaluates them in every run. `NoneIsNoInvitation` of
`OrganizationsProofs` is a hypothesis of its theorems.

Model-checked only: `EveryRequestEnds`, because the prover has no rule for fairness
and ENABLED. The four violations are counterexamples and have nothing to prove.
Every other property of a run is stated by a theorem.

## Not modelled

Argon2, SHA-256, JWT encoding and the randomness of tokens (libraries, assumed
correct and without collisions); the read-only routes, other than those of one
project and of the audit log; `logout_all_for_user`
(`auth_service.py:153-158`), which has no caller; deletion of users and
organizations, which no route offers; CORS, configuration and Docker files.

`seed.py` is not a module: it is one transaction, run before the service starts
(`docker-compose.yml`), which inserts what it does not find; of two at once the
unique indexes on `permissions.codename` and on the names of system roles
(`001_initial.py:41`, 65-67) let one commit. Its outcome is `Rbac`. The table of
default roles in `README.md:200-205` names `org.delete`, `members.read` and
`invites.read`, which are no permissions of the seed; nothing asks for them.

## Plan

Every invariant and action property of the passing runs is proved. What may be
added:

1. For `Sessions` and `Tenancy` with a row lock on what is read (`SELECT ... FOR
   UPDATE`), the proof that the serial promises hold for any number of requests:
   the repair that the first three findings ask for.
2. An abstract specification of `RateLimit` (who is admitted when, without Redis)
   and the refinement.
3. Consequences of the refinements: what `OrganizationsProofs` and
   `TokenFamiliesProofs` show of the abstract specifications, stated of the detailed
   ones.
