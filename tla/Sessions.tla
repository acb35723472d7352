------------------------------ MODULE Sessions ------------------------------
(***************************************************************************)
(* Refresh-token sessions: app/services/auth_service.py on PostgreSQL.      *)
(*                                                                          *)
(* A row of the table `sessions` is named by its id; the hash of its        *)
(* refresh token is unique, so presenting the token and naming the row are  *)
(* the same thing here.  A family is named by the id of its first row.      *)
(*                                                                          *)
(* Every HTTP request is one database transaction at READ COMMITTED         *)
(* (get_db commits after the handler returns and rolls back when it         *)
(* raises).  A request in flight is a record of what it has read and of the *)
(* rows it has written but not committed; those rows are locked until it    *)
(* ends, and an UPDATE of several rows locks them one after the other.      *)
(* A request that only reads rows nobody updates (login reads `users`) is   *)
(* one action.                                                              *)
(***************************************************************************)
EXTENDS Integers, FiniteSets

CONSTANTS
    User,        \* e-mail addresses that may sign up
    Session,     \* ids the rows of `sessions` may get: bounds what a run issues
    Request,     \* requests the server may be handling at once
    RefreshTTL,  \* refresh_token_expire_days
    MaxTime,     \* bound on the clock
    None

ASSUME SessionFinite == IsFiniteSet(Session)
ASSUME RequestFinite == IsFiniteSet(Request)
ASSUME NoneIsNoId == None \notin Session \cup User
ASSUME TimeAssumption == RefreshTTL \in Nat /\ MaxTime \in Nat

VARIABLES
    users,     \* e-mails with a row in `users`; a user is never deleted
    sessions,  \* the committed rows, None for an id not issued yet
    audit,     \* the committed entries of audit_logs about sessions
    now,       \* utcnow()
    req        \* what each request in flight has done so far

vars == <<users, sessions, audit, now, req>>

-----------------------------------------------------------------------------
(* Rows and requests *)

Row == [user    : User,
        family  : Session,
        parent  : Session \cup {None},
        expires : Nat,
        revoked : BOOLEAN]

ASSUME NoneIsNoRow == None \notin Row

AuditEntry ==
    [action   : {"auth.login", "auth.logout", "session.revoked",
                 "auth.refresh_reuse_detected"},
     actor    : User,
     resource : Session \cup User]

Op == {"refresh", "reuse", "logout", "revoke"}

PC == {"idle",     \* no request
       "update",   \* has read the row unrevoked, has not updated it
       "scan",     \* reuse: about to start the UPDATE of the family
       "lock",     \* reuse: the UPDATE goes through the rows of its snapshot
       "commit",   \* everything written, not committed
       "raised"}   \* the handler raised; get_db rolls back

Idle == [pc |-> "idle", op |-> None, sess |-> None, actor |-> None,
         rows |-> {},       \* written and locked, not committed
         want |-> None,     \* the row whose lock the family UPDATE waits for
         rest |-> {},       \* the rows it has not come to
         expires |-> 0]

Issued == {s \in Session : sessions[s] # None}
Unissued == Session \ Issued
Live == {s \in Issued : ~sessions[s].revoked}
FamilyOf(s) == {t \in Issued : sessions[t].family = sessions[s].family}
Children(s) == {c \in Issued : sessions[c].parent = s}
LoggedIn == {sessions[s].user : s \in Issued}

\* A bound of the model: where its ids run out no login and no rotation
\* starts, and each rotation in flight keeps one for its child.
Rotating == {q \in Request : req[q].op = "refresh"}
Room == Cardinality(Unissued) > Cardinality(Rotating)

\* No other transaction holds a lock on a row of S.
Unlocked(r, S) ==
    \A q \in Request \ {r} : req[q].rows \cap S = {}

Audited(a, u, x) == [action |-> a, actor |-> u, resource |-> x]

-----------------------------------------------------------------------------
Init ==
    /\ users = {}
    /\ sessions = [s \in Session |-> None]
    /\ audit = {}
    /\ now = 0
    /\ req = [r \in Request |-> Idle]

\* POST /auth/signup: the unique index on users.email decides a race between
\* two sign-ups, so the check and the insert are one step.
Signup(u) ==
    /\ u \notin users
    /\ users' = users \cup {u}
    /\ UNCHANGED <<sessions, audit, now, req>>

\* Mutant: _create_session_tokens leaves family_id empty without a parent.
LoginNoFamily(u, s) ==
    /\ u \in users
    /\ Room
    /\ s \in Unissued
    /\ sessions' = [sessions EXCEPT ![s] =
           [user |-> u, family |-> None, parent |-> None,
            expires |-> now + RefreshTTL, revoked |-> FALSE]]
    /\ audit' = audit \cup {Audited("auth.login", u, u)}
    /\ UNCHANGED <<users, now, req>>

\* POST /auth/login: a new row, the first of a new family.
Login(u, s) ==
    /\ u \in users
    /\ Room
    /\ s \in Unissued
    /\ sessions' = [sessions EXCEPT ![s] =
           [user |-> u, family |-> s, parent |-> None,
            expires |-> now + RefreshTTL, revoked |-> FALSE]]
    /\ audit' = audit \cup {Audited("auth.login", u, u)}
    /\ UNCHANGED <<users, now, req>>

Begin(r, pc, op, s, u) ==
    req' = [req EXCEPT ![r] = [Idle EXCEPT !.pc = pc, !.op = op,
                                           !.sess = s, !.actor = u]]

\* Mutant: the refresh does not look at revoked.
RefreshUnchecked(r, s) ==
    /\ req[r].pc = "idle"
    /\ s \in Issued
    /\ sessions[s].expires >= now
    /\ Room
    /\ Begin(r, "update", "refresh", s, sessions[s].user)
    /\ UNCHANGED <<users, sessions, audit, now>>

\* POST /auth/refresh, up to the branch it takes.  A revoked token is a reuse;
\* an expired one is marked revoked in memory, but the handler raises and the
\* mark is rolled back; otherwise the token is rotated.
RefreshRead(r, s) ==
    /\ req[r].pc = "idle"
    /\ s \in Issued
    /\ \/ /\ sessions[s].revoked
          /\ Begin(r, "scan", "reuse", s, sessions[s].user)
       \/ /\ ~sessions[s].revoked
          /\ sessions[s].expires < now
          /\ Begin(r, "raised", "refresh", s, sessions[s].user)
       \/ /\ ~sessions[s].revoked
          /\ sessions[s].expires >= now
          /\ Room
          /\ Begin(r, "update", "refresh", s, sessions[s].user)
    /\ UNCHANGED <<users, sessions, audit, now>>

\* Mutant: a logout does not look at revoked.
LogoutUnchecked(r, s) ==
    /\ req[r].pc = "idle"
    /\ s \in Issued
    /\ Begin(r, "update", "logout", s, sessions[s].user)
    /\ UNCHANGED <<users, sessions, audit, now>>

\* POST /auth/logout: a revoked session is left alone.
LogoutRead(r, s) ==
    /\ req[r].pc = "idle"
    /\ s \in Issued
    /\ ~sessions[s].revoked
    /\ Begin(r, "update", "logout", s, sessions[s].user)
    /\ UNCHANGED <<users, sessions, audit, now>>

\* Mutant: a session is revoked for whoever asks.
RevokeAnyones(r, u, s) ==
    /\ req[r].pc = "idle"
    /\ u \in LoggedIn
    /\ s \in Issued
    /\ ~sessions[s].revoked
    /\ Begin(r, "update", "revoke", s, u)
    /\ UNCHANGED <<users, sessions, audit, now>>

\* POST /me/sessions/{id}/revoke by user u, whom an access token names.
RevokeRead(r, u, s) ==
    /\ req[r].pc = "idle"
    /\ u \in LoggedIn
    /\ s \in Issued
    /\ sessions[s].user = u
    /\ ~sessions[s].revoked
    /\ Begin(r, "update", "revoke", s, u)
    /\ UNCHANGED <<users, sessions, audit, now>>

\* The flushed UPDATE of one row by its id: it waits for the row's lock and
\* tests nothing but the id.  A rotation also inserts the child, whose expiry
\* is computed here; nobody can see that row before the commit.
UpdateRow(r) ==
    /\ req[r].pc = "update"
    /\ Unlocked(r, {req[r].sess})
    /\ req' = [req EXCEPT ![r].pc = "commit",
                          ![r].rows = {req[r].sess},
                          ![r].expires = IF req[r].op = "refresh"
                                         THEN now + RefreshTTL ELSE 0]
    /\ UNCHANGED <<users, sessions, audit, now>>

\* The family UPDATE holds the rows `held` and has `left` to go through, in an
\* order SQL does not promise: it asks for the lock of one of them, or is done.
Visit(r, held, left) ==
    \/ /\ left = {}
       /\ req' = [req EXCEPT ![r].pc = "commit", ![r].rows = held,
                             ![r].want = None, ![r].rest = {}]
    \/ \E s \in left :
           req' = [req EXCEPT ![r].pc = "lock", ![r].rows = held,
                              ![r].want = s, ![r].rest = left \ {s}]

\* Mutant: the UPDATE names the presented session, not its family.
ScanOneRow(r) ==
    /\ req[r].pc = "scan"
    /\ Visit(r, {}, {req[r].sess} \cap Live)
    /\ UNCHANGED <<users, sessions, audit, now>>

\* Mutant: the UPDATE selects by user_id, not by family_id.
ScanByUser(r) ==
    /\ req[r].pc = "scan"
    /\ Visit(r, {}, {s \in Live : sessions[s].user = req[r].actor})
    /\ UNCHANGED <<users, sessions, audit, now>>

\* _revoke_family, the snapshot its UPDATE selects rows from.  A row committed
\* later is not seen.
ReuseScan(r) ==
    /\ req[r].pc = "scan"
    /\ Visit(r, {}, FamilyOf(req[r].sess) \cap Live)
    /\ UNCHANGED <<users, sessions, audit, now>>

\* _revoke_family, one row lock, waited for while those it has are held.  The
\* row's condition is evaluated again on its newest version: one revoked
\* meanwhile is not written but stays locked, and to revoke it again would
\* change nothing.
ReuseLock(r) ==
    /\ req[r].pc = "lock"
    /\ Unlocked(r, {req[r].want})
    /\ Visit(r, req[r].rows \cup {req[r].want}, req[r].rest)
    /\ UNCHANGED <<users, sessions, audit, now>>

\* Mutant: the flag is turned over instead of set.
Toggled(rows) ==
    [s \in Session |-> IF s \in rows
                       THEN [sessions[s] EXCEPT !.revoked = ~@]
                       ELSE sessions[s]]

Revoked(rows) ==
    [s \in Session |-> IF s \in rows
                       THEN [sessions[s] EXCEPT !.revoked = TRUE]
                       ELSE sessions[s]]

Finished(r) == [req EXCEPT ![r] = Idle]

\* Mutant: the child starts a family of its own.
RotateToNewFamily(r, c) ==
    /\ req[r].pc = "commit" /\ req[r].op = "refresh"
    /\ c \in Unissued
    /\ LET s == req[r].sess IN
       sessions' = [Revoked(req[r].rows) EXCEPT ![c] =
           [user |-> sessions[s].user, family |-> c,
            parent |-> s, expires |-> req[r].expires, revoked |-> FALSE]]
    /\ req' = Finished(r)
    /\ UNCHANGED <<users, audit, now>>

\* Mutant: the parent stays live.
RotateKeepingParent(r, c) ==
    /\ req[r].pc = "commit" /\ req[r].op = "refresh"
    /\ c \in Unissued
    /\ LET s == req[r].sess IN
       sessions' = [sessions EXCEPT ![c] =
           [user |-> sessions[s].user, family |-> sessions[s].family,
            parent |-> s, expires |-> req[r].expires, revoked |-> FALSE]]
    /\ req' = Finished(r)
    /\ UNCHANGED <<users, audit, now>>

\* The commit of a rotation: the parent is revoked and the child c appears.
CommitRotation(r, c) ==
    /\ req[r].pc = "commit" /\ req[r].op = "refresh"
    /\ c \in Unissued
    /\ LET s == req[r].sess IN
       sessions' = [Revoked(req[r].rows) EXCEPT ![c] =
           [user |-> sessions[s].user, family |-> sessions[s].family,
            parent |-> s, expires |-> req[r].expires, revoked |-> FALSE]]
    /\ req' = Finished(r)
    /\ UNCHANGED <<users, audit, now>>

AuditOf(r) ==
    LET s == req[r].sess
        u == req[r].actor
    IN  CASE req[r].op = "logout" -> Audited("auth.logout", u, s)
          [] req[r].op = "revoke" -> Audited("session.revoked", u, s)
          [] req[r].op = "reuse"  ->
                 Audited("auth.refresh_reuse_detected", u, sessions[s].family)

\* The commit of a logout, of a revocation, and the explicit commit of the
\* reuse branch: the rows are revoked and the audit entry is written.
CommitRevocation(r) ==
    /\ req[r].pc = "commit" /\ req[r].op # "refresh"
    /\ sessions' = Revoked(req[r].rows)
    /\ audit' = audit \cup {AuditOf(r)}
    /\ req' = Finished(r)
    /\ UNCHANGED <<users, now>>

\* Mutant: the session commits although the handler raised.
CommitOnError(r) ==
    /\ req[r].pc # "idle"
    /\ sessions' = Revoked(IF req[r].pc = "raised" THEN {req[r].sess} ELSE {})
    /\ req' = Finished(r)
    /\ UNCHANGED <<users, audit, now>>

\* Mutant: a session that failed is neither rolled back nor closed, so that its
\* transaction keeps the rows it has locked.
RollbackForgotten(r) ==
    /\ req[r].pc # "idle"
    /\ req' = [req EXCEPT ![r] = [Idle EXCEPT !.rows = req[r].rows]]
    /\ UNCHANGED <<users, sessions, audit, now>>

\* get_db's rollback.  Besides the handler that raised, any request may lose
\* its connection or its server before the commit, or be the one PostgreSQL
\* cancels to end a deadlock.
Rollback(r) ==
    /\ req[r].pc # "idle"
    /\ req' = Finished(r)
    /\ UNCHANGED <<users, sessions, audit, now>>

Tick ==
    /\ now < MaxTime
    /\ now' = now + 1
    /\ UNCHANGED <<users, sessions, audit, req>>

-----------------------------------------------------------------------------
Client(r) ==
    \E s \in Session : \/ RefreshRead(r, s)
                       \/ LogoutRead(r, s)
                       \/ \E u \in User : RevokeRead(r, u, s)

Server(r) ==
    \/ UpdateRow(r)
    \/ ReuseScan(r)
    \/ ReuseLock(r)
    \/ \E c \in Session : CommitRotation(r, c)
    \/ CommitRevocation(r)

Next ==
    \/ \E u \in User : Signup(u) \/ \E s \in Session : Login(u, s)
    \/ \E r \in Request : Client(r) \/ Server(r) \/ Rollback(r)
    \/ Tick

Spec == Init /\ [][Next]_vars

\* Family UPDATEs that wait for each other in a circle.  A request in "update"
\* holds nothing, so that no circle leads through it.
Deadlocked(r) ==
    \E D \in SUBSET Request :
        /\ r \in D
        /\ \A q \in D : /\ req[q].pc = "lock"
                        /\ \E p \in D \ {q} : req[q].want \in req[p].rows

\* The server goes on with a request it has begun; PostgreSQL grants row locks
\* in the order they are asked for, so a request that again and again finds
\* its row free does get it: strong fairness of each request's steps.  A
\* handler that raised is rolled back, and so is one of the requests of a
\* deadlock, which PostgreSQL detects.  Nothing is assumed of clients.
Fairness ==
    \A r \in Request :
        /\ SF_vars(Server(r))
        /\ WF_vars((req[r].pc = "raised" \/ Deadlocked(r)) /\ Rollback(r))

FairSpec == Spec /\ Fairness

-----------------------------------------------------------------------------
(* Properties, for any number of requests in flight *)

Pending == [pc      : PC,
            op      : Op \cup {None},
            sess    : Session \cup {None},
            actor   : User \cup {None},
            rows    : SUBSET Session,
            want    : Session \cup {None},
            rest    : SUBSET Session,
            expires : Nat]

\* The type invariant of the committed tables and of the requests in flight.
TypeOK ==
    /\ users \subseteq User
    /\ sessions \in [Session -> Row \cup {None}]
    /\ audit \subseteq AuditEntry
    /\ now \in 0 .. MaxTime
    /\ req \in [Request -> Pending]

\* A rotation is all or nothing, whatever is interleaved with it and wherever
\* it is cut off: a child is in the family and of the user of its parent, never
\* expires before it, and its parent is revoked (refresh_tokens,
\* auth_service.py:115-130).
Lineage ==
    \A c \in Issued :
        LET p == sessions[c].parent IN
        p # None =>
            /\ p \in Issued
            /\ sessions[p].revoked
            /\ sessions[c].family = sessions[p].family
            /\ sessions[c].user = sessions[p].user
            /\ sessions[c].expires >= sessions[p].expires

Explained(s) ==
    \/ Children(s) # {}
    \/ \E e \in audit :
           \/ e.action \in {"auth.logout", "session.revoked"} /\ e.resource = s
           \/ /\ e.action = "auth.refresh_reuse_detected"
              /\ e.resource = sessions[s].family

\* No session ends without a trace: a revoked one was rotated, or an audit
\* entry committed with the revocation names it or its family.
RevocationExplained ==
    \A s \in Issued : sessions[s].revoked => Explained(s)

\* What the audit log says of a session is so: a session logged out or revoked
\* in the log is revoked in the table, and the actor recorded is its owner
\* (revoke_session's ownership test, auth_service.py:206).
AuditTruthful ==
    \A e \in audit :
        /\ e.action \in {"auth.logout", "session.revoked"} =>
               /\ e.resource \in Issued
               /\ sessions[e.resource].revoked
               /\ sessions[e.resource].user = e.actor
        /\ e.action = "auth.refresh_reuse_detected" =>
               /\ e.resource \in Issued
               /\ sessions[e.resource].user = e.actor

Endings(s) == {e \in audit :
                   /\ e.action \in {"auth.logout", "session.revoked"}
                   /\ e.resource = s}

\* One token is used at most as often as requests can be in flight at once: its
\* exchanges, its logout and its revocation by the owner all need the row
\* unrevoked, so after the first commit only those that had read it before can
\* still go through.
UsesBounded ==
    \A s \in Issued :
        Cardinality(Children(s)) + Cardinality(Endings(s))
            <= Cardinality(Request)

\* Rows are never deleted, never change owner, family, parent or expiry, and a
\* revoked session never becomes live again.
RevocationIsPermanent ==
    [][\A s \in Issued :
          /\ s \in Issued'
          /\ sessions'[s] = sessions[s]
             \/ sessions'[s] = [sessions[s] EXCEPT !.revoked = TRUE]]_vars

\* Every request that has begun ends: the row locks of rotations, logouts and
\* family updates, two of which may each hold a row the other waits for, never
\* leave a request waiting for ever.
EveryRequestEnds ==
    \A r \in Request : req[r].pc # "idle" ~> req[r].pc = "idle"

-----------------------------------------------------------------------------
(* Properties that hold when requests are handled one at a time *)

\* At most one session of a family is live.
OneLivePerFamily ==
    \A s, t \in Live : sessions[s].family = sessions[t].family => s = t

\* Reuse of a token revokes the entire family, for ever: once the log has the
\* reuse, no session of the family is live (auth.py:72-73).
ReusedFamilyDead ==
    \A e \in audit : e.action = "auth.refresh_reuse_detected" =>
        \A s \in Live : sessions[s].family # e.resource

\* A logout ends the chain it is made in: no session descends from one that
\* was logged out or revoked by its owner.  (A rotation in flight with the logout
\* can still commit a child after it: that is counted by UsesBounded.)
LoggedOutIsLast ==
    \A e \in audit : e.action \in {"auth.logout", "session.revoked"} =>
        Children(e.resource) = {}

\* A token exchanged twice is noticed: the log has the reuse of its family
\* (README.md:24, AGENT.md:148-150).
DoubleExchangeDetected ==
    \A s \in Issued : Cardinality(Children(s)) > 1 =>
        \E e \in audit : /\ e.action = "auth.refresh_reuse_detected"
                         /\ e.resource = sessions[s].family

-----------------------------------------------------------------------------
(* The promise of rotation, implemented by the requests one at a time *)

Families == INSTANCE TokenFamilies WITH
    Token  <- Session,
    family <- [s \in Session |-> IF sessions[s] = None THEN None
                                 ELSE sessions[s].family],
    live   <- Live

\* Every committed request is a start, an exchange of the live token of its
\* family, or an end, and everything else changes no token.
ImplementsFamilies == Families!Spec
=============================================================================
