---------------------------- MODULE AuditReader -----------------------------
(***************************************************************************)
(* Reading audit_logs page by page while requests write to it:              *)
(* list_audit_logs of app/services/audit_service.py and the route of        *)
(* app/api/v1/audit_logs.py.                                                *)
(*                                                                          *)
(* An entry's created_at is PostgreSQL's now(), the start of the            *)
(* transaction that writes it; the entry is seen from the commit on.  So    *)
(* entries appear in another order than that of their stamps, the order     *)
(* the pages are in.                                                        *)
(***************************************************************************)
EXTENDS Integers, FiniteSets

CONSTANTS
    Entry,       \* ids of audit_logs rows
    Org,         \* organizations
    Reads,       \* the organization whose log is read
    Writer,      \* transactions that write, in flight at once
    PageSizes,   \* the page sizes clients ask for, within the route's bounds
    MaxTime,     \* bound on the clock
    None

ASSUME ReadsAssumption == Reads \in Org /\ None \notin Org
ASSUME PageSizesAssumption == PageSizes \subseteq 1 .. 100
ASSUME MaxTimeAssumption == MaxTime \in Nat

VARIABLES
    log,     \* organization_id and created_at of the committed entries
    txn,     \* now() of each writer's transaction, None for none
    clock,   \* the database's clock
    walk     \* a client that reads one page after the other

vars == <<log, txn, clock, walk>>

-----------------------------------------------------------------------------
(* Queries *)

Row == [org : Org, stamp : Nat]

ASSUME NoneIsNoRow == None \notin Row

Committed == {e \in Entry : log[e] # None}

\* WHERE organization_id = ...
Own == {e \in Committed : log[e].org = Reads}

\* A set that ORDER BY created_at DESC may put in front of the rest: rows of
\* one stamp come in any order, and in another one the next time.
First(rows, rest) ==
    \A e \in rows, f \in rest : log[e].stamp >= log[f].stamp

MinOf(a, b) == IF a <= b THEN a ELSE b

\* Mutant: the pages are counted from 0.
OffsetFromZero(page, size) == page * size

Offset(page, size) == (page - 1) * size

\* Mutant: one row more is fetched, to see if there is a next page.
LimitAndOne(size) == size + 1

Limit(size) == size

\* OFFSET ... LIMIT: what the page may hold.
Pages(page, size) ==
    LET skipped == MinOf(Offset(page, size), Cardinality(Own))
        length  == MinOf(Limit(size), Cardinality(Own) - skipped)
    IN  {items \in SUBSET Own :
            /\ Cardinality(items) = length
            /\ \E before \in SUBSET (Own \ items) :
                  /\ Cardinality(before) = skipped
                  /\ First(before, Own \ before)
                  /\ First(items, Own \ (before \cup items))}

-----------------------------------------------------------------------------
Start == [pc |-> "start", size |-> 1, page |-> 1, total |-> 0, shown |-> 0,
          seen |-> {}, since |-> {}]

Init ==
    /\ log = [e \in Entry |-> None]
    /\ txn = [w \in Writer |-> None]
    /\ clock = 0
    /\ walk = Start

Begin(w) ==
    /\ txn[w] = None
    /\ txn' = [txn EXCEPT ![w] = clock]
    /\ UNCHANGED <<log, clock, walk>>

\* Mutant: the row has no server default for created_at.
CommitUnstamped(w, e) ==
    /\ txn[w] # None
    /\ log[e] = None
    /\ \E o \in Org : log' = [log EXCEPT ![e] = [org |-> o, stamp |-> None]]
    /\ txn' = [txn EXCEPT ![w] = None]
    /\ UNCHANGED <<clock, walk>>

\* write_audit_log, and the commit of the request.
Commit(w, e) ==
    /\ txn[w] # None
    /\ log[e] = None
    /\ \E o \in Org : log' = [log EXCEPT ![e] = [org |-> o, stamp |-> txn[w]]]
    /\ txn' = [txn EXCEPT ![w] = None]
    /\ UNCHANGED <<clock, walk>>

Rollback(w) ==
    /\ txn[w] # None
    /\ txn' = [txn EXCEPT ![w] = None]
    /\ UNCHANGED <<log, clock, walk>>

Tick ==
    /\ clock < MaxTime
    /\ clock' = clock + 1
    /\ UNCHANGED <<log, txn, walk>>

\* The client asks for the first page.
FirstPage(size) ==
    /\ walk.pc = "start"
    /\ walk' = [walk EXCEPT !.pc = "count", !.size = size, !.since = Own]
    /\ UNCHANGED <<log, txn, clock>>

\* Mutant: the entries of every organization are counted.
CountAll ==
    /\ walk.pc = "count"
    /\ walk' = [walk EXCEPT !.pc = "page", !.total = Cardinality(Committed)]
    /\ UNCHANGED <<log, txn, clock>>

\* The first statement: the total.
CountTotal ==
    /\ walk.pc = "count"
    /\ walk' = [walk EXCEPT !.pc = "page", !.total = Cardinality(Own)]
    /\ UNCHANGED <<log, txn, clock>>

\* The second statement: the page.
ListPage ==
    /\ walk.pc = "page"
    /\ \E items \in Pages(walk.page, walk.size) :
          walk' = [walk EXCEPT !.pc = IF Cardinality(items) < walk.size
                                      THEN "done" ELSE "next",
                               !.shown = @ + Cardinality(items),
                               !.seen = @ \cup items]
    /\ UNCHANGED <<log, txn, clock>>

\* The page was full: the client asks for the next.
NextPage ==
    /\ walk.pc = "next"
    /\ walk' = [walk EXCEPT !.pc = "count", !.page = @ + 1]
    /\ UNCHANGED <<log, txn, clock>>

Next ==
    \/ \E w \in Writer :
          Begin(w) \/ Rollback(w) \/ \E e \in Entry : Commit(w, e)
    \/ Tick
    \/ \E size \in PageSizes : FirstPage(size)
    \/ CountTotal \/ ListPage \/ NextPage

Spec == Init /\ [][Next]_vars

-----------------------------------------------------------------------------
(* Properties *)

\* The type invariant of the log, the transactions and the client.
TypeOK ==
    /\ log \in [Entry -> Row \cup {None}]
    /\ txn \in [Writer -> (0 .. MaxTime) \cup {None}]
    /\ clock \in 0 .. MaxTime
    /\ walk \in [pc : {"start", "count", "page", "next", "done"},
                 size : PageSizes \cup {1}, page : Nat \ {0}, total : Nat,
                 shown : Nat, seen : SUBSET Entry, since : SUBSET Entry]

\* No other entry of this organization has the stamp of e.
Distinct(e) == \A f \in Own \ {e} : log[f].stamp # log[e].stamp

\* A walk that ends at a page that is not full has shown every entry that was
\* there when it began, however many are committed meanwhile and wherever in the
\* order they appear; only entries that share their stamp may be missed.
WalkComplete ==
    walk.pc = "done" =>
        \A e \in walk.since : Distinct(e) => e \in walk.seen

\* An entry is shown twice only because another was committed in front of it
\* since the walk began: the repetitions are no more than those commits.
RepeatsExplained ==
    (\A e \in Own : Distinct(e)) =>
        walk.shown - Cardinality(walk.seen) <= Cardinality(Own \ walk.since)

\* The total is counted before its page is read and the log only grows, so the
\* pages up to this one have shown as many entries as the total promises.
TotalKept ==
    walk.pc \in {"next", "done"} =>
        walk.shown >= MinOf(walk.page * walk.size, walk.total)
=============================================================================
