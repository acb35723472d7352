-------------------------- MODULE AuditReaderProofs --------------------------
(***************************************************************************)
(* Proofs about AuditReader, for every set of entries, writers and page      *)
(* sizes, and a log of any length.                                          *)
(***************************************************************************)
EXTENDS AuditReader, FiniteSetTheorems, TLAPS

(* Only finitely many entries are ever committed, whatever the set of ids,   *)
(* and the client has seen entries of its organization only.                *)
IndTyped ==
    /\ TypeOK
    /\ IsFiniteSet(Committed)
    /\ walk.seen \subseteq Own
    /\ walk.since \subseteq Own

(* The client has been shown full pages, and the total it was told is not    *)
(* more than the entries there are.                                         *)
Counts ==
    /\ walk.pc = "start" => walk = Start
    /\ walk.pc \in {"count", "page"} =>
          walk.shown = Offset(walk.page, walk.size)
    /\ walk.pc = "next" => walk.shown = walk.page * walk.size
    /\ walk.pc = "page" => walk.total <= Cardinality(Own)

(* The entries that come before e in every order of the pages.              *)
Above(e) == {f \in Own : log[f].stamp > log[e].stamp}

(* An entry that was there when the walk began and has not been seen yet is   *)
(* not in the pages that were shown: it has as many entries above it as they  *)
(* hold, and the walk has not ended.                                        *)
Ahead ==
    \A e \in walk.since : Distinct(e) /\ e \notin walk.seen =>
        /\ walk.pc \in {"count", "page"} =>
              Cardinality(Above(e)) >= Offset(walk.page, walk.size)
        /\ walk.pc = "next" => Cardinality(Above(e)) >= walk.page * walk.size
        /\ walk.pc # "done"

IndWalk == Counts /\ TotalKept /\ Ahead /\ RepeatsExplained

-----------------------------------------------------------------------------
(* Sizes                                                                    *)

LEMMA Offsets ==
  ASSUME NEW page \in Nat \ {0}, NEW size \in Nat
  PROVE  /\ Offset(page, size) \in Nat
         /\ page * size \in Nat
         /\ page * size = Offset(page, size) + size
         /\ Offset(page + 1, size) = page * size
         /\ Offset(1, size) = 0
<1>1. ASSUME NEW n \in Nat PROVE n * size \in Nat
  BY <1>1
<1>2. page - 1 \in Nat
  OBVIOUS
<1>3. (page - 1) * size + size = page * size
  OBVIOUS
<1>4. page + 1 - 1 = page /\ 1 - 1 = 0 /\ 0 * size = 0
  OBVIOUS
<1>5. Offset(page, size) \in Nat /\ page * size \in Nat
  BY <1>1, <1>2 DEF Offset
<1>6. page * size = Offset(page, size) + size
  BY <1>3 DEF Offset
<1>7. Offset(page + 1, size) = page * size
  BY <1>4 DEF Offset
<1>8. Offset(1, size) = 0
  BY <1>4, Zenon DEF Offset
<1>. QED
  BY <1>5, <1>6, <1>7, <1>8

LEMMA SizeType ==
  ASSUME TypeOK
  PROVE  walk.size \in Nat /\ walk.size > 0 /\ walk.page \in Nat \ {0}
<1>1. walk.size \in PageSizes \cup {1} /\ walk.page \in Nat \ {0}
  BY DEF TypeOK
<1>2. walk.size \in PageSizes \/ walk.size = 1
  BY <1>1
<1>3. walk.size \in 1 .. 100
  <2>1. CASE walk.size \in PageSizes
    BY <2>1, PageSizesAssumption, Zenon
  <2>2. CASE walk.size = 1
    BY <2>2
  <2>. QED
    BY <1>2, <2>1, <2>2, Zenon
<1>. QED
  BY <1>1, <1>3

LEMMA OwnFinite ==
  ASSUME IndTyped
  PROVE  /\ IsFiniteSet(Own) /\ Cardinality(Own) \in Nat
         /\ \A S : S \subseteq Own =>
               /\ IsFiniteSet(S) /\ Cardinality(S) \in Nat
               /\ Cardinality(S) <= Cardinality(Own)
         /\ \A e \in Own : /\ e \in Entry /\ log[e] # None
                           /\ log[e].org = Reads /\ log[e].stamp \in Nat
<1>1. Own \subseteq Committed /\ IsFiniteSet(Committed)
  BY DEF IndTyped, Own
<1>2. IsFiniteSet(Own)
  BY <1>1, FS_Subset
<1>3. ASSUME NEW S, S \subseteq Own
      PROVE  /\ IsFiniteSet(S) /\ Cardinality(S) \in Nat
             /\ Cardinality(S) <= Cardinality(Own)
  BY <1>2, <1>3, FS_Subset, FS_CardinalityType
<1>4. \A e \in Own : /\ e \in Entry /\ log[e] # None
                     /\ log[e].org = Reads /\ log[e].stamp \in Nat
  BY DEF IndTyped, TypeOK, Own, Committed, Row
<1>. QED
  BY <1>2, <1>3, <1>4

\* More entries, in a finite set, are counted as more.
LEMMA CountGrows ==
  ASSUME NEW S, NEW T, IsFiniteSet(T), S \subseteq T
  PROVE  /\ IsFiniteSet(S) /\ Cardinality(S) \in Nat /\ Cardinality(T) \in Nat
         /\ Cardinality(S) <= Cardinality(T)
  BY FS_Subset, FS_CardinalityType

\* Two sets with nothing in common are counted one after the other.
LEMMA CountBoth ==
  ASSUME NEW S, NEW T, IsFiniteSet(S), IsFiniteSet(T)
  PROVE  /\ IsFiniteSet(S \cup T)
         /\ Cardinality(S \cup T) <= Cardinality(S) + Cardinality(T)
         /\ S \cap T = {} =>
              Cardinality(S \cup T) = Cardinality(S) + Cardinality(T)
<1>1. /\ IsFiniteSet(S \cup T)
      /\ Cardinality(S \cup T) =
            Cardinality(S) + Cardinality(T) - Cardinality(S \cap T)
  BY FS_Union
<1>2. /\ Cardinality(S) \in Nat /\ Cardinality(T) \in Nat
      /\ Cardinality(S \cap T) \in Nat
  BY FS_Subset, FS_CardinalityType
<1>3. S \cap T = {} => Cardinality(S \cap T) = 0
  BY FS_EmptySet
<1>. QED
  BY <1>1, <1>2, <1>3

-----------------------------------------------------------------------------
(* What the log keeps                                                       *)

(* The log only grows.                                                      *)
LogKept == \A e \in Committed : e \in Committed' /\ log'[e] = log[e]

LEMMA CommitEffect ==
  ASSUME TypeOK, NEW w \in Writer, NEW e \in Entry, Commit(w, e)
  PROVE  /\ log' \in [Entry -> Row \cup {None}]
         /\ Committed' = Committed \cup {e}
         /\ LogKept
         /\ UNCHANGED <<clock, walk>>
         /\ txn' \in [Writer -> (0 .. MaxTime) \cup {None}]
<1>1. PICK o \in Org : log' = [log EXCEPT ![e] = [org |-> o, stamp |-> txn[w]]]
  BY DEF Commit
<1> DEFINE row == [org |-> o, stamp |-> txn[w]]
<1>2. txn[w] \in 0 .. MaxTime /\ log[e] = None
  BY DEF Commit, TypeOK
<1>3. row \in Row
  BY <1>2, MaxTimeAssumption DEF Row
<1>4. row # None
  BY <1>3, NoneIsNoRow
<1>5. /\ log \in [Entry -> Row \cup {None}]
      /\ txn \in [Writer -> (0 .. MaxTime) \cup {None}]
      /\ txn' = [txn EXCEPT ![w] = None] /\ UNCHANGED <<clock, walk>>
  BY DEF Commit, TypeOK
<1>6. log' = [log EXCEPT ![e] = row]
  BY <1>1
<1> HIDE DEF row
<1>7. log' \in [Entry -> Row \cup {None}]
  BY <1>3, <1>5, <1>6
<1>8. Committed' = Committed \cup {e}
  BY <1>4, <1>5, <1>6 DEF Committed
<1>9. LogKept
  BY <1>2, <1>5, <1>6, <1>8 DEF LogKept, Committed
<1>. QED
  BY <1>5, <1>7, <1>8, <1>9

\* A step moves the walk and leaves the log alone, or leaves the walk alone.
LEMMA KindOfStep ==
  ASSUME IndTyped, [Next]_vars
  PROVE  \/ /\ UNCHANGED walk /\ LogKept
            /\ log' \in [Entry -> Row \cup {None}]
            /\ txn' \in [Writer -> (0 .. MaxTime) \cup {None}]
            /\ clock' \in 0 .. MaxTime
            /\ IsFiniteSet(Committed')
         \/ /\ UNCHANGED <<log, txn, clock>>
            /\ (\E size \in PageSizes : FirstPage(size))
                 \/ CountTotal \/ ListPage \/ NextPage
<1>1. /\ TypeOK /\ IsFiniteSet(Committed)
      /\ log \in [Entry -> Row \cup {None}]
      /\ txn \in [Writer -> (0 .. MaxTime) \cup {None}]
      /\ clock \in 0 .. MaxTime
  BY DEF IndTyped, TypeOK
<1>2. UNCHANGED log => LogKept /\ Committed' = Committed
  BY DEF LogKept, Committed
<1>3. ASSUME NEW w \in Writer, Begin(w) \/ Rollback(w)
      PROVE  /\ UNCHANGED <<walk, log, clock>>
             /\ txn' \in [Writer -> (0 .. MaxTime) \cup {None}]
  BY <1>1, <1>3 DEF Begin, Rollback
<1>4. ASSUME NEW w \in Writer, NEW e \in Entry, Commit(w, e)
      PROVE  /\ UNCHANGED <<walk, clock>> /\ LogKept
             /\ log' \in [Entry -> Row \cup {None}]
             /\ txn' \in [Writer -> (0 .. MaxTime) \cup {None}]
             /\ IsFiniteSet(Committed')
  BY <1>1, <1>4, CommitEffect, FS_AddElement
<1>5. Tick => UNCHANGED <<walk, log, txn>> /\ clock' \in 0 .. MaxTime
  BY <1>1, MaxTimeAssumption DEF Tick
<1>6. ASSUME \/ \E size \in PageSizes : FirstPage(size)
             \/ CountTotal \/ ListPage \/ NextPage
      PROVE  UNCHANGED <<log, txn, clock>>
  BY <1>6 DEF FirstPage, CountTotal, ListPage, NextPage
<1>7. UNCHANGED vars => UNCHANGED <<walk, log, txn, clock>>
  BY DEF vars
<1>. QED
  BY <1>1, <1>2, <1>3, <1>4, <1>5, <1>6, <1>7 DEF Next

\* What a page may hold: with the entries before it, the first of them all.
LEMMA PageHolds ==
  ASSUME IndTyped, NEW items \in Pages(walk.page, walk.size)
  PROVE  /\ items \subseteq Own
         /\ Cardinality(items) \in Nat /\ Cardinality(items) <= walk.size
         /\ \E before \in SUBSET (Own \ items) :
               /\ Cardinality(before \cup items)
                     = Cardinality(before) + Cardinality(items)
               /\ \A e \in before, f \in Own \ before :
                     log[e].stamp >= log[f].stamp
               /\ \A e \in items, f \in Own \ (before \cup items) :
                     log[e].stamp >= log[f].stamp
               /\ \/ Cardinality(before) = Offset(walk.page, walk.size)
                  \/ /\ Cardinality(before) = Cardinality(Own)
                     /\ Cardinality(Own) < Offset(walk.page, walk.size)
               /\ \/ Cardinality(items) = walk.size
                  \/ Cardinality(before) + Cardinality(items) = Cardinality(Own)
<1> DEFINE skipped == MinOf(Offset(walk.page, walk.size), Cardinality(Own))
           length == MinOf(Limit(walk.size), Cardinality(Own) - skipped)
<1>1. /\ walk.size \in Nat /\ Offset(walk.page, walk.size) \in Nat
      /\ Cardinality(Own) \in Nat
  BY SizeType, Offsets, OwnFinite DEF IndTyped
<1>2. /\ skipped \in Nat /\ skipped <= Cardinality(Own)
      /\ \/ skipped = Offset(walk.page, walk.size)
         \/ /\ skipped = Cardinality(Own)
            /\ Cardinality(Own) < Offset(walk.page, walk.size)
  BY <1>1 DEF MinOf
<1> HIDE DEF skipped
<1>3. /\ length \in Nat /\ length <= walk.size
      /\ length = walk.size \/ skipped + length = Cardinality(Own)
  BY <1>1, <1>2 DEF MinOf, Limit
<1> HIDE DEF length
<1>4. /\ items \subseteq Own /\ Cardinality(items) = length
      /\ \E before \in SUBSET (Own \ items) :
            /\ Cardinality(before) = skipped
            /\ First(before, Own \ before)
            /\ First(items, Own \ (before \cup items))
  BY DEF Pages, skipped, length
<1>5. PICK before \in SUBSET (Own \ items) :
            /\ Cardinality(before) = skipped
            /\ First(before, Own \ before)
            /\ First(items, Own \ (before \cup items))
  BY <1>4
<1>6. IsFiniteSet(before) /\ IsFiniteSet(items) /\ before \cap items = {}
  BY <1>4, <1>5, OwnFinite
<1>7. Cardinality(before \cup items) = Cardinality(before) + Cardinality(items)
  BY <1>6, CountBoth
<1>. QED
  BY <1>2, <1>3, <1>4, <1>5, <1>7 DEF First

LEMMA InitTyped == Init => IndTyped
<1> SUFFICES ASSUME Init PROVE IndTyped
  OBVIOUS
<1>1. Committed = {} /\ Own = {}
  BY DEF Init, Own, Committed
<1>2. TypeOK
  BY MaxTimeAssumption DEF Init, TypeOK, Start
<1>. QED
  BY <1>1, <1>2, FS_EmptySet DEF Init, IndTyped, Start

LEMMA OwnKept ==
  ASSUME LogKept
  PROVE  /\ Own \subseteq Own'
         /\ \A e \in Own : log'[e] = log[e]
  BY DEF LogKept, Own, Committed

LEMMA TypedInductive == IndTyped /\ [Next]_vars => IndTyped'
<1> SUFFICES ASSUME IndTyped, [Next]_vars PROVE IndTyped'
  OBVIOUS
<1>1. CASE /\ UNCHANGED walk /\ LogKept
           /\ log' \in [Entry -> Row \cup {None}]
           /\ txn' \in [Writer -> (0 .. MaxTime) \cup {None}]
           /\ clock' \in 0 .. MaxTime
           /\ IsFiniteSet(Committed')
  BY <1>1, OwnKept DEF IndTyped, TypeOK
<1>2. CASE /\ UNCHANGED <<log, txn, clock>>
           /\ (\E size \in PageSizes : FirstPage(size))
                \/ CountTotal \/ ListPage \/ NextPage
  <2> DEFINE Walks == [pc : {"start", "count", "page", "next", "done"},
                 size : PageSizes \cup {1}, page : Nat \ {0}, total : Nat,
                 shown : Nat, seen : SUBSET Entry, since : SUBSET Entry]
  <2>1. /\ walk \in Walks /\ Own \subseteq Entry /\ Cardinality(Own) \in Nat
        /\ walk.seen \subseteq Own /\ walk.since \subseteq Own
    BY OwnFinite DEF IndTyped, TypeOK
  <2>2. /\ Own' = Own /\ Committed' = Committed
    BY <1>2 DEF Own, Committed
  <2>3. SUFFICES /\ walk' \in Walks /\ walk'.seen \subseteq Own
                 /\ walk'.since \subseteq Own
    BY <1>2, <2>2 DEF IndTyped, TypeOK
  <2>4. ASSUME NEW size \in PageSizes, FirstPage(size)
        PROVE  /\ walk' \in Walks /\ walk'.seen \subseteq Own
               /\ walk'.since \subseteq Own
    BY <2>1, <2>4 DEF FirstPage
  <2>5. CASE CountTotal
    BY <2>1, <2>5 DEF CountTotal
  <2>6. CASE ListPage
    <3>1. PICK items \in Pages(walk.page, walk.size) :
             walk' = [walk EXCEPT !.pc = IF Cardinality(items) < walk.size
                                         THEN "done" ELSE "next",
                                  !.shown = @ + Cardinality(items),
                                  !.seen = @ \cup items]
      BY <2>6 DEF ListPage
    <3>2. items \subseteq Own /\ Cardinality(items) \in Nat
      BY PageHolds
    <3>3. walk.shown + Cardinality(items) \in Nat
      BY <2>1, <3>2
    <3>. QED
      BY <2>1, <3>1, <3>2, <3>3
  <2>7. CASE NextPage
    <3>1. walk.page + 1 \in Nat \ {0}
      BY <2>1
    <3>. QED
      BY <2>1, <2>7, <3>1 DEF NextPage
  <2>. QED
    BY <1>2, <2>4, <2>5, <2>6, <2>7
<1>. QED
  BY <1>1, <1>2, KindOfStep

\* Types, a finite log, and a client that has seen rows of its organization only.
THEOREM TypedInvariant == Spec => []IndTyped
  BY InitTyped, TypedInductive, PTL DEF Spec

\* The log, the transactions and the client keep their types; only finitely
\* many entries are ever committed.
THEOREM TypeCorrect == Spec => []TypeOK
<1>1. IndTyped => TypeOK
  BY DEF IndTyped
<1>. QED
  BY <1>1, TypedInvariant, PTL

-----------------------------------------------------------------------------
(* The walk                                                                 *)

LEMMA InitWalk == Init => IndWalk
<1> SUFFICES ASSUME Init PROVE IndWalk
  OBVIOUS
<1>1. /\ walk = Start /\ walk.pc = "start" /\ walk.shown = 0
      /\ walk.seen = {} /\ walk.since = {} /\ Own = {}
  BY DEF Init, Start, Own, Committed
<1>2. Counts /\ TotalKept /\ Ahead
  BY <1>1 DEF Counts, TotalKept, Ahead
<1>3. RepeatsExplained
  BY <1>1, FS_EmptySet DEF RepeatsExplained
<1>. QED
  BY <1>2, <1>3 DEF IndWalk

\* Entries that are committed while the client walks.
LEMMA LogStep ==
  ASSUME IndTyped, IndTyped', IndWalk, UNCHANGED walk, LogKept
  PROVE  IndWalk'
<1>1. /\ Own \subseteq Own' /\ \A e \in Own : log'[e] = log[e]
      /\ IsFiniteSet(Own')
      /\ walk.seen \subseteq Own /\ walk.since \subseteq Own
  <2>1. IsFiniteSet(Committed') /\ Own' \subseteq Committed'
    BY DEF IndTyped, Own
  <2>. QED
    BY <2>1, OwnKept, CountGrows DEF IndTyped
<1>2. /\ Cardinality(Own) <= Cardinality(Own')
      /\ Cardinality(Own) \in Nat /\ Cardinality(Own') \in Nat
  BY <1>1, CountGrows
<1>3. Counts' /\ TotalKept'
  <2>1. TotalKept'
    BY DEF IndWalk, TotalKept
  <2>2. walk.total \in Nat
    BY DEF IndTyped, TypeOK
  <2>3. walk.pc = "page" => walk.total <= Cardinality(Own')
    BY <1>2, <2>2 DEF IndWalk, Counts
  <2>4. Counts'
    BY <2>3 DEF IndWalk, Counts
  <2>. QED
    BY <2>1, <2>4
<1>4. ASSUME NEW e \in Own
      PROVE  /\ Distinct(e)' => Distinct(e)
             /\ Cardinality(Above(e)) <= Cardinality(Above(e)')
             /\ Cardinality(Above(e)) \in Nat /\ Cardinality(Above(e)') \in Nat
  <2>1. Distinct(e)' => Distinct(e)
    BY <1>1 DEF Distinct
  <2>2. Above(e) \subseteq Above(e)' /\ Above(e)' \subseteq Own'
    BY <1>1 DEF Above
  <2>3. IsFiniteSet(Above(e)')
    BY <1>1, <2>2, CountGrows
  <2>. QED
    BY <2>1, <2>2, <2>3, CountGrows
<1>5. Ahead'
  <2>1. /\ walk.size \in Nat /\ walk.page \in Nat \ {0}
        /\ Offset(walk.page, walk.size) \in Nat
        /\ walk.page * walk.size \in Nat
    BY SizeType, Offsets DEF IndTyped
  <2>2. SUFFICES ASSUME NEW e \in walk.since, Distinct(e)', e \notin walk.seen
        PROVE  /\ walk.pc \in {"count", "page"} =>
                     Cardinality(Above(e)') >= Offset(walk.page, walk.size)
               /\ walk.pc = "next" =>
                     Cardinality(Above(e)') >= walk.page * walk.size
               /\ walk.pc # "done"
    BY DEF Ahead, Offset
  <2>3. /\ walk.pc \in {"count", "page"} =>
              Cardinality(Above(e)) >= Offset(walk.page, walk.size)
        /\ walk.pc = "next" => Cardinality(Above(e)) >= walk.page * walk.size
        /\ walk.pc # "done"
    BY <1>1, <1>4, <2>2 DEF IndWalk, Ahead
  <2>. QED
    BY <1>1, <1>4, <2>1, <2>2, <2>3
<1>6. RepeatsExplained'
  <2>1. SUFFICES ASSUME \A e \in Own' : Distinct(e)'
        PROVE  walk.shown - Cardinality(walk.seen)
                  <= Cardinality(Own' \ walk.since)
    BY DEF RepeatsExplained
  <2>2. walk.shown - Cardinality(walk.seen) <= Cardinality(Own \ walk.since)
    BY <1>1, <1>4, <2>1 DEF IndWalk, RepeatsExplained
  <2>3. /\ Own \ walk.since \subseteq Own' \ walk.since
        /\ IsFiniteSet(Own' \ walk.since)
    BY <1>1, CountGrows
  <2>4. /\ Cardinality(Own \ walk.since) <= Cardinality(Own' \ walk.since)
        /\ Cardinality(Own \ walk.since) \in Nat
        /\ Cardinality(Own' \ walk.since) \in Nat
    BY <2>3, CountGrows
  <2>5. walk.shown \in Nat /\ Cardinality(walk.seen) \in Nat
    BY OwnFinite DEF IndTyped, TypeOK
  <2>. QED
    BY <2>2, <2>4, <2>5
<1>. QED
  BY <1>3, <1>5, <1>6 DEF IndWalk

\* A step of the client leaves the order of the entries as it is.
LEMMA OrderSame ==
  ASSUME UNCHANGED log
  PROVE  /\ Own' = Own
         /\ \A e : (Distinct(e)' <=> Distinct(e)) /\ Above(e)' = Above(e)
  BY DEF Own, Committed, Distinct, Above

LEMMA FirstPageStep ==
  ASSUME IndTyped, IndWalk, NEW size \in PageSizes, FirstPage(size)
  PROVE  IndWalk'
<1>1. /\ walk.pc = "start" /\ walk.page = 1 /\ walk.shown = 0 /\ walk.seen = {}
  BY DEF FirstPage, IndWalk, Counts, Start
<1>2. /\ walk'.pc = "count" /\ walk'.size = size /\ walk'.page = 1
      /\ walk'.shown = 0 /\ walk'.seen = {} /\ walk'.since = Own
      /\ UNCHANGED log
  BY <1>1 DEF FirstPage, IndTyped, TypeOK
<1>3. size \in Nat
  <2>1. size \in 1 .. 100
    BY PageSizesAssumption, Zenon
  <2>. QED
    BY <2>1
<1>4. Offset(1, size) = 0
  BY <1>3, Offsets
<1>5. Counts' /\ TotalKept'
  BY <1>2, <1>4 DEF Counts, TotalKept, Offset
<1>6. Ahead'
  <2>1. SUFFICES ASSUME NEW e \in Own PROVE Cardinality(Above(e)) >= 0
    BY <1>2, <1>4, OrderSame DEF Ahead, Offset
  <2>2. Above(e) \subseteq Own
    BY DEF Above
  <2>. QED
    BY <2>2, OwnFinite
<1>7. RepeatsExplained'
  <2>1. Cardinality(Own \ Own) = 0 /\ Cardinality({}) = 0
    BY FS_EmptySet
  <2>. QED
    BY <1>2, <2>1, OrderSame DEF RepeatsExplained
<1>. QED
  BY <1>5, <1>6, <1>7 DEF IndWalk

LEMMA CountStep ==
  ASSUME IndTyped, IndWalk, CountTotal PROVE IndWalk'
<1>1. /\ walk.pc = "count" /\ walk'.pc = "page" /\ UNCHANGED log
      /\ walk'.size = walk.size /\ walk'.page = walk.page
      /\ walk'.shown = walk.shown /\ walk'.total = Cardinality(Own)
      /\ walk'.seen = walk.seen /\ walk'.since = walk.since
  BY DEF CountTotal, IndTyped, TypeOK
<1>2. Counts' /\ TotalKept'
  BY <1>1, OwnFinite, OrderSame DEF IndWalk, Counts, TotalKept, Offset
<1>3. Ahead'
  BY <1>1, OrderSame DEF IndWalk, Ahead, Offset
<1>4. RepeatsExplained'
  BY <1>1, OrderSame DEF IndWalk, RepeatsExplained
<1>. QED
  BY <1>2, <1>3, <1>4 DEF IndWalk

LEMMA NextPageStep ==
  ASSUME IndTyped, IndWalk, NextPage PROVE IndWalk'
<1>1. /\ walk.pc = "next" /\ walk'.pc = "count" /\ UNCHANGED log
      /\ walk'.size = walk.size /\ walk'.page = walk.page + 1
      /\ walk'.shown = walk.shown
      /\ walk'.seen = walk.seen /\ walk'.since = walk.since
  BY DEF NextPage, IndTyped, TypeOK
<1>2. Offset(walk'.page, walk'.size) = walk.page * walk.size
  BY <1>1, SizeType, Offsets DEF IndTyped
<1>3. Offset(walk.page, walk.size)' = walk.page * walk.size
  BY <1>2 DEF Offset
<1>4. Counts' /\ TotalKept'
  BY <1>1, <1>3 DEF IndWalk, Counts, TotalKept
<1>5. Ahead'
  BY <1>1, <1>3, OrderSame DEF IndWalk, Ahead
<1>6. RepeatsExplained'
  BY <1>1, OrderSame DEF IndWalk, RepeatsExplained
<1>. QED
  BY <1>4, <1>5, <1>6 DEF IndWalk

\* An entry in front of which there are as many as were skipped is not itself
\* one of those skipped.
LEMMA NotBefore ==
  ASSUME IndTyped, NEW before \in SUBSET Own, NEW e \in before,
         \A f \in before, g \in Own \ before : log[f].stamp >= log[g].stamp
  PROVE  Cardinality(Above(e)) < Cardinality(before)
<1>1. Above(e) \subseteq before
  <2> SUFFICES ASSUME NEW f \in Above(e), f \notin before PROVE FALSE
    OBVIOUS
  <2>1. f \in Own /\ e \in Own /\ log[f].stamp > log[e].stamp
    BY DEF Above
  <2>2. log[e].stamp >= log[f].stamp
    BY <2>1
  <2>3. log[e].stamp \in Nat /\ log[f].stamp \in Nat
    BY <2>1, OwnFinite
  <2>. QED
    BY <2>1, <2>2, <2>3
<1>2. e \notin Above(e)
  <2>1. log[e].stamp \in Nat
    BY OwnFinite
  <2>. QED
    BY <2>1 DEF Above
<1>3. IsFiniteSet(before) /\ Cardinality(before) \in Nat
  BY OwnFinite
<1>4. /\ Cardinality(Above(e)) \in Nat
      /\ Cardinality(Above(e)) <= Cardinality(before)
      /\ Cardinality(Above(e)) = Cardinality(before) => Above(e) = before
  BY <1>1, <1>3, FS_Subset, CountGrows
<1>. QED
  BY <1>2, <1>3, <1>4

LEMMA ListPageStep ==
  ASSUME IndTyped, IndWalk, ListPage PROVE IndWalk'
<1>1. PICK items \in Pages(walk.page, walk.size) :
         walk' = [walk EXCEPT !.pc = IF Cardinality(items) < walk.size
                                     THEN "done" ELSE "next",
                              !.shown = @ + Cardinality(items),
                              !.seen = @ \cup items]
  BY DEF ListPage
<1> DEFINE size == walk.size
           skip == Offset(walk.page, size)
           n == Cardinality(items)
<1>2. /\ walk.pc = "page" /\ UNCHANGED log
      /\ walk'.pc = IF n < size THEN "done" ELSE "next"
      /\ walk'.shown = walk.shown + n
      /\ walk'.seen = walk.seen \cup items
      /\ walk'.size = size /\ walk'.page = walk.page
      /\ walk'.total = walk.total /\ walk'.since = walk.since
  BY <1>1 DEF ListPage, IndTyped, TypeOK
<1>3. /\ items \subseteq Own /\ n \in Nat /\ n <= size
  BY PageHolds
<1>4. PICK before \in SUBSET (Own \ items) :
         /\ Cardinality(before \cup items) = Cardinality(before) + n
         /\ \A e \in before, f \in Own \ before : log[e].stamp >= log[f].stamp
         /\ \A e \in items, f \in Own \ (before \cup items) :
               log[e].stamp >= log[f].stamp
         /\ \/ Cardinality(before) = skip
            \/ /\ Cardinality(before) = Cardinality(Own)
               /\ Cardinality(Own) < skip
         /\ \/ n = size
            \/ Cardinality(before) + n = Cardinality(Own)
  BY PageHolds
<1>5. /\ size \in Nat /\ skip \in Nat /\ walk.page * size \in Nat
      /\ walk.page * size = skip + size
  BY SizeType, Offsets DEF IndTyped
<1>6. /\ Cardinality(Own) \in Nat /\ Cardinality(before) \in Nat
      /\ Cardinality(before) <= Cardinality(Own)
      /\ IsFiniteSet(Own) /\ IsFiniteSet(before)
  BY OwnFinite
<1>7. walk.shown = skip /\ walk.total <= Cardinality(Own) /\ walk.total \in Nat
  BY <1>2 DEF IndWalk, Counts, IndTyped, TypeOK
<1> HIDE DEF n, skip, size
<1>8. n = size => walk'.shown = walk.page * size
  BY <1>2, <1>5, <1>7
<1>9. n < size => Cardinality(Own) <= walk'.shown
  BY <1>2, <1>3, <1>4, <1>5, <1>6, <1>7
<1>10. \/ walk'.pc = "next" /\ n = size
       \/ walk'.pc = "done" /\ n < size
  BY <1>2, <1>3, <1>5
<1>11. Counts'
  <2>1. n = size <=> walk'.pc = "next"
    BY <1>3, <1>5, <1>10
  <2>2. walk'.pc # "start" /\ walk'.pc \notin {"count", "page"}
    BY <1>10
  <2>3. walk'.page * walk'.size = walk.page * size
    BY <1>2
  <2>. QED
    BY <1>8, <2>1, <2>2, <2>3 DEF Counts
<1>12. TotalKept'
  <2>1. MinOf(walk.page * size, walk.total) <= walk'.shown
    BY <1>2, <1>3, <1>5, <1>6, <1>7, <1>8, <1>9, <1>10 DEF MinOf
  <2>2. /\ walk'.page * walk'.size = walk.page * size
        /\ walk'.total = walk.total
    BY <1>2
  <2>. QED
    BY <2>1, <2>2 DEF TotalKept, MinOf
<1>13. ASSUME NEW e \in walk.since, Distinct(e), e \notin walk.seen
       PROVE  e \notin before /\ skip <= Cardinality(Above(e)) /\ e \in Own
  <2>1. e \in Own
    BY DEF IndTyped
  <2>2. skip <= Cardinality(Above(e))
    BY <1>2, <1>13 DEF IndWalk, Ahead, skip, size
  <2>3. Above(e) \subseteq Own /\ e \notin Above(e)
    <3>1. log[e].stamp \in Nat
      BY <2>1, OwnFinite
    <3>. QED
      BY <3>1 DEF Above
  <2>4. Cardinality(Above(e)) \in Nat /\ Cardinality(Above(e)) <= Cardinality(Own)
    BY <2>3, OwnFinite
  <2>5. Cardinality(before) <= Cardinality(Above(e))
    BY <1>4, <1>5, <1>6, <2>2, <2>4
  <2>6. e \notin before
    BY <1>4, <1>6, <2>4, <2>5, NotBefore
  <2>. QED
    BY <2>1, <2>2, <2>6
<1>14. Ahead'
  <2>1. SUFFICES ASSUME NEW e \in walk.since, Distinct(e), e \notin walk.seen,
                        e \notin items
        PROVE  n = size /\ Cardinality(Above(e)) >= walk.page * size
    BY <1>2, <1>3, <1>5, <1>10, OrderSame DEF Ahead, size
  <2>2. e \notin before /\ skip <= Cardinality(Above(e)) /\ e \in Own
    BY <1>13, <2>1
  <2>3. before \cup items \subseteq Above(e)
    <3>1. SUFFICES ASSUME NEW f \in before \cup items PROVE f \in Above(e)
      OBVIOUS
    <3>2. f \in Own /\ f # e /\ log[f].stamp >= log[e].stamp
      BY <1>3, <1>4, <2>1, <2>2
    <3>3. log[f].stamp # log[e].stamp
      BY <2>1, <3>2 DEF Distinct
    <3>4. log[f].stamp \in Nat /\ log[e].stamp \in Nat
      BY <2>2, <3>2, OwnFinite
    <3>. QED
      BY <3>2, <3>3, <3>4 DEF Above
  <2>4. Above(e) \subseteq Own \ {e}
    <3>1. log[e].stamp \in Nat
      BY <2>2, OwnFinite
    <3>. QED
      BY <3>1 DEF Above
  <2>5. /\ IsFiniteSet(Own \ {e})
        /\ Cardinality(Own \ {e}) = Cardinality(Own) - 1
    BY <1>6, <2>2, FS_RemoveElement
  <2>6. /\ Cardinality(Above(e)) <= Cardinality(Own) - 1
        /\ Cardinality(Above(e)) \in Nat /\ IsFiniteSet(Above(e))
    BY <2>4, <2>5, CountGrows
  <2>7. Cardinality(before) + n <= Cardinality(Above(e))
    BY <1>4, <2>3, <2>6, CountGrows
  <2>. QED
    BY <1>3, <1>4, <1>5, <1>6, <2>2, <2>6, <2>7
<1>15. RepeatsExplained'
  <2>1. SUFFICES ASSUME \A e \in Own : Distinct(e)
        PROVE  walk.shown + n - Cardinality(walk.seen \cup items)
                  <= Cardinality(Own \ walk.since)
    <3> DEFINE both == walk.seen \cup items
    <3>1. /\ walk'.seen = both /\ walk'.shown = walk.shown + n
          /\ walk'.since = walk.since /\ UNCHANGED log
      BY <1>2
    <3> HIDE DEF both
    <3>2. /\ Own' = Own /\ \A e : Distinct(e)' <=> Distinct(e)
      BY <3>1, OrderSame
    <3>3. SUFFICES ASSUME \A e \in Own : Distinct(e)
          PROVE  walk.shown + n - Cardinality(both)
                    <= Cardinality(Own \ walk.since)
      <4> DEFINE seenLater == Cardinality(walk'.seen)
                 newLater  == Cardinality((Own \ walk.since)')
                 seenNow   == Cardinality(both)
                 newNow    == Cardinality(Own \ walk.since)
      <4>1. seenLater = seenNow
        BY <3>1, Zenon
      <4>2. newLater = newNow
        BY <3>1, <3>2, Zenon
      <4>3. SUFFICES ASSUME (\A e \in Own : Distinct(e))'
            PROVE  walk'.shown - seenLater <= newLater
        BY DEF RepeatsExplained
      <4>4. \A e \in Own : Distinct(e)
        BY <3>2, <4>3
      <4>5. walk.shown + n - seenNow <= newNow
        BY <3>3, <4>4, Zenon
      <4>6. walk'.shown = walk.shown + n
        BY <3>1
      <4>7. seenNow \in Nat /\ newNow \in Nat
        BY <1>3, OwnFinite DEF IndTyped, both
      <4> HIDE DEF seenLater, newLater, seenNow, newNow
      <4>. QED
        BY <1>3, <1>5, <1>7, <4>1, <4>2, <4>5, <4>6, <4>7
    <3>. QED
      BY <2>1, <3>3 DEF both
  <2> DEFINE seen == walk.seen \cup items
             late == Own \ walk.since
  <2>2. /\ IsFiniteSet(seen) /\ Cardinality(seen) \in Nat
        /\ IsFiniteSet(late) /\ Cardinality(late) \in Nat
        /\ Cardinality(walk.seen) \in Nat
    BY <1>3, OwnFinite DEF IndTyped
  <2>3. CASE Cardinality(before) = skip
    <3>1. before \cup items \subseteq seen \cup late
      BY <1>3, <1>13, <2>1
    <3>2. /\ IsFiniteSet(seen \cup late)
          /\ Cardinality(seen \cup late) <= Cardinality(seen) + Cardinality(late)
          /\ Cardinality(seen \cup late) \in Nat
      BY <2>2, CountBoth, FS_CardinalityType
    <3>3. Cardinality(before \cup items) <= Cardinality(seen \cup late)
      BY <3>1, <3>2, CountGrows
    <3>. QED
      BY <1>3, <1>4, <1>5, <1>7, <2>2, <2>3, <3>2, <3>3
  <2>4. CASE Cardinality(before) = Cardinality(Own)
    <3>1. before = Own
      BY <1>6, <2>4, FS_Subset
    <3>2. items = {}
      BY <1>3, <3>1
    <3>3. n = 0
      BY <3>2, FS_EmptySet DEF n
    <3>4. Cardinality(seen) = Cardinality(walk.seen)
      <4>1. seen = walk.seen
        BY <3>2
      <4>. QED
        BY <4>1, Zenon
    <3>5. walk.shown - Cardinality(walk.seen) <= Cardinality(late)
      BY <2>1 DEF IndWalk, RepeatsExplained
    <3>. QED
      BY <1>5, <1>7, <2>2, <3>3, <3>5, <3>4
  <2>. QED
    BY <1>4, <2>3, <2>4
<1>. QED
  BY <1>11, <1>12, <1>14, <1>15 DEF IndWalk

LEMMA WalkInductive == IndTyped /\ IndWalk /\ [Next]_vars => IndWalk'
  BY TypedInductive, KindOfStep, LogStep, FirstPageStep, CountStep, ListPageStep,
     NextPageStep

\* Where a client that pages through the log stands: what was skipped is what was
\* shown, and every entry still to be seen is behind it.
THEOREM WalkInvariant == Spec => [](IndTyped /\ IndWalk)
  BY InitTyped, InitWalk, TypedInductive, WalkInductive, PTL DEF Spec

\* However many entries are committed while a client pages through the log, and
\* wherever in the order they appear, the walk has shown every entry that was
\* there when it began, unless it shares its stamp with another.
THEOREM WalksComplete == Spec => []WalkComplete
<1>1. IndWalk => WalkComplete
  BY DEF IndWalk, Ahead, WalkComplete
<1>. QED
  BY <1>1, WalkInvariant, PTL

\* As long as no two stamps are equal, entries are shown again no more often than
\* others were committed since the walk began, wherever they are in the order.
THEOREM RepetitionsExplained == Spec => []RepeatsExplained
<1>1. IndWalk => RepeatsExplained
  BY DEF IndWalk
<1>. QED
  BY <1>1, WalkInvariant, PTL

\* The total of list_audit_logs is kept: the pages up to this one have shown as
\* many entries as it promises, or are full.
THEOREM TotalsKept == Spec => []TotalKept
<1>1. IndWalk => TotalKept
  BY DEF IndWalk
<1>. QED
  BY <1>1, WalkInvariant, PTL
=============================================================================
