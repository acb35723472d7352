------------------------ MODULE TokenFamiliesProofs ------------------------
(***************************************************************************)
(* The abstract specification of rotation keeps what it promises, so every  *)
(* specification that implements it does.                                   *)
(***************************************************************************)
EXTENDS TokenFamilies, TLAPS

\* A live token has been issued, and a family's first token is of the family.
Founded ==
    /\ \A t \in live : family[t] # None
    /\ \A t \in Token : family[t] # None => family[family[t]] # None

Inv == TypeOK /\ Founded /\ OneLive

LEMMA InvInit == ASSUME None \notin Token PROVE Init => Inv
  BY DEF Init, Inv, TypeOK, Founded, OneLive

LEMMA InvNext == ASSUME None \notin Token PROVE Inv /\ [Next]_vars => Inv'
<1> SUFFICES ASSUME Inv, [Next]_vars PROVE Inv'
  OBVIOUS
<1> USE DEF Inv
<1>1. ASSUME NEW t \in Token, Start(t) PROVE Inv'
  BY <1>1 DEF Start, Fresh, TypeOK, Founded, OneLive
<1>2. ASSUME NEW t \in Token, End(t) PROVE Inv'
  BY <1>2 DEF End, TypeOK, Founded, OneLive
<1>3. ASSUME NEW f \in Token, EndFamily(f) PROVE Inv'
  BY <1>3 DEF EndFamily, TypeOK, Founded, OneLive
<1>4. ASSUME NEW t \in Token, NEW c \in Token, Exchange(t, c) PROVE Inv'
  BY <1>4 DEF Exchange, Fresh, TypeOK, Founded, OneLive
<1>5. CASE UNCHANGED vars
  BY <1>5 DEF vars, TypeOK, Founded, OneLive
<1>. QED
  BY <1>1, <1>2, <1>3, <1>4, <1>5 DEF Next

\* No family has two tokens that work.
THEOREM FamiliesOneLive == ASSUME None \notin Token PROVE Spec => []OneLive
<1>1. Inv => OneLive
  BY DEF Inv
<1>. QED
  BY <1>1, InvInit, InvNext, PTL DEF Spec

\* A token that has stopped working never works again.
THEOREM FamiliesEndedForGood ==
  ASSUME None \notin Token PROVE Spec => EndedForGood
<1>1. [Next]_vars =>
        [\A t \in Token : family[t] # None /\ t \notin live => t \notin live']_vars
  BY DEF Next, vars, Start, End, EndFamily, Exchange, Fresh
<1>. QED
  BY <1>1, PTL DEF Spec, EndedForGood
=============================================================================
