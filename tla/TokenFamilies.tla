--------------------------- MODULE TokenFamilies ---------------------------
(***************************************************************************)
(* What refresh-token rotation promises, without requests, time or owners:  *)
(* a family starts with one live token, an exchange replaces the live token *)
(* by a new one of the same family, and a token or a whole family can be    *)
(* ended.  A token is exchanged at most once and only while it is live.     *)
(***************************************************************************)
CONSTANTS Token, None

VARIABLES
    family,  \* the family of each token issued, None for the others
    live     \* the tokens that can still be exchanged

vars == <<family, live>>

Fresh == {t \in Token : family[t] = None}
Members(f) == {t \in Token : family[t] = f}

TypeOK ==
    /\ family \in [Token -> Token \cup {None}]
    /\ live \subseteq Token

Init ==
    /\ family = [t \in Token |-> None]
    /\ live = {}

\* A family is named by its first token.
Start(t) ==
    /\ t \in Fresh
    /\ family' = [family EXCEPT ![t] = t]
    /\ live' = live \cup {t}

Exchange(t, c) ==
    /\ t \in live
    /\ c \in Fresh
    /\ family' = [family EXCEPT ![c] = family[t]]
    /\ live' = (live \ {t}) \cup {c}

End(t) ==
    /\ t \in live
    /\ live' = live \ {t}
    /\ UNCHANGED family

EndFamily(f) ==
    /\ live' = live \ Members(f)
    /\ UNCHANGED family

Next ==
    \/ \E t \in Token : Start(t) \/ End(t) \/ EndFamily(t)
    \/ \E t, c \in Token : Exchange(t, c)

Spec == Init /\ [][Next]_vars

\* The promise a client relies on: no family has two tokens that work.
OneLive == \A s, t \in live : family[s] = family[t] => s = t

\* A token that has stopped working never works again.
EndedForGood ==
    [][\A t \in Token : family[t] # None /\ t \notin live => t \notin live']_vars
=============================================================================
