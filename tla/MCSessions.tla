----------------------------- MODULE MCSessions -----------------------------
(* Symmetry for the model-checking runs of Sessions.  Ids, users and          *)
(* requests are interchangeable; the sets are used only where no liveness     *)
(* property is checked.                                                       *)
EXTENDS Sessions, TLC

Symmetry ==
    Permutations(Session) \cup Permutations(User) \cup Permutations(Request)
=============================================================================
