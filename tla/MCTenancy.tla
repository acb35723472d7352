----------------------------- MODULE MCTenancy -----------------------------
(* Symmetry for the model-checking runs of Tenancy. *)
EXTENDS Tenancy, TLC

Symmetry ==
    Permutations(User) \cup Permutations(Org) \cup Permutations(Membership)
        \cup Permutations(Invitation) \cup Permutations(Request)
=============================================================================
