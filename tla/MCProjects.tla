----------------------------- MODULE MCProjects -----------------------------
(* Symmetry for the model-checking runs of Projects. *)
EXTENDS Projects, TLC

ProjectSymmetry ==
    Permutations(User) \cup Permutations(Org) \cup Permutations(Membership)
        \cup Permutations(Call) \cup Permutations(Name)

\* No guard reads answer: states that differ in it alone are explored once.
Unanswered == <<vars, projects, log, work>>
=============================================================================
