--------------------------- MODULE MCAuditReader ----------------------------
(* Symmetry for the model-checking run of AuditReader. *)
EXTENDS AuditReader, TLC

Symmetry == Permutations(Entry) \cup Permutations(Writer)
=============================================================================
