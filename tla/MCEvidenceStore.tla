--------------------------- MODULE MCEvidenceStore ---------------------------
(* Model-checking instance of EvidenceStore: contents and processes are model *)
(* values; symmetry is used only by runs that check safety.                   *)
EXTENDS EvidenceStore, TLC

Symmetry == Permutations(Proc) \cup Permutations(Content) \cup Permutations(Quarantine)
=============================================================================
