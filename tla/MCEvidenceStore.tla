--------------------------- MODULE MCEvidenceStore ---------------------------
(***************************************************************************)
(* EvidenceStore on small instances: uploads that name the run or do not,  *)
(* one of them infected, and two exports, so that a package may hold one.  *)
(***************************************************************************)
EXTENDS EvidenceStore, TLC

Symmetry == Permutations(Export)
=============================================================================
