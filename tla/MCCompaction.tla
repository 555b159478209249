---------------------------- MODULE MCCompaction ----------------------------
(***************************************************************************)
(* Compaction with interchangeable calls of Compact.                        *)
(***************************************************************************)
EXTENDS Compaction

Symmetry == Permutations(Compactor)
=============================================================================
