---------------------------- MODULE MCFilelists ----------------------------
(* Filelists for TLC: two threads that compare, two snapshots, no overlap, *)
(* no failure.  Versions, overlap and refusals of the filesystem are in    *)
(* MCLibrary.                                                              *)
EXTENDS Filelists, TLC

Symmetry == Permutations(Comparer)
=============================================================================
