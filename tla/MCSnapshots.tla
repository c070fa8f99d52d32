---------------------------- MODULE MCSnapshots ----------------------------
(* Instances of Snapshots for TLC.  Three numbers are enough for a pair, a *)
(* single snapshot and a number that is given again:                       *)
(*   All    every call may fail, two kinds of calls in one behaviour, and  *)
(*          a crash at any step                                            *)
(*   Reuse  only creations that fail, no crashes                           *)
EXTENDS Snapshots
=============================================================================
