----------------------------- MODULE MCSnapperd -----------------------------
(* Instances of the daemon for TLC: two clients, one of them root, and one *)
(* config.  The configurations differ in what the clients may hold, since  *)
(* comparisons, tasks, locks and mounts multiply the states:               *)
(*   Refs          all of them, a few at a time                            *)
(*   Live          background tasks, under fairness                        *)
(*   ZombieMounts  mounts, under fairness                                  *)
EXTENDS Snapperd

(* The bound of Refs: locks, mounts, comparisons and tasks at a time.      *)
MaxHeld == 2

Locked == {<<cl, c>> \in Client \X Config : locks[cl][c] > 0}

Mounted == {<<cl, c, n>> \in Client \X Config \X Num : mounts[cl][c][n] > 0}

FewHeld ==
    Cardinality(Locked) + Cardinality(Mounted) + Cardinality(comparisons) + Len(tasks) <= MaxHeld
=============================================================================
