----------------------------- MODULE MCCleanup -----------------------------
(* An instance of Cleanup for TLC: three snapshots and a later one, two    *)
(* lengths of periods that are not aligned.                                *)
EXTENDS Cleanup

(* The algorithms in a row: each also runs on lists in which the ones      *)
(* before it find nothing.                                                 *)
MCCommands == {All}

MCDate == <<1, 2, 3, 5>>
=============================================================================
