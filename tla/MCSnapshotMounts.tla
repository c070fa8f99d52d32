-------------------------- MODULE MCSnapshotMounts --------------------------
(* SnapshotMounts for TLC, with two clients: the Snapper is unloaded       *)
(* although a client holds a mount.  Everything else that may happen is in *)
(* MCServer.                                                               *)
EXTENDS SnapshotMounts
=============================================================================
