------------------------------- MODULE MCServer -----------------------------
(* What must happen in the end: the clean-up of disconnected clients and   *)
(* their mounts, the transfer of a list of files, the main loop and the    *)
(* commands snapper runs.  The components share nothing here; "focus",     *)
(* chosen at the start, says which of them runs.                           *)
EXTENDS SnapshotMounts, Sequences

CONSTANTS
    PipeSize, MaxTransfers,        \* Transfer
    MaxMessages,                   \* MainLoop
    PipeCapacity, MaxOutput        \* SystemCmd

VARIABLES
    focus,
    comparison, tasks, transferThread, pipeOf, wanted, reader, mainLoop, zombie, killed,
    socket, incoming, outgoing, wakeups, watches, pc, pollfds, idle, clientState, requests,
    delivered,
    fifo, child, outLines, newLineSeen, waiting, reaped, retcode, wrote

transferVars ==
    <<comparison, tasks, transferThread, pipeOf, wanted, reader, mainLoop, zombie, killed>>
loopVars ==
    <<socket, incoming, outgoing, wakeups, watches, pc, pollfds, idle, clientState, requests,
      delivered>>
cmdVars == <<fifo, child, outLines, newLineSeen, waiting, reaped, retcode, wrote>>

T == INSTANCE Transfer WITH asked <- wanted

L == INSTANCE MainLoop

S == INSTANCE SystemCmd

all == <<focus, vars, transferVars, loopVars, cmdVars>>

MCInit ==
    /\ focus \in {"mounts", "transfer", "loop", "command"}
    /\ Init /\ T!Init /\ L!Init /\ S!Init

MCNext ==
    /\ UNCHANGED focus
    /\ \/ /\ focus = "mounts" /\ Next
          /\ UNCHANGED <<transferVars, loopVars, cmdVars>>
       \/ /\ focus = "transfer" /\ T!Next
          /\ UNCHANGED <<vars, loopVars, cmdVars>>
       \/ /\ focus = "loop" /\ L!Next
          /\ UNCHANGED <<vars, transferVars, cmdVars>>
       \/ /\ focus = "command" /\ S!Next
          /\ UNCHANGED <<vars, transferVars, loopVars>>

(* The fairness of each component, in its own behaviours.                  *)
MCFairness ==
    /\ \A cl \in Client : WF_vars(focus = "mounts" /\ Reap(cl))
    /\ WF_vars(focus = "mounts" /\ Unload)
    /\ WF_vars(focus = "mounts" /\ CompareMounts)
    /\ WF_vars(focus = "mounts" /\ CompareReadsAgain)
    /\ WF_vars(focus = "mounts" /\ CompareUmounts)
    /\ WF_transferVars(focus = "transfer" /\ (T!TakeTask \/ T!Write \/ T!CloseWriteEnd \/ T!Interrupted))
    /\ WF_transferVars(focus = "transfer" /\ (T!client_disconnected \/ T!remove_zombies \/ T!Joined))
    /\ WF_transferVars(focus = "transfer" /\ (T!ReadCharacter \/ T!ReadEnd))
    /\ WF_loopVars(focus = "loop" /\ L!Turn)
    /\ WF_loopVars(focus = "loop" /\ L!SendReply)
    /\ WF_loopVars(focus = "loop" /\ L!TimePasses)
    /\ WF_cmdVars(focus = "command" /\ S!Parent)
    /\ WF_cmdVars(focus = "command" /\ S!CommandEnds /\ \A s \in S!Streams : Len(fifo[s]) < PipeCapacity)

MCSpec == MCInit /\ [][MCNext]_all /\ MCFairness

-----------------------------------------------------------------------------
(* SnapperMounts and the use counts of Snapshot::mountFilesystemSnapshot:  *)
(* a snapshot a client or a comparison holds is mounted, the count of uses *)
(* agrees with who holds it, and a mount made by the user is not taken     *)
(* away, unless a named race disturbed the count.                          *)
MountsRight ==
    focus = "mounts" => TypeOK /\ UserMountKept /\ UseCountAgrees /\ HeldMounted

(* get_files_by_pipe: the client gets the files of its comparison, whole   *)
(* names in order, all of them if there was no error; MainLoop::run        *)
(* neither waits nor ends with a message not dispatched or a reply not     *)
(* sent; SystemCmd keeps every line a command writes.                      *)
NothingLost ==
    /\ focus = "transfer" => T!ListExact /\ T!NamesInOrder
    /\ focus = "loop" => L!NoneForgotten /\ L!EndsEmpty
    /\ focus = "command" => S!OutputKept

(* What happens in the end: mounts are unmounted after their clients left, *)
(* a zombie whose thread writes to a pipe nobody reads is removed, replies *)
(* that client threads send reach the bus, and a command never stays stuck *)
(* on a full pipe.                                                         *)
ServerProgress ==
    /\ UnmountedUndisturbed
    /\ T!ZombieRemoved
    /\ L!RepliesWritten
    /\ S!CommandFinishes
=============================================================================
