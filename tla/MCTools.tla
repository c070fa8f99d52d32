------------------------------ MODULE MCTools -------------------------------
(* The tools around snapper: backups with snbk and the search for a parent *)
(* for them, the plugins of zypp and PAM with their pairs of snapshots and *)
(* messages, and mksubvolume. The components share nothing here; focus,    *)
(* chosen at the start, says which of them runs.                           *)
EXTENDS Backup, Sequences

CONSTANTS
    timer, user,                            \* Backup: the processes
    ZyppPlugins, PamHandles, CreateCommands,\* PrePost
    MaxPairSnapshots, MaxProcesses, MaxPairMishaps,\* PrePost
    Numbers, Unmanaged,                     \* TreeView
    Runs, MaxStarts, MaxMkFaults, MaxEdits  \* Mksubvolume

VARIABLES
    focus,
    saved, newest, locked, process, pairMishaps,
    pipe, closed, sent, dispatched, answers, plugin,
    tree, start, queue, visited, found,
    fstab, mtab, defaultSubvol, subvols, plainDirs, targetDirs, nocow, mkRun,
    tmpMounts, staleTable, starts, mkFaults, edits

pairVars == <<saved, newest, locked, process, pairMishaps>>
stompVars == <<pipe, closed, sent, dispatched, answers, plugin>>
treeVars == <<tree, start, queue, visited, found>>
mkVars == <<fstab, mtab, defaultSubvol, subvols, plainDirs, targetDirs, nocow,
            mkRun, tmpMounts, staleTable, starts, mkFaults, edits>>

(* The commands that the timer and the user may give to snbk.              *)
MCCommands == {<<"transfer", 0>>, <<"delete", 0>>, <<"restore", 0>>,
               <<"transfer", 1>>, <<"delete", 1>>}

P == INSTANCE PrePost

Z == INSTANCE Stomp

T == INSTANCE TreeView

M == INSTANCE Mksubvolume WITH
    stale <- staleTable

all == <<focus, vars, pairVars, stompVars, treeVars, mkVars>>

MCInit ==
    /\ focus \in {"backup", "pairs", "stomp", "tree", "mksubvolume"}
    /\ Init /\ P!Init /\ Z!Init /\ T!Init /\ M!Init
    /\ focus # "mksubvolume" => ~defaultSubvol /\ Len(fstab) = 1

MCNext ==
    /\ UNCHANGED focus
    /\ \/ /\ focus = "backup" /\ Next
          /\ UNCHANGED <<pairVars, stompVars, treeVars, mkVars>>
       \/ /\ focus = "pairs" /\ (P!Next \/ UNCHANGED pairVars)
          /\ UNCHANGED <<vars, stompVars, treeVars, mkVars>>
       \/ /\ focus = "stomp" /\ (Z!Next \/ UNCHANGED stompVars)
          /\ UNCHANGED <<vars, pairVars, treeVars, mkVars>>
       \/ /\ focus = "tree" /\ T!Next
          /\ UNCHANGED <<vars, pairVars, stompVars, mkVars>>
       \/ /\ focus = "mksubvolume" /\ (M!Next \/ UNCHANGED mkVars)
          /\ UNCHANGED <<vars, pairVars, stompVars, treeVars>>

(* The fairness of each component, in its own behaviours.                  *)
MCFairness ==
    /\ \A p \in Procs : WF_vars(focus = "backup" /\ Progress(p))
    /\ WF_vars(focus = "backup" /\ Start(Timer))
    /\ \A s \in ZyppPlugins : WF_pairVars(focus = "pairs" /\ (P!Step(s) \/ P!EndProcess(s)))
    /\ \A s \in ZyppPlugins, r \in 1..MaxProcesses :
          WF_pairVars(focus = "pairs" /\ P!Disconnect(<<s, r>>))

MCSpec == MCInit /\ [][MCNext]_all /\ MCFairness

-----------------------------------------------------------------------------
(* TheBigThing::transfer and remove of snbk: a snapshot counts as          *)
(* transferred only when it is complete, a send relative to a parent only  *)
(* uses one that both sides have, a subvolume on the target has its        *)
(* metadata, and TreeView::find_nearest_valid_node finds a nearest valid   *)
(* parent.                                                                 *)
BackupsRight ==
    /\ focus = "backup" =>
          /\ TypeOK /\ TransferComplete /\ ParentOnBothSides
          /\ InfoWithSubvolume
    /\ focus = "tree" => T!NearestFound

(* The plugins for zypp and PAM: a post snapshot belongs to the pre        *)
(* snapshot of its own process, a pre snapshot gets one post snapshot at   *)
(* most, and the pre snapshot of a commit stays until the post snapshot is *)
(* made.                                                                   *)
PairsRight ==
    focus = "pairs" => P!OwnPair /\ P!OnePostEach /\ P!PreKept

(* read_message, write_message and the loop of the zypp plugin: the        *)
(* messages of libzypp are dispatched unchanged and in order, and a plugin *)
(* that ended has answered every whole frame.                              *)
StompRight ==
    focus = "stomp" => Z!DispatchedAsSent /\ Z!AllAnswered

(* mksubvolume: only failing system calls, the administrator or a target   *)
(* that is something else make it refuse, so what a failed or killed run   *)
(* left can be completed by another; no target gets two lines in           *)
(* /etc/fstab.                                                             *)
MksubvolumeRight ==
    focus = "mksubvolume" => M!RerunWorks /\ M!OneLine

(* What no step of the tools does: remove a complete backup nobody asked   *)
(* to remove, report success of a mksubvolume that left subvolume, mount,  *)
(* line or flag out, or change the flag of another subvolume.              *)
ToolSteps ==
    [][/\ focus = "backup" => GoodBackupsKept
       /\ focus = "mksubvolume" => M!SuccessComplete /\ M!OtherFlagsKept]_all

(* What happens in the end: once changes and failures stop the hourly      *)
(* timer of snbk has every read-only snapshot on the target, and the locks *)
(* of the zypp plugins are released.                                       *)
ToolProgress ==
    focus = "backup" => EventuallyBackedUp
    /\ P!LocksReleased
=============================================================================
