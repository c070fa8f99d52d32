------------------------------- MODULE PrePost -------------------------------
(***************************************************************************)
(* The programs that put a pair of snapshots around something: the libzypp *)
(* commit plugin around a package transaction, pam_snapper around a login  *)
(* session and "snapper create --command" around a command.  Each one asks *)
(* snapperd over D-Bus for a pre snapshot, remembers its number and later  *)
(* asks for the post snapshot; the zypp plugin also locks the config.      *)
(*                                                                         *)
(* One configuration.  snapperd is what these programs see of it: the list *)
(* of snapshots, whose numbers are not reused, and the locks of the        *)
(* connections.  A request is one step, as snapperd serves it under        *)
(* big_mutex.  Mishaps: a request that fails, an answer that is lost after *)
(* the snapshot was made (a timeout, a killed child), a process that dies. *)
(***************************************************************************)
EXTENDS Naturals, FiniteSets, Sequences, SequencesExt

CONSTANTS ZyppPlugins, PamHandles, CreateCommands,
          MaxPairSnapshots,     \* bound: snapshots ever made
          MaxProcesses,         \* bound: processes ever started
          MaxPairMishaps        \* bound: failed requests, lost answers, deaths

VARIABLES saved,        \* the snapshots: number -> [type, pre, owner]
          newest,       \* the highest number used so far
          locked,       \* the connections that hold a lock on the config
          process,      \* [run, step, num, opt] of every slot
          pairMishaps   \* mishaps so far

pairVars == <<saved, newest, locked, process, pairMishaps>>

Slots == ZyppPlugins \cup PamHandles \cup CreateCommands

Connection(s) == <<s, process[s].run>>

(* The connection of a client that is none of these programs. *)
Other == <<"other", 0>>

Both == [open |-> TRUE, close |-> TRUE]
NoOptions == [open |-> FALSE, close |-> FALSE]

Fresh == [run |-> 0, step |-> "idle", num |-> 0, opt |-> Both]

Init ==
    /\ saved = <<>> /\ newest = 0 /\ locked = {} /\ pairMishaps = 0
    /\ process = [s \in Slots |-> Fresh]

Mishap == pairMishaps < MaxPairMishaps /\ pairMishaps' = pairMishaps + 1

Gone(s) == process' = [process EXCEPT ![s] = [Fresh EXCEPT !.run = process[s].run]]

Goto(s, step) == process' = [process EXCEPT ![s].step = step]

-----------------------------------------------------------------------------
(* snapperd *)

findPost(pre) == \E n \in DOMAIN saved : saved[n].type = "post" /\ saved[n].pre = pre

(* What Snapshots::createPostSnapshot wants of the pre snapshot it is given. *)
createPostSnapshot(pre) ==
    pre \in DOMAIN saved /\ saved[pre].type = "pre" /\ ~findPost(pre)

Granted(type, pre) == newest < MaxPairSnapshots /\ (type = "post" => createPostSnapshot(pre))

Save(type, pre, owner) ==
    /\ newest' = newest + 1
    /\ saved' = [n \in DOMAIN saved \cup {newest + 1} |->
                    IF n \in DOMAIN saved THEN saved[n]
                    ELSE [type |-> type, pre |-> pre, owner |-> owner]]

(* Client::check_lock: no other client has a lock. *)
check_lock(owner) == locked \subseteq {owner}

DeleteSnapshots(owner, n) ==
    /\ check_lock(owner) /\ n \in DOMAIN saved
    /\ saved' = [m \in DOMAIN saved \ {n} |-> saved[m]]

(* A process asks for a snapshot.  Once it is answered it knows the number *)
(* (where it keeps it) and goes to `good'; otherwise it goes to `bad'.     *)
Ask(s, type, pre, keeps, good, bad) ==
    /\ \/ /\ Granted(type, pre)
          /\ Save(type, pre, Connection(s))
          /\ \/ /\ process' = [process EXCEPT ![s].step = good,
                                              ![s].num = IF keeps THEN newest + 1 ELSE @]
                /\ UNCHANGED pairMishaps
             \/ Mishap /\ Goto(s, bad)
       \/ /\ IF Granted(type, pre) THEN Mishap ELSE UNCHANGED pairMishaps
          /\ Goto(s, bad)
          /\ UNCHANGED <<saved, newest>>
    /\ UNCHANGED locked

-----------------------------------------------------------------------------
(* snapper-zypp-plugin: PLUGINBEGIN, COMMITBEGIN, COMMITEND and PLUGINEND or *)
(* the end of the input.                                                     *)

PluginBegin(s) ==
    /\ s \in ZyppPlugins /\ process[s].step = "started"
    /\ Goto(s, "begun")
    /\ UNCHANGED <<saved, newest, locked, pairMishaps>>

CommitBegin(s) ==
    /\ s \in ZyppPlugins /\ process[s].step = "begun"
    /\ \E found \in BOOLEAN : Goto(s, IF found THEN "lock" ELSE "commit")
    /\ UNCHANGED <<saved, newest, locked, pairMishaps>>

(* The plugin goes on without the lock when it does not get it. *)
Lock(s) ==
    /\ process[s].step = "lock"
    /\ \/ locked' = locked \cup {Connection(s)} /\ UNCHANGED pairMishaps
       \/ Mishap /\ UNCHANGED locked
    /\ Goto(s, "pre")
    /\ UNCHANGED <<saved, newest>>

(* ... and without a pre snapshot when it does not get that. *)
CommitPre(s) ==
    process[s].step = "pre" /\ Ask(s, "pre", 0, TRUE, "commit", "commit")

(* Without a pre snapshot there is nothing to do, the lock stays as it is. *)
CommitEnd(s) ==
    /\ s \in ZyppPlugins /\ process[s].step = "commit"
    /\ IF process[s].num = 0 THEN Goto(s, "ended")
       ELSE \E found \in BOOLEAN : Goto(s, IF found THEN "post" ELSE "delete")
    /\ UNCHANGED <<saved, newest, locked, pairMishaps>>

CommitPost(s) ==
    process[s].step = "post"
    /\ Ask(s, "post", process[s].num, FALSE, "unlock", "unlock")

CommitDelete(s) ==
    /\ process[s].step = "delete"
    /\ \/ DeleteSnapshots(Connection(s), process[s].num) /\ UNCHANGED pairMishaps
       \/ /\ IF check_lock(Connection(s)) /\ process[s].num \in DOMAIN saved
             THEN Mishap ELSE UNCHANGED pairMishaps
          /\ UNCHANGED saved
    /\ Goto(s, "unlock")
    /\ UNCHANGED <<newest, locked>>

Unlock(s) ==
    /\ process[s].step = "unlock"
    /\ \/ locked' = locked \ {Connection(s)} /\ UNCHANGED pairMishaps
       \/ Mishap /\ UNCHANGED locked
    /\ Goto(s, "ended")
    /\ UNCHANGED <<saved, newest>>

-----------------------------------------------------------------------------
(* pam_snapper: the number is kept as data of the PAM handle. *)

PamArguments == {"openonly", "closeonly", "ignoreroot"}

(* The last of "openonly" and "closeonly" counts. *)
options_parser(args) ==
    FoldLeft(LAMBDA o, a : CASE a = "openonly"   -> [open |-> TRUE, close |-> FALSE]
                             [] a = "closeonly"  -> [open |-> FALSE, close |-> TRUE]
                             [] a = "ignoreroot" -> o,
             Both, args)

(* With "ignoreroot" nothing is done for root. *)
check_ignore(args, user) == user = "root" /\ \E i \in DOMAIN args : args[i] = "ignoreroot"

PamStart(s) ==
    /\ s \in PamHandles /\ process[s].step = "started"
    /\ \E args \in SeqOf(PamArguments, 2), user \in {"root", "tux"} :
          process' = [process EXCEPT ![s].step = "closed",
                                     ![s].opt = IF check_ignore(args, user) THEN NoOptions
                                                ELSE options_parser(args)]
    /\ UNCHANGED <<saved, newest, locked, pairMishaps>>

(* forker(): a child with the ids of the user asks, the parent waits for it *)
(* and takes the number over if the child succeeded.                        *)
forker(s, createmode, num_in, next) == Ask(s, createmode, num_in, TRUE, next, next)

(* worker(): the post snapshot needs the number an earlier one left; the    *)
(* number of whatever was created is left in its place.                     *)
worker(s, createmode, next) ==
    IF createmode = "post" /\ process[s].num = 0
    THEN Goto(s, next) /\ UNCHANGED <<saved, newest, locked, pairMishaps>>
    ELSE forker(s, createmode, IF createmode = "post" THEN process[s].num ELSE 0, next)

PamOpen(s) ==
    /\ s \in PamHandles /\ process[s].step = "closed"
    /\ LET opt == process[s].opt
       IN IF opt.open
          THEN worker(s, IF opt.close THEN "pre" ELSE "single", "opened")
          ELSE Goto(s, "opened") /\ UNCHANGED <<saved, newest, locked, pairMishaps>>

(* Mutant: the newest pre snapshot of the config is taken for the own one. *)
PamCloseNewest(s) ==
    /\ s \in PamHandles /\ process[s].step = "opened"
    /\ LET opt == process[s].opt
       IN IF opt.close
          THEN IF opt.open
               THEN forker(s, "post", newest, "closed")
               ELSE worker(s, "single", "closed")
          ELSE Goto(s, "closed") /\ UNCHANGED <<saved, newest, locked, pairMishaps>>

PamClose(s) ==
    /\ s \in PamHandles /\ process[s].step = "opened"
    /\ LET opt == process[s].opt
       IN IF opt.close
          THEN worker(s, IF opt.open THEN "post" ELSE "single", "closed")
          ELSE Goto(s, "closed") /\ UNCHANGED <<saved, newest, locked, pairMishaps>>

-----------------------------------------------------------------------------
(* snapper create --command; an exception ends the process. *)

CreatePre(s) ==
    /\ s \in CreateCommands /\ process[s].step = "started"
    /\ Ask(s, "pre", 0, TRUE, "command", "ended")

(* system() may fail to fork. *)
RunCommand(s) ==
    /\ process[s].step = "command"
    /\ \/ Goto(s, "second") /\ UNCHANGED pairMishaps
       \/ Mishap /\ Goto(s, "ended")
    /\ UNCHANGED <<saved, newest, locked>>

CreatePost(s) ==
    process[s].step = "second" /\ Ask(s, "post", process[s].num, FALSE, "ended", "ended")

-----------------------------------------------------------------------------
(* The world around them *)

Started == Max({process[s].run : s \in Slots})

StartProcess(s) ==
    /\ process[s].step = "idle" /\ Started < MaxProcesses
    /\ process' = [process EXCEPT ![s].run = Started + 1, ![s].step = "started"]
    /\ UNCHANGED <<saved, newest, locked, pairMishaps>>

(* The process ends after its last step, a PAM handle when it is closed. *)
EndProcess(s) ==
    /\ process[s].step \in {"ended", "closed"}
    /\ Gone(s)
    /\ UNCHANGED <<saved, newest, locked, pairMishaps>>

Die(s) ==
    /\ process[s].step \notin {"idle", "ended", "closed"}
    /\ Mishap /\ Gone(s)
    /\ UNCHANGED <<saved, newest, locked>>

Alive(c) == process[c[1]].run = c[2] /\ process[c[1]].step # "idle"

(* NameOwnerChanged: snapperd forgets a client and its locks once it left. *)
Disconnect(c) ==
    /\ c \in locked /\ ~Alive(c)
    /\ locked' = locked \ {c}
    /\ UNCHANGED <<saved, newest, process, pairMishaps>>

(* Other clients: a cleanup deletes a snapshot, a user makes a post snapshot *)
(* for a pre snapshot of their choice.                                       *)
OtherDelete ==
    /\ \E n \in DOMAIN saved : DeleteSnapshots(Other, n)
    /\ UNCHANGED <<newest, locked, process, pairMishaps>>

OtherPost ==
    /\ \E n \in DOMAIN saved : Granted("post", n) /\ Save("post", n, Other)
    /\ UNCHANGED <<locked, process, pairMishaps>>

Step(s) ==
    \/ PluginBegin(s) \/ CommitBegin(s) \/ Lock(s) \/ CommitPre(s) \/ CommitEnd(s)
    \/ CommitPost(s) \/ CommitDelete(s) \/ Unlock(s)
    \/ PamStart(s) \/ PamOpen(s) \/ PamClose(s)
    \/ CreatePre(s) \/ RunCommand(s) \/ CreatePost(s)

Next ==
    \/ \E s \in Slots : Step(s) \/ StartProcess(s) \/ EndProcess(s) \/ Die(s)
    \/ \E c \in locked : Disconnect(c)
    \/ OtherDelete \/ OtherPost

(* libzypp drives its plugin to the end or closes its input, and the bus    *)
(* daemon reports every client that left.                                   *)
PairFairness ==
    /\ \A s \in ZyppPlugins : WF_pairVars(Step(s) \/ EndProcess(s))
    /\ \A s \in ZyppPlugins, r \in 1..MaxProcesses : WF_pairVars(Disconnect(<<s, r>>))

Spec == Init /\ [][Next]_pairVars /\ PairFairness

-----------------------------------------------------------------------------
TypeOK ==
    /\ DOMAIN saved \subseteq 1..newest
    /\ \A n \in DOMAIN saved :
          /\ saved[n].type \in {"single", "pre", "post"}
          /\ saved[n].pre \in 0..(n - 1)
    /\ newest \in 0..MaxPairSnapshots
    /\ locked \subseteq ZyppPlugins \X (1..MaxProcesses)
    /\ \A s \in Slots : process[s].num \in 0..newest

(* A post snapshot made by the zypp plugin, by pam_snapper or by "snapper   *)
(* create --command" belongs to a pre snapshot that the same process made,  *)
(* however many of them work on the config at once (pre_snapshot_num, the   *)
(* PAM data "pam_snapper_snapshot_num", snapshot1).                         *)
OwnPair ==
    \A n \in DOMAIN saved :
        /\ saved[n].type = "post" /\ saved[n].owner # Other
        /\ saved[n].pre \in DOMAIN saved
        => saved[saved[n].pre].owner = saved[n].owner

(* A pre snapshot has one post snapshot at most, although users make post   *)
(* snapshots for pre snapshots of running transactions and PAM handles are  *)
(* closed more than once (Snapshots::createPostSnapshot).                   *)
OnePostEach ==
    \A m, n \in DOMAIN saved :
        saved[m].type = "post" /\ saved[n].type = "post" /\ saved[m].pre = saved[n].pre => m = n

(* During a transaction whose plugin got its lock nobody deletes the pre    *)
(* snapshot (lock_config in commit_begin against check_lock in              *)
(* delete_snapshots), also when other plugins lock and delete as well.      *)
PreKept ==
    \A s \in ZyppPlugins :
        /\ process[s].step \in {"commit", "post"} /\ process[s].num # 0
        /\ Connection(s) \in locked
        => process[s].num \in DOMAIN saved

(* No lock outlasts the transactions for ever, also when commit_begin got   *)
(* the lock and no pre snapshot, so that commit_end never unlocks.          *)
LocksReleased == <>[](locked = {})
=============================================================================
