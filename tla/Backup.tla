------------------------------- MODULE Backup -------------------------------
(***************************************************************************)
(* snbk (client/snbk): copies the snapshots of a config to a target, and   *)
(* back, with 'btrfs send | btrfs receive'.  A command of a process        *)
(* reads the snapshot list of the daemon, locks the config, probes source  *)
(* and target into a list of "big things" and then walks that list with    *)
(* the states it probed; every command it executes on either side may      *)
(* fail, which ends the command and leaves what was done so far.           *)
(*                                                                         *)
(* A side holds per number the directory, info.xml (0: absent, otherwise   *)
(* its version) and the subvolume.  The subvolume being received is        *)
(* writable and has no received uuid until the stream has ended.           *)
(***************************************************************************)
EXTENDS Integers, FiniteSets, FiniteSetsExt

CONSTANTS
    Procs,          \* snbk processes; one of them is the timer's
    Timer,
    MaxNum,         \* snapshot numbers are 1..MaxNum
    MaxUuid,        \* bound: snapshots created by the daemon
    Commands,       \* what a user runs: <<command, number, or 0 for all>>
    MaxUserRuns,    \* bound: commands of the users
    MaxChanges,     \* bound: changes of the source by other clients
    MaxFaults,      \* bound: failing or interrupted commands
    None

VARIABLES
    source,         \* the snapshots of the config, on disk
    target,         \* the backups, on disk
    listed,         \* the numbers in the daemon's snapshot list
    snbk,           \* [Procs -> the state of the process]
    uuids,          \* snapshots created so far
    userRuns, changes, faults,
    overlap,        \* history: two commands have run at the same time
    stale           \* history: the source changed since it was probed

vars == <<source, target, listed, snbk, uuids, userRuns, changes, faults,
          overlap, stale>>

Nums == 1 .. MaxNum

Nothing == [dir |-> FALSE, info |-> 0, sub |-> None]

Subvolumes == [uuid : 0 .. MaxUuid, received : 0 .. MaxUuid, ro : BOOLEAN,
               owner : Procs \cup {None}]

Sides == [Nums -> [dir : BOOLEAN, info : 0 .. 2, sub : Subvolumes \cup {None}]]

(* TheBigThing: the states a command has probed, with the identity of the  *)
(* source subvolume.                                                       *)
Things == [s : {"missing", "ro", "rw"},
           t : {"missing", "valid", "invalid", "legacy"},
           uuid : 0 .. MaxUuid, received : 0 .. MaxUuid, info : 0 .. 2]

NoThing == [s |-> "missing", t |-> "missing",
            uuid |-> 0, received |-> 0, info |-> 0]

Idle == [pc |-> "idle", cmd |-> "none", only |-> 0, list |-> {},
         things |-> [n \in Nums |-> NoThing], n |-> 0, parent |-> 0]

Busy(p) == snbk[p].pc # "idle"

Locked == \E p \in Procs : snbk[p].pc \notin {"idle", "lock"}

TypeOK ==
    /\ source \in Sides /\ target \in Sides
    /\ listed \subseteq Nums
    /\ \A p \in Procs :
          /\ snbk[p].things \in [Nums -> Things]
          /\ snbk[p].n \in 0 .. MaxNum
          /\ snbk[p].parent \in 0 .. MaxNum
          /\ snbk[p].list \subseteq Nums

Init ==
    /\ source = [n \in Nums |-> Nothing]
    /\ target = [n \in Nums |-> Nothing]
    /\ listed = {}
    /\ snbk = [p \in Procs |-> Idle]
    /\ uuids = 0 /\ userRuns = 0 /\ changes = 0 /\ faults = 0
    /\ overlap = FALSE /\ stale = FALSE

-----------------------------------------------------------------------------
(* The daemon and its other clients: what they do to the source.           *)

Change ==
    /\ changes < MaxChanges
    /\ changes' = changes + 1
    /\ stale' = (stale \/ \E p \in Procs : Busy(p))
    /\ UNCHANGED <<target, snbk, userRuns, faults, overlap>>

(* The next number after the listed ones whose directory does not exist.   *)
NextNumber == {n \in Nums : ~source[n].dir /\ \A m \in listed : m < n}

CreateSnapshot ==
    LET n == Min(NextNumber) IN
    /\ NextNumber # {}
    /\ uuids < MaxUuid
    /\ uuids' = uuids + 1
    /\ source' = [source EXCEPT ![n] = [dir |-> TRUE, info |-> 1, sub |->
                    [uuid |-> uuids + 1, received |-> 0, ro |-> TRUE, owner |-> None]]]
    /\ listed' = listed \cup {n}
    /\ stale' = (stale \/ \E p \in Procs : Busy(p))
    /\ UNCHANGED <<target, snbk, userRuns, changes, faults, overlap>>

(* Refused while a command holds the lock of the config.                   *)
DeleteSnapshot(n) ==
    /\ Change
    /\ n \in listed
    /\ ~Locked
    /\ source' = [source EXCEPT ![n] = Nothing]
    /\ listed' = listed \ {n}
    /\ UNCHANGED uuids

ModifySnapshot(n) ==
    /\ Change
    /\ n \in listed
    /\ \/ source' = [source EXCEPT ![n].info = 3 - @]
       \/ source[n].sub # None /\ source' = [source EXCEPT ![n].sub.ro = ~@]
    /\ UNCHANGED <<listed, uuids>>

(* A restarted daemon lists what it finds on the disk: restored snapshots  *)
(* appear here.                                                            *)
Reload ==
    /\ listed' = {n \in Nums : source[n].info # 0 /\ source[n].sub # None}
    /\ listed' # listed
    /\ stale' = (stale \/ \E p \in Procs : Busy(p))
    /\ UNCHANGED <<source, target, snbk, uuids, userRuns, changes, faults, overlap>>

-----------------------------------------------------------------------------
(* One command of a process: the snapshot list, the lock, the probes.      *)

unchangedSource == UNCHANGED <<source, listed, uuids, changes, stale>>

Goto(p, pc) == snbk' = [snbk EXCEPT ![p].pc = pc]

(* An exception: reported, counted, and the lock is released.              *)
Fail(p) == snbk' = [snbk EXCEPT ![p] = Idle]

Start(p) ==
    /\ ~Busy(p)
    /\ \/ /\ p = Timer
          /\ snbk' = [snbk EXCEPT ![p] = [Idle EXCEPT
                !.pc = "lock", !.cmd = "transfer-and-delete", !.list = listed]]
          /\ UNCHANGED userRuns
       \/ /\ p # Timer
          /\ userRuns < MaxUserRuns
          /\ userRuns' = userRuns + 1
          /\ \E c \in Commands :
                snbk' = [snbk EXCEPT ![p] = [Idle EXCEPT
                    !.pc = "lock", !.cmd = c[1], !.only = c[2], !.list = listed]]
    /\ overlap' = (overlap \/ \E q \in Procs : Busy(q))
    /\ stale' = (stale /\ \E q \in Procs : Busy(q))
    /\ UNCHANGED <<source, target, listed, uuids, changes, faults>>

LockConfig(p) ==
    /\ snbk[p].pc = "lock"
    /\ Goto(p, "source")
    /\ unchangedSource
    /\ UNCHANGED <<target, userRuns, faults, overlap>>

(* 'btrfs subvolume show' failing for a listed snapshot ends the command.  *)
ProbeSource(p) ==
    /\ snbk[p].pc = "source"
    /\ IF \E n \in snbk[p].list : source[n].sub = None
       THEN Fail(p)
       ELSE snbk' = [snbk EXCEPT
              ![p].pc = "target", ![p].list = {},
              ![p].things = [n \in Nums |->
                IF n \notin snbk[p].list THEN NoThing
                ELSE [s |-> IF source[n].sub.ro THEN "ro" ELSE "rw",
                      t |-> "missing",
                      uuid |-> source[n].sub.uuid,
                      received |-> source[n].sub.received,
                      info |-> source[n].info]]]
    /\ unchangedSource
    /\ UNCHANGED <<target, userRuns, faults, overlap>>

(* Mutant: the received uuid of a restored snapshot is not looked at.      *)
TargetStateUuidOnly(thing, side) ==
    CASE side.sub = None -> "missing"
      [] side.sub # None /\ (~side.sub.ro \/ (thing.s # "missing"
                             /\ side.sub.received # thing.uuid)) -> "invalid"
      [] OTHER -> IF thing.s = "ro" /\ thing.info # side.info THEN "legacy" ELSE "valid"

(* A directory whose 'subvolume show' fails is taken for missing.          *)
TargetState(thing, side) ==
    LET correctUuid == /\ side.sub.received # 0
                       /\ side.sub.received \in {thing.uuid, thing.received}
        valid == side.sub.ro /\ (thing.s # "missing" => correctUuid)
    IN  CASE side.sub = None -> "missing"
          [] side.sub # None /\ ~valid -> "invalid"
          [] OTHER -> IF thing.s = "ro" /\ thing.info # side.info
                      THEN "legacy" ELSE "valid"

ProbeTarget(p) ==
    /\ snbk[p].pc = "target"
    /\ snbk' = [snbk EXCEPT
          ![p].pc = "next",
          ![p].n = 1,
          ![p].things = [n \in Nums |->
             [snbk[p].things[n] EXCEPT !.t = TargetState(snbk[p].things[n], target[n])]]]
    /\ unchangedSource
    /\ UNCHANGED <<target, userRuns, faults, overlap>>

-----------------------------------------------------------------------------
(* The walk over the big things.                                           *)

(* Mutant: what is on the source is taken to be on the target.             *)
IsValidSource(thing) == thing.s = "ro"

IsValid(thing) == thing.s = "ro" /\ thing.t \in {"valid", "legacy"}

(* make_copy_specs: send incrementally against a snapshot that is valid on *)
(* both sides, if there is one (which of them: module TreeView).           *)
CopySpecs(things, n) ==
    LET valid == {m \in Nums \ {n} : IsValid(things[m])}
    IN  IF valid = {} THEN {0} ELSE valid

CanTransfer(thing) == thing.s = "ro" /\ thing.t \in {"missing", "legacy"}

CanRestore(thing) == thing.s = "missing" /\ thing.t = "valid"

ToRemove(thing) ==
    \/ thing.t = "invalid"
    \/ thing.s = "missing" /\ thing.t # "missing"

Removing(cmd) == cmd \in {"delete", "delete-after"}

Transferring(cmd) == cmd \in {"transfer", "transfer-and-delete"}

(* What the command does with the current thing when it treats all of them *)
(* and when it is given a number, where everything else is an error.       *)
Step(cmd, thing, all) ==
    CASE Transferring(cmd) /\ all /\ thing.s = "ro" /\ thing.t = "invalid" -> "rm sub"
      [] Transferring(cmd) /\ CanTransfer(thing) ->
            IF thing.t = "legacy" THEN "legacy" ELSE "mkdir"
      [] cmd = "restore" /\ CanRestore(thing) -> "mkdir"
      [] Removing(cmd) /\ (IF all THEN ToRemove(thing) ELSE thing.t # "missing") ->
            "rm sub"
      [] OTHER -> IF all THEN "skip" ELSE "error"

Walk(p) == {n \in Nums :
    n >= snbk[p].n /\ Step(snbk[p].cmd, snbk[p].things[n], TRUE) # "skip"}

(* The next thing there is something to do for, or the named one.          *)
Dispatch(p) ==
    LET me == snbk[p]
        n == IF me.only # 0 THEN me.only ELSE Min(Walk(p))
        step == Step(me.cmd, me.things[n], me.only = 0)
    IN
    /\ me.pc = "next"
    /\ me.only # 0 \/ Walk(p) # {}
    /\ \/ step = "error" /\ Fail(p)
       \/ step = "mkdir" /\ \E m \in CopySpecs(me.things, n) :
             snbk' = [snbk EXCEPT ![p].pc = "mkdir", ![p].n = n, ![p].parent = m]
       \/ step \in {"rm sub", "legacy"} /\ snbk' = [snbk EXCEPT ![p].pc = step, ![p].n = n]
    /\ unchangedSource
    /\ UNCHANGED <<target, userRuns, faults, overlap>>

Walked(p) == snbk[p].pc = "next" /\ snbk[p].only = 0 /\ Walk(p) = {}

(* The end of the walk: transfer-and-delete continues with the deletion on *)
(* the same big things.                                                    *)
Finish(p) ==
    /\ Walked(p)
    /\ IF snbk[p].cmd = "transfer-and-delete"
       THEN snbk' = [snbk EXCEPT ![p].cmd = "delete-after", ![p].n = 1]
       ELSE snbk' = [snbk EXCEPT ![p] = Idle]
    /\ unchangedSource
    /\ UNCHANGED <<target, userRuns, faults, overlap>>

-----------------------------------------------------------------------------
(* The commands executed for one thing.  A restore copies to the source.   *)

Restoring(p) == snbk[p].cmd = "restore"

From(p) == IF Restoring(p) THEN target ELSE source

To(p) == IF Restoring(p) THEN source ELSE target

SetTo(p, side) ==
    /\ IF Restoring(p) THEN source' = side /\ UNCHANGED target
                       ELSE target' = side /\ UNCHANGED source
    /\ UNCHANGED <<listed, uuids, changes, stale, userRuns, faults, overlap>>

UnchangedSides == UNCHANGED <<source, target, listed, uuids, changes, stale,
                              userRuns, faults, overlap>>

(* The thing is treated: its state in memory follows what was done.        *)
Done(p, field, state) ==
    snbk' = [snbk EXCEPT ![p] =
        IF @.only # 0 THEN Idle
        ELSE [@ EXCEPT !.pc = "next", !.parent = 0,
                       !.things[snbk[p].n] = [@ EXCEPT ![field] = state]]]

(* Mutant: mkdir without --parents.                                        *)
MkdirOnce(p) ==
    /\ snbk[p].pc = "mkdir"
    /\ IF To(p)[snbk[p].n].dir
       THEN Fail(p) /\ UnchangedSides
       ELSE SetTo(p, [To(p) EXCEPT ![snbk[p].n].dir = TRUE]) /\ Goto(p, "info")

Mkdir(p) ==
    /\ snbk[p].pc = "mkdir"
    /\ SetTo(p, [To(p) EXCEPT ![snbk[p].n].dir = TRUE])
    /\ Goto(p, "info")

CopyMetadata(p) ==
    LET n == snbk[p].n IN
    /\ snbk[p].pc \in {"info", "legacy"}
    /\ IF To(p)[n].dir /\ From(p)[n].info # 0
       THEN /\ SetTo(p, [To(p) EXCEPT ![n].info = From(p)[n].info])
            /\ IF snbk[p].pc = "legacy" THEN Done(p, "t", "valid")
                                        ELSE Goto(p, "send")
       ELSE Fail(p) /\ UnchangedSides

(* The uuid in the stream that 'btrfs send' makes of a subvolume.          *)
Stream(sub) == IF sub.received # 0 THEN sub.received ELSE sub.uuid

HasStream(side, n, u) ==
    side[n].sub # None /\ side[n].sub.ro /\ u \in {side[n].sub.uuid, side[n].sub.received}

Sendable(side, n) == side[n].sub # None /\ side[n].sub.ro

ParentUsable(p) ==
    LET m == snbk[p].parent IN
    m # 0 => Sendable(From(p), m) /\ HasStream(To(p), m, Stream(From(p)[m].sub))

Send(p) ==
    LET n == snbk[p].n IN
    /\ snbk[p].pc = "send"
    /\ IF Sendable(From(p), n) /\ ParentUsable(p) /\ To(p)[n].dir /\ To(p)[n].sub = None
       THEN /\ SetTo(p, [To(p) EXCEPT ![n].sub =
                  [uuid |-> 0, received |-> 0, ro |-> FALSE, owner |-> p]])
            /\ Goto(p, "receive")
       ELSE Fail(p) /\ UnchangedSides

Receive(p) ==
    LET n == snbk[p].n IN
    /\ snbk[p].pc = "receive"
    /\ IF To(p)[n].sub # None /\ To(p)[n].sub.owner = p /\ Sendable(From(p), n)
       THEN /\ SetTo(p, [To(p) EXCEPT ![n].sub =
                  [uuid |-> 0, received |-> Stream(From(p)[n].sub),
                   ro |-> TRUE, owner |-> None]])
            /\ IF Restoring(p) THEN Done(p, "s", "ro") ELSE Done(p, "t", "valid")
       ELSE Fail(p) /\ UnchangedSides

(* remove: the subvolume, info.xml, the directory.                         *)
DeleteSubvolume(p) ==
    LET n == snbk[p].n IN
    /\ snbk[p].pc = "rm sub"
    /\ IF target[n].sub # None
       THEN SetTo(p, [target EXCEPT ![n].sub = None]) /\ Goto(p, "rm info")
       ELSE Fail(p) /\ UnchangedSides

DeleteInfo(p) ==
    LET n == snbk[p].n IN
    /\ snbk[p].pc = "rm info"
    /\ IF target[n].info # 0
       THEN SetTo(p, [target EXCEPT ![n].info = 0]) /\ Goto(p, "rmdir")
       ELSE Fail(p) /\ UnchangedSides

Rmdir(p) ==
    LET n == snbk[p].n IN
    /\ snbk[p].pc = "rmdir"
    /\ IF target[n] = [Nothing EXCEPT !.dir = TRUE]
       THEN SetTo(p, [target EXCEPT ![n].dir = FALSE]) /\ Done(p, "t", "missing")
       ELSE Fail(p) /\ UnchangedSides

(* A command fails, or snbk is killed, before its next step.               *)
Interrupt(p) ==
    /\ Busy(p)
    /\ faults < MaxFaults
    /\ faults' = faults + 1
    /\ Fail(p)
    /\ UNCHANGED <<source, target, listed, uuids, userRuns, changes, overlap, stale>>

Progress(p) ==
    \/ LockConfig(p) \/ ProbeSource(p) \/ ProbeTarget(p) \/ Dispatch(p) \/ Finish(p)
    \/ Mkdir(p) \/ CopyMetadata(p) \/ Send(p) \/ Receive(p)
    \/ DeleteSubvolume(p) \/ DeleteInfo(p) \/ Rmdir(p)

Next ==
    \/ \E p \in Procs : Start(p) \/ Progress(p) \/ Interrupt(p)
    \/ \E n \in Nums : DeleteSnapshot(n) \/ ModifySnapshot(n)
    \/ CreateSnapshot
    \/ Reload

Spec == Init /\ [][Next]_vars

(* A started command goes on by itself; the timer starts the next one.     *)
FairSpec == Spec /\ (\A p \in Procs : WF_vars(Progress(p))) /\ WF_vars(Start(Timer))

-----------------------------------------------------------------------------
(* The target has a complete, read-only copy of the source snapshot.       *)
Copied(n) ==
    /\ source[n].sub # None /\ target[n].sub # None
    /\ target[n].sub.ro
    /\ target[n].sub.received \in {source[n].sub.uuid, source[n].sub.received} \ {0}

ReadOnlySource == {n \in listed : source[n].sub # None /\ source[n].sub.ro}

Undisturbed == ~overlap /\ ~stale

(* copy and remove order their commands so that an interruption at any     *)
(* point never leaves a received subvolume without its info.xml, which     *)
(* restore needs and the remove that cleans up would stumble over.         *)
InfoWithSubvolume ==
    ~overlap => \A n \in Nums : target[n].sub # None => target[n].dir /\ target[n].info # 0

(* After TheBigThings::transfer went through, whatever earlier commands    *)
(* left behind, every read-only snapshot has a complete copy with the same *)
(* metadata on the target.                                                 *)
TransferComplete ==
    \A p \in Procs : Walked(p) /\ Transferring(snbk[p].cmd) /\ Undisturbed =>
        \A n \in ReadOnlySource : Copied(n) /\ target[n].info = source[n].info

(* The snapshot that make_copy_specs selects for an incremental send is    *)
(* still on both sides when it is used, also when it was transferred by    *)
(* the same command.                                                       *)
ParentOnBothSides ==
    \A p \in Procs : snbk[p].pc = "send" /\ Undisturbed => ParentUsable(p)

(* A complete copy is removed only when the user names it or when its      *)
(* snapshot is gone from the source and the command deletes: not by an     *)
(* automatic transfer, a retry or a reused number of another snapshot.     *)
GoodBackupsKept ==
    \A n \in Nums :
       target[n].sub # None /\ target[n].sub.ro /\ target'[n].sub = None /\ Undisturbed
       => \E p \in Procs : snbk[p].pc = "rm sub" /\ snbk[p].n = n /\
             \/ snbk[p].only = n
             \/ source[n].sub # None /\ ~Copied(n)
             \/ Removing(snbk[p].cmd) /\ n \notin listed

(* With the hourly timer, and once failures and changes stop, every        *)
(* read-only snapshot ends up on the target, with its metadata: no state   *)
(* an interrupted command leaves blocks the next ones for good.            *)
EventuallyBackedUp ==
    <>[](\A n \in ReadOnlySource : Copied(n) /\ target[n].info = source[n].info)

=============================================================================
