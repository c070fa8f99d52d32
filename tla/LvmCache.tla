------------------------------ MODULE LvmCache ------------------------------
(***************************************************************************)
(* Snapshots on LVM thin volumes (snapper/Lvm.cc) and the cache of the     *)
(* volume group (snapper/LvmCache.cc): the daemon never asks lvs again     *)
(* after the first time but follows its own commands.  Threads mount,      *)
(* unmount, create and delete snapshots and set them read-only at the same *)
(* time, under the reader-writer lock of the volume group, a lock per      *)
(* logical volume and the mount_mutex of the config.                       *)
(***************************************************************************)
EXTENDS Integers, FiniteSets

CONSTANTS Threads, Volumes,
          SkipActivation,   \* LVM with --ignoreactivationskip: new snapshots are inactive
          MaxCommands,      \* bound: operations of the threads
          MaxLvmFaults,     \* bound: failing LVM commands
          None

VARIABLES
    lvs,            \* the logical volumes of the snapshots, as LVM has them
    cache,          \* VolumeGroup::lv_info_map
    dirs,           \* the snapshots with a directory to mount them on
    mounted,        \* the mounted snapshots
    vgShared,       \* threads with the shared lock on the volume group
    vgUpgrade,      \* the thread with the upgrade (or unique) lock, or None
    lvLock,         \* [Volumes -> thread with the upgrade or unique lock]
    mountMutex,     \* Lvm::mount_mutex
    thread,         \* [Threads -> what it does]
    commands, lvmFaults

lvmVars == <<lvs, cache, dirs, mounted, vgShared, vgUpgrade, lvLock, mountMutex,
             thread, commands, lvmFaults>>

Attrs == [active : BOOLEAN, ro : BOOLEAN]

Resting == [op |-> "none", pc |-> "none", lv |-> None, ro |-> FALSE]

Init ==
    /\ lvs = [v \in Volumes |-> None] /\ cache = lvs
    /\ dirs = {} /\ mounted = {} /\ vgShared = {} /\ vgUpgrade = None
    /\ lvLock = [v \in Volumes |-> None] /\ mountMutex = None
    /\ thread = [t \in Threads |-> Resting]
    /\ commands = 0 /\ lvmFaults = 0

TypeOK ==
    /\ lvs \in [Volumes -> Attrs \cup {None}] /\ cache \in [Volumes -> Attrs \cup {None}]
    /\ dirs \subseteq Volumes /\ mounted \subseteq Volumes
    /\ vgShared \subseteq Threads /\ vgUpgrade \in Threads \cup {None}
    /\ lvLock \in [Volumes -> Threads \cup {None}]
    /\ mountMutex \in Threads \cup {None}

locks == <<vgShared, vgUpgrade, lvLock, mountMutex>>

Goto(t, pc) == thread' = [thread EXCEPT ![t].pc = pc]

At(t, op, pc) == thread[t].op \in op /\ thread[t].pc = pc

Changing == {"mount", "umount", "set ro"}

Exclusive == {"create", "delete", "update"}

(* Some thread has the unique lock of the volume group.                    *)
Unique == vgUpgrade # None /\ thread[vgUpgrade].pc = "unique"

(* The thread returns, or throws: all of its locks are released.           *)
Return(t) ==
    /\ thread' = [thread EXCEPT ![t] = Resting]
    /\ vgShared' = vgShared \ {t}
    /\ vgUpgrade' = IF vgUpgrade = t THEN None ELSE vgUpgrade
    /\ lvLock' = [v \in Volumes |-> IF lvLock[v] = t THEN None ELSE lvLock[v]]
    /\ mountMutex' = IF mountMutex = t THEN None ELSE mountMutex

(* A call of the daemon.  Snapshots are created and deleted under its big  *)
(* lock, one at a time; comparisons mount and unmount without it.          *)
Begin(t) ==
    /\ thread[t] = Resting
    /\ commands < MaxCommands /\ commands' = commands + 1
    /\ \E op \in Changing \cup Exclusive, v \in Volumes, ro \in BOOLEAN :
          /\ ro => op \in {"set ro", "create"}
          /\ op \in Exclusive => \A u \in Threads : thread[u].op \notin Exclusive
          /\ thread' = [thread EXCEPT ![t] = [op |-> op, lv |-> v, ro |-> ro,
                pc |-> IF op \in {"mount", "umount"} THEN "mutex" ELSE "vg"]]
          /\ dirs' = IF op = "create" THEN dirs \cup {v} ELSE dirs
    /\ UNCHANGED <<lvs, cache, mounted, locks, lvmFaults>>

(* mountSnapshot and umountSnapshot: nothing is mounted twice; unmounting  *)
(* comes before the deactivation.                                          *)
MountMutex(t) ==
    LET v == thread[t].lv IN
    /\ At(t, {"mount", "umount"}, "mutex") /\ mountMutex = None
    /\ \/ /\ thread[t].op = "mount" /\ v \in mounted
          /\ Return(t)
          /\ UNCHANGED mounted
       \/ /\ thread[t].op = "mount" => v \notin mounted
          /\ mounted' = IF thread[t].op = "umount" THEN mounted \ {v} ELSE mounted
          /\ mountMutex' = t /\ Goto(t, "vg")
          /\ UNCHANGED <<vgShared, vgUpgrade, lvLock>>
    /\ UNCHANGED <<lvs, cache, dirs, commands, lvmFaults>>

(* VolumeGroup::activate, deactivate and set_read_only look the volume up  *)
(* under the shared lock and keep it until they return.                    *)
LookUp(t) ==
    /\ At(t, Changing, "vg") /\ ~ Unique
    /\ IF cache[thread[t].lv] = None
       THEN Return(t)
       ELSE /\ vgShared' = vgShared \cup {t} /\ Goto(t, "check")
            /\ UNCHANGED <<vgUpgrade, lvLock, mountMutex>>
    /\ UNCHANGED <<lvs, cache, dirs, mounted, commands, lvmFaults>>

(* What the command makes of the attributes of the volume.                 *)
Wanted(t, attrs) ==
    CASE thread[t].op = "mount"  -> [attrs EXCEPT !.active = TRUE]
      [] thread[t].op = "umount" -> [attrs EXCEPT !.active = FALSE]
      [] thread[t].op = "set ro" -> [attrs EXCEPT !.ro = thread[t].ro]

(* The volume is as wanted: the locks of the cache are released, and an    *)
(* activated snapshot is mounted.                                          *)
Cached(t) ==
    IF thread[t].op = "mount"
    THEN /\ Goto(t, "mount")
         /\ vgShared' = vgShared \ {t}
         /\ lvLock' = [v \in Volumes |-> IF lvLock[v] = t THEN None ELSE lvLock[v]]
         /\ UNCHANGED <<vgUpgrade, mountMutex>>
    ELSE Return(t)

(* LogicalVolume::activate and the like look at the attributes without     *)
(* the lock of the volume.                                                 *)
Check(t) ==
    LET attrs == cache[thread[t].lv] IN
    /\ At(t, Changing, "check")
    /\ IF attrs = Wanted(t, attrs) THEN Cached(t) ELSE Goto(t, "lv") /\ UNCHANGED locks
    /\ UNCHANGED <<lvs, cache, dirs, mounted, commands, lvmFaults>>

LockVolume(t) ==
    LET v == thread[t].lv IN
    /\ At(t, Changing, "lv") /\ lvLock[v] = None
    /\ lvLock' = [lvLock EXCEPT ![v] = t] /\ Goto(t, "command")
    /\ UNCHANGED <<lvs, cache, dirs, mounted, vgShared, vgUpgrade, mountMutex, commands, lvmFaults>>

CommandFails(t) ==
    /\ lvmFaults < MaxLvmFaults /\ lvmFaults' = lvmFaults + 1
    /\ Return(t)
    /\ UNCHANGED <<lvs, cache, dirs, mounted, commands>>

(* lvchange; then the attributes in the cache follow.  A failed            *)
(* deactivation is only logged, a failed activation throws.                *)
Change(t) ==
    LET v == thread[t].lv IN
    /\ At(t, Changing, "command")
    /\ \/ /\ thread[t].op = "umount" => v \notin mounted
          /\ lvs' = [lvs EXCEPT ![v] = Wanted(t, @)]
          /\ Goto(t, "attrs")
          /\ UNCHANGED <<cache, dirs, mounted, locks, commands, lvmFaults>>
       \/ CommandFails(t)

SetAttrs(t) ==
    /\ At(t, Changing, "attrs")
    /\ cache' = [cache EXCEPT ![thread[t].lv] = Wanted(t, @)]
    /\ Cached(t)
    /\ UNCHANGED <<lvs, dirs, mounted, commands, lvmFaults>>

(* The mount itself, with the mount_mutex only.  The device of an inactive *)
(* or removed volume, or the directory, may be missing.                    *)
Mount(t) ==
    LET v == thread[t].lv IN
    /\ At(t, {"mount"}, "mount")
    /\ mounted' = IF lvs[v] # None /\ lvs[v].active /\ v \in dirs
                  THEN mounted \cup {v} ELSE mounted
    /\ Return(t)
    /\ UNCHANGED <<lvs, cache, dirs, commands, lvmFaults>>

(* create_snapshot, remove_lv and add_or_update take the upgrade lock, of  *)
(* which there is one.  add_or_update reads the attributes of the config's *)
(* own volume again, not those of its snapshots.                           *)
Upgrade(t) ==
    LET known == cache[thread[t].lv] # None IN
    /\ At(t, Exclusive, "vg") /\ vgUpgrade = None
    /\ IF (thread[t].op = "create" /\ known) \/ (thread[t].op = "delete" /\ ~ known)
       THEN Return(t)
       ELSE /\ vgUpgrade' = t
            /\ Goto(t, IF thread[t].op = "update" THEN "lvs" ELSE "wait")
            /\ UNCHANGED <<vgShared, lvLock, mountMutex>>
    /\ UNCHANGED <<lvs, cache, dirs, mounted, commands, lvmFaults>>

Update(t) ==
    /\ At(t, {"update"}, "lvs")
    /\ \/ Return(t) /\ UNCHANGED <<lvs, cache, dirs, mounted, commands, lvmFaults>>
       \/ CommandFails(t)

(* Mutant: remove_lv does not wait for the calls with the shared lock.     *)
ToUniqueAtOnce(t) ==
    /\ At(t, Exclusive, "wait")
    /\ Goto(t, "unique")
    /\ UNCHANGED <<lvs, cache, dirs, mounted, locks, commands, lvmFaults>>

(* The unique lock waits for the calls with the shared lock.               *)
ToUnique(t) ==
    /\ At(t, Exclusive, "wait") /\ vgShared = {}
    /\ Goto(t, "unique")
    /\ UNCHANGED <<lvs, cache, dirs, mounted, locks, commands, lvmFaults>>

CreateSnapshot(t) ==
    LET attrs == [active |-> ~ SkipActivation, ro |-> thread[t].ro] IN
    /\ At(t, {"create"}, "unique")
    /\ \/ /\ lvs' = [lvs EXCEPT ![thread[t].lv] = attrs]
          /\ cache' = [cache EXCEPT ![thread[t].lv] = attrs]
          /\ Return(t)
          /\ UNCHANGED <<dirs, mounted, commands, lvmFaults>>
       \/ CommandFails(t)

(* lvremove refuses a volume that is mounted.  deleteSnapshot then removes *)
(* the directory.                                                          *)
DeleteSnapshot(t) ==
    LET v == thread[t].lv IN
    /\ At(t, {"delete"}, "unique")
    /\ \/ /\ v \notin mounted
          /\ lvs' = [lvs EXCEPT ![v] = None]
          /\ cache' = [cache EXCEPT ![v] = None]
          /\ dirs' = dirs \ {v}
          /\ UNCHANGED <<lvmFaults>>
       \/ v \in mounted /\ UNCHANGED <<lvs, cache, dirs, lvmFaults>>
    /\ Return(t)
    /\ UNCHANGED <<mounted, commands>>

(* The daemon is idle.                                                     *)
Wait ==
    /\ \A t \in Threads : thread[t] = Resting
    /\ commands = MaxCommands
    /\ UNCHANGED lvmVars

Next ==
    \/ \E t \in Threads :
          \/ Begin(t) \/ MountMutex(t) \/ LookUp(t) \/ Check(t) \/ LockVolume(t)
          \/ Change(t) \/ SetAttrs(t) \/ Mount(t) \/ Upgrade(t) \/ Update(t)
          \/ ToUnique(t) \/ CreateSnapshot(t) \/ DeleteSnapshot(t)
    \/ Wait

Spec == Init /\ [][Next]_lvmVars

(* The cache is what LVM would answer (Lvm.cc trusts it for mounting, the  *)
(* read-only flag and checkSnapshot), except for the volume a command      *)
(* under its lock is just changing.                                        *)
CacheAgrees ==
    \A v \in Volumes : lvLock[v] = None => cache[v] = lvs[v]

(* The LogicalVolume that a call works on is not deleted under it:         *)
(* remove_lv waits for the calls that hold the shared lock.                *)
VolumeKept ==
    \A t \in vgShared : cache[thread[t].lv] # None /\ lvs[thread[t].lv] # None

(* Once mountSnapshot has found or made the volume active it stays active  *)
(* until the mount, unless the snapshot is deleted and created again:      *)
(* mount_mutex keeps the deactivation of umountSnapshot away, and the      *)
(* attributes that are read without a lock do no harm.                     *)
ActivationKept ==
    \A t \in Threads : LET v == thread'[t].lv IN
       thread'[t].pc = "mount" /\ lvs[v] # None /\ lvs'[v] # None
          => lvs'[v].active \/ (thread[t].pc = "mount" /\ ~ lvs[v].active)
=============================================================================
