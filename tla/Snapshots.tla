----------------------------- MODULE Snapshots -----------------------------
(***************************************************************************)
(* The snapshots of one config (snapper/Snapshot.cc): the list in memory   *)
(* and the infos directory on disk, with a numbered directory per snapshot *)
(* that holds info.xml and the filesystem snapshot.                        *)
(*                                                                         *)
(* The daemon runs one operation at a time, but the machine or the daemon  *)
(* may stop between any two changes of the disk, and each system call may  *)
(* fail; so an operation is a sequence of steps, kept in op.               *)
(***************************************************************************)
EXTENDS Integers, FiniteSets

CONSTANTS
    MaxNum,        \* bound: the largest snapshot number
    MaxData,       \* bound: values of description, cleanup and userdata, first 0
    UniqueNumbers, \* the config's UNIQUE_NUMBERS
    Failures,      \* which calls may fail, a subset of FailureKinds
    MaxFailed,     \* bound: kinds of calls that fail in one behaviour
    MaxCrashes     \* bound: crashes and restarts

FailureKinds == {"create", "write", "undo", "modify", "delete", "filelists", "unlink"}

ASSUME NumAssumption == MaxNum \in Nat \ {0}
ASSUME SnapshotsAssumption ==
    /\ UniqueNumbers \in BOOLEAN
    /\ Failures \subseteq FailureKinds
    /\ MaxFailed \in Nat /\ MaxCrashes \in Nat /\ MaxData \in Nat

Num  == 1..MaxNum
Data == 0..MaxData
Meta == [type : {"single", "pre", "post"}, pre : 0..MaxNum, data : Data]
None == [type |-> "none", pre |-> 0, data |-> 0]

VARIABLES
    dirs,     \* numbers with a directory in the infos directory
    infoXml,  \* content of each info.xml, None when it does not exist
    subvols,  \* numbers with a filesystem snapshot
    default,  \* number of the default snapshot, 0 for none
    active,   \* number of the active snapshot, 0 for none
    loaded,   \* a Snapper of the config is loaded
    entries,  \* Snapshots::entries, None when a number is not in the list
    op,       \* the operation that is running, Idle for none
    used,     \* history: numbers that have been visible as a snapshot
    failed,   \* history: kinds of calls that have failed
    crashes   \* number of crashes so far

diskVars == <<dirs, infoXml, subvols>>
sysVars  == <<default, active>>
histVars == <<used, failed, crashes>>
vars == <<diskVars, sysVars, loaded, entries, op, histVars>>

Idle     == [step |-> "idle", num |-> 0, meta |-> None]
Creating == {"clean", "create", "write", "insert", "undo"}
Deleting == {"delete", "filelists", "unlink", "rmdir", "erase"}
Op       == [step : {"idle"} \cup Creating \cup Deleting, num : 0..MaxNum, meta : Meta \cup {None}]

(* The types of the state; the operation, if any, is a create with the     *)
(* meta data of the new snapshot or a delete.                              *)
TypeOK ==
    /\ dirs \in SUBSET Num
    /\ infoXml \in [Num -> Meta \cup {None}]
    /\ subvols \in SUBSET Num
    /\ default \in 0..MaxNum /\ active \in 0..MaxNum
    /\ loaded \in BOOLEAN
    /\ entries \in [Num -> Meta \cup {None}]
    /\ op \in Op
    /\ op.step = "idle" => op = Idle
    /\ op.step # "idle" => op.num \in Num
    /\ op.step \in Creating => op.meta \in Meta
    /\ used \in SUBSET Num /\ failed \in SUBSET FailureKinds
    /\ crashes \in Nat

Init ==
    /\ dirs = {} /\ subvols = {}
    /\ infoXml = [n \in Num |-> None]
    /\ default = 0 /\ active = 0
    /\ loaded = FALSE
    /\ entries = [n \in Num |-> None]
    /\ op = Idle
    /\ used = {} /\ failed = {} /\ crashes = 0

-----------------------------------------------------------------------------

(* A call fails.                                                           *)
Fails(kind) ==
    /\ kind \in Failures
    /\ failed' = failed \cup {kind}
    /\ Cardinality(failed') <= MaxFailed

(* find: the number is in the list.                                        *)
Find(n) == entries[n] # None

Listed == {n \in Num : Find(n)}

(* rmdir fails for a directory that is not empty.                          *)
Removable(n) == infoXml[n] = None /\ n \notin subvols

(* The kernel refuses to delete the default subvolume.                     *)
Deletable(n) == n \in subvols /\ n # default

(* So a deletion may fail although no call does.                           *)
Refused(kind) ==
    /\ ~Deletable(op.num)
    /\ failed' = failed \cup {kind}

Running == loaded /\ op = Idle

(* Mutant: the filesystem snapshot is not checked.                         *)
ReadUnchecked == [n \in Num |-> IF n \in dirs THEN infoXml[n] ELSE None]

(* Snapshots::read: directories without a usable info.xml or without a     *)
(* filesystem snapshot are skipped.                                        *)
Read == [n \in Num |-> IF n \in dirs /\ n \in subvols THEN infoXml[n] ELSE None]

(* Snapshots::initialize, when the Snapper is loaded.                      *)
Initialize ==
    /\ ~loaded
    /\ loaded' = TRUE
    /\ entries' = Read
    /\ used' = used \cup {n \in Num : Read[n] # None}
    /\ UNCHANGED <<diskVars, sysVars, op, failed, crashes>>

(* findPost: some post snapshot refers to the pre snapshot.                *)
FindPost(pre) == \E n \in Listed : entries[n].type = "post" /\ entries[n].pre = pre

(* Mutant: only the list is looked at, not the directories.                *)
FreeInList(n) == n \notin subvols /\ \A m \in Listed : m < n

(* nextNumber: the first number above every entry and every directory that *)
(* has no filesystem snapshot.  The list is sorted: its last is its largest. *)
Free(n) == n \notin subvols /\ \A m \in dirs \cup Listed : m < n

IsNextNumber(n) == Free(n) /\ \A m \in Num : Free(m) => n <= m

(* nextNumber creates the directory ...                                    *)
MakeDir(meta) ==
    /\ Running
    /\ \E n \in Num :
           /\ IsNextNumber(n)
           /\ dirs' = dirs \cup {n}
           /\ op' = [step |-> "clean", num |-> n, meta |-> meta]
    /\ UNCHANGED <<infoXml, subvols, sysVars, loaded, entries, histVars>>

CreateSingleSnapshot == MakeDir([type |-> "single", pre |-> 0, data |-> 0])

CreatePreSnapshot == MakeDir([type |-> "pre", pre |-> 0, data |-> 0])

(* Mutant: the pre snapshot may already have a post snapshot.              *)
CreateSecondPostSnapshot(pre) ==
    /\ Find(pre) /\ entries[pre].type = "pre"
    /\ MakeDir([type |-> "post", pre |-> pre, data |-> 0])

(* The pre snapshot must be one and must not have a post snapshot yet.     *)
CreatePostSnapshot(pre) ==
    /\ Find(pre) /\ entries[pre].type = "pre" /\ ~FindPost(pre)
    /\ MakeDir([type |-> "post", pre |-> pre, data |-> 0])

(* ... and then removes the directories that belong to no snapshot.        *)
Leftover == {n \in dirs \ {op.num} : ~Find(n) /\ Removable(n)}

CleanDir(n) ==
    /\ op.step = "clean"
    /\ n \in Leftover
    /\ dirs' = dirs \ {n}
    /\ UNCHANGED <<infoXml, subvols, sysVars, loaded, entries, op, histVars>>

CleanDone ==
    /\ op.step = "clean" /\ Leftover = {}
    /\ op' = [op EXCEPT !.step = "create"]
    /\ UNCHANGED <<diskVars, sysVars, loaded, entries, histVars>>

(* createHelper: the filesystem snapshot, info.xml, the entry.             *)
CreateFilesystemSnapshot ==
    /\ op.step = "create"
    /\ subvols' = subvols \cup {op.num}
    /\ op' = [op EXCEPT !.step = "write"]
    /\ UNCHANGED <<dirs, infoXml, sysVars, loaded, entries, histVars>>

CreateFilesystemSnapshotFails ==
    /\ op.step = "create" /\ Fails("create")
    /\ dirs' = dirs \ {op.num}
    /\ op' = Idle
    /\ UNCHANGED <<infoXml, subvols, sysVars, loaded, entries, used, crashes>>

WriteInfo ==
    /\ op.step = "write"
    /\ infoXml' = [infoXml EXCEPT ![op.num] = op.meta]
    /\ op' = [op EXCEPT !.step = "insert"]
    /\ UNCHANGED <<dirs, subvols, sysVars, loaded, entries, histVars>>

WriteInfoFails ==
    /\ op.step = "write" /\ Fails("write")
    /\ op' = [op EXCEPT !.step = "undo"]
    /\ UNCHANGED <<diskVars, sysVars, loaded, entries, used, crashes>>

(* Mutant: the filesystem snapshot stays.                                  *)
UndoDirOnly ==
    /\ op.step = "undo"
    /\ op' = Idle
    /\ UNCHANGED <<diskVars, sysVars, loaded, entries, histVars>>

(* The handler of the failed writeInfo.                                    *)
Undo ==
    /\ op.step = "undo" /\ Deletable(op.num)
    /\ subvols' = subvols \ {op.num}
    /\ dirs' = dirs \ {op.num}
    /\ op' = Idle
    /\ UNCHANGED <<infoXml, sysVars, loaded, entries, histVars>>

(* The exception of the deletion replaces the one that is being handled.   *)
UndoFails ==
    /\ op.step = "undo"
    /\ Fails("undo") \/ Refused("undo")
    /\ op' = Idle
    /\ UNCHANGED <<diskVars, sysVars, loaded, entries, used, crashes>>

Insert ==
    /\ op.step = "insert"
    /\ entries' = [entries EXCEPT ![op.num] = op.meta]
    /\ used' = used \cup {op.num}
    /\ op' = Idle
    /\ UNCHANGED <<diskVars, sysVars, loaded, failed, crashes>>

(* Mutant: the snapshot is not looked up.                                  *)
ModifyUnchecked(n, d) ==
    /\ Running
    /\ entries' = [entries EXCEPT ![n].data = d]
    /\ infoXml' = [infoXml EXCEPT ![n] = entries'[n]]
    /\ UNCHANGED <<dirs, subvols, sysVars, loaded, op, histVars>>

(* modifySnapshot: the entry first, then info.xml.                         *)
ModifySnapshot(n, d) ==
    /\ Running /\ Find(n)
    /\ entries' = [entries EXCEPT ![n].data = d]
    /\ infoXml' = [infoXml EXCEPT ![n] = entries'[n]]
    /\ UNCHANGED <<dirs, subvols, sysVars, loaded, op, histVars>>

ModifySnapshotFails(n, d) ==
    /\ Running /\ Find(n) /\ Fails("modify")
    /\ entries' = [entries EXCEPT ![n].data = d]
    /\ UNCHANGED <<diskVars, sysVars, loaded, op, used, crashes>>

(* Mutant: the active snapshot is not refused.                             *)
DeleteSnapshotOfActive(n) ==
    /\ Running /\ Find(n)
    /\ n # default
    /\ op' = [step |-> "delete", num |-> n, meta |-> None]
    /\ UNCHANGED <<diskVars, sysVars, loaded, entries, histVars>>

(* deleteSnapshot, in the order of its changes of the disk.                *)
DeleteSnapshot(n) ==
    /\ Running /\ Find(n)
    /\ n # default /\ n # active
    /\ op' = [step |-> "delete", num |-> n, meta |-> None]
    /\ UNCHANGED <<diskVars, sysVars, loaded, entries, histVars>>

DeleteFilesystemSnapshot ==
    /\ op.step = "delete" /\ Deletable(op.num)
    /\ subvols' = subvols \ {op.num}
    /\ op' = [op EXCEPT !.step = "filelists"]
    /\ UNCHANGED <<dirs, infoXml, sysVars, loaded, entries, histVars>>

DeleteFilesystemSnapshotFails ==
    /\ op.step = "delete"
    /\ Fails("delete") \/ Refused("delete")
    /\ op' = Idle
    /\ UNCHANGED <<diskVars, sysVars, loaded, entries, used, crashes>>

(* deleteFilelists; the filelists themselves are not part of this module.  *)
DeleteFilelists ==
    /\ op.step = "filelists"
    /\ op' = [op EXCEPT !.step = "unlink"]
    /\ UNCHANGED <<diskVars, sysVars, loaded, entries, histVars>>

DeleteFilelistsFails ==
    /\ op.step = "filelists" /\ Fails("filelists")
    /\ op' = Idle
    /\ UNCHANGED <<diskVars, sysVars, loaded, entries, used, crashes>>

UnlinkInfo ==
    /\ op.step = "unlink"
    /\ infoXml' = [infoXml EXCEPT ![op.num] = None]
    /\ op' = [op EXCEPT !.step = "rmdir"]
    /\ UNCHANGED <<dirs, subvols, sysVars, loaded, entries, histVars>>

(* A failing unlink is only logged.                                        *)
UnlinkInfoFails ==
    /\ op.step = "unlink" /\ Fails("unlink")
    /\ op' = [op EXCEPT !.step = "rmdir"]
    /\ UNCHANGED <<diskVars, sysVars, loaded, entries, used, crashes>>

(* Mutant: off by one, the highest number is not recognised.               *)
KeepsDirAbove(n) == UniqueNumbers /\ \A m \in Listed : m < n

(* The directory of the snapshot with the highest number is kept.          *)
KeepsDir(n) == UniqueNumbers /\ \A m \in Listed : m <= n

RemoveDir ==
    /\ op.step = "rmdir"
    /\ dirs' = IF KeepsDir(op.num) \/ ~Removable(op.num) THEN dirs ELSE dirs \ {op.num}
    /\ op' = [op EXCEPT !.step = "erase"]
    /\ UNCHANGED <<infoXml, subvols, sysVars, loaded, entries, histVars>>

Erase ==
    /\ op.step = "erase"
    /\ entries' = [entries EXCEPT ![op.num] = None]
    /\ op' = Idle
    /\ UNCHANGED <<diskVars, sysVars, loaded, histVars>>

-----------------------------------------------------------------------------

(* Snapshot::setDefault, called by a client (rollback, modify --default).  *)
SetDefault(n) ==
    /\ n \in used \cap subvols
    /\ default' = n
    /\ UNCHANGED <<diskVars, active, loaded, entries, op, histVars>>

(* The daemon stops, or unloads an unused Snapper.                         *)
Stop ==
    /\ loaded
    /\ op = Idle \/ crashes < MaxCrashes
    /\ loaded' = FALSE
    /\ entries' = [n \in Num |-> None]
    /\ op' = Idle
    /\ crashes' = IF op = Idle THEN crashes ELSE crashes + 1
    /\ UNCHANGED <<diskVars, sysVars, used, failed>>

(* The machine boots into the default snapshot.                            *)
Reboot ==
    /\ ~loaded
    /\ active' = default
    /\ UNCHANGED <<diskVars, default, loaded, entries, op, histVars>>

CreateStep ==
    \/ CreateSingleSnapshot \/ CreatePreSnapshot
    \/ \E pre \in Num : CreatePostSnapshot(pre)
    \/ \E n \in Num : CleanDir(n)
    \/ CleanDone
    \/ CreateFilesystemSnapshot \/ CreateFilesystemSnapshotFails
    \/ WriteInfo \/ WriteInfoFails
    \/ Undo \/ UndoFails
    \/ Insert

DeleteStep ==
    \/ \E n \in Num : DeleteSnapshot(n)
    \/ DeleteFilesystemSnapshot \/ DeleteFilesystemSnapshotFails
    \/ DeleteFilelists \/ DeleteFilelistsFails
    \/ UnlinkInfo \/ UnlinkInfoFails
    \/ RemoveDir
    \/ Erase

Next ==
    \/ Initialize
    \/ CreateStep
    \/ DeleteStep
    \/ \E n \in Num, d \in Data : ModifySnapshot(n, d) \/ ModifySnapshotFails(n, d)
    \/ \E n \in Num : SetDefault(n)
    \/ Stop
    \/ Reboot

Spec == Init /\ [][Next]_vars

-----------------------------------------------------------------------------

(* nextNumber ("We want all-time unique snapshot numbers."): with          *)
(* UNIQUE_NUMBERS a snapshot that is being created never gets a number     *)
(* that a snapshot had before, across crashes, failing deletions and       *)
(* reloads of the list, as long as no create has failed.                   *)
NumbersUnique ==
    /\ UniqueNumbers /\ failed \cap {"create", "write"} = {}
    /\ op.step \in {"clean", "create", "write", "insert"}
    => op.num \notin used

(* The same, whatever has failed (doc/unique-numbers.txt: "even after      *)
(* deleting a snapshot the number is not reused for new snapshots").       *)
NumbersNeverReused ==
    UniqueNumbers /\ op.step \in {"clean", "create", "write", "insert"} => op.num \notin used

(* nextNumber: until createHelper makes the filesystem snapshot, nothing   *)
(* of an earlier snapshot is left under the new number, whatever failed or *)
(* crashed before.                                                         *)
NumberFresh ==
    op.step \in {"clean", "create"} =>
        op.num \in dirs /\ Removable(op.num) /\ ~Find(op.num)

(* createHelper and deleteSnapshot: between two operations the list, the   *)
(* directories, the info.xml files and the filesystem snapshots agree; a   *)
(* failed create has removed all it had made, also when it is info.xml     *)
(* that cannot be written, and a refused deletion has removed nothing.     *)
AllOrNothing ==
    Running /\ crashes = 0 /\ failed \subseteq {"create", "write", "delete"} =>
        \A n \in Num :
            /\ n \in subvols <=> Find(n)
            /\ infoXml[n] = entries[n]
            /\ Find(n) => n \in dirs

(* deleteSnapshot and read: a snapshot in the list that is not being       *)
(* deleted has its directory, info.xml and filesystem snapshot, also after *)
(* a crash in the middle of a create or a delete.  Only a failing          *)
(* writeInfo of a modification or a failing deleteFilelists break it.      *)
ListedExists ==
    failed \cap {"modify", "filelists"} = {} =>
        \A n \in Listed \ {op.num} :
            n \in dirs /\ n \in subvols /\ infoXml[n] = entries[n]

(* createPostSnapshot and findPost: a pre snapshot has at most one post    *)
(* snapshot, and what a post snapshot names as its pre snapshot is one, if *)
(* it still exists.  Needs that the number of a deleted pre snapshot is    *)
(* not given to another snapshot.                                          *)
PrePostPaired ==
    UniqueNumbers /\ failed \cap {"create", "write"} = {} =>
        \A n \in Listed : entries[n].type = "post" =>
            /\ Find(entries[n].pre) => entries[entries[n].pre].type = "pre"
            /\ \A m \in Listed \ {n} :
                   entries[m].type = "post" => entries[m].pre # entries[n].pre

(* deleteSnapshot refuses the default and the active snapshot: the system  *)
(* that runs and the one that boots next keep their filesystem snapshot.   *)
SystemSnapshotsKept == {default, active} \ {0} \subseteq subvols
=============================================================================
