------------------------------ MODULE Backends ------------------------------
(***************************************************************************)
(* Making and deleting snapshots on btrfs, bcachefs and LVM thin volumes,  *)
(* step by step (Btrfs.cc, Bcachefs.cc, Lvm.cc, called by Snapshot.cc):    *)
(* the directory of the number, the place to mount the snapshot on, the    *)
(* subvolume or logical volume, and info.xml.  Any step may fail, and the  *)
(* daemon may die between two of them.                                     *)
(***************************************************************************)
EXTENDS Integers, FiniteSets

CONSTANTS Backend,       \* the file systems to look at
          FromOn,        \* those on which snapshots of snapshots are asked for
          Nums, Contents, NoContent,
          MaxWrites,     \* bound: changes of contents
          MaxFsFaults    \* bound: failing steps and crashes

(* Snapshot numbers start at 1.  BcachefsUtils.cc has no way to name the   *)
(* snapshot a new one is taken of, so that is asked of the others only.    *)
ASSUME BackendsAssumption ==
    /\ Nums \subseteq Nat \ {0}
    /\ Contents # {}
    /\ "bcachefs" \notin FromOn

VARIABLES
    backend,
    liveData,       \* the content of the subvolume
    store,          \* subvolumes (logical volumes) of snapshots: content, ro
    infosDir,       \* whether .snapshots exists
    infoDirs,       \* the numbers with a directory in .snapshots
    snapshotDirs,   \* LVM: the numbers with a directory to mount on
    infoXml,        \* the numbers with an info.xml
    listed,         \* Snapshots::entries
    job,            \* the operation that is running
    writes, fsFaults

backVars == <<backend, liveData, store, infosDir, infoDirs, snapshotDirs, infoXml,
              listed, job, writes, fsFaults>>

NoJob == [pc |-> "none", num |-> 0, from |-> 0, ro |-> FALSE, empty |-> FALSE]

Init ==
    /\ backend \in Backend
    /\ liveData = CHOOSE c \in Contents : TRUE
    /\ store = <<>> /\ infosDir = TRUE /\ infoDirs = {} /\ snapshotDirs = {}
    /\ infoXml = {} /\ listed = {}
    /\ job = NoJob /\ writes = 0 /\ fsFaults = 0

TypeOK ==
    /\ backend \in Backend /\ liveData \in Contents
    /\ DOMAIN store \subseteq Nums
    /\ \A n \in DOMAIN store : store[n] \in [content : Contents \cup {NoContent}, ro : BOOLEAN]
    /\ infoDirs \cup listed \subseteq Nums
    /\ infoXml \cup snapshotDirs \subseteq infoDirs
    /\ infosDir \in BOOLEAN /\ job.num \in Nums \cup {0}

Subvolumes == backend # "lvm"

Goto(pc) == job' = [job EXCEPT !.pc = pc]

Fault == fsFaults < MaxFsFaults /\ fsFaults' = fsFaults + 1

NoFault == UNCHANGED fsFaults

others == UNCHANGED <<backend, liveData, writes>>

(* The directories rmdir can remove.  A subvolume is inside of the         *)
(* directory of its number, a logical volume is not.                       *)
Rmdir(nums) ==
    {n \in nums : /\ n \notin infoXml /\ n \notin snapshotDirs
                  /\ ~(Subvolumes /\ n \in DOMAIN store)}

(* Subvolumes are found in the directory, logical volumes in the cache.    *)
checkSnapshot(n) == n \in DOMAIN store /\ (Subvolumes => n \in infoDirs)

-----------------------------------------------------------------------------
(* After the highest number of the list and of the directories, the next   *)
(* one without a snapshot.                                                 *)
nextNumber(n) ==
    /\ n \notin infoDirs /\ ~checkSnapshot(n)
    /\ \A m \in infoDirs \cup listed : m < n
    /\ \A m \in 1 .. n - 1 :
          m \in infoDirs \/ checkSnapshot(m) \/ \E k \in infoDirs \cup listed : m < k

(* Directories of no snapshot are swept.                                   *)
CreateSnapshot(from, ro, empty) ==
    /\ job = NoJob /\ infosDir
    /\ from \in listed \cup {0}
    /\ from # 0 => backend \in FromOn /\ ~empty
    /\ empty => Subvolumes
    /\ \E n \in Nums :
          /\ nextNumber(n)
          /\ infoDirs' = (infoDirs \cup {n}) \ Rmdir(infoDirs \ listed)
          /\ job' = [pc |-> IF Subvolumes THEN "volume" ELSE "mkdir",
                     num |-> n, from |-> from, ro |-> ro, empty |-> empty]
    /\ UNCHANGED <<store, infosDir, snapshotDirs, infoXml, listed>>
    /\ NoFault /\ others

(* Lvm::createSnapshot: snapshots of snapshots are unsupported, which is   *)
(* not a CreateSnapshotFailedException: the directory stays.               *)
CreateMkdir ==
    /\ job.pc = "mkdir"
    /\ \/ /\ job.from # 0
          /\ job' = NoJob /\ NoFault /\ UNCHANGED <<infoDirs, snapshotDirs>>
       \/ /\ job.from = 0
          /\ snapshotDirs' = snapshotDirs \cup {job.num}
          /\ Goto("volume") /\ NoFault /\ UNCHANGED infoDirs
       \/ /\ job.from = 0 /\ Fault
          /\ infoDirs' = infoDirs \ Rmdir({job.num})
          /\ job' = NoJob /\ UNCHANGED snapshotDirs
    /\ UNCHANGED <<store, infosDir, infoXml, listed>>
    /\ others

(* What the ioctl or lvcreate is told to make a snapshot of.  bcachefs is  *)
(* given the path of the subvolume, also when the parent is a snapshot.    *)
SourceOf(from) ==
    IF from = 0 \/ backend = "bcachefs" THEN liveData ELSE store[from].content

(* Mutant: the ioctl without flags, and nobody looks at read_only.         *)
VolumeLegacy(r) ==
    [content |-> IF r.empty THEN NoContent ELSE SourceOf(r.from), ro |-> FALSE]

(* create_subvolume takes no flags.                                        *)
Volume(r) ==
    [content |-> IF r.empty THEN NoContent ELSE SourceOf(r.from), ro |-> r.ro /\ ~r.empty]

(* A name that is taken makes it fail.                                     *)
CreateVolume ==
    LET n == job.num IN
    /\ job.pc = "volume"
    /\ \/ /\ n \notin DOMAIN store
          /\ store' = [m \in DOMAIN store \cup {n} |-> IF m = n THEN Volume(job) ELSE store[m]]
          /\ Goto("info") /\ NoFault /\ UNCHANGED infoDirs
       \/ /\ IF n \in DOMAIN store THEN NoFault ELSE Fault
          /\ infoDirs' = infoDirs \ Rmdir({n})
          /\ job' = NoJob /\ UNCHANGED store
    /\ UNCHANGED <<infosDir, snapshotDirs, infoXml, listed>>
    /\ others

(* writeInfo; when it fails the snapshot is deleted again.                 *)
WriteInfo ==
    /\ job.pc = "info"
    /\ \/ /\ infoXml' = infoXml \cup {job.num} /\ listed' = listed \cup {job.num}
          /\ job' = NoJob /\ NoFault
       \/ Fault /\ Goto("undo") /\ UNCHANGED <<infoXml, listed>>
    /\ UNCHANGED <<store, infosDir, infoDirs, snapshotDirs>>
    /\ others

-----------------------------------------------------------------------------
DeleteSnapshot(n) ==
    /\ job = NoJob /\ n \in listed
    /\ job' = [NoJob EXCEPT !.pc = "delete", !.num = n]
    /\ UNCHANGED <<store, infosDir, infoDirs, snapshotDirs, infoXml, listed>>
    /\ NoFault /\ others

Undoing == job.pc \in {"undo", "undo dirs"}

(* umountSnapshot and the ioctl or lvremove.  A snapshot that is in use,   *)
(* or a failing command, ends it.                                          *)
DeleteVolume ==
    /\ job.pc \in {"delete", "undo"}
    /\ \/ /\ store' = [m \in DOMAIN store \ {job.num} |-> store[m]]
          /\ Goto(IF Undoing THEN "undo dirs" ELSE "delete dirs") /\ NoFault
       \/ Fault /\ job' = NoJob /\ UNCHANGED store
    /\ UNCHANGED <<infosDir, infoDirs, snapshotDirs, infoXml, listed>>
    /\ others

(* Lvm::deleteSnapshot removes the directory to mount on; errors are       *)
(* logged only.  It tries to remove the directory of the number, too.      *)
DeleteDirs ==
    /\ job.pc \in {"delete dirs", "undo dirs"}
    /\ \/ snapshotDirs' = snapshotDirs \ {job.num} /\ NoFault
       \/ Fault /\ job.num \in snapshotDirs /\ UNCHANGED snapshotDirs
    /\ IF Undoing
       THEN /\ infoDirs' = infoDirs \ (IF job.num \in snapshotDirs' THEN {} ELSE {job.num})
            /\ job' = NoJob
       ELSE Goto("delete info") /\ UNCHANGED infoDirs
    /\ UNCHANGED <<store, infosDir, infoXml, listed>>
    /\ others

(* The directory of the highest number stays: numbers are unique.          *)
DeleteInfo ==
    /\ job.pc = "delete info"
    /\ infoXml' = infoXml \ {job.num}
    /\ infoDirs' = infoDirs \ (IF job.num \in snapshotDirs \/ \A m \in listed : m <= job.num
                               THEN {} ELSE {job.num})
    /\ listed' = listed \ {job.num}
    /\ job' = NoJob
    /\ UNCHANGED <<store, infosDir, snapshotDirs>>
    /\ NoFault /\ others

(* BcachefsUtils has no set_subvolume_read_only.                           *)
setSnapshotReadOnly(n, ro) ==
    /\ job = NoJob /\ n \in listed /\ n \in DOMAIN store
    /\ backend # "bcachefs"
    /\ store' = [store EXCEPT ![n].ro = ro]
    /\ UNCHANGED <<infosDir, infoDirs, snapshotDirs, infoXml, listed, job>>
    /\ NoFault /\ others

(* Snapper::deleteConfig: when all snapshots are gone, the directories of  *)
(* unused numbers, then .snapshots.  On LVM that must be empty, the other  *)
(* two delete the subvolume unless there is another one in it.             *)
DeleteConfig ==
    LET left == infoDirs \ Rmdir(infoDirs) IN
    /\ job = NoJob /\ listed = {} /\ infosDir
    /\ IF IF Subvolumes THEN infoDirs \cap DOMAIN store = {} ELSE left = {}
       THEN infosDir' = FALSE /\ infoDirs' = {} /\ infoXml' = {}
       ELSE infoDirs' = left /\ UNCHANGED <<infosDir, infoXml>>
    /\ UNCHANGED <<store, snapshotDirs, listed, job>>
    /\ NoFault /\ others

CreateConfig ==
    /\ job = NoJob /\ ~infosDir /\ infosDir' = TRUE
    /\ UNCHANGED <<store, infoDirs, snapshotDirs, infoXml, listed, job>>
    /\ NoFault /\ others

-----------------------------------------------------------------------------
(* The daemon dies and reads the list anew: the numbers with an info.xml   *)
(* and a snapshot.                                                         *)
Crash ==
    /\ Fault
    /\ job' = NoJob
    /\ listed' = {n \in infoXml : checkSnapshot(n)}
    /\ UNCHANGED <<backend, liveData, store, infosDir, infoDirs, snapshotDirs, infoXml,
                   writes>>

(* Somebody writes to the subvolume, or to a snapshot that is not          *)
(* read-only (those of LVM are mounted read-only).                         *)
Write(c) ==
    /\ writes < MaxWrites /\ writes' = writes + 1
    /\ \/ liveData' = c /\ UNCHANGED store
       \/ /\ Subvolumes
          /\ \E n \in DOMAIN store : ~store[n].ro /\ store' = [store EXCEPT ![n].content = c]
          /\ UNCHANGED liveData
    /\ UNCHANGED <<backend, infosDir, infoDirs, snapshotDirs, infoXml, listed, job,
                   fsFaults>>

Next ==
    \/ \E from \in Nums \cup {0}, ro, empty \in BOOLEAN : CreateSnapshot(from, ro, empty)
    \/ CreateMkdir \/ CreateVolume \/ WriteInfo
    \/ \E n \in Nums : DeleteSnapshot(n) \/ \E ro \in BOOLEAN : setSnapshotReadOnly(n, ro)
    \/ DeleteVolume \/ DeleteDirs \/ DeleteInfo
    \/ DeleteConfig \/ CreateConfig \/ Crash
    \/ \E c \in Contents : Write(c)

Spec == Init /\ [][Next]_backVars

-----------------------------------------------------------------------------
Asked ==
    [num |-> job.num, from |-> job.from, ro |-> job.ro, empty |-> job.empty]

Abstract == INSTANCE Filesystem WITH
    live <- liveData,
    taken <- store,
    shown <- listed \cap DOMAIN store,
    asked <- IF job.pc \in {"mkdir", "volume", "info"} THEN Asked
             ELSE [num |-> 0, from |-> 0, ro |-> FALSE, empty |-> FALSE]

(* With failing steps and crashes in between, btrfs, bcachefs and LVM take *)
(* and delete snapshots as the interface Filesystem promises: whole, with  *)
(* the content and the flag that were asked for, listed only afterwards.   *)
Implements == Abstract!Spec

(* The list never shows a number without a snapshot (outside of the        *)
(* deletion of that number), and a number whose snapshot is still there    *)
(* is not given to a new one.                                              *)
NumberFree ==
    /\ listed \subseteq DOMAIN store \cup {job.num}
    /\ job.pc \in {"mkdir", "volume"} => job.num \notin DOMAIN store
=============================================================================
