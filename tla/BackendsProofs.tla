--------------------------- MODULE BackendsProofs ---------------------------
(***************************************************************************)
(* The file systems implement the interface Filesystem, for any numbers,   *)
(* contents, writes and failures, as long as no snapshot of a snapshot is  *)
(* asked of bcachefs.  The inductive invariant relates what is on disk to  *)
(* the list of snapshots at every step of an operation.                    *)
(***************************************************************************)
EXTENDS Backends, TLAPS

Given ==
    /\ Nums \subseteq Nat \ {0}
    /\ Contents # {}
    /\ "bcachefs" \notin FromOn

LEMMA GivenHolds == Given
  BY BackendsAssumption DEF Given

Pcs == {"none", "mkdir", "volume", "info", "undo", "undo dirs", "delete", "delete dirs",
        "delete info"}

Creating == job.pc \in {"mkdir", "volume", "info"}

Jobs ==
    /\ job \in [pc : Pcs, num : Nums \cup {0}, from : Nums \cup {0}, ro : BOOLEAN,
                empty : BOOLEAN]
    /\ job.pc = "none" <=> job = NoJob
    /\ job.pc # "none" => job.num \in Nums
    /\ job.from # 0 => backend \in FromOn

(* What is on disk: a subvolume lies in the directory of its number, an    *)
(* info.xml as well, and a snapshot is listed if it has an info.xml.       *)
Disk ==
    /\ DOMAIN store \subseteq Nums
    /\ infoXml \subseteq infoDirs
    /\ Subvolumes => DOMAIN store \subseteq infoDirs
    /\ \A n \in DOMAIN store : n \in listed <=> n \in infoXml

(* How far the operation is.                                               *)
Progress ==
    /\ Creating \/ Undoing =>
          job.num \in infoDirs /\ job.num \notin listed /\ job.num \notin infoXml
    /\ job.pc \in {"mkdir", "volume"} => job.num \notin DOMAIN store
    /\ job.pc \in {"info", "undo"} => job.num \in DOMAIN store
    /\ job.pc = "delete" => job.num \in DOMAIN store \cap listed
    /\ job.pc \in {"undo dirs", "delete dirs", "delete info"} => job.num \notin DOMAIN store
    /\ \A n \in listed : n \in DOMAIN store \/ (n = job.num /\ job.pc \in {"delete dirs", "delete info"})

IInv == Jobs /\ Disk /\ Progress

LEMMA NoJobType ==
  ASSUME Given
  PROVE  /\ NoJob \in [pc : Pcs, num : Nums \cup {0}, from : Nums \cup {0}, ro : BOOLEAN,
                       empty : BOOLEAN]
         /\ NoJob.pc = "none" /\ NoJob.from = 0 /\ NoJob.num = 0
  BY DEF NoJob, Pcs

LEMMA InitIInv == ASSUME Given, Init PROVE IInv
  <1>1. Jobs
    BY NoJobType DEF Init, Jobs
  <1>2. DOMAIN store = {}
    <2>1. store = << >>
      BY DEF Init
    <2>2. QED
      BY <2>1
  <1>3. job.pc = "none" /\ listed = {} /\ infoXml = {}
    BY NoJobType DEF Init
  <1>4. QED
    BY <1>1, <1>2, <1>3 DEF IInv, Disk, Progress, Creating, Undoing

(* Goto keeps the number and the wishes of the job.                        *)
LEMMA GotoJob ==
  ASSUME Given, Jobs, NEW pc \in Pcs \ {"none"}, Goto(pc), job.pc # "none", backend' = backend
  PROVE  /\ Jobs' /\ job'.pc = pc /\ job'.num = job.num /\ job'.from = job.from
         /\ job'.ro = job.ro /\ job'.empty = job.empty
  <1>1. job' \in [pc : Pcs, num : Nums \cup {0}, from : Nums \cup {0}, ro : BOOLEAN, empty : BOOLEAN]
    BY Zenon DEF Jobs, Goto
  <1>2. /\ job'.pc = pc /\ job'.num = job.num /\ job'.from = job.from
        /\ job'.ro = job.ro /\ job'.empty = job.empty
    BY DEF Jobs, Goto
  <1>3. QED
    BY <1>1, <1>2, NoJobType DEF Jobs

LEMMA DoneJob ==
  ASSUME Given, job' = NoJob
  PROVE  Jobs'
  BY NoJobType DEF Jobs

LEMMA CreateIInv ==
  ASSUME Given, IInv, NEW from \in Nums \cup {0}, NEW ro \in BOOLEAN, NEW empty \in BOOLEAN,
         CreateSnapshot(from, ro, empty)
  PROVE  IInv'
  <1>1. PICK n \in Nums :
          /\ nextNumber(n)
          /\ infoDirs' = (infoDirs \cup {n}) \ Rmdir(infoDirs \ listed)
          /\ job' = [pc |-> IF Subvolumes THEN "volume" ELSE "mkdir",
                     num |-> n, from |-> from, ro |-> ro, empty |-> empty]
    BY DEF CreateSnapshot
  <1>2. /\ job = NoJob
        /\ from # 0 => backend \in FromOn
        /\ UNCHANGED <<store, infosDir, snapshotDirs, infoXml, listed, backend>>
    BY DEF CreateSnapshot, others
  <1>3. job.pc = "none" /\ listed \subseteq DOMAIN store
    BY <1>2, NoJobType DEF IInv, Progress
  <1>4. n \notin infoDirs /\ n \notin listed /\ n \notin DOMAIN store
    <2>1. n \notin infoDirs /\ n \notin listed
      BY <1>1 DEF nextNumber, Given
    <2>2. ~checkSnapshot(n)
      BY <1>1 DEF nextNumber
    <2>3. QED
      BY <2>1, <2>2 DEF checkSnapshot, IInv, Disk
  <1>5. /\ job'.pc \in {"mkdir", "volume"} /\ job'.num = n /\ job'.from = from
    BY <1>1
  <1>6. Jobs'
    <2>1. job' \in [pc : Pcs, num : Nums \cup {0}, from : Nums \cup {0}, ro : BOOLEAN, empty : BOOLEAN]
      <3>1. (IF Subvolumes THEN "volume" ELSE "mkdir") \in Pcs
        BY DEF Pcs
      <3>2. QED
        BY <1>1, <3>1, Zenon
    <2>2. QED
      BY <1>2, <1>5, <2>1, NoJobType DEF Jobs
  <1>7. \A m \in Rmdir(infoDirs \ listed) :
           m \in infoDirs /\ m \notin infoXml /\ ~(Subvolumes /\ m \in DOMAIN store)
    BY DEF Rmdir
  <1>8. Disk'
    BY <1>1, <1>2, <1>4, <1>7 DEF IInv, Disk, Subvolumes
  <1>9. Progress'
    BY <1>1, <1>2, <1>3, <1>4, <1>5, <1>7 DEF IInv, Disk, Progress, Creating, Undoing
  <1>10. QED
    BY <1>6, <1>8, <1>9 DEF IInv

(* The steps that end the job, or go on with it, and sweep directories.    *)
LEMMA RmdirKeeps ==
  ASSUME NEW nums
  PROVE  \A m \in Rmdir(nums) : m \notin infoXml /\ (Subvolumes => m \notin DOMAIN store)
  BY DEF Rmdir

LEMMA MkdirIInv == ASSUME Given, IInv, CreateMkdir PROVE IInv'
  <1>1. /\ UNCHANGED <<store, infoXml, listed, backend>> /\ job.pc = "mkdir"
    BY DEF CreateMkdir, others
  <1>2. CASE job' = NoJob
    <2>1. infoDirs' = infoDirs \/ infoDirs' = infoDirs \ Rmdir({job.num})
      BY <1>2, NoJobType DEF CreateMkdir, Goto, IInv, Jobs
    <2>2. Jobs' /\ job'.pc = "none"
      BY <1>2, DoneJob, NoJobType
    <2>3. QED
      BY <1>1, <2>1, <2>2, RmdirKeeps DEF IInv, Disk, Progress, Creating, Undoing, Subvolumes
  <1>3. CASE Goto("volume") /\ UNCHANGED infoDirs
    <2>1. Jobs' /\ job'.pc = "volume" /\ job'.num = job.num
      BY <1>1, <1>3, GotoJob DEF IInv, Pcs
    <2>2. QED
      BY <1>1, <1>3, <2>1 DEF IInv, Disk, Progress, Creating, Undoing, Subvolumes
  <1>4. QED
    BY <1>2, <1>3 DEF CreateMkdir

LEMMA VolumeIInv == ASSUME Given, IInv, CreateVolume PROVE IInv'
  <1>1. /\ UNCHANGED <<infoXml, listed, backend>> /\ job.pc = "volume"
    BY DEF CreateVolume, others
  <1>2. CASE job' = NoJob /\ UNCHANGED store /\ infoDirs' = infoDirs \ Rmdir({job.num})
    <2>1. Jobs' /\ job'.pc = "none"
      BY <1>2, DoneJob, NoJobType
    <2>2. QED
      BY <1>1, <1>2, <2>1, RmdirKeeps DEF IInv, Disk, Progress, Creating, Undoing, Subvolumes
  <1>3. CASE /\ job.num \notin DOMAIN store
             /\ store' = [m \in DOMAIN store \cup {job.num} |->
                             IF m = job.num THEN Volume(job) ELSE store[m]]
             /\ Goto("info") /\ UNCHANGED infoDirs
    <2>1. Jobs' /\ job'.pc = "info" /\ job'.num = job.num
      BY <1>1, <1>3, GotoJob DEF IInv, Pcs
    <2>2. DOMAIN store' = DOMAIN store \cup {job.num}
      BY <1>3
    <2>3. job.num \in Nums
      BY <1>1 DEF IInv, Jobs
    <2>4. QED
      BY <1>1, <1>3, <2>1, <2>2, <2>3 DEF IInv, Disk, Progress, Creating, Undoing, Subvolumes
  <1>4. QED
    BY <1>2, <1>3 DEF CreateVolume

LEMMA InfoIInv == ASSUME Given, IInv, WriteInfo PROVE IInv'
  <1>1. UNCHANGED <<store, infoDirs, backend>> /\ job.pc = "info"
    BY DEF WriteInfo, others
  <1>2. CASE /\ infoXml' = infoXml \cup {job.num} /\ listed' = listed \cup {job.num}
             /\ job' = NoJob
    <2>1. Jobs' /\ job'.pc = "none"
      BY <1>2, DoneJob, NoJobType
    <2>2. QED
      BY <1>1, <1>2, <2>1 DEF IInv, Disk, Progress, Creating, Undoing, Subvolumes
  <1>3. CASE Goto("undo") /\ UNCHANGED <<infoXml, listed>>
    <2>1. Jobs' /\ job'.pc = "undo" /\ job'.num = job.num
      BY <1>1, <1>3, GotoJob DEF IInv, Pcs
    <2>2. QED
      BY <1>1, <1>3, <2>1 DEF IInv, Disk, Progress, Creating, Undoing, Subvolumes
  <1>4. QED
    BY <1>2, <1>3 DEF WriteInfo

LEMMA DeleteIInv ==
  ASSUME Given, IInv, NEW n \in Nums, DeleteSnapshot(n)
  PROVE  IInv'
  <1>1. /\ job = NoJob /\ n \in listed
        /\ job' = [NoJob EXCEPT !.pc = "delete", !.num = n]
        /\ UNCHANGED <<store, infoDirs, infoXml, listed, backend>>
    BY DEF DeleteSnapshot, others
  <1>2. Jobs' /\ job'.pc = "delete" /\ job'.num = n
    <2>1. job'.pc = "delete" /\ job'.num = n /\ job'.from = 0
      BY <1>1 DEF NoJob
    <2>2. job' \in [pc : Pcs, num : Nums \cup {0}, from : Nums \cup {0}, ro : BOOLEAN, empty : BOOLEAN]
      <3>1. ASSUME NEW p \in Pcs, NEW m \in Nums \cup {0}
            PROVE  [NoJob EXCEPT !.pc = p, !.num = m] \in
                      [pc : Pcs, num : Nums \cup {0}, from : Nums \cup {0}, ro : BOOLEAN, empty : BOOLEAN]
        BY NoJobType, Zenon
      <3>2. "delete" \in Pcs
        BY DEF Pcs
      <3>3. QED
        BY <1>1, <3>1, <3>2
    <2>3. QED
      BY <2>1, <2>2, NoJobType DEF Jobs
  <1>3. n \in DOMAIN store
    BY <1>1, NoJobType DEF IInv, Progress
  <1>4. QED
    BY <1>1, <1>2, <1>3, NoJobType DEF IInv, Disk, Progress, Creating, Undoing, Subvolumes

LEMMA DeleteVolumeIInv == ASSUME Given, IInv, DeleteVolume PROVE IInv'
  <1>1. UNCHANGED <<infoDirs, infoXml, listed, backend>> /\ job.pc \in {"delete", "undo"}
    BY DEF DeleteVolume, others
  <1>2. CASE job' = NoJob /\ UNCHANGED store
    <2>1. Jobs' /\ job'.pc = "none"
      BY <1>2, DoneJob, NoJobType
    <2>2. QED
      BY <1>1, <1>2, <2>1 DEF IInv, Disk, Progress, Creating, Undoing, Subvolumes
  <1>3. CASE /\ store' = [m \in DOMAIN store \ {job.num} |-> store[m]]
             /\ Goto(IF Undoing THEN "undo dirs" ELSE "delete dirs")
    <2>1. DOMAIN store' = DOMAIN store \ {job.num}
      BY <1>3
    <2>2. CASE job.pc = "undo"
      <3>1. Jobs' /\ job'.pc = "undo dirs" /\ job'.num = job.num
        BY <1>1, <1>3, <2>2, GotoJob DEF IInv, Pcs, Undoing
      <3>2. QED
        BY <1>1, <2>1, <2>2, <3>1 DEF IInv, Disk, Progress, Creating, Undoing, Subvolumes
    <2>3. CASE job.pc = "delete"
      <3>1. Jobs' /\ job'.pc = "delete dirs" /\ job'.num = job.num
        BY <1>1, <1>3, <2>3, GotoJob DEF IInv, Pcs, Undoing
      <3>2. QED
        BY <1>1, <2>1, <2>3, <3>1 DEF IInv, Disk, Progress, Creating, Undoing, Subvolumes
    <2>4. QED
      BY <1>1, <2>2, <2>3
  <1>4. QED
    BY <1>2, <1>3 DEF DeleteVolume

LEMMA DeleteDirsIInv == ASSUME Given, IInv, DeleteDirs PROVE IInv'
  <1>1. UNCHANGED <<store, infoXml, listed, backend>> /\ job.pc \in {"delete dirs", "undo dirs"}
    BY DEF DeleteDirs, others
  <1>2. CASE Undoing
    <2>1. job' = NoJob /\ infoDirs' \in {infoDirs, infoDirs \ {job.num}}
      BY <1>2 DEF DeleteDirs
    <2>2. Jobs' /\ job'.pc = "none"
      BY <2>1, DoneJob, NoJobType
    <2>3. QED
      BY <1>1, <1>2, <2>1, <2>2 DEF IInv, Disk, Progress, Creating, Undoing, Subvolumes
  <1>3. CASE ~Undoing
    <2>1. Goto("delete info") /\ UNCHANGED infoDirs
      BY <1>3 DEF DeleteDirs
    <2>2. Jobs' /\ job'.pc = "delete info" /\ job'.num = job.num
      BY <1>1, <2>1, GotoJob DEF IInv, Pcs
    <2>3. QED
      BY <1>1, <1>3, <2>1, <2>2 DEF IInv, Disk, Progress, Creating, Undoing, Subvolumes
  <1>4. QED
    BY <1>2, <1>3

LEMMA DeleteInfoIInv == ASSUME Given, IInv, DeleteInfo PROVE IInv'
  <1>1. /\ job.pc = "delete info" /\ job' = NoJob /\ UNCHANGED <<store, backend>>
        /\ infoXml' = infoXml \ {job.num} /\ listed' = listed \ {job.num}
        /\ infoDirs' \in {infoDirs, infoDirs \ {job.num}}
    BY DEF DeleteInfo, others
  <1>2. Jobs' /\ job'.pc = "none"
    BY <1>1, DoneJob, NoJobType
  <1>3. QED
    BY <1>1, <1>2 DEF IInv, Disk, Progress, Creating, Undoing, Subvolumes

LEMMA KeepIInv ==
  ASSUME IInv, UNCHANGED <<infoDirs, infoXml, listed, job, backend>>, DOMAIN store' = DOMAIN store
  PROVE  IInv'
  BY DEF IInv, Jobs, Disk, Progress, Creating, Undoing, Subvolumes

LEMMA ReadOnlyIInv ==
  ASSUME IInv, NEW n \in Nums, NEW ro \in BOOLEAN, setSnapshotReadOnly(n, ro)
  PROVE  IInv'
  <1>1. DOMAIN store' = DOMAIN store
    BY DEF setSnapshotReadOnly
  <1>2. QED
    BY <1>1, KeepIInv DEF setSnapshotReadOnly, others

LEMMA WriteIInv ==
  ASSUME IInv, NEW c \in Contents, Write(c)
  PROVE  IInv'
  <1>1. DOMAIN store' = DOMAIN store
    BY DEF Write
  <1>2. QED
    BY <1>1, KeepIInv DEF Write

LEMMA ConfigIInv ==
  ASSUME Given, IInv, DeleteConfig \/ CreateConfig
  PROVE  IInv'
  <1>1. CASE CreateConfig
    BY <1>1, KeepIInv DEF CreateConfig, others
  <1>2. CASE DeleteConfig
    <2>1. job = NoJob /\ listed = {} /\ UNCHANGED <<store, listed, job, backend>>
      BY <1>2 DEF DeleteConfig, others
    <2>2. CASE infoDirs' = {} /\ infoXml' = {} /\ (Subvolumes => infoDirs \cap DOMAIN store = {})
      <3>1. Subvolumes => DOMAIN store = {}
        BY <2>2 DEF IInv, Disk
      <3>2. \A n \in DOMAIN store : n \notin infoXml
        BY <2>1 DEF IInv, Disk
      <3>3. QED
        BY <2>1, <2>2, <3>1, <3>2, NoJobType
        DEF IInv, Jobs, Disk, Progress, Creating, Undoing, Subvolumes
    <2>3. CASE infoDirs' = infoDirs \ Rmdir(infoDirs) /\ UNCHANGED infoXml
      BY <2>1, <2>3, RmdirKeeps, NoJobType
      DEF IInv, Jobs, Disk, Progress, Creating, Undoing, Subvolumes
    <2>4. QED
      BY <1>2, <2>2, <2>3 DEF DeleteConfig
  <1>3. QED
    BY <1>1, <1>2

LEMMA CrashIInv == ASSUME Given, IInv, Crash PROVE IInv'
  <1>1. /\ job' = NoJob /\ UNCHANGED <<store, infoDirs, infoXml, backend>>
        /\ listed' = {n \in infoXml : checkSnapshot(n)}
    BY DEF Crash
  <1>2. Jobs' /\ job'.pc = "none"
    BY <1>1, DoneJob, NoJobType
  <1>3. \A n \in DOMAIN store : n \in infoXml => checkSnapshot(n)
    BY DEF checkSnapshot, IInv, Disk
  <1>4. \A n \in listed' : n \in DOMAIN store
    BY <1>1 DEF checkSnapshot
  <1>5. QED
    BY <1>1, <1>2, <1>3, <1>4 DEF IInv, Disk, Progress, Creating, Undoing, Subvolumes

LEMMA NextIInv == ASSUME Given, IInv, [Next]_backVars PROVE IInv'
  <1>1. CASE UNCHANGED backVars
    BY <1>1, KeepIInv DEF backVars
  <1>2. QED
    BY <1>1, CreateIInv, MkdirIInv, VolumeIInv, InfoIInv, DeleteIInv, DeleteVolumeIInv,
       DeleteDirsIInv, DeleteInfoIInv, ReadOnlyIInv, WriteIInv, ConfigIInv, CrashIInv
    DEF Next

(* nextNumber and the order of the steps: whatever fails in between, a     *)
(* number is listed only while its snapshot is there, and a new snapshot   *)
(* gets a number whose snapshot is gone.                                   *)
THEOREM NumberFreeAlways == Spec => []NumberFree
  <1>1. Init => IInv
    BY GivenHolds, InitIInv
  <1>2. IInv /\ [Next]_backVars => IInv'
    BY GivenHolds, NextIInv
  <1>3. IInv => NumberFree
    BY DEF IInv, Progress, NumberFree
  <1>4. QED
    BY <1>1, <1>2, <1>3, PTL DEF Spec

-----------------------------------------------------------------------------
(* The steps of the interface.                                             *)
Shown == listed \cap DOMAIN store

NoAsk == [num |-> 0, from |-> 0, ro |-> FALSE, empty |-> FALSE]

AskedNow == IF Creating THEN Asked ELSE NoAsk

LEMMA AskedJob ==
  ASSUME Given, Jobs
  PROVE  /\ Creating => AskedNow = Asked /\ AskedNow # NoAsk
         /\ ~Creating => AskedNow = NoAsk
  <1>1. Creating => Asked.num # 0
    BY DEF Jobs, Creating, Asked, Given
  <1>2. NoAsk.num = 0
    BY DEF NoAsk
  <1>3. QED
    BY <1>1, <1>2 DEF AskedNow

LEMMA AskStep ==
  ASSUME Given, IInv, NEW from \in Nums \cup {0}, NEW ro \in BOOLEAN, NEW empty \in BOOLEAN,
         CreateSnapshot(from, ro, empty)
  PROVE  Abstract!Next
  <1>1. PICK n \in Nums :
          /\ nextNumber(n)
          /\ job' = [pc |-> IF Subvolumes THEN "volume" ELSE "mkdir",
                     num |-> n, from |-> from, ro |-> ro, empty |-> empty]
    BY DEF CreateSnapshot
  <1>2. /\ job = NoJob /\ from \in listed \cup {0}
        /\ UNCHANGED <<store, listed, liveData>>
    BY DEF CreateSnapshot, others
  <1>3. job.pc = "none" /\ listed \subseteq DOMAIN store
    BY <1>2, NoJobType DEF IInv, Progress
  <1>4. n \notin DOMAIN store
    BY <1>1 DEF nextNumber, checkSnapshot, IInv, Disk
  <1> DEFINE r == [num |-> n, from |-> from, ro |-> ro, empty |-> empty]
  <1>5. AskedNow = NoAsk /\ AskedNow' = r
    <2>1. Creating' /\ Asked' = r
      BY <1>1 DEF Creating, Asked
    <2>2. ~Creating
      BY <1>3 DEF Creating
    <2>3. QED
      BY <2>1, <2>2 DEF AskedNow
  <1>6. Abstract!Ask(r)
    BY <1>2, <1>3, <1>4, <1>5 DEF Abstract!Ask, Abstract!NoAsk, AskedNow, NoAsk, Creating
  <1>7. QED
    BY <1>6 DEF Abstract!Next

LEMMA TakeStep == ASSUME Given, IInv, CreateVolume PROVE Abstract!Next
  <1>1. Creating /\ UNCHANGED <<liveData, listed>> /\ job.pc = "volume"
    BY DEF CreateVolume, others, Creating
  <1>2. CASE job' = NoJob /\ UNCHANGED store
    <2>1. AskedNow # NoAsk /\ AskedNow' = NoAsk
      BY <1>1, <1>2, AskedJob, NoJobType DEF IInv, AskedNow, Creating
    <2>2. Abstract!GiveUp
      BY <1>1, <1>2, <2>1 DEF Abstract!GiveUp, Abstract!NoAsk, AskedNow, NoAsk, Creating
    <2>3. QED
      BY <2>2 DEF Abstract!Next
  <1>3. CASE /\ job.num \notin DOMAIN store
             /\ store' = [m \in DOMAIN store \cup {job.num} |->
                             IF m = job.num THEN Volume(job) ELSE store[m]]
             /\ Goto("info")
    <2>1. /\ Jobs' /\ job'.pc = "info" /\ job'.num = job.num /\ job'.from = job.from
          /\ job'.ro = job.ro /\ job'.empty = job.empty
      <3>1. backend' = backend
        BY DEF CreateVolume, others
      <3>2. QED
        BY <1>1, <1>3, <3>1, GotoJob DEF IInv, Pcs
    <2>2. AskedNow' = AskedNow /\ AskedNow = Asked /\ AskedNow # NoAsk
      <3>1. Asked' = Asked /\ Creating'
        BY <2>1 DEF Asked, Creating
      <3>2. QED
        BY <1>1, <3>1, AskedJob DEF IInv, AskedNow
    <2>3. Shown' = Shown
      BY <1>1, <1>3 DEF Shown, IInv, Progress, Creating
    <2>4. SourceOf(job.from) = IF job.from = 0 THEN liveData ELSE store[job.from].content
      BY DEF SourceOf, IInv, Jobs, Given
    <2>5. Abstract!Wanted(Asked) = Volume(job)
      BY <2>4 DEF Abstract!Wanted, Volume, Asked
    <2>6. Abstract!Take
      BY <1>1, <1>3, <2>2, <2>3, <2>5
      DEF Abstract!Take, Abstract!NoAsk, AskedNow, NoAsk, Shown, Creating, Asked
    <2>7. QED
      BY <2>6 DEF Abstract!Next
  <1>4. QED
    BY <1>2, <1>3 DEF CreateVolume

LEMMA ShowStep == ASSUME Given, IInv, WriteInfo PROVE Abstract!Next
  <1>1. Creating /\ UNCHANGED <<liveData, store>> /\ job.pc = "info"
    BY DEF WriteInfo, others, Creating
  <1>2. AskedNow = Asked /\ AskedNow # NoAsk /\ Asked.num = job.num
    BY <1>1, AskedJob DEF IInv, Asked
  <1>3. CASE listed' = listed \cup {job.num} /\ job' = NoJob
    <2>1. AskedNow' = NoAsk
      BY <1>3, NoJobType DEF AskedNow, Creating
    <2>2. Shown' = Shown \cup {job.num} /\ job.num \in DOMAIN store
      BY <1>1, <1>3 DEF Shown, IInv, Progress
    <2>3. Abstract!Show
      BY <1>1, <1>2, <2>1, <2>2
      DEF Abstract!Show, Abstract!NoAsk, AskedNow, NoAsk, Shown, Creating
    <2>4. QED
      BY <2>3 DEF Abstract!Next
  <1>4. CASE Goto("undo") /\ UNCHANGED listed
    <2>1. AskedNow' = NoAsk
      <3>1. job'.pc = "undo"
        BY <1>4 DEF Goto, IInv, Jobs
      <3>2. QED
        BY <3>1 DEF AskedNow, Creating
    <2>2. Abstract!GiveUp
      BY <1>1, <1>2, <1>4, <2>1 DEF Abstract!GiveUp, Abstract!NoAsk, AskedNow, NoAsk, Creating
    <2>3. QED
      BY <2>2 DEF Abstract!Next
  <1>5. QED
    BY <1>3, <1>4 DEF WriteInfo

LEMMA RemoveStep == ASSUME Given, IInv, DeleteVolume PROVE [Abstract!Next]_(Abstract!fsVars)
  <1>1. /\ UNCHANGED <<liveData, listed>> /\ job.pc \in {"delete", "undo"}
        /\ job.num \in Nums /\ job.num \in DOMAIN store
    BY DEF DeleteVolume, others, IInv, Jobs, Progress
  <1>2. AskedNow = NoAsk
    BY <1>1 DEF AskedNow, Creating
  <1>3. CASE job' = NoJob /\ UNCHANGED store
    <2>1. AskedNow' = NoAsk
      BY <1>3, NoJobType DEF AskedNow, Creating
    <2>2. UNCHANGED Abstract!fsVars
      BY <1>1, <1>2, <1>3, <2>1 DEF Abstract!fsVars, AskedNow, NoAsk, Creating
    <2>3. QED
      BY <2>2
  <1>4. CASE /\ store' = [m \in DOMAIN store \ {job.num} |-> store[m]]
             /\ Goto(IF Undoing THEN "undo dirs" ELSE "delete dirs")
    <2>1. AskedNow' = NoAsk
      <3>1. job'.pc \in {"undo dirs", "delete dirs"}
        BY <1>4 DEF Goto, IInv, Jobs
      <3>2. QED
        BY <3>1 DEF AskedNow, Creating
    <2>2. store' = Abstract!Without(job.num) /\ Shown' = Shown \ {job.num}
      BY <1>1, <1>4 DEF Abstract!Without, Shown
    <2>3. CASE job.pc = "undo"
      <3>1. job.num \notin listed
        BY <2>3 DEF IInv, Progress, Undoing
      <3>2. Abstract!Discard(job.num)
        BY <1>1, <1>2, <2>1, <2>2, <3>1
        DEF Abstract!Discard, AskedNow, NoAsk, Creating, Shown
      <3>3. QED
        BY <1>1, <3>2 DEF Abstract!Next
    <2>4. CASE job.pc = "delete"
      <3>1. job.num \in Shown
        BY <2>4 DEF IInv, Progress, Shown
      <3>2. Abstract!Delete(job.num)
        BY <1>1, <1>2, <2>1, <2>2, <3>1
        DEF Abstract!Delete, Abstract!NoAsk, AskedNow, NoAsk, Creating, Shown
      <3>3. QED
        BY <1>1, <3>2 DEF Abstract!Next
    <2>5. QED
      BY <1>1, <2>3, <2>4
  <1>5. QED
    BY <1>3, <1>4 DEF DeleteVolume

LEMMA ChangeStep ==
  ASSUME Given, IInv,
         \/ \E n \in Nums, ro \in BOOLEAN : setSnapshotReadOnly(n, ro)
         \/ \E c \in Contents : Write(c)
  PROVE  Abstract!Next
  <1>1. AskedNow' = AskedNow /\ UNCHANGED listed
    BY DEF setSnapshotReadOnly, Write, AskedNow, Creating, Asked
  <1>2. ASSUME NEW n \in Nums, NEW ro \in BOOLEAN, setSnapshotReadOnly(n, ro)
        PROVE  Abstract!Next
    <2>1. /\ n \in Shown /\ store' = [store EXCEPT ![n].ro = ro] /\ UNCHANGED liveData
      BY <1>2 DEF setSnapshotReadOnly, others, Shown
    <2>2. Shown' = Shown
      BY <1>1, <2>1 DEF Shown
    <2>3. Abstract!SetReadOnly(n, ro)
      BY <1>1, <2>1, <2>2 DEF Abstract!SetReadOnly, AskedNow, NoAsk, Creating, Shown
    <2>4. QED
      BY <2>3 DEF Abstract!Next
  <1>3. ASSUME NEW c \in Contents, Write(c)
        PROVE  Abstract!Next
    <2>1. CASE liveData' = c /\ UNCHANGED store
      <3>1. Abstract!Write(c)
        BY <1>1, <2>1 DEF Abstract!Write, AskedNow, NoAsk, Creating
      <3>2. QED
        BY <3>1 DEF Abstract!Next
    <2>2. CASE /\ \E n \in DOMAIN store : ~store[n].ro /\ store' = [store EXCEPT ![n].content = c]
               /\ UNCHANGED liveData
      <3>1. PICK n \in DOMAIN store : ~store[n].ro /\ store' = [store EXCEPT ![n].content = c]
        BY <2>2
      <3>2. n \in Nums /\ Shown' = Shown
        BY <1>1, <3>1 DEF Shown, IInv, Disk
      <3>3. Abstract!WriteSnapshot(n, c)
        BY <1>1, <2>2, <3>1, <3>2 DEF Abstract!WriteSnapshot, AskedNow, NoAsk, Creating, Shown
      <3>4. QED
        BY <3>2, <3>3 DEF Abstract!Next
    <2>3. QED
      BY <1>3, <2>1, <2>2 DEF Write
  <1>4. QED
    BY <1>2, <1>3

(* The steps that the interface does not show, unless they end a creation. *)
LEMMA HiddenStep ==
  ASSUME Given, IInv, UNCHANGED <<liveData, store>>, Shown' = Shown,
         AskedNow' \in {AskedNow, NoAsk}
  PROVE  [Abstract!Next]_(Abstract!fsVars)
  <1>1. CASE AskedNow' = AskedNow
    BY <1>1 DEF Abstract!fsVars, AskedNow, NoAsk, Creating, Shown
  <1>2. CASE AskedNow' = NoAsk /\ AskedNow # NoAsk
    <2>1. Abstract!GiveUp
      BY <1>2 DEF Abstract!GiveUp, Abstract!NoAsk, AskedNow, NoAsk, Creating, Shown
    <2>2. QED
      BY <2>1 DEF Abstract!Next
  <1>3. QED
    BY <1>1, <1>2

LEMMA NextStep == ASSUME Given, IInv, [Next]_backVars PROVE [Abstract!Next]_(Abstract!fsVars)
  <1>0. job' = NoJob => AskedNow' = NoAsk
    BY NoJobType DEF AskedNow, Creating
  <1>1. CASE UNCHANGED backVars
    BY <1>1, HiddenStep DEF backVars, AskedNow, Creating, Asked, NoAsk, Shown
  <1>2. CASE CreateMkdir
    <2>1. UNCHANGED <<liveData, store, listed>> /\ job.pc = "mkdir"
      BY <1>2 DEF CreateMkdir, others
    <2>2. CASE job' = NoJob
      BY <1>0, <2>1, <2>2, HiddenStep DEF Shown
    <2>3. CASE Goto("volume")
      <3>1. Asked' = Asked /\ job'.pc = "volume"
        BY <2>3 DEF Goto, Asked, IInv, Jobs
      <3>2. AskedNow' = AskedNow
        BY <2>1, <3>1 DEF AskedNow, Creating
      <3>3. QED
        BY <2>1, <3>2, HiddenStep DEF Shown
    <2>4. QED
      BY <1>2, <2>2, <2>3 DEF CreateMkdir
  <1>3. ASSUME NEW n \in Nums, DeleteSnapshot(n) PROVE [Abstract!Next]_(Abstract!fsVars)
    <2>1. job.pc = "none" /\ job'.pc = "delete" /\ UNCHANGED <<liveData, store, listed>>
      BY <1>3, NoJobType DEF DeleteSnapshot, others, NoJob
    <2>2. AskedNow = NoAsk /\ AskedNow' = NoAsk
      BY <2>1 DEF AskedNow, Creating
    <2>3. QED
      BY <2>1, <2>2, HiddenStep DEF Shown
  <1>4. CASE DeleteDirs
    <2>1. /\ UNCHANGED <<liveData, store, listed>> /\ job.pc \in {"delete dirs", "undo dirs"}
          /\ job' = NoJob \/ Goto("delete info")
      BY <1>4 DEF DeleteDirs, others
    <2>2. job'.pc \in {"none", "delete info"}
      BY <2>1, NoJobType DEF Goto, IInv, Jobs
    <2>3. AskedNow = NoAsk /\ AskedNow' = NoAsk
      BY <2>1, <2>2 DEF AskedNow, Creating
    <2>4. QED
      BY <2>1, <2>3, HiddenStep DEF Shown
  <1>5. CASE DeleteInfo
    <2>1. /\ UNCHANGED <<liveData, store>> /\ job.pc = "delete info" /\ job' = NoJob
          /\ listed' = listed \ {job.num}
      BY <1>5 DEF DeleteInfo, others
    <2>2. Shown' = Shown
      BY <2>1 DEF Shown, IInv, Progress
    <2>3. QED
      BY <1>0, <2>1, <2>2, HiddenStep
  <1>6. CASE DeleteConfig \/ CreateConfig
    BY <1>6, HiddenStep DEF DeleteConfig, CreateConfig, others, AskedNow, Creating, Asked, NoAsk, Shown
  <1>7. CASE Crash
    <2>1. /\ UNCHANGED <<liveData, store>> /\ job' = NoJob
          /\ listed' = {n \in infoXml : checkSnapshot(n)}
      BY <1>7 DEF Crash
    <2>2. Shown' = Shown
      BY <2>1 DEF Shown, checkSnapshot, IInv, Disk
    <2>3. QED
      BY <1>0, <2>1, <2>2, HiddenStep
  <1>8. QED
    BY <1>1, <1>2, <1>3, <1>4, <1>5, <1>6, <1>7, AskStep, TakeStep, ShowStep, RemoveStep, ChangeStep
    DEF Next

(* btrfs, bcachefs and LVM implement the interface Filesystem: every step  *)
(* of theirs, a failing one and a crash included, is a step of the         *)
(* interface or not visible in it.                                         *)
THEOREM BackendsImplement == Spec => Implements
  <1>1. Init => IInv
    BY GivenHolds, InitIInv
  <1>2. IInv /\ [Next]_backVars => IInv'
    BY GivenHolds, NextIInv
  <1>3. IInv /\ [Next]_backVars => [Abstract!Next]_(Abstract!fsVars)
    BY GivenHolds, NextStep
  <1>4. Init => Abstract!Init
    <2>1. SUFFICES ASSUME Init PROVE Abstract!Init
      OBVIOUS
    <2>2. liveData \in Contents
      BY <2>1, GivenHolds DEF Init, Given
    <2>3. job.pc = "none"
      BY GivenHolds, <2>1, NoJobType DEF Init
    <2>4. QED
      BY <2>1, <2>2, <2>3 DEF Init, Abstract!Init, Abstract!NoAsk
  <1>5. QED
    BY <1>1, <1>2, <1>3, <1>4, PTL DEF Spec, Implements, Abstract!Spec

=============================================================================
