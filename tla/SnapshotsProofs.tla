-------------------------- MODULE SnapshotsProofs --------------------------
(* Proofs about Snapshots, for every number of snapshots and every set of  *)
(* failures that a theorem does not exclude.                               *)
EXTENDS Snapshots, TLAPS

LEMMA IdleOp == Idle \in Op /\ Idle.step = "idle" /\ Idle.num = 0
  BY NumAssumption DEF Idle, Op

LEMMA EmptyList == [n \in Num |-> None] \in [Num -> Meta \cup {None}]
  OBVIOUS

LEMMA InitTypeOK == Init => TypeOK
<1> SUFFICES ASSUME Init PROVE TypeOK
  OBVIOUS
<1>1. infoXml \in [Num -> Meta \cup {None}] /\ entries \in [Num -> Meta \cup {None}]
  BY EmptyList DEF Init
<1>2. op \in Op /\ op.step = "idle" /\ op = Idle
  BY IdleOp DEF Init
<1>3. loaded \in BOOLEAN
  BY Zenon DEF Init
<1> QED
  BY <1>1, <1>2, <1>3, NumAssumption DEF Init, TypeOK, Creating

LEMMA MakeDirTypeOK ==
    ASSUME TypeOK, NEW meta \in Meta, MakeDir(meta)
    PROVE  TypeOK'
  BY NumAssumption DEF MakeDir, TypeOK, Op, sysVars, histVars, Creating, Num

LEMMA CreateTypeOK ==
    ASSUME TypeOK, CreateStep
    PROVE  TypeOK'
<1> USE IdleOp DEF TypeOK, Op, Fails, Refused, FailureKinds, Creating, Deleting, diskVars, sysVars, histVars
<1>1. CASE CreateSingleSnapshot \/ CreatePreSnapshot
  BY <1>1, MakeDirTypeOK, NumAssumption, SnapshotsAssumption
  DEF CreateSingleSnapshot, CreatePreSnapshot, Meta, Data
<1>2. CASE \E pre \in Num : CreatePostSnapshot(pre)
  <2> PICK pre \in Num : CreatePostSnapshot(pre)
    BY <1>2
  <2>1. [type |-> "post", pre |-> pre, data |-> 0] \in Meta
    BY NumAssumption, SnapshotsAssumption DEF Data, Meta, Num
  <2> QED
    BY <2>1, MakeDirTypeOK DEF CreatePostSnapshot
<1>3. CASE \E n \in Num : CleanDir(n)
  BY <1>3 DEF CleanDir
<1>4. CASE CleanDone
  BY <1>4 DEF CleanDone
<1>5. CASE CreateFilesystemSnapshot
  BY <1>5 DEF CreateFilesystemSnapshot
<1>6. CASE CreateFilesystemSnapshotFails
  BY <1>6 DEF CreateFilesystemSnapshotFails
<1>7. CASE WriteInfo
  BY <1>7 DEF WriteInfo
<1>8. CASE WriteInfoFails
  BY <1>8 DEF WriteInfoFails
<1>9. CASE Undo \/ UndoFails
  BY <1>9, Zenon DEF Undo, UndoFails
<1>10. CASE Insert
  BY <1>10 DEF Insert
<1> QED
  BY <1>1, <1>2, <1>3, <1>4, <1>5, <1>6, <1>7, <1>8, <1>9, <1>10 DEF CreateStep

LEMMA DeleteTypeOK ==
    ASSUME TypeOK, DeleteStep
    PROVE  TypeOK'
<1> USE IdleOp DEF TypeOK, Op, Fails, Refused, FailureKinds, Creating, Deleting, diskVars, sysVars, histVars
<1>1. CASE \E n \in Num : DeleteSnapshot(n)
  BY <1>1, NumAssumption DEF DeleteSnapshot, Num
<1>2. CASE DeleteFilesystemSnapshot
  BY <1>2 DEF DeleteFilesystemSnapshot
<1>3. CASE DeleteFilesystemSnapshotFails \/ DeleteFilelistsFails
  BY <1>3, Zenon DEF DeleteFilesystemSnapshotFails, DeleteFilelistsFails
<1>4. CASE DeleteFilelists
  BY <1>4 DEF DeleteFilelists
<1>5. CASE UnlinkInfo
  BY <1>5 DEF UnlinkInfo
<1>6. CASE UnlinkInfoFails
  BY <1>6 DEF UnlinkInfoFails
<1>7. CASE RemoveDir
  BY <1>7 DEF RemoveDir
<1>8. CASE Erase
  BY <1>8 DEF Erase
<1> QED
  BY <1>1, <1>2, <1>3, <1>4, <1>5, <1>6, <1>7, <1>8 DEF DeleteStep

LEMMA NextTypeOK == TypeOK /\ [Next]_vars => TypeOK'
<1> SUFFICES ASSUME TypeOK, [Next]_vars PROVE TypeOK'
  OBVIOUS
<1>1. CASE Initialize
  BY <1>1 DEF Initialize, TypeOK, Read, diskVars, sysVars, histVars
<1>2. CASE \E n \in Num, d \in Data : ModifySnapshot(n, d) \/ ModifySnapshotFails(n, d)
  <2> PICK n \in Num, d \in Data : ModifySnapshot(n, d) \/ ModifySnapshotFails(n, d)
    BY <1>2
  <2>1. Find(n) /\ entries' = [entries EXCEPT ![n].data = d]
    BY DEF ModifySnapshot, ModifySnapshotFails
  <2>2. entries[n] \in Meta
    BY <2>1 DEF Find, TypeOK
  <2>3. [entries[n] EXCEPT !.data = d] \in Meta
    BY <2>2 DEF Meta
  <2>4. entries' \in [Num -> Meta \cup {None}]
    BY <2>1, <2>3 DEF TypeOK
  <2> QED
    BY <2>4 DEF ModifySnapshot, ModifySnapshotFails, Fails, FailureKinds, TypeOK, diskVars, sysVars, histVars
<1>3. CASE \E n \in Num : SetDefault(n)
  BY <1>3, NumAssumption DEF SetDefault, TypeOK, diskVars, histVars, Num
<1>4. CASE Stop
  <2>1. entries' \in [Num -> Meta \cup {None}]
    BY <1>4, EmptyList DEF Stop
  <2>2. op' \in Op /\ op'.step = "idle" /\ op' = Idle
    BY <1>4, IdleOp DEF Stop
  <2>3. loaded' \in BOOLEAN
    BY <1>4, Zenon DEF Stop
  <2> QED
    BY <1>4, <2>1, <2>2, <2>3 DEF Stop, TypeOK, Creating, diskVars, sysVars, histVars
<1>5. CASE Reboot
  BY <1>5 DEF Reboot, TypeOK, diskVars, histVars
<1>6. CASE UNCHANGED vars
  BY <1>6 DEF TypeOK, vars, diskVars, sysVars, histVars
<1> QED
  BY <1>1, <1>2, <1>3, <1>4, <1>5, <1>6, CreateTypeOK, DeleteTypeOK DEF Next

(* Every step of the operations of Snapshots keeps the types.              *)
THEOREM TypeCorrect == Spec => []TypeOK
  BY InitTypeOK, NextTypeOK, PTL DEF Spec

-----------------------------------------------------------------------------

(* The inductive invariant behind NumberFresh: an info.xml and an entry    *)
(* have a directory, and the directory of a snapshot that is being created *)
(* is its own.                                                             *)
Structure ==
    /\ ~loaded => op.step = "idle"
    /\ \A n \in Num : infoXml[n] # None => n \in dirs
    /\ \A n \in Num : Find(n) => n \in dirs \/ (op.step = "erase" /\ n = op.num)
    /\ op.step \in Creating => op.num \in dirs /\ ~Find(op.num)
    /\ op.step \in {"clean", "create", "write", "undo"} => infoXml[op.num] = None
    /\ op.step \in {"clean", "create"} => op.num \notin subvols

LEMMA StructureCreate ==
    ASSUME TypeOK, Structure, CreateStep
    PROVE  Structure'
<1> USE IdleOp DEF TypeOK, Structure, Op, Creating, Deleting, Find, Removable, diskVars, sysVars, histVars
<1>0. ASSUME NEW meta, MakeDir(meta)
      PROVE  Structure'
  <2> PICK n \in Num : /\ IsNextNumber(n)
                       /\ dirs' = dirs \cup {n}
                       /\ op' = [step |-> "clean", num |-> n, meta |-> meta]
    BY <1>0 DEF MakeDir
  <2>1. n \notin subvols /\ n \notin dirs /\ ~Find(n)
    BY NumAssumption DEF IsNextNumber, Free, Listed, Num
  <2>2. op.step = "idle"
    BY <1>0 DEF MakeDir, Running
  <2> QED
    BY <1>0, <2>1, <2>2 DEF MakeDir, Running
<1>1. CASE CreateSingleSnapshot \/ CreatePreSnapshot
  BY <1>1, <1>0 DEF CreateSingleSnapshot, CreatePreSnapshot
<1>2. CASE \E pre \in Num : CreatePostSnapshot(pre)
  BY <1>2, <1>0 DEF CreatePostSnapshot
<1>3. CASE \E n \in Num : CleanDir(n)
  BY <1>3 DEF CleanDir, Leftover
<1>4. CASE CleanDone
  BY <1>4 DEF CleanDone
<1>5. CASE CreateFilesystemSnapshot
  BY <1>5 DEF CreateFilesystemSnapshot
<1>6. CASE CreateFilesystemSnapshotFails
  BY <1>6 DEF CreateFilesystemSnapshotFails
<1>7. CASE WriteInfo
  BY <1>7 DEF WriteInfo
<1>8. CASE WriteInfoFails
  BY <1>8 DEF WriteInfoFails
<1>9. CASE Undo \/ UndoFails
  BY <1>9 DEF Undo, UndoFails
<1>10. CASE Insert
  BY <1>10 DEF Insert
<1> QED
  BY <1>1, <1>2, <1>3, <1>4, <1>5, <1>6, <1>7, <1>8, <1>9, <1>10 DEF CreateStep

LEMMA StructureDelete ==
    ASSUME TypeOK, Structure, DeleteStep
    PROVE  Structure'
<1> USE IdleOp DEF TypeOK, Structure, Op, Creating, Deleting, Find, Removable, diskVars, sysVars, histVars
<1>1. CASE \E n \in Num : DeleteSnapshot(n)
  BY <1>1 DEF DeleteSnapshot, Running
<1>2. CASE DeleteFilesystemSnapshot
  BY <1>2 DEF DeleteFilesystemSnapshot
<1>3. CASE DeleteFilesystemSnapshotFails \/ DeleteFilelistsFails
  BY <1>3 DEF DeleteFilesystemSnapshotFails, DeleteFilelistsFails
<1>4. CASE DeleteFilelists
  BY <1>4 DEF DeleteFilelists
<1>5. CASE UnlinkInfo
  BY <1>5 DEF UnlinkInfo
<1>6. CASE UnlinkInfoFails
  BY <1>6 DEF UnlinkInfoFails
<1>7. CASE RemoveDir
  BY <1>7 DEF RemoveDir
<1>8. CASE Erase
  BY <1>8 DEF Erase
<1> QED
  BY <1>1, <1>2, <1>3, <1>4, <1>5, <1>6, <1>7, <1>8 DEF DeleteStep

LEMMA StructureNext == TypeOK /\ Structure /\ [Next]_vars => Structure'
<1> SUFFICES ASSUME TypeOK, Structure, [Next]_vars PROVE Structure'
  OBVIOUS
<1> USE IdleOp DEF TypeOK, Structure, Creating, Find, diskVars, sysVars, histVars
<1>1. CASE Initialize
  BY <1>1 DEF Initialize, Read
<1>2. CASE \E n \in Num, d \in Data : ModifySnapshot(n, d) \/ ModifySnapshotFails(n, d)
  <2> PICK n \in Num, d \in Data : ModifySnapshot(n, d) \/ ModifySnapshotFails(n, d)
    BY <1>2
  <2>1. /\ op.step = "idle" /\ Find(n) /\ n \in dirs
        /\ UNCHANGED <<dirs, subvols, op>>
        /\ \A m \in Num \ {n} : entries'[m] = entries[m] /\ infoXml'[m] = infoXml[m]
    BY DEF ModifySnapshot, ModifySnapshotFails, Running
  <2> QED
    BY <2>1
<1>3. CASE \E n \in Num : SetDefault(n)
  BY <1>3 DEF SetDefault
<1>4. CASE Stop
  BY <1>4 DEF Stop
<1>5. CASE Reboot
  BY <1>5 DEF Reboot
<1>6. CASE UNCHANGED vars
  BY <1>6 DEF vars
<1> QED
  BY <1>1, <1>2, <1>3, <1>4, <1>5, <1>6, StructureCreate, StructureDelete DEF Next

(* nextNumber never hands out a number under which anything of an earlier  *)
(* snapshot is left, whatever fails and whenever the daemon crashes.       *)
THEOREM FreshNumbers == Spec => []NumberFresh
<1>1. Init => Structure
  BY IdleOp DEF Init, Structure, Find, Creating
<1>2. Structure => NumberFresh
  BY DEF Structure, NumberFresh, Removable, Creating
<1> QED
  BY <1>1, <1>2, StructureNext, TypeCorrect, PTL DEF Spec

-----------------------------------------------------------------------------

(* No create has failed after nextNumber.                                  *)
Reliable == failed \cap {"create", "write"} = {}

(* The inductive invariant behind NumbersUnique: the directories remember  *)
(* the highest number that was ever used.                                  *)
Remembered ==
    /\ op.step # "undo"
    /\ \A u \in used : \E d \in dirs : u <= d
    /\ op.step \in Creating => \A u \in used : u < op.num

LEMMA RememberedCreate ==
    ASSUME TypeOK, Structure, Remembered, Reliable', CreateStep
    PROVE  Remembered'
<1> USE NumAssumption, IdleOp
    DEF TypeOK, Remembered, Op, Creating, Deleting, Num, Reliable, Fails, diskVars, sysVars, histVars
<1>0. ASSUME NEW meta, MakeDir(meta)
      PROVE  Remembered'
  <2> PICK n \in Num : /\ IsNextNumber(n)
                       /\ dirs' = dirs \cup {n}
                       /\ op' = [step |-> "clean", num |-> n, meta |-> meta]
    BY <1>0 DEF MakeDir
  <2>1. \A d \in dirs : d < n
    BY DEF IsNextNumber, Free
  <2>2. \A u \in used : u < n
    BY <2>1
  <2> QED
    BY <1>0, <2>2 DEF MakeDir
<1>1. CASE CreateSingleSnapshot \/ CreatePreSnapshot
  BY <1>1, <1>0 DEF CreateSingleSnapshot, CreatePreSnapshot
<1>2. CASE \E pre \in Num : CreatePostSnapshot(pre)
  BY <1>2, <1>0 DEF CreatePostSnapshot
<1>3. CASE \E n \in Num : CleanDir(n)
  <2> PICK n \in Num : CleanDir(n)
    BY <1>3
  <2>1. op.num \in dirs' /\ \A u \in used : u < op.num
    BY DEF CleanDir, Leftover, Structure
  <2> QED
    BY <2>1 DEF CleanDir
<1>4. CASE CleanDone
  BY <1>4 DEF CleanDone
<1>5. CASE CreateFilesystemSnapshot
  BY <1>5 DEF CreateFilesystemSnapshot
<1>6. CASE CreateFilesystemSnapshotFails
  BY <1>6 DEF CreateFilesystemSnapshotFails
<1>7. CASE WriteInfo
  BY <1>7 DEF WriteInfo
<1>8. CASE WriteInfoFails
  BY <1>8 DEF WriteInfoFails
<1>9. CASE Undo \/ UndoFails
  BY <1>9 DEF Undo, UndoFails
<1>10. CASE Insert
  BY <1>10 DEF Insert, Structure
<1> QED
  BY <1>1, <1>2, <1>3, <1>4, <1>5, <1>6, <1>7, <1>8, <1>9, <1>10 DEF CreateStep

LEMMA RememberedDelete ==
    ASSUME TypeOK, Structure, Remembered, UniqueNumbers, DeleteStep
    PROVE  Remembered'
<1> USE NumAssumption, IdleOp DEF TypeOK, Remembered, Op, Creating, Deleting, Num, diskVars, sysVars, histVars
<1>1. CASE \E n \in Num : DeleteSnapshot(n)
  BY <1>1 DEF DeleteSnapshot
<1>2. CASE DeleteFilesystemSnapshot
  BY <1>2 DEF DeleteFilesystemSnapshot
<1>3. CASE DeleteFilesystemSnapshotFails \/ DeleteFilelistsFails
  BY <1>3, Zenon DEF DeleteFilesystemSnapshotFails, DeleteFilelistsFails
<1>4. CASE DeleteFilelists
  BY <1>4 DEF DeleteFilelists
<1>5. CASE UnlinkInfo
  BY <1>5 DEF UnlinkInfo
<1>6. CASE UnlinkInfoFails
  BY <1>6 DEF UnlinkInfoFails
<1>7. CASE RemoveDir
  <2>1. CASE dirs' = dirs
    BY <1>7, <2>1 DEF RemoveDir
  <2>2. CASE dirs' # dirs
    <3>1. dirs' = dirs \ {op.num} /\ op.num \in Num /\ ~KeepsDir(op.num)
      BY <1>7, <2>2 DEF RemoveDir
    <3>2. PICK m \in Listed : ~(m <= op.num)
      BY <3>1 DEF KeepsDir
    <3>3. m \in Num /\ m \in dirs' /\ op.num < m
      BY <1>7, <3>1, <3>2 DEF RemoveDir, Structure, Listed
    <3>4. \A u \in used : \E d \in dirs' : u <= d
      <4> TAKE u \in used
      <4>1. PICK d \in dirs : u <= d
        OBVIOUS
      <4>2. CASE d = op.num
        BY <3>3, <4>1, <4>2
      <4>3. CASE d # op.num
        BY <3>1, <4>1, <4>3
      <4> QED
        BY <4>2, <4>3
    <3> QED
      BY <1>7, <3>4 DEF RemoveDir
  <2> QED
    BY <2>1, <2>2
<1>8. CASE Erase
  BY <1>8 DEF Erase
<1> QED
  BY <1>1, <1>2, <1>3, <1>4, <1>5, <1>6, <1>7, <1>8 DEF DeleteStep

(* Failures are not forgotten.                                             *)
LEMMA FailedGrows == [Next]_vars => failed \subseteq failed'
<1> SUFFICES ASSUME [Next]_vars PROVE failed \subseteq failed'
  OBVIOUS
<1> USE DEF Fails, Refused, histVars
<1>1. CASE CreateStep
  BY <1>1 DEF CreateStep, CreateSingleSnapshot, CreatePreSnapshot, CreatePostSnapshot, MakeDir,
     CleanDir, CleanDone, CreateFilesystemSnapshot, CreateFilesystemSnapshotFails, WriteInfo,
     WriteInfoFails, Undo, UndoFails, Insert
<1>2. CASE DeleteStep
  BY <1>2 DEF DeleteStep, DeleteSnapshot, DeleteFilesystemSnapshot, DeleteFilesystemSnapshotFails,
     DeleteFilelists, DeleteFilelistsFails, UnlinkInfo, UnlinkInfoFails, RemoveDir, Erase
<1>3. CASE \E n \in Num, d \in Data : ModifySnapshot(n, d) \/ ModifySnapshotFails(n, d)
  BY <1>3 DEF ModifySnapshot, ModifySnapshotFails
<1> QED
  BY <1>1, <1>2, <1>3 DEF Next, Initialize, SetDefault, Stop, Reboot, vars

(* The directories are a memory as long as no create fails.                *)
Memory == UniqueNumbers /\ Reliable => Remembered

LEMMA MemoryNext == TypeOK /\ Structure /\ Memory /\ [Next]_vars => Memory'
<1> SUFFICES ASSUME TypeOK, Structure, Memory, [Next]_vars, UniqueNumbers, Reliable'
             PROVE  Remembered'
  BY DEF Memory
<1>0. Remembered
  BY FailedGrows DEF Memory, Reliable
<1> USE NumAssumption, IdleOp, <1>0 DEF Remembered, Creating, Num, diskVars, sysVars, histVars
<1>1. CASE Initialize
  <2>1. \A n \in Num : Read[n] # None => n \in dirs
    BY DEF Read
  <2> QED
    BY <1>1, <2>1 DEF Initialize, TypeOK, Structure
<1>2. CASE \E n \in Num, d \in Data : ModifySnapshot(n, d) \/ ModifySnapshotFails(n, d)
  BY <1>2 DEF ModifySnapshot, ModifySnapshotFails
<1>3. CASE \E n \in Num : SetDefault(n)
  BY <1>3 DEF SetDefault
<1>4. CASE Stop
  BY <1>4 DEF Stop
<1>5. CASE Reboot
  BY <1>5 DEF Reboot
<1>6. CASE UNCHANGED vars
  BY <1>6 DEF vars
<1> QED
  BY <1>1, <1>2, <1>3, <1>4, <1>5, <1>6, RememberedCreate, RememberedDelete DEF Next

(* With UNIQUE_NUMBERS, and as long as no create fails after nextNumber    *)
(* has removed the directories of deleted snapshots, the number of a       *)
(* deleted snapshot is never used again: not after crashes at any step,    *)
(* reloads or failed deletes.                                              *)
THEOREM AllTimeUnique == Spec => []NumbersUnique
<1>1. Init => Structure
  BY IdleOp DEF Init, Structure, Find, Creating
<1>2. Init => Memory
  BY IdleOp DEF Init, Memory, Remembered, Creating
<1>3. TypeOK /\ Memory => NumbersUnique
  BY NumAssumption DEF TypeOK, Op, Memory, Reliable, Remembered, NumbersUnique, Creating, Num
<1> QED
  BY <1>1, <1>2, <1>3, StructureNext, MemoryNext, TypeCorrect, PTL DEF Spec

-----------------------------------------------------------------------------

(* Behind SystemSnapshotsKept: the snapshot of the running operation is    *)
(* not the active one, which changes only when the machine boots.          *)
SystemOp ==
    /\ {default, active} \ {0} \subseteq subvols
    /\ op.step # "idle" => op.num # active

LEMMA SystemCreate ==
    ASSUME TypeOK, Structure, SystemOp, CreateStep
    PROVE  SystemOp'
<1> USE IdleOp DEF TypeOK, SystemOp, Op, Creating, sysVars
<1>0. ASSUME NEW meta, MakeDir(meta)
      PROVE  SystemOp'
  <2> PICK n \in Num : /\ IsNextNumber(n)
                       /\ op' = [step |-> "clean", num |-> n, meta |-> meta]
    BY <1>0 DEF MakeDir
  <2>1. n \notin subvols /\ n # 0
    BY NumAssumption DEF IsNextNumber, Free, Num
  <2> QED
    BY <1>0, <2>1 DEF MakeDir
<1>1. CASE CreateSingleSnapshot \/ CreatePreSnapshot
  BY <1>1, <1>0 DEF CreateSingleSnapshot, CreatePreSnapshot
<1>2. CASE \E pre \in Num : CreatePostSnapshot(pre)
  BY <1>2, <1>0 DEF CreatePostSnapshot
<1>3. CASE (\E n \in Num : CleanDir(n)) \/ CleanDone
  BY <1>3 DEF CleanDir, CleanDone, diskVars
<1>4. CASE CreateFilesystemSnapshot \/ CreateFilesystemSnapshotFails
  BY <1>4 DEF CreateFilesystemSnapshot, CreateFilesystemSnapshotFails
<1>5. CASE WriteInfo \/ WriteInfoFails
  BY <1>5 DEF WriteInfo, WriteInfoFails, diskVars
<1>6. CASE Undo \/ UndoFails
  BY <1>6 DEF Undo, UndoFails, Deletable, diskVars
<1>7. CASE Insert
  BY <1>7 DEF Insert, diskVars
<1> QED
  BY <1>1, <1>2, <1>3, <1>4, <1>5, <1>6, <1>7 DEF CreateStep

LEMMA SystemNext == TypeOK /\ Structure /\ SystemOp /\ [Next]_vars => SystemOp'
<1> SUFFICES ASSUME TypeOK, Structure, SystemOp, [Next]_vars PROVE SystemOp'
  OBVIOUS
<1> USE IdleOp DEF SystemOp, diskVars, sysVars
<1>1. CASE Initialize
  BY <1>1 DEF Initialize
<1>2. CASE DeleteStep
  <2>1. CASE \E n \in Num : DeleteSnapshot(n)
    BY <2>1 DEF DeleteSnapshot
  <2>2. CASE DeleteFilesystemSnapshot
    BY <2>2 DEF DeleteFilesystemSnapshot, Deletable, TypeOK, Op
  <2>4. CASE DeleteFilesystemSnapshotFails \/ DeleteFilelistsFails \/ Erase
    BY <2>4 DEF DeleteFilesystemSnapshotFails, DeleteFilelistsFails, Erase
  <2>5. CASE DeleteFilelists \/ UnlinkInfo \/ UnlinkInfoFails \/ RemoveDir
    BY <2>5 DEF DeleteFilelists, UnlinkInfo, UnlinkInfoFails, RemoveDir, TypeOK, Op
  <2> QED
    BY <1>2, <2>1, <2>2, <2>4, <2>5 DEF DeleteStep
<1>3. CASE \E n \in Num, d \in Data : ModifySnapshot(n, d) \/ ModifySnapshotFails(n, d)
  BY <1>3 DEF ModifySnapshot, ModifySnapshotFails
<1>4. CASE \E n \in Num : SetDefault(n)
  BY <1>4 DEF SetDefault
<1>5. CASE Stop
  BY <1>5 DEF Stop
<1>6. CASE Reboot
  BY <1>6 DEF Reboot, Structure
<1>7. CASE UNCHANGED vars
  BY <1>7 DEF vars
<1> QED
  BY <1>1, <1>2, <1>3, <1>4, <1>5, <1>6, <1>7, SystemCreate DEF Next

(* deleteSnapshot and the undoing of a failed create never remove the      *)
(* filesystem snapshot that is booted or will be, whatever fails.          *)
THEOREM SystemKept == Spec => []SystemSnapshotsKept
<1>1. Init => Structure
  BY IdleOp DEF Init, Structure, Find, Creating
<1>2. Init => SystemOp
  BY IdleOp DEF Init, SystemOp
<1>3. SystemOp => SystemSnapshotsKept
  BY Zenon DEF SystemOp, SystemSnapshotsKept
<1> QED
  BY <1>1, <1>2, <1>3, StructureNext, SystemNext, TypeCorrect, PTL DEF Spec

-----------------------------------------------------------------------------

(* What AllOrNothing supposes, and the history keeps: no crash, and no     *)
(* failure but those the operations recover from.                          *)
Undisturbed == crashes = 0 /\ failed \subseteq {"create", "write", "delete"}

(* The list and the disk agree about a snapshot.                           *)
Agree(n) ==
    /\ n \in subvols <=> Find(n)
    /\ infoXml[n] = entries[n]
    /\ Find(n) => n \in dirs

(* The inductive invariant behind AllOrNothing: they agree about all but   *)
(* the snapshot of the operation, and how far that one is follows from the *)
(* step; while nothing is loaded the disk agrees with what read will find. *)
Consistent ==
    /\ loaded => \A n \in Num : op.step = "idle" \/ n # op.num => Agree(n)
    /\ ~loaded => \A n \in Num : /\ ~Find(n)
                                 /\ n \in subvols <=> infoXml[n] # None
                                 /\ n \in subvols => n \in dirs
    /\ op.step \in {"write", "undo", "insert"} => op.num \in subvols
    /\ op.step = "insert" => infoXml[op.num] = op.meta
    /\ op.step = "delete" => Agree(op.num)
    /\ op.step \in {"filelists", "unlink", "rmdir", "erase"} => op.num \notin subvols
    /\ op.step \in {"rmdir", "erase"} => infoXml[op.num] = None

LEMMA ConsistentCreate ==
    ASSUME TypeOK, Structure, Consistent, Undisturbed', CreateStep
    PROVE  Consistent'
<1> USE IdleOp DEF TypeOK, Structure, Consistent, Agree, Undisturbed, Find, Op, Creating, Deleting,
                   diskVars, sysVars, histVars
<1>0. ASSUME NEW meta, MakeDir(meta)
      PROVE  Consistent'
  <2> PICK n \in Num : /\ IsNextNumber(n)
                       /\ dirs' = dirs \cup {n}
                       /\ op' = [step |-> "clean", num |-> n, meta |-> meta]
    BY <1>0 DEF MakeDir
  <2> QED
    BY <1>0 DEF MakeDir, Running
<1>1. CASE CreateSingleSnapshot \/ CreatePreSnapshot
  BY <1>1, <1>0 DEF CreateSingleSnapshot, CreatePreSnapshot
<1>2. CASE \E pre \in Num : CreatePostSnapshot(pre)
  BY <1>2, <1>0 DEF CreatePostSnapshot
<1>3. CASE \E n \in Num : CleanDir(n)
  BY <1>3 DEF CleanDir, Leftover
<1>4. CASE CleanDone
  BY <1>4 DEF CleanDone
<1>5. CASE CreateFilesystemSnapshot
  BY <1>5 DEF CreateFilesystemSnapshot
<1>6. CASE CreateFilesystemSnapshotFails
  BY <1>6 DEF CreateFilesystemSnapshotFails
<1>7. CASE WriteInfo
  BY <1>7 DEF WriteInfo
<1>8. CASE WriteInfoFails
  BY <1>8 DEF WriteInfoFails
<1>9. CASE Undo
  BY <1>9 DEF Undo
<1>10. CASE UndoFails
  BY <1>10 DEF UndoFails, Fails, Refused
<1>11. CASE Insert
  <2>1. op.meta \in Meta /\ op.meta # None
    BY <1>11, SMT DEF Insert, Meta, None
  <2> QED
    BY <1>11, <2>1 DEF Insert
<1> QED
  BY <1>1, <1>2, <1>3, <1>4, <1>5, <1>6, <1>7, <1>8, <1>9, <1>10, <1>11, Zenon DEF CreateStep

LEMMA ConsistentDelete ==
    ASSUME TypeOK, Structure, Consistent, Undisturbed', DeleteStep
    PROVE  Consistent'
<1> USE IdleOp DEF TypeOK, Structure, Consistent, Agree, Undisturbed, Find, Op, Creating, Deleting,
                   diskVars, sysVars, histVars
<1>1. CASE \E n \in Num : DeleteSnapshot(n)
  BY <1>1 DEF DeleteSnapshot, Running
<1>2. CASE DeleteFilesystemSnapshot
  BY <1>2 DEF DeleteFilesystemSnapshot
<1>3. CASE DeleteFilesystemSnapshotFails
  BY <1>3 DEF DeleteFilesystemSnapshotFails
<1>4. CASE DeleteFilelists
  BY <1>4 DEF DeleteFilelists
<1>5. CASE UnlinkInfo
  BY <1>5 DEF UnlinkInfo
<1>6. ~DeleteFilelistsFails /\ ~UnlinkInfoFails
  BY DEF DeleteFilelistsFails, UnlinkInfoFails, Fails
<1>7. CASE RemoveDir
  BY <1>7 DEF RemoveDir
<1>8. CASE Erase
  BY <1>8 DEF Erase
<1> QED
  BY <1>1, <1>2, <1>3, <1>4, <1>5, <1>6, <1>7, <1>8, Zenon DEF DeleteStep

LEMMA ConsistentNext ==
    TypeOK /\ Structure /\ (Undisturbed => Consistent) /\ [Next]_vars => (Undisturbed => Consistent)'
<1> SUFFICES ASSUME TypeOK, Structure, Undisturbed => Consistent, [Next]_vars, Undisturbed'
             PROVE  Consistent'
  OBVIOUS
<1>0. Undisturbed
  <2>1. crashes' = crashes \/ Stop
    BY Zenon DEF Next, CreateStep, DeleteStep, CreateSingleSnapshot, CreatePreSnapshot, CreatePostSnapshot,
       MakeDir, CleanDir, CleanDone, CreateFilesystemSnapshot, CreateFilesystemSnapshotFails, WriteInfo,
       WriteInfoFails, Undo, UndoFails, Insert, ModifySnapshot, ModifySnapshotFails, DeleteSnapshot,
       DeleteFilesystemSnapshot, DeleteFilesystemSnapshotFails, DeleteFilelists, DeleteFilelistsFails,
       UnlinkInfo, UnlinkInfoFails, RemoveDir, Erase, Initialize, Reboot, SetDefault, vars, histVars
  <2>2. crashes' = 0 => crashes = 0
    BY <2>1 DEF Stop, TypeOK
  <2> QED
    BY <2>2, FailedGrows, Zenon DEF Undisturbed
<1> USE <1>0, IdleOp DEF TypeOK, Structure, Consistent, Agree, Find, diskVars, sysVars, histVars
<1>1. CASE Initialize
  BY <1>1 DEF Initialize, Read
<1>2. CASE \E n \in Num, d \in Data : ModifySnapshot(n, d) \/ ModifySnapshotFails(n, d)
  <2> PICK n \in Num, d \in Data : ModifySnapshot(n, d) \/ ModifySnapshotFails(n, d)
    BY <1>2
  <2>1. ~ModifySnapshotFails(n, d)
    BY DEF ModifySnapshotFails, Fails, Undisturbed
  <2>2. /\ loaded /\ op.step = "idle" /\ Find(n)
        /\ UNCHANGED <<dirs, subvols, op, loaded>>
        /\ \A m \in Num \ {n} : entries'[m] = entries[m] /\ infoXml'[m] = infoXml[m]
        /\ infoXml'[n] = entries'[n]
        /\ entries'[n] = [entries[n] EXCEPT !.data = d]
    BY <2>1 DEF ModifySnapshot, Running
  <2>3. entries[n] \in Meta
    BY <2>2
  <2>4. [entries[n] EXCEPT !.data = d].type \in {"single", "pre", "post"}
    BY <2>3 DEF Meta
  <2>5. entries'[n] # None
    BY <2>2, <2>4 DEF None
  <2> QED
    BY <2>2, <2>5
<1>3. CASE \E n \in Num : SetDefault(n)
  BY <1>3 DEF SetDefault
<1>4. CASE Stop
  <2>1. op = Idle
    BY <1>4 DEF Stop, Undisturbed
  <2> QED
    BY <1>4, <2>1 DEF Stop
<1>5. CASE Reboot
  BY <1>5 DEF Reboot
<1>6. CASE UNCHANGED vars
  BY <1>6 DEF vars
<1> QED
  BY <1>1, <1>2, <1>3, <1>4, <1>5, <1>6, ConsistentCreate, ConsistentDelete, Zenon DEF Next

(* createHelper and deleteSnapshot either do all or nothing: between two   *)
(* operations the list, the directories, the info.xml files and the        *)
(* filesystem snapshots agree, also after creates that failed at any step  *)
(* and after deletions that were refused.                                  *)
THEOREM OperationsAtomic == Spec => []AllOrNothing
<1>1. Init => Structure
  BY IdleOp DEF Init, Structure, Find, Creating
<1>2. Init => Consistent
  BY IdleOp DEF Init, Consistent, Agree, Find
<1>3. (Undisturbed => Consistent) => AllOrNothing
  BY IdleOp DEF Undisturbed, Consistent, Agree, AllOrNothing, Running
<1> QED
  BY <1>1, <1>2, <1>3, StructureNext, ConsistentNext, TypeCorrect, PTL DEF Spec

-----------------------------------------------------------------------------

(* No modification and no deletion of filelists has failed.                *)
Written == failed \cap {"modify", "filelists"} = {}

(* All of a snapshot is on the disk.                                       *)
Exists(n) == n \in dirs /\ n \in subvols /\ infoXml[n] = entries[n]

(* The inductive invariant behind ListedExists, which unlike Consistent    *)
(* survives crashes: nothing is said of what is not in the list.           *)
Existing ==
    /\ \A n \in Listed \ {op.num} : Exists(n)
    /\ op.step \in {"write", "insert"} => op.num \in subvols
    /\ op.step = "insert" => infoXml[op.num] = op.meta
    /\ op.step = "delete" => Exists(op.num)

LEMMA ExistingCreate ==
    ASSUME TypeOK, Structure, Existing, CreateStep
    PROVE  Existing'
<1> USE IdleOp DEF TypeOK, Structure, Existing, Exists, Listed, Find, Op, Creating, Deleting,
                   diskVars, sysVars, histVars
<1>0. ASSUME NEW meta, MakeDir(meta)
      PROVE  Existing'
  <2> PICK n \in Num : /\ dirs' = dirs \cup {n}
                       /\ op' = [step |-> "clean", num |-> n, meta |-> meta]
    BY <1>0 DEF MakeDir
  <2>1. op.num \notin Num
    BY <1>0, NumAssumption DEF MakeDir, Running, Idle, Num
  <2> QED
    BY <1>0, <2>1 DEF MakeDir
<1>1. CASE CreateSingleSnapshot \/ CreatePreSnapshot
  BY <1>1, <1>0 DEF CreateSingleSnapshot, CreatePreSnapshot
<1>2. CASE \E pre \in Num : CreatePostSnapshot(pre)
  BY <1>2, <1>0 DEF CreatePostSnapshot
<1>3. CASE \E n \in Num : CleanDir(n)
  BY <1>3 DEF CleanDir, Leftover
<1>4. CASE CleanDone
  BY <1>4 DEF CleanDone
<1>5. CASE CreateFilesystemSnapshot
  BY <1>5 DEF CreateFilesystemSnapshot
<1>6. CASE CreateFilesystemSnapshotFails
  BY <1>6 DEF CreateFilesystemSnapshotFails
<1>7. CASE WriteInfo
  BY <1>7 DEF WriteInfo
<1>8. CASE WriteInfoFails
  BY <1>8 DEF WriteInfoFails
<1>9. CASE Undo \/ UndoFails
  BY <1>9 DEF Undo, UndoFails
<1>10. CASE Insert
  BY <1>10 DEF Insert
<1> QED
  BY <1>1, <1>2, <1>3, <1>4, <1>5, <1>6, <1>7, <1>8, <1>9, <1>10, Zenon DEF CreateStep

LEMMA ExistingDelete ==
    ASSUME TypeOK, Structure, Existing, Written', DeleteStep
    PROVE  Existing'
<1> USE IdleOp DEF TypeOK, Structure, Existing, Exists, Listed, Find, Op, Creating, Deleting,
                   diskVars, sysVars, histVars
<1>1. CASE \E n \in Num : DeleteSnapshot(n)
  <2>1. op.num \notin Num
    BY <1>1, NumAssumption DEF DeleteSnapshot, Running, Idle, Num
  <2> QED
    BY <1>1, <2>1 DEF DeleteSnapshot
<1>2. CASE DeleteFilesystemSnapshot
  BY <1>2 DEF DeleteFilesystemSnapshot
<1>3. CASE DeleteFilesystemSnapshotFails
  BY <1>3 DEF DeleteFilesystemSnapshotFails
<1>4. CASE DeleteFilelists
  BY <1>4 DEF DeleteFilelists
<1>5. ~DeleteFilelistsFails
  BY DEF DeleteFilelistsFails, Fails, Written
<1>6. CASE UnlinkInfo
  BY <1>6 DEF UnlinkInfo
<1>7. CASE UnlinkInfoFails
  BY <1>7 DEF UnlinkInfoFails
<1>8. CASE RemoveDir
  BY <1>8 DEF RemoveDir
<1>9. CASE Erase
  BY <1>9 DEF Erase
<1> QED
  BY <1>1, <1>2, <1>3, <1>4, <1>5, <1>6, <1>7, <1>8, <1>9, Zenon DEF DeleteStep

LEMMA ExistingNext ==
    TypeOK /\ Structure /\ (Written => Existing) /\ [Next]_vars => (Written => Existing)'
<1> SUFFICES ASSUME TypeOK, Structure, Written => Existing, [Next]_vars, Written'
             PROVE  Existing'
  OBVIOUS
<1>0. Written /\ Existing
  BY FailedGrows DEF Written
<1> USE <1>0, IdleOp DEF TypeOK, Structure, Existing, Exists, Listed, Find, diskVars, sysVars, histVars
<1>1. CASE Initialize
  BY <1>1, SMTT(20) DEF Initialize, Read
<1>2. CASE \E n \in Num, d \in Data : ModifySnapshot(n, d) \/ ModifySnapshotFails(n, d)
  <2> PICK n \in Num, d \in Data : ModifySnapshot(n, d) \/ ModifySnapshotFails(n, d)
    BY <1>2
  <2>1. ~ModifySnapshotFails(n, d)
    BY DEF ModifySnapshotFails, Fails, Written
  <2>2. op.num \notin Num
    BY NumAssumption DEF ModifySnapshot, ModifySnapshotFails, Running, Idle, Num
  <2>3. /\ op.step = "idle" /\ Find(n)
        /\ UNCHANGED <<dirs, subvols, op>>
        /\ \A m \in Num \ {n} : entries'[m] = entries[m] /\ infoXml'[m] = infoXml[m]
        /\ infoXml'[n] = entries'[n]
    BY <2>1 DEF ModifySnapshot, Running
  <2> QED
    BY <2>2, <2>3
<1>3. CASE \E n \in Num : SetDefault(n)
  BY <1>3 DEF SetDefault
<1>4. CASE Stop
  BY <1>4 DEF Stop
<1>5. CASE Reboot
  BY <1>5 DEF Reboot
<1>6. CASE UNCHANGED vars
  BY <1>6 DEF vars
<1> QED
  BY <1>1, <1>2, <1>3, <1>4, <1>5, <1>6, ExistingCreate, ExistingDelete, Zenon DEF Next

(* read and deleteSnapshot: what is listed and not being deleted has its   *)
(* directory, info.xml and filesystem snapshot, also after crashes and     *)
(* after failures of creates and deletions.                                *)
THEOREM ListedKept == Spec => []ListedExists
<1>1. Init => Structure
  BY IdleOp DEF Init, Structure, Find, Creating
<1>2. Init => Existing
  BY IdleOp DEF Init, Existing, Listed, Find
<1>3. (Written => Existing) => ListedExists
  BY Zenon DEF Written, Existing, Exists, ListedExists
<1> QED
  BY <1>1, <1>2, <1>3, StructureNext, ExistingNext, TypeCorrect, PTL DEF Spec

=============================================================================
