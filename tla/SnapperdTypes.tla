--------------------------- MODULE SnapperdTypes ----------------------------
(* What every step of Snapperd keeps of the shape of its state, for every  *)
(* set of clients, configs and snapshots: types, and who owns what.        *)
EXTENDS Snapperd, FiniteSetTheorems, TLAPS

(* The shapes of the handlers: what they do with the daemon's state.       *)
LEMMA HandlerCases ==
    ASSUME NEW cl \in Client, Handler(cl)
    PROVE  \/ Passive(cl)
           \/ \E c \in Config :
                 \/ WithSnapper(cl, c)
                 \/ \E users \in SUBSET Client : SetConfig(cl, c, users)
                 \/ CreateConfig(cl, c) \/ DeleteConfig(cl, c)
                 \/ LockConfig(cl, c) \/ UnlockConfig(cl, c)
                 \/ \E nums \in SUBSET Num :
                       \/ DeleteConfigFails(cl, c, nums) \/ DeleteSnapshots(cl, c, nums)
                       \/ \E op \in {"comparison", "query"} : BeginWork(cl, op, c, nums)
                 \/ \E n \in Num :
                       \/ AddSnapshot(cl, c, n) /\ UNCHANGED <<counter, taskVars>>
                       \/ \E m \in Loaded(c) \cap Num : AddSnapshot(cl, c, n) /\ AddTask(c, m, n)
                       \/ MountSnapshot(cl, c, n) \/ UmountSnapshot(cl, c, n)
           \/ \E k \in comparisons : DeleteComparison(cl, k)
<1>1. ASSUME NEW c \in Config, QueryHandler(cl, c)
      PROVE  Passive(cl) \/ WithSnapper(cl, c)
  BY <1>1 DEF QueryHandler, GetConfig, ListSnapshots, ListSnapshotsAtTime, GetSnapshot,
     SetSnapshot, IsSnapshotReadOnly, SetSnapshotReadOnly, GetDefaultSnapshot,
     GetActiveSnapshot, GetUsedSpace, MountSnapshotForUser, UmountSnapshotForUser,
     GetMountPoint, GetFiles, GetFilesByPipe, SetupQuota, PrepareQuota, QueryFreeSpace, Sync
<1>2. ASSUME NEW c \in Config, ConfigHandler(cl, c)
      PROVE  \/ \E users \in SUBSET Client : SetConfig(cl, c, users)
             \/ CreateConfig(cl, c) \/ DeleteConfig(cl, c)
             \/ LockConfig(cl, c) \/ UnlockConfig(cl, c)
             \/ \E nums \in SUBSET Num :
                   \/ DeleteConfigFails(cl, c, nums) \/ DeleteSnapshots(cl, c, nums)
                   \/ BeginWork(cl, "query", c, nums)
  BY <1>2 DEF ConfigHandler, CalculateUsedSpace, QueryQuota
<1>3. ASSUME NEW c \in Config, NEW n \in Num, SnapshotHandler(cl, c, n)
      PROVE  \/ AddSnapshot(cl, c, n) /\ UNCHANGED <<counter, taskVars>>
             \/ \E m \in Loaded(c) \cap Num : AddSnapshot(cl, c, n) /\ AddTask(c, m, n)
             \/ MountSnapshot(cl, c, n) \/ UmountSnapshot(cl, c, n)
             \/ BeginWork(cl, "comparison", c, {n})
  BY <1>3 DEF SnapshotHandler, CreateSingleSnapshot, CreateSingleSnapshotOfDefault,
     CreatePreSnapshot, CreateSingleSnapshotV2, CreatePostSnapshot, CreateComparison
<1>4. CASE \/ ErrorReply(cl) \/ ListConfigs(cl)
           \/ GetPluginsReport(cl) \/ ClearPluginsReport(cl) \/ Debug(cl)
  BY <1>4 DEF ErrorReply, ListConfigs, GetPluginsReport, ClearPluginsReport, Debug
<1>5. CASE \E c \in Config : QueryHandler(cl, c)
  BY <1>5, <1>1
<1>6. CASE \E c \in Config : ConfigHandler(cl, c)
  BY <1>6, <1>2
<1>7. CASE \E c \in Config, n \in Num : SnapshotHandler(cl, c, n)
  BY <1>7, <1>3, Zenon
<1>8. CASE \E k \in comparisons : DeleteComparison(cl, k)
  BY <1>8
<1> QED
  BY <1>4, <1>5, <1>6, <1>7, <1>8 DEF Handler

-----------------------------------------------------------------------------

(* Who owns what: a thread runs at most one handler, a client with a       *)
(* running handler or a comparison is still in the list, and the worker    *)
(* works on a queued task.                                                 *)
Owners ==
    /\ \A w \in works : status[w.client] # "none" /\ thread[w.client] = "run"
    /\ \A v, w \in works : v.client = w.client => v = w
    /\ \A k \in comparisons : status[k.client] # "none"
    /\ worker # "wait" => tasks # <<>>

ComparisonsOf(c) == {k \in comparisons : k.config = c}

WorksOf(c) == {w \in works : w.config = c}

(* The use counts, with what is needed to count at all.                    *)
Counts ==
    /\ IsFiniteSet(comparisons) /\ IsFiniteSet(works)
    /\ \A c \in Config : counter[c] = Cardinality(ComparisonsOf(c)) + Cardinality(WorksOf(c))
                                      + Cardinality(OpenTasks(c))

LEMMA HoldersFinite ==
    ASSUME TypeOK, Counts, NEW c \in Config
    PROVE  /\ IsFiniteSet(ComparisonsOf(c)) /\ Cardinality(ComparisonsOf(c)) \in Nat
           /\ IsFiniteSet(WorksOf(c)) /\ Cardinality(WorksOf(c)) \in Nat
           /\ IsFiniteSet(OpenTasks(c)) /\ Cardinality(OpenTasks(c)) \in Nat
<1>1. ComparisonsOf(c) \in SUBSET comparisons /\ WorksOf(c) \in SUBSET works
  BY DEF ComparisonsOf, WorksOf
<1>2. OpenTasks(c) \in SUBSET (1..Len(tasks)) /\ IsFiniteSet(1..Len(tasks))
  BY FS_Interval DEF OpenTasks, TypeOK
<1>3. IsFiniteSet(ComparisonsOf(c)) /\ IsFiniteSet(WorksOf(c)) /\ IsFiniteSet(OpenTasks(c))
  BY <1>1, <1>2, FS_Subset DEF Counts
<1> QED
  BY <1>3, FS_CardinalityType

(* A counter is at least one for every holder.                             *)
LEMMA HolderCounted ==
    ASSUME TypeOK, Counts, NEW c \in Config
    PROVE  /\ ComparisonsOf(c) # {} => counter[c] > 0
           /\ WorksOf(c) # {} => counter[c] > 0
           /\ OpenTasks(c) # {} => counter[c] > 0
           /\ Cardinality(ComparisonsOf(c)) <= counter[c]
<1>1. /\ Cardinality(ComparisonsOf(c)) = 0 <=> ComparisonsOf(c) = {}
      /\ Cardinality(WorksOf(c)) = 0 <=> WorksOf(c) = {}
      /\ Cardinality(OpenTasks(c)) = 0 <=> OpenTasks(c) = {}
  BY HoldersFinite, FS_EmptySet
<1> QED
  BY <1>1, HoldersFinite DEF Counts

-----------------------------------------------------------------------------

LEMMA LoadedType ==
    ASSUME TypeOK, NEW c \in Config
    PROVE  Loaded(c) \in SUBSET Num
  BY DEF TypeOK, Loaded

LEMMA GetSnapperType ==
    ASSUME TypeOK, NEW c \in metaSnappers, GetSnapper(c)
    PROVE  /\ snapper' \in SUBSET metaSnappers
           /\ entries' \in [Config -> SUBSET Num]
           /\ unused' \in SUBSET Config
  BY LoadedType DEF TypeOK, GetSnapper

LEMMA TakeType ==
    ASSUME TypeOK, NEW cl \in Client, Take(cl)
    PROVE  calls' \in [Client -> Nat] /\ status[cl] # "none" /\ thread[cl] = "run" /\ ~Busy(cl)
  BY DEF TypeOK, Take

LEMMA LocksType ==
    ASSUME NEW f \in [Client -> [Config -> Nat]], NEW cl \in Client, NEW c \in Config, NEW v \in Nat
    PROVE  [f EXCEPT ![cl][c] = v] \in [Client -> [Config -> Nat]]
  OBVIOUS

LEMMA MountsType ==
    ASSUME NEW f \in [Client -> [Config -> [Num -> Nat]]],
           NEW cl \in Client, NEW c \in Config, NEW n \in Num, NEW v \in Nat
    PROVE  [f EXCEPT ![cl][c][n] = v] \in [Client -> [Config -> [Num -> Nat]]]
  OBVIOUS

LEMMA HandlerTypeOK ==
    ASSUME TypeOK, Counts, NEW cl \in Client, Handler(cl)
    PROVE  TypeOK'
<1> USE TakeType DEF loopVars, configVars, cacheVars, clientVars, heldVars, taskVars
<1>1. CASE Passive(cl)
  BY <1>1 DEF Passive, TypeOK
<1>2. ASSUME NEW c \in Config, WithSnapper(cl, c)
      PROVE  TypeOK'
  BY <1>2, GetSnapperType DEF WithSnapper, Permitted, Known, TypeOK
<1>3. ASSUME NEW c \in Config, NEW users \in SUBSET Client, SetConfig(cl, c, users)
      PROVE  TypeOK'
  BY <1>3, GetSnapperType DEF SetConfig, Known, TypeOK
<1>4. ASSUME NEW c \in Config, CreateConfig(cl, c)
      PROVE  TypeOK'
  BY <1>4 DEF CreateConfig, TypeOK
<1>5. ASSUME NEW c \in Config, DeleteConfig(cl, c)
      PROVE  TypeOK'
  BY <1>5 DEF DeleteConfig, TypeOK
<1>6. ASSUME NEW c \in Config, LockConfig(cl, c) \/ UnlockConfig(cl, c)
      PROVE  TypeOK'
  <2>1. locks[cl][c] \in Nat
    BY DEF TypeOK
  <2>2. locks' \in [Client -> [Config -> Nat]]
    <3>1. CASE LockConfig(cl, c)
      <4>1. locks' = [locks EXCEPT ![cl][c] = locks[cl][c] + 1]
        BY <3>1 DEF LockConfig
      <4> QED
        BY <2>1, <4>1, LocksType DEF TypeOK
    <3>2. CASE UnlockConfig(cl, c)
      <4> DEFINE v == IF locks[cl][c] > 0 THEN locks[cl][c] - 1 ELSE locks[cl][c]
      <4>1. locks' = [locks EXCEPT ![cl][c] = v]
        BY <3>2 DEF UnlockConfig
      <4>2. v \in Nat
        BY <2>1
      <4> HIDE DEF v
      <4> QED
        BY <4>1, <4>2, LocksType DEF TypeOK
    <3> QED
      BY <1>6, <3>1, <3>2
  <2> QED
    BY <1>6, <2>2, SMTT(30) DEF LockConfig, UnlockConfig, TypeOK
<1>7. ASSUME NEW c \in Config, NEW nums \in SUBSET Num, DeleteConfigFails(cl, c, nums)
      PROVE  TypeOK'
  BY <1>7 DEF DeleteConfigFails, TypeOK
<1>8. ASSUME NEW c \in Config, NEW nums \in SUBSET Num, DeleteSnapshots(cl, c, nums)
      PROVE  TypeOK'
  BY <1>8, LoadedType DEF DeleteSnapshots, Permitted, Known, TypeOK
<1>9. ASSUME NEW c \in Config, NEW nums \in SUBSET Num, NEW op \in {"comparison", "query"},
             BeginWork(cl, op, c, nums)
      PROVE  TypeOK'
  BY <1>9, GetSnapperType, SMTT(30) DEF BeginWork, Permitted, Known, Work, TypeOK
<1>10. ASSUME NEW c \in Config, NEW n \in Num, AddSnapshot(cl, c, n)
       PROVE  /\ snapper' \in SUBSET metaSnappers /\ entries' \in [Config -> SUBSET Num]
              /\ unused' \in SUBSET Config /\ infos' \in [Config -> SUBSET Num]
              /\ calls' \in [Client -> Nat]
              /\ UNCHANGED <<loopVars, metaSnappers, allowed, clientVars, heldVars>>
  BY <1>10, LoadedType DEF AddSnapshot, Permitted, Known, TypeOK
<1>11. ASSUME NEW c \in Config, NEW n \in Num,
              AddSnapshot(cl, c, n), UNCHANGED <<counter, taskVars>>
       PROVE  TypeOK'
  BY <1>10, <1>11, SMTT(30) DEF TypeOK
<1>12. ASSUME NEW c \in Config, NEW n \in Num, NEW m \in Loaded(c) \cap Num,
              AddSnapshot(cl, c, n), AddTask(c, m, n)
       PROVE  TypeOK'
  <2>1. [config |-> c, pre |-> m, post |-> n] \in Task
    BY DEF Task
  <2>2. tasks' \in Seq(Task) /\ counter' \in [Config -> Nat] /\ worker' = worker
    BY <1>12, <2>1, SMTT(30) DEF AddTask, TypeOK
  <2> QED
    BY <1>10, <1>12, <2>2, Zenon DEF TypeOK
<1>13. ASSUME NEW c \in Config, NEW n \in Num, MountSnapshot(cl, c, n) \/ UmountSnapshot(cl, c, n)
       PROVE  TypeOK'
  <2>1. mounts[cl][c][n] \in Nat
    BY DEF TypeOK
  <2>2. mounts' \in [Client -> [Config -> [Num -> Nat]]]
    <3>1. CASE MountSnapshot(cl, c, n)
      <4>1. mounts' = [mounts EXCEPT ![cl][c][n] = mounts[cl][c][n] + 1]
        BY <3>1 DEF MountSnapshot
      <4> QED
        BY <2>1, <4>1, MountsType DEF TypeOK
    <3>2. CASE UmountSnapshot(cl, c, n)
      <4> DEFINE v == IF mounts[cl][c][n] > 0 THEN mounts[cl][c][n] - 1 ELSE mounts[cl][c][n]
      <4>1. mounts' = [mounts EXCEPT ![cl][c][n] = v]
        BY <3>2 DEF UmountSnapshot
      <4>2. v \in Nat
        BY <2>1, SMTT(30)
      <4> HIDE DEF v
      <4> QED
        BY <4>1, <4>2, MountsType DEF TypeOK
    <3> QED
      BY <1>13, <3>1, <3>2
  <2> QED
    BY <1>13, <2>2, GetSnapperType, SMTT(30) DEF MountSnapshot, UmountSnapshot, Permitted, Known, TypeOK
<1>14. ASSUME NEW k \in comparisons, DeleteComparison(cl, k)
       PROVE  TypeOK'
  <2>1. k.config \in Config /\ k \in ComparisonsOf(k.config)
    BY DEF TypeOK, Comparison, ComparisonsOf
  <2>2. counter[k.config] > 0
    BY <2>1, HolderCounted
  <2>3. counter' \in [Config -> Nat]
    BY <1>14, <2>1, <2>2 DEF DeleteComparison, TypeOK
  <2> QED
    BY <1>14, <2>3, GetSnapperType, SMTT(30) DEF DeleteComparison, Permitted, Known, TypeOK
<1> QED
  BY SMTT(30), <1>1, <1>2, <1>3, <1>4, <1>5, <1>6, <1>7, <1>8, <1>9, <1>11, <1>12, <1>13, <1>14,
     HandlerCases

LEMMA FinishTypeOK ==
    ASSUME TypeOK, Counts, NEW w \in works, Finish(w)
    PROVE  TypeOK'
<1> USE DEF loopVars, configVars, cacheVars, clientVars, heldVars, taskVars
<1>1. w \in Work /\ w.client \in Client /\ w.config \in Config /\ w \in WorksOf(w.config)
  BY DEF TypeOK, Work, WorksOf
<1>2. counter[w.config] > 0
  BY <1>1, HolderCounted
<1>3. ASSUME ReleaseRef(w.config)
      PROVE  /\ counter' \in [Config -> Nat] /\ unused' \in SUBSET Config
             /\ UNCHANGED <<snapper, entries>>
  BY <1>1, <1>2, <1>3 DEF ReleaseRef, TypeOK
<1>4. CASE EndWork(w)
  BY <1>3, <1>4 DEF EndWork, TypeOK
<1>5. CASE InterruptWork(w)
  BY <1>1, <1>3, <1>5, SMTT(30) DEF InterruptWork, TypeOK
<1>6. ASSUME NEW n \in Num, NEW s \in Slot, KeepComparison(w, n, s)
      PROVE  TypeOK'
  <2>1. [client |-> w.client, config |-> w.config, num |-> n, slot |-> s] \in Comparison
    BY <1>1 DEF Comparison
  <2> QED
    BY <1>6, <2>1 DEF KeepComparison, TypeOK
<1> QED
  BY <1>4, <1>5, <1>6 DEF Finish

LEMMA HeldByCounted ==
    ASSUME TypeOK, Counts, NEW cls, NEW c \in Config
    PROVE  /\ IsFiniteSet(HeldBy(cls, c)) /\ HeldBy(cls, c) \in SUBSET ComparisonsOf(c)
           /\ counter[c] - Cardinality(HeldBy(cls, c)) \in Nat
<1>1. HeldBy(cls, c) \in SUBSET ComparisonsOf(c)
  BY DEF HeldBy, ComparisonsOf
<1>2. /\ IsFiniteSet(HeldBy(cls, c))
      /\ Cardinality(HeldBy(cls, c)) <= Cardinality(ComparisonsOf(c))
      /\ Cardinality(HeldBy(cls, c)) \in Nat
  BY <1>1, HoldersFinite, FS_Subset, FS_CardinalityType
<1> QED
  BY <1>1, <1>2, HoldersFinite, HolderCounted DEF TypeOK

LEMMA PeriodicTypeOK ==
    ASSUME TypeOK, Counts, Periodic
    PROVE  TypeOK'
<1> USE DEF loopVars, configVars, taskVars
<1>1. Reapable \subseteq Client /\ MountedBy(Reapable) \subseteq metaSnappers
  BY DEF Periodic, Reapable
<1>2. counter' \in [Config -> Nat]
  BY HeldByCounted DEF Periodic
<1>3. entries' \in [Config -> SUBSET Num]
  BY LoadedType DEF Periodic, TypeOK
<1>4. /\ snapper' \in SUBSET metaSnappers /\ unused' \in SUBSET Config
      /\ armed' \in BOOLEAN
      /\ UNCHANGED <<daemon, idleElapsed, configVars, works, taskVars>>
  BY <1>1 DEF Periodic, TypeOK
<1>5. /\ status' \in [Client -> {"none", "live", "zombie"}]
      /\ thread' \in [Client -> {"run", "done"}]
      /\ calls' \in [Client -> Nat]
      /\ comparisons' \in SUBSET Comparison
  BY DEF Periodic, TypeOK
<1>6. locks' \in [Client -> [Config -> Nat]]
  BY DEF Periodic, TypeOK
<1>7. mounts' \in [Client -> [Config -> [Num -> Nat]]]
  BY DEF Periodic, TypeOK
<1> QED
  BY <1>2, <1>3, <1>4, <1>5, <1>6, <1>7 DEF TypeOK

(* The task at the front, before its reference is given up.                *)
LEMMA HeadOpen ==
    ASSUME TypeOK, Counts, NoDanglingRefs, tasks # <<>>, worker # "release"
    PROVE  /\ Head(tasks) = tasks[1] /\ Head(tasks) \in Task /\ Head(tasks).config \in Config
           /\ 1 \in OpenTasks(Head(tasks).config) /\ counter[Head(tasks).config] > 0
           /\ Head(tasks).config \in snapper
<1>1. Head(tasks) = tasks[1] /\ Head(tasks) \in Task /\ Head(tasks).config \in Config
      /\ 1 \in 1..Len(tasks)
  <2>1. tasks \in Seq(Task)
    BY DEF TypeOK
  <2>2. Len(tasks) \in Nat /\ Len(tasks) > 0
    BY <2>1
  <2>3. Head(tasks) = tasks[1] /\ tasks[1] \in Task
    BY <2>1, <2>2
  <2>4. \A t \in Task : t.config \in Config
    BY DEF Task
  <2> QED
    BY <2>2, <2>3, <2>4
<1>2. 1 \in OpenTasks(Head(tasks).config)
  BY <1>1 DEF OpenTasks
<1>3. counter[Head(tasks).config] > 0
  BY <1>1, <1>2, HolderCounted
<1> QED
  BY <1>1, <1>2, <1>3 DEF NoDanglingRefs

LEMMA NextTypeOK == TypeOK /\ Counts /\ Owners /\ NoDanglingRefs /\ [Next]_vars => TypeOK'
<1> SUFFICES ASSUME TypeOK, Counts, Owners, NoDanglingRefs, [Next]_vars PROVE TypeOK'
  OBVIOUS
<1> USE DEF loopVars, configVars, cacheVars, clientVars, heldVars, taskVars
<1>1. CASE \E cl \in Client : ClientStep(cl) \/ ThreadEnds(cl)
  <2> PICK cl \in Client : MethodCall(cl) \/ ClientDisconnected(cl) \/ ThreadEnds(cl)
    BY <1>1 DEF ClientStep
  <2>1. CASE MethodCall(cl)
    <3>1. armed' \in BOOLEAN /\ idleElapsed' \in BOOLEAN
      BY <2>1, Zenon DEF MethodCall, TypeOK
    <3>2. /\ status' \in [Client -> {"none", "live", "zombie"}] /\ calls' \in [Client -> Nat]
          /\ UNCHANGED <<daemon, configVars, cacheVars, counter, thread, heldVars, taskVars>>
      BY <2>1 DEF MethodCall, TypeOK
    <3> QED
      BY <3>1, <3>2 DEF TypeOK
  <2>2. CASE ClientDisconnected(cl)
    <3>1. idleElapsed' \in BOOLEAN
      BY <2>2, Zenon DEF ClientDisconnected
    <3> QED
      BY <2>2, <3>1 DEF ClientDisconnected, TypeOK
  <2>3. CASE ThreadEnds(cl)
    BY <2>3 DEF ThreadEnds, TypeOK
  <2> QED
    BY <2>1, <2>2, <2>3
<1>2. CASE \E cl \in Client : Handler(cl)
  BY <1>2, HandlerTypeOK
<1>3. CASE \E w \in works : Finish(w)
  BY <1>3, FinishTypeOK
<1>4. CASE Periodic
  BY <1>4, PeriodicTypeOK
<1>5. CASE MethodCallWithoutClient \/ PeriodicAborts \/ IdleExit
  BY <1>5, Zenon DEF MethodCallWithoutClient, PeriodicAborts, IdleExit, TypeOK
<1>6. CASE WorkerStep
  <2>2. CASE WorkerTakes
    <3>1. Head(tasks).config \in metaSnappers
      BY <2>2, HeadOpen, SMTT(30) DEF WorkerTakes, TypeOK
    <3> QED
      BY <2>2, <3>1, GetSnapperType, SMTT(30) DEF WorkerTakes, TypeOK
  <2>3. CASE WorkerReleases
    <3>1. Head(tasks).config \in Config /\ counter[Head(tasks).config] > 0
      BY <2>3, HeadOpen DEF WorkerReleases, Owners
    <3> QED
      BY <2>3, <3>1, SMTT(30) DEF WorkerReleases, ReleaseRef, TypeOK
  <2>4. CASE WorkerPops
    BY <2>4 DEF WorkerPops, Owners, TypeOK
  <2>5. CASE WorkerAborts
    BY <2>5 DEF WorkerAborts, TypeOK
  <2> QED
    BY <1>6, <2>2, <2>3, <2>4, <2>5, SMTT(30) DEF WorkerStep
<1>7. CASE TimeStep
  BY <1>7, Zenon DEF TimeStep, IdleTimePasses, SnapperAges, TypeOK
<1>8. CASE UNCHANGED vars
  BY <1>8, SMTT(30) DEF vars, TypeOK
<1> QED
  BY <1>1, <1>2, <1>3, <1>4, <1>5, <1>6, <1>7, <1>8 DEF Next, MainLoopStep

-----------------------------------------------------------------------------

(* A handler leaves works, comparisons, tasks and counters alone, or       *)
(* changes them in one of three ways.                                      *)
LEMMA HandlerHolders ==
    ASSUME NEW cl \in Client, Handler(cl)
    PROVE  /\ Take(cl) /\ UNCHANGED <<loopVars, clientVars, worker>>
           /\ \/ UNCHANGED <<counter, works, comparisons, tasks>>
              \/ \E c \in Config, nums \in SUBSET Num, op \in {"comparison", "query"} :
                    /\ BeginWork(cl, op, c, nums)
                    /\ UNCHANGED <<comparisons, tasks>>
              \/ \E c \in Config, n \in Num : \E m \in Loaded(c) \cap Num :
                    AddSnapshot(cl, c, n) /\ AddTask(c, m, n) /\ UNCHANGED <<works, comparisons>>
              \/ \E k \in comparisons :
                    DeleteComparison(cl, k) /\ UNCHANGED <<works, tasks>>
<1> USE HandlerCases DEF loopVars, clientVars, heldVars, taskVars
<1>1. CASE Passive(cl)
  BY <1>1, SMTT(30) DEF Passive
<1>2. ASSUME NEW c \in Config,
             \/ WithSnapper(cl, c)
             \/ \E users \in SUBSET Client : SetConfig(cl, c, users)
             \/ CreateConfig(cl, c) \/ DeleteConfig(cl, c)
             \/ LockConfig(cl, c) \/ UnlockConfig(cl, c)
      PROVE  /\ Take(cl) /\ UNCHANGED <<loopVars, clientVars, worker>>
             /\ UNCHANGED <<counter, works, comparisons, tasks>>
  BY <1>2, SMTT(30) DEF WithSnapper, SetConfig, CreateConfig, DeleteConfig, LockConfig, UnlockConfig
<1>3. ASSUME NEW c \in Config, NEW nums \in SUBSET Num,
             DeleteConfigFails(cl, c, nums) \/ DeleteSnapshots(cl, c, nums)
      PROVE  /\ Take(cl) /\ UNCHANGED <<loopVars, clientVars, worker>>
             /\ UNCHANGED <<counter, works, comparisons, tasks>>
  BY <1>3, SMTT(30) DEF DeleteConfigFails, DeleteSnapshots
<1>4. ASSUME NEW c \in Config, NEW n \in Num,
             \/ AddSnapshot(cl, c, n) /\ UNCHANGED <<counter, taskVars>>
             \/ MountSnapshot(cl, c, n) \/ UmountSnapshot(cl, c, n)
      PROVE  /\ Take(cl) /\ UNCHANGED <<loopVars, clientVars, worker>>
             /\ UNCHANGED <<counter, works, comparisons, tasks>>
  BY <1>4, SMTT(30) DEF AddSnapshot, MountSnapshot, UmountSnapshot
<1>5. ASSUME NEW c \in Config, NEW nums \in SUBSET Num, NEW op \in {"comparison", "query"},
             BeginWork(cl, op, c, nums)
      PROVE  /\ Take(cl) /\ UNCHANGED <<loopVars, clientVars, worker>>
             /\ UNCHANGED <<comparisons, tasks>>
  BY <1>5, SMTT(30) DEF BeginWork
<1>6. ASSUME NEW c \in Config, NEW n \in Num, NEW m \in Num,
             AddSnapshot(cl, c, n), AddTask(c, m, n)
      PROVE  /\ Take(cl) /\ UNCHANGED <<loopVars, clientVars, worker>>
             /\ UNCHANGED <<works, comparisons>>
  BY <1>6, SMTT(30) DEF AddSnapshot, AddTask
<1>7. ASSUME NEW k \in comparisons, DeleteComparison(cl, k)
      PROVE  /\ Take(cl) /\ UNCHANGED <<loopVars, clientVars, worker>>
             /\ UNCHANGED <<works, tasks>>
  BY <1>7 DEF DeleteComparison
<1>8. CASE \E c \in Config, nums \in SUBSET Num, op \in {"comparison", "query"} :
               BeginWork(cl, op, c, nums)
  BY <1>8, <1>5
<1>9. CASE \E c \in Config, n \in Num : \E m \in Loaded(c) \cap Num :
               AddSnapshot(cl, c, n) /\ AddTask(c, m, n)
  BY <1>9, <1>6
<1>10. CASE \E k \in comparisons : DeleteComparison(cl, k)
  BY <1>10, <1>7
<1> QED
  BY <1>1, <1>2, <1>3, <1>4, <1>8, <1>9, <1>10, SMTT(30)

LEMMA AddTaskQueue ==
    ASSUME TypeOK, NEW c \in Config, NEW m \in Num, NEW n \in Num, AddTask(c, m, n)
    PROVE  /\ tasks' # <<>> /\ Len(tasks) \in Nat /\ Len(tasks') = Len(tasks) + 1
           /\ tasks'[Len(tasks) + 1] = [config |-> c, pre |-> m, post |-> n]
           /\ \A i \in 1..Len(tasks) : tasks'[i] = tasks[i]
<1> DEFINE t == [config |-> c, pre |-> m, post |-> n]
<1>1. t \in Task /\ tasks \in Seq(Task) /\ tasks' = Append(tasks, t)
  BY DEF Task, TypeOK, AddTask
<1> HIDE DEF t
<1>2. Len(tasks) \in Nat /\ Len(tasks') = Len(tasks) + 1
      /\ tasks'[Len(tasks) + 1] = t /\ \A i \in 1..Len(tasks) : tasks'[i] = tasks[i]
  BY <1>1
<1>3. tasks' # <<>>
  BY <1>2
<1> QED
  BY <1>2, <1>3 DEF t

=============================================================================
