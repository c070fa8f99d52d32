--------------------------- MODULE SnapperdProofs ---------------------------
(* The invariant of Snapperd and the theorems it gives.                    *)
EXTENDS SnapperdCounts

-----------------------------------------------------------------------------

(* A Snapper in use stays loaded and keeps its snapshots.                  *)
Keeps == \A c \in Config :
    c \in snapper /\ counter[c] > 0 => c \in snapper' /\ entries[c] \subseteq entries'[c]

LEMMA GetSnapperKeeps ==
    ASSUME TypeOK, NEW c \in Config, GetSnapper(c)
    PROVE  Keeps /\ c \in snapper' /\ entries'[c] = Loaded(c)
  BY DEF GetSnapper, Loaded, Keeps, TypeOK

LEMMA HandlerKeeps ==
    ASSUME TypeOK, NEW cl \in Client, Handler(cl)
    PROVE  Keeps
<1> USE DEF cacheVars
<1>1. CASE Passive(cl)
  BY <1>1 DEF Passive, Keeps
<1>2. ASSUME NEW c \in Config,
             \/ WithSnapper(cl, c)
             \/ \E users \in SUBSET Client : SetConfig(cl, c, users)
             \/ \E n \in Num : MountSnapshot(cl, c, n) \/ UmountSnapshot(cl, c, n)
             \/ \E nums \in SUBSET Num, op \in {"comparison", "query"} : BeginWork(cl, op, c, nums)
      PROVE  Keeps
  BY <1>2, GetSnapperKeeps DEF WithSnapper, SetConfig, MountSnapshot, UmountSnapshot, BeginWork
<1>3. ASSUME NEW c \in Config,
             \/ CreateConfig(cl, c) \/ LockConfig(cl, c) \/ UnlockConfig(cl, c)
             \/ \E nums \in SUBSET Num : DeleteConfigFails(cl, c, nums)
      PROVE  Keeps
  BY <1>3 DEF CreateConfig, LockConfig, UnlockConfig, DeleteConfigFails, Keeps
<1>4. ASSUME NEW c \in Config, DeleteConfig(cl, c)
      PROVE  Keeps
  BY <1>4 DEF DeleteConfig, MayDeleteConfig, NotInUse, Keeps, TypeOK
<1>5. ASSUME NEW c \in Config, NEW nums \in SUBSET Num, DeleteSnapshots(cl, c, nums)
      PROVE  Keeps
  BY <1>5 DEF DeleteSnapshots, NotInUse, Keeps, TypeOK
<1>6. ASSUME NEW c \in Config, NEW n \in Num, AddSnapshot(cl, c, n)
      PROVE  Keeps
  BY <1>6 DEF AddSnapshot, Loaded, Keeps, TypeOK
<1>7. ASSUME NEW k \in comparisons, DeleteComparison(cl, k)
      PROVE  Keeps
  BY <1>7, GetSnapperKeeps, Zenon DEF DeleteComparison, TypeOK, Comparison
<1>8. CASE \E c \in Config, n \in Num : AddSnapshot(cl, c, n)
  BY <1>8, <1>6
<1> QED
  BY <1>1, <1>2, <1>3, <1>4, <1>5, <1>7, <1>8, HandlerCases

(* References to Snappers that are kept stay valid.                        *)
LEMMA RefsKept ==
    ASSUME TypeOK, Counts, NoDanglingRefs, Keeps
    PROVE  /\ \A k \in comparisons : k.config \in snapper' /\ k.num \in entries'[k.config]
           /\ \A w \in works : w.config \in snapper' /\ w.nums \subseteq entries'[w.config]
           /\ \A i \in 1..Len(tasks) : ~(i = 1 /\ worker = "release") =>
                  /\ tasks[i].config \in snapper'
                  /\ {tasks[i].pre, tasks[i].post} \subseteq entries'[tasks[i].config]
<1>1. ASSUME NEW k \in comparisons
      PROVE  k.config \in snapper' /\ k.num \in entries'[k.config]
  <2>1. k.config \in Config /\ k \in ComparisonsOf(k.config)
    BY DEF TypeOK, Comparison, ComparisonsOf
  <2>2. counter[k.config] > 0
    BY <2>1, HolderCounted
  <2> QED
    BY <2>1, <2>2 DEF NoDanglingRefs, Keeps
<1>2. ASSUME NEW w \in works
      PROVE  w.config \in snapper' /\ w.nums \subseteq entries'[w.config]
  <2>1. w.config \in Config /\ w \in WorksOf(w.config)
    BY DEF TypeOK, Work, WorksOf
  <2>2. counter[w.config] > 0
    BY <2>1, HolderCounted
  <2> QED
    BY <2>1, <2>2 DEF NoDanglingRefs, Keeps
<1>3. ASSUME NEW i \in 1..Len(tasks), ~(i = 1 /\ worker = "release")
      PROVE  /\ tasks[i].config \in snapper'
             /\ {tasks[i].pre, tasks[i].post} \subseteq entries'[tasks[i].config]
  <2>1. tasks[i] \in Task
    BY DEF TypeOK
  <2>2. tasks[i].config \in Config /\ i \in OpenTasks(tasks[i].config)
    BY <1>3, <2>1 DEF Task, OpenTasks
  <2>3. counter[tasks[i].config] > 0
    BY <2>2, HolderCounted
  <2> QED
    BY <1>3, <2>2, <2>3 DEF NoDanglingRefs, Keeps
<1> QED
  BY <1>1, <1>2, <1>3

LEMMA RefsSame ==
    ASSUME TypeOK, Counts, NoDanglingRefs, Keeps,
           works' \subseteq works, comparisons' \subseteq comparisons, tasks' = tasks,
           worker = "release" => worker' = "release"
    PROVE  NoDanglingRefs'
  BY RefsKept DEF NoDanglingRefs

LEMMA HandlerRefs ==
    ASSUME TypeOK, Counts, Owners, NoDanglingRefs, NEW cl \in Client, Handler(cl)
    PROVE  NoDanglingRefs'
<1>0. Keeps
  BY HandlerKeeps
<1>1. CASE UNCHANGED <<counter, works, comparisons, tasks>>
  BY <1>0, <1>1, HandlerHolders, RefsSame, SMTT(30)
<1>2. ASSUME NEW c \in Config, NEW nums \in SUBSET Num, NEW op \in {"comparison", "query"},
             BeginWork(cl, op, c, nums), UNCHANGED <<comparisons, tasks>>
      PROVE  NoDanglingRefs'
  <2> DEFINE w == [client |-> cl, op |-> op, config |-> c, nums |-> nums]
  <2>1. /\ works' = works \cup {w} /\ w.config = c /\ w.nums = nums /\ worker' = worker
        /\ nums \subseteq Loaded(c) /\ GetSnapper(c)
    BY <1>2 DEF BeginWork, taskVars
  <2> HIDE DEF w
  <2>2. w.config \in snapper' /\ w.nums \subseteq entries'[w.config]
    BY <2>1, GetSnapperKeeps
  <2> QED
    BY <1>0, <1>2, <2>1, <2>2, RefsKept DEF NoDanglingRefs
<1>3. ASSUME NEW k \in comparisons, DeleteComparison(cl, k), UNCHANGED <<works, tasks>>
      PROVE  NoDanglingRefs'
  BY <1>0, <1>3, RefsSame DEF DeleteComparison, taskVars
<1>4. ASSUME NEW c \in Config, NEW n \in Num, NEW m \in Loaded(c) \cap Num,
             AddSnapshot(cl, c, n), AddTask(c, m, n)
      PROVE  NoDanglingRefs'
  <2>1. /\ UNCHANGED <<works, comparisons, worker>>
        /\ c \in snapper' /\ {m, n} \subseteq entries'[c]
    BY <1>4 DEF AddSnapshot, AddTask, heldVars, TypeOK
  <2>2. /\ Len(tasks) \in Nat /\ Len(tasks') = Len(tasks) + 1
        /\ tasks'[Len(tasks) + 1] = [config |-> c, pre |-> m, post |-> n]
        /\ \A i \in 1..Len(tasks) : tasks'[i] = tasks[i]
    BY <1>4, AddTaskQueue
  <2>3. ASSUME NEW i \in 1..Len(tasks'), ~(i = 1 /\ worker' = "release")
        PROVE  /\ tasks'[i].config \in snapper'
               /\ {tasks'[i].pre, tasks'[i].post} \subseteq entries'[tasks'[i].config]
    <3>1. CASE i \in 1..Len(tasks)
      BY <1>0, <2>1, <2>2, <2>3, <3>1, RefsKept, SMTT(30)
    <3>2. CASE i = Len(tasks) + 1
      BY <2>1, <2>2, <3>2, SMTT(30)
    <3> QED
      BY <2>2, <3>1, <3>2, SMTT(30)
  <2> QED
    BY <1>0, <2>1, <2>3, RefsKept DEF NoDanglingRefs
<1>5. CASE \E c \in Config, n \in Num : \E m \in Loaded(c) \cap Num :
               AddSnapshot(cl, c, n) /\ AddTask(c, m, n)
  BY <1>4, <1>5
<1> QED
  BY <1>1, <1>2, <1>3, <1>5, HandlerHolders

LEMMA PeriodicKeeps ==
    ASSUME TypeOK, Periodic
    PROVE  Keeps
<1> SUFFICES ASSUME NEW c \in Config, c \in snapper, counter[c] > 0
             PROVE  c \in snapper' /\ entries[c] \subseteq entries'[c]
  BY DEF Keeps
<1> DEFINE count   == [d \in Config |-> counter[d] - Cardinality(HeldBy(Reapable, d))]
           touched == {d \in Config : d \in MountedBy(Reapable) \/ HeldBy(Reapable, d) # {}}
           unload  == Unloadable(count, touched)
<1>1. /\ snapper' = (snapper \cup MountedBy(Reapable)) \ unload
      /\ entries'[c] = CASE c \in unload -> {}
                         [] c \in MountedBy(Reapable) -> Loaded(c)
                         [] OTHER -> entries[c]
  BY DEF Periodic
<1>2. c \notin unload
  <2>1. CASE HeldBy(Reapable, c) = {}
    <3>1. counter[c] \in Nat /\ Cardinality(HeldBy(Reapable, c)) = 0
      BY <2>1, FS_EmptySet DEF TypeOK
    <3>2. count[c] > 0
      BY <3>1
    <3> HIDE DEF count
    <3> QED
      BY <3>2 DEF Unloadable
  <2>2. CASE HeldBy(Reapable, c) # {}
    BY <2>2 DEF Unloadable
  <2> QED
    BY <2>1, <2>2
<1> HIDE DEF unload
<1> QED
  BY <1>1, <1>2 DEF Loaded

LEMMA FinishRefs ==
    ASSUME TypeOK, Counts, NoDanglingRefs, NEW w \in works, Finish(w)
    PROVE  NoDanglingRefs'
<1> USE DEF cacheVars, taskVars
<1>1. CASE EndWork(w) \/ InterruptWork(w)
  BY <1>1, SMTT(30) DEF EndWork, InterruptWork, ReleaseRef, NoDanglingRefs
<1>2. ASSUME NEW n \in Num, NEW s \in Slot, KeepComparison(w, n, s)
      PROVE  NoDanglingRefs'
  <2> DEFINE k == [client |-> w.client, config |-> w.config, num |-> n, slot |-> s]
  <2>1. /\ works' = works \ {w} /\ comparisons' = comparisons \cup {k} /\ w.nums = {n}
        /\ k.config = w.config /\ k.num = n
        /\ UNCHANGED <<snapper, entries, tasks, worker>>
    BY <1>2, SMTT(30) DEF KeepComparison
  <2> HIDE DEF k
  <2>2. k.config \in snapper /\ k.num \in entries[k.config]
    BY <2>1, SMTT(30) DEF NoDanglingRefs
  <2> QED
    BY <2>1, <2>2, SMTT(30) DEF NoDanglingRefs
<1> QED
  BY <1>1, <1>2, SMTT(30) DEF Finish

LEMMA NextRefs ==
    TypeOK /\ Counts /\ Owners /\ NoDanglingRefs /\ IdleTimerSafe /\ [Next]_vars => NoDanglingRefs'
<1> SUFFICES ASSUME TypeOK, Counts, Owners, NoDanglingRefs, IdleTimerSafe, [Next]_vars
             PROVE  NoDanglingRefs'
  OBVIOUS
<1> USE DEF cacheVars, heldVars, taskVars
<1>1. CASE \E cl \in Client : ClientStep(cl) \/ ThreadEnds(cl)
  <2>1. UNCHANGED <<cacheVars, heldVars, taskVars>>
    BY <1>1, Zenon DEF ClientStep, MethodCall, ClientDisconnected, ThreadEnds
  <2> QED
    BY <2>1 DEF NoDanglingRefs
<1>2. CASE \E cl \in Client : Handler(cl)
  BY <1>2, HandlerRefs
<1>3. CASE \E w \in works : Finish(w)
  BY <1>3, FinishRefs
<1>4. CASE Periodic
  <2>1. comparisons' \subseteq comparisons /\ UNCHANGED <<works, tasks, worker>>
    BY <1>4 DEF Periodic
  <2> QED
    BY <1>4, <2>1, PeriodicKeeps, RefsSame
<1>5. CASE MethodCallWithoutClient \/ PeriodicAborts
  BY <1>5 DEF MethodCallWithoutClient, PeriodicAborts, NoDanglingRefs
<1>6. CASE IdleExit
  <2>1. \A c \in Config : counter[c] = 0
    BY <1>6 DEF IdleExit, IdleTimerSafe
  <2>2. Keeps
    BY <2>1 DEF Keeps
  <2> QED
    BY <1>6, <2>2, RefsSame DEF IdleExit
<1>7. CASE WorkerTakes
  <2>1. Head(tasks).config \in Config
    BY <1>7, HeadOpen, SMTT(30) DEF WorkerTakes
  <2> QED
    BY <1>7, <2>1, GetSnapperKeeps, RefsSame DEF WorkerTakes
<1>8. CASE WorkerReleases \/ WorkerAborts
  BY <1>8, SMTT(30) DEF WorkerReleases, ReleaseRef, WorkerAborts, NoDanglingRefs
<1>9. CASE WorkerPops
  <2>1. /\ Len(tasks) \in Nat /\ Len(tasks') = Len(tasks) - 1
        /\ \A i \in 1..(Len(tasks) - 1) : tasks'[i] = tasks[i + 1]
    BY <1>9, SMTT(30) DEF WorkerPops, Owners, TypeOK
  <2>2. ASSUME NEW i \in 1..Len(tasks')
        PROVE  /\ tasks'[i].config \in snapper
               /\ {tasks'[i].pre, tasks'[i].post} \subseteq entries[tasks'[i].config]
    <3>1. i + 1 \in 1..Len(tasks) /\ i + 1 # 1 /\ tasks'[i] = tasks[i + 1]
      BY <2>1, SMTT(30)
    <3> QED
      BY <3>1 DEF NoDanglingRefs
  <2> QED
    BY <1>9, <2>2, SMTT(30) DEF WorkerPops, NoDanglingRefs
<1>10. CASE TimeStep
  BY <1>10, SMTT(30) DEF TimeStep, IdleTimePasses, SnapperAges, NoDanglingRefs
<1>11. CASE UNCHANGED vars
  BY <1>11 DEF vars, NoDanglingRefs
<1> QED
  BY <1>1, <1>2, <1>3, <1>4, <1>5, <1>6, <1>7, <1>8, <1>9, <1>10, <1>11, SMTT(30)
     DEF Next, MainLoopStep, WorkerStep

-----------------------------------------------------------------------------

LEMMA NextIdle ==
    TypeOK /\ Counts /\ Owners /\ IdleTimerSafe /\ TypeOK' /\ Counts' /\ Owners' /\ [Next]_vars
        => IdleTimerSafe'
<1> SUFFICES ASSUME TypeOK, Counts, Owners, IdleTimerSafe, TypeOK', Counts', Owners', [Next]_vars
             PROVE  IdleTimerSafe'
  OBVIOUS
<1> USE DEF loopVars, clientVars, taskVars
<1>1. ASSUME NEW cl \in Client, MethodCall(cl)
      PROVE  IdleTimerSafe'
  <2>1. CASE status[cl] = "none"
    BY <1>1, <2>1, Zenon DEF MethodCall, IdleTimerSafe
  <2>2. CASE status[cl] # "none"
    <3>1. ~armed /\ armed' = armed
      BY <1>1, <2>2 DEF MethodCall, IdleTimerSafe
    <3> QED
      BY <3>1 DEF IdleTimerSafe
  <2> QED
    BY <2>1, <2>2
<1>2. ASSUME NEW cl \in Client, ClientDisconnected(cl) \/ ThreadEnds(cl) \/ Handler(cl)
      PROVE  IdleTimerSafe'
  <2>1. status[cl] # "none" /\ armed' = armed
    BY <1>2, HandlerHolders DEF ClientDisconnected, ThreadEnds, Take
  <2> QED
    BY <2>1 DEF IdleTimerSafe
<1>3. ASSUME NEW w \in works, Finish(w)
      PROVE  IdleTimerSafe'
  <2>1. status[w.client] # "none" /\ w.client \in Client
    BY DEF Owners, TypeOK, Work
  <2>2. armed' = armed
    BY <1>3, Zenon DEF Finish, EndWork, InterruptWork, KeepComparison
  <2> QED
    BY <2>1, <2>2, SMTT(30) DEF IdleTimerSafe
<1>4. CASE Periodic
  <2> SUFFICES ASSUME armed' PROVE IdleTimerSafe'
    BY DEF IdleTimerSafe
  <2>1. armed \/ NobodyLeft(Reapable)
    BY <1>4, Zenon DEF Periodic
  <2>2. tasks = <<>> /\ \A cl \in Client \ Reapable : status[cl] = "none"
    BY <2>1 DEF NobodyLeft, IdleTimerSafe
  <2>3. tasks' = <<>> /\ \A cl \in Client : status'[cl] = "none"
    BY <1>4, <2>2 DEF Periodic
  <2>4. \A c \in Config : counter'[c] = 0
    <3>1. ASSUME NEW c \in Config
          PROVE  ComparisonsOf(c)' = {} /\ WorksOf(c)' = {} /\ OpenTasks(c)' = {}
      BY <2>3, SMTT(30) DEF Owners, TypeOK, ComparisonsOf, WorksOf, OpenTasks, Comparison, Work
    <3> QED
      BY <3>1, FS_EmptySet, SMTT(30) DEF Counts
  <2> QED
    BY <2>3, <2>4, SMTT(30) DEF IdleTimerSafe
<1>5. CASE MethodCallWithoutClient \/ PeriodicAborts \/ IdleExit
  BY <1>5, Zenon DEF MethodCallWithoutClient, PeriodicAborts, IdleExit, IdleTimerSafe
<1>6. CASE WorkerStep
  <2>1. tasks # <<>> /\ armed' = armed
    BY <1>6 DEF WorkerStep, WorkerTakes, WorkerReleases, WorkerPops, WorkerAborts, Owners
  <2> QED
    BY <2>1, SMTT(30) DEF IdleTimerSafe
<1>7. CASE TimeStep
  BY <1>7, Zenon DEF TimeStep, IdleTimePasses, SnapperAges, IdleTimerSafe
<1>8. CASE UNCHANGED vars
  BY <1>8 DEF vars, IdleTimerSafe
<1> QED
  BY <1>1, <1>2, <1>3, <1>4, <1>5, <1>6, <1>7, <1>8, SMTT(30) DEF Next, ClientStep, MainLoopStep

-----------------------------------------------------------------------------

(* The inductive invariant.                                                *)
IInv == TypeOK /\ Counts /\ Owners /\ NoDanglingRefs /\ IdleTimerSafe

LEMMA InitIInv == Init => IInv
<1> SUFFICES ASSUME Init PROVE IInv
  OBVIOUS
<1>1. TypeOK
  <2>1. armed \in BOOLEAN /\ idleElapsed \in BOOLEAN
    BY Zenon DEF Init
  <2>2. /\ allowed \in [Config -> SUBSET Client] /\ infos \in [Config -> SUBSET Num]
        /\ metaSnappers \in SUBSET Config
    BY DEF Init
  <2> QED
    BY <2>1, <2>2 DEF Init, TypeOK
<1>2. Counts
  <2>1. comparisons = {} /\ works = {} /\ tasks = <<>> /\ Len(tasks) = 0
    BY DEF Init
  <2>2. \A c \in Config : ComparisonsOf(c) = {} /\ WorksOf(c) = {} /\ OpenTasks(c) = {}
    BY <2>1 DEF ComparisonsOf, WorksOf, OpenTasks
  <2>3. IsFiniteSet(comparisons) /\ IsFiniteSet(works)
    BY <2>1, FS_EmptySet
  <2>4. \A c \in Config : counter[c] = 0
    BY SMTT(30) DEF Init
  <2> QED
    BY <2>2, <2>3, <2>4, FS_EmptySet, SMTT(30) DEF Counts
<1>3. Owners /\ NoDanglingRefs
  <2>1. comparisons = {} /\ works = {} /\ tasks = <<>> /\ Len(tasks) = 0 /\ worker = "wait"
    BY DEF Init
  <2> QED
    BY <2>1 DEF Owners, NoDanglingRefs
<1>4. IdleTimerSafe
  BY DEF Init, IdleTimerSafe
<1> QED
  BY <1>1, <1>2, <1>3, <1>4 DEF IInv

LEMMA NextIInv == IInv /\ [Next]_vars => IInv'
<1> SUFFICES ASSUME IInv, [Next]_vars PROVE IInv'
  OBVIOUS
<1>1. TypeOK' /\ Counts' /\ Owners' /\ NoDanglingRefs'
  BY NextTypeOK, NextCounts, NextOwners, NextRefs DEF IInv
<1>2. IdleTimerSafe'
  BY <1>1, NextIdle DEF IInv
<1> QED
  BY <1>1, <1>2 DEF IInv

LEMMA InvariantIInv == Spec => []IInv
  BY InitIInv, NextIInv, PTL DEF Spec

(* The state keeps its types; in particular the assertion in               *)
(* RefCounter::dec_use_count never fails.                                  *)
THEOREM TypeCorrect == Spec => []TypeOK
<1>1. IInv => TypeOK
  BY DEF IInv
<1> QED
  BY <1>1, InvariantIInv, PTL

(* inc_use_count, dec_use_count, RefHolder and ~Client keep the use count  *)
(* of every config equal to the number of its holders, for any number of   *)
(* clients, whatever they do.                                              *)
THEOREM UseCountsExact == Spec => []UseCountExact
<1>1. IInv => UseCountExact
  BY DEF IInv, Counts, UseCountExact, ComparisonsOf, WorksOf
<1> QED
  BY <1>1, InvariantIInv, PTL

(* What comparisons, unlocked handlers and unfinished background tasks     *)
(* refer to is neither deleted nor unloaded.                               *)
THEOREM RefsNeverDangle == Spec => []NoDanglingRefs
<1>1. IInv => NoDanglingRefs
  BY DEF IInv
<1> QED
  BY <1>1, InvariantIInv, PTL

(* periodic sets the idle timeout only when there is no client, no zombie, *)
(* no task and no reference, and it stays set only as long as that holds.  *)
THEOREM IdleExitSafe == Spec => []IdleTimerSafe
<1>1. IInv => IdleTimerSafe
  BY DEF IInv
<1> QED
  BY <1>1, InvariantIInv, PTL

=============================================================================
