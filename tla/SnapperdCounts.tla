--------------------------- MODULE SnapperdCounts ---------------------------
(* The use count of a Snapper is the number of its holders, step by step.  *)
EXTENDS SnapperdTypes, FunctionTheorems

LEMMA NextOwners == TypeOK /\ Owners /\ [Next]_vars => Owners'
<1> SUFFICES ASSUME TypeOK, Owners, [Next]_vars PROVE Owners'
  OBVIOUS
<1> USE DEF loopVars, configVars, cacheVars, clientVars, heldVars, taskVars
<1>1. CASE \E cl \in Client : ClientStep(cl) \/ ThreadEnds(cl)
  <2> PICK cl \in Client : MethodCall(cl) \/ ClientDisconnected(cl) \/ ThreadEnds(cl)
    BY <1>1 DEF ClientStep
  <2>1. CASE MethodCall(cl) \/ ClientDisconnected(cl)
    <3>1. /\ status' \in [Client -> {"none", "live", "zombie"}]
          /\ \A d \in Client : status[d] # "none" => status'[d] # "none"
          /\ UNCHANGED <<thread, works, comparisons, tasks, worker>>
      BY <2>1, Zenon DEF MethodCall, ClientDisconnected, TypeOK
    <3> QED
      BY <3>1 DEF Owners, TypeOK, Work, Comparison
  <2>2. CASE ThreadEnds(cl)
    BY <2>2, SMTT(30) DEF ThreadEnds, Busy, Owners, TypeOK
  <2> QED
    BY <2>1, <2>2
<1>2. ASSUME NEW cl \in Client, Handler(cl)
      PROVE  Owners'
  <2> USE <1>2, HandlerHolders
  <2>1. CASE UNCHANGED <<counter, works, comparisons, tasks>>
    BY <2>1, Zenon DEF Owners
  <2>2. ASSUME NEW c \in Config, NEW nums \in SUBSET Num, NEW op \in {"comparison", "query"},
               BeginWork(cl, op, c, nums), UNCHANGED <<comparisons, tasks>>
        PROVE  Owners'
    BY <2>2, TakeType, SMTT(30) DEF BeginWork, Busy, Owners
  <2>3. ASSUME NEW c \in Config, NEW m \in Num, NEW n \in Num,
               AddTask(c, m, n), UNCHANGED <<works, comparisons>>
        PROVE  Owners'
    BY <2>3, AddTaskQueue, Zenon DEF Owners
  <2>4. ASSUME NEW k \in comparisons, DeleteComparison(cl, k), UNCHANGED <<works, tasks>>
        PROVE  Owners'
    BY <2>4 DEF DeleteComparison, Owners
  <2> QED
    BY <2>1, <2>2, <2>3, <2>4
<1>3. ASSUME NEW w \in works, Finish(w)
      PROVE  Owners'
  <2>1. CASE EndWork(w)
    BY <2>1, SMTT(30) DEF EndWork, Owners
  <2>2. CASE InterruptWork(w)
    BY <2>2 DEF InterruptWork, Owners, TypeOK
  <2>3. ASSUME NEW n \in Num, NEW s \in Slot, KeepComparison(w, n, s)
        PROVE  Owners'
    BY <2>3 DEF KeepComparison, Owners
  <2> QED
    BY <1>3, <2>1, <2>2, <2>3, SMTT(30) DEF Finish
<1>4. CASE Periodic
  <2>1. /\ \A cl \in Client \ Reapable : status'[cl] = status[cl] /\ thread'[cl] = thread[cl]
        /\ comparisons' = {k \in comparisons : k.client \notin Reapable}
        /\ UNCHANGED <<works, tasks, worker>>
    BY <1>4 DEF Periodic
  <2>2. \A w \in works : w.client \in Client \ Reapable
    BY DEF Owners, Reapable, TypeOK, Work
  <2>3. \A k \in comparisons' : k \in comparisons /\ k.client \in Client \ Reapable
    BY <2>1 DEF TypeOK, Comparison
  <2> QED
    BY <2>1, <2>2, <2>3 DEF Owners
<1>5. CASE MethodCallWithoutClient \/ PeriodicAborts \/ IdleExit
  BY <1>5 DEF MethodCallWithoutClient, PeriodicAborts, IdleExit, Owners
<1>6. CASE WorkerStep
  BY <1>6, SMTT(30) DEF WorkerStep, WorkerTakes, WorkerReleases, WorkerPops, WorkerAborts, Owners
<1>7. CASE TimeStep
  BY <1>7, Zenon DEF TimeStep, IdleTimePasses, SnapperAges, Owners
<1>8. CASE UNCHANGED vars
  BY <1>8, Zenon DEF vars, Owners
<1> QED
  BY <1>1, <1>2, <1>3, <1>4, <1>5, <1>6, <1>7, <1>8 DEF Next, MainLoopStep

-----------------------------------------------------------------------------


(* Adding or removing one holder of a config.                              *)
LEMMA AddHolder ==
    ASSUME NEW S, IsFiniteSet(S), NEW x, x \notin S
    PROVE  IsFiniteSet(S \cup {x}) /\ Cardinality(S \cup {x}) = Cardinality(S) + 1
  BY FS_AddElement

LEMMA RemoveHolder ==
    ASSUME NEW S, IsFiniteSet(S), NEW x \in S
    PROVE  IsFiniteSet(S \ {x}) /\ Cardinality(S \ {x}) = Cardinality(S) - 1
  BY FS_RemoveElement

LEMMA CountsSame ==
    ASSUME Counts, UNCHANGED <<counter, works, comparisons, tasks>>,
           worker' = worker \/ {worker, worker'} \subseteq {"wait", "compare"}
    PROVE  Counts'
<1>1. \A c \in Config : /\ ComparisonsOf(c)' = ComparisonsOf(c) /\ WorksOf(c)' = WorksOf(c)
                        /\ OpenTasks(c)' = OpenTasks(c)
  BY DEF ComparisonsOf, WorksOf, OpenTasks
<1> QED
  BY <1>1 DEF Counts

LEMMA HandlerCounts ==
    ASSUME TypeOK, Counts, Owners, NEW cl \in Client, Handler(cl)
    PROVE  Counts'
<1> USE HandlerHolders DEF clientVars
<1>1. CASE UNCHANGED <<counter, works, comparisons, tasks>>
  BY <1>1, CountsSame
<1>2. ASSUME NEW c \in Config, NEW nums \in SUBSET Num, NEW op \in {"comparison", "query"},
             BeginWork(cl, op, c, nums), UNCHANGED <<comparisons, tasks>>
      PROVE  Counts'
  <2> DEFINE w == [client |-> cl, op |-> op, config |-> c, nums |-> nums]
  <2>1. w.client = cl /\ w.config = c /\ works' = works \cup {w} /\ worker' = worker
        /\ counter' = [counter EXCEPT ![c] = @ + 1]
    BY <1>2, SMTT(30) DEF BeginWork
  <2>2. w \notin works
    BY <1>2, <2>1, TakeType, SMTT(30) DEF BeginWork, Busy
  <2> HIDE DEF w
  <2>3. \A d \in Config : ComparisonsOf(d)' = ComparisonsOf(d) /\ OpenTasks(d)' = OpenTasks(d)
    BY <1>2, <2>1 DEF ComparisonsOf, OpenTasks
  <2>4. \A d \in Config \ {c} : WorksOf(d)' = WorksOf(d)
    BY <2>1 DEF WorksOf
  <2>5. WorksOf(c)' = WorksOf(c) \cup {w} /\ w \notin WorksOf(c)
    BY <2>1, <2>2 DEF WorksOf
  <2>6. Cardinality(WorksOf(c)') = Cardinality(WorksOf(c)) + 1
    BY <2>5, AddHolder, HoldersFinite, SMTT(30)
  <2>7. IsFiniteSet(works') /\ IsFiniteSet(comparisons')
    BY <1>2, <2>1, <2>2, AddHolder DEF Counts
  <2>8. ASSUME NEW d \in Config
        PROVE  counter'[d] = Cardinality(ComparisonsOf(d)') + Cardinality(WorksOf(d)')
                             + Cardinality(OpenTasks(d)')
    <3>1. counter[d] = Cardinality(ComparisonsOf(d)) + Cardinality(WorksOf(d))
                       + Cardinality(OpenTasks(d))
      BY SMTT(30) DEF Counts
    <3>2. CASE d = c
      BY <2>1, <2>3, <2>6, <3>1, <3>2, HoldersFinite, SMTT(30) DEF TypeOK
    <3>3. CASE d # c
      BY <2>1, <2>3, <2>4, <3>1, <3>3, SMTT(30) DEF TypeOK
    <3> QED
      BY <3>2, <3>3
  <2> QED
    BY <2>7, <2>8 DEF Counts
<1>3. ASSUME NEW c \in Config, NEW m \in Num, NEW n \in Num,
             AddTask(c, m, n), UNCHANGED <<works, comparisons>>
      PROVE  Counts'
  <2> DEFINE i == Len(tasks) + 1
  <2>1. /\ Len(tasks) \in Nat /\ Len(tasks') = i /\ tasks'[i].config = c
        /\ \A j \in 1..Len(tasks) : tasks'[j] = tasks[j]
        /\ worker' = worker /\ counter' = [counter EXCEPT ![c] = @ + 1]
    BY <1>3, AddTaskQueue, SMTT(30) DEF AddTask
  <2>2. \A d \in Config : ComparisonsOf(d)' = ComparisonsOf(d) /\ WorksOf(d)' = WorksOf(d)
    BY <1>3, SMTT(30) DEF ComparisonsOf, WorksOf
  <2>3. ~(i = 1 /\ worker = "release")
    BY <2>1, SMTT(30) DEF Owners, TypeOK
  <2>4. \A d \in Config \ {c} : OpenTasks(d)' = OpenTasks(d)
    BY <2>1 DEF OpenTasks
  <2>5. OpenTasks(c)' = OpenTasks(c) \cup {i} /\ i \notin OpenTasks(c)
    BY <2>1, <2>3, SMTT(30) DEF OpenTasks
  <2>6. Cardinality(OpenTasks(c)') = Cardinality(OpenTasks(c)) + 1
    BY <2>5, AddHolder, HoldersFinite
  <2> QED
    BY <1>3, <2>1, <2>2, <2>4, <2>6, HoldersFinite, SMTT(30) DEF Counts, TypeOK
<1>4. ASSUME NEW k \in comparisons, DeleteComparison(cl, k), UNCHANGED <<works, tasks>>
      PROVE  Counts'
  <2>1. k.config \in Config /\ comparisons' = comparisons \ {k} /\ worker' = worker
        /\ counter' = [counter EXCEPT ![k.config] = @ - 1]
    BY <1>4, SMTT(30) DEF DeleteComparison, TypeOK, Comparison
  <2>2. \A d \in Config : WorksOf(d)' = WorksOf(d) /\ OpenTasks(d)' = OpenTasks(d)
    BY <1>4, <2>1 DEF WorksOf, OpenTasks
  <2>3. \A d \in Config \ {k.config} : ComparisonsOf(d)' = ComparisonsOf(d)
    BY <2>1 DEF ComparisonsOf
  <2>4. ComparisonsOf(k.config)' = ComparisonsOf(k.config) \ {k} /\ k \in ComparisonsOf(k.config)
    BY <2>1 DEF ComparisonsOf
  <2>5. Cardinality(ComparisonsOf(k.config)') = Cardinality(ComparisonsOf(k.config)) - 1
    BY <2>1, <2>4, RemoveHolder, HoldersFinite
  <2>6. IsFiniteSet(works') /\ IsFiniteSet(comparisons')
    BY <1>4, <2>1, RemoveHolder, SMTT(30) DEF Counts
  <2>7. ASSUME NEW d \in Config
        PROVE  counter'[d] = Cardinality(ComparisonsOf(d)') + Cardinality(WorksOf(d)')
                             + Cardinality(OpenTasks(d)')
    <3>1. counter[d] = Cardinality(ComparisonsOf(d)) + Cardinality(WorksOf(d))
                       + Cardinality(OpenTasks(d))
      BY SMTT(30) DEF Counts
    <3>2. CASE d = k.config
      BY <2>1, <2>2, <2>5, <3>1, <3>2, HoldersFinite, SMTT(30) DEF TypeOK
    <3>3. CASE d # k.config
      BY <2>1, <2>2, <2>3, <3>1, <3>3, SMTT(30) DEF TypeOK
    <3> QED
      BY <3>2, <3>3
  <2> QED
    BY <2>6, <2>7 DEF Counts
<1> QED
  BY <1>1, <1>2, <1>3, <1>4, SMTT(30)

(* One work of a config ends; the others are not concerned.                *)
LEMMA WorkEnds ==
    ASSUME TypeOK, Counts, NEW w \in works, works' = works \ {w}
    PROVE  /\ w.config \in Config
           /\ \A d \in Config \ {w.config} : WorksOf(d)' = WorksOf(d)
           /\ Cardinality(WorksOf(w.config)') = Cardinality(WorksOf(w.config)) - 1
           /\ IsFiniteSet(works')
<1>1. w.config \in Config /\ \A d \in Config \ {w.config} : WorksOf(d)' = WorksOf(d)
  BY DEF WorksOf, TypeOK, Work
<1>2. WorksOf(w.config)' = WorksOf(w.config) \ {w} /\ w \in WorksOf(w.config)
  BY DEF WorksOf
<1>3. IsFiniteSet(works')
  BY RemoveHolder DEF Counts
<1> QED
  BY <1>1, <1>2, <1>3, RemoveHolder, HoldersFinite

LEMMA FinishCounts ==
    ASSUME TypeOK, Counts, NEW w \in works, Finish(w)
    PROVE  Counts'
<1> USE DEF taskVars
<1>1. CASE EndWork(w) \/ InterruptWork(w)
  <2>1. /\ works' = works \ {w} /\ counter' = [counter EXCEPT ![w.config] = @ - 1]
        /\ UNCHANGED <<comparisons, tasks, worker>>
    BY <1>1 DEF EndWork, InterruptWork, ReleaseRef
  <2>2. \A d \in Config : ComparisonsOf(d)' = ComparisonsOf(d) /\ OpenTasks(d)' = OpenTasks(d)
    BY <2>1 DEF ComparisonsOf, OpenTasks
  <2>3. ASSUME NEW d \in Config
        PROVE  counter'[d] = Cardinality(ComparisonsOf(d)') + Cardinality(WorksOf(d)')
                             + Cardinality(OpenTasks(d)')
    <3>1. counter[d] = Cardinality(ComparisonsOf(d)) + Cardinality(WorksOf(d))
                       + Cardinality(OpenTasks(d))
      BY DEF Counts
    <3>2. CASE d = w.config
      BY <2>1, <2>2, <3>1, <3>2, WorkEnds, HoldersFinite, SMTT(30) DEF TypeOK
    <3>3. CASE d # w.config
      BY <2>1, <2>2, <3>1, <3>3, WorkEnds, SMTT(30) DEF TypeOK
    <3> QED
      BY <3>2, <3>3
  <2> QED
    BY <2>1, <2>3, WorkEnds, SMTT(30) DEF Counts
<1>2. ASSUME NEW n \in Num, NEW s \in Slot, KeepComparison(w, n, s)
      PROVE  Counts'
  <2> DEFINE k == [client |-> w.client, config |-> w.config, num |-> n, slot |-> s]
  <2>1. /\ works' = works \ {w} /\ comparisons' = comparisons \cup {k}
        /\ k.config = w.config /\ k \notin comparisons
        /\ UNCHANGED <<counter, tasks, worker>>
    BY <1>2 DEF KeepComparison
  <2> HIDE DEF k
  <2>2. \A d \in Config : OpenTasks(d)' = OpenTasks(d)
    BY <2>1 DEF OpenTasks
  <2>3. \A d \in Config \ {w.config} : ComparisonsOf(d)' = ComparisonsOf(d)
    BY <2>1 DEF ComparisonsOf
  <2>4. /\ ComparisonsOf(w.config)' = ComparisonsOf(w.config) \cup {k}
        /\ k \notin ComparisonsOf(w.config)
    BY <2>1 DEF ComparisonsOf
  <2>5. Cardinality(ComparisonsOf(w.config)') = Cardinality(ComparisonsOf(w.config)) + 1
    BY <2>1, <2>4, WorkEnds, AddHolder, HoldersFinite
  <2>6. IsFiniteSet(comparisons')
    BY <2>1, AddHolder DEF Counts
  <2>7. ASSUME NEW d \in Config
        PROVE  counter'[d] = Cardinality(ComparisonsOf(d)') + Cardinality(WorksOf(d)')
                             + Cardinality(OpenTasks(d)')
    <3>1. counter[d] = Cardinality(ComparisonsOf(d)) + Cardinality(WorksOf(d))
                       + Cardinality(OpenTasks(d))
      BY SMTT(30) DEF Counts
    <3>2. CASE d = w.config
      <4>1. counter'[d] = counter[d] /\ OpenTasks(d)' = OpenTasks(d)
        BY <2>1, <2>2
      <4>2. Cardinality(WorksOf(d)') = Cardinality(WorksOf(d)) - 1
        BY <2>1, <3>2, WorkEnds
      <4>3. Cardinality(ComparisonsOf(d)') = Cardinality(ComparisonsOf(d)) + 1
        BY <2>5, <3>2
      <4>4. /\ Cardinality(ComparisonsOf(d)) \in Nat /\ Cardinality(WorksOf(d)) \in Nat
            /\ Cardinality(OpenTasks(d)) \in Nat
        BY HoldersFinite, SMTT(30)
      <4> QED
        BY <3>1, <4>1, <4>2, <4>3, <4>4
    <3>3. CASE d # w.config
      <4>1. counter'[d] = counter[d] /\ OpenTasks(d)' = OpenTasks(d)
        BY <2>1, <2>2
      <4>2. ComparisonsOf(d)' = ComparisonsOf(d)
        BY <2>3, <3>3
      <4>3. WorksOf(d)' = WorksOf(d)
        BY <2>1, <3>3, WorkEnds
      <4> QED
        BY <3>1, <4>1, <4>2, <4>3
    <3> QED
      BY <3>2, <3>3
  <2> QED
    BY <2>1, <2>6, <2>7, WorkEnds, Zenon DEF Counts
<1> QED
  BY <1>1, <1>2 DEF Finish

LEMMA PeriodicCounts ==
    ASSUME TypeOK, Counts, Periodic
    PROVE  Counts'
<1>1. /\ comparisons' = {k \in comparisons : k.client \notin Reapable}
      /\ \A c \in Config : counter'[c] = counter[c] - Cardinality(HeldBy(Reapable, c))
      /\ UNCHANGED <<works, tasks, worker>>
  BY SMTT(30) DEF Periodic, taskVars
<1>2. IsFiniteSet(comparisons')
  BY <1>1, FS_Subset, SMTT(30) DEF Counts
<1>3. ASSUME NEW d \in Config
      PROVE  counter'[d] = Cardinality(ComparisonsOf(d)') + Cardinality(WorksOf(d)')
                           + Cardinality(OpenTasks(d)')
  <2>1. WorksOf(d)' = WorksOf(d) /\ OpenTasks(d)' = OpenTasks(d)
    BY <1>1 DEF WorksOf, OpenTasks
  <2>2. /\ ComparisonsOf(d)' = ComparisonsOf(d) \ HeldBy(Reapable, d)
        /\ ComparisonsOf(d) \cap HeldBy(Reapable, d) = HeldBy(Reapable, d)
    BY <1>1 DEF ComparisonsOf, HeldBy
  <2>3. Cardinality(ComparisonsOf(d)') = Cardinality(ComparisonsOf(d)) - Cardinality(HeldBy(Reapable, d))
    BY <2>2, HoldersFinite, FS_Difference, Zenon
  <2>4. Cardinality(HeldBy(Reapable, d)) \in Nat
    BY HeldByCounted, FS_CardinalityType
  <2> QED
    BY <1>1, <2>1, <2>3, <2>4, HoldersFinite, SMTT(30) DEF Counts, TypeOK
<1> QED
  BY <1>1, <1>2, <1>3, Zenon DEF Counts

LEMMA WorkerReleasesCounts ==
    ASSUME TypeOK, Counts, Owners, NoDanglingRefs, WorkerReleases
    PROVE  Counts'
<1> PICK c \in Config : c = Head(tasks).config
  BY HeadOpen, SMTT(30) DEF WorkerReleases, Owners
<1>1. c \in Config /\ c = tasks[1].config /\ 1 \in OpenTasks(c) /\ 1 \in 1..Len(tasks)
  BY HeadOpen DEF WorkerReleases, Owners, OpenTasks
<1>2. /\ worker = "compare" /\ worker' = "release"
      /\ counter' = [counter EXCEPT ![c] = @ - 1]
      /\ UNCHANGED <<works, comparisons, tasks>>
  BY DEF WorkerReleases, ReleaseRef, heldVars
<1>3. \A d \in Config : ComparisonsOf(d)' = ComparisonsOf(d) /\ WorksOf(d)' = WorksOf(d)
  BY <1>2 DEF ComparisonsOf, WorksOf
<1>4. \A d \in Config \ {c} : OpenTasks(d)' = OpenTasks(d)
  BY <1>1, <1>2 DEF OpenTasks
<1>5. OpenTasks(c)' = OpenTasks(c) \ {1}
  BY <1>1, <1>2 DEF OpenTasks
<1>6. Cardinality(OpenTasks(c)') = Cardinality(OpenTasks(c)) - 1
  BY <1>1, <1>5, RemoveHolder, HoldersFinite, SMTT(30)
<1>7. ASSUME NEW d \in Config
      PROVE  counter'[d] = Cardinality(ComparisonsOf(d)') + Cardinality(WorksOf(d)')
                           + Cardinality(OpenTasks(d)')
  <2>1. counter[d] = Cardinality(ComparisonsOf(d)) + Cardinality(WorksOf(d))
                       + Cardinality(OpenTasks(d))
    BY SMTT(30) DEF Counts
  <2>2. CASE d = c
    <3>1. /\ counter'[d] = counter[d] - 1
          /\ ComparisonsOf(d)' = ComparisonsOf(d) /\ WorksOf(d)' = WorksOf(d)
      BY <1>2, <1>3, <2>2, SMTT(30) DEF TypeOK
    <3>2. Cardinality(OpenTasks(d)') = Cardinality(OpenTasks(d)) - 1
      BY <1>6, <2>2
    <3>3. /\ Cardinality(ComparisonsOf(d)) \in Nat /\ Cardinality(WorksOf(d)) \in Nat
          /\ Cardinality(OpenTasks(d)) \in Nat
      BY HoldersFinite
    <3> QED
      BY <2>1, <3>1, <3>2, <3>3, SMTT(30)
  <2>3. CASE d # c
    BY <1>1, <1>2, <1>3, <1>4, <2>1, <2>3, Zenon DEF TypeOK
  <2> QED
    BY <2>2, <2>3
<1> QED
  BY <1>2, <1>7 DEF Counts

LEMMA WorkerPopsCounts ==
    ASSUME TypeOK, Counts, Owners, WorkerPops
    PROVE  Counts'
<1>1. /\ worker = "release" /\ worker' = "wait" /\ tasks' = Tail(tasks)
      /\ UNCHANGED <<counter, works, comparisons>>
  BY DEF WorkerPops, heldVars
<1>2. /\ Len(tasks) \in Nat /\ Len(tasks) > 0 /\ Len(tasks') = Len(tasks) - 1
      /\ \A i \in 1..(Len(tasks) - 1) : tasks'[i] = tasks[i + 1]
  BY <1>1 DEF Owners, TypeOK
<1>3. ASSUME NEW d \in Config
      PROVE  Cardinality(OpenTasks(d)') = Cardinality(OpenTasks(d))
  <2> DEFINE f == [i \in OpenTasks(d) |-> i - 1]
  <2>1. OpenTasks(d) = {i \in 2..Len(tasks) : tasks[i].config = d}
    BY <1>1, <1>2 DEF OpenTasks
  <2>2. OpenTasks(d)' = {i \in 1..(Len(tasks) - 1) : tasks[i + 1].config = d}
    BY <1>1, <1>2 DEF OpenTasks
  <2>3. f \in [OpenTasks(d) -> OpenTasks(d)']
    BY <1>2, <2>1, <2>2
  <2>4. \A a, b \in OpenTasks(d) : f[a] = f[b] => a = b
    BY <1>2, <2>1
  <2>5. \A t \in OpenTasks(d)' : t + 1 \in OpenTasks(d) /\ f[t + 1] = t
    BY <1>2, <2>1, <2>2
  <2>6. f \in Bijection(OpenTasks(d), OpenTasks(d)')
    <3>1. \A t \in OpenTasks(d)' : \E s \in OpenTasks(d) : f[s] = t
      BY <2>5, Zenon
    <3> HIDE DEF f
    <3> QED
      BY <2>3, <2>4, <3>1, Fun_IsBij, SMTT(30)
  <2>7. ExistsBijection(OpenTasks(d), OpenTasks(d)')
    BY <2>6, Fun_ExistsBij
  <2> QED
    BY <2>7, HoldersFinite, FS_Bijection
<1>4. \A d \in Config : ComparisonsOf(d)' = ComparisonsOf(d) /\ WorksOf(d)' = WorksOf(d)
  BY <1>1 DEF ComparisonsOf, WorksOf
<1> QED
  BY <1>1, <1>3, <1>4 DEF Counts

LEMMA NextCounts == TypeOK /\ Counts /\ Owners /\ NoDanglingRefs /\ [Next]_vars => Counts'
<1> SUFFICES ASSUME TypeOK, Counts, Owners, NoDanglingRefs, [Next]_vars PROVE Counts'
  OBVIOUS
<1> USE DEF heldVars, taskVars
<1>1. CASE \E cl \in Client : ClientStep(cl) \/ ThreadEnds(cl)
  BY <1>1, CountsSame, Zenon DEF ClientStep, MethodCall, ClientDisconnected, ThreadEnds
<1>2. CASE \E cl \in Client : Handler(cl)
  BY <1>2, HandlerCounts
<1>3. CASE \E w \in works : Finish(w)
  BY <1>3, FinishCounts
<1>4. CASE Periodic
  BY <1>4, PeriodicCounts, SMTT(30)
<1>5. CASE MethodCallWithoutClient \/ PeriodicAborts \/ IdleExit
  BY <1>5, CountsSame DEF MethodCallWithoutClient, PeriodicAborts, IdleExit
<1>6. CASE WorkerTakes \/ WorkerAborts
  BY <1>6, CountsSame DEF WorkerTakes, WorkerAborts
<1>7. CASE WorkerReleases \/ WorkerPops
  BY <1>7, WorkerReleasesCounts, WorkerPopsCounts
<1>8. CASE TimeStep
  BY <1>8, CountsSame DEF TimeStep, IdleTimePasses, SnapperAges
<1>9. CASE UNCHANGED vars
  BY <1>9, CountsSame DEF vars
<1> QED
  BY <1>1, <1>2, <1>3, <1>4, <1>5, <1>6, <1>7, <1>8, <1>9 DEF Next, MainLoopStep, WorkerStep

=============================================================================
