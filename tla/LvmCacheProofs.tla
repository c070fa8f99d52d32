--------------------------- MODULE LvmCacheProofs ---------------------------
(***************************************************************************)
(* Proofs about LvmCache, for any threads and volumes.  Who holds which    *)
(* lock follows from the step a thread is at; the lock of a volume and the *)
(* shared lock of the group then keep the cache and the volume in place.   *)
(***************************************************************************)
EXTENDS LvmCache, TLAPS

Apart == None \notin Threads /\ None \notin Volumes /\ None \notin Attrs
         /\ SkipActivation \in BOOLEAN

Ops == Changing \cup Exclusive \cup {"none"}

Pcs == {"none", "mutex", "vg", "check", "lv", "command", "attrs", "mount", "lvs", "wait", "unique"}

Work == [op : Ops, pc : Pcs, lv : Volumes \cup {None}, ro : BOOLEAN]

Shared == {"check", "lv", "command", "attrs"}

Types ==
    /\ lvs \in [Volumes -> Attrs \cup {None}] /\ cache \in [Volumes -> Attrs \cup {None}]
    /\ lvLock \in [Volumes -> Threads \cup {None}]
    /\ vgShared \subseteq Threads /\ vgUpgrade \in Threads \cup {None}
    /\ thread \in [Threads -> Work]
    /\ \A t \in Threads : thread[t].op # "none" => thread[t].lv \in Volumes

(* The locks of a thread.                                                  *)
Locks ==
    /\ \A t \in Threads :
          /\ t \in vgShared <=> thread[t].pc \in Shared
          /\ thread[t].pc \in Shared => thread[t].op \in Changing
          /\ vgUpgrade = t <=> thread[t].pc \in {"lvs", "wait", "unique"}
          /\ thread[t].pc \in {"command", "attrs"} => lvLock[thread[t].lv] = t
    /\ \A v \in Volumes : lvLock[v] # None =>
          thread[lvLock[v]].pc \in {"command", "attrs"} /\ thread[lvLock[v]].lv = v
    /\ Unique => vgShared = {}

(* Between lvchange and set_attrs the cache of the volume is behind.       *)
Changed(v) == lvLock[v] # None /\ thread[lvLock[v]].pc = "attrs"

BehindAt(v) ==
    IF Changed(v) THEN cache[v] \in Attrs /\ lvs[v] = Wanted(lvLock[v], cache[v])
    ELSE cache[v] = lvs[v]

Behind ==
    /\ \A v \in Volumes : BehindAt(v)
    /\ \A t \in vgShared : cache[thread[t].lv] # None

IInv == Types /\ Locks /\ Behind

LEMMA RestingWork ==
  Resting \in Work /\ Resting.pc = "none" /\ Resting.op = "none"
  BY DEF Resting, Work, Ops, Pcs

LEMMA InitIInv == ASSUME Apart, Init PROVE IInv
  <1>1. \A t \in Threads : thread[t] = Resting
    BY DEF Init
  <1>2. Types
    BY <1>1, RestingWork DEF Init, Types
  <1>3. QED
    BY <1>1, <1>2, RestingWork DEF Init, IInv, Locks, Behind, BehindAt, Changed, Apart, Shared, Unique

LEMMA GotoWork ==
  ASSUME Types, NEW t \in Threads, NEW p \in Pcs, Goto(t, p)
  PROVE  /\ thread' \in [Threads -> Work]
         /\ thread'[t].pc = p /\ thread'[t].op = thread[t].op /\ thread'[t].lv = thread[t].lv
         /\ thread'[t].ro = thread[t].ro
         /\ \A u \in Threads \ {t} : thread'[u] = thread[u]
  BY DEF Types, Goto, Work

LEMMA WantedAttrs ==
  ASSUME NEW t \in Threads, thread[t].op \in Changing, Types, NEW a \in Attrs
  PROVE  Wanted(t, a) \in Attrs
  BY DEF Wanted, Changing, Attrs, Types, Work

(* What a step of thread t leaves alone of the cache of a volume.          *)
LEMMA BehindKept ==
  ASSUME Apart, Types, Behind, NEW t \in Threads, NEW w \in Volumes,
         cache'[w] = cache[w], lvs'[w] = lvs[w],
         \A u \in Threads \ {t} : thread'[u] = thread[u],
         lvLock[w] = t => thread[t].pc # "attrs",
         lvLock'[w] = t => thread'[t].pc # "attrs",
         lvLock[w] \in Threads \ {t} => lvLock'[w] = lvLock[w],
         lvLock[w] \notin Threads \ {t} => lvLock'[w] \in {t, None}
  PROVE  BehindAt(w)'
  <1>1. CASE lvLock[w] \in Threads \ {t}
    <2>1. PICK u \in Threads \ {t} : lvLock[w] = u
      BY <1>1
    <2>2. lvLock'[w] = u /\ thread'[u] = thread[u]
      BY <2>1
    <2>3. Changed(w)' <=> Changed(w)
      BY <2>1, <2>2 DEF Changed
    <2>4. Changed(w) => Wanted(lvLock[w], cache[w])' = Wanted(lvLock[w], cache[w])
      BY <2>1, <2>2 DEF Wanted
    <2>5. QED
      BY <2>3, <2>4 DEF Behind, BehindAt
  <1>2. CASE lvLock[w] \notin Threads \ {t}
    <2>1. ~Changed(w) /\ ~Changed(w)'
      BY <1>2 DEF Changed, Types
    <2>2. QED
      BY <2>1 DEF Behind, BehindAt
  <1>3. QED
    BY <1>1, <1>2

(* A thread gives up its locks, and nobody else's.                         *)
Release(t) ==
    /\ thread' \in [Threads -> Work] /\ thread'[t].pc \in {"none", "mount"}
    /\ thread'[t].op # "none" => thread'[t].lv \in Volumes
    /\ \A u \in Threads \ {t} : thread'[u] = thread[u]
    /\ lvLock' \in [Volumes -> Threads \cup {None}]
    /\ \A v \in Volumes : lvLock'[v] = IF lvLock[v] = t THEN None ELSE lvLock[v]
    /\ vgShared' = vgShared \ {t}
    /\ vgUpgrade' = IF vgUpgrade = t THEN None ELSE vgUpgrade

LEMMA ReturnReleases == ASSUME Types, NEW t \in Threads, Return(t) PROVE Release(t)
  <1>1. thread' \in [Threads -> Work] /\ thread'[t] = Resting
        /\ \A u \in Threads \ {t} : thread'[u] = thread[u]
    BY RestingWork DEF Return, Types
  <1>2. /\ lvLock' \in [Volumes -> Threads \cup {None}]
        /\ \A v \in Volumes : lvLock'[v] = IF lvLock[v] = t THEN None ELSE lvLock[v]
    BY DEF Return, Types
  <1>3. QED
    BY <1>1, <1>2, RestingWork DEF Return, Release

LEMMA CachedReleases ==
  ASSUME Types, Locks, NEW t \in Threads, thread[t].pc \in Shared, Cached(t)
  PROVE  Release(t)
  <1>1. CASE thread[t].op = "mount"
    <2>1. Goto(t, "mount") /\ "mount" \in Pcs
      BY <1>1 DEF Cached, Pcs
    <2>2. /\ thread' \in [Threads -> Work] /\ thread'[t].pc = "mount"
          /\ thread'[t].op = thread[t].op /\ thread'[t].lv = thread[t].lv
          /\ \A u \in Threads \ {t} : thread'[u] = thread[u]
      BY <2>1, GotoWork
    <2>3. /\ lvLock' \in [Volumes -> Threads \cup {None}]
          /\ \A v \in Volumes : lvLock'[v] = IF lvLock[v] = t THEN None ELSE lvLock[v]
          /\ vgShared' = vgShared \ {t} /\ vgUpgrade' = vgUpgrade
      BY <1>1 DEF Cached, Types
    <2>4. vgUpgrade # t
      BY DEF Locks, Shared
    <2>5. QED
      BY <1>1, <2>2, <2>3, <2>4 DEF Release, Types
  <1>2. CASE thread[t].op # "mount"
    BY <1>2, ReturnReleases DEF Cached
  <1>3. QED
    BY <1>1, <1>2

LEMMA ReleaseLocks ==
  ASSUME Apart, Types, Locks, NEW t \in Threads, Release(t)
  PROVE  Locks'
  <1>1. \A u \in Threads :
           /\ u \in vgShared' <=> thread'[u].pc \in Shared
           /\ thread'[u].pc \in Shared => thread'[u].op \in Changing
           /\ vgUpgrade' = u <=> thread'[u].pc \in {"lvs", "wait", "unique"}
    BY DEF Release, Locks, Shared, Apart
  <1>2. \A u \in Threads :
           thread'[u].pc \in {"command", "attrs"} => lvLock'[thread'[u].lv] = u
    <2>1. ASSUME NEW u \in Threads \ {t}, thread[u].pc \in {"command", "attrs"}
          PROVE  lvLock'[thread[u].lv] = u
      <3>1. thread[u].op # "none"
        BY <2>1 DEF Locks, Shared, Changing
      <3>2. thread[u].lv \in Volumes
        BY <3>1 DEF Types
      <3>3. QED
        BY <2>1, <3>2 DEF Locks, Release
    <2>2. QED
      BY <2>1 DEF Release
  <1>3. \A v \in Volumes : lvLock'[v] # None =>
           thread'[lvLock'[v]].pc \in {"command", "attrs"} /\ thread'[lvLock'[v]].lv = v
    BY DEF Release, Locks, Types
  <1>4. Unique' => vgShared' = {}
    BY DEF Release, Locks, Unique, Types
  <1>5. QED
    BY <1>1, <1>2, <1>3, <1>4 DEF Locks

LEMMA ReleaseTypes ==
  ASSUME Types, NEW t \in Threads, Release(t),
         lvs' \in [Volumes -> Attrs \cup {None}], cache' \in [Volumes -> Attrs \cup {None}]
  PROVE  Types'
  BY DEF Types, Release

(* A thread that is not between lvchange and set_attrs just releases.      *)
LEMMA ReleaseIInv ==
  ASSUME Apart, IInv, NEW t \in Threads, Release(t), UNCHANGED <<lvs, cache>>,
         thread[t].pc # "attrs"
  PROVE  IInv'
  <1>0. Types /\ Locks /\ Behind
    BY DEF IInv
  <1>1. Locks'
    BY <1>0, ReleaseLocks
  <1>2. Types'
    BY <1>0, ReleaseTypes DEF Types
  <1>3. ASSUME NEW v \in Volumes PROVE BehindAt(v)'
    BY <1>0, <1>3, BehindKept DEF Release, Types, Apart
  <1>4. \A u \in vgShared' : cache'[thread'[u].lv] # None
    BY <1>0 DEF Release, Behind, Types
  <1>5. QED
    BY <1>1, <1>2, <1>3, <1>4 DEF IInv, Behind

LEMMA ReturnIInv ==
  ASSUME Apart, IInv, NEW t \in Threads, Return(t), UNCHANGED <<lvs, cache>>,
         thread[t].pc # "attrs"
  PROVE  IInv'
  BY ReleaseIInv, ReturnReleases DEF IInv

(* What the other threads have, a step of thread t leaves to them.         *)
Moved(t, p) ==
    /\ thread' \in [Threads -> Work] /\ thread'[t].pc = p
    /\ thread'[t].op # "none" => thread'[t].lv \in Volumes
    /\ \A u \in Threads \ {t} : thread'[u] = thread[u]

LEMMA GotoMoved ==
  ASSUME Types, NEW t \in Threads, NEW p \in Pcs, Goto(t, p)
  PROVE  /\ Moved(t, p) /\ thread'[t].op = thread[t].op /\ thread'[t].lv = thread[t].lv
         /\ thread'[t].ro = thread[t].ro
  BY GotoWork DEF Moved, Types

(* Steps between two pcs at which the thread has the same locks.           *)
LEMMA MovedIInv ==
  ASSUME Apart, IInv, NEW t \in Threads, NEW p \in Pcs, Moved(t, p),
         UNCHANGED <<lvs, cache, lvLock, vgShared, vgUpgrade>>,
         thread[t].pc \notin {"command", "attrs"}, p \notin {"command", "attrs"},
         thread[t].pc \in Shared <=> p \in Shared,
         p \in Shared => thread'[t].op = thread[t].op /\ thread'[t].lv = thread[t].lv,
         thread[t].pc \in {"lvs", "wait", "unique"} <=> p \in {"lvs", "wait", "unique"},
         p = "unique" => vgShared = {}
  PROVE  IInv'
  <1>0. Types /\ Locks /\ Behind
    BY DEF IInv
  <1>1. Types'
    BY <1>0 DEF Types, Moved
  <1>2. Locks'
    <2>1. \A u \in Threads :
             /\ u \in vgShared <=> thread'[u].pc \in Shared
             /\ thread'[u].pc \in Shared => thread'[u].op \in Changing
             /\ vgUpgrade = u <=> thread'[u].pc \in {"lvs", "wait", "unique"}
             /\ thread'[u].pc \in {"command", "attrs"} => lvLock[thread'[u].lv] = u
      BY <1>0 DEF Locks, Moved
    <2>2. \A v \in Volumes : lvLock[v] # None =>
             thread'[lvLock[v]].pc \in {"command", "attrs"} /\ thread'[lvLock[v]].lv = v
      BY <1>0 DEF Locks, Types, Moved
    <2>3. Unique' => vgShared = {}
      BY <1>0 DEF Locks, Unique, Types, Moved
    <2>4. QED
      BY <2>1, <2>2, <2>3 DEF Locks
  <1>3. ASSUME NEW v \in Volumes PROVE BehindAt(v)'
    BY <1>0, <1>3, BehindKept DEF Moved, Types
  <1>4. \A u \in vgShared : cache[thread'[u].lv] # None
    BY <1>0 DEF Moved, Behind, Types, Locks
  <1>5. QED
    BY <1>1, <1>2, <1>3, <1>4 DEF IInv, Behind

LEMMA BeginIInv == ASSUME Apart, IInv, NEW t \in Threads, Begin(t) PROVE IInv'
  <1>1. PICK op \in Changing \cup Exclusive, v \in Volumes, ro \in BOOLEAN :
          thread' = [thread EXCEPT ![t] = [op |-> op, lv |-> v, ro |-> ro,
                        pc |-> IF op \in {"mount", "umount"} THEN "mutex" ELSE "vg"]]
    BY DEF Begin
  <1>2. [op |-> op, lv |-> v, ro |-> ro,
         pc |-> IF op \in {"mount", "umount"} THEN "mutex" ELSE "vg"] \in Work
    BY DEF Work, Ops, Pcs
  <1>3. \E p \in {"mutex", "vg"} : Moved(t, p)
    BY <1>1, <1>2 DEF IInv, Types, Moved
  <1>4. thread[t] = Resting /\ UNCHANGED <<lvs, cache, lvLock, vgShared, vgUpgrade>>
    BY DEF Begin, locks
  <1>5. QED
    BY <1>3, <1>4, RestingWork, MovedIInv DEF Pcs, Shared

LEMMA MutexIInv == ASSUME Apart, IInv, NEW t \in Threads, MountMutex(t) PROVE IInv'
  <1>1. UNCHANGED <<lvs, cache>> /\ thread[t].pc = "mutex"
    BY DEF MountMutex, At
  <1>2. CASE Return(t)
    BY <1>1, <1>2, ReturnIInv
  <1>3. CASE Goto(t, "vg") /\ UNCHANGED <<vgShared, vgUpgrade, lvLock>>
    <2>1. Moved(t, "vg")
      BY <1>3, GotoMoved DEF IInv, Pcs
    <2>2. QED
      BY <1>1, <1>3, <2>1, MovedIInv DEF Pcs, Shared
  <1>4. QED
    BY <1>2, <1>3 DEF MountMutex

LEMMA CheckIInv == ASSUME Apart, IInv, NEW t \in Threads, Check(t) PROVE IInv'
  <1>1. UNCHANGED <<lvs, cache>> /\ thread[t].pc = "check"
    BY DEF Check, At
  <1>2. CASE Cached(t)
    BY <1>1, <1>2, CachedReleases, ReleaseIInv DEF Shared, IInv
  <1>3. CASE Goto(t, "lv") /\ UNCHANGED locks
    <2>1. Moved(t, "lv") /\ thread'[t].op = thread[t].op /\ thread'[t].lv = thread[t].lv
      BY <1>3, GotoMoved DEF IInv, Pcs
    <2>2. QED
      BY <1>1, <1>3, <2>1, MovedIInv DEF Pcs, Shared, locks
  <1>4. QED
    BY <1>2, <1>3 DEF Check

LEMMA ToUniqueIInv == ASSUME Apart, IInv, NEW t \in Threads, ToUnique(t) PROVE IInv'
  <1>1. Moved(t, "unique")
    BY GotoMoved DEF ToUnique, IInv, Pcs
  <1>2. QED
    BY <1>1, MovedIInv DEF ToUnique, At, Pcs, Shared, locks

LEMMA LookUpIInv == ASSUME Apart, IInv, NEW t \in Threads, LookUp(t) PROVE IInv'
  <1>0. Types /\ Locks /\ Behind
    BY DEF IInv
  <1>1. /\ UNCHANGED <<lvs, cache>> /\ thread[t].pc = "vg" /\ ~Unique
        /\ thread[t].op \in Changing
    BY DEF LookUp, At
  <1>2. CASE Return(t)
    BY <1>1, <1>2, ReturnIInv
  <1>3. CASE /\ cache[thread[t].lv] # None /\ vgShared' = vgShared \cup {t}
             /\ Goto(t, "check") /\ UNCHANGED <<vgUpgrade, lvLock>>
    <2>1. Moved(t, "check") /\ thread'[t].op = thread[t].op /\ thread'[t].lv = thread[t].lv
      BY <1>0, <1>3, GotoMoved DEF Pcs
    <2>2. Types'
      BY <1>0, <1>1, <1>3, <2>1 DEF Types, Moved
    <2>3. Locks'
      <3>1. \A u \in Threads :
               /\ u \in vgShared' <=> thread'[u].pc \in Shared
               /\ thread'[u].pc \in Shared => thread'[u].op \in Changing
               /\ vgUpgrade = u <=> thread'[u].pc \in {"lvs", "wait", "unique"}
               /\ thread'[u].pc \in {"command", "attrs"} => lvLock[thread'[u].lv] = u
        BY <1>0, <1>1, <1>3, <2>1 DEF Locks, Shared, Moved
      <3>2. \A w \in Volumes : lvLock[w] # None =>
               thread'[lvLock[w]].pc \in {"command", "attrs"} /\ thread'[lvLock[w]].lv = w
        BY <1>0, <1>1, <2>1 DEF Locks, Types, Moved
      <3>3. ~Unique'
        BY <1>0, <1>1, <1>3, <2>1 DEF Unique, Types, Moved
      <3>4. QED
        BY <1>3, <3>1, <3>2, <3>3 DEF Locks
    <2>4. ASSUME NEW w \in Volumes PROVE BehindAt(w)'
      BY <1>0, <1>1, <1>3, <2>1, <2>4, BehindKept DEF Moved, Types
    <2>5. \A u \in vgShared' : cache[thread'[u].lv] # None
      BY <1>0, <1>3, <2>1 DEF Behind, Types, Moved
    <2>6. QED
      BY <1>1, <2>2, <2>3, <2>4, <2>5 DEF IInv, Behind
  <1>4. QED
    BY <1>2, <1>3 DEF LookUp

LEMMA LockVolumeIInv == ASSUME Apart, IInv, NEW t \in Threads, LockVolume(t) PROVE IInv'
  <1>0. Types /\ Locks /\ Behind
    BY DEF IInv
  <1> DEFINE v == thread[t].lv
  <1>1. /\ UNCHANGED <<lvs, cache, vgShared, vgUpgrade>> /\ thread[t].pc = "lv"
        /\ thread[t].op \in Changing /\ lvLock[v] = None /\ lvLock' = [lvLock EXCEPT ![v] = t]
    BY DEF LockVolume, At
  <1>2. v \in Volumes
    BY <1>0, <1>1 DEF Types, Changing
  <1>3. Moved(t, "command") /\ thread'[t].op = thread[t].op /\ thread'[t].lv = v
    BY <1>0, GotoMoved DEF LockVolume, Pcs
  <1>4. /\ lvLock' \in [Volumes -> Threads \cup {None}] /\ lvLock'[v] = t
        /\ \A w \in Volumes \ {v} : lvLock'[w] = lvLock[w]
    BY <1>0, <1>1, <1>2 DEF Types
  <1> HIDE DEF v
  <1>5. Types'
    BY <1>0, <1>1, <1>3, <1>4 DEF Types, Moved
  <1>6. Locks'
    <2>1. \A u \in Threads :
             /\ u \in vgShared <=> thread'[u].pc \in Shared
             /\ thread'[u].pc \in Shared => thread'[u].op \in Changing
             /\ vgUpgrade = u <=> thread'[u].pc \in {"lvs", "wait", "unique"}
      BY <1>0, <1>1, <1>3 DEF Locks, Shared, Moved
    <2>2. ASSUME NEW u \in Threads \ {t}, thread[u].pc \in {"command", "attrs"}
          PROVE  lvLock'[thread[u].lv] = u
      <3>1. thread[u].lv \in Volumes /\ lvLock[thread[u].lv] = u
        BY <1>0, <2>2 DEF Locks, Types, Shared, Changing
      <3>2. thread[u].lv # v
        BY <1>1, <3>1 DEF Apart, v
      <3>3. QED
        BY <1>4, <3>1, <3>2
    <2>3. \A u \in Threads : thread'[u].pc \in {"command", "attrs"} => lvLock'[thread'[u].lv] = u
      BY <1>3, <1>4, <2>2 DEF Moved
    <2>4. \A w \in Volumes : lvLock'[w] # None =>
             thread'[lvLock'[w]].pc \in {"command", "attrs"} /\ thread'[lvLock'[w]].lv = w
      <3>1. ASSUME NEW w \in Volumes \ {v}, lvLock[w] # None PROVE lvLock[w] \in Threads \ {t}
        BY <1>0, <1>1, <3>1 DEF Locks, Types
      <3>2. QED
        BY <1>0, <1>3, <1>4, <3>1 DEF Locks, Moved
    <2>5. Unique' => vgShared = {}
      BY <1>0, <1>1, <1>3 DEF Locks, Unique, Types, Moved
    <2>6. QED
      BY <1>1, <2>1, <2>3, <2>4, <2>5 DEF Locks
  <1>7. ASSUME NEW w \in Volumes PROVE BehindAt(w)'
    <2>1. /\ lvLock[w] \in Threads \ {t} => lvLock'[w] = lvLock[w]
          /\ lvLock[w] \notin Threads \ {t} => lvLock'[w] \in {t, None}
      BY <1>0, <1>1, <1>4 DEF Types, Apart, v
    <2>2. QED
      BY <1>0, <1>1, <1>3, <1>7, <2>1, BehindKept DEF Moved
  <1>8. \A u \in vgShared : cache[thread'[u].lv] # None
    BY <1>0, <1>3 DEF Behind, Types, Moved, v
  <1>9. QED
    BY <1>1, <1>5, <1>6, <1>7, <1>8 DEF IInv, Behind

LEMMA FailsIInv ==
  ASSUME Apart, IInv, NEW t \in Threads, CommandFails(t), thread[t].pc # "attrs"
  PROVE  IInv'
  BY ReturnIInv DEF CommandFails

LEMMA ChangeIInv == ASSUME Apart, IInv, NEW t \in Threads, Change(t) PROVE IInv'
  <1>0. Types /\ Locks /\ Behind
    BY DEF IInv
  <1> DEFINE v == thread[t].lv
  <1>1. thread[t].pc = "command" /\ thread[t].op \in Changing
    BY DEF Change, At
  <1>2. CASE CommandFails(t)
    BY <1>1, <1>2, FailsIInv
  <1>3. CASE /\ lvs' = [lvs EXCEPT ![v] = Wanted(t, lvs[v])] /\ Goto(t, "attrs")
             /\ UNCHANGED <<cache, vgShared, vgUpgrade, lvLock>>
    <2>1. v \in Volumes /\ lvLock[v] = t /\ t \in vgShared
      BY <1>0, <1>1 DEF Types, Locks, Shared, Changing
    <2>2. /\ Moved(t, "attrs") /\ thread'[t].op = thread[t].op /\ thread'[t].lv = v
          /\ thread'[t].ro = thread[t].ro
      BY <1>0, <1>3, GotoMoved DEF Pcs
    <2>3. cache[v] \in Attrs /\ lvs[v] = cache[v]
      BY <1>0, <1>1, <2>1 DEF Behind, BehindAt, Changed, Types
    <2>4. /\ Wanted(t, cache[v]) \in Attrs
          /\ lvs' \in [Volumes -> Attrs \cup {None}] /\ lvs'[v] = Wanted(t, cache[v])
          /\ \A w \in Volumes \ {v} : lvs'[w] = lvs[w]
      BY <1>0, <1>1, <1>3, <2>1, <2>3, WantedAttrs DEF Types
    <2> HIDE DEF v
    <2>5. Types'
      BY <1>0, <1>3, <2>2, <2>4 DEF Types, Moved
    <2>6. Locks'
      <3>1. \A u \in Threads :
               /\ u \in vgShared <=> thread'[u].pc \in Shared
               /\ thread'[u].pc \in Shared => thread'[u].op \in Changing
               /\ vgUpgrade = u <=> thread'[u].pc \in {"lvs", "wait", "unique"}
               /\ thread'[u].pc \in {"command", "attrs"} => lvLock[thread'[u].lv] = u
        BY <1>0, <1>1, <2>1, <2>2 DEF Locks, Shared, Moved
      <3>2. \A w \in Volumes : lvLock[w] # None =>
               thread'[lvLock[w]].pc \in {"command", "attrs"} /\ thread'[lvLock[w]].lv = w
        BY <1>0, <2>2 DEF Locks, Types, Moved, v
      <3>3. Unique' => vgShared = {}
        BY <1>0, <1>3, <2>2 DEF Locks, Unique, Types, Moved
      <3>4. QED
        BY <1>3, <3>1, <3>2, <3>3 DEF Locks
    <2>7. ASSUME NEW w \in Volumes PROVE BehindAt(w)'
      <3>1. CASE w = v
        <4>1. Changed(w)'
          BY <1>3, <2>1, <2>2, <3>1 DEF Changed, Moved, Apart
        <4>2. Wanted(lvLock[w], cache[w])' = Wanted(t, cache[v])
          BY <1>3, <2>1, <2>2, <3>1 DEF Wanted
        <4>3. QED
          BY <1>3, <2>3, <2>4, <3>1, <4>1, <4>2 DEF BehindAt
      <3>2. CASE w # v
        <4>1. lvLock[w] # t
          BY <1>0, <3>2 DEF Locks, v, Apart
        <4>2. QED
          BY <1>0, <1>3, <2>2, <2>4, <3>2, <4>1, BehindKept DEF Moved, Types
      <3>3. QED
        BY <3>1, <3>2
    <2>8. \A u \in vgShared : cache[thread'[u].lv] # None
      BY <1>0, <2>2 DEF Behind, Types, Moved, v
    <2>9. QED
      BY <1>3, <2>5, <2>6, <2>7, <2>8 DEF IInv, Behind
  <1>4. QED
    BY <1>2, <1>3 DEF Change, locks

LEMMA SetAttrsIInv == ASSUME Apart, IInv, NEW t \in Threads, SetAttrs(t) PROVE IInv'
  <1>0. Types /\ Locks /\ Behind
    BY DEF IInv
  <1> DEFINE v == thread[t].lv
  <1>1. /\ thread[t].pc = "attrs" /\ thread[t].op \in Changing /\ lvs' = lvs
        /\ cache' = [cache EXCEPT ![v] = Wanted(t, cache[v])]
    BY DEF SetAttrs, At
  <1>2. v \in Volumes /\ lvLock[v] = t
    BY <1>0, <1>1 DEF Types, Locks, Changing
  <1>3. Release(t)
    BY <1>0, <1>1, CachedReleases DEF SetAttrs, Shared
  <1>4. cache[v] \in Attrs /\ lvs[v] = Wanted(t, cache[v])
    BY <1>0, <1>1, <1>2 DEF Behind, BehindAt, Changed, Apart
  <1>5. /\ Wanted(t, cache[v]) \in Attrs
        /\ cache' \in [Volumes -> Attrs \cup {None}] /\ cache'[v] = lvs[v]
        /\ \A w \in Volumes \ {v} : cache'[w] = cache[w]
    BY <1>0, <1>1, <1>2, <1>4, WantedAttrs DEF Types
  <1> HIDE DEF v
  <1>6. Types' /\ Locks'
    BY <1>0, <1>1, <1>3, <1>5, ReleaseTypes, ReleaseLocks DEF Types
  <1>7. ASSUME NEW w \in Volumes PROVE BehindAt(w)'
    <2>1. CASE w = v
      <3>1. ~Changed(w)'
        BY <1>2, <1>3, <2>1 DEF Changed, Release
      <3>2. QED
        BY <1>1, <1>5, <2>1, <3>1 DEF BehindAt
    <2>2. CASE w # v
      <3>1. lvLock[w] # t
        BY <1>0, <2>2 DEF Locks, v, Apart
      <3>2. QED
        BY <1>0, <1>1, <1>3, <1>5, <2>2, <3>1, BehindKept DEF Release, Types
    <2>3. QED
      BY <2>1, <2>2
  <1>8. \A u \in vgShared' : cache'[thread'[u].lv] # None
    <2>1. ASSUME NEW u \in vgShared' PROVE cache'[thread[u].lv] # None
      <3>1. u \in vgShared /\ thread[u].lv \in Volumes /\ cache[thread[u].lv] # None
        BY <1>0, <1>3, <2>1 DEF Release, Behind, Locks, Types, Changing
      <3>2. cache'[v] # None
        BY <1>4, <1>5 DEF Apart
      <3>3. QED
        BY <1>5, <3>1, <3>2
    <2>2. QED
      BY <1>0, <1>3, <2>1 DEF Release, Types
  <1>9. QED
    BY <1>6, <1>7, <1>8 DEF IInv, Behind

LEMMA UpgradeIInv == ASSUME Apart, IInv, NEW t \in Threads, Upgrade(t) PROVE IInv'
  <1>0. Types /\ Locks /\ Behind
    BY DEF IInv
  <1>1. /\ UNCHANGED <<lvs, cache>> /\ thread[t].pc = "vg" /\ vgUpgrade = None
    BY DEF Upgrade, At
  <1>2. CASE Return(t)
    BY <1>1, <1>2, ReturnIInv
  <1>3. ASSUME NEW p \in {"lvs", "wait"}, vgUpgrade' = t, Goto(t, p), UNCHANGED <<vgShared, lvLock>>
        PROVE  IInv'
    <2>1. Moved(t, p)
      BY <1>0, <1>3, GotoMoved DEF Pcs
    <2>2. Types'
      BY <1>0, <1>1, <1>3, <2>1 DEF Types, Moved
    <2>3. Locks'
      <3>1. \A u \in Threads :
               /\ u \in vgShared <=> thread'[u].pc \in Shared
               /\ thread'[u].pc \in Shared => thread'[u].op \in Changing
               /\ vgUpgrade' = u <=> thread'[u].pc \in {"lvs", "wait", "unique"}
               /\ thread'[u].pc \in {"command", "attrs"} => lvLock[thread'[u].lv] = u
        BY <1>0, <1>1, <1>3, <2>1 DEF Locks, Shared, Moved, Apart
      <3>2. \A w \in Volumes : lvLock[w] # None =>
               thread'[lvLock[w]].pc \in {"command", "attrs"} /\ thread'[lvLock[w]].lv = w
        BY <1>0, <1>1, <2>1 DEF Locks, Types, Moved
      <3>3. ~Unique'
        BY <1>3, <2>1 DEF Unique, Moved
      <3>4. QED
        BY <1>3, <3>1, <3>2, <3>3 DEF Locks
    <2>4. ASSUME NEW w \in Volumes PROVE BehindAt(w)'
      BY <1>0, <1>1, <1>3, <2>1, <2>4, BehindKept DEF Moved, Types
    <2>5. \A u \in vgShared : cache[thread'[u].lv] # None
      BY <1>0, <1>1, <2>1 DEF Behind, Locks, Shared, Types, Moved
    <2>6. QED
      BY <1>1, <1>3, <2>2, <2>3, <2>4, <2>5 DEF IInv, Behind
  <1>4. QED
    BY <1>2, <1>3 DEF Upgrade

(* The unique lock: no call has a volume, so create and delete may change  *)
(* the volume and the cache together.                                      *)
LEMMA UniqueIInv ==
  ASSUME Apart, IInv, NEW t \in Threads, thread[t].pc = "unique", Return(t),
         NEW v \in Volumes, NEW a \in Attrs \cup {None},
         lvs' = [lvs EXCEPT ![v] = a], cache' = [cache EXCEPT ![v] = a]
  PROVE  IInv'
  <1>0. Types /\ Locks /\ Behind
    BY DEF IInv
  <1>1. Release(t)
    BY <1>0, ReturnReleases
  <1>2. vgUpgrade = t /\ vgShared = {}
    BY <1>0 DEF Locks, Unique, Apart
  <1>3. \A w \in Volumes : lvLock[w] = None
    BY <1>0, <1>2 DEF Locks, Types, Shared
  <1>4. /\ lvs' \in [Volumes -> Attrs \cup {None}] /\ cache' \in [Volumes -> Attrs \cup {None}]
        /\ \A w \in Volumes : cache[w] = lvs[w] => cache'[w] = lvs'[w]
    BY <1>0 DEF Types
  <1>5. Types' /\ Locks'
    BY <1>0, <1>1, <1>4, ReleaseTypes, ReleaseLocks
  <1>6. ASSUME NEW w \in Volumes PROVE BehindAt(w)'
    <2>1. ~Changed(w) /\ ~Changed(w)'
      BY <1>1, <1>3 DEF Changed, Release
    <2>2. QED
      BY <1>0, <1>4, <2>1 DEF Behind, BehindAt
  <1>7. vgShared' = {}
    BY <1>1, <1>2 DEF Release
  <1>8. QED
    BY <1>5, <1>6, <1>7 DEF IInv, Behind

LEMMA CreateIInv == ASSUME Apart, IInv, NEW t \in Threads, CreateSnapshot(t) PROVE IInv'
  <1>1. thread[t].pc = "unique" /\ thread[t].lv \in Volumes
    BY DEF CreateSnapshot, At, IInv, Types
  <1>2. CASE CommandFails(t)
    BY <1>1, <1>2, FailsIInv
  <1>3. [active |-> ~ SkipActivation, ro |-> thread[t].ro] \in Attrs
    <2>1. thread[t].ro \in BOOLEAN /\ (~ SkipActivation) \in BOOLEAN
      BY Zenon DEF IInv, Types, Work, Apart
    <2>2. QED
      BY <2>1, Zenon DEF Attrs
  <1>4. CASE ~CommandFails(t)
    BY <1>1, <1>3, <1>4, UniqueIInv DEF CreateSnapshot
  <1>5. QED
    BY <1>2, <1>4

LEMMA DeleteIInv == ASSUME Apart, IInv, NEW t \in Threads, DeleteSnapshot(t) PROVE IInv'
  <1>1. thread[t].pc = "unique" /\ thread[t].lv \in Volumes /\ Return(t)
    BY DEF DeleteSnapshot, At, IInv, Types
  <1>2. CASE UNCHANGED <<lvs, cache>>
    BY <1>1, <1>2, ReturnIInv
  <1>3. CASE /\ lvs' = [lvs EXCEPT ![thread[t].lv] = None]
             /\ cache' = [cache EXCEPT ![thread[t].lv] = None]
    BY <1>1, <1>3, UniqueIInv, Zenon
  <1>4. QED
    BY <1>2, <1>3 DEF DeleteSnapshot

LEMMA NextIInv == ASSUME Apart, IInv, [Next]_lvmVars PROVE IInv'
  <1>1. CASE UNCHANGED lvmVars
    <2>1. Types' /\ Locks'
      BY <1>1 DEF lvmVars, IInv, Types, Locks, Unique
    <2>2. ASSUME NEW v \in Volumes PROVE BehindAt(v)'
      <3>1. BehindAt(v)
        BY DEF IInv, Behind
      <3>2. QED
        BY <1>1, <3>1 DEF lvmVars, BehindAt, Changed, Wanted
    <2>3. QED
      BY <1>1, <2>1, <2>2 DEF lvmVars, IInv, Behind
  <1>2. ASSUME NEW t \in Threads, Mount(t) \/ Update(t) PROVE IInv'
    <2>1. thread[t].pc # "attrs"
      BY <1>2 DEF Mount, Update, At
    <2>2. QED
      BY <1>2, <2>1, ReturnIInv, FailsIInv DEF Mount, Update
  <1>3. QED
    BY <1>1, <1>2, BeginIInv, MutexIInv, LookUpIInv, CheckIInv, LockVolumeIInv, ChangeIInv,
       SetAttrsIInv, UpgradeIInv, ToUniqueIInv, CreateIInv, DeleteIInv
    DEF Next, Wait

(* LvmCache.cc: whatever the threads do at the same time, the cache is     *)
(* what LVM would answer for every volume that is not locked.              *)
THEOREM CacheAgreesAlways == ASSUME Apart PROVE Spec => []CacheAgrees
  <1>1. Init => IInv
    BY InitIInv
  <1>2. IInv /\ [Next]_lvmVars => IInv'
    BY NextIInv
  <1>3. IInv => CacheAgrees
    BY DEF IInv, Behind, BehindAt, Changed, CacheAgrees
  <1>4. QED
    BY <1>1, <1>2, <1>3, PTL DEF Spec

(* VolumeGroup::remove_lv: no volume goes away under a call that has       *)
(* looked it up, for any number of calls.                                  *)
THEOREM VolumeKeptAlways == ASSUME Apart PROVE Spec => []VolumeKept
  <1>1. Init => IInv
    BY InitIInv
  <1>2. IInv /\ [Next]_lvmVars => IInv'
    BY NextIInv
  <1>3. ASSUME IInv PROVE VolumeKept
    <2>1. ASSUME NEW t \in vgShared PROVE cache[thread[t].lv] # None /\ lvs[thread[t].lv] # None
      <3>1. t \in Threads /\ thread[t].lv \in Volumes /\ cache[thread[t].lv] # None
        BY <1>3, <2>1 DEF IInv, Types, Locks, Behind, Changing
      <3>2. CASE Changed(thread[t].lv)
        <4>1. PICK u \in Threads : lvLock[thread[t].lv] = u /\ thread[u].pc = "attrs"
          BY <1>3, <3>1, <3>2 DEF Changed, IInv, Types
        <4>2. thread[u].op \in Changing
          BY <1>3, <4>1 DEF IInv, Locks, Shared
        <4>3. /\ cache[thread[t].lv] \in Attrs
              /\ lvs[thread[t].lv] = Wanted(u, cache[thread[t].lv])
          BY <1>3, <3>1, <3>2, <4>1 DEF IInv, Behind, BehindAt
        <4>4. QED
          BY <1>3, <3>1, <4>2, <4>3, WantedAttrs DEF IInv, Apart
      <3>3. CASE ~Changed(thread[t].lv)
        BY <1>3, <3>1, <3>3 DEF IInv, Behind, BehindAt
      <3>4. QED
        BY <3>1, <3>2, <3>3
    <2>2. QED
      BY <2>1 DEF VolumeKept
  <1>4. QED
    BY <1>1, <1>2, <1>3, PTL DEF Spec

=============================================================================
