------------------------------ MODULE Snapperd ------------------------------
(***************************************************************************)
(* The snapper daemon (server/): clients and their method call threads,    *)
(* the MetaSnapper list with lazily loaded and reference counted Snapper   *)
(* objects, config locks, comparisons, snapshot mounts, the background     *)
(* comparison thread, and the main loop that reaps zombies, unloads unused *)
(* Snappers and exits when idle.                                           *)
(*                                                                         *)
(* A handler holds big_mutex for its whole run, so it is one action; the   *)
(* three that unlock in the middle are a begin and an end action.  The     *)
(* arguments of a queued call are chosen when the call is dispatched.      *)
(***************************************************************************)
EXTENDS Integers, FiniteSets, Sequences

CONSTANTS
    Client,         \* the D-Bus clients (reused once the daemon forgot them)
    Root,           \* those whose uid is 0
    Config,         \* config names
    Num,            \* snapshot numbers; the current system (0) is left out
    Slot,           \* list nodes a client can keep comparisons in
    MaxCalls,       \* bound: queued method calls of a client
    MaxLocks,       \* bound: locks of a client on a config
    MaxMounts,      \* bound: mounts of a client of a snapshot
    MaxTasks,       \* bound: queued background comparisons
    ComparisonMayFail  \* whether a background comparison may throw

ASSUME ClientAssumption == IsFiniteSet(Client) /\ Root \subseteq Client
ASSUME FiniteAssumption == IsFiniteSet(Config) /\ IsFiniteSet(Num) /\ IsFiniteSet(Slot)
ASSUME BoundAssumption ==
    /\ MaxCalls \in Nat /\ MaxLocks \in Nat /\ MaxMounts \in Nat /\ MaxTasks \in Nat
    /\ ComparisonMayFail \in BOOLEAN

VARIABLES
    daemon,       \* "running", "exited" (idle) or "aborted" (std::terminate)
    armed,        \* MainLoop::idle_timeout is idle_time, not -1
    idleElapsed,  \* idle_for() has reached idle_time
    metaSnappers, \* configs with an entry in meta_snappers
    snapper,      \* configs whose MetaSnapper has a Snapper loaded
    counter,      \* RefCounter::counter of each MetaSnapper
    unused,       \* configs with unused_for() > snapper_cleanup_time
    allowed,      \* clients in allowed_uids or allowed_gids of a config
    infos,        \* snapshots of a config on disk
    entries,      \* Snapshots::entries of a loaded Snapper
    status,       \* "none", "live" or "zombie"
    calls,        \* length of method_call_tasks
    thread,       \* method_call_thread: "run" or "done"
    works,        \* handlers that run unlocked, each with its RefHolder
    locks,        \* Client::locks
    mounts,       \* Client::mounts
    comparisons,  \* Client::comparisons of all clients
    tasks,        \* Backgrounds::tasks
    worker        \* Backgrounds::worker: "wait", "compare" or "release"

loopVars   == <<daemon, armed, idleElapsed>>
configVars == <<metaSnappers, allowed, infos>>
cacheVars  == <<snapper, entries, unused>>
clientVars == <<status, thread>>
heldVars   == <<works, locks, mounts, comparisons>>
taskVars   == <<tasks, worker>>
vars == <<loopVars, configVars, cacheVars, counter, clientVars, calls, heldVars, taskVars>>

Work       == [client : Client, op : {"comparison", "query"}, config : Config, nums : SUBSET Num]
Comparison == [client : Client, config : Config, num : Num, slot : Slot]
Task       == [config : Config, pre : Num, post : Num]

(* The C++ types, and the assertion of RefCounter::dec_use_count that the  *)
(* counter never drops below zero.                                         *)
TypeOK ==
    /\ daemon \in {"running", "exited", "aborted"}
    /\ armed \in BOOLEAN /\ idleElapsed \in BOOLEAN
    /\ metaSnappers \in SUBSET Config
    /\ snapper \in SUBSET metaSnappers
    /\ counter \in [Config -> Nat]
    /\ unused \in SUBSET Config
    /\ allowed \in [Config -> SUBSET Client]
    /\ infos \in [Config -> SUBSET Num]
    /\ entries \in [Config -> SUBSET Num]
    /\ status \in [Client -> {"none", "live", "zombie"}]
    /\ calls \in [Client -> Nat]
    /\ thread \in [Client -> {"run", "done"}]
    /\ works \in SUBSET Work
    /\ locks \in [Client -> [Config -> Nat]]
    /\ mounts \in [Client -> [Config -> [Num -> Nat]]]
    /\ comparisons \in SUBSET Comparison
    /\ tasks \in Seq(Task)
    /\ worker \in {"wait", "compare", "release"}

(* main: the configs are read, nothing is loaded, the idle timeout is set. *)
Init ==
    /\ daemon = "running" /\ armed = TRUE /\ idleElapsed = FALSE
    /\ metaSnappers \in SUBSET Config
    /\ allowed \in [Config -> {{}, Client}]
    /\ infos \in [Config -> {{}, Num}]
    /\ \A c \in Config \ metaSnappers : allowed[c] = {} /\ infos[c] = {}
    /\ snapper = {} /\ unused = {}
    /\ entries = [c \in Config |-> {}]
    /\ counter = [c \in Config |-> 0]
    /\ status = [cl \in Client |-> "none"]
    /\ calls = [cl \in Client |-> 0]
    /\ thread = [cl \in Client |-> "run"]
    /\ works = {}
    /\ locks = [cl \in Client |-> [c \in Config |-> 0]]
    /\ mounts = [cl \in Client |-> [c \in Config |-> [n \in Num |-> 0]]]
    /\ comparisons = {}
    /\ tasks = <<>> /\ worker = "wait"

-----------------------------------------------------------------------------
(* Helpers of the handlers.                                                *)

Busy(cl) == \E w \in works : w.client = cl

(* method_call_worker takes the next call of cl off the queue.             *)
Take(cl) ==
    /\ daemon = "running"
    /\ status[cl] # "none" /\ thread[cl] = "run" /\ ~Busy(cl)
    /\ calls[cl] > 0
    /\ calls' = [calls EXCEPT ![cl] = @ - 1]

Known(c) == c \in metaSnappers

IsRoot(cl) == cl \in Root

Permitted(cl, c) == Known(c) /\ (IsRoot(cl) \/ cl \in allowed[c])

(* Mutant: the client's own locks are looked at.                           *)
NotLockedBySelf(cl, c) == locks[cl][c] = 0

(* check_lock                                                              *)
NotLocked(cl, c) ==
    \A other \in Client \ {cl} : status[other] = "live" => locks[other][c] = 0

NotInUse(c) == counter[c] = 0

NotMounted(c, n) == \A cl \in Client : mounts[cl][c][n] = 0

(* The snapshots of config c after getSnapper: a Snapper that is not       *)
(* loaded reads them from disk.                                            *)
Loaded(c) == IF c \in snapper THEN entries[c] ELSE infos[c]

(* getSnapper: load on demand and update_use_time.                         *)
GetSnapper(c) ==
    /\ snapper' = snapper \cup {c}
    /\ entries' = [entries EXCEPT ![c] = Loaded(c)]
    /\ unused' = unused \ {c}

(* A handler that looks at the Snapper, and at most changes data of a      *)
(* snapshot or of the filesystem.                                          *)
WithSnapper(cl, c) ==
    /\ Take(cl)
    /\ Permitted(cl, c)
    /\ GetSnapper(c)
    /\ UNCHANGED <<loopVars, configVars, counter, clientVars, heldVars, taskVars>>

(* A handler that leaves the modelled state alone.                         *)
Passive(cl) ==
    /\ Take(cl)
    /\ UNCHANGED <<loopVars, configVars, cacheVars, counter, clientVars, heldVars, taskVars>>

-----------------------------------------------------------------------------
(* The method calls of server/Client.cc.                                   *)

(* dispatch: unknown method, or an exception before anything has changed   *)
(* (unknown config, no permissions, lock, config in use, ...).             *)
ErrorReply(cl) == Passive(cl)

ListConfigs(cl) == Passive(cl)

GetConfig(cl, c) == Permitted(cl, c) /\ Passive(cl)

SetConfig(cl, c, users) ==
    /\ Take(cl)
    /\ Known(c) /\ IsRoot(cl)
    /\ GetSnapper(c)
    /\ allowed' = [allowed EXCEPT ![c] = users]
    /\ UNCHANGED <<loopVars, metaSnappers, infos, counter, clientVars, heldVars, taskVars>>

CreateConfig(cl, c) ==
    /\ Take(cl)
    /\ IsRoot(cl) /\ ~Known(c)
    /\ metaSnappers' = metaSnappers \cup {c}
    /\ UNCHANGED <<loopVars, allowed, infos, cacheVars, counter, clientVars, heldVars, taskVars>>

(* What delete_config checks before it deletes.                            *)
MayDeleteConfig(cl, c) == Known(c) /\ IsRoot(cl) /\ NotLocked(cl, c) /\ NotInUse(c)

(* Mutant: the loaded Snapper stays.                                       *)
DeleteConfigKeepsSnapper(cl, c) ==
    /\ Take(cl)
    /\ MayDeleteConfig(cl, c)
    /\ metaSnappers' = metaSnappers \ {c}
    /\ allowed' = [allowed EXCEPT ![c] = {}]
    /\ infos' = [infos EXCEPT ![c] = {}]
    /\ UNCHANGED <<loopVars, cacheVars, counter, clientVars, heldVars, taskVars>>

(* The MetaSnapper is destroyed, and with it the loaded Snapper.           *)
DeleteConfig(cl, c) ==
    /\ Take(cl)
    /\ MayDeleteConfig(cl, c)
    /\ metaSnappers' = metaSnappers \ {c}
    /\ allowed' = [allowed EXCEPT ![c] = {}]
    /\ infos' = [infos EXCEPT ![c] = {}]
    /\ snapper' = snapper \ {c}
    /\ entries' = [entries EXCEPT ![c] = {}]
    /\ unused' = unused \ {c}
    /\ UNCHANGED <<loopVars, counter, clientVars, heldVars, taskVars>>

(* Snapper::deleteConfig works with a Snapper of its own: when it fails    *)
(* half way the loaded Snapper does not notice the deleted snapshots.      *)
DeleteConfigFails(cl, c, nums) ==
    /\ Take(cl)
    /\ MayDeleteConfig(cl, c)
    /\ infos' = [infos EXCEPT ![c] = @ \ nums]
    /\ UNCHANGED <<loopVars, metaSnappers, allowed, cacheVars, counter, clientVars, heldVars,
                   taskVars>>

LockConfig(cl, c) ==
    /\ Take(cl)
    /\ Permitted(cl, c)
    /\ locks[cl][c] < MaxLocks
    /\ locks' = [locks EXCEPT ![cl][c] = @ + 1]
    /\ UNCHANGED <<loopVars, configVars, cacheVars, counter, clientVars, works, mounts,
                   comparisons, taskVars>>

(* remove_lock does nothing when the client has no lock.                   *)
UnlockConfig(cl, c) ==
    /\ Take(cl)
    /\ Permitted(cl, c)
    /\ locks' = [locks EXCEPT ![cl][c] = IF @ > 0 THEN @ - 1 ELSE @]
    /\ UNCHANGED <<loopVars, configVars, cacheVars, counter, clientVars, works, mounts,
                   comparisons, taskVars>>

ListSnapshots(cl, c) == WithSnapper(cl, c)

ListSnapshotsAtTime(cl, c) == WithSnapper(cl, c)

GetSnapshot(cl, c) == WithSnapper(cl, c)

SetSnapshot(cl, c) == WithSnapper(cl, c)

(* The number of a new snapshot is neither in memory nor on disk.          *)
AddSnapshot(cl, c, n) ==
    /\ Take(cl)
    /\ Permitted(cl, c)
    /\ n \notin Loaded(c) \cup infos[c]
    /\ snapper' = snapper \cup {c}
    /\ entries' = [entries EXCEPT ![c] = Loaded(c) \cup {n}]
    /\ infos' = [infos EXCEPT ![c] = @ \cup {n}]
    /\ unused' = unused \ {c}
    /\ UNCHANGED <<loopVars, metaSnappers, allowed, clientVars, heldVars>>

CreateSingleSnapshot(cl, c, n) == AddSnapshot(cl, c, n) /\ UNCHANGED <<counter, taskVars>>

CreateSingleSnapshotV2(cl, c, parent, n) ==
    /\ parent \in Loaded(c)
    /\ AddSnapshot(cl, c, n) /\ UNCHANGED <<counter, taskVars>>

CreateSingleSnapshotOfDefault(cl, c, n) ==
    AddSnapshot(cl, c, n) /\ UNCHANGED <<counter, taskVars>>

CreatePreSnapshot(cl, c, n) == AddSnapshot(cl, c, n) /\ UNCHANGED <<counter, taskVars>>

(* Backgrounds::add_task: the queued task holds a reference.               *)
AddTask(c, pre, post) ==
    /\ Len(tasks) < MaxTasks
    /\ tasks' = Append(tasks, [config |-> c, pre |-> pre, post |-> post])
    /\ counter' = [counter EXCEPT ![c] = @ + 1]
    /\ UNCHANGED worker

(* The comparison with the pre snapshot is queued unless a snapshot is     *)
(* writable or BACKGROUND_COMPARISON is off.                               *)
CreatePostSnapshot(cl, c, pre, n) ==
    /\ pre \in Loaded(c)
    /\ AddSnapshot(cl, c, n)
    /\ \/ AddTask(c, pre, n)
       \/ UNCHANGED <<counter, taskVars>>

(* Mutant: the use count is not looked at.                                 *)
DeleteSnapshotsInUse(cl, c, nums) ==
    /\ Take(cl)
    /\ Permitted(cl, c) /\ NotLocked(cl, c)
    /\ nums \subseteq Loaded(c) \cap infos[c]
    /\ \A n \in nums : NotMounted(c, n)
    /\ snapper' = snapper \cup {c}
    /\ entries' = [entries EXCEPT ![c] = Loaded(c) \ nums]
    /\ infos' = [infos EXCEPT ![c] = @ \ nums]
    /\ unused' = unused \ {c}
    /\ UNCHANGED <<loopVars, metaSnappers, allowed, counter, clientVars, heldVars, taskVars>>

(* The numbers are deleted one by one, up to the first that is mounted,    *)
(* unknown or cannot be deleted: nums is what has been deleted by then.    *)
DeleteSnapshots(cl, c, nums) ==
    /\ Take(cl)
    /\ Permitted(cl, c) /\ NotLocked(cl, c) /\ NotInUse(c)
    /\ nums \subseteq Loaded(c) \cap infos[c]
    /\ \A n \in nums : NotMounted(c, n)
    /\ snapper' = snapper \cup {c}
    /\ entries' = [entries EXCEPT ![c] = Loaded(c) \ nums]
    /\ infos' = [infos EXCEPT ![c] = @ \ nums]
    /\ unused' = unused \ {c}
    /\ UNCHANGED <<loopVars, metaSnappers, allowed, counter, clientVars, heldVars, taskVars>>

IsSnapshotReadOnly(cl, c) == WithSnapper(cl, c)

SetSnapshotReadOnly(cl, c) == WithSnapper(cl, c)

GetDefaultSnapshot(cl, c) == WithSnapper(cl, c)

GetActiveSnapshot(cl, c) == WithSnapper(cl, c)

GetUsedSpace(cl, c) == WithSnapper(cl, c)

(* A mount on behalf of the user (user_request) is not recorded.           *)
MountSnapshotForUser(cl, c) == WithSnapper(cl, c)

MountSnapshot(cl, c, n) ==
    /\ Take(cl)
    /\ Permitted(cl, c)
    /\ n \in Loaded(c)
    /\ mounts[cl][c][n] < MaxMounts
    /\ GetSnapper(c)
    /\ mounts' = [mounts EXCEPT ![cl][c][n] = @ + 1]
    /\ UNCHANGED <<loopVars, configVars, counter, clientVars, works, locks, comparisons, taskVars>>

UmountSnapshotForUser(cl, c) == WithSnapper(cl, c)

(* remove_mount does nothing when the client has no mount.                 *)
UmountSnapshot(cl, c, n) ==
    /\ Take(cl)
    /\ Permitted(cl, c)
    /\ n \in Loaded(c)
    /\ GetSnapper(c)
    /\ mounts' = [mounts EXCEPT ![cl][c][n] = IF @ > 0 THEN @ - 1 ELSE @]
    /\ UNCHANGED <<loopVars, configVars, counter, clientVars, works, locks, comparisons, taskVars>>

GetMountPoint(cl, c) == WithSnapper(cl, c)

(* getSnapper, RefHolder, unlock: other handlers run until the lock is     *)
(* taken again.                                                            *)
BeginWork(cl, op, c, nums) ==
    /\ Take(cl)
    /\ Permitted(cl, c)
    /\ nums \subseteq Loaded(c)
    /\ GetSnapper(c)
    /\ counter' = [counter EXCEPT ![c] = @ + 1]
    /\ works' = works \cup {[client |-> cl, op |-> op, config |-> c, nums |-> nums]}
    /\ UNCHANGED <<loopVars, configVars, clientVars, locks, mounts, comparisons, taskVars>>

(* ~RefHolder: dec_use_count, which notes the time when it reaches zero.   *)
ReleaseRef(c) ==
    /\ counter' = [counter EXCEPT ![c] = @ - 1]
    /\ unused' = unused \ {c}
    /\ UNCHANGED <<snapper, entries>>

CalculateUsedSpace(cl, c) == BeginWork(cl, "query", c, {})

QueryQuota(cl, c) == BeginWork(cl, "query", c, {})

CreateComparison(cl, c, n) == BeginWork(cl, "comparison", c, {n})

(* CalculateUsedSpace and QueryQuota after they have locked again, and all *)
(* three after an exception: the RefHolder is destroyed.                   *)
EndWork(w) ==
    /\ daemon = "running"
    /\ w \in works
    /\ works' = works \ {w}
    /\ ReleaseRef(w.config)
    /\ UNCHANGED <<loopVars, configVars, clientVars, calls, locks, mounts, comparisons, taskVars>>

(* An interrupted thread leaves the handler at an interruption point of    *)
(* the comparison and ends; its queued calls are never answered.           *)
InterruptWork(w) ==
    /\ daemon = "running"
    /\ w \in works /\ status[w.client] = "zombie"
    /\ works' = works \ {w}
    /\ ReleaseRef(w.config)
    /\ thread' = [thread EXCEPT ![w.client] = "done"]
    /\ UNCHANGED <<loopVars, configVars, status, calls, locks, mounts, comparisons, taskVars>>

(* CreateComparison after it has locked again: the comparison gets a       *)
(* reference of its own before the RefHolder gives up the other.           *)
KeepComparison(w, n, s) ==
    /\ daemon = "running"
    /\ w \in works /\ w.op = "comparison" /\ w.nums = {n}
    /\ [client |-> w.client, config |-> w.config, num |-> n, slot |-> s] \notin comparisons
    /\ works' = works \ {w}
    /\ comparisons' = comparisons \cup
           {[client |-> w.client, config |-> w.config, num |-> n, slot |-> s]}
    /\ UNCHANGED <<loopVars, configVars, cacheVars, counter, clientVars, calls, locks, mounts,
                   taskVars>>

(* Mutant: the reference is not given up.                                  *)
DeleteComparisonKeepsRef(cl, k) ==
    /\ Take(cl)
    /\ Permitted(cl, k.config)
    /\ k \in comparisons /\ k.client = cl
    /\ comparisons' = comparisons \ {k}
    /\ GetSnapper(k.config)
    /\ UNCHANGED <<loopVars, configVars, counter, clientVars, works, locks, mounts, taskVars>>

DeleteComparison(cl, k) ==
    /\ Take(cl)
    /\ Permitted(cl, k.config)
    /\ k \in comparisons /\ k.client = cl
    /\ comparisons' = comparisons \ {k}
    /\ GetSnapper(k.config)
    /\ counter' = [counter EXCEPT ![k.config] = @ - 1]
    /\ UNCHANGED <<loopVars, configVars, clientVars, works, locks, mounts, taskVars>>

GetFiles(cl, c) == WithSnapper(cl, c)

GetFilesByPipe(cl, c) == WithSnapper(cl, c)

SetupQuota(cl, c) == WithSnapper(cl, c)

PrepareQuota(cl, c) == WithSnapper(cl, c)

QueryFreeSpace(cl, c) == WithSnapper(cl, c)

Sync(cl, c) == WithSnapper(cl, c)

GetPluginsReport(cl) == Passive(cl)

ClearPluginsReport(cl) == Passive(cl)

Debug(cl) == IsRoot(cl) /\ Passive(cl)

-----------------------------------------------------------------------------
(* The main loop of server/snapperd.cc and the threads.                    *)

(* method_call: the first call of a client adds it to the list and turns   *)
(* the idle timeout off.                                                   *)
MethodCall(cl) ==
    /\ daemon = "running"
    /\ status[cl] \in {"none", "live"}
    /\ calls[cl] < MaxCalls
    /\ status' = [status EXCEPT ![cl] = "live"]
    /\ armed' = IF status[cl] = "none" THEN FALSE ELSE armed
    /\ idleElapsed' = FALSE
    /\ calls' = [calls EXCEPT ![cl] = @ + 1]
    /\ UNCHANGED <<daemon, configVars, cacheVars, counter, thread, heldVars, taskVars>>

(* Introspect, and a sender whose uid is not known any more.               *)
MethodCallWithoutClient ==
    /\ daemon = "running"
    /\ idleElapsed' = FALSE
    /\ UNCHANGED <<daemon, armed, configVars, cacheVars, counter, clientVars, calls, heldVars,
                   taskVars>>

(* client_disconnected: both threads of the client are interrupted.        *)
ClientDisconnected(cl) ==
    /\ daemon = "running"
    /\ status[cl] = "live"
    /\ status' = [status EXCEPT ![cl] = "zombie"]
    /\ idleElapsed' = FALSE
    /\ UNCHANGED <<daemon, armed, configVars, cacheVars, counter, thread, calls, heldVars,
                   taskVars>>

(* Mutant: only a call wakes the thread, and then it ends.                 *)
ThreadEndsAtCall(cl) ==
    /\ daemon = "running"
    /\ status[cl] = "zombie" /\ thread[cl] = "run" /\ ~Busy(cl) /\ calls[cl] > 0
    /\ thread' = [thread EXCEPT ![cl] = "done"]
    /\ UNCHANGED <<loopVars, configVars, cacheVars, counter, status, calls, heldVars, taskVars>>

(* The thread is interrupted when it waits for a call: a zombie's calls    *)
(* that were queued before are all processed first.                        *)
ThreadEnds(cl) ==
    /\ daemon = "running"
    /\ status[cl] = "zombie" /\ thread[cl] = "run" /\ ~Busy(cl) /\ calls[cl] = 0
    /\ thread' = [thread EXCEPT ![cl] = "done"]
    /\ UNCHANGED <<loopVars, configVars, cacheVars, counter, status, calls, heldVars, taskVars>>

Reapable == {cl \in Client : status[cl] = "zombie" /\ thread[cl] = "done"}

(* Configs on which a reapable client has mounts.                          *)
MountedBy(cls) == {c \in Config : \E cl \in cls, n \in Num : mounts[cl][c][n] > 0}

HeldBy(cls, c) == {k \in comparisons : k.client \in cls /\ k.config = c}

(* Mutant: background tasks do not keep the daemon alive.                  *)
NobodyLeftButTasks(gone) == \A cl \in Client \ gone : status[cl] = "none"

(* Mutant: looked at only when a client is removed.                        *)
NobodyLeftNow(gone) ==
    gone # {} /\ tasks = <<>> /\ \A cl \in Client \ gone : status[cl] = "none"

(* clients.empty() and backgrounds.empty(), once the zombies are removed.  *)
NobodyLeft(gone) == tasks = <<>> /\ \A cl \in Client \ gone : status[cl] = "none"

(* Snappers that are loaded, not referred to and not used for long.        *)
Unloadable(count, touched) == {c \in (snapper \cap unused) \ touched : count[c] = 0}

(* periodic: ~Client of every reapable zombie gives up its comparisons and *)
(* mounts, the idle timeout is set when nobody is left, and Snappers that  *)
(* have not been used for long are unloaded.                               *)
Periodic ==
    LET gone    == Reapable
        count   == [c \in Config |-> counter[c] - Cardinality(HeldBy(gone, c))]
        touched == {c \in Config : c \in MountedBy(gone) \/ HeldBy(gone, c) # {}}
        unload  == Unloadable(count, touched)
    IN  /\ daemon = "running"
        /\ MountedBy(gone) \subseteq metaSnappers
        /\ status' = [cl \in Client |-> IF cl \in gone THEN "none" ELSE status[cl]]
        /\ thread' = [cl \in Client |-> IF cl \in gone THEN "run" ELSE thread[cl]]
        /\ calls' = [cl \in Client |-> IF cl \in gone THEN 0 ELSE calls[cl]]
        /\ locks' = [cl \in Client |->
               IF cl \in gone THEN [c \in Config |-> 0] ELSE locks[cl]]
        /\ mounts' = [cl \in Client |->
               IF cl \in gone THEN [c \in Config |-> [n \in Num |-> 0]] ELSE mounts[cl]]
        /\ comparisons' = {k \in comparisons : k.client \notin gone}
        /\ counter' = count
        /\ snapper' = (snapper \cup MountedBy(gone)) \ unload
        /\ entries' = [c \in Config |->
               CASE c \in unload          -> {}
                 [] c \in MountedBy(gone) -> Loaded(c)
                 [] OTHER                 -> entries[c]]
        /\ unused' = unused \ (touched \cup unload)
        /\ armed' = (armed \/ NobodyLeft(gone))
        /\ UNCHANGED <<daemon, idleElapsed, configVars, works, taskVars>>

(* ~Client does not find the config of one of its mounts: the exception    *)
(* leaves a destructor and the daemon is terminated.                       *)
PeriodicAborts ==
    /\ daemon = "running"
    /\ ~(MountedBy(Reapable) \subseteq metaSnappers)
    /\ daemon' = "aborted"
    /\ UNCHANGED <<armed, idleElapsed, configVars, cacheVars, counter, clientVars, calls,
                   heldVars, taskVars>>

(* Backgrounds::worker: the front task stays queued while it is worked on  *)
(* and until after its reference has been given up.                        *)
WorkerTakes ==
    /\ daemon = "running"
    /\ worker = "wait" /\ tasks # <<>>
    /\ worker' = "compare"
    /\ GetSnapper(Head(tasks).config)
    /\ UNCHANGED <<loopVars, configVars, counter, clientVars, calls, heldVars, tasks>>

WorkerReleases ==
    /\ daemon = "running"
    /\ worker = "compare"
    /\ worker' = "release"
    /\ ReleaseRef(Head(tasks).config)
    /\ UNCHANGED <<loopVars, configVars, clientVars, calls, heldVars, tasks>>

WorkerPops ==
    /\ daemon = "running"
    /\ worker = "release"
    /\ worker' = "wait"
    /\ tasks' = Tail(tasks)
    /\ UNCHANGED <<loopVars, configVars, cacheVars, counter, clientVars, calls, heldVars>>

(* Only thread_interrupted is caught in the worker.                        *)
WorkerAborts ==
    /\ daemon = "running"
    /\ worker = "compare" /\ ComparisonMayFail
    /\ daemon' = "aborted"
    /\ UNCHANGED <<armed, idleElapsed, configVars, cacheVars, counter, clientVars, calls,
                   heldVars, taskVars>>

(* Time passes: a Snapper without references has not been used for         *)
(* snapper_cleanup_time, the main loop has been idle for idle_time.        *)
SnapperAges(c) ==
    /\ daemon = "running"
    /\ c \in snapper \ unused /\ counter[c] = 0
    /\ unused' = unused \cup {c}
    /\ UNCHANGED <<loopVars, configVars, snapper, entries, counter, clientVars, calls, heldVars,
                   taskVars>>

IdleTimePasses ==
    /\ daemon = "running"
    /\ ~idleElapsed /\ idleElapsed' = TRUE
    /\ UNCHANGED <<daemon, armed, configVars, cacheVars, counter, clientVars, calls, heldVars,
                   taskVars>>

(* run returns, and main unloads every Snapper.                            *)
IdleExit ==
    /\ daemon = "running"
    /\ armed /\ idleElapsed
    /\ daemon' = "exited"
    /\ snapper' = {} /\ unused' = {}
    /\ entries' = [c \in Config |-> {}]
    /\ UNCHANGED <<armed, idleElapsed, configVars, counter, clientVars, calls, heldVars, taskVars>>

-----------------------------------------------------------------------------

QueryHandler(cl, c) ==
    \/ GetConfig(cl, c) \/ ListSnapshots(cl, c) \/ ListSnapshotsAtTime(cl, c)
    \/ GetSnapshot(cl, c) \/ SetSnapshot(cl, c)
    \/ IsSnapshotReadOnly(cl, c) \/ SetSnapshotReadOnly(cl, c)
    \/ GetDefaultSnapshot(cl, c) \/ GetActiveSnapshot(cl, c) \/ GetUsedSpace(cl, c)
    \/ MountSnapshotForUser(cl, c) \/ UmountSnapshotForUser(cl, c) \/ GetMountPoint(cl, c)
    \/ GetFiles(cl, c) \/ GetFilesByPipe(cl, c)
    \/ SetupQuota(cl, c) \/ PrepareQuota(cl, c) \/ QueryFreeSpace(cl, c) \/ Sync(cl, c)

SnapshotHandler(cl, c, n) ==
    \/ CreateSingleSnapshot(cl, c, n) \/ CreateSingleSnapshotOfDefault(cl, c, n)
    \/ CreatePreSnapshot(cl, c, n)
    \/ \E m \in Num : CreateSingleSnapshotV2(cl, c, m, n) \/ CreatePostSnapshot(cl, c, m, n)
    \/ MountSnapshot(cl, c, n) \/ UmountSnapshot(cl, c, n)
    \/ CreateComparison(cl, c, n)

ConfigHandler(cl, c) ==
    \/ \E users \in {{}, Client} : SetConfig(cl, c, users)
    \/ CreateConfig(cl, c) \/ DeleteConfig(cl, c)
    \/ LockConfig(cl, c) \/ UnlockConfig(cl, c)
    \/ CalculateUsedSpace(cl, c) \/ QueryQuota(cl, c)
    \/ \E nums \in SUBSET Num : DeleteConfigFails(cl, c, nums) \/ DeleteSnapshots(cl, c, nums)

(* One call of client cl, from dispatch to its reply or to its unlock.     *)
Handler(cl) ==
    \/ ErrorReply(cl) \/ ListConfigs(cl)
    \/ GetPluginsReport(cl) \/ ClearPluginsReport(cl) \/ Debug(cl)
    \/ \E c \in Config :
           \/ QueryHandler(cl, c) \/ ConfigHandler(cl, c)
           \/ \E n \in Num : SnapshotHandler(cl, c, n)
    \/ \E k \in comparisons : DeleteComparison(cl, k)

(* The end of a handler that has unlocked.                                 *)
Finish(w) ==
    \/ EndWork(w) \/ InterruptWork(w)
    \/ \E n \in Num, s \in Slot : KeepComparison(w, n, s)

FinishHandler(cl) == \E w \in works : w.client = cl /\ Finish(w)

ClientStep(cl) == MethodCall(cl) \/ ClientDisconnected(cl)

WorkerStep == WorkerTakes \/ WorkerReleases \/ WorkerPops \/ WorkerAborts

MainLoopStep == MethodCallWithoutClient \/ Periodic \/ PeriodicAborts \/ IdleExit

TimeStep == IdleTimePasses \/ \E c \in Config : SnapperAges(c)

Next ==
    \/ \E cl \in Client : ClientStep(cl) \/ Handler(cl) \/ ThreadEnds(cl)
    \/ \E w \in works : Finish(w)
    \/ MainLoopStep \/ WorkerStep \/ TimeStep

Spec == Init /\ [][Next]_vars

(* Threads make progress, the main loop keeps polling (periodic_timeout is *)
(* a second while there are zombies, tasks or unused Snappers), time       *)
(* passes.  Nothing is assumed of the clients.                             *)
Fairness ==
    /\ \A cl \in Client : WF_vars(Handler(cl)) /\ WF_vars(FinishHandler(cl)) /\ WF_vars(ThreadEnds(cl))
    /\ WF_vars(Periodic) /\ WF_vars(PeriodicAborts) /\ WF_vars(IdleExit)
    /\ WF_vars(WorkerStep)
    /\ WF_vars(IdleTimePasses) /\ \A c \in Config : WF_vars(SnapperAges(c))

FairSpec == Spec /\ Fairness

-----------------------------------------------------------------------------
(* Positions in the task queue whose reference has not been given up.      *)
OpenTasks(c) ==
    {i \in 1..Len(tasks) : tasks[i].config = c /\ ~(i = 1 /\ worker = "release")}

(* The use count of a config is exactly the number of its holders:         *)
(* comparisons kept by clients, handlers that run unlocked, and background *)
(* tasks (inc_use_count, dec_use_count, RefHolder, ~Client).               *)
UseCountExact ==
    \A c \in Config :
        counter[c] = Cardinality({k \in comparisons : k.config = c})
                   + Cardinality({w \in works : w.config = c})
                   + Cardinality(OpenTasks(c))

(* No pointer dangles: what a comparison, an unlocked handler or an        *)
(* unfinished task refers to (its MetaSnapper, its loaded Snapper and the  *)
(* list nodes of its snapshots) exists, whatever the other clients delete  *)
(* and whatever periodic unloads.                                          *)
NoDanglingRefs ==
    /\ \A k \in comparisons : k.config \in snapper /\ k.num \in entries[k.config]
    /\ \A w \in works : w.config \in snapper /\ w.nums \subseteq entries[w.config]
    /\ \A i \in 1..Len(tasks) :
           ~(i = 1 /\ worker = "release") =>
               /\ tasks[i].config \in snapper
               /\ {tasks[i].pre, tasks[i].post} \subseteq entries[tasks[i].config]

(* Locks keep other clients out: a config or a snapshot on which a live    *)
(* client has a lock is only deleted by a call of that same client         *)
(* (doc/dbus-protocol.txt: "Locking disallows other clients to delete the  *)
(* config and delete snapshots for the config").                           *)
LocksRespected ==
    \A c \in Config, cl \in Client :
       (status[cl] = "live" /\ locks[cl][c] > 0
          /\ (c \in metaSnappers \ metaSnappers' \/ infos[c] \ infos'[c] # {}))
       => calls'[cl] = calls[cl] - 1

(* The daemon goes away on its own only when nobody needs it: no client,   *)
(* no zombie, no background task, no reference (periodic sets the idle     *)
(* timeout, the next new client takes it back).                            *)
IdleTimerSafe ==
    armed => /\ \A cl \in Client : status[cl] = "none"
             /\ tasks = <<>>
             /\ \A c \in Config : counter[c] = 0

(* A zombie is got rid of, with its comparisons and mounts.                *)
ZombieReaped == \A cl \in Client : status[cl] = "zombie" ~> status[cl] = "none"

(* When the last client and the last task are gone the idle timeout is set *)
(* again, unless a client comes first: the daemon does not stay forever    *)
(* because a background comparison outlived its client.                    *)
IdleTimerRearmed ==
    (\A cl \in Client : status[cl] = "none") ~> (armed \/ \E cl \in Client : status[cl] # "none")

(* A Snapper that has not been used for long is unloaded, or used again.   *)
UnusedUnloaded ==
    \A c \in Config : (c \in snapper /\ c \in unused) ~> (c \notin snapper \/ c \notin unused)

(* What MyMainLoop::periodic owes: the idle timeout and the unloading of   *)
(* unused Snappers, whatever clients and comparisons do in between.        *)
Housekeeping == IdleTimerRearmed /\ UnusedUnloaded
=============================================================================
