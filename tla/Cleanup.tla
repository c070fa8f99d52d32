------------------------------ MODULE Cleanup ------------------------------
(***************************************************************************)
(* The command "snapper cleanup" (client/cleanup.cc, client/snapper/       *)
(* cmd-cleanup.cc): the algorithms number, timeline and empty-pre-post,    *)
(* their filters, and the loops that delete until a condition holds.       *)
(*                                                                         *)
(* The client works on the list of snapshots that its proxy read before it *)
(* locked the config, and deletes one snapshot per request to the daemon.  *)
(* Other clients create and delete snapshots, set the default one and lock *)
(* the config meanwhile.                                                   *)
(***************************************************************************)
EXTENDS Integers, SequencesExt, FiniteSetsExt

CONSTANTS
    None,          \* no snapshot
    MaxNum,        \* bound: the largest snapshot number
    InitNum,       \* the snapshots that exist at first are 1 .. InitNum
    Date,          \* Date[n]: when the snapshot n was or will be created
    Horizons,      \* dates that now - min_age may be during a command
    Commands,      \* algorithms that a command runs: one of them, or all
    Active,        \* number of the active snapshot, or 0
    NumberMin, NumberMax,        \* NUMBER_LIMIT
    ImportantMin, ImportantMax,  \* NUMBER_LIMIT_IMPORTANT
    Periods,       \* lengths of an hour, a day ... in the units of Date
    TimelineMin, TimelineMax,    \* TIMELINE_LIMIT_..., the same for each period
    MaxChanges     \* bound: what other clients do

Num == 1..MaxNum

Algorithm == {"number", "timeline", "empty-pre-post"}
All == <<"number", "timeline", "empty-pre-post">>

ASSUME CleanupAssumption ==
    /\ MaxNum \in Nat /\ InitNum \in 0..MaxNum /\ Active \in 0..MaxNum
    /\ Date \in [Num -> Nat] /\ Horizons \subseteq Nat
    /\ \A n \in 1..(MaxNum - 1) : Date[n] < Date[n + 1]
    /\ NumberMax \in Nat /\ NumberMin \in 0..NumberMax
    /\ ImportantMax \in Nat /\ ImportantMin \in 0..ImportantMax
    /\ Periods \subseteq Nat \ {0}
    /\ TimelineMax \in Nat /\ TimelineMin \in 0..TimelineMax
    /\ Commands \subseteq {<<a>> : a \in Algorithm} \cup {All}
    /\ MaxChanges \in Nat

(* empty: the comparison of a post snapshot with its pre snapshot is.      *)
Meta == [type : {"single", "pre", "post"}, pre : 0..MaxNum,
         cleanup : {"", "number", "timeline"}, important : BOOLEAN, empty : BOOLEAN]

VARIABLES
    snapshots,   \* the snapshots the daemon has
    default,     \* number of the default snapshot, or 0
    proxy,       \* ProxySnapper::getSnapshots of the cleaning client
    listed,      \* history: the list as it was read
    locked,      \* the client holds a lock
    otherLocked, \* another client holds one
    horizon,     \* snapshots created later are younger than min_age
    freeSpace,   \* the option --free-space was given
    todo,        \* algorithms to run, the current one first
    step,        \* where Cleaner::cleanup is
    passes,      \* conditions still to be tried
    tmp,         \* snapshots that remove is about to delete
    changes,     \* how often other clients have changed something
    stale        \* history: another client deleted since the list was read

clientVars == <<proxy, listed, locked, horizon, freeSpace, todo, step, passes, tmp>>
otherVars == <<default, otherLocked, changes, stale>>
vars == <<snapshots, clientVars, otherVars>>

Exist(list) == {n \in Num : list[n] # None}

(* The types of the state; only a client that holds the lock is about to   *)
(* delete, and only what its list has.                                     *)
TypeOK ==
    /\ snapshots \in [Num -> Meta \cup {None}] /\ default \in 0..MaxNum
    /\ proxy \in [Num -> Meta \cup {None}] /\ listed \in [Num -> Meta \cup {None}]
    /\ {locked, otherLocked, freeSpace, stale} \subseteq BOOLEAN
    /\ horizon \in Horizons /\ todo \in Seq(Algorithm) /\ passes \in Seq({"quota", "free", "user"})
    /\ step \in {"start", "lock", "plain", "remove", "condition", "done", "failed"}
    /\ tmp \in Seq(Num) /\ ToSet(tmp) \subseteq Exist(proxy)
    /\ changes \in 0..MaxChanges
    /\ locked <=> step \in {"plain", "remove", "condition"}
    /\ step # "remove" => tmp = <<>>

InitialMeta ==
    {m \in Meta :
        /\ m.type # "post" => m.pre = 0 /\ ~m.empty
        /\ m.important => m.cleanup = "number"}

(* Some snapshots, of which every post snapshot has a pre snapshot of its  *)
(* own; important ones are of the number algorithm.                        *)
InitialSnapshots ==
    {s \in [1..InitNum -> InitialMeta] :
        /\ \A n \in 1..InitNum : s[n].type = "post" =>
               s[n].pre \in 1..(n - 1) /\ s[s[n].pre].type = "pre"
        /\ \A m, n \in 1..InitNum :
               m # n /\ s[m].type = "post" /\ s[n].type = "post" => s[m].pre # s[n].pre}

Start ==
    /\ freeSpace' \in BOOLEAN /\ horizon' \in Horizons
    /\ todo' \in Commands

Init ==
    /\ \E s \in InitialSnapshots :
           snapshots = [n \in Num |-> IF n <= InitNum THEN s[n] ELSE None]
    /\ default = 0
    /\ proxy = [n \in Num |-> None] /\ listed = proxy
    /\ locked = FALSE /\ otherLocked = FALSE
    /\ freeSpace \in BOOLEAN /\ horizon \in Horizons /\ todo \in Commands
    /\ step = "start" /\ passes = <<>> /\ tmp = <<>>
    /\ changes = 0 /\ stale = FALSE

-----------------------------------------------------------------------------
(* The candidates of the algorithms, oldest first.                         *)

(* The snapshots of the algorithm, youngest first.                         *)
Youngest(algorithm) ==
    SetToSortSeq({n \in Exist(proxy) : proxy[n].cleanup = algorithm}, >)

(* Mutant: an important snapshot is only counted as important.             *)
NumberCandidatesOnce(limit, limitImportant) ==
    LET Visit(acc, n) ==
            LET important == acc.important < limitImportant /\ proxy[n].important
                number == ~important /\ acc.num < limit
            IN  [num |-> acc.num + (IF number THEN 1 ELSE 0),
                 important |-> acc.important + (IF important THEN 1 ELSE 0),
                 ret |-> IF number \/ important THEN acc.ret ELSE <<n>> \o acc.ret]
    IN  FoldLeft(Visit, [num |-> 0, important |-> 0, ret |-> <<>>], Youngest("number")).ret

(* NumberCleaner::calculate_candidates.                                    *)
NumberCandidates(limit, limitImportant) ==
    LET Visit(acc, n) ==
            LET important == acc.important < limitImportant /\ proxy[n].important
                number == acc.num < limit
            IN  [num |-> acc.num + (IF number THEN 1 ELSE 0),
                 important |-> acc.important + (IF important THEN 1 ELSE 0),
                 ret |-> IF number \/ important THEN acc.ret ELSE <<n>> \o acc.ret]
    IN  FoldLeft(Visit, [num |-> 0, important |-> 0, ret |-> <<>>], Youngest("number")).ret

(* equal_hour and the like.                                                *)
Equal(period, m, n) == Date[m] \div period = Date[n] \div period

(* is_first: looks at the older ones, until one is of another period or    *)
(* proves that it1 is not the first of its period.                         *)
IsFirst(period, it1, older) ==
    LET ends == {i \in DOMAIN older : ~Equal(period, it1, older[i]) \/ Date[it1] > Date[older[i]]}
    IN  ends = {} \/ ~Equal(period, it1, older[Min(ends)])

(* TimelineCleaner::calculate_candidates.                                  *)
TimelineCandidates(limit) ==
    LET list == Youngest("timeline")
        Visit(acc, i) ==
            LET keep == {p \in Periods : acc.num[p] < limit
                             /\ IsFirst(p, list[i], SubSeq(list, i + 1, Len(list)))}
            IN  [num |-> [p \in Periods |-> acc.num[p] + (IF p \in keep THEN 1 ELSE 0)],
                 ret |-> IF keep # {} THEN acc.ret ELSE <<list[i]>> \o acc.ret]
    IN  FoldLeftDomain(Visit, [num |-> [p \in Periods |-> 0], ret |-> <<>>], list).ret

(* The post snapshot of a pre snapshot, the pre snapshot of a post one.    *)
Partner(n) ==
    {m \in Exist(proxy) : \/ proxy[n].type = "pre" /\ proxy[m].type = "post" /\ proxy[m].pre = n
                          \/ proxy[n].type = "post" /\ proxy[m].type = "pre" /\ proxy[n].pre = m}

Pres == {n \in Exist(proxy) : proxy[n].type = "pre" /\ Partner(n) # {}}

(* EmptyPrePostCleaner::calculate_candidates: pre, post, pre, post ...     *)
EmptyCandidates ==
    LET Append2(acc, pre) ==
            LET post == Min(Partner(pre))
            IN  IF proxy[post].empty THEN acc \o <<pre, post>> ELSE acc
    IN  FoldLeft(Append2, <<>>, SetToSortSeq(Pres, <))

(* Mutant: one less than the minimum is kept.                              *)
CandidatesOneLess(value) ==
    CASE Head(todo) = "number" ->
             NumberCandidates(IF value = "min" THEN NumberMin - 1 ELSE NumberMax,
                              IF value = "min" THEN ImportantMin ELSE ImportantMax)
      [] Head(todo) = "timeline" ->
             TimelineCandidates(IF value = "min" THEN TimelineMin ELSE TimelineMax)
      [] Head(todo) = "empty-pre-post" -> EmptyCandidates

(* calculate_candidates with Range::MIN or Range::MAX.                     *)
Candidates(value) ==
    CASE Head(todo) = "number" ->
             NumberCandidates(IF value = "min" THEN NumberMin ELSE NumberMax,
                              IF value = "min" THEN ImportantMin ELSE ImportantMax)
      [] Head(todo) = "timeline" ->
             TimelineCandidates(IF value = "min" THEN TimelineMin ELSE TimelineMax)
      [] Head(todo) = "empty-pre-post" -> EmptyCandidates

(* A comparison fails if the daemon does not have the snapshots any more.  *)
Comparable ==
    Head(todo) = "empty-pre-post" =>
        \A n \in Pres : {n} \cup Partner(n) \subseteq Exist(snapshots)

IsDegenerated ==
    CASE Head(todo) = "number"   -> NumberMin = NumberMax /\ ImportantMin = ImportantMax
      [] Head(todo) = "timeline" -> TimelineMin = TimelineMax
      [] Head(todo) = "empty-pre-post" -> TRUE

(* Mutant: filter_pre_post is not called.                                  *)
FilterWithoutPairs(list) ==
    SelectSeq(list, LAMBDA n : n \notin {default, Active} /\ Date[n] <= horizon)

(* filter: undeletables and young snapshots are dropped, then those whose  *)
(* partner is not left.                                                    *)
Filter(list) ==
    LET old == SelectSeq(list, LAMBDA n : n \notin {default, Active} /\ Date[n] <= horizon)
    IN  SelectSeq(old, LAMBDA n : Partner(n) \subseteq ToSet(old))

-----------------------------------------------------------------------------
(* The cleaning client.                                                    *)

(* getSnapper: the proxy reads the list once.                              *)
ReadList ==
    /\ step = "start"
    /\ proxy' = snapshots /\ listed' = snapshots
    /\ step' = "lock" /\ stale' = FALSE
    /\ UNCHANGED <<snapshots, locked, horizon, freeSpace, todo, passes, tmp, default, otherLocked, changes>>

(* The constructor of Cleaner.                                             *)
Lock ==
    /\ step = "lock"
    /\ locked' = TRUE
    /\ step' = IF freeSpace THEN "condition" ELSE "plain"
    /\ passes' = IF freeSpace THEN <<"user">> ELSE <<>>
    /\ UNCHANGED <<snapshots, proxy, listed, horizon, freeSpace, todo, tmp, otherVars>>

(* cleanup without a condition, up to remove.  Afterwards the quota and    *)
(* the free space condition are tried, if the limits are ranges.           *)
Plain ==
    /\ step = "plain" /\ Comparable
    /\ tmp' = Filter(Candidates("max"))
    /\ step' = "remove"
    /\ passes' = IF IsDegenerated THEN <<>> ELSE <<"quota", "free">>
    /\ UNCHANGED <<snapshots, proxy, listed, locked, horizon, freeSpace, todo, otherVars>>

(* The daemon answers a DeleteSnapshots request.                           *)
Accepts(n) == ~otherLocked /\ snapshots[n] # None /\ n \notin {default, Active}

(* remove deletes the next one, also from the list.                        *)
RemoveSnapshot ==
    /\ step = "remove" /\ tmp # <<>> /\ Accepts(Head(tmp))
    /\ snapshots' = [snapshots EXCEPT ![Head(tmp)] = None]
    /\ proxy' = [proxy EXCEPT ![Head(tmp)] = None]
    /\ tmp' = Tail(tmp)
    /\ UNCHANGED <<listed, locked, horizon, freeSpace, todo, step, passes, otherVars>>

RemoveDone ==
    /\ step = "remove" /\ tmp = <<>>
    /\ step' = "condition"
    /\ UNCHANGED <<snapshots, proxy, listed, locked, horizon, freeSpace, todo, passes, tmp, otherVars>>

(* An exception: a comparison or the request to delete is refused, or the  *)
(* config is in use, or a query of the space fails.  The lock is released, *)
(* the remaining algorithms are not run.                                   *)
Throw ==
    /\ \/ step \in {"plain", "condition"} /\ ~Comparable
       \/ step = "remove" /\ tmp # <<>>
       \/ step = "condition" /\ passes # <<>>
    /\ step' = "failed" /\ locked' = FALSE /\ tmp' = <<>>
    /\ UNCHANGED <<snapshots, proxy, listed, horizon, freeSpace, todo, passes, otherVars>>

(* The condition holds, or the quota or free space does not count.         *)
Satisfied ==
    /\ step = "condition" /\ passes # <<>>
    /\ passes' = Tail(passes)
    /\ UNCHANGED <<snapshots, proxy, listed, locked, horizon, freeSpace, todo, step, tmp, otherVars>>

(* The shortest beginnings of the candidates of which something is left    *)
(* when they are filtered.                                                 *)
Beginnings(list) == {k \in 1..Len(list) : Filter(SubSeq(list, 1, k)) # <<>>}

(* Mutant: evaluates the condition again although nothing can be deleted.  *)
UnsatisfiedRetry ==
    /\ step = "condition" /\ passes # <<>> /\ Comparable
    /\ LET list == Candidates("min")
           ks == Beginnings(list)
       IN  IF ks = {}
           THEN step' = "remove" /\ UNCHANGED <<tmp, passes>>
           ELSE /\ tmp' = Filter(SubSeq(list, 1, Min(ks)))
                /\ step' = "remove"
                /\ UNCHANGED passes
    /\ UNCHANGED <<snapshots, proxy, listed, locked, horizon, freeSpace, todo, otherVars>>

(* cleanup with a condition that does not hold: as few of the oldest       *)
(* candidates as the filter lets through are deleted, or there are none.   *)
Unsatisfied ==
    /\ step = "condition" /\ passes # <<>> /\ Comparable
    /\ LET list == Candidates("min")
           ks == Beginnings(list)
       IN  IF ks = {}
           THEN passes' = Tail(passes) /\ UNCHANGED <<tmp, step>>
           ELSE /\ tmp' = Filter(SubSeq(list, 1, Min(ks)))
                /\ step' = "remove"
                /\ UNCHANGED passes
    /\ UNCHANGED <<snapshots, proxy, listed, locked, horizon, freeSpace, todo, otherVars>>

(* ~Cleaner, and the next algorithm on the same list.                      *)
AlgorithmDone ==
    /\ step = "condition" /\ passes = <<>>
    /\ locked' = FALSE
    /\ todo' = Tail(todo)
    /\ step' = IF Tail(todo) = <<>> THEN "done" ELSE "lock"
    /\ UNCHANGED <<snapshots, proxy, listed, horizon, freeSpace, passes, tmp, otherVars>>

(* The command ends with its proxy, the timer runs it again.               *)
Restart ==
    /\ step \in {"done", "failed"}
    /\ step' = "start" /\ Start
    /\ proxy' = [n \in Num |-> None] /\ listed' = proxy'
    /\ passes' = <<>> /\ stale' = FALSE
    /\ UNCHANGED <<snapshots, locked, tmp, default, otherLocked, changes>>

-----------------------------------------------------------------------------
(* Other clients of the daemon.                                            *)

Changes == changes < MaxChanges /\ changes' = changes + 1

OtherLocks ==
    /\ Changes
    /\ otherLocked' = ~otherLocked
    /\ UNCHANGED <<snapshots, clientVars, default, stale>>

(* A single snapshot, or the post snapshot of a pre snapshot.              *)
OtherCreates ==
    /\ Changes
    /\ \E n \in Num, meta \in Meta :
           /\ n = 1 + Max({InitNum} \cup Exist(snapshots)) /\ snapshots[n] = None
           /\ ~meta.important /\ ~meta.empty /\ meta.cleanup = "number"
           /\ IF meta.type = "post"
              THEN /\ meta.pre \in Exist(snapshots) /\ snapshots[meta.pre].type = "pre"
                   /\ \A m \in Exist(snapshots) :
                          ~(snapshots[m].type = "post" /\ snapshots[m].pre = meta.pre)
              ELSE meta.type = "single" /\ meta.pre = 0
           /\ snapshots' = [snapshots EXCEPT ![n] = meta]
    /\ UNCHANGED <<clientVars, default, otherLocked, stale>>

OtherDeletes ==
    /\ Changes /\ ~locked
    /\ \E n \in Exist(snapshots) \ {default, Active} :
           snapshots' = [snapshots EXCEPT ![n] = None]
    /\ stale' = TRUE
    /\ UNCHANGED <<clientVars, default, otherLocked>>

OtherSetsDefault ==
    /\ Changes
    /\ default' \in Exist(snapshots)
    /\ UNCHANGED <<snapshots, clientVars, otherLocked, stale>>

ClientStep ==
    \/ ReadList \/ Lock \/ Plain \/ RemoveSnapshot \/ RemoveDone \/ Throw
    \/ Satisfied \/ Unsatisfied \/ AlgorithmDone

Next ==
    \/ ClientStep \/ Restart
    \/ OtherLocks \/ OtherCreates \/ OtherDeletes \/ OtherSetsDefault

Spec == Init /\ [][Next]_vars

(* The command goes on; nothing is assumed of conditions or other clients. *)
FairSpec == Spec /\ WF_vars(ClientStep)

-----------------------------------------------------------------------------

Younger(set, n) == Cardinality({m \in set : m > n})

(* calculate_candidates of NumberCleaner: the candidates are the snapshots *)
(* that are neither among the youngest nor among the youngest important    *)
(* ones, oldest first.  An important snapshot takes a place of both counts *)
(* (lines 545-554), whatever the position of the others.                   *)
NumberCandidatesRight ==
    step = "lock" => \A limit \in {NumberMin, NumberMax}, limitImportant \in {ImportantMin, ImportantMax} :
        LET number == {n \in Exist(proxy) : proxy[n].cleanup = "number"}
            important == {n \in number : proxy[n].important}
        IN  NumberCandidates(limit, limitImportant) =
                SetToSortSeq({n \in number :
                    /\ Younger(number, n) >= limit
                    /\ n \in important => Younger(important, n) >= limitImportant}, <)

(* calculate_candidates of TimelineCleaner: of every period the first      *)
(* snapshots of the youngest limit hours, days ... are no candidates.      *)
TimelineCandidatesRight ==
    step = "lock" => \A limit \in {TimelineMin, TimelineMax} :
        LET all == {n \in Exist(proxy) : proxy[n].cleanup = "timeline"}
            First(p) == {n \in all : \A m \in all : m < n => ~Equal(p, m, n)}
        IN  ToSet(TimelineCandidates(limit)) =
                {n \in all : \A p \in Periods : n \in First(p) => Younger(First(p), n) >= limit}

(* calculate_candidates of both cleaners, in every state the command lists *)
(* the snapshots in, and the types of the state it works on.               *)
CandidatesRight == TypeOK /\ NumberCandidatesRight /\ TimelineCandidatesRight

(* NUMBER_LIMIT and NUMBER_LIMIT_IMPORTANT: whatever the conditions say    *)
(* the daemon still has the minimum of younger snapshots when one is       *)
(* deleted, provided that nobody else deleted snapshots after the list was *)
(* read (Cleaner::cleanup, Locker).                                        *)
MinimumKept ==
    [][step = "remove" /\ Head(todo) = "number" /\ snapshots' # snapshots /\ proxy' # proxy
         /\ ~stale =>
           LET n == Head(tmp)
               number == {m \in Exist(snapshots) : listed[m] # None /\ listed[m].cleanup = "number"}
               important == {m \in number : listed[m].important}
           IN  /\ Younger(number, n) >= NumberMin
               /\ n \in important => Younger(important, n) >= ImportantMin]_vars

(* filter_pre_post: a pair of the list is deleted together or not at all,  *)
(* across the passes and algorithms of a command, unless the daemon        *)
(* refuses one of the two.                                                 *)
PairsTogether ==
    step \in {"lock", "plain", "condition", "done"} =>
        \A n \in Exist(listed) : listed[n].type = "post" /\ listed[listed[n].pre] # None =>
            (proxy[n] = None <=> proxy[listed[n].pre] = None)

(* Cleaner::cleanup with a condition: the command ends, although the       *)
(* condition may never hold and candidates may be undeletable.             *)
CleanupEnds == [](step = "lock" => <>(step \in {"done", "failed"}))
=============================================================================
