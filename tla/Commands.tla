------------------------------ MODULE Commands -------------------------------
(***************************************************************************)
(* The commands of snapper(8) as clients of snapperd: create, modify,      *)
(* delete, mount, umount and those that compare two snapshots (status,     *)
(* diff, xadiff, undochange), with the proxy objects they work on.  A      *)
(* process reads the list of snapshots once, when its ProxySnapper is made *)
(* and works with that copy; every command_...() is a request of its own,  *)
(* between which other processes are served.                               *)
(*                                                                         *)
(* One configuration.  snapperd is what its handlers do to the list, the   *)
(* comparisons and the mounts of the clients; a handler is one step.       *)
(***************************************************************************)
EXTENDS Naturals, FiniteSets, Sequences, SequencesExt

CONSTANTS Procs,        \* processes
          MaxListed,    \* bound: the highest snapshot number
          MaxCommands,  \* bound: commands ever started
          MaxErrors     \* bound: processes killed and requests that fail

VARIABLES meta,         \* snapperd: number -> metadata of the snapshots
          latest,       \* the highest number ever used
          defaultNum,   \* the snapshot that is booted next
          compared,     \* the comparisons of the clients: process -> pairs
          held,         \* the mounts of the clients: process -> numbers
          userMounts,   \* numbers mounted by user request
          proc,         \* the processes
          started,      \* commands started so far
          errors        \* errors so far

commandVars == <<meta, latest, defaultNum, compared, held, userMounts, proc, started, errors>>

SMD == [description : {0, 1}, cleanup : {0, 1}]
Empty == [description |-> 0, cleanup |-> 0]
CURRENT == 0            \* the number of the running system
Active == 3             \* the snapshot the system was booted from

NoProc == [cmd |-> "none", step |-> "idle", list |-> <<>>, args |-> <<>>, nums |-> <<>>, keep |-> {}]

Existing == DOMAIN meta
Listed(p) == DOMAIN proc[p].list \cup {CURRENT}

Init ==
    /\ meta = [n \in 1..3 |-> Empty] /\ latest = 3 /\ defaultNum = Active
    /\ compared = [p \in Procs |-> {}] /\ held = [p \in Procs |-> {}] /\ userMounts = {}
    /\ proc = [p \in Procs |-> NoProc] /\ started = 0 /\ errors = 0

At(p, cmd, step) == proc[p].cmd = cmd /\ proc[p].step = step

Goto(p, step) == proc' = [proc EXCEPT ![p].step = step]

daemonVars == <<meta, latest, defaultNum, compared, held, userMounts>>
countVars == <<started, errors>>

-----------------------------------------------------------------------------
(* The requests: what snapperd answers, and what it does to its state. *)

command_list_xsnapshots == meta

command_get_xsnapshot(n) == meta[n]

command_get_default_snapshot == defaultNum

command_get_active_snapshot == Active

command_set_snapshot(n, smd) == meta' = [meta EXCEPT ![n] = smd]

command_create_snapshot ==
    /\ latest' = latest + 1
    /\ meta' = [n \in Existing \cup {latest + 1} |-> IF n \in Existing THEN meta[n] ELSE Empty]

command_delete_snapshots(gone) ==
    /\ meta' = [n \in Existing \ gone |-> meta[n]]
    /\ userMounts' = userMounts \ gone

command_mount_snapshot(n) == userMounts' = userMounts \cup {n}

command_umount_snapshot(n) == userMounts' = userMounts \ {n}

command_create_comparison(p, arg) == compared' = [compared EXCEPT ![p] = {arg}]

command_delete_comparison(p) == compared' = [compared EXCEPT ![p] = {}]

-----------------------------------------------------------------------------
(* Arguments.  A number is <<n>>, a range n-m is <<n, m>>.                 *)

(* The two ends of a range, swapped if the first is the larger one. *)
ends(list, arg) == <<Min({arg[1], arg[2]}), Max({arg[1], arg[2]})>>

(* The numbers of a range that are snapshots and not chosen yet. *)
select(list, nums, arg) ==
    LET range == ends(list, arg)
        new   == {n \in list : range[1] <= n /\ n <= range[2]} \ ToSet(nums)
    IN nums \o SetToSortSeq(new, <)

(* A single number is taken as it is, even twice. *)
AddArgument(list, nums, arg) ==
    IF Len(arg) = 1 THEN Append(nums, arg[1]) ELSE select(list, nums, arg)

(* findNum exits if the number is not in the list, findNums if both ends are *)
(* the same.                                                                  *)
Accepted(list, arg) == ToSet(arg) \subseteq list /\ (Len(arg) = 2 => arg[1] # arg[2])

(* filter_undeletables takes the first of the occurrences only. *)
filter(nums, n) ==
    IF n \in ToSet(nums) THEN RemoveAt(nums, SelectInSeq(nums, LAMBDA m : m = n)) ELSE nums

Arguments == {<<n>> : n \in 0..3} \cup {<<n, m>> : n, m \in 0..3}

-----------------------------------------------------------------------------
(* The start of a process: ListSnapshots *)

Start(p, cmd, args) ==
    /\ proc[p] = NoProc /\ compared[p] = {} /\ held[p] = {}
    /\ started < MaxCommands /\ started' = started + 1
    /\ proc' = [proc EXCEPT ![p] = [NoProc EXCEPT !.cmd = cmd, !.step = "begin",
                                                  !.list = command_list_xsnapshots, !.args = args]]
    /\ UNCHANGED <<daemonVars, errors>>

(* A process that exits or throws; destructors do not always run. *)
Exit(p) == proc' = [proc EXCEPT ![p] = NoProc]

Refuse(p) == Exit(p) /\ UNCHANGED <<daemonVars, countVars>>

-----------------------------------------------------------------------------
(* snapper delete *)

DeleteArguments(p) ==
    /\ At(p, "delete", "begin")
    /\ LET list == Listed(p)
       IN IF \A i \in DOMAIN proc[p].args : Accepted(list, proc[p].args[i])
          THEN /\ proc' = [proc EXCEPT ![p].step = "filter",
                      ![p].nums = FoldLeft(LAMBDA nums, arg : AddArgument(list, nums, arg),
                                           <<>>, proc[p].args)]
               /\ UNCHANGED <<daemonVars, countVars>>
          ELSE Refuse(p)

(* filter_undeletables: GetActiveSnapshot and GetDefaultSnapshot *)
DeleteFilter(p) ==
    /\ At(p, "delete", "filter")
    /\ proc' = [proc EXCEPT ![p].step = "delete",
                ![p].keep = {CURRENT, command_get_active_snapshot, command_get_default_snapshot},
                ![p].nums = filter(filter(filter(@, CURRENT), command_get_active_snapshot),
                                   command_get_default_snapshot)]
    /\ UNCHANGED <<daemonVars, countVars>>

(* Mutant: comparisons do not keep snapshots. *)
check_config_in_use_never == TRUE

check_config_in_use == \A p \in Procs : compared[p] = {}

check_snapshot_in_use(n) == \A p \in Procs : n \notin held[p]

(* What deleteSnapshot wants: not the active, not the default snapshot. *)
Deletable(n) == check_snapshot_in_use(n) /\ n \in Existing /\ n \notin {Active, defaultNum}

(* Client::delete_snapshots stops at the first snapshot it may not delete. *)
DeleteSnapshots(p) ==
    /\ At(p, "delete", "delete")
    /\ LET nums  == proc[p].nums
           ok(i) == Deletable(nums[i]) /\ \A j \in 1..(i - 1) : nums[j] # nums[i]
           bad   == {i \in DOMAIN nums : ~ok(i)}
           gone  == {nums[i] : i \in {j \in DOMAIN nums : \A b \in bad : j < b}}
       IN IF check_config_in_use
          THEN /\ command_delete_snapshots(gone)
               /\ IF bad = {}
                  THEN proc' = [proc EXCEPT ![p].step = "done",
                                            ![p].list = [n \in DOMAIN @ \ gone |-> @[n]]]
                  ELSE Exit(p)
          ELSE Exit(p) /\ UNCHANGED <<meta, userMounts>>
    /\ UNCHANGED <<latest, defaultNum, compared, held, countVars>>

-----------------------------------------------------------------------------
(* snapper modify: the metadata of the list with the field given replaced, *)
(* one request for each number; "default" is modify with --default.        *)

SetSnapshot(p) ==
    /\ proc[p].cmd \in {"modify", "default"} /\ proc[p].step = "begin"
    /\ IF proc[p].args = <<>> THEN Goto(p, "done") /\ UNCHANGED meta
       ELSE LET n == Head(proc[p].args)[1]
            IN IF n \in DOMAIN proc[p].list /\ n \in Existing
               THEN /\ command_set_snapshot(n, [proc[p].list[n] EXCEPT !.description = 1])
                    /\ IF proc[p].cmd = "default" THEN Goto(p, "default")
                       ELSE proc' = [proc EXCEPT ![p].args = Tail(@)]
               ELSE Exit(p) /\ UNCHANGED meta
    /\ UNCHANGED <<latest, defaultNum, compared, held, userMounts, countVars>>

(* Not a request: the process sets the default subvolume itself. *)
SetDefault(p) ==
    /\ At(p, "default", "default")
    /\ LET n == Head(proc[p].args)[1]
       IN IF n \in Existing
          THEN /\ defaultNum' = n
               /\ proc' = [proc EXCEPT ![p].args = Tail(@), ![p].step = "begin"]
          ELSE Exit(p) /\ UNCHANGED defaultNum
    /\ UNCHANGED <<meta, latest, compared, held, userMounts, countVars>>

-----------------------------------------------------------------------------
(* snapper create: the new snapshot is asked for once more to list it. *)

CreateSnapshot(p) ==
    /\ At(p, "create", "begin")
    /\ IF latest < MaxListed
       THEN /\ command_create_snapshot
            /\ proc' = [proc EXCEPT ![p].step = "get", ![p].nums = <<latest + 1>>]
       ELSE Exit(p) /\ UNCHANGED <<latest, meta>>
    /\ UNCHANGED <<defaultNum, compared, held, userMounts, countVars>>

GetSnapshot(p) ==
    /\ At(p, "create", "get")
    /\ LET n == proc[p].nums[1]
       IN IF n \in Existing
          THEN proc' = [proc EXCEPT ![p].step = "done",
                            ![p].list = [m \in DOMAIN @ \cup {n} |->
                                            IF m = n THEN command_get_xsnapshot(n) ELSE @[m]]]
          ELSE Exit(p)
    /\ UNCHANGED <<daemonVars, countVars>>

-----------------------------------------------------------------------------
(* snapper mount and umount, by user request *)

MountSnapshot(p) ==
    /\ At(p, "mount", "begin")
    /\ LET n == proc[p].args[1][1]
       IN IF n \in DOMAIN proc[p].list /\ n \in Existing
          THEN command_mount_snapshot(n) /\ Goto(p, "done")
          ELSE Exit(p) /\ UNCHANGED userMounts
    /\ UNCHANGED <<meta, latest, defaultNum, compared, held, countVars>>

UmountSnapshot(p) ==
    /\ At(p, "umount", "begin")
    /\ LET n == proc[p].args[1][1]
       IN IF n \in DOMAIN proc[p].list /\ n \in Existing
          THEN command_umount_snapshot(n) /\ Goto(p, "done")
          ELSE Exit(p) /\ UNCHANGED userMounts
    /\ UNCHANGED <<meta, latest, defaultNum, compared, held, countVars>>

-----------------------------------------------------------------------------
(* Comparisons.  "undochange" mounts the snapshots, "status" does not.     *)

CreateComparison(p) ==
    /\ proc[p].cmd \in {"status", "undochange"} /\ proc[p].step = "begin"
    /\ LET arg == proc[p].args[1]
       IN IF /\ Len(arg) = 2 /\ Accepted(Listed(p), arg)
             /\ proc[p].cmd = "undochange" => arg[1] # CURRENT
             /\ ToSet(arg) \subseteq Existing \cup {CURRENT}
          THEN /\ command_create_comparison(p, arg)
               /\ Goto(p, IF proc[p].cmd = "undochange" THEN "mount" ELSE "files")
          ELSE Exit(p) /\ UNCHANGED compared
    /\ UNCHANGED <<meta, latest, defaultNum, held, userMounts, countVars>>

(* The first snapshot of the pair that is not mounted yet, the current      *)
(* system is not mounted.                                                   *)
ComparisonMount(p) ==
    /\ At(p, "undochange", "mount")
    /\ LET arg  == proc[p].args[1]
           todo == {i \in 1..2 : arg[i] # CURRENT /\ arg[i] \notin held[p]}
       IN IF todo = {} THEN Goto(p, "files") /\ UNCHANGED held
          ELSE LET n == arg[Min(todo)]
               IN IF n \in Existing
                  THEN held' = [held EXCEPT ![p] = @ \cup {n}] /\ UNCHANGED proc
                  ELSE Exit(p) /\ UNCHANGED held
    /\ UNCHANGED <<meta, latest, defaultNum, compared, userMounts, countVars>>

(* GetFilesByPipe, or GetFiles if an old snapperd does not know it. *)
GetFiles(p) ==
    /\ proc[p].step = "files"
    /\ IF compared[p] # {} THEN Goto(p, "use") ELSE Exit(p)
    /\ UNCHANGED <<daemonVars, countVars>>

(* The destructor of ProxyComparisonDbus; the mounts stay until the client *)
(* leaves.                                                                 *)
DeleteComparison(p) ==
    /\ proc[p].step = "use"
    /\ command_delete_comparison(p)
    /\ Goto(p, "done")
    /\ UNCHANGED <<meta, latest, defaultNum, held, userMounts, countVars>>

-----------------------------------------------------------------------------
Done(p) ==
    /\ proc[p].step = "done"
    /\ Refuse(p)

(* A request fails, exit() is called or the process is killed. *)
Fail(p) ==
    /\ proc[p].step \notin {"idle", "done"}
    /\ errors < MaxErrors /\ errors' = errors + 1
    /\ Exit(p)
    /\ UNCHANGED <<daemonVars, started>>

(* snapperd notices that the client left. *)
Disconnect(p) ==
    /\ proc[p] = NoProc /\ (compared[p] # {} \/ held[p] # {})
    /\ compared' = [compared EXCEPT ![p] = {}] /\ held' = [held EXCEPT ![p] = {}]
    /\ UNCHANGED <<meta, latest, defaultNum, userMounts, proc, countVars>>

Singles == {<<n>> : n \in 1..3}

Starts(p) ==
    \/ \E a \in Arguments, rest \in SeqOf({<<n>> : n \in 0..3}, 1) : Start(p, "delete", <<a>> \o rest)
    \/ \E a, b \in Singles, cmd \in {"modify", "default"} : Start(p, cmd, <<a, b>>)
    \/ \E a \in Singles, cmd \in {"mount", "umount"} : Start(p, cmd, <<a>>)
    \/ \E a \in Arguments, cmd \in {"status", "undochange"} : Start(p, cmd, <<a>>)
    \/ Start(p, "create", <<>>)

Step(p) ==
    \/ DeleteArguments(p) \/ DeleteFilter(p) \/ DeleteSnapshots(p)
    \/ SetSnapshot(p) \/ SetDefault(p) \/ CreateSnapshot(p) \/ GetSnapshot(p)
    \/ MountSnapshot(p) \/ UmountSnapshot(p)
    \/ CreateComparison(p) \/ ComparisonMount(p) \/ GetFiles(p) \/ DeleteComparison(p)
    \/ Done(p) \/ Fail(p) \/ Disconnect(p)

Next == \E p \in Procs : Starts(p) \/ Step(p)

-----------------------------------------------------------------------------
TypeOK ==
    /\ Existing \subseteq 1..latest /\ latest \in 3..MaxListed
    /\ \A n \in Existing : meta[n] \in SMD
    /\ defaultNum \in 0..latest
    /\ \A p \in Procs : Cardinality(compared[p]) <= 1 /\ held[p] \subseteq 1..latest

(* What the user named: the numbers, and what lies between the ends of the  *)
(* ranges whichever way round they are.                                     *)
Named(p) ==
    UNION {LET a == proc[p].args[i]
           IN IF Len(a) = 1 THEN {a[1]}
              ELSE {n \in 0..latest : \/ a[1] <= n /\ n <= a[2]
                                      \/ a[2] <= n /\ n <= a[1]} : i \in DOMAIN proc[p].args}

(* The snapshots of a comparison exist until the command is done with them: *)
(* snapperd refuses to delete snapshots while a client compares.            *)
SourcesKept ==
    \A p \in Procs : proc[p].step \in {"mount", "files", "use"} =>
        \A pair \in compared[p] : ToSet(pair) \subseteq Existing \cup {CURRENT}

(* A "snapper delete" that succeeds has deleted everything the user named   *)
(* and that was in the list, except for the current system, the active and  *)
(* the default snapshot, although the snapshots in use, the list and the    *)
(* default snapshot change while it runs.                                   *)
DeleteComplete ==
    \A p \in Procs : At(p, "delete", "done") => Named(p) \cap Existing \subseteq proc[p].keep

(* Snapshots vanish only if a running "snapper delete" was given their      *)
(* number, and never the active or default one.                                *)
DeletedAsAsked ==
    \A n \in Existing \ DOMAIN meta' :
       n \notin {Active, defaultNum} /\ \E p \in Procs : At(p, "delete", "delete") /\ n \in Named(p)
=============================================================================
