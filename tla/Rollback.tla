------------------------------ MODULE Rollback ------------------------------
(***************************************************************************)
(* The command "snapper rollback" (client/snapper/cmd-rollback.cc) on a    *)
(* btrfs root: the snapshots it has the daemon create and modify, and the  *)
(* default subvolume it sets itself (Btrfs::setDefault), while the system  *)
(* is changed and booted, snapshots are deleted and other rollbacks run.   *)
(*                                                                         *)
(* No lock of the config is taken.  Each request to the daemon and each    *)
(* change of the filesystem is a step; a process may end between any two.  *)
(***************************************************************************)
EXTENDS Integers, FiniteSetsExt

CONSTANTS
    Users,          \* processes that run the command
    Options,        \* what --cleanup-algorithm may be; "" if it is not given
    MaxSnapshot,    \* bound: the largest snapshot number
    MaxRollbacks,   \* bound: how many commands run
    MaxUpdates,     \* bound: changes of the running system
    MaxMishaps      \* bound: deletions, and processes that end before they are done

Numbers == 1..MaxSnapshot
Absent == [exists |-> FALSE, readOnly |-> FALSE, cleanup |-> "", content |-> 0]
Made(readOnly, cleanup, content) ==
    [exists |-> TRUE, readOnly |-> readOnly, cleanup |-> cleanup, content |-> content]

(* No snapshot: ProxySnapshots::end(), and the number of a subvolume that  *)
(* is no snapshot.  CURRENT is the snapshot 0.                             *)
End == 0
CURRENT == MaxSnapshot + 1
NoArgument == MaxSnapshot + 2

VARIABLES
    snapshot,    \* the snapshots by number
    highest,     \* the highest number, whose directory stays (UNIQUE_NUMBERS)
    rootContent, \* content of the subvolume that is no snapshot
    default,     \* the default subvolume: a snapshot or End
    active,      \* the subvolume that is mounted at /
    user,        \* the processes
    commands, updates, mishaps,
    mixed,       \* history: commands mixed, or ran in an ambit that is not the system's
    copies       \* history: the snapshots that a rollback made the default

rollbackVars == <<snapshot, highest, rootContent, default, active, user, commands, updates, mishaps,
                  mixed, copies>>

Exist == {n \in Numbers : snapshot[n].exists}
ReadOnly(n) == n # End /\ snapshot[n].readOnly
Content(n) == IF n = End THEN rootContent ELSE snapshot[n].content
Idle == [step |-> "idle", prev |-> End, clean |-> FALSE, arg |-> NoArgument, ambit |-> "classic",
         option |-> "", one |-> End, two |-> End, content |-> 0]

(* A system that was installed into a snapshot, writable or not, or one    *)
(* that was not set up for rollback.                                       *)
Init ==
    /\ \E n \in {End, 1}, readOnly \in BOOLEAN :
           /\ default = n /\ active = n
           /\ snapshot = [m \in Numbers |->
                  IF m = 1 THEN Made(readOnly, "", 0) ELSE Absent]
    /\ highest = 1
    /\ rootContent = 0 /\ user = [u \in Users |-> Idle]
    /\ commands = 0 /\ updates = 0 /\ mishaps = 0 /\ mixed = FALSE /\ copies = {}

(* Snapshots::nextNumber.                                                  *)
NextNumber == highest + 1

(* Btrfs::getDefault and getActive with idToNum: the subvolume as a        *)
(* snapshot, if it is one.                                                 *)
getDefault == IF default \in Exist THEN default ELSE End
getActive == IF active \in Exist THEN active ELSE End

-----------------------------------------------------------------------------

Goto(u, step) == user' = [user EXCEPT ![u].step = step]
Exit(u) == user' = [user EXCEPT ![u] = Idle]

(* The command starts: it reads the list of snapshots, and with it the     *)
(* cleanup algorithm of the default one; unless --ambit is given, the      *)
(* default snapshot decides.                                               *)
Start(u, arg, ambit, option) ==
    /\ user[u] = Idle /\ commands < MaxRollbacks /\ commands' = commands + 1
    /\ LET prev == getDefault
           auto == IF ReadOnly(prev) THEN "transactional" ELSE "classic"
       IN  /\ ambit = "auto" => prev # End
           /\ user' = [user EXCEPT ![u] =
                  [step |-> "first", prev |-> prev,
                   clean |-> prev # End /\ snapshot[prev].cleanup = "",
                   arg |-> arg, ambit |-> IF ambit = "auto" THEN auto ELSE ambit,
                   option |-> option, one |-> End, two |-> End, content |-> 0]]
    /\ mixed' = (mixed \/ (\E v \in Users : user[v] # Idle)
                  \/ (ambit = "transactional" /\ ~ReadOnly(getDefault)))
    /\ UNCHANGED <<snapshot, highest, rootContent, default, active, updates, mishaps, copies>>

(* createSingleSnapshotOfDefault without an argument, otherwise            *)
(* createSingleSnapshot: both are read-only.                               *)
ClassicFirst(u) ==
    /\ user[u].step = "first" /\ user[u].ambit = "classic" /\ NextNumber \in Numbers
    /\ LET of == IF user[u].arg = NoArgument THEN default ELSE active
       IN  snapshot' = [snapshot EXCEPT ![NextNumber] =
               Made(TRUE, IF user[u].option = "" THEN "number" ELSE user[u].option, Content(of))]
    /\ user' = [user EXCEPT ![u].one = NextNumber, ![u].step = "second"]
    /\ highest' = NextNumber
    /\ UNCHANGED <<rootContent, default, active, commands, updates, mishaps, mixed, copies>>

(* createSingleSnapshot of the current system or of the snapshot asked     *)
(* for, which is writable.                                                 *)
ClassicSecond(u) ==
    /\ user[u].step = "second" /\ NextNumber \in Numbers
    /\ LET of == IF user[u].arg \in {NoArgument, CURRENT} THEN active ELSE user[u].arg
       IN  /\ of = End \/ of \in Exist
           /\ snapshot' = [snapshot EXCEPT ![NextNumber] = Made(FALSE, user[u].option, Content(of))]
           /\ user' = [user EXCEPT ![u].two = NextNumber, ![u].content = Content(of), ![u].step = "modify"]
    /\ highest' = NextNumber
    /\ UNCHANGED <<rootContent, default, active, commands, updates, mishaps, mixed, copies>>

(* The previous default snapshot gets the cleanup algorithm number if it   *)
(* has none, as the command read it when it started.                       *)
ClassicModify(u) ==
    /\ user[u].step = "modify"
    /\ user[u].clean => user[u].prev \in Exist
    /\ snapshot' = [n \in Numbers |->
           IF user[u].clean /\ n = user[u].prev THEN [snapshot[n] EXCEPT !.cleanup = "number"]
           ELSE snapshot[n]]
    /\ Goto(u, "default")
    /\ UNCHANGED <<highest, rootContent, default, active, commands, updates, mishaps, mixed, copies>>

(* In a transactional system the snapshot itself becomes the default and   *)
(* loses its cleanup algorithm.  It exits if there is no previous default, *)
(* if the snapshot is the default, or if the daemon refuses to modify it.  *)
Transactional(u) ==
    /\ user[u].step = "first" /\ user[u].ambit = "transactional"
    /\ LET to == IF user[u].arg = NoArgument THEN getActive ELSE user[u].arg
       IN  /\ user[u].prev # End /\ to # user[u].prev /\ to \in Exist
           /\ snapshot' = [snapshot EXCEPT ![to].cleanup = ""]
           /\ user' = [user EXCEPT ![u].two = to, ![u].content = Content(to), ![u].step = "default"]
    /\ UNCHANGED <<highest, rootContent, default, active, commands, updates, mishaps, mixed, copies>>

(* Btrfs::setDefault, done by the process itself, and the end of the       *)
(* command.                                                                *)
SetDefault(u) ==
    /\ user[u].step = "default" /\ user[u].two \in Exist
    /\ default' = user[u].two
    /\ copies' = copies \cup (IF user[u].ambit = "classic" THEN {user[u].two} ELSE {})
    /\ Exit(u)
    /\ UNCHANGED <<snapshot, highest, rootContent, active, commands, updates, mishaps, mixed>>

(* A request is refused, since a snapshot was deleted, or for lack of      *)
(* space, or the process is killed: the command ends where it is.          *)
Refused(u) ==
    /\ user[u] # Idle
    /\ \/ mishaps < MaxMishaps /\ mishaps' = mishaps + 1
       \/ /\ UNCHANGED mishaps
          /\ \/ user[u].step \in {"first", "second"} /\ NextNumber \notin Numbers
             \/ user[u].step = "first" /\ user[u].ambit = "transactional" /\ ~ENABLED Transactional(u)
             \/ user[u].step = "second" /\ user[u].arg \notin Exist \cup {NoArgument, CURRENT}
             \/ user[u].step = "modify" /\ user[u].prev \notin Exist
             \/ user[u].step = "default" /\ user[u].two \notin Exist
    /\ Exit(u)
    /\ UNCHANGED <<snapshot, highest, rootContent, default, active, commands, updates, mixed, copies>>

-----------------------------------------------------------------------------
(* The rest of the system.                                                 *)

(* The running system changes, if it can be written to.                    *)
Update ==
    /\ updates < MaxUpdates /\ updates' = updates + 1
    /\ IF active = End THEN rootContent' = updates + 1 /\ UNCHANGED snapshot
       ELSE /\ ~snapshot[active].readOnly /\ UNCHANGED rootContent
            /\ snapshot' = [snapshot EXCEPT ![active].content = updates + 1]
    /\ UNCHANGED <<highest, default, active, user, commands, mishaps, mixed, copies>>

(* A boot mounts the default subvolume at / and ends all processes.        *)
Boot ==
    /\ active # default /\ active' = default /\ user' = [u \in Users |-> Idle]
    /\ UNCHANGED <<snapshot, highest, rootContent, default, commands, updates, mishaps, mixed, copies>>

(* Mutant: the default snapshot may be deleted.                            *)
DeleteSnapshotDefault(n) ==
    /\ mishaps < MaxMishaps /\ mishaps' = mishaps + 1
    /\ n \in Exist \ {active}
    /\ snapshot' = [snapshot EXCEPT ![n] = Absent]
    /\ copies' = copies \ {n}
    /\ UNCHANGED <<highest, rootContent, default, active, user, commands, updates, mixed>>

(* Snapshots::deleteSnapshot, asked for by a user or a cleanup algorithm.  *)
DeleteSnapshot(n) ==
    /\ mishaps < MaxMishaps /\ mishaps' = mishaps + 1
    /\ n \in Exist \ {getDefault, getActive}
    /\ snapshot' = [snapshot EXCEPT ![n] = Absent]
    /\ copies' = copies \ {n}
    /\ UNCHANGED <<highest, rootContent, default, active, user, commands, updates, mixed>>

(* No command runs.                                                        *)
Rest == (\A u \in Users : user[u] = Idle) /\ UNCHANGED rollbackVars

Next ==
    \/ \E u \in Users :
           \/ \E arg \in Exist \cup {NoArgument, CURRENT}, ambit \in {"auto", "classic", "transactional"},
                 option \in Options :
                  Start(u, arg, ambit, option)
           \/ ClassicFirst(u) \/ ClassicSecond(u) \/ ClassicModify(u) \/ Transactional(u)
           \/ SetDefault(u) \/ Refused(u)
    \/ Update \/ Boot \/ Rest
    \/ \E n \in Numbers : DeleteSnapshot(n)

Spec == Init /\ [][Next]_rollbackVars

-----------------------------------------------------------------------------
(* Whatever rollbacks, deletions and boots interleave, there is always a   *)
(* subvolume to boot and the one that is mounted exists.                   *)
Bootable == default \in Exist \cup {End} /\ active \in Exist \cup {End}

(* A classic rollback leaves a default subvolume that can be written to    *)
(* and has the content that was asked for, unless that snapshot was        *)
(* running and changed meanwhile; a transactional one sets the snapshot    *)
(* itself.                                                                 *)
BootsWhatWasAsked ==
    \A u \in Users :
       user[u].step = "default" /\ user'[u] = Idle /\ default' # default =>
           /\ user[u].ambit = "classic" => ~snapshot'[default'].readOnly
           /\ Content(default)' = user[u].content \/ active \in {default', user[u].two}

(* The snapshots a classic rollback made the default do not pile up: as    *)
(* long as commands do not overlap and run in the ambit of the system, one *)
(* that is not the default any more has a cleanup algorithm.               *)
SupersededCleanable ==
    \A n \in copies : mixed \/ n = default \/ snapshot[n].cleanup # ""

TypeOK ==
    /\ snapshot \in [Numbers -> [exists : BOOLEAN, readOnly : BOOLEAN,
                                 cleanup : {"", "number", "timeline"}, content : 0..MaxUpdates]]
    /\ commands \in 0..MaxRollbacks /\ mishaps \in 0..MaxMishaps
    /\ \A u \in Users : user[u].step \in {"idle", "first", "second", "modify", "default"}
    /\ \A n \in copies : n \in Exist
=============================================================================
