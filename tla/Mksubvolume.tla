----------------------------- MODULE Mksubvolume ----------------------------
(***************************************************************************)
(* mksubvolume: makes a btrfs subvolume for a directory, enters it in      *)
(* /etc/fstab and mounts it.  Every step reuses what an earlier run left   *)
(* when it failed or was killed.  Two runs may overlap, and the            *)
(* administrator unmounts, edits /etc/fstab and makes directories.         *)
(***************************************************************************)
EXTENDS Integers, Sequences, SequencesExt

CONSTANTS Runs,           \* runs of mksubvolume
          MaxStarts,      \* bound: runs started
          MaxMkFaults,    \* bound: failing system calls and killed runs
          MaxEdits        \* bound: changes by the administrator

(* Paths are sequences of names; << >> is "/".                             *)
A  == <<"a">>
AB == <<"a", "b">>
Targets == {A, AB}

NoSubvol == << >>

(* A line of /etc/fstab; the device is "root" or "data".                   *)
Line(device, target, subvol) == [device |-> device, target |-> target, subvol |-> subvol]

NoLine == Line("none", << >>, NoSubvol)

VARIABLES
    fstab,          \* sequence of lines
    mtab,           \* [Targets -> the line that is mounted, or NoLine]
    defaultSubvol,  \* is the default subvolume of "root" below "@"
    subvols,        \* <<device, path>> of the subvolumes
    plainDirs,      \* <<device, path>> of the plain directories
    targetDirs,     \* the targets that exist as directories of the system
    nocow,          \* subvolumes with FS_NOCOW_FL
    mkRun,          \* [Runs -> state]
    tmpMounts,      \* runs whose temporary mount exists
    stale,          \* history: /etc/fstab was written from an old copy
    starts, mkFaults, edits

mkVars == <<fstab, mtab, defaultSubvol, subvols, plainDirs, targetDirs, nocow, mkRun,
            tmpMounts, stale, starts, mkFaults, edits>>

NoRun == [pc |-> "none", target |-> << >>, nocow |-> FALSE, table |-> << >>,
          at |-> NoLine, line |-> NoLine, seen |-> NoLine, result |-> "none"]

Init ==
    /\ fstab \in {<<Line("root", << >>, NoSubvol)>>,
                  <<Line("root", << >>, NoSubvol), Line("data", A, NoSubvol)>>}
    /\ mtab = [t \in Targets |-> IF \E i \in DOMAIN fstab : fstab[i].target = t
                                 THEN Line("data", A, NoSubvol) ELSE NoLine]
    /\ defaultSubvol \in BOOLEAN
    /\ subvols = {<<"root", <<"@">> >>}
    /\ plainDirs = {} /\ targetDirs = {A} /\ nocow = {}
    /\ mkRun = [r \in Runs |-> NoRun]
    /\ tmpMounts = {} /\ stale = FALSE
    /\ starts = 0 /\ mkFaults = 0 /\ edits = 0

bounds == <<starts, edits, defaultSubvol>>

system == <<fstab, mtab, subvols, plainDirs, targetDirs, nocow, tmpMounts, stale>>

Step(r, pc) == mkRun' = [mkRun EXCEPT ![r].pc = pc]

End(r, result) == mkRun' = [mkRun EXCEPT ![r] = [@ EXCEPT !.pc = "none", !.result = result,
                                                          !.table = << >>]]

NoFault == UNCHANGED mkFaults

(* An exception ends the run; destructors remove the temporary mount.      *)
Fails(r) ==
    /\ mkFaults < MaxMkFaults /\ mkFaults' = mkFaults + 1
    /\ tmpMounts' = tmpMounts \ {r}
    /\ End(r, "failed")
    /\ UNCHANGED <<fstab, mtab, subvols, plainDirs, targetDirs, nocow, stale>>

-----------------------------------------------------------------------------
(* mnt_table_find_target and mnt_table_find_target_up.                     *)

find_target(table, t) ==
    LET hits == SelectSeq(table, LAMBDA l : l.target = t)
    IN IF hits = << >> THEN NoLine ELSE hits[1]

RECURSIVE find_target_up(_, _)
find_target_up(table, t) ==
    IF find_target(table, t) # NoLine \/ t = << >> THEN find_target(table, t)
    ELSE find_target_up(table, Front(t))

dirname(t) == IF t = << >> THEN t ELSE Front(t)

(* Upwards from the target, past the mounts of subvolumes.                 *)
RECURSIVE find_filesystem(_, _)
find_filesystem(table, t) ==
    LET fs == find_target_up(table, t) IN
    IF fs = NoLine \/ fs.subvol = NoSubvol THEN fs
    ELSE IF t = << >> THEN NoLine
    ELSE find_filesystem(table, dirname(fs.target))

(* The '@' of the temporary mount, which only "root" has.                  *)
subvol_option(device) == IF device = "root" /\ defaultSubvol THEN <<"@">> ELSE << >>

subvolume_name(fs, t) == SubSeq(t, Len(fs.target) + 1, Len(t))

create_fstab_line(fs, t) ==
    Line(fs.device, t, subvol_option(fs.device) \o subvolume_name(fs, t))

(* The first half of doit: everything that only looks.                     *)
Start(r, t, cow) ==
    /\ mkRun[r].pc = "none" /\ starts < MaxStarts /\ starts' = starts + 1
    /\ LET fs == find_filesystem(fstab, t) IN
       IF \/ dirname(t) # << >> /\ dirname(t) \notin targetDirs
          \/ fs = NoLine \/ fs.target = t
       THEN mkRun' = [mkRun EXCEPT ![r] = [NoRun EXCEPT !.target = t, !.result = "refused"]]
       ELSE mkRun' = [mkRun EXCEPT ![r] =
               [pc |-> "check", target |-> t, nocow |-> cow, table |-> fstab, at |-> fs,
                line |-> create_fstab_line(fs, t), seen |-> NoLine, result |-> "none"]]
    /\ UNCHANGED <<system, edits, defaultSubvol>> /\ NoFault

do_consistency_checks(r) ==
    /\ mkRun[r].pc = "check"
    /\ IF /\ find_target(mkRun[r].table, mkRun[r].target) \in {NoLine, mkRun[r].line}
          /\ mtab[mkRun[r].target] \in {NoLine, mkRun[r].line}
       THEN mkRun' = [mkRun EXCEPT ![r].pc = "tmpmount", ![r].seen = mtab[mkRun[r].target]]
       ELSE End(r, "refused")
    /\ UNCHANGED <<system, bounds>> /\ NoFault

-----------------------------------------------------------------------------
do_tmp_mount(r) ==
    /\ mkRun[r].pc = "tmpmount"
    /\ \/ /\ tmpMounts' = tmpMounts \cup {r} /\ Step(r, "create") /\ NoFault
          /\ UNCHANGED <<fstab, mtab, subvols, plainDirs, targetDirs, nocow, stale>>
       \/ Fails(r)
    /\ UNCHANGED bounds

Path(r) == <<mkRun[r].line.device, mkRun[r].line.subvol>>

(* The parent directory is made when it is missing.  A subvolume that      *)
(* exists is reused, anything else in its place is an error.               *)
do_create_subvolume(r) ==
    /\ mkRun[r].pc = "create"
    /\ LET parent == <<mkRun[r].line.device, Front(mkRun[r].line.subvol)>>
           withParent == IF Len(subvolume_name(mkRun[r].at, mkRun[r].target)) = 1
                            \/ parent \in subvols
                         THEN plainDirs ELSE plainDirs \cup {parent}
       IN \/ /\ Path(r) \notin plainDirs
             /\ subvols' = subvols \cup {Path(r)} /\ plainDirs' = withParent
             /\ Step(r, "tmpumount") /\ NoFault
             /\ UNCHANGED <<fstab, mtab, targetDirs, nocow, tmpMounts, stale>>
          \/ /\ Path(r) \in plainDirs
             /\ plainDirs' = withParent
             /\ End(r, "refused") /\ tmpMounts' = tmpMounts \ {r} /\ NoFault
             /\ UNCHANGED <<fstab, mtab, subvols, targetDirs, nocow, stale>>
          \/ Fails(r)
    /\ UNCHANGED bounds

(* ~TmpMountpoint only complains when it fails.                            *)
do_tmp_umount(r) ==
    /\ mkRun[r].pc = "tmpumount"
    /\ \/ tmpMounts' = tmpMounts \ {r} /\ NoFault
       \/ mkFaults < MaxMkFaults /\ mkFaults' = mkFaults + 1 /\ UNCHANGED tmpMounts
    /\ Step(r, "fstab")
    /\ UNCHANGED <<fstab, mtab, subvols, plainDirs, targetDirs, nocow, stale, bounds>>

(* Mutant: the line is added without a look at the table.                  *)
AddFstabAlways(r) ==
    /\ mkRun[r].pc = "fstab"
    /\ \/ /\ fstab' = Append(mkRun[r].table, mkRun[r].line)
          /\ stale' = (stale \/ fstab # mkRun[r].table)
          /\ Step(r, "mount") /\ NoFault
          /\ UNCHANGED <<mtab, subvols, plainDirs, targetDirs, nocow, tmpMounts>>
       \/ Fails(r)
    /\ UNCHANGED bounds

(* replace_file writes the table as it was read at the start, with the new *)
(* line.                                                                   *)
do_add_fstab(r) ==
    /\ mkRun[r].pc = "fstab"
    /\ \/ /\ IF find_target(mkRun[r].table, mkRun[r].target) = NoLine
             THEN /\ fstab' = Append(mkRun[r].table, mkRun[r].line)
                  /\ stale' = (stale \/ fstab # mkRun[r].table)
             ELSE UNCHANGED <<fstab, stale>>
          /\ Step(r, "mount") /\ NoFault
          /\ UNCHANGED <<mtab, subvols, plainDirs, targetDirs, nocow, tmpMounts>>
       \/ Fails(r)
    /\ UNCHANGED bounds

(* mkdir of the target and the mount, unless something is mounted there.   *)
do_mount(r) ==
    /\ mkRun[r].pc = "mount"
    /\ \/ /\ targetDirs' = targetDirs \cup {mkRun[r].target}
          /\ mtab' = IF mtab[mkRun[r].target] = NoLine
                     THEN [mtab EXCEPT ![mkRun[r].target] = mkRun[r].line] ELSE mtab
          /\ Step(r, "cow") /\ NoFault
          /\ UNCHANGED <<fstab, subvols, plainDirs, nocow, tmpMounts, stale>>
       \/ Fails(r)
    /\ UNCHANGED bounds

(* On the root directory of whatever is mounted on the target by now.      *)
do_set_cow_flag(r) ==
    /\ mkRun[r].pc = "cow"
    /\ \/ /\ LET m == mtab[mkRun[r].target]
                 here == <<m.device, m.subvol>>
             IN nocow' = IF mkRun[r].nocow THEN nocow \cup {here} ELSE nocow \ {here}
          /\ End(r, "done") /\ NoFault
          /\ UNCHANGED <<fstab, mtab, subvols, plainDirs, targetDirs, tmpMounts, stale>>
       \/ Fails(r)
    /\ UNCHANGED bounds

-----------------------------------------------------------------------------
(* A run is killed: the temporary mount stays.                             *)
Kill(r) ==
    /\ mkRun[r].pc # "none" /\ mkFaults < MaxMkFaults /\ mkFaults' = mkFaults + 1
    /\ End(r, "killed")
    /\ UNCHANGED <<system, bounds>>

(* The administrator unmounts a target, removes or adds a line of another  *)
(* subvolume, mounts another filesystem or makes a plain directory where   *)
(* the subvolume would be.                                                 *)
Edit ==
    /\ edits < MaxEdits /\ edits' = edits + 1
    /\ \E t \in Targets :
          \/ /\ mtab[t] # NoLine /\ mtab' = [mtab EXCEPT ![t] = NoLine]
             /\ UNCHANGED <<fstab, plainDirs>>
          \/ /\ mtab[t] = NoLine /\ t \in targetDirs
             /\ mtab' = [mtab EXCEPT ![t] = Line("data", t, NoSubvol)]
             /\ UNCHANGED <<fstab, plainDirs>>
          \/ /\ find_target(fstab, t) # NoLine
             /\ fstab' = SelectSeq(fstab, LAMBDA l : l.target # t)
             /\ UNCHANGED <<mtab, plainDirs>>
          \/ /\ find_target(fstab, t) = NoLine
             /\ fstab' = Append(fstab, Line("root", t, <<"other">>))
             /\ UNCHANGED <<mtab, plainDirs>>
          \/ /\ <<"root", subvol_option("root") \o t>> \notin subvols \cup plainDirs
             /\ plainDirs' = plainDirs \cup {<<"root", subvol_option("root") \o t>>}
             /\ UNCHANGED <<fstab, mtab>>
    /\ UNCHANGED <<subvols, targetDirs, nocow, mkRun, tmpMounts, stale, starts,
                   defaultSubvol>> /\ NoFault

Next ==
    \/ Edit
    \/ \E r \in Runs :
          \/ \E t \in Targets, cow \in BOOLEAN : Start(r, t, cow)
          \/ do_consistency_checks(r) \/ do_tmp_mount(r) \/ do_create_subvolume(r)
          \/ do_tmp_umount(r) \/ do_add_fstab(r) \/ do_mount(r) \/ do_set_cow_flag(r)
          \/ Kill(r)

Spec == Init /\ [][Next]_mkVars

-----------------------------------------------------------------------------
(* A run that reports success leaves the subvolume made, in /etc/fstab and *)
(* mounted on the target, with the flag as asked, also after runs that     *)
(* failed or were killed anywhere; unless the administrator interfered or  *)
(* /etc/fstab was written from an old copy (replace_file writes what       *)
(* parse_fstab read).                                                      *)
SuccessComplete ==
    \A r \in Runs : mkRun'[r].result = "done" /\ mkRun[r].result # "done" /\ edits = 0 =>
       LET l == mkRun[r].line IN
       /\ <<l.device, l.subvol>> \in subvols' /\ mtab'[l.target] = l
       /\ stale \/ find_target(fstab', l.target) = l
       /\ (<<l.device, l.subvol>> \in nocow') = mkRun[r].nocow

(* What failed and killed runs leave never makes a later run refuse: only  *)
(* a failing system call or the administrator stops mksubvolume, or that   *)
(* the target is a filesystem of its own, or that its place is a plain     *)
(* directory (do_create_subvolume_pure makes one for /a when it is asked   *)
(* for /a/b first).                                                        *)
RerunWorks ==
    edits = 0 => \A r \in Runs : mkRun[r].result = "refused" =>
                     \/ [find_target(fstab, mkRun[r].target) EXCEPT !.device = ""] =
                            Line("", mkRun[r].target, NoSubvol)
                     \/ Path(r) \in plainDirs

(* /etc/fstab never gets a second line for a target, though overlapping    *)
(* runs look for one in a table they read earlier.                         *)
OneLine == \A i, j \in DOMAIN fstab : fstab[i].target = fstab[j].target => i = j

(* What do_consistency_checks found mounted on the target never has its    *)
(* flag changed, unless it is the asked subvolume.                         *)
OtherFlagsKept ==
    \A r \in Runs : mkRun[r].pc = "cow" /\ nocow' # nocow /\ mkRun'[r].result = "done" =>
       mtab[mkRun[r].target] \notin {mkRun[r].seen} \ {mkRun[r].line, NoLine}

=============================================================================
