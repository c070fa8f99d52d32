----------------------------- MODULE Filelists -----------------------------
(***************************************************************************)
(* Comparisons and the lists of changed files they keep (snapper/          *)
(* Comparison.cc, Snapshot::setReadOnly and deleteFilelists).  The list of *)
(* two read-only snapshots is saved in the directory of the snapshot with  *)
(* the higher number and loaded by later comparisons; making a snapshot    *)
(* writable removes the lists.                                             *)
(*                                                                         *)
(* The content of a snapshot is a version, the list of two snapshots the   *)
(* pair of the versions that were compared.  A comparison runs without     *)
(* big_mutex, so it is several steps; the comparer of a client holds a     *)
(* reference, which keeps the snapshots from being deleted.                *)
(***************************************************************************)
EXTENDS Integers

CONSTANTS
    MaxNum,      \* bound: the largest snapshot number
    MaxVersion,  \* bound: versions of the content of a snapshot
    Comparer,    \* threads that compare: clients and Backgrounds::worker
    Overlap,     \* whether a snapshot is made writable while a comparison runs
    CallMayFail  \* whether setSnapshotReadOnly of the filesystem may fail

ASSUME FilelistsAssumption ==
    /\ MaxNum \in Nat /\ MaxVersion \in Nat \ {0}
    /\ Overlap \in BOOLEAN /\ CallMayFail \in BOOLEAN

Num     == 1..MaxNum
Version == 1..MaxVersion
List    == Version \X Version
NoList  == <<0, 0>>

VARIABLES
    snapshots,   \* numbers of the existing snapshots
    content,     \* version of the content of each
    fsReadOnly,  \* the read-only flag of the filesystem snapshot
    readOnly,    \* Snapshot::read_only
    filelist,    \* filelist[n, dir]: filelist-n.txt in the directory dir
    comparison,  \* what each comparer does
    exposed      \* history: snapshots that were writable while a list of them was kept

diskVars == <<snapshots, content, fsReadOnly>>
vars == <<diskVars, readOnly, filelist, comparison, exposed>>

NoComparison == [step |-> "none", num1 |-> 1, num2 |-> 1, fixed |-> FALSE, files |-> NoList]

(* The types of the state; there is a list once create is through, and     *)
(* only then something to save.                                            *)
TypeOK ==
    /\ snapshots \in SUBSET Num
    /\ content \in [Num -> Version]
    /\ fsReadOnly \in [Num -> BOOLEAN] /\ readOnly \in [Num -> BOOLEAN]
    /\ filelist \in [Num \X Num -> List \cup {NoList}]
    /\ comparison \in [Comparer ->
           [step : {"none", "create", "save", "done"}, num1 : Num, num2 : Num,
            fixed : BOOLEAN, files : List \cup {NoList}]]
    /\ exposed \in SUBSET Num
    /\ \A w \in Comparer :
           comparison[w].step \in {"save", "done"} <=> comparison[w].files \in List

Init ==
    /\ snapshots = Num
    /\ content = [n \in Num |-> 1]
    /\ fsReadOnly = [n \in Num |-> TRUE] /\ readOnly = fsReadOnly
    /\ filelist = [p \in Num \X Num |-> NoList]
    /\ comparison = [w \in Comparer |-> NoComparison]
    /\ exposed = {}

-----------------------------------------------------------------------------

(* A comparison holds a reference from its beginning until it is deleted.  *)
InUse == \E w \in Comparer : comparison[w].step # "none"

Running == \E w \in Comparer : comparison[w].step \in {"create", "save"}

(* invertStatus of every line.                                             *)
Inverted(files) == <<files[2], files[1]>>

(* The file of the list: both load and save swap the numbers so that it is *)
(* in the directory of the higher one, and invert the lines if they did.   *)
Key(a, b) == IF a > b THEN <<b, a>> ELSE <<a, b>>

Straight(a, b, files) == IF a > b THEN Inverted(files) ELSE files

Fixed(a, b) == readOnly[a] /\ readOnly[b]

(* Mutant: the loaded lines are not inverted.                              *)
LoadAsSaved(w, a, b) ==
    /\ comparison[w].step = "none"
    /\ a # b /\ {a, b} \subseteq snapshots
    /\ Fixed(a, b) /\ filelist[Key(a, b)] # NoList
    /\ comparison' = [comparison EXCEPT ![w] =
           [step |-> "done", num1 |-> a, num2 |-> b, fixed |-> TRUE,
            files |-> filelist[Key(a, b)]]]
    /\ UNCHANGED <<diskVars, readOnly, filelist, exposed>>

(* initialize: a list that has been saved is loaded, and that is all ...   *)
Load(w, a, b) ==
    /\ comparison[w].step = "none"
    /\ a # b /\ {a, b} \subseteq snapshots
    /\ Fixed(a, b) /\ filelist[Key(a, b)] # NoList
    /\ comparison' = [comparison EXCEPT ![w] =
           [step |-> "done", num1 |-> a, num2 |-> b, fixed |-> TRUE,
            files |-> Straight(a, b, filelist[Key(a, b)])]]
    /\ UNCHANGED <<diskVars, readOnly, filelist, exposed>>

(* ... otherwise the directories are compared.                             *)
Compare(w, a, b) ==
    /\ comparison[w].step = "none"
    /\ a # b /\ {a, b} \subseteq snapshots
    /\ Fixed(a, b) => filelist[Key(a, b)] = NoList
    /\ comparison' = [comparison EXCEPT ![w] =
           [step |-> "create", num1 |-> a, num2 |-> b, fixed |-> Fixed(a, b), files |-> NoList]]
    /\ UNCHANGED <<diskVars, readOnly, filelist, exposed>>

(* create: cmpDirs has walked both snapshots.  The list is saved if the    *)
(* snapshots were read-only at the beginning.                              *)
Create(w) ==
    LET c == comparison[w]
    IN  /\ c.step = "create"
        /\ comparison' = [comparison EXCEPT
               ![w].step  = IF c.fixed THEN "save" ELSE "done",
               ![w].files = <<content[c.num1], content[c.num2]>>]
        /\ UNCHANGED <<diskVars, readOnly, filelist, exposed>>

(* create throws, or the thread is interrupted.                            *)
CreateFails(w) ==
    /\ comparison[w].step = "create"
    /\ comparison' = [comparison EXCEPT ![w] = NoComparison]
    /\ UNCHANGED <<diskVars, readOnly, filelist, exposed>>

(* save: a temporary file is renamed, so there is never half a list.       *)
Save(w) ==
    LET c == comparison[w]
    IN  /\ c.step = "save"
        /\ filelist' = [filelist EXCEPT ![Key(c.num1, c.num2)] = Straight(c.num1, c.num2, c.files)]
        /\ comparison' = [comparison EXCEPT ![w].step = "done"]
        /\ UNCHANGED <<diskVars, readOnly, exposed>>

(* The list cannot be written: the temporary file is removed.              *)
SaveFails(w) ==
    /\ comparison[w].step = "save"
    /\ comparison' = [comparison EXCEPT ![w].step = "done"]
    /\ UNCHANGED <<diskVars, readOnly, filelist, exposed>>

(* The client deletes the comparison, the worker goes on to the next.      *)
Drop(w) ==
    /\ comparison[w].step = "done"
    /\ comparison' = [comparison EXCEPT ![w] = NoComparison]
    /\ UNCHANGED <<diskVars, readOnly, filelist, exposed>>

-----------------------------------------------------------------------------

(* deleteFilelists: every list in the directory of n, and in the directory *)
(* of each snapshot m the file that filelist_name(m) names.                *)
DeletedFilelists(n) == {<<m, n>> : m \in Num} \cup {<<m, m>> : m \in snapshots}

WithoutFilelists(n) ==
    [p \in Num \X Num |-> IF p \in DeletedFilelists(n) THEN NoList ELSE filelist[p]]

(* A list of n is in the directory of a snapshot with a higher number, or  *)
(* is going to be saved.                                                   *)
ListKept(n) ==
    \/ \E m \in Num : m > n /\ filelist[n, m] # NoList
    \/ \E w \in Comparer :
           LET c == comparison[w]
           IN  c.fixed /\ c.step \in {"create", "save"} /\ n \in {c.num1, c.num2}

(* Mutant: the lists are kept.                                             *)
SetReadOnlyKeepsLists(n, ro) ==
    /\ n \in snapshots
    /\ readOnly[n] # ro
    /\ ~ro => Overlap \/ ~Running
    /\ readOnly' = [readOnly EXCEPT ![n] = ro]
    /\ fsReadOnly' = [fsReadOnly EXCEPT ![n] = ro]
    /\ exposed' = IF ~ro /\ ListKept(n) THEN exposed \cup {n} ELSE exposed
    /\ UNCHANGED <<snapshots, content, filelist, comparison>>

(* setReadOnly: the field first, then the filesystem, then the lists.      *)
SetReadOnly(n, ro) ==
    /\ n \in snapshots
    /\ readOnly[n] # ro
    /\ ~ro => Overlap \/ ~Running
    /\ readOnly' = [readOnly EXCEPT ![n] = ro]
    /\ fsReadOnly' = [fsReadOnly EXCEPT ![n] = ro]
    /\ filelist' = IF ro THEN filelist ELSE WithoutFilelists(n)
    /\ exposed' = IF ~ro /\ ListKept(n) THEN exposed \cup {n} ELSE exposed
    /\ UNCHANGED <<snapshots, content, comparison>>

(* The filesystem refuses: the field keeps the new value.                  *)
SetReadOnlyFails(n, ro) ==
    /\ CallMayFail
    /\ n \in snapshots
    /\ readOnly[n] # ro
    /\ readOnly' = [readOnly EXCEPT ![n] = ro]
    /\ exposed' = IF ro THEN exposed \cup {n} ELSE exposed
    /\ UNCHANGED <<diskVars, filelist, comparison>>

(* delete_snapshots, which checks the use count, and deleteSnapshot.       *)
DeleteSnapshot(n) ==
    /\ n \in snapshots /\ ~InUse
    /\ snapshots' = snapshots \ {n}
    /\ filelist' = WithoutFilelists(n)
    /\ UNCHANGED <<content, fsReadOnly, readOnly, comparison, exposed>>

(* Snapshots::read, when the Snapper has been unloaded.                    *)
Reload ==
    /\ ~InUse
    /\ readOnly' = [n \in Num |-> IF n \in snapshots THEN fsReadOnly[n] ELSE readOnly[n]]
    /\ UNCHANGED <<diskVars, filelist, comparison, exposed>>

(* Somebody writes to a writable snapshot.                                 *)
Write(n) ==
    /\ n \in snapshots /\ ~fsReadOnly[n]
    /\ content[n] < MaxVersion
    /\ content' = [content EXCEPT ![n] = @ + 1]
    /\ UNCHANGED <<snapshots, fsReadOnly, readOnly, filelist, comparison, exposed>>

Next ==
    \/ \E w \in Comparer :
           \/ \E a, b \in Num : Load(w, a, b) \/ Compare(w, a, b)
           \/ Create(w) \/ CreateFails(w) \/ Save(w) \/ SaveFails(w) \/ Drop(w)
    \/ \E n \in Num :
           \/ \E ro \in BOOLEAN : SetReadOnly(n, ro) \/ SetReadOnlyFails(n, ro)
           \/ DeleteSnapshot(n) \/ Write(n)
    \/ Reload

Spec == Init /\ [][Next]_vars

-----------------------------------------------------------------------------

Stale(a, b) ==
    a < b /\ Fixed(a, b) /\ filelist[a, b] \notin {NoList, <<content[a], content[b]>>}

(* A list that load would use is the one that create would compute now,    *)
(* whichever snapshots have been made writable, written and made read-only *)
(* again, unless a list of the snapshot was kept then: because it is in    *)
(* the directory of a higher one, because a comparison that was running    *)
(* saved it later, or because the filesystem refused to make the snapshot  *)
(* read-only (setReadOnly, deleteFilelists, initialize).                   *)
CacheFresh ==
    \A a, b \in snapshots : Stale(a, b) => {a, b} \cap exposed # {}

(* A comparison of two read-only snapshots shows what they contain, in the *)
(* order the client asked for, whether its list was computed or loaded     *)
(* (initialize, load, save, invertStatus), unless a list of one was kept   *)
(* while it was writable.                                                  *)
ComparisonRight ==
    \A w \in Comparer :
       LET c == comparison'[w]
       IN  comparison[w].step # "done" /\ c.step = "done" /\ c.fixed =>
               \/ c.files = <<content[c.num1], content[c.num2]>>
               \/ {c.num1, c.num2} \cap exposed # {}

(* No list of a snapshot survives its being writable: setReadOnly calls    *)
(* deleteFilelists, which is said to "remove all filelists of the snapshot *)
(* in the info directories of other snapshots" (Snapshot.cc:211).          *)
NoStaleList == \A a, b \in snapshots : ~Stale(a, b)

(* deleteSnapshot: no list is left in, or later saved to, the directory of *)
(* a snapshot that has been deleted, where it would keep the directory     *)
(* from being removed.                                                     *)
NothingLeftBehind ==
    \A n \in Num \ snapshots, m \in Num : filelist[m, n] = NoList
=============================================================================
