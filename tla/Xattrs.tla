------------------------------- MODULE Xattrs -------------------------------
(***************************************************************************)
(* Extended attributes and ACLs of one file: how they are compared         *)
(* (cmpFilesXattrs) and undone (XAModification, Acls, the last half of     *)
(* File::doUndo).  The attributes are set one by one, while other          *)
(* processes change the same file and system calls fail.                   *)
(***************************************************************************)
EXTENDS Integers, Sequences, SequencesExt, FiniteSets

CONSTANTS MaxXaFaults,     \* bound: failing system calls
          MaxForeign,      \* bound: changes by other processes
          MaxUndos         \* bound: undos of the file

(* The names, in the order of std::map.  The first two hold the ACLs; the  *)
(* kernel removes a capability when the owner of the file changes.         *)
XaNames == <<"system.posix_acl_access", "system.posix_acl_default", "security.capability",
             "user.a">>

acl_signatures == {XaNames[1], XaNames[2]}

Absent == "absent"

ValuesOf(name) == IF name = "user.a" THEN {Absent, "", "x"} ELSE {Absent, "x"}

Attributes == {a \in [Range(XaNames) -> {Absent, "", "x"}] :
                  \A n \in Range(XaNames) : a[n] \in ValuesOf(n)}

Has(a, n) == a[n] # Absent

None == [n \in Range(XaNames) |-> Absent]

VARIABLES
    fileKind,        \* "file", "dir" or "link"
    xaPre, xaPost,   \* the attributes in the two snapshots
    inPost,          \* is the file in the second snapshot at all
    ownerChanged,    \* between the two snapshots
    xaSystem,        \* the attributes of the file of the system
    preToPost,       \* the status found by the comparison
    undoPc,
    todo,            \* the operations left of XAModification::serializeTo
    statistic,       \* how many xaCreated, xaDeleted and xaReplaced
    undoOk,
    undosDone, xaFaults, foreign

xaVars == <<fileKind, xaPre, xaPost, inPost, ownerChanged, xaSystem, preToPost, undoPc,
            todo, statistic, undoOk, undosDone, xaFaults, foreign>>

given == <<fileKind, xaPre, xaPost, inPost, ownerChanged>>

(* Only directories have a default ACL, only files a capability, and       *)
(* symbolic links have none of these.                                      *)
Possible(a, kind) ==
    /\ kind # "dir" => ~Has(a, XaNames[2])
    /\ kind = "link" => a = None
    /\ kind = "dir" => ~Has(a, XaNames[3])

Init ==
    /\ fileKind \in {"file", "dir", "link"}
    /\ xaPre \in {a \in Attributes : Possible(a, fileKind)}
    /\ inPost \in BOOLEAN
    /\ xaPost \in IF inPost THEN {a \in Attributes : Possible(a, fileKind)} ELSE {None}
    /\ ownerChanged \in IF inPost THEN BOOLEAN ELSE {FALSE}
    /\ xaSystem = xaPost /\ preToPost = {} /\ undoPc = "compare" /\ todo = << >>
    /\ statistic = 0 /\ undoOk = TRUE /\ undosDone = 0 /\ xaFaults = 0 /\ foreign = 0

Fault == xaFaults < MaxXaFaults /\ xaFaults' = xaFaults + 1

NoFault == UNCHANGED xaFaults

-----------------------------------------------------------------------------
(* CompareAcls: the attributes that hold ACLs.                             *)
Acls(a) == [n \in acl_signatures |-> a[n]]

cmpFilesXattrs(a, b) ==
    IF a = b THEN {} ELSE {"XATTRS"} \cup (IF Acls(a) = Acls(b) THEN {} ELSE {"ACL"})

(* When the attributes cannot be read, they count as different.            *)
CompareFiles ==
    /\ undoPc = "compare"
    /\ LET owner == IF ownerChanged THEN {"OWNER"} ELSE {} IN
       IF ~inPost THEN preToPost' = {"DELETED"} /\ NoFault
       ELSE \/ preToPost' = owner \cup cmpFilesXattrs(xaPre, xaPost) /\ NoFault
            \/ preToPost' = owner \cup {"XATTRS", "ACL"} /\ Fault
    /\ undoPc' = "idle"
    /\ UNCHANGED <<given, xaSystem, todo, statistic, undoOk, undosDone, foreign>>

(* createAllTypes gives a new file the ACL its directory hands down; it    *)
(* takes a file or directory that exists, but not a symbolic link.         *)
(* modifyAllTypes sets the owner.                                          *)
DoUndo ==
    /\ undoPc = "idle" /\ undosDone < MaxUndos
    /\ undosDone' = undosDone + 1
    /\ undoOk' = ~(preToPost = {"DELETED"} /\ fileKind = "link" /\ undosDone > 0)
    /\ xaSystem' \in
          CASE preToPost = {"DELETED"} /\ undosDone = 0 ->
                   {[None EXCEPT ![XaNames[1]] = v] :
                       v \in IF fileKind = "link" THEN {Absent} ELSE ValuesOf(XaNames[1])}
            [] preToPost \cap {"OWNER", "DELETED"} # {} -> {[xaSystem EXCEPT ![XaNames[3]] = Absent]}
            [] OTHER -> {xaSystem}
    /\ undoPc' = IF preToPost \cap {"XATTRS", "DELETED"} # {} THEN "xattrs"
                 ELSE IF "ACL" \in preToPost THEN "acls" ELSE "idle"
    /\ UNCHANGED <<given, preToPost, todo, statistic, foreign>> /\ NoFault

-----------------------------------------------------------------------------
(* XAModification: both maps are gone through in the order of the names.   *)

Names(a) == SelectSeq(XaNames, LAMBDA n : Has(a, n))

Op(op, name) == <<[op |-> op, name |-> name]>>

Before(m, n) == \E i, j \in DOMAIN XaNames : XaNames[i] = m /\ XaNames[j] = n /\ i < j

RECURSIVE Merge(_, _, _, _)
Merge(src, s, dest, d) ==
    IF d = << >> THEN FlattenSeq([i \in DOMAIN s |-> Op("create", s[i])])
    ELSE IF s = << >> THEN FlattenSeq([i \in DOMAIN d |-> Op("delete", d[i])])
    ELSE IF Head(s) = Head(d)
         THEN (IF src[Head(s)] # dest[Head(s)] THEN Op("replace", Head(s)) ELSE << >>) \o
              Merge(src, Tail(s), dest, Tail(d))
    ELSE IF Before(Head(s), Head(d))
         THEN Op("create", Head(s)) \o Merge(src, Tail(s), dest, d)
    ELSE Op("delete", Head(d)) \o Merge(src, s, dest, Tail(d))

filterOutAcls(ops) == SelectSeq(ops, LAMBDA o : o.name \notin acl_signatures)

(* serializeTo creates, then deletes, then replaces.                       *)
InOrder(ops) ==
    LET of(op) == SelectSeq(ops, LAMBDA o : o.op = op)
    IN of("create") \o of("delete") \o of("replace")

XAModification(src, dest) ==
    InOrder(filterOutAcls(Merge(src, Names(src), dest, Names(dest))))

AfterXattrs == IF preToPost \cap {"ACL", "DELETED"} # {} THEN "acls" ELSE "idle"

ReadXattrs ==
    /\ undoPc = "xattrs"
    /\ \/ /\ todo' = XAModification(xaPre, xaSystem)
          /\ statistic' = Len(todo')
          /\ undoPc' = "apply" /\ NoFault /\ UNCHANGED undoOk
       \/ Fault /\ undoOk' = FALSE /\ undoPc' = AfterXattrs /\ UNCHANGED <<todo, statistic>>
    /\ UNCHANGED <<given, xaSystem, preToPost, undosDone, foreign>>

Written(o) == IF o.op = "delete" THEN Absent ELSE xaPre[o.name]

(* One lsetxattr or lremovexattr.  XATTR_CREATE fails for an attribute     *)
(* that exists, XATTR_REPLACE and lremovexattr for one that does not.      *)
Apply ==
    /\ undoPc = "apply"
    /\ LET fails == /\ undoOk' = FALSE /\ todo' = << >> /\ undoPc' = AfterXattrs
                    /\ UNCHANGED xaSystem
       IN IF todo = << >>
          THEN undoPc' = AfterXattrs /\ UNCHANGED <<xaSystem, todo, undoOk>> /\ NoFault
          ELSE \/ /\ (Head(todo).op = "create") # Has(xaSystem, Head(todo).name)
                  /\ xaSystem' = [xaSystem EXCEPT ![Head(todo).name] = Written(Head(todo))]
                  /\ todo' = Tail(todo) /\ NoFault /\ UNCHANGED <<undoPc, undoOk>>
               \/ Fault /\ fails
               \/ (Head(todo).op = "create") = Has(xaSystem, Head(todo).name) /\ NoFault /\ fails
    /\ UNCHANGED <<given, preToPost, statistic, undosDone, foreign>>

-----------------------------------------------------------------------------
(* File::modifyAcls: the access ACL, for a directory then the default ACL. *)

SetAcl(name, next) ==
    /\ \/ xaSystem' = [xaSystem EXCEPT ![name] = xaPre[name]] /\ NoFault
          /\ undoPc' = next /\ UNCHANGED undoOk
       \/ Fault /\ undoOk' = FALSE /\ undoPc' = "idle" /\ UNCHANGED xaSystem
    /\ UNCHANGED <<given, preToPost, todo, statistic, undosDone, foreign>>

AccessAcl ==
    /\ undoPc = "acls" /\ fileKind # "link"
    /\ SetAcl(XaNames[1], IF fileKind = "dir" THEN "default" ELSE "idle")

DefaultAcl == undoPc = "default" /\ SetAcl(XaNames[2], "idle")

(* Acls(path) of a symbolic link is empty.                                 *)
NoAcls ==
    /\ undoPc = "acls" /\ fileKind = "link"
    /\ undoPc' = "idle"
    /\ UNCHANGED <<given, xaSystem, preToPost, todo, statistic, undoOk, undosDone, xaFaults,
                   foreign>>

(* Another process sets or removes an attribute of the file.               *)
Foreign ==
    /\ foreign < MaxForeign /\ undoPc # "compare" /\ (inPost \/ undosDone > 0)
    /\ foreign' = foreign + 1
    /\ \E n \in Range(XaNames), v \in {Absent, "", "x"} :
          /\ v \in ValuesOf(n)
          /\ xaSystem' = [xaSystem EXCEPT ![n] = v]
          /\ xaSystem' # xaSystem /\ Possible(xaSystem', fileKind)
    /\ UNCHANGED <<given, preToPost, undoPc, todo, statistic, undoOk, undosDone, xaFaults>>

Next ==
    \/ CompareFiles \/ DoUndo \/ ReadXattrs \/ Apply
    \/ AccessAcl \/ DefaultAcl \/ NoAcls \/ Foreign

Spec == Init /\ [][Next]_xaVars

-----------------------------------------------------------------------------
Undone == undosDone > 0 /\ undoPc = "idle" /\ undoOk

(* An undo that reports success has given the file of the system all       *)
(* attributes and ACLs of the first snapshot that the comparison found     *)
(* different, also when an earlier undo stopped half-way (serializeTo      *)
(* returns at the first error).  Changes other processes make meanwhile    *)
(* are outside this promise.                                               *)
XaRestored ==
    Undone /\ foreign = 0 =>
        /\ preToPost \cap {"XATTRS", "DELETED"} # {} =>
               \A n \in Range(XaNames) \ acl_signatures : xaSystem[n] = xaPre[n]
        /\ preToPost \cap {"ACL", "DELETED"} # {} => Acls(xaSystem) = Acls(xaPre)

(* An undo of attributes never changes one that is already as it was in    *)
(* the first snapshot (serializeTo has an operation only for differences), *)
(* so a reader of the file never misses it.  The owner is another matter:  *)
(* lchown drops the capability.                                            *)
SameUntouched ==
    foreign' = foreign /\ undoPc \in {"apply", "acls", "default"} =>
       \A n \in Range(XaNames) : xaSystem[n] = xaPre[n] => xaSystem'[n] = xaPre[n]

(* An undo that met neither an error nor another process reports success:  *)
(* no operation of XAModification is refused because an earlier one, or an *)
(* earlier undo, was done already.  (A symbolic link is the exception.)    *)
RepeatedUndoSucceeds == undoOk \/ xaFaults > 0 \/ foreign > 0 \/ fileKind = "link"

=============================================================================
