-------------------------------- MODULE Undo --------------------------------
(***************************************************************************)
(* Undoing the changes between two snapshots (snapper/File.cc and          *)
(* client/snapper/cmd-undochange.cc).  The files of the comparison are     *)
(* marked, brought into an order and undone one by one in the running      *)
(* system, which may have changed since the second snapshot.               *)
(***************************************************************************)
EXTENDS Compare, Functions

VARIABLES
    pre, post,      \* the trees of the two snapshots
    system,         \* the tree of the system
    before,         \* the system before the first step
    entries,        \* Files::entries
    undo,           \* the names marked with setUndo
    steps,          \* the undo steps still to do, files of entries
    failed,         \* some step failed
    undoing

undoVars == <<pre, post, system, before, entries, undo, steps, failed, undoing>>

Empty == [p \in {} |-> 0]

Init ==
    /\ pre = Empty /\ post = Empty /\ system = Empty /\ before = Empty
    /\ entries = <<>> /\ undo = {} /\ steps = <<>>
    /\ failed = FALSE /\ undoing = FALSE

-----------------------------------------------------------------------------
(* The trees: a, which may be a directory with an entry that may be one    *)
(* too, and b.                                                             *)

Node(type, data, attr) ==
    [type |-> type, data |-> <<data, data>>, perms |-> attr, owner |-> attr,
     xattrs |-> attr, foreign |-> FALSE]

(* One of the files has only a new mtime.                                  *)
Leaves ==
    {Node("reg", 0, 0), Node("reg", 1, 0), Node("reg", 0, 1), Node("fifo", 0, 0),
     [Node("reg", 0, 0) EXCEPT !.data = <<0, 2>>]}

Dirs == {Node("dir", 0, 0), Node("dir", 0, 1)}

Trees ==
    LET a == <<1>>
        b == <<2>>
        sub == {Empty} \cup {(<<1, 1>> :> n) : n \in Leaves \cup Dirs \cup {Node("lnk", 0, 0)}}
               \cup {(<<1, 1>> :> Node("dir", 0, 0) @@ <<1, 1, 1>> :> n) : n \in Leaves}
    IN  {x @@ y : x \in {Empty} \cup {(a :> n) : n \in Leaves} \cup {(a :> d @@ s) : d \in Dirs, s \in sub},
                  y \in {Empty, (b :> Node("reg", 0, 0))}}

(* What happened in the system since: nothing, a file or directory is     *)
(* gone, or there is a new file.                                           *)
Disturbed(tree) ==
    {tree}
    \cup {Restrict(tree, {q \in DOMAIN tree : ~ IsPrefix(p, q)}) : p \in DOMAIN tree}
    \cup {(Append(d, 1) :> Node("reg", 1, 1)) @@ tree :
            d \in {e \in DOMAIN tree : IsDir(tree[e]) /\ Append(e, 1) \notin DOMAIN tree}}

-----------------------------------------------------------------------------
(* Files: sorted by name, a directory before what is in it.                *)

cmp_lt(name1, name2) ==
    \/ IsStrictPrefix(name1, name2)
    \/ \E i \in 1 .. Len(name1) \cap 1 .. Len(name2) :
          /\ SubSeq(name1, 1, i - 1) = SubSeq(name2, 1, i - 1)
          /\ name1[i] < name2[i]

sort(files) == SetToSortSeq(files, LAMBDA f, g : cmp_lt(f.name, g.name))

(* Mutant: the created files are deleted in the order of the list.         *)
getUndoStepsForward(files, marked) ==
    LET chosen == SelectSeq(files, LAMBDA f : f.name \in marked)
    IN  SelectSeq(chosen, LAMBDA f : f.status = {CREATED})
        \o SelectSeq(chosen, LAMBDA f : f.status # {CREATED})

(* What was created is deleted, from the end of the list on, then the rest *)
(* is done in the order of the list.                                       *)
getUndoSteps(files, marked) ==
    LET chosen == SelectSeq(files, LAMBDA f : f.name \in marked)
    IN  Reverse(SelectSeq(chosen, LAMBDA f : f.status = {CREATED}))
        \o SelectSeq(chosen, LAMBDA f : f.status # {CREATED})

-----------------------------------------------------------------------------
(* One step.  Each operation returns the tree and whether it succeeded.    *)

Ok(tree) == [tree |-> tree, ok |-> TRUE]
Failure(tree) == [tree |-> tree, ok |-> FALSE]

(* b where a succeeded                                                     *)
Then(a, b(_)) == IF a.ok THEN b(a.tree) ELSE a

Set(tree, p, node) == (p :> node) @@ tree

(* mkdir with 0777 for the missing directories above                       *)
createParentDirectories(tree, p) ==
    LET above == {SubSeq(p, 1, i) : i \in 1 .. Len(p) - 1}
    IN  IF \E d \in above \cap DOMAIN tree : ~ IsDir(tree[d])
        THEN Failure(tree)
        ELSE Ok([d \in above \ DOMAIN tree |-> Node("dir", 0, 2)] @@ tree)

(* rmdir of a directory with entries fails; devices, fifos and sockets are *)
(* left alone.                                                             *)
deleteAllTypes(tree, p) ==
    IF p \notin DOMAIN tree \/ tree[p].type \notin {"dir", "reg", "lnk"}
    THEN Ok(tree)
    ELSE IF \E q \in DOMAIN tree : IsStrictPrefix(p, q)
    THEN Failure(tree)
    ELSE Ok(Restrict(tree, DOMAIN tree \ {p}))

(* createDirectory, createFile, createLink: from the first snapshot, with  *)
(* the owner and the permissions, without the extended attributes.         *)
createType(tree, p) ==
    LET node == [pre[p] EXCEPT !.xattrs = IF p \in DOMAIN tree THEN tree[p].xattrs ELSE 0]
        fits == CASE node.type = "dir" -> p \in DOMAIN tree => IsDir(tree[p])
                  [] node.type = "reg" -> p \in DOMAIN tree => tree[p].type = "reg"
                  [] node.type = "lnk" -> p \notin DOMAIN tree
                  [] OTHER -> FALSE
    IN  IF node.type = "fifo" THEN Ok(tree)
        ELSE IF fits THEN Ok(Set(tree, p, node)) ELSE Failure(tree)

createAllTypes(tree, p) ==
    IF p \notin DOMAIN pre
    THEN Failure(tree)
    ELSE Then(createParentDirectories(tree, p), LAMBDA t : createType(t, p))

(* lchown and chmod                                                        *)
modifyAttributes(tree, p, status) ==
    LET owner == {OWNER} \cap status # {}
        perms == {OWNER, PERMISSIONS} \cap status # {} /\ pre[p].type # "lnk"
    IN  IF ~ owner /\ ~ perms THEN Ok(tree)
        ELSE IF p \notin DOMAIN tree THEN Failure(tree)
        ELSE Ok([tree EXCEPT ![p].owner = IF owner THEN pre[p].owner ELSE @,
                             ![p].perms = IF perms THEN pre[p].perms ELSE @])

modifyAllTypes(tree, p, status) ==
    IF p \notin DOMAIN pre
    THEN Failure(tree)
    ELSE Then(Then(createParentDirectories(tree, p),
                   LAMBDA t : IF CONTENT \in status /\ pre[p].type \in {"reg", "lnk"}
                              THEN Then(deleteAllTypes(t, p), LAMBDA u : createType(u, p))
                              ELSE Ok(t)),
              LAMBDA t : modifyAttributes(t, p, status))

(* modifyXattributes and modifyAcls, which open the file                   *)
modifyXattributes(tree, p) ==
    IF p \notin DOMAIN tree \/ p \notin DOMAIN pre
    THEN Failure(tree)
    ELSE Ok([tree EXCEPT ![p].xattrs = pre[p].xattrs])

(* The operations follow each other whether the ones before fail or not.   *)
Also(a, cond, op(_)) ==
    IF ~ cond THEN a
    ELSE LET b == op(a.tree) IN [tree |-> b.tree, ok |-> a.ok /\ b.ok]

doUndo(tree, file) ==
    LET is(flags) == file.status \cap flags # {}
        p == file.name
    IN  Also(Also(Also(Also(Ok(tree),
        is({CREATED, TYPE}), LAMBDA t : deleteAllTypes(t, p)),
        is({DELETED, TYPE}), LAMBDA t : createAllTypes(t, p)),
        is({CONTENT, PERMISSIONS, OWNER}), LAMBDA t : modifyAllTypes(t, p, file.status)),
        is({XATTRS, TYPE, DELETED}), LAMBDA t : modifyXattributes(t, p))

-----------------------------------------------------------------------------
(* snapper undochange: the files of the comparison, all of them or the     *)
(* ones named, are marked.                                                 *)
Undochange ==
    /\ ~ undoing /\ entries = <<>>
    /\ \E t1, t2 \in Trees : \E now \in Disturbed(t2) :
          LET files == sort(cmpDirs(t1, t2)) IN
          \E marked \in {{f.name : f \in ToSet(files)}, {<<1>>, <<2>>}, {<<1, 1>>}} :
              /\ files # <<>>
              /\ pre' = t1 /\ post' = t2 /\ system' = now /\ before' = now
              /\ entries' = files
              /\ undo' = marked \cap {f.name : f \in ToSet(files)}
              /\ steps' = getUndoSteps(files, marked)
    /\ undoing' = TRUE /\ failed' = FALSE

(* The next step; a failure is reported and the next file is tried.        *)
UndoStep ==
    LET result == doUndo(system, Head(steps)) IN
    /\ undoing /\ steps # <<>>
    /\ system' = result.tree
    /\ failed' = (failed \/ ~ result.ok)
    /\ steps' = Tail(steps)
    /\ UNCHANGED <<pre, post, before, entries, undo, undoing>>

Undone ==
    /\ undoing /\ steps = <<>>
    /\ undoing' = FALSE
    /\ UNCHANGED <<pre, post, system, before, entries, undo, steps, failed>>

Again ==
    /\ ~ undoing /\ entries # <<>>
    /\ pre' = Empty /\ post' = Empty /\ system' = Empty /\ before' = Empty
    /\ entries' = <<>> /\ undo' = {} /\ steps' = <<>>
    /\ failed' = FALSE /\ UNCHANGED undoing

Next == Undochange \/ UndoStep \/ Undone \/ Again

-----------------------------------------------------------------------------

Special(tree) == \E p \in DOMAIN tree : tree[p].type = "fifo"

(* Undoing all the changes up to the current system, without devices,      *)
(* fifos and sockets, brings back the tree of the first snapshot, and no   *)
(* step fails: the order of getUndoSteps empties every directory before it *)
(* is removed and makes it before it is filled, whatever became a          *)
(* directory or stopped being one.                                         *)
UndoRestores ==
    entries # <<>> /\ ~ undoing /\ before = post /\ undo = {f.name : f \in ToSet(entries)}
        /\ ~ Special(pre) /\ ~ Special(post)
    => cmpDirs(pre, system) = {} /\ ~ failed

(* Whatever happened to the system since the comparison and whichever      *)
(* files are chosen, doUndo leaves all others as they were; only missing   *)
(* directories above a chosen file are made.                               *)
OthersKept ==
    \A p \in (DOMAIN before \cup DOMAIN system) \ undo :
        \/ p \in DOMAIN before /\ p \in DOMAIN system /\ system[p] = before[p]
        \/ p \notin DOMAIN before /\ IsDir(system[p]) /\ \E q \in undo : IsStrictPrefix(p, q)

(* cmpDirs finds the difference of the trees: no path is missed or         *)
(* reported twice when directories appear, vanish or change into files.    *)
ComparisonExact ==
    ToSet(entries) = Difference(pre, post) /\ Len(entries) = Cardinality(Difference(pre, post))
=============================================================================
