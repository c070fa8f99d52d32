------------------------------- MODULE Stream -------------------------------
(***************************************************************************)
(* The special comparison of btrfs (the StreamProcessor of                 *)
(* snapper/Btrfs.cc): the kernel sends the difference of two snapshots as  *)
(* a stream of operations, and a tree of statuses is kept up to date with  *)
(* each of them.  If anything fails, the directories are compared as on    *)
(* other filesystems.                                                      *)
(*                                                                         *)
(* The stream is the kernel's: the inodes are sent in order, each one      *)
(* created under an orphan name, moved to its place and then modified; an  *)
(* inode in the way is moved to its orphan name first.                     *)
(***************************************************************************)
EXTENDS Compare, Functions

CONSTANTS Inodes,       \* 1 .. n
          FileNames     \* names, numbers above 0

VARIABLES
    type,           \* [Inodes -> "reg", "dir" or "fifo"]
    snap1, snap2,   \* the snapshots: where each inode is, and its data
    recv,           \* where the inodes are after the stream so far
    inode,          \* send progress
    files,          \* StreamProcessor::files: the status of the nodes
    exception,      \* a callback threw
    implicit        \* a node was moved or deleted that was only there for those below

streamVars == <<type, snap1, snap2, recv, inode, files, exception, implicit>>

Absent == [dir |-> -1, name |-> 0, data |-> 0]

ROOT == 0

Empty == [p \in {} |-> {}]

Init ==
    /\ type = [i \in Inodes |-> "reg"]
    /\ snap1 = [i \in Inodes |-> Absent] /\ snap2 = snap1 /\ recv = snap1
    /\ inode = 0 /\ files = Empty
    /\ exception = FALSE /\ implicit = FALSE

CHANGED == "changed"    \* any of CONTENT, PERMISSIONS, OWNER, GROUP, XATTRS, ACL

-----------------------------------------------------------------------------
(* Filesystems.  A location is a directory and a name; the directories of  *)
(* the first snapshot are in its root directory, new ones may be in each   *)
(* other.                                                                  *)

Locations(types) == [dir : {ROOT} \cup {d \in Inodes : types[d] = "dir"}, name : FileNames, data : {0, 1}]

Layout(fs) ==
    \A i \in Inodes : fs[i] # Absent =>
        /\ fs[i].dir # ROOT => fs[fs[i].dir] # Absent /\ fs[i].dir # i
        /\ \A j \in Inodes \ {i} : <<fs[i].dir, fs[i].name>> # <<fs[j].dir, fs[j].name>>

Snapshot1s(types) ==
    {fs \in [Inodes -> {Absent} \cup {l \in Locations(types) : l.data = 0}] :
        Layout(fs) /\ \A i \in Inodes : types[i] = "dir" => fs[i].dir \in {ROOT, Absent.dir}}

(* The numbers of new inodes are above those of the first snapshot.        *)
Snapshot2s(types, fs1) ==
    LET old(i) == fs1[i] # Absent
        new(i) == ~ old(i) /\ \A j \in Inodes : old(j) => j < i
    IN  {fs \in [Inodes -> {Absent} \cup Locations(types)] :
            /\ Layout(fs)
            /\ \A i \in Inodes : fs[i] # Absent =>
                  /\ old(i) \/ new(i)
                  /\ types[i] = "dir" /\ fs[i].dir # ROOT =>
                        new(i) /\ new(fs[i].dir) /\ fs[fs[i].dir].dir = ROOT
            /\ Cardinality({i \in Inodes : fs[i].data = 1}) <= 1}

Orphan(i) == 100 + i

RECURSIVE Path(_, _)
Path(fs, i) ==
    IF fs[i].dir = ROOT THEN <<fs[i].name>> ELSE Append(Path(fs, fs[i].dir), fs[i].name)

Tree(fs) ==
    LET here == {i \in Inodes : fs[i] # Absent}
        at(p) == CHOOSE i \in here : Path(fs, i) = p
    IN  [p \in {Path(fs, i) : i \in here} |->
            [type |-> type[at(p)], data |-> <<0, 0>>, perms |-> fs[at(p)].data,
             owner |-> 0, xattrs |-> 0, foreign |-> FALSE]]

-----------------------------------------------------------------------------
(* tree_node                                                               *)

Above(p) == {SubSeq(p, 1, k) : k \in 1 .. Len(p) - 1}

Below(tree, p) == {q \in DOMAIN tree : IsStrictPrefix(p, q)}

find(tree, p) == p \in DOMAIN tree

insert(tree, p) == tree @@ [q \in Above(p) \cup {p} |-> {}]

(* A node without children goes, and the nodes above that are only there   *)
(* for it.                                                                 *)
RECURSIVE prune(_, _)
prune(tree, p) ==
    IF p # <<>> /\ tree[p] = {} /\ Below(tree, p) = {}
    THEN prune(Restrict(tree, DOMAIN tree \ {p}), Parent(p))
    ELSE tree

erase(tree, p) ==
    IF find(tree, p) THEN prune([tree EXCEPT ![p] = {}], p) ELSE tree

(* The children of o become those of n.                                    *)
rename(tree, o, n) ==
    LET moves(q) == q = o \/ IsStrictPrefix(o, q)
        into(q)  == n \o SubSeq(q, Len(o) + 1, Len(q))
        old      == [q \in {x \in DOMAIN tree : ~ IsStrictPrefix(o, x)} |-> IF q = o THEN {} ELSE tree[q]]
        new      == [q \in {into(x) : x \in {y \in DOMAIN tree : moves(y)}} |->
                        tree[o \o SubSeq(q, Len(n) + 1, Len(q))]]
    IN  prune(new @@ insert(old, n), o)

-----------------------------------------------------------------------------
(* StreamProcessor                                                         *)

created(tree, p) ==
    IF ~ find(tree, p)
    THEN (p :> {CREATED}) @@ insert(tree, p)
    ELSE [tree EXCEPT ![p] = (@ \ {CREATED, DELETED}) \cup {CHANGED}]

(* Mutant: what was deleted stays deleted when it is created again.        *)
deletedAlways(tree, p) ==
    (p :> {DELETED}) @@ insert(tree, p)

deleted(tree, p) ==
    IF ~ find(tree, p)
    THEN (p :> {DELETED}) @@ insert(tree, p)
    ELSE erase(tree, p)

(* process_write, process_chmod and the like                               *)
modified(tree, p) == LET t == insert(tree, p) IN [t EXCEPT ![p] = @ \cup {CHANGED}]

(* The nodes below a renamed one are put below the node that was already   *)
(* at its new name.  With each level the recursion of merge puts the new   *)
(* name once more in front.                                                *)
merge(tree, children, to) ==
    LET x(q) == FlattenSeq([k \in 1 .. Len(q) |-> to]) \o q
        of(p) == CHOOSE q \in DOMAIN children : x(q) = p
        nodes == {x(q) : q \in DOMAIN children}
        all   == FoldSet(LAMBDA p, t : insert(t, p), tree, nodes)
    IN  [p \in nodes |-> IF find(tree, p)
                         THEN (tree[p] \ {CREATED, DELETED}) \cup {CHANGED}
                         ELSE children[of(p)]] @@ all

(* In place of the tree: a callback threw.                                 *)
THROWN == "thrown"
Throws == (<<>> :> {THROWN})

(* A directory that the tree does not have is deleted and created with     *)
(* everything that is in it in the first snapshot.                         *)
process_rename(tree, from, to) ==
    LET dir1     == Tree(snap1)
        entries  == {Last(p) : p \in Below(dir1, from)}
        children == [q \in {SubSeq(p, Len(from) + 1, Len(p)) : p \in Below(tree, from)} |->
                        tree[from \o q]]
        alone    == Restrict(tree, DOMAIN tree \ Below(tree, from))
        both(t, n) == created(deleted(t, Append(from, n)), Append(to, n))
    IN  CASE ~ find(tree, from) ->
               IF Len(from) > 1 /\ Parent(from) \notin DOMAIN dir1
               THEN Throws
               ELSE FoldSet(LAMBDA n, t : both(t, n), created(deleted(tree, from), to), entries)
          [] find(tree, from) /\ ~ find(tree, to) -> rename(tree, from, to)
          [] find(tree, from) /\ find(tree, to) ->
               merge(created(deleted(alone, from), to), children, to)

(* process_mkfile, process_mkdir and so on; process_mknod, process_mkfifo  *)
(* and process_mksock do nothing.                                          *)
process(tree, op) ==
    CASE op.op = "mk" -> IF type[op.inode] = "fifo" THEN tree ELSE created(tree, op.path)
      [] op.op = "rename" -> process_rename(tree, op.path, op.to)
      [] op.op = "unlink" -> deleted(tree, op.path)
      [] op.op = "chmod" -> modified(tree, op.path)

(* A callback that throws ends the stream.                                 *)
processAll(tree, ops) ==
    FoldLeft(LAMBDA t, op : IF t = Throws THEN t ELSE process(t, op), tree, ops)

(* check: what was modified, or deleted and created, is compared.  It      *)
(* throws when the directory is missing in one snapshot or the file in     *)
(* both.                                                                   *)
check(p) ==
    LET dir1 == Tree(snap1)
        dir2 == Tree(snap2)
        s == files[p]
        isdir(t, d) == d = <<>> \/ (d \in DOMAIN t /\ IsDir(t[d]))
    IN  IF CREATED \in s THEN {CREATED}
        ELSE IF DELETED \in s THEN {DELETED}
        ELSE IF s = {} THEN {}
        ELSE IF ~ isdir(dir1, Parent(p)) \/ ~ isdir(dir2, Parent(p))
                \/ p \notin DOMAIN dir1 \cup DOMAIN dir2 THEN {THROWN}
        ELSE IF p \notin DOMAIN dir1 THEN {CREATED}
        ELSE IF p \notin DOMAIN dir2 THEN {DELETED}
        ELSE cmpFiles(dir1[p], dir2[p])

specialCmpDirs ==
    {Report(p, check(p)) : p \in {q \in DOMAIN files : check(q) # {}}}

(* Btrfs::cmpDirs                                                          *)
btrfsCmpDirs ==
    IF exception \/ \E p \in DOMAIN files : THROWN \in check(p)
    THEN cmpDirs(Tree(snap1), Tree(snap2))
    ELSE specialCmpDirs

-----------------------------------------------------------------------------
(* The kernel: the operations for inode i, and where the inodes are then.  *)

Occupant(fs, l, i) == {j \in Inodes \ {i} : fs[j] # Absent /\ fs[j].dir = l.dir /\ fs[j].name = l.name}

Mk(i) == [op |-> "mk", path |-> <<Orphan(i)>>, to |-> <<>>, inode |-> i]

Rename(from, to, i) == [op |-> "rename", path |-> from, to |-> to, inode |-> i]

Op(op, path, i) == [op |-> op, path |-> path, to |-> <<>>, inode |-> i]

AtOrphan(i) == [dir |-> ROOT, name |-> Orphan(i), data |-> 0]

(* A state of the stream: the operations and where the inodes are.         *)
Emit(st, op, fs) == [ops |-> Append(st.ops, op), fs |-> fs]

Create(st, i) == Emit(st, Mk(i), [st.fs EXCEPT ![i] = AtOrphan(i)])

ToOrphan(st, j) ==
    LET fs == [st.fs EXCEPT ![j].dir = ROOT, ![j].name = Orphan(j)]
    IN  Emit(st, Rename(Path(st.fs, j), <<Orphan(j)>>, j), fs)

Unlink(st, i) ==
    Emit(st, Op("unlink", Path(st.fs, i), i), [st.fs EXCEPT ![i] = Absent])

Children(fs, d) == {j \in Inodes : fs[j] # Absent /\ fs[j].dir = d}

(* Deleted directories wait under their orphan names until they are empty. *)
RemoveEmpty(st, i) ==
    FoldSet(LAMBDA d, s : Unlink(s, d), st,
            {d \in 1 .. i : type[d] = "dir" /\ st.fs[d] # Absent /\ snap2[d] = Absent /\ Children(st.fs, d) = {}})

MoveTo(st, i) ==
    LET l   == snap2[i]
        st1 == IF l.dir # ROOT /\ st.fs[l.dir] = Absent THEN Create(st, l.dir) ELSE st
        st2 == FoldSet(LAMBDA j, s : ToOrphan(s, j), st1, Occupant(st1.fs, l, i))
        fs  == [st2.fs EXCEPT ![i].dir = l.dir, ![i].name = l.name]
    IN  Emit(st2, Rename(Path(st2.fs, i), Path(fs, i), i), fs)

Stream(i) ==
    LET st0 == [ops |-> <<>>, fs |-> recv]
        st1 == IF snap2[i] # Absent /\ recv[i] = Absent THEN Create(st0, i) ELSE st0
        st2 == IF st1.fs[i].dir # snap2[i].dir \/ st1.fs[i].name # snap2[i].name
               THEN MoveTo(st1, i) ELSE st1
        st3 == IF snap1[i] = Absent \/ snap1[i].data # snap2[i].data
               THEN Emit(st2, Op("chmod", Path(st2.fs, i), i), [st2.fs EXCEPT ![i].data = snap2[i].data])
               ELSE st2
    IN  RemoveEmpty(
            IF snap1[i] = Absent /\ snap2[i] = Absent THEN st0
            ELSE IF snap2[i] # Absent THEN st3
            ELSE IF Children(recv, i) = {} THEN Unlink(st0, i)
            ELSE ToOrphan(st0, i), i)

-----------------------------------------------------------------------------

(* Two snapshots are compared.                                             *)
Compare ==
    /\ inode = 0
    /\ type' \in [Inodes -> {"reg", "dir", "fifo"}]
    /\ snap1' \in Snapshot1s(type')
    /\ snap2' \in Snapshot2s(type', snap1')
    /\ recv' = snap1' /\ inode' = 1
    /\ UNCHANGED <<files, exception, implicit>>

(* dumper: the operations for the next inode.                              *)
Dumper ==
    LET st     == Stream(inode)
        result == processAll(files, st.ops)
    IN  /\ inode \in Inodes
        /\ recv' = st.fs /\ inode' = inode + 1
        /\ IF exception \/ result = Throws
           THEN exception' = TRUE /\ UNCHANGED files
           ELSE files' = result /\ UNCHANGED exception
        /\ implicit' = (implicit \/ \E k \in 1 .. Len(st.ops) :
              LET op == st.ops[k]
                  t  == processAll(files, SubSeq(st.ops, 1, k - 1))
              IN  \/ op.op \in {"rename", "unlink"} /\ find(t, op.path) /\ t[op.path] = {}
                  \/ op.op = "rename" /\ find(t, op.to)
                        /\ \E p \in Below(t, op.path) : Len(p) > Len(op.path) + 1)
        /\ UNCHANGED <<type, snap1, snap2>>

Again ==
    /\ inode > Cardinality(Inodes)
    /\ type' = [i \in Inodes |-> "reg"]
    /\ snap1' = [i \in Inodes |-> Absent] /\ snap2' = snap1' /\ recv' = snap1'
    /\ inode' = 0 /\ files' = Empty /\ exception' = FALSE /\ implicit' = FALSE

Next == Compare \/ Dumper \/ Again

Compared == inode > Cardinality(Inodes)

NoSpecialFiles == \A i \in Inodes : type[i] # "fifo"

(* The comparison by the stream reports what the comparison of the         *)
(* directories reports, as the test testsuite-cmp/cmp.cc wants it, unless  *)
(* process_rename or deleted meets a node that is in the tree only for the *)
(* ones below it, or merge one more level.                                 *)
AgreesWithGeneric ==
    Compared /\ ~ implicit /\ NoSpecialFiles
    => btrfsCmpDirs = cmpDirs(Tree(snap1), Tree(snap2))
=============================================================================
