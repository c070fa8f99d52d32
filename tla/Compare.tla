------------------------------- MODULE Compare -------------------------------
(***************************************************************************)
(* The comparison of two directory trees (snapper/Compare.cc).  A tree is  *)
(* a function from the paths in it, sequences of names, to what stat, read *)
(* and listxattr return; the directory compared is not a path of its own.  *)
(* Names are numbers and sort as such; Snapshots is the name .snapshots.   *)
(***************************************************************************)
EXTENDS Integers, Sequences, FiniteSets, SequencesExt

CREATED == "created"
DELETED == "deleted"
TYPE == "type"
CONTENT == "content"
PERMISSIONS == "permissions"
OWNER == "owner"
XATTRS == "xattrs"

(* SNAPSHOTS_NAME                                                          *)
Snapshots == 0

Parent(path) == SubSeq(path, 1, Len(path) - 1)

(* SDir::entries, sorted.                                                  *)
Entries(tree, path) ==
    SetToSortSeq({Last(p) : p \in {q \in DOMAIN tree : q # <<>> /\ Parent(q) = path}}, <)

IsDir(node) == node.type = "dir"

(* cmpFilesContentReg, cmpFilesContentLnk: the data is a pair of what is   *)
(* in the file and its mtime; files with the same mtime are not read.      *)
cmpFilesContent(node1, node2) ==
    \/ node1.type \notin {"reg", "lnk"}
    \/ node1.data[2] = node2.data[2]
    \/ node1.data[1] = node2.data[1]

cmpFiles(node1, node2) ==
    (IF node1.type # node2.type THEN {TYPE}
     ELSE IF cmpFilesContent(node1, node2) THEN {} ELSE {CONTENT})
    \cup (IF node1.perms # node2.perms THEN {PERMISSIONS} ELSE {})
    \cup (IF node1.owner # node2.owner THEN {OWNER} ELSE {})
    \cup (IF node1.xattrs # node2.xattrs THEN {XATTRS} ELSE {})

filter(path) == path = <<Snapshots>>

Report(path, status) == [name |-> path, status |-> status]

(* Everything below a directory, other filesystems included.               *)
listSubdirs(tree, path, status) ==
    {Report(p, {status}) : p \in {q \in DOMAIN tree : IsStrictPrefix(path, q)}}

(* An entry of one of the two directories.                                 *)
lonesome(tree, path, status) ==
    IF tree[path].foreign
    THEN {}
    ELSE {Report(path, {status})}
         \cup IF IsDir(tree[path]) THEN listSubdirs(tree, path, status) ELSE {}

RECURSIVE cmpDirsWorker(_, _, _, _, _)

(* An entry of both directories.                                           *)
twosome(tree1, tree2, path) ==
    LET node1  == tree1[path]
        node2  == tree2[path]
        inside == ~ node1.foreign /\ ~ node2.foreign
        status == IF inside THEN cmpFiles(node1, node2) ELSE {}
    IN  (IF status # {} THEN {Report(path, status)} ELSE {})
        \cup
        IF TYPE \notin status
        THEN IF IsDir(node1) /\ inside
             THEN cmpDirsWorker(tree1, tree2, path, Entries(tree1, path), Entries(tree2, path))
             ELSE {}
        ELSE (IF IsDir(node1) THEN listSubdirs(tree1, path, DELETED) ELSE {})
             \cup IF IsDir(node2) THEN listSubdirs(tree2, path, CREATED) ELSE {}

(* The two sorted lists of entries are merged.                             *)
cmpDirsWorker(tree1, tree2, path, entries1, entries2) ==
    LET rest(e1, e2) == cmpDirsWorker(tree1, tree2, path, e1, e2)
        first1 == Append(path, Head(entries1))
        first2 == Append(path, Head(entries2))
    IN  CASE entries1 = <<>> /\ entries2 = <<>> -> {}
          [] entries1 # <<>> /\ filter(first1) -> rest(Tail(entries1), entries2)
          [] entries2 # <<>> /\ (entries1 = <<>> \/ ~ filter(first1)) /\ filter(first2) ->
                rest(entries1, Tail(entries2))
          [] OTHER ->
                IF entries1 = <<>> \/ (entries2 # <<>> /\ Head(entries2) < Head(entries1))
                THEN lonesome(tree2, first2, CREATED) \cup rest(entries1, Tail(entries2))
                ELSE IF entries2 = <<>> \/ Head(entries1) < Head(entries2)
                THEN lonesome(tree1, first1, DELETED) \cup rest(Tail(entries1), entries2)
                ELSE twosome(tree1, tree2, first1) \cup rest(Tail(entries1), Tail(entries2))

cmpDirs(tree1, tree2) ==
    cmpDirsWorker(tree1, tree2, <<>>, Entries(tree1, <<>>), Entries(tree2, <<>>))

-----------------------------------------------------------------------------

(* What the comparison should find, said of paths instead of directories:  *)
(* the paths of one tree only, and those of both that differ.              *)
Difference(tree1, tree2) ==
    LET both == DOMAIN tree1 \cap DOMAIN tree2
        differs(p) ==
            (IF tree1[p].type # tree2[p].type THEN {TYPE}
             ELSE IF tree1[p].type # "dir" /\ tree1[p].data[1] # tree2[p].data[1] THEN {CONTENT} ELSE {})
            \cup (IF tree1[p].perms # tree2[p].perms THEN {PERMISSIONS} ELSE {})
            \cup (IF tree1[p].owner # tree2[p].owner THEN {OWNER} ELSE {})
            \cup (IF tree1[p].xattrs # tree2[p].xattrs THEN {XATTRS} ELSE {})
    IN  {Report(p, {DELETED}) : p \in DOMAIN tree1 \ both}
        \cup {Report(p, {CREATED}) : p \in DOMAIN tree2 \ both}
        \cup {Report(p, differs(p)) : p \in {q \in both : differs(q) # {}}}
=============================================================================
