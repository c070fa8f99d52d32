------------------------------ MODULE TreeView ------------------------------
(***************************************************************************)
(* client/snbk/TreeView.cc: the tree of the snapshots of one side by their *)
(* parent uuids, and the breadth-first search for the valid snapshot that  *)
(* is nearest to the one to be copied, which becomes the parent of the     *)
(* incremental 'btrfs send'.  The uuid of snapshot n is n; parents that    *)
(* are not snapshots of the config become virtual nodes below the root.    *)
(***************************************************************************)
EXTENDS Integers, Sequences, FiniteSets, SequencesExt, FiniteSetsExt

CONSTANTS Numbers,      \* the snapshots of the config, positive
          Unmanaged     \* uuids of other subvolumes, above the Numbers

VARIABLES tree,         \* parent uuids (0: empty) and the valid snapshots
          start,        \* the snapshot to be copied, 0 before the search
          queue, visited,
          found         \* the search result: <<node, distance>>, or <<>>

treeVars == <<tree, start, queue, visited, found>>

Root == -1

Virtual == Range(tree.parent) \ (Numbers \cup {0})

Pool == Numbers \cup Virtual \cup {Root}

Parent(n) == IF n \in Numbers /\ tree.parent[n] # 0 THEN tree.parent[n] ELSE Root

(* Virtual nodes first, then the snapshots in descending order, each       *)
(* appended to the children of its parent.                                 *)
Children(node) ==
    LET order == SetToSeq(Virtual) \o SetToSortSeq(Numbers, >)
    IN  SelectSeq(order, LAMBDA n : n # node /\ Parent(n) = node)

(* The parent comes before the children.                                   *)
Candidates(node) ==
    (IF node = Root THEN <<>> ELSE <<Parent(node)>>) \o Children(node)

IsValidNode(node) == node \in tree.valid

Init ==
    /\ tree = [parent |-> [n \in Numbers |-> 0], valid |-> {}]
    /\ start = 0 /\ queue = <<>> /\ visited = {} /\ found = <<>>

(* A snapshot is made after its parent.                                    *)
Search ==
    /\ start = 0
    /\ \E parent \in [Numbers -> Numbers \cup Unmanaged \cup {0}],
          valid \in SUBSET Numbers :
          /\ \A n \in Numbers : parent[n] < n \/ parent[n] \in Unmanaged
          /\ tree' = [parent |-> parent, valid |-> valid]
    /\ start' \in Numbers
    /\ queue' = <<<<start', 0>>>>
    /\ visited' = {start'}
    /\ UNCHANGED found

Visit ==
    LET current == Head(queue) IN
    /\ queue # <<>> /\ found = <<>>
    /\ IF current[2] > 0 /\ IsValidNode(current[1])
       THEN found' = current /\ UNCHANGED <<queue, visited>>
       ELSE LET new == SelectSeq(Candidates(current[1]), LAMBDA n : n \notin visited)
            IN  /\ queue' = Tail(queue) \o [i \in 1 .. Len(new) |-> <<new[i], current[2] + 1>>]
                /\ visited' = visited \cup Range(new)
                /\ UNCHANGED found
    /\ UNCHANGED <<tree, start>>

SearchDone == start # 0 /\ (queue = <<>> \/ found # <<>>)

Again == SearchDone /\ UNCHANGED treeVars

Next == Search \/ Visit \/ Again

-----------------------------------------------------------------------------
(* Reference: the nodes at most k edges of the tree away from the start.   *)
Within[k \in Nat] ==
    IF k = 0 THEN {start}
    ELSE LET near == Within[k - 1]
         IN  {n \in Pool : \/ n \in near
                           \/ n # Root /\ Parent(n) \in near
                           \/ \E m \in near \ {Root} : Parent(m) = n}

Others == {n \in tree.valid : n # start}

(* find_nearest_valid_node finds a valid snapshot whenever there is one    *)
(* besides the snapshot itself, and no valid one is nearer: what is sent   *)
(* incrementally is the least difference.                                  *)
NearestFound ==
    SearchDone =>
        IF Others = {} THEN found = <<>>
        ELSE /\ found # <<>>
             /\ found[1] \in Others \cap Within[found[2]]
             /\ Others \cap Within[found[2] - 1] = {}

=============================================================================
