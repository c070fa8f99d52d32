----------------------------- MODULE Filesystem -----------------------------
(***************************************************************************)
(* What the interface Filesystem (snapper/Filesystem.h) promises to the    *)
(* code above it, whatever file system is below: a snapshot is taken       *)
(* whole, with the content and the read-only flag that were asked for, and *)
(* is shown only afterwards; it changes or goes away only when somebody    *)
(* asks for that.  Module Backends shows how the file systems keep it.     *)
(***************************************************************************)
EXTENDS Integers

CONSTANTS Nums, Contents, NoContent

VARIABLES
    live,       \* the content of the subvolume
    taken,      \* the snapshots: number -> content and read-only flag
    shown,      \* the numbers in the list of snapshots
    asked       \* the snapshot that is being created, or NoAsk

fsVars == <<live, taken, shown, asked>>

NoAsk == [num |-> 0, from |-> 0, ro |-> FALSE, empty |-> FALSE]

Init == live \in Contents /\ taken = <<>> /\ shown = {} /\ asked = NoAsk

Ask(r) ==
    /\ asked = NoAsk
    /\ r.num \notin DOMAIN taken /\ r.from \in shown \cup {0}
    /\ asked' = r
    /\ UNCHANGED <<live, taken, shown>>

(* An empty snapshot is a new subvolume, which is writable.                *)
Wanted(r) ==
    [content |-> IF r.empty THEN NoContent
                 ELSE IF r.from = 0 THEN live ELSE taken[r.from].content,
     ro |-> r.ro /\ ~r.empty]

Take ==
    /\ asked # NoAsk /\ asked.num \notin DOMAIN taken
    /\ taken' = [m \in DOMAIN taken \cup {asked.num} |->
                    IF m = asked.num THEN Wanted(asked) ELSE taken[m]]
    /\ UNCHANGED <<live, shown, asked>>

Show ==
    /\ asked.num \in DOMAIN taken
    /\ shown' = shown \cup {asked.num} /\ asked' = NoAsk
    /\ UNCHANGED <<live, taken>>

(* Something went wrong, or the daemon died: the answer is an error.       *)
GiveUp == asked # NoAsk /\ asked' = NoAsk /\ UNCHANGED <<live, taken, shown>>

Without(n) == [m \in DOMAIN taken \ {n} |-> taken[m]]

(* A snapshot that was never shown is removed again.                       *)
Discard(n) ==
    /\ n \in DOMAIN taken \ shown
    /\ taken' = Without(n) /\ UNCHANGED <<live, shown, asked>>

Delete(n) ==
    /\ n \in shown /\ asked = NoAsk
    /\ taken' = Without(n) /\ shown' = shown \ {n}
    /\ UNCHANGED <<live, asked>>

SetReadOnly(n, ro) ==
    /\ n \in shown
    /\ taken' = [taken EXCEPT ![n].ro = ro]
    /\ UNCHANGED <<live, shown, asked>>

Write(c) == live' = c /\ UNCHANGED <<taken, shown, asked>>

WriteSnapshot(n, c) ==
    /\ n \in DOMAIN taken /\ ~taken[n].ro
    /\ taken' = [taken EXCEPT ![n].content = c]
    /\ UNCHANGED <<live, shown, asked>>

Next ==
    \/ \E n, f \in Nums \cup {0}, ro, empty \in BOOLEAN :
          Ask([num |-> n, from |-> f, ro |-> ro, empty |-> empty])
    \/ Take \/ Show \/ GiveUp
    \/ \E n \in Nums : Discard(n) \/ Delete(n) \/ \E ro \in BOOLEAN : SetReadOnly(n, ro)
    \/ \E c \in Contents : Write(c) \/ \E n \in Nums : WriteSnapshot(n, c)

Spec == Init /\ [][Next]_fsVars

=============================================================================
