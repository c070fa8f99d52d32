------------------------------ MODULE MainLoop -------------------------------
(***************************************************************************)
(* DBus::MainLoop: the thread of snapperd that polls the socket of the bus *)
(* and a pipe of its own, lets libdbus read and write, and dispatches one  *)
(* message per turn.  libdbus writes a byte into the pipe for every        *)
(* message it has queued; replies are sent by other threads, which switch  *)
(* the watch for writing on and wake the loop.                             *)
(*                                                                         *)
(* libdbus is modelled from how the loop uses it.  The loop polls what was *)
(* enabled when the turn began.                                            *)
(***************************************************************************)
EXTENDS Naturals, Sequences

CONSTANTS MaxMessages   \* bound: messages the bus delivers

VARIABLES socket,       \* messages in the socket
          incoming,     \* messages libdbus has read
          outgoing,     \* messages libdbus has still to write
          wakeups,      \* bytes in the pipe
          watches,      \* the watches: kind -> enabled
          pc,           \* where the loop is
          pollfds,      \* what is polled in this turn, then what is ready
          idle,         \* idle_timeout: "off", "on", or "over" once it has passed
          clientState,  \* "none", "known" or "zombie"
          requests,     \* requests the thread of the client has still to answer
          delivered     \* messages the bus has delivered

loopVars == <<socket, incoming, outgoing, wakeups, watches, pc, pollfds, idle,
              clientState, requests, delivered>>

busVars == <<socket, incoming, outgoing, wakeups, watches>>

Init ==
    /\ socket = <<>> /\ incoming = <<>> /\ outgoing = 0 /\ wakeups = 0
    /\ watches = [kind \in {"read", "write"} |-> kind = "read"]
    /\ pc = "turn" /\ pollfds = {} /\ idle = "on"
    /\ clientState = "none" /\ requests = 0 /\ delivered = 0

Enabled == {kind \in DOMAIN watches : watches[kind]}

-----------------------------------------------------------------------------
(* The bus and the clients: requests, then perhaps NameOwnerChanged. *)

Queued(m) == m \in {(incoming \o socket)[i] : i \in DOMAIN (incoming \o socket)}

DeliverCall ==
    /\ delivered < MaxMessages /\ delivered' = delivered + 1
    /\ socket' = Append(socket, "call")
    /\ UNCHANGED <<incoming, outgoing, wakeups, watches, pc, pollfds, idle, clientState, requests>>

DeliverGone ==
    /\ clientState = "known" /\ ~Queued("gone")
    /\ socket' = Append(socket, "gone")
    /\ UNCHANGED <<incoming, outgoing, wakeups, watches, pc, pollfds, idle, clientState, requests, delivered>>

(* A thread sends a reply: libdbus writes it at once or keeps it. *)
SendReply ==
    /\ requests > 0 /\ requests' = requests - 1
    /\ \/ outgoing = 0 /\ UNCHANGED <<outgoing, wakeups, watches>>
       \/ /\ outgoing' = outgoing + 1 /\ wakeups' = wakeups + 1
          /\ watches' = [kind \in DOMAIN watches |-> watches[kind] \/ kind = "write"]
    /\ UNCHANGED <<socket, incoming, pc, pollfds, idle, clientState, delivered>>

-----------------------------------------------------------------------------
(* A turn of run() *)

BeginTurn ==
    /\ pc = "turn" /\ pc' = "poll" /\ pollfds' = Enabled
    /\ UNCHANGED <<busVars, idle, clientState, requests, delivered>>

Ready(kind) == IF kind = "read" THEN socket # <<>> ELSE outgoing > 0

SomethingReady == wakeups > 0 \/ \E kind \in pollfds : Ready(kind)

(* poll() returns: something is ready, or time is over.  A zombie makes the *)
(* timeout a second.                                                        *)
Poll ==
    /\ pc = "poll"
    /\ SomethingReady \/ idle = "over" \/ clientState = "zombie"
    /\ pollfds' = {kind \in pollfds : Ready(kind)} \cup (IF wakeups > 0 THEN {"pipe"} ELSE {})
    /\ pc' = "periodic"
    /\ UNCHANGED <<busVars, idle, clientState, requests, delivered>>

(* The idle time passes while the loop waits. *)
TimePasses ==
    /\ pc = "poll" /\ ~SomethingReady /\ idle = "on" /\ idle' = "over"
    /\ UNCHANGED <<busVars, pc, pollfds, clientState, requests, delivered>>

(* periodic(): a zombie is removed once its thread is done. *)
Periodic ==
    /\ pc = "periodic" /\ pc' = "handle"
    /\ clientState' = IF clientState = "zombie" /\ requests = 0 THEN "none" ELSE clientState
    /\ idle' = IF clientState' = "none" /\ idle = "off" THEN "on" ELSE idle
    /\ UNCHANGED <<busVars, pollfds, requests, delivered>>

(* Mutant: the pipe is emptied. *)
ReadPipeEmpty == wakeups' = 0

(* One byte is read from the pipe. *)
ReadPipe == wakeups' = wakeups - 1

HandlePipe ==
    /\ pc = "handle" /\ "pipe" \in pollfds
    /\ ReadPipe
    /\ pollfds' = pollfds \ {"pipe"}
    /\ UNCHANGED <<socket, incoming, outgoing, watches, pc, idle, clientState, requests, delivered>>

(* The watch is searched for again: a callback may have switched it off. *)
find_enabled_watch(kind) == watches[kind]

(* dbus_watch_handle for reading: some of the messages are read. *)
HandleRead ==
    /\ pc = "handle" /\ "pipe" \notin pollfds /\ "read" \in pollfds
    /\ \E n \in 1..Len(socket) :
          /\ socket' = SubSeq(socket, n + 1, Len(socket))
          /\ incoming' = incoming \o SubSeq(socket, 1, n)
          /\ wakeups' = wakeups + n
    /\ pollfds' = pollfds \ {"read"}
    /\ UNCHANGED <<outgoing, watches, pc, idle, clientState, requests, delivered>>

toggled_watch(on) == watches' = [watches EXCEPT !["write"] = on]

(* dbus_watch_handle for writing: some of the messages are written; with     *)
(* nothing left libdbus switches the watch off.                              *)
HandleWrite ==
    /\ pc = "handle" /\ pollfds = {"write"}
    /\ IF find_enabled_watch("write")
       THEN \E n \in 1..outgoing : outgoing' = outgoing - n /\ toggled_watch(n < outgoing)
       ELSE UNCHANGED <<outgoing, watches>>
    /\ pollfds' = {}
    /\ UNCHANGED <<socket, incoming, wakeups, pc, idle, clientState, requests, delivered>>

(* pop_message and dispatch_incoming: method_call resets the idle count and *)
(* switches the timeout off for a new client; client_disconnected resets it *)
(* too.                                                                     *)
Dispatch ==
    /\ pc = "handle" /\ pollfds = {} /\ pc' = "check"
    /\ IF incoming = <<>> THEN UNCHANGED <<incoming, idle, clientState, requests>>
       ELSE /\ incoming' = Tail(incoming)
            /\ IF Head(incoming) = "call"
               THEN /\ requests' = requests + 1
                    /\ clientState' = IF clientState = "none" THEN "known" ELSE clientState
                    /\ idle' = "off"
               ELSE /\ clientState' = IF clientState = "known" THEN "zombie" ELSE clientState
                    /\ idle' = IF idle = "over" THEN "on" ELSE idle
                    /\ UNCHANGED requests
    /\ UNCHANGED <<socket, outgoing, wakeups, watches, pollfds, delivered>>

CheckIdle ==
    /\ pc = "check"
    /\ pc' = IF idle = "over" THEN "end" ELSE "turn"
    /\ UNCHANGED <<busVars, pollfds, idle, clientState, requests, delivered>>

End == pc = "end" /\ UNCHANGED loopVars

Turn ==
    \/ BeginTurn \/ Poll \/ Periodic \/ HandlePipe \/ HandleRead \/ HandleWrite
    \/ Dispatch \/ CheckIdle

Next == Turn \/ TimePasses \/ SendReply \/ DeliverCall \/ DeliverGone \/ End

(* The thread of the loop and the threads of the clients run, time passes. *)
LoopFairness == WF_loopVars(Turn) /\ WF_loopVars(SendReply) /\ WF_loopVars(TimePasses)

Spec == Init /\ [][Next]_loopVars /\ LoopFairness

-----------------------------------------------------------------------------
(* The loop never waits while libdbus holds a message that was not          *)
(* dispatched: it takes one message per turn, and there are at least as     *)
(* many bytes in the pipe as messages in the queue.                         *)
NoneForgotten == pc \in {"turn", "poll"} => wakeups >= Len(incoming)

(* A loop that ends because it was idle leaves no message in the queue of   *)
(* libdbus and no reply unsent.                                             *)
EndsEmpty == pc = "end" => incoming = <<>> /\ requests = 0 /\ clientState = "none"

(* Every reply reaches the bus, though it is another thread that switches   *)
(* the watch for writing on.                                                *)
RepliesWritten == (outgoing > 0) ~> (outgoing = 0)
=============================================================================
