--------------------------- MODULE MainLoopProofs ---------------------------
(***************************************************************************)
(* Proofs about MainLoop, for any number of messages.  The loop reads one  *)
(* byte of the pipe and takes one message per turn; between the two there  *)
(* may be a byte less than there are messages, and never two.              *)
(***************************************************************************)
EXTENDS MainLoop, SequenceTheorems, TLAPS

Messages == {"call", "gone"}

Types ==
    /\ socket \in Seq(Messages) /\ incoming \in Seq(Messages)
    /\ wakeups \in Nat /\ requests \in Nat /\ outgoing \in Nat
    /\ DOMAIN watches = {"read", "write"}

(* Bytes in the pipe and messages in the queue, at every step of a turn.   *)
Bytes ==
    /\ pc \in {"turn", "poll", "periodic", "handle", "check", "end"}
    /\ pc = "handle" /\ "pipe" \notin pollfds => wakeups + 1 >= Len(incoming)
    /\ pc # "handle" \/ "pipe" \in pollfds => wakeups >= Len(incoming)
    /\ pc \in {"periodic", "handle"} /\ "pipe" \in pollfds => wakeups > 0
    /\ pc = "poll" => "pipe" \notin pollfds

(* The idle timeout runs only without a client, and a message that is      *)
(* found in the turn in which it is over stops it.                         *)
Clients ==
    /\ idle # "off" => clientState = "none"
    /\ clientState = "none" => requests = 0
    /\ pc \in {"turn", "end"} => (idle = "over" <=> pc = "end")
    /\ pc \in {"check", "end"} /\ idle = "over" => incoming = <<>>

IInv == Types /\ Bytes /\ Clients

LEMMA InitIInv == Init => IInv
  BY DEF Init, IInv, Types, Bytes, Clients

LEMMA BusIInv ==
  ASSUME IInv, DeliverCall \/ DeliverGone \/ SendReply \/ TimePasses \/ UNCHANGED loopVars
  PROVE  IInv'
  <1>1. CASE DeliverCall \/ DeliverGone
    <2>1. socket' \in Seq(Messages)
      <3>1. ASSUME NEW m \in Messages PROVE Append(socket, m) \in Seq(Messages)
        BY DEF IInv, Types
      <3>2. "call" \in Messages /\ "gone" \in Messages
        BY DEF Messages
      <3>3. QED
        BY <1>1, <3>1, <3>2, Zenon DEF DeliverCall, DeliverGone
    <2>2. QED
      BY <1>1, <2>1 DEF DeliverCall, DeliverGone, IInv, Types, Bytes, Clients
  <1>2. CASE SendReply
    BY <1>2 DEF SendReply, IInv, Types, Bytes, Clients
  <1>3. CASE TimePasses
    BY <1>3 DEF TimePasses, busVars, IInv, Types, Bytes, Clients
  <1>4. CASE UNCHANGED loopVars
    BY <1>4 DEF loopVars, IInv, Types, Bytes, Clients
  <1>5. QED
    BY <1>1, <1>2, <1>3, <1>4

LEMMA TurnIInv ==
  ASSUME IInv, Turn
  PROVE  IInv'
  <1> USE DEF IInv, Types, Bytes, Clients
  <1>1. CASE BeginTurn
    BY <1>1 DEF BeginTurn, busVars, Enabled
  <1>2. CASE Poll
    BY <1>2 DEF Poll, busVars
  <1>3. CASE Periodic
    BY <1>3 DEF Periodic, busVars
  <1>4. CASE HandlePipe
    BY <1>4 DEF HandlePipe, ReadPipe
  <1>5. CASE HandleRead
    <2>1. PICK n \in 1..Len(socket) :
             /\ socket' = SubSeq(socket, n + 1, Len(socket))
             /\ incoming' = incoming \o SubSeq(socket, 1, n)
             /\ wakeups' = wakeups + n
      BY <1>5 DEF HandleRead
    <2>2. /\ SubSeq(socket, 1, n) \in Seq(Messages) /\ Len(SubSeq(socket, 1, n)) = n
          /\ socket' \in Seq(Messages)
      BY <2>1
    <2>3. incoming' \in Seq(Messages) /\ Len(incoming') = Len(incoming) + n
      BY <2>1, <2>2
    <2>4. QED
      BY <1>5, <2>1, <2>2, <2>3 DEF HandleRead
  <1>6. CASE HandleWrite
    BY <1>6 DEF HandleWrite, toggled_watch
  <1>7. CASE Dispatch
    BY <1>7 DEF Dispatch, Messages
  <1>8. CASE CheckIdle
    BY <1>8 DEF CheckIdle, busVars
  <1>9. QED
    BY <1>1, <1>2, <1>3, <1>4, <1>5, <1>6, <1>7, <1>8 DEF Turn

LEMMA NextIInv == IInv /\ [Next]_loopVars => IInv'
  BY BusIInv, TurnIInv DEF Next, End

(* MainLoop::run: however many messages arrive in one read, the loop does  *)
(* not wait in poll() with a message in the queue of libdbus and no byte   *)
(* in the pipe.                                                            *)
THEOREM NoneForgottenAlways == Spec => []NoneForgotten
  <1>1. IInv => NoneForgotten
    BY DEF IInv, Bytes, NoneForgotten
  <1>2. QED
    BY <1>1, InitIInv, NextIInv, PTL DEF Spec

(* MainLoop::run ends with an empty queue, no client and no request that a *)
(* thread has still to answer.                                             *)
THEOREM EndsEmptyAlways == Spec => []EndsEmpty
  <1>1. IInv => EndsEmpty
    BY DEF IInv, Bytes, Clients, EndsEmpty
  <1>2. QED
    BY <1>1, InitIInv, NextIInv, PTL DEF Spec

=============================================================================
