------------------------------ MODULE Transfer -------------------------------
(***************************************************************************)
(* The list of files of a comparison on its way to a client: a request     *)
(* GetFilesByPipe queues a task with a copy of the list, a thread of the   *)
(* client in snapperd writes one line per file into a pipe that holds only *)
(* so much, and the client reads lines until the end of the pipe.  The     *)
(* client may die, snapperd may be killed, the comparison may be deleted   *)
(* meanwhile; the main loop removes a dead client and waits for its        *)
(* thread, with big_mutex locked.                                          *)
(*                                                                         *)
(* Characters are those the escaping and the lines tell apart: "bs" the    *)
(* backslash, "sp" the space, "nl" the newline, and plain ones.            *)
(***************************************************************************)
EXTENDS Naturals, Sequences, SequencesExt

CONSTANTS PipeSize,     \* bytes that fit into a pipe
          MaxTransfers  \* bound: requests

VARIABLES comparison,   \* the files of the comparison of the client
          tasks,        \* queue of the tasks
          transferThread, \* the thread that writes
          pipeOf,       \* the pipes, one for each request
          asked,        \* history: the files each request was about
          reader,       \* the client
          mainLoop,     \* "serving", or "joining" with big_mutex locked
          zombie,       \* the client has left, and snapperd knows
          killed        \* snapperd was killed

transferVars == <<comparison, tasks, transferThread, pipeOf, asked, reader, mainLoop, zombie, killed>>

Lists == { <<>>,
           << [name |-> <<"y", "sp", "2">>, status |-> <<"4">>], [name |-> <<"bs", "x">>, status |-> <<"1", "2">>] >>,
           << [name |-> <<"y", "nl">>, status |-> <<"6", "4">>] >> }
Absent == << [name |-> <<>>, status |-> <<>>] >>   \* no comparison
Removed == << [name |-> <<"removed">>, status |-> <<>>] >>   \* no client any more

Waiting == [state |-> "wait", id |-> 0, out |-> <<>>]
Idle == [state |-> "idle", id |-> 0, line |-> <<>>, got |-> <<>>]

Init ==
    /\ comparison = Absent /\ tasks = <<>> /\ transferThread = [Waiting EXCEPT !.state = "none"]
    /\ pipeOf = <<>> /\ asked = <<>> /\ reader = Idle
    /\ mainLoop = "serving" /\ zombie = FALSE /\ killed = FALSE

-----------------------------------------------------------------------------
escape_char(c) ==
    CASE c = "bs" -> <<"bs", "bs">>
      [] c = "sp" -> <<"bs", "x", "2", "0">>
      [] c = "nl" -> <<"bs", "x", "0", "a">>
      [] OTHER    -> <<c>>

escape(s) == FlattenSeq([i \in DOMAIN s |-> escape_char(s[i])])

(* The inverse, <<"?">> stands for an exception. *)
RECURSIVE unescape(_)
unescape(s) ==
    LET hex == IF Len(s) >= 4 THEN SubSeq(s, 2, 4) ELSE <<>>
    IN CASE s = <<>> -> <<>>
         [] s # <<>> /\ s[1] # "bs" -> <<s[1]>> \o unescape(Tail(s))
         [] hex = <<"x", "2", "0">> -> <<"sp">> \o unescape(SubSeq(s, 5, Len(s)))
         [] hex = <<"x", "0", "a">> -> <<"nl">> \o unescape(SubSeq(s, 5, Len(s)))
         [] Len(s) >= 2 /\ s[1] = "bs" /\ s[2] = "bs" -> <<"bs">> \o unescape(SubSeq(s, 3, Len(s)))
         [] OTHER -> <<"?">>

Line(file) == escape(file.name) \o <<"sp">> \o file.status \o <<"nl">>

(* The client's view of a line: up to the first space, up to the second. *)
Parsed(line) ==
    LET pos1 == SelectInSeq(line, LAMBDA c : c = "sp")
        rest == SubSeq(line, pos1 + 1, Len(line))
        pos2 == SelectInSeq(rest, LAMBDA c : c = "sp")
    IN [name   |-> IF pos1 = 0 THEN <<"?">> ELSE unescape(SubSeq(line, 1, pos1 - 1)),
        status |-> IF pos2 = 0 THEN rest ELSE SubSeq(rest, 1, pos2 - 1)]

(* No space, a bad escape sequence or no number: an exception. *)
Unreadable(file) ==
    "?" \in ToSet(file.name) \/ file.status = <<>> \/ file.status[1] \notin {"1", "2", "4", "6"}

-----------------------------------------------------------------------------
(* The requests of the client *)

Serving == mainLoop = "serving" /\ ~killed

CreateComparison ==
    /\ Serving /\ reader.state # "dead" /\ comparison = Absent
    /\ \E files \in Lists : comparison' = files
    /\ UNCHANGED <<tasks, transferThread, pipeOf, asked, reader, mainLoop, zombie, killed>>

DeleteComparison ==
    /\ Serving /\ reader.state # "dead" /\ comparison # Absent
    /\ comparison' = Absent
    /\ UNCHANGED <<tasks, transferThread, pipeOf, asked, reader, mainLoop, zombie, killed>>

(* Mutant: snapperd keeps the read end of the pipe. *)
NewPipeKept == [buf |-> <<>>, written |-> FALSE, readers |-> {"client", "snapperd"}]

(* snapperd has closed its own read end once the reply is sent. *)
NewPipe == [buf |-> <<>>, written |-> FALSE, readers |-> {"client"}]

get_files_by_pipe ==
    /\ Serving /\ reader.state = "idle" /\ comparison # Absent /\ Len(pipeOf) < MaxTransfers
    /\ LET id == Len(pipeOf) + 1
       IN /\ pipeOf' = Append(pipeOf, NewPipe)
          /\ asked' = Append(asked, comparison)
          /\ tasks' = Append(tasks, [id |-> id, files |-> comparison])
          /\ reader' = [Idle EXCEPT !.state = "reading", !.id = id]
    /\ transferThread' = IF transferThread.state = "none" THEN Waiting ELSE transferThread
    /\ UNCHANGED <<comparison, mainLoop, zombie, killed>>

-----------------------------------------------------------------------------
(* The thread.  An interruption is noticed only where it waits for a task. *)

FilesOf(task) == task.files

TakeTask ==
    /\ transferThread.state = "wait" /\ tasks # <<>> /\ ~killed
    /\ transferThread' = [state |-> "run", id |-> Head(tasks).id,
                          out |-> FlattenSeq([i \in DOMAIN FilesOf(Head(tasks)) |->
                                                 Line(FilesOf(Head(tasks))[i])])]
    /\ tasks' = Tail(tasks)
    /\ UNCHANGED <<comparison, pipeOf, asked, reader, mainLoop, zombie, killed>>

(* Without a reader writing fails, with StreamException. *)
Write ==
    /\ transferThread.state = "run" /\ transferThread.out # <<>> /\ ~killed
    /\ LET id == transferThread.id
           p  == pipeOf[id]
       IN IF p.readers = {}
          THEN /\ pipeOf' = [pipeOf EXCEPT ![id].written = TRUE]
               /\ transferThread' = Waiting
          ELSE /\ Len(p.buf) < PipeSize
               /\ pipeOf' = [pipeOf EXCEPT ![id].buf = Append(@, Head(transferThread.out))]
               /\ transferThread' = [transferThread EXCEPT !.out = Tail(@)]
    /\ UNCHANGED <<comparison, tasks, asked, reader, mainLoop, zombie, killed>>

CloseWriteEnd ==
    /\ transferThread.state = "run" /\ transferThread.out = <<>> /\ ~killed
    /\ pipeOf' = [pipeOf EXCEPT ![transferThread.id].written = TRUE]
    /\ transferThread' = Waiting
    /\ UNCHANGED <<comparison, tasks, asked, reader, mainLoop, zombie, killed>>

Interrupted ==
    /\ transferThread.state = "wait" /\ tasks = <<>> /\ zombie /\ ~killed
    /\ transferThread' = [Waiting EXCEPT !.state = "gone"]
    /\ UNCHANGED <<comparison, tasks, pipeOf, asked, reader, mainLoop, zombie, killed>>

-----------------------------------------------------------------------------
(* command_get_xfiles_by_pipe *)

CloseReadEnd(state) ==
    /\ pipeOf' = [pipeOf EXCEPT ![reader.id].readers = @ \ {"client"}]
    /\ reader' = [reader EXCEPT !.state = state, !.line = <<>>]

(* A character, or the end of a line. *)
ReadCharacter ==
    /\ reader.state = "reading" /\ pipeOf[reader.id].buf # <<>>
    /\ LET c    == Head(pipeOf[reader.id].buf)
           file == Parsed(reader.line)
       IN IF c = "nl" /\ Unreadable(file) THEN CloseReadEnd("failed")
          ELSE /\ pipeOf' = [pipeOf EXCEPT ![reader.id].buf = Tail(@)]
               /\ reader' = IF c = "nl" THEN [reader EXCEPT !.line = <<>>, !.got = Append(@, file)]
                            ELSE [reader EXCEPT !.line = Append(@, c)]
    /\ UNCHANGED <<comparison, tasks, transferThread, asked, mainLoop, zombie, killed>>

(* The end of the pipe: what was read of a last line counts as a line. *)
ReadEnd ==
    /\ reader.state = "reading" /\ pipeOf[reader.id].buf = <<>> /\ pipeOf[reader.id].written
    /\ LET file == Parsed(reader.line)
       IN IF reader.line = <<>> THEN CloseReadEnd("done")
          ELSE IF Unreadable(file) THEN CloseReadEnd("failed")
          ELSE /\ reader' = [reader EXCEPT !.line = <<>>, !.got = Append(@, file)]
               /\ UNCHANGED pipeOf
    /\ UNCHANGED <<comparison, tasks, transferThread, asked, mainLoop, zombie, killed>>

(* The client goes on with the list or with the exception. *)
GoOn ==
    /\ reader.state \in {"done", "failed"}
    /\ reader' = Idle
    /\ UNCHANGED <<comparison, tasks, transferThread, pipeOf, asked, mainLoop, zombie, killed>>

ClientDies ==
    /\ reader.state # "dead"
    /\ reader' = [Idle EXCEPT !.state = "dead"]
    /\ pipeOf' = [i \in DOMAIN pipeOf |-> [pipeOf[i] EXCEPT !.readers = @ \ {"client"}]]
    /\ UNCHANGED <<comparison, tasks, transferThread, asked, mainLoop, zombie, killed>>

-----------------------------------------------------------------------------
(* The main loop *)

client_disconnected ==
    /\ Serving /\ reader.state = "dead" /\ ~zombie
    /\ zombie' = TRUE
    /\ UNCHANGED <<comparison, tasks, transferThread, pipeOf, asked, reader, mainLoop, killed>>

(* The destructor of the client starts to wait for the thread. *)
remove_zombies ==
    /\ Serving /\ zombie /\ comparison # Removed
    /\ mainLoop' = "joining"
    /\ UNCHANGED <<comparison, tasks, transferThread, pipeOf, asked, reader, zombie, killed>>

Joined ==
    /\ mainLoop = "joining" /\ transferThread.state \in {"none", "gone"} /\ ~killed
    /\ mainLoop' = "serving" /\ comparison' = Removed
    /\ UNCHANGED <<tasks, transferThread, pipeOf, asked, reader, zombie, killed>>

Kill ==
    /\ ~killed /\ killed' = TRUE
    /\ tasks' = <<>> /\ transferThread' = [Waiting EXCEPT !.state = "gone"]
    /\ pipeOf' = [i \in DOMAIN pipeOf |-> [pipeOf[i] EXCEPT !.written = TRUE]]
    /\ UNCHANGED <<comparison, asked, reader, mainLoop, zombie>>

Rest == (killed \/ comparison = Removed) /\ reader.state \in {"idle", "dead"} /\ UNCHANGED transferVars

Next ==
    \/ CreateComparison \/ DeleteComparison \/ get_files_by_pipe
    \/ TakeTask \/ Write \/ CloseWriteEnd \/ Interrupted
    \/ ReadCharacter \/ ReadEnd \/ GoOn \/ ClientDies
    \/ client_disconnected \/ remove_zombies \/ Joined \/ Kill \/ Rest

(* The threads of snapperd run, a client reads on or dies. *)
TransferFairness ==
    /\ WF_transferVars(TakeTask \/ Write \/ CloseWriteEnd \/ Interrupted)
    /\ WF_transferVars(client_disconnected \/ remove_zombies \/ Joined)
    /\ WF_transferVars(ReadCharacter \/ ReadEnd)

Spec == Init /\ [][Next]_transferVars /\ TransferFairness

-----------------------------------------------------------------------------
TypeOK ==
    /\ transferThread.state \in {"none", "wait", "run", "gone"} /\ mainLoop \in {"serving", "joining"}
    /\ reader.state \in {"idle", "reading", "done", "failed", "dead"}
    /\ \A i \in DOMAIN pipeOf : Len(pipeOf[i].buf) <= PipeSize

(* A client that was not told of an error has exactly the files of the      *)
(* comparison it asked for, in their order, even if the comparison is       *)
(* deleted or replaced while the list is transferred.                       *)
ListExact == reader.state = "done" /\ ~killed => reader.got = asked[reader.id]

(* Whatever happens to snapperd, a client only ever sees names of files of   *)
(* the comparison, from the first one on: a line that was cut is refused or  *)
(* has its name complete.                                                    *)
NamesInOrder ==
    reader.state \in {"reading", "done", "failed"} =>
        /\ Len(reader.got) <= Len(asked[reader.id])
        /\ \A i \in DOMAIN reader.got : reader.got[i].name = asked[reader.id][i].name

(* snapperd does not wait for ever for the thread of a client that died: it  *)
(* holds no read end itself, so that writing fails as soon as the client is  *)
(* gone.                                                                     *)
ZombieRemoved == (reader.state = "dead" /\ ~killed) ~> (comparison = Removed \/ killed)
=============================================================================
