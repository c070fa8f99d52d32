----------------------------- MODULE SystemCmd -----------------------------
(***************************************************************************)
(* Running a command (snapper/SystemCmd.cc): two pipes, fork and exec, and *)
(* a loop of poll, reading both pipes until they are empty, and waitpid    *)
(* without waiting.  The output is collected as lines while it comes, in   *)
(* pieces that end anywhere.                                               *)
(***************************************************************************)
EXTENDS Integers, Sequences, SequencesExt

CONSTANTS PipeCapacity,
          MaxOutput     \* bound: characters the command writes

VARIABLES
    fifo,           \* [Streams -> what is in the pipe]
    child,          \* "running", "exited" or "killed"
    outLines,       \* SystemCmd::Lines_aC
    newLineSeen,    \* SystemCmd::NewLineSeen_ab
    waiting,        \* where SystemCmd::execute and doWait are
    reaped,         \* what waitpid said: "none", "exited" or "killed"
    retcode,        \* SystemCmd::Ret_i, 0 for any status of exit
    wrote           \* history: [Streams -> what the command wrote]

cmdVars == <<fifo, child, outLines, newLineSeen, waiting, reaped, retcode, wrote>>

Streams == {"stdout", "stderr"}

Init ==
    /\ fifo = [s \in Streams |-> <<>>] /\ wrote = fifo
    /\ child = "none" /\ waiting = "start" /\ reaped = "none" /\ retcode = 0
    /\ outLines = [s \in Streams |-> <<>>]
    /\ newLineSeen = [s \in Streams |-> TRUE]

(* pipe or fork may fail.                                                  *)
Fork ==
    /\ waiting = "start"
    /\ \/ child' = "running" /\ waiting' = "poll" /\ UNCHANGED retcode
       \/ waiting' = "done" /\ retcode' = -1 /\ UNCHANGED child
    /\ UNCHANGED <<fifo, outLines, newLineSeen, reaped, wrote>>

-----------------------------------------------------------------------------
(* The command.  It blocks when a pipe is full.                            *)

CommandWrites(s, c) ==
    /\ child = "running" /\ Len(fifo[s]) < PipeCapacity
    /\ Len(wrote["stdout"]) + Len(wrote["stderr"]) < MaxOutput
    /\ fifo' = [fifo EXCEPT ![s] = Append(@, c)]
    /\ wrote' = [wrote EXCEPT ![s] = Append(@, c)]
    /\ UNCHANGED <<child, outLines, newLineSeen, waiting, reaped, retcode>>

CommandEnds ==
    /\ child = "running"
    /\ child' \in {"exited", "killed"}
    /\ UNCHANGED <<fifo, outLines, newLineSeen, waiting, reaped, retcode, wrote>>

-----------------------------------------------------------------------------
(* Adding text to the line that was begun, or as a new one.                *)
addLine(ls, begun, text) ==
    IF begun THEN [ls EXCEPT ![Len(ls)] = @ \o text] ELSE Append(ls, text)

RECURSIVE extractNewline(_, _, _)
extractNewline(ls, seen, text) ==
    IF "nl" \notin ToSet(text) THEN [lines |-> ls, seen |-> seen, text |-> text]
    ELSE LET i == SelectInSeq(text, LAMBDA c : c = "nl") IN
         extractNewline(addLine(ls, ~seen, SubSeq(text, 1, i - 1)), TRUE,
                        SubSeq(text, i + 1, Len(text)))

(* Without any text a newline counts as seen.                              *)
getUntilEOF(ls, seen, text) ==
    LET e == extractNewline(ls, seen, text) IN
    IF e.text = <<>>
    THEN [lines |-> e.lines, seen |-> TRUE]
    ELSE [lines |-> addLine(e.lines, ~e.seen, e.text), seen |-> FALSE]

CheckStream(s) ==
    LET r == getUntilEOF(outLines[s], newLineSeen[s], fifo[s]) IN
    /\ outLines' = [outLines EXCEPT ![s] = r.lines]
    /\ newLineSeen' = [newLineSeen EXCEPT ![s] = r.seen]
    /\ fifo' = [fifo EXCEPT ![s] = <<>>]

Goto(pc) == waiting' = pc

(* Data or the end of the pipes, or a second without either.               *)
Poll ==
    /\ waiting = "poll"
    /\ Goto(IF child # "running" \/ \E s \in Streams : fifo[s] # <<>>
            THEN "check stdout" ELSE "wait")
    /\ UNCHANGED <<fifo, child, outLines, newLineSeen, reaped, retcode, wrote>>

CheckStdout ==
    /\ waiting = "check stdout"
    /\ CheckStream("stdout")
    /\ Goto("check stderr")
    /\ UNCHANGED <<child, reaped, retcode, wrote>>

CheckStderr ==
    /\ waiting = "check stderr"
    /\ CheckStream("stderr")
    /\ Goto(IF reaped = "none" THEN "wait" ELSE "done")
    /\ retcode' = IF reaped = "killed" THEN -127 ELSE 0
    /\ UNCHANGED <<child, reaped, wrote>>

(* waitpid with WNOHANG; once it says so both pipes are read again.        *)
Waitpid ==
    /\ waiting = "wait"
    /\ IF child = "running"
       THEN Goto("poll") /\ UNCHANGED reaped
       ELSE Goto("check stdout") /\ reaped' = child
    /\ UNCHANGED <<fifo, child, outLines, newLineSeen, retcode, wrote>>

Parent == Fork \/ Poll \/ CheckStdout \/ CheckStderr \/ Waitpid

Done == waiting = "done" /\ UNCHANGED cmdVars

Next ==
    \/ Parent \/ CommandEnds \/ Done
    \/ \E s \in Streams, c \in {"a", "nl"} : CommandWrites(s, c)

(* The scheduler lets both processes run; a command that is not blocked    *)
(* comes to its end.                                                       *)
CmdFairness ==
    /\ WF_cmdVars(Parent)
    /\ WF_cmdVars(CommandEnds /\ \A s \in Streams : Len(fifo[s]) < PipeCapacity)

Spec == Init /\ [][Next]_cmdVars /\ CmdFairness

-----------------------------------------------------------------------------
(* The lines of a text, the last one without a newline included.           *)
RECURSIVE LinesIn(_)
LinesIn(text) ==
    IF text = <<>> THEN <<>>
    ELSE IF "nl" \notin ToSet(text) THEN <<text>>
    ELSE LET i == SelectInSeq(text, LAMBDA c : c = "nl") IN
         <<SubSeq(text, 1, i - 1)>> \o LinesIn(SubSeq(text, i + 1, Len(text)))

(* When a command has been run (SystemCmd::execute) nothing of its output  *)
(* is lost or out of order, and as long as it wrote nothing to stderr the  *)
(* lines of stdout are the ones it wrote, in whatever pieces they came.    *)
OutputKept ==
    waiting = "done" =>
        /\ \A s \in Streams :
              FlattenSeq(outLines[s]) = SelectSeq(wrote[s], LAMBDA c : c # "nl")
        /\ wrote["stderr"] = <<>> => outLines["stdout"] = LinesIn(wrote["stdout"])

(* Whatever a command writes, to stdout and stderr, it does not block for  *)
(* ever on a full pipe, and the constructor of SystemCmd returns.          *)
CommandFinishes == (waiting # "start") ~> (waiting = "done")

=============================================================================
