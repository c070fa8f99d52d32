------------------------------ MODULE LineFile ------------------------------
(***************************************************************************)
(* Files of lines (AsciiFileWriter and AsciiFileReader of                  *)
(* snapper/AsciiFile.cc), as file lists are kept in: lines are put into a  *)
(* buffer, full buffers are compressed and written, and reading takes the  *)
(* lines out of buffers of its own.  Without compression stdio does that.  *)
(* Writing may fail half way; zlib writes nothing more to a file after an  *)
(* error.  A file is the sequence of characters before compression.        *)
(***************************************************************************)
EXTENDS Integers, Sequences, SequencesExt

CONSTANTS BufferSize,   \* 16 * 1024 in the code
          MaxLines,     \* bound: lines of a file
          MaxLength     \* bound: characters of a line

VARIABLES
    compression,    \* "none" or "gzip"
    given,          \* history: the lines given to write_line
    copying,        \* what write_line has still to put into the buffer
    outBuffer,      \* AsciiFileWriter::Impl::Gzip::buffer up to buffer_fill
    disk,           \* the file
    phase,
    thrown,         \* whether the writer has thrown an exception
    inBuffer,       \* AsciiFileReader::Impl::Gzip::buffer, from buffer_read on
    position,       \* how much of the file has been read
    line,           \* what read_line has of the current line
    got             \* the lines read_line has returned

lineVars == <<compression, given, copying, outBuffer, disk, phase, thrown,
              inBuffer, position, line, got>>

Newline == "nl"

Lines == BoundedSeq({"a", "b"}, MaxLength)

Init ==
    /\ compression \in {"none", "gzip"}
    /\ given = <<>> /\ copying = <<>> /\ outBuffer = <<>>
    /\ disk \in {<<>>, <<"a", Newline, "a">>}     \* perhaps an older file
    /\ phase = "open" /\ thrown = FALSE
    /\ inBuffer = <<>> /\ position = 0 /\ line = <<>> /\ got = <<>>

writing == UNCHANGED <<compression, inBuffer, position, line, got>>

reading == UNCHANGED <<compression, given, copying, outBuffer, disk, thrown>>

(* The constructors of the writers truncate the file.                      *)
OpenWriter ==
    /\ phase = "open"
    /\ \/ phase' = "write" /\ disk' = <<>> /\ UNCHANGED thrown
       \/ phase' = "done" /\ thrown' = TRUE /\ UNCHANGED disk
    /\ UNCHANGED <<given, copying, outBuffer>> /\ writing

(* stdio has a buffer, too, but the same characters arrive in the file.    *)
WriteLineNone(l) ==
    /\ phase = "write" /\ compression = "none" /\ Len(given) < MaxLines
    /\ given' = Append(given, l)
    /\ disk' = disk \o Append(l, Newline)
    /\ UNCHANGED <<copying, outBuffer, phase, thrown>> /\ writing

WriteLine(l) ==
    /\ phase = "write" /\ compression = "gzip" /\ Len(given) < MaxLines
    /\ given' = Append(given, l)
    /\ copying' = Append(l, Newline)
    /\ phase' = "copy"
    /\ UNCHANGED <<outBuffer, disk, thrown>> /\ writing

LeastOf(m, n) == IF m < n THEN m ELSE n

(* One turn of the loop of write_line.                                     *)
Copy ==
    LET count == LeastOf(BufferSize - Len(outBuffer), Len(copying)) IN
    /\ phase = "copy"
    /\ outBuffer' = outBuffer \o SubSeq(copying, 1, count)
    /\ copying' = SubSeq(copying, count + 1, Len(copying))
    /\ phase' = IF Len(outBuffer') = BufferSize THEN "flush"
                ELSE IF copying' = <<>> THEN "write" ELSE "copy"
    /\ UNCHANGED <<given, disk, thrown>> /\ writing

(* write_buffer within write_line.  gzwrite may write less and fail.       *)
Flush ==
    /\ phase = "flush"
    /\ \/ /\ disk' = disk \o outBuffer /\ outBuffer' = <<>>
          /\ phase' = IF copying = <<>> THEN "write" ELSE "copy"
          /\ UNCHANGED thrown
       \/ /\ \E n \in 0 .. Len(outBuffer) - 1 : disk' = disk \o SubSeq(outBuffer, 1, n)
          /\ thrown' = TRUE /\ phase' = "destroy"
          /\ UNCHANGED outBuffer
    /\ UNCHANGED <<given, copying>> /\ writing

(* close, also in the destructor.  An exception of write_buffer leaves     *)
(* the file open for the destructor, in which nothing more is written.     *)
Close ==
    /\ phase \in {"write", "destroy"}
    /\ outBuffer' = <<>>
    /\ phase' = "closed"
    /\ \/ ~thrown /\ disk' = disk \o outBuffer /\ UNCHANGED thrown
       \/ thrown /\ UNCHANGED <<disk, thrown>>
       \/ /\ ~thrown /\ outBuffer # <<>>
          /\ \E n \in 0 .. Len(outBuffer) - 1 : disk' = disk \o SubSeq(outBuffer, 1, n)
          /\ thrown' = TRUE
    /\ UNCHANGED <<given, copying>> /\ writing

(* A daemon that dies leaves what was written so far.                      *)
Killed ==
    /\ phase \in {"copy", "flush", "write"}
    /\ thrown' = TRUE /\ phase' = "closed" /\ outBuffer' = <<>> /\ copying' = <<>>
    /\ UNCHANGED <<given, disk>> /\ writing

-----------------------------------------------------------------------------
(* The reader with compression.                                            *)

OpenReader ==
    /\ phase = "closed" /\ phase' = "read"
    /\ UNCHANGED <<inBuffer, position, line, got>> /\ reading

AtEnd == position = Len(disk)

(* read_buffer: the buffer, or what is left of the file.                   *)
ReadBuffer ==
    LET upTo == LeastOf(position + BufferSize, Len(disk)) IN
    /\ phase = "read" /\ compression = "gzip" /\ inBuffer = <<>> /\ ~AtEnd
    /\ inBuffer' = SubSeq(disk, position + 1, upTo)
    /\ position' = upTo
    /\ UNCHANGED <<phase, line, got>> /\ reading

(* Mutant: every buffer starts a line.                                     *)
TakeLineOfBuffer ==
    /\ phase = "read" /\ inBuffer # <<>>
    /\ IF Newline \in ToSet(inBuffer)
       THEN LET p == SelectInSeq(inBuffer, LAMBDA c : c = Newline) IN
            /\ got' = Append(got, SubSeq(inBuffer, 1, p - 1))
            /\ inBuffer' = SubSeq(inBuffer, p + 1, Len(inBuffer))
            /\ line' = <<>>
       ELSE /\ line' = inBuffer
            /\ inBuffer' = <<>>
            /\ UNCHANGED got
    /\ UNCHANGED <<phase, position>> /\ reading

(* The part of a turn of read_line after the buffer was filled: up to the  *)
(* first newline, or all of the buffer.                                    *)
TakeLine ==
    /\ phase = "read" /\ inBuffer # <<>>
    /\ IF Newline \in ToSet(inBuffer)
       THEN LET p == SelectInSeq(inBuffer, LAMBDA c : c = Newline) IN
            /\ got' = Append(got, line \o SubSeq(inBuffer, 1, p - 1))
            /\ inBuffer' = SubSeq(inBuffer, p + 1, Len(inBuffer))
            /\ line' = <<>>
       ELSE /\ line' = line \o inBuffer
            /\ inBuffer' = <<>>
            /\ UNCHANGED got
    /\ UNCHANGED <<phase, position>> /\ reading

(* At the end of the file: what is left is a line unless it is empty.      *)
LastLine ==
    /\ phase = "read" /\ compression = "gzip" /\ inBuffer = <<>> /\ AtEnd
    /\ got' = IF line = <<>> THEN got ELSE Append(got, line)
    /\ line' = <<>> /\ phase' = "done"
    /\ UNCHANGED <<inBuffer, position>> /\ reading

(* The reader without: getline up to and with the newline, or the rest.    *)
ReadLineNone ==
    LET rest == SubSeq(disk, position + 1, Len(disk))
        n == IF Newline \in ToSet(rest)
             THEN SelectInSeq(rest, LAMBDA c : c = Newline) ELSE Len(rest) IN
    /\ phase = "read" /\ compression = "none"
    /\ IF AtEnd
       THEN phase' = "done" /\ UNCHANGED <<got, position>>
       ELSE /\ got' = Append(got, SelectSeq(SubSeq(rest, 1, n), LAMBDA c : c # Newline))
            /\ position' = position + n
            /\ UNCHANGED phase
    /\ UNCHANGED <<line, inBuffer>> /\ reading

Done == phase = "done" /\ UNCHANGED lineVars

Next ==
    \/ \E l \in Lines : WriteLineNone(l) \/ WriteLine(l)
    \/ OpenWriter \/ Copy \/ Flush \/ Close \/ Killed
    \/ OpenReader \/ ReadBuffer \/ TakeLine \/ LastLine \/ ReadLineNone
    \/ Done

Spec == Init /\ [][Next]_lineVars

-----------------------------------------------------------------------------
(* A file that was written without an exception is read back line by line, *)
(* empty lines included, wherever the buffers end.                         *)
ReadBack == phase = "done" /\ ~thrown => got = given

(* Whatever happened to the writer, a file has the first of the lines that *)
(* were given to it and at most one line that is cut, the last one.        *)
CutAtEnd ==
    phase = "done" =>
        \/ IsPrefix(got, given)
        \/ /\ Len(got) \in 1 .. Len(given)
           /\ IsPrefix(Front(got), given)
           /\ IsPrefix(Last(got), given[Len(got)])

=============================================================================
