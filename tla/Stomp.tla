-------------------------------- MODULE Stomp --------------------------------
(***************************************************************************)
(* The STOMP frames between libzypp and the commit plugin: write_message,  *)
(* read_message, the escaping of headers and the main loop of the plugin   *)
(* with its dispatch.                                                      *)
(*                                                                         *)
(* A text is a sequence of characters.  libzypp writes frames and closes   *)
(* the pipe, after a whole frame or in the middle of one (it died).  A     *)
(* number in a content-length header is one character of Digits.           *)
(***************************************************************************)
EXTENDS Naturals, Sequences, SequencesExt

CR == "CR"
LF == "LF"
NUL == "NUL"
Colon == "colon"
Backslash == "backslash"

Digits == <<"0", "1", "2">>
CommandLines == {<<"B">>, <<"X">>}          \* a command the plugin knows and another
ContentLength == <<"L">>                \* "content-length"

VARIABLES pipe,         \* what libzypp wrote and the plugin has not read
          closed,       \* libzypp closed its end
          sent,         \* the messages of the whole frames written
          dispatched,   \* the messages the plugin dispatched
          answers,      \* the text the plugin wrote
          plugin        \* "reads", "ended" or "threw"

stompVars == <<pipe, closed, sent, dispatched, answers, plugin>>

NoHeaders == <<>>       \* a map of headers is a function, here an empty one

Message(command, headers, body) == [command |-> command, headers |-> headers, body |-> body]

-----------------------------------------------------------------------------
(* Escaping *)

(* Mutant: a carriage return in a header is not escaped. *)
escape_char_no_cr(c) ==
    CASE c = LF        -> <<Backslash, "n">>
      [] c = Colon     -> <<Backslash, "c">>
      [] c = Backslash -> <<Backslash, Backslash>>
      [] OTHER         -> <<c>>

escape_char(c) ==
    CASE c = CR        -> <<Backslash, "r">>
      [] c = LF        -> <<Backslash, "n">>
      [] c = Colon     -> <<Backslash, "c">>
      [] c = Backslash -> <<Backslash, Backslash>>
      [] OTHER         -> <<c>>

escape_header(in) == FlattenSeq([i \in DOMAIN in |-> escape_char(in[i])])

Invalid == "invalid"    \* unescape_header throws

RECURSIVE unescape_header(_)
unescape_header(in) ==
    IF in = <<>> THEN <<>>
    ELSE IF in[1] # Backslash
    THEN LET rest == unescape_header(Tail(in))
         IN IF rest = Invalid THEN Invalid ELSE <<in[1]>> \o rest
    ELSE IF Len(in) < 2 \/ in[2] \notin {"r", "n", "c", Backslash} THEN Invalid
    ELSE LET rest == unescape_header(SubSeq(in, 3, Len(in)))
             char == CASE in[2] = "r" -> CR [] in[2] = "n" -> LF
                       [] in[2] = "c" -> Colon [] OTHER -> Backslash
         IN IF rest = Invalid THEN Invalid ELSE <<char>> \o rest

strip_cr(in) == IF in # <<>> /\ Last(in) = CR THEN Front(in) ELSE in

-----------------------------------------------------------------------------
(* Frames *)

(* The order of the map: the keys are few, any fixed order will do. *)
HeaderLines(headers) ==
    FlattenSeq([i \in 1..Len(SetToSeq(DOMAIN headers)) |->
        LET key == SetToSeq(DOMAIN headers)[i]
        IN escape_header(key) \o <<Colon>> \o escape_header(headers[key]) \o <<LF>>])

write_message(msg) ==
    msg.command \o <<LF>> \o HeaderLines(msg.headers) \o <<LF>> \o msg.body \o <<NUL>>

(* std::getline: without the delimiter everything up to the end of the file. *)
getline(is, delim) ==
    IF delim \in Range(is)
    THEN LET i == SelectInSeq(is, LAMBDA c : c = delim)
         IN [line |-> SubSeq(is, 1, i - 1), rest |-> SubSeq(is, i + 1, Len(is)), eof |-> FALSE]
    ELSE [line |-> is, rest |-> <<>>, eof |-> TRUE]

Threw == [result |-> "threw", rest |-> <<>>]
Eof == [result |-> "eof", rest |-> <<>>]
Got(msg, rest) == [result |-> "message", msg |-> msg, rest |-> rest]

(* The body, by its content-length or up to \0.  A body that the end of the  *)
(* file cut off is returned with the stream at its end, where main() stops.  *)
ReadBody(is, msg, length) ==
    IF length # "none"
    THEN LET n == SelectInSeq(Digits, LAMBDA d : d = length) - 1
         IN IF Len(is) > n /\ is[n + 1] = NUL
            THEN Got([msg EXCEPT !.body = SubSeq(is, 1, n)], SubSeq(is, n + 2, Len(is)))
            ELSE Threw
    ELSE LET g == getline(is, NUL)
         IN IF g.eof THEN Eof ELSE Got([msg EXCEPT !.body = g.line], g.rest)

RECURSIVE ReadHeaders(_, _, _)
ReadHeaders(is, msg, length) ==
    LET g    == getline(is, LF)
        line == strip_cr(g.line)
        pos  == SelectInSeq(line, LAMBDA c : c = Colon)
        key   == unescape_header(SubSeq(line, 1, pos - 1))
        value == unescape_header(SubSeq(line, pos + 1, Len(line)))
    IN IF line = <<>> THEN ReadBody(g.rest, msg, length)
       ELSE IF pos = 0 \/ Invalid \in {key, value} \/ g.eof THEN Threw
       ELSE IF key = ContentLength /\ (Len(value) # 1 \/ value[1] \notin Range(Digits)) THEN Threw
       ELSE ReadHeaders(g.rest,
                        [msg EXCEPT !.headers = [k \in DOMAIN @ \cup {key} |->
                                                    IF k = key THEN value ELSE @[k]]],
                        IF key = ContentLength THEN value[1] ELSE length)

RECURSIVE read_message(_)
read_message(is) ==
    LET g    == getline(is, LF)
        line == strip_cr(g.line)
    IN IF g.eof THEN Eof
       ELSE IF line = <<>> THEN read_message(g.rest)
       ELSE IF line \notin CommandLines THEN Threw
       ELSE ReadHeaders(g.rest, Message(line, NoHeaders, <<>>), "none")

-----------------------------------------------------------------------------
(* libzypp.  Headers and bodies that a frame can carry: a body with \0 needs *)
(* its content-length.                                                       *)

Texts(alphabet, n) == UNION {[1..l -> alphabet] : l \in 0..n}

HeaderChars == {CR, LF, Colon, Backslash, "n"}
BodyChars == {CR, LF, "n"}

Headers ==
    {NoHeaders} \cup UNION {[{key} -> Texts(HeaderChars, 2)] : key \in Texts(HeaderChars, 1)}

Messages ==
    {Message(<<"B">>, h, b) : h \in Headers, b \in Texts(BodyChars, 1)}
    \cup {Message(<<"B">>, NoHeaders, b) : b \in Texts(BodyChars, 2)}
    \cup {Message(<<"B">>, [k \in {ContentLength} |-> <<Digits[Len(b) + 1]>>], b) :
             b \in Texts(BodyChars \cup {NUL}, 2)}

(* What follows shows whether the reader found the end of the first frame. *)
Followers ==
    {Message(<<"X">>, NoHeaders, <<"n">>),
     Message(<<"X">>, [k \in {ContentLength} |-> <<"1">>], <<NUL>>)}

Init ==
    /\ pipe = <<>> /\ closed = FALSE /\ sent = <<>>
    /\ dispatched = <<>> /\ answers = <<>> /\ plugin = "reads"

Possible == IF sent = <<>> THEN Messages ELSE Followers

WriteFrame ==
    /\ ~closed /\ Len(sent) < 2
    /\ \E msg \in Possible : pipe' = pipe \o write_message(msg) /\ sent' = Append(sent, msg)
    /\ UNCHANGED <<closed, dispatched, answers, plugin>>

(* libzypp closes the pipe, with a part of a frame in it when it died. *)
Close ==
    /\ ~closed
    /\ closed' = TRUE
    /\ \/ UNCHANGED pipe
       \/ \E msg \in Followers, n \in 1..6 :
             n < Len(write_message(msg)) /\ pipe' = pipe \o SubSeq(write_message(msg), 1, n)
    /\ UNCHANGED <<sent, dispatched, answers, plugin>>

(* ZyppCommitPlugin::dispatch over ZyppPlugin::dispatch *)
dispatch(msg) ==
    IF msg.command = <<"B">> THEN Message(<<"B">>, NoHeaders, <<>>)     \* ack()
    ELSE Message(<<"X">>, [k \in {<<"C">>} |-> msg.command], <<>>)      \* _ENOMETHOD

(* A read blocks until a frame is whole or the pipe is closed. *)
Main ==
    /\ plugin = "reads"
    /\ LET r == read_message(pipe)
       IN /\ closed \/ r.result = "message"
          /\ pipe' = r.rest
          /\ IF r.result = "message"
             THEN /\ dispatched' = Append(dispatched, r.msg)
                  /\ answers' = answers \o write_message(dispatch(r.msg))
                  /\ UNCHANGED plugin
             ELSE /\ plugin' = IF r.result = "eof" THEN "ended" ELSE "threw"
                  /\ UNCHANGED <<dispatched, answers>>
    /\ UNCHANGED <<closed, sent>>

Next == WriteFrame \/ Close \/ Main

-----------------------------------------------------------------------------
(* The plugin dispatches the messages libzypp wrote, unchanged and in order, *)
(* whatever characters their headers and bodies have; a frame that was cut   *)
(* off is never dispatched (read_message against write_message).             *)
DispatchedAsSent == IsPrefix(dispatched, sent)

(* Once the plugin ended it has dispatched and answered every whole frame,   *)
(* and the answers read back are those of dispatch, one for each frame.      *)
RECURSIVE ReadAll(_)
ReadAll(is) ==
    LET r == read_message(is)
    IN IF r.result = "message" THEN <<r.msg>> \o ReadAll(r.rest) ELSE <<>>

AllAnswered ==
    plugin # "reads" =>
        /\ dispatched = sent
        /\ ReadAll(answers) = [i \in DOMAIN sent |-> dispatch(sent[i])]
=============================================================================
