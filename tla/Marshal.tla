------------------------------- MODULE Marshal -------------------------------
(***************************************************************************)
(* The values of a D-Bus message: Marshaller and Unmarshaller with the     *)
(* operators for the basic types, for strings (which are escaped, libdbus  *)
(* wants valid UTF-8), vectors and maps, and the structures that snapperd  *)
(* (server/Types.cc) writes and snapper(8) (client/proxy/types.cc) reads,  *)
(* two lists of members that are written independently of each other.      *)
(*                                                                         *)
(* A message is a sequence of items [type, sig, val].  Both sides keep a   *)
(* stack of iterators: what was written into the containers still open,    *)
(* and what is still to read of the containers entered.  Characters are    *)
(* the ones the escaping tells apart: "bs" is the backslash, "hi" a byte   *)
(* above 127 (printed as the two digits "c" and "3"), "y" any other one.   *)
(***************************************************************************)
EXTENDS Integers, Sequences, SequencesExt, Functions

VARIABLES sentValue,    \* [type, val] handed to the marshaller
          message,      \* the items of the message
          readValue     \* [ok, val] the unmarshaller made of them

marshalVars == <<sentValue, message, readValue>>

(* Width of the 64 bit integers, shortened. *)
Modulus == 16

-----------------------------------------------------------------------------
escape_char(c) ==
    CASE c = "bs" -> <<"bs", "bs">>
      [] c = "hi" -> <<"bs", "x", "c", "3">>
      [] OTHER    -> <<c>>

escape(s) == FlattenSeq([i \in DOMAIN s |-> escape_char(s[i])])

Bad == [ok |-> FALSE, val |-> <<>>]

(* Mutant: a backslash stands for the character after it. *)
RECURSIVE unescape_plain(_)
unescape_plain(s) ==
    IF s = <<>> THEN [ok |-> TRUE, val |-> <<>>]
    ELSE LET n    == IF s[1] = "bs" THEN 2 ELSE 1
             rest == unescape_plain(SubSeq(s, n + 1, Len(s)))
         IN IF Len(s) < n THEN Bad ELSE [rest EXCEPT !.val = <<s[n]>> \o @]

(* The length of the escape sequence s begins with, and what it stands for. *)
RECURSIVE unescape(_)
unescape(s) ==
    IF s = <<>> THEN [ok |-> TRUE, val |-> <<>>]
    ELSE LET n == CASE s[1] # "bs" -> 1
                    [] Len(s) >= 2 /\ s[2] = "bs" -> 2
                    [] Len(s) >= 4 /\ SubSeq(s, 2, 4) = <<"x", "c", "3">> -> 4
                    [] OTHER -> 0
             rest == unescape(SubSeq(s, n + 1, Len(s)))
         IN IF n = 0 THEN Bad
            ELSE [rest EXCEPT !.val = <<IF n = 4 THEN "hi" ELSE s[1]>> \o @]

-----------------------------------------------------------------------------
(* Marshaller.  iters is the stack of what the open containers hold. *)

append_basic(iters, type, v) ==
    [iters EXCEPT ![Len(iters)] = Append(@, [type |-> type, sig |-> type, val |-> v])]

open_container(iters) == Append(iters, <<>>)

close_container(iters, type, sig) ==
    LET n == Len(iters)
    IN [SubSeq(iters, 1, n - 1) EXCEPT ![n - 1] =
            Append(@, [type |-> type, sig |-> sig, val |-> iters[n]])]

(* The signatures of TypeInfo. *)
Signature ==
    [uint32 |-> "u", string |-> "s", config |-> "(ssa{ss})", snapshot |-> "(uquxussa{ss})",
     file |-> "(su)", report |-> "(sasi)", quota |-> "(tt)", entry |-> "{ss}"]

(* The element types of the vectors. *)
Element ==
    [numbers |-> "uint32", strings |-> "string", configs |-> "config",
     snapshots |-> "snapshot", files |-> "file", reports |-> "report", map |-> "entry"]

(* operator<< of server/Types.cc *)
Written ==
    [config   |-> <<"string", "string", "map">>,
     snapshot |-> <<"uint32", "uint16", "uint32", "time", "uint32", "string", "string", "map">>,
     file     |-> <<"string", "uint32">>,
     report   |-> <<"string", "strings", "int32">>,
     quota    |-> <<"uint64", "uint64">>,
     entry    |-> <<"string", "string">>]

(* operator>> of client/proxy/types.cc *)
Read ==
    [config   |-> <<"string", "string", "map">>,
     snapshot |-> <<"uint32", "uint16", "uint32", "time", "uint32", "string", "string", "map">>,
     file     |-> <<"string", "uint32">>,
     report   |-> <<"string", "strings", "int32">>,
     quota    |-> <<"uint64", "uint64">>,
     entry    |-> <<"string", "string">>]

Code == [bool |-> "b", uint16 |-> "q", int32 |-> "i", uint32 |-> "u", uint64 |-> "t", string |-> "s", time |-> "x"]

(* time_t goes through an unsigned integer. *)
ToWireTime(v) == v % Modulus
FromWireTime(v) == IF v < Modulus \div 2 THEN v ELSE v - Modulus

RECURSIVE marshal(_, _, _)
marshal(iters, type, v) ==
    IF type \in DOMAIN Element
    THEN close_container(FoldLeft(LAMBDA it, x : marshal(it, Element[type], x),
                                  open_container(iters), v), "a", Signature[Element[type]])
    ELSE IF type \in DOMAIN Written
    THEN close_container(FoldLeft(LAMBDA it, i : marshal(it, Written[type][i], v[i]),
                                  open_container(iters), [i \in DOMAIN v |-> i]),
                         "r", Signature[type])
    ELSE append_basic(iters, Code[type],
                      CASE type = "string" -> escape(v)
                        [] type = "time"   -> ToWireTime(v)
                        [] OTHER           -> v)

-----------------------------------------------------------------------------
(* Unmarshaller.  u = [iters, ok, val]: what is still to read, whether no    *)
(* exception was thrown, what was read by the last operator.                 *)

get_type(u) == IF Last(u.iters) = <<>> THEN "invalid" ELSE Head(Last(u.iters)).type

get_signature(u) == Head(Last(u.iters)).sig

Advance(u) == [u EXCEPT !.iters[Len(u.iters)] = Tail(@)]

open_recurse(u) == [u EXCEPT !.iters = Append(@, Head(Last(@)).val)]

close_recurse(u) == Advance([u EXCEPT !.iters = Front(@)])

Throw(u) == [u EXCEPT !.ok = FALSE]

get_basic(u, type) ==
    IF get_type(u) # Code[type] THEN Throw(u)
    ELSE LET raw == Head(Last(u.iters)).val
             str == unescape(raw)
         IN CASE type = "string" -> [Advance(u) EXCEPT !.ok = str.ok, !.val = str.val]
              [] type = "time"   -> [Advance(u) EXCEPT !.val = FromWireTime(raw)]
              [] OTHER           -> [Advance(u) EXCEPT !.val = raw]

RECURSIVE unmarshal(_, _)
RECURSIVE ReadElements(_, _, _)
RECURSIVE ReadMembers(_, _, _, _)

(* The loop of operator>> for vectors and maps: every element has to have the *)
(* signature the reader expects.                                              *)
ReadElements(u, type, found) ==
    CASE get_type(u) = "invalid" -> [close_recurse(u) EXCEPT !.val = found]
      [] get_type(u) # "invalid" /\ get_signature(u) # Signature[type] -> Throw(u)
      [] OTHER -> LET next == unmarshal(u, type)
                  IN IF next.ok THEN ReadElements(next, type, Append(found, next.val)) ELSE next

ReadMembers(u, type, i, found) ==
    IF i > Len(Read[type]) THEN [close_recurse(u) EXCEPT !.val = found]
    ELSE LET next == unmarshal(u, Read[type][i])
         IN IF next.ok THEN ReadMembers(next, type, i + 1, Append(found, next.val)) ELSE next

unmarshal(u, type) ==
    IF type \in DOMAIN Element
    THEN IF get_type(u) # "a" THEN Throw(u) ELSE ReadElements(open_recurse(u), Element[type], <<>>)
    ELSE IF type \in DOMAIN Read THEN ReadMembers(open_recurse(u), type, 1, <<>>)
    ELSE get_basic(u, type)

-----------------------------------------------------------------------------
(* The values that are sent. *)

Strings == SeqOf({"bs", "hi", "x", "c", "3"}, 3) \cup {<<"bs", "x", "c", "3">>, <<"y">>}
Some == {<<>>, <<"bs">>, <<"hi", "y">>}
Maps == {<<>>} \cup {<< <<k, v>> >> : k, v \in Some} \cup {<< <<<<>>, v>>, <<<<"bs">>, w>> >> : v, w \in Some}
Times == {-1, 0, 7}

Values(type) ==
    CASE type = "string"    -> Strings
      [] type = "bool"      -> BOOLEAN
      [] type = "numbers"   -> SeqOf({0, 7}, 2)
      [] type = "quota"     -> {<<0, 7>>, <<7, 7>>}
      [] type = "configs"   -> {<<>>} \cup {<< <<s, t, m>> >> : s, t \in Some, m \in Maps}
      [] type = "files"     -> {<< <<s, 3>>, <<t, 7>> >> : s, t \in Some}
      [] type = "reports"   -> {<<>>} \cup {<< <<s, a, i>> >> : s \in Some, a \in SeqOf(Some, 2), i \in {-1, 0}}
      [] type = "snapshots" -> {<<>>} \cup {<< <<1, 2, 0, d, 7, s, <<>>, m>>, <<2, 0, 1, 0, 0, <<>>, s, <<>> >> >> :
                                               d \in Times, s \in Some, m \in Maps}

Types == {"string", "bool", "numbers", "quota", "configs", "files", "reports", "snapshots"}

Init == sentValue = [type |-> "none"] /\ message = <<>> /\ readValue = [ok |-> TRUE]

Send ==
    /\ sentValue.type = "none"
    /\ \E type \in Types : \E v \in Values(type) :
          /\ sentValue' = [type |-> type, val |-> v]
          /\ message' = marshal(<< <<>> >>, type, v)[1]
    /\ UNCHANGED readValue

Receive ==
    /\ sentValue.type # "none" /\ readValue = [ok |-> TRUE]
    /\ LET u == unmarshal([iters |-> <<message>>, ok |-> TRUE, val |-> <<>>], sentValue.type)
       IN readValue' = [ok |-> u.ok, val |-> u.val, left |-> u.iters]
    /\ UNCHANGED <<sentValue, message>>

Rest == "left" \in DOMAIN readValue /\ UNCHANGED marshalVars

Next == Send \/ Receive \/ Rest

-----------------------------------------------------------------------------
(* The reader gets the value that was written and reads the message to its  *)
(* end, whatever the strings are made of: the members and signatures of the *)
(* two sides agree and unescape undoes escape.                              *)
RoundTrip ==
    "left" \in DOMAIN readValue =>
        readValue.ok /\ readValue.val = sentValue.val /\ readValue.left = << <<>> >>

RECURSIVE Plain(_)
Plain(items) ==
    \A i \in DOMAIN items :
        CASE items[i].type \in {"a", "r"} -> Plain(items[i].val)
          [] items[i].type = "s" -> \A j \in DOMAIN items[i].val : items[i].val[j] # "hi"
          [] OTHER -> TRUE

(* No string of a message holds a byte above 127, so that libdbus, which    *)
(* takes only valid UTF-8, never refuses a file name or a description.      *)
WirePlain == Plain(message)
=============================================================================
