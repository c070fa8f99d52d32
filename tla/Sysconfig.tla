----------------------------- MODULE Sysconfig -----------------------------
(***************************************************************************)
(* The config files (SysconfigFile of snapper/AsciiFile.cc): lines         *)
(* KEY=value # comment, with the value in double, single or no quotes,     *)
(* between lines that are anything else.  A list of values is one value    *)
(* with blanks escaped.  Module Configs has when the files are saved.      *)
(*                                                                         *)
(* A line is its key ("" if it has none) and the characters after the "=". *)
(***************************************************************************)
EXTENDS Integers, Sequences, SequencesExt, FiniteSetsExt

CONSTANTS MaxValue,     \* bound: characters of a value
          MaxSets       \* bound: values that are set

VARIABLES
    lines,          \* AsciiFile::lines
    asSet,          \* history: key -> the value set last, or Unset
    asList,         \* history: the list K was set to, or Unset
    sets

sysVars == <<lines, asSet, asList, sets>>

Keys == {"K", "L"}

Characters == {"x", " ", "\"", "'", "#", "\\"}

Unset == <<"unset">>

Text(key, rest) == [key |-> key, rest |-> rest]

(* What users have in their files: L in single quotes with a comment, K    *)
(* without quotes, or twice.                                               *)
Init ==
    /\ lines \in
         {<<Text("", <<"#", "x">>), Text("L", <<"'", "x", "'", " ", "#", "x">>)>>,
          <<Text("K", <<"x", "#", " ">>), Text("", <<>>), Text("L", <<"\"", "\"">>)>>,
          <<Text("K", <<" ", "x">>), Text("K", <<"\"", " ", "\"", "#">>), Text("K", <<"x">>)>>}
    /\ asSet = [k \in Keys |-> Unset] /\ asList = Unset /\ sets = 0

-----------------------------------------------------------------------------
(* parse_line                                                              *)

Tail_(s, n) == SubSeq(s, n, Len(s))

Blank(s) == ToSet(s) \subseteq {" "}

(* The end of all three: blanks and perhaps a comment.                     *)
IsComment(s) ==
    \E n \in 0 .. Len(s) : Blank(SubSeq(s, 1, n)) /\ (n = Len(s) \/ s[n + 1] = "#")

(* rx1 and rx2: the value up to the next quote.                            *)
Quoted(s, q) ==
    {n \in 2 .. Len(s) : /\ s[1] = q /\ s[n] = q
                         /\ q \notin ToSet(SubSeq(s, 2, n - 1))
                         /\ IsComment(Tail_(s, n + 1))}

(* rx3: as many characters other than blanks as leave a comment.           *)
Plain(s) ==
    {n \in 0 .. Len(s) : " " \notin ToSet(SubSeq(s, 1, n)) /\ IsComment(Tail_(s, n + 1))}

Parsed(value, comment) == [value |-> value, comment |-> comment]

NoMatch == Parsed(<<>>, <<"no match">>)

parse_line(l) ==
    LET s == l.rest
        quotes == Quoted(s, "\"") \cup Quoted(s, "'") IN
    IF l.key = "" THEN NoMatch
    ELSE IF quotes # {}
    THEN Parsed(SubSeq(s, 2, Min(quotes) - 1), Tail_(s, Min(quotes) + 1))
    ELSE IF Plain(s) = {} THEN NoMatch
    ELSE Parsed(SubSeq(s, 1, Max(Plain(s))), Tail_(s, Max(Plain(s)) + 1))

LinesOf(ls, key) == {i \in DOMAIN ls : ls[i].key = key /\ parse_line(ls[i]) # NoMatch}

(* The first line of the key; get_all_values takes the last one.           *)
get_value(ls, key) ==
    IF LinesOf(ls, key) = {} THEN Unset ELSE parse_line(ls[Min(LinesOf(ls, key))]).value

-----------------------------------------------------------------------------
InQuotes(value) == <<"\"">> \o value \o <<"\"">>

set_value(key, value) ==
    IF LinesOf(lines, key) = {}
    THEN Append(lines, Text(key, InQuotes(value)))
    ELSE LET i == Min(LinesOf(lines, key)) IN
         [lines EXCEPT ![i].rest = InQuotes(value) \o parse_line(lines[i]).comment]

Set(key, value) ==
    /\ sets < MaxSets /\ sets' = sets + 1
    /\ lines' = set_value(key, value)
    /\ asSet' = [asSet EXCEPT ![key] = value]
    /\ asList' = IF key = "K" THEN Unset ELSE asList

-----------------------------------------------------------------------------
(* The variants of set_value and get_value for lists.                      *)

escaped(c) == IF c = " " THEN <<"\\", " ">> ELSE <<c>>

RECURSIVE joined(_)
joined(names) ==
    IF names = <<>> THEN <<>>
    ELSE FlattenSeq([i \in DOMAIN names[1] |-> escaped(names[1][i])])
         \o (IF Len(names) = 1 THEN <<>> ELSE <<" ">>) \o joined(Tail(names))

(* The loop of get_value; FALSE when a backslash is not before a blank or  *)
(* another one.                                                            *)
RECURSIVE split(_, _)
split(s, buffer) ==
    LET full == IF buffer = <<>> THEN <<>> ELSE <<buffer>> IN
    IF s = <<>> THEN full
    ELSE IF s[1] = " " THEN full \o split(Tail(s), <<>>)
    ELSE IF s[1] # "\\" THEN split(Tail(s), Append(buffer, s[1]))
    ELSE IF Len(s) = 1 \/ s[2] \notin {"\\", " "} THEN <<Unset>>
    ELSE split(Tail_(s, 3), Append(buffer, s[2]))

SetList(names) ==
    /\ sets < MaxSets /\ sets' = sets + 1
    /\ lines' = set_value("K", joined(names))
    /\ asSet' = [asSet EXCEPT !["K"] = joined(names)]
    /\ asList' = names

Values == BoundedSeq(Characters \ {"\""}, MaxValue)

Names == BoundedSeq({"x", " "}, MaxValue) \ {<<>>}

Next ==
    \/ \E k \in Keys, v \in Values : Set(k, v)
    \/ \E v, w \in Names : SetList(<<v, w>>)

Spec == Init /\ [][Next]_sysVars

-----------------------------------------------------------------------------
(* Whatever a file looks like, and whatever values without double quotes   *)
(* are set (SysconfigFile::set_value), get_value finds the value that was  *)
(* set last.                                                               *)
SetThenGet == \A k \in Keys : asSet[k] # Unset => get_value(lines, k) = asSet[k]

(* The comment of a line: what follows the value.                          *)
CommentOf(ls, k) == parse_line(ls[Min(LinesOf(ls, k))]).comment

(* Setting a key leaves other lines alone, keeps the comment of its line   *)
(* and adds a line only for a key the file does not have.                  *)
OnlyItsLine ==
    \A k \in Keys : asSet'[k] # asSet[k] =>
       IF LinesOf(lines, k) = {}
       THEN Front(lines') = lines
       ELSE /\ Len(lines') = Len(lines)
            /\ \A i \in DOMAIN lines \ {Min(LinesOf(lines, k))} : lines'[i] = lines[i]
            /\ CommentOf(lines', k) = CommentOf(lines, k)

(* A list of names without backslashes, as SNAPPER_CONFIGS, is read as it  *)
(* was set, also with blanks in a name.                                    *)
ListReadBack == asList # Unset => split(get_value(lines, "K"), <<>>) = asList

=============================================================================
