------------------------------ MODULE HttpText ------------------------------
(***************************************************************************)
(* From the bytes of a plain client to a request: the receive loop of      *)
(* Worker::handleRequestFromClient and HttpParser::parse, with the string  *)
(* helpers of Utils they rest on.                                          *)
(*                                                                         *)
(* A text is a sequence of characters; a Word ("GET", "HTTP/1.1") stands   *)
(* for a run of them, and "cut" for what is left of a word that loses its  *)
(* last character.                                                         *)
(***************************************************************************)
EXTENDS Integers, Sequences, SequencesExt

CONSTANTS
  BuffSize,    \* BUFFSIZE, in characters
  MaxUriSize   \* max_uri_size of the configuration

ASSUME HttpAssumption == BuffSize \in Nat \ {0} /\ MaxUriSize \in Nat

Methods == {"OPTIONS", "GET", "HEAD", "POST", "PUT", "DELETE", "TRACE", "CONNECT"}
Versions == {"HTTP/0.9", "HTTP/1.0", "HTTP/1.1", "HTTP/2.0"}
Words == Methods \cup Versions

(***************************************************************************)
(* Receiving.                                                              *)
(***************************************************************************)
\* What position i of the buffer holds after the chunks that end at n: the
\* last one that reached it, and zero before any did.
BufferAt(sent, n, i) ==
  LET full == BuffSize * (n \div BuffSize)
      last == IF full + i <= n THEN full + i ELSE full - BuffSize + i
  IN IF last >= 1 THEN sent[last] ELSE "NUL"

\* Full chunks are appended, and then the whole buffer after a short one,
\* with what the chunk before left behind it.  (When the client has sent
\* full chunks alone, the short one is the empty one of its shutdown.)
\* A mutant appends the rest of the buffer first.
ReceivedTwisted(sent) ==
  LET n == Len(sent)
      full == BuffSize * (n \div BuffSize)
      buffer == [i \in 1..BuffSize |-> BufferAt(sent, n, i)]
  IN buffer \o SubSeq(sent, 1, full)

Received(sent) ==
  LET n == Len(sent)
      full == BuffSize * (n \div BuffSize)
      buffer == [i \in 1..BuffSize |-> BufferAt(sent, n, i)]
  IN SubSeq(sent, 1, full) \o buffer

(***************************************************************************)
(* Utils.                                                                  *)
(***************************************************************************)
\* c_str(): up to the first zero.
CStr(s) == IF "NUL" \in ToSet(s)
           THEN SubSeq(s, 1, (CHOOSE i \in DOMAIN s :
                               s[i] = "NUL" /\ \A j \in 1..(i - 1) : s[j] # "NUL") - 1)
           ELSE s

\* split: strtok, whose pieces are the runs without the delimiter.
Inside(t, delimiter) == {i \in DOMAIN t : t[i] # delimiter}
Starts(set) == {i \in set : i - 1 \notin set}
Ends(set) == {i \in set : i + 1 \notin set}
Nth(set, k) == CHOOSE i \in set : Cardinality({j \in set : j <= i}) = k

Split(s, delimiter) ==
  LET t == CStr(s)
      inside == Inside(t, delimiter)
  IN [k \in 1..Cardinality(Starts(inside)) |->
        SubSeq(t, Nth(Starts(inside), k), Nth(Ends(inside), k))]

\* trim changes a text with a space at an end, unless it is all spaces.
Trimmed(s) == \/ \A i \in DOMAIN s : s[i] = " "
              \/ Head(s) # " " /\ Last(s) # " "

(***************************************************************************)
(* Parsing.                                                                *)
(***************************************************************************)
\* inspectHttpLine: the line without its last character.
AllButLast(line) ==
  IF Last(line) \in Words THEN Append(Front(line), "cut") ELSE Front(line)

GoodLine(line) == line # <<>> /\ Trimmed(line)

\* The lines up to the one that is a mere CR, and those behind it.
HeadLines(lines) ==
  LET ends == {i \in 2..Len(lines) : lines[i] = <<"CR">>}
  IN IF ends = {} THEN Len(lines)
     ELSE (CHOOSE i \in ends : \A j \in ends : i <= j) - 1

\* Pieces put together again with a separator between them.
Rejoined(pieces, separator) ==
  FlattenSeq([k \in DOMAIN pieces |->
                IF k = 1 THEN pieces[k] ELSE <<separator>> \o pieces[k]])

\* A header: its name, and what follows the colon and one space.
Fields(line) == Split(AllButLast(line), ":")
GoodHeader(line) == GoodLine(line) /\ Len(Fields(line)) >= 2

\* A mutant keeps the first piece of the value only.
HeaderFirst(line) ==
  LET v == Fields(line)[2]
  IN [name |-> Fields(line)[1], value |-> IF v[1] = " " THEN Tail(v) ELSE v]

Header(line) ==
  LET f == Tail(Fields(line))
      first == IF f[1][1] = " " THEN Tail(f[1]) ELSE f[1]
  IN [name |-> Fields(line)[1], value |-> Rejoined(<<first>> \o Tail(f), ":")]

\* The last header of a name is the one that stays.
HeadersOf(lines) ==
  [n \in {Header(lines[i]).name : i \in DOMAIN lines} |->
     Header(lines[CHOOSE i \in DOMAIN lines :
                    /\ Header(lines[i]).name = n
                    /\ \A j \in DOMAIN lines : Header(lines[j]).name = n => j <= i]).value]

\* getVersion and getMethod.
VersionOf(word) == IF Len(word) = 1 /\ word[1] \in Versions THEN word[1] ELSE "unknown"
MethodOf(word) == IF Len(word) = 1 /\ word[1] \in Methods THEN word[1] ELSE "unknown"

Refused(why) == [result |-> why]

\* A request, BadRequest, RequestUriTooLarge, or whatever reading the first
\* of no lines does.
ParseLines(lines) ==
  LET line == Split(AllButLast(lines[1]), " ")
      n == HeadLines(lines)
      headers == SubSeq(lines, 2, n)
  IN IF lines = <<>> THEN Refused("undefined")
     ELSE IF ~GoodLine(lines[1]) \/ Len(line) # 3
             \/ \E i \in DOMAIN headers : ~GoodHeader(headers[i])
       THEN Refused("BadRequest")
     ELSE IF Len(line[2]) > MaxUriSize THEN Refused("UriTooLarge")
     ELSE [result |-> "request",
           method |-> MethodOf(line[1]), uri |-> line[2], version |-> VersionOf(line[3]),
           headers |-> HeadersOf(headers),
           body |-> Rejoined(SubSeq(lines, n + 2, Len(lines)), "LF")]

ParseRequest(t) ==
  IF t = <<>> THEN Refused("BadRequest") ELSE ParseLines(Split(t, "LF"))
=============================================================================
