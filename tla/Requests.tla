------------------------------ MODULE Requests ------------------------------
(***************************************************************************)
(* Requests: what a well-formed one says, by dividing the text instead of  *)
(* scanning it, and what the receive loop and HttpParser::parse make of it. *)
(***************************************************************************)
EXTENDS TextEdits, HttpText

Blank == <<"CR", "LF", "CR", "LF">>

\* The end of the head: where its blank line begins, if it has one.
HeadEnds(t) == {i \in 1..(Len(t) - 3) : SubSeq(t, i, i + 3) = Blank}
HeadEnd(t) == CHOOSE i \in HeadEnds(t) : \A j \in HeadEnds(t) : i <= j

\* The lines of a head, from behind a CR LF up to the next one.
LineEnds(head) == {i \in 1..(Len(head) - 1) : SubSeq(head, i, i + 1) = <<"CR", "LF">>}
LinesOf(head) ==
  LET from == {1} \cup {i + 2 : i \in LineEnds(head)}
      till == LineEnds(head) \cup {Len(head) + 1}
  IN [k \in 1..Cardinality(from) |-> SubSeq(head, Nth(from, k), Nth(till, k) - 1)]

\* Where a character stands.
Places(line, c) == {i \in DOMAIN line : line[i] = c}
First(set) == CHOOSE i \in set : \A j \in set : i <= j

\* A request line of three words, a header with a value.  strtok loses a
\* colon that stands next to another or at an end of the value.
RequestLine(line) ==
  /\ Cardinality(Places(line, " ")) = 2
  /\ Places(line, "CR") = {}
  /\ \A i \in Places(line, " ") : i > 1 /\ i < Len(line) /\ line[i + 1] # " "

Behind(line, c) == SubSeq(line, First(Places(line, c)) + 1, Len(line))
ValueOf(line) == Behind(line, ":")

HeaderLine(line) ==
  /\ Places(line, ":") # {} /\ First(Places(line, ":")) > 1
  /\ Head(line) # " "
  /\ LET v == ValueOf(line)
     IN /\ v # <<>> /\ Head(v) # ":" /\ Last(v) # ":"
        /\ \A i \in 1..(Len(v) - 1) : ~(v[i] = ":" /\ v[i + 1] = ":")

\* The head ends, its lines are as they should be, and nothing ends a line
\* or the text but their ends.
WellFormed(t) ==
  /\ HeadEnds(t) # {} /\ "NUL" \notin ToSet(t)
  /\ LET lines == LinesOf(SubSeq(t, 1, HeadEnd(t) - 1))
     IN /\ \A i \in DOMAIN lines : "LF" \notin ToSet(lines[i])
        /\ RequestLine(lines[1])
        /\ \A i \in 2..Len(lines) : HeaderLine(lines[i])

\* A body strtok leaves alone: no empty line in it, none at its ends.
KeptBody(b) ==
  \A i \in DOMAIN b : b[i] = "LF" => i > 1 /\ i < Len(b) /\ b[i + 1] # "LF"

\* What a well-formed request says.
Said(t) ==
  LET lines == LinesOf(SubSeq(t, 1, HeadEnd(t) - 1))
      spaces == Places(lines[1], " ")
      a == First(spaces)
      b == First(spaces \ {a})
      name(i) == SubSeq(lines[i], 1, First(Places(lines[i], ":")) - 1)
      value(i) == LET v == ValueOf(lines[i]) IN IF Head(v) = " " THEN Tail(v) ELSE v
      named(n) == {i \in 2..Len(lines) : name(i) = n}
  IN [method |-> MethodOf(SubSeq(lines[1], 1, a - 1)),
      uri |-> SubSeq(lines[1], a + 1, b - 1),
      version |-> VersionOf(SubSeq(lines[1], b + 1, Len(lines[1]))),
      headers |-> [n \in {name(i) : i \in 2..Len(lines)} |->
                     value(CHOOSE i \in named(n) : \A j \in named(n) : j <= i)],
      body |-> SubSeq(t, HeadEnd(t) + 4, Len(t))]

\* HttpParser::parse understands every well-formed request whose URI is not
\* too long as what it says; the body as long as it has no empty line and no
\* line end at its ends.
RequestUnderstood ==
  kind = "http" /\ WellFormed(text) =>
    LET said == Said(text)
        got == ParseRequest(text)
    IN IF Len(said.uri) > MaxUriSize THEN got.result = "UriTooLarge"
       ELSE /\ got.result = "request"
            /\ \A f \in {"method", "uri", "version", "headers"} : got[f] = said[f]
            /\ KeptBody(said.body) => got.body = said.body

\* A head ends with a line that is a mere CR.
HeadReceived(t) == \E i \in 2..(Len(t) - 1) : SubSeq(t, i - 1, i + 1) = <<"LF", "CR", "LF">>

\* A request shorter than the buffer is read as if it had come alone.
ShortUntouched(t) ==
  Len(t) < BuffSize => ParseRequest(Received(t)) = ParseRequest(t)

\* Behind a head that was received to its end, only the end of the body may change.
HeadUntouched(t) ==
  HeadReceived(t) =>
    LET sent == ParseRequest(t)
        got == ParseRequest(Received(t))
    IN /\ got.result = sent.result
       /\ sent.result = "request" =>
            /\ \A f \in {"method", "uri", "version", "headers"} : got[f] = sent[f]
            /\ IsPrefix(sent.body, got.body)

\* What the receive loop leaves behind a request in its buffer changes
\* nothing of a request shorter than the buffer, nothing of a head that was
\* received to its end, and nothing of the body but its end.
TailHarmless ==
  kind = "http" /\ text # <<>> => ShortUntouched(text) /\ HeadUntouched(text)
=============================================================================
