-------------------------------- MODULE Json --------------------------------
(***************************************************************************)
(* The JSON library the configuration is read with: the parser of JSON.cpp *)
(* and JSONValue.cpp over a text that ends with a terminator.              *)
(*                                                                         *)
(* A text is a sequence of characters.  "hex" stands for four hexadecimal   *)
(* digits, "true", "TRUE", ... for a literal in some case, and "wide" for a *)
(* character that no file holds as one valid char: written raw it is a      *)
(* negative wchar_t (the file is widened char by char), written \uXXXX it   *)
(* is U+0178.                                                              *)
(*                                                                         *)
(* A value is a pair of a kind and a content; a number m * 10^s is          *)
(* <<"number", m, s>> with no final zero in m, an object is a function from *)
(* its keys.                                                               *)
(***************************************************************************)
EXTENDS Integers, Sequences, SequencesExt

\* The values in a value, and all that it is made of, down to a depth.
Content(v) ==
  IF v[1] \in {"array", "object"} THEN {v[2][k] : k \in DOMAIN v[2]} ELSE {}
Nested(v, depth) ==
  LET within[n \in 0..depth] ==
        IF n = 0 THEN {v} ELSE {v} \cup UNION {Content(u) : u \in within[n - 1]}
  IN within[depth]

Quote == "\""
Backslash == "\\"
Comma == ","
Colon == ":"

\* The terminator of the text.
End == "end"

\* What the parser sees at position i.
At(t, i) == IF i <= Len(t) THEN t[i] ELSE End

White == {" ", "TAB", "CR", "LF"}
DigitChars == <<"0", "1", "2", "3", "4", "5", "6", "7", "8", "9">>
Digits == ToSet(DigitChars)
DigitValue == [c \in Digits |-> (CHOOSE n \in 1..10 : DigitChars[n] = c) - 1]

\* The literals; wcsncasecmp takes them in any case.
Literal ==
  [c \in {"true", "TRUE", "false", "FALSE", "null", "NULL"} |->
     CASE c \in {"true", "TRUE"} -> <<"bool", TRUE>>
       [] c \in {"false", "FALSE"} -> <<"bool", FALSE>>
       [] OTHER -> <<"null", 0>>]

\* The characters with a short escape, by its letter.
ShortEscape ==
  [c \in {"b", "f", "n", "r", "t"} |->
     CASE c = "b" -> "BS" [] c = "f" -> "FF" [] c = "n" -> "LF" [] c = "r" -> "CR"
       [] c = "t" -> "TAB"]

\* Where a parse ends, and with what.
Done(i, v) == [ok |-> TRUE, pos |-> i, val |-> v]
Fail(i) == [ok |-> FALSE, pos |-> i, val |-> <<"none">>]
\* A parse whose value becomes that of a kind; one with an element or a member
\* ahead of what it read: a member read later stays in its place.
As(type, r) == IF r.ok THEN Done(r.pos, <<type, r.val>>) ELSE r
Ahead(x, r) == IF r.ok THEN Done(r.pos, <<x>> \o r.val) ELSE r
Under(name, value, object) ==
  [k \in DOMAIN object \cup {name} |-> IF k \in DOMAIN object THEN object[k] ELSE value]
With(name, value, r) == IF r.ok THEN Done(r.pos, Under(name, value, r.val)) ELSE r

\* The first position from i on that holds nothing of the set.
PastAll(t, i, set) ==
  CHOOSE j \in i..(Len(t) + 1) :
    /\ At(t, j) \notin set
    /\ \A k \in i..(j - 1) : At(t, k) \in set

SkipWhitespace(t, i) == PastAll(t, i, White)

(***************************************************************************)
(* Strings.                                                                *)
(***************************************************************************)
\* What the character after a backslash stands for; \u is not among them.
Unescaped ==
  [c \in {Quote, Backslash, "/"} \cup DOMAIN ShortEscape |->
     IF c \in DOMAIN ShortEscape THEN ShortEscape[c] ELSE c]

\* Below the space, but for the tab, which is let through.
Disallowed == {"LF", "CR", "BS", "FF", "wide"}

\* The string whose opening quote is behind start.
ExtractString(t, start) ==
  LET from[i \in 1..(Len(t) + 1)] ==
        LET c == At(t, i)
            e == At(t, i + 1)
        IN IF c = Quote THEN Done(i + 1, <<>>)
           ELSE IF c \in Disallowed \cup {End} THEN Fail(i)
           ELSE IF c # Backslash THEN Ahead(c, from[i + 1])
           ELSE IF e \in DOMAIN Unescaped THEN Ahead(Unescaped[e], from[i + 2])
           ELSE IF e = "u" /\ At(t, i + 2) = "hex" THEN Ahead("wide", from[i + 3])
           ELSE Fail(i + 1)
  IN from[start]

(***************************************************************************)
(* Numbers.                                                                *)
(***************************************************************************)
\* The number m * 10^s: m without its final zeros, which are counted in s.
Number(m, s) ==
  LET cut[n \in Int \ {0}] ==
        IF n % 10 # 0 THEN <<n, 0>>
        ELSE <<cut[n \div 10][1], cut[n \div 10][2] + 1>>
  IN IF m = 0 THEN <<"number", 0, 0>> ELSE <<"number", cut[m][1], s + cut[m][2]>>

\* The digits among some characters, as an integer.
ParseInt(chars) ==
  LET integer[k \in 0..Len(chars)] ==
        IF k = 0 THEN 0
        ELSE IF chars[k] \in Digits THEN 10 * integer[k - 1] + DigitValue[chars[k]]
        ELSE integer[k - 1]
  IN integer[Len(chars)]

\* The end of the whole part that starts at i: a zero stands alone; a mutant
\* in which it does not.
WholeZeros(t, i) == PastAll(t, i, Digits)
WholeEnd(t, i) == IF At(t, i) = "0" THEN i + 1 ELSE PastAll(t, i, Digits)

ParseNumber(t, i) ==
  LET neg == At(t, i) = "-"
      a == IF neg THEN i + 1 ELSE i
      b == WholeEnd(t, a)
      dot == At(t, b) = "."
      c == IF dot THEN PastAll(t, b + 1, Digits) ELSE b
      expo == At(t, c) \in {"e", "E"}
      d == IF expo /\ At(t, c + 1) \in {"+", "-"} THEN c + 2 ELSE c + 1
      e == IF expo THEN PastAll(t, d, Digits) ELSE c
      whole == ParseInt(SubSeq(t, a, c - 1))
      power == ParseInt(SubSeq(t, d, e - 1))
      scale == (IF dot THEN b + 1 - c ELSE 0)
               + (IF ~expo THEN 0 ELSE IF At(t, c + 1) = "-" THEN -power ELSE power)
  IN IF At(t, a) \notin Digits THEN Fail(a)
     ELSE IF dot /\ c = b + 1 THEN Fail(c)
     ELSE IF expo /\ e = d THEN Fail(d)
     ELSE Done(e, Number(IF neg THEN -whole ELSE whole, scale))

(***************************************************************************)
(* Values.                                                                 *)
(***************************************************************************)
\* The colon after a key, between white space; a mutant that does not look
\* for the end of the text first.
ReadColonBlind(t, i) ==
  LET c == SkipWhitespace(t, i)
  IN IF At(t, c) = Colon THEN Done(SkipWhitespace(t, c + 1), Colon) ELSE Fail(c + 1)

ReadColon(t, i) ==
  LET c == SkipWhitespace(t, i)
  IN IF At(t, c) = End THEN Fail(c)
     ELSE IF At(t, c) = Colon THEN Done(SkipWhitespace(t, c + 1), Colon)
     ELSE Fail(c + 1)

\* What is read at a position, given what is read from each later one: a value;
\* the elements of an array up to its bracket, the members of an object up to
\* its brace.  The character before a key is skipped, whatever it is.
ValueAt(t, from, i) ==
  LET c == At(t, i)
      k == SkipWhitespace(t, i + 1)
  IN IF c = Quote THEN As("string", ExtractString(t, i + 1))
     ELSE IF c \in DOMAIN Literal THEN Done(i + 1, Literal[c])
     ELSE IF c \in Digits \cup {"-"} THEN ParseNumber(t, i)
     ELSE IF c = "[" THEN
       As("array", IF At(t, k) = "]" THEN Done(k + 1, <<>>) ELSE from[<<"elements", k>>])
     ELSE IF c = "{" THEN
       As("object", IF At(t, k) = "}" THEN Done(k + 1, <<>>) ELSE from[<<"members", k>>])
     ELSE Fail(i)

ElementsAt(t, from, i) ==
  LET value == from[<<"value", i>>]
      next == SkipWhitespace(t, value.pos)
  IN IF ~value.ok THEN value
     ELSE IF At(t, next) = "]" THEN Done(next + 1, <<value.val>>)
     ELSE IF At(t, next) # Comma THEN Fail(next)
     ELSE Ahead(value.val, from[<<"elements", SkipWhitespace(t, next + 1)>>])

MembersAt(t, from, i) ==
  LET name == ExtractString(t, i + 1)
      colon == ReadColon(t, name.pos)
      value == from[<<"value", colon.pos>>]
      next == SkipWhitespace(t, value.pos)
  IN IF At(t, i) = End THEN Fail(i)
     ELSE IF ~name.ok THEN name
     ELSE IF ~colon.ok THEN colon
     ELSE IF ~value.ok THEN value
     ELSE IF At(t, next) = "}" THEN Done(next + 1, Under(name.val, value.val, <<>>))
     ELSE IF At(t, next) # Comma THEN Fail(next)
     ELSE With(name.val, value.val, from[<<"members", SkipWhitespace(t, next + 1)>>])

ParseValue(t, start) ==
  LET from[p \in {"value", "elements", "members"} \X (1..(Len(t) + 1))] ==
        IF p[1] = "value" THEN ValueAt(t, from, p[2])
        ELSE IF p[1] = "elements" THEN ElementsAt(t, from, p[2])
        ELSE MembersAt(t, from, p[2])
  IN from[<<"value", start>>]

\* A whole text: one value and nothing but white space around it.
WholeText(t, value) ==
  LET rest == SkipWhitespace(t, value.pos)
  IN IF ~value.ok THEN value
     ELSE IF At(t, rest) # End THEN Fail(rest)
     ELSE Done(rest, value.val)

JsonParse(t) == WholeText(t, ParseValue(t, SkipWhitespace(t, 1)))
=============================================================================
