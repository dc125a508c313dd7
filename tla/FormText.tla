------------------------------ MODULE FormText ------------------------------
(***************************************************************************)
(* functions_php.cpp: what a script finds in a query string or in the body *)
(* of a form.  The functions are compiled into the PHP module; no file of  *)
(* the repository calls them.                                              *)
(***************************************************************************)
EXTENDS HttpText, TLC

HexChars == <<"0", "1", "2", "3", "4", "5", "6", "7", "8", "9", "A", "B", "C", "D", "E", "F">>
LowerHex == <<"a", "b", "c", "d", "e", "f">>
HexValue ==
  [c \in ToSet(HexChars) \cup ToSet(LowerHex) |->
     IF c \in ToSet(HexChars) THEN (CHOOSE n \in 1..16 : HexChars[n] = c) - 1
     ELSE (CHOOSE n \in 1..6 : LowerHex[n] = c) + 9]

\* The characters by their codes; those without a name here by the code.
CharOf(n) ==
  CASE n = 0 -> "NUL" [] n = 37 -> "%" [] n = 38 -> "&" [] n = 43 -> "+"
    [] OTHER -> "x" \o ToString(n)

\* strtol of "0x" and two characters: it ends before the first that is no digit.
Byte(a, b) ==
  IF a \notin DOMAIN HexValue THEN 0
  ELSE IF b \notin DOMAIN HexValue THEN HexValue[a]
  ELSE 16 * HexValue[a] + HexValue[b]

\* An escape that the text cuts short ends it.
UrlDecode(s) ==
  LET from[i \in 1..(Len(s) + 1)] ==
        IF i > Len(s) \/ (s[i] = "%" /\ i + 2 > Len(s)) THEN <<>>
        ELSE IF s[i] = "%" THEN <<CharOf(Byte(s[i + 1], s[i + 2]))>> \o from[i + 3]
        ELSE <<IF s[i] = "+" THEN " " ELSE s[i]>> \o from[i + 1]
  IN from[1]

\* A field without a key is dropped, a later one replaces an earlier one.
Put(map, name, value) ==
  [n \in DOMAIN map \cup {name} |-> IF n = name THEN value ELSE map[n]]
Stored(f) ==
  IF f.key = <<>> THEN f.fields ELSE Put(f.fields, UrlDecode(f.key), UrlDecode(f.value))

\* One character; every "=" of a field is passed over.  A mutant keeps the
\* value of the field before.
ScanKeepsValue(f, c) ==
  CASE c = "&" -> [f EXCEPT !.fields = Stored(f), !.key = <<>>, !.into = "key"]
    [] c = "=" -> [f EXCEPT !.into = "value"]
    [] OTHER -> [f EXCEPT ![f.into] = Append(@, c)]

Scan(f, c) ==
  CASE c = "&" -> [fields |-> Stored(f), key |-> <<>>, value |-> <<>>, into |-> "key"]
    [] c = "=" -> [f EXCEPT !.into = "value"]
    [] OTHER -> [f EXCEPT ![f.into] = Append(@, c)]

InitializeGet(query) ==
  LET after[i \in 0..Len(query)] ==
        IF i = 0 THEN [fields |-> <<>>, key |-> <<>>, value |-> <<>>, into |-> "key"]
        ELSE Scan(after[i - 1], query[i])
  IN Stored(after[Len(query)])

\* CONTENT_LENGTH bytes of standard input, or nothing; up to the first zero, which
\* the code writes one byte behind its buffer.
InitializePost(length, input) ==
  IF length = 0 \/ Len(input) < length THEN <<>>
  ELSE InitializeGet(CStr(SubSeq(input, 1, length)))
=============================================================================
