----------------------------- MODULE JsonPrinter ----------------------------
(***************************************************************************)
(* The printer of the JSON library (JSONValue.cpp), whose output            *)
(* ConfigManager cuts its strings out of.                                  *)
(***************************************************************************)
EXTENDS StringPrinter, Doubles

SignedDigits(n) == IF n < 0 THEN <<"-">> \o DigitsOf(-n) ELSE DigitsOf(n)

\* A number as a whole number with an exponent.
DecimalText(m, s) ==
  SignedDigits(m) \o (IF s = 0 THEN <<>> ELSE <<"e">> \o SignedDigits(s))

\* A double is printed to its precision, the infinite as null.
NumberText(m, s) ==
  LET d == Rounded(Double(m, s))
  IN IF d = Infinite THEN <<"null">> ELSE DecimalText(d[2], d[3])

\* Texts with a comma between them.
Joined(texts) ==
  FlattenSeq([k \in DOMAIN texts |->
                IF k = 1 THEN texts[k] ELSE <<Comma>> \o texts[k]])

\* A value, given what is printed of each in it.
PrintAt(v, print) ==
  CASE v[1] = "null" -> <<"null">>
    [] v[1] = "bool" -> <<IF v[2] THEN "true" ELSE "false">>
    [] v[1] = "number" -> NumberText(v[2], v[3])
    [] v[1] = "string" -> StringifyString(v[2])
    [] v[1] = "array" ->
         <<"[">> \o Joined([k \in DOMAIN v[2] |-> print[v[2][k]]]) \o <<"]">>
    [] v[1] = "object" ->
         LET keys == SetToSeq(DOMAIN v[2])
         IN <<"{">> \o Joined([k \in DOMAIN keys |->
                        StringifyString(keys[k]) \o <<Colon>> \o print[v[2][keys[k]]]])
            \o <<"}">>

Stringify(v, depth) ==
  LET print[u \in Nested(v, depth)] == PrintAt(u, print) IN print[v]
=============================================================================
