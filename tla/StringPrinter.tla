---------------------------- MODULE StringPrinter -----------------------------
(* How the JSON library prints a string, and what the server erases from it. *)
EXTENDS Json, Lists

\* One character of a string; a mutant that lets the backslash through.
EscapedQuoteOnly(c) ==
  LET short == {e \in DOMAIN ShortEscape : ShortEscape[e] = c}
  IN CASE c \in {Quote, "/"} -> <<Backslash, c>>
       [] short # {} -> <<Backslash, CHOOSE e \in short : TRUE>>
       [] c = "wide" -> <<Backslash, "u", "hex">>
       [] OTHER -> <<c>>

Escaped(c) ==
  LET short == {e \in DOMAIN ShortEscape : ShortEscape[e] = c}
  IN CASE c \in {Quote, Backslash, "/"} -> <<Backslash, c>>
       [] short # {} -> <<Backslash, CHOOSE e \in short : TRUE>>
       [] c = "wide" -> <<Backslash, "u", "hex">>
       [] OTHER -> <<c>>

StringifyString(s) ==
  <<Quote>> \o FlattenSeq([k \in DOMAIN s |-> Escaped(s[k])]) \o <<Quote>>

\* What is left of a string without some characters: erase-remove.
Erased(s, chars) == Only(s, ToSet(s) \ chars)
===============================================================================
