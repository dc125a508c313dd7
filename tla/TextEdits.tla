------------------------------ MODULE TextEdits -----------------------------
(***************************************************************************)
(* A text that starts as a configuration file, a request or a form and is  *)
(* changed one character at a time.                                        *)
(***************************************************************************)
EXTENDS Integers, Sequences, SequencesExt

CONSTANTS
  Seeds,     \* where the texts start: records of a kind and a text
  Chars,     \* for every kind, the characters that are put in
  MaxEdits   \* bound: how many characters are changed

Alphabet ==
  (UNION {ToSet(s.text) : s \in Seeds}) \cup (UNION {Chars[k] : k \in DOMAIN Chars})

ASSUME EditsAssumption ==
  /\ DOMAIN Chars = {"json", "http", "form"}
  /\ \A s \in Seeds : s.kind \in DOMAIN Chars /\ s.text \in Seq(Alphabet)
  /\ MaxEdits \in Nat

VARIABLES kind, text, edits

vars == <<kind, text, edits>>

Init ==
  \E s \in Seeds : kind = s.kind /\ text = s.text /\ edits = 0

Edit ==
  /\ edits < MaxEdits
  /\ edits' = edits + 1
  /\ UNCHANGED kind

Insert(i, c) ==
  Edit /\ text' = InsertAt(text, i, c)

Delete(i) ==
  Edit /\ text' = RemoveAt(text, i)

Replace(i, c) ==
  Edit /\ text' = ReplaceAt(text, i, c)

Next ==
  \/ \E c \in Chars[kind], i \in 1..(Len(text) + 1) : Insert(i, c)
  \/ \E i \in DOMAIN text : Delete(i)
  \/ \E c \in Chars[kind], i \in DOMAIN text : Replace(i, c)

Spec == Init /\ [][Next]_vars
=============================================================================
