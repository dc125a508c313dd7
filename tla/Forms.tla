-------------------------------- MODULE Forms --------------------------------
(***************************************************************************)
(* Forms: what one says, by dividing the text at its separators instead of *)
(* scanning it, and what initializeGet and initializePost make of it.      *)
(***************************************************************************)
EXTENDS Requests, FormText

\* Where the fields begin, and each of them; an empty one says nothing.
FieldAt(t, i) ==
  SubSeq(t, i + 1, First({j \in Places(t, "&") \cup {Len(t) + 1} : j > i}) - 1)
FieldsOf(t) == {i \in {0} \cup Places(t, "&") : FieldAt(t, i) # <<>>}
KeyPart(field) == SubSeq(field, 1, First(Places(field, "=")) - 1)
ValuePart(field) == Behind(field, "=")

\* Every escape has its two digits.
Escapes(s) == \A i \in Places(s, "%") :
  i + 2 <= Len(s) /\ {s[i + 1], s[i + 2]} \subseteq DOMAIN HexValue

FormField(field) ==
  /\ Cardinality(Places(field, "=")) = 1
  /\ KeyPart(field) # <<>> /\ Escapes(KeyPart(field)) /\ Escapes(ValuePart(field))

\* A text with its escapes as one character each.
Meaning(s) ==
  LET kept == {i \in DOMAIN s : {i - 1, i - 2} \cap Places(s, "%") = {}}
      char(i) == CASE s[i] = "%" -> CharOf(16 * HexValue[s[i + 1]] + HexValue[s[i + 2]])
                   [] s[i] = "+" -> " "
                   [] OTHER -> s[i]
  IN [k \in 1..Cardinality(kept) |-> char(Nth(kept, k))]

\* What some fields of a text say: each name as the last of them does.
FormName(t, i) == Meaning(KeyPart(FieldAt(t, i)))
FormValue(t, i) == Meaning(ValuePart(FieldAt(t, i)))

Latest(set) == CHOOSE i \in set : \A j \in set : j <= i
SaidBy(t, fields) ==
  [n \in {FormName(t, i) : i \in fields} |->
     FormValue(t, Latest({i \in fields : FormName(t, i) = n}))]

\* initializeGet reads a form of fields with one "=" each as what it says, an
\* escaped separator as a character of its field and the last of a name;
\* initializePost reads the same from a body of the announced length and
\* without a zero, and nothing from one that is shorter.
FormRead(t) ==
  (\A i \in FieldsOf(t) : FormField(FieldAt(t, i))) =>
    LET said == SaidBy(t, FieldsOf(t))
    IN /\ InitializeGet(t) = said
       /\ "NUL" \notin ToSet(t) => InitializePost(Len(t), t) = said
       /\ InitializePost(Len(t) + 1, t) = <<>>

FormUnderstood == kind = "form" => FormRead(text)
=============================================================================
