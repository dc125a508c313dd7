---------------------------- MODULE JsonGrammar -----------------------------
(***************************************************************************)
(* What a text means, by dividing it instead of scanning it: the set of    *)
(* values the text denotes, empty for what is no JSON.  Two liberties are  *)
(* the library's and are granted here: literals in any case (Literal has   *)
(* them), and a key that begins with any character in place of its quote.  *)
(* A part of a text is given by its first and its last position.           *)
(***************************************************************************)
EXTENDS TextEdits, Json

\* No character of a text is its terminator.
ASSUME TerminatorAssumption == End \notin Alphabet

When(condition, set) == IF condition THEN set ELSE {}

AllWhite(t, i, j) == \A k \in i..j : t[k] \in White

\* Where a part begins without the white space before it, and where it may end
\* without some of the white space behind it.
Fronts(t, i, j) == {a \in i..j : AllWhite(t, i, a - 1) /\ t[a] \notin White}
Backs(t, i, j) == {b \in i..j : AllWhite(t, b + 1, j)}

\* What stands between two quotes.
Unquoted(t, first, last) ==
  LET from[i \in 1..(Len(t) + 1)] ==
        When(i = last + 1, {<<>>})
        \cup When(i <= last /\ At(t, i) \notin Disallowed \cup {Quote, Backslash},
                  {<<At(t, i)>> \o s : s \in from[i + 1]})
        \cup When(i < last /\ At(t, i) = Backslash /\ At(t, i + 1) \in DOMAIN Unescaped,
                  {<<Unescaped[At(t, i + 1)]>> \o s : s \in from[i + 2]})
        \cup When(i + 1 < last /\ <<At(t, i), At(t, i + 1), At(t, i + 2)>> = <<Backslash, "u", "hex">>,
                  {<<"wide">> \o s : s \in from[i + 3]})
  IN from[first]

\* Numbers: a sign, a whole part, a fraction, an exponent.
IsDigits(t, i, j) == i <= j /\ \A k \in i..j : t[k] \in Digits
IsWhole(t, i, j) == IsDigits(t, i, j) /\ (t[i] = "0" => i = j)
IsFraction(t, i, j) == i <= j => t[i] = "." /\ IsDigits(t, i + 1, j)
Unsigned(t, i) == IF t[i] \in {"+", "-"} THEN i + 1 ELSE i
IsExponent(t, i, j) ==
  i <= j => i < j /\ t[i] \in {"e", "E"} /\ IsDigits(t, Unsigned(t, i + 1), j)
Signed(t, i, n) == IF t[i] = "-" THEN -n ELSE n

\* The number whose digits begin at a, its fraction at b and its exponent at c.
IsNumber(t, i, j, a, b, c) ==
  /\ a < b /\ b <= c
  /\ a # i => t[i] = "-"
  /\ IsWhole(t, a, b - 1) /\ IsFraction(t, b, c - 1) /\ IsExponent(t, c, j)

NumberOf(t, i, j, a, b, c) ==
  LET power == Signed(t, c + 1, ParseInt(SubSeq(t, Unsigned(t, c + 1), j)))
  IN Number(Signed(t, i, ParseInt(SubSeq(t, a, c - 1))),
            (IF c = b THEN 0 ELSE b + 1 - c) + (IF c > j THEN 0 ELSE power))

Numbers(t, i, j) ==
  {NumberOf(t, i, j, p[1], p[2], p[3]) :
     p \in {p \in {i, i + 1} \X (i..(j + 1)) \X (i..(j + 1)) :
             IsNumber(t, i, j, p[1], p[2], p[3])}}

\* What a part means, given what each smaller one does: a value, exactly and
\* with white space around it; elements and members, divided at their commas.
Marks(t, i, j, c) == {k \in i..j : t[k] = c}

Padded(t, means, i, j) ==
  UNION {means[<<"value", p[1], p[2]>>] : p \in Fronts(t, i, j) \X Backs(t, i, j)}

Value(t, means, i, j) ==
  When(i = j /\ t[i] \in DOMAIN Literal, {Literal[t[i]]})
  \cup {<<"string", s>> :
         s \in When(i < j /\ t[i] = Quote /\ t[j] = Quote, Unquoted(t, i + 1, j - 1))}
  \cup When(i <= j /\ t[i] \in Digits \cup {"-"}, Numbers(t, i, j))
  \cup {<<"array", a>> :
         a \in When(i < j /\ t[i] = "[" /\ t[j] = "]",
                   When(AllWhite(t, i + 1, j - 1), {<<>>})
                   \cup means[<<"elements", i + 1, j - 1>>])}
  \cup {<<"object", o>> :
         o \in When(i < j /\ t[i] = "{" /\ t[j] = "}",
                   When(AllWhite(t, i + 1, j - 1), {<<>>})
                   \cup When(\A a \in Fronts(t, i + 1, j - 1) : t[a] # "}",
                             means[<<"members", i + 1, j - 1>>]))}

ElementsAround(t, means, i, c, j) ==
  {<<v>> \o rest : v \in Padded(t, means, i, c - 1), rest \in means[<<"elements", c + 1, j>>]}

Elements(t, means, i, j) ==
  {<<v>> : v \in Padded(t, means, i, j)}
  \cup UNION {ElementsAround(t, means, i, c, j) : c \in Marks(t, i, j, Comma)}

\* A key ends in a quote; its first character may be anything but, in an object,
\* the brace that would make it empty.
Keys(t, i, j) ==
  UNION {Unquoted(t, p[1] + 1, p[2] - 1) :
           p \in {p \in Fronts(t, i, j) \X Backs(t, i, j) : p[1] < p[2] /\ t[p[2]] = Quote}}

\* The member with its colon at c, and the members it stands ahead of with its
\* comma at d.
Member(t, means, i, c, j) ==
  {Under(k, v, <<>>) : k \in Keys(t, i, c - 1), v \in Padded(t, means, c + 1, j)}
MembersAround(t, means, i, c, d, j) ==
  {Under(k, v, o) : k \in Keys(t, i, c - 1), v \in Padded(t, means, c + 1, d - 1),
                    o \in means[<<"members", d + 1, j>>]}

Members(t, means, i, j) ==
  UNION {Member(t, means, i, c, j)
           \cup UNION {MembersAround(t, means, i, c, d, j) : d \in Marks(t, c, j, Comma)} :
         c \in Marks(t, i, j, Colon)}

Denoted(t) ==
  LET means[p \in {"value", "elements", "members"} \X (1..(Len(t) + 1)) \X (0..Len(t))] ==
        IF p[1] = "value" THEN Value(t, means, p[2], p[3])
        ELSE IF p[1] = "elements" THEN Elements(t, means, p[2], p[3])
        ELSE Members(t, means, p[2], p[3])
  IN Padded(t, means, 1, Len(t))

(***************************************************************************)
(* The text as the parser reads it.                                        *)
(***************************************************************************)
Parsed == JsonParse(text)

\* The value the text is read as: one, or none.
Documents ==
  IF kind = "json" THEN {r.val : r \in {p \in {Parsed} : p.ok}} ELSE {}

\* JSON::Parse comes to a verdict on the text or on its terminator, never
\* behind it.
TypeOK ==
  kind = "json" => \A r \in {Parsed} : r.ok \in BOOLEAN /\ r.pos \in 1..(Len(text) + 1)

\* A text is accepted exactly if the grammar gives it a value, and as that
\* value: JSONValue::Parse, ExtractString and the number parser.
ReadsTheGrammar ==
  kind = "json" => Denoted(text) = Documents
=============================================================================
