------------------------------ MODULE JsonProofs ------------------------------
(***************************************************************************)
(* The parser of the JSON library reads every text, whatever its length    *)
(* and depth, as the grammar does, and never reads behind its terminator;  *)
(* a string that is printed is read back, and module names keep what they  *)
(* are.                                                                    *)
(***************************************************************************)
EXTENDS Text, HttpTextProofs

\* A set that has each element once it has all those of a smaller rank.
LEMMA ByRank ==
  ASSUME NEW D, NEW rank \in [D -> Nat], NEW S,
         \A x \in D : (\A y \in D : rank[y] < rank[x] => y \in S) => x \in S
  PROVE  \A x \in D : x \in S
<1> SUFFICES ASSUME NEW z \in D, z \notin S PROVE FALSE
  OBVIOUS
<1> DEFINE R == {rank[x] : x \in D \ S}
<1>1. R \in SUBSET Nat /\ R # {}
  OBVIOUS
<1>2. PICK m \in R : \A k \in R : m <= k
  <2> HIDE DEF R
  <2> QED
    BY <1>1, LeastNumber
<1>3. PICK x \in D \ S : m = rank[x]
  BY <1>2
<1>4. ASSUME NEW y \in D, rank[y] < rank[x] PROVE y \in S
  <2>1. y \notin S => m <= rank[y]
    BY <1>2
  <2>2. rank[y] \in Nat /\ rank[x] \in Nat
    OBVIOUS
  <2> QED
    BY <1>3, <1>4, <2>1, <2>2
<1> QED
  BY <1>3, <1>4

-------------------------------------------------------------------------------
(* Characters and where a run of them ends. *)

LEMMA Character ==
  ASSUME NEW C, NEW t \in Seq(C), End \notin C, NEW i \in Nat, i # 0
  PROVE  /\ At(t, i) = End <=> i > Len(t)
         /\ i <= Len(t) => At(t, i) = t[i]
  BY DEF At

Stops(t, i, j, set) ==
  /\ j \in i .. (Len(t) + 1)
  /\ At(t, j) \notin set
  /\ \A k \in i .. (j - 1) : At(t, k) \in set

LEMMA PastAllStops ==
  ASSUME NEW C, NEW t \in Seq(C), NEW set, End \notin set, NEW i \in 1 .. (Len(t) + 1)
  PROVE  Stops(t, i, PastAll(t, i, set), set)
<1> DEFINE n == Len(t)
           S == {j \in i .. (n + 1) : At(t, j) \notin set}
<1>1. n \in Nat /\ At(t, n + 1) = End
  BY DEF At
<1>2. S \in SUBSET Nat /\ S # {}
  BY <1>1
<1>3. PICK m \in S : \A k \in S : m <= k
  <2> HIDE DEF S
  <2> QED
    BY <1>2, LeastNumber
<1>4. Stops(t, i, m, set)
  BY <1>1, <1>3 DEF Stops
<1> QED
  BY <1>4, Zenon DEF Stops, PastAll

LEMMA PastAllUnique ==
  ASSUME NEW C, NEW t \in Seq(C), NEW set, NEW i \in Nat, i # 0, NEW j, Stops(t, i, j, set)
  PROVE  PastAll(t, i, set) = j
<1> DEFINE p == PastAll(t, i, set)
<1>1. Stops(t, i, p, set)
  BY Zenon DEF Stops, PastAll
<1>2. Len(t) \in Nat
  OBVIOUS
<1>3. p \in Nat /\ j \in Nat /\ p >= i /\ j >= i
  BY <1>1, <1>2 DEF Stops
<1> HIDE DEF p
<1>4. ~ (p < j)
  BY <1>1, <1>2, <1>3 DEF Stops
<1>5. ~ (j < p)
  BY <1>1, <1>2, <1>3 DEF Stops
<1> QED
  BY <1>3, <1>4, <1>5 DEF p

LEMMA NotEnd == End \notin White /\ End \notin Digits
  BY DEF End, White, Digits, DigitChars, ToSet

-------------------------------------------------------------------------------
(* Strings. *)

\* What is read from i on: a verdict behind i or, if it is none, not before i.
Reads(t, r, i) ==
  /\ r.ok \in BOOLEAN
  /\ r.pos \in i .. (Len(t) + 1)
  /\ r.ok => r.pos > i

\* What is read further on, made part of what is read from i on.
LEMMA ReadsLater ==
  ASSUME NEW C, NEW t \in Seq(C), NEW i \in Nat, NEW k \in Nat, i <= k, NEW r, Reads(t, r, k), NEW x, NEW y
  PROVE  /\ Reads(t, As(x, r), i)
         /\ Reads(t, Ahead(x, r), i)
         /\ Reads(t, With(x, y, r), i)
<1>1. Len(t) \in Nat
  OBVIOUS
<1>2. CASE r.ok
  <2>1. As(x, r) = Done(r.pos, <<x, r.val>>) /\ Ahead(x, r) = Done(r.pos, <<x>> \o r.val)
        /\ With(x, y, r) = Done(r.pos, Under(x, y, r.val))
    BY <1>2 DEF As, Ahead, With
  <2>2. r.pos \in i .. (Len(t) + 1) /\ r.pos > i
    BY <1>1, <1>2 DEF Reads
  <2>3. \A v : Reads(t, Done(r.pos, v), i)
    BY <2>2 DEF Reads, Done
  <2> QED
    BY <2>1, <2>3
<1>3. CASE ~ r.ok
  <2>1. As(x, r) = r /\ Ahead(x, r) = r /\ With(x, y, r) = r
    BY <1>3 DEF As, Ahead, With
  <2>2. Reads(t, r, i)
    BY <1>1, <1>3 DEF Reads
  <2> QED
    BY <2>1, <2>2
<1> QED
  BY <1>2, <1>3

\* A string from i on, given what is read from later positions.
StringAt(t, from, i) ==
  IF At(t, i) = Quote THEN Done(i + 1, <<>>)
  ELSE IF At(t, i) \in Disallowed \cup {End} THEN Fail(i)
  ELSE IF At(t, i) # Backslash THEN Ahead(At(t, i), from[i + 1])
  ELSE IF At(t, i + 1) \in DOMAIN Unescaped THEN Ahead(Unescaped[At(t, i + 1)], from[i + 2])
  ELSE IF At(t, i + 1) = "u" /\ At(t, i + 2) = "hex" THEN Ahead("wide", from[i + 3])
  ELSE Fail(i + 1)

LEMMA EscapeEnds == End \notin DOMAIN Unescaped /\ End # Quote /\ End # Backslash
  BY DEF Unescaped, ShortEscape, End, Quote, Backslash

\* The positions a character is followed by.
LEMMA StringLooks ==
  ASSUME NEW C, NEW t \in Seq(C), End \notin C, NEW i \in 1 .. (Len(t) + 1)
  PROVE  /\ At(t, i) # End => i + 1 \in 1 .. (Len(t) + 1)
         /\ At(t, i) # End /\ At(t, i + 1) \in DOMAIN Unescaped
              => i + 2 \in 1 .. (Len(t) + 1)
         /\ At(t, i) # End /\ At(t, i + 1) = "u" /\ At(t, i + 2) = "hex"
              => i + 3 \in 1 .. (Len(t) + 1)
<1>1. Len(t) \in Nat /\ i \in Nat /\ i # 0 /\ i + 1 \in Nat /\ i + 2 \in Nat
      /\ i + 1 # 0 /\ i + 2 # 0
  OBVIOUS
<1>2. /\ At(t, i) = End <=> i > Len(t)
      /\ At(t, i + 1) = End <=> i + 1 > Len(t)
      /\ At(t, i + 2) = End <=> i + 2 > Len(t)
  BY <1>1, Character
<1>3. "u" # End /\ "hex" # End
  BY DEF End
<1> QED
  BY <1>1, <1>2, <1>3, EscapeEnds

LEMMA StringLocal ==
  ASSUME NEW C, NEW t \in Seq(C), End \notin C, NEW i \in 1 .. (Len(t) + 1), NEW f, NEW g,
         \A k \in 1 .. (Len(t) + 1) : k > i => f[k] = g[k]
  PROVE  StringAt(t, f, i) = StringAt(t, g, i)
<1>1. /\ At(t, i) # End => f[i + 1] = g[i + 1]
      /\ At(t, i) # End /\ At(t, i + 1) \in DOMAIN Unescaped => f[i + 2] = g[i + 2]
      /\ At(t, i) # End /\ At(t, i + 1) = "u" /\ At(t, i + 2) = "hex" => f[i + 3] = g[i + 3]
  <2>1. i + 1 > i /\ i + 2 > i /\ i + 3 > i
    OBVIOUS
  <2> QED
    BY <2>1, StringLooks
<1> QED
  BY <1>1, EscapeEnds, Zenon DEF StringAt

LEMMA StringExists ==
  ASSUME NEW C, NEW t \in Seq(C), End \notin C
  PROVE  \E f : f = [i \in 1 .. (Len(t) + 1) |-> StringAt(t, f, i)]
<1> DEFINE D == 1 .. (Len(t) + 1)
           W == {m \in Nat : \E f : \A i \in D : Len(t) + 1 - i < m => f[i] = StringAt(t, f, i)}
<1>1. Len(t) \in Nat /\ D \in SUBSET Nat
  OBVIOUS
<1>2. 0 \in W
  BY <1>1
<1>3. ASSUME NEW m \in W PROVE m + 1 \in W
  <2>1. PICK f : \A i \in D : Len(t) + 1 - i < m => f[i] = StringAt(t, f, i)
    OBVIOUS
  <2> DEFINE g == [i \in D |-> IF Len(t) + 1 - i < m THEN f[i] ELSE StringAt(t, f, i)]
  <2>2. \A i \in D : g[i] = StringAt(t, f, i)
    BY <2>1
  <2>3. \A i \in D : Len(t) + 1 - i < m => g[i] = f[i]
    OBVIOUS
  <2>4. ASSUME NEW i \in D, Len(t) + 1 - i < m + 1 PROVE StringAt(t, f, i) = StringAt(t, g, i)
    <3> HIDE DEF g
    <3>1. \A k \in D : k > i => f[k] = g[k]
      BY <1>1, <2>3, <2>4
    <3> QED
      BY <3>1, StringLocal
  <2> HIDE DEF g
  <2>5. \A i \in D : Len(t) + 1 - i < m + 1 => g[i] = StringAt(t, g, i)
    BY <2>2, <2>4
  <2> QED
    BY <2>5
<1>4. W = Nat
  <2> HIDE DEF W
  <2> QED
    BY <1>2, <1>3, AllNumbers DEF W
<1>5. PICK f : \A i \in D : Len(t) + 1 - i < Len(t) + 1 => f[i] = StringAt(t, f, i)
  <2>1. Len(t) + 1 \in W
    BY <1>1, <1>4
  <2> QED
    BY <2>1
<1> DEFINE g == [i \in D |-> f[i]]
<1>6. ASSUME NEW i \in D PROVE g[i] = StringAt(t, g, i)
  <2>1. f[i] = StringAt(t, f, i)
    BY <1>1, <1>5
  <2>2. \A k \in D : k > i => f[k] = g[k]
    OBVIOUS
  <2>3. g[i] = f[i]
    OBVIOUS
  <2> HIDE DEF g
  <2>4. StringAt(t, f, i) = StringAt(t, g, i)
    BY <2>2, StringLocal
  <2> QED
    BY <2>1, <2>3, <2>4
<1>7. g = [i \in D |-> StringAt(t, g, i)]
  <2>1. g = [i \in D |-> g[i]]
    OBVIOUS
  <2> HIDE DEF g
  <2> QED
    BY <1>6, <2>1
<1> QED
  <2> HIDE DEF g
  <2> QED
    BY <1>7

\* The scanner, one character at a time.
LEMMA StringIs ==
  ASSUME NEW C, NEW t \in Seq(C), End \notin C
  PROVE  \E f : \A i \in 1 .. (Len(t) + 1) :
           ExtractString(t, i) = f[i] /\ f[i] = StringAt(t, f, i)
<1> DEFINE Good(f) == f = [i \in 1 .. (Len(t) + 1) |-> StringAt(t, f, i)]
           from == CHOOSE f : Good(f)
<1>1. ASSUME NEW i \in 1 .. (Len(t) + 1) PROVE ExtractString(t, i) = from[i]
  BY DEF ExtractString, StringAt
<1>2. Good(from)
  <2>1. \E f : Good(f)
    BY StringExists
  <2> HIDE DEF Good
  <2> QED
    BY <2>1
<1>3. \A i \in 1 .. (Len(t) + 1) : from[i] = StringAt(t, from, i)
  BY <1>2, Zenon
<1> HIDE DEF from
<1> QED
  BY <1>1, <1>3

\* A string ends behind its beginning or where the scanner gives up.
LEMMA StringReads ==
  ASSUME NEW C, NEW t \in Seq(C), End \notin C, NEW i \in 1 .. (Len(t) + 1)
  PROVE  Reads(t, ExtractString(t, i), i)
<1> DEFINE n == Len(t)
           D == 1 .. (n + 1)
           rank == [k \in D |-> n + 1 - k]
<1>1. n \in Nat /\ D \in SUBSET Nat /\ rank \in [D -> Nat]
  OBVIOUS
<1>2. PICK f : \A k \in D : ExtractString(t, k) = f[k] /\ f[k] = StringAt(t, f, k)
  BY StringIs
<1> DEFINE S == {k \in D : Reads(t, f[k], k)}
<1>3. ASSUME NEW k \in D, \A m \in D : m > k => Reads(t, f[m], m)
      PROVE  Reads(t, f[k], k)
  <2>1. /\ At(t, k) # End => k + 1 \in D
        /\ At(t, k) # End /\ At(t, k + 1) \in DOMAIN Unescaped => k + 2 \in D
        /\ At(t, k) # End /\ At(t, k + 1) = "u" /\ At(t, k + 2) = "hex" => k + 3 \in D
    BY StringLooks
  <2>2. f[k] = StringAt(t, f, k)
    BY <1>2
  <2>3. CASE At(t, k) = Quote
    <3>1. f[k] = Done(k + 1, <<>>) /\ k + 1 \in D
      BY <2>1, <2>2, <2>3, EscapeEnds DEF StringAt
    <3> QED
      BY <1>1, <3>1 DEF Reads, Done
  <2>4. CASE At(t, k) # Quote /\ At(t, k) \in Disallowed \cup {End}
    <3>1. f[k] = Fail(k)
      BY <2>2, <2>4 DEF StringAt
    <3> QED
      BY <1>1, <3>1 DEF Reads, Fail
  <2>5. CASE At(t, k) # Quote /\ At(t, k) \notin Disallowed \cup {End}
    <3>1. ASSUME NEW d \in 1 .. 3, k + d \in D, NEW x, f[k] = Ahead(x, f[k + d])
          PROVE  Reads(t, f[k], k)
      <4>1. Reads(t, f[k + d], k + d) /\ k \in Nat /\ k + d \in Nat /\ k <= k + d
        BY <1>1, <1>3, <3>1
      <4>2. Reads(t, Ahead(x, f[k + d]), k)
        BY <4>1, ReadsLater
      <4> QED
        BY <3>1, <4>2
    <3>2. CASE At(t, k) # Backslash
      <4>1. f[k] = Ahead(At(t, k), f[k + 1])
        BY <2>2, <2>5, <3>2 DEF StringAt
      <4> QED
        BY <2>1, <2>5, <3>1, <4>1
    <3>3. CASE At(t, k) = Backslash /\ At(t, k + 1) \in DOMAIN Unescaped
      <4>1. f[k] = Ahead(Unescaped[At(t, k + 1)], f[k + 2])
        BY <2>2, <2>5, <3>3 DEF StringAt
      <4> QED
        BY <2>1, <2>5, <3>1, <3>3, <4>1
    <3>4. CASE /\ At(t, k) = Backslash /\ At(t, k + 1) \notin DOMAIN Unescaped
               /\ At(t, k + 1) = "u" /\ At(t, k + 2) = "hex"
      <4>1. f[k] = Ahead("wide", f[k + 3])
        BY <2>2, <2>5, <3>4 DEF StringAt
      <4> QED
        BY <2>1, <2>5, <3>1, <3>4, <4>1
    <3>5. CASE /\ At(t, k) = Backslash /\ At(t, k + 1) \notin DOMAIN Unescaped
               /\ ~ (At(t, k + 1) = "u" /\ At(t, k + 2) = "hex")
      <4>1. f[k] = Fail(k + 1)
        BY <2>2, <2>5, <3>5, Zenon DEF StringAt
      <4> QED
        BY <1>1, <2>1, <2>5, <4>1 DEF Reads, Fail
    <3> QED
      BY <3>2, <3>3, <3>4, <3>5
  <2> QED
    BY <2>3, <2>4, <2>5
<1>4. ASSUME NEW k \in D, \A m \in D : rank[m] < rank[k] => m \in S PROVE k \in S
  BY <1>1, <1>3, <1>4
<1>5. \A k \in D : k \in S
  <2> HIDE DEF D, S, rank
  <2> QED
    BY <1>1, <1>4, ByRank
<1> QED
  BY <1>2, <1>5

\* What a part between quotes means, given what its later parts do.
UnquotedAt(t, from, i, last) ==
  When(i = last + 1, {<<>>})
  \cup When(i <= last /\ At(t, i) \notin Disallowed \cup {Quote, Backslash},
            {<<At(t, i)>> \o s : s \in from[i + 1]})
  \cup When(i < last /\ At(t, i) = Backslash /\ At(t, i + 1) \in DOMAIN Unescaped,
            {<<Unescaped[At(t, i + 1)]>> \o s : s \in from[i + 2]})
  \cup When(i + 1 < last /\ <<At(t, i), At(t, i + 1), At(t, i + 2)>> = <<Backslash, "u", "hex">>,
            {<<"wide">> \o s : s \in from[i + 3]})

LEMMA UnquotedLocal ==
  ASSUME NEW n \in Nat, NEW t, NEW i \in 1 .. (n + 1), NEW last \in 0 .. n, NEW f, NEW g,
         \A k \in 1 .. (n + 1) : k > i => f[k] = g[k]
  PROVE  UnquotedAt(t, f, i, last) = UnquotedAt(t, g, i, last)
<1>1. /\ i <= last => f[i + 1] = g[i + 1]
      /\ i < last => f[i + 2] = g[i + 2]
      /\ i + 1 < last => f[i + 3] = g[i + 3]
  <2>1. i + 1 > i /\ i + 2 > i /\ i + 3 > i
    OBVIOUS
  <2>2. /\ i <= last => i + 1 \in 1 .. (n + 1)
        /\ i < last => i + 2 \in 1 .. (n + 1)
        /\ i + 1 < last => i + 3 \in 1 .. (n + 1)
    OBVIOUS
  <2> QED
    BY <2>1, <2>2
<1> QED
  BY <1>1, Zenon DEF UnquotedAt, When

LEMMA UnquotedExists ==
  ASSUME NEW n \in Nat, NEW t, NEW last \in 0 .. n
  PROVE  \E f : f = [i \in 1 .. (n + 1) |-> UnquotedAt(t, f, i, last)]
<1> DEFINE D == 1 .. (n + 1)
           W == {m \in Nat : \E f : \A i \in D : n + 1 - i < m => f[i] = UnquotedAt(t, f, i, last)}
<1>1. D \in SUBSET Nat
  OBVIOUS
<1>2. 0 \in W
  BY <1>1
<1>3. ASSUME NEW m \in W PROVE m + 1 \in W
  <2>1. PICK f : \A i \in D : n + 1 - i < m => f[i] = UnquotedAt(t, f, i, last)
    OBVIOUS
  <2> DEFINE g == [i \in D |-> IF n + 1 - i < m THEN f[i] ELSE UnquotedAt(t, f, i, last)]
  <2>2. \A i \in D : g[i] = UnquotedAt(t, f, i, last)
    BY <2>1
  <2>3. \A i \in D : n + 1 - i < m => g[i] = f[i]
    OBVIOUS
  <2>4. ASSUME NEW i \in D, n + 1 - i < m + 1
        PROVE  UnquotedAt(t, f, i, last) = UnquotedAt(t, g, i, last)
    <3> HIDE DEF g
    <3>1. \A k \in D : k > i => f[k] = g[k]
      BY <1>1, <2>3, <2>4
    <3> QED
      BY <3>1, UnquotedLocal
  <2> HIDE DEF g
  <2>5. \A i \in D : n + 1 - i < m + 1 => g[i] = UnquotedAt(t, g, i, last)
    BY <2>2, <2>4
  <2> QED
    BY <2>5
<1>4. W = Nat
  <2> HIDE DEF W
  <2> QED
    BY <1>2, <1>3, AllNumbers DEF W
<1>5. PICK f : \A i \in D : n + 1 - i < n + 1 => f[i] = UnquotedAt(t, f, i, last)
  <2>1. n + 1 \in W
    BY <1>1, <1>4
  <2> QED
    BY <2>1
<1> DEFINE g == [i \in D |-> f[i]]
<1>6. ASSUME NEW i \in D PROVE g[i] = UnquotedAt(t, g, i, last)
  <2>1. f[i] = UnquotedAt(t, f, i, last)
    BY <1>1, <1>5
  <2>2. \A k \in D : k > i => f[k] = g[k]
    OBVIOUS
  <2>3. g[i] = f[i]
    OBVIOUS
  <2> HIDE DEF g
  <2>4. UnquotedAt(t, f, i, last) = UnquotedAt(t, g, i, last)
    BY <2>2, UnquotedLocal
  <2> QED
    BY <2>1, <2>3, <2>4
<1>7. g = [i \in D |-> UnquotedAt(t, g, i, last)]
  <2>1. g = [i \in D |-> g[i]]
    OBVIOUS
  <2> HIDE DEF g
  <2> QED
    BY <1>6, <2>1
<1> QED
  <2> HIDE DEF g
  <2> QED
    BY <1>7

LEMMA UnquotedIs ==
  ASSUME NEW C, NEW t \in Seq(C), NEW last \in 0 .. Len(t)
  PROVE  \E f : \A i \in 1 .. (Len(t) + 1) :
           Unquoted(t, i, last) = f[i] /\ f[i] = UnquotedAt(t, f, i, last)
<1> DEFINE Good(f) == f = [i \in 1 .. (Len(t) + 1) |-> UnquotedAt(t, f, i, last)]
           from == CHOOSE f : Good(f)
<1>1. ASSUME NEW i \in 1 .. (Len(t) + 1) PROVE Unquoted(t, i, last) = from[i]
  BY DEF Unquoted, UnquotedAt
<1>2. Good(from)
  <2>1. \E f : Good(f)
    <3>1. Len(t) \in Nat
      OBVIOUS
    <3> QED
      BY <3>1, UnquotedExists
  <2> HIDE DEF Good
  <2> QED
    BY <2>1
<1>3. \A i \in 1 .. (Len(t) + 1) : from[i] = UnquotedAt(t, from, i, last)
  BY <1>2, Zenon
<1> HIDE DEF from
<1> QED
  BY <1>1, <1>3

\* A part between quotes, one character at a time.
SaysFirst(t, i, last, u) ==
  \/ i = last + 1 /\ u = <<>>
  \/ /\ i <= last /\ At(t, i) \notin Disallowed \cup {Quote, Backslash}
     /\ \E s \in Unquoted(t, i + 1, last) : u = <<At(t, i)>> \o s
  \/ /\ i < last /\ At(t, i) = Backslash /\ At(t, i + 1) \in DOMAIN Unescaped
     /\ \E s \in Unquoted(t, i + 2, last) : u = <<Unescaped[At(t, i + 1)]>> \o s
  \/ /\ i + 1 < last /\ At(t, i) = Backslash /\ At(t, i + 1) = "u" /\ At(t, i + 2) = "hex"
     /\ \E s \in Unquoted(t, i + 3, last) : u = <<"wide">> \o s

LEMMA UnquotedStep ==
  ASSUME NEW C, NEW t \in Seq(C), NEW last \in 0 .. Len(t), NEW i \in 1 .. (Len(t) + 1), NEW u
  PROVE  u \in Unquoted(t, i, last) <=> SaysFirst(t, i, last, u)
<1>1. PICK f : \A k \in 1 .. (Len(t) + 1) :
                 Unquoted(t, k, last) = f[k] /\ f[k] = UnquotedAt(t, f, k, last)
  BY UnquotedIs
<1>2. Len(t) \in Nat
  OBVIOUS
<1>3. /\ i <= last => Unquoted(t, i + 1, last) = f[i + 1]
      /\ i < last => Unquoted(t, i + 2, last) = f[i + 2]
      /\ i + 1 < last => Unquoted(t, i + 3, last) = f[i + 3]
  <2>1. /\ i <= last => i + 1 \in 1 .. (Len(t) + 1)
        /\ i < last => i + 2 \in 1 .. (Len(t) + 1)
        /\ i + 1 < last => i + 3 \in 1 .. (Len(t) + 1)
    BY <1>2
  <2> QED
    BY <1>1, <2>1
<1>4. u \in Unquoted(t, i, last) <=> u \in UnquotedAt(t, f, i, last)
  BY <1>1
<1>5. <<At(t, i), At(t, i + 1), At(t, i + 2)>> = <<Backslash, "u", "hex">>
        <=> At(t, i) = Backslash /\ At(t, i + 1) = "u" /\ At(t, i + 2) = "hex"
  OBVIOUS
<1> QED
  BY <1>3, <1>4, <1>5, Zenon DEF UnquotedAt, When, SaysFirst

\* The scanner, one character at a time.
LEMMA ExtractStep ==
  ASSUME NEW C, NEW t \in Seq(C), End \notin C, NEW i \in 1 .. (Len(t) + 1)
  PROVE  /\ At(t, i) = Quote => ExtractString(t, i) = Done(i + 1, <<>>)
         /\ At(t, i) \in Disallowed \cup {End} => ~ ExtractString(t, i).ok
         /\ At(t, i) \notin Disallowed \cup {End, Quote, Backslash}
              => ExtractString(t, i) = Ahead(At(t, i), ExtractString(t, i + 1))
         /\ At(t, i) = Backslash =>
              /\ At(t, i + 1) \in DOMAIN Unescaped =>
                   ExtractString(t, i) = Ahead(Unescaped[At(t, i + 1)], ExtractString(t, i + 2))
              /\ At(t, i + 1) = "u" /\ At(t, i + 2) = "hex" =>
                   ExtractString(t, i) = Ahead("wide", ExtractString(t, i + 3))
              /\ At(t, i + 1) \notin DOMAIN Unescaped
                 /\ ~ (At(t, i + 1) = "u" /\ At(t, i + 2) = "hex") => ~ ExtractString(t, i).ok
<1>1. PICK f : \A k \in 1 .. (Len(t) + 1) : ExtractString(t, k) = f[k] /\ f[k] = StringAt(t, f, k)
  BY StringIs
<1>2. /\ At(t, i) # End => ExtractString(t, i + 1) = f[i + 1]
      /\ At(t, i) # End /\ At(t, i + 1) \in DOMAIN Unescaped => ExtractString(t, i + 2) = f[i + 2]
      /\ At(t, i) # End /\ At(t, i + 1) = "u" /\ At(t, i + 2) = "hex"
           => ExtractString(t, i + 3) = f[i + 3]
  BY <1>1, StringLooks
<1>3. ExtractString(t, i) = StringAt(t, f, i)
  BY <1>1
<1>4. /\ Quote \notin Disallowed /\ Backslash \notin Disallowed /\ Backslash # Quote
      /\ "u" \notin DOMAIN Unescaped
  BY DEF Quote, Backslash, Disallowed, Unescaped, ShortEscape
<1>5. ~ Fail(i).ok /\ ~ Fail(i + 1).ok
  BY DEF Fail
<1> QED
  BY <1>2, <1>3, <1>4, <1>5, EscapeEnds, Zenon DEF StringAt

LEMMA AheadIs ==
  ASSUME NEW x, NEW r
  PROVE  /\ r.ok => /\ Ahead(x, r).ok /\ Ahead(x, r).pos = r.pos
                    /\ Ahead(x, r).val = <<x>> \o r.val
         /\ ~ r.ok => ~ Ahead(x, r).ok
  BY DEF Ahead, Done

\* A string that is read is what stands before the quote that ends it.
LEMMA StringSound ==
  ASSUME NEW C, NEW t \in Seq(C), End \notin C, NEW i \in 1 .. (Len(t) + 1),
         ExtractString(t, i).ok
  PROVE  LET p == ExtractString(t, i).pos
         IN /\ p - 1 \in i .. Len(t) /\ At(t, p - 1) = Quote
            /\ ExtractString(t, i).val \in Unquoted(t, i, p - 2)
<1> DEFINE n == Len(t)
           D == 1 .. (n + 1)
           rank == [k \in D |-> n + 1 - k]
           r(k) == ExtractString(t, k)
           Q(k, p, v) == p - 1 \in k .. n /\ At(t, p - 1) = Quote /\ v \in Unquoted(t, k, p - 2)
           S == {k \in D : r(k).ok => Q(k, r(k).pos, r(k).val)}
<1>1. n \in Nat /\ D \in SUBSET Nat /\ rank \in [D -> Nat]
  OBVIOUS
<1>2. ASSUME NEW k \in D, \A m \in D : m > k => m \in S, r(k).ok
      PROVE  Q(k, r(k).pos, r(k).val)
  <2>1. /\ At(t, k) # End => k + 1 \in D
        /\ At(t, k) # End /\ At(t, k + 1) \in DOMAIN Unescaped => k + 2 \in D
        /\ At(t, k) # End /\ At(t, k + 1) = "u" /\ At(t, k + 2) = "hex" => k + 3 \in D
    BY StringLooks
  <2>2. CASE At(t, k) = Quote
    <3>1. r(k).pos = k + 1 /\ r(k).val = <<>>
      BY <2>2, ExtractStep DEF Done
    <3>2. k \in k .. n
      <4>1. k + 1 \in D
        BY <2>1, <2>2, EscapeEnds
      <4> QED
        BY <1>1, <4>1
    <3>3. (k + 1) - 1 = k /\ (k + 1) - 2 = k - 1 /\ k - 1 \in 0 .. n /\ k = (k - 1) + 1
      BY <1>1, <3>2
    <3>4. <<>> \in Unquoted(t, k, k - 1)
      BY <1>1, <3>3, UnquotedStep DEF SaysFirst
    <3> QED
      BY <2>2, <3>1, <3>2, <3>3, <3>4
  <2>3. CASE At(t, k) # Quote
    <3>1. At(t, k) \notin Disallowed \cup {End, Quote}
      BY <1>2, <2>3, ExtractStep
    <3>2. r(k).pos \in Nat /\ k \in Nat /\ 1 \in 1 .. 3 /\ 2 \in 1 .. 3 /\ 3 \in 1 .. 3
      BY <1>1, StringReads DEF Reads
    <3>3. ASSUME NEW d \in 1 .. 3, k + d \in D, NEW x, r(k) = Ahead(x, r(k + d))
          PROVE  /\ r(k).pos - 1 \in k + d .. n /\ At(t, r(k).pos - 1) = Quote
                 /\ \E s \in Unquoted(t, k + d, r(k).pos - 2) : r(k).val = <<x>> \o s
      <4>1. r(k + d).ok /\ r(k).pos = r(k + d).pos /\ r(k).val = <<x>> \o r(k + d).val
        <5> DEFINE q == r(k + d)
        <5>1. /\ q.ok => Ahead(x, q).pos = q.pos /\ Ahead(x, q).val = <<x>> \o q.val
              /\ ~ q.ok => ~ Ahead(x, q).ok
          <6> HIDE DEF q
          <6> QED
            BY AheadIs
        <5>2. r(k) = Ahead(x, q) /\ r(k).ok
          BY <1>2, <3>3
        <5> HIDE DEF r, q
        <5>3. q.ok /\ r(k).pos = q.pos /\ r(k).val = <<x>> \o q.val
          BY <5>1, <5>2
        <5> QED
          BY <5>3 DEF q
      <4>2. k + d \in S
        BY <1>1, <1>2, <3>3
      <4>3. Q(k + d, r(k + d).pos, r(k + d).val)
        BY <4>1, <4>2
      <4> QED
        BY <4>1, <4>3
    <3>4. CASE At(t, k) # Backslash
      <4>1. r(k) = Ahead(At(t, k), r(k + 1)) /\ k + 1 \in D
        BY <2>1, <3>1, <3>4, ExtractStep
      <4>2. /\ r(k).pos - 1 \in k + 1 .. n /\ At(t, r(k).pos - 1) = Quote
            /\ \E s \in Unquoted(t, k + 1, r(k).pos - 2) : r(k).val = <<At(t, k)>> \o s
        BY <3>2, <3>3, <4>1
      <4>3. r(k).pos - 2 \in 0 .. n /\ k <= r(k).pos - 2 /\ r(k).pos - 1 \in k .. n
        BY <1>1, <3>2, <4>2, SMTT(30)
      <4>4. r(k).val \in Unquoted(t, k, r(k).pos - 2)
        BY <3>1, <3>4, <4>2, <4>3, UnquotedStep DEF SaysFirst
      <4> QED
        BY <4>2, <4>3, <4>4
    <3>5. CASE At(t, k) = Backslash /\ At(t, k + 1) \in DOMAIN Unescaped
      <4>1. r(k) = Ahead(Unescaped[At(t, k + 1)], r(k + 2)) /\ k + 2 \in D
        BY <2>1, <3>1, <3>5, ExtractStep
      <4>2. /\ r(k).pos - 1 \in k + 2 .. n /\ At(t, r(k).pos - 1) = Quote
            /\ \E s \in Unquoted(t, k + 2, r(k).pos - 2) : r(k).val = <<Unescaped[At(t, k + 1)]>> \o s
        BY <3>2, <3>3, <4>1
      <4>3. r(k).pos - 2 \in 0 .. n /\ k < r(k).pos - 2 /\ r(k).pos - 1 \in k .. n
        BY <1>1, <3>2, <4>2, SMTT(30)
      <4>4. r(k).val \in Unquoted(t, k, r(k).pos - 2)
        BY <3>5, <4>2, <4>3, UnquotedStep DEF SaysFirst
      <4> QED
        BY <4>2, <4>3, <4>4
    <3>6. CASE At(t, k) = Backslash /\ At(t, k + 1) \notin DOMAIN Unescaped
      <4>1. At(t, k + 1) = "u" /\ At(t, k + 2) = "hex"
        BY <1>2, <3>6, ExtractStep
      <4>2. r(k) = Ahead("wide", r(k + 3)) /\ k + 3 \in D
        BY <2>1, <3>1, <3>6, <4>1, ExtractStep
      <4>3. /\ r(k).pos - 1 \in k + 3 .. n /\ At(t, r(k).pos - 1) = Quote
            /\ \E s \in Unquoted(t, k + 3, r(k).pos - 2) : r(k).val = <<"wide">> \o s
        BY <3>2, <3>3, <4>2
      <4>4. r(k).pos - 2 \in 0 .. n /\ k + 1 < r(k).pos - 2 /\ r(k).pos - 1 \in k .. n
        BY <1>1, <3>2, <4>3
      <4>5. r(k).val \in Unquoted(t, k, r(k).pos - 2)
        BY <3>6, <4>1, <4>3, <4>4, UnquotedStep DEF SaysFirst
      <4> QED
        BY <4>3, <4>4, <4>5
    <3> QED
      BY <3>4, <3>5, <3>6
  <2> QED
    BY <2>2, <2>3
<1>3. ASSUME NEW k \in D, \A m \in D : rank[m] < rank[k] => m \in S PROVE k \in S
  <2>1. \A m \in D : m > k => m \in S
    BY <1>1, <1>3
  <2> QED
    BY <1>2, <2>1
<1>4. \A k \in D : k \in S
  <2> HIDE DEF D, S, rank
  <2> QED
    BY <1>1, <1>3, ByRank
<1> QED
  BY <1>4

LEMMA OfDone ==
  ASSUME NEW x, NEW y, NEW p, NEW v
  PROVE  /\ Done(p, v).ok /\ Done(p, v).pos = p /\ Done(p, v).val = v
         /\ As(x, Done(p, v)) = Done(p, <<x, v>>)
         /\ Ahead(x, Done(p, v)) = Done(p, <<x>> \o v)
         /\ With(x, y, Done(p, v)) = Done(p, Under(x, y, v))
BY DEF Done, As, Ahead, With

\* What stands before a quote is read as a string that the quote ends.
LEMMA StringComplete ==
  ASSUME NEW C, NEW t \in Seq(C), End \notin C, NEW last \in 0 .. Len(t), At(t, last + 1) = Quote,
         NEW i \in 1 .. (Len(t) + 1), NEW u \in Unquoted(t, i, last)
  PROVE  ExtractString(t, i) = Done(last + 2, u)
<1> DEFINE n == Len(t)
           D == 1 .. (n + 1)
           rank == [k \in D |-> n + 1 - k]
           Q(k) == \A s \in Unquoted(t, k, last) : ExtractString(t, k) = Done(last + 2, s)
           S == {k \in D : Q(k)}
<1>1. n \in Nat /\ D \in SUBSET Nat /\ rank \in [D -> Nat]
  OBVIOUS
<1>2. ASSUME NEW k \in D, \A m \in D : m > k => Q(m), NEW s \in Unquoted(t, k, last)
      PROVE  ExtractString(t, k) = Done(last + 2, s)
  <2>1. k \in Nat /\ k # 0 /\ last \in Nat /\ last <= n
    BY <1>1
  <2>2. CASE k = last + 1 /\ s = <<>>
    <3>1. ExtractString(t, k) = Done(k + 1, <<>>)
      BY <2>2, ExtractStep
    <3>2. k + 1 = last + 2
      BY <2>1, <2>2
    <3> QED
      BY <2>2, <3>1, <3>2
  <2>3. ASSUME NEW d \in 1 .. 3, k + d \in D, NEW x,
               ExtractString(t, k) = Ahead(x, ExtractString(t, k + d)),
               NEW v \in Unquoted(t, k + d, last), s = <<x>> \o v
        PROVE  ExtractString(t, k) = Done(last + 2, s)
    <3>1. ExtractString(t, k + d) = Done(last + 2, v)
      BY <1>1, <1>2, <2>3
    <3>2. Ahead(x, Done(last + 2, v)) = Done(last + 2, <<x>> \o v)
      BY DEF Ahead, Done
    <3> QED
      BY <2>3, <3>1, <3>2
  <2>4. CASE /\ k <= last /\ At(t, k) \notin Disallowed \cup {Quote, Backslash}
             /\ \E v \in Unquoted(t, k + 1, last) : s = <<At(t, k)>> \o v
    <3>1. At(t, k) # End
      BY <2>1, <2>4, Character
    <3>2. ExtractString(t, k) = Ahead(At(t, k), ExtractString(t, k + 1))
      BY <2>4, <3>1, ExtractStep
    <3>3. k + 1 \in D /\ 1 \in 1 .. 3
      BY <2>1, <2>4
    <3> QED
      BY <2>3, <2>4, <3>2, <3>3
  <2>5. CASE /\ k < last /\ At(t, k) = Backslash /\ At(t, k + 1) \in DOMAIN Unescaped
             /\ \E v \in Unquoted(t, k + 2, last) : s = <<Unescaped[At(t, k + 1)]>> \o v
    <3>1. ExtractString(t, k) = Ahead(Unescaped[At(t, k + 1)], ExtractString(t, k + 2))
      BY <2>5, ExtractStep
    <3>2. k + 2 \in D /\ 2 \in 1 .. 3
      BY <2>1, <2>5
    <3> QED
      BY <2>3, <2>5, <3>1, <3>2
  <2>6. CASE /\ k + 1 < last /\ At(t, k) = Backslash /\ At(t, k + 1) = "u" /\ At(t, k + 2) = "hex"
             /\ \E v \in Unquoted(t, k + 3, last) : s = <<"wide">> \o v
    <3>1. ExtractString(t, k) = Ahead("wide", ExtractString(t, k + 3))
      BY <2>6, ExtractStep
    <3>2. k + 3 \in D /\ 3 \in 1 .. 3
      BY <2>1, <2>6
    <3> QED
      BY <2>3, <2>6, <3>1, <3>2
  <2>7. SaysFirst(t, k, last, s)
    BY <1>2, UnquotedStep
  <2> QED
    BY <2>2, <2>4, <2>5, <2>6, <2>7 DEF SaysFirst
<1>3. ASSUME NEW k \in D, \A m \in D : rank[m] < rank[k] => m \in S PROVE k \in S
  <2>1. \A m \in D : m > k => Q(m)
    BY <1>1, <1>3
  <2>2. Q(k)
    BY <1>2, <2>1
  <2> QED
    BY <2>2
<1>4. \A k \in D : k \in S
  <2> HIDE DEF D, S, rank
  <2> QED
    BY <1>1, <1>3, ByRank
<1> QED
  BY <1>4

-------------------------------------------------------------------------------
(* Numbers: the sign, the whole part, the fraction and the exponent end at a, *)
(* b, c and e; the digits of the exponent begin at d.                         *)

SignEnd(t, i) == IF At(t, i) = "-" THEN i + 1 ELSE i
FractionEnd(t, b) == IF At(t, b) = "." THEN PastAll(t, b + 1, Digits) ELSE b
HasExponent(t, c) == At(t, c) \in {"e", "E"}
PowerFrom(t, c) == IF HasExponent(t, c) /\ At(t, c + 1) \in {"+", "-"} THEN c + 2 ELSE c + 1
ExponentEnd(t, c) == IF HasExponent(t, c) THEN PastAll(t, PowerFrom(t, c), Digits) ELSE c

NumberSaid(t, i, a, b, c, d, e) ==
  LET whole == ParseInt(SubSeq(t, a, c - 1))
      power == ParseInt(SubSeq(t, d, e - 1))
  IN Number(IF At(t, i) = "-" THEN -whole ELSE whole,
            (IF At(t, b) = "." THEN b + 1 - c ELSE 0)
            + (IF ~HasExponent(t, c) THEN 0 ELSE IF At(t, c + 1) = "-" THEN -power ELSE power))

NumberRead(t, i, a, b, c, d, e) ==
  IF At(t, a) \notin Digits THEN Fail(a)
  ELSE IF At(t, b) = "." /\ c = b + 1 THEN Fail(c)
  ELSE IF HasExponent(t, c) /\ e = d THEN Fail(d)
  ELSE Done(e, NumberSaid(t, i, a, b, c, d, e))

LEMMA NumberIs ==
  ASSUME NEW t, NEW i, NEW a, a = SignEnd(t, i), NEW b, b = WholeEnd(t, a),
         NEW c, c = FractionEnd(t, b)
  PROVE  ParseNumber(t, i) = NumberRead(t, i, a, b, c, PowerFrom(t, c), ExponentEnd(t, c))
BY SMTT(30) DEF ParseNumber, NumberRead, NumberSaid, SignEnd, FractionEnd, PowerFrom, ExponentEnd, HasExponent

LEMMA NumberChars ==
  /\ "-" # End /\ "." # End /\ "e" # End /\ "E" # End /\ "+" # End
  /\ "-" \notin Digits /\ "." \notin Digits /\ "e" \notin Digits /\ "E" \notin Digits
  /\ "+" \notin Digits /\ "0" \in Digits /\ End \notin Digits
BY DEF End, Digits, DigitChars, ToSet

\* Where the parts of a number that is read end.
LEMMA NumberParts ==
  ASSUME NEW C, NEW t \in Seq(C), End \notin C, NEW i \in 1 .. Len(t),
         At(t, i) \in Digits \cup {"-"}
  PROVE  LET n == Len(t)
             a == SignEnd(t, i)
             b == WholeEnd(t, a)
             c == FractionEnd(t, b)
             d == PowerFrom(t, c)
             e == ExponentEnd(t, c)
         IN /\ a \in i .. (i + 1) /\ a <= n + 1 /\ (a # i => At(t, i) = "-")
            /\ At(t, a) \in Digits =>
                 /\ a <= n /\ b \in (a + 1) .. (n + 1)
                 /\ \A k \in a .. (b - 1) : At(t, k) \in Digits
                 /\ At(t, a) = "0" => b = a + 1
                 /\ c \in b .. (n + 1)
                 /\ At(t, b) = "." => b <= n /\ c \in (b + 1) .. (n + 1)
                 /\ At(t, b) = "." => \A k \in (b + 1) .. (c - 1) : At(t, k) \in Digits
                 /\ At(t, b) # "." => c = b
                 /\ HasExponent(t, c) =>
                      /\ c <= n /\ d \in (c + 1) .. (n + 1) /\ e \in d .. (n + 1)
                      /\ \A k \in d .. (e - 1) : At(t, k) \in Digits
                 /\ ~HasExponent(t, c) => e = c
<1> DEFINE n == Len(t)
           a == SignEnd(t, i)
           b == WholeEnd(t, a)
           c == FractionEnd(t, b)
           d == PowerFrom(t, c)
           e == ExponentEnd(t, c)
<1>1. n \in Nat /\ i \in 1 .. n
  OBVIOUS
<1>2. \A k \in Nat : k # 0 => (At(t, k) = End <=> k > n)
  BY Character
<1>3. \A k \in 1 .. (n + 1) : Stops(t, k, PastAll(t, k, Digits), Digits)
  BY NotEnd, PastAllStops
<1>4. a \in i .. (i + 1) /\ a <= n + 1 /\ (a # i => At(t, i) = "-")
  BY <1>1 DEF SignEnd
<1>5. SUFFICES ASSUME At(t, a) \in Digits
      PROVE /\ a <= n /\ b \in (a + 1) .. (n + 1)
            /\ \A k \in a .. (b - 1) : At(t, k) \in Digits
            /\ At(t, a) = "0" => b = a + 1
            /\ c \in b .. (n + 1)
            /\ At(t, b) = "." => b <= n /\ c \in (b + 1) .. (n + 1)
            /\ At(t, b) = "." => \A k \in (b + 1) .. (c - 1) : At(t, k) \in Digits
            /\ At(t, b) # "." => c = b
            /\ HasExponent(t, c) =>
                 /\ c <= n /\ d \in (c + 1) .. (n + 1) /\ e \in d .. (n + 1)
                 /\ \A k \in d .. (e - 1) : At(t, k) \in Digits
            /\ ~HasExponent(t, c) => e = c
  BY <1>4
<1> HIDE DEF a, n
<1>6. a \in 1 .. n
  BY <1>1, <1>2, <1>4, <1>5, NumberChars
<1>7. /\ b \in (a + 1) .. (n + 1)
      /\ \A k \in a .. (b - 1) : At(t, k) \in Digits
      /\ At(t, a) = "0" => b = a + 1
  <2>1. CASE At(t, a) = "0"
    <3>1. b = a + 1
      BY <2>1 DEF WholeEnd
    <3> HIDE DEF b
    <3> QED
      BY <1>1, <1>5, <1>6, <3>1
  <2>2. CASE At(t, a) # "0"
    <3>1. b = PastAll(t, a, Digits)
      BY <2>2 DEF WholeEnd
    <3>2. Stops(t, a, b, Digits)
      BY <1>1, <1>3, <1>6, <3>1
    <3> HIDE DEF b
    <3> QED
      BY <1>1, <1>5, <1>6, <2>2, <3>2 DEF Stops, n
  <2> QED
    BY <2>1, <2>2
<1> HIDE DEF b
<1>8. /\ c \in b .. (n + 1)
      /\ At(t, b) = "." => b <= n /\ c \in (b + 1) .. (n + 1)
      /\ At(t, b) = "." => \A k \in (b + 1) .. (c - 1) : At(t, k) \in Digits
      /\ At(t, b) # "." => c = b
  <2>1. CASE At(t, b) # "."
    BY <1>1, <1>6, <1>7, <2>1 DEF FractionEnd
  <2>2. CASE At(t, b) = "."
    <3>1. b <= n
      BY <1>1, <1>2, <1>6, <1>7, <2>2, NumberChars
    <3>2. c = PastAll(t, b + 1, Digits)
      BY <2>2 DEF FractionEnd
    <3>3. Stops(t, b + 1, c, Digits)
      BY <1>1, <1>3, <1>6, <1>7, <3>1, <3>2
    <3> HIDE DEF c
    <3> QED
      BY <1>1, <1>6, <1>7, <2>2, <3>1, <3>3 DEF Stops, n
  <2> QED
    BY <2>1, <2>2
<1> HIDE DEF c
<1>9. HasExponent(t, c) =>
        /\ c <= n /\ d \in (c + 1) .. (n + 1) /\ e \in d .. (n + 1)
        /\ \A k \in d .. (e - 1) : At(t, k) \in Digits
  <2> SUFFICES ASSUME HasExponent(t, c)
               PROVE  /\ c <= n /\ d \in (c + 1) .. (n + 1) /\ e \in d .. (n + 1)
                      /\ \A k \in d .. (e - 1) : At(t, k) \in Digits
    OBVIOUS
  <2>1. c \in 1 .. n
    BY <1>1, <1>2, <1>6, <1>7, <1>8, NumberChars DEF HasExponent
  <2>2. d \in (c + 1) .. (n + 1)
    <3>1. At(t, c + 1) \in {"+", "-"} => c + 1 <= n
      BY <1>1, <1>2, <2>1, NumberChars
    <3> QED
      BY <1>1, <2>1, <3>1 DEF PowerFrom
  <2>3. e = PastAll(t, d, Digits)
    BY DEF ExponentEnd
  <2>4. Stops(t, d, e, Digits)
    BY <1>1, <1>3, <2>1, <2>2, <2>3
  <2> HIDE DEF d, e
  <2> QED
    BY <1>1, <2>1, <2>2, <2>4 DEF Stops, n
<1>10. ~HasExponent(t, c) => e = c
  BY DEF ExponentEnd
<1>11. a <= n
  BY <1>1, <1>6
<1> HIDE DEF d, e
<1> QED
  BY <1>7, <1>8, <1>9, <1>10, <1>11

LEMMA NumberReads ==
  ASSUME NEW C, NEW t \in Seq(C), End \notin C, NEW i \in 1 .. Len(t),
         At(t, i) \in Digits \cup {"-"}
  PROVE  Reads(t, ParseNumber(t, i), i)
<1> DEFINE n == Len(t)
           a == SignEnd(t, i)
           b == WholeEnd(t, a)
           c == FractionEnd(t, b)
           d == PowerFrom(t, c)
           e == ExponentEnd(t, c)
<1>1. n \in Nat /\ i \in 1 .. n
  OBVIOUS
<1>2. /\ a \in i .. (i + 1) /\ a <= n + 1
      /\ At(t, a) \in Digits =>
           /\ b \in (a + 1) .. (n + 1)
           /\ c \in b .. (n + 1)
           /\ HasExponent(t, c) => d \in (c + 1) .. (n + 1) /\ e \in d .. (n + 1)
           /\ ~HasExponent(t, c) => e = c
  BY NumberParts, Zenon
<1>3. ParseNumber(t, i) = NumberRead(t, i, a, b, c, d, e)
  BY NumberIs
<1> HIDE DEF a, b, c, d, e
<1>4. CASE At(t, a) \notin Digits
  BY <1>1, <1>2, <1>3, <1>4 DEF NumberRead, Reads, Fail
<1>5. CASE At(t, a) \in Digits
  <2>1. c \in i .. (n + 1) /\ e \in i .. (n + 1) /\ e > i /\ (HasExponent(t, c) => d \in i .. (n + 1))
    BY <1>1, <1>2, <1>5
  <2>2. \A v : Reads(t, Done(e, v), i)
    BY <1>1, <2>1 DEF Reads, Done
  <2>3. Reads(t, Fail(c), i) /\ (HasExponent(t, c) => Reads(t, Fail(d), i))
    BY <1>1, <2>1 DEF Reads, Fail
  <2> QED
    BY <1>3, <1>5, <2>2, <2>3 DEF NumberRead
<1> QED
  BY <1>4, <1>5

\* A number that is read is one.
LEMMA NumberSound ==
  ASSUME NEW C, NEW t \in Seq(C), End \notin C, NEW i \in 1 .. Len(t),
         At(t, i) \in Digits \cup {"-"}, ParseNumber(t, i).ok
  PROVE  ParseNumber(t, i).val \in Numbers(t, i, ParseNumber(t, i).pos - 1)
<1> DEFINE n == Len(t)
           a == SignEnd(t, i)
           b == WholeEnd(t, a)
           c == FractionEnd(t, b)
           d == PowerFrom(t, c)
           e == ExponentEnd(t, c)
           j == e - 1
<1>1. n \in Nat /\ i \in 1 .. n
  OBVIOUS
<1>2. ParseNumber(t, i) = NumberRead(t, i, a, b, c, d, e)
  BY NumberIs
<1>3. /\ At(t, a) \in Digits /\ ~(At(t, b) = "." /\ c = b + 1) /\ ~(HasExponent(t, c) /\ e = d)
      /\ ParseNumber(t, i) = Done(e, NumberSaid(t, i, a, b, c, d, e))
  <2> HIDE DEF a, b, c, d, e
  <2>1. \A k : ~ Fail(k).ok
    BY DEF Fail
  <2> QED
    BY <1>2, <2>1, Zenon DEF NumberRead
<1>4. /\ a \in i .. (i + 1) /\ a <= n + 1 /\ (a # i => At(t, i) = "-")
      /\ At(t, a) \in Digits =>
           /\ a <= n /\ b \in (a + 1) .. (n + 1)
           /\ \A k \in a .. (b - 1) : At(t, k) \in Digits
           /\ At(t, a) = "0" => b = a + 1
           /\ c \in b .. (n + 1)
           /\ At(t, b) = "." => b <= n /\ c \in (b + 1) .. (n + 1)
           /\ At(t, b) = "." => \A k \in (b + 1) .. (c - 1) : At(t, k) \in Digits
           /\ At(t, b) # "." => c = b
           /\ HasExponent(t, c) =>
                /\ c <= n /\ d \in (c + 1) .. (n + 1) /\ e \in d .. (n + 1)
                /\ \A k \in d .. (e - 1) : At(t, k) \in Digits
           /\ ~HasExponent(t, c) => e = c
  BY NumberParts, Zenon
<1>5. \A k \in 1 .. n : At(t, k) = t[k]
  BY DEF At
<1>d. d = IF HasExponent(t, c) /\ At(t, c + 1) \in {"+", "-"} THEN c + 2 ELSE c + 1
  BY DEF PowerFrom
<1> HIDE DEF a, b, c, d, e, n
<1>6. /\ a \in i .. (i + 1) /\ a \in 1 .. n /\ b \in (a + 1) .. (n + 1) /\ c \in b .. (n + 1)
      /\ j + 1 = e /\ j \in 1 .. n /\ c <= j + 1
      /\ HasExponent(t, c) => d \in (c + 1) .. j /\ c \in 1 .. n /\ c + 1 \in 1 .. n /\ c < j
      /\ ~HasExponent(t, c) => c > j
      /\ At(t, b) = "." => c > b + 1 /\ b \in 1 .. n
  <2>1. /\ a \in i .. (i + 1) /\ a <= n /\ b \in (a + 1) .. (n + 1) /\ c \in b .. (n + 1)
        /\ At(t, b) = "." => b <= n /\ c \in (b + 1) .. (n + 1) /\ c # b + 1
        /\ HasExponent(t, c) =>
             c <= n /\ d \in (c + 1) .. (n + 1) /\ e \in d .. (n + 1) /\ e # d
        /\ ~HasExponent(t, c) => e = c
    BY <1>3, <1>4, Zenon
  <2>2. a \in i .. (i + 1) /\ a \in 1 .. n /\ b \in (a + 1) .. (n + 1) /\ c \in b .. (n + 1)
    BY <1>1, <2>1
  <2>3. At(t, b) = "." => c > b + 1 /\ b \in 1 .. n
    BY <1>1, <2>1, <2>2
  <2>4. CASE HasExponent(t, c)
    <3>1. /\ j + 1 = e /\ j \in 1 .. n /\ c <= j + 1
          /\ d \in (c + 1) .. j /\ c \in 1 .. n /\ c + 1 \in 1 .. n /\ c < j
      BY <1>1, <2>1, <2>2, <2>4
    <3> QED
      BY <2>2, <2>3, <2>4, <3>1
  <2>5. CASE ~HasExponent(t, c)
    <3>1. j + 1 = e /\ j \in 1 .. n /\ c <= j + 1 /\ c > j
      BY <1>1, <2>1, <2>2, <2>5
    <3> QED
      BY <2>2, <2>3, <2>5, <3>1
  <2> QED
    BY <2>4, <2>5
<1>7. IsWhole(t, a, b - 1)
  <2>1. a <= b - 1 /\ \A k \in a .. (b - 1) : t[k] \in Digits
    BY <1>1, <1>3, <1>4, <1>5, <1>6
  <2>2. t[a] = "0" => a = b - 1
    BY <1>1, <1>3, <1>4, <1>5, <1>6
  <2> QED
    BY <2>1, <2>2 DEF IsWhole, IsDigits
<1>8. IsFraction(t, b, c - 1)
  <2>1. CASE At(t, b) # "."
    BY <1>1, <1>3, <1>4, <1>6, <2>1 DEF IsFraction
  <2>2. CASE At(t, b) = "."
    <3>1. t[b] = "." /\ b + 1 <= c - 1 /\ \A k \in (b + 1) .. (c - 1) : t[k] \in Digits
      BY <1>1, <1>3, <1>4, <1>5, <1>6, <2>2
    <3> QED
      BY <3>1 DEF IsFraction, IsDigits
  <2> QED
    BY <2>1, <2>2
<1>9. HasExponent(t, c) => Unsigned(t, c + 1) = d
  <2> SUFFICES ASSUME HasExponent(t, c) PROVE Unsigned(t, c + 1) = d
    OBVIOUS
  <2>1. At(t, c + 1) = t[c + 1] /\ (c + 1) + 1 = c + 2
    BY <1>1, <1>5, <1>6
  <2> QED
    BY <1>d, <2>1 DEF Unsigned
<1>10. IsExponent(t, c, j)
  <2>1. CASE ~HasExponent(t, c)
    BY <1>1, <1>6, <2>1 DEF IsExponent
  <2>2. CASE HasExponent(t, c)
    <3>1. c < j /\ t[c] \in {"e", "E"} /\ d <= j /\ \A k \in d .. j : t[k] \in Digits
      BY <1>1, <1>3, <1>4, <1>5, <1>6, <2>2 DEF HasExponent
    <3> QED
      BY <1>9, <2>2, <3>1 DEF IsExponent, IsDigits
  <2> QED
    BY <2>1, <2>2
<1>11. IsNumber(t, i, j, a, b, c)
  <2>1. a < b /\ b <= c /\ (a # i => t[i] = "-")
    BY <1>1, <1>3, <1>4, <1>5, <1>6 DEF n
  <2> QED
    BY <1>7, <1>8, <1>10, <2>1 DEF IsNumber
<1>12. NumberOf(t, i, j, a, b, c) = NumberSaid(t, i, a, b, c, d, e)
  <2>1. (IF c = b THEN 0 ELSE b + 1 - c) = (IF At(t, b) = "." THEN b + 1 - c ELSE 0)
    BY <1>1, <1>3, <1>4, <1>6
  <2>2. t[i] = At(t, i)
    BY <1>1, <1>5
  <2>3. HasExponent(t, c) => Signed(t, c + 1, ParseInt(SubSeq(t, Unsigned(t, c + 1), j)))
          = IF At(t, c + 1) = "-" THEN -ParseInt(SubSeq(t, d, e - 1)) ELSE ParseInt(SubSeq(t, d, e - 1))
    BY <1>5, <1>6, <1>9 DEF Signed
  <2>4. Signed(t, i, ParseInt(SubSeq(t, a, c - 1)))
          = IF At(t, i) = "-" THEN -ParseInt(SubSeq(t, a, c - 1)) ELSE ParseInt(SubSeq(t, a, c - 1))
    BY <2>2 DEF Signed
  <2>5. (IF c > j THEN 0 ELSE Signed(t, c + 1, ParseInt(SubSeq(t, Unsigned(t, c + 1), j))))
          = IF ~HasExponent(t, c) THEN 0
            ELSE IF At(t, c + 1) = "-" THEN -ParseInt(SubSeq(t, d, e - 1))
            ELSE ParseInt(SubSeq(t, d, e - 1))
    <3> HIDE DEF j
    <3> QED
      BY <1>6, <2>3
  <2> HIDE DEF j
  <2> QED
    BY <2>1, <2>4, <2>5 DEF NumberOf, NumberSaid
<1>13. Done(e, NumberSaid(t, i, a, b, c, d, e)).pos - 1 = j
       /\ Done(e, NumberSaid(t, i, a, b, c, d, e)).val = NumberSaid(t, i, a, b, c, d, e)
  BY DEF Done
<1>14. NumberSaid(t, i, a, b, c, d, e) \in Numbers(t, i, j)
  <2>1. a \in {i, i + 1} /\ b \in i .. (j + 1) /\ c \in i .. (j + 1)
    BY <1>1, <1>4, <1>6
  <2> HIDE DEF j
  <2> DEFINE q == <<a, b, c>>
  <2>2. q \in {i, i + 1} \X (i .. (j + 1)) \X (i .. (j + 1)) /\ q[1] = a /\ q[2] = b /\ q[3] = c
    BY <2>1
  <2> HIDE DEF q
  <2> QED
    BY <1>11, <1>12, <2>2 DEF Numbers
<1> QED
  BY <1>3, <1>13, <1>14

\* A number is read as one if what follows does not continue it.
LEMMA NumberComplete ==
  ASSUME NEW C, NEW t \in Seq(C), End \notin C, NEW i \in 1 .. Len(t), NEW j \in 1 .. Len(t), i <= j,
         At(t, j + 1) \notin Digits \cup {".", "e", "E"}, NEW v \in Numbers(t, i, j)
  PROVE  ParseNumber(t, i) = Done(j + 1, v)
<1> DEFINE n == Len(t)
<1>1. n \in Nat /\ i \in 1 .. n /\ j \in 1 .. n /\ i <= j
  OBVIOUS
<1>2. PICK a \in {i, i + 1}, b \in i .. (j + 1), c \in i .. (j + 1) :
        IsNumber(t, i, j, a, b, c) /\ v = NumberOf(t, i, j, a, b, c)
  BY DEF Numbers
<1> DEFINE d == Unsigned(t, c + 1)
<1>3. \A k \in 1 .. n : At(t, k) = t[k]
  BY DEF At
<1> HIDE DEF n
<1>4. /\ a < b /\ b <= c /\ (a # i => t[i] = "-")
      /\ a <= b - 1 /\ (\A k \in a .. (b - 1) : t[k] \in Digits) /\ (t[a] = "0" => a = b - 1)
      /\ b <= c - 1 => t[b] = "." /\ b + 1 <= c - 1 /\ \A k \in (b + 1) .. (c - 1) : t[k] \in Digits
      /\ c <= j => c < j /\ t[c] \in {"e", "E"} /\ d <= j /\ \A k \in d .. j : t[k] \in Digits
  BY <1>2 DEF IsNumber, IsWhole, IsFraction, IsExponent, IsDigits
<1>5. a \in 1 .. j /\ b \in 1 .. (j + 1) /\ c \in 1 .. (j + 1)
  BY <1>1, <1>2, <1>4
<1>6. HasExponent(t, c) <=> c <= j
  <2>1. CASE c <= j
    BY <1>1, <1>3, <1>4, <1>5, <2>1 DEF HasExponent
  <2>2. CASE ~(c <= j)
    <3>1. c = j + 1
      BY <1>1, <1>5, <2>2
    <3> QED
      BY <1>1, <3>1 DEF HasExponent
  <2> QED
    BY <2>1, <2>2
<1>7. At(t, c) \notin Digits \cup {"."}
  <2>1. CASE c <= j
    BY <1>1, <1>3, <1>4, <1>5, <2>1, NumberChars
  <2>2. CASE ~(c <= j)
    <3>1. c = j + 1
      BY <1>1, <1>5, <2>2
    <3> QED
      BY <3>1
  <2> QED
    BY <2>1, <2>2
<1>8. /\ At(t, b) = "." <=> b < c
      /\ At(t, b) \notin Digits
  <2>1. CASE b < c
    <3>1. t[b] = "." /\ At(t, b) = t[b]
      BY <1>1, <1>3, <1>4, <1>5, <2>1
    <3> QED
      BY <2>1, <3>1, NumberChars
  <2>2. CASE ~(b < c)
    <3>1. b = c
      BY <1>1, <1>4, <1>5, <2>2
    <3> QED
      BY <1>7, <2>2, <3>1
  <2> QED
    BY <2>1, <2>2
<1>9. a = SignEnd(t, i)
  <2>1. CASE a = i
    <3>1. At(t, i) \in Digits
      BY <1>1, <1>3, <1>4, <1>5, <2>1
    <3> QED
      BY <2>1, <3>1, NumberChars DEF SignEnd
  <2>2. CASE a # i
    <3>1. a = i + 1 /\ At(t, i) = "-"
      BY <1>1, <1>2, <1>3, <1>4, <2>2
    <3> QED
      BY <3>1 DEF SignEnd
  <2> QED
    BY <2>1, <2>2
<1>10. b = WholeEnd(t, a)
  <2>1. At(t, a) = t[a] /\ a \in Nat /\ a # 0
    BY <1>1, <1>3, <1>5
  <2>2. CASE t[a] = "0"
    <3>1. b = a + 1
      BY <1>4, <1>5, <2>2
    <3> QED
      BY <2>1, <2>2, <3>1 DEF WholeEnd
  <2>3. CASE t[a] # "0"
    <3>1. Stops(t, a, b, Digits)
      BY <1>1, <1>3, <1>4, <1>5, <1>8 DEF Stops, n
    <3>2. PastAll(t, a, Digits) = b
      BY <2>1, <3>1, PastAllUnique
    <3> QED
      BY <2>1, <2>3, <3>2 DEF WholeEnd
  <2> QED
    BY <2>2, <2>3
<1>11. c = FractionEnd(t, b)
  <2>1. CASE b < c
    <3>1. Stops(t, b + 1, c, Digits)
      BY <1>1, <1>3, <1>4, <1>5, <1>7, <2>1 DEF Stops, n
    <3>2. b + 1 \in Nat /\ b + 1 # 0
      BY <1>5
    <3>3. PastAll(t, b + 1, Digits) = c
      BY <3>1, <3>2, PastAllUnique
    <3> QED
      BY <1>8, <2>1, <3>3 DEF FractionEnd
  <2>2. CASE ~(b < c)
    BY <1>1, <1>4, <1>5, <1>8, <2>2 DEF FractionEnd
  <2> QED
    BY <2>1, <2>2
<1>12. c <= j => d = PowerFrom(t, c) /\ d \in (c + 1) .. j
  <2> SUFFICES ASSUME c <= j PROVE d = PowerFrom(t, c) /\ d \in (c + 1) .. j
    OBVIOUS
  <2>1. At(t, c + 1) = t[c + 1] /\ (c + 1) + 1 = c + 2
    BY <1>1, <1>3, <1>4, <1>5
  <2>2. d = PowerFrom(t, c)
    BY <1>6, <2>1 DEF PowerFrom, Unsigned
  <2>3. d = c + 1 \/ d = c + 2
    BY <2>1 DEF Unsigned
  <2> HIDE DEF d
  <2> QED
    BY <1>1, <1>4, <1>5, <2>2, <2>3
<1> HIDE DEF d
<1>13. ExponentEnd(t, c) = j + 1
  <2>1. CASE c <= j
    <3>1. Stops(t, d, j + 1, Digits)
      BY <1>1, <1>3, <1>4, <1>5, <1>12, <2>1 DEF Stops, n
    <3>2. d \in Nat /\ d # 0
      BY <1>1, <1>5, <1>12, <2>1
    <3>3. PastAll(t, d, Digits) = j + 1
      BY <3>1, <3>2, PastAllUnique
    <3> QED
      BY <1>6, <1>12, <2>1, <3>3 DEF ExponentEnd
  <2>2. CASE ~(c <= j)
    BY <1>1, <1>5, <1>6, <2>2 DEF ExponentEnd
  <2> QED
    BY <2>1, <2>2
<1> DEFINE p == PowerFrom(t, c)
<1>14. ParseNumber(t, i) = NumberRead(t, i, a, b, c, p, j + 1)
  BY <1>9, <1>10, <1>11, <1>13, NumberIs
<1>15. NumberSaid(t, i, a, b, c, p, j + 1) = NumberOf(t, i, j, a, b, c)
  <2>1. (IF c = b THEN 0 ELSE b + 1 - c) = (IF At(t, b) = "." THEN b + 1 - c ELSE 0)
    BY <1>4, <1>5, <1>8
  <2>2. Signed(t, i, ParseInt(SubSeq(t, a, c - 1)))
          = IF At(t, i) = "-" THEN -ParseInt(SubSeq(t, a, c - 1)) ELSE ParseInt(SubSeq(t, a, c - 1))
    BY <1>1, <1>3 DEF Signed
  <2>3. (IF c > j THEN 0 ELSE Signed(t, c + 1, ParseInt(SubSeq(t, d, j))))
          = IF ~HasExponent(t, c) THEN 0
            ELSE IF At(t, c + 1) = "-" THEN -ParseInt(SubSeq(t, p, (j + 1) - 1))
            ELSE ParseInt(SubSeq(t, p, (j + 1) - 1))
    <3>1. CASE c > j
      BY <1>1, <1>5, <1>6, <3>1
    <3>2. CASE ~(c > j)
      <4>1. c <= j /\ d = p /\ At(t, c + 1) = t[c + 1] /\ (j + 1) - 1 = j
        BY <1>1, <1>3, <1>4, <1>5, <1>12, <3>2
      <4> HIDE DEF p
      <4> QED
        BY <1>6, <3>2, <4>1 DEF Signed
    <3> QED
      BY <3>1, <3>2
  <2> HIDE DEF p
  <2> QED
    BY <2>1, <2>2, <2>3 DEF NumberOf, NumberSaid, d
<1>16. NumberRead(t, i, a, b, c, p, j + 1) = Done(j + 1, NumberSaid(t, i, a, b, c, p, j + 1))
  <2>1. At(t, a) \in Digits
    BY <1>1, <1>3, <1>4, <1>5
  <2>2. ~(At(t, b) = "." /\ c = b + 1)
    BY <1>4, <1>5, <1>8
  <2>3. ~(HasExponent(t, c) /\ j + 1 = p)
    BY <1>1, <1>5, <1>6, <1>12
  <2> HIDE DEF p
  <2> QED
    BY <2>1, <2>2, <2>3, Zenon DEF NumberRead
<1> QED
  BY <1>2, <1>14, <1>15, <1>16

-------------------------------------------------------------------------------
(* The parser: each step of it reads further. *)

LEMMA SkipStops ==
  ASSUME NEW C, NEW t \in Seq(C), NEW i \in 1 .. (Len(t) + 1)
  PROVE  /\ SkipWhitespace(t, i) \in i .. (Len(t) + 1)
         /\ At(t, SkipWhitespace(t, i)) \notin White
         /\ \A k \in i .. (SkipWhitespace(t, i) - 1) : At(t, k) \in White
<1>1. Stops(t, i, SkipWhitespace(t, i), White)
  BY NotEnd, PastAllStops DEF SkipWhitespace
<1> QED
  BY <1>1 DEF Stops

LEMMA SkipUnique ==
  ASSUME NEW C, NEW t \in Seq(C), NEW i \in 1 .. (Len(t) + 1), NEW j \in i .. (Len(t) + 1),
         At(t, j) \notin White, \A k \in i .. (j - 1) : At(t, k) \in White
  PROVE  SkipWhitespace(t, i) = j
<1>1. Stops(t, i, j, White) /\ i \in Nat /\ i # 0
  BY DEF Stops
<1> QED
  BY <1>1, PastAllUnique DEF SkipWhitespace

LEMMA ColonReads ==
  ASSUME NEW C, NEW t \in Seq(C), End \notin C, NEW i \in 1 .. (Len(t) + 1)
  PROVE  Reads(t, ReadColon(t, i), i)
<1> DEFINE c == SkipWhitespace(t, i)
           n == Len(t)
<1>1. c \in i .. (n + 1) /\ n \in Nat /\ i \in Nat /\ i # 0
  BY SkipStops
<1>2. At(t, c) # End => c + 1 \in 1 .. (n + 1)
  <2> HIDE DEF c
  <2>1. At(t, c) = End <=> c > n
    BY <1>1, Character
  <2> QED
    BY <1>1, <2>1
<1>3. At(t, c) # End => SkipWhitespace(t, c + 1) \in (c + 1) .. (n + 1)
  <2> HIDE DEF c
  <2> QED
    BY <1>2, SkipStops
<1> DEFINE e == SkipWhitespace(t, c + 1)
<1>4. ReadColon(t, i) = IF At(t, c) = End THEN Fail(c)
                        ELSE IF At(t, c) = Colon THEN Done(e, Colon) ELSE Fail(c + 1)
  BY DEF ReadColon
<1> HIDE DEF c, e
<1>5. Reads(t, Fail(c), i)
  BY <1>1 DEF Reads, Fail, n
<1>6. At(t, c) # End => Reads(t, Fail(c + 1), i)
  BY <1>1, <1>2 DEF Reads, Fail, n
<1>7. At(t, c) # End => Reads(t, Done(e, Colon), i)
  BY <1>1, <1>3 DEF Reads, Done, n, e
<1> QED
  BY <1>4, <1>5, <1>6, <1>7

Parts == {"value", "elements", "members"}

\* Two parsers read the same from a position on, and read further.
Same(t, f, g, w, k) == f[<<w, k>>] = g[<<w, k>>] /\ Reads(t, f[<<w, k>>], k)

LEMMA Brackets ==
  /\ "]" # End /\ "}" # End /\ Comma # End /\ "[" # End /\ "{" # End /\ Quote # End /\ "-" # End
  /\ End \notin DOMAIN Literal /\ End \notin Digits
  /\ Comma # "]" /\ Comma # "}" /\ Colon # End
<1>1. Comma # End /\ Comma # "]" /\ Comma # "}" /\ Colon # End
  BY Zenon DEF Comma, Colon, End
<1>2. End \notin DOMAIN Literal /\ End \notin Digits
  BY NumberChars DEF End, Literal
<1>3. "]" # End /\ "}" # End /\ "[" # End /\ "{" # End /\ Quote # End /\ "-" # End
  BY Zenon DEF End, Quote
<1> QED
  BY <1>1, <1>2, <1>3

LEMMA ValueLocal ==
  ASSUME NEW C, NEW t \in Seq(C), End \notin C, NEW i \in 1 .. (Len(t) + 1), NEW f, NEW g,
         \A w \in Parts, k \in 1 .. (Len(t) + 1) : k > i => Same(t, f, g, w, k)
  PROVE  ValueAt(t, f, i) = ValueAt(t, g, i) /\ Reads(t, ValueAt(t, f, i), i)
<1> DEFINE n == Len(t)
           c == At(t, i)
           k == SkipWhitespace(t, i + 1)
<1>1. n \in Nat /\ i \in 1 .. (n + 1) /\ (c = End <=> i > n)
  BY Character
<1>2. c # End => i + 1 \in 1 .. (n + 1) /\ k \in (i + 1) .. (n + 1) /\ (At(t, k) = End <=> k > n)
  <2> SUFFICES ASSUME c # End
               PROVE  i + 1 \in 1 .. (n + 1) /\ k \in (i + 1) .. (n + 1) /\ (At(t, k) = End <=> k > n)
    OBVIOUS
  <2>1. i + 1 \in 1 .. (n + 1)
    BY <1>1
  <2>2. k \in (i + 1) .. (n + 1)
    BY <2>1, SkipStops
  <2> HIDE DEF k
  <2>3. k \in Nat /\ k # 0
    BY <1>1, <2>2
  <2> QED
    BY <2>1, <2>2, <2>3, Character
<1> HIDE DEF k, n
<1>3. CASE c = End
  <2>1. \A h : ValueAt(t, h, i) = Fail(i)
    BY <1>3, Brackets, Zenon DEF ValueAt
  <2>2. Reads(t, Fail(i), i)
    BY <1>1 DEF Reads, Fail, n
  <2> QED
    BY <2>1, <2>2
<1>4. CASE c # End
  <2>1. Reads(t, As("string", ExtractString(t, i + 1)), i)
    <3>1. Reads(t, ExtractString(t, i + 1), i + 1)
      BY <1>2, <1>4, StringReads DEF n
    <3>2. i \in Nat /\ i + 1 \in Nat /\ i <= i + 1
      BY <1>1
    <3> QED
      BY <3>1, <3>2, ReadsLater
  <2>2. \A v : Reads(t, Done(i + 1, v), i)
    BY <1>1, <1>2, <1>4 DEF Reads, Done, n
  <2>3. c \in Digits \cup {"-"} => Reads(t, ParseNumber(t, i), i)
    BY <1>1, <1>4, NumberReads DEF n
  <2>a. /\ k \in 1 .. (n + 1) /\ k > i /\ i \in Nat /\ k \in Nat /\ i <= k
        /\ At(t, k) # End => k + 1 \in i .. (n + 1) /\ k + 1 > i
    <3>1. k \in (i + 1) .. (n + 1) /\ (At(t, k) = End <=> k > n)
      BY <1>2, <1>4
    <3> QED
      BY <1>1, <3>1
  <2>4. ASSUME NEW bracket \in {"]", "}"}, NEW w \in {"elements", "members"}, NEW x
        PROVE  LET r == IF At(t, k) = bracket THEN Done(k + 1, <<>>) ELSE f[<<w, k>>]
               IN /\ r = IF At(t, k) = bracket THEN Done(k + 1, <<>>) ELSE g[<<w, k>>]
                  /\ Reads(t, As(x, r), i)
    <3>1. CASE At(t, k) = bracket
      <4>1. k + 1 \in i .. (n + 1) /\ k + 1 > i
        BY <2>a, <3>1, Brackets
      <4>2. As(x, Done(k + 1, <<>>)) = Done(k + 1, <<x, <<>>>>)
        BY DEF As, Done
      <4>3. Reads(t, Done(k + 1, <<x, <<>>>>), i)
        BY <4>1 DEF Reads, Done, n
      <4> QED
        BY <3>1, <4>2, <4>3
    <3>2. CASE At(t, k) # bracket
      <4>1. w \in Parts /\ k \in 1 .. (n + 1) /\ k > i /\ i \in Nat /\ k \in Nat /\ i <= k
        BY <2>a DEF Parts
      <4>2. f[<<w, k>>] = g[<<w, k>>] /\ Reads(t, f[<<w, k>>], k)
        BY <4>1 DEF Same, n
      <4>3. Reads(t, As(x, f[<<w, k>>]), i)
        BY <4>1, <4>2, ReadsLater
      <4> QED
        BY <3>2, <4>2, <4>3
    <3> QED
      BY <3>1, <3>2
  <2>5. Reads(t, Fail(i), i)
    BY <1>1 DEF Reads, Fail, n
  <2>6. LET r(h) == IF At(t, k) = "]" THEN Done(k + 1, <<>>) ELSE h[<<"elements", k>>]
        IN r(f) = r(g) /\ Reads(t, As("array", r(f)), i)
    BY <2>4
  <2>7. LET r(h) == IF At(t, k) = "}" THEN Done(k + 1, <<>>) ELSE h[<<"members", k>>]
        IN r(f) = r(g) /\ Reads(t, As("object", r(f)), i)
    BY <2>4
  <2> DEFINE ra(h) == IF At(t, k) = "]" THEN Done(k + 1, <<>>) ELSE h[<<"elements", k>>]
             ro(h) == IF At(t, k) = "}" THEN Done(k + 1, <<>>) ELSE h[<<"members", k>>]
  <2>8. \A h : ValueAt(t, h, i) =
                 IF c = Quote THEN As("string", ExtractString(t, i + 1))
                 ELSE IF c \in DOMAIN Literal THEN Done(i + 1, Literal[c])
                 ELSE IF c \in Digits \cup {"-"} THEN ParseNumber(t, i)
                 ELSE IF c = "[" THEN As("array", ra(h))
                 ELSE IF c = "{" THEN As("object", ro(h))
                 ELSE Fail(i)
    BY DEF ValueAt, k
  <2>9. ra(f) = ra(g) /\ ro(f) = ro(g)
        /\ Reads(t, As("array", ra(f)), i) /\ Reads(t, As("object", ro(f)), i)
    BY <2>6, <2>7
  <2> HIDE DEF c, ra, ro
  <2> QED
    BY <2>1, <2>2, <2>3, <2>5, <2>8, <2>9
<1> QED
  BY <1>3, <1>4

\* What follows a value: the end of its list, or a comma and the rest of it.
LEMMA NextReads ==
  ASSUME NEW C, NEW t \in Seq(C), End \notin C, NEW i \in Nat, NEW p \in 1 .. (Len(t) + 1), i < p
  PROVE  LET next == SkipWhitespace(t, p)
             more == SkipWhitespace(t, next + 1)
         IN /\ next \in p .. (Len(t) + 1) /\ Reads(t, Fail(next), i)
            /\ At(t, next) # End =>
                 /\ \A v : Reads(t, Done(next + 1, v), i)
                 /\ next + 1 \in 1 .. (Len(t) + 1)
                 /\ more \in 1 .. (Len(t) + 1) /\ more > p /\ more > i
<1> DEFINE n == Len(t)
           next == SkipWhitespace(t, p)
           more == SkipWhitespace(t, next + 1)
<1>1. n \in Nat /\ next \in p .. (n + 1)
  BY SkipStops
<1>2. At(t, next) # End => next + 1 \in 1 .. (n + 1)
  <2> HIDE DEF next
  <2>1. next \in Nat /\ next # 0
    BY <1>1
  <2>2. At(t, next) = End <=> next > n
    BY <2>1, Character
  <2> QED
    BY <1>1, <2>2
<1>3. At(t, next) # End => more \in (next + 1) .. (n + 1)
  <2> HIDE DEF next
  <2> QED
    BY <1>2, SkipStops
<1> HIDE DEF next, more
<1>4. Reads(t, Fail(next), i)
  BY <1>1 DEF Reads, Fail, n
<1>5. At(t, next) # End => \A v : Reads(t, Done(next + 1, v), i)
  BY <1>1, <1>2 DEF Reads, Done, n
<1>6. At(t, next) # End => more \in 1 .. (n + 1) /\ more > p /\ more > i
  BY <1>1, <1>3
<1> QED
  BY <1>1, <1>2, <1>4, <1>5, <1>6 DEF next, more

LEMMA ElementsLocal ==
  ASSUME NEW C, NEW t \in Seq(C), End \notin C, NEW i \in 1 .. (Len(t) + 1), NEW f, NEW g,
         \A w \in Parts, k \in 1 .. (Len(t) + 1) : k > i => Same(t, f, g, w, k),
         Same(t, f, g, "value", i)
  PROVE  ElementsAt(t, f, i) = ElementsAt(t, g, i) /\ Reads(t, ElementsAt(t, f, i), i)
<1> DEFINE n == Len(t)
           value == f[<<"value", i>>]
           next == SkipWhitespace(t, value.pos)
           more == SkipWhitespace(t, next + 1)
           rest(h) == h[<<"elements", more>>]
<1>1. n \in Nat /\ i \in Nat /\ i \in 1 .. (n + 1)
  OBVIOUS
<1>2. value = g[<<"value", i>>] /\ Reads(t, value, i)
  BY DEF Same
<1>3. value.ok => /\ value.pos \in 1 .. (n + 1) /\ i < value.pos
  <2> HIDE DEF value
  <2> QED
    BY <1>1, <1>2 DEF Reads
<1>4. value.ok => /\ Reads(t, Fail(next), i)
                  /\ At(t, next) # End =>
                       /\ \A v : Reads(t, Done(next + 1, v), i)
                       /\ more \in 1 .. (n + 1) /\ more > i
  <2> HIDE DEF value
  <2> QED
    BY <1>1, <1>3, NextReads
<1>5. value.ok /\ At(t, next) # End => rest(f) = rest(g) /\ Reads(t, Ahead(value.val, rest(f)), i)
  <2> SUFFICES ASSUME value.ok, At(t, next) # End
               PROVE  rest(f) = rest(g) /\ Reads(t, Ahead(value.val, rest(f)), i)
    OBVIOUS
  <2> HIDE DEF value, next, more
  <2>1. more \in 1 .. (n + 1) /\ more > i /\ more \in Nat /\ i <= more
    BY <1>1, <1>4
  <2>2. rest(f) = rest(g) /\ Reads(t, rest(f), more)
    BY <2>1 DEF Same, Parts
  <2> QED
    BY <1>1, <2>1, <2>2, ReadsLater
<1>6. \A h : ElementsAt(t, h, i) =
       LET v == h[<<"value", i>>]
           m == SkipWhitespace(t, v.pos)
       IN IF ~v.ok THEN v
          ELSE IF At(t, m) = "]" THEN Done(m + 1, <<v.val>>)
          ELSE IF At(t, m) # Comma THEN Fail(m)
          ELSE Ahead(v.val, h[<<"elements", SkipWhitespace(t, m + 1)>>])
  BY DEF ElementsAt
<1>7. \A h : h[<<"value", i>>] = value =>
       ElementsAt(t, h, i) =
          IF ~value.ok THEN value
          ELSE IF At(t, next) = "]" THEN Done(next + 1, <<value.val>>)
          ELSE IF At(t, next) # Comma THEN Fail(next)
          ELSE Ahead(value.val, rest(h))
  <2> TAKE h
  <2> HAVE h[<<"value", i>>] = value
  <2> HIDE DEF value
  <2> QED
    BY <1>6
<1>8. value = f[<<"value", i>>]
  OBVIOUS
<1> HIDE DEF value, next, rest
<1>9. /\ ElementsAt(t, f, i) =
          IF ~value.ok THEN value
          ELSE IF At(t, next) = "]" THEN Done(next + 1, <<value.val>>)
          ELSE IF At(t, next) # Comma THEN Fail(next)
          ELSE Ahead(value.val, rest(f))
      /\ ElementsAt(t, g, i) =
          IF ~value.ok THEN value
          ELSE IF At(t, next) = "]" THEN Done(next + 1, <<value.val>>)
          ELSE IF At(t, next) # Comma THEN Fail(next)
          ELSE Ahead(value.val, rest(g))
  BY <1>2, <1>7, <1>8
<1>10. CASE ~value.ok
  BY <1>2, <1>9, <1>10
<1>11. CASE value.ok /\ At(t, next) = End
  <2>1. ElementsAt(t, f, i) = Fail(next) /\ ElementsAt(t, g, i) = Fail(next)
    BY <1>9, <1>11, Brackets
  <2> QED
    BY <1>4, <1>11, <2>1
<1>12. CASE value.ok /\ At(t, next) # End
  <2>1. /\ Reads(t, Fail(next), i) /\ (\A v : Reads(t, Done(next + 1, v), i))
        /\ rest(f) = rest(g) /\ Reads(t, Ahead(value.val, rest(f)), i)
    BY <1>4, <1>5, <1>12
  <2>2. ElementsAt(t, f, i) = ElementsAt(t, g, i)
    <3>1. Ahead(value.val, rest(f)) = Ahead(value.val, rest(g))
      BY <2>1, Zenon
    <3> QED
      <4>1. CASE At(t, next) = "]"
        BY <1>9, <1>12, <4>1
      <4>2. CASE At(t, next) \notin {"]", Comma}
        BY <1>9, <1>12, <4>2
      <4>3. CASE At(t, next) = Comma
        <5>1. ElementsAt(t, f, i) = Ahead(value.val, rest(f))
          BY <1>9, <1>12, <4>3, Brackets
        <5>2. ElementsAt(t, g, i) = Ahead(value.val, rest(g))
          BY <1>9, <1>12, <4>3, Brackets
        <5> QED
          BY <3>1, <5>1, <5>2
      <4> QED
        BY <4>1, <4>2, <4>3
  <2>3. ElementsAt(t, f, i) \in {Done(next + 1, <<value.val>>), Fail(next), Ahead(value.val, rest(f))}
    BY <1>9, <1>12
  <2> QED
    BY <2>1, <2>2, <2>3
<1> QED
  BY <1>10, <1>11, <1>12

LEMMA MembersLocal ==
  ASSUME NEW C, NEW t \in Seq(C), End \notin C, NEW i \in 1 .. (Len(t) + 1), NEW f, NEW g,
         \A w \in Parts, k \in 1 .. (Len(t) + 1) : k > i => Same(t, f, g, w, k)
  PROVE  MembersAt(t, f, i) = MembersAt(t, g, i) /\ Reads(t, MembersAt(t, f, i), i)
<1> DEFINE n == Len(t)
           name == ExtractString(t, i + 1)
           colon == ReadColon(t, name.pos)
           value(h) == h[<<"value", colon.pos>>]
           next == SkipWhitespace(t, value(f).pos)
           more == SkipWhitespace(t, next + 1)
           rest(h) == h[<<"members", more>>]
<1>1. n \in Nat /\ i \in Nat /\ i \in 1 .. (n + 1) /\ i # 0
  OBVIOUS
<1>2. \A h : value(h) = value(f) =>
       MembersAt(t, h, i) =
          IF At(t, i) = End THEN Fail(i)
          ELSE IF ~name.ok THEN name
          ELSE IF ~colon.ok THEN colon
          ELSE IF ~value(f).ok THEN value(f)
          ELSE IF At(t, next) = "}" THEN Done(next + 1, Under(name.val, value(f).val, <<>>))
          ELSE IF At(t, next) # Comma THEN Fail(next)
          ELSE With(name.val, value(f).val, rest(h))
  BY DEF MembersAt
<1>3. CASE At(t, i) = End
  <2>1. \A h : MembersAt(t, h, i) = Fail(i)
    BY <1>3, Zenon DEF MembersAt
  <2>2. Reads(t, Fail(i), i)
    BY <1>1 DEF Reads, Fail
  <2> QED
    BY <2>1, <2>2
<1>4. CASE At(t, i) # End
  <2>1. i + 1 \in 1 .. (n + 1) /\ i + 1 \in Nat
    <3>1. At(t, i) = End <=> i > n
      BY <1>1, Character
    <3> QED
      BY <1>1, <1>4, <3>1
  <2>2. Reads(t, name, i + 1)
    BY <2>1, StringReads
  <2> HIDE DEF name
  <2>3. name.pos \in (i + 1) .. (n + 1) /\ name.pos \in 1 .. (n + 1) /\ Reads(t, name, i)
    BY <1>1, <2>1, <2>2 DEF Reads
  <2>4. Reads(t, colon, name.pos)
    BY <2>3, ColonReads
  <2> HIDE DEF colon
  <2>5. colon.pos \in 1 .. (n + 1) /\ colon.pos > i /\ Reads(t, colon, i)
    BY <1>1, <2>3, <2>4 DEF Reads
  <2>6. value(f) = value(g) /\ Reads(t, value(f), colon.pos)
    BY <2>5 DEF Same, Parts
  <2>7. Reads(t, value(f), i)
        /\ (value(f).ok => value(f).pos \in 1 .. (n + 1) /\ i < value(f).pos)
    <3> DEFINE v == value(f)
    <3>1. Reads(t, v, colon.pos)
      BY <2>6
    <3> HIDE DEF v
    <3>2. Reads(t, v, i) /\ (v.ok => v.pos \in 1 .. (n + 1) /\ i < v.pos)
      BY <1>1, <2>5, <3>1 DEF Reads
    <3> QED
      BY <3>2 DEF v
  <2>8. value(f).ok => /\ Reads(t, Fail(next), i)
                       /\ At(t, next) # End =>
                            /\ \A v : Reads(t, Done(next + 1, v), i)
                            /\ more \in 1 .. (n + 1) /\ more > i
    <3> DEFINE v == value(f)
    <3>1. v.ok => v.pos \in 1 .. (n + 1) /\ i < v.pos
      BY <2>7
    <3> HIDE DEF v
    <3>2. v.ok => LET m == SkipWhitespace(t, v.pos)
                  IN /\ Reads(t, Fail(m), i)
                     /\ At(t, m) # End =>
                          /\ \A u : Reads(t, Done(m + 1, u), i)
                          /\ SkipWhitespace(t, m + 1) \in 1 .. (n + 1) /\ SkipWhitespace(t, m + 1) > i
      BY <1>1, <3>1, NextReads
    <3> QED
      BY <3>2 DEF v
  <2>9. value(f).ok /\ At(t, next) # End =>
          rest(f) = rest(g) /\ Reads(t, With(name.val, value(f).val, rest(f)), i)
    <3> SUFFICES ASSUME value(f).ok, At(t, next) # End
                 PROVE  rest(f) = rest(g) /\ Reads(t, With(name.val, value(f).val, rest(f)), i)
      OBVIOUS
    <3>1. more \in 1 .. (n + 1) /\ more > i
      BY <2>8
    <3> HIDE DEF more, next
    <3>2. more \in Nat /\ i <= more
      BY <1>1, <3>1
    <3>3. rest(f) = rest(g) /\ Reads(t, rest(f), more)
      BY <3>1 DEF Same, Parts
    <3> DEFINE v == value(f)
    <3> HIDE DEF v
    <3>4. Reads(t, With(name.val, v.val, rest(f)), i)
      BY <1>1, <3>2, <3>3, ReadsLater
    <3> QED
      BY <3>3, <3>4 DEF v
  <2> HIDE DEF next, more, value, rest
  <2>10. MembersAt(t, f, i) =
          IF ~name.ok THEN name
          ELSE IF ~colon.ok THEN colon
          ELSE IF ~value(f).ok THEN value(f)
          ELSE IF At(t, next) = "}" THEN Done(next + 1, Under(name.val, value(f).val, <<>>))
          ELSE IF At(t, next) # Comma THEN Fail(next)
          ELSE With(name.val, value(f).val, rest(f))
    BY <1>2, <1>4
  <2>11. MembersAt(t, g, i) =
          IF ~name.ok THEN name
          ELSE IF ~colon.ok THEN colon
          ELSE IF ~value(f).ok THEN value(f)
          ELSE IF At(t, next) = "}" THEN Done(next + 1, Under(name.val, value(f).val, <<>>))
          ELSE IF At(t, next) # Comma THEN Fail(next)
          ELSE With(name.val, value(f).val, rest(g))
    BY <1>2, <1>4, <2>6
  <2> DEFINE v == value(f)
  <2>12. CASE ~(name.ok /\ colon.ok /\ v.ok)
    <3>1. CASE ~name.ok
      BY <2>3, <2>10, <2>11, <3>1
    <3>2. CASE name.ok /\ ~colon.ok
      BY <2>5, <2>10, <2>11, <3>2
    <3>3. CASE name.ok /\ colon.ok /\ ~v.ok
      BY <2>7, <2>10, <2>11, <3>3
    <3> QED
      BY <2>12, <3>1, <3>2, <3>3
  <2>13. CASE name.ok /\ colon.ok /\ v.ok /\ At(t, next) = End
    <3>1. MembersAt(t, f, i) = Fail(next) /\ MembersAt(t, g, i) = Fail(next)
      BY <2>10, <2>11, <2>13, Brackets
    <3> QED
      BY <2>8, <2>13, <3>1
  <2>14. CASE name.ok /\ colon.ok /\ v.ok /\ At(t, next) # End
    <3>1. /\ Reads(t, Fail(next), i) /\ (\A u : Reads(t, Done(next + 1, u), i))
          /\ rest(f) = rest(g) /\ Reads(t, With(name.val, v.val, rest(f)), i)
      BY <2>8, <2>9, <2>14
    <3>2. MembersAt(t, f, i) = MembersAt(t, g, i)
      <4>1. With(name.val, v.val, rest(f)) = With(name.val, v.val, rest(g))
        BY <3>1, Zenon
      <4> QED
        <5>1. CASE At(t, next) = "}"
          BY <2>10, <2>11, <2>14, <5>1
        <5>2. CASE At(t, next) \notin {"}", Comma}
          BY <2>10, <2>11, <2>14, <5>2
        <5>3. CASE At(t, next) = Comma
          <6>1. MembersAt(t, f, i) = With(name.val, v.val, rest(f))
            BY <2>10, <2>14, <5>3, Brackets
          <6>2. MembersAt(t, g, i) = With(name.val, v.val, rest(g))
            BY <2>11, <2>14, <5>3, Brackets
          <6> QED
            BY <4>1, <6>1, <6>2
        <5> QED
          BY <5>1, <5>2, <5>3
    <3>3. MembersAt(t, f, i) \in {Done(next + 1, Under(name.val, v.val, <<>>)), Fail(next),
                                  With(name.val, v.val, rest(f))}
      BY <2>10, <2>14
    <3> QED
      BY <3>1, <3>2, <3>3
  <2> QED
    BY <2>12, <2>13, <2>14
<1> QED
  BY <1>3, <1>4

\* One step of the parser, and how far it is from the end.
ParseAt(t, from, p) ==
  IF p[1] = "value" THEN ValueAt(t, from, p[2])
  ELSE IF p[1] = "elements" THEN ElementsAt(t, from, p[2])
  ELSE MembersAt(t, from, p[2])

Unread(n, p) == 2 * (n + 1 - p[2]) + (IF p[1] = "value" THEN 0 ELSE 1)

LEMMA ParseLocal ==
  ASSUME NEW C, NEW t \in Seq(C), End \notin C, NEW f, NEW g,
         NEW p \in Parts \X (1 .. (Len(t) + 1)),
         \A q \in Parts \X (1 .. (Len(t) + 1)) :
           Unread(Len(t), q) < Unread(Len(t), p) => f[q] = g[q] /\ Reads(t, f[q], q[2])
  PROVE  ParseAt(t, f, p) = ParseAt(t, g, p) /\ Reads(t, ParseAt(t, f, p), p[2])
<1> DEFINE n == Len(t)
           i == p[2]
<1>1. n \in Nat /\ i \in 1 .. (n + 1) /\ p[1] \in Parts
  OBVIOUS
<1> HIDE DEF i
<1>2. ASSUME NEW w \in Parts, NEW k \in 1 .. (n + 1), k > i PROVE Same(t, f, g, w, k)
  <2> DEFINE q == <<w, k>>
  <2>1. q \in Parts \X (1 .. (n + 1)) /\ q[1] = w /\ q[2] = k
    OBVIOUS
  <2> HIDE DEF q
  <2>2. Unread(n, q) < Unread(n, p)
    BY <1>1, <1>2, <2>1 DEF Unread, i
  <2>3. f[q] = g[q] /\ Reads(t, f[q], q[2])
    BY <2>1, <2>2
  <2> QED
    BY <2>1, <2>3 DEF Same, q
<1>3. CASE p[1] = "value"
  <2>1. ValueAt(t, f, i) = ValueAt(t, g, i) /\ Reads(t, ValueAt(t, f, i), i)
    BY <1>1, <1>2, ValueLocal
  <2> QED
    BY <1>3, <2>1 DEF ParseAt, i
<1>4. CASE p[1] = "elements"
  <2>1. Same(t, f, g, "value", i)
    <3> DEFINE q == <<"value", i>>
    <3>1. q \in Parts \X (1 .. (n + 1)) /\ q[1] = "value" /\ q[2] = i
      BY <1>1 DEF Parts
    <3> HIDE DEF q
    <3>2. Unread(n, q) < Unread(n, p)
      BY <1>1, <1>4, <3>1 DEF Unread, i
    <3>3. f[q] = g[q] /\ Reads(t, f[q], q[2])
      BY <3>1, <3>2
    <3> QED
      BY <3>1, <3>3 DEF Same, q
  <2>2. ElementsAt(t, f, i) = ElementsAt(t, g, i) /\ Reads(t, ElementsAt(t, f, i), i)
    BY <1>1, <1>2, <2>1, ElementsLocal
  <2> QED
    BY <1>4, <2>2 DEF ParseAt, i
<1>5. CASE p[1] = "members"
  <2>1. MembersAt(t, f, i) = MembersAt(t, g, i) /\ Reads(t, MembersAt(t, f, i), i)
    BY <1>1, <1>2, MembersLocal
  <2> QED
    BY <1>5, <2>1 DEF ParseAt, i
<1> QED
  BY <1>1, <1>3, <1>4, <1>5 DEF Parts

LEMMA ParseExists ==
  ASSUME NEW C, NEW t \in Seq(C), End \notin C
  PROVE  \E f : /\ f = [p \in Parts \X (1 .. (Len(t) + 1)) |-> ParseAt(t, f, p)]
                /\ \A p \in Parts \X (1 .. (Len(t) + 1)) : Reads(t, f[p], p[2])
<1> DEFINE n == Len(t)
           D == Parts \X (1 .. (n + 1))
           Good(f, p) == f[p] = ParseAt(t, f, p) /\ Reads(t, f[p], p[2])
           W == {m \in Nat : \E f : \A p \in D : Unread(n, p) < m => Good(f, p)}
<1>1. n \in Nat /\ \A p \in D : Unread(n, p) \in Nat /\ Unread(n, p) < 2 * n + 2
  <2>1. ASSUME NEW p \in D PROVE Unread(n, p) \in Nat /\ Unread(n, p) < 2 * n + 2
    <3>1. n \in Nat /\ p[2] \in 1 .. (n + 1)
      OBVIOUS
    <3> QED
      BY <3>1 DEF Unread
  <2> QED
    BY <2>1
<1> HIDE DEF D, n
<1>2. 0 \in W
  BY <1>1
<1>3. ASSUME NEW m \in W PROVE m + 1 \in W
  <2>1. PICK f : \A p \in D : Unread(n, p) < m => Good(f, p)
    OBVIOUS
  <2> DEFINE g == [p \in D |-> IF Unread(n, p) < m THEN f[p] ELSE ParseAt(t, f, p)]
  <2>2. \A p \in D : g[p] = ParseAt(t, f, p)
    BY <2>1
  <2>3. \A p \in D : Unread(n, p) < m => g[p] = f[p]
    OBVIOUS
  <2> HIDE DEF g
  <2>4. ASSUME NEW p \in D, Unread(n, p) < m + 1 PROVE Good(g, p)
    <3>1. \A q \in D : Unread(n, q) < Unread(n, p) => f[q] = g[q] /\ Reads(t, f[q], q[2])
      <4> TAKE q \in D
      <4> HAVE Unread(n, q) < Unread(n, p)
      <4>1. m \in Nat /\ Unread(n, p) \in Nat /\ Unread(n, q) \in Nat
        BY <1>1
      <4>2. Unread(n, q) < m
        BY <2>4, <4>1
      <4> QED
        BY <2>1, <2>3, <4>2
    <3>2. ParseAt(t, f, p) = ParseAt(t, g, p) /\ Reads(t, ParseAt(t, f, p), p[2])
      BY <3>1, ParseLocal DEF D, n
    <3> QED
      BY <2>2, <3>2
  <2>5. \A p \in D : Unread(n, p) < m + 1 => Good(g, p)
    BY <2>4
  <2> QED
    BY <2>5
<1>4. W = Nat
  <2> HIDE DEF W
  <2> QED
    BY <1>2, <1>3, AllNumbers DEF W
<1>5. PICK f : \A p \in D : Unread(n, p) < 2 * n + 2 => Good(f, p)
  <2>1. 2 * n + 2 \in W
    BY <1>1, <1>4, SMTT(30)
  <2> QED
    BY <2>1
<1>6. \A p \in D : Good(f, p)
  BY <1>1, <1>5
<1> DEFINE g == [p \in D |-> f[p]]
<1>7. \A p \in D : g[p] = f[p]
  OBVIOUS
<1>8. g = [p \in D |-> g[p]]
  OBVIOUS
<1> HIDE DEF g
<1>9. ASSUME NEW p \in D PROVE Good(g, p)
  <2>1. \A q \in D : Unread(n, q) < Unread(n, p) => f[q] = g[q] /\ Reads(t, f[q], q[2])
    BY <1>6, <1>7
  <2>2. ParseAt(t, f, p) = ParseAt(t, g, p)
    BY <2>1, ParseLocal DEF D, n
  <2> QED
    BY <1>6, <1>7, <2>2
<1>10. g = [p \in D |-> ParseAt(t, g, p)]
  <2>1. \A p \in D : g[p] = ParseAt(t, g, p)
    BY <1>9
  <2> QED
    BY <1>8, <2>1
<1>11. \A p \in D : Reads(t, g[p], p[2])
  BY <1>9
<1> QED
  BY <1>10, <1>11 DEF D, n

\* A table of what the parser reads at every position.
IsParser(t, f) ==
  \A i \in 1 .. (Len(t) + 1) :
    /\ f[<<"value", i>>] = ValueAt(t, f, i)
    /\ f[<<"elements", i>>] = ElementsAt(t, f, i)
    /\ f[<<"members", i>>] = MembersAt(t, f, i)
    /\ \A w \in Parts : Reads(t, f[<<w, i>>], i)

LEMMA ParseIs ==
  ASSUME NEW C, NEW t \in Seq(C), End \notin C
  PROVE  \E f : IsParser(t, f) /\ \A i \in 1 .. (Len(t) + 1) : ParseValue(t, i) = f[<<"value", i>>]
<1> DEFINE D == Parts \X (1 .. (Len(t) + 1))
           Good(f) == f = [p \in D |-> ParseAt(t, f, p)]
           from == CHOOSE f : Good(f)
<1>1. ASSUME NEW i \in 1 .. (Len(t) + 1) PROVE ParseValue(t, i) = from[<<"value", i>>]
  BY DEF ParseValue, ParseAt, Parts
<1>2. Good(from)
  <2>1. \E f : Good(f)
    BY ParseExists
  <2> HIDE DEF Good
  <2> QED
    BY <2>1
<1>3. \A p \in D : from[p] = ParseAt(t, from, p)
  BY <1>2, Zenon
<1> HIDE DEF from
<1>4. \A p \in D : Reads(t, from[p], p[2])
  <2> DEFINE S == {p \in D : Reads(t, from[p], p[2])}
             rank == [p \in D |-> Unread(Len(t), p)]
  <2>1. rank \in [D -> Nat]
    <3>1. ASSUME NEW p \in D PROVE Unread(Len(t), p) \in Nat
      <4>1. Len(t) \in Nat /\ p[2] \in 1 .. (Len(t) + 1)
        OBVIOUS
      <4> QED
        BY <4>1 DEF Unread
    <3> QED
      BY <3>1
  <2>2. ASSUME NEW p \in D, \A q \in D : rank[q] < rank[p] => q \in S PROVE p \in S
    <3>1. \A q \in D : Unread(Len(t), q) < Unread(Len(t), p) => Reads(t, from[q], q[2])
      BY <2>2
    <3>2. Reads(t, ParseAt(t, from, p), p[2])
      BY <3>1, ParseLocal
    <3> QED
      BY <1>3, <3>2
  <2>3. \A p \in D : p \in S
    <3> HIDE DEF D, S, rank
    <3> QED
      BY <2>1, <2>2, ByRank
  <2> QED
    BY <2>3
<1>5. IsParser(t, from)
  <2> SUFFICES ASSUME NEW i \in 1 .. (Len(t) + 1)
               PROVE  /\ from[<<"value", i>>] = ValueAt(t, from, i)
                      /\ from[<<"elements", i>>] = ElementsAt(t, from, i)
                      /\ from[<<"members", i>>] = MembersAt(t, from, i)
                      /\ \A w \in Parts : Reads(t, from[<<w, i>>], i)
    BY DEF IsParser
  <2>1. \A w \in Parts : <<w, i>> \in D /\ <<w, i>>[1] = w /\ <<w, i>>[2] = i
    OBVIOUS
  <2>2. "value" \in Parts /\ "elements" \in Parts /\ "members" \in Parts
    BY DEF Parts
  <2>3. from[<<"value", i>>] = ValueAt(t, from, i)
    BY <1>3, <2>1, <2>2 DEF ParseAt
  <2>4. from[<<"elements", i>>] = ElementsAt(t, from, i)
    BY <1>3, <2>1, <2>2 DEF ParseAt
  <2>5. from[<<"members", i>>] = MembersAt(t, from, i)
    BY <1>3, <2>1, <2>2 DEF ParseAt
  <2>6. \A w \in Parts : Reads(t, from[<<w, i>>], i)
    <3> TAKE w \in Parts
    <3>1. Reads(t, from[<<w, i>>], <<w, i>>[2])
      BY <1>4, <2>1
    <3> QED
      BY <2>1, <3>1
  <2> QED
    BY <2>3, <2>4, <2>5, <2>6
<1> QED
  BY <1>1, <1>5

\* The parser ends on the text or on its terminator.
LEMMA DocumentReads ==
  ASSUME NEW C, NEW t \in Seq(C), End \notin C
  PROVE  JsonParse(t).ok \in BOOLEAN /\ JsonParse(t).pos \in 1 .. (Len(t) + 1)
<1> DEFINE n == Len(t)
           s == SkipWhitespace(t, 1)
           value == ParseValue(t, s)
           rest == SkipWhitespace(t, value.pos)
<1>1. n \in Nat /\ 1 \in 1 .. (n + 1)
  OBVIOUS
<1>2. s \in 1 .. (n + 1)
  BY <1>1, SkipStops
<1>3. Reads(t, value, s)
  <2> HIDE DEF s
  <2>1. PICK f : IsParser(t, f) /\ \A i \in 1 .. (n + 1) : ParseValue(t, i) = f[<<"value", i>>]
    BY ParseIs
  <2>2. "value" \in Parts
    BY DEF Parts
  <2> QED
    BY <1>2, <2>1, <2>2 DEF IsParser
<1>4. JsonParse(t) = IF ~value.ok THEN value
                     ELSE IF At(t, rest) # End THEN Fail(rest) ELSE Done(rest, value.val)
  BY DEF JsonParse, WholeText
<1> HIDE DEF s, value
<1>5. value.pos \in 1 .. (n + 1) /\ value.ok \in BOOLEAN
  BY <1>1, <1>2, <1>3 DEF Reads
<1>6. rest \in 1 .. (n + 1)
  BY <1>1, <1>5, SkipStops
<1> HIDE DEF rest
<1>7. CASE ~value.ok
  BY <1>4, <1>5, <1>7
<1>8. CASE value.ok /\ At(t, rest) # End
  BY <1>4, <1>6, <1>8 DEF Fail
<1>9. CASE value.ok /\ At(t, rest) = End
  BY <1>4, <1>6, <1>9 DEF Done
<1> QED
  BY <1>7, <1>8, <1>9

-------------------------------------------------------------------------------
(* The grammar: what a part means depends on smaller parts only. *)

MeansAt(t, means, p) ==
  IF p[1] = "value" THEN Value(t, means, p[2], p[3])
  ELSE IF p[1] = "elements" THEN Elements(t, means, p[2], p[3])
  ELSE Members(t, means, p[2], p[3])

Spans(t) == Parts \X (1 .. (Len(t) + 1)) \X (0 .. Len(t))

Size(n, p) == 2 * (n + p[3] + 1 - p[2]) + (IF p[1] = "value" THEN 0 ELSE 1)

\* Two tables that agree on the values of a part, on its last elements or members.
Values(f, g, i, j) == \A a, b \in i .. j : f[<<"value", a, b>>] = g[<<"value", a, b>>]
Rests(f, g, w, i, j) == \A k \in i .. j : f[<<w, k + 1, j>>] = g[<<w, k + 1, j>>]

LEMMA ValuesWithin ==
  ASSUME NEW f, NEW g, NEW i \in Nat, NEW j \in Nat, Values(f, g, i, j),
         NEW a \in Nat, NEW b \in Nat, i <= a, b <= j
  PROVE  Values(f, g, a, b)
<1>1. \A k \in a .. b : k \in i .. j
  OBVIOUS
<1> QED
  BY <1>1, Zenon DEF Values

LEMMA PaddedLocal ==
  ASSUME NEW t, NEW f, NEW g, NEW i \in Nat, NEW j \in Nat,
         Values(f, g, i, j)
  PROVE  Padded(t, f, i, j) = Padded(t, g, i, j)
<1>1. \A p \in Fronts(t, i, j) \X Backs(t, i, j) :
        f[<<"value", p[1], p[2]>>] = g[<<"value", p[1], p[2]>>]
  <2> TAKE p \in Fronts(t, i, j) \X Backs(t, i, j)
  <2>1. p[1] \in i .. j /\ p[2] \in i .. j
    BY DEF Fronts, Backs
  <2> QED
    BY <2>1, Zenon DEF Values
<1> QED
  BY <1>1 DEF Padded

LEMMA InElements ==
  ASSUME NEW t, NEW h, NEW i, NEW j, NEW x
  PROVE  x \in Elements(t, h, i, j) <=>
           \/ \E v \in Padded(t, h, i, j) : x = <<v>>
           \/ \E c \in Marks(t, i, j, Comma) : x \in ElementsAround(t, h, i, c, j)
BY DEF Elements

Headed(v, rest) == <<v>> \o rest

LEMMA InAround ==
  ASSUME NEW t, NEW h, NEW i, NEW c, NEW j, NEW x
  PROVE  x \in ElementsAround(t, h, i, c, j) <=>
           \E v \in Padded(t, h, i, c - 1), rest \in h[<<"elements", c + 1, j>>] : x = Headed(v, rest)
BY DEF ElementsAround, Headed

LEMMA InMembers ==
  ASSUME NEW t, NEW h, NEW i, NEW j, NEW x
  PROVE  x \in Members(t, h, i, j) <=>
           \E c \in Marks(t, i, j, Colon) :
             \/ x \in Member(t, h, i, c, j)
             \/ \E d \in Marks(t, c, j, Comma) : x \in MembersAround(t, h, i, c, d, j)
BY DEF Members

LEMMA ElementsSame ==
  ASSUME NEW t, NEW f, NEW g, NEW i \in Nat, i # 0, NEW j \in Nat,
         Values(f, g, i, j), Rests(f, g, "elements", i, j)
  PROVE  Elements(t, f, i, j) = Elements(t, g, i, j)
<1>1. Padded(t, f, i, j) = Padded(t, g, i, j)
  BY PaddedLocal
<1>2. ASSUME NEW c \in Marks(t, i, j, Comma)
      PROVE  ElementsAround(t, f, i, c, j) = ElementsAround(t, g, i, c, j)
  <2>1. c \in i .. j /\ c - 1 \in Nat
    BY DEF Marks
  <2>2. Values(f, g, i, c - 1)
    BY <2>1, ValuesWithin
  <2>3. Padded(t, f, i, c - 1) = Padded(t, g, i, c - 1)
    BY <2>1, <2>2, PaddedLocal
  <2>4. f[<<"elements", c + 1, j>>] = g[<<"elements", c + 1, j>>]
    BY <2>1, Zenon DEF Rests
  <2> QED
    <3>1. ASSUME NEW x PROVE x \in ElementsAround(t, f, i, c, j) <=> x \in ElementsAround(t, g, i, c, j)
      BY <2>3, <2>4, InAround
    <3> QED
      BY <3>1, Zenon
<1>3. ASSUME NEW x PROVE x \in Elements(t, f, i, j) <=> x \in Elements(t, g, i, j)
  BY <1>1, <1>2, InElements
<1> QED
  BY <1>3, Zenon

LEMMA MembersSame ==
  ASSUME NEW t, NEW f, NEW g, NEW i \in Nat, i # 0, NEW j \in Nat,
         Values(f, g, i, j), Rests(f, g, "members", i, j)
  PROVE  Members(t, f, i, j) = Members(t, g, i, j)
<1>1. ASSUME NEW c \in Marks(t, i, j, Colon) PROVE Member(t, f, i, c, j) = Member(t, g, i, c, j)
  <2>1. c \in i .. j /\ c + 1 \in Nat
    BY DEF Marks
  <2>2. Values(f, g, c + 1, j)
    BY <2>1, ValuesWithin
  <2>3. Padded(t, f, c + 1, j) = Padded(t, g, c + 1, j)
    BY <2>1, <2>2, PaddedLocal
  <2> QED
    BY <2>3 DEF Member
<1>2. ASSUME NEW c \in Marks(t, i, j, Colon), NEW d \in Marks(t, c, j, Comma)
      PROVE  MembersAround(t, f, i, c, d, j) = MembersAround(t, g, i, c, d, j)
  <2>1. c \in i .. j /\ d \in i .. j /\ c + 1 \in Nat /\ d - 1 \in Nat
    BY DEF Marks
  <2>2. Values(f, g, c + 1, d - 1)
    BY <2>1, ValuesWithin
  <2>3. Padded(t, f, c + 1, d - 1) = Padded(t, g, c + 1, d - 1)
    BY <2>1, <2>2, PaddedLocal
  <2>4. f[<<"members", d + 1, j>>] = g[<<"members", d + 1, j>>]
    BY <2>1, Zenon DEF Rests
  <2> QED
    BY <2>3, <2>4 DEF MembersAround
<1>3. ASSUME NEW x PROVE x \in Members(t, f, i, j) <=> x \in Members(t, g, i, j)
  BY <1>1, <1>2, InMembers
<1> QED
  BY <1>3, Zenon

LEMMA MeansLocal ==
  ASSUME NEW C, NEW t \in Seq(C), NEW f, NEW g, NEW p \in Spans(t),
         \A q \in Spans(t) : Size(Len(t), q) < Size(Len(t), p) => f[q] = g[q]
  PROVE  MeansAt(t, f, p) = MeansAt(t, g, p)
<1> DEFINE n == Len(t)
           i == p[2]
           j == p[3]
<1>1. n \in Nat /\ i \in 1 .. (n + 1) /\ j \in 0 .. n /\ p[1] \in Parts
      /\ Size(n, p) = 2 * (n + j + 1 - i) + (IF p[1] = "value" THEN 0 ELSE 1)
  BY DEF Spans, Size
<1> HIDE DEF i, j
<1>2. ASSUME NEW w \in Parts, NEW a \in 1 .. (n + 1), NEW b \in 0 .. n,
             2 * (n + b + 1 - a) + (IF w = "value" THEN 0 ELSE 1) < Size(n, p)
      PROVE  f[<<w, a, b>>] = g[<<w, a, b>>]
  <2> DEFINE q == <<w, a, b>>
  <2>1. q \in Spans(t) /\ q[1] = w /\ q[2] = a /\ q[3] = b
    BY DEF Spans
  <2> HIDE DEF q
  <2>2. Size(n, q) < Size(n, p)
    BY <1>2, <2>1 DEF Size
  <2> QED
    BY <2>1, <2>2 DEF q
<1>3. CASE p[1] = "value"
  <2>1. i < j => /\ f[<<"elements", i + 1, j - 1>>] = g[<<"elements", i + 1, j - 1>>]
                 /\ f[<<"members", i + 1, j - 1>>] = g[<<"members", i + 1, j - 1>>]
    <3> SUFFICES ASSUME i < j, NEW w \in {"elements", "members"}
                 PROVE  f[<<w, i + 1, j - 1>>] = g[<<w, i + 1, j - 1>>]
      OBVIOUS
    <3>1. w \in Parts /\ w # "value"
      BY DEF Parts
    <3>2. i + 1 \in 1 .. (n + 1) /\ j - 1 \in 0 .. n
          /\ 2 * (n + (j - 1) + 1 - (i + 1)) + 1 < Size(n, p)
      BY <1>1, <1>3
    <3> QED
      BY <1>2, <3>1, <3>2
  <2>2. Value(t, f, i, j) = Value(t, g, i, j)
    BY <2>1, Zenon DEF Value, When
  <2> QED
    BY <1>3, <2>2 DEF MeansAt, i, j
<1>4. ASSUME p[1] # "value", NEW a \in i .. j, NEW b \in i .. j
      PROVE  f[<<"value", a, b>>] = g[<<"value", a, b>>]
  <2>1. a \in 1 .. (n + 1) /\ b \in 0 .. n /\ 2 * (n + b + 1 - a) + 0 < Size(n, p)
    BY <1>1, <1>4
  <2> QED
    BY <1>2, <2>1 DEF Parts
<1>5. ASSUME p[1] # "value", NEW w \in {"elements", "members"}, NEW k \in i .. j
      PROVE  f[<<w, k + 1, j>>] = g[<<w, k + 1, j>>]
  <2>1. w \in Parts /\ w # "value"
    BY DEF Parts
  <2>2. k + 1 \in 1 .. (n + 1) /\ j \in 0 .. n /\ 2 * (n + j + 1 - (k + 1)) + 1 < Size(n, p)
    BY <1>1, <1>5
  <2> QED
    BY <1>2, <2>1, <2>2
<1>6. i \in Nat /\ i # 0 /\ j \in Nat
  BY <1>1
<1>7. CASE p[1] = "elements"
  <2>1. Elements(t, f, i, j) = Elements(t, g, i, j)
    <3>1. Values(f, g, i, j)
      BY <1>4, <1>7 DEF Values
    <3>2. Rests(f, g, "elements", i, j)
      BY <1>5, <1>7 DEF Rests
    <3> QED
      BY <1>6, <3>1, <3>2, ElementsSame
  <2> QED
    BY <1>7, <2>1 DEF MeansAt, i, j
<1>8. CASE p[1] = "members"
  <2>1. Members(t, f, i, j) = Members(t, g, i, j)
    <3>1. Values(f, g, i, j)
      BY <1>4, <1>8 DEF Values
    <3>2. Rests(f, g, "members", i, j)
      BY <1>5, <1>8 DEF Rests
    <3> QED
      BY <1>6, <3>1, <3>2, MembersSame
  <2> QED
    BY <1>8, <2>1 DEF MeansAt, i, j
<1> QED
  BY <1>1, <1>3, <1>7, <1>8 DEF Parts

LEMMA SizeIs ==
  ASSUME NEW C, NEW t \in Seq(C), NEW p \in Spans(t)
  PROVE  Size(Len(t), p) \in 0 .. (4 * Len(t) + 3)
<1> DEFINE n == Len(t)
           i == p[2]
           j == p[3]
           odd == IF p[1] = "value" THEN 0 ELSE 1
<1>1. n \in Nat /\ i \in 1 .. (n + 1) /\ j \in 0 .. n /\ odd \in 0 .. 1
  BY DEF Spans
<1>2. Size(n, p) = 2 * (n + j + 1 - i) + odd
  BY DEF Size
<1> HIDE DEF n, i, j, odd
<1>3. n + j + 1 - i \in 0 .. (2 * n)
  BY <1>1
<1>4. Size(n, p) \in 0 .. (4 * n + 3)
  BY <1>1, <1>2, <1>3
<1> QED
  BY <1>4 DEF n

LEMMA MeansExists ==
  ASSUME NEW C, NEW t \in Seq(C)
  PROVE  \E f : f = [p \in Spans(t) |-> MeansAt(t, f, p)]
<1> DEFINE n == Len(t)
           D == Spans(t)
           Good(f, p) == f[p] = MeansAt(t, f, p)
           W == {m \in Nat : \E f : \A p \in D : Size(n, p) < m => Good(f, p)}
<1>1. n \in Nat /\ \A p \in D : Size(n, p) \in Nat /\ Size(n, p) < 4 * n + 4
  <2>1. ASSUME NEW p \in D PROVE Size(n, p) \in Nat /\ Size(n, p) < 4 * n + 4
    <3>1. Size(n, p) \in 0 .. (4 * n + 3) /\ n \in Nat
      BY SizeIs
    <3> QED
      BY <3>1
  <2>2. n \in Nat
    OBVIOUS
  <2> QED
    BY <2>1, <2>2
<1> HIDE DEF D, n
<1>2. 0 \in W
  BY <1>1
<1>3. ASSUME NEW m \in W PROVE m + 1 \in W
  <2>1. PICK f : \A p \in D : Size(n, p) < m => Good(f, p)
    OBVIOUS
  <2> DEFINE g == [p \in D |-> IF Size(n, p) < m THEN f[p] ELSE MeansAt(t, f, p)]
  <2>2. \A p \in D : g[p] = MeansAt(t, f, p)
    BY <2>1
  <2>3. \A p \in D : Size(n, p) < m => g[p] = f[p]
    OBVIOUS
  <2> HIDE DEF g
  <2>4. ASSUME NEW p \in D, Size(n, p) < m + 1 PROVE Good(g, p)
    <3>1. \A q \in D : Size(n, q) < Size(n, p) => f[q] = g[q]
      <4> TAKE q \in D
      <4> HAVE Size(n, q) < Size(n, p)
      <4>1. m \in Nat /\ Size(n, p) \in Nat /\ Size(n, q) \in Nat
        BY <1>1
      <4>2. Size(n, q) < m
        BY <2>4, <4>1
      <4> QED
        BY <2>3, <4>2
    <3>2. MeansAt(t, f, p) = MeansAt(t, g, p)
      BY <3>1, MeansLocal DEF D, n
    <3> QED
      BY <2>2, <3>2
  <2>5. \A p \in D : Size(n, p) < m + 1 => Good(g, p)
    BY <2>4
  <2> QED
    BY <2>5
<1>4. W = Nat
  <2> HIDE DEF W
  <2> QED
    BY <1>2, <1>3, AllNumbers DEF W
<1>5. PICK f : \A p \in D : Size(n, p) < 4 * n + 4 => Good(f, p)
  <2>1. 4 * n + 4 \in Nat
    BY <1>1
  <2>2. 4 * n + 4 \in W
    BY <1>4, <2>1, Zenon
  <2> QED
    BY <2>2
<1>6. \A p \in D : Good(f, p)
  BY <1>1, <1>5
<1> DEFINE g == [p \in D |-> f[p]]
<1>7. \A p \in D : g[p] = f[p]
  OBVIOUS
<1>8. g = [p \in D |-> g[p]]
  OBVIOUS
<1> HIDE DEF g
<1>9. ASSUME NEW p \in D PROVE g[p] = MeansAt(t, g, p)
  <2>1. \A q \in D : Size(n, q) < Size(n, p) => f[q] = g[q]
    BY <1>7
  <2>2. MeansAt(t, f, p) = MeansAt(t, g, p)
    BY <2>1, MeansLocal DEF D, n
  <2> QED
    BY <1>6, <1>7, <2>2
<1>10. g = [p \in D |-> MeansAt(t, g, p)]
  BY <1>8, <1>9
<1> QED
  BY <1>10 DEF D

\* A table of what every part of a text means.
IsGrammar(t, m) ==
  \A i \in 1 .. (Len(t) + 1), j \in 0 .. Len(t) :
    /\ m[<<"value", i, j>>] = Value(t, m, i, j)
    /\ m[<<"elements", i, j>>] = Elements(t, m, i, j)
    /\ m[<<"members", i, j>>] = Members(t, m, i, j)

LEMMA MeansIs ==
  ASSUME NEW C, NEW t \in Seq(C)
  PROVE  \E m : IsGrammar(t, m) /\ Denoted(t) = Padded(t, m, 1, Len(t))
<1> DEFINE D == Spans(t)
           Good(f) == f = [p \in D |-> MeansAt(t, f, p)]
           means == CHOOSE f : Good(f)
<1>1. Denoted(t) = Padded(t, means, 1, Len(t))
  BY Zenon DEF Denoted, MeansAt, Spans, Parts
<1>2. Good(means)
  <2>1. \E f : Good(f)
    BY MeansExists
  <2> HIDE DEF Good
  <2> QED
    BY <2>1
<1>3. \A p \in D : means[p] = MeansAt(t, means, p)
  BY <1>2, Zenon
<1> HIDE DEF means
<1>4. IsGrammar(t, means)
  <2> SUFFICES ASSUME NEW i \in 1 .. (Len(t) + 1), NEW j \in 0 .. Len(t)
               PROVE  /\ means[<<"value", i, j>>] = Value(t, means, i, j)
                      /\ means[<<"elements", i, j>>] = Elements(t, means, i, j)
                      /\ means[<<"members", i, j>>] = Members(t, means, i, j)
    BY DEF IsGrammar
  <2>1. \A w \in Parts : /\ <<w, i, j>> \in D
                         /\ <<w, i, j>>[1] = w /\ <<w, i, j>>[2] = i /\ <<w, i, j>>[3] = j
    BY DEF Spans
  <2>2. "value" \in Parts /\ "elements" \in Parts /\ "members" \in Parts
    BY DEF Parts
  <2>3. means[<<"value", i, j>>] = Value(t, means, i, j)
    BY <1>3, <2>1, <2>2 DEF MeansAt
  <2>4. means[<<"elements", i, j>>] = Elements(t, means, i, j)
    BY <1>3, <2>1, <2>2 DEF MeansAt
  <2>5. means[<<"members", i, j>>] = Members(t, means, i, j)
    BY <1>3, <2>1, <2>2 DEF MeansAt
  <2> QED
    BY <2>3, <2>4, <2>5
<1> QED
  BY <1>1, <1>4

\* The kinds of values.
IsLiteral(t, i, j, x) == i = j /\ t[i] \in DOMAIN Literal /\ x = Literal[t[i]]
IsString(t, i, j, x) ==
  i < j /\ t[i] = Quote /\ t[j] = Quote /\ \E s \in Unquoted(t, i + 1, j - 1) : x = <<"string", s>>
IsNumeric(t, i, j, x) == i <= j /\ t[i] \in Digits \cup {"-"} /\ x \in Numbers(t, i, j)
IsArray(t, m, i, j, x) ==
  /\ i < j /\ t[i] = "[" /\ t[j] = "]"
  /\ \/ AllWhite(t, i + 1, j - 1) /\ x = <<"array", <<>>>>
     \/ \E a \in m[<<"elements", i + 1, j - 1>>] : x = <<"array", a>>
IsObject(t, m, i, j, x) ==
  /\ i < j /\ t[i] = "{" /\ t[j] = "}"
  /\ \/ AllWhite(t, i + 1, j - 1) /\ x = <<"object", <<>>>>
     \/ /\ \A a \in Fronts(t, i + 1, j - 1) : t[a] # "}"
        /\ \E o \in m[<<"members", i + 1, j - 1>>] : x = <<"object", o>>

LEMMA InValue ==
  ASSUME NEW t, NEW m, NEW i, NEW j, NEW x
  PROVE  x \in Value(t, m, i, j) <=>
           \/ IsLiteral(t, i, j, x) \/ IsString(t, i, j, x) \/ IsNumeric(t, i, j, x)
           \/ IsArray(t, m, i, j, x) \/ IsObject(t, m, i, j, x)
<1> DEFINE literals == When(i = j /\ t[i] \in DOMAIN Literal, {Literal[t[i]]})
           strings == {<<"string", s>> :
                        s \in When(i < j /\ t[i] = Quote /\ t[j] = Quote, Unquoted(t, i + 1, j - 1))}
           numbers == When(i <= j /\ t[i] \in Digits \cup {"-"}, Numbers(t, i, j))
           lists == When(i < j /\ t[i] = "[" /\ t[j] = "]",
                         When(AllWhite(t, i + 1, j - 1), {<<>>})
                         \cup m[<<"elements", i + 1, j - 1>>])
           arrays == {<<"array", a>> : a \in lists}
           maps == When(i < j /\ t[i] = "{" /\ t[j] = "}",
                        When(AllWhite(t, i + 1, j - 1), {<<>>})
                        \cup When(\A a \in Fronts(t, i + 1, j - 1) : t[a] # "}",
                                  m[<<"members", i + 1, j - 1>>]))
           objects == {<<"object", o>> : o \in maps}
<1>1. Value(t, m, i, j) = literals \cup strings \cup numbers \cup arrays \cup objects
  BY Zenon DEF Value
<1>2. x \in literals <=> IsLiteral(t, i, j, x)
  BY DEF IsLiteral, When
<1>3. x \in strings <=> IsString(t, i, j, x)
  BY DEF IsString, When
<1>4. x \in numbers <=> IsNumeric(t, i, j, x)
  BY DEF IsNumeric, When
<1>5. x \in arrays <=> IsArray(t, m, i, j, x)
  <2>1. \A a : a \in lists <=> /\ i < j /\ t[i] = "[" /\ t[j] = "]"
                               /\ \/ AllWhite(t, i + 1, j - 1) /\ a = <<>>
                                  \/ a \in m[<<"elements", i + 1, j - 1>>]
    BY DEF When
  <2> HIDE DEF lists
  <2>2. x \in arrays <=> \E a \in lists : x = <<"array", a>>
    OBVIOUS
  <2> HIDE DEF arrays
  <2> QED
    BY <2>1, <2>2, Zenon DEF IsArray
<1>6. x \in objects <=> IsObject(t, m, i, j, x)
  <2>1. \A o : o \in maps <=> /\ i < j /\ t[i] = "{" /\ t[j] = "}"
                              /\ \/ AllWhite(t, i + 1, j - 1) /\ o = <<>>
                                 \/ /\ \A a \in Fronts(t, i + 1, j - 1) : t[a] # "}"
                                    /\ o \in m[<<"members", i + 1, j - 1>>]
    BY DEF When
  <2> HIDE DEF maps
  <2>2. x \in objects <=> \E o \in maps : x = <<"object", o>>
    OBVIOUS
  <2> HIDE DEF objects
  <2> QED
    BY <2>1, <2>2, Zenon DEF IsObject
<1> HIDE DEF literals, strings, numbers, arrays, objects
<1> QED
  BY <1>1, <1>2, <1>3, <1>4, <1>5, <1>6

LEMMA InPadded ==
  ASSUME NEW t, NEW m, NEW i, NEW j, NEW x
  PROVE  x \in Padded(t, m, i, j) <=>
           \E a \in Fronts(t, i, j), b \in Backs(t, i, j) : x \in m[<<"value", a, b>>]
<1> DEFINE P == Fronts(t, i, j) \X Backs(t, i, j)
<1>1. x \in Padded(t, m, i, j) <=> \E p \in P : x \in m[<<"value", p[1], p[2]>>]
  BY DEF Padded
<1>2. ASSUME NEW p \in P PROVE p[1] \in Fronts(t, i, j) /\ p[2] \in Backs(t, i, j)
  OBVIOUS
<1>3. ASSUME NEW a \in Fronts(t, i, j), NEW b \in Backs(t, i, j)
      PROVE  <<a, b>> \in P /\ <<a, b>>[1] = a /\ <<a, b>>[2] = b
  OBVIOUS
<1> HIDE DEF P
<1>4. ASSUME NEW a \in Fronts(t, i, j), NEW b \in Backs(t, i, j), x \in m[<<"value", a, b>>]
      PROVE  \E p \in P : x \in m[<<"value", p[1], p[2]>>]
  <2> DEFINE p == <<a, b>>
  <2>1. p \in P /\ p[1] = a /\ p[2] = b
    BY <1>3
  <2> HIDE DEF p
  <2> QED
    BY <1>4, <2>1
<1> QED
  BY <1>1, <1>2, <1>4

LEMMA InKeys ==
  ASSUME NEW t, NEW i, NEW j, NEW x
  PROVE  x \in Keys(t, i, j) <=>
           \E a \in Fronts(t, i, j), b \in Backs(t, i, j) :
             a < b /\ t[b] = Quote /\ x \in Unquoted(t, a + 1, b - 1)
<1> DEFINE P == {p \in Fronts(t, i, j) \X Backs(t, i, j) : p[1] < p[2] /\ t[p[2]] = Quote}
<1>1. x \in Keys(t, i, j) <=> \E p \in P : x \in Unquoted(t, p[1] + 1, p[2] - 1)
  BY DEF Keys
<1>2. ASSUME NEW p \in P
      PROVE  p[1] \in Fronts(t, i, j) /\ p[2] \in Backs(t, i, j) /\ p[1] < p[2] /\ t[p[2]] = Quote
  OBVIOUS
<1>3. ASSUME NEW a \in Fronts(t, i, j), NEW b \in Backs(t, i, j), a < b, t[b] = Quote
      PROVE  <<a, b>> \in P /\ <<a, b>>[1] = a /\ <<a, b>>[2] = b
  BY <1>3
<1> HIDE DEF P
<1>4. ASSUME NEW a \in Fronts(t, i, j), NEW b \in Backs(t, i, j), a < b, t[b] = Quote,
             x \in Unquoted(t, a + 1, b - 1)
      PROVE  \E p \in P : x \in Unquoted(t, p[1] + 1, p[2] - 1)
  <2> DEFINE p == <<a, b>>
  <2>1. p \in P /\ p[1] = a /\ p[2] = b
    BY <1>3, <1>4
  <2> HIDE DEF p
  <2> QED
    BY <1>4, <2>1
<1> QED
  BY <1>1, <1>2, <1>4

\* Which characters are which.
LEMMA Listed ==
  /\ Digits = {"0", "1", "2", "3", "4", "5", "6", "7", "8", "9"}
  /\ DOMAIN Literal = {"true", "TRUE", "false", "FALSE", "null", "NULL"}
  /\ \A c : c \in DOMAIN Literal => c \notin Digits \cup {"-"}
<1>1. Digits = {"0", "1", "2", "3", "4", "5", "6", "7", "8", "9"}
  BY DEF Digits, DigitChars, ToSet
<1>2. DOMAIN Literal = {"true", "TRUE", "false", "FALSE", "null", "NULL"}
  BY DEF Literal
<1> QED
  BY <1>1, <1>2

LEMMA Classes ==
  /\ Quote \notin DOMAIN Literal /\ Quote \notin Digits \cup {"-"}
  /\ "[" # Quote /\ "[" \notin DOMAIN Literal /\ "[" \notin Digits \cup {"-"}
  /\ "{" # Quote /\ "{" \notin DOMAIN Literal /\ "{" \notin Digits \cup {"-"} /\ "{" # "["
<1>1. Quote \notin DOMAIN Literal
  BY Listed, Zenon DEF Quote
<1>2. Quote \notin Digits \cup {"-"}
  BY Listed, Zenon DEF Quote
<1>3. "[" # Quote /\ "{" # Quote
  BY Zenon DEF Quote
<1>4. "[" \notin DOMAIN Literal /\ "{" \notin DOMAIN Literal
  BY Listed, Zenon
<1>5. "[" \notin Digits \cup {"-"} /\ "{" \notin Digits \cup {"-"}
  BY Listed, Zenon
<1>6. "{" # "["
  BY Zenon
<1> QED
  BY <1>1, <1>2, <1>3, <1>4, <1>5, <1>6

LEMMA Blanks ==
  ASSUME NEW c, c \in White \cup {Comma, Colon, "]", "}", End}
  PROVE  c \notin DOMAIN Literal \cup Digits \cup {Quote, "-", "[", "{", ".", "e", "E"}
<1> White = {" ", "TAB", "CR", "LF"} /\ Comma = "," /\ Colon = ":" /\ End = "end" /\ Quote = "\""
  BY Zenon DEF White, Comma, Colon, End, Quote
<1>1. c \notin DOMAIN Literal
  BY Listed, Zenon
<1>2. c \notin Digits
  BY Listed, Zenon
<1>3. c \notin {Quote, "-", "[", "{", ".", "e", "E"}
  BY Zenon
<1> QED
  BY <1>1, <1>2, <1>3, Zenon

LEMMA Solid == "]" \notin White /\ "}" \notin White /\ Comma \notin White /\ Colon \notin White /\ Quote \notin White
BY Zenon DEF White, Comma, Colon, Quote

-------------------------------------------------------------------------------
(* What is read means what the grammar gives it. *)

LEMMA Skipped ==
  ASSUME NEW C, NEW t \in Seq(C), End \notin C, NEW i \in 1 .. (Len(t) + 1)
  PROVE  LET s == SkipWhitespace(t, i)
         IN /\ s \in i .. (Len(t) + 1) /\ AllWhite(t, i, s - 1)
            /\ s <= Len(t) => At(t, s) = t[s] /\ t[s] \notin White
            /\ At(t, s) = End <=> s > Len(t)
            /\ At(t, s) \notin White
<1> DEFINE n == Len(t)
           s == SkipWhitespace(t, i)
<1>1. s \in i .. (n + 1) /\ At(t, s) \notin White /\ \A k \in i .. (s - 1) : At(t, k) \in White
  BY SkipStops
<1> HIDE DEF s
<1>2. n \in Nat /\ i \in Nat /\ i # 0 /\ s \in Nat /\ s # 0
  BY <1>1
<1>3. ASSUME NEW k \in i .. (s - 1) PROVE t[k] \in White
  <2>1. k \in Nat /\ k # 0 /\ k <= n /\ At(t, k) \in White
    BY <1>1, <1>2
  <2> QED
    BY <2>1, Character
<1>4. AllWhite(t, i, s - 1)
  BY <1>3 DEF AllWhite
<1>5. /\ At(t, s) = End <=> s > n
      /\ s <= n => At(t, s) = t[s]
  BY <1>2, Character
<1> QED
  BY <1>1, <1>4, <1>5 DEF s

LEMMA FirstOf ==
  ASSUME NEW C, NEW t \in Seq(C), End \notin C, NEW i \in 1 .. (Len(t) + 1), NEW j \in 0 .. Len(t),
         NEW a \in Fronts(t, i, j)
  PROVE  a \in i .. j /\ SkipWhitespace(t, i) = a /\ At(t, a) = t[a] /\ t[a] \notin White
<1> DEFINE n == Len(t)
<1>1. a \in i .. j /\ AllWhite(t, i, a - 1) /\ t[a] \notin White /\ n \in Nat
  BY DEF Fronts
<1>2. a \in i .. (n + 1) /\ a \in Nat /\ a # 0 /\ a <= n
  BY <1>1
<1>3. At(t, a) = t[a]
  BY <1>2, Character
<1>4. ASSUME NEW k \in i .. (a - 1) PROVE At(t, k) \in White
  <2>1. k \in Nat /\ k # 0 /\ k <= n /\ t[k] \in White
    BY <1>1, <1>2 DEF AllWhite
  <2> QED
    BY <2>1, Character
<1>5. SkipWhitespace(t, i) = a
  BY <1>1, <1>2, <1>3, <1>4, SkipUnique
<1> QED
  BY <1>1, <1>3, <1>5

LEMMA BehindLast ==
  ASSUME NEW C, NEW t \in Seq(C), End \notin C, NEW i \in 1 .. (Len(t) + 1), NEW j \in 0 .. Len(t),
         NEW b \in Backs(t, i, j), At(t, j + 1) \notin White
  PROVE  b \in i .. j /\ SkipWhitespace(t, b + 1) = j + 1
<1> DEFINE n == Len(t)
<1>1. b \in i .. j /\ AllWhite(t, b + 1, j) /\ n \in Nat
  BY DEF Backs
<1>2. b + 1 \in 1 .. (n + 1) /\ j + 1 \in (b + 1) .. (n + 1) /\ (j + 1) - 1 = j
  BY <1>1
<1>3. ASSUME NEW k \in (b + 1) .. ((j + 1) - 1) PROVE At(t, k) \in White
  <2>1. k \in Nat /\ k # 0 /\ k <= n /\ t[k] \in White
    BY <1>1, <1>2 DEF AllWhite
  <2> QED
    BY <2>1, Character
<1>4. SkipWhitespace(t, b + 1) = j + 1
  BY <1>2, <1>3, SkipUnique
<1> QED
  BY <1>1, <1>4

LEMMA Place ==
  ASSUME NEW t, NEW m, NEW h \in Nat, NEW a \in Nat, NEW b \in Nat, NEW j \in Nat,
         h <= a, a <= b, b <= j, AllWhite(t, h, a - 1), t[a] \notin White, AllWhite(t, b + 1, j),
         NEW x \in m[<<"value", a, b>>]
  PROVE  x \in Padded(t, m, h, j)
<1>1. a \in Fronts(t, h, j) /\ b \in Backs(t, h, j)
  BY DEF Fronts, Backs
<1> QED
  BY <1>1, InPadded

SoundValue(t, f, m, i) ==
  LET r == f[<<"value", i>>]
  IN r.ok => /\ r.pos - 1 \in i .. Len(t) /\ t[i] \notin White
             /\ r.val \in m[<<"value", i, r.pos - 1>>]

SoundList(t, f, m, w, close, i) ==
  LET r == f[<<w, i>>]
  IN r.ok => /\ r.pos - 1 \in (i + 1) .. Len(t) /\ t[r.pos - 1] = close
             /\ \A h \in 1 .. i : AllWhite(t, h, i - 1) => r.val \in m[<<w, h, r.pos - 2>>]

\* What is read at a position after the place's own kind.
SoundFrom(t, f, m, i) ==
  \A k \in (i + 1) .. (Len(t) + 1) :
    /\ SoundValue(t, f, m, k) /\ SoundList(t, f, m, "elements", "]", k)
    /\ At(t, k) \notin White => SoundList(t, f, m, "members", "}", k)

LEMMA AsIs ==
  ASSUME NEW x, NEW r
  PROVE  /\ r.ok => As(x, r).ok /\ As(x, r).pos = r.pos /\ As(x, r).val = <<x, r.val>>
         /\ ~ r.ok => ~ As(x, r).ok
  BY DEF As, Done

LEMMA WithIs ==
  ASSUME NEW x, NEW y, NEW r
  PROVE  /\ r.ok => With(x, y, r).ok /\ With(x, y, r).pos = r.pos /\ With(x, y, r).val = Under(x, y, r.val)
         /\ ~ r.ok => ~ With(x, y, r).ok
  BY DEF With, Done

LEMMA FailIs == \A i : ~ Fail(i).ok /\ Fail(i).pos = i
  BY DEF Fail

LEMMA DoneIs == \A p, v : Done(p, v).ok /\ Done(p, v).pos = p /\ Done(p, v).val = v
  BY DEF Done

\* What a bracket opens: nothing up to the one that closes it, or a list.
Opened(t, f, w, close, k) == IF At(t, k) = close THEN Done(k + 1, <<>>) ELSE f[<<w, k>>]

Encloses(t, m, w, close, i, k, r) ==
  /\ r.pos - 1 \in (i + 1) .. Len(t) /\ t[r.pos - 1] = close
  /\ \/ AllWhite(t, i + 1, r.pos - 2) /\ r.val = <<>>
     \/ At(t, k) # close /\ r.val \in m[<<w, i + 1, r.pos - 2>>]

LEMMA ClosedSound ==
  ASSUME NEW C, NEW t \in Seq(C), End \notin C, NEW i \in 1 .. Len(t), NEW f, NEW m,
         NEW w, NEW close, close # End,
         SoundList(t, f, m, w, close, SkipWhitespace(t, i + 1)),
         Opened(t, f, w, close, SkipWhitespace(t, i + 1)).ok,
         Opened(t, f, w, close, SkipWhitespace(t, i + 1)).pos \in Nat
  PROVE  Encloses(t, m, w, close, i, SkipWhitespace(t, i + 1), Opened(t, f, w, close, SkipWhitespace(t, i + 1)))
<1> DEFINE n == Len(t)
           k == SkipWhitespace(t, i + 1)
           r == Opened(t, f, w, close, k)
<1>1. n \in Nat /\ i \in Nat /\ i + 1 \in 1 .. (n + 1)
  OBVIOUS
<1>2. /\ k \in (i + 1) .. (n + 1) /\ AllWhite(t, i + 1, k - 1)
      /\ k <= n => At(t, k) = t[k]
      /\ At(t, k) = End <=> k > n
  BY <1>1, Skipped
<1>3. SoundList(t, f, m, w, close, k) /\ r.ok /\ r.pos \in Nat
  OBVIOUS
<1> HIDE DEF k, r
<1> SUFFICES Encloses(t, m, w, close, i, k, r)
  BY DEF k, r
<1>4. CASE At(t, k) = close
  <2>1. r.pos = k + 1 /\ r.val = <<>>
    BY <1>4, DoneIs DEF r, Opened
  <2>2. k <= n /\ r.pos - 1 = k /\ r.pos - 2 = k - 1
    BY <1>2, <1>4, <2>1
  <2> QED
    BY <1>1, <1>2, <1>4, <2>1, <2>2 DEF Encloses
<1>5. CASE At(t, k) # close
  <2>1. r = f[<<w, k>>] /\ r.ok
    BY <1>3, <1>5 DEF r, Opened
  <2>2. /\ r.pos - 1 \in (k + 1) .. n /\ t[r.pos - 1] = close
        /\ \A h \in 1 .. k : AllWhite(t, h, k - 1) => r.val \in m[<<w, h, r.pos - 2>>]
    BY <1>3, <2>1 DEF SoundList
  <2>3. i + 1 \in 1 .. k /\ r.pos - 1 \in (i + 1) .. n
    <3>1. k \in Nat /\ i + 1 <= k
      BY <1>1, <1>2
    <3> QED
      BY <1>1, <1>3, <2>2, <3>1
  <2>4. r.val \in m[<<w, i + 1, r.pos - 2>>]
    BY <1>2, <2>2, <2>3
  <2> QED
    BY <1>5, <2>2, <2>3, <2>4 DEF Encloses
<1> QED
  BY <1>4, <1>5

LEMMA ValueSound ==
  ASSUME NEW C, NEW t \in Seq(C), End \notin C, NEW i \in 1 .. (Len(t) + 1), NEW f, NEW m,
         IsParser(t, f), IsGrammar(t, m), SoundFrom(t, f, m, i)
  PROVE  SoundValue(t, f, m, i)
<1> DEFINE n == Len(t)
           c == At(t, i)
           r == f[<<"value", i>>]
           k == SkipWhitespace(t, i + 1)
           ra == Opened(t, f, "elements", "]", k)
           ro == Opened(t, f, "members", "}", k)
<1>1. n \in Nat /\ i \in Nat /\ i # 0 /\ (c = End <=> i > n) /\ (i <= n => c = t[i])
  BY Character
<1>2. r = IF c = Quote THEN As("string", ExtractString(t, i + 1))
          ELSE IF c \in DOMAIN Literal THEN Done(i + 1, Literal[c])
          ELSE IF c \in Digits \cup {"-"} THEN ParseNumber(t, i)
          ELSE IF c = "[" THEN As("array", ra)
          ELSE IF c = "{" THEN As("object", ro)
          ELSE Fail(i)
  BY Zenon DEF IsParser, ValueAt, Opened
<1>3. Reads(t, r, i)
  BY DEF IsParser, Parts
<1> SUFFICES ASSUME r.ok
             PROVE  /\ r.pos - 1 \in i .. n /\ t[i] \notin White
                    /\ r.val \in m[<<"value", i, r.pos - 1>>]
  BY DEF SoundValue
<1> DEFINE j == r.pos - 1
<1>4. j \in i .. n /\ r.pos \in Nat
  <2> HIDE DEF r
  <2> QED
    BY <1>1, <1>3 DEF Reads
<1>5. i <= n /\ c = t[i] /\ i \in 1 .. n /\ j \in 0 .. n
  <2> HIDE DEF j
  <2> QED
    BY <1>1, <1>4
<1>6. /\ \/ c = Quote \/ c \in DOMAIN Literal \/ c \in Digits \cup {"-"} \/ c = "[" \/ c = "{"
      /\ t[i] \notin White
  <2>1. c = Quote \/ c \in DOMAIN Literal \/ c \in Digits \cup {"-"} \/ c = "[" \/ c = "{"
    BY <1>2, FailIs
  <2>2. c \notin White
    BY <2>1, Blanks
  <2> QED
    BY <1>5, <2>1, <2>2
<1>7. m[<<"value", i, j>>] = Value(t, m, i, j)
  BY <1>5 DEF IsGrammar
<1> SUFFICES r.val \in Value(t, m, i, j)
  BY <1>4, <1>6, <1>7
<1> HIDE DEF r, c, ra, ro
<1>8. CASE c = Quote
  <2> DEFINE s == ExtractString(t, i + 1)
  <2>1. r = As("string", s)
    BY <1>2, <1>8
  <2>2. s.ok /\ r.pos = s.pos /\ r.val = <<"string", s.val>>
    BY <2>1, AsIs
  <2>3. i + 1 \in 1 .. (n + 1)
    BY <1>5
  <2>4. s.pos - 1 \in (i + 1) .. n /\ At(t, s.pos - 1) = Quote /\ s.val \in Unquoted(t, i + 1, s.pos - 2)
    BY <2>2, <2>3, StringSound
  <2> HIDE DEF s
  <2>5. j \in (i + 1) .. n /\ At(t, j) = Quote /\ s.pos - 2 = j - 1
    BY <1>4, <2>2, <2>4
  <2>6. i < j /\ t[j] = Quote /\ j \in Nat
    BY <1>1, <2>5, Character
  <2> HIDE DEF j
  <2>7. s.val \in Unquoted(t, i + 1, j - 1)
    BY <2>4, <2>5
  <2> QED
    BY <1>5, <1>8, <2>2, <2>6, <2>7, InValue DEF IsString
<1>9. CASE c # Quote /\ c \in DOMAIN Literal
  <2>1. r = Done(i + 1, Literal[c])
    BY <1>2, <1>9
  <2>2. r.pos = i + 1 /\ r.val = Literal[c]
    BY <2>1, DoneIs
  <2>3. j = i
    BY <1>1, <2>2
  <2> QED
    BY <1>5, <1>9, <2>2, <2>3, InValue DEF IsLiteral
<1>10. CASE c # Quote /\ c \notin DOMAIN Literal /\ c \in Digits \cup {"-"}
  <2>1. r = ParseNumber(t, i)
    BY <1>2, <1>10
  <2>2. r.val \in Numbers(t, i, j)
    BY <1>5, <1>10, <2>1, NumberSound DEF c
  <2>3. i <= j
    BY <1>4, <1>1
  <2> QED
    BY <1>5, <1>10, <2>2, <2>3, InValue DEF IsNumeric
<1>11. i + 1 \in 1 .. (n + 1) /\ k \in (i + 1) .. (n + 1) /\ At(t, k) \notin White
  <2>1. i + 1 \in 1 .. (n + 1)
    BY <1>5
  <2> QED
    BY <2>1, Skipped
<1>12. /\ SoundList(t, f, m, "elements", "]", k)
       /\ SoundList(t, f, m, "members", "}", k)
  <2> HIDE DEF k
  <2> QED
    BY <1>1, <1>11 DEF SoundFrom
<1>13. CASE c = "["
  <2>1. r = As("array", ra)
    BY <1>2, <1>13, Classes
  <2>2. ra.ok /\ r.pos = ra.pos /\ r.val = <<"array", ra.val>>
    BY <2>1, AsIs
  <2>3. /\ ra.pos - 1 \in (i + 1) .. n /\ t[ra.pos - 1] = "]"
        /\ \/ AllWhite(t, i + 1, ra.pos - 2) /\ ra.val = <<>>
           \/ ra.val \in m[<<"elements", i + 1, ra.pos - 2>>]
    <3>1. Encloses(t, m, "elements", "]", i, k, ra)
      BY <1>4, <1>5, <1>12, <2>2, Brackets, ClosedSound DEF ra
    <3> QED
      BY <3>1 DEF Encloses
  <2>4. i < j /\ t[j] = "]" /\ ra.pos - 2 = j - 1
    BY <1>1, <1>4, <2>2, <2>3
  <2> HIDE DEF j
  <2>5. IsArray(t, m, i, j, r.val)
    BY <1>5, <1>13, <2>2, <2>3, <2>4 DEF IsArray
  <2> QED
    BY <2>5, InValue
<1>14. CASE c = "{"
  <2>1. r = As("object", ro)
    BY <1>2, <1>14, Classes
  <2>2. ro.ok /\ r.pos = ro.pos /\ r.val = <<"object", ro.val>>
    BY <2>1, AsIs
  <2>3. /\ ro.pos - 1 \in (i + 1) .. n /\ t[ro.pos - 1] = "}"
        /\ \/ AllWhite(t, i + 1, ro.pos - 2) /\ ro.val = <<>>
           \/ At(t, k) # "}" /\ ro.val \in m[<<"members", i + 1, ro.pos - 2>>]
    <3>1. Encloses(t, m, "members", "}", i, k, ro)
      BY <1>4, <1>5, <1>12, <2>2, Brackets, ClosedSound DEF ro
    <3> QED
      BY <3>1 DEF Encloses
  <2>4. i < j /\ t[j] = "}" /\ ro.pos - 2 = j - 1 /\ j - 1 \in 0 .. n
    <3>1. j \in (i + 1) .. n
      BY <2>2, <2>3
    <3>2. t[j] = "}"
      BY <2>2, <2>3
    <3>3. n \in Nat /\ i \in Nat
      BY <1>1
    <3>4. ro.pos - 2 = j - 1
      BY <1>4, <2>2
    <3>5. j - 1 \in 0 .. n /\ i < j
      <4> HIDE DEF j, n
      <4> QED
        BY <3>1, <3>3
    <3> QED
      BY <3>2, <3>4, <3>5
  <2> HIDE DEF j
  <2>5. ASSUME At(t, k) # "}", NEW a \in Fronts(t, i + 1, j - 1) PROVE t[a] # "}"
    BY <1>11, <2>4, <2>5, FirstOf
  <2>6. IsObject(t, m, i, j, r.val)
    BY <1>5, <1>14, <2>2, <2>3, <2>4, <2>5 DEF IsObject
  <2> QED
    BY <2>6, InValue
<1> QED
  BY <1>6, <1>8, <1>9, <1>10, <1>13, <1>14

LEMMA ElementsSound ==
  ASSUME NEW C, NEW t \in Seq(C), End \notin C, NEW i \in 1 .. (Len(t) + 1), NEW f, NEW m,
         IsParser(t, f), IsGrammar(t, m), SoundFrom(t, f, m, i), SoundValue(t, f, m, i)
  PROVE  SoundList(t, f, m, "elements", "]", i)
<1> DEFINE n == Len(t)
           r == f[<<"elements", i>>]
           v == f[<<"value", i>>]
           b == v.pos - 1
           next == SkipWhitespace(t, v.pos)
           e == SkipWhitespace(t, next + 1)
           rest == f[<<"elements", e>>]
<1>1. n \in Nat /\ i \in Nat /\ i # 0
  OBVIOUS
<1>2. r = IF ~ v.ok THEN v
          ELSE IF At(t, next) = "]" THEN Done(next + 1, <<v.val>>)
          ELSE IF At(t, next) # Comma THEN Fail(next)
          ELSE Ahead(v.val, rest)
  BY DEF IsParser, ElementsAt
<1>3. Reads(t, v, i) /\ Reads(t, r, i)
  BY DEF IsParser, Parts
<1> SUFFICES ASSUME r.ok
             PROVE  /\ r.pos - 1 \in (i + 1) .. n /\ t[r.pos - 1] = "]"
                    /\ \A h \in 1 .. i : AllWhite(t, h, i - 1) => r.val \in m[<<"elements", h, r.pos - 2>>]
  BY DEF SoundList
<1>4. v.ok
  BY <1>2
<1>5. b \in i .. n /\ t[i] \notin White /\ v.val \in m[<<"value", i, b>>]
  BY <1>4 DEF SoundValue
<1>6. v.pos \in 1 .. (n + 1) /\ v.pos = b + 1 /\ b \in Nat
  <2>1. v.pos \in i .. (n + 1) /\ v.pos > i
    BY <1>3, <1>4 DEF Reads
  <2> HIDE DEF v
  <2> QED
    BY <1>1, <2>1
<1> HIDE DEF r, v, b
<1>7. /\ next \in (b + 1) .. (n + 1) /\ AllWhite(t, b + 1, next - 1)
      /\ next <= n => At(t, next) = t[next]
      /\ At(t, next) = End <=> next > n
  BY <1>6, Skipped
<1> HIDE DEF next
<1>8. next \in Nat /\ i < next /\ b <= next - 1 /\ next - 1 \in Nat
  BY <1>1, <1>5, <1>6, <1>7
<1>9. At(t, next) # End => next <= n /\ At(t, next) = t[next]
  <2>1. n \in Nat /\ next \in Nat /\ (At(t, next) = End <=> next > n)
    BY <1>1, <1>7, <1>8
  <2>2. next <= n => At(t, next) = t[next]
    BY <1>7
  <2> HIDE DEF n
  <2> QED
    BY <2>1, <2>2
<1>10. ASSUME NEW h \in 1 .. i, AllWhite(t, h, i - 1)
      PROVE  v.val \in Padded(t, m, h, next - 1)
  <2>1. h \in Nat /\ h <= i /\ i <= b
    BY <1>1, <1>5
  <2> QED
    BY <1>1, <1>5, <1>6, <1>7, <1>8, <1>10, <2>1, Place
<1>11. CASE At(t, next) = "]"
  <2>1. r = Done(next + 1, <<v.val>>)
    BY <1>2, <1>4, <1>11
  <2>2. r.pos = next + 1 /\ r.val = <<v.val>>
    BY <2>1, DoneIs
  <2>3. next <= n
    BY <1>11, <1>9, Brackets
  <2>4. r.pos - 1 = next /\ r.pos - 2 = next - 1 /\ next \in (i + 1) .. n /\ next - 1 \in 0 .. n
    BY <1>1, <1>8, <2>2, <2>3
  <2>5. ASSUME NEW h \in 1 .. i, AllWhite(t, h, i - 1)
        PROVE  <<v.val>> \in m[<<"elements", h, next - 1>>]
    <3>1. h \in 1 .. (n + 1)
      BY <1>1
    <3>2. m[<<"elements", h, next - 1>>] = Elements(t, m, h, next - 1)
      BY <2>4, <3>1 DEF IsGrammar
    <3>3. v.val \in Padded(t, m, h, next - 1)
      BY <1>10, <2>5
    <3> QED
      BY <3>2, <3>3, InElements
  <2> QED
    BY <1>7, <1>11, <2>2, <2>3, <2>4, <2>5
<1>12. CASE At(t, next) # "]"
  <2>1. At(t, next) = Comma /\ r = Ahead(v.val, rest)
    BY <1>2, <1>4, <1>12, FailIs
  <2>2. rest.ok /\ r.pos = rest.pos /\ r.val = Headed(v.val, rest.val)
    BY <2>1, AheadIs, ZenonT(30) DEF Headed
  <2>3. next <= n /\ t[next] = Comma
    BY <1>9, <2>1, Brackets
  <2>4. next + 1 \in 1 .. (n + 1)
    BY <1>1, <1>8, <2>3
  <2>5. e \in (next + 1) .. (n + 1) /\ AllWhite(t, next + 1, e - 1)
    BY <2>4, Skipped
  <2> HIDE DEF e
  <2>6. e \in (i + 1) .. (n + 1) /\ next + 1 \in 1 .. e
    BY <1>1, <1>8, <2>4, <2>5
  <2>7. SoundList(t, f, m, "elements", "]", e)
    BY <2>6 DEF SoundFrom
  <2>8. /\ rest.pos - 1 \in (e + 1) .. n /\ t[rest.pos - 1] = "]"
        /\ rest.val \in m[<<"elements", next + 1, rest.pos - 2>>]
    BY <2>2, <2>5, <2>6, <2>7 DEF SoundList
  <2> HIDE DEF rest
  <2> DEFINE j == r.pos - 2
  <2>9. r.pos \in Nat
    BY <1>3 DEF Reads
  <2>10. r.pos - 1 \in (e + 1) .. n /\ j \in 0 .. n /\ next < j
    <3>1. r.pos - 1 \in (e + 1) .. n
      BY <2>2, <2>8
    <3>2. e \in Nat /\ next < e
      BY <1>8, <2>5
    <3> QED
      BY <1>1, <1>8, <2>9, <3>1, <3>2
  <2>11. r.pos - 1 \in (i + 1) .. n
    BY <1>1, <2>6, <2>10
  <2>12. ASSUME NEW h \in 1 .. i, AllWhite(t, h, i - 1)
        PROVE  r.val \in m[<<"elements", h, j>>]
    <3> HIDE DEF j
    <3>1. h \in 1 .. (n + 1) /\ next \in h .. j
      BY <1>1, <1>8, <2>10
    <3>2. m[<<"elements", h, j>>] = Elements(t, m, h, j)
      BY <2>10, <3>1 DEF IsGrammar
    <3>3. v.val \in Padded(t, m, h, next - 1)
      BY <1>10, <2>12
    <3>4. next \in Marks(t, h, j, Comma)
      BY <2>3, <3>1 DEF Marks
    <3>5. rest.val \in m[<<"elements", next + 1, j>>]
      BY <2>2, <2>8 DEF j
    <3>6. r.val \in ElementsAround(t, m, h, next, j)
      BY <2>2, <3>3, <3>5, InAround
    <3> QED
      BY <3>2, <3>4, <3>6, InElements
  <2> QED
    BY <2>2, <2>8, <2>11, <2>12
<1> QED
  BY <1>11, <1>12

LEMMA ColonSound ==
  ASSUME NEW C, NEW t \in Seq(C), End \notin C, NEW i \in 1 .. (Len(t) + 1), ReadColon(t, i).ok
  PROVE  LET c == SkipWhitespace(t, i)
             p == ReadColon(t, i).pos
         IN /\ c \in i .. Len(t) /\ t[c] = Colon /\ AllWhite(t, i, c - 1)
            /\ p \in (c + 1) .. (Len(t) + 1) /\ AllWhite(t, c + 1, p - 1)
<1> DEFINE n == Len(t)
           c == SkipWhitespace(t, i)
           e == SkipWhitespace(t, c + 1)
<1>1. /\ c \in i .. (n + 1) /\ AllWhite(t, i, c - 1)
      /\ c <= n => At(t, c) = t[c]
      /\ At(t, c) = End <=> c > n
  BY Skipped
<1>2. ReadColon(t, i) = IF At(t, c) = End THEN Fail(c)
                        ELSE IF At(t, c) = Colon THEN Done(e, Colon) ELSE Fail(c + 1)
  BY DEF ReadColon
<1> HIDE DEF c
<1>3. At(t, c) = Colon /\ ReadColon(t, i).pos = e
  BY <1>2, FailIs, DoneIs
<1>4. n \in Nat /\ c \in Nat
  BY <1>1
<1>5. c <= n
  <2>1. ~ (c > n)
    BY <1>1, <1>3, Brackets
  <2> HIDE DEF n
  <2> QED
    BY <1>4, <2>1
<1>6. c + 1 \in 1 .. (n + 1)
  BY <1>4, <1>5
<1>7. e \in (c + 1) .. (n + 1) /\ AllWhite(t, c + 1, e - 1)
  BY <1>6, Skipped
<1> HIDE DEF e
<1> QED
  BY <1>1, <1>3, <1>4, <1>5, <1>7 DEF c

LEMMA MembersSound ==
  ASSUME NEW C, NEW t \in Seq(C), End \notin C, NEW i \in 1 .. (Len(t) + 1), NEW f, NEW m,
         IsParser(t, f), IsGrammar(t, m), SoundFrom(t, f, m, i), At(t, i) \notin White
  PROVE  SoundList(t, f, m, "members", "}", i)
<1> DEFINE n == Len(t)
           r == f[<<"members", i>>]
           name == ExtractString(t, i + 1)
           q == name.pos - 1
           colon == ReadColon(t, name.pos)
           c == SkipWhitespace(t, name.pos)
           s == colon.pos
           v == f[<<"value", s>>]
           b == v.pos - 1
           next == SkipWhitespace(t, v.pos)
           e == SkipWhitespace(t, next + 1)
           rest == f[<<"members", e>>]
<1>1. n \in Nat /\ i \in Nat /\ i # 0
  OBVIOUS
<1>2. r = IF At(t, i) = End THEN Fail(i)
          ELSE IF ~ name.ok THEN name
          ELSE IF ~ colon.ok THEN colon
          ELSE IF ~ v.ok THEN v
          ELSE IF At(t, next) = "}" THEN Done(next + 1, Under(name.val, v.val, <<>>))
          ELSE IF At(t, next) # Comma THEN Fail(next)
          ELSE With(name.val, v.val, rest)
  BY DEF IsParser, MembersAt
<1>3. Reads(t, r, i)
  BY DEF IsParser, Parts
<1> SUFFICES ASSUME r.ok
             PROVE  /\ r.pos - 1 \in (i + 1) .. n /\ t[r.pos - 1] = "}"
                    /\ \A h \in 1 .. i : AllWhite(t, h, i - 1) => r.val \in m[<<"members", h, r.pos - 2>>]
  BY DEF SoundList
<1> HIDE DEF r
<1>4. At(t, i) # End /\ name.ok /\ colon.ok /\ v.ok
  BY <1>2, FailIs
<1>5. i <= n /\ t[i] \notin White /\ i + 1 \in 1 .. (n + 1)
  <2>1. (At(t, i) = End <=> i > n) /\ (i <= n => At(t, i) = t[i])
    BY <1>1, Character
  <2>2. i <= n
    <3>1. ~ (i > n)
      BY <1>4, <2>1
    <3> HIDE DEF n
    <3> QED
      BY <1>1, <3>1
  <2> QED
    BY <1>1, <2>1, <2>2
<1>6. q \in (i + 1) .. n /\ At(t, q) = Quote /\ name.val \in Unquoted(t, i + 1, q - 1)
  <2>1. q \in (i + 1) .. n /\ At(t, q) = Quote /\ name.val \in Unquoted(t, i + 1, name.pos - 2)
    BY <1>4, <1>5, StringSound
  <2>2. Reads(t, name, i + 1)
    BY <1>5, StringReads
  <2> HIDE DEF name
  <2>3. name.pos - 2 = q - 1
    BY <1>1, <2>2 DEF Reads
  <2> QED
    BY <2>1, <2>3
<1>7. name.pos \in 1 .. (n + 1) /\ name.pos = q + 1 /\ q \in Nat /\ q # 0 /\ t[q] = Quote
  <2>1. Reads(t, name, i + 1)
    BY <1>5, StringReads
  <2> HIDE DEF name
  <2>2. name.pos \in 1 .. (n + 1) /\ name.pos = q + 1
    BY <1>1, <2>1 DEF Reads
  <2> HIDE DEF q
  <2>3. q \in Nat /\ q # 0 /\ q <= n
    BY <1>1, <1>6
  <2> QED
    BY <1>6, <2>2, <2>3, Character
<1> HIDE DEF name, q
<1>8. /\ c \in (q + 1) .. n /\ t[c] = Colon /\ AllWhite(t, q + 1, c - 1)
      /\ s \in (c + 1) .. (n + 1) /\ AllWhite(t, c + 1, s - 1)
  BY <1>4, <1>7, ColonSound
<1> HIDE DEF c, colon, s
<1>9. c \in Nat /\ s \in Nat /\ i < s /\ s \in (i + 1) .. (n + 1) /\ i < q /\ q < c /\ c < s
  BY <1>1, <1>6, <1>7, <1>8
<1>10. SoundValue(t, f, m, s)
  BY <1>9 DEF SoundFrom
<1>11. b \in s .. n /\ t[s] \notin White /\ v.val \in m[<<"value", s, b>>]
  BY <1>4, <1>10 DEF SoundValue
<1>12. v.pos \in 1 .. (n + 1) /\ v.pos = b + 1 /\ b \in Nat
  <2>1. s \in 1 .. (n + 1) /\ "value" \in Parts
    BY <1>1, <1>9 DEF Parts
  <2>2. Reads(t, v, s)
    BY <2>1 DEF IsParser
  <2>3. v.pos \in s .. (n + 1) /\ v.pos > s
    BY <1>4, <2>2 DEF Reads
  <2> HIDE DEF v
  <2> QED
    BY <1>1, <1>9, <2>3
<1> HIDE DEF v, b
<1>13. /\ next \in (b + 1) .. (n + 1) /\ AllWhite(t, b + 1, next - 1)
       /\ next <= n => At(t, next) = t[next]
       /\ At(t, next) = End <=> next > n
  BY <1>12, Skipped
<1> HIDE DEF next
<1>14. next \in Nat /\ c < next /\ s <= b /\ b <= next - 1 /\ next - 1 \in Nat
  BY <1>1, <1>9, <1>11, <1>12, <1>13, SMTT(30)
<1>15. At(t, next) # End => next <= n /\ At(t, next) = t[next]
  <2>1. n \in Nat /\ next \in Nat /\ (At(t, next) = End <=> next > n)
    BY <1>1, <1>13, <1>14
  <2>2. next <= n => At(t, next) = t[next]
    BY <1>13
  <2> HIDE DEF n
  <2> QED
    BY <2>1, <2>2
<1>16. i < c /\ i < next
  BY <1>1, <1>7, <1>9, <1>14
<1>17. v.val \in Padded(t, m, c + 1, next - 1)
  <2>1. c + 1 \in Nat /\ c + 1 <= s
    BY <1>9
  <2> QED
    BY <1>8, <1>9, <1>11, <1>12, <1>13, <1>14, <2>1, Place
<1>18. ASSUME NEW h \in 1 .. i, AllWhite(t, h, i - 1)
       PROVE  name.val \in Keys(t, h, c - 1)
  <2>1. i \in h .. (c - 1) /\ q \in h .. (c - 1) /\ i < q
    BY <1>1, <1>7, <1>9
  <2>2. i \in Fronts(t, h, c - 1)
    BY <1>5, <1>18, <2>1 DEF Fronts
  <2>3. q \in Backs(t, h, c - 1)
    BY <1>8, <2>1 DEF Backs
  <2> QED
    BY <1>6, <1>7, <2>1, <2>2, <2>3, InKeys
<1>19. CASE At(t, next) = "}"
  <2>1. r = Done(next + 1, Under(name.val, v.val, <<>>))
    BY <1>2, <1>4, <1>19
  <2>2. r.pos = next + 1 /\ r.val = Under(name.val, v.val, <<>>)
    BY <2>1, DoneIs
  <2>3. next <= n /\ t[next] = "}"
    BY <1>15, <1>19, Brackets
  <2>4. r.pos - 1 = next /\ r.pos - 2 = next - 1 /\ next \in (i + 1) .. n /\ next - 1 \in 0 .. n
    <3>1. r.pos - 1 = next /\ r.pos - 2 = next - 1
      BY <1>14, <2>2
    <3>2. next <= n /\ n \in Nat
      BY <1>1, <2>3
    <3>3. next \in (i + 1) .. n /\ next - 1 \in 0 .. n
      <4> HIDE DEF n
      <4> QED
        BY <1>1, <1>14, <1>16, <3>2
    <3> QED
      BY <3>1, <3>3
  <2>5. ASSUME NEW h \in 1 .. i, AllWhite(t, h, i - 1)
        PROVE  Under(name.val, v.val, <<>>) \in m[<<"members", h, next - 1>>]
    <3>1. h \in 1 .. (n + 1) /\ c \in h .. (next - 1)
      BY <1>1, <1>9, <1>14, <1>16, <2>4
    <3>2. m[<<"members", h, next - 1>>] = Members(t, m, h, next - 1)
      BY <2>4, <3>1 DEF IsGrammar
    <3>3. c \in Marks(t, h, next - 1, Colon)
      BY <1>8, <3>1 DEF Marks
    <3>4. Under(name.val, v.val, <<>>) \in Member(t, m, h, c, next - 1)
      BY <1>17, <1>18, <2>5 DEF Member
    <3> QED
      BY <3>2, <3>3, <3>4, InMembers
  <2> QED
    BY <2>2, <2>3, <2>4, <2>5
<1>20. CASE At(t, next) # "}"
  <2>1. At(t, next) = Comma /\ r = With(name.val, v.val, rest)
    BY <1>2, <1>4, <1>20, FailIs
  <2>2. rest.ok /\ r.pos = rest.pos /\ r.val = Under(name.val, v.val, rest.val)
    BY <2>1, WithIs
  <2>3. next <= n /\ t[next] = Comma
    BY <1>15, <2>1, Brackets
  <2>4. next + 1 \in 1 .. (n + 1)
    BY <1>1, <1>14, <2>3
  <2>5. e \in (next + 1) .. (n + 1) /\ AllWhite(t, next + 1, e - 1) /\ At(t, e) \notin White
    BY <2>4, Skipped
  <2> HIDE DEF e
  <2>6. e \in (i + 1) .. (n + 1) /\ next + 1 \in 1 .. e
    BY <1>1, <1>14, <1>16, <2>4, <2>5
  <2>7. SoundList(t, f, m, "members", "}", e)
    BY <2>5, <2>6 DEF SoundFrom
  <2>8. /\ rest.pos - 1 \in (e + 1) .. n /\ t[rest.pos - 1] = "}"
        /\ rest.val \in m[<<"members", next + 1, rest.pos - 2>>]
    BY <2>2, <2>5, <2>6, <2>7 DEF SoundList
  <2> HIDE DEF rest
  <2> DEFINE j == r.pos - 2
  <2>9. r.pos \in Nat
    BY <1>3 DEF Reads
  <2>10. r.pos - 1 \in (e + 1) .. n /\ j \in 0 .. n /\ next < j
    <3>1. r.pos - 1 \in (e + 1) .. n
      BY <2>2, <2>8
    <3>2. e \in Nat /\ next < e
      BY <1>14, <2>5
    <3> QED
      BY <1>1, <1>14, <2>9, <3>1, <3>2
  <2>11. r.pos - 1 \in (i + 1) .. n
    BY <1>1, <2>6, <2>10
  <2>12. ASSUME NEW h \in 1 .. i, AllWhite(t, h, i - 1)
        PROVE  r.val \in m[<<"members", h, j>>]
    <3> HIDE DEF j
    <3>1. h \in 1 .. (n + 1) /\ c \in h .. j /\ next \in c .. j
      BY <1>1, <1>9, <1>14, <1>16, <2>10
    <3>2. m[<<"members", h, j>>] = Members(t, m, h, j)
      BY <2>10, <3>1 DEF IsGrammar
    <3>3. c \in Marks(t, h, j, Colon) /\ next \in Marks(t, c, j, Comma)
      BY <1>8, <2>3, <3>1 DEF Marks
    <3>4. rest.val \in m[<<"members", next + 1, j>>]
      BY <2>2, <2>8 DEF j
    <3>5. r.val \in MembersAround(t, m, h, c, next, j)
      BY <1>17, <1>18, <2>2, <2>12, <3>4 DEF MembersAround
    <3> QED
      BY <3>2, <3>3, <3>5, InMembers
  <2> QED
    BY <2>2, <2>8, <2>11, <2>12
<1> QED
  BY <1>19, <1>20

LEMMA ParserSound ==
  ASSUME NEW C, NEW t \in Seq(C), End \notin C, NEW f, NEW m, IsParser(t, f), IsGrammar(t, m)
  PROVE  \A i \in 1 .. (Len(t) + 1) : SoundValue(t, f, m, i)
<1> DEFINE n == Len(t)
           D == 1 .. (n + 1)
           rank == [i \in D |-> n + 1 - i]
           Good(i) == /\ SoundValue(t, f, m, i) /\ SoundList(t, f, m, "elements", "]", i)
                      /\ At(t, i) \notin White => SoundList(t, f, m, "members", "}", i)
           S == {i \in D : Good(i)}
<1>1. rank \in [D -> Nat]
  OBVIOUS
<1>2. ASSUME NEW i \in D, \A k \in D : rank[k] < rank[i] => k \in S PROVE i \in S
  <2>1. ASSUME NEW k \in (i + 1) .. (n + 1) PROVE Good(k)
    <3>1. k \in D /\ rank[k] < rank[i]
      OBVIOUS
    <3> QED
      BY <1>2, <3>1
  <2> HIDE DEF Good
  <2>2. SoundFrom(t, f, m, i)
    BY <2>1 DEF Good, SoundFrom
  <2>3. SoundValue(t, f, m, i)
    BY <2>2, ValueSound
  <2>4. SoundList(t, f, m, "elements", "]", i)
    BY <2>2, <2>3, ElementsSound
  <2>5. At(t, i) \notin White => SoundList(t, f, m, "members", "}", i)
    BY <2>2, MembersSound
  <2> QED
    BY <2>3, <2>4, <2>5 DEF Good
<1>3. \A i \in D : i \in S
  <2> HIDE DEF D, S, rank
  <2> QED
    BY <1>1, <1>2, ByRank
<1> QED
  BY <1>3

-------------------------------------------------------------------------------
(* What the grammar gives a meaning is read, as that. *)

Closing == {Comma, "]", "}", End}
Follow == White \cup Closing

LEMMA ClosingIs ==
  /\ Comma \in Closing /\ "]" \in Closing /\ "}" \in Closing /\ End \in Closing
  /\ \A c \in Closing : c \notin White
  /\ \A c : c \in DOMAIN Literal \/ c = Quote \/ c \in Digits \cup {"-"} \/ c = "[" \/ c = "{" => c \notin Closing
<1>1. Comma \in Closing /\ "]" \in Closing /\ "}" \in Closing /\ End \in Closing
  BY Zenon DEF Closing
<1>2. \A c \in Closing : c \notin White
  BY NotEnd, Solid, Zenon DEF Closing
<1>3. \A c \in Closing : c \notin DOMAIN Literal \cup Digits \cup {Quote, "-", "[", "{", ".", "e", "E"}
  BY Blanks, Zenon DEF Closing
<1>4. ASSUME NEW c, c \in DOMAIN Literal \/ c = Quote \/ c \in Digits \cup {"-"} \/ c = "[" \/ c = "{"
      PROVE  c \notin Closing
  BY <1>3, <1>4, Zenon
<1> QED
  BY <1>1, <1>2, <1>4, Zenon

LEMMA FollowIs == \A c \in Follow : c \notin Digits \cup {".", "e", "E"}
  BY Blanks, Zenon DEF Follow, Closing

CompleteValue(t, f, m, i, j) ==
  \A v \in m[<<"value", i, j>>] : At(t, j + 1) \in Follow => f[<<"value", i>>] = Done(j + 1, v)

CompleteWithin(t, f, m, i, j) == \A a, b \in i .. j : CompleteValue(t, f, m, a, b)

CompleteList(t, f, m, w, close, i, j) ==
  \A v \in m[<<w, i, j>>] :
    At(t, j + 1) = close => f[<<w, SkipWhitespace(t, i)>>] = Done(j + 2, v)

LEMMA ValueSolid ==
  ASSUME NEW C, NEW t \in Seq(C), NEW m, IsGrammar(t, m),
         NEW i \in 1 .. (Len(t) + 1), NEW j \in 0 .. Len(t), NEW v \in m[<<"value", i, j>>]
  PROVE  i <= j /\ t[i] \notin Closing
<1>1. v \in Value(t, m, i, j)
  BY DEF IsGrammar
<1>2. \/ IsLiteral(t, i, j, v) \/ IsString(t, i, j, v) \/ IsNumeric(t, i, j, v)
      \/ IsArray(t, m, i, j, v) \/ IsObject(t, m, i, j, v)
  BY <1>1, InValue
<1>3. i <= j
  <2>1. i \in Int /\ j \in Int
    OBVIOUS
  <2>2. i < j \/ i <= j \/ i = j
    BY <1>2, Zenon DEF IsLiteral, IsString, IsNumeric, IsArray, IsObject
  <2> QED
    BY <2>1, <2>2
<1>4. t[i] \in DOMAIN Literal \/ t[i] = Quote \/ t[i] \in Digits \cup {"-"} \/ t[i] = "[" \/ t[i] = "{"
  BY <1>2, Zenon DEF IsLiteral, IsString, IsNumeric, IsArray, IsObject
<1> QED
  BY <1>3, <1>4, ClosingIs

\* A value between white space is read from its first character up to the mark
\* that follows it.
PaddedRead(t, f, i, k, v) ==
  LET a == SkipWhitespace(t, i)
  IN /\ a \in i .. k /\ t[a] \notin Closing
     /\ \E b \in a .. k : f[<<"value", a>>] = Done(b + 1, v) /\ SkipWhitespace(t, b + 1) = k + 1

LEMMA PaddedComplete ==
  ASSUME NEW C, NEW t \in Seq(C), End \notin C, NEW f, NEW m, IsGrammar(t, m),
         NEW i \in 1 .. (Len(t) + 1), NEW k \in 0 .. Len(t), At(t, k + 1) \in Closing,
         CompleteWithin(t, f, m, i, k), NEW v \in Padded(t, m, i, k)
  PROVE  PaddedRead(t, f, i, k, v)
<1> DEFINE n == Len(t)
<1>1. n \in Nat /\ i \in Nat /\ i # 0 /\ k \in 0 .. n
  OBVIOUS
<1>2. PICK a \in Fronts(t, i, k), b \in Backs(t, i, k) : v \in m[<<"value", a, b>>]
  BY InPadded
<1>3. a \in i .. k /\ SkipWhitespace(t, i) = a
  BY FirstOf
<1>4. At(t, k + 1) \notin White
  BY ClosingIs
<1>5. b \in i .. k /\ SkipWhitespace(t, b + 1) = k + 1 /\ AllWhite(t, b + 1, k)
  <2>1. AllWhite(t, b + 1, k)
    BY DEF Backs
  <2> QED
    BY <1>4, <2>1, BehindLast
<1>6. a \in 1 .. (n + 1) /\ b \in 0 .. n /\ a \in Int /\ b \in Int
  <2> HIDE DEF n
  <2> QED
    BY <1>1, <1>3, <1>5
<1>7. a <= b /\ t[a] \notin Closing
  BY <1>2, <1>6, ValueSolid
<1>8. At(t, b + 1) \in Follow
  <2>1. CASE b = k
    BY <2>1 DEF Follow
  <2>2. CASE b < k
    <3>1. b + 1 \in Nat /\ b + 1 # 0 /\ b + 1 <= n /\ b + 1 \in (b + 1) .. k
      <4> HIDE DEF n
      <4> QED
        BY <1>1, <1>6, <2>2
    <3>2. t[b + 1] \in White
      BY <1>5, <3>1 DEF AllWhite
    <3>3. At(t, b + 1) = t[b + 1]
      BY <3>1, Character
    <3> QED
      BY <3>2, <3>3 DEF Follow
  <2>3. b \in Int /\ k \in Int /\ b <= k
    BY <1>1, <1>5, <1>6
  <2> QED
    BY <2>1, <2>2, <2>3
<1>9. f[<<"value", a>>] = Done(b + 1, v)
  BY <1>2, <1>3, <1>5, <1>8 DEF CompleteWithin, CompleteValue
<1>10. b \in a .. k
  BY <1>1, <1>3, <1>5, <1>6, <1>7
<1> QED
  BY <1>3, <1>5, <1>7, <1>9, <1>10 DEF PaddedRead

\* A mark of the text stands where the parser looks for it.
LEMMA MarkIs ==
  ASSUME NEW C, NEW t \in Seq(C), End \notin C, NEW i \in 1 .. (Len(t) + 1), NEW j \in 0 .. Len(t),
         NEW x, NEW c \in Marks(t, i, j, x)
  PROVE  c \in i .. j /\ c - 1 \in 0 .. Len(t) /\ c + 1 \in 1 .. (Len(t) + 1) /\ (c - 1) + 1 = c
         /\ At(t, c) = x
<1> DEFINE n == Len(t)
<1>1. c \in i .. j /\ t[c] = x /\ n \in Nat
  BY DEF Marks
<1>2. c \in Nat /\ c # 0 /\ c <= n /\ c - 1 \in 0 .. n /\ c + 1 \in 1 .. (n + 1) /\ (c - 1) + 1 = c
  BY <1>1
<1>3. At(t, c) = t[c]
  BY <1>2, Character
<1> QED
  BY <1>1, <1>2, <1>3

LEMMA ElementsComplete ==
  ASSUME NEW C, NEW t \in Seq(C), End \notin C, NEW f, NEW m, IsParser(t, f), IsGrammar(t, m),
         NEW i \in 1 .. (Len(t) + 1), NEW j \in 0 .. Len(t),
         CompleteWithin(t, f, m, i, j),
         \A k \in i .. j : CompleteList(t, f, m, "elements", "]", k + 1, j)
  PROVE  CompleteList(t, f, m, "elements", "]", i, j)
<1> DEFINE n == Len(t)
           a == SkipWhitespace(t, i)
           r == f[<<"elements", a>>]
<1>1. n \in Nat /\ i \in Nat /\ i # 0 /\ j \in Nat /\ j <= n
  OBVIOUS
<1> SUFFICES ASSUME NEW v \in m[<<"elements", i, j>>], At(t, j + 1) = "]"
             PROVE  r = Done(j + 2, v)
  BY DEF CompleteList
<1>2. a \in 1 .. (n + 1)
  <2>1. a \in i .. (n + 1)
    BY Skipped
  <2> HIDE DEF a
  <2> QED
    BY <1>1, <2>1
<1>3. ASSUME NEW x, NEW b, NEW c, f[<<"value", a>>] = Done(b + 1, x), SkipWhitespace(t, b + 1) = c
      PROVE  /\ At(t, c) = "]" => r = Done(c + 1, <<x>>)
             /\ At(t, c) = Comma => r = Ahead(x, f[<<"elements", SkipWhitespace(t, c + 1)>>])
  <2> DEFINE value == f[<<"value", a>>]
             next == SkipWhitespace(t, value.pos)
  <2>1. value.ok /\ value.pos = b + 1 /\ value.val = x /\ next = c
    BY <1>3, DoneIs
  <2>2. r = IF ~ value.ok THEN value
            ELSE IF At(t, next) = "]" THEN Done(next + 1, <<value.val>>)
            ELSE IF At(t, next) # Comma THEN Fail(next)
            ELSE Ahead(value.val, f[<<"elements", SkipWhitespace(t, next + 1)>>])
    BY <1>2 DEF IsParser, ElementsAt
  <2> HIDE DEF value, next, r
  <2> QED
    BY <2>1, <2>2, Brackets
<1> HIDE DEF r
<1>4. v \in Elements(t, m, i, j)
  BY DEF IsGrammar
<1>5. CASE \E x \in Padded(t, m, i, j) : v = <<x>>
  <2>1. PICK x \in Padded(t, m, i, j) : v = <<x>>
    BY <1>5
  <2>2. At(t, j + 1) \in Closing
    BY ClosingIs
  <2>3. PICK b : f[<<"value", a>>] = Done(b + 1, x) /\ SkipWhitespace(t, b + 1) = j + 1
    <3>1. PaddedRead(t, f, i, j, x)
      BY <2>2, PaddedComplete
    <3> QED
      BY <3>1, Zenon DEF PaddedRead
  <2>4. r = Done((j + 1) + 1, v)
    BY <1>3, <2>1, <2>3
  <2>5. (j + 1) + 1 = j + 2
    BY <1>1
  <2> QED
    BY <2>4, <2>5
<1>6. CASE \E c \in Marks(t, i, j, Comma) : v \in ElementsAround(t, m, i, c, j)
  <2>1. PICK c \in Marks(t, i, j, Comma) : v \in ElementsAround(t, m, i, c, j)
    BY <1>6
  <2>2. PICK x \in Padded(t, m, i, c - 1), rest \in m[<<"elements", c + 1, j>>] : v = Headed(x, rest)
    BY <2>1, InAround
  <2>3. c \in i .. j /\ c - 1 \in 0 .. n /\ c + 1 \in 1 .. (n + 1) /\ (c - 1) + 1 = c /\ At(t, c) = Comma
    BY MarkIs
  <2>4. CompleteWithin(t, f, m, i, c - 1)
    <3>1. \A p \in i .. (c - 1) : p \in i .. j
      BY <1>1, <2>3
    <3> QED
      BY <3>1 DEF CompleteWithin
  <2>5. PICK b : f[<<"value", a>>] = Done(b + 1, x) /\ SkipWhitespace(t, b + 1) = c
    <3>1. At(t, (c - 1) + 1) \in Closing
      BY <2>3, ClosingIs
    <3>2. PaddedRead(t, f, i, c - 1, x)
      BY <2>3, <2>4, <3>1, PaddedComplete
    <3>3. PICK b : f[<<"value", a>>] = Done(b + 1, x) /\ SkipWhitespace(t, b + 1) = (c - 1) + 1
      BY <3>2, Zenon DEF PaddedRead
    <3> QED
      BY <2>3, <3>3
  <2>6. r = Ahead(x, f[<<"elements", SkipWhitespace(t, c + 1)>>])
    BY <1>3, <2>3, <2>5
  <2>7. f[<<"elements", SkipWhitespace(t, c + 1)>>] = Done(j + 2, rest)
    BY <2>3 DEF CompleteList
  <2>8. Ahead(x, Done(j + 2, rest)) = Done(j + 2, Headed(x, rest))
    BY DEF Ahead, Done, Headed
  <2> QED
    BY <2>2, <2>6, <2>7, <2>8
<1> QED
  BY <1>4, <1>5, <1>6, InElements

LEMMA CompleteInside ==
  ASSUME NEW t, NEW f, NEW m, NEW i \in Nat, NEW j \in Nat, CompleteWithin(t, f, m, i, j),
         NEW a \in Nat, NEW b \in Nat, i <= a, b <= j
  PROVE  CompleteWithin(t, f, m, a, b)
<1>1. \A k \in a .. b : k \in i .. j
  OBVIOUS
<1> QED
  BY <1>1, Zenon DEF CompleteWithin

\* A key is read from its first character up to its quote, and on to the value
\* behind the colon.
KeyRead(t, i, c, k) ==
  LET a == SkipWhitespace(t, i)
  IN /\ a \in i .. Len(t) /\ At(t, a) # End
     /\ \E q : /\ ExtractString(t, a + 1) = Done(q + 1, k)
               /\ ReadColon(t, q + 1) = Done(SkipWhitespace(t, c + 1), Colon)

LEMMA KeyComplete ==
  ASSUME NEW C, NEW t \in Seq(C), End \notin C, NEW i \in 1 .. (Len(t) + 1), NEW j \in 0 .. Len(t),
         NEW c \in Marks(t, i, j, Colon), NEW k \in Keys(t, i, c - 1)
  PROVE  KeyRead(t, i, c, k)
<1> DEFINE n == Len(t)
<1>1. c \in i .. j /\ c - 1 \in 0 .. n /\ c + 1 \in 1 .. (n + 1) /\ (c - 1) + 1 = c /\ At(t, c) = Colon
  BY MarkIs
<1>2. PICK a \in Fronts(t, i, c - 1), q \in Backs(t, i, c - 1) :
        a < q /\ t[q] = Quote /\ k \in Unquoted(t, a + 1, q - 1)
  BY InKeys
<1>3. a \in i .. (c - 1) /\ SkipWhitespace(t, i) = a
  BY <1>1, FirstOf
<1>4. q \in i .. (c - 1) /\ SkipWhitespace(t, q + 1) = c
  <2>1. At(t, (c - 1) + 1) \notin White
    BY <1>1, Solid
  <2> QED
    BY <1>1, <2>1, BehindLast
<1>5. n \in Nat /\ i \in Nat /\ i # 0 /\ j \in Nat /\ j <= n /\ c \in Nat /\ c <= j
  BY <1>1
<1>6. a \in i .. n /\ a \in Nat /\ a # 0 /\ a <= n /\ q \in Nat /\ q # 0 /\ q <= n
  <2> HIDE DEF n
  <2> QED
    BY <1>3, <1>4, <1>5
<1>7. At(t, a) # End /\ At(t, q) = Quote
  <2>1. ~ (a > n)
    BY <1>5, <1>6
  <2>2. At(t, a) = End <=> a > n
    BY <1>6, Character
  <2>3. At(t, q) = t[q]
    BY <1>6, Character
  <2> QED
    BY <1>2, <2>1, <2>2, <2>3
<1>8. ExtractString(t, a + 1) = Done(q + 1, k)
  <2>1. a + 1 \in 1 .. (n + 1) /\ q - 1 \in 0 .. n /\ (q - 1) + 1 = q /\ (q - 1) + 2 = q + 1
    <3> HIDE DEF n
    <3> QED
      BY <1>5, <1>6
  <2>2. ExtractString(t, a + 1) = Done((q - 1) + 2, k)
    BY <1>2, <1>7, <2>1, StringComplete
  <2> QED
    BY <2>1, <2>2
<1>9. ReadColon(t, q + 1) = Done(SkipWhitespace(t, c + 1), Colon)
  BY <1>1, <1>4, Brackets DEF ReadColon
<1> QED
  BY <1>3, <1>6, <1>7, <1>8, <1>9 DEF KeyRead

Brace == "}"

LEMMA BraceIs == Brace # Comma /\ Brace # End /\ Brace \notin White /\ Brace \in Closing
BY Zenon DEF Brace, Comma, End, White, Closing

LEMMA MembersComplete ==
  ASSUME NEW C, NEW t \in Seq(C), End \notin C, NEW f, NEW m, IsParser(t, f), IsGrammar(t, m),
         NEW i \in 1 .. (Len(t) + 1), NEW j \in 0 .. Len(t),
         CompleteWithin(t, f, m, i, j),
         \A k \in i .. j : CompleteList(t, f, m, "members", Brace, k + 1, j)
  PROVE  CompleteList(t, f, m, "members", Brace, i, j)
<1> DEFINE n == Len(t)
           a == SkipWhitespace(t, i)
           r == f[<<"members", a>>]
<1>1. n \in Nat /\ i \in Nat /\ i # 0 /\ j \in Nat /\ j <= n
  OBVIOUS
<1> SUFFICES ASSUME NEW v \in m[<<"members", i, j>>], At(t, j + 1) = Brace
             PROVE  r = Done(j + 2, v)
  BY DEF CompleteList
<1>2. a \in 1 .. (n + 1)
  <2>1. a \in i .. (n + 1)
    BY Skipped
  <2> HIDE DEF a
  <2> QED
    BY <1>1, <2>1
<1>3. ASSUME NEW c \in Marks(t, i, j, Colon), NEW k \in Keys(t, i, c - 1), NEW x, NEW b, NEW d,
             f[<<"value", SkipWhitespace(t, c + 1)>>] = Done(b + 1, x), SkipWhitespace(t, b + 1) = d
      PROVE  /\ At(t, d) = Brace => r = Done(d + 1, Under(k, x, <<>>))
             /\ At(t, d) = Comma => r = With(k, x, f[<<"members", SkipWhitespace(t, d + 1)>>])
  <2>1. KeyRead(t, i, c, k)
    BY KeyComplete
  <2>2. PICK q : /\ At(t, a) # End /\ ExtractString(t, a + 1) = Done(q + 1, k)
                 /\ ReadColon(t, q + 1) = Done(SkipWhitespace(t, c + 1), Colon)
    BY <2>1, Zenon DEF KeyRead
  <2> DEFINE name == ExtractString(t, a + 1)
             colon == ReadColon(t, name.pos)
             value == f[<<"value", colon.pos>>]
             next == SkipWhitespace(t, value.pos)
  <2>3. name.ok /\ name.pos = q + 1 /\ name.val = k
    BY <2>2, DoneIs
  <2>4. colon.ok /\ colon.pos = SkipWhitespace(t, c + 1)
    BY <2>2, <2>3, DoneIs
  <2>5. value.ok /\ value.pos = b + 1 /\ value.val = x /\ next = d
    BY <1>3, <2>4, DoneIs
  <2>6. r = IF At(t, a) = End THEN Fail(a)
            ELSE IF ~ name.ok THEN name
            ELSE IF ~ colon.ok THEN colon
            ELSE IF ~ value.ok THEN value
            ELSE IF At(t, next) = Brace THEN Done(next + 1, Under(name.val, value.val, <<>>))
            ELSE IF At(t, next) # Comma THEN Fail(next)
            ELSE With(name.val, value.val, f[<<"members", SkipWhitespace(t, next + 1)>>])
    BY <1>2, Zenon DEF IsParser, MembersAt, Brace
  <2> HIDE DEF name, colon, value, next, r
  <2>7. CASE At(t, d) = Brace
    BY <2>2, <2>3, <2>4, <2>5, <2>6, <2>7, BraceIs
  <2>8. CASE At(t, d) = Comma
    BY <2>2, <2>3, <2>4, <2>5, <2>6, <2>8, BraceIs
  <2> QED
    BY <2>7, <2>8, BraceIs
<1> HIDE DEF r
<1>4. v \in Members(t, m, i, j)
  BY DEF IsGrammar
<1>5. PICK c \in Marks(t, i, j, Colon) :
        v \in Member(t, m, i, c, j) \/ \E d \in Marks(t, c, j, Comma) : v \in MembersAround(t, m, i, c, d, j)
  BY <1>4, InMembers
<1>6. c \in i .. j /\ c - 1 \in 0 .. n /\ c + 1 \in 1 .. (n + 1)
  BY MarkIs
<1>7. c \in 1 .. (n + 1) /\ c \in Nat /\ i <= c /\ c + 1 \in Nat /\ i <= c + 1
  <2> HIDE DEF n
  <2> QED
    BY <1>1, <1>6
<1>8. CASE v \in Member(t, m, i, c, j)
  <2>1. PICK k \in Keys(t, i, c - 1), x \in Padded(t, m, c + 1, j) : v = Under(k, x, <<>>)
    BY <1>8 DEF Member
  <2>2. At(t, j + 1) \in Closing
    BY BraceIs
  <2>3. CompleteWithin(t, f, m, c + 1, j)
    BY <1>1, <1>7, CompleteInside
  <2>4. PaddedRead(t, f, c + 1, j, x)
    BY <1>6, <2>2, <2>3, PaddedComplete
  <2>5. PICK b : f[<<"value", SkipWhitespace(t, c + 1)>>] = Done(b + 1, x) /\ SkipWhitespace(t, b + 1) = j + 1
    BY <2>4, Zenon DEF PaddedRead
  <2>6. r = Done((j + 1) + 1, v)
    BY <1>3, <2>1, <2>5
  <2>7. (j + 1) + 1 = j + 2
    BY <1>1
  <2> QED
    BY <2>6, <2>7
<1>9. CASE \E d \in Marks(t, c, j, Comma) : v \in MembersAround(t, m, i, c, d, j)
  <2>1. PICK d \in Marks(t, c, j, Comma) : v \in MembersAround(t, m, i, c, d, j)
    BY <1>9
  <2>2. PICK k \in Keys(t, i, c - 1), x \in Padded(t, m, c + 1, d - 1), o \in m[<<"members", d + 1, j>>] :
          v = Under(k, x, o)
    BY <2>1, SMTT(30) DEF MembersAround
  <2>3. d \in c .. j /\ d - 1 \in 0 .. n /\ d + 1 \in 1 .. (n + 1) /\ (d - 1) + 1 = d /\ At(t, d) = Comma
    BY <1>7, MarkIs
  <2>4. d - 1 \in Nat /\ d - 1 <= j /\ d \in i .. j
    <3>1. d \in c .. j /\ c \in Nat /\ i \in Nat /\ i # 0 /\ j \in Nat /\ i <= c
      BY <1>1, <1>7, <2>3
    <3> QED
      BY <3>1
  <2>5. CompleteWithin(t, f, m, c + 1, d - 1)
    BY <1>1, <1>7, <2>4, CompleteInside
  <2>6. At(t, (d - 1) + 1) \in Closing
    BY <2>3, ClosingIs
  <2>7. PaddedRead(t, f, c + 1, d - 1, x)
    BY <1>6, <2>3, <2>5, <2>6, PaddedComplete
  <2>8. PICK b : /\ f[<<"value", SkipWhitespace(t, c + 1)>>] = Done(b + 1, x)
                 /\ SkipWhitespace(t, b + 1) = (d - 1) + 1
    BY <2>7, Zenon DEF PaddedRead
  <2>9. r = With(k, x, f[<<"members", SkipWhitespace(t, d + 1)>>])
    BY <1>3, <2>3, <2>8
  <2>10. f[<<"members", SkipWhitespace(t, d + 1)>>] = Done(j + 2, o)
    BY <2>4 DEF CompleteList
  <2>11. With(k, x, Done(j + 2, o)) = Done(j + 2, Under(k, x, o))
    BY DEF With, Done
  <2> QED
    BY <2>2, <2>9, <2>10, <2>11
<1> QED
  BY <1>5, <1>8, <1>9

\* Elements and members begin with something.
LEMMA ElementsSolid ==
  ASSUME NEW C, NEW t \in Seq(C), End \notin C, NEW m, IsGrammar(t, m),
         NEW i \in 1 .. (Len(t) + 1), NEW j \in 0 .. Len(t), NEW v \in m[<<"elements", i, j>>]
  PROVE  At(t, SkipWhitespace(t, i)) \notin Closing
<1>1. v \in Elements(t, m, i, j)
  BY DEF IsGrammar
<1>2. PICK k \in 0 .. Len(t) : \E x : x \in Padded(t, m, i, k)
  <2>1. CASE \E x \in Padded(t, m, i, j) : v = <<x>>
    BY <2>1
  <2>2. CASE \E c \in Marks(t, i, j, Comma) : v \in ElementsAround(t, m, i, c, j)
    <3>1. PICK c \in Marks(t, i, j, Comma) : v \in ElementsAround(t, m, i, c, j)
      BY <2>2
    <3>2. PICK x : x \in Padded(t, m, i, c - 1)
      BY <3>1, InAround
    <3>3. c - 1 \in 0 .. Len(t)
      BY MarkIs
    <3> QED
      BY <3>2, <3>3
  <2> QED
    BY <1>1, <2>1, <2>2, InElements
<1>3. PICK a \in Fronts(t, i, k), b \in Backs(t, i, k) : \E x : x \in m[<<"value", a, b>>]
  BY <1>2, InPadded
<1>4. a \in i .. k /\ SkipWhitespace(t, i) = a /\ At(t, a) = t[a]
  BY FirstOf
<1>5. a \in 1 .. (Len(t) + 1) /\ b \in 0 .. Len(t)
  <2>1. b \in i .. k
    BY DEF Backs
  <2> QED
    BY <1>4, <2>1
<1>6. t[a] \notin Closing
  BY <1>3, <1>5, ValueSolid
<1> QED
  BY <1>4, <1>6

LEMMA MembersSolid ==
  ASSUME NEW C, NEW t \in Seq(C), End \notin C, NEW m, IsGrammar(t, m),
         NEW i \in 1 .. (Len(t) + 1), NEW j \in 0 .. Len(t), NEW v \in m[<<"members", i, j>>]
  PROVE  SkipWhitespace(t, i) \in Fronts(t, i, j) /\ At(t, SkipWhitespace(t, i)) = t[SkipWhitespace(t, i)]
<1>1. v \in Members(t, m, i, j)
  BY DEF IsGrammar
<1>2. PICK c \in Marks(t, i, j, Colon) :
        v \in Member(t, m, i, c, j) \/ \E d \in Marks(t, c, j, Comma) : v \in MembersAround(t, m, i, c, d, j)
  BY <1>1, InMembers
<1>3. PICK k : k \in Keys(t, i, c - 1)
  <2>1. CASE v \in Member(t, m, i, c, j)
    BY <2>1 DEF Member
  <2>2. CASE \E d \in Marks(t, c, j, Comma) : v \in MembersAround(t, m, i, c, d, j)
    BY <2>2 DEF MembersAround
  <2> QED
    BY <1>2, <2>1, <2>2
<1>4. PICK a : a \in Fronts(t, i, c - 1)
  BY <1>3, InKeys
<1>5. c \in i .. j /\ c - 1 \in 0 .. Len(t)
  BY MarkIs
<1>6. a \in Fronts(t, i, j)
  <2>1. a \in i .. (c - 1) /\ AllWhite(t, i, a - 1) /\ t[a] \notin White
    BY <1>4 DEF Fronts
  <2>2. a \in i .. j
    BY <1>5, <2>1
  <2> QED
    BY <2>1, <2>2 DEF Fronts
<1> QED
  BY <1>6, FirstOf

OpenBrace == "{"

\* A closed list is read up to its bracket.
Enclosed(t, m, w, close, i, j, v) ==
  \/ AllWhite(t, i + 1, j - 1) /\ v = <<>>
  \/ v \in m[<<w, i + 1, j - 1>>] /\ At(t, SkipWhitespace(t, i + 1)) # close

LEMMA ClosedComplete ==
  ASSUME NEW C, NEW t \in Seq(C), End \notin C, NEW f, NEW m, NEW w, NEW close, close \notin White,
         NEW i \in 1 .. Len(t), NEW j \in 1 .. Len(t), i < j, t[j] = close,
         CompleteList(t, f, m, w, close, i + 1, j - 1), NEW v,
         Enclosed(t, m, w, close, i, j, v)
  PROVE  Opened(t, f, w, close, SkipWhitespace(t, i + 1)) = Done(j + 1, v)
<1> DEFINE n == Len(t)
           k == SkipWhitespace(t, i + 1)
<1>1. i + 1 \in 1 .. (n + 1) /\ j \in (i + 1) .. (n + 1) /\ j \in Nat /\ j # 0 /\ j <= n
      /\ (j - 1) + 1 = j /\ (j - 1) + 2 = j + 1
  OBVIOUS
<1>2. At(t, j) = close
  BY <1>1, Character
<1>3. CASE AllWhite(t, i + 1, j - 1) /\ v = <<>>
  <2>1. ASSUME NEW p \in (i + 1) .. (j - 1) PROVE At(t, p) \in White
    <3>1. p \in Nat /\ p # 0 /\ p <= n /\ t[p] \in White
      BY <1>1, <1>3 DEF AllWhite
    <3> QED
      BY <3>1, Character
  <2>2. k = j
    BY <1>1, <1>2, <2>1, SkipUnique
  <2> QED
    BY <1>2, <1>3, <2>2 DEF Opened
<1>4. CASE v \in m[<<w, i + 1, j - 1>>] /\ At(t, k) # close
  <2>1. At(t, (j - 1) + 1) = close
    BY <1>1, <1>2
  <2>2. f[<<w, k>>] = Done((j - 1) + 2, v)
    BY <1>4, <2>1 DEF CompleteList
  <2> QED
    BY <1>1, <1>4, <2>2 DEF Opened
<1> QED
  BY <1>3, <1>4 DEF Enclosed

LEMMA ValueComplete ==
  ASSUME NEW C, NEW t \in Seq(C), End \notin C, NEW f, NEW m, IsParser(t, f), IsGrammar(t, m),
         NEW i \in 1 .. (Len(t) + 1), NEW j \in 0 .. Len(t),
         i < j => /\ CompleteList(t, f, m, "elements", "]", i + 1, j - 1)
                  /\ CompleteList(t, f, m, "members", Brace, i + 1, j - 1)
  PROVE  CompleteValue(t, f, m, i, j)
<1> DEFINE n == Len(t)
           c == At(t, i)
           r == f[<<"value", i>>]
           k == SkipWhitespace(t, i + 1)
<1>1. n \in Nat /\ i \in Nat /\ i # 0 /\ j \in Nat /\ j <= n
  OBVIOUS
<1> SUFFICES ASSUME NEW v \in m[<<"value", i, j>>], At(t, j + 1) \in Follow
             PROVE  r = Done(j + 1, v)
  BY DEF CompleteValue
<1>2. r = IF c = Quote THEN As("string", ExtractString(t, i + 1))
          ELSE IF c \in DOMAIN Literal THEN Done(i + 1, Literal[c])
          ELSE IF c \in Digits \cup {"-"} THEN ParseNumber(t, i)
          ELSE IF c = "[" THEN As("array", Opened(t, f, "elements", "]", k))
          ELSE IF c = OpenBrace THEN As("object", Opened(t, f, "members", Brace, k))
          ELSE Fail(i)
  BY Zenon DEF IsParser, ValueAt, Opened, Brace, OpenBrace
<1>3. i <= j /\ i \in 1 .. n
  <2>1. i <= j
    BY ValueSolid
  <2> QED
    BY <1>1, <2>1
<1>4. c = t[i]
  BY <1>1, <1>3, Character
<1>5. \/ IsLiteral(t, i, j, v) \/ IsString(t, i, j, v) \/ IsNumeric(t, i, j, v)
      \/ IsArray(t, m, i, j, v) \/ IsObject(t, m, i, j, v)
  <2>1. v \in Value(t, m, i, j)
    BY DEF IsGrammar
  <2> QED
    BY <2>1, InValue
<1> HIDE DEF r, c
<1>6. CASE IsLiteral(t, i, j, v)
  <2>1. i = j /\ c \in DOMAIN Literal /\ v = Literal[c]
    BY <1>4, <1>6 DEF IsLiteral
  <2>2. c # Quote
    BY <2>1, Classes
  <2> QED
    BY <1>2, <2>1, <2>2
<1>7. CASE IsString(t, i, j, v)
  <2>1. PICK s \in Unquoted(t, i + 1, j - 1) : v = <<"string", s>>
    BY <1>7 DEF IsString
  <2>2. i < j /\ c = Quote /\ t[j] = Quote
    BY <1>4, <1>7 DEF IsString
  <2>3. i + 1 \in 1 .. (n + 1) /\ j - 1 \in 0 .. n /\ (j - 1) + 1 = j /\ (j - 1) + 2 = j + 1 /\ j # 0
    BY <1>1, <1>3, <2>2
  <2>4. At(t, (j - 1) + 1) = Quote
    BY <1>1, <2>2, <2>3, Character
  <2>5. ExtractString(t, i + 1) = Done(j + 1, s)
    <3>1. ExtractString(t, i + 1) = Done((j - 1) + 2, s)
      BY <2>3, <2>4, StringComplete
    <3> QED
      BY <2>3, <3>1
  <2>6. As("string", Done(j + 1, s)) = Done(j + 1, <<"string", s>>)
    BY DEF As, Done
  <2> QED
    BY <1>2, <2>1, <2>2, <2>5, <2>6
<1>8. CASE IsNumeric(t, i, j, v)
  <2>1. c \in Digits \cup {"-"} /\ v \in Numbers(t, i, j)
    BY <1>4, <1>8 DEF IsNumeric
  <2>2. j \in 1 .. n
    BY <1>1, <1>3
  <2>3. At(t, j + 1) \notin Digits \cup {".", "e", "E"}
    BY FollowIs
  <2>4. ParseNumber(t, i) = Done(j + 1, v)
    BY <1>3, <2>1, <2>2, <2>3, NumberComplete
  <2>5. c # Quote /\ c \notin DOMAIN Literal
    BY <2>1, Classes, Listed
  <2> QED
    BY <1>2, <2>1, <2>4, <2>5
<1>9. CASE IsArray(t, m, i, j, v)
  <2>1. i < j /\ c = "[" /\ t[j] = "]"
    BY <1>4, <1>9 DEF IsArray
  <2>2. PICK a : /\ v = <<"array", a>>
                 /\ \/ AllWhite(t, i + 1, j - 1) /\ a = <<>>
                    \/ a \in m[<<"elements", i + 1, j - 1>>]
    BY <1>9 DEF IsArray
  <2>3. i + 1 \in 1 .. (n + 1) /\ j - 1 \in 0 .. n /\ j \in 1 .. n
    BY <1>1, <1>3, <2>1
  <2>4. a \in m[<<"elements", i + 1, j - 1>>] => At(t, k) # "]"
    BY <2>3, ElementsSolid, ClosingIs
  <2>5. Opened(t, f, "elements", "]", k) = Done(j + 1, a)
    <3>1. Enclosed(t, m, "elements", "]", i, j, a)
      BY <2>2, <2>4 DEF Enclosed
    <3>2. "]" \notin White
      BY Solid, Zenon
    <3>3. CompleteList(t, f, m, "elements", "]", i + 1, j - 1)
      BY <2>1, Zenon
    <3>4. i \in 1 .. Len(t) /\ j \in 1 .. Len(t)
      BY <1>3, <2>1, <2>3
    <3> HIDE DEF k
    <3> QED
      BY <2>1, <3>1, <3>2, <3>3, <3>4, ClosedComplete DEF k
  <2>6. As("array", Done(j + 1, a)) = Done(j + 1, <<"array", a>>)
    BY DEF As, Done
  <2> QED
    BY <1>2, <2>1, <2>2, <2>5, <2>6, Classes
<1>10. CASE IsObject(t, m, i, j, v)
  <2>1. i < j /\ c = OpenBrace /\ t[j] = Brace
    BY <1>4, <1>10, Zenon DEF IsObject, OpenBrace, Brace
  <2>2. PICK o : /\ v = <<"object", o>>
                 /\ \/ AllWhite(t, i + 1, j - 1) /\ o = <<>>
                    \/ /\ \A a \in Fronts(t, i + 1, j - 1) : t[a] # Brace
                       /\ o \in m[<<"members", i + 1, j - 1>>]
    BY <1>10, Zenon DEF IsObject, Brace
  <2>3. i + 1 \in 1 .. (n + 1) /\ j - 1 \in 0 .. n /\ j \in 1 .. n
    BY <1>1, <1>3, <2>1
  <2>4. ASSUME o \in m[<<"members", i + 1, j - 1>>]
        PROVE  k \in Fronts(t, i + 1, j - 1) /\ At(t, k) = t[k]
    BY <2>3, <2>4, MembersSolid
  <2>5. \/ AllWhite(t, i + 1, j - 1) /\ o = <<>>
        \/ o \in m[<<"members", i + 1, j - 1>>] /\ At(t, k) # Brace
    BY <2>2, <2>4
  <2>6. Opened(t, f, "members", Brace, k) = Done(j + 1, o)
    <3>1. Enclosed(t, m, "members", Brace, i, j, o)
      BY <2>5 DEF Enclosed
    <3>2. CompleteList(t, f, m, "members", Brace, i + 1, j - 1)
      BY <2>1, Zenon
    <3>3. i \in 1 .. Len(t) /\ j \in 1 .. Len(t)
      BY <1>3, <2>1, <2>3
    <3> HIDE DEF k
    <3> QED
      BY <2>1, <3>1, <3>2, <3>3, BraceIs, ClosedComplete DEF k
  <2>7. As("object", Done(j + 1, o)) = Done(j + 1, <<"object", o>>)
    BY DEF As, Done
  <2>8. c # Quote /\ c \notin DOMAIN Literal /\ c \notin Digits \cup {"-"} /\ c # "["
    BY <2>1, Classes, Zenon DEF OpenBrace
  <2> QED
    BY <1>2, <2>1, <2>2, <2>6, <2>7, <2>8
<1> QED
  BY <1>5, <1>6, <1>7, <1>8, <1>9, <1>10

LEMMA ParserComplete ==
  ASSUME NEW C, NEW t \in Seq(C), End \notin C, NEW f, NEW m, IsParser(t, f), IsGrammar(t, m)
  PROVE  CompleteWithin(t, f, m, 1, Len(t))
<1> DEFINE n == Len(t)
           Good(w, i, j) == /\ w = "value" => CompleteValue(t, f, m, i, j)
                            /\ w = "elements" => CompleteList(t, f, m, w, "]", i, j)
                            /\ w = "members" => CompleteList(t, f, m, w, Brace, i, j)
           D == Spans(t)
           rank == [p \in D |-> Size(n, p)]
           S == {p \in D : Good(p[1], p[2], p[3])}
<1>1. n \in Nat
  OBVIOUS
<1>2. rank \in [D -> Nat]
  <2>1. ASSUME NEW p \in D PROVE Size(n, p) \in Nat
    BY SizeIs
  <2> QED
    BY <2>1
<1>3. ASSUME NEW p \in D, \A q \in D : rank[q] < rank[p] => q \in S PROVE p \in S
  <2> DEFINE w == p[1]
             i == p[2]
             j == p[3]
  <2>1. w \in Parts /\ i \in 1 .. (n + 1) /\ j \in 0 .. n
        /\ rank[p] = 2 * (n + j + 1 - i) + (IF w = "value" THEN 0 ELSE 1)
    BY DEF Spans, Size
  <2>2. ASSUME NEW u \in Parts, NEW a \in 1 .. (n + 1), NEW b \in 0 .. n,
               2 * (n + b + 1 - a) + (IF u = "value" THEN 0 ELSE 1) < rank[p]
        PROVE  Good(u, a, b)
    <3> DEFINE q == <<u, a, b>>
    <3>1. q \in D /\ q[1] = u /\ q[2] = a /\ q[3] = b
      BY DEF Spans
    <3>2. rank[q] = 2 * (n + b + 1 - a) + (IF u = "value" THEN 0 ELSE 1)
      BY <3>1 DEF Size
    <3> HIDE DEF q, Good
    <3>3. q \in S
      BY <1>3, <2>2, <3>1, <3>2
    <3> QED
      BY <3>1, <3>3
  <2> HIDE DEF i, j, w, rank, n, Good
  <2>3. CASE w = "value"
    <3>1. ASSUME i < j, NEW u \in {"elements", "members"} PROVE Good(u, i + 1, j - 1)
      <4>1. u \in Parts /\ u # "value"
        BY DEF Parts
      <4>2. i + 1 \in 1 .. (n + 1) /\ j - 1 \in 0 .. n /\ 2 * (n + (j - 1) + 1 - (i + 1)) + 1 < rank[p]
        BY <1>1, <2>1, <2>3, <3>1
      <4> QED
        BY <2>2, <4>1, <4>2
    <3>2. i < j => /\ CompleteList(t, f, m, "elements", "]", i + 1, j - 1)
                   /\ CompleteList(t, f, m, "members", Brace, i + 1, j - 1)
      BY <3>1 DEF Good
    <3>3. CompleteValue(t, f, m, i, j)
      BY <2>1, <3>2, ValueComplete DEF n
    <3> QED
      BY <2>3, <3>3 DEF Good, w, i, j
  <2>4. ASSUME w # "value" PROVE CompleteWithin(t, f, m, i, j)
    <3>1. ASSUME NEW a \in i .. j, NEW b \in i .. j PROVE CompleteValue(t, f, m, a, b)
      <4>1. a \in 1 .. (n + 1) /\ b \in 0 .. n /\ 2 * (n + b + 1 - a) + 0 < rank[p]
        BY <1>1, <2>1, <2>4, <3>1
      <4>2. "value" \in Parts
        BY DEF Parts
      <4>3. Good("value", a, b)
        BY <2>2, <4>1, <4>2
      <4> QED
        BY <4>3 DEF Good
    <3> QED
      BY <3>1 DEF CompleteWithin
  <2>5. ASSUME w # "value", NEW k \in i .. j PROVE Good(w, k + 1, j)
    <3>1. k + 1 \in 1 .. (n + 1) /\ 2 * (n + j + 1 - (k + 1)) + 1 < rank[p]
      BY <1>1, <2>1, <2>5
    <3> QED
      BY <2>1, <2>2, <2>5, <3>1
  <2>6. CASE w = "elements"
    <3>1. CompleteWithin(t, f, m, i, j)
      BY <2>4, <2>6
    <3>2. \A k \in i .. j : CompleteList(t, f, m, "elements", "]", k + 1, j)
      BY <2>5, <2>6 DEF Good
    <3>3. CompleteList(t, f, m, "elements", "]", i, j)
      BY <2>1, <3>1, <3>2, ElementsComplete DEF n
    <3> QED
      BY <2>6, <3>3 DEF Good, w, i, j
  <2>7. CASE w = "members"
    <3>1. CompleteWithin(t, f, m, i, j)
      BY <2>4, <2>7
    <3>2. \A k \in i .. j : CompleteList(t, f, m, "members", Brace, k + 1, j)
      BY <2>5, <2>7 DEF Good
    <3>3. CompleteList(t, f, m, "members", Brace, i, j)
      BY <2>1, <3>1, <3>2, MembersComplete DEF n
    <3> QED
      BY <2>7, <3>3 DEF Good, w, i, j
  <2> QED
    BY <2>1, <2>3, <2>6, <2>7 DEF Parts
<1>4. \A p \in D : p \in S
  <2> HIDE DEF D, S, rank
  <2> QED
    BY <1>2, <1>3, ByRank
<1>5. ASSUME NEW a \in 1 .. n, NEW b \in 1 .. n PROVE CompleteValue(t, f, m, a, b)
  <2> DEFINE p == <<"value", a, b>>
  <2>1. p \in D /\ p[1] = "value" /\ p[2] = a /\ p[3] = b
    BY DEF Spans, Parts
  <2>2. p \in S
    BY <1>4, <2>1
  <2> HIDE DEF p
  <2>3. Good("value", a, b)
    BY <2>1, <2>2
  <2> QED
    BY <2>3
<1> QED
  BY <1>5 DEF CompleteWithin

\* JSON::Parse accepts a text exactly if the grammar gives it a value, and as it.
LEMMA DocumentIs ==
  ASSUME NEW C, NEW t \in Seq(C), End \notin C
  PROVE  \A x : x \in Denoted(t) <=> JsonParse(t).ok /\ JsonParse(t).val = x
<1> DEFINE n == Len(t)
           s == SkipWhitespace(t, 1)
           value == ParseValue(t, s)
           rest == SkipWhitespace(t, value.pos)
<1>1. n \in Nat /\ 1 \in 1 .. (n + 1) /\ n \in 0 .. n
  OBVIOUS
<1>2. PICK f : IsParser(t, f) /\ \A i \in 1 .. (n + 1) : ParseValue(t, i) = f[<<"value", i>>]
  BY ParseIs
<1>3. PICK m : IsGrammar(t, m) /\ Denoted(t) = Padded(t, m, 1, n)
  BY MeansIs
<1>4. s \in 1 .. (n + 1) /\ AllWhite(t, 1, s - 1)
  BY <1>1, Skipped
<1>5. value = f[<<"value", s>>]
  BY <1>2, <1>4
<1>6. JsonParse(t) = IF ~ value.ok THEN value
                     ELSE IF At(t, rest) # End THEN Fail(rest) ELSE Done(rest, value.val)
  BY DEF JsonParse, WholeText
<1>7. ASSUME JsonParse(t).ok PROVE JsonParse(t).val \in Denoted(t)
  <2>1. SoundValue(t, f, m, s)
    BY <1>2, <1>3, <1>4, ParserSound
  <2> HIDE DEF s
  <2>2. value.ok
    BY <1>6, <1>7
  <2>3. Reads(t, value, s)
    BY <1>2, <1>4, <1>5 DEF IsParser, Parts
  <2> DEFINE b == value.pos - 1
  <2>4. b \in s .. n /\ t[s] \notin White /\ value.val \in m[<<"value", s, b>>]
    BY <1>5, <2>1, <2>2 DEF SoundValue
  <2>5. value.pos \in 1 .. (n + 1) /\ value.pos = b + 1 /\ b \in Nat /\ s \in Nat
    <3> HIDE DEF value
    <3>1. value.pos \in s .. (n + 1) /\ value.pos > s
      BY <2>2, <2>3 DEF Reads
    <3> QED
      BY <1>1, <1>4, <3>1
  <2> HIDE DEF value, b
  <2>6. /\ rest \in (b + 1) .. (n + 1) /\ AllWhite(t, b + 1, rest - 1)
        /\ At(t, rest) = End <=> rest > n
    BY <2>5, Skipped
  <2>7. At(t, rest) = End /\ JsonParse(t).val = value.val
    BY <1>6, <1>7, <2>2, FailIs, DoneIs
  <2> HIDE DEF rest
  <2>8. rest - 1 = n
    BY <1>1, <2>5, <2>6, <2>7
  <2>9. 1 \in Nat /\ 1 <= s /\ s <= b /\ b <= n
    BY <1>1, <1>4, <2>4, <2>5
  <2>10. value.val \in Padded(t, m, 1, n)
    BY <1>1, <1>4, <2>4, <2>5, <2>6, <2>8, <2>9, Place
  <2> QED
    BY <1>3, <2>7, <2>10
<1>8. ASSUME NEW x \in Denoted(t) PROVE JsonParse(t).ok /\ JsonParse(t).val = x
  <2>1. CompleteWithin(t, f, m, 1, n)
    BY <1>2, <1>3, ParserComplete
  <2>2. At(t, n + 1) = End
    BY <1>1 DEF At
  <2>3. PaddedRead(t, f, 1, n, x)
    BY <1>1, <1>3, <1>8, <2>1, <2>2, ClosingIs, PaddedComplete
  <2>4. PICK b : f[<<"value", s>>] = Done(b + 1, x) /\ SkipWhitespace(t, b + 1) = n + 1
    BY <2>3, Zenon DEF PaddedRead
  <2>5. value.ok /\ value.val = x /\ rest = n + 1
    BY <1>5, <2>4, DoneIs
  <2> HIDE DEF value, rest
  <2> QED
    BY <1>6, <2>2, <2>5, DoneIs
<1> QED
  BY <1>7, <1>8

\* For every text, however long and deep: JSON::Parse comes to a verdict on a character of
\* the text or on its terminator. No step of JSONValue::Parse, ExtractString or the number
\* parser goes on behind it.
THEOREM ParserStaysInText == Spec => []TypeOK
<1>1. EditInv => TypeOK
  <2> SUFFICES ASSUME EditInv PROVE Parsed.ok \in BOOLEAN /\ Parsed.pos \in 1 .. (Len(text) + 1)
    BY DEF TypeOK
  <2>1. text \in Seq(Alphabet)
    BY DEF EditInv
  <2> QED
    BY <2>1, TerminatorAssumption, DocumentReads DEF Parsed
<1> QED
  BY <1>1, EditInit, EditStep, PTL DEF Spec

\* For every text, however long and deep: the JSON library accepts it exactly if the
\* grammar gives it a value, the grammar gives it no second one, and that value is the
\* one JSON::Parse returns.
THEOREM ParserIsGrammar == Spec => []ReadsTheGrammar
<1>1. EditInv => ReadsTheGrammar
  <2> SUFFICES ASSUME EditInv, kind = "json" PROVE Denoted(text) = Documents
    BY DEF ReadsTheGrammar
  <2>1. text \in Seq(Alphabet)
    BY DEF EditInv
  <2>2. \A x : x \in Denoted(text) <=> JsonParse(text).ok /\ JsonParse(text).val = x
    BY <2>1, TerminatorAssumption, DocumentIs
  <2>3. \A x : x \in Documents <=> Parsed.ok /\ Parsed.val = x
    BY DEF Documents
  <2> QED
    BY <2>2, <2>3 DEF Parsed
<1> QED
  BY <1>1, EditInit, EditStep, PTL DEF Spec

-------------------------------------------------------------------------------
(* Names: what is left of a printed string. *)

LEMMA FlattenAppend ==
  ASSUME NEW C, NEW Q \in Seq(Seq(C)), NEW p \in Seq(C)
  PROVE  FlattenSeq(Append(Q, p)) = FlattenSeq(Q) \o p
<1> DEFINE s == Append(Q, p)
           n == Len(Q)
<1>1. /\ s \in Seq(Seq(C)) /\ Len(s) = n + 1 /\ n \in Nat /\ s[n + 1] = p
      /\ \A i \in 1 .. n : s[i] = Q[i]
  OBVIOUS
<1> HIDE DEF s
<1>2. PICK f : Joins(s, f, C)
  BY <1>1, FlattenIs
<1>3. /\ FlattenSeq(s) = f[n + 1] /\ f[1] = s[1]
      /\ \A i \in 2 .. n + 1 : f[i] = f[i - 1] \o s[i]
  BY <1>1, <1>2 DEF Joins
<1>4. CASE n = 0
  <2>1. FlattenSeq(Q) = <<>>
    BY <1>4, FlattenIs
  <2> QED
    BY <1>1, <1>3, <1>4, <2>1, ConcatEmptySeq DEF s
<1>5. CASE n # 0
  <2>1. n \in Nat /\ n # 0
    BY <1>1, <1>5
  <2>2. PICK g : Joins(Q, g, C)
    BY <1>5, FlattenIs
  <2>3. /\ FlattenSeq(Q) = g[n] /\ g[1] = Q[1]
        /\ \A i \in 2 .. n : g[i] = g[i - 1] \o Q[i]
    BY <2>2 DEF Joins
  <2> HIDE DEF n
  <2> DEFINE N == {i \in Nat : i + 1 <= n => f[i + 1] = g[i + 1]}
  <2>4. 0 \in N
    <3>1. 1 \in 1 .. n /\ 0 + 1 = 1
      BY <1>1, <1>5
    <3> QED
      BY <1>1, <1>3, <2>3, <3>1
  <2>5. ASSUME NEW i \in N PROVE i + 1 \in N
    <3> SUFFICES ASSUME (i + 1) + 1 <= n PROVE f[(i + 1) + 1] = g[(i + 1) + 1]
      OBVIOUS
    <3>1. i \in Nat /\ i + 2 \in 2 .. n /\ i + 2 \in 2 .. n + 1 /\ i + 2 \in 1 .. n
          /\ (i + 1) + 1 = i + 2 /\ (i + 2) - 1 = i + 1 /\ i + 1 <= n
      BY <1>1
    <3>2. f[i + 2] = f[i + 1] \o s[i + 2] /\ g[i + 2] = g[i + 1] \o Q[i + 2]
      BY <1>3, <2>3, <3>1
    <3>3. f[i + 1] = g[i + 1] /\ s[i + 2] = Q[i + 2]
      BY <1>1, <3>1
    <3> QED
      BY <3>1, <3>2, <3>3
  <2>6. N = Nat
    <3> HIDE DEF N
    <3> QED
      BY <2>4, <2>5, AllNumbers DEF N
  <2>7. n - 1 \in Nat /\ (n - 1) + 1 = n /\ n <= n /\ n + 1 \in 2 .. n + 1 /\ (n + 1) - 1 = n
    BY <2>1
  <2>8. \A i \in Nat : i + 1 <= n => f[i + 1] = g[i + 1]
    BY <2>6
  <2>9. f[n] = g[n]
    BY <2>7, <2>8
  <2>10. f[n + 1] = f[n] \o s[n + 1]
    BY <1>3, <2>7
  <2> QED
    BY <1>1, <1>3, <2>3, <2>9, <2>10 DEF s
<1> QED
  BY <1>4, <1>5

\* What is erased from a string, character by character.
LEMMA ErasedNone == ASSUME NEW K PROVE Erased(<<>>, K) = <<>>
BY OnlyNone DEF Erased

LEMMA ErasedAppend ==
  ASSUME NEW T, NEW s \in Seq(T), NEW e \in T, NEW K
  PROVE  Erased(Append(s, e), K) = IF e \in K THEN Erased(s, K) ELSE Append(Erased(s, K), e)
<1> DEFINE u == Append(s, e)
<1>1. /\ u \in Seq(T) /\ Len(u) = Len(s) + 1 /\ Len(s) \in Nat /\ u[Len(s) + 1] = e
      /\ \A i \in 1 .. Len(s) : u[i] = s[i]
  OBVIOUS
<1> HIDE DEF u
<1>2. ToSet(s) = {s[i] : i \in 1 .. Len(s)} /\ ToSet(u) = {u[i] : i \in 1 .. Len(u)}
  BY <1>1 DEF ToSet
<1>3. \A i \in 1 .. Len(s) : s[i] \in ToSet(u) \ K <=> s[i] \in ToSet(s) \ K
  <2>1. \A i \in 1 .. Len(s) : i \in 1 .. Len(u)
    BY <1>1
  <2> QED
    BY <1>1, <1>2, <2>1
<1>4. e \in ToSet(u)
  <2>1. Len(s) + 1 \in 1 .. Len(u)
    BY <1>1
  <2> QED
    BY <1>1, <1>2, <2>1
<1>5. Only(s, ToSet(u) \ K) = Only(s, ToSet(s) \ K)
  BY <1>3, OnlySame
<1>6. Only(Append(s, e), ToSet(u) \ K)
        = IF e \in ToSet(u) \ K THEN Append(Only(s, ToSet(u) \ K), e) ELSE Only(s, ToSet(u) \ K)
  BY OnlyAppend
<1> QED
  BY <1>4, <1>5, <1>6 DEF Erased, u

\* Which of the cases of StringifyString a character is.
LEMMA EscapedIs ==
  ASSUME NEW c, NEW short, short = {e \in DOMAIN ShortEscape : ShortEscape[e] = c}
  PROVE  /\ c \in {Quote, Backslash, "/"} => Escaped(c) = <<Backslash, c>>
         /\ short # {} => Escaped(c) = <<Backslash, CHOOSE e \in short : TRUE>>
         /\ c = "wide" => Escaped(c) = <<Backslash, "u", "hex">>
         /\ c \notin {Quote, Backslash, "/"} /\ short = {} /\ c # "wide" => Escaped(c) = <<c>>
<1> DEFINE marked == c \in {Quote, Backslash, "/"}
           picked == CHOOSE e \in short : TRUE
<1>1. \A e \in DOMAIN ShortEscape : ShortEscape[e] \in {"BS", "FF", "LF", "CR", "TAB"}
  BY DEF ShortEscape
<1>2. marked => short = {} /\ c # "wide"
  BY <1>1 DEF Quote, Backslash
<1>3. c = "wide" => short = {}
  BY <1>1
<1>4. Escaped(c) = CASE marked -> <<Backslash, c>>
                     [] short # {} -> <<Backslash, picked>>
                     [] c = "wide" -> <<Backslash, "u", "hex">>
                     [] OTHER -> <<c>>
  BY Zenon DEF Escaped
<1> HIDE DEF marked, picked
<1>5. /\ marked => Escaped(c) = <<Backslash, c>>
      /\ short # {} => Escaped(c) = <<Backslash, picked>>
      /\ c = "wide" => Escaped(c) = <<Backslash, "u", "hex">>
      /\ ~ marked /\ short = {} /\ c # "wide" => Escaped(c) = <<c>>
  BY <1>2, <1>3, <1>4
<1> QED
  BY <1>5 DEF marked, picked

\* A plain character, printed.
LEMMA PlainPrinted ==
  ASSUME NEW c, c = "/" \/ Escaped(c) = <<c>>
  PROVE  IF c = "/" THEN Escaped(c) = <<Backslash, c>> /\ c # Quote /\ c # Backslash
         ELSE Escaped(c) = <<c>> /\ c # Quote /\ c # Backslash
<1>1. c \in {Quote, Backslash, "/"} => Escaped(c) = <<Backslash, c>>
  BY EscapedIs
<1>2. <<Backslash, c>> # <<c>>
  OBVIOUS
<1>3. "/" # Quote /\ "/" # Backslash
  BY DEF Quote, Backslash
<1> QED
  BY <1>1, <1>2, <1>3

\* The characters of a string as they are printed, between no quotes.
Printed(s) == [k \in DOMAIN s |-> Escaped(s[k])]

\* What is left of the printed characters behind the first quote.
Recovered(s) ==
  LET printed == <<Quote>> \o FlattenSeq(Printed(s))
  IN /\ Erased(printed, {Quote, Backslash}) = s
     /\ "/" \notin ToSet(s) => Erased(printed, {Quote}) = s

LEMMA PrintedType ==
  ASSUME NEW X, NEW s \in Seq(X), PlainString(s), NEW Y, Y = X \cup {Quote, Backslash}
  PROVE  Printed(s) \in Seq(Seq(Y)) /\ Len(Printed(s)) = Len(s)
<1>1. DOMAIN s = 1 .. Len(s) /\ Len(s) \in Nat
  OBVIOUS
<1>2. ASSUME NEW k \in 1 .. Len(s) PROVE Escaped(s[k]) \in Seq(Y)
  <2>1. s[k] \in Y /\ Backslash \in Y
    OBVIOUS
  <2>2. Escaped(s[k]) = <<Backslash, s[k]>> \/ Escaped(s[k]) = <<s[k]>>
    BY <1>1, PlainPrinted DEF PlainString
  <2>3. <<Backslash, s[k]>> \in Seq(Y) /\ <<s[k]>> \in Seq(Y)
    BY <2>1
  <2> QED
    BY <2>2, <2>3
<1> QED
  BY <1>1, <1>2 DEF Printed

LEMMA PlainRecovered ==
  ASSUME NEW X, NEW s \in Seq(X), PlainString(s)
  PROVE  Recovered(s)
<1> DEFINE P == {u \in Seq(X) : PlainString(u) => Recovered(u)}
           Y == X \cup {Quote, Backslash}
<1>1. <<>> \in P
  <2>1. Printed(<<>>) = <<>> /\ <<>> \in Seq(Seq(Y)) /\ Len(<<>>) = 0 /\ <<>> \in Seq(X)
    BY DEF Printed
  <2>2. FlattenSeq(Printed(<<>>)) = <<>>
    BY <2>1, FlattenIs
  <2>3. <<Quote>> \o <<>> = Append(<<>>, Quote) /\ <<>> \in Seq({Quote})
    OBVIOUS
  <2>4. ASSUME NEW K, Quote \in K PROVE Erased(<<Quote>> \o <<>>, K) = <<>>
    <3>1. Quote \in {Quote}
      OBVIOUS
    <3>2. ASSUME NEW u \in Seq({Quote}) PROVE Erased(Append(u, Quote), K) = Erased(u, K)
      BY <2>4, <3>1, ErasedAppend, Zenon
    <3>3. Erased(Append(<<>>, Quote), K) = Erased(<<>>, K)
      BY <2>3, <3>2, Zenon
    <3> QED
      BY <2>3, <3>3, ErasedNone, Zenon
  <2> QED
    BY <2>1, <2>2, <2>4 DEF Recovered
<1>2. ASSUME NEW u \in P, NEW c \in X PROVE Append(u, c) \in P
  <2> DEFINE w == Append(u, c)
             printed == <<Quote>> \o FlattenSeq(Printed(u))
  <2>1. /\ u \in Seq(X) /\ w \in Seq(X) /\ Len(w) = Len(u) + 1 /\ Len(u) \in Nat /\ w[Len(u) + 1] = c
        /\ \A i \in 1 .. Len(u) : w[i] = u[i]
        /\ DOMAIN u = 1 .. Len(u) /\ DOMAIN w = 1 .. Len(w)
    OBVIOUS
  <2>2. PlainString(u) => Recovered(u)
    OBVIOUS
  <2> HIDE DEF w, P
  <2> SUFFICES ASSUME PlainString(w) PROVE Recovered(w)
    BY <2>1 DEF P, w
  <2>3. PlainString(u)
    <3>1. \A i \in 1 .. Len(u) : i \in 1 .. Len(w)
      BY <2>1
    <3> QED
      BY <2>1, <3>1 DEF PlainString
  <2>4. c = "/" \/ Escaped(c) = <<c>>
    <3>1. Len(u) + 1 \in 1 .. Len(w)
      BY <2>1
    <3> QED
      BY <2>1, <3>1 DEF PlainString
  <2>5. Printed(u) \in Seq(Seq(Y)) /\ Len(Printed(u)) = Len(u)
    BY <2>1, <2>3, PrintedType
  <2>6. Escaped(c) \in Seq(Y)
    <3>1. c \in Y /\ Backslash \in Y
      OBVIOUS
    <3>2. <<Backslash, c>> \in Seq(Y) /\ <<c>> \in Seq(Y)
      BY <3>1
    <3> QED
      BY <2>4, <3>2, PlainPrinted
  <2>7. Printed(w) = Append(Printed(u), Escaped(c))
    <3> DEFINE R == Append(Printed(u), Escaped(c))
    <3>1. /\ R \in Seq(Seq(Y)) /\ Len(R) = Len(u) + 1 /\ R[Len(u) + 1] = Escaped(c)
          /\ \A k \in 1 .. Len(u) : R[k] = Printed(u)[k]
      <4> DEFINE Z == Seq(Y)
                 Q == Printed(u)
      <4>1. Q \in Seq(Z) /\ Escaped(c) \in Z /\ Len(Q) = Len(u)
        BY <2>5, <2>6
      <4> HIDE DEF Q, Z
      <4>2. /\ Append(Q, Escaped(c)) \in Seq(Z) /\ Len(Append(Q, Escaped(c))) = Len(Q) + 1
            /\ Append(Q, Escaped(c))[Len(Q) + 1] = Escaped(c)
            /\ \A k \in 1 .. Len(Q) : Append(Q, Escaped(c))[k] = Q[k]
        BY <4>1, AppendProperties
      <4> QED
        BY <4>1, <4>2 DEF Q, Z
    <3>2. Printed(w) \in Seq(Seq(Y)) /\ Len(Printed(w)) = Len(u) + 1
      BY <2>1, PrintedType
    <3>3. \A k \in 1 .. Len(u) : Printed(u)[k] = Escaped(u[k])
      BY <2>1 DEF Printed
    <3>4. \A k \in 1 .. Len(u) + 1 : Printed(w)[k] = Escaped(w[k])
      BY <2>1 DEF Printed
    <3> HIDE DEF R
    <3>5. ASSUME NEW k \in 1 .. Len(u) + 1 PROVE Printed(w)[k] = R[k]
      <4>1. k # Len(u) + 1 => k \in 1 .. Len(u)
        BY <2>1
      <4> QED
        BY <2>1, <3>1, <3>3, <3>4, <4>1
    <3>6. Printed(w) = R
      <4> DEFINE Z == Seq(Y)
      <4>1. Printed(w) \in Seq(Z) /\ R \in Seq(Z) /\ Len(Printed(w)) = Len(R)
        BY <3>1, <3>2
      <4> HIDE DEF Z
      <4> QED
        BY <3>2, <3>5, <4>1, SeqEqual
    <3> QED
      BY <3>6 DEF R
  <2>8. FlattenSeq(Printed(u)) \in Seq(Y)
    BY <2>5, FlattenType
  <2>9. FlattenSeq(Printed(w)) = FlattenSeq(Printed(u)) \o Escaped(c)
    BY <2>5, <2>6, <2>7, FlattenAppend
  <2>10. <<Quote>> \in Seq(Y)
    <3>1. Quote \in Y
      OBVIOUS
    <3> QED
      BY <3>1
  <2>11. printed \in Seq(Y)
    BY <2>8, <2>10, ConcatProperties
  <2>12. <<Quote>> \o FlattenSeq(Printed(w)) = printed \o Escaped(c)
    <3> HIDE DEF Y
    <3> QED
      BY <2>6, <2>8, <2>9, <2>10, Assoc
  <2>13. \A K : Erased(printed \o Escaped(c), K)
                  = IF c = "/" /\ Backslash \notin K THEN Erased(printed \o Escaped(c), K)
                    ELSE IF c \in K THEN Erased(printed, K) ELSE Append(Erased(printed, K), c)
    <3> SUFFICES ASSUME NEW K, ~ (c = "/" /\ Backslash \notin K)
                 PROVE  Erased(printed \o Escaped(c), K)
                          = IF c \in K THEN Erased(printed, K) ELSE Append(Erased(printed, K), c)
      BY Zenon
    <3> HIDE DEF printed
    <3>1. c \in Y /\ Backslash \in Y
      OBVIOUS
    <3> HIDE DEF Y
    <3>2. \A x \in Seq(Y), e \in Y :
            Erased(Append(x, e), K) = IF e \in K THEN Erased(x, K) ELSE Append(Erased(x, K), e)
      BY ErasedAppend
    <3>3. CASE c = "/"
      <4>1. Escaped(c) = <<Backslash, c>> /\ Backslash \in K
        BY <2>4, <3>3, PlainPrinted
      <4>2. /\ printed \o <<Backslash, c>> = Append(Append(printed, Backslash), c)
            /\ Append(printed, Backslash) \in Seq(Y)
        BY <2>11, <3>1
      <4>3. Erased(Append(Append(printed, Backslash), c), K)
              = IF c \in K THEN Erased(Append(printed, Backslash), K)
                ELSE Append(Erased(Append(printed, Backslash), K), c)
        BY <3>2, <3>1, <4>2
      <4>4. Erased(Append(printed, Backslash), K) = Erased(printed, K)
        BY <2>11, <3>2, <3>1, <4>1
      <4> QED
        BY <4>1, <4>2, <4>3, <4>4
    <3>4. CASE c # "/"
      <4>1. Escaped(c) = <<c>> /\ printed \o <<c>> = Append(printed, c)
        BY <2>4, <2>11, <3>1, <3>4, PlainPrinted
      <4> QED
        BY <2>11, <3>2, <3>1, <4>1
    <3> QED
      BY <3>3, <3>4
  <2> HIDE DEF printed
  <2>14. c # Quote /\ c # Backslash
    BY <2>4, PlainPrinted
  <2>15. Erased(printed \o Escaped(c), {Quote, Backslash}) = w
    <3>1. Erased(printed, {Quote, Backslash}) = u
      BY <2>2, <2>3 DEF Recovered, printed
    <3>2. c \notin {Quote, Backslash} /\ Backslash \in {Quote, Backslash}
      BY <2>14
    <3> QED
      BY <2>13, <3>1, <3>2 DEF w
  <2>16. ASSUME "/" \notin ToSet(w) PROVE Erased(printed \o Escaped(c), {Quote}) = w
    <3>1. "/" \notin ToSet(u) /\ c # "/"
      <4>1. ToSet(u) = {u[i] : i \in 1 .. Len(u)} /\ ToSet(w) = {w[i] : i \in 1 .. Len(w)}
        BY <2>1 DEF ToSet
      <4>2. Len(u) + 1 \in 1 .. Len(w) /\ \A i \in 1 .. Len(u) : i \in 1 .. Len(w)
        BY <2>1
      <4> QED
        BY <2>1, <2>16, <4>1, <4>2
    <3>2. Erased(printed, {Quote}) = u
      BY <2>2, <2>3, <3>1 DEF Recovered, printed
    <3>3. c \notin {Quote}
      BY <2>14
    <3> QED
      BY <2>13, <3>1, <3>2, <3>3 DEF w
  <2> QED
    BY <2>12, <2>15, <2>16 DEF Recovered
<1>3. P = Seq(X)
  <2> HIDE DEF P
  <2>1. P \in SUBSET Seq(X)
    BY DEF P
  <2> QED
    BY <1>1, <1>2, <2>1, AllLists
<1>4. s \in P
  BY <1>3
<1> QED
  BY <1>4

\* The closing quote leaves no trace.
LEMMA StringRecovered ==
  ASSUME NEW X, NEW s \in Seq(X), PlainString(s)
  PROVE  /\ Erased(StringifyString(s), {Quote, Backslash}) = s
         /\ "/" \notin ToSet(s) => Erased(StringifyString(s), {Quote}) = s
<1> DEFINE Y == X \cup {Quote, Backslash}
           printed == <<Quote>> \o FlattenSeq(Printed(s))
<1>1. Recovered(s)
  BY PlainRecovered
<1>2. FlattenSeq(Printed(s)) \in Seq(Y)
  <2>1. Printed(s) \in Seq(Seq(Y))
    BY PrintedType
  <2> QED
    BY <2>1, FlattenType
<1>3. Quote \in Y
  OBVIOUS
<1>4. printed \in Seq(Y)
  <2>1. <<Quote>> \in Seq(Y)
    BY <1>3
  <2> QED
    BY <1>2, <2>1, ConcatProperties
<1>5. StringifyString(s) = printed \o <<Quote>>
  BY DEF StringifyString, Printed
<1>6. printed \o <<Quote>> = Append(printed, Quote)
  <2> HIDE DEF printed
  <2> QED
    BY <1>3, <1>4
<1> HIDE DEF printed, Y
<1>7. ASSUME NEW K, Quote \in K PROVE Erased(StringifyString(s), K) = Erased(printed, K)
  <2>1. Erased(Append(printed, Quote), K)
          = IF Quote \in K THEN Erased(printed, K) ELSE Append(Erased(printed, K), Quote)
    BY <1>3, <1>4, ErasedAppend
  <2> QED
    BY <1>5, <1>6, <1>7, <2>1
<1> QED
  BY <1>1, <1>7 DEF Recovered, printed

\* The string between two quotes is one.
LEMMA UnquotedType ==
  ASSUME NEW C, NEW t \in Seq(C), NEW last \in 0 .. Len(t), NEW i \in 1 .. (Len(t) + 1),
         NEW X, X = C \cup {"wide"} \cup {Unescaped[c] : c \in DOMAIN Unescaped}
  PROVE  \A u \in Unquoted(t, i, last) : u \in Seq(X)
<1> DEFINE n == Len(t)
           D == 1 .. (n + 1)
           rank == [k \in D |-> n + 1 - k]
           S == {k \in D : \A u \in Unquoted(t, k, last) : u \in Seq(X)}
<1>1. n \in Nat /\ \A k \in 1 .. n : At(t, k) \in X
  BY DEF At
<1>2. rank \in [D -> Nat]
  BY <1>1
<1>3. ASSUME NEW k \in D, \A j \in D : rank[j] < rank[k] => j \in S PROVE k \in S
  <2> SUFFICES ASSUME NEW u \in Unquoted(t, k, last) PROVE u \in Seq(X)
    OBVIOUS
  <2>1. SaysFirst(t, k, last, u)
    BY UnquotedStep
  <2>2. ASSUME NEW j \in D, j > k PROVE \A w \in Unquoted(t, j, last) : w \in Seq(X)
    <3>1. rank[j] < rank[k]
      BY <1>1, <2>2
    <3> QED
      BY <1>3, <3>1
  <2>3. k \in Nat /\ k # 0 /\ last \in Nat /\ last <= n
    BY <1>1
  <2> HIDE DEF S, rank
  <2>4. /\ k <= last => k + 1 \in D /\ k + 1 > k
        /\ k < last => k + 2 \in D /\ k + 2 > k
        /\ k + 1 < last => k + 3 \in D /\ k + 3 > k
    BY <1>1, <2>3
  <2>5. ASSUME NEW c \in X, NEW w \in Seq(X) PROVE <<c>> \o w \in Seq(X)
    OBVIOUS
  <2>6. CASE k = last + 1 /\ u = <<>>
    BY <2>6
  <2>7. CASE /\ k <= last /\ At(t, k) \notin Disallowed \cup {Quote, Backslash}
             /\ \E s \in Unquoted(t, k + 1, last) : u = <<At(t, k)>> \o s
    <3>1. PICK s \in Unquoted(t, k + 1, last) : u = <<At(t, k)>> \o s
      BY <2>7
    <3> QED
      BY <1>1, <2>2, <2>3, <2>4, <2>5, <2>7, <3>1
  <2>8. CASE /\ k < last /\ At(t, k) = Backslash /\ At(t, k + 1) \in DOMAIN Unescaped
             /\ \E s \in Unquoted(t, k + 2, last) : u = <<Unescaped[At(t, k + 1)]>> \o s
    <3>1. PICK s \in Unquoted(t, k + 2, last) : u = <<Unescaped[At(t, k + 1)]>> \o s
      BY <2>8
    <3>2. Unescaped[At(t, k + 1)] \in X
      BY <2>8
    <3> QED
      BY <2>2, <2>4, <2>5, <2>8, <3>1, <3>2
  <2>9. CASE /\ k + 1 < last /\ At(t, k) = Backslash /\ At(t, k + 1) = "u" /\ At(t, k + 2) = "hex"
             /\ \E s \in Unquoted(t, k + 3, last) : u = <<"wide">> \o s
    <3>1. PICK s \in Unquoted(t, k + 3, last) : u = <<"wide">> \o s
      BY <2>9
    <3>2. "wide" \in X
      OBVIOUS
    <3> QED
      BY <2>2, <2>4, <2>5, <2>9, <3>1, <3>2
  <2> QED
    BY <2>1, <2>6, <2>7, <2>8, <2>9, Zenon DEF SaysFirst
<1>4. \A k \in D : k \in S
  <2> HIDE DEF D, rank, S
  <2> QED
    BY <1>2, <1>3, ByRank
<1> QED
  BY <1>4

\* A document that is a string has characters.
LEMMA StringDenoted ==
  ASSUME NEW C, NEW t \in Seq(C), NEW x \in Denoted(t), x[1] = "string"
  PROVE  \E X : x[2] \in Seq(X)
<1> DEFINE n == Len(t)
<1>1. PICK m : IsGrammar(t, m) /\ Denoted(t) = Padded(t, m, 1, n)
  BY MeansIs
<1>2. PICK a \in Fronts(t, 1, n), b \in Backs(t, 1, n) : x \in m[<<"value", a, b>>]
  BY <1>1, InPadded
<1>3. n \in Nat /\ a \in 1 .. n /\ b \in 1 .. n
  BY DEF Fronts, Backs
<1>4. x \in Value(t, m, a, b)
  <2>1. a \in 1 .. (n + 1) /\ b \in 0 .. n
    BY <1>3
  <2> QED
    BY <1>1, <1>2, <2>1 DEF IsGrammar
<1>5. IsString(t, a, b, x)
  <2>1. ~ IsLiteral(t, a, b, x)
    <3>1. \A c \in DOMAIN Literal : Literal[c][1] \in {"bool", "null"}
      BY DEF Literal
    <3> QED
      BY <3>1 DEF IsLiteral
  <2>2. ~ IsNumeric(t, a, b, x)
    BY DEF IsNumeric, Numbers, NumberOf, Number
  <2>3. ~ IsArray(t, m, a, b, x)
    BY DEF IsArray
  <2>4. ~ IsObject(t, m, a, b, x)
    <3>1. \A o : <<"object", o>>[1] = "object"
      OBVIOUS
    <3>2. IsObject(t, m, a, b, x) => \E o : x = <<"object", o>>
      BY Zenon DEF IsObject
    <3> QED
      BY <3>1, <3>2
  <2> QED
    BY <1>4, <2>1, <2>2, <2>3, <2>4, InValue
<1>6. PICK s \in Unquoted(t, a + 1, b - 1) : x = <<"string", s>>
  BY <1>5 DEF IsString
<1>7. a < b
  BY <1>5 DEF IsString
<1>8. a + 1 \in 1 .. (n + 1) /\ b - 1 \in 0 .. n
  BY <1>3, <1>7
<1>9. \E X : s \in Seq(X)
  <2> DEFINE X == C \cup {"wide"} \cup {Unescaped[c] : c \in DOMAIN Unescaped}
  <2>1. \A u \in Unquoted(t, a + 1, b - 1) : u \in Seq(X)
    BY <1>8, UnquotedType
  <2> QED
    BY <2>1, Zenon
<1> QED
  BY <1>6, <1>9

\* For every document: a module is looked for under the name that find_modules and
\* find_modules_path were given, whatever JSON escapes between the file and the server.
THEOREM NamesAreKept == Spec => []NamesKept
<1>1. EditInv => NamesKept
  <2> SUFFICES ASSUME EditInv, NEW v \in Documents, v[1] = "string", PlainString(v[2])
               PROVE  /\ ModuleDir(StringifyString(v[2])) = v[2]
                      /\ "/" \notin ToSet(v[2]) =>
                           ModuleFile(StringifyString(v[2])) = <<"lib">> \o v[2] \o <<".so">>
    BY DEF NamesKept
  <2>1. text \in Seq(Alphabet)
    BY DEF EditInv
  <2>2. JsonParse(text).ok /\ JsonParse(text).val = v
    BY DEF Documents, Parsed
  <2>3. v \in Denoted(text)
    BY <2>1, <2>2, TerminatorAssumption, DocumentIs
  <2>4. PICK X : v[2] \in Seq(X)
    BY <2>1, <2>3, StringDenoted
  <2> QED
    BY <2>4, StringRecovered DEF ModuleDir, ModuleFile
<1> QED
  BY <1>1, EditInit, EditStep, PTL DEF Spec

-------------------------------------------------------------------------------
(* Strings that are printed are read back. *)

\* An escape stands for the character it was made of.
EscapeRead(c) ==
  \/ Escaped(c) = <<c>> /\ c \notin Disallowed \cup {Quote, Backslash}
  \/ \E e \in DOMAIN Unescaped : Escaped(c) = <<Backslash, e>> /\ Unescaped[e] = c
  \/ Escaped(c) = <<Backslash, "u", "hex">> /\ c = "wide"

LEMMA EscapeIsRead == ASSUME NEW c PROVE EscapeRead(c)
<1> DEFINE short == {e \in DOMAIN ShortEscape : ShortEscape[e] = c}
<1>1. \A e \in DOMAIN ShortEscape : e \in DOMAIN Unescaped /\ Unescaped[e] = ShortEscape[e]
  BY DEF Unescaped
<1>2. CASE c \in {Quote, Backslash, "/"}
  <2>1. Escaped(c) = <<Backslash, c>>
    BY <1>2, EscapedIs
  <2>2. c \in DOMAIN Unescaped /\ Unescaped[c] = c
    BY <1>2 DEF Unescaped, ShortEscape, Quote, Backslash
  <2> QED
    BY <2>1, <2>2 DEF EscapeRead
<1>3. CASE c \notin {Quote, Backslash, "/"} /\ short # {}
  <2>1. Escaped(c) = <<Backslash, CHOOSE e \in short : TRUE>>
    BY <1>3, EscapedIs
  <2>2. (CHOOSE e \in short : TRUE) \in short
    BY <1>3, Zenon
  <2> QED
    BY <1>1, <2>1, <2>2 DEF EscapeRead
<1>4. CASE c \notin {Quote, Backslash, "/"} /\ short = {} /\ c = "wide"
  <2>1. Escaped(c) = <<Backslash, "u", "hex">>
    BY <1>4, EscapedIs
  <2> QED
    BY <1>4, <2>1 DEF EscapeRead
<1>5. CASE c \notin {Quote, Backslash, "/"} /\ short = {} /\ c # "wide"
  <2>1. Escaped(c) = <<c>>
    BY <1>5, EscapedIs
  <2>2. \A e \in {"b", "f", "n", "r", "t"} : e \in DOMAIN ShortEscape /\ ShortEscape[e] # c
    BY <1>5 DEF ShortEscape
  <2>3. c \notin {"LF", "CR", "BS", "FF"}
    BY <2>2 DEF ShortEscape
  <2> QED
    BY <1>5, <2>1, <2>3 DEF EscapeRead, Disallowed
<1> QED
  BY <1>2, <1>3, <1>4, <1>5

\* The characters that printing puts into a text over X.
Characters(X) == X \cup {Quote, Backslash, "u", "hex"} \cup DOMAIN Unescaped

LEMMA EscapedCharacter ==
  ASSUME NEW X, NEW c \in X
  PROVE  Escaped(c) \in Seq(Characters(X))
<1>1. /\ c \in Characters(X) /\ Backslash \in Characters(X)
      /\ "u" \in Characters(X) /\ "hex" \in Characters(X)
      /\ \A e \in DOMAIN Unescaped : e \in Characters(X)
  BY DEF Characters
<1>2. /\ <<c>> \in Seq(Characters(X)) /\ <<Backslash, "u", "hex">> \in Seq(Characters(X))
      /\ \A e \in DOMAIN Unescaped : <<Backslash, e>> \in Seq(Characters(X))
  BY <1>1
<1> QED
  BY <1>2, EscapeIsRead DEF EscapeRead

LEMMA EscapedType ==
  ASSUME NEW X, NEW s \in Seq(X)
  PROVE  Printed(s) \in Seq(Seq(Characters(X))) /\ Len(Printed(s)) = Len(s)
<1>1. DOMAIN s = 1 .. Len(s) /\ Len(s) \in Nat /\ \A k \in 1 .. Len(s) : s[k] \in X
  OBVIOUS
<1>2. \A k \in 1 .. Len(s) : Escaped(s[k]) \in Seq(Characters(X))
  BY <1>1, EscapedCharacter
<1> QED
  BY <1>1, <1>2 DEF Printed

\* A text u stands in t from i to last.
Stands(t, u, i, last) ==
  Len(u) = last + 1 - i /\ \A k \in 1 .. Len(u) : t[i + k - 1] = u[k]

LEMMA StandsFurther ==
  ASSUME NEW Y, NEW t, NEW p \in Seq(Y), NEW u \in Seq(Y), NEW i \in Nat, NEW last \in Nat,
         Stands(t, p \o u, i, last)
  PROVE  /\ \A k \in 1 .. Len(p) : t[i + k - 1] = p[k]
         /\ Len(p) <= last + 1 - i /\ Stands(t, u, i + Len(p), last)
<1>1. /\ Len(p \o u) = Len(p) + Len(u) /\ Len(p) \in Nat /\ Len(u) \in Nat
      /\ \A k \in 1 .. Len(p) : (p \o u)[k] = p[k]
      /\ \A k \in 1 .. Len(u) : (p \o u)[Len(p) + k] = u[k]
  OBVIOUS
<1> DEFINE w == p \o u
<1>2. Len(w) = last + 1 - i /\ \A k \in 1 .. Len(w) : t[i + k - 1] = w[k]
  BY DEF Stands
<1>3. ASSUME NEW k \in 1 .. Len(p) PROVE t[i + k - 1] = p[k]
  <2>1. k \in 1 .. Len(w)
    BY <1>1
  <2> HIDE DEF w
  <2> QED
    BY <1>1, <1>2, <2>1 DEF w
<1>4. ASSUME NEW k \in 1 .. Len(u) PROVE t[i + Len(p) + k - 1] = u[k]
  <2>1. Len(p) + k \in 1 .. Len(w) /\ i + (Len(p) + k) - 1 = i + Len(p) + k - 1
    BY <1>1
  <2>2. t[i + (Len(p) + k) - 1] = w[Len(p) + k] /\ w[Len(p) + k] = u[k]
    BY <1>1, <1>2, <2>1
  <2> QED
    BY <2>1, <2>2
<1>5. Len(p) <= last + 1 - i /\ Len(u) = last + 1 - (i + Len(p))
  BY <1>1, <1>2
<1> QED
  BY <1>3, <1>4, <1>5 DEF Stands

LEMMA PrintedIsUnquoted ==
  ASSUME NEW X, NEW C, NEW t \in Seq(C), NEW last \in 0 .. Len(t), NEW s \in Seq(X),
         NEW i \in 1 .. (Len(t) + 1), Stands(t, FlattenSeq(Printed(s)), i, last)
  PROVE  s \in Unquoted(t, i, last)
<1> DEFINE n == Len(t)
           Y == Characters(X)
           N == {m \in Nat : \A u \in Seq(X), j \in 1 .. (n + 1) :
                   Len(u) = m /\ Stands(t, FlattenSeq(Printed(u)), j, last) => u \in Unquoted(t, j, last)}
<1>1. n \in Nat /\ last \in Nat /\ last <= n
  OBVIOUS
<1>2. 0 \in N
  <2> SUFFICES ASSUME NEW u \in Seq(X), NEW j \in 1 .. (n + 1), Len(u) = 0,
                      Stands(t, FlattenSeq(Printed(u)), j, last)
               PROVE  u \in Unquoted(t, j, last)
    OBVIOUS
  <2>1. Printed(u) \in Seq(Seq(Y)) /\ Len(Printed(u)) = 0
    BY EscapedType
  <2>2. FlattenSeq(Printed(u)) = <<>>
    BY <2>1, FlattenIs
  <2>3. Len(<<>>) = 0
    OBVIOUS
  <2>4. j = last + 1 /\ u = <<>>
    BY <1>1, <2>2, <2>3, EmptySeq DEF Stands
  <2>5. SaysFirst(t, j, last, u)
    BY <2>4 DEF SaysFirst
  <2> QED
    BY <2>5, UnquotedStep
<1>3. ASSUME NEW m \in N PROVE m + 1 \in N
  <2> SUFFICES ASSUME NEW u \in Seq(X), NEW j \in 1 .. (n + 1), Len(u) = m + 1,
                      Stands(t, FlattenSeq(Printed(u)), j, last)
               PROVE  u \in Unquoted(t, j, last)
    OBVIOUS
  <2> DEFINE c == Head(u)
             w == Tail(u)
  <2>1. m \in Nat /\ \A v \in Seq(X), k \in 1 .. (n + 1) :
                       Len(v) = m /\ Stands(t, FlattenSeq(Printed(v)), k, last) => v \in Unquoted(t, k, last)
    OBVIOUS
  <2> HIDE DEF N
  <2>2. c \in X /\ w \in Seq(X) /\ Len(w) = m /\ u = <<c>> \o w
    BY <2>1
  <2>3. DOMAIN u = 1 .. m + 1 /\ DOMAIN w = 1 .. m /\ u[1] = c /\ \A k \in 1 .. m : u[k + 1] = w[k]
    BY <2>1
  <2> HIDE DEF c, w
  <2>4. /\ Printed(w) \in Seq(Seq(Y)) /\ Len(Printed(w)) = m
        /\ Printed(u) \in Seq(Seq(Y)) /\ Len(Printed(u)) = m + 1
    BY <2>2, EscapedType
  <2>5. Escaped(c) \in Seq(Y)
    BY <2>2, EscapedCharacter
  <2>6. Printed(u) = <<Escaped(c)>> \o Printed(w)
    <3> DEFINE Z == Seq(Y)
               e == Escaped(c)
               R == <<e>> \o Printed(w)
    <3>1. e \in Z /\ Printed(w) \in Seq(Z) /\ Printed(u) \in Seq(Z)
      BY <2>4, <2>5
    <3>2. \A k \in 1 .. m + 1 : Printed(u)[k] = Escaped(u[k])
      BY <2>3 DEF Printed
    <3>3. \A k \in 1 .. m : Printed(w)[k] = Escaped(w[k])
      BY <2>3 DEF Printed
    <3>4. /\ R \in Seq(Z) /\ Len(R) = m + 1 /\ R[1] = e
          /\ \A k \in 1 .. m : R[k + 1] = Printed(w)[k]
      <4> DEFINE Q == Printed(w)
      <4>1. /\ <<e>> \in Seq(Z) /\ Len(<<e>>) = 1 /\ <<e>>[1] = e
            /\ Q \in Seq(Z) /\ Len(Q) = m
        BY <2>4, <3>1
      <4> HIDE DEF Q, Z, e
      <4>2. /\ <<e>> \o Q \in Seq(Z) /\ Len(<<e>> \o Q) = 1 + m
            /\ \A k \in 1 .. 1 + m : (<<e>> \o Q)[k] = IF k <= 1 THEN <<e>>[k] ELSE Q[k - 1]
        BY <4>1, ConcatProperties
      <4>3. 1 \in 1 .. 1 + m /\ 1 + m = m + 1
        BY <2>1
      <4>4. \A k \in 1 .. m : k + 1 \in 1 .. 1 + m /\ ~ (k + 1 <= 1) /\ (k + 1) - 1 = k
        BY <2>1
      <4> QED
        BY <4>1, <4>2, <4>3, <4>4 DEF Q
    <3> HIDE DEF R, Z, e
    <3>5. ASSUME NEW k \in 1 .. m + 1 PROVE Printed(u)[k] = R[k]
      <4>1. CASE k = 1
        BY <2>3, <3>2, <3>4, <4>1 DEF e
      <4>2. CASE k # 1
        <5>1. k - 1 \in 1 .. m /\ (k - 1) + 1 = k
          BY <2>1, <4>2
        <5>2. u[k] = w[k - 1]
          BY <2>3, <5>1
        <5>3. R[k] = Printed(w)[k - 1]
          BY <3>4, <5>1
        <5> QED
          BY <3>2, <3>3, <5>1, <5>2, <5>3
      <4> QED
        BY <4>1, <4>2
    <3>6. Printed(u) = R
      BY <2>4, <3>1, <3>4, <3>5, SeqEqual
    <3> QED
      BY <3>6 DEF R, e
  <2> DEFINE p == Escaped(c)
             F == FlattenSeq(Printed(w))
  <2>7. F \in Seq(Y)
    BY <2>4, FlattenType
  <2>8. FlattenSeq(Printed(u)) = p \o F
    BY <2>4, <2>5, <2>6, FlattenFirst
  <2>9. Stands(t, p \o F, j, last)
    BY <2>8
  <2> HIDE DEF F, Y
  <2>10. /\ \A k \in 1 .. Len(p) : t[j + k - 1] = p[k]
        /\ Len(p) <= last + 1 - j /\ Stands(t, F, j + Len(p), last)
    <3>1. j \in Nat
      OBVIOUS
    <3> HIDE DEF p
    <3> QED
      BY <1>1, <2>5, <2>7, <2>9, <3>1, StandsFurther DEF p
  <2>11. ASSUME NEW l \in Nat \ {0}, Len(p) = l
         PROVE  j + l \in 1 .. (n + 1) /\ w \in Unquoted(t, j + l, last)
    <3>1. j + l \in 1 .. (n + 1)
      <4> HIDE DEF p, n
      <4> QED
        BY <1>1, <2>10, <2>11
    <3> QED
      BY <2>1, <2>2, <2>10, <2>11, <3>1 DEF F
  <2>12. \A k \in Nat : k < Len(p) => At(t, j + k) = p[k + 1] /\ j + k <= last
    <3> SUFFICES ASSUME NEW k \in Nat, k < Len(p) PROVE At(t, j + k) = p[k + 1] /\ j + k <= last
      OBVIOUS
    <3>1. Len(p) \in Nat
      BY <2>5
    <3> HIDE DEF p, n
    <3>2. k + 1 \in 1 .. Len(p) /\ j + (k + 1) - 1 = j + k /\ j + k <= last
      BY <1>1, <2>10, <3>1
    <3>3. j + k <= Len(t)
      BY <1>1, <3>2 DEF n
    <3> QED
      BY <2>10, <3>2, <3>3 DEF At
  <2>13. /\ 0 < Len(p) => At(t, j) = p[1] /\ j <= last
         /\ 1 < Len(p) => At(t, j + 1) = p[2] /\ j + 1 <= last
         /\ 2 < Len(p) => At(t, j + 2) = p[3] /\ j + 2 <= last
    <3> HIDE DEF p
    <3>1. 0 < Len(p) => At(t, j + 0) = p[0 + 1] /\ j + 0 <= last
      BY <2>12
    <3>2. 1 < Len(p) => At(t, j + 1) = p[1 + 1] /\ j + 1 <= last
      BY <2>12
    <3>3. 2 < Len(p) => At(t, j + 2) = p[2 + 1] /\ j + 2 <= last
      BY <2>12
    <3> QED
      BY <3>1, <3>2, <3>3
  <2>14. SaysFirst(t, j, last, u)
    <3> HIDE DEF n
    <3>1. EscapeRead(c)
      BY EscapeIsRead
    <3>2. CASE Escaped(c) = <<c>> /\ c \notin Disallowed \cup {Quote, Backslash}
      <4>1. Len(p) = 1 /\ p[1] = c
        BY <3>2
      <4>2. At(t, j) = c /\ j <= last
        BY <2>13, <4>1
      <4>3. w \in Unquoted(t, j + 1, last)
        BY <2>11, <4>1
      <4> QED
        BY <2>2, <3>2, <4>2, <4>3 DEF SaysFirst
    <3>3. CASE \E e \in DOMAIN Unescaped : Escaped(c) = <<Backslash, e>> /\ Unescaped[e] = c
      <4>1. PICK e \in DOMAIN Unescaped : Escaped(c) = <<Backslash, e>> /\ Unescaped[e] = c
        BY <3>3
      <4>2. Len(p) = 2 /\ p[1] = Backslash /\ p[2] = e
        BY <4>1
      <4>3. 0 < Len(p) /\ 1 < Len(p)
        BY <4>2
      <4>4. At(t, j) = Backslash /\ At(t, j + 1) = e /\ j < last
        BY <1>1, <2>13, <4>2, <4>3
      <4>5. w \in Unquoted(t, j + 2, last)
        BY <2>11, <4>2
      <4> QED
        BY <2>2, <4>1, <4>4, <4>5 DEF SaysFirst
    <3>4. CASE Escaped(c) = <<Backslash, "u", "hex">> /\ c = "wide"
      <4>1. Len(p) = 3 /\ p[1] = Backslash /\ p[2] = "u" /\ p[3] = "hex"
        BY <3>4
      <4>2. 0 < Len(p) /\ 1 < Len(p) /\ 2 < Len(p)
        BY <4>1
      <4>3. /\ At(t, j) = Backslash /\ At(t, j + 1) = "u" /\ At(t, j + 2) = "hex"
            /\ j + 1 < last
        BY <1>1, <2>13, <4>1, <4>2
      <4>4. w \in Unquoted(t, j + 3, last)
        BY <2>11, <4>1
      <4> QED
        BY <2>2, <3>4, <4>3, <4>4 DEF SaysFirst
    <3> QED
      BY <3>1, <3>2, <3>3, <3>4 DEF EscapeRead
  <2> QED
    BY <2>14, UnquotedStep
<1>4. N = Nat
  <2> HIDE DEF N
  <2> QED
    BY <1>2, <1>3, AllNumbers DEF N
<1>5. Len(s) \in N
  BY <1>4
<1> QED
  BY <1>5

\* For every string whatever: what JSONValue::StringifyString prints, JSON::Parse reads
\* back as that string, however many of its characters have to be escaped.
THEOREM StringsReadBack ==
  ASSUME NEW X, End \notin X, NEW s \in Seq(X)
  PROVE  JsonParse(StringifyString(s)).ok /\ JsonParse(StringifyString(s)).val = <<"string", s>>
<1> DEFINE Y == Characters(X)
           F == FlattenSeq(Printed(s))
           t == StringifyString(s)
           n == Len(t)
<1>1. F \in Seq(Y)
  BY EscapedType, FlattenType
<1>2. Quote \in Y /\ t = <<Quote>> \o F \o <<Quote>>
  BY DEF Characters, StringifyString, Printed
<1> HIDE DEF Y, F
<1>3. /\ t \in Seq(Y) /\ n = Len(F) + 2 /\ Len(F) \in Nat /\ t[1] = Quote /\ t[Len(F) + 2] = Quote
      /\ \A k \in 1 .. Len(F) : t[k + 1] = F[k]
  <2> HIDE DEF t
  <2> QED
    BY <1>1, <1>2
<1> HIDE DEF t
<1>4. End \notin Y
  BY EscapeEnds DEF Characters, Y, End
<1>5. s \in Unquoted(t, 2, n - 1)
  <2>1. 2 \in 1 .. (n + 1) /\ n - 1 \in 0 .. n
    BY <1>3
  <2>2. Len(F) = (n - 1) + 1 - 2 /\ \A k \in 1 .. Len(F) : t[2 + k - 1] = F[k]
    <3>1. \A k \in 1 .. Len(F) : 2 + k - 1 = k + 1
      BY <1>3
    <3> QED
      BY <1>3, <3>1
  <2>3. Stands(t, FlattenSeq(Printed(s)), 2, n - 1)
    BY <2>2 DEF Stands, F
  <2> QED
    BY <1>3, <2>1, <2>3, PrintedIsUnquoted
<1>6. PICK m : IsGrammar(t, m) /\ Denoted(t) = Padded(t, m, 1, n)
  BY <1>3, MeansIs
<1>7. <<"string", s>> \in m[<<"value", 1, n>>]
  <2>1. 1 + 1 = 2 /\ 1 < n /\ 1 \in 1 .. (n + 1) /\ n \in 0 .. n
    BY <1>3
  <2>2. IsString(t, 1, n, <<"string", s>>)
    BY <1>3, <1>5, <2>1 DEF IsString
  <2>3. <<"string", s>> \in Value(t, m, 1, n)
    BY <2>2, InValue
  <2> QED
    BY <1>6, <2>1, <2>3 DEF IsGrammar
<1>8. <<"string", s>> \in Padded(t, m, 1, n)
  <2>1. t[1] \notin White
    BY <1>3, Solid
  <2>2. AllWhite(t, 1, 1 - 1) /\ AllWhite(t, n + 1, n)
    BY <1>3 DEF AllWhite
  <2>3. 1 \in Nat /\ n \in Nat /\ 1 <= 1 /\ 1 <= n /\ n <= n
    BY <1>3
  <2> QED
    BY <1>7, <2>1, <2>2, <2>3, Place
<1>9. <<"string", s>> \in Denoted(t)
  BY <1>6, <1>8
<1> QED
  BY <1>3, <1>4, <1>9, DocumentIs DEF t

===============================================================================
