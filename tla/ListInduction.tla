---------------------------- MODULE ListInduction ----------------------------
(***************************************************************************)
(* Induction over numbers and lists whose hypothesis is a set: what the    *)
(* recursive functions of the models compute is shown with it, for lists   *)
(* of any length.                                                          *)
(***************************************************************************)
EXTENDS Lists, WellFoundedInduction, TLAPS

\* A set of numbers with 0 and with the successor of each of its elements.
LEMMA AllNumbers ==
  ASSUME NEW S \in SUBSET Nat, 0 \in S, \A n \in S : n + 1 \in S
  PROVE  S = Nat
<1> SUFFICES ASSUME Nat \ S # {} PROVE FALSE
  OBVIOUS
<1> DEFINE R == OpToRel(<, Nat)
<1>1. \E x \in Nat \ S : \A y \in Nat \ S : <<y, x>> \notin R
  <2>1. IsWellFoundedOn(R, Nat)
    BY NatLessThanWellFounded
  <2> HIDE DEF R
  <2> QED
    BY <2>1, WFMin
<1>2. PICK x \in Nat \ S : \A y \in Nat \ S : <<y, x>> \notin R
  BY <1>1
<1>3. \A y \in Nat \ S : ~ (y < x)
  BY <1>2 DEF OpToRel
<1>4. x # 0 /\ x - 1 \in Nat /\ x - 1 < x
  OBVIOUS
<1> QED
  BY <1>3, <1>4

\* A set of lists with the empty one and with each of its elements continued.
LEMMA AllLists ==
  ASSUME NEW T, NEW P \in SUBSET Seq(T), <<>> \in P,
         \A s \in P, e \in T : Append(s, e) \in P
  PROVE  P = Seq(T)
<1> DEFINE N == {n \in Nat : \A s \in Seq(T) : Len(s) = n => s \in P}
<1>1. 0 \in N
  OBVIOUS
<1>2. ASSUME NEW n \in N PROVE n + 1 \in N
  <2> SUFFICES ASSUME NEW s \in Seq(T), Len(s) = n + 1 PROVE s \in P
    OBVIOUS
  <2> DEFINE front == [i \in 1 .. n |-> s[i]]
  <2>1. front \in Seq(T) /\ Len(front) = n /\ s[n + 1] \in T
    OBVIOUS
  <2>2. front \in P
    BY <2>1
  <2>3. s = Append(front, s[n + 1])
    BY <2>1
  <2> QED
    BY <2>1, <2>2, <2>3
<1>3. N = Nat
  <2> HIDE DEF N
  <2> QED
    BY <1>1, <1>2, AllNumbers DEF N
<1>4. ASSUME NEW s \in Seq(T) PROVE s \in P
  <2>1. Len(s) \in N
    BY <1>3
  <2> QED
    BY <2>1
<1> QED
  BY <1>4

\* Every set of numbers that has one has a least one.
LEMMA LeastNumber ==
  ASSUME NEW S \in SUBSET Nat, S # {}
  PROVE  \E m \in S : \A k \in S : m <= k
<1> SUFFICES ASSUME \A m \in S : \E k \in S : k < m PROVE FALSE
  OBVIOUS
<1> DEFINE N == {n \in Nat : \A k \in S : n <= k}
<1>1. 0 \in N
  OBVIOUS
<1>2. ASSUME NEW n \in N PROVE n + 1 \in N
  OBVIOUS
<1>3. N = Nat
  <2> HIDE DEF N
  <2> QED
    BY <1>1, <1>2, AllNumbers DEF N
<1>4. PICK k \in S : TRUE
  OBVIOUS
<1>5. k + 1 \in N
  BY <1>3
<1> QED
  BY <1>5

-------------------------------------------------------------------------------
(* Only: the elements of a list that are in a set. *)

\* f is the recursive function of Only.
Keeps(s, S, f) ==
  f = [i \in 0 .. Len(s) |->
        IF i = 0 THEN <<>>
        ELSE IF s[i] \in S THEN Append(f[i - 1], s[i])
        ELSE f[i - 1]]

LEMMA KeepsUnique ==
  ASSUME NEW T, NEW s \in Seq(T), NEW S, NEW f, NEW g, Keeps(s, S, f), Keeps(s, S, g)
  PROVE  f = g
<1> DEFINE N == {n \in Nat : n <= Len(s) => f[n] = g[n]}
<1>1. 0 \in N
  BY DEF Keeps
<1>2. ASSUME NEW n \in N PROVE n + 1 \in N
  <2> SUFFICES ASSUME n + 1 <= Len(s) PROVE f[n + 1] = g[n + 1]
    OBVIOUS
  <2>1. f[n] = g[n]
    OBVIOUS
  <2>2. n + 1 \in 0 .. Len(s) /\ n + 1 # 0 /\ (n + 1) - 1 = n
    OBVIOUS
  <2>3. f[n + 1] = IF s[n + 1] \in S THEN Append(f[n], s[n + 1]) ELSE f[n]
    BY <2>2 DEF Keeps
  <2>4. g[n + 1] = IF s[n + 1] \in S THEN Append(g[n], s[n + 1]) ELSE g[n]
    BY <2>2 DEF Keeps
  <2> QED
    BY <2>1, <2>3, <2>4
<1>3. N = Nat
  BY <1>1, <1>2, AllNumbers
<1>4. \A n \in 0 .. Len(s) : f[n] = g[n]
  BY <1>3
<1>5. DOMAIN f = 0 .. Len(s) /\ DOMAIN g = 0 .. Len(s)
  BY DEF Keeps
<1>6. f = [n \in DOMAIN f |-> f[n]] /\ g = [n \in DOMAIN g |-> g[n]]
  BY DEF Keeps
<1> QED
  BY <1>4, <1>5, <1>6

\* What f says of a list and of one element more.
LEMMA KeepsAppend ==
  ASSUME NEW T, NEW s \in Seq(T), NEW e \in T, NEW S, NEW f, Keeps(s, S, f),
         NEW g, g = [i \in 0 .. Len(s) + 1 |->
                       IF i <= Len(s) THEN f[i]
                       ELSE IF e \in S THEN Append(f[Len(s)], e)
                       ELSE f[Len(s)]]
  PROVE  Keeps(Append(s, e), S, g)
<1> DEFINE t == Append(s, e)
           body(i) == IF i = 0 THEN <<>>
                      ELSE IF t[i] \in S THEN Append(g[i - 1], t[i])
                      ELSE g[i - 1]
<1>1. /\ Len(s) \in Nat /\ Len(t) = Len(s) + 1 /\ t[Len(s) + 1] = e
      /\ \A i \in 1 .. Len(s) : t[i] = s[i]
  OBVIOUS
<1>2. ASSUME NEW i \in 0 .. Len(s) PROVE g[i] = body(i)
  <2>1. g[i] = f[i] /\ (i # 0 => i - 1 \in 0 .. Len(s) /\ g[i - 1] = f[i - 1])
    BY <1>1
  <2>2. f[i] = IF i = 0 THEN <<>>
               ELSE IF s[i] \in S THEN Append(f[i - 1], s[i])
               ELSE f[i - 1]
    BY DEF Keeps
  <2> QED
    BY <1>1, <2>1, <2>2
<1>3. g[Len(s) + 1] = body(Len(s) + 1)
  <2>1. g[Len(s)] = f[Len(s)]
    BY <1>1
  <2> QED
    BY <1>1, <2>1
<1>4. \A i \in 0 .. Len(s) + 1 : g[i] = body(i)
  <2>1. \A i \in 0 .. Len(s) + 1 : i \in 0 .. Len(s) \/ i = Len(s) + 1
    BY <1>1
  <2> HIDE DEF body
  <2> QED
    BY <1>2, <1>3, <2>1
<1>5. g = [i \in 0 .. Len(s) + 1 |-> g[i]]
  OBVIOUS
<1>6. g = [i \in 0 .. Len(s) + 1 |-> body(i)]
  <2> HIDE DEF body
  <2> QED
    BY <1>4, <1>5
<1> QED
  BY <1>1, <1>6 DEF Keeps

LEMMA KeepsExists ==
  ASSUME NEW T, NEW s \in Seq(T), NEW S
  PROVE  \E f : Keeps(s, S, f)
<1> DEFINE P == {t \in Seq(T) : \E f : Keeps(t, S, f)}
<1>1. <<>> \in P
  <2>1. Keeps(<<>>, S, [i \in 0 .. 0 |-> <<>>])
    BY DEF Keeps
  <2> QED
    BY <2>1
<1>2. ASSUME NEW t \in P, NEW e \in T PROVE Append(t, e) \in P
  <2>1. PICK f : Keeps(t, S, f)
    OBVIOUS
  <2>2. Keeps(Append(t, e), S,
              [i \in 0 .. Len(t) + 1 |->
                 IF i <= Len(t) THEN f[i]
                 ELSE IF e \in S THEN Append(f[Len(t)], e)
                 ELSE f[Len(t)]])
    BY <2>1, KeepsAppend
  <2> QED
    BY <2>2
<1>3. P = Seq(T)
  <2> HIDE DEF P
  <2> QED
    BY <1>1, <1>2, AllLists DEF P
<1> QED
  BY <1>3

LEMMA OnlyIs ==
  ASSUME NEW T, NEW s \in Seq(T), NEW S, NEW f, Keeps(s, S, f)
  PROVE  Only(s, S) = f[Len(s)]
<1> DEFINE g == CHOOSE h : Keeps(s, S, h)
<1>1. Keeps(s, S, g)
  OBVIOUS
<1>2. Only(s, S) = g[Len(s)]
  BY Zenon DEF Only, Keeps
<1>3. f = g
  <2> HIDE DEF g
  <2> QED
    BY <1>1, KeepsUnique
<1> QED
  BY <1>2, <1>3

\* Only, one element after the other.
LEMMA OnlyNone ==
  ASSUME NEW S
  PROVE  Only(<<>>, S) = <<>>
<1>1. Keeps(<<>>, S, [i \in 0 .. 0 |-> <<>>])
  BY DEF Keeps
<1>2. <<>> \in Seq({})
  OBVIOUS
<1>3. Only(<<>>, S) = [i \in 0 .. 0 |-> <<>>][Len(<<>>)]
  BY <1>1, <1>2, OnlyIs
<1> QED
  BY <1>3

LEMMA OnlyAppend ==
  ASSUME NEW T, NEW s \in Seq(T), NEW e \in T, NEW S
  PROVE  Only(Append(s, e), S) = IF e \in S THEN Append(Only(s, S), e) ELSE Only(s, S)
<1>1. PICK f : Keeps(s, S, f)
  BY KeepsExists
<1>2. PICK g : g = [i \in 0 .. Len(s) + 1 |->
                      IF i <= Len(s) THEN f[i]
                      ELSE IF e \in S THEN Append(f[Len(s)], e)
                      ELSE f[Len(s)]]
  OBVIOUS
<1>3. Keeps(Append(s, e), S, g)
  BY <1>1, <1>2, KeepsAppend
<1>4. Append(s, e) \in Seq(T) /\ Len(Append(s, e)) = Len(s) + 1 /\ Len(s) \in Nat
  OBVIOUS
<1>5. Only(s, S) = f[Len(s)] /\ Only(Append(s, e), S) = g[Len(s) + 1]
  BY <1>1, <1>3, <1>4, OnlyIs
<1>6. g[Len(s) + 1] = IF e \in S THEN Append(f[Len(s)], e) ELSE f[Len(s)]
  BY <1>2, <1>4
<1> QED
  BY <1>5, <1>6

\* Only asks for nothing but the elements.
LEMMA OnlySame ==
  ASSUME NEW T, NEW s \in Seq(T), NEW R, NEW S,
         \A i \in 1 .. Len(s) : s[i] \in R <=> s[i] \in S
  PROVE  Only(s, R) = Only(s, S)
<1>1. PICK f : Keeps(s, R, f)
  BY KeepsExists
<1>2. \A i \in 0 .. Len(s) : i # 0 => i \in 1 .. Len(s)
  OBVIOUS
<1>3. ASSUME NEW i \in 0 .. Len(s)
      PROVE  (IF i = 0 THEN <<>> ELSE IF s[i] \in R THEN Append(f[i - 1], s[i]) ELSE f[i - 1])
               = (IF i = 0 THEN <<>> ELSE IF s[i] \in S THEN Append(f[i - 1], s[i]) ELSE f[i - 1])
  BY <1>2
<1>4. Keeps(s, S, f)
  BY <1>1, <1>3 DEF Keeps
<1> QED
  BY <1>1, <1>4, OnlyIs

LEMMA OnlyType ==
  ASSUME NEW T, NEW s \in Seq(T), NEW S
  PROVE  Only(s, S) \in Seq(T \cap S)
<1> DEFINE P == {t \in Seq(T) : Only(t, S) \in Seq(T \cap S)}
<1>1. <<>> \in P
  <2>1. Only(<<>>, S) = <<>> /\ <<>> \in Seq(T) /\ <<>> \in Seq(T \cap S)
    BY OnlyNone
  <2> QED
    BY <2>1
<1>2. ASSUME NEW t \in P, NEW e \in T PROVE Append(t, e) \in P
  <2>1. Only(Append(t, e), S) = IF e \in S THEN Append(Only(t, S), e) ELSE Only(t, S)
    BY OnlyAppend
  <2>2. Only(t, S) \in Seq(T \cap S)
    OBVIOUS
  <2>3. Only(Append(t, e), S) \in Seq(T \cap S)
    BY <2>1, <2>2
  <2> QED
    BY <2>3
<1>3. P = Seq(T)
  <2> HIDE DEF P
  <2> QED
    BY <1>1, <1>2, AllLists DEF P
<1> QED
  BY <1>3

LEMMA OnlyAll ==
  ASSUME NEW T, NEW s \in Seq(T), NEW S, \A i \in 1 .. Len(s) : s[i] \in S
  PROVE  Only(s, S) = s
<1> DEFINE P == {t \in Seq(T) : (\A i \in 1 .. Len(t) : t[i] \in S) => Only(t, S) = t}
<1>1. <<>> \in P
  <2>1. Only(<<>>, S) = <<>> /\ <<>> \in Seq(T)
    BY OnlyNone
  <2> QED
    BY <2>1
<1>2. ASSUME NEW t \in P, NEW e \in T PROVE Append(t, e) \in P
  <2>1. Only(Append(t, e), S) = IF e \in S THEN Append(Only(t, S), e) ELSE Only(t, S)
    BY OnlyAppend
  <2>2. /\ Append(t, e) \in Seq(T) /\ Len(Append(t, e)) = Len(t) + 1 /\ Len(t) \in Nat
        /\ Append(t, e)[Len(t) + 1] = e /\ \A i \in 1 .. Len(t) : Append(t, e)[i] = t[i]
    OBVIOUS
  <2>3. ASSUME \A i \in 1 .. Len(Append(t, e)) : Append(t, e)[i] \in S
        PROVE  e \in S /\ \A i \in 1 .. Len(t) : t[i] \in S
    <3>1. Len(t) + 1 \in 1 .. Len(Append(t, e)) /\ 1 .. Len(t) \subseteq 1 .. Len(Append(t, e))
      BY <2>2
    <3> QED
      BY <2>2, <2>3, <3>1
  <2> QED
    BY <2>1, <2>2, <2>3
<1>3. P = Seq(T)
  <2> HIDE DEF P
  <2> QED
    BY <1>1, <1>2, AllLists DEF P
<1> QED
  BY <1>3

===============================================================================
