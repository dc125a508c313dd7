----------------------------- MODULE DocumentProofs ----------------------------
(***************************************************************************)
(* What the configuration and the printer make of a document the parser    *)
(* read, for documents of any length and depth, strings of any characters   *)
(* and any arithmetic of doubles: the one says what the file says, as far  *)
(* as it can keep it, and what the other prints is read back as the same    *)
(* document, as far as its numbers are shown.                              *)
(***************************************************************************)
EXTENDS JsonProofs

-------------------------------------------------------------------------------
(* Numbers: an integer without final zeros, times a power of ten. *)

\* A step of the recursive function of Number, and the function itself.
CutOnce(f, n) == IF n % 10 # 0 THEN <<n, 0>> ELSE <<f[n \div 10][1], f[n \div 10][2] + 1>>

Cuts(f) == f = [n \in Int \ {0} |-> CutOnce(f, n)]

Magnitude == [n \in Int \ {0} |-> IF n < 0 THEN -n ELSE n]

LEMMA Tenth ==
  ASSUME NEW n \in Int \ {0}, n % 10 = 0
  PROVE  n \div 10 \in Int \ {0} /\ Magnitude[n \div 10] < Magnitude[n] /\ n = 10 * (n \div 10)
<1>1. n \div 10 \in Int /\ n = 10 * (n \div 10)
  BY SMT
<1> DEFINE q == n \div 10
<1>2. q \in Int /\ n = 10 * q
  BY <1>1
<1> HIDE DEF q
<1>3. q # 0 /\ Magnitude[q] < Magnitude[n]
  BY <1>2 DEF Magnitude
<1> QED
  BY <1>1, <1>2, <1>3 DEF q

\* A function that is right as far as some magnitude.
CutsTo(f, m) == \A n \in Int \ {0} : Magnitude[n] < m => f[n] = CutOnce(f, n)

LEMMA MagnitudeType == Magnitude \in [Int \ {0} -> Nat]
BY DEF Magnitude

LEMMA CutLocal ==
  ASSUME NEW f, NEW g, NEW n \in Int \ {0},
         n % 10 = 0 => f[n \div 10] = g[n \div 10]
  PROVE  CutOnce(f, n) = CutOnce(g, n)
BY DEF CutOnce

LEMMA CutsToExists ==
  ASSUME NEW m \in Nat
  PROVE  \E f : CutsTo(f, m)
<1> DEFINE D == Int \ {0}
           W == {k \in Nat : \E f : CutsTo(f, k)}
<1>1. 0 \in W
  BY MagnitudeType DEF CutsTo
<1>2. ASSUME NEW k \in W PROVE k + 1 \in W
  <2>1. PICK f : CutsTo(f, k)
    OBVIOUS
  <2> DEFINE g == [n \in D |-> IF Magnitude[n] < k THEN f[n] ELSE CutOnce(f, n)]
  <2>2. \A n \in D : g[n] = CutOnce(f, n)
    BY <2>1 DEF CutsTo
  <2>3. \A n \in D : Magnitude[n] < k => g[n] = f[n]
    OBVIOUS
  <2> HIDE DEF g
  <2>4. ASSUME NEW n \in D, Magnitude[n] < k + 1 PROVE g[n] = CutOnce(g, n)
    <3>1. ASSUME n % 10 = 0 PROVE f[n \div 10] = g[n \div 10]
      <4>1. n \div 10 \in D /\ Magnitude[n \div 10] < Magnitude[n]
        BY <3>1, Tenth
      <4>2. Magnitude[n \div 10] \in Nat /\ Magnitude[n] \in Nat /\ k \in Nat
        BY <4>1, MagnitudeType
      <4>3. Magnitude[n \div 10] < k
        BY <2>4, <4>1, <4>2
      <4> QED
        BY <2>3, <4>1, <4>3
    <3>2. CutOnce(f, n) = CutOnce(g, n)
      BY <3>1, CutLocal
    <3> QED
      BY <2>2, <3>2
  <2>5. CutsTo(g, k + 1)
    BY <2>4 DEF CutsTo
  <2> QED
    BY <2>5
<1>3. W = Nat
  <2> HIDE DEF W
  <2> QED
    BY <1>1, <1>2, AllNumbers DEF W
<1> QED
  BY <1>3

LEMMA CutsToUnique ==
  ASSUME NEW m \in Nat, NEW f, NEW g, CutsTo(f, m), CutsTo(g, m), NEW n \in Int \ {0}, Magnitude[n] < m
  PROVE  f[n] = g[n]
<1> DEFINE D == Int \ {0}
           S == {k \in D : Magnitude[k] < m => f[k] = g[k]}
<1>1. ASSUME NEW k \in D, \A j \in D : Magnitude[j] < Magnitude[k] => j \in S PROVE k \in S
  <2> SUFFICES ASSUME Magnitude[k] < m PROVE f[k] = g[k]
    OBVIOUS
  <2>1. ASSUME k % 10 = 0 PROVE f[k \div 10] = g[k \div 10]
    <3>1. k \div 10 \in D /\ Magnitude[k \div 10] < Magnitude[k]
      BY <2>1, Tenth
    <3>2. Magnitude[k \div 10] \in Nat /\ Magnitude[k] \in Nat
      BY <3>1, MagnitudeType
    <3>3. Magnitude[k \div 10] < m
      BY <3>1, <3>2
    <3> QED
      BY <1>1, <3>1, <3>3
  <2>2. CutOnce(f, k) = CutOnce(g, k)
    BY <2>1, CutLocal
  <2> QED
    BY <2>2 DEF CutsTo
<1>2. \A k \in D : k \in S
  <2> HIDE DEF D, S
  <2> QED
    BY <1>1, MagnitudeType, ByRank DEF D
<1> QED
  BY <1>2

LEMMA CutsExists == \E f : Cuts(f)
<1> DEFINE D == Int \ {0}
           F == [m \in Nat |-> CHOOSE f : CutsTo(f, m)]
           h == [n \in D |-> F[Magnitude[n] + 1][n]]
<1>1. ASSUME NEW m \in Nat PROVE CutsTo(F[m], m)
  <2>1. \E f : CutsTo(f, m)
    BY CutsToExists
  <2>2. F[m] = CHOOSE f : CutsTo(f, m)
    OBVIOUS
  <2> QED
    BY <2>1, <2>2
<1>2. \A n \in D : h[n] = F[Magnitude[n] + 1][n]
  OBVIOUS
<1>3. h = [n \in D |-> h[n]]
  OBVIOUS
<1> HIDE DEF F, h
<1>4. ASSUME NEW n \in D PROVE h[n] = CutOnce(h, n)
  <2> DEFINE k == Magnitude[n] + 1
  <2>1. k \in Nat /\ Magnitude[n] \in Nat /\ Magnitude[n] < k
    BY MagnitudeType
  <2>2. F[k][n] = CutOnce(F[k], n)
    BY <1>1, <2>1 DEF CutsTo
  <2>3. ASSUME n % 10 = 0 PROVE F[k][n \div 10] = h[n \div 10]
    <3> DEFINE q == n \div 10
               l == Magnitude[q] + 1
    <3>1. q \in D /\ Magnitude[q] < Magnitude[n]
      BY <2>3, Tenth
    <3>2. Magnitude[q] \in Nat /\ l \in Nat /\ Magnitude[q] < l /\ l <= k
      BY <2>1, <3>1, MagnitudeType
    <3>3. CutsTo(F[l], l)
      BY <1>1, <3>2
    <3>4. CutsTo(F[k], l)
      <4>1. \A j \in D : Magnitude[j] \in Nat
        BY MagnitudeType
      <4>2. \A j \in D : Magnitude[j] < l => Magnitude[j] < k
        <5> HIDE DEF k, l
        <5> QED
          BY <2>1, <3>2, <4>1
      <4> QED
        BY <1>1, <2>1, <4>2 DEF CutsTo
    <3> HIDE DEF k, l, q
    <3>5. F[l][q] = F[k][q]
      BY <3>1, <3>2, <3>3, <3>4, CutsToUnique
    <3> QED
      BY <1>2, <3>1, <3>5 DEF l, q
  <2>4. CutOnce(F[k], n) = CutOnce(h, n)
    BY <2>3, CutLocal
  <2> QED
    BY <1>2, <2>2, <2>4
<1>5. h = [n \in D |-> CutOnce(h, n)]
  BY <1>3, <1>4
<1> QED
  BY <1>5 DEF Cuts

\* A number as the library keeps it.
Normal(m, s) == m \in Int /\ s \in Int /\ (m = 0 => s = 0) /\ (m # 0 => m % 10 # 0)

\* What is cut off leaves an integer that needs no more cutting.
LEMMA CutNormal ==
  ASSUME NEW f, Cuts(f), NEW n \in Int \ {0}
  PROVE  f[n][1] \in Int \ {0} /\ f[n][1] % 10 # 0 /\ f[n][2] \in Int
<1> DEFINE D == Int \ {0}
           S == {k \in D : f[k][1] \in D /\ f[k][1] % 10 # 0 /\ f[k][2] \in Int}
<1>1. \A k \in D : f[k] = CutOnce(f, k)
  BY DEF Cuts
<1>2. ASSUME NEW k \in D, \A j \in D : Magnitude[j] < Magnitude[k] => j \in S PROVE k \in S
  <2>1. CASE k % 10 # 0
    <3>1. f[k] = <<k, 0>>
      BY <1>1, <2>1 DEF CutOnce
    <3> QED
      BY <2>1, <3>1
  <2>2. CASE k % 10 = 0
    <3> DEFINE q == k \div 10
    <3>1. q \in D /\ Magnitude[q] < Magnitude[k]
      BY <2>2, Tenth
    <3>2. f[k] = <<f[q][1], f[q][2] + 1>>
      BY <1>1, <2>2 DEF CutOnce
    <3>3. q \in S
      BY <1>2, <3>1
    <3> HIDE DEF q
    <3> QED
      BY <3>2, <3>3
  <2> QED
    BY <2>1, <2>2
<1>3. \A k \in D : k \in S
  <2> HIDE DEF D, S
  <2> QED
    BY <1>2, MagnitudeType, ByRank DEF D
<1> QED
  BY <1>3

LEMMA NumberCut == \E f : Cuts(f) /\ \A m, s : Number(m, s) =
    IF m = 0 THEN <<"number", 0, 0>> ELSE <<"number", f[m][1], s + f[m][2]>>
<1> DEFINE g == CHOOSE f : Cuts(f)
<1>1. Cuts(g)
  <2>1. \E f : Cuts(f)
    BY CutsExists
  <2> QED
    BY <2>1
<1>2. ASSUME NEW m, NEW s
      PROVE  Number(m, s) = IF m = 0 THEN <<"number", 0, 0>> ELSE <<"number", g[m][1], s + g[m][2]>>
  BY Zenon DEF Number, Cuts, CutOnce
<1> HIDE DEF g
<1> QED
  BY <1>1, <1>2, Zenon

LEMMA NumberNormal ==
  ASSUME NEW m \in Int, NEW s \in Int
  PROVE  /\ \E a, b : Number(m, s) = <<"number", a, b>> /\ Normal(a, b)
         /\ Normal(m, s) => Number(m, s) = <<"number", m, s>>
<1>1. PICK f : /\ Cuts(f)
               /\ Number(m, s) = IF m = 0 THEN <<"number", 0, 0>> ELSE <<"number", f[m][1], s + f[m][2]>>
  <2>1. PICK f : Cuts(f) /\ \A k, l : Number(k, l) =
          IF k = 0 THEN <<"number", 0, 0>> ELSE <<"number", f[k][1], l + f[k][2]>>
    BY NumberCut
  <2>2. Number(m, s) = IF m = 0 THEN <<"number", 0, 0>> ELSE <<"number", f[m][1], s + f[m][2]>>
    BY <2>1
  <2> QED
    BY <2>1, <2>2
<1>2. CASE m = 0
  <2>1. Normal(0, 0)
    BY DEF Normal
  <2> QED
    BY <1>1, <1>2, <2>1 DEF Normal
<1>3. CASE m # 0
  <2>1. m \in Int \ {0}
    BY <1>3
  <2>2. f[m][1] \in Int \ {0} /\ f[m][1] % 10 # 0 /\ f[m][2] \in Int
    BY <1>1, <2>1, CutNormal
  <2> DEFINE a == f[m][1]
             b == s + f[m][2]
  <2>3. Normal(a, b)
    BY <2>2 DEF Normal
  <2>4. Number(m, s) = <<"number", a, b>>
    BY <1>1, <1>3
  <2>5. ASSUME Normal(m, s) PROVE Number(m, s) = <<"number", m, s>>
    <3>1. m % 10 # 0
      BY <1>3, <2>5 DEF Normal
    <3>2. f[m] = CutOnce(f, m)
      BY <1>1, <2>1 DEF Cuts
    <3>3. f[m] = <<m, 0>>
      BY <3>1, <3>2 DEF CutOnce
    <3>4. a = m /\ b = s
      BY <3>3
    <3> HIDE DEF a, b
    <3> QED
      BY <2>4, <3>4
  <2> HIDE DEF a, b
  <2> QED
    BY <2>3, <2>4, <2>5
<1> QED
  BY <1>2, <1>3


\* f is the recursive function of ParseInt.
Integers10(q, f) ==
  f = [k \in 0 .. Len(q) |->
        IF k = 0 THEN 0
        ELSE IF q[k] \in Digits THEN 10 * f[k - 1] + DigitValue[q[k]]
        ELSE f[k - 1]]

LEMMA DigitValueIs ==
  /\ DigitValue \in [Digits -> 0 .. 9]
  /\ \A d \in 0 .. 9 : /\ DigitChars[d + 1] \in Digits /\ DigitValue[DigitChars[d + 1]] = d
                       /\ DigitChars[d + 1] = "0" <=> d = 0
<1>1. /\ DigitChars[1] = "0" /\ DigitChars[2] = "1" /\ DigitChars[3] = "2" /\ DigitChars[4] = "3"
      /\ DigitChars[5] = "4" /\ DigitChars[6] = "5" /\ DigitChars[7] = "6" /\ DigitChars[8] = "7"
      /\ DigitChars[9] = "8" /\ DigitChars[10] = "9"
  BY DEF DigitChars
<1>2. \A k, l \in 1 .. 10 : DigitChars[k] = DigitChars[l] => k = l
  <2> SUFFICES ASSUME NEW k \in 1 .. 10, NEW l \in 1 .. 10, DigitChars[k] = DigitChars[l]
               PROVE  k = l
    OBVIOUS
  <2>1. \A n \in 1 .. 10 : n = 1 \/ n = 2 \/ n = 3 \/ n = 4 \/ n = 5 \/ n = 6 \/ n = 7 \/ n = 8 \/ n = 9 \/ n = 10
    OBVIOUS
  <2> QED
    BY <1>1, <2>1
<1>3. Digits = {DigitChars[k] : k \in 1 .. 10}
  <2>1. DOMAIN DigitChars = 1 .. 10
    BY DEF DigitChars
  <2> QED
    BY <2>1 DEF Digits, ToSet
<1>4. ASSUME NEW k \in 1 .. 10 PROVE DigitValue[DigitChars[k]] = k - 1
  <2>1. DigitValue[DigitChars[k]] = (CHOOSE n \in 1 .. 10 : DigitChars[n] = DigitChars[k]) - 1
    BY <1>3 DEF DigitValue
  <2>2. (CHOOSE n \in 1 .. 10 : DigitChars[n] = DigitChars[k]) = k
    BY <1>2
  <2> QED
    BY <2>1, <2>2
<1>5. \A d \in 0 .. 9 : d + 1 \in 1 .. 10 /\ (d + 1) - 1 = d
  OBVIOUS
<1>6. DigitValue \in [Digits -> 0 .. 9]
  <2>1. DigitValue = [c \in Digits |-> DigitValue[c]]
    BY DEF DigitValue
  <2>2. \A c \in Digits : DigitValue[c] \in 0 .. 9
    <3>1. \A k \in 1 .. 10 : k - 1 \in 0 .. 9
      OBVIOUS
    <3> QED
      BY <1>3, <1>4, <3>1
  <2> QED
    BY <2>1, <2>2
<1>7. \A d \in 0 .. 9 : DigitChars[d + 1] = "0" <=> d = 0
  <2>1. \A d \in 0 .. 9 : DigitChars[d + 1] = DigitChars[1] => d + 1 = 1
    BY <1>2, <1>5
  <2> QED
    BY <1>1, <2>1
<1> QED
  BY <1>3, <1>4, <1>5, <1>6, <1>7

LEMMA IntegersUnique ==
  ASSUME NEW C, NEW q \in Seq(C), NEW f, NEW g, Integers10(q, f), Integers10(q, g)
  PROVE  f = g
<1> DEFINE N == {n \in Nat : n <= Len(q) => f[n] = g[n]}
<1>1. 0 \in N
  BY DEF Integers10
<1>2. ASSUME NEW n \in N PROVE n + 1 \in N
  <2> SUFFICES ASSUME n + 1 <= Len(q) PROVE f[n + 1] = g[n + 1]
    OBVIOUS
  <2>1. f[n] = g[n]
    OBVIOUS
  <2>2. n + 1 \in 0 .. Len(q) /\ n + 1 # 0 /\ (n + 1) - 1 = n
    OBVIOUS
  <2>3. f[n + 1] = IF q[n + 1] \in Digits THEN 10 * f[n] + DigitValue[q[n + 1]] ELSE f[n]
    BY <2>2 DEF Integers10
  <2>4. g[n + 1] = IF q[n + 1] \in Digits THEN 10 * g[n] + DigitValue[q[n + 1]] ELSE g[n]
    BY <2>2 DEF Integers10
  <2> QED
    BY <2>1, <2>3, <2>4
<1>3. N = Nat
  BY <1>1, <1>2, AllNumbers
<1>4. \A n \in 0 .. Len(q) : f[n] = g[n]
  BY <1>3
<1>5. DOMAIN f = 0 .. Len(q) /\ DOMAIN g = 0 .. Len(q)
  BY DEF Integers10
<1>6. f = [n \in DOMAIN f |-> f[n]] /\ g = [n \in DOMAIN g |-> g[n]]
  BY DEF Integers10
<1> QED
  BY <1>4, <1>5, <1>6

\* What f says of some characters and of one more.
LEMMA IntegersAppend ==
  ASSUME NEW C, NEW q \in Seq(C), NEW e \in C, NEW f, Integers10(q, f),
         NEW g, g = [k \in 0 .. Len(q) + 1 |->
                       IF k <= Len(q) THEN f[k]
                       ELSE IF e \in Digits THEN 10 * f[Len(q)] + DigitValue[e]
                       ELSE f[Len(q)]]
  PROVE  Integers10(Append(q, e), g)
<1> DEFINE t == Append(q, e)
           body(k) == IF k = 0 THEN 0
                      ELSE IF t[k] \in Digits THEN 10 * g[k - 1] + DigitValue[t[k]]
                      ELSE g[k - 1]
<1>1. /\ Len(q) \in Nat /\ Len(t) = Len(q) + 1 /\ t[Len(q) + 1] = e
      /\ \A k \in 1 .. Len(q) : t[k] = q[k]
  OBVIOUS
<1>2. ASSUME NEW k \in 0 .. Len(q) PROVE g[k] = body(k)
  <2>1. g[k] = f[k] /\ (k # 0 => k - 1 \in 0 .. Len(q) /\ g[k - 1] = f[k - 1])
    BY <1>1
  <2>2. f[k] = IF k = 0 THEN 0
               ELSE IF q[k] \in Digits THEN 10 * f[k - 1] + DigitValue[q[k]]
               ELSE f[k - 1]
    BY DEF Integers10
  <2> QED
    BY <1>1, <2>1, <2>2
<1>3. g[Len(q) + 1] = body(Len(q) + 1)
  <2>1. g[Len(q)] = f[Len(q)]
    BY <1>1
  <2> QED
    BY <1>1, <2>1
<1>4. \A k \in 0 .. Len(q) + 1 : g[k] = body(k)
  <2>1. \A k \in 0 .. Len(q) + 1 : k \in 0 .. Len(q) \/ k = Len(q) + 1
    BY <1>1
  <2> HIDE DEF body
  <2> QED
    BY <1>2, <1>3, <2>1
<1>5. g = [k \in 0 .. Len(q) + 1 |-> g[k]]
  OBVIOUS
<1>6. g = [k \in 0 .. Len(q) + 1 |-> body(k)]
  <2> HIDE DEF body
  <2> QED
    BY <1>4, <1>5
<1> QED
  BY <1>1, <1>6 DEF Integers10

LEMMA IntegersExists ==
  ASSUME NEW C, NEW q \in Seq(C)
  PROVE  \E f : Integers10(q, f)
<1> DEFINE P == {t \in Seq(C) : \E f : Integers10(t, f)}
<1>1. <<>> \in P
  <2>1. Integers10(<<>>, [k \in 0 .. 0 |-> 0])
    BY DEF Integers10
  <2> QED
    BY <2>1
<1>2. ASSUME NEW t \in P, NEW e \in C PROVE Append(t, e) \in P
  <2>1. PICK f : Integers10(t, f)
    OBVIOUS
  <2>2. Integers10(Append(t, e),
              [k \in 0 .. Len(t) + 1 |->
                 IF k <= Len(t) THEN f[k]
                 ELSE IF e \in Digits THEN 10 * f[Len(t)] + DigitValue[e]
                 ELSE f[Len(t)]])
    BY <2>1, IntegersAppend
  <2> QED
    BY <2>2
<1>3. P = Seq(C)
  <2> HIDE DEF P
  <2> QED
    BY <1>1, <1>2, AllLists DEF P
<1> QED
  BY <1>3

LEMMA ParseIntIs ==
  ASSUME NEW C, NEW q \in Seq(C), NEW f, Integers10(q, f)
  PROVE  ParseInt(q) = f[Len(q)]
<1> DEFINE g == CHOOSE h : Integers10(q, h)
<1>1. Integers10(q, g)
  OBVIOUS
<1>2. ParseInt(q) = g[Len(q)]
  BY Zenon DEF ParseInt, Integers10
<1>3. f = g
  <2> HIDE DEF g
  <2> QED
    BY <1>1, IntegersUnique
<1> QED
  BY <1>2, <1>3

\* ParseInt, one character after the other.
LEMMA ParseIntNone == ParseInt(<<>>) = 0
<1>1. Integers10(<<>>, [k \in 0 .. 0 |-> 0])
  BY DEF Integers10
<1>2. <<>> \in Seq({})
  OBVIOUS
<1>3. ParseInt(<<>>) = [k \in 0 .. 0 |-> 0][Len(<<>>)]
  BY <1>1, <1>2, ParseIntIs
<1> QED
  BY <1>3

LEMMA ParseIntAppend ==
  ASSUME NEW C, NEW q \in Seq(C), NEW e \in C
  PROVE  ParseInt(Append(q, e)) = IF e \in Digits THEN 10 * ParseInt(q) + DigitValue[e] ELSE ParseInt(q)
<1>1. PICK f : Integers10(q, f)
  BY IntegersExists
<1>2. PICK g : g = [k \in 0 .. Len(q) + 1 |->
                      IF k <= Len(q) THEN f[k]
                      ELSE IF e \in Digits THEN 10 * f[Len(q)] + DigitValue[e]
                      ELSE f[Len(q)]]
  OBVIOUS
<1>3. Integers10(Append(q, e), g)
  BY <1>1, <1>2, IntegersAppend
<1>4. Append(q, e) \in Seq(C) /\ Len(Append(q, e)) = Len(q) + 1 /\ Len(q) \in Nat
  OBVIOUS
<1>5. ParseInt(q) = f[Len(q)] /\ ParseInt(Append(q, e)) = g[Len(q) + 1]
  BY <1>1, <1>3, <1>4, ParseIntIs
<1>6. g[Len(q) + 1] = IF e \in Digits THEN 10 * f[Len(q)] + DigitValue[e] ELSE f[Len(q)]
  BY <1>2, <1>4
<1> QED
  BY <1>5, <1>6

LEMMA ParseIntType ==
  ASSUME NEW C, NEW q \in Seq(C)
  PROVE  ParseInt(q) \in Nat
<1> DEFINE P == {t \in Seq(C) : ParseInt(t) \in Nat}
<1>1. <<>> \in P
  <2>1. ParseInt(<<>>) = 0 /\ <<>> \in Seq(C)
    BY ParseIntNone
  <2> QED
    BY <2>1
<1>2. ASSUME NEW t \in P, NEW e \in C PROVE Append(t, e) \in P
  <2>1. ParseInt(Append(t, e)) = IF e \in Digits THEN 10 * ParseInt(t) + DigitValue[e] ELSE ParseInt(t)
    BY ParseIntAppend
  <2>2. e \in Digits => DigitValue[e] \in Nat
    BY DigitValueIs
  <2>3. ParseInt(t) \in Nat /\ Append(t, e) \in Seq(C)
    OBVIOUS
  <2>4. ParseInt(Append(t, e)) \in Nat
    BY <2>1, <2>2, <2>3
  <2> QED
    BY <2>3, <2>4
<1>3. P = Seq(C)
  <2> HIDE DEF P
  <2> QED
    BY <1>1, <1>2, AllLists DEF P
<1> QED
  BY <1>3

\* f is the recursive function of DigitsOf.
DigitsTo(n, f) ==
  f = [k \in 0 .. n |->
        IF k < 10 THEN <<DigitChars[k + 1]>>
        ELSE Append(f[k \div 10], DigitChars[(k % 10) + 1])]

LEMMA Tens ==
  ASSUME NEW k \in Nat, k >= 10
  PROVE  k \div 10 \in Nat /\ k \div 10 # 0 /\ k \div 10 < k /\ k % 10 \in 0 .. 9 /\ k = 10 * (k \div 10) + (k % 10)
BY SMT

LEMMA DigitsExists ==
  ASSUME NEW n \in Nat
  PROVE  \E f : DigitsTo(n, f)
<1> DEFINE step(f, k) == IF k < 10 THEN <<DigitChars[k + 1]>>
                         ELSE Append(f[k \div 10], DigitChars[(k % 10) + 1])
           W == {m \in Nat : \E f : DigitsTo(m, f)}
<1>1. 0 \in W
  <2>1. DigitsTo(0, [k \in 0 .. 0 |-> <<DigitChars[k + 1]>>])
    BY DEF DigitsTo
  <2> QED
    BY <2>1
<1>2. ASSUME NEW m \in W PROVE m + 1 \in W
  <2>1. PICK f : DigitsTo(m, f)
    OBVIOUS
  <2> DEFINE g == [k \in 0 .. (m + 1) |-> IF k <= m THEN f[k] ELSE step(f, m + 1)]
  <2>2. \A k \in 0 .. m : f[k] = step(f, k)
    BY <2>1 DEF DigitsTo
  <2>3. m \in Nat /\ \A k \in 0 .. (m + 1) : k >= 10 => k \div 10 \in 0 .. m
    <3>1. ASSUME NEW k \in 0 .. (m + 1), k >= 10 PROVE k \div 10 \in 0 .. m
      <4>1. k \in Nat /\ m \in Nat /\ k <= m + 1
        OBVIOUS
      <4>2. k \div 10 \in Nat /\ k \div 10 < k
        BY <3>1, <4>1, Tens
      <4> HIDE DEF W
      <4> DEFINE j == k \div 10
      <4>3. j \in Nat /\ j < k
        BY <4>2
      <4> HIDE DEF j
      <4>4. j \in 0 .. m
        BY <4>1, <4>3
      <4> QED
        BY <4>4 DEF j
    <3> QED
      BY <3>1
  <2>4. \A k \in 0 .. m : k \in 0 .. (m + 1) /\ g[k] = f[k]
    BY <2>3
  <2>5. g[m + 1] = step(f, m + 1) /\ m + 1 \in 0 .. (m + 1)
    <3> HIDE DEF step
    <3> QED
      BY <2>3
  <2>6. g = [k \in 0 .. (m + 1) |-> g[k]]
    <3> HIDE DEF step
    <3> QED
      OBVIOUS
  <2> HIDE DEF g
  <2>7. ASSUME NEW k \in 0 .. (m + 1) PROVE g[k] = step(g, k)
    <3>1. k >= 10 => g[k \div 10] = f[k \div 10]
      BY <2>3, <2>4
    <3>2. k < 10 \/ k >= 10
      OBVIOUS
    <3>3. step(g, k) = step(f, k)
      BY <3>1, <3>2
    <3>4. k \in 0 .. m \/ k = m + 1
      BY <2>3
    <3> HIDE DEF step
    <3> QED
      BY <2>2, <2>4, <2>5, <3>3, <3>4
  <2>8. DigitsTo(m + 1, g)
    BY <2>6, <2>7 DEF DigitsTo
  <2> QED
    BY <2>8
<1>3. W = Nat
  <2> HIDE DEF W
  <2> QED
    BY <1>1, <1>2, AllNumbers DEF W
<1> QED
  BY <1>3

\* The digits of a number: only a zero begins with one, and they say the number.
Spells(q, k) ==
  /\ q \in Seq(Digits) /\ Len(q) # 0 /\ (q[1] = "0" => Len(q) = 1)
  /\ (k # 0 => q[1] # "0") /\ ParseInt(q) = k

LEMMA DigitsSpell ==
  ASSUME NEW n \in Nat
  PROVE  Spells(DigitsOf(n), n)
<1> DEFINE f == CHOOSE h : DigitsTo(n, h)
<1>1. DigitsTo(n, f)
  <2>1. \E h : DigitsTo(n, h)
    BY DigitsExists
  <2> QED
    BY <2>1
<1>2. DigitsOf(n) = f[n]
  BY Zenon DEF DigitsOf, DigitsTo
<1> HIDE DEF f
<1> DEFINE D == 0 .. n
           rank == [k \in D |-> k]
           S == {k \in D : Spells(f[k], k)}
<1>3. rank \in [D -> Nat] /\ \A k \in D : rank[k] = k
  OBVIOUS
<1>4. ASSUME NEW k \in D, \A j \in D : rank[j] < rank[k] => j \in S PROVE k \in S
  <2>1. CASE k < 10
    <3> DEFINE c == DigitChars[k + 1]
    <3>1. f[k] = <<c>>
      BY <1>1, <2>1 DEF DigitsTo
    <3>2. k \in 0 .. 9
      BY <2>1
    <3>3. c \in Digits /\ DigitValue[c] = k /\ (c = "0" <=> k = 0)
      BY <3>2, DigitValueIs
    <3> HIDE DEF c
    <3>4. <<c>> = Append(<<>>, c) /\ <<>> \in Seq(Digits)
      OBVIOUS
    <3>5. ParseInt(<<c>>) = 10 * 0 + k
      BY <3>3, <3>4, ParseIntAppend, ParseIntNone
    <3>6. Spells(<<c>>, k)
      BY <3>3, <3>5 DEF Spells
    <3> QED
      BY <3>1, <3>6
  <2>2. CASE k >= 10
    <3> DEFINE j == k \div 10
               d == k % 10
               c == DigitChars[d + 1]
    <3>1. f[k] = Append(f[j], c)
      <4>1. f[k] = IF k < 10 THEN <<DigitChars[k + 1]>>
                   ELSE Append(f[k \div 10], DigitChars[(k % 10) + 1])
        BY <1>1, Zenon DEF DigitsTo
      <4>2. ~ (k < 10)
        BY <2>2
      <4> QED
        BY <4>1, <4>2
    <3>2. j \in Nat /\ j # 0 /\ j < k /\ d \in 0 .. 9 /\ k = 10 * j + d
      BY <2>2, Tens
    <3>3. c \in Digits /\ DigitValue[c] = d
      BY <3>2, DigitValueIs
    <3> HIDE DEF c, d, j
    <3>4. j \in D
      BY <3>2
    <3>5. Spells(f[j], j)
      <4>1. rank[j] < rank[k]
        BY <1>3, <3>2, <3>4
      <4> QED
        BY <1>4, <3>4, <4>1
    <3> DEFINE q == f[j]
    <3>6. q \in Seq(Digits) /\ Len(q) # 0 /\ q[1] # "0" /\ ParseInt(q) = j
      BY <3>2, <3>5 DEF Spells
    <3> HIDE DEF q
    <3>7. /\ Append(q, c) \in Seq(Digits) /\ Len(Append(q, c)) # 0 /\ Append(q, c)[1] = q[1]
      <4>1. Len(q) \in Nat /\ 1 \in 1 .. Len(q)
        BY <3>6
      <4> QED
        BY <3>3, <3>6, <4>1
    <3>8. ParseInt(Append(q, c)) = 10 * j + d
      BY <3>3, <3>6, ParseIntAppend
    <3>9. Spells(Append(q, c), k)
      BY <3>2, <3>6, <3>7, <3>8 DEF Spells
    <3> QED
      BY <3>1, <3>9 DEF q
  <2>3. k < 10 \/ k >= 10
    OBVIOUS
  <2> QED
    BY <2>1, <2>2, <2>3
<1>5. \A k \in D : k \in S
  <2> HIDE DEF D, rank, S
  <2> QED
    BY <1>3, <1>4, ByRank
<1>6. n \in D
  OBVIOUS
<1> QED
  BY <1>2, <1>5, <1>6

-------------------------------------------------------------------------------
(* What a value is made of. *)

\* The values in a value and below, by their depth.
IsNested(v, d, f) ==
  f = [n \in 0 .. d |->
        IF n = 0 THEN {v} ELSE {v} \cup UNION {Content(u) : u \in f[n - 1]}]

LEMMA NestedExists ==
  ASSUME NEW v, NEW d \in Nat
  PROVE  \E f : IsNested(v, d, f)
<1> DEFINE W == {m \in Nat : \E f : IsNested(v, m, f)}
           step(f, n) == IF n = 0 THEN {v} ELSE {v} \cup UNION {Content(u) : u \in f[n - 1]}
<1>1. 0 \in W
  <2>1. IsNested(v, 0, [n \in 0 .. 0 |-> {v}])
    BY DEF IsNested
  <2> QED
    BY <2>1
<1>2. ASSUME NEW m \in W PROVE m + 1 \in W
  <2>1. PICK f : IsNested(v, m, f)
    OBVIOUS
  <2> DEFINE g == [n \in 0 .. (m + 1) |-> IF n <= m THEN f[n] ELSE step(f, m + 1)]
  <2>2. \A n \in 0 .. m : f[n] = step(f, n)
    BY <2>1 DEF IsNested
  <2>3. m \in Nat /\ \A n \in 0 .. (m + 1) : n # 0 => n - 1 \in 0 .. m
    OBVIOUS
  <2>4. \A n \in 0 .. m : n \in 0 .. (m + 1) /\ g[n] = f[n]
    BY <2>3
  <2>5. g[m + 1] = step(f, m + 1) /\ m + 1 \in 0 .. (m + 1)
    BY <2>3
  <2>6. g = [n \in 0 .. (m + 1) |-> g[n]]
    OBVIOUS
  <2> HIDE DEF g
  <2>7. ASSUME NEW n \in 0 .. (m + 1) PROVE g[n] = step(g, n)
    <3>1. n # 0 => g[n - 1] = f[n - 1]
      BY <2>3, <2>4
    <3>2. step(g, n) = step(f, n)
      BY <3>1
    <3>3. n \in 0 .. m \/ n = m + 1
      BY <2>3
    <3> HIDE DEF step
    <3> QED
      BY <2>2, <2>4, <2>5, <3>2, <3>3
  <2>8. IsNested(v, m + 1, g)
    BY <2>6, <2>7 DEF IsNested
  <2> QED
    BY <2>8
<1>3. W = Nat
  <2> HIDE DEF W
  <2> QED
    BY <1>1, <1>2, AllNumbers DEF W
<1> QED
  BY <1>3

LEMMA NestedIs ==
  ASSUME NEW v, NEW d \in Nat
  PROVE  \E f : IsNested(v, d, f) /\ Nested(v, d) = f[d]
<1> DEFINE g == CHOOSE f : IsNested(v, d, f)
<1>1. IsNested(v, d, g)
  <2>1. \E f : IsNested(v, d, f)
    BY NestedExists
  <2> QED
    BY <2>1
<1>2. Nested(v, d) = g[d]
  BY Zenon DEF Nested, IsNested
<1> QED
  BY <1>1, <1>2

\* A set of values that has what each of them is made of, and how deep each is.
Closed(S, r, d) ==
  /\ r \in [S -> 0 .. d]
  /\ \A u \in S : \A c \in Content(u) : c \in S /\ r[c] < r[u]

\* What is nested in a value of such a set is in the set, and is all that the
\* value is made of.
LEMMA NestedClosed ==
  ASSUME NEW S, NEW d \in Nat, NEW r, Closed(S, r, d), NEW v \in S
  PROVE  /\ Nested(v, d) \subseteq S /\ v \in Nested(v, d)
         /\ \A u \in Nested(v, d) : Content(u) \subseteq Nested(v, d)
<1>1. PICK f : IsNested(v, d, f) /\ Nested(v, d) = f[d]
  BY NestedIs
<1>2. f[0] = {v}
  BY <1>1 DEF IsNested
<1>3. ASSUME NEW n \in 0 .. d, n # 0, NEW x
      PROVE  x \in f[n] <=> x = v \/ \E u \in f[n - 1] : x \in Content(u)
  <2>1. f[n] = {v} \cup UNION {Content(u) : u \in f[n - 1]}
    BY <1>1, <1>3 DEF IsNested
  <2> QED
    BY <2>1
<1>4. \A n \in 0 .. d : v \in f[n]
  BY <1>2, <1>3
<1>5. \A u \in S : r[u] \in 0 .. d
  BY DEF Closed
<1>6. \A u \in S : \A c \in Content(u) : c \in S /\ r[c] < r[u]
  BY DEF Closed
<1> DEFINE Reached(u) == /\ u \in S /\ r[u] <= r[v]
                         /\ \A n \in 0 .. d : n >= r[v] - r[u] => u \in f[n]
           W == {k \in Nat : k <= d => \A u \in f[k] : Reached(u)}
<1>7. Reached(v)
  BY <1>4, <1>5
<1>8. 0 \in W
  <2> HIDE DEF Reached
  <2> QED
    BY <1>2, <1>7
<1>9. ASSUME NEW k \in W PROVE k + 1 \in W
  <2> SUFFICES ASSUME k + 1 <= d, NEW u \in f[k + 1] PROVE Reached(u)
    OBVIOUS
  <2>1. k + 1 \in 0 .. d /\ k + 1 # 0 /\ (k + 1) - 1 = k /\ k <= d
    OBVIOUS
  <2>2. u = v \/ \E w \in f[k] : u \in Content(w)
    <3>1. k + 1 \in 0 .. d /\ k + 1 # 0 => (u \in f[k + 1] <=> u = v \/ \E w \in f[(k + 1) - 1] : u \in Content(w))
      BY <1>3
    <3> QED
      BY <2>1, <3>1
  <2>3. ASSUME NEW w \in f[k], u \in Content(w) PROVE Reached(u)
    <3>1. Reached(w)
      BY <2>1
    <3>2. u \in S /\ r[u] < r[w]
      BY <1>6, <2>3, <3>1
    <3>3. r[u] \in Nat /\ r[w] \in Nat /\ r[v] \in Nat
      BY <1>5, <3>1, <3>2
    <3>4. ASSUME NEW n \in 0 .. d, n >= r[v] - r[u] PROVE u \in f[n]
      <4>1. n # 0 /\ n - 1 \in 0 .. d /\ n - 1 >= r[v] - r[w]
        BY <3>1, <3>2, <3>3, <3>4
      <4>2. w \in f[n - 1]
        BY <3>1, <4>1
      <4> QED
        BY <1>3, <2>3, <4>1, <4>2
    <3>5. r[u] <= r[v]
      BY <3>1, <3>2, <3>3
    <3> QED
      BY <3>2, <3>4, <3>5
  <2> HIDE DEF Reached
  <2> QED
    BY <1>7, <2>2, <2>3
<1>10. W = Nat
  <2> HIDE DEF W
  <2> QED
    BY <1>8, <1>9, AllNumbers DEF W
<1>11. \A u \in f[d] : Reached(u)
  <2> HIDE DEF Reached
  <2> QED
    BY <1>10
<1>12. ASSUME NEW u \in f[d], NEW c \in Content(u) PROVE c \in f[d]
  <2>1. Reached(u)
    BY <1>11
  <2>2. c \in S /\ r[c] < r[u]
    BY <1>6, <2>1
  <2>3. r[c] \in Nat /\ r[u] \in Nat /\ r[v] \in 0 .. d
    BY <1>5, <2>1, <2>2
  <2>4. d # 0 /\ d - 1 \in 0 .. d /\ d - 1 >= r[v] - r[u] /\ d \in 0 .. d
    BY <2>1, <2>2, <2>3
  <2>5. u \in f[d - 1]
    BY <2>1, <2>4
  <2> QED
    BY <1>3, <2>4, <2>5
<1>13. v \in f[d] /\ f[d] \subseteq S
  BY <1>4, <1>11
<1> QED
  BY <1>1, <1>12, <1>13

-------------------------------------------------------------------------------
(* What a document is made of, and what the configuration makes of it. *)

\* An object whose keys and values are in some sets.
Object(o, keys, values) ==
  /\ o = [k \in DOMAIN o |-> o[k]] /\ IsFiniteSet(DOMAIN o)
  /\ \A k \in DOMAIN o : k \in keys /\ o[k] \in values

\* A value whose strings have some characters, and its content.
Shaped(u, X, values) ==
  \/ \E s \in Seq(X) : u = <<"string", s>>
  \/ \E m, s : u = <<"number", m, s>> /\ Normal(m, s)
  \/ \E l \in DOMAIN Literal : u = Literal[l]
  \/ \E s \in Seq(values) : u = <<"array", s>>
  \/ \E o : u = <<"object", o>> /\ Object(o, Seq(X), values)

LEMMA LiteralIs ==
  ASSUME NEW c \in DOMAIN Literal
  PROVE  /\ c \in {"true", "TRUE"} => Literal[c] = <<"bool", TRUE>>
         /\ c \in {"false", "FALSE"} => Literal[c] = <<"bool", FALSE>>
         /\ c \in {"null", "NULL"} => Literal[c] = <<"null", 0>>
         /\ Literal[c][1] \in {"bool", "null"}
         /\ c \in {"true", "TRUE", "false", "FALSE", "null", "NULL"}
BY DEF Literal

LEMMA ShapedContent ==
  ASSUME NEW X, NEW values, NEW u, Shaped(u, X, values)
  PROVE  Content(u) \subseteq values
<1>1. CASE \E s \in Seq(X) : u = <<"string", s>>
  BY <1>1 DEF Content
<1>2. CASE \E m, s : u = <<"number", m, s>> /\ Normal(m, s)
  BY <1>2 DEF Content
<1>3. CASE \E l \in DOMAIN Literal : u = Literal[l]
  <2>1. PICK l \in DOMAIN Literal : u = Literal[l]
    BY <1>3
  <2>2. u[1] \in {"bool", "null"}
    BY <2>1, LiteralIs
  <2> QED
    BY <2>2 DEF Content
<1>4. CASE \E s \in Seq(values) : u = <<"array", s>>
  <2>1. PICK s \in Seq(values) : u = <<"array", s>>
    BY <1>4
  <2>2. Content(u) = {s[k] : k \in DOMAIN s}
    BY <2>1 DEF Content
  <2>3. \A k \in DOMAIN s : s[k] \in values
    OBVIOUS
  <2> QED
    BY <2>2, <2>3
<1>5. CASE \E o : u = <<"object", o>> /\ Object(o, Seq(X), values)
  <2>1. PICK o : u = <<"object", o>> /\ Object(o, Seq(X), values)
    BY <1>5
  <2>2. Content(u) = {o[k] : k \in DOMAIN o}
    BY <2>1 DEF Content
  <2>3. \A k \in DOMAIN o : o[k] \in values
    BY <2>1 DEF Object
  <2> QED
    BY <2>2, <2>3
<1> QED
  BY <1>1, <1>2, <1>3, <1>4, <1>5 DEF Shaped

\* What the configuration can keep of one value.
PlainHere(u) ==
  /\ u[1] # "null"
  /\ u[1] = "number" => NumberKept(u[2], u[3])
  /\ u[1] = "string" => PlainString(u[2])
  /\ u[1] = "array" => \A e \in Content(u) : e[1] # "bool"
  /\ u[1] = "object" => \A k \in DOMAIN u[2] : "wide" \notin ToSet(k)
  /\ \A e \in Content(u) : e[1] # "null"

\* Such a value, and what the configuration makes of it.
KeptString(u, c) == u[1] = "string" /\ u = <<"string", u[2]>> /\ c = u
KeptNumber(u, c) ==
  /\ u[1] = "number" /\ u = <<"number", u[2], u[3]>>
  /\ c[1] \in {"long", "double"} /\ Rounded(c[2]) = u
KeptBool(u, c) == u[1] = "bool" /\ c = u
KeptMany(u, f, c) ==
  /\ u[1] \in {"array", "object"} /\ u = <<u[1], [k \in DOMAIN u[2] |-> u[2][k]]>>
  /\ c = <<u[1], [k \in DOMAIN u[2] |-> f[u[2][k]]]>>

Preserved(u, f, c) == KeptString(u, c) \/ KeptNumber(u, c) \/ KeptBool(u, c) \/ KeptMany(u, f, c)

LEMMA NarrowedSame ==
  ASSUME NEW X, NEW k \in Seq(X), "wide" \notin ToSet(k)
  PROVE  Narrowed(k) = k
<1>1. \A i \in DOMAIN k : k[i] # "wide"
  BY DEF ToSet
<1>2. k = [i \in DOMAIN k |-> k[i]]
  OBVIOUS
<1> QED
  BY <1>1, <1>2 DEF Narrowed

LEMMA KeyForSame ==
  ASSUME NEW keys, \A k \in keys : Narrowed(k) = k, NEW n \in keys
  PROVE  KeyFor(n, keys) = n
<1> DEFINE Chosen(k) == Narrowed(k) = n /\ \A l \in keys : Narrowed(l) = n => ~Precedes(k, l)
<1>1. ~Precedes(n, n)
  BY DEF Precedes
<1>2. Chosen(n)
  BY <1>1
<1>3. \A k \in keys : Chosen(k) => k = n
  OBVIOUS
<1>4. KeyFor(n, keys) = CHOOSE k \in keys : Chosen(k)
  BY DEF KeyFor
<1> HIDE DEF Chosen
<1> QED
  BY <1>2, <1>3, <1>4

LEMMA ArrayKept ==
  ASSUME NEW values, NEW s \in Seq(values), NEW f,
         \A k \in DOMAIN s : s[k][1] # "null" /\ s[k][1] # "bool"
  PROVE  ConfArray(s, f) = <<"array", [k \in DOMAIN s |-> f[s[k]]]>>
<1> DEFINE some == {e \in ToSet(s) : e[1] # "null"}
           kept == Only(s, some)
<1>1. \A i \in 1 .. Len(s) : s[i] \in some
  BY DEF ToSet
<1>2. kept = s
  <2> HIDE DEF some
  <2> QED
    BY <1>1, OnlyAll
<1>3. ConfArray(s, f) = <<"array", [i \in DOMAIN kept |->
                                     IF kept[i][1] = "bool" THEN UnsetBool ELSE f[kept[i]]]>>
  BY DEF ConfArray
<1> HIDE DEF kept
<1>4. [i \in DOMAIN s |-> IF s[i][1] = "bool" THEN UnsetBool ELSE f[s[i]]]
        = [i \in DOMAIN s |-> f[s[i]]]
  OBVIOUS
<1> QED
  BY <1>2, <1>3, <1>4

LEMMA ObjectKept ==
  ASSUME NEW X, NEW values, NEW o, Object(o, Seq(X), values), NEW f,
         \A k \in DOMAIN o : "wide" \notin ToSet(k) /\ o[k][1] # "null"
  PROVE  ConfObject(o, f) = <<"object", [k \in DOMAIN o |-> f[o[k]]]>>
<1> DEFINE keys == DOMAIN o
           kept == {k \in DOMAIN o : o[k][1] # "null"}
<1>1. kept = keys
  OBVIOUS
<1>2. \A k \in keys : Narrowed(k) = k
  <2> TAKE k \in keys
  <2>1. k \in Seq(X) /\ "wide" \notin ToSet(k)
    BY DEF Object
  <2> QED
    BY <2>1, NarrowedSame
<1>3. ConfObject(o, f) = <<"object", [n \in {Narrowed(k) : k \in kept} |-> f[o[KeyFor(n, kept)]]]>>
  BY DEF ConfObject
<1> HIDE DEF kept, keys
<1>4. \A n \in keys : KeyFor(n, keys) = n
  BY <1>2, KeyForSame
<1>5. {Narrowed(k) : k \in keys} = keys
  BY <1>2
<1>6. [n \in keys |-> f[o[KeyFor(n, keys)]]] = [n \in keys |-> f[o[n]]]
  BY <1>4
<1> QED
  BY <1>1, <1>3, <1>5, <1>6 DEF keys

\* What the configuration makes of a value, given what it makes of those in it,
\* leaves nothing out: ConfigParser.cpp.
LEMMA ConfKeeps ==
  ASSUME NEW X, NEW values, NEW u, Shaped(u, X, values), PlainHere(u), NEW f
  PROVE  Preserved(u, f, ConfAt(u, f))
<1> DEFINE c == ConfAt(u, f)
<1>1. CASE \E s \in Seq(X) : u = <<"string", s>>
  <2>1. PICK s \in Seq(X) : u = <<"string", s>>
    BY <1>1
  <2>2. u[1] = "string" /\ u[2] = s
    BY <2>1
  <2>3. Erased(StringifyString(s), {Quote, Backslash}) = s
    BY <2>2, StringRecovered DEF PlainHere
  <2>4. c = ConfString(s)
    BY <2>2 DEF ConfAt
  <2>5. c = u
    BY <2>1, <2>3, <2>4 DEF ConfString
  <2>6. KeptString(u, c)
    BY <2>1, <2>2, <2>5 DEF KeptString
  <2> HIDE DEF c
  <2> QED
    BY <2>6 DEF Preserved, c
<1>2. CASE \E m, s : u = <<"number", m, s>> /\ Normal(m, s)
  <2>1. PICK m, s : u = <<"number", m, s>>
    BY <1>2
  <2>2. u[1] = "number" /\ u[2] = m /\ u[3] = s
    BY <2>1
  <2>3. c = ConfNumber(m, s)
    BY <2>2 DEF ConfAt
  <2> DEFINE d == Double(m, s)
  <2>4. Rounded(d) = u /\ (IsLong(d) => Cast(d) = d)
    BY <2>1, <2>2 DEF PlainHere, NumberKept, Shown, Cast
  <2>5. c = <<"long", d>> \/ c = <<"double", d>>
    BY <2>3, <2>4 DEF ConfNumber
  <2>6. KeptNumber(u, c)
    <3> HIDE DEF c, d
    <3> QED
      BY <2>1, <2>2, <2>4, <2>5 DEF KeptNumber
  <2> HIDE DEF c
  <2> QED
    BY <2>6 DEF Preserved, c
<1>3. CASE \E l \in DOMAIN Literal : u = Literal[l]
  <2>1. PICK l \in DOMAIN Literal : u = Literal[l]
    BY <1>3
  <2>2. u[1] = "bool"
    BY <2>1, LiteralIs DEF PlainHere
  <2>3. c = u
    BY <2>2 DEF ConfAt
  <2>4. KeptBool(u, c)
    BY <2>2, <2>3 DEF KeptBool
  <2> HIDE DEF c
  <2> QED
    BY <2>4 DEF Preserved, c
<1>4. CASE \E s \in Seq(values) : u = <<"array", s>>
  <2>1. PICK s \in Seq(values) : u = <<"array", s>>
    BY <1>4
  <2>2. u[1] = "array" /\ u[2] = s
    BY <2>1
  <2>3. Content(u) = {s[k] : k \in DOMAIN s}
    BY <2>2 DEF Content
  <2>4. \A k \in DOMAIN s : s[k][1] # "null" /\ s[k][1] # "bool"
    BY <2>2, <2>3 DEF PlainHere
  <2>5. c = ConfArray(s, f)
    BY <2>2 DEF ConfAt
  <2>6. c = <<"array", [k \in DOMAIN s |-> f[s[k]]]>>
    BY <2>4, <2>5, ArrayKept
  <2>7. s = [k \in DOMAIN s |-> s[k]]
    OBVIOUS
  <2> HIDE DEF c
  <2>8. KeptMany(u, f, c)
    BY <2>1, <2>2, <2>6, <2>7 DEF KeptMany
  <2> QED
    BY <2>8 DEF Preserved, c
<1>5. CASE \E o : u = <<"object", o>> /\ Object(o, Seq(X), values)
  <2>1. PICK o : u = <<"object", o>> /\ Object(o, Seq(X), values)
    BY <1>5
  <2>2. u[1] = "object" /\ u[2] = o
    BY <2>1
  <2>3. Content(u) = {o[k] : k \in DOMAIN o}
    BY <2>2 DEF Content
  <2>4. \A k \in DOMAIN o : "wide" \notin ToSet(k) /\ o[k][1] # "null"
    BY <2>2, <2>3 DEF PlainHere
  <2>5. c = ConfObject(o, f)
    BY <2>2 DEF ConfAt
  <2>6. c = <<"object", [k \in DOMAIN o |-> f[o[k]]]>>
    BY <2>1, <2>4, <2>5, ObjectKept
  <2>7. o = [k \in DOMAIN o |-> o[k]]
    BY <2>1 DEF Object
  <2> HIDE DEF c
  <2>8. KeptMany(u, f, c)
    BY <2>1, <2>2, <2>6, <2>7 DEF KeptMany
  <2> QED
    BY <2>8 DEF Preserved, c
<1> QED
  BY <1>1, <1>2, <1>3, <1>4, <1>5 DEF Shaped

-------------------------------------------------------------------------------
(* Into a configuration value and back, and into print: all three descend into a value. *)

\* A step of one of them, and where it asks for nothing but what a value is made of.
StepAt(way, u, f) ==
  IF way = "conf" THEN ConfAt(u, f) ELSE IF way = "json" THEN JsonAt(u, f) ELSE PrintAt(u, f)

Local(way, D) ==
  \A u \in D : \A f, g :
    (\A c \in Content(u) : f[c] = g[c]) => StepAt(way, u, f) = StepAt(way, u, g)

LEMMA ConfLocal ==
  ASSUME NEW X, NEW values, NEW D, \A u \in D : Shaped(u, X, values) /\ PlainHere(u)
  PROVE  Local("conf", D)
<1> SUFFICES ASSUME NEW u \in D, NEW f, NEW g, \A c \in Content(u) : f[c] = g[c]
             PROVE  ConfAt(u, f) = ConfAt(u, g)
  BY DEF Local, StepAt
<1> DEFINE c == ConfAt(u, f)
           d == ConfAt(u, g)
<1>1. Preserved(u, f, c) /\ Preserved(u, g, d)
  BY ConfKeeps
<1>2. CASE u[1] \in {"string", "bool"}
  <2> HIDE DEF c, d
  <2>1. c = u /\ d = u
    BY <1>1, <1>2 DEF Preserved, KeptString, KeptNumber, KeptBool, KeptMany
  <2> QED
    BY <2>1 DEF c, d
<1>3. CASE u[1] = "number"
  BY <1>3 DEF ConfAt
<1>4. CASE u[1] \in {"array", "object"}
  <2>1. Content(u) = {u[2][k] : k \in DOMAIN u[2]}
    BY <1>4 DEF Content
  <2>2. [k \in DOMAIN u[2] |-> f[u[2][k]]] = [k \in DOMAIN u[2] |-> g[u[2][k]]]
    BY <2>1
  <2> HIDE DEF c, d
  <2>3. KeptMany(u, f, c) /\ KeptMany(u, g, d)
    BY <1>1, <1>4 DEF Preserved, KeptString, KeptNumber, KeptBool
  <2>4. c = <<u[1], [k \in DOMAIN u[2] |-> f[u[2][k]]]>> /\ d = <<u[1], [k \in DOMAIN u[2] |-> g[u[2][k]]]>>
    BY <2>3 DEF KeptMany
  <2> QED
    BY <2>2, <2>4 DEF c, d
<1>5. u[1] \in {"string", "bool", "number", "array", "object"}
  <2> HIDE DEF c, d
  <2> QED
    BY <1>1 DEF Preserved, KeptString, KeptNumber, KeptBool, KeptMany
<1> QED
  BY <1>2, <1>3, <1>4, <1>5

LEMMA JsonLocal ==
  ASSUME NEW D
  PROVE  Local("json", D)
<1> SUFFICES ASSUME NEW u \in D, NEW f, NEW g, \A c \in Content(u) : f[c] = g[c]
             PROVE  JsonAt(u, f) = JsonAt(u, g)
  BY DEF Local, StepAt
<1>1. CASE u[1] \in {"array", "object"}
  <2>1. Content(u) = {u[2][k] : k \in DOMAIN u[2]}
    BY <1>1 DEF Content
  <2>2. [k \in DOMAIN u[2] |-> f[u[2][k]]] = [k \in DOMAIN u[2] |-> g[u[2][k]]]
    BY <2>1
  <2>3. \A h : JsonAt(u, h) = <<u[1], [k \in DOMAIN u[2] |-> h[u[2][k]]]>>
    BY <1>1 DEF JsonAt
  <2> QED
    BY <2>2, <2>3
<1>2. CASE u[1] \notin {"array", "object"}
  BY <1>2 DEF JsonAt
<1> QED
  BY <1>1, <1>2

LEMMA DescentExists ==
  ASSUME NEW D, NEW d \in Nat, NEW r, Closed(D, r, d), NEW way, Local(way, D)
  PROVE  \E f : f = [u \in D |-> StepAt(way, u, f)]
<1> DEFINE Good(f, u) == f[u] = StepAt(way, u, f)
           W == {m \in Nat : \E f : \A u \in D : r[u] < m => Good(f, u)}
<1>1. \A u \in D : r[u] \in Nat /\ r[u] < d + 1
  BY DEF Closed
<1>2. \A u \in D : \A c \in Content(u) : c \in D /\ r[c] < r[u]
  BY DEF Closed
<1>3. 0 \in W
  BY <1>1
<1>4. ASSUME NEW m \in W PROVE m + 1 \in W
  <2>1. PICK f : \A u \in D : r[u] < m => Good(f, u)
    OBVIOUS
  <2> DEFINE g == [u \in D |-> IF r[u] < m THEN f[u] ELSE StepAt(way, u, f)]
  <2>2. \A u \in D : g[u] = StepAt(way, u, f)
    BY <2>1
  <2>3. \A u \in D : r[u] < m => g[u] = f[u]
    OBVIOUS
  <2> HIDE DEF g
  <2>4. ASSUME NEW u \in D, r[u] < m + 1 PROVE Good(g, u)
    <3>1. \A c \in Content(u) : f[c] = g[c]
      <4> TAKE c \in Content(u)
      <4>1. c \in D /\ r[c] < r[u] /\ r[c] \in Nat /\ r[u] \in Nat /\ m \in Nat
        BY <1>1, <1>2
      <4>2. r[c] < m
        BY <2>4, <4>1
      <4> QED
        BY <2>3, <4>1, <4>2
    <3>2. StepAt(way, u, f) = StepAt(way, u, g)
      BY <3>1 DEF Local
    <3> QED
      BY <2>2, <3>2
  <2>5. \A u \in D : r[u] < m + 1 => Good(g, u)
    BY <2>4
  <2> QED
    BY <2>5
<1>5. W = Nat
  <2> HIDE DEF W
  <2> QED
    BY <1>3, <1>4, AllNumbers DEF W
<1>6. PICK f : \A u \in D : r[u] < d + 1 => Good(f, u)
  <2>1. d + 1 \in W
    <3>1. d + 1 \in Nat
      OBVIOUS
    <3> HIDE DEF W
    <3> QED
      BY <1>5, <3>1
  <2> QED
    BY <2>1
<1>7. \A u \in D : Good(f, u)
  BY <1>1, <1>6
<1> DEFINE g == [u \in D |-> f[u]]
<1>8. g = [u \in D |-> g[u]] /\ \A u \in D : g[u] = f[u]
  OBVIOUS
<1> HIDE DEF g
<1>9. ASSUME NEW u \in D PROVE g[u] = StepAt(way, u, g)
  <2>1. \A c \in Content(u) : f[c] = g[c]
    BY <1>2, <1>8
  <2>2. StepAt(way, u, f) = StepAt(way, u, g)
    BY <2>1 DEF Local
  <2> QED
    BY <1>7, <1>8, <2>2
<1>10. g = [u \in D |-> StepAt(way, u, g)]
  BY <1>8, <1>9
<1> QED
  BY <1>10

\* What is descended into satisfies its equation.
LEMMA ConfIs ==
  ASSUME NEW v, NEW n \in Nat, NEW D, D = Nested(v, n), NEW r, Closed(D, r, n), v \in D,
         Local("conf", D)
  PROVE  \E f : ConfValue(v, n) = f[v] /\ \A u \in D : f[u] = ConfAt(u, f)
<1> DEFINE Good(f) == f = [u \in D |-> ConfAt(u, f)]
           g == CHOOSE f : Good(f)
<1>1. Good(g)
  <2>1. \E f : f = [u \in D |-> StepAt("conf", u, f)]
    BY DescentExists
  <2>2. \A f, u : StepAt("conf", u, f) = ConfAt(u, f)
    BY DEF StepAt
  <2>3. \E f : Good(f)
    BY <2>1, <2>2
  <2> HIDE DEF Good
  <2> QED
    BY <2>3
<1>2. ConfValue(v, n) = g[v]
  BY Zenon DEF ConfValue
<1>3. \A u \in D : g[u] = ConfAt(u, g)
  <2> HIDE DEF g
  <2> QED
    BY <1>1, Zenon
<1> QED
  BY <1>2, <1>3

LEMMA JsonIs ==
  ASSUME NEW c, NEW n \in Nat, NEW D, D = Nested(c, n), NEW r, Closed(D, r, n), c \in D
  PROVE  \E f : AsJson(c, n) = f[c] /\ \A u \in D : f[u] = JsonAt(u, f)
<1> DEFINE Good(f) == f = [u \in D |-> JsonAt(u, f)]
           g == CHOOSE f : Good(f)
<1>1. Good(g)
  <2>1. \E f : f = [u \in D |-> StepAt("json", u, f)]
    BY DescentExists, JsonLocal
  <2>2. \A f, u : StepAt("json", u, f) = JsonAt(u, f)
    BY DEF StepAt
  <2>3. \E f : Good(f)
    BY <2>1, <2>2
  <2> HIDE DEF Good
  <2> QED
    BY <2>3
<1>2. AsJson(c, n) = g[c]
  BY Zenon DEF AsJson
<1>3. \A u \in D : g[u] = JsonAt(u, g)
  <2> HIDE DEF g
  <2> QED
    BY <1>1, Zenon
<1> QED
  BY <1>2, <1>3

-------------------------------------------------------------------------------
(* A document is said by its configuration. *)

\* The content of what a value becomes is what its content becomes.
LEMMA PreservedContent ==
  ASSUME NEW u, NEW f, NEW c, Preserved(u, f, c), NEW e \in Content(c)
  PROVE  \E w \in Content(u) : e = f[w]
<1>1. CASE KeptMany(u, f, c)
  <2>1. u[1] \in {"array", "object"} /\ c = <<u[1], [k \in DOMAIN u[2] |-> f[u[2][k]]]>>
    BY <1>1 DEF KeptMany
  <2>2. c[1] = u[1] /\ c[2] = [k \in DOMAIN u[2] |-> f[u[2][k]]]
    BY <2>1
  <2>3. Content(c) = {c[2][k] : k \in DOMAIN c[2]} /\ Content(u) = {u[2][k] : k \in DOMAIN u[2]}
    BY <2>1, <2>2 DEF Content
  <2>4. PICK k \in DOMAIN u[2] : e = f[u[2][k]]
    BY <2>2, <2>3
  <2> QED
    BY <2>3, <2>4
<1>2. CASE KeptString(u, c) \/ KeptNumber(u, c) \/ KeptBool(u, c)
  <2>1. c[1] \notin {"array", "object"}
    BY <1>2 DEF KeptString, KeptNumber, KeptBool
  <2> QED
    BY <2>1 DEF Content
<1> QED
  BY <1>1, <1>2 DEF Preserved

\* What became of such values, each as deep as the least deep that became it.
LEMMA ImageClosed ==
  ASSUME NEW D, NEW n \in Nat, NEW r, Closed(D, r, n), NEW f,
         \A u \in D : Preserved(u, f, f[u])
  PROVE  \E q : Closed({f[u] : u \in D}, q, n)
<1> DEFINE S == {f[u] : u \in D}
           Ranks(y) == {r[u] : u \in {w \in D : f[w] = y}}
           Least(y, m) == m \in Ranks(y) /\ \A k \in Ranks(y) : m <= k
           q == [y \in S |-> CHOOSE m \in 0 .. n : Least(y, m)]
<1>1. \A u \in D : r[u] \in 0 .. n
  BY DEF Closed
<1>2. ASSUME NEW y \in S PROVE \E m \in 0 .. n : Least(y, m)
  <2>1. Ranks(y) \in SUBSET Nat /\ Ranks(y) # {} /\ Ranks(y) \subseteq 0 .. n
    BY <1>1
  <2> HIDE DEF Ranks
  <2>2. \E m \in Ranks(y) : \A k \in Ranks(y) : m <= k
    BY <2>1, LeastNumber
  <2> QED
    BY <2>1, <2>2
<1>3. ASSUME NEW y \in S PROVE q[y] \in 0 .. n /\ Least(y, q[y])
  <2> HIDE DEF Least, S
  <2> QED
    BY <1>2
<1>4. q \in [S -> 0 .. n]
  <2>1. q = [y \in S |-> q[y]]
    OBVIOUS
  <2> HIDE DEF q, S
  <2> QED
    BY <1>3, <2>1
<1>5. ASSUME NEW y \in S, NEW e \in Content(y) PROVE e \in S /\ q[e] < q[y]
  <2>1. Least(y, q[y])
    BY <1>3
  <2> HIDE DEF q
  <2>2. PICK u \in D : f[u] = y /\ r[u] = q[y]
    BY <2>1
  <2>3. PICK w \in Content(u) : e = f[w]
    BY <2>2, PreservedContent
  <2>4. w \in D /\ r[w] < r[u]
    BY DEF Closed
  <2>5. e \in S
    BY <2>3, <2>4
  <2>6. q[e] \in 0 .. n /\ Least(e, q[e])
    BY <1>3, <2>5 DEF q
  <2>7. r[w] \in Ranks(e)
    BY <2>3, <2>4
  <2>8. q[e] <= r[w]
    BY <2>6, <2>7
  <2>9. r[w] \in Nat /\ r[u] \in Nat /\ q[e] \in Nat
    BY <1>1, <2>4, <2>6
  <2> QED
    BY <2>2, <2>4, <2>5, <2>8, <2>9
<1>6. Closed(S, q, n)
  <2> HIDE DEF S, q
  <2> QED
    BY <1>4, <1>5 DEF Closed
<1> QED
  BY <1>6

LEMMA SaidBack ==
  ASSUME NEW D, NEW n \in Nat, NEW r, Closed(D, r, n), NEW f,
         \A u \in D : Preserved(u, f, f[u]), NEW v \in D
  PROVE  AsJson(f[v], n) = v
<1> DEFINE S == {f[u] : u \in D}
           E == Nested(f[v], n)
<1>1. PICK q : Closed(S, q, n)
  BY ImageClosed
<1>2. f[v] \in S
  OBVIOUS
<1>3. /\ E \subseteq S /\ f[v] \in E
      /\ \A c \in E : Content(c) \subseteq E
  <2> HIDE DEF S
  <2> QED
    BY <1>1, <1>2, NestedClosed
<1> DEFINE p == [c \in E |-> q[c]]
<1>4. Closed(E, p, n)
  <2>1. \A c \in E : p[c] = q[c] /\ q[c] \in 0 .. n
    BY <1>1, <1>3 DEF Closed
  <2>2. \A c \in E : \A e \in Content(c) : e \in E /\ q[e] < q[c]
    BY <1>1, <1>3 DEF Closed
  <2>3. p \in [E -> 0 .. n]
    <3> HIDE DEF E
    <3> QED
      BY <2>1
  <2> HIDE DEF p, E
  <2> QED
    BY <2>1, <2>2, <2>3 DEF Closed
<1> HIDE DEF p
<1>5. PICK g : AsJson(f[v], n) = g[f[v]] /\ \A c \in E : g[c] = JsonAt(c, g)
  BY <1>3, <1>4, JsonIs
<1> DEFINE Back == {u \in D : f[u] \in E => g[f[u]] = u}
<1>6. ASSUME NEW u \in D, \A w \in D : r[w] < r[u] => w \in Back PROVE u \in Back
  <2> SUFFICES ASSUME f[u] \in E PROVE g[f[u]] = u
    OBVIOUS
  <2> DEFINE c == f[u]
  <2>1. g[c] = JsonAt(c, g)
    BY <1>5
  <2>2. Preserved(u, f, c)
    OBVIOUS
  <2>3. CASE KeptString(u, c) \/ KeptBool(u, c)
    <3>1. c = u /\ c[1] \in {"string", "bool"}
      BY <2>3 DEF KeptString, KeptBool
    <3>2. JsonAt(c, g) = c
      BY <3>1 DEF JsonAt
    <3> QED
      BY <2>1, <3>1, <3>2
  <2>4. CASE KeptNumber(u, c)
    <3>1. c[1] \in {"long", "double"} /\ Rounded(c[2]) = u
      <4> HIDE DEF c
      <4> QED
        BY <2>4 DEF KeptNumber
    <3>2. JsonAt(c, g) = Rounded(c[2])
      BY <3>1 DEF JsonAt
    <3> QED
      BY <2>1, <3>1, <3>2
  <2>5. CASE KeptMany(u, f, c)
    <3>1. /\ u[1] \in {"array", "object"} /\ u = <<u[1], [k \in DOMAIN u[2] |-> u[2][k]]>>
          /\ c = <<u[1], [k \in DOMAIN u[2] |-> f[u[2][k]]]>>
      BY <2>5 DEF KeptMany
    <3>2. c[1] = u[1] /\ c[2] = [k \in DOMAIN u[2] |-> f[u[2][k]]]
      <4> HIDE DEF c
      <4> QED
        BY <3>1
    <3>3. JsonAt(c, g) = <<c[1], [k \in DOMAIN c[2] |-> g[c[2][k]]]>>
      BY <3>1, <3>2 DEF JsonAt
    <3>4. Content(c) = {c[2][k] : k \in DOMAIN c[2]} /\ Content(u) = {u[2][k] : k \in DOMAIN u[2]}
      BY <3>1, <3>2 DEF Content
    <3>5. ASSUME NEW k \in DOMAIN u[2] PROVE g[c[2][k]] = u[2][k]
      <4> DEFINE w == u[2][k]
      <4>1. w \in Content(u)
        BY <3>4
      <4>2. w \in D /\ r[w] < r[u]
        BY <4>1 DEF Closed
      <4>3. w \in Back
        BY <1>6, <4>2
      <4>4. c[2][k] = f[w] /\ c[2][k] \in Content(c)
        BY <3>2, <3>4
      <4>5. f[w] \in E
        BY <1>3, <4>4
      <4> QED
        BY <4>3, <4>4, <4>5
    <3>6. DOMAIN c[2] = DOMAIN u[2]
      BY <3>2
    <3>7. [k \in DOMAIN c[2] |-> g[c[2][k]]] = [k \in DOMAIN u[2] |-> u[2][k]]
      BY <3>5, <3>6
    <3> QED
      BY <2>1, <3>1, <3>2, <3>3, <3>7
  <2> QED
    BY <2>2, <2>3, <2>4, <2>5 DEF Preserved
<1> DEFINE rank == [u \in D |-> r[u]]
<1>7. rank \in [D -> Nat] /\ \A u \in D : rank[u] = r[u]
  BY DEF Closed
<1>8. \A u \in D : u \in Back
  <2> HIDE DEF rank, Back
  <2> QED
    BY <1>6, <1>7, ByRank
<1> QED
  BY <1>3, <1>5, <1>8

-------------------------------------------------------------------------------
(* How deep a document is: less than its text is long. *)

\* The values of the parts between two positions.
Within(m, i, j) == UNION {m[<<"value", p[1], p[2]>>] : p \in (i .. j) \X (i .. j)}

LEMMA InWithin ==
  ASSUME NEW m, NEW i, NEW j, NEW x
  PROVE  x \in Within(m, i, j) <=> \E a \in i .. j, b \in i .. j : x \in m[<<"value", a, b>>]
<1> DEFINE P == (i .. j) \X (i .. j)
<1>1. x \in Within(m, i, j) <=> \E p \in P : x \in m[<<"value", p[1], p[2]>>]
  BY DEF Within
<1>2. \A p \in P : p[1] \in i .. j /\ p[2] \in i .. j
  OBVIOUS
<1>3. ASSUME NEW a \in i .. j, NEW b \in i .. j, x \in m[<<"value", a, b>>]
      PROVE  \E p \in P : x \in m[<<"value", p[1], p[2]>>]
  <2> DEFINE p == <<a, b>>
  <2>1. p \in P /\ p[1] = a /\ p[2] = b
    OBVIOUS
  <2> HIDE DEF p
  <2> QED
    BY <1>3, <2>1
<1> HIDE DEF P
<1> QED
  BY <1>1, <1>2, <1>3

LEMMA PaddedWithin ==
  ASSUME NEW t, NEW m, NEW lo \in Nat, NEW hi \in Nat, NEW i \in Nat, NEW j \in Nat, lo <= i, j <= hi
  PROVE  Padded(t, m, i, j) \subseteq Within(m, lo, hi)
<1> SUFFICES ASSUME NEW x \in Padded(t, m, i, j) PROVE x \in Within(m, lo, hi)
  OBVIOUS
<1>1. PICK a \in Fronts(t, i, j), b \in Backs(t, i, j) : x \in m[<<"value", a, b>>]
  BY InPadded
<1>2. a \in i .. j /\ b \in i .. j
  BY DEF Fronts, Backs
<1>3. a \in lo .. hi /\ b \in lo .. hi
  BY <1>2
<1> QED
  BY <1>1, <1>3, InWithin

\* The characters of the strings in a text.
StringChars(C) == C \cup {"wide"} \cup {Unescaped[c] : c \in DOMAIN Unescaped}

LEMMA KeysType ==
  ASSUME NEW C, NEW t \in Seq(C), NEW i \in Nat, NEW j \in Nat, i # 0, j <= Len(t),
         NEW k \in Keys(t, i, j)
  PROVE  k \in Seq(StringChars(C))
<1>1. PICK a \in Fronts(t, i, j), b \in Backs(t, i, j) :
        a < b /\ t[b] = Quote /\ k \in Unquoted(t, a + 1, b - 1)
  BY InKeys
<1>2. a \in i .. j /\ b \in i .. j
  BY DEF Fronts, Backs
<1>3. a + 1 \in 1 .. (Len(t) + 1) /\ b - 1 \in 0 .. Len(t)
  <2>1. Len(t) \in Nat
    OBVIOUS
  <2> QED
    BY <1>1, <1>2, <2>1
<1>4. \A X : X = C \cup {"wide"} \cup {Unescaped[c] : c \in DOMAIN Unescaped} =>
        \A u \in Unquoted(t, a + 1, b - 1) : u \in Seq(X)
  BY <1>3, UnquotedType
<1> QED
  BY <1>1, <1>4 DEF StringChars

LEMMA EmptyObject ==
  ASSUME NEW keys, NEW values
  PROVE  Object(<<>>, keys, values)
<1>1. DOMAIN <<>> = {} /\ <<>> = [k \in DOMAIN <<>> |-> <<>>[k]]
  OBVIOUS
<1>2. IsFiniteSet(DOMAIN <<>>)
  BY <1>1, FS_EmptySet
<1> QED
  BY <1>1, <1>2 DEF Object

LEMMA UnderObject ==
  ASSUME NEW keys, NEW values, NEW k \in keys, NEW v \in values
  PROVE  /\ Object(<<>>, keys, values)
         /\ \A o : Object(o, keys, values) => Object(Under(k, v, o), keys, values)
<1>1. Object(<<>>, keys, values)
  BY EmptyObject
<1>2. ASSUME NEW o, Object(o, keys, values) PROVE Object(Under(k, v, o), keys, values)
  <2>1. DOMAIN Under(k, v, o) = DOMAIN o \cup {k}
    BY DEF Under
  <2>2. IsFiniteSet(DOMAIN o \cup {k})
    BY <1>2, FS_AddElement DEF Object
  <2> QED
    BY <1>2, <2>1, <2>2 DEF Object, Under
<1> QED
  BY <1>1, <1>2

LEMMA ElementsWithin ==
  ASSUME NEW C, NEW t \in Seq(C), NEW m, IsGrammar(t, m),
         NEW lo \in Nat, NEW hi \in Nat, lo # 0, hi <= Len(t),
         NEW i \in lo .. (Len(t) + 1), NEW j \in 0 .. hi
  PROVE  m[<<"elements", i, j>>] \subseteq Seq(Within(m, lo, hi))
<1> DEFINE n == Len(t)
           V == Within(m, lo, hi)
           D == lo .. (n + 1)
           rank == [k \in D |-> n + 1 - k]
           S == {k \in D : m[<<"elements", k, j>>] \subseteq Seq(V)}
<1>1. n \in Nat /\ j \in 0 .. n /\ j \in Nat /\ j <= hi
  OBVIOUS
<1>2. rank \in [D -> Nat] /\ \A k \in D : rank[k] = n + 1 - k
  BY <1>1
<1>3. ASSUME NEW k \in D, \A l \in D : rank[l] < rank[k] => l \in S PROVE k \in S
  <2> SUFFICES ASSUME NEW x \in m[<<"elements", k, j>>] PROVE x \in Seq(V)
    OBVIOUS
  <2>1. k \in 1 .. (n + 1) /\ k \in Nat /\ lo <= k
    BY <1>1
  <2>2. x \in Elements(t, m, k, j)
    BY <1>1, <2>1 DEF IsGrammar
  <2>3. ASSUME NEW b \in Nat, b <= j PROVE Padded(t, m, k, b) \subseteq V
    <3>1. b <= hi
      BY <1>1, <2>3
    <3> QED
      BY <2>1, <3>1, PaddedWithin
  <2>4. CASE \E v \in Padded(t, m, k, j) : x = <<v>>
    <3>1. PICK v \in Padded(t, m, k, j) : x = <<v>>
      BY <2>4
    <3>2. v \in V
      BY <1>1, <2>3
    <3> HIDE DEF V
    <3> QED
      BY <3>1, <3>2
  <2>5. CASE \E c \in Marks(t, k, j, Comma) : x \in ElementsAround(t, m, k, c, j)
    <3>1. PICK c \in Marks(t, k, j, Comma) : x \in ElementsAround(t, m, k, c, j)
      BY <2>5
    <3>2. c \in k .. j
      BY DEF Marks
    <3>3. PICK v \in Padded(t, m, k, c - 1), rest \in m[<<"elements", c + 1, j>>] : x = Headed(v, rest)
      BY <3>1, InAround
    <3>4. c - 1 \in Nat /\ c - 1 <= j /\ c + 1 \in D /\ c + 1 > k /\ c + 1 \in Nat
      BY <1>1, <2>1, <3>2
    <3>5. v \in V
      BY <2>3, <3>4
    <3>6. rank[c + 1] < rank[k]
      BY <1>1, <1>2, <2>1, <3>4
    <3>7. rest \in Seq(V)
      BY <1>3, <3>4, <3>6
    <3> HIDE DEF V
    <3> QED
      BY <3>3, <3>5, <3>7 DEF Headed
  <2> QED
    BY <2>2, <2>4, <2>5, InElements
<1>4. \A k \in D : k \in S
  <2> HIDE DEF D, rank, S
  <2> QED
    BY <1>2, <1>3, ByRank
<1> QED
  BY <1>4

LEMMA MembersWithin ==
  ASSUME NEW C, NEW t \in Seq(C), NEW m, IsGrammar(t, m),
         NEW lo \in Nat, NEW hi \in Nat, lo # 0, hi <= Len(t),
         NEW i \in lo .. (Len(t) + 1), NEW j \in 0 .. hi
  PROVE  \A o \in m[<<"members", i, j>>] : Object(o, Seq(StringChars(C)), Within(m, lo, hi))
<1> DEFINE n == Len(t)
           K == Seq(StringChars(C))
           V == Within(m, lo, hi)
           D == lo .. (n + 1)
           rank == [k \in D |-> n + 1 - k]
           S == {k \in D : \A o \in m[<<"members", k, j>>] : Object(o, K, V)}
<1>1. n \in Nat /\ j \in 0 .. n /\ j \in Nat /\ j <= hi
  OBVIOUS
<1>2. rank \in [D -> Nat] /\ \A k \in D : rank[k] = n + 1 - k
  BY <1>1
<1>3. ASSUME NEW k \in D, \A l \in D : rank[l] < rank[k] => l \in S PROVE k \in S
  <2> SUFFICES ASSUME NEW x \in m[<<"members", k, j>>] PROVE Object(x, K, V)
    OBVIOUS
  <2>1. k \in 1 .. (n + 1) /\ k \in Nat /\ lo <= k /\ k # 0
    BY <1>1
  <2>2. x \in Members(t, m, k, j)
    BY <1>1, <2>1 DEF IsGrammar
  <2>3. PICK c \in Marks(t, k, j, Colon) :
           \/ x \in Member(t, m, k, c, j)
           \/ \E d \in Marks(t, c, j, Comma) : x \in MembersAround(t, m, k, c, d, j)
    BY <2>2, InMembers
  <2>4. c \in k .. j
    BY DEF Marks
  <2>5. c \in Nat /\ c - 1 \in Nat /\ c - 1 <= n /\ c + 1 \in Nat /\ lo <= c + 1
    BY <1>1, <2>1, <2>4
  <2>6. \A name \in Keys(t, k, c - 1) : name \in K
    BY <2>1, <2>5, KeysType
  <2>7. ASSUME NEW b \in Nat, b <= j PROVE Padded(t, m, c + 1, b) \subseteq V
    <3>1. b <= hi
      BY <1>1, <2>7
    <3> QED
      BY <2>5, <3>1, PaddedWithin
  <2>8. CASE x \in Member(t, m, k, c, j)
    <3>1. PICK name \in Keys(t, k, c - 1), v \in Padded(t, m, c + 1, j) : x = Under(name, v, <<>>)
      BY <2>8 DEF Member
    <3>2. name \in K /\ v \in V
      BY <1>1, <2>6, <2>7
    <3> HIDE DEF K, V
    <3> QED
      BY <3>1, <3>2, UnderObject
  <2>9. CASE \E d \in Marks(t, c, j, Comma) : x \in MembersAround(t, m, k, c, d, j)
    <3>1. PICK d \in Marks(t, c, j, Comma) : x \in MembersAround(t, m, k, c, d, j)
      BY <2>9
    <3>2. d \in c .. j
      BY DEF Marks
    <3>3. PICK name \in Keys(t, k, c - 1), v \in Padded(t, m, c + 1, d - 1),
               o \in m[<<"members", d + 1, j>>] : x = Under(name, v, o)
      BY <3>1 DEF MembersAround
    <3>4. d - 1 \in Nat /\ d - 1 <= j /\ d + 1 \in D /\ d + 1 > k /\ d + 1 \in Nat
      BY <1>1, <2>1, <2>4, <2>5, <3>2
    <3>5. name \in K /\ v \in V
      BY <2>6, <2>7, <3>4
    <3>6. rank[d + 1] < rank[k]
      BY <1>1, <1>2, <2>1, <3>4
    <3>7. Object(o, K, V)
      BY <1>3, <3>4, <3>6
    <3> HIDE DEF K, V
    <3> QED
      BY <3>3, <3>5, <3>7, UnderObject
  <2> QED
    BY <2>3, <2>8, <2>9
<1>4. \A k \in D : k \in S
  <2> HIDE DEF D, rank, S
  <2> QED
    BY <1>2, <1>3, ByRank
<1> QED
  BY <1>4

\* A number that is read is kept without final zeros.
LEMMA NumberShaped ==
  ASSUME NEW C, NEW t \in Seq(C), NEW i \in Nat, i # 0, NEW j \in Nat, j <= Len(t),
         NEW x \in Numbers(t, i, j)
  PROVE  \E k, s : x = <<"number", k, s>> /\ Normal(k, s)
<1>1. PICK p \in {i, i + 1} \X (i .. (j + 1)) \X (i .. (j + 1)) :
         IsNumber(t, i, j, p[1], p[2], p[3]) /\ x = NumberOf(t, i, j, p[1], p[2], p[3])
  BY DEF Numbers
<1> DEFINE a == p[1]
           b == p[2]
           c == p[3]
<1>2. a \in Nat /\ b \in Nat /\ c \in Nat /\ a # 0 /\ c - 1 \in Int /\ c - 1 <= Len(t) /\ Len(t) \in Nat
  OBVIOUS
<1> HIDE DEF a, b, c
<1>3. ASSUME NEW k \in Nat, k # 0, NEW l \in Int, l <= Len(t) PROVE ParseInt(SubSeq(t, k, l)) \in Nat
  <2>1. \A q \in k .. l : t[q] \in C
    BY <1>2, <1>3
  <2>2. SubSeq(t, k, l) \in Seq(C)
    BY <2>1, SubSeqProperties
  <2> QED
    BY <2>2, ParseIntType
<1> DEFINE u == Unsigned(t, c + 1)
           power == Signed(t, c + 1, ParseInt(SubSeq(t, u, j)))
           whole == Signed(t, i, ParseInt(SubSeq(t, a, c - 1)))
           scale == (IF c = b THEN 0 ELSE b + 1 - c) + (IF c > j THEN 0 ELSE power)
<1>4. u \in Nat /\ u # 0
  BY <1>2 DEF Unsigned
<1>5. power \in Int
  <2>1. ParseInt(SubSeq(t, u, j)) \in Nat
    <3> HIDE DEF u
    <3> QED
      BY <1>3, <1>4, SMTT(30)
  <2> QED
    BY <2>1 DEF Signed
<1>6. whole \in Int
  <2>1. ParseInt(SubSeq(t, a, c - 1)) \in Nat
    BY <1>2, <1>3
  <2> QED
    BY <2>1 DEF Signed
<1>7. x = Number(whole, scale)
  BY <1>1 DEF NumberOf, a, b, c
<1> HIDE DEF power, whole
<1>8. scale \in Int
  BY <1>2, <1>5
<1> HIDE DEF scale
<1> QED
  BY <1>6, <1>7, <1>8, NumberNormal

LEMMA ValueShaped ==
  ASSUME NEW C, NEW t \in Seq(C), NEW m, IsGrammar(t, m),
         NEW i \in 1 .. (Len(t) + 1), NEW j \in 0 .. Len(t), NEW x \in m[<<"value", i, j>>]
  PROVE  Shaped(x, StringChars(C), Within(m, i + 1, j - 1))
<1> DEFINE n == Len(t)
           X == StringChars(C)
           V == Within(m, i + 1, j - 1)
<1>1. x \in Value(t, m, i, j)
  BY DEF IsGrammar
<1>2. n \in Nat /\ i \in Nat /\ i # 0 /\ j \in Nat /\ j <= n /\ i <= n + 1
  OBVIOUS
<1>3. ASSUME i < j
      PROVE  /\ i + 1 \in Nat /\ i + 1 # 0 /\ i + 1 \in 1 .. (n + 1) /\ j - 1 \in Nat /\ j - 1 <= n
             /\ i + 1 \in (i + 1) .. (n + 1) /\ j - 1 \in 0 .. (j - 1) /\ j - 1 \in 0 .. n
  BY <1>2, <1>3
<1>4. CASE IsLiteral(t, i, j, x)
  <2>1. \E l \in DOMAIN Literal : x = Literal[l]
    BY <1>4 DEF IsLiteral
  <2> HIDE DEF X, V
  <2> QED
    BY <2>1 DEF Shaped, X, V
<1>5. CASE IsString(t, i, j, x)
  <2>1. PICK s \in Unquoted(t, i + 1, j - 1) : x = <<"string", s>>
    BY <1>5 DEF IsString
  <2>2. i < j
    BY <1>5 DEF IsString
  <2>3. \A Y : Y = C \cup {"wide"} \cup {Unescaped[c] : c \in DOMAIN Unescaped} =>
          \A u \in Unquoted(t, i + 1, j - 1) : u \in Seq(Y)
    BY <1>3, <2>2, UnquotedType
  <2>4. s \in Seq(X)
    BY <2>3 DEF StringChars
  <2> HIDE DEF X
  <2> QED
    BY <2>1, <2>4 DEF Shaped, X
<1>6. CASE IsNumeric(t, i, j, x)
  <2>1. x \in Numbers(t, i, j)
    BY <1>6 DEF IsNumeric
  <2>2. \E k, s : x = <<"number", k, s>> /\ Normal(k, s)
    BY <1>2, <2>1, NumberShaped
  <2> HIDE DEF X, V
  <2> QED
    BY <2>2 DEF Shaped, X, V
<1>7. CASE IsArray(t, m, i, j, x)
  <2>1. i < j
    BY <1>7 DEF IsArray
  <2>2. m[<<"elements", i + 1, j - 1>>] \subseteq Seq(V)
    BY <1>3, <2>1, ElementsWithin
  <2>3. <<>> \in Seq(V)
    OBVIOUS
  <2> HIDE DEF X, V
  <2>4. x = <<"array", <<>>>> \/ \E a \in m[<<"elements", i + 1, j - 1>>] : x = <<"array", a>>
    BY <1>7 DEF IsArray
  <2>5. \E s \in Seq(V) : x = <<"array", s>>
    BY <2>2, <2>3, <2>4
  <2> QED
    BY <2>5 DEF Shaped, X, V
<1>8. CASE IsObject(t, m, i, j, x)
  <2>1. i < j
    BY <1>8, Zenon DEF IsObject
  <2>2. \A o \in m[<<"members", i + 1, j - 1>>] : Object(o, Seq(X), V)
    BY <1>3, <2>1, MembersWithin
  <2>3. Object(<<>>, Seq(X), V)
    BY EmptyObject
  <2> HIDE DEF X, V
  <2>4. x = <<"object", <<>>>> \/ \E o \in m[<<"members", i + 1, j - 1>>] : x = <<"object", o>>
    BY <1>8, Zenon DEF IsObject
  <2>5. \E o : x = <<"object", o>> /\ Object(o, Seq(X), V)
    BY <2>2, <2>3, <2>4
  <2> QED
    BY <2>5, Zenon DEF Shaped, X, V
<1> QED
  BY <1>1, <1>4, <1>5, <1>6, <1>7, <1>8, InValue

LEMMA ShapedMore ==
  ASSUME NEW X, NEW V, NEW W, V \subseteq W, NEW u, Shaped(u, X, V)
  PROVE  Shaped(u, X, W)
<1>1. \A s \in Seq(V) : s \in Seq(W)
  OBVIOUS
<1>2. \A o : Object(o, Seq(X), V) => Object(o, Seq(X), W)
  BY DEF Object
<1> QED
  BY <1>1, <1>2 DEF Shaped

\* The parts of a text, each as deep as the least part that it is the value of
\* is long: a value is made of what its parts are values of.
LEMMA PartsClosed ==
  ASSUME NEW C, NEW t \in Seq(C), NEW m, IsGrammar(t, m), NEW n, n = Len(t)
  PROVE  \E r : /\ Closed(Within(m, 1, n), r, n)
                /\ \A u \in Within(m, 1, n) : Shaped(u, StringChars(C), Within(m, 1, n))
<1> DEFINE S == Within(m, 1, n)
           X == StringChars(C)
           Sizes(u) == {k \in 0 .. n : \E a, b \in 1 .. n : b - a = k /\ u \in m[<<"value", a, b>>]}
           Least(u, k) == k \in Sizes(u) /\ \A l \in Sizes(u) : k <= l
           r == [u \in S |-> CHOOSE k \in 0 .. n : Least(u, k)]
<1>1. n \in Nat
  OBVIOUS
<1>2. ASSUME NEW a \in 1 .. n, NEW b \in 1 .. n, NEW u \in m[<<"value", a, b>>]
      PROVE  /\ a <= b /\ b - a \in Sizes(u)
             /\ Shaped(u, X, Within(m, a + 1, b - 1))
  <2>1. a \in 1 .. (Len(t) + 1) /\ b \in 0 .. Len(t)
    BY <1>1
  <2>2. a <= b
    BY <2>1, ValueSolid
  <2>3. b - a \in 0 .. n
    BY <1>1, <2>2
  <2> QED
    BY <2>1, <2>2, <2>3, ValueShaped
<1>3. ASSUME NEW u \in S PROVE \E k \in 0 .. n : Least(u, k)
  <2>1. PICK a \in 1 .. n, b \in 1 .. n : u \in m[<<"value", a, b>>]
    BY InWithin
  <2>2. b - a \in Sizes(u)
    BY <1>2, <2>1
  <2>3. Sizes(u) \in SUBSET Nat /\ Sizes(u) # {} /\ Sizes(u) \subseteq 0 .. n
    <3>1. Sizes(u) \subseteq 0 .. n /\ 0 .. n \subseteq Nat
      OBVIOUS
    <3> HIDE DEF Sizes
    <3> QED
      BY <2>2, <3>1
  <2> HIDE DEF Sizes
  <2>4. \E k \in Sizes(u) : \A l \in Sizes(u) : k <= l
    BY <2>3, LeastNumber
  <2> QED
    BY <2>3, <2>4
<1>4. ASSUME NEW u \in S PROVE r[u] \in 0 .. n /\ Least(u, r[u])
  <2> HIDE DEF Least, S
  <2> QED
    BY <1>3
<1>5. r \in [S -> 0 .. n]
  <2>1. r = [u \in S |-> r[u]]
    <3> HIDE DEF S, Least
    <3> QED
      OBVIOUS
  <2> HIDE DEF r, S
  <2> QED
    BY <1>4, <2>1
<1>6. ASSUME NEW u \in S
      PROVE  /\ Shaped(u, X, S)
             /\ \A c \in Content(u) : c \in S /\ r[c] < r[u]
  <2>1. Least(u, r[u])
    BY <1>4
  <2>2. PICK a \in 1 .. n, b \in 1 .. n : b - a = r[u] /\ u \in m[<<"value", a, b>>]
    <3> HIDE DEF r
    <3> QED
      BY <2>1
  <2>3. Shaped(u, X, Within(m, a + 1, b - 1))
    BY <1>2, <2>2
  <2>4. ASSUME NEW c \in Within(m, a + 1, b - 1) PROVE c \in S /\ r[c] < r[u]
    <3>1. PICK d \in (a + 1) .. (b - 1), e \in (a + 1) .. (b - 1) : c \in m[<<"value", d, e>>]
      BY InWithin
    <3>2. d \in 1 .. n /\ e \in 1 .. n
      BY <1>1, <3>1
    <3>3. c \in S
      BY <3>1, <3>2, InWithin
    <3>4. Least(c, r[c]) /\ r[c] \in 0 .. n
      BY <1>4, <3>3
    <3>5. e - d \in Sizes(c)
      BY <1>2, <3>1, <3>2
    <3> HIDE DEF r
    <3>6. r[c] <= e - d
      BY <3>4, <3>5
    <3>7. e - d < b - a
      BY <1>1, <3>1
    <3>8. r[c] \in Int /\ e - d \in Int /\ b - a \in Int
      BY <3>4
    <3> QED
      BY <2>2, <3>3, <3>6, <3>7, <3>8
  <2>5. Within(m, a + 1, b - 1) \subseteq S
    BY <2>4
  <2>6. Content(u) \subseteq Within(m, a + 1, b - 1)
    BY <2>3, ShapedContent
  <2>7. Shaped(u, X, S)
    <3> HIDE DEF S, X
    <3> QED
      BY <2>3, <2>5, ShapedMore
  <2> QED
    BY <2>4, <2>6, <2>7
<1>7. Closed(S, r, n)
  <2> HIDE DEF S, r
  <2> QED
    BY <1>5, <1>6 DEF Closed
<1> HIDE DEF r
<1> QED
  BY <1>6, <1>7

\* For every document and every depth: what the server reads of a configuration
\* that it can keep is what the file says.
LEMMA DocumentKept ==
  ASSUME NEW C, NEW t \in Seq(C), NEW v \in Denoted(t), Plain(v, Len(t))
  PROVE  AsJson(ConfValue(v, Len(t)), Len(t)) = v
<1> DEFINE n == Len(t)
           X == StringChars(C)
           D == Nested(v, n)
<1>1. n \in Nat
  OBVIOUS
<1>2. PICK m : IsGrammar(t, m) /\ Denoted(t) = Padded(t, m, 1, n)
  BY MeansIs
<1> DEFINE S == Within(m, 1, n)
<1>3. v \in S
  <2>1. 1 \in Nat /\ 1 <= 1 /\ n <= n
    BY <1>1
  <2> QED
    BY <1>1, <1>2, <2>1, PaddedWithin
<1>4. PICK r : Closed(S, r, n) /\ \A u \in S : Shaped(u, X, S)
  BY <1>2, PartsClosed
<1> HIDE DEF S
<1>5. D \subseteq S /\ v \in D /\ \A u \in D : Content(u) \subseteq D
  BY <1>1, <1>3, <1>4, NestedClosed
<1> DEFINE q == [u \in D |-> r[u]]
<1>6. Closed(D, q, n)
  <2>1. \A u \in D : q[u] = r[u] /\ r[u] \in 0 .. n
    BY <1>4, <1>5 DEF Closed
  <2>2. \A u \in D : \A e \in Content(u) : e \in D /\ r[e] < r[u]
    BY <1>4, <1>5 DEF Closed
  <2>3. q \in [D -> 0 .. n]
    <3> HIDE DEF D
    <3> QED
      BY <2>1
  <2> HIDE DEF q, D
  <2> QED
    BY <2>1, <2>2, <2>3 DEF Closed
<1> HIDE DEF q
<1>7. \A u \in D : Shaped(u, X, S) /\ PlainHere(u)
  <2>1. \A u \in D : u[1] # "null"
    BY DEF Plain
  <2> QED
    BY <1>4, <1>5, <2>1 DEF Plain, PlainHere
<1>8. Local("conf", D)
  <2> HIDE DEF D, X
  <2> QED
    BY <1>7, ConfLocal
<1>9. PICK f : ConfValue(v, n) = f[v] /\ \A u \in D : f[u] = ConfAt(u, f)
  BY <1>1, <1>5, <1>6, <1>8, ConfIs
<1>10. \A u \in D : Preserved(u, f, f[u])
  <2> TAKE u \in D
  <2>1. Preserved(u, f, ConfAt(u, f))
    <3> HIDE DEF D, X
    <3> QED
      BY <1>7, ConfKeeps
  <2> QED
    BY <1>9, <2>1
<1>11. AsJson(f[v], n) = v
  <2> HIDE DEF D
  <2> QED
    BY <1>1, <1>5, <1>6, <1>10, SaidBack
<1> QED
  BY <1>9, <1>11

\* For every configuration file without what the server cannot keep (a null, a number that
\* its double does not say or that overflows the cast to long long, a boolean in an array,
\* an escaped character, a key beyond one byte a char), however deep it nests:
\* what getKey, add_object, add_array and new_array make of it says what the file says,
\* each value under its key and at its place.
THEOREM ConfigurationKeeps == Spec => []ConfKeepsDocument
<1>1. EditInv => ConfKeepsDocument
  <2> SUFFICES ASSUME EditInv, NEW v \in Documents, Plain(v, Len(text))
               PROVE  AsJson(ConfOf(text), Len(text)) = v
    BY DEF ConfKeepsDocument
  <2>1. text \in Seq(Alphabet)
    BY DEF EditInv
  <2>2. JsonParse(text).ok /\ JsonParse(text).val = v
    BY DEF Documents, Parsed
  <2>3. v \in Denoted(text)
    BY <2>1, <2>2, TerminatorAssumption, DocumentIs
  <2>4. AsJson(ConfValue(v, Len(text)), Len(text)) = v
    BY <2>1, <2>3, DocumentKept
  <2> QED
    BY <2>2, <2>4 DEF ConfOf
<1> QED
  BY <1>1, EditInit, EditStep, PTL DEF Spec

-------------------------------------------------------------------------------
(* Where a printed text stands: its parts, and the numbers in it. *)

LEMMA StandsSplit ==
  ASSUME NEW Y, NEW t, NEW p \in Seq(Y), NEW u \in Seq(Y), NEW i \in Nat, i # 0, NEW last \in Nat,
         Stands(t, p \o u, i, last)
  PROVE  \E e \in Nat : /\ e <= last /\ e + 1 = i + Len(p)
                        /\ Stands(t, p, i, e) /\ Stands(t, u, e + 1, last)
<1> DEFINE e == i + Len(p) - 1
<1>1. Len(p) \in Nat
  OBVIOUS
<1>2. /\ \A k \in 1 .. Len(p) : t[i + k - 1] = p[k]
      /\ Len(p) <= last + 1 - i /\ Stands(t, u, i + Len(p), last)
  BY StandsFurther
<1>3. e \in Nat /\ e <= last /\ e + 1 = i + Len(p) /\ Len(p) = e + 1 - i
  BY <1>1, <1>2
<1> HIDE DEF e
<1>4. Stands(t, p, i, e)
  BY <1>2, <1>3 DEF Stands
<1> QED
  BY <1>2, <1>3, <1>4

LEMMA StandsSub ==
  ASSUME NEW Y, NEW t, NEW q \in Seq(Y), NEW i \in Nat, NEW e \in Nat, Stands(t, q, i, e)
  PROVE  SubSeq(t, i, e) = q
<1>1. Len(q) \in Nat /\ Len(q) = e + 1 - i /\ \A k \in 1 .. Len(q) : t[i + k - 1] = q[k] /\ q[k] \in Y
  BY DEF Stands
<1>2. \A k \in i .. e : t[k] \in Y
  <2> TAKE k \in i .. e
  <2> DEFINE l == k + 1 - i
  <2>1. l \in 1 .. Len(q) /\ i + l - 1 = k
    BY <1>1
  <2> HIDE DEF l
  <2> QED
    BY <1>1, <2>1
<1> DEFINE w == SubSeq(t, i, e)
<1>3. /\ w \in Seq(Y) /\ Len(w) = (IF i <= e THEN e - i + 1 ELSE 0)
      /\ \A k \in 1 .. e - i + 1 : w[k] = t[i + k - 1]
  BY <1>2, SubSeqProperties
<1> HIDE DEF w
<1>4. Len(w) = Len(q) /\ Len(q) = e - i + 1
  BY <1>1, <1>3
<1>5. \A k \in 1 .. Len(w) : w[k] = q[k]
  BY <1>1, <1>3, <1>4
<1>6. w = q
  BY <1>3, <1>4, <1>5, SeqEqual
<1> QED
  BY <1>6 DEF w

LEMMA Signs == "-" \notin Digits /\ "+" \notin Digits /\ "e" \notin Digits /\ "0" \in Digits
BY Listed

SignedAt(t, i, e, m) ==
  \E a \in {i, i + 1} :
    /\ a # i => t[i] = "-"
    /\ a <= e /\ IsWhole(t, a, e) /\ Unsigned(t, i) = a
    /\ Signed(t, i, ParseInt(SubSeq(t, a, e))) = m
    /\ t[i] \in Digits \cup {"-"}

\* The digits of a number where they stand.
LEMMA DigitsStand ==
  ASSUME NEW n \in Nat, NEW t, NEW i \in Nat, NEW e \in Nat, Stands(t, DigitsOf(n), i, e)
  PROVE  i <= e /\ IsWhole(t, i, e) /\ t[i] \in Digits /\ ParseInt(SubSeq(t, i, e)) = n
<1> DEFINE q == DigitsOf(n)
<1>1. /\ q \in Seq(Digits) /\ Len(q) # 0 /\ (q[1] = "0" => Len(q) = 1) /\ ParseInt(q) = n
  BY DigitsSpell DEF Spells
<1>2. Stands(t, q, i, e)
  OBVIOUS
<1> HIDE DEF q
<1>3. SubSeq(t, i, e) = q
  BY <1>1, <1>2, StandsSub, ZenonT(30)
<1>4. Len(q) \in Nat /\ Len(q) = e + 1 - i /\ \A k \in 1 .. Len(q) : t[i + k - 1] = q[k] /\ q[k] \in Digits
  BY <1>1, <1>2 DEF Stands
<1>5. i <= e /\ t[i] = q[1] /\ t[i] \in Digits
  <2>1. 1 \in 1 .. Len(q) /\ i + 1 - 1 = i
    BY <1>1, <1>4
  <2> QED
    BY <1>4, <2>1
<1>6. \A k \in i .. e : t[k] \in Digits
  <2> TAKE k \in i .. e
  <2> DEFINE l == k + 1 - i
  <2>1. l \in 1 .. Len(q) /\ i + l - 1 = k
    BY <1>4
  <2> HIDE DEF l
  <2> QED
    BY <1>4, <2>1
<1>7. t[i] = "0" => i = e
  BY <1>1, <1>4, <1>5
<1> QED
  BY <1>1, <1>3, <1>5, <1>6, <1>7 DEF IsWhole, IsDigits

LEMMA DigitsType ==
  ASSUME NEW n \in Nat, NEW Y, Digits \subseteq Y
  PROVE  DigitsOf(n) \in Seq(Y) /\ Len(DigitsOf(n)) # 0
<1>1. DigitsOf(n) \in Seq(Digits) /\ Len(DigitsOf(n)) # 0
  BY DigitsSpell DEF Spells
<1> QED
  BY <1>1

LEMMA SignedType ==
  ASSUME NEW m \in Int, NEW Y, Digits \subseteq Y, "-" \in Y
  PROVE  SignedDigits(m) \in Seq(Y) /\ Len(SignedDigits(m)) # 0
<1>1. CASE m < 0
  <2> DEFINE q == DigitsOf(-m)
  <2>1. -m \in Nat
    BY <1>1
  <2>2. q \in Seq(Y)
    BY <2>1, DigitsType
  <2> HIDE DEF q
  <2>3. SignedDigits(m) = <<"-">> \o q
    BY <1>1 DEF SignedDigits, q
  <2>4. <<"-">> \o q \in Seq(Y) /\ Len(<<"-">> \o q) # 0
    BY <2>2
  <2> QED
    BY <2>3, <2>4
<1>2. CASE ~ (m < 0)
  <2>1. m \in Nat
    BY <1>2
  <2>2. SignedDigits(m) = DigitsOf(m)
    BY <1>2 DEF SignedDigits
  <2> QED
    BY <2>1, <2>2, DigitsType
<1> QED
  BY <1>1, <1>2

LEMMA SignedStands ==
  ASSUME NEW m \in Int, NEW t, NEW i \in Nat, i # 0, NEW e \in Nat, Stands(t, SignedDigits(m), i, e)
  PROVE  SignedAt(t, i, e, m)
<1>1. CASE m < 0
  <2> DEFINE Y == Digits \cup {"-"}
             q == DigitsOf(-m)
  <2>1. -m \in Nat /\ -(-m) = m
    BY <1>1
  <2>2. q \in Seq(Y) /\ <<"-">> \in Seq(Y)
    <3> "-" \in Y /\ Digits \subseteq Y
      OBVIOUS
    <3> HIDE DEF Y
    <3> QED
      BY <2>1, DigitsType
  <2>3. Stands(t, <<"-">> \o q, i, e)
    BY <1>1 DEF SignedDigits
  <2> HIDE DEF q, Y
  <2>4. PICK d \in Nat : d <= e /\ d + 1 = i + Len(<<"-">>) /\ Stands(t, <<"-">>, i, d) /\ Stands(t, q, d + 1, e)
    BY <2>2, <2>3, StandsSplit
  <2>5. d = i /\ t[i] = "-"
    <3>1. Len(<<"-">>) = 1 /\ <<"-">>[1] = "-"
      OBVIOUS
    <3>2. d = i
      BY <2>4, <3>1
    <3>3. 1 \in 1 .. Len(<<"-">>) /\ i + 1 - 1 = i
      BY <3>1
    <3>4. t[i + 1 - 1] = <<"-">>[1]
      BY <2>4, <3>3 DEF Stands
    <3> QED
      BY <3>1, <3>2, <3>3, <3>4
  <2>6. i + 1 <= e /\ IsWhole(t, i + 1, e) /\ ParseInt(SubSeq(t, i + 1, e)) = -m
    BY <2>1, <2>4, <2>5, DigitsStand DEF q
  <2>7. Unsigned(t, i) = i + 1 /\ Signed(t, i, ParseInt(SubSeq(t, i + 1, e))) = m
    BY <2>1, <2>5, <2>6 DEF Unsigned, Signed
  <2> QED
    BY <2>5, <2>6, <2>7 DEF SignedAt
<1>2. CASE ~ (m < 0)
  <2>1. m \in Nat
    BY <1>2
  <2>2. Stands(t, DigitsOf(m), i, e)
    BY <1>2 DEF SignedDigits
  <2>3. i <= e /\ IsWhole(t, i, e) /\ t[i] \in Digits /\ ParseInt(SubSeq(t, i, e)) = m
    BY <2>1, <2>2, DigitsStand
  <2>4. Unsigned(t, i) = i /\ Signed(t, i, ParseInt(SubSeq(t, i, e))) = m
    <3>1. t[i] # "-" /\ t[i] # "+"
      BY <2>3, Signs
    <3> QED
      BY <2>3, <3>1 DEF Unsigned, Signed
  <2> QED
    BY <2>3, <2>4 DEF SignedAt
<1> QED
  BY <1>1, <1>2

\* A number that is shown is printed as itself.
LEMMA ShownText ==
  ASSUME NEW m, NEW s, Shown(m, s)
  PROVE  NumberText(m, s) = DecimalText(m, s)
<1> DEFINE d == Rounded(Double(m, s))
<1>1. d[1] = "number" /\ d[2] = m /\ d[3] = s
  BY DEF Shown
<1>2. Infinite[1] = "infinite"
  BY DEF Infinite
<1>3. NumberText(m, s) = IF d = Infinite THEN <<"null">> ELSE DecimalText(d[2], d[3])
  BY DEF NumberText
<1> HIDE DEF d
<1> QED
  BY <1>1, <1>2, <1>3

LEMMA NumberType ==
  ASSUME NEW m \in Int, NEW s \in Int, NEW Y, Digits \cup {"-", "e"} \subseteq Y
  PROVE  DecimalText(m, s) \in Seq(Y) /\ Len(DecimalText(m, s)) # 0
<1> DEFINE p == SignedDigits(m)
           q == SignedDigits(s)
           r == IF s = 0 THEN <<>> ELSE <<"e">> \o q
<1>1. p \in Seq(Y) /\ Len(p) # 0 /\ q \in Seq(Y)
  BY SignedType
<1> HIDE DEF p, q
<1>2. r \in Seq(Y)
  BY <1>1
<1> HIDE DEF r
<1>3. p \o r \in Seq(Y) /\ Len(p \o r) # 0
  BY <1>1, <1>2
<1> QED
  BY <1>3 DEF DecimalText, p, q, r

\* A number that is printed is read where it stands.
LEMMA NumberStands ==
  ASSUME NEW t, NEW i \in Nat, i # 0, NEW j \in Nat, NEW m, NEW s, Normal(m, s),
         Stands(t, DecimalText(m, s), i, j)
  PROVE  i <= j /\ t[i] \in Digits \cup {"-"} /\ <<"number", m, s>> \in Numbers(t, i, j)
<1> DEFINE Y == Digits \cup {"-", "e"}
           p == SignedDigits(m)
           q == SignedDigits(s)
           r == IF s = 0 THEN <<>> ELSE <<"e">> \o q
<1>1. m \in Int /\ s \in Int
  BY DEF Normal
<1>2. p \in Seq(Y) /\ Len(p) # 0 /\ q \in Seq(Y) /\ <<"e">> \in Seq(Y)
  <2> Digits \subseteq Y /\ "-" \in Y /\ "e" \in Y
    OBVIOUS
  <2> HIDE DEF Y
  <2> QED
    BY <1>1, SignedType
<1>3. Stands(t, p \o r, i, j)
  BY DEF DecimalText
<1> HIDE DEF p, q, Y
<1>4. r \in Seq(Y)
  BY <1>2
<1>5. PICK e \in Nat : e <= j /\ e + 1 = i + Len(p) /\ Stands(t, p, i, e) /\ Stands(t, r, e + 1, j)
  <2> HIDE DEF r
  <2> QED
    BY <1>2, <1>3, <1>4, StandsSplit
<1>6. SignedAt(t, i, e, m)
  BY <1>1, <1>5, SignedStands DEF p
<1>7. PICK a \in {i, i + 1} : /\ a # i => t[i] = "-"
                              /\ a <= e /\ IsWhole(t, a, e) /\ Unsigned(t, i) = a
                              /\ Signed(t, i, ParseInt(SubSeq(t, a, e))) = m
                              /\ t[i] \in Digits \cup {"-"}
  BY <1>6 DEF SignedAt
<1> DEFINE c == e + 1
           power == Signed(t, c + 1, ParseInt(SubSeq(t, Unsigned(t, c + 1), j)))
<1>8. c \in i .. (j + 1) /\ a < c /\ c <= c /\ c - 1 = e /\ a \in Nat
  BY <1>5, <1>7
<1>9. IsExponent(t, c, j) /\ (IF c > j THEN 0 ELSE power) = s
  <2>1. CASE s = 0
    <3>1. r = <<>> /\ Len(<<>>) = 0
      BY <2>1
    <3>2. 0 = j + 1 - c
      BY <1>5, <3>1 DEF Stands
    <3>3. c > j
      BY <1>5, <3>2
    <3> QED
      BY <1>5, <2>1, <3>3 DEF IsExponent
  <2>2. CASE s # 0
    <3>1. Stands(t, <<"e">> \o q, c, j)
      BY <1>5, <2>2
    <3>2. c \in Nat /\ c # 0
      BY <1>5
    <3> HIDE DEF c
    <3>3. PICK d \in Nat : d <= j /\ d + 1 = c + Len(<<"e">>) /\ Stands(t, <<"e">>, c, d) /\ Stands(t, q, d + 1, j)
      BY <1>2, <3>1, <3>2, StandsSplit
    <3>4. d = c /\ t[c] = "e"
      <4>1. Len(<<"e">>) = 1 /\ <<"e">>[1] = "e"
        OBVIOUS
      <4>2. d = c
        BY <3>2, <3>3, <4>1
      <4>3. 1 \in 1 .. Len(<<"e">>) /\ c + 1 - 1 = c
        BY <3>2, <4>1
      <4>4. t[c + 1 - 1] = <<"e">>[1]
        BY <3>3, <4>3 DEF Stands
      <4> QED
        BY <4>1, <4>2, <4>3, <4>4
    <3>5. SignedAt(t, c + 1, j, s)
      <4>1. c + 1 \in Nat /\ c + 1 # 0
        BY <3>2
      <4> QED
        BY <1>1, <3>3, <3>4, <4>1, SignedStands DEF q
    <3>6. PICK f \in {c + 1, (c + 1) + 1} : /\ f <= j /\ IsWhole(t, f, j) /\ Unsigned(t, c + 1) = f
                                  /\ Signed(t, c + 1, ParseInt(SubSeq(t, f, j))) = s
      BY <3>5 DEF SignedAt
    <3>7. c < j /\ ~ (c > j) /\ IsDigits(t, f, j)
      BY <3>2, <3>6 DEF IsWhole
    <3>8. IsExponent(t, c, j)
      BY <3>4, <3>6, <3>7 DEF IsExponent
    <3>9. power = s
      BY <3>6
    <3> QED
      BY <3>7, <3>8, <3>9
  <2> QED
    BY <2>1, <2>2
<1>10. IsNumber(t, i, j, a, c, c)
  <2>1. IsFraction(t, c, c - 1)
    BY <1>8 DEF IsFraction
  <2> QED
    BY <1>7, <1>8, <1>9, <2>1 DEF IsNumber
<1>11. NumberOf(t, i, j, a, c, c) = <<"number", m, s>>
  <2> DEFINE scale == (IF c = c THEN 0 ELSE c + 1 - c) + (IF c > j THEN 0 ELSE power)
  <2>1. NumberOf(t, i, j, a, c, c) = Number(Signed(t, i, ParseInt(SubSeq(t, a, c - 1))), scale)
    BY DEF NumberOf
  <2>2. scale = s
    <3> HIDE DEF c, power
    <3> QED
      BY <1>1, <1>9
  <2>3. Number(m, s) = <<"number", m, s>>
    BY <1>1, NumberNormal
  <2> HIDE DEF scale
  <2> QED
    BY <1>7, <1>8, <2>1, <2>2, <2>3
<1> HIDE DEF c
<1>12. <<"number", m, s>> \in Numbers(t, i, j)
  <2> DEFINE P == {i, i + 1} \X (i .. (j + 1)) \X (i .. (j + 1))
             g == <<a, c, c>>
  <2>1. g \in P /\ g[1] = a /\ g[2] = c /\ g[3] = c
    BY <1>8
  <2> HIDE DEF g
  <2>2. g \in {x \in P : IsNumber(t, i, j, x[1], x[2], x[3])}
    BY <1>10, <2>1
  <2>3. NumberOf(t, i, j, g[1], g[2], g[3]) \in Numbers(t, i, j)
    BY <2>2 DEF Numbers
  <2> QED
    BY <1>11, <2>1, <2>3
<1>13. i <= j
  BY <1>5, <1>7
<1> QED
  BY <1>7, <1>12, <1>13

-------------------------------------------------------------------------------
(* Printed strings, lists and objects where they stand. *)

LEMMA StandsOne ==
  ASSUME NEW t, NEW c, NEW i \in Nat, NEW e \in Nat, Stands(t, <<c>>, i, e)
  PROVE  e = i /\ t[i] = c
<1>1. Len(<<c>>) = 1 /\ <<c>>[1] = c
  OBVIOUS
<1>2. 1 = e + 1 - i
  BY <1>1 DEF Stands
<1>3. 1 \in 1 .. Len(<<c>>) /\ i + 1 - 1 = i
  BY <1>1
<1>4. t[i + 1 - 1] = <<c>>[1]
  BY <1>3 DEF Stands
<1> QED
  BY <1>1, <1>2, <1>3, <1>4

\* A printed string between its quotes.
LEMMA StringType ==
  ASSUME NEW X, NEW s \in Seq(X), NEW Y, Characters(X) \subseteq Y
  PROVE  StringifyString(s) \in Seq(Y) /\ Len(StringifyString(s)) # 0
<1> DEFINE F == FlattenSeq(Printed(s))
<1>1. F \in Seq(Characters(X))
  BY EscapedType, FlattenType
<1>2. F \in Seq(Y) /\ Quote \in Y
  BY <1>1 DEF Characters
<1>3. StringifyString(s) = <<Quote>> \o F \o <<Quote>>
  BY DEF StringifyString, Printed
<1> HIDE DEF F
<1>4. <<Quote>> \o F \o <<Quote>> \in Seq(Y) /\ Len(<<Quote>> \o F \o <<Quote>>) # 0
  BY <1>2
<1> QED
  BY <1>3, <1>4

LEMMA StringStands ==
  ASSUME NEW C, NEW t \in Seq(C), NEW X, NEW s \in Seq(X), NEW i \in Nat, i # 0,
         NEW j \in Nat, j <= Len(t), Stands(t, StringifyString(s), i, j)
  PROVE  i < j /\ t[i] = Quote /\ t[j] = Quote /\ s \in Unquoted(t, i + 1, j - 1)
<1> DEFINE Y == Characters(X)
           F == FlattenSeq(Printed(s))
           p == <<Quote>> \o F
<1>1. F \in Seq(Y) /\ <<Quote>> \in Seq(Y)
  <2>1. Quote \in Y
    BY DEF Characters
  <2>2. F \in Seq(Y)
    BY EscapedType, FlattenType
  <2> HIDE DEF F, Y
  <2> QED
    BY <2>1, <2>2
<1>2. Stands(t, p \o <<Quote>>, i, j)
  BY DEF StringifyString, Printed
<1> HIDE DEF F, Y
<1>3. p \in Seq(Y) /\ Len(p) # 0
  BY <1>1
<1>4. PICK e \in Nat : e <= j /\ e + 1 = i + Len(p) /\ Stands(t, p, i, e) /\ Stands(t, <<Quote>>, e + 1, j)
  <2> HIDE DEF p
  <2> QED
    BY <1>1, <1>2, <1>3, StandsSplit
<1>5. PICK d \in Nat : d <= e /\ d + 1 = i + Len(<<Quote>>) /\ Stands(t, <<Quote>>, i, d) /\ Stands(t, F, d + 1, e)
  BY <1>1, <1>4, StandsSplit
<1>6. d = i /\ t[i] = Quote
  BY <1>5, StandsOne
<1>7. j = e + 1 /\ t[j] = Quote
  <2>1. e + 1 \in Nat
    BY <1>4
  <2> QED
    BY <1>4, <2>1, StandsOne
<1>8. i + 1 \in 1 .. (Len(t) + 1) /\ j - 1 \in 0 .. Len(t) /\ j - 1 = e /\ i < j
  <2>1. Len(t) \in Nat
    OBVIOUS
  <2> QED
    BY <1>4, <1>5, <1>6, <1>7, <2>1
<1>9. Stands(t, FlattenSeq(Printed(s)), i + 1, j - 1)
  BY <1>5, <1>6, <1>8 DEF F
<1>10. s \in Unquoted(t, i + 1, j - 1)
  BY <1>8, <1>9, PrintedIsUnquoted
<1> QED
  BY <1>6, <1>7, <1>8, <1>10

\* Texts with commas between them, one more text after the other.
LEMMA JoinedNone == Joined(<<>>) = <<>>
<1> DEFINE Q == [k \in DOMAIN <<>> |-> IF k = 1 THEN <<>>[k] ELSE <<Comma>> \o <<>>[k]]
<1>1. Q \in Seq(Seq({})) /\ Len(Q) = 0
  OBVIOUS
<1>2. Joined(<<>>) = FlattenSeq(Q)
  BY DEF Joined
<1> HIDE DEF Q
<1> QED
  BY <1>1, <1>2, FlattenIs

Separated(texts) == [k \in DOMAIN texts |-> IF k = 1 THEN texts[k] ELSE <<Comma>> \o texts[k]]

LEMMA SeparatedType ==
  ASSUME NEW Y, Comma \in Y, NEW texts \in Seq(Seq(Y))
  PROVE  Separated(texts) \in Seq(Seq(Y)) /\ Len(Separated(texts)) = Len(texts)
<1>1. DOMAIN texts = 1 .. Len(texts) /\ Len(texts) \in Nat
  OBVIOUS
<1>2. ASSUME NEW k \in 1 .. Len(texts) PROVE <<Comma>> \o texts[k] \in Seq(Y) /\ texts[k] \in Seq(Y)
  <2>1. texts[k] \in Seq(Y) /\ <<Comma>> \in Seq(Y)
    OBVIOUS
  <2> DEFINE q == texts[k]
  <2>2. q \in Seq(Y)
    BY <2>1
  <2> HIDE DEF q
  <2>3. <<Comma>> \o q \in Seq(Y)
    BY <2>1, <2>2
  <2> QED
    BY <2>1, <2>3 DEF q
<1>3. \A k \in 1 .. Len(texts) : (IF k = 1 THEN texts[k] ELSE <<Comma>> \o texts[k]) \in Seq(Y)
  BY <1>2
<1> QED
  BY <1>1, <1>3 DEF Separated

LEMMA JoinedAppend ==
  ASSUME NEW Y, Comma \in Y, NEW texts \in Seq(Seq(Y)), NEW x \in Seq(Y)
  PROVE  /\ Joined(texts) \in Seq(Y)
         /\ Joined(Append(texts, x)) = IF texts = <<>> THEN x ELSE Joined(texts) \o (<<Comma>> \o x)
<1> DEFINE Z == Seq(Y)
           n == Len(texts)
           r == IF n = 0 THEN x ELSE <<Comma>> \o x
           P == Separated(texts)
           Q == Separated(Append(texts, x))
<1>1. r \in Z
  <2>1. <<Comma>> \o x \in Z
    OBVIOUS
  <2> QED
    BY <2>1
<1>2. Append(texts, x) \in Seq(Z) /\ Len(Append(texts, x)) = n + 1 /\ n \in Nat
  OBVIOUS
<1>3. P \in Seq(Z) /\ Len(P) = n /\ Q \in Seq(Z) /\ Len(Q) = n + 1
  BY <1>2, SeparatedType
<1>4. Q = Append(P, r)
  <2> DEFINE u == Append(texts, x)
             R == Append(P, r)
  <2>1. /\ DOMAIN texts = 1 .. n /\ DOMAIN u = 1 .. (n + 1) /\ u[n + 1] = x
        /\ \A k \in 1 .. n : u[k] = texts[k]
    OBVIOUS
  <2>2. \A k \in 1 .. (n + 1) : Q[k] = IF k = 1 THEN u[k] ELSE <<Comma>> \o u[k]
    BY <2>1 DEF Separated
  <2>3. \A k \in 1 .. n : P[k] = IF k = 1 THEN texts[k] ELSE <<Comma>> \o texts[k]
    BY <2>1 DEF Separated
  <2> HIDE DEF P, Q, u, r, Z
  <2>4. R \in Seq(Z) /\ Len(R) = n + 1 /\ R[n + 1] = r /\ \A k \in 1 .. n : R[k] = P[k]
    BY <1>1, <1>3
  <2> HIDE DEF R
  <2>5. ASSUME NEW k \in 1 .. (n + 1) PROVE Q[k] = R[k]
    <3>1. CASE k \in 1 .. n
      BY <2>1, <2>2, <2>3, <2>4, <3>1, ZenonT(30)
    <3>2. CASE k = n + 1
      <4>1. k = 1 <=> n = 0
        BY <1>2, <3>2
      <4> QED
        BY <2>1, <2>2, <2>4, <3>2, <4>1 DEF r
    <3>3. k \in 1 .. n \/ k = n + 1
      BY <1>2
    <3> QED
      BY <3>1, <3>2, <3>3
  <2>6. Q = R
    BY <1>3, <2>4, <2>5, SeqEqual
  <2> QED
    BY <2>6 DEF R
<1>5. Joined(texts) = FlattenSeq(P) /\ Joined(Append(texts, x)) = FlattenSeq(Q)
  BY DEF Joined, Separated
<1>6. FlattenSeq(P) \in Seq(Y)
  BY <1>3, FlattenType
<1> HIDE DEF P, Q, r
<1>7. FlattenSeq(Q) = FlattenSeq(P) \o r
  BY <1>1, <1>3, <1>4, FlattenAppend
<1>8. CASE n = 0
  <2>1. texts = <<>>
    BY <1>8
  <2>2. FlattenSeq(P) = <<>>
    <3>1. P \in Seq(Seq(Y)) /\ Len(P) = 0
      BY <1>3, <1>8
    <3> QED
      BY <3>1, FlattenIs
  <2> QED
    BY <1>5, <1>6, <1>7, <1>8, <2>1, <2>2 DEF r
<1>9. CASE n # 0
  <2>1. texts # <<>>
    BY <1>9
  <2> QED
    BY <1>5, <1>6, <1>7, <1>9, <2>1 DEF r
<1> QED
  BY <1>8, <1>9

LEMMA ValueNotBlank ==
  ASSUME NEW t, NEW m, IsGrammar(t, m),
         NEW i \in 1 .. (Len(t) + 1), NEW j \in 0 .. Len(t), NEW v \in m[<<"value", i, j>>]
  PROVE  t[i] \notin White
<1>1. v \in Value(t, m, i, j)
  BY DEF IsGrammar
<1>2. \/ IsLiteral(t, i, j, v) \/ IsString(t, i, j, v) \/ IsNumeric(t, i, j, v)
      \/ IsArray(t, m, i, j, v) \/ IsObject(t, m, i, j, v)
  BY <1>1, InValue
<1>3. t[i] \in DOMAIN Literal \cup Digits \cup {Quote, "-", "[", "{"}
  BY <1>2 DEF IsLiteral, IsString, IsNumeric, IsArray, IsObject
<1> QED
  BY <1>3, Blanks

\* What is printed of a value says it wherever it stands.
StandsFor(t, m, Y, u, q) ==
  /\ q \in Seq(Y)
  /\ \A i, j \in Nat : i # 0 /\ j <= Len(t) /\ Stands(t, q, i, j) => i <= j /\ u \in m[<<"value", i, j>>]

\* What comes behind some elements or members: nothing, or a comma and the rest.
Follows(t, m, w, e, j, rest) ==
  \/ rest = <<>> /\ e = j
  \/ e < j /\ t[e + 1] = Comma /\ rest \in m[<<w, e + 2, j>>]

LEMMA FirstElement ==
  ASSUME NEW C, NEW t \in Seq(C), NEW m, IsGrammar(t, m), NEW Y, NEW x, NEW q, StandsFor(t, m, Y, x, q),
         NEW i \in Nat, i # 0, NEW e \in Nat, NEW j \in Nat, e <= j, j <= Len(t),
         Stands(t, q, i, e), NEW rest, Follows(t, m, "elements", e, j, rest)
  PROVE  i <= e /\ <<x>> \o rest \in m[<<"elements", i, j>>]
<1> DEFINE n == Len(t)
<1>1. n \in Nat /\ e <= n
  OBVIOUS
<1>2. i <= e /\ x \in m[<<"value", i, e>>]
  BY <1>1 DEF StandsFor
<1>3. i \in 1 .. (n + 1) /\ e \in 0 .. n /\ j \in 0 .. n
  BY <1>1, <1>2
<1>4. t[i] \notin White
  BY <1>2, <1>3, ValueNotBlank
<1>5. x \in Padded(t, m, i, e)
  <2>1. AllWhite(t, i, i - 1) /\ AllWhite(t, e + 1, e) /\ i <= i /\ e <= e
    BY DEF AllWhite
  <2> QED
    BY <1>2, <1>4, <2>1, Place
<1>6. m[<<"elements", i, j>>] = Elements(t, m, i, j)
  BY <1>3 DEF IsGrammar
<1>7. CASE rest = <<>> /\ e = j
  <2>1. <<x>> \in Elements(t, m, i, j)
    BY <1>5, <1>7, InElements
  <2>2. <<x>> \o rest = <<x>>
    BY <1>7
  <2> QED
    BY <1>2, <1>6, <2>1, <2>2
<1>8. CASE e < j /\ t[e + 1] = Comma /\ rest \in m[<<"elements", e + 2, j>>]
  <2> DEFINE c == e + 1
  <2>1. c \in Marks(t, i, j, Comma) /\ c - 1 = e /\ c + 1 = e + 2
    BY <1>2, <1>8 DEF Marks
  <2> HIDE DEF c
  <2>2. Headed(x, rest) \in ElementsAround(t, m, i, c, j)
    BY <1>5, <1>8, <2>1, InAround
  <2>3. Headed(x, rest) \in Elements(t, m, i, j)
    BY <2>1, <2>2, InElements
  <2> QED
    BY <1>2, <1>6, <2>3 DEF Headed
<1> QED
  BY <1>7, <1>8 DEF Follows

Texts(s, f) == [k \in DOMAIN s |-> f[s[k]]]

Gives(f, V, Z) == \A u \in V : f[u] \in Z

LEMMA TextsAppend ==
  ASSUME NEW Z, NEW V, NEW f, Gives(f, V, Z), NEW s \in Seq(V), NEW x \in V
  PROVE  /\ Texts(s, f) \in Seq(Z) /\ Len(Texts(s, f)) = Len(s)
         /\ Texts(Append(s, x), f) = Append(Texts(s, f), f[x])
<1> DEFINE n == Len(s)
           u == Append(s, x)
           P == Texts(s, f)
           Q == Texts(u, f)
           R == Append(P, f[x])
<1>1. /\ n \in Nat /\ DOMAIN s = 1 .. n /\ DOMAIN u = 1 .. (n + 1) /\ u[n + 1] = x
      /\ \A k \in 1 .. n : u[k] = s[k] /\ s[k] \in V
  OBVIOUS
<1>2. \A k \in 1 .. (n + 1) : u[k] \in V
  OBVIOUS
<1> HIDE DEF u
<1>3. P \in Seq(Z) /\ Len(P) = n /\ \A k \in 1 .. n : P[k] = f[s[k]]
  BY <1>1 DEF Texts, Gives
<1>4. Q \in Seq(Z) /\ Len(Q) = n + 1 /\ \A k \in 1 .. (n + 1) : Q[k] = f[u[k]]
  BY <1>1, <1>2 DEF Texts, Gives
<1> HIDE DEF P, Q
<1>5. R \in Seq(Z) /\ Len(R) = n + 1 /\ R[n + 1] = f[x] /\ \A k \in 1 .. n : R[k] = P[k]
  <2>1. f[x] \in Z
    BY DEF Gives
  <2> QED
    BY <1>3, <2>1
<1> HIDE DEF R
<1>6. ASSUME NEW k \in 1 .. (n + 1) PROVE Q[k] = R[k]
  <2>1. k \in 1 .. n \/ k = n + 1
    BY <1>1
  <2> QED
    BY <1>1, <1>3, <1>4, <1>5, <2>1
<1>7. Q = R
  BY <1>4, <1>5, <1>6, SeqEqual
<1> QED
  BY <1>3, <1>7 DEF P, Q, R, u

LEMMA JoinedMore ==
  ASSUME NEW Y, Comma \in Y, NEW V, NEW f, Gives(f, V, Seq(Y)), NEW q \in Seq(V), NEW x \in V
  PROVE  /\ Joined(Texts(q, f)) \in Seq(Y)
         /\ Joined(Texts(Append(q, x), f)) =
              IF q = <<>> THEN f[x] ELSE Joined(Texts(q, f)) \o (<<Comma>> \o f[x])
<1> DEFINE Z == Seq(Y)
           T == Texts(q, f)
           R == Texts(Append(q, x), f)
<1>1. Gives(f, V, Z)
  OBVIOUS
<1> HIDE DEF Z
<1>2. T \in Seq(Z) /\ Len(T) = Len(q) /\ R = Append(T, f[x])
  BY <1>1, TextsAppend
<1> HIDE DEF T, R
<1>3. T \in Seq(Seq(Y)) /\ f[x] \in Seq(Y)
  BY <1>1, <1>2 DEF Z, Gives
<1>4. Joined(T) \in Seq(Y) /\ Joined(R) = IF T = <<>> THEN f[x] ELSE Joined(T) \o (<<Comma>> \o f[x])
  BY <1>2, <1>3, JoinedAppend
<1>5. T = <<>> <=> q = <<>>
  BY <1>2
<1> QED
  BY <1>4, <1>5 DEF T, R

LEMMA ElementsStand ==
  ASSUME NEW C, NEW t \in Seq(C), NEW m, IsGrammar(t, m), NEW Y, Comma \in Y, NEW V, NEW f,
         \A u \in V : StandsFor(t, m, Y, u, f[u]),
         NEW s \in Seq(V), s # <<>>, NEW i \in Nat, i # 0, NEW j \in Nat, j <= Len(t),
         Stands(t, Joined(Texts(s, f)), i, j)
  PROVE  s \in m[<<"elements", i, j>>]
<1> DEFINE n == Len(t)
           W == Within(m, 1, n)
           Reading(q) ==
             \A a, e, b \in Nat : a # 0 /\ e <= b /\ b <= n /\ Stands(t, Joined(Texts(q, f)), a, e) =>
               \A rest : Follows(t, m, "elements", e, b, rest) => q \o rest \in m[<<"elements", a, b>>]
           P == {q \in Seq(V) : q # <<>> => Reading(q)}
<1>1. n \in Nat
  OBVIOUS
<1>2. Gives(f, V, Seq(Y))
  BY DEF StandsFor, Gives
<1>3. <<>> \in P
  OBVIOUS
<1>4. ASSUME NEW q \in P, NEW x \in V PROVE Append(q, x) \in P
  <2>1. q \in Seq(V) /\ (q # <<>> => Reading(q))
    OBVIOUS
  <2> HIDE DEF P
  <2>2. ASSUME NEW a \in Nat, NEW e \in Nat, NEW b \in Nat, a # 0, e <= b, b <= n,
               Stands(t, Joined(Texts(Append(q, x), f)), a, e),
               NEW rest, Follows(t, m, "elements", e, b, rest)
        PROVE  Append(q, x) \o rest \in m[<<"elements", a, b>>]
    <3> DEFINE T == Texts(q, f)
               y == f[x]
    <3>1. y \in Seq(Y) /\ StandsFor(t, m, Y, x, y) /\ x \in V
      BY <1>2 DEF Gives
    <3>2. /\ Joined(T) \in Seq(Y)
          /\ Joined(Texts(Append(q, x), f)) = IF q = <<>> THEN y ELSE Joined(T) \o (<<Comma>> \o y)
      <4> HIDE DEF Reading
      <4> QED
        BY <1>2, <2>1, JoinedMore, SMTT(30)
    <3>3. Stands(t, IF q = <<>> THEN y ELSE Joined(T) \o (<<Comma>> \o y), a, e)
      BY <2>2, <3>2
    <3> HIDE DEF T, y
    <3>4. rest \in Seq(W)
      <4>1. CASE rest = <<>>
        BY <4>1
      <4>2. CASE e < b /\ rest \in m[<<"elements", e + 2, b>>]
        <5>1. e + 2 \in 1 .. (n + 1) /\ b \in 0 .. n
          BY <1>1, <2>2, <4>2
        <5>2. m[<<"elements", e + 2, b>>] \subseteq Seq(W)
          BY <1>1, <5>1, ElementsWithin
        <5> QED
          BY <4>2, <5>2
      <4> QED
        BY <2>2, <4>1, <4>2 DEF Follows
    <3>5. CASE q = <<>>
      <4>1. Stands(t, y, a, e)
        BY <3>3, <3>5
      <4>2. <<x>> \o rest \in m[<<"elements", a, b>>]
        BY <2>2, <3>1, <4>1, FirstElement
      <4>3. Append(q, x) = <<x>>
        BY <3>5
      <4> QED
        BY <4>2, <4>3
    <3>6. CASE q # <<>>
      <4>1. Stands(t, Joined(T) \o (<<Comma>> \o y), a, e)
        BY <3>3, <3>6
      <4>2. <<Comma>> \in Seq(Y) /\ <<Comma>> \o y \in Seq(Y)
        BY <3>1
      <4>3. PICK d \in Nat : /\ d <= e /\ Stands(t, Joined(T), a, d)
                             /\ Stands(t, <<Comma>> \o y, d + 1, e)
        BY <2>2, <3>2, <4>1, <4>2, StandsSplit
      <4>4. PICK c \in Nat : /\ c <= e /\ Stands(t, <<Comma>>, d + 1, c) /\ Stands(t, y, c + 1, e)
        <5>1. d + 1 \in Nat /\ d + 1 # 0
          BY <4>3
        <5> QED
          BY <3>1, <4>2, <4>3, <5>1, StandsSplit
      <4>5. c = d + 1 /\ t[d + 1] = Comma
        <5>1. d + 1 \in Nat
          BY <4>3
        <5> QED
          BY <4>4, <5>1, StandsOne
      <4> DEFINE more == <<x>> \o rest
      <4>6. d + 2 <= e /\ more \in m[<<"elements", d + 2, b>>]
        <5>1. d + 2 \in Nat /\ d + 2 # 0 /\ c + 1 = d + 2
          BY <4>3, <4>5
        <5> QED
          BY <2>2, <3>1, <4>4, <5>1, FirstElement
      <4>7. Follows(t, m, "elements", d, b, more) /\ d <= b
        <5> HIDE DEF more
        <5> QED
          BY <2>2, <4>3, <4>5, <4>6 DEF Follows
      <4>8. Reading(q)
        BY <2>1, <3>6
      <4>9. q \o more \in m[<<"elements", a, b>>]
        <5> HIDE DEF more
        <5> QED
          BY <2>2, <4>3, <4>7, <4>8 DEF T
      <4>10. Append(q, x) \o rest = q \o more
        <5> DEFINE U == V \cup W
        <5>1. q \in Seq(U) /\ rest \in Seq(U) /\ <<x>> \in Seq(U) /\ Append(q, x) = q \o <<x>>
          BY <2>1, <3>4
        <5> HIDE DEF U
        <5> QED
          BY <5>1, ConcatAssociative
      <4> QED
        BY <4>9, <4>10
    <3> QED
      BY <3>5, <3>6
  <2>3. Reading(Append(q, x)) /\ Append(q, x) \in Seq(V)
    BY <2>1, <2>2
  <2> HIDE DEF Reading
  <2> QED
    BY <2>3 DEF P
<1>5. P = Seq(V)
  <2> HIDE DEF P
  <2> QED
    BY <1>3, <1>4, AllLists DEF P
<1>6. Reading(s)
  BY <1>5
<1>7. s \o <<>> = s /\ Follows(t, m, "elements", j, j, <<>>)
  BY DEF Follows
<1>8. j <= j
  OBVIOUS
<1> QED
  BY <1>6, <1>7, <1>8

LEMMA FirstMember ==
  ASSUME NEW C, NEW t \in Seq(C), NEW m, IsGrammar(t, m), NEW X, NEW k \in Seq(X),
         NEW Y, Characters(X) \subseteq Y, Colon \in Y, NEW v, NEW q, StandsFor(t, m, Y, v, q),
         NEW i \in Nat, i # 0, NEW e \in Nat, NEW j \in Nat, e <= j, j <= Len(t),
         Stands(t, StringifyString(k) \o <<Colon>> \o q, i, e),
         NEW g, Follows(t, m, "members", e, j, g)
  PROVE  i <= e /\ t[i] = Quote /\ Under(k, v, g) \in m[<<"members", i, j>>]
<1> DEFINE n == Len(t)
           name == StringifyString(k)
           p == name \o <<Colon>>
<1>1. n \in Nat /\ e <= n
  OBVIOUS
<1>2. name \in Seq(Y) /\ <<Colon>> \in Seq(Y) /\ q \in Seq(Y)
  BY StringType DEF StandsFor
<1> HIDE DEF name
<1>3. p \in Seq(Y)
  BY <1>2
<1>4. PICK c \in Nat : c <= e /\ Stands(t, p, i, c) /\ Stands(t, q, c + 1, e)
  <2>1. Stands(t, p \o q, i, e)
    BY DEF name
  <2> HIDE DEF p
  <2> QED
    BY <1>2, <1>3, <2>1, StandsSplit
<1>5. PICK a \in Nat : a <= c /\ a + 1 = i + Len(name) /\ Stands(t, name, i, a) /\ Stands(t, <<Colon>>, a + 1, c)
  BY <1>2, <1>4, StandsSplit
<1>6. c = a + 1 /\ t[c] = Colon
  <2>1. a + 1 \in Nat
    BY <1>5
  <2> QED
    BY <1>5, <2>1, StandsOne
<1>7. i < a /\ t[i] = Quote /\ t[a] = Quote /\ k \in Unquoted(t, i + 1, a - 1)
  <2>1. a <= n
    BY <1>1, <1>4, <1>5
  <2> QED
    BY <1>5, <2>1, StringStands DEF name
<1>8. c + 1 <= e /\ v \in m[<<"value", c + 1, e>>]
  <2>1. c + 1 \in Nat /\ c + 1 # 0
    BY <1>4
  <2> QED
    BY <1>1, <1>4, <2>1 DEF StandsFor
<1>9. /\ i \in 1 .. (n + 1) /\ j \in 0 .. n /\ c - 1 = a /\ c \in i .. j /\ i <= e
      /\ c + 1 \in 1 .. (n + 1) /\ e \in 0 .. n /\ c + 1 \in Nat
  BY <1>1, <1>4, <1>5, <1>6, <1>7, <1>8
<1>10. k \in Keys(t, i, c - 1)
  <2>1. i \in Fronts(t, i, a)
    <3>1. AllWhite(t, i, i - 1)
      BY DEF AllWhite
    <3>2. t[i] \notin White
      BY <1>7, Solid
    <3>3. i \in i .. a
      BY <1>5, <1>7
    <3> QED
      BY <3>1, <3>2, <3>3 DEF Fronts
  <2>2. a \in Backs(t, i, a)
    BY <1>5, <1>7 DEF Backs, AllWhite
  <2> QED
    BY <1>7, <1>9, <2>1, <2>2, InKeys
<1>11. v \in Padded(t, m, c + 1, e)
  <2>1. t[c + 1] \notin White
    BY <1>8, <1>9, ValueNotBlank
  <2>2. AllWhite(t, c + 1, (c + 1) - 1) /\ AllWhite(t, e + 1, e) /\ c + 1 <= c + 1 /\ e <= e
    BY <1>9 DEF AllWhite
  <2> QED
    BY <1>8, <1>9, <2>1, <2>2, Place
<1>12. c \in Marks(t, i, j, Colon)
  BY <1>6, <1>9 DEF Marks
<1>13. m[<<"members", i, j>>] = Members(t, m, i, j)
  BY <1>9 DEF IsGrammar
<1>14. CASE g = <<>> /\ e = j
  <2>1. Under(k, v, g) \in Member(t, m, i, c, j)
    BY <1>10, <1>11, <1>14 DEF Member
  <2> QED
    BY <1>7, <1>9, <1>12, <1>13, <2>1, InMembers
<1>15. CASE e < j /\ t[e + 1] = Comma /\ g \in m[<<"members", e + 2, j>>]
  <2> DEFINE d == e + 1
  <2>1. d \in Marks(t, c, j, Comma) /\ d - 1 = e /\ d + 1 = e + 2
    BY <1>8, <1>9, <1>15, SMTT(30) DEF Marks
  <2> HIDE DEF d
  <2>2. Under(k, v, g) \in MembersAround(t, m, i, c, d, j)
    <3>1. v \in Padded(t, m, c + 1, d - 1) /\ g \in m[<<"members", d + 1, j>>]
      BY <1>11, <1>15, <2>1
    <3> QED
      BY <1>10, <3>1 DEF MembersAround
  <2> QED
    BY <1>7, <1>9, <1>12, <1>13, <2>1, <2>2, InMembers
<1> QED
  BY <1>14, <1>15 DEF Follows

\* An object, and the members that some keys have in another ahead of it.
Over(o, keys, g) ==
  [k \in DOMAIN g \cup ToSet(keys) |-> IF k \in DOMAIN g THEN g[k] ELSE o[k]]

LEMMA OverUnder ==
  ASSUME NEW K, NEW o, NEW q \in Seq(K), NEW x \in K, NEW g
  PROVE  /\ Over(o, q, Under(x, o[x], g)) = Over(o, Append(q, x), g)
         /\ q = <<>> => Over(o, q, Under(x, o[x], g)) = Under(x, o[x], g)
<1> DEFINE u == Under(x, o[x], g)
           N == DOMAIN g
           S == ToSet(q)
<1>1. ToSet(Append(q, x)) = S \cup {x}
  <2> DEFINE w == Append(q, x)
  <2>1. /\ DOMAIN q = 1 .. Len(q) /\ DOMAIN w = 1 .. (Len(q) + 1) /\ Len(q) \in Nat
        /\ w[Len(q) + 1] = x /\ \A k \in 1 .. Len(q) : w[k] = q[k]
    OBVIOUS
  <2> HIDE DEF w
  <2>2. \A k \in 1 .. (Len(q) + 1) : k \in 1 .. Len(q) \/ k = Len(q) + 1
    BY <2>1
  <2>3. \A y : y \in ToSet(w) <=> \E k \in 1 .. (Len(q) + 1) : w[k] = y
    BY <2>1 DEF ToSet
  <2>4. \A y : y \in ToSet(q) <=> \E k \in 1 .. Len(q) : q[k] = y
    BY <2>1 DEF ToSet
  <2>5. Len(q) + 1 \in 1 .. (Len(q) + 1) /\ 1 .. Len(q) \subseteq 1 .. (Len(q) + 1)
    BY <2>1
  <2>6. \A y : y \in ToSet(w) <=> y \in S \cup {x}
    BY <2>1, <2>2, <2>3, <2>4, <2>5
  <2> QED
    BY <2>6 DEF w
<1>2. DOMAIN u = N \cup {x} /\ \A k \in N \cup {x} : u[k] = IF k \in N THEN g[k] ELSE o[x]
  BY DEF Under
<1>3. Over(o, Append(q, x), g) = [k \in N \cup (S \cup {x}) |-> IF k \in N THEN g[k] ELSE o[k]]
  BY <1>1 DEF Over
<1>4. Over(o, q, u) = [k \in (N \cup {x}) \cup S |-> IF k \in N \cup {x} THEN u[k] ELSE o[k]]
  BY <1>2 DEF Over
<1>5. (N \cup {x}) \cup S = N \cup (S \cup {x})
  OBVIOUS
<1>6. \A k \in (N \cup {x}) \cup S :
        (IF k \in N \cup {x} THEN u[k] ELSE o[k]) = (IF k \in N THEN g[k] ELSE o[k])
  BY <1>2
<1>7. Over(o, q, u) = Over(o, Append(q, x), g)
  BY <1>3, <1>4, <1>5, <1>6
<1>8. ASSUME q = <<>> PROVE Over(o, q, u) = u
  <2>1. S = {}
    BY <1>8 DEF ToSet
  <2>2. u = [k \in N \cup {x} |-> u[k]]
    BY DEF Under
  <2>3. \A k \in N \cup {x} : (IF k \in N \cup {x} THEN u[k] ELSE o[k]) = u[k]
    OBVIOUS
  <2>4. (N \cup {x}) \cup S = N \cup {x}
    BY <2>1
  <2> HIDE DEF u, N, S
  <2> QED
    BY <1>4, <2>2, <2>3, <2>4
<1> QED
  BY <1>7, <1>8

\* What is printed of some keys of an object and of their values.
Saying(t, m, X, Y, o, K, f, h) ==
  \A k \in K : /\ k \in Seq(X) /\ StandsFor(t, m, Y, o[k], f[o[k]])
              /\ h[k] = StringifyString(k) \o <<Colon>> \o f[o[k]]

LEMMA MembersStand ==
  ASSUME NEW C, NEW t \in Seq(C), NEW m, IsGrammar(t, m), NEW X,
         NEW Y, Characters(X) \subseteq Y, Colon \in Y, Comma \in Y, NEW o, NEW K, NEW f, NEW h,
         Saying(t, m, X, Y, o, K, f, h), NEW s \in Seq(K), s # <<>>, NEW i \in Nat, i # 0, NEW j \in Nat, j <= Len(t),
         Stands(t, Joined(Texts(s, h)), i, j)
  PROVE  t[i] = Quote /\ i <= j /\ Over(o, s, <<>>) \in m[<<"members", i, j>>]
<1> DEFINE n == Len(t)
           Reading(q) ==
             \A a, e, b \in Nat : a # 0 /\ e <= b /\ b <= n /\ Stands(t, Joined(Texts(q, h)), a, e) =>
               \A g : Follows(t, m, "members", e, b, g) =>
                 a <= e /\ t[a] = Quote /\ Over(o, q, g) \in m[<<"members", a, b>>]
           P == {q \in Seq(K) : q # <<>> => Reading(q)}
<1> /\ K \in SUBSET Seq(X)
    /\ \A k \in K : StandsFor(t, m, Y, o[k], f[o[k]]) /\ h[k] = StringifyString(k) \o <<Colon>> \o f[o[k]]
  BY DEF Saying
<1>1. n \in Nat
  OBVIOUS
<1>2. Gives(h, K, Seq(Y))
  <2> SUFFICES \A k \in K : h[k] \in Seq(Y)
    BY DEF Gives
  <2> TAKE k \in K
  <2> DEFINE name == StringifyString(k)
             q == f[o[k]]
  <2>1. k \in Seq(X) /\ <<Colon>> \in Seq(Y)
    OBVIOUS
  <2>2. h[k] = name \o <<Colon>> \o q
    OBVIOUS
  <2>3. name \in Seq(Y)
    BY <2>1, StringType
  <2>4. q \in Seq(Y)
    BY DEF StandsFor
  <2> HIDE DEF name, q
  <2>5. name \o <<Colon>> \o q \in Seq(Y)
    BY <2>1, <2>3, <2>4
  <2> QED
    BY <2>5, <2>2
<1>3. <<>> \in P
  OBVIOUS
<1>4. ASSUME NEW q \in P, NEW x \in K PROVE Append(q, x) \in P
  <2>1. q \in Seq(K) /\ (q # <<>> => Reading(q)) /\ x \in Seq(X)
    OBVIOUS
  <2> HIDE DEF P
  <2>2. \A g : /\ Over(o, q, Under(x, o[x], g)) = Over(o, Append(q, x), g)
               /\ q = <<>> => Over(o, q, Under(x, o[x], g)) = Under(x, o[x], g)
    <3>1. q \in Seq(K) /\ x \in K
      BY <2>1
    <3> QED
      BY ONLY <3>1, OverUnder
  <2>3. ASSUME NEW a \in Nat, NEW e \in Nat, NEW b \in Nat, a # 0, e <= b, b <= n,
               Stands(t, Joined(Texts(Append(q, x), h)), a, e),
               NEW g, Follows(t, m, "members", e, b, g)
        PROVE  a <= e /\ t[a] = Quote /\ Over(o, Append(q, x), g) \in m[<<"members", a, b>>]
    <3> DEFINE T == Texts(q, h)
               y == h[x]
    <3>1. y \in Seq(Y) /\ StandsFor(t, m, Y, o[x], f[o[x]]) /\ y = StringifyString(x) \o <<Colon>> \o f[o[x]]
      BY <1>2 DEF Gives
    <3>2. /\ Joined(T) \in Seq(Y)
          /\ Joined(Texts(Append(q, x), h)) = IF q = <<>> THEN y ELSE Joined(T) \o (<<Comma>> \o y)
      <4> HIDE DEF Reading
      <4> QED
        BY <1>2, <2>1, JoinedMore, SMTT(30)
    <3>3. Stands(t, IF q = <<>> THEN y ELSE Joined(T) \o (<<Comma>> \o y), a, e)
      BY <2>3, <3>2
    <3> HIDE DEF T, y
    <3>4. CASE q = <<>>
      <4>1. Stands(t, y, a, e)
        BY <3>3, <3>4
      <4>2. a <= e /\ t[a] = Quote /\ Under(x, o[x], g) \in m[<<"members", a, b>>]
        BY <2>1, <2>3, <3>1, <4>1, FirstMember
      <4>3. Under(x, o[x], g) = Over(o, Append(q, x), g)
        BY <2>2, <3>4
      <4> QED
        BY <4>2, <4>3
    <3>5. CASE q # <<>>
      <4>1. Stands(t, Joined(T) \o (<<Comma>> \o y), a, e)
        BY <3>3, <3>5
      <4>2. <<Comma>> \in Seq(Y) /\ <<Comma>> \o y \in Seq(Y)
        BY <3>1
      <4>3. PICK d \in Nat : /\ d <= e /\ Stands(t, Joined(T), a, d)
                             /\ Stands(t, <<Comma>> \o y, d + 1, e)
        BY <2>3, <3>2, <4>1, <4>2, StandsSplit
      <4>4. PICK c \in Nat : /\ c <= e /\ Stands(t, <<Comma>>, d + 1, c) /\ Stands(t, y, c + 1, e)
        <5>1. d + 1 \in Nat /\ d + 1 # 0
          BY <4>3
        <5> QED
          BY <3>1, <4>2, <4>3, <5>1, StandsSplit
      <4>5. c = d + 1 /\ t[d + 1] = Comma
        <5>1. d + 1 \in Nat
          BY <4>3
        <5> QED
          BY <4>4, <5>1, StandsOne
      <4> DEFINE more == Under(x, o[x], g)
      <4>6. d + 2 <= e /\ more \in m[<<"members", d + 2, b>>]
        <5>1. d + 2 \in Nat /\ d + 2 # 0 /\ c + 1 = d + 2
          BY <4>3, <4>5, SMTT(30)
        <5> QED
          BY <2>1, <2>3, <3>1, <4>4, <5>1, FirstMember
      <4> HIDE DEF more
      <4>7. Follows(t, m, "members", d, b, more) /\ d <= b
        BY <2>3, <4>3, <4>5, <4>6 DEF Follows
      <4>8. Reading(q)
        BY <2>1, <3>5
      <4>9. a <= d /\ t[a] = Quote /\ Over(o, q, more) \in m[<<"members", a, b>>]
        BY <2>3, <4>3, <4>7, <4>8 DEF T
      <4>10. Over(o, q, more) = Over(o, Append(q, x), g)
        BY <2>2 DEF more
      <4>11. a <= e
        BY <4>3, <4>9
      <4> QED
        BY <4>9, <4>10, <4>11
    <3> QED
      BY <3>4, <3>5
  <2>4. Reading(Append(q, x)) /\ Append(q, x) \in Seq(K)
    BY <2>1, <2>3
  <2> HIDE DEF Reading
  <2> QED
    BY <2>4 DEF P
<1>5. P = Seq(K)
  <2> HIDE DEF P
  <2> QED
    BY <1>3, <1>4, AllLists DEF P
<1>6. Reading(s)
  BY <1>5
<1>7. Follows(t, m, "members", j, j, <<>>) /\ j <= j
  BY DEF Follows
<1> QED
  BY <1>6, <1>7

-------------------------------------------------------------------------------
(* What is printed of a value. *)

\* The keys of an object, listed in some order.
LEMMA SetToSeqIs ==
  ASSUME NEW S, IsFiniteSet(S)
  PROVE  SetToSeq(S) \in Seq(S) /\ ToSet(SetToSeq(S)) = S
<1> DEFINE n == Cardinality(S)
           R == 1 .. n
           q == CHOOSE f \in [R -> S] : IsInjective(f)
<1>1. n \in Nat /\ ExistsBijection(R, S)
  BY FS_CardinalityType
<1>2. \E f \in [R -> S] : IsInjective(f)
  <2>1. PICK f : f \in Bijection(R, S)
    BY <1>1 DEF ExistsBijection
  <2> QED
    BY <2>1 DEF Bijection, Injection
<1>3. q \in [R -> S] /\ IsInjective(q)
  <2> HIDE DEF R
  <2> QED
    BY <1>2
<1>4. SetToSeq(S) = q
  BY DEF SetToSeq
<1> HIDE DEF q
<1>5. q \in Injection(R, S)
  BY <1>3 DEF Injection
<1>6. Cardinality(R) = n
  BY <1>1, FS_Interval
<1>7. q \in Surjection(R, S)
  <2> HIDE DEF R, n
  <2> QED
    BY <1>5, <1>6, FS_Injection DEF n
<1>8. \A y \in S : \E k \in R : q[k] = y
  BY <1>7 DEF Surjection
<1>9. q \in Seq(S) /\ DOMAIN q = R
  BY <1>1, <1>3
<1>10. ToSet(q) = S
  <2>1. ToSet(q) = {q[k] : k \in R}
    BY <1>9 DEF ToSet
  <2> HIDE DEF R
  <2> QED
    BY <1>3, <1>8, <2>1
<1> QED
  BY <1>4, <1>9, <1>10

\* A text between brackets.
Between(open, q, shut) == <<open>> \o q \o <<shut>>

LEMMA BetweenType ==
  ASSUME NEW Y, NEW open \in Y, NEW shut \in Y, NEW q \in Seq(Y)
  PROVE  Between(open, q, shut) \in Seq(Y)
<1>1. <<open>> \in Seq(Y) /\ <<shut>> \in Seq(Y)
  OBVIOUS
<1> QED
  BY <1>1 DEF Between

LEMMA BetweenStands ==
  ASSUME NEW Y, NEW t, NEW open \in Y, NEW shut \in Y, NEW q \in Seq(Y), NEW i \in Nat, i # 0,
         NEW j \in Nat, Stands(t, Between(open, q, shut), i, j)
  PROVE  /\ i < j /\ t[i] = open /\ t[j] = shut
         /\ i + 1 \in Nat /\ j - 1 \in Nat /\ Stands(t, q, i + 1, j - 1)
<1> DEFINE p == <<open>> \o q
<1>1. <<open>> \in Seq(Y) /\ <<shut>> \in Seq(Y) /\ p \in Seq(Y)
  OBVIOUS
<1>2. Stands(t, p \o <<shut>>, i, j)
  BY DEF Between
<1>3. PICK e \in Nat : e <= j /\ e + 1 = i + Len(p) /\ Stands(t, p, i, e) /\ Stands(t, <<shut>>, e + 1, j)
  <2> HIDE DEF p
  <2> QED
    BY <1>1, <1>2, StandsSplit
<1>4. PICK d \in Nat : d <= e /\ d + 1 = i + Len(<<open>>) /\ Stands(t, <<open>>, i, d) /\ Stands(t, q, d + 1, e)
  BY <1>1, <1>3, StandsSplit
<1> HIDE DEF p
<1>5. d = i /\ t[i] = open
  BY <1>4, StandsOne
<1>6. j = e + 1 /\ t[j] = shut
  <2>1. e + 1 \in Nat
    BY <1>3
  <2> QED
    BY <1>3, <2>1, StandsOne
<1>7. i < j /\ i + 1 \in Nat /\ j - 1 = e
  BY <1>3, <1>4, <1>5, <1>6
<1> QED
  BY <1>3, <1>4, <1>5, <1>6, <1>7

\* What is printed of each member of an object.
Written(o, f) == [k \in DOMAIN o |-> StringifyString(k) \o <<Colon>> \o f[o[k]]]

LEMMA PrintedAs ==
  ASSUME NEW u, NEW f
  PROVE  /\ u[1] = "null" => PrintAt(u, f) = <<"null">>
         /\ u[1] = "bool" => PrintAt(u, f) = <<IF u[2] THEN "true" ELSE "false">>
         /\ u[1] = "number" => PrintAt(u, f) = NumberText(u[2], u[3])
         /\ u[1] = "string" => PrintAt(u, f) = StringifyString(u[2])
         /\ u[1] = "array" => PrintAt(u, f) = Between("[", Joined(Texts(u[2], f)), "]")
         /\ u[1] = "object" /\ SetToSeq(DOMAIN u[2]) \in Seq(DOMAIN u[2]) =>
              PrintAt(u, f) = Between(OpenBrace, Joined(Texts(SetToSeq(DOMAIN u[2]), Written(u[2], f))), Brace)
<1> DEFINE keys == SetToSeq(DOMAIN u[2])
           list == Joined([k \in DOMAIN u[2] |-> f[u[2][k]]])
           members == Joined([k \in DOMAIN keys |-> StringifyString(keys[k]) \o <<Colon>> \o f[u[2][keys[k]]]])
           listed == <<"[">> \o list \o <<"]">>
           braced == <<OpenBrace>> \o members \o <<Brace>>
           bool == <<IF u[2] THEN "true" ELSE "false">>
<1>1. PrintAt(u, f) = CASE u[1] = "null" -> <<"null">>
                        [] u[1] = "bool" -> bool
                        [] u[1] = "number" -> NumberText(u[2], u[3])
                        [] u[1] = "string" -> StringifyString(u[2])
                        [] u[1] = "array" -> listed
                        [] u[1] = "object" -> braced
  BY Zenon DEF PrintAt, OpenBrace, Brace
<1>2. listed = Between("[", Joined(Texts(u[2], f)), "]")
  BY DEF Between, Texts
<1>3. ASSUME keys \in Seq(DOMAIN u[2])
      PROVE  braced = Between(OpenBrace, Joined(Texts(keys, Written(u[2], f))), Brace)
  <2>1. \A k \in DOMAIN keys : keys[k] \in DOMAIN u[2]
    <3> HIDE DEF keys
    <3> QED
      BY <1>3
  <2> HIDE DEF keys
  <2>2. Texts(keys, Written(u[2], f)) =
          [k \in DOMAIN keys |-> StringifyString(keys[k]) \o <<Colon>> \o f[u[2][keys[k]]]]
    BY <2>1 DEF Texts, Written
  <2> QED
    BY <2>2 DEF Between
<1> HIDE DEF listed, braced, bool
<1>4. /\ u[1] = "null" => PrintAt(u, f) = <<"null">>
      /\ u[1] = "bool" => PrintAt(u, f) = bool
      /\ u[1] = "number" => PrintAt(u, f) = NumberText(u[2], u[3])
      /\ u[1] = "string" => PrintAt(u, f) = StringifyString(u[2])
      /\ u[1] = "array" => PrintAt(u, f) = listed
      /\ u[1] = "object" => PrintAt(u, f) = braced
  BY <1>1
<1> QED
  BY <1>2, <1>3, <1>4 DEF bool

PrintedChars(X) ==
  Characters(X) \cup Digits \cup {"-", "e", "[", "]", OpenBrace, Brace, Comma, Colon,
                              "true", "false", "null"}

\* A value of each kind.
IsNull(u) == u[1] = "null" /\ u = Literal["null"]
IsBool(u) == \E l \in {"true", "false"} : u[1] = "bool" /\ u = Literal[l] /\ l = IF u[2] THEN "true" ELSE "false"
IsText(u, X) == u[1] = "string" /\ u = <<"string", u[2]>> /\ u[2] \in Seq(X)
IsDecimal(u) == u[1] = "number" /\ u = <<"number", u[2], u[3]>> /\ Normal(u[2], u[3])
IsList(u) == u[1] = "array" /\ u = <<"array", u[2]>> /\ u[2] \in Seq(Content(u))
IsMap(u, X) ==
  /\ u[1] = "object" /\ u = <<"object", u[2]>> /\ u[2] = [k \in DOMAIN u[2] |-> u[2][k]]
  /\ IsFiniteSet(DOMAIN u[2]) /\ DOMAIN u[2] \in SUBSET Seq(X)
  /\ \A k \in DOMAIN u[2] : u[2][k] \in Content(u)

LEMMA ShapedAs ==
  ASSUME NEW X, NEW V, NEW u, Shaped(u, X, V)
  PROVE  IsNull(u) \/ IsBool(u) \/ IsText(u, X) \/ IsDecimal(u) \/ IsList(u) \/ IsMap(u, X)
<1>1. CASE \E s \in Seq(X) : u = <<"string", s>>
  BY <1>1 DEF IsText
<1>2. CASE \E m, s : u = <<"number", m, s>> /\ Normal(m, s)
  BY <1>2 DEF IsDecimal
<1>3. CASE \E l \in DOMAIN Literal : u = Literal[l]
  <2>1. PICK l \in DOMAIN Literal : u = Literal[l]
    BY <1>3
  <2>2. {"true", "false", "null"} \subseteq DOMAIN Literal
    BY Listed
  <2>3. /\ Literal["true"] = <<"bool", TRUE>> /\ Literal["false"] = <<"bool", FALSE>>
        /\ Literal["null"] = <<"null", 0>>
    BY <2>2, LiteralIs
  <2>4. u \in {<<"bool", TRUE>>, <<"bool", FALSE>>, <<"null", 0>>}
    BY <2>1, LiteralIs
  <2>5. CASE u = <<"bool", TRUE>>
    BY <2>3, <2>5 DEF IsBool
  <2>6. CASE u = <<"bool", FALSE>>
    BY <2>3, <2>6 DEF IsBool
  <2>7. CASE u = <<"null", 0>>
    BY <2>3, <2>7 DEF IsNull
  <2> QED
    BY <2>4, <2>5, <2>6, <2>7
<1>4. CASE \E s \in Seq(V) : u = <<"array", s>>
  <2>1. PICK s \in Seq(V) : u = <<"array", s>>
    BY <1>4
  <2>2. u[1] = "array" /\ u[2] = s
    BY <2>1
  <2>3. Content(u) = {s[k] : k \in DOMAIN s}
    BY <2>2 DEF Content
  <2>4. s \in Seq(Content(u))
    <3>1. s = [k \in 1 .. Len(s) |-> s[k]] /\ Len(s) \in Nat /\ DOMAIN s = 1 .. Len(s)
      OBVIOUS
    <3>2. \A k \in 1 .. Len(s) : s[k] \in Content(u)
      BY <2>3, <3>1
    <3> QED
      BY <3>1, <3>2
  <2> QED
    BY <2>1, <2>2, <2>4 DEF IsList
<1>5. CASE \E o : u = <<"object", o>> /\ Object(o, Seq(X), V)
  <2>1. PICK o : u = <<"object", o>> /\ Object(o, Seq(X), V)
    BY <1>5
  <2>2. u[1] = "object" /\ u[2] = o
    BY <2>1
  <2>3. Content(u) = {o[k] : k \in DOMAIN o}
    BY <2>2 DEF Content
  <2>4. o = [k \in DOMAIN o |-> o[k]] /\ IsFiniteSet(DOMAIN o) /\ \A k \in DOMAIN o : k \in Seq(X)
    BY <2>1 DEF Object
  <2> QED
    BY <2>1, <2>2, <2>3, <2>4 DEF IsMap
<1> QED
  BY <1>1, <1>2, <1>3, <1>4, <1>5 DEF Shaped

LEMMA TextsType ==
  ASSUME NEW Z, NEW V, NEW f, Gives(f, V, Z), NEW s \in Seq(V)
  PROVE  Texts(s, f) \in Seq(Z) /\ Len(Texts(s, f)) = Len(s)
<1>1. Len(s) \in Nat /\ DOMAIN s = 1 .. Len(s) /\ \A k \in 1 .. Len(s) : s[k] \in V
  OBVIOUS
<1>2. \A k \in 1 .. Len(s) : f[s[k]] \in Z
  BY <1>1 DEF Gives
<1> QED
  BY <1>1, <1>2 DEF Texts

LEMMA JoinedType ==
  ASSUME NEW Y, Comma \in Y, NEW V, NEW f, Gives(f, V, Seq(Y)), NEW s \in Seq(V)
  PROVE  Joined(Texts(s, f)) \in Seq(Y)
<1> DEFINE Z == Seq(Y)
           T == Texts(s, f)
<1>1. T \in Seq(Z)
  BY TextsType
<1>2. <<>> \in Seq(Y)
  OBVIOUS
<1> HIDE DEF T
<1> QED
  BY <1>1, <1>2, JoinedAppend DEF T

LEMMA WrittenType ==
  ASSUME NEW X, NEW u, IsMap(u, X), NEW Y, Characters(X) \subseteq Y, Colon \in Y,
         NEW f, Gives(f, Content(u), Seq(Y))
  PROVE  Gives(Written(u[2], f), DOMAIN u[2], Seq(Y))
<1> DEFINE o == u[2]
<1> SUFFICES ASSUME NEW k \in DOMAIN o PROVE Written(o, f)[k] \in Seq(Y)
  BY DEF Gives
<1> DEFINE name == StringifyString(k)
           q == f[o[k]]
<1>1. Written(o, f)[k] = name \o <<Colon>> \o q
  BY DEF Written
<1>2. name \in Seq(Y)
  <2>1. k \in Seq(X)
    BY DEF IsMap
  <2> QED
    BY <2>1, StringType
<1>3. q \in Seq(Y)
  BY DEF IsMap, Gives
<1> HIDE DEF name, q, o
<1>4. <<Colon>> \in Seq(Y)
  OBVIOUS
<1>5. name \o <<Colon>> \in Seq(Y)
  BY <1>2, <1>4
<1>6. (name \o <<Colon>>) \o q \in Seq(Y)
  BY <1>3, <1>5
<1> QED
  BY <1>1, <1>6

LEMMA KeysAre ==
  ASSUME NEW X, NEW u, IsMap(u, X)
  PROVE  SetToSeq(DOMAIN u[2]) \in Seq(DOMAIN u[2]) /\ ToSet(SetToSeq(DOMAIN u[2])) = DOMAIN u[2]
<1>1. IsFiniteSet(DOMAIN u[2])
  BY DEF IsMap
<1> QED
  BY <1>1, SetToSeqIs

LEMMA OneType ==
  ASSUME NEW Y, NEW c \in Y
  PROVE  <<c>> \in Seq(Y)
OBVIOUS

\* If a value is a number, then one that is shown.
ShownHere(u) == u[1] = "number" => Shown(u[2], u[3])
AllShown(v, depth) == \A u \in Nested(v, depth) : ShownHere(u)

LEMMA PrintedText ==
  ASSUME NEW X, NEW V, NEW u, Shaped(u, X, V), ShownHere(u), NEW Y, Y = PrintedChars(X),
         NEW f, Gives(f, Content(u), Seq(Y))
  PROVE  PrintAt(u, f) \in Seq(Y)
<1>1. /\ Characters(X) \subseteq Y /\ Digits \cup {"-", "e"} \subseteq Y /\ Comma \in Y /\ Colon \in Y
      /\ "[" \in Y /\ "]" \in Y /\ OpenBrace \in Y /\ Brace \in Y /\ "true" \in Y /\ "false" \in Y /\ "null" \in Y
  BY DEF PrintedChars
<1>2. CASE IsNull(u)
  <2>1. PrintAt(u, f) = <<"null">>
    BY <1>2, PrintedAs DEF IsNull
  <2>2. <<"null">> \in Seq(Y)
    BY <1>1, OneType
  <2> QED
    BY <2>1, <2>2
<1>3. CASE IsBool(u)
  <2>1. PrintAt(u, f) = <<"true">> \/ PrintAt(u, f) = <<"false">>
    BY <1>3, PrintedAs DEF IsBool
  <2>2. <<"true">> \in Seq(Y) /\ <<"false">> \in Seq(Y)
    BY <1>1, OneType
  <2> QED
    BY <2>1, <2>2
<1>4. CASE IsText(u, X)
  <2>1. PrintAt(u, f) = StringifyString(u[2]) /\ u[2] \in Seq(X)
    BY <1>4, PrintedAs DEF IsText
  <2> QED
    BY <1>1, <2>1, StringType
<1>5. CASE IsDecimal(u)
  <2>1. PrintAt(u, f) = DecimalText(u[2], u[3]) /\ u[2] \in Int /\ u[3] \in Int
    BY <1>5, PrintedAs, ShownText DEF IsDecimal, Normal, ShownHere
  <2> QED
    BY <1>1, <2>1, NumberType
<1>6. CASE IsList(u)
  <2>1. PrintAt(u, f) = Between("[", Joined(Texts(u[2], f)), "]") /\ u[2] \in Seq(Content(u))
    BY <1>6, PrintedAs DEF IsList
  <2>2. Joined(Texts(u[2], f)) \in Seq(Y)
    BY <1>1, <2>1, JoinedType
  <2> DEFINE q == Joined(Texts(u[2], f))
  <2> HIDE DEF q
  <2>3. Between("[", q, "]") \in Seq(Y)
    BY <1>1, <2>2, BetweenType DEF q
  <2> QED
    BY <2>1, <2>3 DEF q
<1>7. CASE IsMap(u, X)
  <2> DEFINE K == DOMAIN u[2]
             keys == SetToSeq(K)
             h == Written(u[2], f)
  <2>1. keys \in Seq(K) /\ u[1] = "object"
    BY <1>7, KeysAre DEF IsMap
  <2>2. PrintAt(u, f) = Between(OpenBrace, Joined(Texts(keys, h)), Brace)
    BY <2>1, PrintedAs
  <2>3. Gives(h, K, Seq(Y))
    BY <1>1, <1>7, WrittenType
  <2> HIDE DEF keys, h, K
  <2>4. Joined(Texts(keys, h)) \in Seq(Y)
    BY <1>1, <2>1, <2>3, JoinedType
  <2> DEFINE q == Joined(Texts(keys, h))
  <2> HIDE DEF q
  <2>5. Between(OpenBrace, q, Brace) \in Seq(Y)
    BY <1>1, <2>4, BetweenType DEF q
  <2> QED
    BY <2>2, <2>5 DEF q
<1> QED
  BY <1>2, <1>3, <1>4, <1>5, <1>6, <1>7, ShapedAs

-------------------------------------------------------------------------------
(* The printer descends into a value as into a configuration value. *)

LEMMA PrintLocal ==
  ASSUME NEW X, NEW V, NEW u, Shaped(u, X, V), NEW f, NEW g, \A c \in Content(u) : f[c] = g[c]
  PROVE  PrintAt(u, f) = PrintAt(u, g)
<1>1. CASE IsNull(u) \/ IsBool(u) \/ IsText(u, X) \/ IsDecimal(u)
  <2>1. u[1] \in {"null", "bool", "string", "number"}
    BY <1>1 DEF IsNull, IsBool, IsText, IsDecimal
  <2> QED
    BY <2>1, PrintedAs
<1>2. CASE IsList(u)
  <2>1. u[2] \in Seq(Content(u)) /\ u[1] = "array"
    BY <1>2 DEF IsList
  <2>2. \A k \in DOMAIN u[2] : u[2][k] \in Content(u)
    BY <2>1
  <2>3. Texts(u[2], f) = Texts(u[2], g)
    BY <2>2 DEF Texts
  <2> QED
    BY <2>1, <2>3, PrintedAs
<1>3. CASE IsMap(u, X)
  <2> DEFINE keys == SetToSeq(DOMAIN u[2])
  <2>1. keys \in Seq(DOMAIN u[2]) /\ u[1] = "object"
    BY <1>3, KeysAre DEF IsMap
  <2>2. \A k \in DOMAIN u[2] : f[u[2][k]] = g[u[2][k]]
    BY <1>3 DEF IsMap
  <2>3. Written(u[2], f) = Written(u[2], g)
    BY <2>2 DEF Written
  <2> QED
    BY <2>1, <2>3, PrintedAs
<1> QED
  BY <1>1, <1>2, <1>3, ShapedAs

LEMMA PrintIs ==
  ASSUME NEW v, NEW n \in Nat, NEW D, D = Nested(v, n), NEW r, Closed(D, r, n), v \in D,
         NEW X, NEW V, \A u \in D : Shaped(u, X, V)
  PROVE  \E f : Stringify(v, n) = f[v] /\ \A u \in D : f[u] = PrintAt(u, f)
<1> DEFINE Good(f) == f = [u \in D |-> PrintAt(u, f)]
           g == CHOOSE f : Good(f)
<1>1. Good(g)
  <2>1. Local("print", D)
    <3>1. \A u \in D : \A f, h : (\A c \in Content(u) : f[c] = h[c]) => PrintAt(u, f) = PrintAt(u, h)
      BY PrintLocal
    <3> QED
      BY <3>1 DEF Local, StepAt
  <2>2. \E f : f = [u \in D |-> StepAt("print", u, f)]
    BY <2>1, DescentExists
  <2>3. \A f, u : StepAt("print", u, f) = PrintAt(u, f)
    BY DEF StepAt
  <2>4. \E f : Good(f)
    BY <2>2, <2>3
  <2> HIDE DEF Good
  <2> QED
    BY <2>4
<1>2. Stringify(v, n) = g[v]
  BY Zenon DEF Stringify
<1>3. \A u \in D : g[u] = PrintAt(u, g)
  <2> HIDE DEF g
  <2> QED
    BY <1>1, Zenon
<1> QED
  BY <1>2, <1>3

-------------------------------------------------------------------------------
(* What is printed of a value says it. *)

LEMMA NothingStands ==
  ASSUME NEW f, NEW t, NEW s, s = <<>>, NEW i \in Nat, NEW j \in Nat, Stands(t, Joined(Texts(s, f)), i, j)
  PROVE  AllWhite(t, i, j)
<1>1. Texts(s, f) = <<>>
  BY DEF Texts
<1>2. Stands(t, <<>>, i, j) /\ Len(<<>>) = 0
  BY <1>1, JoinedNone
<1>3. 0 = j + 1 - i
  BY <1>2 DEF Stands
<1>4. i .. j = {}
  BY <1>3
<1> QED
  BY <1>4 DEF AllWhite

LEMMA ListStands ==
  ASSUME NEW C, NEW t \in Seq(C), NEW m, IsGrammar(t, m), NEW Y, Comma \in Y, "[" \in Y, "]" \in Y,
         NEW u, IsList(u), NEW f, \A c \in Content(u) : StandsFor(t, m, Y, c, f[c]),
         NEW i \in Nat, i # 0, NEW j \in Nat, j <= Len(t), Stands(t, PrintAt(u, f), i, j)
  PROVE  IsArray(t, m, i, j, u)
<1> DEFINE V == Content(u)
           s == u[2]
           q == Joined(Texts(s, f))
<1>1. u[1] = "array" /\ u = <<"array", s>> /\ s \in Seq(V)
  BY DEF IsList
<1>2. Gives(f, V, Seq(Y))
  BY DEF StandsFor, Gives
<1>3. q \in Seq(Y)
  BY <1>1, <1>2, JoinedType
<1>4. Stands(t, Between("[", q, "]"), i, j)
  BY <1>1, PrintedAs
<1>5. i < j /\ t[i] = "[" /\ t[j] = "]" /\ i + 1 \in Nat /\ j - 1 \in Nat /\ Stands(t, q, i + 1, j - 1)
  <2> HIDE DEF q
  <2> QED
    BY <1>3, <1>4, BetweenStands
<1>6. CASE s = <<>>
  <2>1. AllWhite(t, i + 1, j - 1)
    BY <1>5, <1>6, NothingStands
  <2> QED
    BY <1>1, <1>5, <1>6, <2>1 DEF IsArray
<1>7. CASE s # <<>>
  <2>1. i + 1 # 0 /\ j - 1 <= Len(t)
    BY <1>5
  <2> HIDE DEF V, s
  <2>2. s \in m[<<"elements", i + 1, j - 1>>]
    BY <1>1, <1>5, <1>7, <2>1, ElementsStand DEF V
  <2> QED
    BY <1>1, <1>5, <2>2 DEF IsArray
<1> QED
  BY <1>6, <1>7

LEMMA ObjectIs ==
  ASSUME NEW t, NEW m, NEW i, NEW j, NEW x
  PROVE  IsObject(t, m, i, j, x) <=>
           /\ i < j /\ t[i] = OpenBrace /\ t[j] = Brace
           /\ \/ AllWhite(t, i + 1, j - 1) /\ x = <<"object", <<>>>>
              \/ /\ \A a \in Fronts(t, i + 1, j - 1) : t[a] # Brace
                 /\ \E o \in m[<<"members", i + 1, j - 1>>] : x = <<"object", o>>
BY Zenon DEF IsObject, OpenBrace, Brace

LEMMA QuoteIsNoBrace == Quote # Brace
BY Zenon DEF Quote, Brace

LEMMA MapStands ==
  ASSUME NEW C, NEW t \in Seq(C), NEW m, IsGrammar(t, m), NEW X, NEW Y, Characters(X) \subseteq Y,
         Comma \in Y, Colon \in Y, OpenBrace \in Y, Brace \in Y,
         NEW u, IsMap(u, X), NEW f, \A c \in Content(u) : StandsFor(t, m, Y, c, f[c]),
         NEW i \in Nat, i # 0, NEW j \in Nat, j <= Len(t), Stands(t, PrintAt(u, f), i, j)
  PROVE  IsObject(t, m, i, j, u)
<1> DEFINE o == u[2]
           K == DOMAIN o
           h == Written(o, f)
           s == SetToSeq(K)
           q == Joined(Texts(s, h))
<1>1. /\ u[1] = "object" /\ u = <<"object", o>> /\ o = [k \in K |-> o[k]] /\ K \in SUBSET Seq(X)
      /\ \A k \in K : o[k] \in Content(u)
  BY DEF IsMap
<1>2. s \in Seq(K) /\ ToSet(s) = K
  BY KeysAre
<1>3. Gives(h, K, Seq(Y))
  <2>1. Gives(f, Content(u), Seq(Y))
    BY DEF StandsFor, Gives
  <2> QED
    BY <2>1, WrittenType
<1>4. Stands(t, Between(OpenBrace, q, Brace), i, j)
  <2> HIDE DEF s, h
  <2> QED
    BY <1>1, <1>2, PrintedAs DEF s, h
<1>5. Saying(t, m, X, Y, o, K, f, h)
  BY <1>1 DEF Saying, Written
<1> HIDE DEF s, h, K, o
<1>6. q \in Seq(Y)
  BY <1>2, <1>3, JoinedType
<1>7. i < j /\ t[i] = OpenBrace /\ t[j] = Brace /\ i + 1 \in Nat /\ j - 1 \in Nat /\ Stands(t, q, i + 1, j - 1)
  <2> HIDE DEF q
  <2> QED
    BY <1>4, <1>6, BetweenStands
<1>8. CASE s = <<>>
  <2>1. AllWhite(t, i + 1, j - 1)
    BY <1>7, <1>8, NothingStands
  <2>2. K = {}
    BY <1>2, <1>8 DEF ToSet
  <2>3. o = <<>>
    <3>1. <<>> = [k \in {} |-> <<>>[k]]
      OBVIOUS
    <3>2. o = [k \in {} |-> o[k]]
      BY <1>1, <2>2
    <3> QED
      BY <3>1, <3>2
  <2> QED
    BY <1>1, <1>7, <2>1, <2>3, ObjectIs
<1>9. CASE s # <<>>
  <2>1. i + 1 # 0 /\ j - 1 <= Len(t)
    BY <1>7
  <2>2. /\ t[i + 1] = Quote /\ i + 1 <= j - 1
        /\ Over(o, s, <<>>) \in m[<<"members", i + 1, j - 1>>]
    <3> DEFINE a == i + 1
               b == j - 1
    <3>1. a \in Nat /\ a # 0 /\ b \in Nat /\ b <= Len(t) /\ Stands(t, Joined(Texts(s, h)), a, b)
      BY <1>7, <2>1
    <3> HIDE DEF a, b
    <3>2. t[a] = Quote /\ a <= b /\ Over(o, s, <<>>) \in m[<<"members", a, b>>]
      BY <1>2, <1>5, <1>9, <3>1, MembersStand
    <3> QED
      BY <3>2 DEF a, b
  <2>3. Over(o, s, <<>>) = o
    <3>1. DOMAIN <<>> = {}
      OBVIOUS
    <3>2. Over(o, s, <<>>) = [k \in K |-> o[k]]
      BY <1>2, <3>1 DEF Over
    <3> QED
      BY <1>1, <3>2
  <2>4. \A a \in Fronts(t, i + 1, j - 1) : t[a] # Brace
    <3> TAKE a \in Fronts(t, i + 1, j - 1)
    <3>1. a \in i + 1 .. j - 1 /\ AllWhite(t, i + 1, a - 1)
      BY DEF Fronts
    <3>2. t[i + 1] \notin White /\ t[i + 1] # Brace
      BY <2>2, QuoteIsNoBrace, Solid
    <3>3. a = i + 1
      BY <1>7, <3>1, <3>2 DEF AllWhite
    <3> QED
      BY <3>2, <3>3
  <2> QED
    BY <1>1, <1>7, <2>2, <2>3, <2>4, ObjectIs
<1> QED
  BY <1>8, <1>9

LEMMA PrintedStands ==
  ASSUME NEW C, NEW t \in Seq(C), NEW m, IsGrammar(t, m), NEW X, NEW Y, Y = PrintedChars(X),
         NEW V, NEW u, Shaped(u, X, V), ShownHere(u), NEW f, \A c \in Content(u) : StandsFor(t, m, Y, c, f[c])
  PROVE  StandsFor(t, m, Y, u, PrintAt(u, f))
<1> DEFINE n == Len(t)
           p == PrintAt(u, f)
<1>1. /\ Characters(X) \subseteq Y /\ Comma \in Y /\ Colon \in Y
      /\ "[" \in Y /\ "]" \in Y /\ OpenBrace \in Y /\ Brace \in Y
  BY DEF PrintedChars
<1>2. p \in Seq(Y)
  <2>1. Gives(f, Content(u), Seq(Y))
    BY DEF StandsFor, Gives
  <2> QED
    BY <2>1, PrintedText
<1> SUFFICES ASSUME NEW i \in Nat, NEW j \in Nat, i # 0, j <= n, Stands(t, p, i, j)
             PROVE  i <= j /\ u \in m[<<"value", i, j>>]
  BY <1>2 DEF StandsFor
<1>3. i <= j => (u \in m[<<"value", i, j>>] <=> u \in Value(t, m, i, j))
  <2>1. i <= j => i \in 1 .. (n + 1) /\ j \in 0 .. n
    OBVIOUS
  <2> QED
    BY <2>1 DEF IsGrammar
<1>4. CASE IsNull(u) \/ IsBool(u)
  <2>1. PICK l \in {"true", "false", "null"} : u = Literal[l] /\ p = <<l>>
    <3>1. CASE IsNull(u)
      <4>1. p = <<"null">>
        BY <3>1, PrintedAs DEF IsNull
      <4> QED
        BY <3>1, <4>1 DEF IsNull
    <3>2. CASE IsBool(u)
      <4>1. p = <<IF u[2] THEN "true" ELSE "false">>
        BY <3>2, PrintedAs DEF IsBool
      <4> HIDE DEF p
      <4> QED
        BY <3>2, <4>1 DEF IsBool
    <3> QED
      BY <1>4, <3>1, <3>2
  <2>2. j = i /\ t[i] = l
    BY <2>1, StandsOne
  <2>3. l \in DOMAIN Literal
    BY Listed
  <2>4. IsLiteral(t, i, j, u)
    BY <2>1, <2>2, <2>3 DEF IsLiteral
  <2> QED
    BY <1>3, <2>2, <2>4, InValue
<1>5. CASE IsText(u, X)
  <2>1. p = StringifyString(u[2]) /\ u[2] \in Seq(X) /\ u = <<"string", u[2]>>
    BY <1>5, PrintedAs DEF IsText
  <2>2. i < j /\ t[i] = Quote /\ t[j] = Quote /\ u[2] \in Unquoted(t, i + 1, j - 1)
    <3> HIDE DEF p
    <3> QED
      BY <2>1, StringStands
  <2>3. IsString(t, i, j, u)
    BY <2>1, <2>2 DEF IsString
  <2> QED
    BY <1>3, <2>2, <2>3, InValue
<1>6. CASE IsDecimal(u)
  <2>1. p = DecimalText(u[2], u[3]) /\ Normal(u[2], u[3]) /\ u = <<"number", u[2], u[3]>>
    BY <1>6, PrintedAs, ShownText DEF IsDecimal, ShownHere
  <2>2. i <= j /\ t[i] \in Digits \cup {"-"} /\ <<"number", u[2], u[3]>> \in Numbers(t, i, j)
    BY <2>1, NumberStands
  <2>3. IsNumeric(t, i, j, u)
    BY <2>1, <2>2 DEF IsNumeric
  <2> QED
    BY <1>3, <2>2, <2>3, InValue
<1>7. CASE IsList(u)
  <2>1. IsArray(t, m, i, j, u)
    BY <1>1, <1>7, ListStands
  <2>2. i <= j
    BY <2>1 DEF IsArray
  <2> QED
    BY <1>3, <2>1, <2>2, InValue
<1>8. CASE IsMap(u, X)
  <2>1. IsObject(t, m, i, j, u)
    BY <1>1, <1>8, MapStands
  <2>2. i < j
    BY <2>1, ObjectIs, Zenon
  <2> QED
    BY <1>3, <2>1, <2>2, InValue
<1> QED
  BY <1>4, <1>5, <1>6, <1>7, <1>8, ShapedAs

\* No character that is printed is the terminator.
LEMMA PrintedEnds ==
  ASSUME NEW C, End \notin C
  PROVE  End \notin PrintedChars(StringChars(C))
<1>1. End = "end"
  BY DEF End
<1>2. \A c \in DOMAIN Unescaped : Unescaped[c] \in {Quote, Backslash, "/", "BS", "FF", "LF", "CR", "TAB"}
  BY DEF Unescaped, ShortEscape
<1>3. {Quote, Backslash, "/", "BS", "FF", "LF", "CR", "TAB"} = {"\"", "\\", "/", "BS", "FF", "LF", "CR", "TAB"}
  BY DEF Quote, Backslash
<1>4. End \notin {"\"", "\\", "/", "BS", "FF", "LF", "CR", "TAB"}
  BY <1>1, Zenon
<1>5. End # "wide" /\ End # "u" /\ End # "hex"
  BY <1>1, Zenon
<1>6. End \notin StringChars(C)
  <2>1. \A c \in DOMAIN Unescaped : Unescaped[c] # End
    BY <1>2, <1>3, <1>4
  <2> QED
    BY <1>5, <2>1 DEF StringChars
<1>7. End \notin Characters(StringChars(C))
  BY <1>5, <1>6, EscapeEnds DEF Characters
<1>8. End \notin Digits
  BY <1>1, Listed, Zenon
<1>9. End \notin {"-", "e", "[", "]", OpenBrace, Brace, Comma, Colon, "true", "false", "null"}
  BY <1>1, Zenon DEF OpenBrace, Brace, Comma, Colon
<1> QED
  BY <1>7, <1>8, <1>9 DEF PrintedChars

\* For every document whose numbers are shown: what is printed of it is read back as it.
LEMMA DocumentPrinted ==
  ASSUME NEW C, End \notin C, NEW t \in Seq(C), NEW v \in Denoted(t),
         AllShown(v, Len(t))
  PROVE  JsonParse(Stringify(v, Len(t))).val = v
<1> DEFINE n == Len(t)
           X == StringChars(C)
           Y == PrintedChars(X)
           D == Nested(v, n)
<1>1. n \in Nat
  OBVIOUS
<1>2. PICK m : IsGrammar(t, m) /\ Denoted(t) = Padded(t, m, 1, n)
  BY MeansIs
<1> DEFINE S == Within(m, 1, n)
<1>3. v \in S
  <2>1. 1 \in Nat /\ 1 <= 1 /\ n <= n
    BY <1>1
  <2> QED
    BY <1>1, <1>2, <2>1, PaddedWithin
<1>4. PICK r : Closed(S, r, n) /\ \A u \in S : Shaped(u, X, S)
  BY <1>2, PartsClosed
<1> HIDE DEF S
<1>5. D \subseteq S /\ v \in D /\ \A u \in D : Content(u) \subseteq D
  BY <1>1, <1>3, <1>4, NestedClosed
<1> DEFINE q == [u \in D |-> r[u]]
<1>6. q \in [D -> Nat] /\ Closed(D, q, n) /\ \A u \in D : \A c \in Content(u) : c \in D /\ q[c] < q[u]
  <2>1. \A u \in D : q[u] = r[u] /\ r[u] \in 0 .. n
    BY <1>4, <1>5 DEF Closed
  <2>2. \A u \in D : \A e \in Content(u) : e \in D /\ r[e] < r[u]
    BY <1>4, <1>5 DEF Closed
  <2>3. q \in [D -> 0 .. n] /\ q \in [D -> Nat]
    <3> HIDE DEF D
    <3> QED
      BY <2>1
  <2> HIDE DEF q, D
  <2> QED
    BY <2>1, <2>2, <2>3 DEF Closed
<1> HIDE DEF q
<1>7. \A u \in D : Shaped(u, X, S)
  BY <1>4, <1>5
<1>70. \A u \in D : ShownHere(u)
  BY DEF AllShown
<1>8. PICK f : Stringify(v, n) = f[v] /\ \A u \in D : f[u] = PrintAt(u, f)
  <2>1. D = Nested(v, n) /\ Closed(D, q, n) /\ v \in D /\ n \in Nat
    BY <1>1, <1>5, <1>6
  <2>2. \A u \in D : Shaped(u, X, S)
    BY <1>7
  <2> HIDE DEF X, D, n
  <2> QED
    BY <2>1, <2>2, PrintIs
<1> HIDE DEF D, X
<1>9. \A u \in D : f[u] \in Seq(Y)
  <2> DEFINE G == {u \in D : f[u] \in Seq(Y)}
  <2>1. ASSUME NEW u \in D, \A c \in D : q[c] < q[u] => c \in G PROVE u \in G
    <3>1. Gives(f, Content(u), Seq(Y))
      BY <1>6, <2>1 DEF Gives
    <3>2. PrintAt(u, f) \in Seq(Y)
      BY <1>7, <1>70, <3>1, PrintedText
    <3> QED
      BY <1>8, <3>2
  <2>2. \A u \in D : u \in G
    <3> HIDE DEF G
    <3> QED
      BY <1>6, <2>1, ByRank
  <2> QED
    BY <2>2
<1> DEFINE p == f[v]
<1>10. p \in Seq(Y)
  BY <1>5, <1>9
<1>11. PICK g : IsGrammar(p, g) /\ Denoted(p) = Padded(p, g, 1, Len(p))
  BY <1>10, MeansIs
<1>12. \A u \in D : StandsFor(p, g, Y, u, f[u])
  <2> DEFINE G == {u \in D : StandsFor(p, g, Y, u, f[u])}
  <2>1. ASSUME NEW u \in D, \A c \in D : q[c] < q[u] => c \in G PROVE u \in G
    <3>1. \A c \in Content(u) : StandsFor(p, g, Y, c, f[c])
      BY <1>6, <2>1
    <3>2. StandsFor(p, g, Y, u, PrintAt(u, f))
      <4> HIDE DEF p, Y
      <4> QED
        BY <1>7, <1>70, <1>10, <1>11, <3>1, PrintedStands DEF Y
    <3> QED
      BY <1>8, <3>2
  <2>2. \A u \in D : u \in G
    <3> HIDE DEF G
    <3> QED
      BY <1>6, <2>1, ByRank
  <2> QED
    BY <2>2
<1>13. StandsFor(p, g, Y, v, p)
  BY <1>5, <1>12
<1> DEFINE l == Len(p)
<1>14. l \in Nat
  BY <1>10
<1>15. Stands(p, p, 1, l)
  <2> HIDE DEF p
  <2>1. \A k \in 1 .. Len(p) : 1 + k - 1 = k
    BY <1>14
  <2> QED
    BY <1>14, <2>1 DEF Stands
<1> HIDE DEF p, Y
<1>16. 1 <= l /\ v \in g[<<"value", 1, l>>]
  BY <1>13, <1>14, <1>15 DEF StandsFor
<1>17. p[1] \notin White
  <2>1. 1 \in 1 .. (Len(p) + 1) /\ l \in 0 .. Len(p)
    BY <1>14
  <2> QED
    BY <1>11, <1>16, <2>1, ValueNotBlank
<1>18. v \in Denoted(p)
  <2>1. AllWhite(p, 1, 1 - 1) /\ AllWhite(p, l + 1, l) /\ 1 \in Nat /\ 1 <= 1 /\ l <= l
    BY <1>14 DEF AllWhite
  <2> QED
    BY <1>11, <1>14, <1>16, <1>17, <2>1, Place, SMTT(30)
<1>19. End \notin Y
  BY PrintedEnds DEF X, Y
<1>20. JsonParse(p).val = v
  BY <1>10, <1>18, <1>19, DocumentIs
<1> QED
  BY <1>8, <1>20 DEF p

\* For every document, however deep it nests and whatever its strings hold, and for any
\* arithmetic of doubles: if 15 digits show its numbers, then what JSONValue::Stringify
\* prints of it, JSON::Parse reads back as that document.
THEOREM PrintedIsReadBack == Spec => []PrintedReadsBack
<1>1. EditInv => PrintedReadsBack
  <2> SUFFICES ASSUME EditInv, NEW v \in Documents,
                      AllShown(v, Len(text))
               PROVE  JsonParse(Stringify(v, Len(text))).val = v
    BY DEF PrintedReadsBack, ShownHere, AllShown
  <2>1. text \in Seq(Alphabet)
    BY DEF EditInv
  <2>2. JsonParse(text).ok /\ JsonParse(text).val = v
    BY DEF Documents, Parsed
  <2>3. v \in Denoted(text)
    BY <2>1, <2>2, TerminatorAssumption, DocumentIs
  <2> QED
    BY <2>1, <2>3, TerminatorAssumption, DocumentPrinted
<1> QED
  BY <1>1, EditInit, EditStep, PTL DEF Spec

===============================================================================
