---------------------------- MODULE HttpTextProofs ----------------------------
(***************************************************************************)
(* What the receive loop leaves behind a request in its buffer is harmless *)
(* to the parser, and the parser understands what is well formed, for      *)
(* texts of any length and buffers and limits of any size; a form that a   *)
(* request carries is read as what it says, whatever its length, its       *)
(* fields and their escapes.                                               *)
(***************************************************************************)
EXTENDS Requests, Forms, FiniteSetTheorems, SequenceTheorems, ListInduction

-------------------------------------------------------------------------------
(* Receiving. *)

LEMMA Chunks ==
  ASSUME NEW n \in Nat
  PROVE  /\ BuffSize * (n \div BuffSize) \in Nat
         /\ BuffSize * (n \div BuffSize) <= n
         /\ n < BuffSize * (n \div BuffSize) + BuffSize
         /\ n < BuffSize => BuffSize * (n \div BuffSize) = 0
<1> DEFINE q == n \div BuffSize
<1>1. BuffSize \in Nat /\ BuffSize > 0
  BY HttpAssumption
<1>2. n = BuffSize * q + (n % BuffSize) /\ n % BuffSize \in 0 .. BuffSize - 1 /\ q \in Nat
  BY <1>1
<1>3. n < BuffSize => q = 0
  BY <1>1
<1> QED
  BY <1>1, <1>2, <1>3

\* The bytes that were sent, all of them in their order, and something behind them;
\* a zero at once, when one chunk has held them.
LEMMA BytesReceived ==
  ASSUME NEW C, "NUL" \in C, NEW sent \in Seq(C)
  PROVE  \E rest \in Seq(C) : /\ rest # <<>>
                              /\ Received(sent) = sent \o rest
                              /\ Len(sent) < BuffSize => rest[1] = "NUL"
<1> DEFINE n == Len(sent)
           full == BuffSize * (n \div BuffSize)
           buffer == [i \in 1..BuffSize |-> BufferAt(sent, n, i)]
           rest == [i \in 1 .. full + BuffSize - n |-> buffer[n - full + i]]
<1>1. n \in Nat /\ BuffSize \in Nat \ {0}
  BY HttpAssumption
<1>2. full \in Nat /\ full <= n /\ n < full + BuffSize /\ (n < BuffSize => full = 0)
  BY <1>1, Chunks
<1>3. Received(sent) = SubSeq(sent, 1, full) \o buffer
  BY DEF Received
<1>4. \A i \in 1 .. BuffSize : BufferAt(sent, n, i) =
          LET last == IF full + i <= n THEN full + i ELSE full - BuffSize + i
          IN IF last >= 1 THEN sent[last] ELSE "NUL"
  BY DEF BufferAt
<1> HIDE DEF full, n
<1>5. \A i \in 1 .. BuffSize : /\ BufferAt(sent, n, i) \in C
                               /\ full + i <= n => BufferAt(sent, n, i) = sent[full + i]
  <2> SUFFICES ASSUME NEW i \in 1 .. BuffSize
               PROVE  /\ BufferAt(sent, n, i) \in C
                      /\ full + i <= n => BufferAt(sent, n, i) = sent[full + i]
    OBVIOUS
  <2>1. \A j \in 1 .. n : sent[j] \in C
    BY DEF n
  <2> QED
    BY <1>1, <1>2, <1>4, <2>1
<1>6. buffer \in Seq(C) /\ Len(buffer) = BuffSize
  BY <1>1, <1>5
<1>7. rest \in Seq(C) /\ Len(rest) = full + BuffSize - n /\ rest # <<>>
  <2>1. full + BuffSize - n \in Nat \ {0}
    BY <1>1, <1>2
  <2>2. \A i \in 1 .. full + BuffSize - n : n - full + i \in 1 .. BuffSize
    BY <1>1, <1>2
  <2>3. \A i \in 1 .. full + BuffSize - n : buffer[n - full + i] \in C
    BY <1>5, <2>2
  <2> HIDE DEF buffer
  <2> QED
    BY <2>1, <2>3
<1>8. Received(sent) = sent \o rest
  <2>1. SubSeq(sent, 1, full) \in Seq(C) /\ Len(SubSeq(sent, 1, full)) = full
        /\ \A i \in 1 .. full : SubSeq(sent, 1, full)[i] = sent[i]
    BY <1>1, <1>2 DEF n
  <2>2. \A i \in 1 .. BuffSize : full + i <= n => buffer[i] = sent[full + i]
    BY <1>5
  <2>3. \A i \in 1 .. full + BuffSize - n : rest[i] = buffer[n - full + i]
    OBVIOUS
  <2> DEFINE front == SubSeq(sent, 1, full)
  <2> HIDE DEF rest, buffer, front
  <2>4. /\ front \o buffer \in Seq(C) /\ Len(front \o buffer) = full + BuffSize
        /\ \A i \in 1 .. full + BuffSize :
             (front \o buffer)[i] = IF i <= full THEN front[i] ELSE buffer[i - full]
    BY <1>6, <2>1, ConcatProperties DEF front
  <2>5. /\ sent \o rest \in Seq(C) /\ Len(sent \o rest) = full + BuffSize
        /\ \A i \in 1 .. full + BuffSize :
             (sent \o rest)[i] = IF i <= n THEN sent[i] ELSE rest[i - n]
    <3>1. n + (full + BuffSize - n) = full + BuffSize
      BY <1>1, <1>2
    <3> QED
      BY <1>7, <3>1, ConcatProperties DEF n
  <2> DEFINE left == front \o buffer
             right == sent \o rest
  <2>a. \A i \in 1 .. full + BuffSize :
          left[i] = IF i <= full THEN front[i] ELSE buffer[i - full]
    BY <2>4
  <2>b. \A i \in 1 .. full + BuffSize :
          right[i] = IF i <= n THEN sent[i] ELSE rest[i - n]
    BY <2>5
  <2>c. \A i \in 1 .. full : front[i] = sent[i]
    BY <2>1 DEF front
  <2> HIDE DEF left, right
  <2>6. ASSUME NEW i \in 1 .. full + BuffSize
        PROVE  left[i] = right[i]
    <3>1. CASE i <= full
      BY <1>1, <1>2, <2>a, <2>b, <2>c, <3>1
    <3>2. CASE full < i /\ i <= n
      <4>1. i - full \in 1 .. BuffSize /\ full + (i - full) = i
        BY <1>1, <1>2, <3>2
      <4> QED
        BY <1>1, <1>2, <2>2, <2>a, <2>b, <3>2, <4>1
    <3>3. CASE n < i
      <4>1. i - n \in 1 .. full + BuffSize - n /\ n - full + (i - n) = i - full
        BY <1>1, <1>2, <3>3
      <4> QED
        BY <1>1, <1>2, <2>3, <2>a, <2>b, <3>3, <4>1
    <3> QED
      BY <1>1, <1>2, <3>1, <3>2, <3>3
  <2>7. left = right
    BY <2>4, <2>5, <2>6, SeqEqual DEF left, right
  <2> QED
    BY <1>3, <2>7 DEF front, left, right
<1>9. n < BuffSize => rest[1] = "NUL"
  <2> SUFFICES ASSUME n < BuffSize PROVE rest[1] = "NUL"
    OBVIOUS
  <2>1. full = 0 /\ rest[1] = BufferAt(sent, n, n + 1) /\ n + 1 \in 1 .. BuffSize
    BY <1>1, <1>2
  <2> QED
    BY <1>1, <1>4, <2>1
<1> HIDE DEF rest
<1> QED
  BY <1>7, <1>8, <1>9 DEF n

-------------------------------------------------------------------------------
(* Up to the first zero. *)

LEMMA UpToZero ==
  ASSUME NEW C, NEW s \in Seq(C)
  PROVE  /\ "NUL" \notin ToSet(s) => CStr(s) = s
         /\ "NUL" \in ToSet(s) =>
              \E z \in DOMAIN s : /\ s[z] = "NUL" /\ \A j \in 1 .. z - 1 : s[j] # "NUL"
                                  /\ CStr(s) = SubSeq(s, 1, z - 1)
<1>1. "NUL" \notin ToSet(s) => CStr(s) = s
  BY DEF CStr
<1>2. ASSUME "NUL" \in ToSet(s)
      PROVE  \E z \in DOMAIN s : /\ s[z] = "NUL" /\ \A j \in 1 .. z - 1 : s[j] # "NUL"
                                 /\ CStr(s) = SubSeq(s, 1, z - 1)
  <2> DEFINE Zeros == {i \in DOMAIN s : s[i] = "NUL"}
             FirstZero(z) == s[z] = "NUL" /\ \A j \in 1 .. z - 1 : s[j] # "NUL"
  <2>1. DOMAIN s = 1 .. Len(s) /\ Len(s) \in Nat
    OBVIOUS
  <2>2. Zeros \in SUBSET Nat /\ Zeros # {}
    BY <1>2, <2>1 DEF ToSet
  <2>3. PICK y \in Zeros : \A k \in Zeros : y <= k
    <3> HIDE DEF Zeros
    <3> QED
      BY <2>2, LeastNumber
  <2>4. FirstZero(y) /\ y \in DOMAIN s
    <3>1. \A j \in 1 .. y - 1 : j \in DOMAIN s /\ ~ (y <= j)
      BY <2>1
    <3> QED
      BY <2>3, <3>1
  <2> DEFINE z == CHOOSE i \in DOMAIN s : FirstZero(i)
  <2>5. z \in DOMAIN s /\ FirstZero(z)
    <3> HIDE DEF FirstZero
    <3> QED
      BY <2>4
  <2>6. CStr(s) = SubSeq(s, 1, z - 1)
    BY <1>2 DEF CStr
  <2> HIDE DEF z
  <2> QED
    BY <2>5, <2>6
<1> QED
  BY <1>1, <1>2

\* What follows a text with a zero in it is not seen.
LEMMA BehindZero ==
  ASSUME NEW C, NEW s \in Seq(C), NEW r \in Seq(C), "NUL" \in ToSet(s)
  PROVE  CStr(s \o r) = CStr(s)
<1>1. PICK z \in DOMAIN s : /\ s[z] = "NUL" /\ \A j \in 1 .. z - 1 : s[j] # "NUL"
                            /\ CStr(s) = SubSeq(s, 1, z - 1)
  BY UpToZero
<1>2. /\ s \o r \in Seq(C) /\ Len(s \o r) = Len(s) + Len(r)
      /\ \A i \in 1 .. Len(s) : (s \o r)[i] = s[i]
      /\ Len(s) \in Nat /\ Len(r) \in Nat /\ DOMAIN s = 1 .. Len(s)
      /\ DOMAIN (s \o r) = 1 .. Len(s) + Len(r)
  OBVIOUS
<1> DEFINE u == s \o r
<1> HIDE DEF u
<1>3. "NUL" \in ToSet(u)
  BY <1>1, <1>2 DEF ToSet, u
<1>4. PICK y \in DOMAIN u : /\ u[y] = "NUL" /\ \A j \in 1 .. y - 1 : u[j] # "NUL"
                            /\ CStr(u) = SubSeq(u, 1, y - 1)
  BY <1>2, <1>3, UpToZero DEF u
<1>5. y = z
  BY <1>1, <1>2, <1>4 DEF u
<1>6. SubSeq(u, 1, z - 1) = SubSeq(s, 1, z - 1)
  BY <1>1, <1>2 DEF u
<1> QED
  BY <1>1, <1>4, <1>5, <1>6 DEF u

\* A text without one is seen whole, and so is what follows it, up to its own.
LEMMA BehindWhole ==
  ASSUME NEW C, NEW s \in Seq(C), NEW r \in Seq(C), "NUL" \notin ToSet(s)
  PROVE  /\ CStr(s) = s
         /\ \E x \in Seq(C) : CStr(s \o r) = s \o x
         /\ r # <<>> /\ r[1] = "NUL" => CStr(s \o r) = s
<1>1. CStr(s) = s
  BY UpToZero
<1>2. /\ s \o r \in Seq(C) /\ Len(s \o r) = Len(s) + Len(r)
      /\ \A i \in 1 .. Len(s) : (s \o r)[i] = s[i]
      /\ \A i \in 1 .. Len(r) : (s \o r)[Len(s) + i] = r[i]
      /\ Len(s) \in Nat /\ Len(r) \in Nat /\ DOMAIN s = 1 .. Len(s)
      /\ DOMAIN (s \o r) = 1 .. Len(s) + Len(r)
  OBVIOUS
<1>3. \A i \in 1 .. Len(s) : s[i] # "NUL"
  BY <1>2 DEF ToSet
<1> DEFINE u == s \o r
<1> HIDE DEF u
<1>4. CASE "NUL" \notin ToSet(u)
  <2>1. CStr(u) = u
    BY <1>2, <1>4, UpToZero DEF u
  <2>2. ~ (r # <<>> /\ r[1] = "NUL")
    <3>1. r # <<>> => Len(s) + 1 \in DOMAIN u /\ u[Len(s) + 1] = r[1]
      BY <1>2 DEF u
    <3> QED
      BY <1>4, <3>1 DEF ToSet
  <2> QED
    BY <1>1, <2>1, <2>2 DEF u
<1>5. CASE "NUL" \in ToSet(u)
  <2>1. PICK y \in DOMAIN u : /\ u[y] = "NUL" /\ \A j \in 1 .. y - 1 : u[j] # "NUL"
                              /\ CStr(u) = SubSeq(u, 1, y - 1)
    BY <1>2, <1>5, UpToZero DEF u
  <2>2. y \in Len(s) + 1 .. Len(s) + Len(r)
    BY <1>2, <1>3, <2>1 DEF u
  <2>3. \E x \in Seq(C) : SubSeq(u, 1, y - 1) = s \o x
    <3>1. SubSeq(u, 1, y - 1) \in Seq(C) /\ Len(SubSeq(u, 1, y - 1)) = y - 1
          /\ \A i \in 1 .. y - 1 : SubSeq(u, 1, y - 1)[i] = u[i]
      BY <1>2, <2>2 DEF u
    <3> DEFINE x == [i \in 1 .. y - 1 - Len(s) |-> r[i]]
    <3>2. x \in Seq(C) /\ Len(x) = y - 1 - Len(s)
      <4>1. y - 1 - Len(s) \in Nat /\ \A i \in 1 .. y - 1 - Len(s) : r[i] \in C
        BY <1>2, <2>2
      <4> QED
        BY <4>1
    <3>3. s \o x \in Seq(C) /\ Len(s \o x) = y - 1
          /\ \A i \in 1 .. y - 1 : (s \o x)[i] = IF i <= Len(s) THEN s[i] ELSE r[i - Len(s)]
      BY <1>2, <2>2, <3>2
    <3>4. \A i \in 1 .. y - 1 : SubSeq(u, 1, y - 1)[i] = (s \o x)[i]
      <4>1. \A i \in 1 .. y - 1 : i > Len(s) =>
              i - Len(s) \in 1 .. Len(r) /\ Len(s) + (i - Len(s)) = i
        BY <1>2, <2>2
      <4> QED
        BY <1>2, <2>2, <3>1, <3>3, <4>1, SMTT(30) DEF u
    <3>5. SubSeq(u, 1, y - 1) = s \o x
      BY <3>1, <3>3, <3>4, SeqEqual
    <3> QED
      BY <3>2, <3>5
  <2>4. ASSUME r # <<>>, r[1] = "NUL" PROVE CStr(u) = s
    <3>1. Len(s) + 1 \in DOMAIN u /\ u[Len(s) + 1] = "NUL"
      BY <1>2, <2>4 DEF u
    <3>2. y = Len(s) + 1
      BY <1>2, <2>1, <2>2, <3>1
    <3>3. SubSeq(u, 1, Len(s)) = s
      BY <1>2 DEF u
    <3> QED
      BY <1>2, <2>1, <3>2, <3>3
  <2> QED
    BY <1>1, <2>1, <2>3, <2>4 DEF u
<1> QED
  BY <1>4, <1>5

-------------------------------------------------------------------------------
(* Counting the elements of a set of positions. *)

Positive == Nat \ {0}
UpTo(set, m) == {j \in set : j <= m}
Rank(set, m) == Cardinality(UpTo(set, m))

LEMMA UpToFinite ==
  ASSUME NEW set \in SUBSET Positive, NEW m \in Nat
  PROVE  IsFiniteSet(UpTo(set, m)) /\ Rank(set, m) \in Nat
<1>1. UpTo(set, m) \in SUBSET Nat /\ \A j \in UpTo(set, m) : j <= m
  BY DEF UpTo, Positive
<1>2. IsFiniteSet(UpTo(set, m))
  BY <1>1, FS_BoundedSetOfNaturals
<1> QED
  BY <1>2, FS_CardinalityType DEF Rank

LEMMA RankStep ==
  ASSUME NEW set \in SUBSET Positive, NEW m \in Nat
  PROVE  Rank(set, m + 1) = Rank(set, m) + (IF m + 1 \in set THEN 1 ELSE 0)
<1>1. IsFiniteSet(UpTo(set, m)) /\ Rank(set, m) \in Nat
  BY UpToFinite
<1>2. \A j \in set : j \in Nat /\ j > 0
  BY DEF Positive
<1>3. m + 1 \notin UpTo(set, m)
  BY DEF UpTo
<1>4. CASE m + 1 \in set
  <2>1. UpTo(set, m + 1) = UpTo(set, m) \cup {m + 1}
    BY <1>2, <1>4 DEF UpTo
  <2>2. Rank(set, m + 1) = Rank(set, m) + 1
    BY <1>1, <1>3, <2>1, FS_AddElement DEF Rank
  <2> QED
    BY <1>4, <2>2
<1>5. CASE m + 1 \notin set
  <2>1. UpTo(set, m + 1) = UpTo(set, m)
    BY <1>2, <1>5 DEF UpTo
  <2> QED
    BY <1>1, <1>5, <2>1 DEF Rank
<1> QED
  BY <1>4, <1>5

LEMMA RankNone ==
  ASSUME NEW set \in SUBSET Positive
  PROVE  Rank(set, 0) = 0
<1>1. \A j \in set : j \in Nat /\ j > 0
  BY DEF Positive
<1>2. UpTo(set, 0) = {}
  BY <1>1 DEF UpTo
<1> QED
  BY <1>2, FS_EmptySet DEF Rank

LEMMA RankGrows ==
  ASSUME NEW set \in SUBSET Positive, NEW m \in Nat, NEW k \in Nat, m < k
  PROVE  Rank(set, m) <= Rank(set, k) /\ (k \in set => Rank(set, m) < Rank(set, k))
<1>1. \A j \in set : j \in Nat /\ j > 0
  BY DEF Positive
<1>2. UpTo(set, m) \in SUBSET UpTo(set, k)
  BY <1>1 DEF UpTo
<1>3. k \in set => UpTo(set, m) # UpTo(set, k)
  BY <1>1 DEF UpTo
<1>4. IsFiniteSet(UpTo(set, k)) /\ Rank(set, k) \in Nat /\ Rank(set, m) \in Nat
  BY UpToFinite
<1>5. Rank(set, m) <= Rank(set, k) /\ (Rank(set, m) = Rank(set, k) => UpTo(set, m) = UpTo(set, k))
  BY <1>2, <1>4, FS_Subset DEF Rank
<1> QED
  BY <1>3, <1>4, <1>5

\* The element with a rank, and that there is one.
LEMMA NthUnique ==
  ASSUME NEW set \in SUBSET Positive, NEW i \in set
  PROVE  Nth(set, Rank(set, i)) = i
<1> DEFINE Has(j) == Cardinality({l \in set : l <= j}) = Rank(set, i)
<1>1. Has(i)
  BY DEF Rank, UpTo
<1>2. ASSUME NEW j \in set, Has(j) PROVE j = i
  <2>1. Rank(set, j) = Rank(set, i)
    BY <1>2 DEF Rank, UpTo
  <2>2. i \in Nat /\ j \in Nat /\ Rank(set, i) \in Nat /\ Rank(set, j) \in Nat
    BY UpToFinite DEF Positive
  <2>3. ~ (i < j) /\ ~ (j < i)
    BY <2>1, <2>2, RankGrows
  <2> QED
    BY <2>2, <2>3
<1>3. Nth(set, Rank(set, i)) = CHOOSE j \in set : Has(j)
  BY DEF Nth
<1> HIDE DEF Has
<1> QED
  BY <1>1, <1>2, <1>3

LEMMA NthIs ==
  ASSUME NEW set \in SUBSET Positive, NEW m \in Nat, NEW k \in 1 .. Rank(set, m)
  PROVE  Nth(set, k) \in set /\ Nth(set, k) <= m /\ Rank(set, Nth(set, k)) = k
<1> DEFINE Enough == {n \in Nat : k <= Rank(set, n)}
<1>1. m \in Enough
  BY UpToFinite
<1>2. PICK i \in Enough : \A n \in Enough : i <= n
  <2> HIDE DEF Enough
  <2>1. Enough \in SUBSET Nat
    BY DEF Enough
  <2> QED
    BY <1>1, <2>1, LeastNumber
<1>3. i \in Nat /\ i <= m /\ k <= Rank(set, i) /\ i # 0
  BY <1>1, <1>2, RankNone
<1>4. i - 1 \in Nat /\ i - 1 \notin Enough /\ (i - 1) + 1 = i
  BY <1>2, <1>3
<1>5. Rank(set, i - 1) \in Nat /\ Rank(set, i - 1) < k
  BY <1>4, UpToFinite
<1>6. Rank(set, i) = Rank(set, i - 1) + (IF i \in set THEN 1 ELSE 0)
  BY <1>4, RankStep
<1>7. i \in set /\ Rank(set, i) = k
  BY <1>3, <1>5, <1>6
<1>8. Nth(set, k) = i
  BY <1>7, NthUnique
<1> QED
  BY <1>3, <1>7, <1>8

\* The sets of positions of a text have as many elements as it has up to its end.
LEMMA RankAll ==
  ASSUME NEW n \in Nat, NEW set \in SUBSET (1 .. n)
  PROVE  set \in SUBSET Positive /\ Cardinality(set) = Rank(set, n)
<1>1. \A j \in set : j \in Nat /\ j > 0 /\ j <= n
  OBVIOUS
<1>2. UpTo(set, n) = set
  BY <1>1 DEF UpTo
<1> QED
  BY <1>1, <1>2 DEF Rank, Positive

\* Sets that agree up to m count the same there.
LEMMA RankAgree ==
  ASSUME NEW A, NEW B, NEW m \in Nat, \A j \in 1 .. m : j \in A <=> j \in B,
         A \in SUBSET Positive, B \in SUBSET Positive
  PROVE  \A i \in 0 .. m : Rank(A, i) = Rank(B, i)
<1> TAKE i \in 0 .. m
<1>1. (\A j \in A : j \in Nat /\ j > 0) /\ (\A j \in B : j \in Nat /\ j > 0)
  BY DEF Positive
<1>2. UpTo(A, i) = UpTo(B, i)
  BY <1>1 DEF UpTo
<1> QED
  BY <1>2 DEF Rank

\* Starts and ends of the runs of a set alternate.
LEMMA StartsAndEnds ==
  ASSUME NEW set \in SUBSET Positive, NEW m \in Nat
  PROVE  Rank(Starts(set), m + 1) = Rank(Ends(set), m) + (IF m + 1 \in set THEN 1 ELSE 0)
<1> DEFINE S == Starts(set)
           E == Ends(set)
           N == {n \in Nat : Rank(S, n + 1) = Rank(E, n) + (IF n + 1 \in set THEN 1 ELSE 0)}
<1>1. S \in SUBSET Positive /\ E \in SUBSET Positive /\ 0 \notin set
  BY DEF Starts, Ends, Positive
<1>2. \A i \in Nat : (i + 1 \in S <=> i + 1 \in set /\ i \notin set)
                    /\ (i + 1 \in E <=> i + 1 \in set /\ (i + 1) + 1 \notin set)
  BY DEF Starts, Ends, Positive
<1> HIDE DEF S, E
<1>3. 0 \in N
  <2>1. Rank(S, 0 + 1) = Rank(S, 0) + (IF 0 + 1 \in S THEN 1 ELSE 0)
    BY <1>1, RankStep
  <2>2. Rank(S, 0) = 0 /\ Rank(E, 0) = 0
    BY <1>1, RankNone
  <2> QED
    BY <1>1, <1>2, <2>1, <2>2
<1>4. ASSUME NEW n \in N PROVE n + 1 \in N
  <2>1. Rank(S, (n + 1) + 1) = Rank(S, n + 1) + (IF (n + 1) + 1 \in S THEN 1 ELSE 0)
    BY <1>1, RankStep
  <2>2. Rank(E, n + 1) = Rank(E, n) + (IF n + 1 \in E THEN 1 ELSE 0)
    BY <1>1, RankStep
  <2>3. Rank(S, n + 1) = Rank(E, n) + (IF n + 1 \in set THEN 1 ELSE 0)
    OBVIOUS
  <2>4. Rank(E, n) \in Nat /\ n + 1 \in Nat
    BY <1>1, UpToFinite
  <2> QED
    BY <1>2, <2>1, <2>2, <2>3, <2>4
<1>5. N = Nat
  <2> HIDE DEF N
  <2> QED
    BY <1>3, <1>4, AllNumbers DEF N
<1> QED
  BY <1>5 DEF S, E

-------------------------------------------------------------------------------
(* The pieces of a text, and of one that goes on. *)

Pieces(t, d) ==
  [k \in 1 .. Cardinality(Starts(Inside(t, d))) |->
     SubSeq(t, Nth(Starts(Inside(t, d)), k), Nth(Ends(Inside(t, d)), k))]

LEMMA SplitPieces ==
  ASSUME NEW s, NEW d
  PROVE  Split(s, d) = Pieces(CStr(s), d)
BY DEF Split, Pieces

LEMMA Positions ==
  ASSUME NEW C, NEW t \in Seq(C), NEW d
  PROVE  LET I == Inside(t, d)
         IN /\ I \in SUBSET (1 .. Len(t)) /\ I \in SUBSET Positive
            /\ Starts(I) \in SUBSET (1 .. Len(t)) /\ Starts(I) \in SUBSET Positive
            /\ Ends(I) \in SUBSET (1 .. Len(t)) /\ Ends(I) \in SUBSET Positive
            /\ Cardinality(Starts(I)) = Rank(Starts(I), Len(t))
            /\ Cardinality(Starts(I)) = Rank(Ends(I), Len(t))
            /\ Cardinality(Starts(I)) \in Nat
<1> DEFINE I == Inside(t, d)
           n == Len(t)
<1>1. n \in Nat /\ I \in SUBSET (1 .. n)
  BY DEF Inside
<1> HIDE DEF I, n
<1>2. Starts(I) \in SUBSET (1 .. n) /\ Ends(I) \in SUBSET (1 .. n)
  BY <1>1 DEF Starts, Ends
<1>3. /\ I \in SUBSET Positive /\ Starts(I) \in SUBSET Positive /\ Ends(I) \in SUBSET Positive
      /\ Cardinality(Starts(I)) = Rank(Starts(I), n)
  BY <1>1, <1>2, RankAll
<1>4. n + 1 \notin I /\ n + 1 \notin Starts(I)
  BY <1>1, <1>2
<1>5. Rank(Starts(I), n + 1) = Rank(Starts(I), n) + 0
  BY <1>1, <1>3, <1>4, RankStep
<1>6. Rank(Starts(I), n + 1) = Rank(Ends(I), n) + 0
  BY <1>1, <1>3, <1>4, StartsAndEnds
<1>7. Rank(Starts(I), n) \in Nat /\ Rank(Ends(I), n) \in Nat
  BY <1>1, <1>3, UpToFinite
<1>8. Rank(Starts(I), n) = Rank(Ends(I), n)
  BY <1>5, <1>6, <1>7
<1> QED
  BY <1>1, <1>2, <1>3, <1>7, <1>8 DEF I, n

\* Where a piece begins and ends.
LEMMA PieceBounds ==
  ASSUME NEW C, NEW t \in Seq(C), NEW d, NEW k \in 1 .. Len(Pieces(t, d))
  PROVE  LET I == Inside(t, d)
             a == Nth(Starts(I), k)
             b == Nth(Ends(I), k)
         IN /\ a \in Starts(I) /\ Rank(Starts(I), a) = k /\ a \in 1 .. Len(t)
            /\ b \in Ends(I) /\ Rank(Ends(I), b) = k /\ b \in 1 .. Len(t)
            /\ Pieces(t, d)[k] = SubSeq(t, a, b)
<1> DEFINE I == Inside(t, d)
           n == Len(t)
<1>1. /\ Starts(I) \in SUBSET (1 .. n) /\ Starts(I) \in SUBSET Positive
      /\ Ends(I) \in SUBSET (1 .. n) /\ Ends(I) \in SUBSET Positive
      /\ Cardinality(Starts(I)) = Rank(Starts(I), n)
      /\ Cardinality(Starts(I)) = Rank(Ends(I), n)
      /\ Cardinality(Starts(I)) \in Nat
  BY Positions
<1>2. n \in Nat
  OBVIOUS
<1>3. Pieces(t, d) = [j \in 1 .. Cardinality(Starts(I)) |->
                        SubSeq(t, Nth(Starts(I), j), Nth(Ends(I), j))]
  BY DEF Pieces
<1> HIDE DEF I, n
<1>4. k \in 1 .. Cardinality(Starts(I))
  BY <1>1, <1>3
<1>5. Pieces(t, d)[k] = SubSeq(t, Nth(Starts(I), k), Nth(Ends(I), k))
  BY <1>3, <1>4
<1>6. Nth(Starts(I), k) \in Starts(I) /\ Rank(Starts(I), Nth(Starts(I), k)) = k
  BY <1>1, <1>2, <1>4, NthIs
<1>7. Nth(Ends(I), k) \in Ends(I) /\ Rank(Ends(I), Nth(Ends(I), k)) = k
  BY <1>1, <1>2, <1>4, NthIs
<1> QED
  BY <1>1, <1>5, <1>6, <1>7 DEF I, n

LEMMA PiecesType ==
  ASSUME NEW C, NEW t \in Seq(C), NEW d
  PROVE  /\ Pieces(t, d) \in Seq(Seq(C))
         /\ Len(Pieces(t, d)) = Cardinality(Starts(Inside(t, d)))
<1> DEFINE c == Cardinality(Starts(Inside(t, d)))
           piece(k) == SubSeq(t, Nth(Starts(Inside(t, d)), k), Nth(Ends(Inside(t, d)), k))
<1>1. c \in Nat
  BY Positions
<1>2. Pieces(t, d) = [k \in 1 .. c |-> piece(k)]
  BY DEF Pieces
<1> HIDE DEF c, piece
<1>3. Len(Pieces(t, d)) = c
  BY <1>1, <1>2
<1>4. ASSUME NEW k \in 1 .. c PROVE piece(k) \in Seq(C)
  <2> DEFINE a == Nth(Starts(Inside(t, d)), k)
             b == Nth(Ends(Inside(t, d)), k)
  <2>1. a \in 1 .. Len(t) /\ b \in 1 .. Len(t)
    BY <1>3, PieceBounds
  <2>2. piece(k) = SubSeq(t, a, b)
    BY DEF piece
  <2> HIDE DEF a, b
  <2>3. \A i \in a .. b : t[i] \in C
    BY <2>1
  <2> QED
    BY <2>1, <2>2, <2>3, SubSeqProperties
<1> QED
  BY <1>1, <1>2, <1>3, <1>4 DEF c

LEMMA OneCharacter ==
  ASSUME NEW C, NEW s \in Seq(C), NEW i \in 1 .. Len(s)
  PROVE  SubSeq(s, i, i) = <<s[i]>>
<1> DEFINE a == SubSeq(s, i, i)
           b == <<s[i]>>
<1>1. s[i] \in C /\ i \in Int
  OBVIOUS
<1>2. a \in Seq(C) /\ Len(a) = 1 /\ a[1] = s[i]
  OBVIOUS
<1>3. b \in Seq(C) /\ Len(b) = 1 /\ b[1] = s[i]
  BY <1>1
<1> HIDE DEF a, b
<1>4. \A j \in 1 .. Len(a) : a[j] = b[j]
  BY <1>2, <1>3
<1>5. a = b
  BY <1>2, <1>3, <1>4, SeqEqual
<1> QED
  BY <1>5 DEF a, b

\* A character between two delimiters is a piece, and its rank among the beginnings
\* says which.
LEMMA PieceAlone ==
  ASSUME NEW C, NEW t \in Seq(C), NEW d, NEW i \in 2 .. Len(t) - 1,
         t[i - 1] = d, t[i] # d, t[i + 1] = d
  PROVE  LET k == Rank(Starts(Inside(t, d)), i)
         IN k \in 1 .. Len(Pieces(t, d)) /\ Pieces(t, d)[k] = SubSeq(t, i, i)
<1> DEFINE I == Inside(t, d)
           n == Len(t)
           k == Rank(Starts(I), i)
<1>1. n \in Nat /\ i \in 1 .. n /\ i - 1 \in Nat /\ (i - 1) + 1 = i /\ DOMAIN t = 1 .. n
  OBVIOUS
<1>2. i \in I /\ i - 1 \notin I /\ i + 1 \notin I
  BY <1>1 DEF Inside
<1>3. i \in Starts(I) /\ i \in Ends(I)
  BY <1>2 DEF Starts, Ends
<1>4. /\ I \in SUBSET Positive /\ Starts(I) \in SUBSET Positive
      /\ Ends(I) \in SUBSET Positive
      /\ Cardinality(Starts(I)) = Rank(Starts(I), n)
  BY Positions
<1>5. Len(Pieces(t, d)) = Rank(Starts(I), n)
  BY <1>4, PiecesType
<1>6. Pieces(t, d) = [j \in 1 .. Cardinality(Starts(I)) |->
                        SubSeq(t, Nth(Starts(I), j), Nth(Ends(I), j))]
  BY DEF Pieces
<1> HIDE DEF I, n
<1>m. PICK m \in Nat : i = m + 1
  BY <1>1
<1>7. Rank(Starts(I), m + 1) = Rank(Ends(I), m) + 1
  BY <1>2, <1>4, <1>m, StartsAndEnds
<1>8. Rank(Ends(I), m + 1) = Rank(Ends(I), m) + 1
  BY <1>3, <1>4, <1>m, RankStep
<1>9. Rank(Ends(I), i) = k
  BY <1>m, <1>7, <1>8
<1>10. Rank(Ends(I), m) \in Nat /\ k = Rank(Ends(I), m) + 1
  BY <1>m, <1>4, <1>7, UpToFinite
<1>11. k <= Rank(Starts(I), n) /\ Rank(Starts(I), n) \in Nat
  <2>1. CASE i = n
    BY <1>1, <1>4, <2>1, UpToFinite
  <2>2. CASE i < n
    BY <1>1, <1>4, <2>2, RankGrows, UpToFinite
  <2> QED
    BY <1>1, <2>1, <2>2
<1>12. k \in 1 .. Rank(Starts(I), n)
  BY <1>10, <1>11
<1>13. Nth(Starts(I), k) = i
  BY <1>3, <1>4, NthUnique
<1>14. Nth(Ends(I), k) = i
  BY <1>3, <1>4, <1>9, NthUnique
<1> HIDE DEF k
<1>15. Pieces(t, d)[k] = SubSeq(t, i, i)
  BY <1>4, <1>6, <1>12, <1>13, <1>14
<1> QED
  BY <1>5, <1>12, <1>15 DEF k, I

\* When a text goes on, its pieces stay as they are, but for the last one, which may
\* go on too.
Continues(P, Q, C) ==
  /\ Len(P) <= Len(Q)
  /\ \A k \in 1 .. Len(P) - 1 : Q[k] = P[k]
  /\ \A k \in 1 .. Len(P) : \E y \in Seq(C) : Q[k] = P[k] \o y

\* What the sets of positions of the two have in common.
LEMMA CommonPositions ==
  ASSUME NEW C, NEW t \in Seq(C), NEW x \in Seq(C), NEW d
  PROVE  LET I == Inside(t, d)
             J == Inside(t \o x, d)
             n == Len(t)
         IN /\ \A j \in 1 .. n : j \in Starts(I) <=> j \in Starts(J)
            /\ \A j \in 1 .. n - 1 : j \in Ends(I) <=> j \in Ends(J)
            /\ \A i \in 0 .. n : Rank(Starts(I), i) = Rank(Starts(J), i)
            /\ \A i \in 0 .. n - 1 : Rank(Ends(I), i) = Rank(Ends(J), i)
<1> DEFINE I == Inside(t, d)
           J == Inside(t \o x, d)
           n == Len(t)
<1>1. n \in Nat /\ Len(x) \in Nat /\ DOMAIN t = 1 .. n /\ DOMAIN (t \o x) = 1 .. n + Len(x)
      /\ \A j \in 1 .. n : (t \o x)[j] = t[j]
  OBVIOUS
<1>2. (\A j \in 1 .. n : j \in I <=> j \in J) /\ 0 \notin I /\ 0 \notin J
  BY <1>1 DEF Inside
<1>3. /\ Starts(I) \in SUBSET Positive /\ Ends(I) \in SUBSET Positive
      /\ Starts(J) \in SUBSET Positive /\ Ends(J) \in SUBSET Positive
  <2>1. t \o x \in Seq(C)
    OBVIOUS
  <2> QED
    BY <2>1, Positions
<1> HIDE DEF I, J, n
<1>4. \A j \in 1 .. n : j \in Starts(I) <=> j \in Starts(J)
  <2> SUFFICES ASSUME NEW j \in 1 .. n PROVE j \in Starts(I) <=> j \in Starts(J)
    OBVIOUS
  <2>1. j - 1 \in I <=> j - 1 \in J
    <3>1. j - 1 = 0 \/ j - 1 \in 1 .. n
      BY <1>1
    <3> QED
      BY <1>2, <3>1
  <2> QED
    BY <1>2, <2>1 DEF Starts
<1>5. \A j \in 1 .. n - 1 : j \in Ends(I) <=> j \in Ends(J)
  <2> SUFFICES ASSUME NEW j \in 1 .. n - 1 PROVE j \in Ends(I) <=> j \in Ends(J)
    OBVIOUS
  <2>1. j \in 1 .. n /\ j + 1 \in 1 .. n
    BY <1>1
  <2> QED
    BY <1>2, <2>1 DEF Ends
<1>6. \A i \in 0 .. n : Rank(Starts(I), i) = Rank(Starts(J), i)
  BY <1>1, <1>3, <1>4, RankAgree
<1>7. \A i \in 0 .. n - 1 : Rank(Ends(I), i) = Rank(Ends(J), i)
  <2>1. CASE n = 0
    BY <2>1
  <2>2. CASE n # 0
    <3>1. n - 1 \in Nat
      BY <1>1, <2>2
    <3> HIDE DEF n
    <3> QED
      BY <1>3, <1>5, <3>1, RankAgree
  <2> QED
    BY <2>1, <2>2
<1> QED
  BY <1>4, <1>5, <1>6, <1>7 DEF I, J, n

LEMMA PiecesContinue ==
  ASSUME NEW C, NEW t \in Seq(C), NEW x \in Seq(C), NEW d
  PROVE  Continues(Pieces(t, d), Pieces(t \o x, d), C)
<1> DEFINE u == t \o x
           I == Inside(t, d)
           J == Inside(u, d)
           n == Len(t)
           P == Pieces(t, d)
           Q == Pieces(u, d)
<1>1. n \in Nat /\ Len(x) \in Nat /\ u \in Seq(C) /\ Len(u) = n + Len(x)
      /\ \A j \in 1 .. n : u[j] = t[j]
  OBVIOUS
<1>2. /\ \A j \in 1 .. n : j \in Starts(I) <=> j \in Starts(J)
      /\ \A j \in 1 .. n - 1 : j \in Ends(I) <=> j \in Ends(J)
      /\ \A i \in 0 .. n : Rank(Starts(I), i) = Rank(Starts(J), i)
      /\ \A i \in 0 .. n - 1 : Rank(Ends(I), i) = Rank(Ends(J), i)
  BY CommonPositions
<1> HIDE DEF u
<1>3. /\ Starts(I) \in SUBSET Positive /\ Ends(I) \in SUBSET Positive
      /\ Starts(J) \in SUBSET Positive /\ Ends(J) \in SUBSET Positive
      /\ Len(P) = Rank(Starts(I), n) /\ Len(P) = Rank(Ends(I), n)
      /\ Len(Q) = Rank(Starts(J), Len(u)) /\ Len(P) \in Nat /\ Len(Q) \in Nat
  BY <1>1, Positions, PiecesType, ZenonT(60)
<1>b. \A k \in 1 .. Len(P) : /\ Nth(Starts(I), k) \in Starts(I) /\ Nth(Ends(I), k) \in Ends(I)
                             /\ Rank(Starts(I), Nth(Starts(I), k)) = k
                             /\ Rank(Ends(I), Nth(Ends(I), k)) = k
                             /\ Nth(Starts(I), k) \in 1 .. n /\ Nth(Ends(I), k) \in 1 .. n
                             /\ P[k] = SubSeq(t, Nth(Starts(I), k), Nth(Ends(I), k))
  BY PieceBounds
<1>c. \A k \in 1 .. Len(Q) : /\ Nth(Ends(J), k) \in Ends(J)
                             /\ Rank(Ends(J), Nth(Ends(J), k)) = k
                             /\ Nth(Ends(J), k) \in 1 .. Len(u)
                             /\ Q[k] = SubSeq(u, Nth(Starts(J), k), Nth(Ends(J), k))
  BY <1>1, PieceBounds
<1> HIDE DEF P, Q, I, J, n
<1>4. Len(P) <= Len(Q)
  <2>1. Rank(Starts(I), n) = Rank(Starts(J), n)
    <3>1. n \in 0 .. n
      BY <1>1
    <3> QED
      BY <1>2, <3>1
  <2>2. CASE Len(x) = 0
    <3>1. Len(u) = n
      BY <1>1, <2>2
    <3>2. Rank(Starts(J), Len(u)) = Rank(Starts(J), n)
      BY <3>1
    <3>3. Len(P) = Len(Q)
      BY <1>3, <2>1, <3>2
    <3> QED
      BY <1>3, <3>3
  <2>3. CASE Len(x) # 0
    <3>1. n < Len(u) /\ Len(u) \in Nat
      BY <1>1, <2>3
    <3>2. Rank(Starts(J), n) <= Rank(Starts(J), Len(u))
      BY <1>1, <1>3, <3>1, RankGrows
    <3> QED
      BY <1>3, <2>1, <3>2
  <2> QED
    BY <2>2, <2>3
<1>5. ASSUME NEW k \in 1 .. Len(P)
      PROVE  /\ k < Len(P) => Q[k] = P[k]
             /\ \E y \in Seq(C) : Q[k] = P[k] \o y
  <2> DEFINE a == Nth(Starts(I), k)
             b == Nth(Ends(I), k)
             e == Nth(Ends(J), k)
  <2>1. k \in 1 .. Len(Q) /\ k \in Nat
    BY <1>3, <1>4
  <2>2. /\ a \in Starts(I) /\ b \in Ends(I) /\ Rank(Starts(I), a) = k /\ Rank(Ends(I), b) = k
        /\ a \in 1 .. n /\ b \in 1 .. n /\ P[k] = SubSeq(t, a, b)
    BY <1>b
  <2>3. /\ e \in Ends(J) /\ Rank(Ends(J), e) = k /\ e \in 1 .. Len(u)
        /\ Q[k] = SubSeq(u, Nth(Starts(J), k), e)
    BY <1>c, <2>1
  <2> HIDE DEF a, b, e
  <2>4. Nth(Starts(J), k) = a
    <3>1. a \in Starts(J) /\ Rank(Starts(J), a) = k
      BY <1>1, <1>2, <2>2
    <3> QED
      BY <1>3, <3>1, NthUnique
  <2>5. SubSeq(u, a, b) = P[k] /\ P[k] \in Seq(C)
    <3>1. SubSeq(u, a, b) = SubSeq(t, a, b)
      BY <2>2, SubSeqOfConcat1 DEF u, n
    <3>2. \A j \in a .. b : t[j] \in C
      BY <1>1, <2>2 DEF n
    <3>3. SubSeq(t, a, b) \in Seq(C)
      BY <2>2, <3>2, SubSeqProperties
    <3> QED
      BY <2>2, <3>1, <3>3
  <2>6. CASE b < n
    <3>1. b \in 1 .. n - 1 /\ b \in 0 .. n - 1
      BY <1>1, <2>2, <2>6
    <3>2. b \in Ends(J) /\ Rank(Ends(J), b) = k
      BY <1>2, <2>2, <3>1
    <3>3. e = b
      BY <1>3, <3>2, NthUnique DEF e
    <3>4. Q[k] = P[k]
      BY <2>3, <2>4, <2>5, <3>3
    <3>5. <<>> \in Seq(C) /\ P[k] = P[k] \o <<>>
      BY <2>5, ConcatEmptySeq, EmptySeq
    <3> QED
      BY <3>4, <3>5
  <2>7. CASE b = n
    <3>1. k = Len(P)
      BY <1>3, <2>2, <2>7
    <3>2. ~ (e < n)
      <4> SUFFICES ASSUME e < n PROVE FALSE
        OBVIOUS
      <4>1. e \in 1 .. n - 1 /\ e \in 0 .. n - 1
        BY <1>1, <2>3
      <4>2. e \in Ends(I) /\ Rank(Ends(I), e) = k
        BY <1>2, <2>3, <4>1
      <4>3. b = e
        BY <1>3, <4>2, NthUnique DEF b
      <4> QED
        BY <1>1, <2>7, <4>1, <4>3
    <3>3. e \in n .. Len(u)
      BY <1>1, <2>3, <3>2
    <3>4. SubSeq(u, a, n) \o SubSeq(u, n + 1, e) = SubSeq(u, a, e)
      <4>1. a \in 1 .. Len(u) + 1 /\ n \in a - 1 .. Len(u)
        BY <1>1, <2>2, <3>3
      <4> QED
        BY <1>1, <3>3, <4>1, ConcatAdjacentSubSeq
    <3>5. SubSeq(u, n + 1, e) \in Seq(C)
      <4>1. \A j \in n + 1 .. e : u[j] \in C
        BY <1>1, <3>3
      <4>2. n + 1 \in Int /\ e \in Int
        BY <1>1, <3>3
      <4> QED
        BY <4>1, <4>2, SubSeqProperties
    <3>6. SubSeq(u, a, n) = P[k]
      BY <2>5, <2>7
    <3>7. Q[k] = P[k] \o SubSeq(u, n + 1, e)
      BY <2>3, <2>4, <3>4, <3>6
    <3>8. ~ (k < Len(P))
      BY <1>3, <3>1
    <3> QED
      BY <3>5, <3>7, <3>8
  <2>8. b < n \/ b = n
    BY <1>1, <2>2
  <2> QED
    BY <2>6, <2>7, <2>8
<1>6. \A k \in 1 .. Len(P) - 1 : k \in 1 .. Len(P) /\ k < Len(P)
  BY <1>3
<1> QED
  BY <1>4, <1>5, <1>6 DEF Continues, P, Q, u

-------------------------------------------------------------------------------
(* Pieces put together again. *)

\* f is the recursive function of FlattenSeq.
Flattens(s, f) ==
  f = [i \in 1 .. Len(s) |-> IF i = 1 THEN s[i] ELSE f[i - 1] \o s[i]]

LEMMA FlattenExists ==
  ASSUME NEW C, NEW s \in Seq(Seq(C))
  PROVE  \E f : Flattens(s, f)
<1> DEFINE W == {l \in Seq(Seq(C)) : \E f : Flattens(l, f)}
<1>1. <<>> \in W
  <2>1. Flattens(<<>>, [i \in 1 .. 0 |-> 0])
    BY DEF Flattens
  <2>2. <<>> \in Seq(Seq(C))
    OBVIOUS
  <2> QED
    BY <2>1, <2>2
<1>2. ASSUME NEW l \in W, NEW e \in Seq(C) PROVE Append(l, e) \in W
  <2>1. PICK f : Flattens(l, f)
    OBVIOUS
  <2> DEFINE n == Len(l)
             m == Append(l, e)
             g == [i \in 1 .. n + 1 |-> IF i <= n THEN f[i]
                                       ELSE IF n = 0 THEN e ELSE f[n] \o e]
  <2>2. /\ n \in Nat /\ m \in Seq(Seq(C)) /\ Len(m) = n + 1 /\ m[n + 1] = e
        /\ \A i \in 1 .. n : m[i] = l[i]
    OBVIOUS
  <2> HIDE DEF m
  <2>3. \A i \in 1 .. n : f[i] = IF i = 1 THEN l[i] ELSE f[i - 1] \o l[i]
    BY <2>1 DEF Flattens
  <2>4. ASSUME NEW i \in 1 .. n + 1
        PROVE  g[i] = IF i = 1 THEN m[i] ELSE g[i - 1] \o m[i]
    <3>1. CASE i <= n
      <4>1. i \in 1 .. n /\ g[i] = f[i] /\ m[i] = l[i]
        BY <2>2, <3>1
      <4>2. i # 1 => g[i - 1] = f[i - 1]
        <5>1. i # 1 => i - 1 \in 1 .. n + 1 /\ i - 1 <= n
          BY <2>2, <4>1
        <5> QED
          BY <5>1
      <4> HIDE DEF g
      <4> QED
        BY <2>3, <4>1, <4>2
    <3>2. CASE i = n + 1
      <4>1. g[n + 1] = IF n = 0 THEN e ELSE f[n] \o e
        BY <2>2
      <4>2. n # 0 => g[n] = f[n]
        BY <2>2
      <4> HIDE DEF g
      <4>3. i = 1 <=> n = 0
        BY <2>2, <3>2
      <4>4. i - 1 = n
        BY <2>2, <3>2
      <4> QED
        BY <2>2, <3>2, <4>1, <4>2, <4>3, <4>4
    <3> QED
      BY <2>2, <3>1, <3>2
  <2>5. g = [i \in 1 .. n + 1 |-> g[i]]
    OBVIOUS
  <2> HIDE DEF g
  <2>6. Flattens(m, g)
    BY <2>2, <2>4, <2>5 DEF Flattens
  <2> QED
    BY <2>2, <2>6 DEF m
<1>3. W = Seq(Seq(C))
  <2> HIDE DEF W
  <2>1. W \in SUBSET Seq(Seq(C))
    BY DEF W
  <2> QED
    BY <1>1, <1>2, <2>1, AllLists
<1> QED
  BY <1>3

\* What f has of a list of texts over C.
Joins(s, f, C) ==
  /\ FlattenSeq(s) = f[Len(s)]
  /\ f[1] = s[1] /\ \A i \in 2 .. Len(s) : f[i] = f[i - 1] \o s[i]
  /\ \A i \in 1 .. Len(s) : f[i] \in Seq(C)

LEMMA FlattenIs ==
  ASSUME NEW C, NEW s \in Seq(Seq(C))
  PROVE  /\ Len(s) = 0 => FlattenSeq(s) = <<>>
         /\ Len(s) # 0 => \E f : Joins(s, f, C)
<1>1. Len(s) = 0 => FlattenSeq(s) = <<>>
  <2>1. Len(s) = 0 => s = <<>>
    OBVIOUS
  <2> QED
    BY <2>1 DEF FlattenSeq
<1>2. ASSUME Len(s) # 0 PROVE \E f : Joins(s, f, C)
  <2> DEFINE f == CHOOSE h : Flattens(s, h)
             n == Len(s)
  <2>1. Flattens(s, f)
    BY FlattenExists
  <2>2. FlattenSeq(s) = f[Len(s)]
    BY <1>2, Zenon DEF FlattenSeq, Flattens
  <2> HIDE DEF f
  <2>3. n \in Nat \ {0} /\ \A i \in 1 .. n : s[i] \in Seq(C)
    BY <1>2
  <2>4. \A i \in 1 .. n : f[i] = IF i = 1 THEN s[i] ELSE f[i - 1] \o s[i]
    BY <2>1 DEF Flattens
  <2> HIDE DEF n
  <2>5. f[1] = s[1]
    <3>1. 1 \in 1 .. n
      BY <2>3
    <3> QED
      BY <2>4, <3>1
  <2>6. \A i \in 2 .. n : f[i] = f[i - 1] \o s[i]
    <3>1. \A i \in 2 .. n : i \in 1 .. n /\ i # 1
      BY <2>3
    <3> QED
      BY <2>4, <3>1
  <2> DEFINE N == {k \in Nat : k \in 1 .. n => f[k] \in Seq(C)}
  <2>7. 0 \in N
    OBVIOUS
  <2>8. ASSUME NEW k \in N PROVE k + 1 \in N
    <3> SUFFICES ASSUME k + 1 \in 1 .. n PROVE f[k + 1] \in Seq(C)
      OBVIOUS
    <3>1. CASE k = 0
      BY <2>3, <2>5, <3>1
    <3>2. CASE k # 0
      <4>1. k \in 1 .. n /\ k + 1 \in 2 .. n /\ (k + 1) - 1 = k
        BY <2>3, <3>2
      <4>2. f[k] \in Seq(C) /\ s[k + 1] \in Seq(C)
        BY <2>3, <4>1
      <4>3. f[k + 1] = f[k] \o s[k + 1]
        BY <2>6, <4>1
      <4> QED
        BY <4>2, <4>3
    <3> QED
      BY <3>1, <3>2
  <2>9. N = Nat
    <3> HIDE DEF N
    <3> QED
      BY <2>7, <2>8, AllNumbers DEF N
  <2>10. \A i \in 1 .. n : f[i] \in Seq(C)
    <3>1. \A i \in 1 .. n : i \in Nat
      BY <2>3
    <3> QED
      BY <2>9, <3>1
  <2> QED
    BY <2>2, <2>5, <2>6, <2>10 DEF Joins, n
<1> QED
  BY <1>1, <1>2

LEMMA FlattenType ==
  ASSUME NEW C, NEW s \in Seq(Seq(C))
  PROVE  FlattenSeq(s) \in Seq(C)
<1>1. CASE Len(s) = 0
  <2>1. FlattenSeq(s) = <<>>
    BY <1>1, FlattenIs
  <2> QED
    BY <2>1, EmptySeq
<1>2. CASE Len(s) # 0
  <2>1. PICK f : Joins(s, f, C)
    BY <1>2, FlattenIs
  <2>2. Len(s) \in 1 .. Len(s)
    BY <1>2
  <2> QED
    BY <2>1, <2>2 DEF Joins
<1> QED
  BY <1>1, <1>2

LEMMA Assoc ==
  ASSUME NEW C
  PROVE  \A p, q, w \in Seq(C) : p \o (q \o w) = (p \o q) \o w
BY ConcatAssociative

\* A list that continues another one makes a text that continues the other's.
LEMMA FlattenContinues ==
  ASSUME NEW C, NEW P \in Seq(Seq(C)), NEW Q \in Seq(Seq(C)), Continues(P, Q, C)
  PROVE  \E y \in Seq(C) : FlattenSeq(Q) = FlattenSeq(P) \o y
<1>1. /\ Len(P) \in Nat /\ Len(Q) \in Nat /\ Len(P) <= Len(Q)
      /\ \A i \in 1 .. Len(P) : P[i] \in Seq(C)
      /\ \A i \in 1 .. Len(Q) : Q[i] \in Seq(C)
  BY DEF Continues
<1>2. CASE Len(P) = 0
  <2>1. FlattenSeq(P) = <<>>
    BY <1>2, FlattenIs
  <2>2. FlattenSeq(Q) \in Seq(C)
    BY FlattenType
  <2>3. FlattenSeq(Q) = <<>> \o FlattenSeq(Q)
    BY <2>2, ConcatEmptySeq
  <2> QED
    BY <2>1, <2>2, <2>3
<1>3. CASE Len(P) # 0
  <2> DEFINE m == Len(P)
             n == Len(Q)
  <2>1. Len(Q) # 0 /\ m \in 1 .. m
    BY <1>1, <1>3
  <2>c. \A p, q, w \in Seq(C) : p \o (q \o w) = (p \o q) \o w
    BY Assoc, SMTT(30)
  <2>f. PICK f : Joins(P, f, C)
    BY <1>3, FlattenIs
  <2>g. PICK g : Joins(Q, g, C)
    BY <2>1, FlattenIs
  <2>2. /\ FlattenSeq(P) = f[m]
        /\ f[1] = P[1] /\ \A i \in 2 .. m : f[i] = f[i - 1] \o P[i]
        /\ \A i \in 1 .. m : f[i] \in Seq(C)
    BY <2>f DEF Joins
  <2>3. /\ FlattenSeq(Q) = g[n]
        /\ g[1] = Q[1] /\ \A i \in 2 .. n : g[i] = g[i - 1] \o Q[i]
        /\ \A i \in 1 .. n : g[i] \in Seq(C)
    BY <2>g DEF Joins
  <2>4. m \in Nat \ {0} /\ n \in Nat /\ m <= n
    BY <1>1, <1>3
  <2>b. (\A k \in 1 .. m - 1 : Q[k] = P[k]) /\ \E y \in Seq(C) : Q[m] = P[m] \o y
    BY <2>1 DEF Continues
  <2>a. (\A i \in 1 .. m : P[i] \in Seq(C)) /\ (\A i \in 1 .. n : Q[i] \in Seq(C))
    BY <1>1
  <2> HIDE DEF m, n
  <2> DEFINE Same == {k \in Nat : k \in 1 .. m - 1 => g[k] = f[k]}
  <2>5. 0 \in Same
    OBVIOUS
  <2>6. ASSUME NEW k \in Same PROVE k + 1 \in Same
    <3> SUFFICES ASSUME k + 1 \in 1 .. m - 1 PROVE g[k + 1] = f[k + 1]
      OBVIOUS
    <3>1. Q[k + 1] = P[k + 1]
      BY <2>b
    <3>2. CASE k = 0
      BY <2>2, <2>3, <3>1, <3>2
    <3>3. CASE k # 0
      <4>1. k \in 1 .. m - 1 /\ k + 1 \in 2 .. m /\ k + 1 \in 2 .. n /\ (k + 1) - 1 = k
        BY <2>4, <3>3
      <4>2. g[k + 1] = g[k] \o Q[k + 1] /\ f[k + 1] = f[k] \o P[k + 1] /\ g[k] = f[k]
        BY <2>2, <2>3, <4>1
      <4> QED
        BY <3>1, <4>2
    <3> QED
      BY <3>2, <3>3
  <2>7. Same = Nat
    <3> HIDE DEF Same
    <3> QED
      BY <2>5, <2>6, AllNumbers DEF Same
  <2>8. \E y \in Seq(C) : g[m] = f[m] \o y
    <3>1. PICK y \in Seq(C) : Q[m] = P[m] \o y
      BY <2>b
    <3>2. CASE m = 1
      BY <2>2, <2>3, <3>1, <3>2
    <3>3. CASE m # 1
      <4>1. m - 1 \in 1 .. m - 1 /\ m - 1 \in Nat /\ m \in 2 .. m /\ m \in 2 .. n /\ m - 1 \in 1 .. m
            /\ m \in 1 .. m
        BY <2>4, <3>3
      <4>2. g[m - 1] = f[m - 1]
        BY <2>7, <4>1
      <4>3. g[m] = f[m - 1] \o (P[m] \o y) /\ f[m] = f[m - 1] \o P[m]
        BY <2>2, <2>3, <3>1, <4>1, <4>2
      <4>4. f[m - 1] \in Seq(C) /\ P[m] \in Seq(C)
        BY <2>2, <2>a, <4>1
      <4>5. (f[m - 1] \o P[m]) \o y = f[m - 1] \o (P[m] \o y)
        BY <4>4, <2>c
      <4>6. g[m] = f[m] \o y
        BY <4>3, <4>5
      <4> QED
        BY <4>6
    <3> QED
      BY <3>2, <3>3
  <2> DEFINE More == {k \in Nat : m + k <= n => \E y \in Seq(C) : g[m + k] = f[m] \o y}
  <2>9. 0 \in More
    <3>1. m + 0 = m
      BY <2>4
    <3> QED
      BY <2>8, <3>1
  <2>10. ASSUME NEW k \in More PROVE k + 1 \in More
    <3>1. k \in Nat /\ (m + k <= n => \E y \in Seq(C) : g[m + k] = f[m] \o y)
      OBVIOUS
    <3> DEFINE l == m + (k + 1)
    <3> SUFFICES ASSUME l <= n PROVE \E y \in Seq(C) : g[l] = f[m] \o y
      <4>1. k + 1 \in Nat
        BY <3>1
      <4> HIDE DEF l
      <4>2. l <= n => \E y \in Seq(C) : g[l] = f[m] \o y
        OBVIOUS
      <4> QED
        BY <4>1, <4>2 DEF l
    <3>2. k \in Nat /\ m + k <= n /\ m + (k + 1) \in 2 .. n /\ (m + (k + 1)) - 1 = m + k
          /\ m + (k + 1) \in 1 .. n
      BY <2>4, <3>1
    <3>3. PICK y \in Seq(C) : g[m + k] = f[m] \o y
      BY <3>1, <3>2
    <3>4. g[l] = g[l - 1] \o Q[l] /\ Q[l] \in Seq(C)
      BY <2>3, <2>a, <3>2
    <3>5. g[l] = (f[m] \o y) \o Q[l]
      BY <3>2, <3>3, <3>4
    <3>6. f[m] \in Seq(C)
      BY <2>2, <2>4
    <3> HIDE DEF l
    <3>7. (f[m] \o y) \o Q[l] = f[m] \o (y \o Q[l])
      BY <3>4, <3>6, <2>c
    <3>8. g[l] = f[m] \o (y \o Q[l])
      BY <3>5, <3>7
    <3>9. y \o Q[l] \in Seq(C)
      BY <3>4, ConcatProperties
    <3>10. \E z \in Seq(C) : g[l] = f[m] \o z
      BY <3>8, <3>9
    <3> QED
      BY <3>2, <3>10 DEF l
  <2>11. More = Nat
    <3> HIDE DEF More
    <3> QED
      BY <2>9, <2>10, AllNumbers DEF More
  <2>12. PICK k \in Nat : m + k = n
    <3>1. n - m \in Nat /\ m + (n - m) = n
      BY <2>4
    <3> QED
      BY <3>1
  <2>13. \E y \in Seq(C) : g[n] = f[m] \o y
    <3>1. m + k <= n
      BY <2>4, <2>12
    <3>2. k \in More /\ m + k <= n
      <4> HIDE DEF More
      <4> QED
        BY <2>11, <3>1
    <3>3. \E y \in Seq(C) : g[m + k] = f[m] \o y
      BY <3>2
    <3> QED
      BY <2>12, <3>3
  <2> QED
    BY <2>2, <2>3, <2>13
<1> QED
  BY <1>2, <1>3

\* A list without its first pieces.
LEMMA RestContinues ==
  ASSUME NEW C, NEW P \in Seq(Seq(C)), NEW Q \in Seq(Seq(C)), Continues(P, Q, C),
         NEW c \in 0 .. Len(P)
  PROVE  /\ SubSeq(P, c + 1, Len(P)) \in Seq(Seq(C)) /\ SubSeq(Q, c + 1, Len(Q)) \in Seq(Seq(C))
         /\ Continues(SubSeq(P, c + 1, Len(P)), SubSeq(Q, c + 1, Len(Q)), C)
<1> DEFINE A == SubSeq(P, c + 1, Len(P))
           B == SubSeq(Q, c + 1, Len(Q))
<1>1. Len(P) \in Nat /\ Len(Q) \in Nat /\ Len(P) <= Len(Q)
  BY DEF Continues
<1>2. /\ A \in Seq(Seq(C)) /\ Len(A) = Len(P) - c /\ \A i \in 1 .. Len(P) - c : A[i] = P[c + i]
      /\ B \in Seq(Seq(C)) /\ Len(B) = Len(Q) - c /\ \A i \in 1 .. Len(Q) - c : B[i] = Q[c + i]
  BY <1>1, SMTT(30)
<1> HIDE DEF A, B
<1>3. \A k \in 1 .. Len(A) - 1 : B[k] = A[k]
  <2> SUFFICES ASSUME NEW k \in 1 .. Len(A) - 1 PROVE B[k] = A[k]
    OBVIOUS
  <2>1. c + k \in 1 .. Len(P) - 1 /\ k \in 1 .. Len(P) - c /\ k \in 1 .. Len(Q) - c
    <3>1. Len(A) = Len(P) - c /\ k \in Int /\ c \in Nat /\ k >= 1 /\ k <= Len(A) - 1
      BY <1>1, <1>2
    <3> QED
      BY <1>1, <3>1
  <2> QED
    BY <1>2, <2>1 DEF Continues
<1>4. \A k \in 1 .. Len(A) : \E y \in Seq(C) : B[k] = A[k] \o y
  <2> SUFFICES ASSUME NEW k \in 1 .. Len(A) PROVE \E y \in Seq(C) : B[k] = A[k] \o y
    OBVIOUS
  <2>1. c + k \in 1 .. Len(P) /\ k \in 1 .. Len(P) - c /\ k \in 1 .. Len(Q) - c
    BY <1>1, <1>2
  <2>2. B[k] = Q[c + k] /\ A[k] = P[c + k]
    BY <1>2, <2>1
  <2>3. \E y \in Seq(C) : Q[c + k] = P[c + k] \o y
    BY <2>1 DEF Continues
  <2> QED
    BY <2>2, <2>3
<1>5. Len(A) <= Len(B)
  BY <1>1, <1>2
<1> QED
  BY <1>2, <1>3, <1>4, <1>5 DEF Continues, A, B

\* The body of a text that goes on begins with the body of the text.
LEMMA RejoinedContinues ==
  ASSUME NEW C, NEW d \in C, NEW P \in Seq(Seq(C)), NEW Q \in Seq(Seq(C)), Continues(P, Q, C)
  PROVE  IsPrefix(Rejoined(P, d), Rejoined(Q, d))
<1> DEFINE W(L) == [k \in DOMAIN L |-> IF k = 1 THEN L[k] ELSE <<d>> \o L[k]]
<1>1. ASSUME NEW L \in Seq(Seq(C))
      PROVE  W(L) \in Seq(Seq(C)) /\ Len(W(L)) = Len(L)
  <2>1. Len(L) \in Nat /\ W(L) = [k \in 1 .. Len(L) |-> IF k = 1 THEN L[k] ELSE <<d>> \o L[k]]
    OBVIOUS
  <2>2. ASSUME NEW k \in 1 .. Len(L)
        PROVE  (IF k = 1 THEN L[k] ELSE <<d>> \o L[k]) \in Seq(C)
    <3>1. L[k] \in Seq(C) /\ <<d>> \in Seq(C)
      OBVIOUS
    <3>2. <<d>> \o L[k] \in Seq(C)
      BY <3>1, ConcatProperties
    <3> QED
      BY <3>1, <3>2
  <2> QED
    BY <2>1, <2>2
<1>2. Len(P) \in Nat /\ Len(Q) \in Nat
  OBVIOUS
<1>c. \A p, q, w \in Seq(C) : p \o (q \o w) = (p \o q) \o w
  BY Assoc
<1>p. W(P) \in Seq(Seq(C)) /\ Len(W(P)) = Len(P)
  BY <1>1
<1>q. W(Q) \in Seq(Seq(C)) /\ Len(W(Q)) = Len(Q)
  BY <1>1
<1>3. Continues(W(P), W(Q), C)
  <2>1. Len(P) <= Len(Q)
    BY DEF Continues
  <2>2. ASSUME NEW k \in 1 .. Len(P) - 1 PROVE W(Q)[k] = W(P)[k]
    <3>1. k \in 1 .. Len(P) /\ k \in 1 .. Len(Q) /\ Q[k] = P[k]
      <4>1. k \in 1 .. Len(P) /\ k \in 1 .. Len(Q)
        BY <1>2, <2>1
      <4> QED
        BY <4>1 DEF Continues
    <3> QED
      BY <3>1
  <2>3. ASSUME NEW k \in 1 .. Len(P) PROVE \E y \in Seq(C) : W(Q)[k] = W(P)[k] \o y
    <3>1. PICK y \in Seq(C) : Q[k] = P[k] \o y
      BY DEF Continues
    <3>2. k \in 1 .. Len(Q) /\ P[k] \in Seq(C) /\ <<d>> \in Seq(C)
      BY <1>2, <2>1
    <3>3. <<d>> \o (P[k] \o y) = (<<d>> \o P[k]) \o y
      BY <3>2, <1>c
    <3>4. W(Q)[k] = (IF k = 1 THEN Q[k] ELSE <<d>> \o Q[k])
          /\ W(P)[k] = (IF k = 1 THEN P[k] ELSE <<d>> \o P[k])
      BY <3>2
    <3> HIDE DEF W
    <3> QED
      BY <3>1, <3>3, <3>4
  <2> HIDE DEF W
  <2> QED
    BY <1>p, <1>q, <2>1, <2>2, <2>3 DEF Continues
<1>4. Rejoined(P, d) = FlattenSeq(W(P)) /\ Rejoined(Q, d) = FlattenSeq(W(Q))
  BY DEF Rejoined
<1> HIDE DEF W
<1>5. PICK y \in Seq(C) : FlattenSeq(W(Q)) = FlattenSeq(W(P)) \o y
  BY <1>p, <1>q, <1>3, FlattenContinues
<1>6. FlattenSeq(W(P)) \in Seq(C)
  BY <1>p, FlattenType
<1> DEFINE p == FlattenSeq(W(P))
<1> HIDE DEF p
<1>7. p \in Seq(C) /\ Len(p) \in Nat /\ Len(p) <= Len(p \o y)
      /\ SubSeq(p, 1, Len(p)) = SubSeq(p \o y, 1, Len(p))
  BY <1>6 DEF p
<1> QED
  BY <1>4, <1>5, <1>7 DEF IsPrefix, p

-------------------------------------------------------------------------------
(* What the parser makes of lines that go on. *)

LEMMA HeadLinesIs ==
  ASSUME NEW C, NEW L \in Seq(C)
  PROVE  /\ HeadLines(L) \in Nat
         /\ \A c \in 2 .. Len(L) :
              L[c] = <<"CR">> /\ (\A j \in 2 .. c - 1 : L[j] # <<"CR">>) => HeadLines(L) = c - 1
<1> DEFINE E == {i \in 2 .. Len(L) : L[i] = <<"CR">>}
           Least(i) == \A j \in E : i <= j
<1>1. HeadLines(L) = IF E = {} THEN Len(L) ELSE (CHOOSE i \in E : Least(i)) - 1
  BY DEF HeadLines
<1>2. Len(L) \in Nat
  OBVIOUS
<1>3. ASSUME E # {} PROVE (CHOOSE i \in E : Least(i)) \in E /\ Least(CHOOSE i \in E : Least(i))
  <2>1. \E i \in E : Least(i)
    <3>1. E \in SUBSET Nat
      BY <1>2
    <3> HIDE DEF E
    <3> QED
      BY <1>3, <3>1, LeastNumber
  <2> HIDE DEF E, Least
  <2> QED
    BY <2>1
<1>4. HeadLines(L) \in Nat
  <2>1. CASE E = {}
    BY <1>1, <1>2, <2>1
  <2>2. CASE E # {}
    <3> DEFINE i == CHOOSE k \in E : Least(k)
    <3>1. i \in E
      BY <1>3, <2>2
    <3> HIDE DEF i
    <3>2. i - 1 \in Nat
      BY <1>2, <3>1
    <3> HIDE DEF E, Least
    <3> QED
      BY <1>1, <2>2, <3>2 DEF i
  <2> QED
    BY <2>1, <2>2
<1>5. ASSUME NEW c \in 2 .. Len(L), L[c] = <<"CR">>, \A j \in 2 .. c - 1 : L[j] # <<"CR">>
      PROVE  HeadLines(L) = c - 1
  <2> DEFINE i == CHOOSE k \in E : Least(k)
  <2>1. c \in E
    BY <1>5
  <2>2. i \in E /\ Least(i)
    BY <1>3, <2>1
  <2> HIDE DEF i
  <2>3. i \in 2 .. Len(L) /\ L[i] = <<"CR">> /\ i <= c
    BY <2>1, <2>2
  <2>4. ~ (i < c)
    <3>1. i < c => i \in 2 .. c - 1
      BY <1>2, <2>3
    <3> QED
      BY <1>5, <2>3, <3>1
  <2>5. i = c
    BY <1>2, <2>3, <2>4
  <2> HIDE DEF E, Least
  <2> QED
    BY <1>1, <2>1, <2>5 DEF i
<1> QED
  BY <1>4, <1>5

\* The parser's verdict, by the first line, the headers and the body.
Verdict(first, headers, body) ==
  LET line == Split(AllButLast(first), " ")
  IN IF ~GoodLine(first) \/ Len(line) # 3
        \/ \E i \in DOMAIN headers : ~GoodHeader(headers[i])
       THEN Refused("BadRequest")
     ELSE IF Len(line[2]) > MaxUriSize THEN Refused("UriTooLarge")
     ELSE [result |-> "request",
           method |-> MethodOf(line[1]), uri |-> line[2], version |-> VersionOf(line[3]),
           headers |-> HeadersOf(headers),
           body |-> body]

HeadersIn(lines) == SubSeq(lines, 2, HeadLines(lines))
BodyIn(lines) == Rejoined(SubSeq(lines, HeadLines(lines) + 2, Len(lines)), "LF")

LEMMA VerdictOn ==
  ASSUME NEW lines, lines # <<>>
  PROVE  ParseLines(lines) = Verdict(lines[1], HeadersIn(lines), BodyIn(lines))
BY DEF ParseLines, Verdict, HeadersIn, BodyIn

\* The body is all that may differ when the rest is the same.
LEMMA VerdictBody ==
  ASSUME NEW first, NEW headers, NEW body, NEW more
  PROVE  LET sent == Verdict(first, headers, body)
             got == Verdict(first, headers, more)
         IN /\ got.result = sent.result
            /\ sent.result = "request" =>
                 /\ \A f \in {"method", "uri", "version", "headers"} : got[f] = sent[f]
                 /\ sent.body = body /\ got.body = more
<1> DEFINE line == Split(AllButLast(first), " ")
           bad == \/ ~GoodLine(first) \/ Len(line) # 3
                  \/ \E i \in DOMAIN headers : ~GoodHeader(headers[i])
           long == Len(line[2]) > MaxUriSize
           full(b) == [result |-> "request",
                       method |-> MethodOf(line[1]), uri |-> line[2],
                       version |-> VersionOf(line[3]),
                       headers |-> HeadersOf(headers),
                       body |-> b]
<1>1. \A b : Verdict(first, headers, b) =
              IF bad THEN Refused("BadRequest") ELSE IF long THEN Refused("UriTooLarge")
              ELSE full(b)
  BY DEF Verdict
<1>2. Refused("BadRequest").result = "BadRequest" /\ Refused("UriTooLarge").result = "UriTooLarge"
  BY DEF Refused
<1>3. \A b : full(b).result = "request" /\ full(b).body = b
  OBVIOUS
<1>4. \A f \in {"method", "uri", "version", "headers"} : full(more)[f] = full(body)[f]
  <2>1. /\ full(more)["method"] = full(body)["method"] /\ full(more)["uri"] = full(body)["uri"]
        /\ full(more)["version"] = full(body)["version"]
        /\ full(more)["headers"] = full(body)["headers"]
    OBVIOUS
  <2> HIDE DEF full
  <2> QED
    BY <2>1
<1> HIDE DEF bad, long, full
<1>5. CASE bad
  BY <1>1, <1>2, <1>5
<1>6. CASE ~bad /\ long
  BY <1>1, <1>2, <1>6
<1>7. CASE ~bad /\ ~long
  BY <1>1, <1>3, <1>4, <1>7
<1> QED
  BY <1>5, <1>6, <1>7

\* A line that is a mere CR is not a request line.
LEMMA NoRequestLine ==
  ASSUME NEW headers, NEW body
  PROVE  Verdict(<<"CR">>, headers, body) = Refused("BadRequest")
<1>1. AllButLast(<<"CR">>) = <<>>
  <2>1. Last(<<"CR">>) \notin Words
    BY DEF Last, Words, Methods, Versions
  <2>2. Front(<<"CR">>) = <<>>
    BY DEF Front
  <2> QED
    BY <2>1, <2>2 DEF AllButLast
<1>2. <<>> \in Seq({"NUL"}) /\ "NUL" \notin ToSet(<<>>)
  BY DEF ToSet
<1>3. CStr(<<>>) = <<>>
  BY <1>2, UpToZero
<1>4. Inside(<<>>, " ") = {}
  BY DEF Inside
<1>5. Starts({}) = {}
  BY DEF Starts
<1>6. Len(Pieces(<<>>, " ")) = 0
  BY <1>2, <1>4, <1>5, PiecesType, FS_EmptySet
<1>7. Len(Split(AllButLast(<<"CR">>), " ")) = 0
  BY <1>1, <1>3, <1>6, SplitPieces
<1> DEFINE line == Split(AllButLast(<<"CR">>), " ")
<1>8. Len(line) # 3
  <2> HIDE DEF line
  <2>1. Len(line) = 0
    BY <1>7 DEF line
  <2> QED
    BY <2>1
<1> QED
  BY <1>8, Zenon DEF Verdict

\* Lines of which the mere CR that ends the head stays in its place.
LEMMA LinesContinue ==
  ASSUME NEW C, "LF" \in C, NEW P \in Seq(Seq(C)), NEW Q \in Seq(Seq(C)), Continues(P, Q, C),
         NEW m \in 1 .. Len(P), P[m] = <<"CR">>, Q[m] = <<"CR">>
  PROVE  LET sent == ParseLines(P)
             got == ParseLines(Q)
         IN /\ got.result = sent.result
            /\ sent.result = "request" =>
                 /\ \A f \in {"method", "uri", "version", "headers"} : got[f] = sent[f]
                 /\ IsPrefix(sent.body, got.body)
<1>1. Len(P) \in Nat /\ Len(Q) \in Nat /\ Len(P) <= Len(Q) /\ P # <<>> /\ Q # <<>>
  BY DEF Continues
<1>2. /\ ParseLines(P) = Verdict(P[1], HeadersIn(P), BodyIn(P))
      /\ ParseLines(Q) = Verdict(Q[1], HeadersIn(Q), BodyIn(Q))
  BY <1>1, VerdictOn
<1>3. CASE m = 1
  <2>1. ParseLines(P) = Refused("BadRequest") /\ ParseLines(Q) = Refused("BadRequest")
    BY <1>2, <1>3, NoRequestLine
  <2>2. Refused("BadRequest").result = "BadRequest"
    BY DEF Refused
  <2> QED
    BY <2>1, <2>2
<1>4. CASE m # 1
  <2> DEFINE E == {i \in 2 .. Len(P) : P[i] = <<"CR">>}
  <2>1. m \in E /\ E \in SUBSET Nat
    BY <1>1, <1>4
  <2>2. PICK c \in E : \A i \in E : c <= i
    <3> HIDE DEF E
    <3> QED
      BY <2>1, LeastNumber
  <2>3. c \in 2 .. Len(P) /\ c \in 2 .. Len(Q) /\ P[c] = <<"CR">> /\ c <= m
    BY <1>1, <2>1, <2>2, SMTT(30)
  <2>4. \A j \in 1 .. c - 1 : Q[j] = P[j]
    <3>1. \A j \in 1 .. c - 1 : j \in 1 .. Len(P) - 1
      BY <1>1, <2>3
    <3> QED
      BY <3>1 DEF Continues
  <2>5. Q[c] = <<"CR">>
    <3>1. CASE c = m
      BY <3>1
    <3>2. CASE c < m
      <4>1. c \in 1 .. Len(P) - 1
        BY <1>1, <2>3, <3>2
      <4> QED
        BY <2>3, <4>1 DEF Continues
    <3> QED
      BY <1>1, <2>3, <3>1, <3>2, SMTT(30)
  <2>6. \A j \in 2 .. c - 1 : P[j] # <<"CR">>
    <3>1. \A j \in 2 .. c - 1 : j \in 2 .. Len(P) /\ ~ (c <= j)
      BY <1>1, <2>3
    <3> QED
      BY <2>2, <3>1
  <2>7. \A j \in 2 .. c - 1 : Q[j] # <<"CR">>
    <3>1. \A j \in 2 .. c - 1 : j \in 1 .. c - 1
      BY <2>3
    <3> QED
      BY <2>4, <2>6, <3>1
  <2>8. HeadLines(P) = c - 1 /\ HeadLines(Q) = c - 1
    BY <2>3, <2>5, <2>6, <2>7, HeadLinesIs
  <2>9. Q[1] = P[1]
    BY <2>3, <2>4
  <2>10. HeadersIn(Q) = HeadersIn(P)
    <3>1. SubSeq(P, 2, c - 1) = SubSeq(Q, 2, c - 1)
      <4> DEFINE A == SubSeq(P, 2, c - 1)
                 B == SubSeq(Q, 2, c - 1)
      <4>1. A \in Seq(Seq(C)) /\ Len(A) = c - 2 /\ \A i \in 1 .. c - 2 : A[i] = P[i + 1]
        BY <1>1, <2>3, SMTT(30)
      <4>2. B \in Seq(Seq(C)) /\ Len(B) = c - 2 /\ \A i \in 1 .. c - 2 : B[i] = Q[i + 1]
        BY <1>1, <2>3, SMTT(30)
      <4>3. \A i \in 1 .. c - 2 : i + 1 \in 1 .. c - 1
        BY <2>3
      <4> HIDE DEF A, B
      <4>4. \A i \in 1 .. Len(A) : A[i] = B[i]
        BY <2>4, <4>1, <4>2, <4>3
      <4>5. A = B
        BY <4>1, <4>2, <4>4, SeqEqual
      <4> QED
        BY <4>5 DEF A, B
    <3> QED
      BY <2>8, <3>1 DEF HeadersIn
  <2>11. IsPrefix(BodyIn(P), BodyIn(Q))
    <3> DEFINE A == SubSeq(P, c + 1, Len(P))
               B == SubSeq(Q, c + 1, Len(Q))
    <3>1. c \in 0 .. Len(P)
      BY <1>1, <2>3
    <3>2. A \in Seq(Seq(C)) /\ B \in Seq(Seq(C)) /\ Continues(A, B, C)
      BY <3>1, RestContinues
    <3>3. (c - 1) + 2 = c + 1
      BY <2>3
    <3>4. BodyIn(P) = Rejoined(A, "LF") /\ BodyIn(Q) = Rejoined(B, "LF")
      BY <2>8, <3>3 DEF BodyIn
    <3> HIDE DEF A, B
    <3> QED
      BY <3>2, <3>4, RejoinedContinues
  <2>12. ParseLines(Q) = Verdict(P[1], HeadersIn(P), BodyIn(Q))
    BY <1>2, <2>9, <2>10
  <2> QED
    BY <1>2, <2>11, <2>12, VerdictBody
<1> QED
  BY <1>3, <1>4

\* Every request has the text of its body whole: a body begins with itself.
LEMMA BodyWhole ==
  ASSUME NEW C, "LF" \in C, NEW P \in Seq(Seq(C)), ParseLines(P).result = "request"
  PROVE  IsPrefix(ParseLines(P).body, ParseLines(P).body)
<1> DEFINE n == HeadLines(P) + 2
           A == SubSeq(P, n, Len(P))
<1>1. HeadLines(P) \in Nat /\ Len(P) \in Nat /\ n \in Nat \ {0}
  BY HeadLinesIs
<1>2. A \in Seq(Seq(C))
  <2>1. \A i \in n .. Len(P) : P[i] \in Seq(C)
    BY <1>1
  <2> HIDE DEF n
  <2> QED
    BY <1>1, <2>1, SubSeqProperties
<1>3. BodyIn(P) = Rejoined(A, "LF")
  BY DEF BodyIn
<1> HIDE DEF A
<1>4. Continues(A, A, C)
  <2>1. ASSUME NEW k \in 1 .. Len(A) PROVE \E y \in Seq(C) : A[k] = A[k] \o y
    <3>1. A[k] \in Seq(C)
      BY <1>2
    <3>2. A[k] = A[k] \o <<>> /\ <<>> \in Seq(C)
      BY <3>1, ConcatEmptySeq, EmptySeq
    <3> QED
      BY <3>2
  <2>2. Len(A) <= Len(A)
    <3>1. Len(A) \in Nat
      BY <1>2
    <3> QED
      BY <3>1
  <2>3. \A k \in 1 .. Len(A) - 1 : A[k] = A[k]
    OBVIOUS
  <2> QED
    BY <2>1, <2>2, <2>3, Zenon DEF Continues
<1>5. IsPrefix(BodyIn(P), BodyIn(P))
  BY <1>2, <1>3, <1>4, RejoinedContinues
<1>6. CASE P = <<>>
  <2>1. ParseLines(P).result = "undefined"
    BY <1>6 DEF ParseLines, Refused
  <2> QED
    BY <2>1
<1>7. CASE P # <<>>
  <2>1. ParseLines(P) = Verdict(P[1], HeadersIn(P), BodyIn(P))
    BY <1>7, VerdictOn
  <2>2. ParseLines(P).body = BodyIn(P)
    BY <2>1, VerdictBody
  <2> QED
    BY <1>5, <2>2
<1> QED
  BY <1>6, <1>7

-------------------------------------------------------------------------------
(* The receive loop and the parser. *)

\* What the buffer adds to a request that is shorter than the buffer changes nothing;
\* behind a head that was received to its end it changes at most the end of the body.
LEMMA StaleBytesHarmless ==
  ASSUME NEW T, NEW t \in Seq(T), t # <<>>
  PROVE  ShortUntouched(t) /\ HeadUntouched(t)
<1> DEFINE C == T \cup {"NUL", "LF"}
<1>1. t \in Seq(C) /\ "NUL" \in C /\ "LF" \in C
  <2>1. \A i \in 1 .. Len(t) : t[i] \in C
    OBVIOUS
  <2> QED
    BY SeqMonotonic
<1> HIDE DEF C
<1>2. PICK rest \in Seq(C) : /\ rest # <<>>
                             /\ Received(t) = t \o rest
                             /\ Len(t) < BuffSize => rest[1] = "NUL"
  BY <1>1, BytesReceived
<1>3. t \o rest # <<>>
  BY <1>1, <1>2, ConcatEqualIffEmpty
<1> DEFINE P == Pieces(CStr(t), "LF")
           Q == Pieces(CStr(t \o rest), "LF")
<1>4. ParseRequest(t) = ParseLines(P) /\ ParseRequest(Received(t)) = ParseLines(Q)
  BY <1>2, <1>3, SplitPieces DEF ParseRequest
<1>5. CASE "NUL" \in ToSet(t)
  <2>1. Q = P
    BY <1>1, <1>5, BehindZero
  <2>2. P \in Seq(Seq(C))
    <3>1. CStr(t) \in Seq(C)
      <4>1. PICK z \in DOMAIN t : CStr(t) = SubSeq(t, 1, z - 1)
        BY <1>1, <1>5, UpToZero
      <4> QED
        BY <1>1, <4>1
    <3> QED
      BY <3>1, PiecesType
  <2> HIDE DEF P, Q
  <2>3. ParseRequest(Received(t)) = ParseRequest(t)
    BY <1>4, <2>1
  <2>4. ParseLines(P).result = "request" => IsPrefix(ParseLines(P).body, ParseLines(P).body)
    BY <1>1, <2>2, BodyWhole
  <2> QED
    BY <1>4, <2>3, <2>4 DEF ShortUntouched, HeadUntouched
<1>6. CASE "NUL" \notin ToSet(t)
  <2>1. /\ CStr(t) = t
        /\ \E x \in Seq(C) : CStr(t \o rest) = t \o x
        /\ rest # <<>> /\ rest[1] = "NUL" => CStr(t \o rest) = t
    <3> HIDE DEF P, Q
    <3> QED
      BY <1>1, <1>6, BehindWhole
  <2>2. CStr(t) = t /\ (rest[1] = "NUL" => CStr(t \o rest) = t)
    BY <1>2, <2>1
  <2>3. ShortUntouched(t)
    BY <1>2, <1>4, <2>2 DEF ShortUntouched
  <2>4. PICK x \in Seq(C) : CStr(t \o rest) = t \o x
    BY <2>1
  <2>5. P = Pieces(t, "LF") /\ Q = Pieces(t \o x, "LF") /\ t \o x \in Seq(C)
    BY <1>1, <2>2, <2>4
  <2> HIDE DEF P, Q
  <2>6. P \in Seq(Seq(C)) /\ Q \in Seq(Seq(C)) /\ Continues(P, Q, C)
    BY <1>1, <2>5, PiecesType, PiecesContinue
  <2>7. ASSUME HeadReceived(t)
        PROVE  \E m \in 1 .. Len(P) : P[m] = <<"CR">> /\ Q[m] = <<"CR">>
    <3> DEFINE n == Len(t)
               u == t \o x
    <3>1. PICK i \in 2 .. n - 1 : SubSeq(t, i - 1, i + 1) = <<"LF", "CR", "LF">>
      BY <2>7 DEF HeadReceived
    <3>2. /\ n \in Nat /\ u \in Seq(C) /\ Len(u) = n + Len(x) /\ Len(x) \in Nat
          /\ \A j \in 1 .. n : u[j] = t[j]
      BY <1>1
    <3>3. t[i - 1] = "LF" /\ t[i] = "CR" /\ t[i + 1] = "LF"
      <4> DEFINE a == SubSeq(t, i - 1, i + 1)
      <4>1. a[1] = t[i - 1] /\ a[2] = t[i] /\ a[3] = t[i + 1]
        BY <1>1, <3>1
      <4>2. a = <<"LF", "CR", "LF">>
        BY <3>1
      <4> HIDE DEF a
      <4> QED
        BY <4>1, <4>2
    <3> HIDE DEF u
    <3>4. i \in 2 .. Len(u) - 1 /\ u[i - 1] = "LF" /\ u[i] = "CR" /\ u[i + 1] = "LF"
      <4>1. i \in 1 .. n /\ i - 1 \in 1 .. n /\ i + 1 \in 1 .. n
        BY <3>1, <3>2
      <4>2. i \in 2 .. Len(u) - 1
        BY <3>1, <3>2
      <4> HIDE DEF n
      <4> QED
        BY <3>2, <3>3, <4>1, <4>2
    <3> DEFINE k == Rank(Starts(Inside(t, "LF")), i)
               l == Rank(Starts(Inside(u, "LF")), i)
    <3>5. k \in 1 .. Len(P) /\ P[k] = SubSeq(t, i, i)
      BY <1>1, <2>5, <3>1, <3>3, PieceAlone
    <3>6. Q[l] = SubSeq(u, i, i)
      BY <2>5, <3>2, <3>4, PieceAlone DEF u
    <3>7. k = l
      <4>1. i \in 0 .. Len(t)
        BY <3>1, <3>2
      <4> QED
        BY <1>1, <4>1, CommonPositions DEF u
    <3>8. SubSeq(t, i, i) = <<"CR">> /\ SubSeq(u, i, i) = <<"CR">>
      <4>1. i \in 1 .. Len(t) /\ i \in 1 .. Len(u)
        BY <3>1, <3>2, <3>4
      <4>2. SubSeq(t, i, i) = <<t[i]>> /\ SubSeq(u, i, i) = <<u[i]>>
        BY <1>1, <3>2, <4>1, OneCharacter
      <4> QED
        BY <3>3, <3>4, <4>1, <4>2
    <3> QED
      BY <3>5, <3>6, <3>7, <3>8
  <2>8. HeadUntouched(t)
    <3> SUFFICES ASSUME HeadReceived(t)
                 PROVE  LET sent == ParseLines(P)
                            got == ParseLines(Q)
                        IN /\ got.result = sent.result
                           /\ sent.result = "request" =>
                                /\ \A f \in {"method", "uri", "version", "headers"} :
                                     got[f] = sent[f]
                                /\ IsPrefix(sent.body, got.body)
      BY <1>4 DEF HeadUntouched
    <3>1. PICK m \in 1 .. Len(P) : P[m] = <<"CR">> /\ Q[m] = <<"CR">>
      BY <2>7
    <3> QED
      BY <1>1, <2>6, <3>1, LinesContinue
  <2> QED
    BY <2>3, <2>8
<1> QED
  BY <1>5, <1>6

-------------------------------------------------------------------------------
(* The pieces of a text with a delimiter in it. *)

\* A set that repeats another one behind m counts on from there.
Shifted(S, T, m, n) == \A j \in 1 .. n : m + j \in S <=> j \in T
RanksShifted(S, T, m, n) == \A j \in 0 .. n : Rank(S, m + j) = Rank(S, m) + Rank(T, j)

LEMMA RankShift ==
  ASSUME NEW S \in SUBSET Positive, NEW T \in SUBSET Positive, NEW m \in Nat, NEW n \in Nat,
         Shifted(S, T, m, n)
  PROVE  RanksShifted(S, T, m, n)
<1> DEFINE N == {j \in Nat : j <= n => Rank(S, m + j) = Rank(S, m) + Rank(T, j)}
<1>1. Rank(S, m) \in Nat
  BY UpToFinite
<1>2. 0 \in N
  <2>1. Rank(T, 0) = 0 /\ m + 0 = m
    BY RankNone
  <2> QED
    BY <1>1, <2>1
<1>3. ASSUME NEW j \in N PROVE j + 1 \in N
  <2> SUFFICES ASSUME j + 1 <= n
               PROVE  Rank(S, m + (j + 1)) = Rank(S, m) + Rank(T, j + 1)
    OBVIOUS
  <2>1. j \in Nat /\ m + j \in Nat /\ (m + j) + 1 = m + (j + 1) /\ j + 1 \in 1 .. n
    OBVIOUS
  <2>2. Rank(S, (m + j) + 1) = Rank(S, m + j) + (IF (m + j) + 1 \in S THEN 1 ELSE 0)
    BY <2>1, RankStep
  <2>3. Rank(T, j + 1) = Rank(T, j) + (IF j + 1 \in T THEN 1 ELSE 0)
    BY <2>1, RankStep
  <2>4. (m + j) + 1 \in S <=> j + 1 \in T
    BY <2>1 DEF Shifted
  <2>5. Rank(S, m + j) = Rank(S, m) + Rank(T, j) /\ Rank(T, j) \in Nat
    BY <2>1, UpToFinite
  <2> QED
    BY <1>1, <2>1, <2>2, <2>3, <2>4, <2>5
<1>4. N = Nat
  <2> HIDE DEF N
  <2> QED
    BY <1>2, <1>3, AllNumbers DEF N
<1> QED
  BY <1>4 DEF RanksShifted

\* The positions of a text with a delimiter in it are those before it and those behind.
CutAt(t, a, b, d) ==
  LET m == Len(a) + 1
  IN /\ Len(t) = m + Len(b)
     /\ \A j \in 1 .. Len(a) : t[j] = a[j]
     /\ t[m] = d
     /\ \A j \in 1 .. Len(b) : t[m + j] = b[j]
     /\ \A j \in 1 .. Len(a) : j \in Starts(Inside(t, d)) <=> j \in Starts(Inside(a, d))
     /\ \A j \in 1 .. Len(a) : j \in Ends(Inside(t, d)) <=> j \in Ends(Inside(a, d))
     /\ m \notin Starts(Inside(t, d)) /\ m \notin Ends(Inside(t, d))
     /\ \A j \in 1 .. Len(b) : m + j \in Starts(Inside(t, d)) <=> j \in Starts(Inside(b, d))
     /\ \A j \in 1 .. Len(b) : m + j \in Ends(Inside(t, d)) <=> j \in Ends(Inside(b, d))

LEMMA CutPositions ==
  ASSUME NEW C, NEW d \in C, NEW a \in Seq(C), NEW b \in Seq(C)
  PROVE  a \o <<d>> \o b \in Seq(C) /\ CutAt(a \o <<d>> \o b, a, b, d)
<1> DEFINE t == a \o <<d>> \o b
           n == Len(a)
           l == Len(b)
           m == n + 1
           I == Inside(t, d)
           A == Inside(a, d)
           B == Inside(b, d)
<1>1. /\ n \in Nat /\ l \in Nat /\ t \in Seq(C) /\ Len(t) = m + l
      /\ \A j \in 1 .. n : t[j] = a[j]
      /\ t[m] = d
      /\ \A j \in 1 .. l : t[m + j] = b[j]
  <2>1. a \o <<d>> \in Seq(C) /\ Len(a \o <<d>>) = n + 1 /\ (a \o <<d>>)[n + 1] = d
        /\ \A j \in 1 .. n : (a \o <<d>>)[j] = a[j]
    OBVIOUS
  <2> QED
    BY <2>1, ConcatProperties
<1>2. DOMAIN t = 1 .. m + l /\ DOMAIN a = 1 .. n /\ DOMAIN b = 1 .. l
  BY <1>1
<1> HIDE DEF t, n, l
<1>3. \A j \in 1 .. n : j \in I <=> j \in A
  BY <1>1, <1>2 DEF Inside
<1>4. \A j \in 1 .. l : m + j \in I <=> j \in B
  BY <1>1, <1>2 DEF Inside
<1>5. m \notin I /\ 0 \notin I /\ 0 \notin A /\ 0 \notin B /\ n + 1 \notin A /\ l + 1 \notin B
      /\ m + (l + 1) \notin I
  BY <1>1, <1>2 DEF Inside
<1> HIDE DEF I, A, B
<1>6. \A j \in 0 .. n + 1 : j \in I <=> j \in A
  BY <1>1, <1>3, <1>5
<1>7. \A j \in 0 .. l + 1 : m + j \in I <=> j \in B
  <2> SUFFICES ASSUME NEW j \in 0 .. l + 1 PROVE m + j \in I <=> j \in B
    OBVIOUS
  <2>1. j = 0 \/ j = l + 1 \/ j \in 1 .. l
    BY <1>1
  <2>2. m + 0 = m
    BY <1>1
  <2> QED
    BY <1>4, <1>5, <2>1, <2>2
<1>8. ASSUME NEW j \in 1 .. n
      PROVE  /\ j \in Starts(I) <=> j \in Starts(A)
             /\ j \in Ends(I) <=> j \in Ends(A)
  <2>1. j \in 0 .. n + 1 /\ j - 1 \in 0 .. n + 1 /\ j + 1 \in 0 .. n + 1
    BY <1>1
  <2> QED
    BY <1>6, <2>1 DEF Starts, Ends
<1>9. ASSUME NEW j \in 1 .. l
      PROVE  /\ m + j \in Starts(I) <=> j \in Starts(B)
             /\ m + j \in Ends(I) <=> j \in Ends(B)
  <2>1. /\ j \in 0 .. l + 1 /\ j - 1 \in 0 .. l + 1 /\ j + 1 \in 0 .. l + 1
        /\ (m + j) - 1 = m + (j - 1) /\ (m + j) + 1 = m + (j + 1)
    BY <1>1
  <2> QED
    BY <1>7, <2>1 DEF Starts, Ends
<1>10. m \notin Starts(I) /\ m \notin Ends(I)
  BY <1>5 DEF Starts, Ends
<1> QED
  BY <1>1, <1>8, <1>9, <1>10 DEF CutAt, t, n, l, I, A, B

\* A text with a delimiter in it has the pieces before it and then those behind it.
LEMMA CutPieces ==
  ASSUME NEW C, NEW d \in C, NEW a \in Seq(C), NEW b \in Seq(C)
  PROVE  Pieces(a \o <<d>> \o b, d) = Pieces(a, d) \o Pieces(b, d)
<1> DEFINE t == a \o <<d>> \o b
           n == Len(a)
           l == Len(b)
           m == n + 1
           I == Inside(t, d)
           A == Inside(a, d)
           B == Inside(b, d)
           P == Pieces(t, d)
           Q == Pieces(a, d)
           R == Pieces(b, d)
<1>1. t \in Seq(C) /\ CutAt(t, a, b, d)
  BY CutPositions
<1> HIDE DEF t
<1>2. /\ Len(t) = m + l
      /\ \A j \in 1 .. n : t[j] = a[j]
      /\ \A j \in 1 .. l : t[m + j] = b[j]
      /\ \A j \in 1 .. n : j \in Starts(I) <=> j \in Starts(A)
      /\ \A j \in 1 .. n : j \in Ends(I) <=> j \in Ends(A)
      /\ m \notin Starts(I) /\ m \notin Ends(I)
      /\ \A j \in 1 .. l : m + j \in Starts(I) <=> j \in Starts(B)
      /\ \A j \in 1 .. l : m + j \in Ends(I) <=> j \in Ends(B)
  BY <1>1 DEF CutAt
<1>3. n \in Nat /\ l \in Nat /\ m \in Nat
  OBVIOUS
<1>4. /\ Starts(I) \in SUBSET Positive /\ Ends(I) \in SUBSET Positive
      /\ Starts(A) \in SUBSET Positive /\ Ends(A) \in SUBSET Positive
      /\ Starts(B) \in SUBSET Positive /\ Ends(B) \in SUBSET Positive
      /\ P \in Seq(Seq(C)) /\ Q \in Seq(Seq(C)) /\ R \in Seq(Seq(C))
      /\ Len(P) = Rank(Starts(I), m + l)
      /\ Len(Q) = Rank(Starts(A), n) /\ Len(Q) = Rank(Ends(A), n)
      /\ Len(R) = Rank(Starts(B), l)
      /\ Len(P) \in Nat /\ Len(Q) \in Nat /\ Len(R) \in Nat
  <2>1. /\ Starts(I) \in SUBSET Positive /\ Ends(I) \in SUBSET Positive
        /\ P \in Seq(Seq(C)) /\ Len(P) = Rank(Starts(I), Len(t)) /\ Len(P) \in Nat
    BY <1>1, Positions, PiecesType
  <2>2. /\ Starts(A) \in SUBSET Positive /\ Ends(A) \in SUBSET Positive
        /\ Q \in Seq(Seq(C)) /\ Len(Q) = Rank(Starts(A), n) /\ Len(Q) = Rank(Ends(A), n)
        /\ Len(Q) \in Nat
    BY Positions, PiecesType
  <2>3. /\ Starts(B) \in SUBSET Positive /\ Ends(B) \in SUBSET Positive
        /\ R \in Seq(Seq(C)) /\ Len(R) = Rank(Starts(B), l) /\ Len(R) \in Nat
    BY Positions, PiecesType
  <2> HIDE DEF I, A, B, P, Q, R, n, l
  <2> QED
    BY <1>2, <2>1, <2>2, <2>3
<1>p. \A k \in 1 .. Len(P) : P[k] = SubSeq(t, Nth(Starts(I), k), Nth(Ends(I), k))
  BY <1>1, PieceBounds
<1>q. \A k \in 1 .. Len(Q) : /\ Nth(Starts(A), k) \in Starts(A) /\ Nth(Ends(A), k) \in Ends(A)
                             /\ Rank(Starts(A), Nth(Starts(A), k)) = k
                             /\ Rank(Ends(A), Nth(Ends(A), k)) = k
                             /\ Nth(Starts(A), k) \in 1 .. n /\ Nth(Ends(A), k) \in 1 .. n
                             /\ Q[k] = SubSeq(a, Nth(Starts(A), k), Nth(Ends(A), k))
  BY PieceBounds
<1>r. \A k \in 1 .. Len(R) : /\ Nth(Starts(B), k) \in Starts(B) /\ Nth(Ends(B), k) \in Ends(B)
                             /\ Rank(Starts(B), Nth(Starts(B), k)) = k
                             /\ Rank(Ends(B), Nth(Ends(B), k)) = k
                             /\ Nth(Starts(B), k) \in 1 .. l /\ Nth(Ends(B), k) \in 1 .. l
                             /\ R[k] = SubSeq(b, Nth(Starts(B), k), Nth(Ends(B), k))
  BY PieceBounds
<1> HIDE DEF I, A, B, P, Q, R, n, l
<1>s. /\ Starts(I) \in SUBSET Positive /\ Ends(I) \in SUBSET Positive
      /\ Starts(A) \in SUBSET Positive /\ Ends(A) \in SUBSET Positive
      /\ Starts(B) \in SUBSET Positive /\ Ends(B) \in SUBSET Positive
  BY <1>4
<1>5. /\ \A i \in 0 .. n : Rank(Starts(I), i) = Rank(Starts(A), i)
      /\ \A i \in 0 .. n : Rank(Ends(I), i) = Rank(Ends(A), i)
  <2>1. /\ \A j \in 1 .. n : j \in Starts(I) <=> j \in Starts(A)
        /\ \A j \in 1 .. n : j \in Ends(I) <=> j \in Ends(A)
    BY <1>2
  <2>2. \A i \in 0 .. n : Rank(Starts(I), i) = Rank(Starts(A), i)
    BY <1>3, <1>s, <2>1, RankAgree
  <2>3. \A i \in 0 .. n : Rank(Ends(I), i) = Rank(Ends(A), i)
    BY <1>3, <1>s, <2>1, RankAgree, ZenonT(60)
  <2> QED
    BY <2>2, <2>3
<1>6. Rank(Starts(I), m) = Len(Q) /\ Rank(Ends(I), m) = Len(Q)
  <2>1. /\ Rank(Starts(I), n + 1) = Rank(Starts(I), n)
        /\ Rank(Ends(I), n + 1) = Rank(Ends(I), n)
    <3>1. Rank(Starts(I), n) \in Nat /\ Rank(Ends(I), n) \in Nat
      BY <1>3, <1>s, UpToFinite
    <3>2. n + 1 \notin Starts(I) /\ n + 1 \notin Ends(I)
      BY <1>2
    <3>3. /\ Rank(Starts(I), n + 1) = Rank(Starts(I), n) + (IF n + 1 \in Starts(I) THEN 1 ELSE 0)
          /\ Rank(Ends(I), n + 1) = Rank(Ends(I), n) + (IF n + 1 \in Ends(I) THEN 1 ELSE 0)
      BY <1>3, <1>s, RankStep
    <3> QED
      BY <3>1, <3>2, <3>3
  <2>2. n \in 0 .. n
    BY <1>3
  <2> QED
    BY <1>4, <1>5, <2>1, <2>2
<1>7. /\ \A j \in 0 .. l : Rank(Starts(I), m + j) = Len(Q) + Rank(Starts(B), j)
      /\ \A j \in 0 .. l : Rank(Ends(I), m + j) = Len(Q) + Rank(Ends(B), j)
  <2>1. Shifted(Starts(I), Starts(B), m, l) /\ Shifted(Ends(I), Ends(B), m, l)
    BY <1>2 DEF Shifted
  <2> HIDE DEF m
  <2>2. RanksShifted(Starts(I), Starts(B), m, l) /\ RanksShifted(Ends(I), Ends(B), m, l)
    BY <1>3, <1>s, <2>1, RankShift
  <2> QED
    BY <1>6, <2>2 DEF RanksShifted
<1>8. Len(P) = Len(Q) + Len(R)
  <2>1. l \in 0 .. l
    BY <1>3
  <2> QED
    BY <1>4, <1>7, <2>1
<1>9. ASSUME NEW k \in 1 .. Len(Q) PROVE P[k] = Q[k]
  <2> DEFINE x == Nth(Starts(A), k)
             y == Nth(Ends(A), k)
  <2>1. x \in Starts(A) /\ y \in Ends(A) /\ Rank(Starts(A), x) = k /\ Rank(Ends(A), y) = k
        /\ x \in 1 .. n /\ y \in 1 .. n /\ Q[k] = SubSeq(a, x, y)
    BY <1>q
  <2> HIDE DEF x, y
  <2>2. x \in 0 .. n /\ y \in 0 .. n
    BY <1>3, <2>1
  <2>3. x \in Starts(I) /\ y \in Ends(I) /\ Rank(Starts(I), x) = k /\ Rank(Ends(I), y) = k
    BY <1>2, <1>5, <2>1, <2>2
  <2>4. Nth(Starts(I), k) = x /\ Nth(Ends(I), k) = y
    BY <1>4, <2>3, NthUnique
  <2>5. P[k] = SubSeq(t, x, y)
    BY <1>4, <1>8, <1>p, <2>4, SMTT(30)
  <2>6. SubSeq(t, x, y) = SubSeq(a, x, y)
    <3>1. t = a \o (<<d>> \o b) /\ <<d>> \o b \in Seq(C)
      BY DEF t
    <3> QED
      BY <2>1, <3>1, SubSeqOfConcat1 DEF n
  <2> QED
    BY <2>1, <2>5, <2>6
<1>10. ASSUME NEW k \in 1 .. Len(R) PROVE P[Len(Q) + k] = R[k]
  <2> DEFINE x == Nth(Starts(B), k)
             y == Nth(Ends(B), k)
  <2>1. x \in Starts(B) /\ y \in Ends(B) /\ Rank(Starts(B), x) = k /\ Rank(Ends(B), y) = k
        /\ x \in 1 .. l /\ y \in 1 .. l /\ R[k] = SubSeq(b, x, y)
    BY <1>r
  <2> HIDE DEF x, y
  <2>2. x \in 0 .. l /\ y \in 0 .. l
    BY <1>3, <2>1
  <2>3. /\ m + x \in Starts(I) /\ m + y \in Ends(I)
        /\ Rank(Starts(I), m + x) = Len(Q) + k /\ Rank(Ends(I), m + y) = Len(Q) + k
    BY <1>2, <1>7, <2>1, <2>2
  <2>4. Nth(Starts(I), Len(Q) + k) = m + x /\ Nth(Ends(I), Len(Q) + k) = m + y
    BY <1>4, <2>3, NthUnique
  <2>5. P[Len(Q) + k] = SubSeq(t, m + x, m + y)
    <3>1. Len(Q) + k \in 1 .. Len(P)
      BY <1>4, <1>8, SMTT(30)
    <3> QED
      BY <1>p, <2>4, <3>1
  <2>6. SubSeq(t, m + x, m + y) = SubSeq(b, x, y)
    <3>1. t = (a \o <<d>>) \o b /\ a \o <<d>> \in Seq(C) /\ Len(a \o <<d>>) = m
      BY DEF t, n
    <3>2. m + x \in m + 1 .. m + l /\ m + y \in m + 1 .. m + l /\ (m + x) - m = x /\ (m + y) - m = y
      BY <1>3, <2>1
    <3> DEFINE u == a \o <<d>>
    <3>3. u \in Seq(C) /\ Len(u) = m /\ t = u \o b
      BY <3>1
    <3> DEFINE e == m + x
               f == m + y
    <3>4. e \in Len(u) + 1 .. Len(u) + Len(b) /\ f \in Len(u) + 1 .. Len(u) + Len(b)
          /\ e - Len(u) = x /\ f - Len(u) = y
      BY <3>2, <3>3 DEF l
    <3> HIDE DEF u, e, f
    <3>5. SubSeq(u \o b, e, f) = SubSeq(b, e - Len(u), f - Len(u))
      BY <3>3, <3>4, SubSeqOfConcat2
    <3> QED
      BY <3>3, <3>4, <3>5 DEF e, f
  <2> QED
    BY <2>1, <2>5, <2>6
<1>11. Q \o R \in Seq(Seq(C)) /\ Len(Q \o R) = Len(Q) + Len(R)
       /\ \A i \in 1 .. Len(Q) + Len(R) : (Q \o R)[i] = IF i <= Len(Q) THEN Q[i] ELSE R[i - Len(Q)]
  BY <1>4, ConcatProperties
<1>12. ASSUME NEW i \in 1 .. Len(P) PROVE P[i] = (Q \o R)[i]
  <2>1. CASE i <= Len(Q)
    <3>1. i \in 1 .. Len(Q)
      BY <1>4, <2>1
    <3> QED
      BY <1>8, <1>9, <1>11, <2>1, <3>1
  <2>2. CASE ~ (i <= Len(Q))
    <3>1. i - Len(Q) \in 1 .. Len(R) /\ Len(Q) + (i - Len(Q)) = i
      BY <1>4, <1>8, <2>2
    <3> QED
      BY <1>8, <1>10, <1>11, <2>2, <3>1
  <2> QED
    BY <2>1, <2>2
<1>13. P = Q \o R
  BY <1>4, <1>8, <1>11, <1>12, SeqEqual
<1> QED
  BY <1>13 DEF P, Q, R, t

\* A text without the delimiter is one piece, an empty one none.
LEMMA OnePiece ==
  ASSUME NEW C, NEW d, NEW p \in Seq(C), \A i \in 1 .. Len(p) : p[i] # d
  PROVE  Pieces(p, d) = IF p = <<>> THEN <<>> ELSE <<p>>
<1> DEFINE n == Len(p)
           I == Inside(p, d)
<1>1. n \in Nat /\ I = 1 .. n /\ DOMAIN p = 1 .. n
  BY DEF Inside
<1>2. Pieces(p, d) \in Seq(Seq(C)) /\ Len(Pieces(p, d)) = Cardinality(Starts(I))
  BY PiecesType
<1>3. CASE p = <<>>
  <2>1. Starts(I) = {}
    BY <1>1, <1>3 DEF Starts
  <2>2. Len(Pieces(p, d)) = 0
    BY <1>2, <2>1, FS_EmptySet
  <2> HIDE DEF I, n
  <2> QED
    BY <1>2, <1>3, <2>2, EmptySeq
<1>4. CASE p # <<>>
  <2>1. n > 0
    BY <1>4, EmptySeq
  <2>2. Starts(I) = {1} /\ Ends(I) = {n}
    BY <1>1, <2>1 DEF Starts, Ends
  <2>3. Cardinality({1}) = 1
    BY FS_Singleton
  <2>4. Pieces(p, d) = [k \in 1 .. 1 |-> SubSeq(p, Nth({1}, k), Nth({n}, k))]
    BY <2>2, <2>3 DEF Pieces
  <2>5. Nth({1}, 1) = 1 /\ Nth({n}, 1) = n
    <3>1. {j \in {1} : j <= 1} = {1} /\ {j \in {n} : j <= n} = {n}
      BY <1>1
    <3>2. Cardinality({n}) = 1
      BY FS_Singleton
    <3>3. Rank({1}, 1) = 1 /\ Rank({n}, n) = 1
      BY <2>3, <3>1, <3>2 DEF Rank, UpTo
    <3>4. {1} \in SUBSET Positive /\ {n} \in SUBSET Positive
      BY <1>1, <2>1 DEF Positive
    <3>5. Nth({1}, Rank({1}, 1)) = 1 /\ Nth({n}, Rank({n}, n)) = n
      BY <3>4, NthUnique
    <3> QED
      BY <3>3, <3>5
  <2>6. SubSeq(p, 1, n) = p
    BY SubSeqFull
  <2> HIDE DEF n, I
  <2>7. Pieces(p, d)[1] = p /\ Len(Pieces(p, d)) = 1
    BY <2>4, <2>5, <2>6
  <2> QED
    BY <1>2, <1>4, <2>7
<1> QED
  BY <1>3, <1>4

-------------------------------------------------------------------------------
(* Splitting and joining again. *)

Before(v, i) == SubSeq(v, 1, i - 1)
After(v, i) == SubSeq(v, i + 1, Len(v))

\* A text is what stands before a character, the character, and what stands after it.
LEMMA CutOut ==
  ASSUME NEW C, NEW v \in Seq(C), NEW i \in 1 .. Len(v)
  PROVE  /\ Before(v, i) \in Seq(C) /\ Len(Before(v, i)) = i - 1
         /\ \A j \in 1 .. i - 1 : Before(v, i)[j] = v[j]
         /\ After(v, i) \in Seq(C) /\ Len(After(v, i)) = Len(v) - i
         /\ \A j \in 1 .. Len(v) - i : After(v, i)[j] = v[i + j]
         /\ v = Before(v, i) \o <<v[i]>> \o After(v, i)
<1> DEFINE n == Len(v)
<1>1. n \in Nat /\ i \in Nat /\ i >= 1 /\ i <= n /\ \A j \in 1 .. n : v[j] \in C
  OBVIOUS
<1>2. /\ SubSeq(v, 1, i - 1) \in Seq(C) /\ Len(SubSeq(v, 1, i - 1)) = i - 1
      /\ \A j \in 1 .. i - 1 : SubSeq(v, 1, i - 1)[j] = v[j]
  <2>1. 1 \in Int /\ i - 1 \in Int /\ (\A j \in 1 .. i - 1 : v[j] \in C) /\ (i - 1) - 1 + 1 = i - 1
    BY <1>1
  <2>2. \A j \in 1 .. i - 1 : 1 + j - 1 = j
    BY <1>1
  <2> QED
    BY <1>1, <2>1, <2>2, SubSeqProperties
<1>3. /\ SubSeq(v, i + 1, n) \in Seq(C) /\ Len(SubSeq(v, i + 1, n)) = n - i
      /\ \A j \in 1 .. n - i : SubSeq(v, i + 1, n)[j] = v[i + j]
  <2>1. i + 1 \in Int /\ n \in Int /\ (\A j \in i + 1 .. n : v[j] \in C) /\ n - (i + 1) + 1 = n - i
    BY <1>1
  <2>2. \A j \in 1 .. n - i : (i + 1) + j - 1 = i + j
    BY <1>1
  <2> HIDE DEF n
  <2> QED
    BY <1>1, <2>1, <2>2, SubSeqProperties
<1> DEFINE p == SubSeq(v, 1, i - 1)
           w == SubSeq(v, i + 1, n)
           u == p \o <<v[i]>>
<1>4. u \in Seq(C) /\ Len(u) = i /\ u[i] = v[i] /\ \A j \in 1 .. i - 1 : u[j] = v[j]
  <2> HIDE DEF p
  <2>1. p \in Seq(C) /\ Len(p) = i - 1 /\ \A j \in 1 .. i - 1 : p[j] = v[j]
    BY <1>2 DEF p
  <2>2. <<v[i]>> \in Seq(C) /\ Len(<<v[i]>>) = 1 /\ <<v[i]>>[1] = v[i]
    BY <1>1
  <2> QED
    BY <1>1, <2>1, <2>2, ConcatProperties
<1>5. u \o w = v
  <2>1. w \in Seq(C) /\ Len(w) = n - i /\ \A j \in 1 .. n - i : w[j] = v[i + j]
    BY <1>3
  <2> HIDE DEF u, w, n
  <2>2. /\ u \o w \in Seq(C) /\ Len(u \o w) = n
        /\ \A j \in 1 .. n : (u \o w)[j] = IF j <= i THEN u[j] ELSE w[j - i]
    BY <1>1, <1>4, <2>1, ConcatProperties
  <2>3. ASSUME NEW j \in 1 .. n PROVE (u \o w)[j] = v[j]
    <3>1. CASE j <= i
      BY <1>1, <1>4, <2>2, <3>1
    <3>2. CASE ~ (j <= i)
      <4>1. j - i \in 1 .. n - i /\ i + (j - i) = j
        BY <1>1, <3>2
      <4> QED
        BY <2>1, <2>2, <3>2, <4>1
    <3> QED
      BY <3>1, <3>2
  <2> QED
    BY <2>2, <2>3, SeqEqual DEF n
<1> QED
  BY <1>2, <1>3, <1>5 DEF Before, After

\* A text with a delimiter begins with a part without it and goes on behind it.
LEMMA FirstCut ==
  ASSUME NEW C, NEW v \in Seq(C), NEW d, \E i \in 1 .. Len(v) : v[i] = d
  PROVE  \E i \in 1 .. Len(v) : v[i] = d /\ \A j \in 1 .. i - 1 : v[j] # d
<1> DEFINE S == {i \in 1 .. Len(v) : v[i] = d}
<1>1. S \in SUBSET Nat /\ S # {}
  OBVIOUS
<1>2. PICK i \in S : \A j \in S : i <= j
  <2> HIDE DEF S
  <2> QED
    BY <1>1, LeastNumber
<1>3. \A j \in 1 .. i - 1 : j \in 1 .. Len(v) /\ ~ (i <= j)
  OBVIOUS
<1> QED
  BY <1>2, <1>3

\* Joining begins with the first of the texts.
LEMMA FlattenFirst ==
  ASSUME NEW C, NEW p \in Seq(C), NEW Q \in Seq(Seq(C))
  PROVE  FlattenSeq(<<p>> \o Q) = p \o FlattenSeq(Q)
<1> DEFINE s == <<p>> \o Q
           n == Len(Q)
<1>1. /\ s \in Seq(Seq(C)) /\ Len(s) = n + 1 /\ n \in Nat /\ s[1] = p
      /\ \A i \in 1 .. n : s[i + 1] = Q[i] /\ Q[i] \in Seq(C)
      /\ n # 0 => s[2] = Q[1]
  OBVIOUS
<1> HIDE DEF s
<1>2. PICK f : Joins(s, f, C)
  BY <1>1, FlattenIs
<1>3. /\ FlattenSeq(s) = f[n + 1] /\ f[1] = p
      /\ \A i \in 2 .. n + 1 : f[i] = f[i - 1] \o s[i]
  BY <1>1, <1>2 DEF Joins
<1>4. CASE n = 0
  <2>1. Q = <<>> /\ FlattenSeq(Q) = <<>>
    BY <1>4, EmptySeq, FlattenIs
  <2> QED
    BY <1>3, <1>4, <2>1, ConcatEmptySeq DEF s
<1>5. CASE n # 0
  <2>1. PICK g : Joins(Q, g, C)
    BY <1>5, FlattenIs
  <2>2. /\ FlattenSeq(Q) = g[n] /\ g[1] = Q[1]
        /\ \A i \in 2 .. n : g[i] = g[i - 1] \o Q[i]
        /\ \A i \in 1 .. n : g[i] \in Seq(C)
    BY <2>1 DEF Joins
  <2> HIDE DEF n
  <2> DEFINE N == {i \in Nat : i + 1 <= n => f[i + 2] = p \o g[i + 1]}
  <2>3. 0 \in N
    <3>1. 2 \in 2 .. n + 1 /\ 1 \in 1 .. n
      BY <1>1, <1>5
    <3>2. f[2] = f[1] \o s[2]
      <4>1. \A i \in 2 .. n + 1, h \in Nat : h = i - 1 => f[i] = f[h] \o s[i]
        BY <1>3
      <4>2. 1 = 2 - 1
        OBVIOUS
      <4> QED
        BY <3>1, <4>1, <4>2
    <3>3. f[2] = p \o g[1]
      BY <1>1, <1>3, <1>5, <2>2, <3>2
    <3>4. 0 + 2 = 2 /\ 0 + 1 = 1
      OBVIOUS
    <3> QED
      BY <3>3, <3>4
  <2>4. ASSUME NEW i \in N PROVE i + 1 \in N
    <3> SUFFICES ASSUME (i + 1) + 1 <= n PROVE f[(i + 1) + 2] = p \o g[(i + 1) + 1]
      OBVIOUS
    <3>1. i \in Nat /\ i + 1 \in 1 .. n /\ i + 2 \in 2 .. n /\ i + 2 \in 1 .. n /\ i + 3 \in 2 .. n + 1
          /\ (i + 1) + 2 = i + 3 /\ (i + 1) + 1 = i + 2 /\ (i + 3) - 1 = i + 2
          /\ (i + 2) - 1 = i + 1 /\ (i + 2) + 1 = i + 3
      BY <1>1
    <3>2. f[i + 3] = f[i + 2] \o s[i + 3] /\ s[i + 3] = Q[i + 2]
      BY <1>1, <1>3, <3>1
    <3>3. f[i + 2] = p \o g[i + 1]
      BY <3>1
    <3>4. g[i + 2] = g[i + 1] \o Q[i + 2]
      BY <2>2, <3>1
    <3>5. g[i + 1] \in Seq(C) /\ Q[i + 2] \in Seq(C)
      BY <1>1, <2>2, <3>1
    <3>6. p \o (g[i + 1] \o Q[i + 2]) = (p \o g[i + 1]) \o Q[i + 2]
      <4>1. \A x, y \in Seq(C) : (p \o x) \o y = p \o (x \o y)
        BY ConcatAssociative, SMTT(30)
      <4> QED
        BY <3>5, <4>1
    <3> QED
      BY <3>1, <3>2, <3>3, <3>4, <3>6
  <2>5. N = Nat
    <3> HIDE DEF N
    <3> QED
      BY <2>3, <2>4, AllNumbers DEF N
  <2>6. n - 1 \in Nat /\ (n - 1) + 1 = n /\ (n - 1) + 2 = n + 1 /\ n <= n
    BY <1>1, <1>5
  <2>7. \A i \in Nat : i + 1 <= n => f[i + 2] = p \o g[i + 1]
    BY <2>5
  <2>8. f[n + 1] = p \o g[n]
    BY <2>6, <2>7
  <2> QED
    BY <1>3, <2>2, <2>8 DEF s
<1> QED
  BY <1>4, <1>5

\* A text that strtok leaves alone: no delimiter at its ends or behind another one.
Kept(v, d) == \A i \in DOMAIN v : v[i] = d => i > 1 /\ i < Len(v) /\ v[i + 1] # d

LEMMA KeptCut ==
  ASSUME NEW C, NEW d, NEW v \in Seq(C), Kept(v, d), \E i \in 1 .. Len(v) : v[i] = d
  PROVE  \E i \in 1 .. Len(v) :
           /\ v = Before(v, i) \o <<d>> \o After(v, i)
           /\ Before(v, i) \in Seq(C) /\ Before(v, i) # <<>>
           /\ \A j \in 1 .. Len(Before(v, i)) : Before(v, i)[j] # d
           /\ After(v, i) \in Seq(C) /\ After(v, i) # <<>> /\ Len(After(v, i)) < Len(v)
           /\ Kept(After(v, i), d)
<1>1. PICK i \in 1 .. Len(v) : v[i] = d /\ \A j \in 1 .. i - 1 : v[j] # d
  BY FirstCut
<1> DEFINE p == Before(v, i)
           w == After(v, i)
<1>2. /\ p \in Seq(C) /\ Len(p) = i - 1
      /\ \A j \in 1 .. i - 1 : p[j] = v[j]
      /\ w \in Seq(C) /\ Len(w) = Len(v) - i
      /\ \A j \in 1 .. Len(v) - i : w[j] = v[i + j]
      /\ v = p \o <<d>> \o w
  <2>1. v[i] = d
    BY <1>1
  <2>2. /\ p \in Seq(C) /\ Len(p) = i - 1
        /\ \A j \in 1 .. i - 1 : p[j] = v[j]
        /\ w \in Seq(C) /\ Len(w) = Len(v) - i
        /\ \A j \in 1 .. Len(v) - i : w[j] = v[i + j]
        /\ v = p \o <<v[i]>> \o w
    BY CutOut
  <2> HIDE DEF p, w
  <2> QED
    BY <2>1, <2>2
<1>3. Len(v) \in Nat /\ i \in DOMAIN v /\ DOMAIN v = 1 .. Len(v)
  OBVIOUS
<1>4. i > 1 /\ i < Len(v) /\ v[i + 1] # d
  BY <1>1, <1>3 DEF Kept
<1> HIDE DEF p, w
<1>5. p # <<>> /\ w # <<>>
  BY <1>2, <1>3, <1>4, EmptySeq
<1>6. Kept(w, d)
  <2> SUFFICES ASSUME NEW j \in 1 .. Len(w), w[j] = d
               PROVE  j > 1 /\ j < Len(w) /\ w[j + 1] # d
    BY <1>2 DEF Kept
  <2>1. /\ i + j \in DOMAIN v /\ j \in Nat /\ j \in 1 .. Len(v) - i
        /\ (i + j) + 1 = i + (j + 1) /\ j >= 1
    BY <1>2, <1>3, SMTT(30)
  <2>2. v[i + j] = d
    BY <1>2, <2>1
  <2>3. i + j < Len(v) /\ v[(i + j) + 1] # d
    BY <2>1, <2>2 DEF Kept
  <2>4. j + 1 \in 1 .. Len(v) - i
    BY <1>3, <2>1, <2>3
  <2>5. w[j + 1] # d
    BY <1>2, <2>1, <2>3, <2>4
  <2>6. j # 1
    BY <1>4, <2>2
  <2> QED
    BY <1>2, <1>3, <2>1, <2>3, <2>5, <2>6, SMTT(30)
<1>7. Len(w) < Len(v)
  BY <1>2, <1>3
<1> QED
  BY <1>1, <1>2, <1>5, <1>6, <1>7 DEF p, w

\* Each piece with the delimiter before it.
Prefixed(Q, d) == [k \in DOMAIN Q |-> <<d>> \o Q[k]]

LEMMA PrefixedType ==
  ASSUME NEW C, NEW d \in C, NEW Q \in Seq(Seq(C))
  PROVE  Prefixed(Q, d) \in Seq(Seq(C)) /\ Len(Prefixed(Q, d)) = Len(Q)
<1>1. DOMAIN Q = 1 .. Len(Q) /\ Len(Q) \in Nat
  OBVIOUS
<1>2. \A k \in 1 .. Len(Q) : <<d>> \o Q[k] \in Seq(C)
  OBVIOUS
<1> QED
  BY <1>1, <1>2 DEF Prefixed

LEMMA RejoinedFirst ==
  ASSUME NEW C, NEW d \in C, NEW p \in Seq(C), NEW Q \in Seq(Seq(C))
  PROVE  /\ Rejoined(<<p>> \o Q, d) = p \o FlattenSeq(Prefixed(Q, d))
         /\ Prefixed(<<p>> \o Q, d) = <<<<d>> \o p>> \o Prefixed(Q, d)
<1> DEFINE s == <<p>> \o Q
           n == Len(Q)
           D == Prefixed(Q, d)
           e == <<d>> \o p
           F == [k \in DOMAIN s |-> IF k = 1 THEN s[k] ELSE <<d>> \o s[k]]
<1>1. /\ s \in Seq(Seq(C)) /\ Len(s) = n + 1 /\ n \in Nat /\ s[1] = p
      /\ \A i \in 2 .. n + 1 : s[i] = Q[i - 1] /\ Q[i - 1] \in Seq(C)
      /\ DOMAIN s = 1 .. n + 1
  OBVIOUS
<1>2. D \in Seq(Seq(C)) /\ Len(D) = n /\ \A i \in 1 .. n : D[i] = <<d>> \o Q[i]
  <2>1. \A i \in 1 .. n : D[i] = <<d>> \o Q[i]
    BY DEF Prefixed
  <2> HIDE DEF D, n
  <2> QED
    BY <2>1, PrefixedType DEF D, n
<1>3. e \in Seq(C)
  OBVIOUS
<1> HIDE DEF s, n, D, e
<1>4. /\ <<p>> \o D \in Seq(Seq(C)) /\ Len(<<p>> \o D) = n + 1 /\ (<<p>> \o D)[1] = p
      /\ \A i \in 2 .. n + 1 : (<<p>> \o D)[i] = D[i - 1]
  BY <1>1, <1>2
<1>5. /\ <<e>> \o D \in Seq(Seq(C)) /\ Len(<<e>> \o D) = n + 1 /\ (<<e>> \o D)[1] = e
      /\ \A i \in 2 .. n + 1 : (<<e>> \o D)[i] = D[i - 1]
  BY <1>1, <1>2, <1>3
<1>6. ASSUME NEW i \in 2 .. n + 1 PROVE <<d>> \o s[i] = D[i - 1]
  <2>1. i - 1 \in 1 .. n
    BY <1>1
  <2> QED
    BY <1>1, <1>2, <2>1
<1>7. F = <<p>> \o D
  <2>1. F \in Seq(Seq(C)) /\ Len(F) = n + 1
    <3>1. ASSUME NEW k \in 1 .. n + 1 PROVE (IF k = 1 THEN s[k] ELSE <<d>> \o s[k]) \in Seq(C)
      <4>1. s[k] \in Seq(C)
        BY <1>1
      <4> QED
        BY <4>1
    <3> QED
      BY <1>1, <3>1
  <2>2. \A k \in 1 .. n + 1 : F[k] = IF k = 1 THEN s[k] ELSE <<d>> \o s[k]
    BY <1>1
  <2> HIDE DEF F
  <2>3. ASSUME NEW k \in 1 .. n + 1 PROVE F[k] = (<<p>> \o D)[k]
    <3>1. k = 1 \/ k \in 2 .. n + 1
      BY <1>1
    <3> QED
      BY <1>1, <1>4, <1>6, <2>2, <3>1
  <2> QED
    BY <1>4, <2>1, <2>3, SeqEqual, SMTT(30)
<1>8. Prefixed(s, d) = <<e>> \o D
  <2>1. Prefixed(s, d) \in Seq(Seq(C)) /\ Len(Prefixed(s, d)) = n + 1
    BY <1>1, PrefixedType
  <2>2. ASSUME NEW k \in 1 .. n + 1 PROVE Prefixed(s, d)[k] = (<<e>> \o D)[k]
    <3>1. Prefixed(s, d)[k] = <<d>> \o s[k]
      BY <1>1 DEF Prefixed
    <3>2. CASE k = 1
      BY <1>1, <1>5, <3>1, <3>2 DEF e
    <3>3. CASE k # 1
      <4>1. k \in 2 .. n + 1
        BY <1>1, <3>3
      <4> QED
        BY <1>5, <1>6, <3>1, <4>1
    <3> QED
      BY <3>2, <3>3
  <2> QED
    BY <1>5, <2>1, <2>2, SeqEqual
<1>9. Rejoined(s, d) = FlattenSeq(F)
  BY DEF Rejoined
<1>10. FlattenSeq(<<p>> \o D) = p \o FlattenSeq(D)
  BY <1>2, FlattenFirst
<1> HIDE DEF F
<1> QED
  BY <1>7, <1>8, <1>9, <1>10 DEF s, D, e

LEMMA PrefixedPieces ==
  ASSUME NEW C, NEW d \in C, NEW v \in Seq(C), v # <<>>, Kept(v, d)
  PROVE  FlattenSeq(Prefixed(Pieces(v, d), d)) = <<d>> \o v
<1> DEFINE Same(x) == FlattenSeq(Prefixed(Pieces(x, d), d)) = <<d>> \o x
           N == {n \in Nat : \A x \in Seq(C) : Len(x) <= n /\ x # <<>> /\ Kept(x, d) => Same(x)}
<1>1. /\ \A x \in Seq(C) : <<d>> \o x \in Seq(C) /\ Len(x) \in Nat
      /\ Prefixed(<<>>, d) = <<>> /\ <<>> \in Seq(Seq(C)) /\ FlattenSeq(<<>>) = <<>>
  <2>1. <<>> \in Seq(Seq(C)) /\ Len(<<>>) = 0
    OBVIOUS
  <2>2. FlattenSeq(<<>>) = <<>>
    BY <2>1, FlattenIs
  <2>3. Prefixed(<<>>, d) = <<>>
    BY <2>1, PrefixedType, EmptySeq
  <2> QED
    BY <2>1, <2>2, <2>3
<1>2. 0 \in N
  <2>1. \A x \in Seq(C) : Len(x) <= 0 => x = <<>>
    OBVIOUS
  <2> QED
    BY <2>1
<1>3. ASSUME NEW n \in N PROVE n + 1 \in N
  <2> SUFFICES ASSUME NEW x \in Seq(C), Len(x) <= n + 1, x # <<>>, Kept(x, d)
               PROVE  Same(x)
    BY DEF N
  <2>1. CASE \A i \in 1 .. Len(x) : x[i] # d
    <3>1. Pieces(x, d) = <<x>>
      BY <2>1, OnePiece
    <3>2. <<x>> = <<x>> \o <<>>
      OBVIOUS
    <3> DEFINE y == <<d>> \o x
    <3>3. Prefixed(<<x>> \o <<>>, d) = <<y>> \o Prefixed(<<>>, d)
      <4>1. <<>> \in Seq(Seq(C))
        BY <1>1
      <4> QED
        BY <4>1, RejoinedFirst
    <3>4. y \in Seq(C)
      BY <1>1
    <3> HIDE DEF y
    <3>5. FlattenSeq(<<y>> \o <<>>) = y \o FlattenSeq(<<>>)
      <4>1. <<>> \in Seq(Seq(C))
        BY <1>1
      <4> QED
        BY <3>4, <4>1, FlattenFirst
    <3>6. y \o <<>> = y
      BY <3>4, ConcatEmptySeq
    <3>7. FlattenSeq(Prefixed(Pieces(x, d), d)) = y
      BY <1>1, <3>1, <3>2, <3>3, <3>5, <3>6
    <3> QED
      BY <3>7 DEF y
  <2>2. CASE \E i \in 1 .. Len(x) : x[i] = d
    <3>1. PICK i \in 1 .. Len(x) :
             /\ x = Before(x, i) \o <<d>> \o After(x, i)
             /\ Before(x, i) \in Seq(C) /\ Before(x, i) # <<>>
             /\ \A j \in 1 .. Len(Before(x, i)) : Before(x, i)[j] # d
             /\ After(x, i) \in Seq(C) /\ After(x, i) # <<>> /\ Len(After(x, i)) < Len(x)
             /\ Kept(After(x, i), d)
      BY <2>2, KeptCut
    <3> DEFINE p == Before(x, i)
               w == After(x, i)
               R == Pieces(w, d)
    <3>2. /\ x = p \o <<d>> \o w
          /\ p \in Seq(C) /\ p # <<>>
          /\ \A j \in 1 .. Len(p) : p[j] # d
          /\ w \in Seq(C) /\ w # <<>> /\ Len(w) < Len(x)
          /\ Kept(w, d)
      BY <3>1
    <3> HIDE DEF p, w
    <3>3. Same(w)
      <4>1. Len(w) <= n /\ n \in Nat
        BY <1>1, <3>2
      <4> QED
        BY <3>2, <4>1 DEF N
    <3>4. R \in Seq(Seq(C))
      BY <3>2, PiecesType
    <3>5. Pieces(x, d) = <<p>> \o R
      <4>1. Pieces(p \o <<d>> \o w, d) = Pieces(p, d) \o Pieces(w, d)
        BY <3>2, CutPieces
      <4>2. Pieces(p, d) = <<p>>
        BY <3>2, OnePiece
      <4> QED
        BY <3>2, <4>1, <4>2
    <3> HIDE DEF R
    <3>6. Prefixed(<<p>> \o R, d) = <<<<d>> \o p>> \o Prefixed(R, d)
      BY <3>2, <3>4, RejoinedFirst, ZenonT(60)
    <3>7. FlattenSeq(<<<<d>> \o p>> \o Prefixed(R, d)) = (<<d>> \o p) \o FlattenSeq(Prefixed(R, d))
      <4> DEFINE y == <<d>> \o p
                 D == Prefixed(R, d)
      <4>1. y \in Seq(C) /\ D \in Seq(Seq(C))
        BY <1>1, <3>2, <3>4, PrefixedType
      <4> HIDE DEF y, D
      <4>2. FlattenSeq(<<y>> \o D) = y \o FlattenSeq(D)
        BY <4>1, FlattenFirst
      <4> QED
        BY <4>2 DEF y, D
    <3>8. (<<d>> \o p) \o (<<d>> \o w) = <<d>> \o (p \o <<d>> \o w)
      <4>1. <<d>> \in Seq(C) /\ <<d>> \o w \in Seq(C)
        BY <1>1, <3>2
      <4>2. \A r, q, s \in Seq(C) : r \o (q \o s) = (r \o q) \o s
        BY ONLY Assoc, SMTT(30)
      <4> DEFINE y == <<d>> \o w
                 e == <<d>>
      <4>3. y \in Seq(C) /\ e \in Seq(C) /\ y = e \o w
        BY <4>1
      <4> HIDE DEF y, e
      <4>p. p \in Seq(C) /\ w \in Seq(C)
        BY <3>2
      <4>q. e \o (p \o y) = (e \o p) \o y
        BY ONLY <4>2, <4>3, <4>p, ZenonT(60)
      <4>r. p \o (e \o w) = (p \o e) \o w
        BY ONLY <4>2, <4>3, <4>p, SMTT(30)
      <4>4. e \o (p \o y) = (e \o p) \o y /\ p \o (e \o w) = (p \o e) \o w
        BY <4>q, <4>r
      <4>5. (e \o p) \o y = e \o ((p \o e) \o w)
        BY <4>3, <4>4
      <4> QED
        BY <4>5 DEF y, e
    <3>9. FlattenSeq(Prefixed(R, d)) = <<d>> \o w
      BY <3>3 DEF R
    <3> QED
      BY <3>2, <3>5, <3>6, <3>7, <3>8, <3>9
  <2> QED
    BY <2>1, <2>2
<1>4. N = Nat
  <2> HIDE DEF N
  <2> QED
    BY <1>2, <1>3, AllNumbers DEF N
<1>5. Len(v) \in Nat
  OBVIOUS
<1> HIDE DEF Same
<1>6. Same(v)
  BY <1>4, <1>5
<1> QED
  BY <1>6 DEF Same

\* Splitting such a text and joining its pieces gives the text.
LEMMA RejoinedPieces ==
  ASSUME NEW C, NEW d \in C, NEW v \in Seq(C), Kept(v, d)
  PROVE  Rejoined(Pieces(v, d), d) = v
<1>1. <<>> \in Seq(Seq(C)) /\ Prefixed(<<>>, d) = <<>> /\ FlattenSeq(<<>>) = <<>>
      /\ Rejoined(<<>>, d) = <<>>
  <2>1. <<>> \in Seq(Seq(C)) /\ Len(<<>>) = 0
    OBVIOUS
  <2>2. FlattenSeq(<<>>) = <<>>
    BY <2>1, FlattenIs
  <2>3. Prefixed(<<>>, d) = <<>>
    BY <2>1, PrefixedType, EmptySeq
  <2>4. [k \in DOMAIN <<>> |-> IF k = 1 THEN <<>>[k] ELSE <<d>> \o <<>>[k]] = <<>>
    OBVIOUS
  <2> QED
    BY <2>1, <2>2, <2>3, <2>4 DEF Rejoined
<1>2. CASE v = <<>>
  <2>1. Pieces(<<>>, d) = <<>>
    <3>1. <<>> \in Seq(C) /\ \A i \in 1 .. Len(<<>>) : <<>>[i] # d
      OBVIOUS
    <3> QED
      BY <3>1, OnePiece
  <2> QED
    BY <1>1, <1>2, <2>1
<1>3. CASE v # <<>> /\ \A i \in 1 .. Len(v) : v[i] # d
  <2>1. Pieces(v, d) = <<v>>
    BY <1>3, OnePiece
  <2>2. <<v>> = <<v>> \o <<>>
    OBVIOUS
  <2>3. Rejoined(<<v>> \o <<>>, d) = v \o FlattenSeq(Prefixed(<<>>, d))
    BY <1>1, RejoinedFirst
  <2> QED
    BY <1>1, <2>1, <2>2, <2>3, ConcatEmptySeq
<1>4. CASE \E i \in 1 .. Len(v) : v[i] = d
  <2>1. PICK i \in 1 .. Len(v) :
           /\ v = Before(v, i) \o <<d>> \o After(v, i)
           /\ Before(v, i) \in Seq(C) /\ Before(v, i) # <<>>
           /\ \A j \in 1 .. Len(Before(v, i)) : Before(v, i)[j] # d
           /\ After(v, i) \in Seq(C) /\ After(v, i) # <<>> /\ Len(After(v, i)) < Len(v)
           /\ Kept(After(v, i), d)
    BY <1>4, KeptCut
  <2> DEFINE p == Before(v, i)
             w == After(v, i)
  <2>2. /\ v = p \o <<d>> \o w
        /\ p \in Seq(C) /\ p # <<>> /\ \A j \in 1 .. Len(p) : p[j] # d
        /\ w \in Seq(C) /\ w # <<>> /\ Kept(w, d)
    BY <2>1
  <2> HIDE DEF p, w
  <2>3. Pieces(v, d) = <<p>> \o Pieces(w, d)
    <3>1. Pieces(p \o <<d>> \o w, d) = Pieces(p, d) \o Pieces(w, d)
      BY <2>2, CutPieces
    <3>2. Pieces(p, d) = <<p>>
      BY <2>2, OnePiece
    <3> QED
      BY <2>2, <3>1, <3>2
  <2>4. Pieces(w, d) \in Seq(Seq(C))
    BY <2>2, PiecesType
  <2>5. Rejoined(<<p>> \o Pieces(w, d), d) = p \o FlattenSeq(Prefixed(Pieces(w, d), d))
    BY <2>2, <2>4, RejoinedFirst
  <2>6. FlattenSeq(Prefixed(Pieces(w, d), d)) = <<d>> \o w
    BY <2>2, PrefixedPieces
  <2>7. (p \o <<d>>) \o w = p \o (<<d>> \o w)
    <3>1. <<d>> \in Seq(C)
      OBVIOUS
    <3> QED
      BY <2>2, <3>1, ConcatAssociative
  <2> QED
    BY <2>2, <2>3, <2>5, <2>6, <2>7
<1> QED
  BY <1>2, <1>3, <1>4

-------------------------------------------------------------------------------
(* The lines of a request. *)

\* The part of a text is the same in a longer one.
LEMMA SamePart ==
  ASSUME NEW C, NEW s \in Seq(C), NEW x \in Seq(C), NEW a \in Nat, NEW b \in Int,
         a >= 1, b <= Len(s)
  PROVE  SubSeq(s \o x, a, b) = SubSeq(s, a, b) /\ SubSeq(s, a, b) \in Seq(C)
<1> DEFINE u == s \o x
<1>1. Len(s) \in Nat /\ Len(x) \in Nat /\ u \in Seq(C) /\ Len(u) = Len(s) + Len(x)
      /\ \A j \in 1 .. Len(s) : u[j] = s[j] /\ s[j] \in C
  OBVIOUS
<1> HIDE DEF u
<1>2. \A j \in a .. b : s[j] \in C /\ u[j] \in C /\ u[j] = s[j]
  <2>1. \A j \in a .. b : j \in 1 .. Len(s)
    BY <1>1
  <2> QED
    BY <1>1, <2>1
<1>3. /\ SubSeq(s, a, b) \in Seq(C) /\ Len(SubSeq(s, a, b)) = IF a <= b THEN b - a + 1 ELSE 0
      /\ \A j \in 1 .. b - a + 1 : SubSeq(s, a, b)[j] = s[a + j - 1]
  BY <1>2, SubSeqProperties
<1>4. /\ SubSeq(u, a, b) \in Seq(C) /\ Len(SubSeq(u, a, b)) = IF a <= b THEN b - a + 1 ELSE 0
      /\ \A j \in 1 .. b - a + 1 : SubSeq(u, a, b)[j] = u[a + j - 1]
  BY <1>2, SubSeqProperties
<1>5. ASSUME NEW j \in 1 .. Len(SubSeq(u, a, b))
      PROVE  SubSeq(u, a, b)[j] = SubSeq(s, a, b)[j]
  <2>1. j \in 1 .. b - a + 1 /\ a + j - 1 \in a .. b
    BY <1>4
  <2> QED
    BY <1>2, <1>3, <1>4, <2>1
<1> QED
  BY <1>3, <1>4, <1>5, SeqEqual DEF u

\* An element of a set is in the run from the last start to the end with its number.
LEMMA InItsRun ==
  ASSUME NEW n \in Nat, NEW S \in SUBSET (1 .. n)
  PROVE  /\ Cardinality(Starts(S)) = Rank(Starts(S), n)
         /\ Cardinality(Starts(S)) = Rank(Ends(S), n)
         /\ Cardinality(Starts(S)) \in Nat
         /\ \A k \in 1 .. Cardinality(Starts(S)) :
              /\ Nth(Starts(S), k) \in Starts(S) /\ Nth(Ends(S), k) \in Ends(S)
              /\ Nth(Starts(S), k) <= Nth(Ends(S), k)
         /\ \A p \in S : \E k \in 1 .. Cardinality(Starts(S)) :
              Nth(Starts(S), k) <= p /\ p <= Nth(Ends(S), k)
<1> DEFINE A == Starts(S)
           E == Ends(S)
<1>s. A \subseteq S /\ E \subseteq S
  BY DEF Starts, Ends
<1> HIDE DEF A, E
<1>1. /\ S \in SUBSET Positive /\ A \in SUBSET (1 .. n) /\ E \in SUBSET (1 .. n)
      /\ A \in SUBSET Positive /\ E \in SUBSET Positive
      /\ n + 1 \notin A /\ n + 1 \notin S
  <2>1. 1 .. n \subseteq Positive /\ n + 1 \notin 1 .. n
    BY DEF Positive
  <2> QED
    BY <1>s, <2>1
<1>r. \A m \in Nat : Rank(A, m + 1) = Rank(E, m) + (IF m + 1 \in S THEN 1 ELSE 0)
  BY <1>1, StartsAndEnds DEF A, E
<1>2. Cardinality(A) = Rank(A, n)
  BY <1>1, RankAll
<1>3. Rank(A, n) = Rank(E, n)
  <2>1. Rank(A, n + 1) = Rank(A, n) + (IF n + 1 \in A THEN 1 ELSE 0)
    BY <1>1, RankStep
  <2>2. Rank(A, n) \in Nat /\ Rank(E, n) \in Nat
    BY <1>1, UpToFinite
  <2>3. Rank(A, n + 1) = Rank(E, n) + (IF n + 1 \in S THEN 1 ELSE 0)
    BY <1>r
  <2> QED
    BY <1>1, <2>1, <2>2, <2>3
<1>4. Rank(A, n) \in Nat
  BY <1>1, UpToFinite
<1>5. ASSUME NEW k \in 1 .. Rank(A, n)
      PROVE  /\ Nth(A, k) \in A /\ Nth(E, k) \in E /\ Rank(A, Nth(A, k)) = k /\ Rank(E, Nth(E, k)) = k
             /\ Nth(A, k) <= Nth(E, k)
  <2> DEFINE x == Nth(A, k)
             y == Nth(E, k)
  <2>1. x \in A /\ Rank(A, x) = k
    BY <1>1, NthIs
  <2>2. y \in E /\ Rank(E, y) = k
    <3>1. k \in 1 .. Rank(E, n)
      BY <1>3
    <3> QED
      BY <1>1, <3>1, NthIs
  <2> HIDE DEF x, y
  <2>3. x <= y
    <3> SUFFICES ASSUME ~ (x <= y) PROVE FALSE
      OBVIOUS
    <3>1. x \in 1 .. n /\ y \in 1 .. n
      BY <1>1, <2>1, <2>2
    <3>2. PICK m \in Nat : x = m + 1
      <4>1. x - 1 \in Nat /\ x = (x - 1) + 1
        BY <3>1
      <4> QED
        BY <4>1
    <3>3. Rank(A, x) = Rank(E, m) + 1
      <4>1. m + 1 \in S
        BY <1>s, <2>1, <3>2
      <4> QED
        BY <1>r, <3>2, <4>1
    <3>4. Rank(E, y) <= Rank(E, m)
      <4>1. CASE y = m
        <5>1. Rank(E, m) \in Nat
          BY <1>1, UpToFinite
        <5> QED
          BY <4>1, <5>1
      <4>2. CASE y < m
        <5>1. y \in Nat
          BY <3>1
        <5> QED
          BY <1>1, <4>2, <5>1, RankGrows
      <4> QED
        BY <3>1, <3>2, <4>1, <4>2
    <3>5. Rank(E, m) \in Nat
      BY <1>1, UpToFinite
    <3> QED
      BY <2>1, <2>2, <3>3, <3>4, <3>5
  <2> QED
    BY <2>1, <2>2, <2>3 DEF x, y
<1>6. ASSUME NEW p \in S
      PROVE  \E k \in 1 .. Rank(A, n) : Nth(A, k) <= p /\ p <= Nth(E, k)
  <2> DEFINE k == Rank(A, p)
  <2>1. p \in 1 .. n /\ p \in Nat
    OBVIOUS
  <2>2. PICK m \in Nat : p = m + 1
    <3>1. p - 1 \in Nat /\ p = (p - 1) + 1
      BY <2>1
    <3> QED
      BY <3>1
  <2>3. k = Rank(E, m) + 1 /\ Rank(E, m) \in Nat
    <3>1. Rank(E, m) \in Nat
      BY <1>1, UpToFinite
    <3> QED
      BY <1>r, <2>2, <3>1
  <2>4. k <= Rank(A, n)
    <3>1. CASE p = n
      BY <1>4, <3>1
    <3>2. CASE p < n
      BY <1>1, <2>1, <3>2, RankGrows
    <3> QED
      BY <2>1, <3>1, <3>2
  <2>5. k \in 1 .. Rank(A, n)
    BY <1>4, <2>3, <2>4
  <2>6. Nth(A, k) <= p
    <3>1. k \in 1 .. Rank(A, p)
      BY <2>3
    <3> QED
      BY <1>1, <2>1, <3>1, NthIs
  <2> DEFINE y == Nth(E, k)
  <2>7. y \in E /\ Rank(E, y) = k
    BY <1>5, <2>5
  <2> HIDE DEF k, y
  <2>8. p <= y
    <3> SUFFICES ASSUME ~ (p <= y) PROVE FALSE
      OBVIOUS
    <3>1. y \in 1 .. n /\ y <= m
      BY <1>1, <2>1, <2>2, <2>7
    <3>2. Rank(E, y) <= Rank(E, m)
      <4>1. CASE y = m
        BY <2>3, <4>1
      <4>2. CASE y < m
        <5>1. y \in Nat
          BY <3>1
        <5> QED
          BY <1>1, <4>2, <5>1, RankGrows
      <4> QED
        BY <3>1, <4>1, <4>2
    <3> QED
      BY <2>3, <2>7, <3>2
  <2> QED
    BY <2>5, <2>6, <2>8 DEF y
<1> QED
  BY <1>2, <1>3, <1>4, <1>5, <1>6 DEF A, E

\* Each line of a head with the CR that ends it is a piece of the head up to its last CR.
LEMMA LinesArePieces ==
  ASSUME NEW C, "CR" \in C, NEW head \in Seq(C),
         \A k \in DOMAIN LinesOf(head) : "LF" \notin ToSet(LinesOf(head)[k])
  PROVE  /\ LinesOf(head) \in Seq(Seq(C)) /\ Len(LinesOf(head)) >= 1
         /\ Pieces(head \o <<"CR">>, "LF") =
              [k \in 1 .. Len(LinesOf(head)) |-> LinesOf(head)[k] \o <<"CR">>]
<1> DEFINE u == head \o <<"CR">>
           h == Len(head) + 1
           LE == LineEnds(head)
           from == {1} \cup {i + 2 : i \in LE}
           till == LE \cup {Len(head) + 1}
           L == LinesOf(head)
           I == (1 .. h) \ {i + 1 : i \in LE}
           K == Cardinality(from)
<1>1. /\ u \in Seq(C) /\ Len(u) = h /\ h \in Nat /\ Len(head) = h - 1 /\ h >= 1 /\ u[h] = "CR"
      /\ \A i \in 1 .. h - 1 : u[i] = head[i] /\ head[i] \in C
      /\ DOMAIN u = 1 .. h
  OBVIOUS
<1>2. ASSUME NEW i \in LE
      PROVE  i \in 1 .. h - 2 /\ head[i] = "CR" /\ head[i + 1] = "LF"
  <2>1. i \in 1 .. Len(head) - 1 /\ SubSeq(head, i, i + 1) = <<"CR", "LF">>
    BY DEF LineEnds
  <2>2. \A j \in i .. i + 1 : head[j] \in C
    BY <2>1
  <2>3. \A j \in 1 .. (i + 1) - i + 1 : SubSeq(head, i, i + 1)[j] = head[i + j - 1]
    BY <2>1, <2>2, SubSeqProperties
  <2>4. SubSeq(head, i, i + 1)[1] = head[i] /\ SubSeq(head, i, i + 1)[2] = head[i + 1]
    <3>1. 1 \in 1 .. (i + 1) - i + 1 /\ 2 \in 1 .. (i + 1) - i + 1 /\ i + 1 - 1 = i /\ i + 2 - 1 = i + 1
      BY <2>1
    <3> QED
      BY <2>3, <3>1
  <2>5. <<"CR", "LF">>[1] = "CR" /\ <<"CR", "LF">>[2] = "LF"
    OBVIOUS
  <2>6. head[i] = "CR" /\ head[i + 1] = "LF"
    BY <2>1, <2>4, <2>5
  <2>7. Len(head) - 1 = h - 2
    BY <1>1
  <2> QED
    BY <2>1, <2>6, <2>7
<1>3. L = [k \in 1 .. K |-> SubSeq(head, Nth(from, k), Nth(till, k) - 1)]
  BY DEF LinesOf
<1> HIDE DEF LE, u, h
<1>4. Starts(I) = from
  <2>1. ASSUME NEW i \in Starts(I) PROVE i \in from
    <3>1. i \in 1 .. h /\ i - 1 \notin I
      BY DEF Starts
    <3>2. CASE i = 1
      BY <3>2
    <3>3. CASE i # 1
      <4>1. i - 1 \in 1 .. h
        BY <1>1, <3>1, <3>3
      <4>2. PICK e \in LE : i - 1 = e + 1
        BY <3>1, <4>1
      <4>3. i = e + 2
        BY <1>2, <3>1, <4>2
      <4> QED
        BY <4>3
    <3> QED
      BY <3>2, <3>3
  <2>2. 1 \in Starts(I)
    <3>1. \A e \in LE : e + 1 # 1
      BY <1>2
    <3>2. 1 \in I /\ 1 - 1 \notin I
      BY <1>1, <3>1
    <3> QED
      BY <3>2 DEF Starts
  <2>3. ASSUME NEW e \in LE PROVE e + 2 \in Starts(I)
    <3>1. e \in 1 .. h - 2 /\ head[e + 1] = "LF"
      BY <1>2
    <3>2. \A f \in LE : f + 1 # e + 2
      <4> SUFFICES ASSUME NEW f \in LE, f + 1 = e + 2 PROVE FALSE
        OBVIOUS
      <4>1. f = e + 1 /\ head[f] = "CR"
        BY <1>2, <3>1
      <4> QED
        BY <3>1, <4>1
    <3>3. e + 2 \in I
      BY <1>1, <3>1, <3>2
    <3>4. (e + 2) - 1 = e + 1 /\ (e + 2) - 1 \notin I
      BY <3>1
    <3> QED
      BY <3>3, <3>4 DEF Starts
  <2> HIDE DEF I
  <2> QED
    BY <2>1, <2>2, <2>3
<1>5. Ends(I) = till
  <2>1. ASSUME NEW i \in Ends(I) PROVE i \in till
    <3>1. i \in 1 .. h /\ i + 1 \notin I
      BY DEF Ends
    <3>2. CASE i = h
      BY <1>1, <3>2
    <3>3. CASE i # h
      <4>1. i + 1 \in 1 .. h
        BY <1>1, <3>1, <3>3
      <4>2. PICK e \in LE : i + 1 = e + 1
        BY <3>1, <4>1
      <4>3. i = e
        BY <1>2, <3>1, <4>2
      <4> QED
        BY <4>3
    <3> QED
      BY <3>2, <3>3
  <2>2. h \in Ends(I)
    <3>1. \A e \in LE : e + 1 # h
      BY <1>1, <1>2
    <3>2. h \in I /\ h + 1 \notin I
      BY <1>1, <3>1
    <3> QED
      BY <3>2 DEF Ends
  <2>3. ASSUME NEW e \in LE PROVE e \in Ends(I)
    <3>1. e \in 1 .. h - 2 /\ head[e] = "CR"
      BY <1>2
    <3>2. \A f \in LE : f + 1 # e
      <4> SUFFICES ASSUME NEW f \in LE, f + 1 = e PROVE FALSE
        OBVIOUS
      <4>1. head[e] = "LF"
        BY <1>2
      <4> QED
        BY <3>1, <4>1
    <3>3. e \in I
      BY <1>1, <3>1, <3>2
    <3>4. e + 1 \notin I
      BY <3>1
    <3> QED
      BY <3>3, <3>4 DEF Ends
  <2> HIDE DEF I
  <2>4. h = Len(head) + 1
    BY <1>1
  <2> QED
    BY <2>1, <2>2, <2>3, <2>4
<1>6. I \in SUBSET (1 .. h)
  OBVIOUS
<1>7. /\ K \in Nat
      /\ \A k \in 1 .. K : Nth(from, k) \in from /\ Nth(till, k) \in till /\ Nth(from, k) <= Nth(till, k)
      /\ \A p \in I : \E k \in 1 .. K : Nth(from, k) <= p /\ p <= Nth(till, k)
  <2> HIDE DEF I
  <2> QED
    BY <1>1, <1>4, <1>5, <1>6, InItsRun
<1>8. \A k \in 1 .. K : Nth(from, k) \in 1 .. h /\ Nth(till, k) \in 1 .. h /\ u[Nth(till, k)] = "CR"
  <2>1. \A i \in from : i \in 1 .. h
    BY <1>1, <1>2
  <2>2. \A i \in till : i \in 1 .. h /\ u[i] = "CR"
    BY <1>1, <1>2
  <2> HIDE DEF from, till, K
  <2> QED
    BY <1>7, <2>1, <2>2
<1>9. ASSUME NEW k \in 1 .. K
      PROVE  /\ L[k] = SubSeq(head, Nth(from, k), Nth(till, k) - 1)
             /\ L[k] \in Seq(C)
             /\ \A p \in Nth(from, k) .. Nth(till, k) - 1 : head[p] # "LF"
             /\ L[k] \o <<"CR">> = SubSeq(u, Nth(from, k), Nth(till, k))
  <2> DEFINE a == Nth(from, k)
             b == Nth(till, k)
  <2>1. a \in 1 .. h /\ b \in 1 .. h /\ a <= b /\ u[b] = "CR"
    BY <1>7, <1>8
  <2>2. L[k] = SubSeq(head, a, b - 1) /\ DOMAIN L = 1 .. K
    BY <1>3
  <2>3. "LF" \notin ToSet(L[k])
    BY <2>2
  <2> HIDE DEF a, b, L, K
  <2>4. \A j \in a .. b - 1 : head[j] \in C
    BY <1>1, <2>1
  <2>5. /\ SubSeq(head, a, b - 1) \in Seq(C)
        /\ Len(SubSeq(head, a, b - 1)) = IF a <= b - 1 THEN b - 1 - a + 1 ELSE 0
        /\ \A i \in 1 .. b - 1 - a + 1 : SubSeq(head, a, b - 1)[i] = head[a + i - 1]
    <3>1. a \in Int /\ b - 1 \in Int
      BY <1>1, <2>1
    <3> QED
      BY <2>4, <3>1, SubSeqProperties
  <2>6. ASSUME NEW p \in a .. b - 1 PROVE head[p] # "LF"
    <3>1. p - a + 1 \in 1 .. b - 1 - a + 1 /\ a + (p - a + 1) - 1 = p /\ a <= b - 1
          /\ p - a + 1 \in DOMAIN SubSeq(head, a, b - 1)
      BY <1>1, <2>1, <2>5
    <3>2. SubSeq(head, a, b - 1)[p - a + 1] = head[p]
      BY <2>5, <3>1
    <3>3. head[p] \in ToSet(L[k])
      BY <2>2, <3>1, <3>2 DEF ToSet
    <3> QED
      BY <2>3, <3>3
  <2>7. SubSeq(u, a, b) = SubSeq(head, a, b - 1) \o <<"CR">>
    <3>1. SubSeq(u, a, b) = SubSeq(u, a, b - 1) \o <<u[b]>>
      <4>1. a \in 1 .. Len(u) /\ b \in a .. Len(u)
        BY <1>1, <2>1
      <4> QED
        BY <1>1, <4>1, SubSeqRecursiveSecond
    <3>2. SubSeq(u, a, b - 1) = SubSeq(head, a, b - 1)
      <4>1. a \in Nat /\ a >= 1 /\ b - 1 \in Int /\ b - 1 <= Len(head) /\ <<"CR">> \in Seq(C)
        BY <1>1, <2>1
      <4> QED
        BY <4>1, SamePart DEF u
    <3> QED
      BY <2>1, <3>1, <3>2
  <2> QED
    BY <2>2, <2>5, <2>6, <2>7 DEF a, b
<1>10. Inside(u, "LF") = I
  <2>1. ASSUME NEW p \in Inside(u, "LF") PROVE p \in I
    <3>1. p \in 1 .. h /\ u[p] # "LF"
      BY <1>1 DEF Inside
    <3>2. \A e \in LE : e + 1 # p
      <4> SUFFICES ASSUME NEW e \in LE, e + 1 = p PROVE FALSE
        OBVIOUS
      <4>1. e \in 1 .. h - 2 /\ head[p] = "LF"
        BY <1>2
      <4>2. u[p] = head[p]
        BY <1>1, <4>1
      <4> QED
        BY <3>1, <4>1, <4>2
    <3> QED
      BY <3>1, <3>2
  <2>2. ASSUME NEW p \in I PROVE p \in Inside(u, "LF")
    <3>1. p \in 1 .. h
      BY <1>6
    <3>2. u[p] # "LF"
      <4>1. PICK k \in 1 .. K : Nth(from, k) <= p /\ p <= Nth(till, k)
        BY <1>7
      <4>2. CASE p = Nth(till, k)
        BY <1>8, <4>2
      <4>3. CASE p # Nth(till, k)
        <5>1. p \in Nth(from, k) .. Nth(till, k) - 1 /\ p \in 1 .. h - 1
          <6> DEFINE x == Nth(from, k)
                     y == Nth(till, k)
          <6>1. x \in 1 .. h /\ y \in 1 .. h
            BY <1>8
          <6>2. p # y
            BY <4>3
          <6>3. x <= p /\ p <= y
            BY <4>1
          <6> HIDE DEF x, y
          <6>4. p \in x .. y - 1 /\ p \in 1 .. h - 1
            BY <1>1, <3>1, <6>1, <6>2, <6>3
          <6> QED
            BY <6>4 DEF x, y
        <5>2. head[p] # "LF"
          BY <1>9, <5>1
        <5> QED
          BY <1>1, <5>1, <5>2
      <4> QED
        BY <4>2, <4>3
    <3> QED
      BY <1>1, <3>1, <3>2 DEF Inside
  <2> HIDE DEF I
  <2> QED
    BY <2>1, <2>2
<1>11. Pieces(u, "LF") = [k \in 1 .. K |-> SubSeq(u, Nth(from, k), Nth(till, k))]
  <2> HIDE DEF from, till
  <2> QED
    BY <1>4, <1>5, <1>10 DEF Pieces
<1>12. L \in Seq(Seq(C)) /\ Len(L) = K
  <2> HIDE DEF K
  <2> DEFINE g == [k \in 1 .. K |-> SubSeq(head, Nth(from, k), Nth(till, k) - 1)]
  <2>1. \A k \in 1 .. K : g[k] \in Seq(C)
    BY <1>3, <1>9
  <2>2. g \in [1 .. K -> Seq(C)]
    BY <2>1
  <2> HIDE DEF g
  <2>3. g \in Seq(Seq(C)) /\ Len(g) = K
    BY <1>7, <2>2
  <2> QED
    BY <1>3, <2>3 DEF g
<1>13. K >= 1
  <2>1. 1 \in I
    BY <1>4 DEF Starts
  <2> HIDE DEF I, K
  <2>2. PICK k \in 1 .. K : TRUE
    BY <1>7, <2>1
  <2> QED
    BY <1>7, <2>2
<1>14. [k \in 1 .. K |-> SubSeq(u, Nth(from, k), Nth(till, k))] = [k \in 1 .. K |-> L[k] \o <<"CR">>]
  BY <1>9
<1> QED
  BY <1>11, <1>12, <1>14, <1>13 DEF u

\* What stands behind a part that is left out.
LEMMA BehindCut ==
  ASSUME NEW C, NEW d \in C, NEW a \in Seq(C), NEW b \in Seq(C)
  PROVE  LET v == a \o <<d>> \o b
         IN /\ v \in Seq(C) /\ Len(v) = Len(a) + 1 + Len(b)
            /\ \A j \in 1 .. Len(a) : v[j] = a[j]
            /\ v[Len(a) + 1] = d
            /\ SubSeq(v, 1, Len(a)) = a
            /\ SubSeq(v, Len(a) + 2, Len(v)) = b
<1> DEFINE v == a \o <<d>> \o b
           n == Len(a)
           l == Len(b)
<1>1. n \in Nat /\ l \in Nat /\ <<d>> \in Seq(C)
  OBVIOUS
<1>2. v \in Seq(C) /\ CutAt(v, a, b, d)
  BY CutPositions
<1>3. /\ Len(v) = n + 1 + l
      /\ \A j \in 1 .. n : v[j] = a[j]
      /\ v[n + 1] = d
      /\ \A j \in 1 .. l : v[n + 1 + j] = b[j]
  BY <1>2 DEF CutAt
<1> HIDE DEF v
<1>4. /\ After(v, n + 1) \in Seq(C) /\ Len(After(v, n + 1)) = Len(v) - (n + 1)
      /\ \A j \in 1 .. Len(v) - (n + 1) : After(v, n + 1)[j] = v[n + 1 + j]
      /\ Before(v, n + 1) \in Seq(C) /\ Len(Before(v, n + 1)) = (n + 1) - 1
      /\ \A j \in 1 .. (n + 1) - 1 : Before(v, n + 1)[j] = v[j]
  <2>1. n + 1 \in 1 .. Len(v)
    BY <1>1, <1>3
  <2> HIDE DEF n
  <2> QED
    BY <1>2, <2>1, CutOut, ZenonT(60)
<1>5. After(v, n + 1) = b
  <2>1. Len(v) - (n + 1) = l
    BY <1>1, <1>3
  <2>2. \A j \in 1 .. l : After(v, n + 1)[j] = b[j]
    BY <1>3, <1>4, <2>1
  <2> HIDE DEF n
  <2> QED
    BY <1>4, <2>1, <2>2, SeqEqual DEF l
<1>6. Before(v, n + 1) = a
  <2>1. (n + 1) - 1 = n
    BY <1>1
  <2>2. \A j \in 1 .. n : Before(v, n + 1)[j] = a[j]
    BY <1>3, <1>4, <2>1
  <2> HIDE DEF l
  <2> QED
    BY <1>4, <2>1, <2>2, SeqEqual DEF n
<1>7. (n + 1) + 1 = n + 2 /\ (n + 1) - 1 = n
  BY <1>1
<1> QED
  BY <1>2, <1>3, <1>5, <1>6, <1>7 DEF v, n, l, After, Before

\* A text whose head ends is its head, the blank line and its body.
HeadOf(t) == SubSeq(t, 1, HeadEnd(t) - 1)
BodyOf(t) == SubSeq(t, HeadEnd(t) + 4, Len(t))

LEMMA HeadParts ==
  ASSUME NEW C, "CR" \in C, "LF" \in C, NEW t \in Seq(C), HeadEnds(t) # {}
  PROVE  /\ HeadOf(t) \in Seq(C) /\ BodyOf(t) \in Seq(C)
         /\ t = (HeadOf(t) \o <<"CR">>) \o <<"LF">> \o (<<"CR">> \o <<"LF">> \o BodyOf(t))
<1> DEFINE n == Len(t)
           h == HeadEnd(t)
<1>1. n \in Nat
  OBVIOUS
<1>2. h \in HeadEnds(t)
  <2>1. HeadEnds(t) \in SUBSET Nat
    BY <1>1 DEF HeadEnds
  <2>2. \E i \in HeadEnds(t) : \A j \in HeadEnds(t) : i <= j
    BY <2>1, LeastNumber
  <2> QED
    BY <2>2 DEF HeadEnd
<1> HIDE DEF h
<1>3. h \in 1 .. n - 3 /\ SubSeq(t, h, h + 3) = Blank
  BY <1>2 DEF HeadEnds
<1>4. t[h] = "CR" /\ t[h + 1] = "LF" /\ t[h + 2] = "CR" /\ t[h + 3] = "LF"
  <2>1. \A j \in h .. h + 3 : t[j] \in C
    BY <1>1, <1>3
  <2>2. \A j \in 1 .. (h + 3) - h + 1 : SubSeq(t, h, h + 3)[j] = t[h + j - 1]
    BY <1>3, <2>1, SubSeqProperties
  <2>3. /\ 1 \in 1 .. (h + 3) - h + 1 /\ 2 \in 1 .. (h + 3) - h + 1
        /\ 3 \in 1 .. (h + 3) - h + 1 /\ 4 \in 1 .. (h + 3) - h + 1
        /\ h + 1 - 1 = h /\ h + 2 - 1 = h + 1 /\ h + 3 - 1 = h + 2 /\ h + 4 - 1 = h + 3
    BY <1>3
  <2>4. Blank[1] = "CR" /\ Blank[2] = "LF" /\ Blank[3] = "CR" /\ Blank[4] = "LF"
    BY DEF Blank
  <2> QED
    BY <1>3, <2>2, <2>3, <2>4
<1>5. /\ h \in Nat /\ h - 1 \in Nat /\ h >= 1 /\ h + 1 \in 1 .. n /\ h + 3 \in 1 .. n
      /\ (h + 1) - 1 = h /\ (h + 1) + 1 = h + 2
      /\ (h + 3) + 1 = h + 4
  BY <1>1, <1>3
<1> DEFINE u == SubSeq(t, 1, h)
           w == SubSeq(t, h + 2, n)
           b == SubSeq(t, h + 4, n)
           a == SubSeq(t, 1, h - 1)
<1>6. /\ u \in Seq(C) /\ w \in Seq(C) /\ Len(w) = n - (h + 1)
      /\ \A j \in 1 .. n - (h + 1) : w[j] = t[(h + 1) + j]
      /\ t = u \o <<t[h + 1]>> \o w
  <2> DEFINE i == h + 1
             p == Before(t, i)
             q == After(t, i)
  <2>1. i \in 1 .. Len(t)
    BY <1>5
  <2>2. p = u /\ q = w
    BY <1>5 DEF Before, After
  <2> HIDE DEF i, u, w
  <2>3. /\ p \in Seq(C) /\ q \in Seq(C) /\ Len(q) = Len(t) - i
        /\ \A j \in 1 .. Len(t) - i : q[j] = t[i + j]
        /\ t = p \o <<t[i]>> \o q
    BY <2>1, CutOut, ZenonT(60)
  <2> HIDE DEF p, q
  <2> QED
    BY <2>2, <2>3 DEF i
<1>7. /\ b \in Seq(C) /\ Len(b) = n - (h + 3)
      /\ \A j \in 1 .. n - (h + 3) : b[j] = t[(h + 3) + j]
  BY <1>5, CutOut DEF After
<1>8. a \in Seq(C)
  <2>1. h \in 1 .. n
    BY <1>1, <1>5
  <2> QED
    BY <2>1, CutOut DEF Before
<1>9. u = a \o <<"CR">>
  <2>1. 1 \in 1 .. n /\ h \in 1 .. n
    BY <1>1, <1>5
  <2> QED
    BY <1>4, <2>1, SubSeqRecursiveSecond
<1>10. w = <<"CR">> \o <<"LF">> \o b
  <2> HIDE DEF w, b, n
  <2>1. 2 \in 1 .. Len(w) /\ 1 \in 1 .. Len(w) /\ Len(w) = n - h - 1
    BY <1>1, <1>5, <1>6
  <2>2. w[1] = "CR" /\ w[2] = "LF"
    <3>1. 1 \in 1 .. n - (h + 1) /\ 2 \in 1 .. n - (h + 1) /\ (h + 1) + 1 = h + 2 /\ (h + 1) + 2 = h + 3
      BY <1>1, <1>5
    <3> QED
      BY <1>4, <1>6, <3>1
  <2>3. w = Before(w, 2) \o <<w[2]>> \o After(w, 2)
    BY <1>6, <2>1, CutOut, ZenonT(60)
  <2>4. Before(w, 2) = <<"CR">>
    <3>1. 2 - 1 = 1
      OBVIOUS
    <3> QED
      BY <1>6, <2>1, <2>2, <3>1, OneCharacter DEF Before
  <2>5. After(w, 2) = b
    <3>1. /\ After(w, 2) \in Seq(C) /\ Len(After(w, 2)) = Len(w) - 2
          /\ \A j \in 1 .. Len(w) - 2 : After(w, 2)[j] = w[2 + j]
      BY <1>6, <2>1, CutOut, ZenonT(60)
    <3>2. Len(w) - 2 = n - (h + 3)
      BY <1>1, <1>5, <2>1
    <3>3. ASSUME NEW j \in 1 .. n - (h + 3) PROVE After(w, 2)[j] = b[j]
      <4>1. 2 + j \in 1 .. n - (h + 1) /\ (h + 1) + (2 + j) = (h + 3) + j
        BY <1>1, <1>5
      <4> QED
        BY <1>6, <1>7, <3>1, <3>2, <4>1
    <3> QED
      BY <1>7, <3>1, <3>2, <3>3, SeqEqual
  <2> QED
    BY <2>2, <2>3, <2>4, <2>5
<1> HIDE DEF u, w, b, a
<1>11. t = (a \o <<"CR">>) \o <<"LF">> \o (<<"CR">> \o <<"LF">> \o b)
  BY <1>4, <1>6, <1>9, <1>10
<1> QED
  BY <1>7, <1>8, <1>11 DEF HeadOf, BodyOf, h, a, b, n

\* The pieces of such a text: its lines with the CR that ends each, a mere CR and the
\* pieces of its body.
Ended(lines) == [k \in 1 .. Len(lines) |-> lines[k] \o <<"CR">>]

LEMMA RequestPieces ==
  ASSUME NEW C, "CR" \in C, "LF" \in C, NEW t \in Seq(C), HeadEnds(t) # {},
         \A k \in DOMAIN LinesOf(HeadOf(t)) : "LF" \notin ToSet(LinesOf(HeadOf(t))[k])
  PROVE  /\ LinesOf(HeadOf(t)) \in Seq(Seq(C)) /\ Len(LinesOf(HeadOf(t))) >= 1
         /\ Ended(LinesOf(HeadOf(t))) \in Seq(Seq(C))
         /\ Pieces(t, "LF") =
              Ended(LinesOf(HeadOf(t))) \o <<<<"CR">>>> \o Pieces(BodyOf(t), "LF")
<1> DEFINE a == HeadOf(t)
           b == BodyOf(t)
           L == LinesOf(a)
           e == <<"CR">>
           w == e \o <<"LF">> \o b
           x == a \o e
           P == Ended(L)
           Q == <<e>>
           R == Pieces(b, "LF")
<1>1. a \in Seq(C) /\ b \in Seq(C) /\ t = x \o <<"LF">> \o w
  BY HeadParts
<1>2. L \in Seq(Seq(C)) /\ Len(L) >= 1 /\ Pieces(x, "LF") = P
  <2>1. \A k \in DOMAIN LinesOf(a) : "LF" \notin ToSet(LinesOf(a)[k])
    OBVIOUS
  <2> HIDE DEF a
  <2> QED
    BY <1>1, <2>1, LinesArePieces DEF Ended
<1>3. e \in Seq(C) /\ e # <<>> /\ \A i \in 1 .. Len(e) : e[i] # "LF"
  OBVIOUS
<1>4. /\ P \in Seq(Seq(C)) /\ Q \in Seq(Seq(C)) /\ R \in Seq(Seq(C))
      /\ x \in Seq(C) /\ w \in Seq(C)
  <2>1. P \in Seq(Seq(C))
    <3>1. Len(L) \in Nat /\ \A k \in 1 .. Len(L) : L[k] \o <<"CR">> \in Seq(C)
      BY <1>2
    <3> QED
      BY <3>1 DEF Ended
  <2> HIDE DEF a, b, P
  <2>2. R \in Seq(Seq(C))
    BY <1>1, PiecesType
  <2> HIDE DEF R
  <2>3. x \in Seq(C) /\ w \in Seq(C) /\ Q \in Seq(Seq(C))
    BY <1>1, <1>3
  <2> QED
    BY <2>1, <2>2, <2>3
<1> HIDE DEF a, b, L, e
<1>5. Pieces(w, "LF") = Q \o R
  <2>1. Pieces(e, "LF") = Q
    BY <1>3, OnePiece
  <2>2. Pieces(w, "LF") = Pieces(e, "LF") \o R
    BY <1>1, <1>3, CutPieces
  <2> QED
    BY <2>1, <2>2
<1> HIDE DEF w, x, P, Q, R
<1>6. Pieces(t, "LF") = P \o (Q \o R)
  <2>1. Pieces(x \o <<"LF">> \o w, "LF") = Pieces(x, "LF") \o Pieces(w, "LF")
    BY <1>4, CutPieces
  <2> QED
    BY <1>1, <1>2, <1>5, <2>1
<1>7. P \o (Q \o R) = P \o Q \o R
  <2> DEFINE D == Seq(C)
  <2>1. P \in Seq(D) /\ Q \in Seq(D) /\ R \in Seq(D)
    BY <1>4
  <2> HIDE DEF D
  <2>2. \A p, q, r \in Seq(D) : p \o (q \o r) = (p \o q) \o r
    BY ONLY Assoc
  <2> QED
    BY ONLY <2>1, <2>2
<1> QED
  BY <1>2, <1>4, <1>6, <1>7 DEF P, Q, R, L, a, b, e

\* The CR that ends a line is what AllButLast takes from it.
LEMMA EndTaken ==
  ASSUME NEW C, "CR" \in C, NEW l \in Seq(C)
  PROVE  /\ AllButLast(l \o <<"CR">>) = l
         /\ l \o <<"CR">> # <<>> /\ Last(l \o <<"CR">>) = "CR"
         /\ l # <<>> => Head(l \o <<"CR">>) = l[1]
<1> DEFINE u == l \o <<"CR">>
           n == Len(l)
<1>1. /\ n \in Nat /\ u \in Seq(C) /\ Len(u) = n + 1 /\ u[n + 1] = "CR"
      /\ \A j \in 1 .. n : u[j] = l[j]
      /\ u # <<>>
  OBVIOUS
<1>2. Last(u) = "CR"
  <2> HIDE DEF u, n
  <2> QED
    BY <1>1 DEF Last
<1>3. "CR" \notin Words
  BY DEF Words, Methods, Versions
<1>4. Front(u) = l
  <2>1. Front(u) = SubSeq(u, 1, Len(u) - 1)
    BY DEF Front
  <2>2. Len(u) - 1 = n
    BY <1>1
  <2>3. SubSeq(u, 1, n) = SubSeq(l, 1, n)
    <3>1. 1 \in Nat /\ 1 >= 1 /\ n \in Int /\ n <= Len(l) /\ <<"CR">> \in Seq(C)
      BY <1>1
    <3> HIDE DEF n
    <3> QED
      BY <3>1, SamePart
  <2>4. SubSeq(l, 1, n) = l
    BY SubSeqFull
  <2> HIDE DEF u, n
  <2> QED
    BY <2>1, <2>2, <2>3, <2>4
<1>5. l # <<>> => Head(u) = l[1]
  <2> SUFFICES ASSUME l # <<>> PROVE Head(u) = l[1]
    OBVIOUS
  <2>1. n >= 1
    BY EmptySeq
  <2>2. Head(u) = u[1]
    BY <1>1
  <2> HIDE DEF u, n
  <2> QED
    BY <1>1, <2>1, <2>2
<1> HIDE DEF u
<1>6. AllButLast(u) = l
  BY <1>2, <1>3, <1>4 DEF AllButLast
<1> QED
  BY <1>1, <1>2, <1>5, <1>6 DEF u

\* Without a zero in it, a text is split whole.
LEMMA SplitWhole ==
  ASSUME NEW s, NEW d, "NUL" \notin ToSet(s)
  PROVE  Split(s, d) = Pieces(s, d)
BY SplitPieces DEF CStr

\* First is the least of a set of numbers.
LEMMA FirstIs ==
  ASSUME NEW S \in SUBSET Nat, S # {}
  PROVE  First(S) \in S /\ \A j \in S : First(S) <= j
<1>1. \E i \in S : \A j \in S : i <= j
  BY LeastNumber
<1> QED
  BY <1>1 DEF First

\* Three words with one delimiter between each two of them.
ThreeWords(l, d) ==
  /\ Cardinality(Places(l, d)) = 2
  /\ \A i \in Places(l, d) : i > 1 /\ i < Len(l) /\ l[i + 1] # d

FirstPlace(l, d) == First(Places(l, d))
NextPlace(l, d) == First(Places(l, d) \ {FirstPlace(l, d)})
WordsOf(l, d) ==
  << SubSeq(l, 1, FirstPlace(l, d) - 1),
     SubSeq(l, FirstPlace(l, d) + 1, NextPlace(l, d) - 1),
     SubSeq(l, NextPlace(l, d) + 1, Len(l)) >>

LEMMA ThreeItems ==
  ASSUME NEW D, NEW p \in D, NEW q \in D, NEW r \in D
  PROVE  <<p>> \o (<<q>> \o <<r>>) = <<p, q, r>>
<1> DEFINE x == <<p>> \o (<<q>> \o <<r>>)
           y == <<p, q, r>>
           z == <<q>> \o <<r>>
<1>1. z \in Seq(D) /\ Len(z) = 2 /\ z[1] = q /\ z[2] = r
  OBVIOUS
<1>2. x \in Seq(D) /\ Len(x) = 3 /\ x[1] = p /\ x[2] = q /\ x[3] = r
  <2> DEFINE e == <<p>>
  <2>1. e \in Seq(D) /\ Len(e) = 1 /\ e[1] = p
    OBVIOUS
  <2>2. x = e \o z
    OBVIOUS
  <2> HIDE DEF e, z, x
  <2>3. /\ e \o z \in Seq(D)
        /\ Len(e \o z) = Len(e) + Len(z)
        /\ \A i \in 1 .. Len(e) + Len(z) :
              (e \o z)[i] = IF i <= Len(e) THEN e[i] ELSE z[i - Len(e)]
    BY ONLY <1>1, <2>1, ConcatProperties
  <2>4. Len(x) = 3 /\ x \in Seq(D) /\ \A i \in 1 .. 3 : x[i] = IF i <= 1 THEN e[i] ELSE z[i - 1]
    BY ONLY <1>1, <2>1, <2>2, <2>3
  <2>5. /\ 1 \in 1 .. 3 /\ 2 \in 1 .. 3 /\ 3 \in 1 .. 3 /\ 2 - 1 = 1 /\ 3 - 1 = 2
        /\ 1 <= 1 /\ ~ (2 <= 1) /\ ~ (3 <= 1)
    OBVIOUS
  <2> QED
    BY ONLY <1>1, <2>1, <2>4, <2>5
<1>3. y \in Seq(D) /\ Len(y) = 3 /\ y[1] = p /\ y[2] = q /\ y[3] = r
  OBVIOUS
<1> HIDE DEF x, y
<1>4. \A i \in 1 .. Len(x) : x[i] = y[i]
  <2>1. 1 .. 3 = {1, 2, 3}
    OBVIOUS
  <2> QED
    BY <1>2, <1>3, <2>1
<1>5. x = y
  BY <1>2, <1>3, <1>4, SeqEqual
<1> QED
  BY <1>5 DEF x, y

LEMMA ThreePieces ==
  ASSUME NEW C, NEW d \in C, NEW l \in Seq(C), ThreeWords(l, d)
  PROVE  Pieces(l, d) = WordsOf(l, d) /\ l # <<>> /\ l[1] # d
<1> DEFINE S == Places(l, d)
           a == FirstPlace(l, d)
           b == NextPlace(l, d)
           n == Len(l)
<1>1. /\ S \in SUBSET (1 .. n) /\ n \in Nat /\ Cardinality(S) = 2
      /\ \A i \in S : l[i] = d /\ i > 1 /\ i < n /\ l[i + 1] # d
      /\ \A i \in 1 .. n : l[i] = d => i \in S
      /\ S \in SUBSET Nat
  BY DEF Places, ThreeWords
<1>2. IsFiniteSet(S) /\ S # {}
  <2> HIDE DEF S
  <2>1. IsFiniteSet(1 .. n)
    BY <1>1, FS_Interval
  <2>2. IsFiniteSet(S)
    BY <1>1, <2>1, FS_Subset
  <2> QED
    BY <1>1, <2>2, FS_EmptySet
<1>3. a \in S /\ \A j \in S : a <= j
  <2> HIDE DEF S
  <2> QED
    BY <1>1, <1>2, FirstIs DEF FirstPlace, S
<1>4. b \in S /\ b # a /\ S = {a, b}
  <2> DEFINE R == S \ {a}
  <2> HIDE DEF S, a
  <2>1. IsFiniteSet(R) /\ Cardinality(R) = 1
    BY <1>1, <1>2, <1>3, FS_RemoveElement
  <2>2. R # {}
    BY <2>1, FS_EmptySet
  <2>3. R \in SUBSET Nat
    BY <1>1
  <2>4. b = First(R)
    BY DEF NextPlace, S, a
  <2>5. b \in R
    <3> HIDE DEF R
    <3> QED
      BY <2>2, <2>3, <2>4, FirstIs
  <2>6. ASSUME NEW x \in R PROVE x = b
    <3> HIDE DEF R
    <3>1. PICK y : R = {y}
      BY <2>1, FS_Singleton
    <3> QED
      BY <2>5, <3>1
  <2> QED
    BY <1>3, <2>5, <2>6
<1> HIDE DEF S, a, b
<1>5. /\ a \in 1 .. n /\ b \in 1 .. n /\ 1 < a /\ a + 1 < b /\ b < n
      /\ l[a] = d /\ l[b] = d
      /\ \A i \in 1 .. n : l[i] = d => i = a \/ i = b
  <2>1. a \in 1 .. n /\ b \in 1 .. n /\ 1 < a /\ a < b /\ b < n /\ l[a] = d /\ l[b] = d
    BY <1>1, <1>3, <1>4
  <2>2. a + 1 # b
    BY <1>1, <1>3, <1>4
  <2>3. a + 1 < b
    BY <1>1, <2>1, <2>2
  <2> QED
    BY <1>1, <1>4, <2>1, <2>3
<1> DEFINE w == After(l, a)
           p == Before(l, a)
<1>6. /\ p \in Seq(C) /\ Len(p) = a - 1
      /\ \A j \in 1 .. a - 1 : p[j] = l[j]
      /\ w \in Seq(C) /\ Len(w) = n - a
      /\ \A j \in 1 .. n - a : w[j] = l[a + j]
      /\ l = p \o <<d>> \o w
  <2>1. /\ p \in Seq(C) /\ Len(p) = a - 1
        /\ \A j \in 1 .. a - 1 : p[j] = l[j]
        /\ w \in Seq(C) /\ Len(w) = n - a
        /\ \A j \in 1 .. n - a : w[j] = l[a + j]
        /\ l = p \o <<l[a]>> \o w
    BY <1>5, CutOut
  <2> HIDE DEF p, w
  <2> QED
    BY <1>5, <2>1
<1> DEFINE i == b - a
           q == Before(w, i)
           r == After(w, i)
<1>7. i \in Nat /\ i \in 1 .. n - a /\ a + i = b /\ i > 1 /\ i < n - a
  BY <1>1, <1>5
<1> HIDE DEF w, p, i
<1>8. /\ q \in Seq(C) /\ Len(q) = i - 1
      /\ \A j \in 1 .. i - 1 : q[j] = w[j]
      /\ r \in Seq(C) /\ Len(r) = (n - a) - i
      /\ \A j \in 1 .. (n - a) - i : r[j] = w[i + j]
      /\ w = q \o <<d>> \o r
  <2>1. w[i] = d
    BY <1>5, <1>6, <1>7
  <2>2. /\ q \in Seq(C) /\ Len(q) = i - 1
        /\ \A j \in 1 .. i - 1 : q[j] = w[j]
        /\ r \in Seq(C) /\ Len(r) = Len(w) - i
        /\ \A j \in 1 .. Len(w) - i : r[j] = w[i + j]
        /\ w = q \o <<w[i]>> \o r
    BY <1>6, <1>7, CutOut
  <2> HIDE DEF q, r
  <2> QED
    BY <1>6, <2>1, <2>2
<1> HIDE DEF q, r, n
<1>9. /\ p # <<>> /\ \A j \in 1 .. Len(p) : p[j] # d
      /\ q # <<>> /\ \A j \in 1 .. Len(q) : q[j] # d
      /\ r # <<>> /\ \A j \in 1 .. Len(r) : r[j] # d
  <2>1. ASSUME NEW j \in 1 .. Len(p) PROVE p[j] # d
    <3>1. j \in 1 .. a - 1 /\ j \in 1 .. n /\ j # a /\ j # b
      BY <1>1, <1>5, <1>6
    <3> QED
      BY <1>5, <1>6, <3>1
  <2>2. ASSUME NEW j \in 1 .. Len(q) PROVE q[j] # d
    <3>1. j \in 1 .. i - 1 /\ j \in 1 .. n - a /\ a + j \in 1 .. n /\ a + j # a /\ a + j # b
      BY <1>1, <1>5, <1>7, <1>8
    <3>2. q[j] = l[a + j]
      BY <1>6, <1>8, <3>1
    <3> QED
      BY <1>5, <3>1, <3>2
  <2>3. ASSUME NEW j \in 1 .. Len(r) PROVE r[j] # d
    <3>1. j \in 1 .. (n - a) - i /\ i + j \in 1 .. n - a
          /\ a + (i + j) \in 1 .. n /\ a + (i + j) # a /\ a + (i + j) # b
      BY <1>1, <1>5, <1>7, <1>8
    <3>2. r[j] = l[a + (i + j)]
      BY <1>6, <1>8, <3>1
    <3> QED
      BY <1>5, <3>1, <3>2
  <2>4. Len(p) > 0 /\ Len(q) > 0 /\ Len(r) > 0
    BY <1>1, <1>5, <1>6, <1>7, <1>8
  <2> QED
    BY <1>6, <1>8, <2>1, <2>2, <2>3, <2>4, EmptySeq
<1>10. Pieces(l, d) = <<p>> \o (<<q>> \o <<r>>)
  <2>1. Pieces(p \o <<d>> \o w, d) = Pieces(p, d) \o Pieces(w, d)
    BY <1>6, CutPieces
  <2>2. Pieces(q \o <<d>> \o r, d) = Pieces(q, d) \o Pieces(r, d)
    BY <1>8, CutPieces
  <2>3. Pieces(p, d) = <<p>> /\ Pieces(q, d) = <<q>> /\ Pieces(r, d) = <<r>>
    BY <1>6, <1>8, <1>9, OnePiece
  <2> QED
    BY <1>6, <1>8, <2>1, <2>2, <2>3
<1>11. q = SubSeq(l, a + 1, b - 1)
  <2> DEFINE s == SubSeq(l, a + 1, b - 1)
  <2>1. \A j \in a + 1 .. b - 1 : l[j] \in C
    BY <1>5 DEF n
  <2>2. /\ s \in Seq(C) /\ Len(s) = (IF a + 1 <= b - 1 THEN b - 1 - (a + 1) + 1 ELSE 0)
        /\ \A j \in 1 .. b - 1 - (a + 1) + 1 : s[j] = l[a + 1 + j - 1]
    <3>1. a + 1 \in Int /\ b - 1 \in Int
      BY <1>5
    <3> QED
      BY <2>1, <3>1, SubSeqProperties
  <2> HIDE DEF s
  <2>3. Len(s) = i - 1 /\ b - 1 - (a + 1) + 1 = i - 1
    BY <1>5, <1>7, <2>2
  <2>4. ASSUME NEW j \in 1 .. i - 1 PROVE s[j] = q[j]
    <3>1. a + 1 + j - 1 = a + j /\ j \in 1 .. n - a
      BY <1>1, <1>5, <1>7
    <3> QED
      BY <1>6, <1>8, <2>2, <2>3, <3>1
  <2> QED
    BY <1>8, <2>2, <2>3, <2>4, SeqEqual DEF s
<1>12. r = SubSeq(l, b + 1, Len(l))
  <2>1. /\ After(l, b) \in Seq(C) /\ Len(After(l, b)) = n - b
        /\ \A j \in 1 .. n - b : After(l, b)[j] = l[b + j]
    BY <1>5, CutOut DEF n
  <2>2. (n - a) - i = n - b
    BY <1>1, <1>5, <1>7
  <2>3. ASSUME NEW j \in 1 .. n - b PROVE After(l, b)[j] = r[j]
    <3>1. i + j \in 1 .. n - a /\ a + (i + j) = b + j
      BY <1>1, <1>5, <1>7
    <3> QED
      BY <1>6, <1>8, <2>1, <2>2, <3>1, ZenonT(60)
  <2>4. After(l, b) = r
    BY <1>8, <2>1, <2>2, <2>3, SeqEqual
  <2> QED
    BY <2>4 DEF After
<1>13. l # <<>> /\ l[1] # d
  BY <1>1, <1>5, EmptySeq DEF n
<1>14. <<p>> \o (<<q>> \o <<r>>) = <<p, q, r>>
  <2> DEFINE D == Seq(C)
  <2>1. p \in D /\ q \in D /\ r \in D
    BY <1>6, <1>8
  <2> HIDE DEF D
  <2> QED
    BY ONLY <2>1, ThreeItems
<1> QED
  BY <1>10, <1>11, <1>12, <1>13, <1>14 DEF WordsOf, a, b, p, Before

\* A field: its name is the first piece, and the rest of the pieces are its value's.
FieldLine(l, d) ==
  /\ Places(l, d) # {} /\ First(Places(l, d)) > 1
  /\ LET v == Behind(l, d)
     IN /\ v # <<>> /\ Head(v) # d /\ Last(v) # d
        /\ \A i \in 1..(Len(v) - 1) : ~(v[i] = d /\ v[i + 1] = d)

FieldName(l, d) == SubSeq(l, 1, FirstPlace(l, d) - 1)

LEMMA FieldPieces ==
  ASSUME NEW C, NEW d \in C, NEW l \in Seq(C), FieldLine(l, d)
  PROVE  /\ FieldName(l, d) \in Seq(C) /\ Behind(l, d) \in Seq(C)
         /\ l # <<>> /\ Behind(l, d) # <<>> /\ Kept(Behind(l, d), d)
         /\ Pieces(l, d) = <<FieldName(l, d)>> \o Pieces(Behind(l, d), d)
<1> DEFINE S == Places(l, d)
           c == FirstPlace(l, d)
           n == Len(l)
           p == Before(l, c)
           v == After(l, c)
<1>1. /\ S \in SUBSET (1 .. n) /\ n \in Nat /\ S # {} /\ S \in SUBSET Nat
      /\ \A i \in S : l[i] = d
      /\ \A i \in 1 .. n : l[i] = d => i \in S
      /\ c > 1
  BY DEF Places, FieldLine, FirstPlace
<1>2. c \in S /\ \A j \in S : c <= j
  <2> HIDE DEF S
  <2> QED
    BY <1>1, FirstIs DEF FirstPlace, S
<1> HIDE DEF S, c, n
<1>3. c \in 1 .. n /\ c \in Nat /\ l[c] = d /\ \A j \in 1 .. c - 1 : l[j] # d
  <2>1. c \in 1 .. n /\ c \in Nat /\ l[c] = d
    BY <1>1, <1>2
  <2>2. ASSUME NEW j \in 1 .. c - 1 PROVE l[j] # d
    <3>1. j \in 1 .. n /\ ~ (c <= j)
      BY <1>1, <2>1
    <3> QED
      BY <1>1, <1>2, <3>1
  <2> QED
    BY <2>1, <2>2
<1>4. /\ p \in Seq(C) /\ Len(p) = c - 1
      /\ \A j \in 1 .. c - 1 : p[j] = l[j]
      /\ v \in Seq(C) /\ Len(v) = n - c
      /\ l = p \o <<d>> \o v
  <2>1. /\ p \in Seq(C) /\ Len(p) = c - 1
        /\ \A j \in 1 .. c - 1 : p[j] = l[j]
        /\ v \in Seq(C) /\ Len(v) = n - c
        /\ l = p \o <<l[c]>> \o v
    BY <1>3, CutOut, ZenonT(60) DEF n
  <2> HIDE DEF p, v
  <2> QED
    BY <1>3, <2>1
<1>5. p = FieldName(l, d) /\ v = Behind(l, d)
  BY DEF FieldName, Behind, Before, After, c, FirstPlace
<1> HIDE DEF p, v
<1>6. /\ v # <<>> /\ Head(v) # d /\ Last(v) # d
      /\ \A i \in 1..(Len(v) - 1) : ~(v[i] = d /\ v[i + 1] = d)
  BY <1>5 DEF FieldLine
<1>7. p # <<>> /\ \A j \in 1 .. Len(p) : p[j] # d
  <2>1. Len(p) > 0
    BY <1>1, <1>3, <1>4
  <2> QED
    BY <1>3, <1>4, <2>1, EmptySeq
<1>8. Kept(v, d)
  <2> SUFFICES ASSUME NEW i \in DOMAIN v, v[i] = d
               PROVE  i > 1 /\ i < Len(v) /\ v[i + 1] # d
    BY DEF Kept
  <2>1. i \in 1 .. Len(v) /\ Len(v) \in Nat
    BY <1>4
  <2>2. Head(v) = v[1] /\ Last(v) = v[Len(v)]
    BY <1>4, <1>6 DEF Last
  <2>3. i # 1 /\ i # Len(v)
    BY <1>6, <2>2
  <2>4. i \in 1 .. Len(v) - 1
    BY <2>1, <2>3
  <2> QED
    BY <1>6, <2>1, <2>3, <2>4
<1>9. Pieces(l, d) = <<p>> \o Pieces(v, d)
  <2>1. Pieces(p \o <<d>> \o v, d) = Pieces(p, d) \o Pieces(v, d)
    BY <1>4, CutPieces
  <2>2. Pieces(p, d) = <<p>>
    BY <1>4, <1>7, OnePiece
  <2> QED
    BY <1>4, <2>1, <2>2
<1>10. l # <<>>
  <2>1. Len(l) > 0
    BY <1>1, <1>3 DEF n
  <2> QED
    BY <2>1
<1> QED
  BY <1>4, <1>5, <1>6, <1>8, <1>9, <1>10

\* The first piece of a value begins as the value does.
Begins(v, d, P) ==
  \E p \in P, Q \in Seq(P) : Pieces(v, d) = <<p>> \o Q /\ p # <<>> /\ p[1] = v[1]

LEMMA FirstOfValue ==
  ASSUME NEW C, NEW d \in C, NEW v \in Seq(C), v # <<>>, Kept(v, d)
  PROVE  Begins(v, d, Seq(C))
<1>1. CASE \A i \in 1 .. Len(v) : v[i] # d
  <2>1. Pieces(v, d) = <<v>>
    BY <1>1, OnePiece
  <2>2. <<v>> = <<v>> \o <<>> /\ <<>> \in Seq(Seq(C))
    OBVIOUS
  <2> QED
    BY <2>1, <2>2 DEF Begins
<1>2. CASE \E i \in 1 .. Len(v) : v[i] = d
  <2>1. PICK i \in 1 .. Len(v) :
           /\ v = Before(v, i) \o <<d>> \o After(v, i)
           /\ Before(v, i) \in Seq(C) /\ Before(v, i) # <<>>
           /\ \A j \in 1 .. Len(Before(v, i)) : Before(v, i)[j] # d
           /\ After(v, i) \in Seq(C)
    BY <1>2, KeptCut
  <2> DEFINE p == Before(v, i)
             w == After(v, i)
  <2>2. /\ v = p \o <<d>> \o w
        /\ p \in Seq(C) /\ p # <<>> /\ \A j \in 1 .. Len(p) : p[j] # d
        /\ w \in Seq(C)
    BY <2>1
  <2> HIDE DEF p, w
  <2>3. Pieces(v, d) = <<p>> \o Pieces(w, d)
    <3>1. Pieces(p \o <<d>> \o w, d) = Pieces(p, d) \o Pieces(w, d)
      BY <2>2, CutPieces
    <3>2. Pieces(p, d) = <<p>>
      BY <2>2, OnePiece
    <3> QED
      BY <2>2, <3>1, <3>2
  <2>4. Pieces(w, d) \in Seq(Seq(C))
    BY <2>2, PiecesType
  <2>5. p[1] = v[1]
    <3>1. /\ \A j \in 1 .. Len(p) : (p \o <<d>> \o w)[j] = p[j]
      BY <2>2, BehindCut
    <3>2. 1 \in 1 .. Len(p)
      BY <2>2, EmptySeq
    <3> QED
      BY <2>2, <3>1, <3>2
  <2> QED
    BY <2>2, <2>3, <2>4, <2>5 DEF Begins
<1> QED
  BY <1>1, <1>2

\* What stands behind a character it may begin with.
Without(v, sp) == IF Head(v) = sp THEN Tail(v) ELSE v

JoinedValue(fields, d, sp) ==
  LET f == Tail(fields)
      first == IF f[1][1] = sp THEN Tail(f[1]) ELSE f[1]
  IN Rejoined(<<first>> \o Tail(f), d)

LEMMA ValueJoined ==
  ASSUME NEW C, NEW d \in C, NEW v \in Seq(C), v # <<>>, Kept(v, d), NEW sp,
         NEW name \in Seq(C)
  PROVE  /\ JoinedValue(<<name>> \o Pieces(v, d), d, sp) = Without(v, sp)
         /\ (<<name>> \o Pieces(v, d))[1] = name
         /\ Len(<<name>> \o Pieces(v, d)) >= 2
<1>1. PICK p \in Seq(C), Q \in Seq(Seq(C)) :
        Pieces(v, d) = <<p>> \o Q /\ p # <<>> /\ p[1] = v[1]
  <2>1. Begins(v, d, Seq(C))
    BY FirstOfValue
  <2> QED
    BY ONLY <2>1 DEF Begins
<1> DEFINE P == Pieces(v, d)
           f == Tail(<<name>> \o P)
<1> DEFINE D == Seq(C)
           g == FlattenSeq(Prefixed(Q, d))
<1>2. v = p \o g
  <2>1. Rejoined(P, d) = v
    BY RejoinedPieces
  <2>2. Rejoined(<<p>> \o Q, d) = p \o g
    BY RejoinedFirst
  <2>3. P = <<p>> \o Q
    BY <1>1
  <2> HIDE DEF P, g
  <2> QED
    BY <2>1, <2>2, <2>3
<1>3. g \in Seq(C)
  <2>1. Prefixed(Q, d) \in Seq(Seq(C))
    BY PrefixedType
  <2> QED
    BY <2>1, FlattenType
<1> HIDE DEF g, P
<1>4. Tail(p) \in Seq(C) /\ Tail(p) \o g = Tail(v) /\ Head(v) = p[1]
  <2>1. Tail(p) \in Seq(C)
    BY <1>1
  <2>2. Head(v) = p[1]
    BY <1>1
  <2> DEFINE x == Tail(p)
             y == Tail(v)
  <2>3. /\ Len(x) = Len(p) - 1 /\ \A i \in 1 .. Len(p) - 1 : x[i] = p[i + 1]
        /\ Len(p) \in Nat /\ Len(p) >= 1
    BY <1>1, EmptySeq
  <2>4. /\ y \in Seq(C) /\ Len(y) = Len(v) - 1 /\ \A i \in 1 .. Len(v) - 1 : y[i] = v[i + 1]
    OBVIOUS
  <2> HIDE DEF x, y
  <2>5. /\ Len(v) = Len(p) + Len(g) /\ Len(g) \in Nat
        /\ \A i \in 1 .. Len(v) : v[i] = IF i <= Len(p) THEN p[i] ELSE g[i - Len(p)]
    BY <1>2, <1>3, ConcatProperties
  <2>6. /\ x \o g \in Seq(C) /\ Len(x \o g) = Len(x) + Len(g)
        /\ \A i \in 1 .. Len(x) + Len(g) : (x \o g)[i] = IF i <= Len(x) THEN x[i] ELSE g[i - Len(x)]
    BY <1>3, <2>1, ConcatProperties DEF x
  <2>7. ASSUME NEW i \in 1 .. Len(v) - 1 PROVE (x \o g)[i] = y[i]
    <3>1. i + 1 \in 1 .. Len(v) /\ i \in 1 .. Len(x) + Len(g) /\ (i + 1) - Len(p) = i - Len(x)
      BY <2>3, <2>5
    <3>2. i <= Len(x) <=> i + 1 <= Len(p)
      BY <2>3
    <3>3. i <= Len(x) => x[i] = p[i + 1]
      BY <2>3
    <3> QED
      BY <2>4, <2>5, <2>6, <3>1, <3>2, <3>3
  <2>8. Len(x \o g) = Len(v) - 1
    BY <2>3, <2>5, <2>6
  <2>9. x \o g = y
    BY <2>4, <2>6, <2>7, <2>8, SeqEqual
  <2> QED
    BY <2>1, <2>2, <2>9 DEF x, y
<1>5. f = P /\ (<<name>> \o P)[1] = name /\ Len(<<name>> \o P) = Len(P) + 1
  <2>1. P \in Seq(D)
    BY PiecesType DEF P
  <2>2. name \in D
    OBVIOUS
  <2> HIDE DEF D
  <2> QED
    BY <2>1, <2>2
<1>6. P[1] = p /\ Tail(P) = Q /\ Len(P) >= 1
  <2>1. Q \in Seq(D) /\ p \in D /\ P = <<p>> \o Q
    BY <1>1 DEF P
  <2> HIDE DEF D
  <2> QED
    BY ONLY <2>1
<1> HIDE DEF f
<1> DEFINE first == IF f[1][1] = sp THEN Tail(f[1]) ELSE f[1]
<1>7. Rejoined(<<first>> \o Tail(f), d) = Without(v, sp)
  <2>1. CASE p[1] = sp
    <3>1. first = Tail(p)
      BY <1>5, <1>6, <2>1
    <3>2. Rejoined(<<Tail(p)>> \o Q, d) = Tail(p) \o g
      BY <1>4, RejoinedFirst DEF g
    <3>3. Without(v, sp) = Tail(v)
      BY <1>4, <2>1 DEF Without
    <3> QED
      BY <1>4, <1>5, <1>6, <3>1, <3>2, <3>3
  <2>2. CASE p[1] # sp
    <3>1. first = p
      BY <1>5, <1>6, <2>2
    <3>2. Rejoined(<<p>> \o Q, d) = p \o g
      BY RejoinedFirst DEF g
    <3>3. Without(v, sp) = v
      BY <1>4, <2>2 DEF Without
    <3> QED
      BY <1>2, <1>5, <1>6, <3>1, <3>2, <3>3
  <2> QED
    BY <2>1, <2>2
<1>8. Len(P) \in Nat
  BY PiecesType DEF P
<1>9. Len(<<name>> \o P) >= 2
  BY <1>5, <1>6, <1>8
<1> QED
  BY <1>5, <1>7, <1>9 DEF JoinedValue, f, P

-------------------------------------------------------------------------------
(* A well-formed request is read as what it says. *)

LEMMA LineSplit ==
  ASSUME NEW C, "CR" \in C, "NUL" \notin C, NEW l \in Seq(C), NEW d
  PROVE  Split(AllButLast(l \o <<"CR">>), d) = Pieces(l, d)
<1>1. AllButLast(l \o <<"CR">>) = l
  BY EndTaken
<1>2. "NUL" \notin ToSet(l)
  <2>1. \A x \in ToSet(l) : x \in C
    BY DEF ToSet
  <2> QED
    BY <2>1
<1> QED
  BY <1>1, <1>2, SplitWhole

\* A line that begins with no space and is ended by a CR is good.
LEMMA LineGood ==
  ASSUME NEW C, "CR" \in C, NEW l \in Seq(C), l # <<>>, l[1] # " "
  PROVE  GoodLine(l \o <<"CR">>)
<1>1. l \o <<"CR">> # <<>> /\ Last(l \o <<"CR">>) = "CR" /\ Head(l \o <<"CR">>) = l[1]
  <2> DEFINE sp == " "
  <2>1. l # <<>> /\ l[1] # sp
    OBVIOUS
  <2> HIDE DEF sp
  <2> QED
    BY ONLY "CR" \in C, l \in Seq(C), <2>1, EndTaken
<1>2. "CR" # " "
  OBVIOUS
<1> QED
  BY <1>1, <1>2, Zenon DEF GoodLine, Trimmed

\* A header as its line says it.
NameOf(l) == FieldName(l, ":")
ValueSaid(l) == Without(ValueOf(l), " ")

LEMMA HeaderRead ==
  ASSUME NEW C, ":" \in C, "CR" \in C, "NUL" \notin C, NEW l \in Seq(C), HeaderLine(l)
  PROVE  /\ l # <<>>
         /\ GoodHeader(l \o <<"CR">>)
         /\ Header(l \o <<"CR">>).name = NameOf(l)
         /\ Header(l \o <<"CR">>).value = ValueSaid(l)
<1> DEFINE d == ":"
           sp == " "
           u == l \o <<"CR">>
           v == Behind(l, d)
           name == FieldName(l, d)
           F == Fields(u)
           f == Tail(F)
           first == IF f[1][1] = sp THEN Tail(f[1]) ELSE f[1]
           R == Rejoined(<<first>> \o Tail(f), d)
<1>1. FieldLine(l, d) /\ Head(l) # sp
  BY Zenon DEF HeaderLine, FieldLine, ValueOf
<1>2. F = Split(AllButLast(u), d)
  BY Zenon DEF Fields
<1>3. Header(u) = [name |-> F[1], value |-> R]
  BY Zenon DEF Header
<1>4. GoodHeader(u) = (GoodLine(u) /\ Len(F) >= 2)
  BY Zenon DEF GoodHeader
<1>5. NameOf(l) = name /\ ValueSaid(l) = Without(v, sp)
  BY Zenon DEF NameOf, ValueSaid, ValueOf
<1>6. d \in C
  OBVIOUS
<1>7. l # <<>> /\ l[1] # " " => GoodLine(u)
  BY LineGood, Zenon
<1>8. sp = " "
  OBVIOUS
<1> HIDE DEF d, sp
<1>9. /\ name \in Seq(C) /\ v \in Seq(C) /\ l # <<>> /\ v # <<>> /\ Kept(v, d)
      /\ Pieces(l, d) = <<name>> \o Pieces(v, d)
  BY <1>1, <1>6, FieldPieces
<1>10. F = <<name>> \o Pieces(v, d)
  <2>1. Split(AllButLast(u), d) = Pieces(l, d)
    BY LineSplit
  <2> QED
    BY <1>2, <1>9, <2>1
<1> HIDE DEF v, name
<1>11. R = Without(v, sp) /\ F[1] = name /\ Len(F) >= 2
  <2> HIDE DEF F
  <2>1. JoinedValue(F, d, sp) = Without(v, sp) /\ F[1] = name /\ Len(F) >= 2
    BY <1>6, <1>9, <1>10, ValueJoined
  <2> QED
    BY <2>1 DEF JoinedValue
<1> HIDE DEF R, F, f, u
<1>12. Head(l) = l[1]
  BY <1>9
<1>13. l[1] # sp
  BY <1>1, <1>12
<1>14. GoodLine(u)
  BY <1>7, <1>8, <1>9, <1>13, Zenon
<1>15. Header(u).name = name /\ Header(u).value = Without(v, sp)
  BY <1>3, <1>11
<1> QED
  BY <1>4, <1>5, <1>9, <1>11, <1>14, <1>15, Zenon DEF u

\* The greatest number of a set is the one that CHOOSE finds.
LEMMA GreatestNumber ==
  ASSUME NEW n \in Nat, NEW S \in SUBSET (1 .. n), S # {}
  PROVE  \E m \in S : /\ \A j \in S : j <= m
                      /\ (CHOOSE i \in S : \A j \in S : j <= i) = m
<1> DEFINE R == {n - i : i \in S}
<1>1. R \in SUBSET Nat /\ R # {}
  OBVIOUS
<1>2. PICK r \in R : \A k \in R : r <= k
  <2> HIDE DEF R
  <2> QED
    BY <1>1, LeastNumber
<1>3. PICK m \in S : r = n - m
  OBVIOUS
<1>4. \A j \in S : j <= m
  <2> SUFFICES ASSUME NEW j \in S PROVE j <= m
    OBVIOUS
  <2>1. n - j \in R
    OBVIOUS
  <2>2. n - m <= n - j
    BY <1>2, <1>3, <2>1
  <2> QED
    BY <2>2
<1> DEFINE x == CHOOSE i \in S : \A j \in S : j <= i
<1>5. x \in S /\ \A j \in S : j <= x
  BY <1>4
<1>6. x = m
  <2> HIDE DEF x
  <2>1. x <= m /\ m <= x
    BY <1>4, <1>5
  <2> QED
    BY <1>5, <2>1
<1> QED
  BY <1>4, <1>6

\* The headers of the lines of a head, of which the last of a name counts.
HeadersSaid(L) ==
  [n \in {NameOf(L[i]) : i \in 2 .. Len(L)} |->
     ValueSaid(L[CHOOSE i \in {k \in 2 .. Len(L) : NameOf(L[k]) = n} :
                   \A j \in {k \in 2 .. Len(L) : NameOf(L[k]) = n} : j <= i])]

LEMMA HeadersRead ==
  ASSUME NEW C, NEW L \in Seq(C), Len(L) >= 1, NEW H \in Seq(C),
         Len(H) = Len(L) - 1,
         \A i \in 1 .. Len(H) : /\ Header(H[i]).name = NameOf(L[i + 1])
                                /\ Header(H[i]).value = ValueSaid(L[i + 1])
  PROVE  HeadersOf(H) = HeadersSaid(L)
<1> DEFINE N == Len(L)
           A == {Header(H[i]).name : i \in DOMAIN H}
           B == {NameOf(L[i]) : i \in 2 .. N}
           S(n) == {k \in 2 .. N : NameOf(L[k]) = n}
           x(n) == CHOOSE i \in DOMAIN H :
                      /\ Header(H[i]).name = n
                      /\ \A j \in DOMAIN H : Header(H[j]).name = n => j <= i
           y(n) == CHOOSE i \in S(n) : \A j \in S(n) : j <= i
<1>1. N \in Nat /\ N >= 1 /\ DOMAIN H = 1 .. N - 1 /\ Len(H) = N - 1
  OBVIOUS
<1>2. HeadersOf(H) = [n \in A |-> Header(H[x(n)]).value]
  BY DEF HeadersOf
<1>3. HeadersSaid(L) = [n \in B |-> ValueSaid(L[y(n)])]
  BY DEF HeadersSaid
<1> HIDE DEF N
<1>4. \A i \in 1 .. N - 1 : /\ Header(H[i]).name = NameOf(L[i + 1])
                            /\ Header(H[i]).value = ValueSaid(L[i + 1])
                            /\ i + 1 \in 2 .. N
  BY <1>1
<1>5. A = B
  <2>1. ASSUME NEW i \in DOMAIN H PROVE Header(H[i]).name \in B
    BY <1>1, <1>4
  <2>2. ASSUME NEW i \in 2 .. N PROVE NameOf(L[i]) \in A
    <3>1. i - 1 \in 1 .. N - 1 /\ (i - 1) + 1 = i
      BY <1>1
    <3>2. Header(H[i - 1]).name = NameOf(L[i])
      BY <1>4, <3>1
    <3>3. i - 1 \in DOMAIN H
      BY <1>1, <3>1
    <3> QED
      BY <3>2, <3>3
  <2> QED
    BY <2>1, <2>2
<1>6. ASSUME NEW n \in B PROVE Header(H[x(n)]).value = ValueSaid(L[y(n)])
  <2> DEFINE T == S(n)
  <2>1. T \in SUBSET (1 .. N) /\ T # {}
    BY <1>1
  <2>2. PICK m \in T : (\A j \in T : j <= m) /\ (CHOOSE i \in T : \A j \in T : j <= i) = m
    <3> HIDE DEF T
    <3> QED
      BY <1>1, <2>1, GreatestNumber
  <2>3. y(n) = m
    BY <2>2
  <2>4. m \in 2 .. N /\ NameOf(L[m]) = n /\ m - 1 \in 1 .. N - 1 /\ (m - 1) + 1 = m
    BY <1>1
  <2> DEFINE Is(i) == /\ Header(H[i]).name = n
                      /\ \A j \in DOMAIN H : Header(H[j]).name = n => j <= i
             z == CHOOSE i \in DOMAIN H : Is(i)
  <2>5. Is(m - 1) /\ m - 1 \in DOMAIN H
    <3>1. Header(H[m - 1]).name = n
      BY <1>4, <2>4
    <3>2. ASSUME NEW j \in DOMAIN H, Header(H[j]).name = n PROVE j <= m - 1
      <4>1. j \in 1 .. N - 1 /\ NameOf(L[j + 1]) = n /\ j + 1 \in 2 .. N
        BY <1>1, <1>4, <3>2
      <4>2. j + 1 \in T
        BY <4>1
      <4>3. j + 1 <= m
        BY <2>2, <4>2
      <4> QED
        BY <2>4, <4>1, <4>3
    <3> QED
      BY <1>1, <2>4, <3>1, <3>2
  <2>6. z \in DOMAIN H /\ Is(z)
    <3> HIDE DEF Is
    <3> QED
      BY <2>5
  <2>7. x(n) = z
    OBVIOUS
  <2> HIDE DEF z, x
  <2>8. z = m - 1
    <3>1. z \in 1 .. N - 1 /\ m - 1 <= z
      BY <1>1, <2>5, <2>6
    <3>2. z <= m - 1
      BY <2>5, <2>6
    <3> QED
      BY <1>1, <2>4, <3>1, <3>2
  <2> HIDE DEF y
  <2>9. Header(H[m - 1]).value = ValueSaid(L[m])
    BY <1>4, <2>4
  <2> QED
    BY <2>3, <2>7, <2>8, <2>9
<1> HIDE DEF A, B, x, y
<1> QED
  BY <1>2, <1>3, <1>5, <1>6

\* A list of a head, its end and what follows is divided there.
LEMMA LinesOfRequest ==
  ASSUME NEW C, NEW P \in Seq(Seq(C)), NEW R \in Seq(Seq(C)), Len(P) >= 1, <<"CR">> \in Seq(C),
         \A i \in 2 .. Len(P) : P[i] # <<"CR">>
  PROVE  LET Q == P \o <<<<"CR">>>> \o R
         IN /\ Q # <<>> /\ Q[1] = P[1]
            /\ HeadersIn(Q) = SubSeq(P, 2, Len(P))
            /\ BodyIn(Q) = Rejoined(R, "LF")
<1> DEFINE D == Seq(C)
           e == <<"CR">>
           Q == P \o <<e>> \o R
           n == Len(P)
<1>1. n \in Nat /\ n >= 1 /\ P \in Seq(D) /\ R \in Seq(D) /\ e \in D
  OBVIOUS
<1> HIDE DEF D, e
<1>2. /\ Q \in Seq(D) /\ Len(Q) = n + 1 + Len(R) /\ Len(R) \in Nat
      /\ \A j \in 1 .. n : Q[j] = P[j]
      /\ Q[n + 1] = e
      /\ SubSeq(Q, n + 2, Len(Q)) = R
  BY <1>1, BehindCut
<1>3. SubSeq(Q, 2, n) = SubSeq(P, 2, n)
  <2> DEFINE F == <<e>> \o R
  <2>1. F \in Seq(D) /\ <<e>> \in Seq(D)
    BY <1>1
  <2>2. P \o F = Q
    <3> HIDE DEF F, Q
    <3>1. \A p, q, w \in Seq(D) : p \o (q \o w) = (p \o q) \o w
      BY ONLY Assoc
    <3>2. P \o (<<e>> \o R) = (P \o <<e>>) \o R
      BY ONLY <1>1, <2>1, <3>1
    <3> QED
      BY <3>2 DEF F, Q
  <2> HIDE DEF F, Q
  <2>3. 2 \in Nat /\ 2 >= 1 /\ n \in Int /\ n <= Len(P)
    BY <1>1
  <2>4. SubSeq(P \o F, 2, n) = SubSeq(P, 2, n)
    <3> HIDE DEF n
    <3> QED
      BY <1>1, <2>1, <2>3, SamePart
  <2> QED
    BY <2>2, <2>4
<1>4. HeadLines(Q) = n
  <2> HIDE DEF Q, n
  <2>1. n + 1 \in 2 .. Len(Q) /\ (n + 1) - 1 = n
    BY <1>1, <1>2
  <2>2. Q[n + 1] = <<"CR">>
    BY <1>2 DEF e
  <2>3. \A j \in 2 .. (n + 1) - 1 : Q[j] # <<"CR">>
    <3> SUFFICES ASSUME NEW j \in 2 .. (n + 1) - 1 PROVE Q[j] # <<"CR">>
      OBVIOUS
    <3>1. j \in 1 .. n /\ j \in 2 .. n
      BY <1>1
    <3>2. P[j] # <<"CR">>
      BY <3>1 DEF n
    <3> QED
      BY <1>2, <3>1, <3>2
  <2> QED
    BY <1>2, <2>1, <2>2, <2>3, HeadLinesIs
<1>5. Q[1] = P[1] /\ Q # <<>>
  <2> HIDE DEF Q, n
  <2>1. 1 \in 1 .. n /\ Len(Q) # 0
    BY <1>1, <1>2
  <2> QED
    BY <1>2, <2>1
<1> HIDE DEF Q
<1>6. HeadersIn(Q) = SubSeq(P, 2, n)
  BY <1>3, <1>4 DEF HeadersIn
<1>7. BodyIn(Q) = Rejoined(R, "LF")
  BY <1>2, <1>4 DEF BodyIn
<1> QED
  BY <1>5, <1>6, <1>7 DEF Q, n, e

\* What a well-formed request says, by its words and headers.
FirstWord(l, d) == SubSeq(l, 1, FirstPlace(l, d) - 1)
SecondWord(l, d) == SubSeq(l, FirstPlace(l, d) + 1, NextPlace(l, d) - 1)
ThirdWord(l, d) == SubSeq(l, NextPlace(l, d) + 1, Len(l))

LEMMA SaidIs ==
  ASSUME NEW t
  PROVE  LET L == LinesOf(HeadOf(t))
         IN Said(t) = [method |-> MethodOf(FirstWord(L[1], " ")),
                       uri |-> SecondWord(L[1], " "),
                       version |-> VersionOf(ThirdWord(L[1], " ")),
                       headers |-> HeadersSaid(L),
                       body |-> BodyOf(t)]
BY Zenon DEF Said, FirstWord, SecondWord, ThirdWord, HeadersSaid, BodyOf, HeadOf, FirstPlace,
             NextPlace, NameOf, FieldName, ValueSaid, Without

\* What the parser makes of a line of three words.
Understood(a, b, c, headers, body) ==
  IF Len(b) > MaxUriSize THEN Refused("UriTooLarge")
  ELSE [result |-> "request",
        method |-> MethodOf(a), uri |-> b, version |-> VersionOf(c),
        headers |-> HeadersOf(headers),
        body |-> body]

IsUnderstood(first, a, b, c, headers, body) ==
  Verdict(first, headers, body) = Understood(a, b, c, headers, body)

LEMMA VerdictGood ==
  ASSUME NEW first, NEW headers, NEW body, GoodLine(first),
         NEW a, NEW b, NEW c, Split(AllButLast(first), " ") = <<a, b, c>>,
         \A i \in DOMAIN headers : GoodHeader(headers[i])
  PROVE  IsUnderstood(first, a, b, c, headers, body)
<1> DEFINE line == Split(AllButLast(first), " ")
<1>1. line = <<a, b, c>>
  OBVIOUS
<1>2. Verdict(first, headers, body) =
        IF ~GoodLine(first) \/ Len(line) # 3
           \/ \E i \in DOMAIN headers : ~GoodHeader(headers[i])
          THEN Refused("BadRequest")
        ELSE IF Len(line[2]) > MaxUriSize THEN Refused("UriTooLarge")
        ELSE [result |-> "request",
              method |-> MethodOf(line[1]), uri |-> line[2], version |-> VersionOf(line[3]),
              headers |-> HeadersOf(headers),
              body |-> body]
  BY Zenon DEF Verdict
<1> HIDE DEF line
<1>3. Len(line) = 3 /\ line[1] = a /\ line[2] = b /\ line[3] = c
  BY ONLY <1>1
<1> QED
  BY <1>2, <1>3, Zenon DEF IsUnderstood, Understood

LEMMA RequestRead ==
  ASSUME NEW T, NEW t \in Seq(T), WellFormed(t)
  PROVE  LET said == Said(t)
             got == ParseRequest(t)
         IN IF Len(said.uri) > MaxUriSize THEN got.result = "UriTooLarge"
            ELSE /\ got.result = "request"
                 /\ \A f \in {"method", "uri", "version", "headers"} : got[f] = said[f]
                 /\ KeptBody(said.body) => got.body = said.body
<1> DEFINE sp == " "
           d == ":"
           C == ToSet(t) \cup {"LF", "CR", sp, d}
           L == LinesOf(HeadOf(t))
           N == Len(L)
           P == Ended(L)
           H == SubSeq(P, 2, N)
           b == BodyOf(t)
           R == Pieces(b, "LF")
           Q == P \o <<<<"CR">>>> \o R
\* The lines.
<1>1. /\ HeadEnds(t) # {} /\ "NUL" \notin ToSet(t)
      /\ \A i \in DOMAIN L : "LF" \notin ToSet(L[i])
      /\ RequestLine(L[1])
      /\ \A i \in 2 .. N : HeaderLine(L[i])
  BY Zenon DEF WellFormed, HeadOf
<1>2. "NUL" # sp /\ "NUL" # d /\ "NUL" # "LF" /\ "NUL" # "CR"
  OBVIOUS
<1>3. sp = " " /\ d = ":"
  OBVIOUS
<1> HIDE DEF sp, d
<1>4. /\ "LF" \in C /\ "CR" \in C /\ sp \in C /\ d \in C /\ "NUL" \notin C
      /\ t \in Seq(C)
  <2>1. "LF" \in C /\ "CR" \in C /\ sp \in C /\ d \in C /\ "NUL" \notin C
    BY <1>1, <1>2
  <2>2. \A i \in 1 .. Len(t) : t[i] \in C
    BY DEF ToSet
  <2> HIDE DEF C
  <2>3. t \in Seq(C)
    BY <2>2
  <2> QED
    BY <2>1, <2>3
<1> HIDE DEF C
<1>5. /\ L \in Seq(Seq(C)) /\ N >= 1 /\ P \in Seq(Seq(C))
      /\ Pieces(t, "LF") = Q
      /\ b \in Seq(C) /\ R \in Seq(Seq(C))
  <2>1. b \in Seq(C)
    BY <1>1, <1>4, HeadParts
  <2>2. L \in Seq(Seq(C)) /\ N >= 1 /\ P \in Seq(Seq(C)) /\ Pieces(t, "LF") = Q
    BY <1>1, <1>4, RequestPieces
  <2> HIDE DEF b
  <2>3. R \in Seq(Seq(C))
    BY <2>1, PiecesType
  <2> QED
    BY <2>1, <2>2, <2>3
<1> HIDE DEF L, b, R, Q, P
<1>6. /\ N \in Nat /\ Len(P) = N /\ \A i \in 1 .. N : P[i] = L[i] \o <<"CR">> /\ L[i] \in Seq(C)
  BY <1>5 DEF P, Ended
<1> HIDE DEF N
<1>7. ASSUME NEW i \in 2 .. N
      PROVE  /\ i \in 1 .. N /\ L[i] # <<>> /\ GoodHeader(P[i])
             /\ Header(P[i]).name = NameOf(L[i]) /\ Header(P[i]).value = ValueSaid(L[i])
  <2>1. i \in 1 .. N
    BY <1>6
  <2>2. HeaderLine(L[i]) /\ L[i] \in Seq(C) /\ P[i] = L[i] \o <<"CR">>
    BY <1>1, <1>6, <2>1
  <2>3. ":" \in C
    BY <1>3, <1>4
  <2>4. /\ L[i] # <<>> /\ GoodHeader(L[i] \o <<"CR">>)
        /\ Header(L[i] \o <<"CR">>).name = NameOf(L[i])
        /\ Header(L[i] \o <<"CR">>).value = ValueSaid(L[i])
    BY <1>4, <2>2, <2>3, HeaderRead
  <2> QED
    BY <2>1, <2>2, <2>4
\* How the parser divides them.
<1>8. Split(t, "LF") = Q
  BY <1>1, <1>5, SplitWhole
<1>9. /\ Q # <<>> /\ Q[1] = P[1] /\ HeadersIn(Q) = H /\ BodyIn(Q) = Rejoined(R, "LF")
  <2>1. ASSUME NEW i \in 2 .. N PROVE P[i] # <<"CR">>
    <3>1. P[i] = L[i] \o <<"CR">> /\ L[i] \in Seq(C) /\ L[i] # <<>>
      BY <1>6, <1>7
    <3>2. Len(L[i]) # 0 /\ Len(L[i]) \in Nat
      BY <3>1, EmptySeq
    <3>3. Len(L[i] \o <<"CR">>) = Len(L[i]) + 1
      BY <1>4, <3>1
    <3>4. Len(P[i]) = Len(L[i]) + 1
      BY <3>1, <3>3
    <3>5. Len(<<"CR">>) = 1
      OBVIOUS
    <3>6. Len(P[i]) # Len(<<"CR">>)
      BY <3>2, <3>4, <3>5
    <3> QED
      BY ONLY <3>6
  <2>2. <<"CR">> \in Seq(C)
    BY <1>4
  <2> QED
    BY <1>5, <1>6, <2>1, <2>2, LinesOfRequest DEF Q
<1>10. t # <<>>
  <2> SUFFICES ASSUME t = <<>> PROVE FALSE
    OBVIOUS
  <2>1. Len(t) = 0
    OBVIOUS
  <2> QED
    BY <1>1, <2>1 DEF HeadEnds
<1>11. ParseRequest(t) = Verdict(P[1], H, Rejoined(R, "LF"))
  <2>1. ParseRequest(t) = ParseLines(Q)
    BY <1>8, <1>10 DEF ParseRequest
  <2>2. ParseLines(Q) = Verdict(Q[1], HeadersIn(Q), BodyIn(Q))
    BY <1>9, VerdictOn
  <2> QED
    BY <1>9, <2>1, <2>2
\* The request line.
<1> DEFINE l == L[1]
           w1 == FirstWord(l, sp)
           w2 == SecondWord(l, sp)
           w3 == ThirdWord(l, sp)
<1>12. l \in Seq(C) /\ P[1] = l \o <<"CR">>
  <2>1. 1 \in 1 .. N
    BY <1>5, <1>6 DEF N
  <2> QED
    BY <1>6, <2>1
<1>13. ThreeWords(l, sp)
  BY <1>1, <1>3, Zenon DEF RequestLine, ThreeWords
<1>14. Pieces(l, sp) = <<w1, w2, w3>> /\ l # <<>> /\ l[1] # sp
  <2> HIDE DEF l
  <2> QED
    BY <1>4, <1>12, <1>13, ThreePieces DEF WordsOf, FirstWord, SecondWord, ThirdWord
<1> HIDE DEF l
<1>15. Split(AllButLast(P[1]), " ") = <<w1, w2, w3>>
  <2>1. Split(AllButLast(l \o <<"CR">>), sp) = Pieces(l, sp)
    BY <1>4, <1>12, LineSplit
  <2>2. Split(AllButLast(P[1]), sp) = <<w1, w2, w3>>
    BY <1>12, <1>14, <2>1
  <2> QED
    BY <1>3, <2>2, Zenon
<1>16. GoodLine(P[1])
  <2>1. l[1] # " "
    BY <1>3, <1>14, Zenon
  <2> QED
    BY <1>4, <1>12, <1>14, <2>1, LineGood, Zenon
\* The headers.
<1>17. /\ H \in Seq(Seq(C)) /\ Len(H) = N - 1
       /\ \A i \in 1 .. N - 1 : H[i] = P[i + 1]
  <2> DEFINE D == Seq(C)
  <2>1. P \in Seq(D) /\ 1 \in 1 .. Len(P) /\ 1 + 1 = 2
    BY <1>5, <1>6 DEF N
  <2> HIDE DEF D
  <2>2. /\ After(P, 1) \in Seq(D) /\ Len(After(P, 1)) = Len(P) - 1
        /\ \A j \in 1 .. Len(P) - 1 : After(P, 1)[j] = P[1 + j]
    BY <2>1, CutOut, ZenonT(60)
  <2>3. After(P, 1) = H
    BY <1>6, <2>1 DEF After
  <2>4. \A j \in 1 .. N - 1 : 1 + j = j + 1
    BY <1>6
  <2> HIDE DEF H
  <2> QED
    BY <1>6, <2>2, <2>3, <2>4 DEF D
<1> HIDE DEF H
<1>18. \A i \in 1 .. N - 1 : i + 1 \in 2 .. N
  BY <1>6
<1>19. \A i \in DOMAIN H : GoodHeader(H[i])
  <2>1. DOMAIN H = 1 .. N - 1
    BY <1>17
  <2> QED
    BY <1>7, <1>17, <1>18, <2>1
<1>20. HeadersOf(H) = HeadersSaid(L)
  <2>1. L \in Seq(Seq(C)) /\ Len(L) = N /\ Len(L) >= 1
    BY <1>5 DEF N
  <2>2. \A i \in 1 .. Len(H) : /\ Header(H[i]).name = NameOf(L[i + 1])
                               /\ Header(H[i]).value = ValueSaid(L[i + 1])
    BY <1>7, <1>17, <1>18
  <2> QED
    BY <1>17, <2>1, <2>2, HeadersRead
\* The body.
<1>21. KeptBody(b) => Rejoined(R, "LF") = b
  <2> SUFFICES ASSUME KeptBody(b) PROVE Rejoined(R, "LF") = b
    OBVIOUS
  <2>1. Kept(b, "LF")
    BY DEF KeptBody, Kept
  <2> QED
    BY <1>4, <1>5, <2>1, RejoinedPieces DEF R
\* What was said and what was understood.
<1> DEFINE body == Rejoined(R, "LF")
           said == Said(t)
           got == ParseRequest(t)
<1>22. said = [method |-> MethodOf(w1), uri |-> w2, version |-> VersionOf(w3),
               headers |-> HeadersSaid(L), body |-> b]
  BY <1>3, SaidIs, Zenon DEF L, l, b
<1>23. got = IF Len(w2) > MaxUriSize THEN Refused("UriTooLarge")
             ELSE [result |-> "request",
                   method |-> MethodOf(w1), uri |-> w2, version |-> VersionOf(w3),
                   headers |-> HeadersSaid(L), body |-> body]
  <2> HIDE DEF w1, w2, w3, body
  <2>1. IsUnderstood(P[1], w1, w2, w3, H, body)
    BY <1>15, <1>16, <1>19, VerdictGood, Zenon
  <2> QED
    BY <1>11, <1>20, <2>1, Zenon DEF IsUnderstood, Understood, body
<1> HIDE DEF said, got, w1, w2, w3, body
<1>24. said.uri = w2 /\ said.body = b
  BY <1>22
<1>25. CASE Len(w2) > MaxUriSize
  <2>1. got.result = "UriTooLarge"
    BY <1>23, <1>25 DEF Refused
  <2> QED
    BY <1>24, <1>25, <2>1 DEF said, got
<1>26. CASE ~ (Len(w2) > MaxUriSize)
  <2>1. got.result = "request" /\ got.body = body
    BY <1>23, <1>26
  <2>2. \A f \in {"method", "uri", "version", "headers"} : got[f] = said[f]
    <3>1. /\ got["method"] = said["method"] /\ got["uri"] = said["uri"]
          /\ got["version"] = said["version"] /\ got["headers"] = said["headers"]
      BY <1>22, <1>23, <1>26
    <3> QED
      BY <3>1
  <2>3. KeptBody(said.body) => got.body = said.body
    BY <1>21, <1>24, <2>1 DEF body
  <2> QED
    BY <1>24, <1>26, <2>1, <2>2, <2>3 DEF said, got
<1> QED
  BY <1>25, <1>26

-------------------------------------------------------------------------------
(* Texts that change. *)

\* A text stays one, of a kind there is, over the characters it may have.
EditInv == text \in Seq(Alphabet) /\ kind \in DOMAIN Chars

LEMMA EditInit == Init => EditInv
BY EditsAssumption DEF Init, EditInv

LEMMA EditStep == EditInv /\ [Next]_vars => EditInv'
<1> SUFFICES ASSUME EditInv, [Next]_vars PROVE EditInv'
  OBVIOUS
<1>1. \A c \in Chars[kind] : c \in Alphabet
  <2> SUFFICES ASSUME NEW c \in Chars[kind] PROVE c \in Alphabet
    OBVIOUS
  <2>1. Chars[kind] \in {Chars[k] : k \in DOMAIN Chars}
    BY DEF EditInv
  <2>2. c \in UNION {Chars[k] : k \in DOMAIN Chars}
    BY <2>1
  <2> QED
    BY ONLY <2>2 DEF Alphabet
<1>2. text \in Seq(Alphabet) /\ DOMAIN text = 1 .. Len(text) /\ Len(text) \in Nat
  BY DEF EditInv
<1>3. CASE UNCHANGED vars
  BY <1>3 DEF EditInv, vars
<1>4. CASE \E c \in Chars[kind], i \in 1..(Len(text) + 1) : Insert(i, c)
  <2> HIDE DEF EditInv
  <2>1. PICK c \in Alphabet, i \in 1..(Len(text) + 1) : Insert(i, c)
    BY <1>1, <1>4
  <2>2. /\ SubSeq(text, 1, i - 1) \in Seq(Alphabet)
        /\ SubSeq(text, i, Len(text)) \in Seq(Alphabet)
        /\ <<c>> \in Seq(Alphabet)
    BY <1>2
  <2>3. text' = SubSeq(text, 1, i - 1) \o <<c>> \o SubSeq(text, i, Len(text))
    BY <2>1 DEF Insert, InsertAt
  <2>4. text' \in Seq(Alphabet)
    BY ONLY <2>2, <2>3, ConcatProperties
  <2> QED
    BY <2>1, <2>4 DEF EditInv, Insert, Edit
<1>5. CASE \E i \in DOMAIN text : Delete(i)
  <2> HIDE DEF EditInv
  <2>1. PICK i \in 1..Len(text) : Delete(i)
    BY <1>2, <1>5
  <2>2. /\ SubSeq(text, 1, i - 1) \in Seq(Alphabet)
        /\ SubSeq(text, i + 1, Len(text)) \in Seq(Alphabet)
    BY <1>2
  <2>3. text' = SubSeq(text, 1, i - 1) \o SubSeq(text, i + 1, Len(text))
    BY <2>1 DEF Delete, RemoveAt
  <2>4. text' \in Seq(Alphabet)
    BY ONLY <2>2, <2>3, ConcatProperties
  <2> QED
    BY <2>1, <2>4 DEF EditInv, Delete, Edit
<1>6. CASE \E c \in Chars[kind], i \in DOMAIN text : Replace(i, c)
  <2>1. PICK c \in Alphabet, i \in 1..Len(text) : Replace(i, c)
    BY <1>1, <1>2, <1>6
  <2>2. text' = [text EXCEPT ![i] = c]
    BY <2>1 DEF Replace, ReplaceAt
  <2>3. text' \in Seq(Alphabet)
    BY <1>2, <2>2, ExceptSeq
  <2> QED
    BY <2>1, <2>3 DEF EditInv, Replace, Edit
<1> QED
  BY <1>3, <1>4, <1>5, <1>6 DEF Next

\* For every text and buffer size, what Worker.cpp's receive loop leaves in its buffer
\* changes nothing of a short request and no more than the end of the body of another.
THEOREM TailIsHarmless == Spec => []TailHarmless
<1>1. EditInv => TailHarmless
  BY StaleBytesHarmless DEF EditInv, TailHarmless
<1> QED
  BY <1>1, EditInit, EditStep, PTL DEF Spec

\* For every text, buffer size and limit of the URI: HttpParser::parse understands every
\* well-formed request as what it says.
THEOREM WellFormedUnderstood == Spec => []RequestUnderstood
<1>1. EditInv => RequestUnderstood
  BY RequestRead DEF EditInv, RequestUnderstood
<1> QED
  BY <1>1, EditInit, EditStep, PTL DEF Spec

-------------------------------------------------------------------------------
(* Forms: escapes. *)

\* What the decoder makes of the text from i on, from what it makes of the rest.
DecodedAt(s, f, i) ==
  IF i > Len(s) \/ (s[i] = "%" /\ i + 2 > Len(s)) THEN <<>>
  ELSE IF s[i] = "%" THEN <<CharOf(Byte(s[i + 1], s[i + 2]))>> \o f[i + 3]
  ELSE <<IF s[i] = "+" THEN " " ELSE s[i]>> \o f[i + 1]

\* The recursion ends.
LEMMA DecodeExists ==
  ASSUME NEW C, NEW s \in Seq(C)
  PROVE  \E f : f = [i \in 1 .. (Len(s) + 1) |-> DecodedAt(s, f, i)]
<1> DEFINE n == Len(s)
           W == {d \in Nat : d <= n =>
                   \E f : f = [i \in (n + 1 - d) .. (n + 1) |-> DecodedAt(s, f, i)]}
<1>1. n \in Nat
  OBVIOUS
<1> HIDE DEF n
<1>2. 0 \in W
  <2> DEFINE g == [i \in (n + 1 - 0) .. (n + 1) |-> <<>>]
  <2>1. \A i \in (n + 1 - 0) .. (n + 1) : i = n + 1 /\ DecodedAt(s, g, i) = <<>>
    BY <1>1 DEF DecodedAt, n
  <2>2. g = [i \in (n + 1 - 0) .. (n + 1) |-> DecodedAt(s, g, i)]
    BY <2>1
  <2> HIDE DEF g
  <2> QED
    BY <2>2
<1>3. ASSUME NEW d \in W PROVE d + 1 \in W
  <2> SUFFICES ASSUME d + 1 <= n
               PROVE  \E f : f = [i \in (n + 1 - (d + 1)) .. (n + 1) |-> DecodedAt(s, f, i)]
    OBVIOUS
  <2>1. d \in Nat /\ d <= n /\ n + 1 - (d + 1) = n - d /\ n - d \in 1 .. n
    BY <1>1
  <2>2. PICK f : f = [i \in (n + 1 - d) .. (n + 1) |-> DecodedAt(s, f, i)]
    BY <2>1
  <2> DEFINE g == [i \in (n - d) .. (n + 1) |-> IF i = n - d THEN DecodedAt(s, f, i) ELSE f[i]]
  <2>3. \A i \in (n + 1 - d) .. (n + 1) : f[i] = DecodedAt(s, f, i)
    BY <2>2, Zenon
  <2>4. \A i \in (n + 1 - d) .. (n + 1) : g[i] = f[i]
    BY <1>1, <2>1
  <2>5. \A i \in (n - d) .. (n + 1) : g[i] = DecodedAt(s, f, i)
    BY <1>1, <2>1, <2>3
  <2> HIDE DEF g
  <2>6. ASSUME NEW i \in (n - d) .. (n + 1) PROVE DecodedAt(s, g, i) = DecodedAt(s, f, i)
    <3>1. i <= n => i + 1 \in (n + 1 - d) .. (n + 1)
      BY <1>1, <2>1
    <3>2. i + 2 <= n => i + 3 \in (n + 1 - d) .. (n + 1)
      BY <1>1, <2>1
    <3>3. (i <= n => g[i + 1] = f[i + 1]) /\ (i + 2 <= n => g[i + 3] = f[i + 3])
      BY <2>4, <3>1, <3>2
    <3>4. CASE i > n
      BY <3>4 DEF DecodedAt, n
    <3>5. CASE i <= n /\ i + 2 > n
      BY <3>3, <3>5 DEF DecodedAt, n
    <3>6. CASE i <= n /\ i + 2 <= n
      BY <3>3, <3>6 DEF DecodedAt, n
    <3> QED
      BY <1>1, <2>1, <3>4, <3>5, <3>6
  <2>7. g = [i \in (n - d) .. (n + 1) |-> g[i]]
    BY DEF g
  <2>8. g = [i \in (n - d) .. (n + 1) |-> DecodedAt(s, g, i)]
    BY <2>5, <2>6, <2>7
  <2> QED
    BY <2>1, <2>8
<1>4. W = Nat
  <2> HIDE DEF W
  <2> QED
    BY <1>2, <1>3, AllNumbers DEF W
<1>5. n \in W /\ n + 1 - n = 1
  <2> HIDE DEF W
  <2> QED
    BY <1>1, <1>4
<1> QED
  BY <1>1, <1>5 DEF n

LEMMA DecodeIs ==
  ASSUME NEW C, NEW s \in Seq(C)
  PROVE  \E f : /\ UrlDecode(s) = f[1]
                /\ \A i \in 1 .. (Len(s) + 1) : f[i] = DecodedAt(s, f, i)
<1> DEFINE Good(f) == f = [i \in 1 .. (Len(s) + 1) |-> DecodedAt(s, f, i)]
           from == CHOOSE f : Good(f)
<1>1. UrlDecode(s) = from[1]
  BY DEF UrlDecode, DecodedAt
<1>2. Good(from)
  <2>1. \E f : Good(f)
    BY DecodeExists
  <2> HIDE DEF Good
  <2> QED
    BY <2>1
<1>3. \A i \in 1 .. (Len(s) + 1) : from[i] = DecodedAt(s, from, i)
  BY <1>2, Zenon
<1> QED
  BY <1>1, <1>3

\* The positions that stand for a character, that character, and what they say from i on.
Meant(s) == {i \in DOMAIN s : {i - 1, i - 2} \cap Places(s, "%") = {}}
CharAt(s, i) ==
  CASE s[i] = "%" -> CharOf(16 * HexValue[s[i + 1]] + HexValue[s[i + 2]])
    [] s[i] = "+" -> " "
    [] OTHER -> s[i]
MeaningFrom(s, i) ==
  [k \in 1 .. (Cardinality(Meant(s)) - Rank(Meant(s), i - 1)) |->
     CharAt(s, Nth(Meant(s), Rank(Meant(s), i - 1) + k))]

LEMMA MeaningWhole ==
  ASSUME NEW C, NEW s \in Seq(C)
  PROVE  Meaning(s) = MeaningFrom(s, 1)
<1>1. Meant(s) \in SUBSET (1 .. Len(s)) /\ Len(s) \in Nat
  BY DEF Meant
<1>2. Meant(s) \in SUBSET Positive /\ Cardinality(Meant(s)) = Rank(Meant(s), Len(s))
  BY <1>1, RankAll
<1>3. Rank(Meant(s), 0) = 0 /\ Cardinality(Meant(s)) \in Nat
  BY <1>1, <1>2, RankNone, UpToFinite
<1>4. Meaning(s) = [k \in 1 .. Cardinality(Meant(s)) |-> CharAt(s, Nth(Meant(s), k))]
  BY DEF Meaning, Meant, CharAt
<1>5. 1 - 1 = 0 /\ Cardinality(Meant(s)) - 0 = Cardinality(Meant(s))
      /\ \A k \in 1 .. Cardinality(Meant(s)) : 0 + k = k
  BY <1>3
<1> QED
  BY <1>3, <1>4, <1>5 DEF MeaningFrom

\* A list in its first element and the others.
LEMMA FirstAndOthers ==
  ASSUME NEW V, NEW m \in Nat, NEW h \in [1 .. m + 1 -> V], NEW g \in [1 .. m -> V],
         \A k \in 1 .. m : g[k] = h[k + 1]
  PROVE  h = <<h[1]>> \o g
<1>1. h \in Seq(V) /\ Len(h) = m + 1 /\ g \in Seq(V) /\ Len(g) = m /\ h[1] \in V
  OBVIOUS
<1> DEFINE w == <<h[1]>> \o g
<1>2. /\ <<h[1]>> \in Seq(V) /\ Len(<<h[1]>>) = 1 /\ <<h[1]>>[1] = h[1]
  BY <1>1
<1>3. w \in Seq(V) /\ Len(w) = m + 1 /\ w[1] = h[1] /\ \A k \in 1 .. m : w[k + 1] = g[k]
  BY <1>1, <1>2, ConcatProperties
<1> HIDE DEF w
<1>4. ASSUME NEW i \in 1 .. m + 1 PROVE w[i] = h[i]
  <2>1. CASE i = 1
    BY <1>3, <2>1
  <2>2. CASE i # 1
    <3>1. i - 1 \in 1 .. m /\ (i - 1) + 1 = i
      BY <2>2
    <3> QED
      BY <1>3, <3>1
  <2> QED
    BY <2>1, <2>2
<1>5. w = h
  BY <1>1, <1>3, <1>4, SeqEqual
<1> QED
  BY <1>5 DEF w

\* A position that stands for a character says it before what follows.
LEMMA MeaningStep ==
  ASSUME NEW C, NEW s \in Seq(C), NEW i \in Meant(s)
  PROVE  MeaningFrom(s, i) = <<CharAt(s, i)>> \o MeaningFrom(s, i + 1)
<1> DEFINE K == Meant(s)
           n == Len(s)
           r == Rank(K, i - 1)
           m == Cardinality(K) - (r + 1)
           V == {CharAt(s, j) : j \in K}
<1>1. K \in SUBSET (1 .. n) /\ n \in Nat
  BY DEF Meant
<1>2. K \in SUBSET Positive /\ Cardinality(K) = Rank(K, n)
  BY <1>1, RankAll
<1>3. i \in 1 .. n /\ i - 1 \in Nat /\ (i - 1) + 1 = i
  BY <1>1
<1>4. r \in Nat /\ Rank(K, i) = r + 1 /\ Cardinality(K) \in Nat
  BY <1>1, <1>2, <1>3, UpToFinite, RankStep, SMTT(30)
<1>5. r + 1 <= Cardinality(K)
  <2>1. i < n => Rank(K, i) <= Rank(K, n)
    BY <1>2, <1>3, <1>1, RankGrows
  <2> QED
    BY <1>1, <1>2, <1>3, <1>4, <2>1
<1>6. Nth(K, r + 1) = i
  BY <1>2, <1>4, NthUnique
<1>7. \A k \in 1 .. Cardinality(K) : CharAt(s, Nth(K, k)) \in V
  <2> TAKE k \in 1 .. Cardinality(K)
  <2>1. Nth(K, k) \in K
    BY <1>1, <1>2, NthIs
  <2> QED
    BY <2>1
<1>8. MeaningFrom(s, i) = [k \in 1 .. Cardinality(K) - r |-> CharAt(s, Nth(K, r + k))]
  BY DEF MeaningFrom
<1>9. MeaningFrom(s, i + 1) = [k \in 1 .. m |-> CharAt(s, Nth(K, (r + 1) + k))]
  <2>1. (i + 1) - 1 = i
    BY <1>3
  <2> QED
    BY <1>4, <2>1 DEF MeaningFrom
<1> HIDE DEF K, V, r
<1>10. m \in Nat /\ Cardinality(K) - r = m + 1
  BY <1>4, <1>5
<1>11. MeaningFrom(s, i) \in [1 .. m + 1 -> V] /\ MeaningFrom(s, i + 1) \in [1 .. m -> V]
  <2>1. \A k \in 1 .. m + 1 : r + k \in 1 .. Cardinality(K)
    BY <1>4, <1>5
  <2>2. \A k \in 1 .. m : (r + 1) + k \in 1 .. Cardinality(K)
    BY <1>4, <1>5
  <2> QED
    BY <1>7, <1>8, <1>9, <1>10, <2>1, <2>2
<1>12. \A k \in 1 .. m : MeaningFrom(s, i + 1)[k] = MeaningFrom(s, i)[k + 1]
  <2> TAKE k \in 1 .. m
  <2>1. k + 1 \in 1 .. Cardinality(K) - r /\ r + (k + 1) = (r + 1) + k
    BY <1>4, <1>10
  <2> QED
    BY <1>8, <1>9, <2>1
<1>13. MeaningFrom(s, i)[1] = CharAt(s, i)
  BY <1>4, <1>6, <1>8, <1>10
<1> QED
  BY <1>10, <1>11, <1>12, <1>13, FirstAndOthers

\* The decoder makes of a text with whole escapes what it means.
LEMMA Decoded ==
  ASSUME NEW C, NEW s \in Seq(C), Escapes(s)
  PROVE  UrlDecode(s) = Meaning(s)
<1> DEFINE n == Len(s)
           K == Meant(s)
<1>1. K \in SUBSET (1 .. n) /\ n \in Nat /\ K \in SUBSET Positive
      /\ Cardinality(K) = Rank(K, n) /\ Cardinality(K) \in Nat /\ DOMAIN s = 1 .. n
  <2>1. K \in SUBSET (1 .. n) /\ n \in Nat /\ DOMAIN s = 1 .. n
    BY DEF Meant
  <2> QED
    BY <2>1, RankAll, UpToFinite
<1>2. PICK f : /\ UrlDecode(s) = f[1]
               /\ \A i \in 1 .. n + 1 : f[i] = DecodedAt(s, f, i)
  BY DecodeIs
<1>3. "%" \notin DOMAIN HexValue
  BY DEF HexValue, HexChars, LowerHex, ToSet
<1> DEFINE P == Places(s, "%")
<1>4. /\ P \in SUBSET (1 .. n) /\ \A i \in 1 .. n : i \in P <=> s[i] = "%"
      /\ \A i \in 1 .. n : i \in K <=> i - 1 \notin P /\ i - 2 \notin P
  BY <1>1 DEF Meant, Places
<1>5. \A i \in P : /\ i + 2 <= n /\ i + 1 \notin P /\ i + 2 \notin P
                   /\ s[i + 1] \in DOMAIN HexValue /\ s[i + 2] \in DOMAIN HexValue
  <2> TAKE i \in P
  <2>1. /\ i + 2 <= n /\ s[i + 1] \in DOMAIN HexValue /\ s[i + 2] \in DOMAIN HexValue
    BY DEF Escapes
  <2>2. i + 1 \in 1 .. n /\ i + 2 \in 1 .. n
    BY <1>1, <1>4, <2>1
  <2> QED
    BY <1>3, <1>4, <2>1, <2>2
<1> HIDE DEF K, P, n
<1>6. n = Len(s)
  BY DEF n
<1>7. ASSUME NEW i \in K, i \notin P
      PROVE  i + 1 \in K \cup {n + 1} /\ f[i] = <<CharAt(s, i)>> \o f[i + 1]
  <2>1. i \in 1 .. n /\ s[i] # "%" /\ (i + 1) - 1 = i /\ (i + 1) - 2 = i - 1
    BY <1>1, <1>4, <1>7
  <2>2. i + 1 <= n => i + 1 \in K
    BY <1>1, <1>4, <1>7, <2>1
  <2>3. f[i] = <<IF s[i] = "+" THEN " " ELSE s[i]>> \o f[i + 1]
    <3>1. i \in 1 .. n + 1 /\ ~ (i > Len(s))
      BY <1>1, <1>6, <2>1
    <3>2. f[i] = DecodedAt(s, f, i)
      BY <1>2, <3>1 DEF n
    <3> QED
      BY <2>1, <3>1, <3>2, Zenon DEF DecodedAt
  <2>4. CharAt(s, i) = IF s[i] = "+" THEN " " ELSE s[i]
    BY <2>1 DEF CharAt
  <2> QED
    <3>1. i + 1 \in K \cup {n + 1}
      BY <1>1, <2>1, <2>2
    <3>2. f[i] = <<CharAt(s, i)>> \o f[i + 1]
      BY <2>3, <2>4, Zenon
    <3> QED
      BY <3>1, <3>2
<1>8. ASSUME NEW i \in K, i \in P
      PROVE  /\ i + 3 \in K \cup {n + 1} /\ f[i] = <<CharAt(s, i)>> \o f[i + 3]
             /\ MeaningFrom(s, i + 1) = MeaningFrom(s, i + 3)
  <2>1. /\ i \in 1 .. n /\ s[i] = "%" /\ i + 2 <= n /\ (i + 3) - 1 = i + 2
        /\ (i + 3) - 2 = i + 1 /\ (i + 1) - 1 = i /\ (i + 2) - 2 = i
        /\ i + 1 \in 1 .. n /\ i + 2 \in 1 .. n /\ (i + 1) + 1 = i + 2
    BY <1>1, <1>4, <1>5, <1>8
  <2>2. i + 3 <= n => i + 3 \in K
    <3> SUFFICES ASSUME i + 3 <= n PROVE i + 3 \in K
      OBVIOUS
    <3>1. i + 3 \in 1 .. n /\ i + 1 \notin P /\ i + 2 \notin P
      BY <1>1, <1>5, <1>8, <2>1
    <3> QED
      BY <1>4, <2>1, <3>1
  <2>3. f[i] = <<CharOf(Byte(s[i + 1], s[i + 2]))>> \o f[i + 3]
    <3>1. i \in 1 .. n + 1 /\ ~ (i > Len(s)) /\ ~ (i + 2 > Len(s))
      BY <1>1, <1>6, <2>1
    <3>2. f[i] = DecodedAt(s, f, i)
      BY <1>2, <3>1 DEF n
    <3> QED
      BY <2>1, <3>1, <3>2, Zenon DEF DecodedAt
  <2>4. CharAt(s, i) = CharOf(Byte(s[i + 1], s[i + 2]))
    <3>1. s[i + 1] \in DOMAIN HexValue /\ s[i + 2] \in DOMAIN HexValue
      BY <1>5, <1>8
    <3>2. Byte(s[i + 1], s[i + 2]) = 16 * HexValue[s[i + 1]] + HexValue[s[i + 2]]
      BY <3>1, Zenon DEF Byte
    <3>3. CharAt(s, i) = CharOf(16 * HexValue[s[i + 1]] + HexValue[s[i + 2]])
      BY <2>1, Zenon DEF CharAt
    <3> QED
      BY <3>2, <3>3
  <2>5. i + 1 \notin K /\ i + 2 \notin K
    BY <1>4, <1>8, <2>1
  <2>6. Rank(K, i + 2) = Rank(K, i)
    <3>1. i \in Nat /\ i + 1 \in Nat
      BY <2>1
    <3>2. Rank(K, i + 1) = Rank(K, i) + 0
      BY <1>1, <2>5, <3>1, RankStep
    <3>3. Rank(K, (i + 1) + 1) = Rank(K, i + 1) + 0
      BY <1>1, <2>1, <2>5, <3>1, RankStep
    <3>4. Rank(K, i) \in Nat
      BY <1>1, <3>1, UpToFinite
    <3> QED
      BY <2>1, <3>2, <3>3, <3>4
  <2>7. MeaningFrom(s, i + 1) = MeaningFrom(s, i + 3)
    BY <2>1, <2>6 DEF MeaningFrom, K
  <2> QED
    BY <1>1, <2>1, <2>2, <2>3, <2>4, <2>7
<1>9. f[n + 1] = MeaningFrom(s, n + 1)
  <2>1. f[n + 1] = <<>>
    <3>1. n + 1 \in 1 .. n + 1 /\ n + 1 > Len(s)
      BY <1>1, <1>6
    <3>2. f[n + 1] = DecodedAt(s, f, n + 1)
      BY <1>2, <3>1 DEF n
    <3> QED
      BY <3>1, <3>2, Zenon DEF DecodedAt
  <2>2. (n + 1) - 1 = n /\ Cardinality(K) - Rank(K, n) = 0
    BY <1>1
  <2>3. MeaningFrom(s, n + 1) = [k \in 1 .. 0 |-> CharAt(s, Nth(K, Rank(K, n) + k))]
    BY <2>2 DEF MeaningFrom, K
  <2>4. MeaningFrom(s, n + 1) = <<>>
    BY <2>3
  <2> QED
    BY <2>1, <2>4
<1> DEFINE W == {d \in Nat : \A i \in K \cup {n + 1} : n + 1 - i <= d => f[i] = MeaningFrom(s, i)}
<1>10. W = Nat
  <2>1. 0 \in W
    BY <1>1, <1>9
  <2>2. ASSUME NEW d \in W PROVE d + 1 \in W
    <3> SUFFICES ASSUME NEW i \in K \cup {n + 1}, n + 1 - i <= d + 1
                 PROVE  f[i] = MeaningFrom(s, i)
      OBVIOUS
    <3>1. /\ d \in Nat
          /\ \A j \in K \cup {n + 1} : n + 1 - j <= d => f[j] = MeaningFrom(s, j)
      OBVIOUS
    <3> HIDE DEF W
    <3>2. CASE i = n + 1
      BY <1>9, <3>2
    <3>3. CASE i \in K /\ i \notin P
      <4>1. i \in Nat /\ n \in Nat
        BY <1>1, <3>3
      <4>2. i + 1 \in K \cup {n + 1} /\ n + 1 - (i + 1) <= d
        <5>1. i + 1 \in K \cup {n + 1}
          BY <1>7, <3>3
        <5>2. n + 1 - (i + 1) <= d
          BY <3>1, <4>1
        <5> QED
          BY <5>1, <5>2
      <4>3. f[i + 1] = MeaningFrom(s, i + 1)
        BY <3>1, <4>2
      <4> QED
        BY <1>7, <3>3, <4>3, MeaningStep DEF K
    <3>4. CASE i \in K /\ i \in P
      <4>1. i \in Nat /\ n \in Nat
        BY <1>1, <3>4
      <4>2. i + 3 \in K \cup {n + 1} /\ n + 1 - (i + 3) <= d
        <5>1. i + 3 \in K \cup {n + 1}
          BY <1>8, <3>4
        <5>2. n + 1 - (i + 3) <= d
          BY <3>1, <4>1
        <5> QED
          BY <5>1, <5>2
      <4>3. f[i + 3] = MeaningFrom(s, i + 3)
        BY <3>1, <4>2
      <4>4. MeaningFrom(s, i) = <<CharAt(s, i)>> \o MeaningFrom(s, i + 1)
        BY <3>4, MeaningStep DEF K
      <4> QED
        BY <1>8, <3>4, <4>3, <4>4
    <3> QED
      BY <3>2, <3>3, <3>4
  <2> HIDE DEF W
  <2> QED
    BY <2>1, <2>2, AllNumbers DEF W
<1>11. 1 \in K \cup {n + 1}
  <2>1. 1 <= n => 1 \in K
    BY <1>1, <1>4
  <2> QED
    BY <1>1, <2>1
<1>12. f[1] = MeaningFrom(s, 1)
  <2>1. n \in W /\ n + 1 - 1 <= n
    BY <1>1, <1>10
  <2> QED
    BY <1>11, <2>1
<1> QED
  BY <1>2, <1>12, MeaningWhole

-------------------------------------------------------------------------------
(* Fields. *)

LEMMA PartIs ==
  ASSUME NEW C, NEW t \in Seq(C), NEW a \in Nat, NEW z \in Nat, a <= z, z <= Len(t)
  PROVE  /\ SubSeq(t, a + 1, z) \in Seq(C) /\ Len(SubSeq(t, a + 1, z)) = z - a
         /\ \A k \in 1 .. z - a : SubSeq(t, a + 1, z)[k] = t[a + k]
         /\ \A k \in 1 .. z - a : a + k \in 1 .. Len(t)
  OBVIOUS

\* A part of a part.
LEMMA PartOfPart ==
  ASSUME NEW C, NEW t \in Seq(C), NEW a \in Nat, NEW z \in Nat, a <= z, z <= Len(t),
         NEW c \in Nat, NEW d \in Nat, c <= d, d <= z - a
  PROVE  SubSeq(SubSeq(t, a + 1, z), c + 1, d) = SubSeq(t, (a + c) + 1, a + d)
<1> DEFINE u == SubSeq(t, a + 1, z)
           x == SubSeq(u, c + 1, d)
           y == SubSeq(t, (a + c) + 1, a + d)
<1>1. u \in Seq(C) /\ Len(u) = z - a /\ \A k \in 1 .. z - a : u[k] = t[a + k]
  BY PartIs
<1> HIDE DEF u
<1>2. x \in Seq(C) /\ Len(x) = d - c /\ \A k \in 1 .. d - c : x[k] = u[c + k]
  BY <1>1, PartIs
<1>3. a + c \in Nat /\ a + d \in Nat /\ a + c <= a + d /\ a + d <= Len(t)
      /\ (a + d) - (a + c) = d - c
  OBVIOUS
<1>4. y \in Seq(C) /\ Len(y) = d - c /\ \A k \in 1 .. d - c : y[k] = t[(a + c) + k]
  BY <1>3, PartIs
<1> HIDE DEF x, y
<1>5. ASSUME NEW k \in 1 .. d - c PROVE x[k] = y[k]
  <2>1. c + k \in 1 .. z - a /\ a + (c + k) = (a + c) + k
    OBVIOUS
  <2> QED
    BY <1>1, <1>2, <1>4, <2>1
<1>6. x = y
  BY <1>2, <1>4, <1>5, SeqEqual
<1> QED
  BY <1>6 DEF x, y, u

\* The field that begins behind b and has been read up to i, with its "=" at e
\* or, if it has none yet, e behind it.
Ampersands(t) == Places(t, "&")
ReadTo(t, b, i) ==
  b \in {0} \cup Ampersands(t) /\ b <= i /\ \A j \in b + 1 .. i : t[j] # "&"
EqualsAt(t, b, e, i) ==
  e \in b + 1 .. i + 1 /\ \A j \in b + 1 .. i : t[j] = "=" <=> j = e

\* A field ends at the next separator or at the end of the text.
LEMMA FieldEnds ==
  ASSUME NEW C, NEW t \in Seq(C), NEW b, NEW i \in Nat, i <= Len(t), ReadTo(t, b, i),
         i + 1 \in Ampersands(t) \cup {Len(t) + 1}
  PROVE  FieldAt(t, b) = SubSeq(t, b + 1, i)
<1> DEFINE S == {j \in Places(t, "&") \cup {Len(t) + 1} : j > b}
<1>1. Len(t) \in Nat /\ b \in Nat /\ b <= i
  BY DEF ReadTo, Ampersands, Places
<1>2. \A j \in S : j \in Nat /\ j > b /\ (j <= Len(t) => t[j] = "&")
  BY <1>1 DEF Places
<1>3. i + 1 \in S
  BY <1>1 DEF Ampersands
<1>4. \A j \in S : i + 1 <= j
  <2> TAKE j \in S
  <2> SUFFICES ASSUME j < i + 1 PROVE FALSE
    BY <1>1, <1>2
  <2>1. j \in Nat /\ j > b /\ (j <= Len(t) => t[j] = "&")
    BY <1>2
  <2>2. j \in b + 1 .. i /\ j <= Len(t)
    BY <1>1, <2>1
  <2> QED
    BY <2>1, <2>2 DEF ReadTo
<1>5. S \in SUBSET Nat /\ S # {}
  BY <1>2, <1>3
<1> HIDE DEF S
<1>6. First(S) \in S /\ First(S) <= i + 1
  BY <1>3, <1>5, FirstIs
<1>7. First(S) = i + 1
  <2>1. First(S) \in Nat /\ i + 1 <= First(S)
    BY <1>4, <1>5, <1>6
  <2> QED
    BY <1>6, <2>1
<1>8. FieldAt(t, b) = SubSeq(t, b + 1, First(S) - 1)
  BY DEF FieldAt, S
<1>9. (i + 1) - 1 = i
  OBVIOUS
<1> QED
  BY <1>7, <1>8, <1>9

\* Every field ends.
LEMMA FieldHasEnd ==
  ASSUME NEW C, NEW t \in Seq(C), NEW b, NEW i \in Nat, i <= Len(t), ReadTo(t, b, i)
  PROVE  \E z \in Nat : /\ i <= z /\ z <= Len(t) /\ ReadTo(t, b, z)
                       /\ z + 1 \in Ampersands(t) \cup {Len(t) + 1}
<1> DEFINE S == {j \in Ampersands(t) \cup {Len(t) + 1} : j > i}
<1>1. Len(t) \in Nat /\ b \in Nat /\ b <= i
  BY DEF ReadTo, Ampersands, Places
<1>2. \A j \in S : j \in Nat /\ j > i /\ j <= Len(t) + 1
  BY <1>1 DEF Ampersands, Places
<1>3. Len(t) + 1 \in S
  BY <1>1
<1>4. PICK m \in S : \A j \in S : m <= j
  <2>1. S \in SUBSET Nat /\ S # {}
    BY <1>2, <1>3
  <2> HIDE DEF S
  <2> QED
    BY <2>1, LeastNumber
<1>5. m \in Nat /\ m > i /\ m <= Len(t) + 1 /\ m \in Ampersands(t) \cup {Len(t) + 1}
  BY <1>2
<1>6. m - 1 \in Nat /\ i <= m - 1 /\ m - 1 <= Len(t) /\ (m - 1) + 1 = m
  BY <1>1, <1>5
<1>7. ASSUME NEW j \in b + 1 .. m - 1 PROVE t[j] # "&"
  <2>1. CASE j <= i
    BY <1>1, <2>1 DEF ReadTo
  <2>2. CASE j > i
    <3> SUFFICES ASSUME t[j] = "&" PROVE FALSE
      OBVIOUS
    <3>1. j \in 1 .. Len(t)
      BY <1>1, <1>6
    <3>2. j \in S
      BY <2>2, <3>1 DEF Ampersands, Places
    <3>3. m <= j
      BY <1>4, <3>2
    <3> QED
      BY <1>1, <1>5, <3>3
  <2> QED
    BY <1>1, <2>1, <2>2
<1>8. ReadTo(t, b, m - 1)
  BY <1>1, <1>6, <1>7 DEF ReadTo
<1> QED
  BY <1>5, <1>6, <1>8

\* The key and the value of a field whose only "=" is at e.
LEMMA FieldParts ==
  ASSUME NEW C, NEW t \in Seq(C), NEW b \in Nat, NEW i \in Nat, b <= i, i <= Len(t),
         NEW e \in Nat, e <= i, EqualsAt(t, b, e, i)
  PROVE  /\ KeyPart(SubSeq(t, b + 1, i)) = SubSeq(t, b + 1, e - 1)
         /\ ValuePart(SubSeq(t, b + 1, i)) = SubSeq(t, e + 1, i)
         /\ SubSeq(t, b + 1, e - 1) \in Seq(C) /\ SubSeq(t, e + 1, i) \in Seq(C)
<1> DEFINE u == SubSeq(t, b + 1, i)
           p == e - b
<1>1. e \in b + 1 .. i /\ \A j \in b + 1 .. i : t[j] = "=" <=> j = e
  BY DEF EqualsAt
<1>a. u \in Seq(C) /\ Len(u) = i - b /\ \A k \in 1 .. i - b : u[k] = t[b + k]
  BY PartIs
<1> HIDE DEF u
<1>2. /\ u \in Seq(C) /\ Len(u) = i - b /\ \A k \in 1 .. i - b : u[k] = t[b + k]
      /\ p \in 1 .. i - b /\ b + p = e /\ p - 1 \in Nat /\ p - 1 <= i - b
      /\ e - 1 \in Nat /\ b <= e - 1 /\ e - 1 <= Len(t) /\ p \in Nat /\ i - b \in Nat
      /\ DOMAIN u = 1 .. i - b
  BY <1>1, <1>a
<1> HIDE DEF p
<1>3. Places(u, "=") = {p}
  <2>1. ASSUME NEW k \in 1 .. i - b PROVE u[k] = "=" <=> k = p
    <3>1. b + k \in b + 1 .. i /\ (b + k = e <=> k = p)
      BY <1>1, <1>2
    <3> QED
      BY <1>1, <1>2, <3>1
  <2> QED
    BY <1>2, <2>1 DEF Places
<1>4. First(Places(u, "=")) = p
  <2>1. First({p}) \in {p}
    BY <1>2, FirstIs
  <2> QED
    BY <1>3, <2>1
<1>5. SubSeq(u, 1, p - 1) = SubSeq(t, b + 1, e - 1)
  <2>1. 0 + 1 = 1 /\ (b + 0) + 1 = b + 1 /\ b + (p - 1) = e - 1
    BY <1>2
  <2>2. SubSeq(u, 0 + 1, p - 1) = SubSeq(t, (b + 0) + 1, b + (p - 1))
    BY <1>2, PartOfPart DEF u
  <2> QED
    BY <2>1, <2>2
<1>6. SubSeq(u, p + 1, Len(u)) = SubSeq(t, e + 1, i)
  <2>1. (b + p) + 1 = e + 1 /\ b + (i - b) = i /\ p <= i - b
    BY <1>2
  <2>2. SubSeq(u, p + 1, i - b) = SubSeq(t, (b + p) + 1, b + (i - b))
    BY <1>2, <2>1, PartOfPart DEF u
  <2> QED
    BY <1>2, <2>1, <2>2
<1>7. SubSeq(t, b + 1, e - 1) \in Seq(C) /\ SubSeq(t, e + 1, i) \in Seq(C)
  BY <1>2, PartIs
<1> QED
  BY <1>4, <1>5, <1>6, <1>7 DEF KeyPart, ValuePart, Behind, u

\* A form of fields with one "=" each and whole escapes.
FormOf(t) == \A i \in FieldsOf(t) : FormField(FieldAt(t, i))

\* A field that is not empty has one "=", and both its sides whole escapes.
LEMMA FieldDivided ==
  ASSUME NEW C, NEW t \in Seq(C), FormOf(t), NEW b, NEW i \in Nat, i <= Len(t),
         ReadTo(t, b, i), i + 1 \in Ampersands(t) \cup {Len(t) + 1}, b < i
  PROVE  \E e \in b + 1 .. i :
           /\ EqualsAt(t, b, e, i)
           /\ b \in FieldsOf(t)
           /\ KeyPart(FieldAt(t, b)) = SubSeq(t, b + 1, e - 1)
           /\ ValuePart(FieldAt(t, b)) = SubSeq(t, e + 1, i)
           /\ SubSeq(t, b + 1, e - 1) # <<>>
           /\ SubSeq(t, b + 1, e - 1) \in Seq(C) /\ SubSeq(t, e + 1, i) \in Seq(C)
           /\ Escapes(SubSeq(t, b + 1, e - 1)) /\ Escapes(SubSeq(t, e + 1, i))
<1> DEFINE u == SubSeq(t, b + 1, i)
<1>1. b \in Nat /\ b <= i /\ b \in {0} \cup Places(t, "&")
  BY DEF ReadTo, Ampersands, Places
<1>2. FieldAt(t, b) = u
  BY FieldEnds
<1>3. /\ u \in Seq(C) /\ Len(u) = i - b /\ \A k \in 1 .. i - b : u[k] = t[b + k]
      /\ DOMAIN u = 1 .. i - b
  BY <1>1, PartIs
<1> HIDE DEF u
<1>4. u # <<>>
  BY <1>1, <1>3
<1>5. b \in FieldsOf(t)
  BY <1>1, <1>2, <1>4 DEF FieldsOf
<1>6. FormField(u)
  BY <1>2, <1>5 DEF FormOf
<1>7. PICK p : Places(u, "=") = {p}
  <2>1. Places(u, "=") \in SUBSET (1 .. i - b) /\ i - b \in Nat
    BY <1>1, <1>3 DEF Places
  <2>2. IsFiniteSet(Places(u, "="))
    <3>1. IsFiniteSet(1 .. i - b)
      BY <2>1, FS_Interval
    <3> QED
      BY <2>1, <3>1, FS_Subset
  <2>3. Cardinality(Places(u, "=")) = 1
    BY <1>6 DEF FormField
  <2> QED
    BY <2>2, <2>3, FS_Singleton
<1>8. p \in 1 .. i - b /\ \A k \in 1 .. i - b : u[k] = "=" <=> k = p
  BY <1>3, <1>7 DEF Places
<1>9. PICK q : q = b + p
  OBVIOUS
<1>10. q \in b + 1 .. i /\ \A j \in b + 1 .. i : t[j] = "=" <=> j = q
  <2>1. ASSUME NEW j \in b + 1 .. i PROVE t[j] = "=" <=> j = q
    <3>1. j - b \in 1 .. i - b /\ b + (j - b) = j /\ (j - b = p <=> j = q)
      BY <1>1, <1>8, <1>9
    <3> QED
      BY <1>3, <1>8, <3>1
  <2> QED
    BY <1>1, <1>8, <1>9, <2>1
<1>11. EqualsAt(t, b, q, i)
  BY <1>1, <1>10 DEF EqualsAt
<1>12. /\ KeyPart(u) = SubSeq(t, b + 1, q - 1) /\ ValuePart(u) = SubSeq(t, q + 1, i)
       /\ SubSeq(t, b + 1, q - 1) \in Seq(C) /\ SubSeq(t, q + 1, i) \in Seq(C)
  <2>1. q \in Nat /\ q <= i
    BY <1>1, <1>10
  <2> QED
    BY <1>1, <1>11, <2>1, FieldParts DEF u
<1> QED
  BY <1>2, <1>5, <1>6, <1>10, <1>11, <1>12 DEF FormField

-------------------------------------------------------------------------------
(* The scan. *)

\* What the scanner has at i: the fields before b, and of the one behind b the
\* parts before and behind its "=".
FieldsBefore(t, b) == {f \in FieldsOf(t) : f < b}
Scanned(t, b, e, i) ==
  [fields |-> SaidBy(t, FieldsBefore(t, b)),
   key |-> SubSeq(t, b + 1, e - 1),
   value |-> SubSeq(t, e + 1, i),
   into |-> IF e <= i THEN "value" ELSE "key"]

\* A later field puts its value over that of an earlier one of its name.
LEMMA OneMoreField ==
  ASSUME NEW t, NEW S, NEW b, b \notin S, S \in SUBSET Nat, b \in Nat, \A k \in S : k < b
  PROVE  SaidBy(t, S \cup {b}) = Put(SaidBy(t, S), FormName(t, b), FormValue(t, b))
<1> DEFINE Named(U, n) == {i \in U : FormName(t, i) = n}
           T == S \cup {b}
           name == FormName(t, b)
<1>1. \A U : SaidBy(t, U) = [n \in {FormName(t, i) : i \in U} |-> FormValue(t, Latest(Named(U, n)))]
  BY DEF SaidBy
<1>2. {FormName(t, i) : i \in T} = {FormName(t, i) : i \in S} \cup {name}
  OBVIOUS
<1>3. ASSUME NEW n, n # name PROVE Named(T, n) = Named(S, n)
  BY <1>3
<1>4. Latest(Named(T, name)) = b
  <2> DEFINE N == Named(T, name)
  <2>1. b \in N /\ \A j \in N : j \in Nat /\ j <= b
    OBVIOUS
  <2>2. Latest(N) \in N /\ \A j \in N : j <= Latest(N)
    <3> HIDE DEF N
    <3> QED
      BY <2>1 DEF Latest
  <2> HIDE DEF N
  <2>3. Latest(N) \in Nat /\ Latest(N) <= b /\ b <= Latest(N)
    BY <2>1, <2>2
  <2>4. Latest(N) = b
    BY <2>3
  <2> QED
    BY <2>4 DEF N
<1>5. DOMAIN SaidBy(t, S) = {FormName(t, i) : i \in S}
  BY <1>1
<1>6. SaidBy(t, T) = [n \in {FormName(t, i) : i \in S} \cup {name} |->
                        FormValue(t, Latest(Named(T, n)))]
  BY <1>1, <1>2
<1> HIDE DEF Named, T, name
<1>7. ASSUME NEW n \in {FormName(t, i) : i \in S} \cup {name}
      PROVE  FormValue(t, Latest(Named(T, n))) =
               IF n = name THEN FormValue(t, b) ELSE SaidBy(t, S)[n]
  <2>1. CASE n = name
    BY <1>4, <2>1
  <2>2. CASE n # name
    <3>1. SaidBy(t, S)[n] = FormValue(t, Latest(Named(S, n)))
      BY <1>1, <2>2
    <3> QED
      BY <1>3, <2>2, <3>1
  <2> QED
    BY <2>1, <2>2
<1>8. SaidBy(t, T) = [n \in {FormName(t, i) : i \in S} \cup {name} |->
                        IF n = name THEN FormValue(t, b) ELSE SaidBy(t, S)[n]]
  BY <1>6, <1>7
<1> QED
  BY <1>5, <1>8 DEF T, name, Put

\* A field that ends is stored as what it says.
LEMMA FieldStored ==
  ASSUME NEW C, NEW t \in Seq(C), FormOf(t), NEW b, NEW e, NEW i \in Nat, i <= Len(t),
         ReadTo(t, b, i), EqualsAt(t, b, e, i), i + 1 \in Ampersands(t) \cup {Len(t) + 1}
  PROVE  Stored(Scanned(t, b, e, i)) = SaidBy(t, FieldsBefore(t, i + 1))
<1> DEFINE F == FieldsBefore(t, b)
           G == FieldsBefore(t, i + 1)
           old == SaidBy(t, F)
           f == Scanned(t, b, e, i)
<1>1. b \in Nat /\ b <= i /\ b \in {0} \cup Places(t, "&") /\ \A g \in FieldsOf(t) : g \in Nat
  BY DEF ReadTo, Ampersands, Places, FieldsOf
<1>2. ASSUME NEW g \in FieldsOf(t), g < i + 1 PROVE g = b \/ g < b
  <2> SUFFICES ASSUME g > b PROVE FALSE
    BY <1>1, <1>2
  <2>1. g \in b + 1 .. i /\ g # 0
    BY <1>1, <1>2
  <2>2. t[g] = "&"
    BY <2>1 DEF FieldsOf, Places
  <2> QED
    BY <2>1, <2>2 DEF ReadTo
<1>3. \A g \in F : g < b /\ g \in Nat
  BY <1>1 DEF FieldsBefore
<1>4. G = IF b \in FieldsOf(t) THEN F \cup {b} ELSE F
  <2>1. \A g \in FieldsOf(t) : g < i + 1 <=> g = b \/ g < b
    BY <1>1, <1>2
  <2> QED
    BY <2>1 DEF FieldsBefore
<1>5. f.key = SubSeq(t, b + 1, e - 1) /\ f.fields = old /\ f.value = SubSeq(t, e + 1, i)
  BY DEF Scanned
<1>6. CASE b = i
  <2>1. FieldAt(t, b) = SubSeq(t, b + 1, i)
    BY FieldEnds
  <2>2. b \notin FieldsOf(t)
    BY <1>1, <1>6, <2>1 DEF FieldsOf
  <2>3. e = i + 1 /\ (i + 1) - 1 = i
    BY <1>1, <1>6 DEF EqualsAt
  <2>4. f.key = <<>>
    BY <1>1, <1>5, <1>6, <2>3
  <2> QED
    BY <1>4, <1>5, <2>2, <2>4, Zenon DEF Stored
<1>7. CASE b < i
  <2>1. PICK d \in b + 1 .. i :
           /\ EqualsAt(t, b, d, i)
           /\ b \in FieldsOf(t)
           /\ KeyPart(FieldAt(t, b)) = SubSeq(t, b + 1, d - 1)
           /\ ValuePart(FieldAt(t, b)) = SubSeq(t, d + 1, i)
           /\ SubSeq(t, b + 1, d - 1) # <<>>
           /\ SubSeq(t, b + 1, d - 1) \in Seq(C) /\ SubSeq(t, d + 1, i) \in Seq(C)
           /\ Escapes(SubSeq(t, b + 1, d - 1)) /\ Escapes(SubSeq(t, d + 1, i))
    BY <1>7, FieldDivided
  <2>2. e = d
    BY <1>1, <2>1 DEF EqualsAt
  <2>3. UrlDecode(f.key) = FormName(t, b) /\ UrlDecode(f.value) = FormValue(t, b)
    <3>1. UrlDecode(SubSeq(t, b + 1, d - 1)) = Meaning(SubSeq(t, b + 1, d - 1))
      BY <2>1, Decoded
    <3>2. UrlDecode(SubSeq(t, d + 1, i)) = Meaning(SubSeq(t, d + 1, i))
      BY <2>1, Decoded
    <3> QED
      BY <1>5, <2>1, <2>2, <3>1, <3>2 DEF FormName, FormValue
  <2>4. f.key # <<>>
    BY <1>5, <2>1, <2>2
  <2>5. Stored(f) = Put(old, FormName(t, b), FormValue(t, b))
    BY <1>5, <2>3, <2>4, Zenon DEF Stored
  <2>6. G = F \cup {b} /\ b \notin F /\ F \in SUBSET Nat
    BY <1>1, <1>3, <1>4, <2>1
  <2>7. SaidBy(t, F \cup {b}) = Put(old, FormName(t, b), FormValue(t, b))
    BY <1>1, <1>3, <2>6, OneMoreField
  <2> QED
    BY <2>5, <2>6, <2>7
<1> QED
  BY <1>1, <1>6, <1>7

\* Some field is being read at i, and the scanner has it as above.
ScannedAt(t, i, state) ==
  \E b \in 0 .. i, e \in 1 .. i + 1 :
    ReadTo(t, b, i) /\ EqualsAt(t, b, e, i) /\ state = Scanned(t, b, e, i)

LEMMA NoPart ==
  ASSUME NEW t, NEW a \in Int, NEW z \in Int, z < a
  PROVE  SubSeq(t, a, z) = <<>>
  OBVIOUS

LEMMA OneMorePart ==
  ASSUME NEW C, NEW t \in Seq(C), NEW a \in Nat \ {0}, NEW z \in Nat, a <= z + 1, z + 1 <= Len(t)
  PROVE  SubSeq(t, a, z + 1) = Append(SubSeq(t, a, z), t[z + 1])
  OBVIOUS

\* A separator stores the field, an "=" turns to its value, and any other character
\* belongs to the side it stands on.
LEMMA ScanStep ==
  ASSUME NEW C, NEW t \in Seq(C), FormOf(t), NEW i \in 0 .. Len(t) - 1, NEW state,
         ScannedAt(t, i, state)
  PROVE  ScannedAt(t, i + 1, Scan(state, t[i + 1]))
<1>1. i \in Nat /\ Len(t) \in Nat /\ i + 1 <= Len(t) /\ i <= Len(t) /\ i + 1 \in 1 .. Len(t)
      /\ i + 1 \in Nat
  OBVIOUS
<1>2. PICK b \in 0 .. i, e \in 1 .. i + 1 :
        ReadTo(t, b, i) /\ EqualsAt(t, b, e, i) /\ state = Scanned(t, b, e, i)
  BY DEF ScannedAt
<1>3. /\ state.fields = SaidBy(t, FieldsBefore(t, b)) /\ state.key = SubSeq(t, b + 1, e - 1)
      /\ state.value = SubSeq(t, e + 1, i)
      /\ state.into = IF e <= i THEN "value" ELSE "key"
  BY <1>2 DEF Scanned
<1>4. b \in Nat /\ e \in Nat /\ e >= b + 1 /\ e <= i + 1 /\ b <= i
      /\ \A j \in b + 1 .. i : t[j] = "=" <=> j = e
  BY <1>1, <1>2 DEF EqualsAt
<1>5. CASE t[i + 1] = "&"
  <2>1. i + 1 \in Ampersands(t)
    BY <1>1, <1>5 DEF Ampersands, Places
  <2>2. Stored(state) = SaidBy(t, FieldsBefore(t, i + 1))
    BY <1>1, <1>2, <2>1, FieldStored
  <2>3. Scan(state, t[i + 1]) = [fields |-> Stored(state), key |-> <<>>, value |-> <<>>, into |-> "key"]
    BY <1>5 DEF Scan
  <2>4. /\ SubSeq(t, (i + 1) + 1, (i + 2) - 1) = <<>> /\ SubSeq(t, (i + 2) + 1, i + 1) = <<>>
        /\ ~ (i + 2 <= i + 1)
    BY <1>1, NoPart
  <2>5. Scan(state, t[i + 1]) = Scanned(t, i + 1, i + 2, i + 1)
    BY <2>2, <2>3, <2>4 DEF Scanned
  <2>6. ReadTo(t, i + 1, i + 1) /\ EqualsAt(t, i + 1, i + 2, i + 1)
    BY <1>1, <2>1 DEF ReadTo, EqualsAt
  <2>7. i + 1 \in 0 .. i + 1 /\ i + 2 \in 1 .. (i + 1) + 1
    BY <1>1
  <2> QED
    BY <2>5, <2>6, <2>7 DEF ScannedAt
<1>6. ASSUME t[i + 1] # "&" PROVE ReadTo(t, b, i + 1)
  <2>1. \A j \in b + 1 .. i + 1 : j \in b + 1 .. i \/ j = i + 1
    BY <1>1, <1>4
  <2> QED
    BY <1>1, <1>2, <1>4, <1>6, <2>1 DEF ReadTo
<1>7. CASE t[i + 1] = "="
  <2>1. ReadTo(t, b, i + 1)
    BY <1>6, <1>7
  <2>2. PICK z \in Nat : /\ i + 1 <= z /\ z <= Len(t) /\ ReadTo(t, b, z)
                        /\ z + 1 \in Ampersands(t) \cup {Len(t) + 1}
    BY <1>1, <2>1, FieldHasEnd
  <2>3. PICK d \in b + 1 .. z : EqualsAt(t, b, d, z)
    BY <1>1, <1>4, <2>2, FieldDivided
  <2>4. e = i + 1
    <3>1. \A j \in b + 1 .. z : t[j] = "=" <=> j = d
      BY <2>3 DEF EqualsAt
    <3>2. i + 1 \in b + 1 .. z
      BY <1>1, <1>4, <2>2
    <3>3. d = i + 1
      BY <1>7, <3>1, <3>2
    <3>4. ASSUME e <= i PROVE FALSE
      <4>1. e \in b + 1 .. i /\ e \in b + 1 .. z
        BY <1>1, <1>4, <2>2, <3>4
      <4>2. t[e] = "="
        BY <1>4, <4>1
      <4>3. e = d
        BY <3>1, <4>1, <4>2
      <4> QED
        BY <1>1, <1>4, <3>3, <3>4, <4>3
    <3> QED
      BY <1>1, <1>4, <3>4
  <2>5. Scan(state, t[i + 1]) = [state EXCEPT !.into = "value"]
    BY <1>7 DEF Scan
  <2>6. SubSeq(t, (i + 1) + 1, i) = <<>> /\ SubSeq(t, (i + 1) + 1, i + 1) = <<>> /\ i + 1 <= i + 1
    BY <1>1, NoPart
  <2>7. Scan(state, t[i + 1]) = Scanned(t, b, i + 1, i + 1)
    BY <1>2, <2>4, <2>5, <2>6 DEF Scanned
  <2>8. EqualsAt(t, b, i + 1, i + 1)
    <3>1. ASSUME NEW j \in b + 1 .. i + 1 PROVE t[j] = "=" <=> j = i + 1
      <4>1. CASE j = i + 1
        BY <1>7, <4>1
      <4>2. CASE j # i + 1
        <5>1. j \in b + 1 .. i
          BY <1>1, <1>4, <4>2
        <5> QED
          BY <1>4, <2>4, <4>2, <5>1
      <4> QED
        BY <4>1, <4>2
    <3> QED
      BY <1>1, <1>4, <3>1 DEF EqualsAt
  <2>9. b \in 0 .. i + 1 /\ i + 1 \in 1 .. (i + 1) + 1
    BY <1>1, <1>4
  <2> QED
    BY <2>1, <2>7, <2>8, <2>9 DEF ScannedAt
<1>8. CASE t[i + 1] # "&" /\ t[i + 1] # "="
  <2>1. ReadTo(t, b, i + 1)
    BY <1>6, <1>8
  <2>2. Scan(state, t[i + 1]) = [state EXCEPT ![state.into] = Append(@, t[i + 1])]
    BY <1>8 DEF Scan
  <2>3. CASE e <= i
    <3>1. Scan(state, t[i + 1]) = [state EXCEPT !["value"] = Append(@, t[i + 1])]
      BY <1>3, <2>2, <2>3
    <3>2. SubSeq(t, e + 1, i + 1) = Append(SubSeq(t, e + 1, i), t[i + 1])
      BY <1>1, <1>4, <2>3, OneMorePart
    <3>3. e <= i + 1
      BY <1>4
    <3>4. Scan(state, t[i + 1]) = Scanned(t, b, e, i + 1)
      BY <1>2, <2>3, <3>1, <3>2, <3>3 DEF Scanned
    <3>5. EqualsAt(t, b, e, i + 1)
      <4>1. \A j \in b + 1 .. i + 1 : j \in b + 1 .. i \/ j = i + 1
        BY <1>1, <1>4
      <4>2. e # i + 1
        BY <1>1, <1>4, <2>3
      <4> QED
        BY <1>1, <1>4, <1>8, <4>1, <4>2 DEF EqualsAt
    <3>6. b \in 0 .. i + 1 /\ e \in 1 .. (i + 1) + 1
      BY <1>1, <1>4
    <3> QED
      BY <2>1, <3>4, <3>5, <3>6 DEF ScannedAt
  <2>4. CASE e = i + 1
    <3>1. Scan(state, t[i + 1]) = [state EXCEPT !["key"] = Append(@, t[i + 1])]
      <4>1. ~ (e <= i)
        BY <1>1, <2>4
      <4>2. state.into = "key"
        BY <1>3, <4>1
      <4> QED
        BY <2>2, <4>2
    <3>2. SubSeq(t, b + 1, i + 1) = Append(SubSeq(t, b + 1, i), t[i + 1])
      BY <1>1, <1>4, OneMorePart
    <3>3. /\ e - 1 = i /\ (i + 2) - 1 = i + 1 /\ ~ (i + 2 <= i + 1) /\ ~ (e <= i)
          /\ SubSeq(t, e + 1, i) = <<>> /\ SubSeq(t, (i + 2) + 1, i + 1) = <<>>
      BY <1>1, <2>4, NoPart
    <3>4. Scan(state, t[i + 1]) = Scanned(t, b, i + 2, i + 1)
      BY <1>2, <3>1, <3>2, <3>3 DEF Scanned
    <3>5. EqualsAt(t, b, i + 2, i + 1)
      <4>1. ASSUME NEW j \in b + 1 .. i + 1 PROVE t[j] # "=" /\ j # i + 2
        <5>1. CASE j = i + 1
          BY <1>1, <1>8, <5>1
        <5>2. CASE j # i + 1
          <6>1. j \in b + 1 .. i /\ j # e /\ j # i + 2
            BY <1>1, <1>4, <2>4, <5>2
          <6> QED
            BY <1>4, <6>1
        <5> QED
          BY <5>1, <5>2
      <4>2. i + 2 \in b + 1 .. (i + 1) + 1
        BY <1>1, <1>4
      <4> QED
        BY <4>1, <4>2 DEF EqualsAt
    <3>6. b \in 0 .. i + 1 /\ i + 2 \in 1 .. (i + 1) + 1
      BY <1>1, <1>4
    <3> QED
      BY <2>1, <3>4, <3>5, <3>6 DEF ScannedAt
  <2> QED
    BY <1>1, <1>4, <2>3, <2>4
<1> QED
  BY <1>5, <1>7, <1>8

\* The scanner's state behind each position.
Start == [fields |-> <<>>, key |-> <<>>, value |-> <<>>, into |-> "key"]

LEMMA ScanExists ==
  ASSUME NEW t, NEW n \in Nat
  PROVE  \E f : f = [i \in 0 .. n |-> IF i = 0 THEN Start ELSE Scan(f[i - 1], t[i])]
<1> DEFINE Good(f, m) == f = [i \in 0 .. m |-> IF i = 0 THEN Start ELSE Scan(f[i - 1], t[i])]
           W == {m \in Nat : \E f : Good(f, m)}
<1>1. 0 \in W
  <2> DEFINE g == [i \in 0 .. 0 |-> Start]
  <2>1. g = [i \in 0 .. 0 |-> IF i = 0 THEN Start ELSE Scan(g[i - 1], t[i])]
    <3>1. \A i \in 0 .. 0 : i = 0
      OBVIOUS
    <3> QED
      BY <3>1
  <2> HIDE DEF g
  <2>2. Good(g, 0)
    BY <2>1
  <2> HIDE DEF Good
  <2> QED
    BY <2>2
<1>2. ASSUME NEW m \in W PROVE m + 1 \in W
  <2>1. m \in Nat
    OBVIOUS
  <2>2. PICK f : f = [i \in 0 .. m |-> IF i = 0 THEN Start ELSE Scan(f[i - 1], t[i])]
    OBVIOUS
  <2> DEFINE g == [i \in 0 .. m + 1 |-> IF i = m + 1 THEN Scan(f[m], t[i]) ELSE f[i]]
  <2>3. \A i \in 0 .. m : f[i] = IF i = 0 THEN Start ELSE Scan(f[i - 1], t[i])
    BY <2>2, Zenon
  <2>4. (\A i \in 0 .. m : g[i] = f[i]) /\ g[m + 1] = Scan(f[m], t[m + 1])
    BY <2>1
  <2>5. g = [i \in 0 .. m + 1 |-> g[i]]
    OBVIOUS
  <2> HIDE DEF g
  <2>6. ASSUME NEW i \in 0 .. m + 1 PROVE g[i] = IF i = 0 THEN Start ELSE Scan(g[i - 1], t[i])
    <3>1. CASE i = m + 1
      <4>1. i # 0 /\ i - 1 = m /\ m \in 0 .. m
        BY <2>1, <3>1
      <4>2. g[i - 1] = f[m]
        BY <2>4, <4>1
      <4> QED
        BY <2>4, <3>1, <4>1, <4>2
    <3>2. CASE i # m + 1
      <4>1. i \in 0 .. m /\ (i # 0 => i - 1 \in 0 .. m)
        BY <2>1, <3>2
      <4>2. i # 0 => g[i - 1] = f[i - 1]
        BY <2>4, <4>1
      <4> QED
        BY <2>3, <2>4, <4>1, <4>2
    <3> QED
      BY <3>1, <3>2
  <2>7. Good(g, m + 1)
    BY <2>5, <2>6
  <2> HIDE DEF Good
  <2> QED
    BY <2>1, <2>7
<1>3. W = Nat
  <2> HIDE DEF W
  <2> QED
    BY <1>1, <1>2, AllNumbers DEF W
<1>4. n \in W
  <2> HIDE DEF W
  <2> QED
    BY <1>3
<1> QED
  BY <1>4

LEMMA ScanIs ==
  ASSUME NEW C, NEW t \in Seq(C)
  PROVE  \E f : /\ InitializeGet(t) = Stored(f[Len(t)])
                /\ f[0] = Start
                /\ \A i \in 0 .. Len(t) - 1 : f[i + 1] = Scan(f[i], t[i + 1])
<1> DEFINE n == Len(t)
           Good(f) == f = [i \in 0 .. n |-> IF i = 0 THEN Start ELSE Scan(f[i - 1], t[i])]
           after == CHOOSE f : Good(f)
<1>1. n \in Nat
  OBVIOUS
<1>2. InitializeGet(t) = Stored(after[n])
  BY DEF InitializeGet, Start
<1>3. Good(after)
  <2>1. \E f : Good(f)
    BY <1>1, ScanExists
  <2> HIDE DEF Good
  <2> QED
    BY <2>1
<1>4. \A i \in 0 .. n : after[i] = IF i = 0 THEN Start ELSE Scan(after[i - 1], t[i])
  BY <1>3, Zenon
<1> HIDE DEF after, n
<1>5. ASSUME NEW i \in 0 .. n - 1 PROVE after[i + 1] = Scan(after[i], t[i + 1])
  <2>1. i + 1 \in 0 .. n /\ i + 1 # 0 /\ (i + 1) - 1 = i
    BY <1>1
  <2> QED
    BY <1>4, <2>1
<1>6. after[0] = Start
  BY <1>1, <1>4
<1> QED
  BY <1>2, <1>5, <1>6 DEF n

\* A form is read as what it says.
LEMMA GetReads ==
  ASSUME NEW C, NEW t \in Seq(C), FormOf(t)
  PROVE  InitializeGet(t) = SaidBy(t, FieldsOf(t))
<1> DEFINE n == Len(t)
<1>1. n \in Nat
  OBVIOUS
<1>2. PICK f : /\ InitializeGet(t) = Stored(f[n])
               /\ f[0] = Start
               /\ \A i \in 0 .. n - 1 : f[i + 1] = Scan(f[i], t[i + 1])
  BY ScanIs
<1>3. ScannedAt(t, 0, f[0])
  <2>1. FieldsBefore(t, 0) = {}
    <3>1. \A g \in FieldsOf(t) : g \in Nat
      BY DEF FieldsOf, Places
    <3> QED
      BY <3>1 DEF FieldsBefore
  <2>2. SaidBy(t, {}) = <<>>
    BY DEF SaidBy
  <2>3. SubSeq(t, 0 + 1, 1 - 1) = <<>> /\ SubSeq(t, 1 + 1, 0) = <<>>
    BY NoPart
  <2>4. f[0] = Scanned(t, 0, 1, 0)
    <3>1. Scanned(t, 0, 1, 0) =
            [fields |-> SaidBy(t, FieldsBefore(t, 0)), key |-> SubSeq(t, 0 + 1, 1 - 1),
             value |-> SubSeq(t, 1 + 1, 0), into |-> "key"]
      BY DEF Scanned
    <3> QED
      BY <1>2, <2>1, <2>2, <2>3, <3>1, Zenon DEF Start
  <2>5. ReadTo(t, 0, 0) /\ EqualsAt(t, 0, 1, 0)
    BY DEF ReadTo, EqualsAt
  <2> QED
    BY <2>4, <2>5 DEF ScannedAt
<1> DEFINE W == {i \in Nat : i <= n => ScannedAt(t, i, f[i])}
<1>4. W = Nat
  <2>1. 0 \in W
    BY <1>3
  <2>2. ASSUME NEW i \in W PROVE i + 1 \in W
    <3> SUFFICES ASSUME i + 1 <= n PROVE ScannedAt(t, i + 1, f[i + 1])
      OBVIOUS
    <3>1. i \in 0 .. n - 1 /\ ScannedAt(t, i, f[i])
      BY <1>1
    <3>2. f[i + 1] = Scan(f[i], t[i + 1])
      BY <1>2, <3>1
    <3> QED
      BY <3>1, <3>2, ScanStep
  <2> HIDE DEF W
  <2> QED
    BY <2>1, <2>2, AllNumbers DEF W
<1>5. ScannedAt(t, n, f[n])
  <2>1. n \in W
    BY <1>1, <1>4
  <2> QED
    BY <1>1, <2>1
<1>6. PICK b \in 0 .. n, e \in 1 .. n + 1 :
        ReadTo(t, b, n) /\ EqualsAt(t, b, e, n) /\ f[n] = Scanned(t, b, e, n)
  BY <1>5 DEF ScannedAt
<1>7. Stored(f[n]) = SaidBy(t, FieldsBefore(t, n + 1))
  BY <1>1, <1>6, FieldStored
<1>8. FieldsBefore(t, n + 1) = FieldsOf(t)
  <2>1. \A g \in FieldsOf(t) : g < n + 1
    BY <1>1 DEF FieldsOf, Places
  <2> QED
    BY <2>1 DEF FieldsBefore
<1> QED
  BY <1>2, <1>7, <1>8

LEMMA FormIsRead ==
  ASSUME NEW C, NEW t \in Seq(C)
  PROVE  FormRead(t)
<1> SUFFICES ASSUME FormOf(t)
             PROVE  /\ InitializeGet(t) = SaidBy(t, FieldsOf(t))
                    /\ "NUL" \notin ToSet(t) => InitializePost(Len(t), t) = SaidBy(t, FieldsOf(t))
                    /\ InitializePost(Len(t) + 1, t) = <<>>
  BY DEF FormRead, FormOf
<1>1. Len(t) \in Nat /\ Len(t) < Len(t) + 1 /\ ~ (Len(t) < Len(t))
  OBVIOUS
<1>2. InitializeGet(t) = SaidBy(t, FieldsOf(t))
  BY GetReads
<1>3. ASSUME "NUL" \notin ToSet(t) PROVE InitializePost(Len(t), t) = SaidBy(t, FieldsOf(t))
  <2>1. CStr(t) = t
    BY <1>3, UpToZero
  <2>2. SubSeq(t, 1, Len(t)) = t
    OBVIOUS
  <2>3. CASE Len(t) = 0
    <3>1. t = <<>> /\ Places(t, "&") = {}
      BY <2>3 DEF Places
    <3>2. FieldsOf(t) = {}
      <4>1. ReadTo(t, 0, 0) /\ 0 + 1 \in Ampersands(t) \cup {Len(t) + 1}
        BY <2>3 DEF ReadTo
      <4>2. FieldAt(t, 0) = SubSeq(t, 0 + 1, 0)
        BY <1>1, <4>1, FieldEnds
      <4>3. FieldAt(t, 0) = <<>>
        BY <4>2, NoPart
      <4> QED
        BY <3>1, <4>3 DEF FieldsOf
    <3>3. SaidBy(t, {}) = <<>>
      BY DEF SaidBy
    <3> QED
      BY <2>3, <3>2, <3>3 DEF InitializePost
  <2>4. CASE Len(t) # 0
    BY <1>1, <1>2, <2>1, <2>2, <2>4 DEF InitializePost
  <2> QED
    BY <2>3, <2>4
<1>4. InitializePost(Len(t) + 1, t) = <<>>
  BY <1>1 DEF InitializePost
<1> QED
  BY <1>2, <1>3, <1>4

\* For every form, however long: initializeGet and initializePost read fields with one
\* "=" each as what they say, escapes and repeated names included.
THEOREM FormsUnderstood == Spec => []FormUnderstood
<1>1. EditInv => FormUnderstood
  BY FormIsRead DEF EditInv, FormUnderstood
<1> QED
  BY <1>1, EditInit, EditStep, PTL DEF Spec

===============================================================================
