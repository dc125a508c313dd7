------------------------------- MODULE Doubles --------------------------------
(***************************************************************************)
(* What becomes of the numbers of a document: the parser makes doubles of   *)
(* them, the configuration casts the whole ones to long long, the printer  *)
(* shows 15 digits.  The arithmetic of doubles is the platform's and left   *)
(* open: the properties are about the numbers it does not lose.            *)
(***************************************************************************)
EXTENDS Json

CONSTANTS
  Double(_, _),  \* the double for m * 10^s, as the number it is, or Infinite
  Precision,     \* the digits that are printed: 15
  MaxLong,       \* the largest long long
  Overflow       \* what this build makes of a cast that does not fit

ASSUME DoubleAssumption == Precision \in Nat \ {0} /\ MaxLong \in Nat

Infinite == <<"infinite">>

\* The digits of a whole number, and how many they are.
DigitsOf(n) ==
  LET digits[k \in 0..n] ==
        IF k < 10 THEN <<DigitChars[k + 1]>>
        ELSE Append(digits[k \div 10], DigitChars[(k % 10) + 1])
  IN digits[n]

Absolute(m) == IF m < 0 THEN -m ELSE m
DigitCount(m) == Len(DigitsOf(Absolute(m)))

\* How many units there are in a, a half going to the even side.
Units(a, unit) ==
  LET whole == a \div unit
      rest == 2 * (a % unit)
  IN IF rest > unit \/ (rest = unit /\ whole % 2 = 1) THEN whole + 1 ELSE whole

\* ss.precision(15): a number in as many digits as are printed.
Shortened(m, s, excess) ==
  LET a == Units(Absolute(m), 10 ^ excess)
  IN Number(IF m < 0 THEN -a ELSE a, s + excess)

Rounded(d) ==
  IF d = Infinite \/ DigitCount(d[2]) <= Precision THEN d
  ELSE Shortened(d[2], d[3], DigitCount(d[2]) - Precision)

\* isLong: the fraction that modf leaves, none of the infinite.
IsLong(d) == d = Infinite \/ d[3] >= 0

\* (long long)num, which is undefined for what does not fit.
Fits(d) == d # Infinite /\ d[2] * 10 ^ d[3] \in (-MaxLong - 1)..MaxLong
Cast(d) == IF Fits(d) THEN d ELSE Overflow

\* The numbers whose double says them in the digits that are printed.
Shown(m, s) == Rounded(Double(m, s)) = <<"number", m, s>>
===============================================================================
