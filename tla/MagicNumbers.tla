---------------------------- MODULE MagicNumbers ----------------------------
(***************************************************************************)
(* The arithmetic of NativeRegisterPeephole.cpp's divisions: which divisor *)
(* a magic multiplier and a shift belong to, and why the product shifted   *)
(* down is the quotient.  QuotientsAgree runs the whole recogniser on      *)
(* small words; the theorems here are about words of every width.          *)
(***************************************************************************)
EXTENDS Integers, TLAPS

NoDivisor == 0

CeilingOf(n, d) == (n + d - 1) \div d

\* Bug: the error of the magic number is not compared with the dividends.
SolveMagicDivisorUnchecked(magic, shift, inputBits, width, allowShortShift) ==
    LET minShift == IF allowShortShift THEN 1 ELSE width
        d == CeilingOf(2^shift, magic)
    IN  IF /\ magic # 0 /\ magic < 2^width
           /\ shift \in minShift .. 2 * width
           /\ d >= 3 /\ d < 2^width
           /\ magic * d >= 2^shift /\ (magic - 1) * d < 2^shift
        THEN d ELSE NoDivisor

(* The magic number is ceil(2^shift / d) and its error is small enough for *)
(* every dividend below 2^inputBits.                                       *)
SolveMagicDivisor(magic, shift, inputBits, width, allowShortShift) ==
    LET minShift == IF allowShortShift THEN 1 ELSE width
        d == CeilingOf(2^shift, magic)
        error == magic * d - 2^shift
    IN  IF /\ magic # 0 /\ magic < 2^width
           /\ inputBits \in 1 .. width
           /\ shift \in minShift .. 2 * width
           /\ d >= 3 /\ d < 2^width
           /\ error >= 0 /\ (magic - 1) * d < 2^shift
           /\ error * 2^inputBits <= 2^shift
        THEN d ELSE NoDivisor

(* E(q, r), what the dividend q * d + r adds to q.                         *)
Excess(q, r, error, magic, power) == r + ((q * error + r * magic) \div power)

(* The excess is small enough at the two corners of the dividends.         *)
SolveUnsignedAddMagicDivisor(magic, highShift, extraShift, inputBits, width) ==
    LET d == CeilingOf(2^highShift, magic)
        error == magic * d - 2^highShift
        Worst(q, r) == Excess(q, r, error, magic, 2^highShift)
        maxX == 2^inputBits - 1
        qMax == (maxX - 1) \div d
        rMax == (maxX - 1) - qMax * d
    IN  IF /\ magic # 0 /\ magic < 2^width
           /\ inputBits \in 1 .. width
           /\ highShift \in width .. 2 * width
           /\ extraShift \in 1 .. width
           /\ d >= 3 /\ d < 2^width
           /\ error >= 0 /\ (magic - 1) * d < 2^highShift
           /\ Worst(qMax, rMax) < 2^extraShift
           /\ qMax # 0 => Worst(qMax - 1, d - 1) < 2^extraShift
        THEN d ELSE NoDivisor

-----------------------------------------------------------------------------
(* Quotients                                                               *)

LEMMA QuotientAndRest ==
  ASSUME NEW a \in Nat, NEW d \in Nat, d > 0
  PROVE  \E r \in 0 .. d - 1 : a \div d \in Nat /\ a = (a \div d) * d + r
  OBVIOUS

LEMMA IsQuotient ==
  ASSUME NEW a \in Int, NEW d \in Nat, d > 0, NEW q \in Int, NEW r \in Nat, r < d, a = q * d + r
  PROVE  a \div d = q
  OBVIOUS

\* What the dividend q * d + r adds to q * P: the excess of the product.
LEMMA ProductSplits ==
  ASSUME NEW M \in Int, NEW d \in Int, NEW P \in Int, NEW q \in Int, NEW r \in Int,
         NEW e \in Int, e = M * d - P
  PROVE  /\ (q * d + r) * M = q * P + (q * e + r * M)
         /\ d * (q * e + r * M) = (q * d + r) * e + r * P
<1>1. M * d = P + e
  OBVIOUS
<1>2. (q * d + r) * M = q * (M * d) + r * M
  OBVIOUS
<1>3. q * (P + e) + r * M = q * P + (q * e + r * M)
  OBVIOUS
<1>4. d * (q * e + r * M) = (q * d) * e + r * (M * d)
  OBVIOUS
<1>5. (q * d) * e + r * (P + e) = (q * d + r) * e + r * P
  OBVIOUS
<1> QED BY <1>1, <1>2, <1>3, <1>4, <1>5

LEMMA LessFactor ==
  ASSUME NEW a \in Int, NEW b \in Int, NEW d \in Nat, d > 0, d * a < d * b
  PROVE  a < b
  OBVIOUS

LEMMA MagicQuotient ==
  ASSUME NEW M \in Nat, NEW d \in Nat, d > 0, NEW P \in Nat, P > 0, NEW L \in Nat,
         M * d >= P, (M * d - P) * L <= P, NEW x \in Nat, x < L
  PROVE  (x * M) \div P = x \div d
<1> DEFINE e == M * d - P
<1>1. e \in Nat /\ e * L <= P
  OBVIOUS
<1>2. PICK r \in 0 .. d - 1 : x \div d \in Nat /\ x = (x \div d) * d + r
  BY QuotientAndRest
<1> DEFINE q == x \div d
           t == q * e + r * M
<1>3. q \in Nat /\ r \in Nat /\ r <= d - 1 /\ x = q * d + r
  BY <1>2
<1>4. e = M * d - P
  OBVIOUS
<1> HIDE DEF e, q
<1>5. x * M = q * P + t /\ d * t = x * e + r * P
  BY <1>1, <1>3, <1>4, ProductSplits
<1>6. t \in Nat
  BY <1>1, <1>3
<1> HIDE DEF t
<1>7. x * e < P
  <2>1. CASE e = 0 BY <2>1
  <2>2. CASE e > 0
    <3>1. x * e < L * e
      BY <1>1, <2>2
    <3> QED BY <3>1, <1>1
  <2> QED BY <2>1, <2>2, <1>1
<1>8. r * P <= (d - 1) * P
  BY <1>3
<1>9. d * t < d * P
  BY <1>1, <1>3, <1>5, <1>6, <1>7, <1>8
<1>10. t < P
  BY <1>6, <1>9, LessFactor
<1>11. x * M \in Int
  OBVIOUS
<1> QED BY <1>3, <1>5, <1>6, <1>10, <1>11, IsQuotient DEF q

\* The arithmetic shift of a negative product, one too small, is corrected by
\* the sign of the dividend -y; an error of zero would not do.
LEMMA MagicNegative ==
  ASSUME NEW M \in Nat, NEW d \in Nat, d > 0, NEW P \in Nat, P > 0, NEW L \in Nat,
         M * d > P, (M * d - P) * L <= P, NEW y \in Nat, y > 0, y <= L
  PROVE  (-(y * M)) \div P + 1 = -(y \div d)
<1> DEFINE e == M * d - P
<1>1. e \in Nat /\ e > 0 /\ e * L <= P /\ M > 0
  OBVIOUS
<1>2. PICK r \in 0 .. d - 1 : y \div d \in Nat /\ y = (y \div d) * d + r
  BY QuotientAndRest
<1> DEFINE q == y \div d
           t == q * e + r * M
<1>3. q \in Nat /\ r \in Nat /\ r <= d - 1 /\ y = q * d + r
  BY <1>2
<1>4. e = M * d - P
  OBVIOUS
<1> HIDE DEF e, q
<1>5. y * M = q * P + t /\ d * t = y * e + r * P
  BY <1>1, <1>3, <1>4, ProductSplits
<1>6. t \in Nat /\ t > 0
  <2>1. q * e \in Nat /\ r * M \in Nat
    BY <1>1, <1>3
  <2>2. CASE r > 0
    <3>1. r * M > 0
      BY <2>2, <1>1
    <3> QED BY <2>1, <3>1
  <2>3. CASE r = 0
    <3>1. q > 0
      BY <2>3, <1>3
    <3>2. q * e > 0
      BY <3>1, <1>1, <1>3
    <3> QED BY <2>1, <3>2
  <2> QED BY <2>2, <2>3, <1>3
<1> HIDE DEF t
<1>7. y * e <= P
  <2>1. y * e <= L * e
    BY <1>1
  <2> QED BY <2>1, <1>1
<1>8. r * P <= (d - 1) * P
  BY <1>3
<1>9. d * t < d * (P + 1)
  BY <1>1, <1>3, <1>5, <1>6, <1>7, <1>8
<1>10. t < P + 1
  BY <1>6, <1>9, LessFactor
<1>11. -(y * M) = (-q - 1) * P + (P - t)
  BY <1>1, <1>3, <1>5, <1>6
<1>12. P - t \in Nat /\ P - t < P /\ -(y * M) \in Int
  BY <1>6, <1>10
<1>13. (-(y * M)) \div P = -q - 1
  BY <1>3, <1>11, <1>12, IsQuotient
<1> QED BY <1>3, <1>13 DEF q

LEMMA QuotientGrows ==
  ASSUME NEW a \in Nat, NEW b \in Nat, a <= b, NEW d \in Nat, d > 0
  PROVE  a \div d <= b \div d
  OBVIOUS

\* With the correction: x + h is q * (d + 1) and the excess at x.
LEMMA MagicCorrected ==
  ASSUME NEW M \in Nat, NEW d \in Nat, d > 0, NEW P \in Nat, P > 0, M * d >= P,
         NEW q \in Nat, NEW r \in Nat, r < d, NEW worst \in Nat, worst < d + 1,
         r + ((q * (M * d - P) + r * M) \div P) <= worst
  PROVE  (q * d + r + (((q * d + r) * M) \div P)) \div (d + 1) = q
<1> DEFINE e == M * d - P
           t == q * e + r * M
<1>1. e \in Nat /\ t \in Nat
  OBVIOUS
<1>2. (q * d + r) * M = q * P + t
  BY ProductSplits
<1> HIDE DEF t
<1>3. PICK s \in 0 .. P - 1 : t \div P \in Nat /\ t = (t \div P) * P + s
  BY <1>1, QuotientAndRest
<1> DEFINE h == t \div P
<1>4. h \in Nat /\ t = h * P + s /\ r + h <= worst
  BY <1>3 DEF t
<1> HIDE DEF h
<1>5. q * P + t = (q + h) * P + s
  BY <1>4
<1>6. (q * P + t) \div P = q + h
  <2>1. q * P + t \in Int /\ q + h \in Int /\ s \in Nat /\ s < P
    BY <1>1, <1>4
  <2> QED BY <1>5, <2>1, IsQuotient
<1>7. q * d + r + (q + h) = q * (d + 1) + (r + h)
  BY <1>4
<1>8. r + h < d + 1 /\ r + h \in Nat
  BY <1>4
<1>9. (q * d + r + (q + h)) \div (d + 1) = q
  BY <1>7, <1>8, IsQuotient
<1> QED BY <1>2, <1>6, <1>9

-----------------------------------------------------------------------------
(* What a solved divisor is worth.  That powers of two are positive naturals *)
(* is a hypothesis: the provers know no powers.                              *)

LEMMA Solved ==
  ASSUME NEW magic, NEW shift, NEW inputBits, NEW width, NEW short,
         NEW d, d = SolveMagicDivisor(magic, shift, inputBits, width, short), d # NoDivisor
  PROVE  /\ d = CeilingOf(2^shift, magic) /\ magic # 0 /\ d >= 3
         /\ magic * d - 2^shift >= 0 /\ (magic * d - 2^shift) * 2^inputBits <= 2^shift
BY Zenon DEF SolveMagicDivisor, NoDivisor

(* matchMagicMulChain's rewrite to udiv, at every width: the product of a    *)
(* dividend of inputBits bits shifted down is the quotient by the divisor.   *)
THEOREM UnsignedQuotient ==
  ASSUME NEW magic \in Nat, NEW shift \in Nat, NEW inputBits \in Nat, NEW width \in Nat,
         NEW short \in BOOLEAN, NEW d,
         d = SolveMagicDivisor(magic, shift, inputBits, width, short), d # NoDivisor,
         2^shift \in Nat \ {0}, 2^inputBits \in Nat,
         NEW x \in Nat, x < 2^inputBits
  PROVE  (x * magic) \div 2^shift = x \div d
<1>1. /\ d = CeilingOf(2^shift, magic) /\ magic # 0 /\ d >= 3
      /\ magic * d - 2^shift >= 0 /\ (magic * d - 2^shift) * 2^inputBits <= 2^shift
  BY Solved
<1> DEFINE P == 2^shift
           L == 2^inputBits
<1>2. P \in Nat /\ P > 0 /\ L \in Nat /\ x < L
  OBVIOUS
<1>3. d = CeilingOf(P, magic) /\ d >= 3 /\ magic * d - P >= 0 /\ (magic * d - P) * L <= P
  BY <1>1
<1> HIDE DEF P, L
<1>4. d \in Nat
  BY <1>1, <1>2, <1>3 DEF CeilingOf
<1>5. magic * d >= P
  BY <1>2, <1>3, <1>4
<1>6. (x * magic) \div P = x \div d
  BY <1>2, <1>3, <1>4, <1>5, MagicQuotient
<1> QED BY <1>6 DEF P

(* The rewrite to sdiv for a negative dividend -y, again at every width: the *)
(* shifted product plus the sign is the quotient rounded towards zero,       *)
(* unless the magic number is a power of two (an error of zero), which       *)
(* solveMagicDivisor does not exclude.                                       *)
THEOREM SignedQuotient ==
  ASSUME NEW magic \in Nat, NEW shift \in Nat, NEW inputBits \in Nat, NEW width \in Nat,
         NEW short \in BOOLEAN, NEW d,
         d = SolveMagicDivisor(magic, shift, inputBits, width, short), d # NoDivisor,
         2^shift \in Nat \ {0}, 2^inputBits \in Nat, magic * d # 2^shift,
         NEW y \in Nat, y > 0, y <= 2^inputBits
  PROVE  (-(y * magic)) \div 2^shift + 1 = -(y \div d)
<1>1. /\ d = CeilingOf(2^shift, magic) /\ magic # 0 /\ d >= 3
      /\ magic * d - 2^shift >= 0 /\ (magic * d - 2^shift) * 2^inputBits <= 2^shift
  BY Solved
<1> DEFINE P == 2^shift
           L == 2^inputBits
<1>2. P \in Nat /\ P > 0 /\ L \in Nat /\ y <= L /\ magic * d # P
  OBVIOUS
<1>3. d = CeilingOf(P, magic) /\ d >= 3 /\ magic * d - P >= 0 /\ (magic * d - P) * L <= P
  BY <1>1
<1> HIDE DEF P, L
<1>4. d \in Nat
  BY <1>1, <1>2, <1>3 DEF CeilingOf
<1>5. magic * d > P
  BY <1>2, <1>3, <1>4
<1>6. (-(y * magic)) \div P + 1 = -(y \div d)
  BY <1>2, <1>3, <1>4, <1>5, MagicNegative
<1> QED BY <1>6 DEF P

\* The excess grows with both coordinates, so that one of the two corners of
\* the dividends up to Q * d + R bounds it.
LEMMA CornerBounds ==
  ASSUME NEW M \in Nat, NEW e \in Nat, NEW P \in Nat, P > 0, NEW d \in Nat, d > 0,
         NEW Q \in Nat, NEW R \in Nat, NEW q \in Nat, NEW r \in Nat, r < d,
         q * d + r <= Q * d + R, R < d, NEW limit \in Nat,
         R + ((Q * e + R * M) \div P) < limit,
         Q # 0 => d - 1 + (((Q - 1) * e + (d - 1) * M) \div P) < limit
  PROVE  r + ((q * e + r * M) \div P) < limit
<1> DEFINE Worst(u, v) == v + ((u * e + v * M) \div P)
<1>1. ASSUME NEW u \in Nat, NEW v \in Nat, q <= u, r <= v PROVE Worst(q, r) <= Worst(u, v)
  <2>1. q * e <= u * e /\ r * M <= v * M
    BY <1>1
  <2>2. q * e + r * M \in Nat /\ u * e + v * M \in Nat
    OBVIOUS
  <2>3. q * e + r * M <= u * e + v * M
    BY <2>1, <2>2
  <2>4. (q * e + r * M) \div P <= (u * e + v * M) \div P
    BY <2>2, <2>3, QuotientGrows
  <2>5. (q * e + r * M) \div P \in Int /\ (u * e + v * M) \div P \in Int
    BY <2>2
  <2> QED BY <1>1, <2>4, <2>5
<1>2. Worst(q, r) \in Int /\ Worst(Q, R) \in Int
  OBVIOUS
<1>3. q <= Q
  <2>1. ASSUME q >= Q + 1 PROVE FALSE
    <3>1. q * d >= (Q + 1) * d
      BY <2>1
    <3> QED BY <3>1
  <2> QED BY <2>1
<1>4. CASE q = Q
  <2>1. r <= R
    BY <1>4
  <2>2. Worst(q, r) <= Worst(Q, R)
    BY <1>1, <1>3, <2>1
  <2> QED BY <1>2, <2>2
<1>5. CASE q # Q
  <2>1. Q # 0 /\ Q - 1 \in Nat /\ q <= Q - 1 /\ d - 1 \in Nat /\ r <= d - 1
    BY <1>3, <1>5
  <2>2. Worst(q, r) <= Worst(Q - 1, d - 1)
    BY <1>1, <2>1
  <2>3. Worst(Q - 1, d - 1) < limit /\ Worst(Q - 1, d - 1) \in Int
    BY <2>1
  <2> QED BY <1>2, <2>2, <2>3
<1> QED BY <1>4, <1>5

(* The unsigned chain with a correction, at every width, for divisors with   *)
(* d + 1 = 2^extraShift, which solveUnsignedAddMagicDivisor takes for        *)
(* granted: its two corners bound the excess of every dividend but the       *)
(* largest, 2^inputBits - 1, which they leave out.                           *)
THEOREM CorrectedQuotient ==
  ASSUME NEW magic \in Nat, NEW highShift \in Nat, NEW extraShift \in Nat,
         NEW inputBits \in Nat, NEW width \in Nat, NEW d,
         d = SolveUnsignedAddMagicDivisor(magic, highShift, extraShift, inputBits, width),
         d # NoDivisor, 2^highShift \in Nat \ {0}, 2^inputBits \in Nat, 2^extraShift = d + 1,
         NEW x \in Nat, x < 2^inputBits - 1
  PROVE  (x + ((x * magic) \div 2^highShift)) \div 2^extraShift = x \div d
<1> DEFINE P == 2^highShift
           X == 2^inputBits - 1 - 1
           e == magic * d - P
           Q == X \div d
           R == X - Q * d
           Worst(u, v) == v + ((u * e + v * magic) \div P)
           T == 2^extraShift
<1>0. T = d + 1
  OBVIOUS
<1>1. /\ d = CeilingOf(P, magic) /\ magic # 0 /\ d >= 3 /\ e >= 0
      /\ Worst(Q, R) < T
      /\ Q # 0 => Worst(Q - 1, d - 1) < T
  <2>1. /\ d = CeilingOf(P, magic) /\ magic # 0 /\ d >= 3 /\ magic * d - P >= 0
        /\ Excess(Q, R, magic * d - P, magic, P) < T
        /\ Q # 0 => Excess(Q - 1, d - 1, magic * d - P, magic, P) < T
    <3>1. /\ P = 2^highShift /\ T = 2^extraShift /\ X = 2^inputBits - 1 - 1
          /\ Q = X \div d /\ R = X - Q * d
      OBVIOUS
    <3> HIDE DEF P, T, X, Q, R
    <3> QED BY <3>1, Zenon DEF SolveUnsignedAddMagicDivisor, NoDivisor
  <2> QED BY <2>1, Zenon DEF Excess
<1>2. P \in Nat /\ P > 0 /\ X \in Nat /\ x <= X
  OBVIOUS
<1> HIDE DEF P, X, T
<1>3. d \in Nat /\ d > 0
  <2>1. d = CeilingOf(P, magic) /\ magic # 0 /\ d >= 3
    BY <1>1
  <2> QED BY <1>2, <2>1 DEF CeilingOf
<1>4. Q \in Nat /\ R \in Nat /\ R < d /\ X = Q * d + R
  <2>1. PICK s \in 0 .. d - 1 : X \div d \in Nat /\ X = (X \div d) * d + s
    BY <1>2, <1>3, QuotientAndRest
  <2>2. Q \in Nat /\ X = Q * d + s /\ Q * d \in Nat
    BY <1>3, <2>1
  <2>3. R = X - Q * d
    OBVIOUS
  <2> HIDE DEF Q, R
  <2>4. R = s
    BY <1>3, <2>2, <2>3
  <2> QED BY <1>3, <2>2, <2>4
<1>5. e \in Nat /\ e = magic * d - P /\ magic * d >= P
  <2>1. e >= 0
    BY <1>1
  <2> HIDE DEF Q, R
  <2> QED BY <2>1, <1>2, <1>3
<1> HIDE DEF e, Q, R
<1>6. PICK r \in 0 .. d - 1 : x \div d \in Nat /\ x = (x \div d) * d + r
  BY <1>3, QuotientAndRest
<1> DEFINE q == x \div d
<1>7. q \in Nat /\ r \in Nat /\ r < d /\ x = q * d + r
  BY <1>3, <1>6
<1> HIDE DEF q
<1>8. Worst(q, r) < T
  <2>1. q * d + r <= Q * d + R
    BY <1>2, <1>4, <1>7
  <2>2. T \in Nat
    BY <1>0, <1>3
  <2> QED BY <1>1, <1>2, <1>3, <1>4, <1>5, <1>7, <2>1, <2>2, CornerBounds
<1>9. Worst(q, r) \in Nat
  <2>1. q * e + r * magic \in Nat
    BY <1>5, <1>7
  <2>2. (q * e + r * magic) \div P \in Nat
    BY <1>2, <2>1
  <2> QED BY <1>7, <2>2
<1>10. Worst(q, r) <= Worst(q, r) /\ e = magic * d - P
  BY <1>5, <1>9
<1>11. (q * d + r + (((q * d + r) * magic) \div P)) \div (d + 1) = q
  <2>1. Worst(q, r) < d + 1
    BY <1>0, <1>8
  <2> QED BY <1>2, <1>3, <1>5, <1>7, <2>1, <1>9, <1>10, MagicCorrected
<1>12. (x + ((x * magic) \div P)) \div T = q
  BY <1>0, <1>7, <1>11
<1> QED BY <1>12 DEF P, q, T
=============================================================================
