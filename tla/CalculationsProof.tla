-------------------------- MODULE CalculationsProof -------------------------
(***************************************************************************)
(* Numbers.  The GPU's division and square root are exact whatever their   *)
(* first approximation, if that is close enough, and so is the CPU's root  *)
(* of all but the largest numbers.  Numbers that are put together from     *)
(* parts do not meet: the places of the chunks in the buffer of the        *)
(* scratchpads, the nonces of the threads' slices, and the places of the   *)
(* samples in the telemetry's ring.  The first two of these take a number  *)
(* apart into its digits, the third asks which of the latest samples have  *)
(* a given remainder.                                                      *)
(***************************************************************************)
EXTENDS IntMathCases, Scratchpad, NonceSlices, Telemetry,
        FiniteSetTheorems, WellFoundedInduction, TLAPS

-----------------------------------------------------------------------------
\* Quotients, remainders and products.

LEMMA DivMod ==
  ASSUME NEW n \in Int, NEW m \in Nat \ {0}
  PROVE  /\ n \div m \in Int /\ n % m \in 0 .. m - 1
         /\ n = (n \div m) * m + (n % m)
  BY SMT

LEMMA NextMultiple ==
  ASSUME NEW m \in Nat \ {0}, NEW i \in Int, NEW j \in Int, i < j
  PROVE  i * m + m <= j * m
<1>1. PICK d \in Nat : j = i + 1 + d
  <2>1. j - i - 1 \in Nat OBVIOUS
  <2>. QED BY <2>1, j = i + 1 + (j - i - 1)
<1>2. j * m = i * m + m + d * m BY <1>1
<1>3. d * m \in Nat /\ i * m \in Int OBVIOUS
<1>. QED BY <1>2, <1>3

LEMMA QuotientOf ==
  ASSUME NEW m \in Nat \ {0}, NEW n \in Int, NEW q \in Int, q * m <= n, n < q * m + m
  PROVE  n \div m = q /\ n % m = n - q * m
<1>. DEFINE p == n \div m
            a == n % m
<1>1. p \in Int /\ a \in 0 .. m - 1 /\ n = p * m + a BY DivMod
<1>. HIDE DEF p, a
<1>2. p * m \in Int /\ q * m \in Int BY <1>1
<1>3. ~(p < q)
  <2>. SUFFICES ASSUME p < q PROVE FALSE OBVIOUS
  <2>1. p * m + m <= q * m BY <1>1, NextMultiple
  <2>. QED BY <1>1, <1>2, <2>1
<1>4. ~(q < p)
  <2>. SUFFICES ASSUME q < p PROVE FALSE OBVIOUS
  <2>1. q * m + m <= p * m BY <1>1, NextMultiple
  <2>. QED BY <1>1, <1>2, <2>1
<1>5. p = q BY <1>1, <1>3, <1>4
<1>6. a = n - q * m BY <1>1, <1>2, <1>5
<1>. QED BY <1>5, <1>6 DEF p, a

\* x modulo m, for an x that is one m off at most.
LEMMA ModOf ==
  ASSUME NEW m \in Nat \ {0}, NEW x \in Int, -m <= x, x < 2 * m
  PROVE  x % m = IF x < 0 THEN x + m ELSE IF x < m THEN x ELSE x - m
<1>. DEFINE q == IF x < 0 THEN -1 ELSE IF x < m THEN 0 ELSE 1
<1>1. q \in Int /\ q * m = IF x < 0 THEN -m ELSE IF x < m THEN 0 ELSE m
  <2>1. CASE x < 0 BY <2>1
  <2>2. CASE x >= 0 /\ x < m BY <2>2
  <2>3. CASE x >= m BY <2>3
  <2>. QED BY <2>1, <2>2, <2>3
<1>. HIDE DEF q
<1>2. q * m <= x /\ x < q * m + m BY <1>1
<1>3. x % m = x - q * m BY <1>1, <1>2, QuotientOf
<1>. QED BY <1>1, <1>3

LEMMA LongWord == K * K \in Nat /\ K \in Nat \ {0} /\ K * K >= 8 * K /\ (K * K) % 2 = 0
<1>1. K \in Nat /\ K >= 8 /\ K % 2 = 0 BY KAssumption
<1>2. PICK k \in Nat : K = 2 * k
  <2>1. K \div 2 \in Int /\ K = (K \div 2) * 2 + (K % 2) BY <1>1, DivMod
  <2>2. K \div 2 \in Nat /\ K = 2 * (K \div 2) BY <1>1, <2>1
  <2>. QED BY <2>2
<1>3. PICK d \in Nat : K = 8 + d
  <2>1. K - 8 \in Nat BY <1>1
  <2>. QED BY <2>1, <1>1, K = 8 + (K - 8)
<1>4. K * K = 8 * K + d * K /\ d * K \in Nat BY <1>1, <1>3
<1>5. K * K = 2 * (k * K) /\ k * K \in Nat BY <1>1, <1>2
<1>. QED BY <1>1, <1>4, <1>5

\* Signed arithmetic is right as long as the result fits.
LEMMA Signed ==
  ASSUME NEW m \in Nat \ {0}, NEW x \in Int, -m <= x, x < m, NEW c \in Int, -m <= c, c < m,
         -m <= 2 * (x + c), 2 * (x + c) < m
  PROVE  LET u == ((x % m) + c) % m IN (IF 2 * u < m THEN u ELSE u - m) = x + c
<1>1. x < 2 * m OBVIOUS
<1>2. x % m = IF x < 0 THEN x + m ELSE IF x < m THEN x ELSE x - m BY <1>1, ModOf
<1>. DEFINE y == (x % m) + c
<1>3. y = IF x < 0 THEN x + m + c ELSE x + c BY <1>2
<1>. HIDE DEF y
<1>4. y \in Int /\ -m <= y /\ y < 2 * m BY <1>3
<1>5. y % m = IF y < 0 THEN y + m ELSE IF y < m THEN y ELSE y - m BY <1>4, ModOf
<1>6. (IF 2 * (y % m) < m THEN y % m ELSE (y % m) - m) = x + c BY <1>3, <1>4, <1>5
<1>. QED BY <1>6 DEF y

LEMMA LongOf ==
  ASSUME NEW x \in Int, -(K * K) <= x, x < K * K,
         NEW c \in Int, -(K * K) <= c, c < K * K,
         -(K * K) <= 2 * (x + c), 2 * (x + c) < K * K
  PROVE  Long((x % (K * K)) + c) = x + c
<1>. DEFINE M == K * K
<1>1. M \in Nat \ {0} BY LongWord
<1>2. Long((x % M) + c) =
        LET u == ((x % M) + c) % M IN IF 2 * u < M THEN u ELSE u - M
  BY DEF Long
<1>3. -M <= x /\ x < M /\ -M <= c /\ c < M /\ -M <= 2 * (x + c) /\ 2 * (x + c) < M OBVIOUS
<1>. HIDE DEF M
<1>4. (LET u == ((x % M) + c) % M IN IF 2 * u < M THEN u ELSE u - M) = x + c
  BY <1>1, <1>3, Signed
<1>. QED BY <1>2, <1>4 DEF M

-----------------------------------------------------------------------------
\* The square root of the GPU.

\* What the code compares with 0, x2, is how far the square of the estimate is off.
LEMMA ErrorOfEstimate ==
  ASSUME NEW n \in Int, NEW r \in Nat, NEW s \in Int, NEW b \in {0, 1}, r = 2 * s + b
  PROVE  4 * ((s * (s + b) + r * K) - n) + b
           = (2 * K + r) * (2 * K + r) - 4 * (K * K + n)
<1>1. K \in Nat BY KAssumption
<1>2. s * (s + b) = s * s + s * b /\ b * b = b OBVIOUS
<1>3. r * r = 4 * (s * s) + 4 * (s * b) + b BY <1>2
<1>4. (2 * K + r) * (2 * K + r) = 4 * (K * K) + 4 * (r * K) + r * r BY <1>1
<1>. DEFINE ss == s * s
            sb == s * b
            rK == r * K
            KK == K * K
<1>5. ss \in Int /\ sb \in Int /\ rK \in Int /\ KK \in Int BY <1>1
<1>6. (2 * K + r) * (2 * K + r) = 4 * KK + 4 * rK + (4 * ss + 4 * sb + b) BY <1>3, <1>4
<1>7. s * (s + b) = ss + sb BY <1>2
<1>. HIDE DEF ss, sb, rK, KK
<1>8. 4 * (((ss + sb) + rK) - n) + b = (4 * KK + 4 * rK + (4 * ss + 4 * sb + b)) - 4 * (KK + n)
  BY <1>5
<1>. QED BY <1>6, <1>7, <1>8 DEF rK, KK

\* Where the square of the estimate lies between that of the root and of the next.
LEMMA ErrorOfSquare ==
  ASSUME NEW n \in Nat, NEW root \in Nat, IsRoot(n, root), NEW d \in {-1, 0, 1}
  PROVE  LET error == (2 * K + (root + d)) * (2 * K + (root + d)) - 4 * (K * K + n)
             next  == 2 * d * (2 * K + root) + d * d
         IN  next - 2 * (2 * K + root) <= error /\ error <= next
<1>. DEFINE full == 2 * K + root
            square == full * full
            goal == 4 * (K * K + n)
<1>1. K \in Nat BY KAssumption
<1>2. full \in Nat /\ square \in Nat /\ goal \in Nat BY <1>1
<1>3. square <= goal /\ goal < (full + 1) * (full + 1) BY DEF IsRoot
<1>4. 2 * K + (root + d) = full + d BY <1>1
<1>5. ASSUME NEW f \in Nat, NEW e \in Int PROVE (f + e) * (f + e) = f * f + 2 * e * f + e * e
  BY <1>5
<1>. HIDE DEF full
<1>6. (full + 1) * (full + 1) = square + 2 * full + 1 BY <1>2
<1>7. (full + d) * (full + d) = square + 2 * d * full + d * d BY <1>2, <1>5
<1>8. 2 * d * full \in Int /\ d * d \in Int BY <1>2
<1>. HIDE DEF square, goal
<1>9. (square + 2 * d * full + d * d) - goal <= 2 * d * full + d * d
  BY <1>2, <1>3, <1>8
<1>10. (square + 2 * d * full + d * d) - goal >= (2 * d * full + d * d) - 2 * full
  BY <1>2, <1>3, <1>6, <1>8
<1>11. (2 * K + (root + d)) * (2 * K + (root + d)) - 4 * (K * K + n)
          = (square + 2 * d * full + d * d) - goal
  BY <1>4, <1>7 DEF goal
<1>. QED BY <1>9, <1>10, <1>11 DEF full

\* The root is exact for any estimate one off, for every word size: fast_sqrt_v2 needs no
\* better estimate than the hardware gives it, at no n (fast_int_math_v2.cl:111-134).
THEOREM FastSqrtIsExact ==
  ASSUME NEW n \in ULong, NEW root \in UInt, IsRoot(n, root), NEW r \in UInt,
         root - 1 <= r, r <= root + 1
  PROVE  FastSqrt(n, r) = root
<1>1. /\ n \in Nat /\ n < K * K /\ root \in Nat /\ root < K /\ r \in Nat /\ r < K
      /\ K \in Nat /\ K >= 8
  BY KAssumption, LongWord DEF ULong, UInt
<1>. DEFINE s == r \div 2
            b == r % 2
            x == (s * (s + b) + r * K) - n
            d == r - root
<1>2. s \in Nat /\ b \in {0, 1} /\ r = 2 * s + b BY <1>1
<1>3. d \in {-1, 0, 1} /\ r = root + d BY <1>1
<1>4. FastSqrt(n, r) =
        ((r + (IF Long((x % (K * K)) + K + s) < 0 THEN 1 ELSE 0))
            - (IF Long((x % (K * K)) + b) > 0 THEN 1 ELSE 0)) % K
  BY DEF FastSqrt
<1>5. x \in Int
  <2>1. s * (s + b) \in Int /\ r * K \in Int BY <1>1, <1>2
  <2>. QED BY <1>1, <2>1
<1>6. 4 * x + b = (2 * K + r) * (2 * K + r) - 4 * (K * K + n)
  <2>. HIDE DEF s, b
  <2>. QED BY <1>1, <1>2, ErrorOfEstimate
<1>. HIDE DEF s, b, x, d
<1>7. /\ (2 * d * (2 * K + root) + d * d) - 2 * (2 * K + root) <= 4 * x + b
      /\ 4 * x + b <= 2 * d * (2 * K + root) + d * d
  BY <1>1, <1>3, <1>6, ErrorOfSquare
<1>8. \/ d = -1 /\ 1 - 4 * (2 * K + root) <= 4 * x + b /\ 4 * x + b <= 1 - 2 * (2 * K + root)
      \/ d = 0 /\ -2 * (2 * K + root) <= 4 * x + b /\ 4 * x + b <= 0
      \/ d = 1 /\ 1 <= 4 * x + b /\ 4 * x + b <= 2 * (2 * K + root) + 1
  BY <1>1, <1>3, <1>5, <1>7
<1>9. K * K \in Nat /\ K * K >= 8 * K BY LongWord
<1>10. /\ -(K * K) <= x /\ x < K * K /\ -(K * K) <= 2 * (x + b) /\ 2 * (x + b) < K * K
       /\ -(K * K) <= 2 * (x + (K + s)) /\ 2 * (x + (K + s)) < K * K /\ K + s < K * K
  <2>. DEFINE M == K * K
  <2>1. M \in Nat /\ M >= 8 * K BY <1>9
  <2>. HIDE DEF M
  <2>2. /\ -M <= x /\ x < M /\ -M <= 2 * (x + b) /\ 2 * (x + b) < M
        /\ -M <= 2 * (x + (K + s)) /\ 2 * (x + (K + s)) < M /\ K + s < M
    BY <1>1, <1>2, <1>3, <1>5, <1>8, <2>1
  <2>. QED BY <2>2 DEF M
<1>11. Long((x % (K * K)) + b) = x + b
  <2>1. b \in Int /\ -(K * K) <= b /\ b < K * K BY <1>1, <1>2, <1>9
  <2>. QED BY <1>5, <1>10, <2>1, LongOf
<1>12. Long((x % (K * K)) + (K + s)) = x + (K + s)
  <2>1. K + s \in Int /\ -(K * K) <= K + s BY <1>1, <1>2, <1>9
  <2>. QED BY <1>5, <1>10, <2>1, LongOf
<1>13. Long((x % (K * K)) + K + s) = x + (K + s)
  <2>1. x % (K * K) \in Int BY <1>1, <1>5, <1>9, DivMod
  <2>2. (x % (K * K)) + K + s = (x % (K * K)) + (K + s) BY <1>1, <1>2, <2>1
  <2>. QED BY <1>12, <2>2
<1>14. (r + (IF x + (K + s) < 0 THEN 1 ELSE 0)) - (IF x + b > 0 THEN 1 ELSE 0) = root
  BY <1>1, <1>2, <1>3, <1>5, <1>8
<1>15. root % K = root
  <2>1. K \in Nat \ {0} /\ root \in Int /\ -K <= root /\ root < 2 * K BY <1>1
  <2>2. root % K = IF root < 0 THEN root + K ELSE IF root < K THEN root ELSE root - K
    BY <2>1, ModOf
  <2>. QED BY <1>1, <2>2
<1>. QED BY <1>4, <1>11, <1>13, <1>14, <1>15

-----------------------------------------------------------------------------
\* The division of the GPU.

LEMMA LessByFactor ==
  ASSUME NEW m \in Nat \ {0}, NEW i \in Int, NEW j \in Int, i * m < j * m
  PROVE  i < j
<1>. SUFFICES ASSUME ~(i < j) PROVE FALSE OBVIOUS
<1>1. CASE i = j BY <1>1
<1>2. CASE j < i
  <2>1. j * m + m <= i * m BY <1>2, NextMultiple
  <2>2. i * m \in Int /\ j * m \in Int OBVIOUS
  <2>. QED BY <2>1, <2>2
<1>. QED BY <1>1, <1>2

LEMMA Monotone ==
  ASSUME NEW m \in Nat, NEW i \in Int, NEW j \in Int, i <= j
  PROVE  i * m <= j * m
<1>1. PICK d \in Nat : j = i + d
  <2>1. j - i \in Nat OBVIOUS
  <2>. QED BY <2>1, j = i + (j - i)
<1>2. j * m = i * m + d * m /\ d * m \in Nat /\ i * m \in Int BY <1>1
<1>. QED BY <1>2

LEMMA Division ==
  ASSUME NEW n \in Nat, NEW m \in Nat \ {0}
  PROVE  n \div m \in Nat /\ (n \div m) * m <= n /\ n < (n \div m) * m + m
<1>. DEFINE q == n \div m
            a == n % m
            o == 0
<1>1. q \in Int /\ a \in 0 .. m - 1 /\ n = q * m + a BY DivMod
<1>. HIDE DEF q, a
<1>2. q * m \in Int /\ q * m <= n /\ n < q * m + m BY <1>1
<1>3. ~(q < o)
  <2>. SUFFICES ASSUME q < o PROVE FALSE OBVIOUS
  <2>1. o \in Int /\ o * m = 0 OBVIOUS
  <2>. HIDE DEF o
  <2>2. q * m + m <= o * m BY <1>1, <2>1, NextMultiple
  <2>. QED BY <1>2, <2>1, <2>2
<1>4. q \in Nat BY <1>1, <1>3
<1>. QED BY <1>2, <1>4 DEF q

LEMMA ModPlus ==
  ASSUME NEW m \in Nat \ {0}, NEW x \in Int, NEW c \in Int
  PROVE  ((x % m) + c) % m = (x + c) % m
<1>. DEFINE y == (x % m) + c
            p == x \div m
            q == y \div m
            a == y % m
<1>1. p \in Int /\ x % m \in 0 .. m - 1 /\ x = p * m + (x % m) BY DivMod
<1>2. y \in Int BY <1>1
<1>3. q \in Int /\ a \in 0 .. m - 1 /\ y = q * m + a
  <2>. HIDE DEF y
  <2>. QED BY <1>2, DivMod
<1>4. x + c = p * m + y BY <1>1
<1>. HIDE DEF y, p, q, a
<1>5. (p + q) * m = p * m + q * m /\ p * m \in Int /\ q * m \in Int BY <1>1, <1>3
<1>6. (p + q) * m <= x + c /\ x + c < (p + q) * m + m /\ a = (x + c) - (p + q) * m
  BY <1>2, <1>3, <1>4, <1>5
<1>7. p + q \in Int /\ x + c \in Int BY <1>1, <1>3
<1>. DEFINE u == p + q
            v == x + c
<1>8. v % m = v - u * m
  <2>1. u \in Int /\ v \in Int /\ u * m <= v /\ v < u * m + m BY <1>6, <1>7
  <2>. HIDE DEF u, v
  <2>. QED BY <2>1, QuotientOf
<1>. QED BY <1>6, <1>8 DEF y, a

LEMMA ModOfSmall == ASSUME NEW m \in Nat \ {0}, NEW x \in 0 .. m - 1 PROVE x % m = x
<1>1. x \in Int /\ -m <= x /\ x < 2 * m OBVIOUS
<1>2. x % m = IF x < 0 THEN x + m ELSE IF x < m THEN x ELSE x - m BY <1>1, ModOf
<1>. QED BY <1>2

LEMMA Words ==
  ASSUME NEW x \in ULong
  PROVE  /\ x \in Nat /\ x < K * K /\ High(x) \in UInt /\ Low(x) \in UInt
         /\ x = High(x) * K + Low(x) /\ High(x) = x \div K
<1>1. x \in Nat /\ x < K * K /\ K \in Nat \ {0} /\ K * K \in Nat BY LongWord DEF ULong
<1>. DEFINE h == x \div K
            w == x % K
<1>2. h \in Int /\ w \in 0 .. K - 1 /\ x = h * K + w BY <1>1, DivMod
<1>3. High(x) = h % K /\ Low(x) = w BY DEF High, Low
<1>. HIDE DEF h, w
<1>4. h < K
  <2>1. h * K \in Int BY <1>1, <1>2
  <2>2. h * K < K * K BY <1>1, <1>2, <2>1
  <2>. QED BY <1>1, <1>2, <2>2, LessByFactor
<1>5. h >= 0 BY <1>1, Division DEF h
<1>6. h % K = h BY <1>1, <1>2, <1>4, <1>5, ModOfSmall
<1>. QED BY <1>1, <1>2, <1>3, <1>4, <1>5, <1>6 DEF UInt, h

\* The sum of a product's words that both functions make.
LEMMA WordProduct ==
  ASSUME NEW x \in ULong, NEW r \in UInt
  PROVE  LET sum == MulHi(Low(x), r) + r * High(x) + x
         IN  /\ sum \in Nat
             /\ sum * K <= x * (K + r) /\ x * (K + r) < sum * K + K
<1>. DEFINE h == High(x)
            w == Low(x)
            g == (w * r) \div K
<1>1. /\ K \in Nat \ {0} /\ x \in Nat /\ h \in Nat /\ w \in Nat /\ r \in Nat
      /\ x = h * K + w
  BY LongWord, Words DEF UInt
<1>. HIDE DEF h, w
<1>2. w * r \in Nat BY <1>1
<1>3. g \in Nat /\ g * K <= w * r /\ w * r < g * K + K
  <2>. DEFINE z == w * r
  <2>1. z \in Nat BY <1>2
  <2>. HIDE DEF z
  <2>2. z \div K \in Nat /\ (z \div K) * K <= z /\ z < (z \div K) * K + K
    BY <1>1, <2>1, Division
  <2>. QED BY <2>2 DEF z
<1>. HIDE DEF g
<1>5. (g + r * h + x) * K = g * K + (r * h) * K + x * K BY <1>1, <1>3
<1>6. x * (K + r) = x * K + (r * h) * K + w * r BY <1>1
<1>. DEFINE p == (r * h) * K + x * K
<1>7. p \in Int /\ g * K \in Int BY <1>1, <1>3
<1>8. (g + r * h + x) * K = g * K + p /\ x * (K + r) = w * r + p
  <2>1. (r * h) * K \in Int /\ x * K \in Int BY <1>1
  <2>. QED BY <1>2, <1>5, <1>6, <1>7, <2>1
<1>. HIDE DEF p
<1>9. (g + r * h + x) * K <= x * (K + r) /\ x * (K + r) < (g + r * h + x) * K + K
  BY <1>1, <1>2, <1>3, <1>7, <1>8
<1>10. g + r * h + x \in Nat BY <1>1, <1>3
<1>11. MulHi(w, r) = g BY DEF MulHi, g
<1>. QED BY <1>9, <1>10, <1>11 DEF h, w

\* Divided by K twice, rounding down each time.
LEMMA TwoWords ==
  ASSUME NEW P \in Int, NEW T \in Nat, T * K <= P, P < T * K + K,
         NEW q \in Nat, q * K <= T, T < q * K + K
  PROVE  q * (K * K) <= P /\ P < q * (K * K) + K * K
<1>1. K \in Nat \ {0} BY LongWord
<1>2. (q * K) * K = q * (K * K) /\ q * (K * K) \in Nat BY <1>1
<1>. DEFINE c == q * K
<1>3. c \in Nat /\ c <= T /\ T <= c + K - 1 BY <1>1
<1>. HIDE DEF c
<1>4. c * K <= T * K BY <1>1, <1>3, Monotone
<1>5. T * K + K <= c * K + K * K
  <2>. DEFINE i == T + 1
              j == c + K
  <2>1. i \in Nat /\ j \in Nat /\ i <= j /\ i * K = T * K + K /\ j * K = c * K + K * K
    BY <1>1, <1>3
  <2>. HIDE DEF i, j
  <2>2. i * K <= j * K BY <1>1, <2>1, Monotone
  <2>. QED BY <2>1, <2>2
<1>6. T * K \in Nat /\ c * K \in Nat /\ c * K = q * (K * K) /\ K * K \in Nat
  BY <1>1, <1>2, <1>3 DEF c
<1>. QED BY <1>1, <1>4, <1>5, <1>6

\* The quotient of fast_div_v2 before its correction: that of the product by the reciprocal.
LEMMA QuotientIs ==
  ASSUME NEW a \in ULong, NEW r \in UInt
  PROVE  LET q == Quotient(a, r)
         IN  /\ q \in Nat
             /\ q * (K * K) <= a * (K + r) /\ a * (K + r) < q * (K * K) + K * K
<1>. DEFINE P == a * (K + r)
            M == K * K
            T == MulHi(Low(a), r) + r * High(a) + a
            k == T % M
            q == T \div K
<1>1. /\ K \in Nat \ {0} /\ M \in Nat \ {0} /\ a \in Nat /\ a < M /\ r \in Nat /\ r < K
  BY LongWord, Words DEF UInt
<1>2. T \in Nat /\ T * K <= P /\ P < T * K + K BY WordProduct
<1>3. P = a * K + a * r /\ a * K \in Nat /\ a * r \in Nat /\ P \in Nat BY <1>1
<1>4. Quotient(a, r) = High(k) + (IF k < a THEN K ELSE 0) BY DEF Quotient
<1>. HIDE DEF T
<1>5. T >= a
  <2>. SUFFICES ASSUME T < a PROVE FALSE BY <1>1, <1>2
  <2>1. T * K + K <= a * K BY <1>1, <1>2, NextMultiple
  <2>. QED BY <1>1, <1>2, <1>3, <2>1
<1>6. T < a + M
  <2>1. r * a <= r * M /\ r * M \in Nat /\ r * a \in Nat
    <3>. HIDE DEF M
    <3>1. PICK d \in Nat : M = a + d
      <4>1. M - a \in Nat BY <1>1
      <4>. QED BY <1>1, <4>1, M = a + (M - a)
    <3>2. r * M = r * a + r * d /\ r * d \in Nat /\ r * a \in Nat BY <1>1, <3>1
    <3>. QED BY <3>2
  <2>2. r * M + M <= K * M
    <3>. HIDE DEF M
    <3>. QED BY <1>1, NextMultiple
  <2>3. /\ a * r = r * a /\ K * M \in Nat /\ T * K \in Nat
        /\ (a + M) * K = a * K + K * M
    <3>. HIDE DEF M
    <3>. QED BY <1>1, <1>2
  <2>4. T * K < (a + M) * K BY <1>1, <1>2, <1>3, <2>1, <2>2, <2>3
  <2>. DEFINE e == a + M
  <2>5. e \in Int /\ T \in Int /\ T * K < e * K BY <1>1, <1>2, <2>4
  <2>. HIDE DEF e, M
  <2>6. T < e BY <1>1, <2>5, LessByFactor
  <2>. QED BY <2>6 DEF e
<1>7. q \in Nat /\ q * K <= T /\ T < q * K + K BY <1>1, <1>2, Division
<1>8. Quotient(a, r) = q
  <2>1. CASE T < M
    <3>1. k = T
      <4>. HIDE DEF M
      <4>. QED BY <1>1, <1>2, <2>1, ModOfSmall
    <3>2. T \in ULong BY <1>1, <1>2, <2>1 DEF ULong
    <3>3. High(T) = q BY <3>2, Words
    <3>4. ~(k < a) BY <1>1, <1>2, <1>5, <3>1
    <3>. QED BY <1>4, <1>7, <3>1, <3>3, <3>4
  <2>2. CASE T >= M
    <3>1. k = T - M /\ k \in 0 .. M - 1
      <4>. HIDE DEF M
      <4>1. T \in Int /\ -M <= T /\ T < 2 * M BY <1>1, <1>2, <1>6
      <4>2. T % M = IF T < 0 THEN T + M ELSE IF T < M THEN T ELSE T - M BY <1>1, <4>1, ModOf
      <4>. QED BY <1>1, <1>2, <1>6, <2>2, <4>2
    <3>2. k \in ULong BY <3>1 DEF ULong
    <3>3. High(k) = k \div K BY <3>2, Words
    <3>4. k < a BY <1>1, <1>2, <1>6, <3>1
    <3>. DEFINE p == q - K
    <3>5. p \in Int /\ p * K <= k /\ k < p * K + K
      <4>1. p * K = q * K - M BY <1>1, <1>7
      <4>. QED BY <1>1, <1>2, <1>7, <3>1, <4>1
    <3>6. k \div K = p
      <4>. HIDE DEF p, k
      <4>1. k \in Int BY <3>2 DEF ULong
      <4>. QED BY <1>1, <3>5, <4>1, QuotientOf
    <3>. QED BY <1>1, <1>4, <1>7, <3>3, <3>4, <3>6
  <2>. QED BY <1>1, <1>2, <2>1, <2>2
<1>. HIDE DEF q
<1>9. q * M <= P /\ P < q * M + M BY <1>2, <1>3, <1>7, TwoWords
<1>. QED BY <1>7, <1>8, <1>9

\* What the reciprocal must fulfil, and what it is good for.
Accurate(b, r) == LET e == (K + r) * b - K * K IN -b <= e /\ e <= b

LEMMA OneOff ==
  ASSUME NEW a \in ULong, NEW b \in 1 .. K - 1, NEW r \in UInt, Accurate(b, r)
  PROVE  LET q == Quotient(a, r)
         IN  q \in Nat /\ q * b \in Nat /\ -b < a - q * b /\ a - q * b < 2 * b
<1>. DEFINE M == K * K
            q == Quotient(a, r)
            e == (K + r) * b - M
            t == a - q * b
            P == a * (K + r)
<1>1. /\ M \in Nat \ {0} /\ K \in Nat \ {0} /\ a \in Nat /\ a < M /\ r \in Nat
      /\ b \in Nat \ {0}
  BY LongWord, Words DEF UInt
<1>2. q \in Nat /\ q * M <= P /\ P < q * M + M BY QuotientIs
<1>3. -b <= e /\ e <= b BY DEF Accurate
<1>4. e \in Int
  <2>1. (K + r) * b \in Int BY <1>1
  <2>. QED BY <1>1, <2>1
<1>5. P * b = a * M + a * e
  <2>1. P * b = a * ((K + r) * b) BY <1>1
  <2>2. (K + r) * b = M + e BY <1>1
  <2>3. a * (M + e) = a * M + a * e
    <3>. HIDE DEF M, e
    <3>. QED BY <1>1, <1>4
  <2>. QED BY <2>1, <2>2, <2>3
<1>6. P \in Nat BY <1>1
<1>. HIDE DEF M, q, e, P
<1>7. q * b \in Nat /\ t \in Int BY <1>1, <1>2
<1>8. t * M = a * M - (q * b) * M BY <1>1, <1>2
<1>9. (q * M) * b = (q * b) * M /\ (q * M + M) * b = (q * b) * M + b * M BY <1>1, <1>2
<1>10. (q * M) * b <= P * b /\ P * b + b <= (q * M + M) * b
  <2>. DEFINE u == q * M
              v == q * M + M
  <2>1. u \in Nat /\ v \in Nat /\ u <= P /\ P + 1 <= v BY <1>1, <1>2, <1>6
  <2>2. (P + 1) * b = P * b + b BY <1>1, <1>6
  <2>. HIDE DEF u, v
  <2>3. u * b <= P * b BY <1>1, <1>6, <2>1, Monotone
  <2>. DEFINE w == P + 1
  <2>4. w \in Int /\ w <= v BY <1>6, <2>1
  <2>. HIDE DEF w
  <2>5. w * b <= v * b BY <1>1, <2>1, <2>4, Monotone
  <2>. QED BY <2>2, <2>3, <2>5 DEF u, v, w
<1>11. e * a <= b * a /\ -(b * a) <= e * a
  <2>1. e * a <= b * a BY <1>1, <1>3, <1>4, Monotone
  <2>. DEFINE c == -b
  <2>2. c \in Int /\ c <= e BY <1>1, <1>3
  <2>3. c * a = -(b * a) BY <1>1
  <2>. HIDE DEF c
  <2>4. c * a <= e * a BY <1>1, <1>4, <2>2, Monotone
  <2>. QED BY <2>1, <2>3, <2>4
<1>12. a * b < b * M
  <2>1. a * b + b <= M * b
    <3>1. (a + 1) * b = a * b + b BY <1>1
    <3>. DEFINE w == a + 1
    <3>2. w \in Int /\ w <= M BY <1>1
    <3>. HIDE DEF w
    <3>3. w * b <= M * b BY <1>1, <3>2, Monotone
    <3>. QED BY <3>1, <3>3 DEF w
  <2>2. M * b = b * M /\ a * b \in Nat /\ b * M \in Nat BY <1>1
  <2>. QED BY <1>1, <2>1, <2>2
<1>13. /\ a * e = e * a /\ b * a = a * b /\ a * e \in Int /\ a * b \in Nat /\ a * M \in Nat
       /\ (q * b) * M \in Nat /\ b * M \in Nat /\ P * b \in Nat
  BY <1>1, <1>4, <1>6, <1>7
<1>14. -(b * M) < t * M /\ t * M < 2 * (b * M)
  BY <1>1, <1>5, <1>8, <1>9, <1>10, <1>11, <1>12, <1>13
<1>15. -b < t
  <2>. DEFINE c == -b
  <2>1. c \in Int /\ c * M = -(b * M) BY <1>1
  <2>. HIDE DEF c, t
  <2>2. c * M < t * M BY <1>14, <2>1
  <2>3. c < t BY <1>1, <1>7, <2>1, <2>2, LessByFactor
  <2>. QED BY <2>3 DEF c
<1>16. t < 2 * b
  <2>. DEFINE c == 2 * b
  <2>1. c \in Int /\ c * M = 2 * (b * M) BY <1>1
  <2>. HIDE DEF c, t
  <2>2. t * M < c * M BY <1>14, <2>1
  <2>3. t < c BY <1>1, <1>7, <2>1, <2>2, LessByFactor
  <2>. QED BY <2>3 DEF c
<1>. QED BY <1>2, <1>7, <1>15, <1>16 DEF q

\* Two words of a signed difference that fits.
LEMMA LongIs ==
  ASSUME NEW x \in Int, -(K * K) <= 2 * x, 2 * x < K * K PROVE Long(x) = x
<1>. DEFINE M == K * K
<1>1. M \in Nat \ {0} BY LongWord
<1>2. Long(x) = LET u == x % M IN IF 2 * u < M THEN u ELSE u - M BY DEF Long
<1>3. -M <= 2 * x /\ 2 * x < M OBVIOUS
<1>. HIDE DEF M
<1>4. -M <= x /\ x < 2 * M BY <1>1, <1>3
<1>5. x % M = IF x < 0 THEN x + M ELSE IF x < M THEN x ELSE x - M BY <1>1, <1>4, ModOf
<1>. QED BY <1>1, <1>2, <1>3, <1>5

\* The division is exact, quotient and remainder, with any reciprocal that is accurate to
\* 2^-64 relative to its divisor (fast_int_math_v2.cl:64-109).
THEOREM FastDivIsExact ==
  ASSUME NEW a \in ULong, NEW b \in 1 .. K - 1, NEW r \in UInt, Accurate(b, r)
  PROVE  /\ FastDiv(a, b, r) = << (a \div b) % K, a % b >>
         /\ FastDivFullQ(a, b, r) = << a \div b, a % b >>
<1>. DEFINE q == Quotient(a, r)
            t == a - q * b
            u == (IF t >= b THEN 1 ELSE 0)
            o == (IF t < 0 THEN 1 ELSE 0)
            qq == q + u - o
            rr == (t + (IF t < 0 THEN b ELSE 0)) - (IF t >= b THEN b ELSE 0)
<1>1. K \in Nat /\ K >= 8 /\ b \in Nat \ {0} /\ b < K /\ a \in Nat
  BY KAssumption, Words
<1>2. q \in Nat /\ q * b \in Nat /\ -b < t /\ t < 2 * b BY OneOff
<1>. HIDE DEF q
<1>3. t \in Int BY <1>1, <1>2
<1>4. Long(t) = t
  <2>. HIDE DEF t
  <2>1. -(K * K) <= 2 * t /\ 2 * t < K * K
    <3>. DEFINE M == K * K
    <3>1. M \in Nat /\ M >= 8 * K BY LongWord
    <3>. HIDE DEF M
    <3>2. -M <= 2 * t /\ 2 * t < M BY <1>1, <1>2, <1>3, <3>1
    <3>. QED BY <3>2 DEF M
  <2>. QED BY <1>3, <2>1, LongIs
<1>5. FastDiv(a, b, r) = << ((Low(q) + u) - o) % K,
         ((Low(t) + (IF t < 0 THEN b ELSE 0)) - (IF t >= b THEN b ELSE 0)) % K >>
  BY <1>4 DEF FastDiv, q
<1>6. FastDivFullQ(a, b, r) =
         IF t < 0 THEN << q - 1, (t + b) % K >>
         ELSE IF t >= b THEN << q + 1, (t - b) % K >> ELSE << q, t % K >>
  BY <1>4 DEF FastDivFullQ, q
<1>7. qq \in Int /\ rr \in Int /\ 0 <= rr /\ rr < b /\ a = qq * b + rr
  <2>1. (q + 1) * b = q * b + b /\ (q - 1) * b = q * b - b BY <1>1, <1>2
  <2>2. CASE t < 0
    <3>1. qq = q - 1 /\ rr = t + b BY <1>1, <1>2, <1>3, <2>2
    <3>. QED BY <1>1, <1>2, <1>3, <2>1, <2>2, <3>1
  <2>3. CASE t >= b
    <3>1. qq = q + 1 /\ rr = t - b BY <1>1, <1>2, <1>3, <2>3
    <3>. QED BY <1>1, <1>2, <1>3, <2>1, <2>3, <3>1
  <2>4. CASE t >= 0 /\ t < b
    <3>1. qq = q /\ rr = t BY <1>1, <1>2, <1>3, <2>4
    <3>. QED BY <1>1, <1>2, <1>3, <2>4, <3>1
  <2>. QED BY <1>1, <1>3, <2>2, <2>3, <2>4
<1>8. a \div b = qq /\ a % b = rr
  <2>. HIDE DEF qq, rr
  <2>1. qq * b \in Int BY <1>1, <1>7
  <2>2. qq * b <= a /\ a < qq * b + b /\ rr = a - qq * b BY <1>1, <1>7, <2>1
  <2>3. a \in Int /\ b \in Nat \ {0} /\ qq \in Int BY <1>1, <1>7
  <2>4. a \div b = qq /\ a % b = a - qq * b BY <2>2, <2>3, QuotientOf
  <2>. QED BY <2>2, <2>4
<1>9. rr % K = rr
  <2>. HIDE DEF rr
  <2>1. K \in Nat \ {0} /\ rr \in 0 .. K - 1 BY <1>1, <1>7
  <2>. QED BY <2>1, ModOfSmall
<1>10. ((Low(q) + u) - o) % K = qq % K
  <2>. DEFINE c == u - o
  <2>1. c \in Int /\ K \in Nat \ {0} BY <1>1
  <2>2. Low(q) \in Int BY <1>1, <1>2, DivMod DEF Low
  <2>3. (Low(q) + u) - o = (q % K) + c /\ qq = q + c BY <1>2, <2>2 DEF Low
  <2>. HIDE DEF c
  <2>. HIDE DEF t, u, o, qq, rr
  <2>4. q \in Int BY <1>2
  <2>5. ((q % K) + c) % K = (q + c) % K BY <2>1, <2>4, ModPlus
  <2>. QED BY <2>3, <2>5
<1>11. ((Low(t) + (IF t < 0 THEN b ELSE 0)) - (IF t >= b THEN b ELSE 0)) % K = rr
  <2>. DEFINE c == (IF t < 0 THEN b ELSE 0) - (IF t >= b THEN b ELSE 0)
  <2>1. c \in Int /\ K \in Nat \ {0} BY <1>1
  <2>2. Low(t) \in Int
    <3>. HIDE DEF t
    <3>. QED BY <1>1, <1>3, DivMod DEF Low
  <2>3. (Low(t) + (IF t < 0 THEN b ELSE 0)) - (IF t >= b THEN b ELSE 0) = (t % K) + c
    <3>. HIDE DEF t
    <3>. QED BY <1>1, <2>2 DEF Low
  <2>4. rr = t + c BY <1>1, <1>3
  <2>. HIDE DEF c, t
  <2>5. ((t % K) + c) % K = (t + c) % K BY <1>3, <2>1, ModPlus
  <2>. QED BY <1>9, <2>3, <2>4, <2>5
<1>12. FastDiv(a, b, r) = << (a \div b) % K, a % b >> BY <1>5, <1>8, <1>10, <1>11
<1>13. FastDivFullQ(a, b, r) = << a \div b, a % b >>
  <2>1. CASE t < 0
    <3>1. qq = q - 1 /\ rr = t + b BY <1>1, <1>2, <1>3, <2>1
    <3>. QED BY <1>6, <1>8, <1>9, <2>1, <3>1
  <2>2. CASE t >= b
    <3>1. qq = q + 1 /\ rr = t - b /\ ~(t < 0) BY <1>1, <1>2, <1>3, <2>2
    <3>. QED BY <1>6, <1>8, <1>9, <2>2, <3>1
  <2>3. CASE t >= 0 /\ t < b
    <3>1. qq = q /\ rr = t /\ ~(t < 0) /\ ~(t >= b) BY <1>1, <1>2, <1>3, <2>3
    <3>. QED BY <1>6, <1>8, <1>9, <3>1
  <2>. QED BY <1>1, <1>3, <2>1, <2>2, <2>3
<1>. QED BY <1>12, <1>13

-----------------------------------------------------------------------------
\* The reciprocal.

LEMMA LessProduct ==
  ASSUME NEW i \in Nat, NEW j \in Nat, NEW k \in Nat, NEW l \in Nat, i <= k, j <= l
  PROVE  i * j <= k * l
<1>1. i * j <= k * j BY Monotone
<1>2. j * k <= l * k BY Monotone
<1>3. j * k = k * j /\ l * k = k * l /\ i * j \in Nat /\ k * j \in Nat /\ k * l \in Nat OBVIOUS
<1>. QED BY <1>1, <1>2, <1>3

\* A step of Newton's: from a number e off, scaled, to one a off at most.  The division that
\* gives f rounds down, and half of a makes up for it.
LEMMA NewtonStep ==
  ASSUME NEW a \in Nat, a < K, NEW half \in Nat, a = 2 * half + 1, NEW R \in Nat, NEW e \in Int,
         e = R * a - K * K, NEW w \in Nat, w = (TableError + 1) * a, -w <= e, e <= w,
         NEW f \in Int, f * (K * K) <= (half - e) * R, (half - e) * R < f * (K * K) + K * K
  PROVE  -a <= e + f * a /\ e + f * a <= half
<1>. DEFINE M == K * K
            c == half - e
            x == e + f * a
            y == c * R
<1>1. M \in Nat \ {0} /\ K \in Nat \ {0} /\ TableError \in Nat
  BY LongWord, TableAssumption
<1>2. c \in Int /\ x \in Int /\ y \in Int OBVIOUS
<1>3. y * a = c * M + c * e
  <2>1. R * a = M + e BY <1>1
  <2>2. y * a = c * (R * a)
    <3>. HIDE DEF c
    <3>. QED BY <1>2
  <2>3. c * (M + e) = c * M + c * e
    <3>. HIDE DEF c, M
    <3>. QED BY <1>1, <1>2
  <2>. QED BY <2>1, <2>2, <2>3
<1>4. x * M = e * M + (f * M) * a
  <2>. HIDE DEF M
  <2>. QED BY <1>1
<1>5. (f * M) * a <= y * a /\ y * a + a <= (f * M) * a + M * a
  <2>. DEFINE u == f * M
              v == f * M + M
              z == y + 1
  <2>1. u \in Int /\ v \in Int /\ u <= y /\ z \in Int /\ z <= v BY <1>1, <1>2
  <2>2. v * a = u * a + M * a
    <3>. HIDE DEF M
    <3>. QED BY <1>1
  <2>3. z * a = y * a + a
    <3>. HIDE DEF y
    <3>. QED BY <1>2
  <2>. HIDE DEF u, v, y, z
  <2>4. u * a <= y * a /\ z * a <= v * a BY <1>2, <2>1, Monotone
  <2>. QED BY <2>2, <2>3, <2>4 DEF u
<1>6. c * M = half * M - e * M
  <2>. HIDE DEF M
  <2>. QED BY <1>1
<1>7. /\ e * M \in Int /\ half * M \in Int /\ c * e \in Int /\ (f * M) * a \in Int
      /\ M * a \in Int /\ y * a \in Int /\ x * M \in Int
  <2>1. f * M \in Int BY <1>1
  <2>. HIDE DEF M, c, x, y
  <2>. QED BY <1>1, <1>2, <2>1
<1>8. x * M <= half * M + c * e BY <1>3, <1>4, <1>5, <1>6, <1>7
<1>9. half * M + c * e + a <= x * M + M * a BY <1>3, <1>4, <1>5, <1>6, <1>7
<1>10. c * e < M
  <2>1. half * half < M
    <3>1. half * half <= K * half BY LessProduct, <1>1
    <3>2. half * K + K <= K * K BY <1>1, NextMultiple
    <3>3. K * half = half * K /\ half * half \in Nat /\ half * K \in Nat BY <1>1
    <3>. QED BY <1>1, <3>1, <3>2, <3>3
  <2>2. CASE e >= 0 /\ c >= 0
    <3>1. c \in Nat /\ e \in Nat /\ c <= half /\ e <= half BY <2>2
    <3>. HIDE DEF c
    <3>2. c * e <= half * half BY <3>1, LessProduct
    <3>. QED BY <1>1, <1>7, <2>1, <3>2
  <2>3. CASE e < 0
    <3>1. c \in Nat /\ -e \in Nat BY <2>3
    <3>. DEFINE g == -e
    <3>. HIDE DEF c
    <3>2. c * e = -(c * g) /\ c * g \in Nat BY <3>1
    <3>. QED BY <1>1, <3>2
  <2>4. CASE c < 0
    <3>1. e \in Nat /\ -c \in Nat BY <2>4
    <3>. DEFINE g == -c
    <3>2. c * e = -(g * e) /\ g * e \in Nat
      <4>. HIDE DEF c
      <4>. QED BY <1>2, <3>1
    <3>. QED BY <1>1, <3>2
  <2>. QED BY <1>2, <2>2, <2>3, <2>4
<1>11. -(c * e) <= (half + 1) * M
  <2>. DEFINE v == half + w
  <2>1. -(c * e) <= v * w
    <3>1. v * w \in Nat OBVIOUS
    <3>2. CASE e < 0
      <4>. DEFINE g == -e
      <4>1. g \in Nat /\ g <= w /\ c \in Nat /\ c <= v /\ v \in Nat BY <3>2
      <4>2. -(c * e) = c * g
        <5>. HIDE DEF c
        <5>. QED BY <1>2
      <4>. HIDE DEF c, g, v
      <4>3. c * g <= v * w BY <4>1, LessProduct
      <4>. QED BY <4>2, <4>3
    <3>3. CASE e >= 0 /\ c < 0
      <4>. DEFINE g == -c
      <4>1. g \in Nat /\ g <= v /\ e \in Nat /\ e <= w /\ v \in Nat BY <3>3
      <4>2. -(c * e) = g * e
        <5>. HIDE DEF c
        <5>. QED BY <1>2
      <4>. HIDE DEF c, g, v
      <4>3. g * e <= v * w BY <4>1, LessProduct
      <4>. QED BY <4>2, <4>3
    <3>4. CASE e >= 0 /\ c >= 0
      <4>1. c * e \in Nat
        <5>. HIDE DEF c
        <5>. QED BY <1>2, <3>4
      <4>. HIDE DEF c, v
      <4>. QED BY <3>1, <4>1
    <3>. QED BY <1>2, <3>2, <3>3, <3>4
  <2>2. 2 * (v * w) <= (a + 1) * M
    <3>. DEFINE F == TableError + 1
                G == 2 * TableError + 3
                p == a + 2 * w
    <3>1. 2 * (v * w) = (2 * v) * w /\ 2 * v <= p /\ 2 * v \in Nat /\ p \in Nat OBVIOUS
    <3>2. p = G * a BY <1>1
    <3>3. F \in Nat /\ G \in Nat /\ G * F <= K BY <1>1, TableAssumption
    <3>4. (2 * v) * w <= p * w
      <4>. DEFINE z == 2 * v
      <4>1. z \in Nat /\ z <= p /\ p \in Nat BY <3>1
      <4>. HIDE DEF z, p
      <4>2. z * w <= p * w BY <4>1, Monotone
      <4>. QED BY <4>2 DEF z
    <3>5. p * w = (G * F) * (a * a)
      <4>1. w = F * a OBVIOUS
      <4>. HIDE DEF F, G, p
      <4>2. (G * a) * (F * a) = (G * F) * (a * a) BY <3>3
      <4>. QED BY <3>2, <4>1, <4>2
    <3>6. (G * F) * (a * a) <= K * (a * a)
      <4>. DEFINE h == G * F
                  i == a * a
      <4>1. h \in Nat /\ i \in Nat /\ h <= K BY <3>3
      <4>. HIDE DEF h, i
      <4>2. h * i <= K * i BY <1>1, <4>1, Monotone
      <4>. QED BY <4>2 DEF h, i
    <3>7. K * (a * a) = a * (K * a) /\ K * a <= M
      <4>1. a * K <= K * K BY <1>1, Monotone
      <4>. QED BY <1>1, <4>1
    <3>8. a * (K * a) <= (a + 1) * M
      <4>. DEFINE i == K * a
                  j == a + 1
      <4>1. i \in Nat /\ j \in Nat /\ a <= j /\ i <= M /\ M \in Nat BY <1>1, <3>7
      <4>. HIDE DEF i, j, M
      <4>2. a * i <= j * M BY <4>1, LessProduct
      <4>. QED BY <4>2 DEF i, j
    <3>9. /\ 2 * (v * w) \in Nat /\ p * w \in Nat /\ K * (a * a) \in Nat
          /\ a * (K * a) \in Nat /\ (a + 1) * M \in Nat
      <4>. HIDE DEF M
      <4>. QED BY <1>1, <3>1
    <3>. HIDE DEF v, p, F, G, M
    <3>10. 2 * (v * w) <= K * (a * a) BY <3>1, <3>4, <3>5, <3>6, <3>9
    <3>. QED BY <3>7, <3>8, <3>9, <3>10
  <2>3. (a + 1) * M = 2 * ((half + 1) * M)
    <3>. HIDE DEF M
    <3>. QED BY <1>1
  <2>4. v * w \in Nat /\ (half + 1) * M \in Nat
    <3>. HIDE DEF M
    <3>. QED BY <1>1
  <2>. HIDE DEF v, M, c
  <2>. QED BY <1>7, <2>1, <2>2, <2>3, <2>4
<1>12. x < half + 1
  <2>. DEFINE h == half + 1
  <2>1. h \in Int /\ h * M = half * M + M
    <3>. HIDE DEF M
    <3>. QED BY <1>1
  <2>. HIDE DEF h, M, x, c
  <2>2. x * M < h * M BY <1>1, <1>7, <1>8, <1>10, <2>1
  <2>3. x < h BY <1>1, <1>2, <2>1, <2>2, LessByFactor
  <2>. QED BY <2>3 DEF h
<1>13. -(a + 1) < x
  <2>. DEFINE h == -(a + 1)
  <2>1. h \in Int /\ h * M = -(M * a) - M /\ (half + 1) * M = half * M + M
    <3>. HIDE DEF M
    <3>. QED BY <1>1
  <2>2. a > 0 OBVIOUS
  <2>. HIDE DEF h, M, x, c
  <2>3. h * M < x * M BY <1>1, <1>7, <1>9, <1>11, <2>1, <2>2
  <2>4. h < x BY <1>1, <1>2, <2>1, <2>3, LessByFactor
  <2>. QED BY <2>4 DEF h
<1>. QED
  <2>. HIDE DEF x
  <2>1. -a <= x /\ x <= half BY <1>2, <1>12, <1>13
  <2>. QED BY <2>1 DEF x

\* How far off a reciprocal from the table is.
LEMMA ErrorOfTable ==
  ASSUME NEW a \in Nat \ {0}, NEW r \in UInt, Close((K * K) \div a - K, r, TableError)
  PROVE  LET e == (K + r) * a - K * K
             w == (TableError + 1) * a
         IN  -w <= e /\ e <= w
<1>. DEFINE M == K * K
            q == M \div a
            R == K + r
            w == (TableError + 1) * a
            E == TableError
<1>1. M \in Nat /\ K \in Nat /\ r \in Nat /\ E \in Nat
  BY LongWord, TableAssumption DEF UInt
<1>2. q \in Nat /\ q * a <= M /\ M < q * a + a
  <2>. HIDE DEF M
  <2>. QED BY <1>1, Division
<1>3. q - K - E <= r /\ r <= q - K + E BY DEF Close
<1>. HIDE DEF q, M, E
<1>4. q - E <= R /\ R <= q + E BY <1>1, <1>2, <1>3
<1>. DEFINE l == q - E
            h == q + E
<1>5. l \in Int /\ h \in Int /\ R \in Nat /\ l <= R /\ R <= h BY <1>1, <1>2, <1>4
<1>6. l * a = q * a - E * a /\ h * a = q * a + E * a /\ E * a \in Nat /\ q * a \in Nat
  BY <1>1, <1>2
<1>. HIDE DEF l, h, R
<1>7. l * a <= R * a /\ R * a <= h * a BY <1>5, Monotone
<1>8. w = E * a + a BY <1>1 DEF E
<1>9. R * a \in Nat BY <1>5
<1>10. -w <= R * a - M /\ R * a - M <= w
  <2>. HIDE DEF w
  <2>. QED BY <1>1, <1>2, <1>6, <1>7, <1>8, <1>9
<1>. QED BY <1>10 DEF R, M

\* The upper word of what is left of a sum in two words.
LEMMA HighOfMod ==
  ASSUME NEW x \in Nat
  PROVE  High(x % (K * K)) = (x \div K) % K
<1>. DEFINE M == K * K
            p == x \div M
            k == x % M
            h == High(k)
            q == p * K + h
<1>1. M \in Nat \ {0} /\ K \in Nat \ {0} BY LongWord
<1>2. p \in Int /\ k \in 0 .. M - 1 /\ x = p * M + k
  <2>. HIDE DEF M
  <2>. QED BY <1>1, DivMod
<1>3. k \in ULong BY <1>2 DEF ULong
<1>4. h \in UInt /\ Low(k) \in UInt /\ k = h * K + Low(k) BY <1>3, Words
<1>5. q \in Int /\ q * K = p * M + h * K
  <2>. HIDE DEF p, h
  <2>. QED BY <1>1, <1>2, <1>4 DEF UInt
<1>6. q * K <= x /\ x < q * K + K
  <2>1. p * M \in Int /\ h * K \in Int
    <3>. HIDE DEF p, h
    <3>. QED BY <1>1, <1>2, <1>4 DEF UInt
  <2>2. 0 <= Low(k) /\ Low(k) < K /\ Low(k) \in Int BY <1>1, <1>4 DEF UInt
  <2>. HIDE DEF p, M, k, h, q
  <2>. QED BY <1>1, <1>2, <1>4, <1>5, <2>1, <2>2
<1>7. x \div K = q
  <2>1. K \in Nat \ {0} /\ x \in Int /\ q \in Int BY <1>1, <1>5
  <2>. HIDE DEF q, p, h, k, M
  <2>. QED BY <1>6, <2>1, QuotientOf
<1>8. q % K = h
  <2>. DEFINE z == p * K
  <2>1. z \in Int /\ h \in Int /\ h \in 0 .. K - 1 BY <1>1, <1>2, <1>4 DEF UInt
  <2>2. p * K <= z + h /\ z + h < p * K + K /\ z + h \in Int /\ q = z + h /\ h = q - p * K
    <3>. HIDE DEF h, p
    <3>1. p * K \in Int BY <1>1, <1>2
    <3>. QED BY <1>1, <2>1, <3>1
  <2>. HIDE DEF q, p, h
  <2>3. p * K <= q /\ q < p * K + K /\ q \in Int BY <2>2
  <2>4. q % K = q - p * K BY <1>1, <1>2, <2>3, QuotientOf
  <2>. QED BY <2>2, <2>4
<1>. QED BY <1>7, <1>8

\* A reciprocal of the table, corrected, is accurate, for every odd divisor with its highest
\* bit set, though its sums wrap around (fast_int_math_v2.cl:40-62).
THEOREM ReciprocalIsAccurate ==
  ASSUME NEW a \in Divisors, NEW r \in UInt, Close((K * K) \div a - K, r, TableError)
  PROVE  Reciprocal(a, r) \in UInt /\ Accurate(a, Reciprocal(a, r))
<1>. DEFINE M == K * K
            R == K + r
            e == R * a - M
            w == (TableError + 1) * a
            half == a \div 2
            c == half - e
            lo0 == r * a
            sum == (lo0 + a * K) % M
            b == half >= sum \/ sum >= lo0
            lo == (half - sum) % M
            S == MulHi(Low(lo), r) + r * High(lo) + lo
            k == S % M
            g == S \div K
            f == IF c >= 0 THEN g ELSE g - R
            next == R + f
<1>1. /\ K \in Nat \ {0} /\ K >= 8 /\ M \in Nat \ {0} /\ M >= 8 * K /\ r \in Nat /\ r < K
      /\ a \in Nat \ {0} /\ a < K /\ 2 * a > K /\ a % 2 = 1
  BY KAssumption, LongWord DEF UInt, Divisors
<1>2. half \in Nat /\ a = 2 * half + 1 BY <1>1
<1>3. -w <= e /\ e <= w BY <1>1, ErrorOfTable
<1>4. w \in Nat /\ w + K <= M
  <2>. DEFINE F == TableError + 1
              G == 2 * TableError + 3
              t == TableError
  <2>1. t \in Nat /\ F \in Nat /\ G \in Nat /\ G * F <= K /\ G >= 1 BY TableAssumption
  <2>2. 1 * F <= G * F BY <2>1, LessProduct
  <2>3. F <= K BY <1>1, <2>1, <2>2
  <2>. HIDE DEF F
  <2>4. F * a <= K * a BY <1>1, <2>1, <2>3, Monotone
  <2>5. a * K + K <= K * K BY <1>1, NextMultiple
  <2>6. a * K = K * a /\ F * a \in Nat /\ K * a \in Nat BY <1>1, <2>1
  <2>. QED BY <1>1, <2>4, <2>5, <2>6 DEF F
<1>5. e \in Int /\ c \in Int
  <2>1. R * a \in Int BY <1>1
  <2>. QED BY <1>1, <1>2, <2>1
<1>6. lo0 + a * K = M + e /\ lo0 = e + K * (K - a) /\ lo0 \in Nat BY <1>1
<1>7. sum = IF e < 0 THEN M + e ELSE e
  <2>. DEFINE z == M + e
  <2>1. z \in Int /\ -M <= z /\ z < 2 * M /\ 0 <= z
    <3>. HIDE DEF M, e, w
    <3>. QED BY <1>1, <1>3, <1>4, <1>5
  <2>. HIDE DEF z
  <2>2. z % M = IF z < 0 THEN z + M ELSE IF z < M THEN z ELSE z - M
    <3>. HIDE DEF M
    <3>. QED BY <1>1, <2>1, ModOf
  <2>3. sum = z % M BY <1>6 DEF z
  <2>. HIDE DEF sum, M, e
  <2>. QED BY <1>1, <1>5, <2>1, <2>2, <2>3 DEF z
<1>8. b <=> c >= 0
  <2>1. K * (K - a) > 0
    <3>1. K - a \in Nat /\ K - a >= 1 BY <1>1
    <3>. DEFINE i == K - a
    <3>. HIDE DEF i
    <3>2. 1 * K <= i * K BY <1>1, <3>1, Monotone DEF i
    <3>3. i * K = K * i BY <1>1, <3>1 DEF i
    <3>. QED BY <1>1, <3>2, <3>3 DEF i
  <2>2. K * (K - a) \in Int /\ a * K \in Nat BY <1>1
  <2>3. lo0 + a * K = M + e /\ lo0 = e + K * (K - a) /\ lo0 \in Nat BY <1>6
  <2>. HIDE DEF sum, M, e, lo0, half
  <2>. QED BY <1>1, <1>2, <1>5, <1>7, <2>1, <2>2, <2>3
<1>9. lo = IF c >= 0 THEN c ELSE c + M
  <2>. DEFINE z == half - sum
  <2>1. /\ z \in Int /\ -M <= z /\ z < 2 * M /\ -M <= c /\ c < M
        /\ z = IF e < 0 THEN c - M ELSE c
    <3>. HIDE DEF sum, M, e, w, half
    <3>. QED BY <1>1, <1>2, <1>3, <1>4, <1>5, <1>7
  <2>. HIDE DEF z
  <2>2. z % M = IF z < 0 THEN z + M ELSE IF z < M THEN z ELSE z - M
    <3>. HIDE DEF M
    <3>. QED BY <1>1, <2>1, ModOf
  <2>3. lo = z % M BY DEF z
  <2>4. e < 0 => c >= 0
    <3>. HIDE DEF e, half
    <3>. QED BY <1>2, <1>5
  <2>. HIDE DEF lo, M, c, e
  <2>. QED BY <1>1, <1>5, <2>1, <2>2, <2>3, <2>4
<1>10. lo \in ULong
  <2>1. -M <= c /\ c < M
    <3>. HIDE DEF M, e, w, half
    <3>. QED BY <1>1, <1>2, <1>3, <1>4, <1>5
  <2>2. lo \in 0 .. M - 1
    <3>. HIDE DEF lo, M, c
    <3>. QED BY <1>1, <1>5, <1>9, <2>1
  <2>. QED BY <2>2 DEF ULong
<1>11. S \in Nat /\ S * K <= lo * R /\ lo * R < S * K + K
  <2>. HIDE DEF lo
  <2>. QED BY <1>10, WordProduct
<1>. HIDE DEF S
<1>12. g \in Nat /\ g * M <= lo * R /\ lo * R < g * M + M
  <2>1. g \in Nat /\ g * K <= S /\ S < g * K + K BY <1>1, <1>11, Division
  <2>2. lo * R \in Int
    <3>1. lo \in Int BY <1>1, <1>10 DEF ULong
    <3>. HIDE DEF lo
    <3>. QED BY <1>1, <3>1
  <2>. HIDE DEF g, lo, R
  <2>. QED BY <1>11, <2>1, <2>2, TwoWords
<1>13. f \in Int /\ f * M <= c * R /\ c * R < f * M + M
  <2>1. CASE c >= 0 BY <1>9, <1>12, <2>1
  <2>2. CASE c < 0
    <3>1. lo = c + M /\ f = g - R /\ R \in Nat BY <1>1, <1>5, <1>9, <2>2
    <3>. HIDE DEF lo, f, g, M, c, R
    <3>2. lo * R = c * R + R * M /\ f * M = g * M - R * M /\ f \in Int BY <1>1, <1>5, <1>12, <3>1
    <3>3. c * R \in Int /\ R * M \in Int /\ g * M \in Int BY <1>1, <1>5, <1>12, <3>1
    <3>. QED BY <1>1, <1>12, <3>2, <3>3
  <2>. QED BY <1>5, <2>1, <2>2
<1>14. -a <= e + f * a /\ e + f * a <= half
  <2>1. R \in Nat /\ e = R * a - K * K BY <1>1
  <2>2. f * (K * K) <= (half - e) * R /\ (half - e) * R < f * (K * K) + K * K BY <1>13
  <2>. HIDE DEF R, e, f, half
  <2>3. w = (TableError + 1) * a OBVIOUS
  <2>. HIDE DEF w
  <2>. QED BY <1>1, <1>2, <1>3, <1>4, <1>5, <1>13, <2>1, <2>2, <2>3, NewtonStep
<1>15. next \in Int /\ next * a - M = e + f * a
  <2>1. R \in Nat /\ R * a = M + e BY <1>1
  <2>. HIDE DEF R, e, f, M
  <2>2. next * a = R * a + f * a /\ f * a \in Int BY <1>1, <1>13, <2>1
  <2>. QED BY <1>1, <1>5, <1>13, <2>1, <2>2
<1>16. K <= next /\ next < 2 * K
  <2>. HIDE DEF next
  <2>1. next * a \in Int BY <1>1, <1>15
  <2>2. M - a <= next * a /\ next * a <= M + half
    <3>1. f * a \in Int BY <1>1, <1>13
    <3>. HIDE DEF M, e, f, half
    <3>. QED BY <1>1, <1>2, <1>5, <1>14, <1>15, <2>1, <3>1
  <2>3. next < 2 * K
    <3>. SUFFICES ASSUME next >= 2 * K PROVE FALSE BY <1>1, <1>15
    <3>. DEFINE i == 2 * K
                j == 2 * a
    <3>1. i \in Int /\ i <= next /\ i * a = j * K BY <1>1
    <3>. HIDE DEF i
    <3>2. i * a <= next * a BY <1>1, <1>15, <3>1, Monotone
    <3>3. K + 1 <= j /\ j \in Int BY <1>1
    <3>. HIDE DEF j
    <3>. DEFINE l == K + 1
    <3>4. l \in Int /\ l <= j /\ l * K = M + K BY <1>1, <3>3
    <3>. HIDE DEF l
    <3>5. l * K <= j * K BY <1>1, <3>3, <3>4, Monotone
    <3>6. j * K \in Int BY <1>1, <3>3
    <3>. HIDE DEF M, half
    <3>. QED BY <1>1, <1>2, <2>1, <2>2, <3>1, <3>2, <3>4, <3>5, <3>6
  <2>4. K <= next
    <3>. SUFFICES ASSUME next < K PROVE FALSE BY <1>1, <1>15
    <3>1. next * a + a <= K * a BY <1>1, <1>15, NextMultiple
    <3>2. a * K + K <= K * K BY <1>1, NextMultiple
    <3>3. K * a = a * K /\ a * K \in Int BY <1>1
    <3>4. a * K + K <= M BY <3>2
    <3>. HIDE DEF M
    <3>. QED BY <1>1, <2>1, <2>2, <3>1, <3>3, <3>4
  <2>. QED BY <2>3, <2>4
<1>17. Reciprocal(a, r) = (High(k) + (IF b THEN r ELSE 0)) % K BY DEF Reciprocal, S
<1>18. High(k) = g % K BY <1>11, HighOfMod
<1>19. Reciprocal(a, r) = next - K
  <2>. DEFINE d == IF b THEN r ELSE 0
              z == g + d
  <2>1. d \in Int /\ g \in Int /\ z \in Int BY <1>1, <1>12
  <2>2. ((g % K) + d) % K = z % K
    <3>. HIDE DEF g, d
    <3>. QED BY <1>1, <2>1, ModPlus
  <2>3. z = IF c >= 0 THEN next - K ELSE next
    <3>1. d = IF c >= 0 THEN r ELSE 0 BY <1>8
    <3>. HIDE DEF d, c, g
    <3>. QED BY <1>1, <1>12, <3>1
  <2>4. z % K = IF z < 0 THEN z + K ELSE IF z < K THEN z ELSE z - K
    <3>1. -K <= z /\ z < 2 * K
      <4>. HIDE DEF z, next, c
      <4>. QED BY <1>1, <1>5, <1>15, <1>16, <2>1, <2>3
    <3>. HIDE DEF z
    <3>. QED BY <1>1, <2>1, <3>1, ModOf
  <2>5. Reciprocal(a, r) = z % K BY <1>17, <1>18, <2>2
  <2>. HIDE DEF z, next, c
  <2>. QED BY <1>1, <1>5, <1>15, <1>16, <2>1, <2>3, <2>4, <2>5
<1>20. next - K \in UInt
  <2>. HIDE DEF next
  <2>. QED BY <1>1, <1>15, <1>16 DEF UInt
<1>21. Accurate(a, next - K)
  <2>. HIDE DEF next
  <2>1. K + (next - K) = next BY <1>1, <1>15
  <2>2. -a <= next * a - M /\ next * a - M <= a
    <3>1. next * a \in Int BY <1>1, <1>15
    <3>. HIDE DEF M, e, f, half
    <3>. QED BY <1>1, <1>2, <1>14, <1>15, <3>1
  <2>. QED BY <2>1, <2>2 DEF Accurate
<1>. QED BY <1>19, <1>20, <1>21

-----------------------------------------------------------------------------
\* The square root of the CPU.

LEMMA NextSquare ==
  ASSUME NEW x \in Int
  PROVE  x * x \in Int /\ (x + 1) * (x + 1) = x * x + 2 * x + 1
  BY SMT

\* The part of n that fits into a double has a root: that of n, or one less.
LEMMA RootOfPart ==
  ASSUME NEW n \in ULong, NEW root \in UInt, IsRoot(n, root), NEW d \in 0 .. K - 1
  PROVE  n - d \in Nat => \E e \in UInt : IsRoot(n - d, e)
<1>. SUFFICES ASSUME n - d \in Nat PROVE \E e \in UInt : IsRoot(n - d, e)
  OBVIOUS
<1>. DEFINE F == 2 * K + root
            X == K * K + n
<1>1. K \in Nat \ {0} /\ K * K \in Nat /\ root \in Nat /\ n \in Nat /\ d \in Nat
  BY LongWord DEF UInt, ULong
<1>2. F \in Nat /\ X \in Nat /\ F >= 2 * K
  BY <1>1
<1>3. F * F <= 4 * X /\ 4 * X < (F + 1) * (F + 1)
  BY DEF IsRoot
<1>4. K * K + (n - d) = X - d
  BY <1>1
<1>5. CASE F * F <= 4 * (X - d)
  <2>1. 4 * (X - d) < (F + 1) * (F + 1)
    <3>. DEFINE s == (F + 1) * (F + 1)
    <3>1. s \in Int
      BY <1>2
    <3>2. 4 * X < s
      BY <1>3
    <3>. HIDE DEF s, X
    <3>3. 4 * (X - d) < s
      BY <1>1, <1>2, <3>1, <3>2
    <3>. QED  BY <3>3 DEF s
  <2>2. IsRoot(n - d, root)
    <3>. HIDE DEF X
    <3>. QED  BY <1>4, <1>5, <2>1 DEF IsRoot
  <2>. QED  BY <2>2
<1>6. CASE ~(F * F <= 4 * (X - d))
  <2>. DEFINE G == F - 1
  <2>1. F * F = G * G + 2 * G + 1 /\ G * G \in Int /\ F * F \in Int /\ G \in Int /\ F = G + 1
    <3>1. G \in Int /\ F = G + 1
      BY <1>2
    <3>. HIDE DEF G, F
    <3>. QED  BY <3>1, NextSquare
  <2>2. G * G <= 4 * (X - d)
    <3>. DEFINE g == G * G
                f == F * F
    <3>1. g \in Int /\ f \in Int /\ f = g + 2 * G + 1 /\ f <= 4 * X
      BY <1>3, <2>1
    <3>2. G >= 2 * K - 1
      BY <1>1, <1>2
    <3>. HIDE DEF g, f, X, F, G
    <3>3. g <= 4 * (X - d)
      BY <1>1, <1>2, <2>1, <3>1, <3>2
    <3>. QED  BY <3>3 DEF g
  <2>3. 4 * (X - d) < (G + 1) * (G + 1)
    <3>. DEFINE f == F * F
    <3>1. f \in Int /\ ~(f <= 4 * (X - d)) /\ X - d \in Int
      BY <1>1, <1>2, <1>6, <2>1
    <3>. HIDE DEF f, X
    <3>2. 4 * (X - d) < f
      BY <3>1
    <3>. HIDE DEF F, G
    <3>. QED  BY <2>1, <3>2 DEF f
  <2>4. root # 0
    <3>. SUFFICES ASSUME root = 0 PROVE FALSE
      OBVIOUS
    <3>1. F * F = 4 * (K * K)
      BY <1>1
    <3>2. 4 * (K * K) <= 4 * (K * K + (n - d))
      <4>. DEFINE kk == K * K
      <4>1. kk \in Int
        BY <1>1
      <4>. HIDE DEF kk
      <4>2. 4 * kk <= 4 * (kk + (n - d))
        BY <4>1
      <4>. QED  BY <4>2 DEF kk
    <3>. HIDE DEF X
    <3>. QED  BY <1>4, <1>6, <3>1, <3>2
  <2>5. root - 1 \in UInt /\ G = 2 * K + (root - 1)
    BY <1>1, <2>4 DEF UInt
  <2>6. IsRoot(n - d, root - 1)
    <3>. HIDE DEF X, G
    <3>. QED  BY <1>4, <2>2, <2>3, <2>5 DEF IsRoot
  <2>. QED  BY <2>5, <2>6
<1>. QED  BY <1>5, <1>6

\* Four times what the code squares is, but for 1 or 4, the square of the next half.
LEMMA SquareOfHalf ==
  ASSUME NEW k \in Int, NEW h \in Int, NEW b \in {0, 1}
  PROVE  LET E == 2 * k + 2 * h + b
         IN  /\ (k + h) * (k + h + b + 1) \in Int
             /\ 4 * ((k + h) * (k + h + b + 1)) = (E + 1) * (E + 1) - 1 - 3 * b
<1>. DEFINE y == k + h
<1>1. y \in Int
  OBVIOUS
<1>2. 4 * (y * (y + b + 1)) = (2 * y + b + 1) * (2 * y + b + 1) - 1 - 3 * b /\ y * (y + b + 1) \in Int
  <2>. HIDE DEF y
  <2>1. CASE b = 0
    BY <1>1, <2>1
  <2>2. CASE b = 1
    BY <1>1, <2>2
  <2>. QED  BY <2>1, <2>2
<1>3. 2 * k + 2 * h + b + 1 = 2 * y + b + 1
  OBVIOUS
<1>. QED  BY <1>2, <1>3

\* int_sqrt_v2_fixup, from the root of all but the last d of n.
LEMMA FixupIsExact ==
  ASSUME NEW n \in ULong, NEW d \in 0 .. K - 1, n - d \in Nat,
         NEW e \in UInt, IsRoot(n - d, e),
         (2 * K + e + 1) * (2 * K + e + 1) < 8 * K * K
  PROVE  IsRoot(n, SqrtFixup(2 * K * Exponent + e, n) % K)
<1>. DEFINE E == 2 * K + e
            X == K * K + n
            next == (E + 1) * (E + 1)
            h == e \div 2
            b == e % 2
            P == (K + h) * (K + h + b + 1)
            r19 == 2 * K * Exponent + e
            x2 == ((r19 \div 2 - (Exponent - 1) * K)
                     * (r19 - (r19 \div 2 + (Exponent - 1) * K) + 1)) % (K * K)
<1>1. K \in Nat \ {0} /\ K * K \in Nat /\ e \in Nat /\ n \in Nat /\ d \in Nat
  BY LongWord DEF UInt, ULong
<1>2. E \in Nat /\ X \in Nat /\ E >= 2 * K /\ next \in Int /\ E * E \in Int
  BY <1>1
<1>3. h \in Nat /\ b \in {0, 1} /\ e = 2 * h + b
  BY <1>1
<1>4. P \in Int /\ 4 * P = next - 1 - 3 * b
  <2>1. 2 * K + 2 * h + b = E
    BY <1>1, <1>3
  <2>. HIDE DEF E, h, b
  <2>. QED  BY <1>1, <1>3, <2>1, SquareOfHalf
<1>5. r19 \div 2 = 1023 * K + h /\ r19 % 2 = b
  <2>1. r19 = (1023 * K + h) * 2 + b
    BY <1>1, <1>3 DEF Exponent
  <2>. DEFINE q == 1023 * K + h
  <2>2. q \in Int /\ r19 \in Int /\ 2 \in Nat \ {0}
    BY <1>1, <1>3 DEF Exponent
  <2>. HIDE DEF r19, h, b, q
  <2>3. q * 2 <= r19 /\ r19 < q * 2 + 2 /\ r19 - q * 2 = b
    <3>1. r19 = q * 2 + b
      BY <2>1 DEF q
    <3>. QED  BY <1>3, <2>2, <3>1
  <2>4. r19 \div 2 = q /\ r19 % 2 = r19 - q * 2
    BY <2>2, <2>3, QuotientOf
  <2>. QED  BY <2>3, <2>4 DEF q
<1>6. r19 \div 2 - (Exponent - 1) * K = K + h
      /\ r19 - (r19 \div 2 + (Exponent - 1) * K) + 1 = K + h + b + 1
  BY <1>1, <1>3, <1>5 DEF Exponent
<1>7. next < 8 * (K * K)
  BY <1>1
<1>8. K * K <= P /\ P < 2 * (K * K)
  <2>1. P = K * K + K * (h + b + 1) + h * (K + h + b + 1)
    <3>. HIDE DEF h, b
    <3>. QED  BY <1>1, <1>3
  <2>2. K * (h + b + 1) \in Nat /\ h * (K + h + b + 1) \in Nat
    <3>. HIDE DEF h, b
    <3>1. h + b + 1 \in Nat /\ K + h + b + 1 \in Nat
      BY <1>1, <1>3
    <3>. QED  BY <1>1, <1>3, <3>1
  <2>. DEFINE KK == K * K
              u == K * (h + b + 1)
              v == h * (K + h + b + 1)
  <2>3. KK \in Nat /\ u \in Nat /\ v \in Nat /\ P = KK + u + v /\ next < 8 * KK
    BY <1>1, <1>7, <2>1, <2>2
  <2>. HIDE DEF P, next, h, b, KK, u, v
  <2>4. KK <= P /\ P < 2 * KK
    BY <1>2, <1>3, <1>4, <2>3
  <2>. QED  BY <2>4 DEF KK
<1>9. x2 = P - K * K
  <2>1. x2 = P % (K * K)
    BY <1>6
  <2>. DEFINE KK == K * K
  <2>2. KK \in Nat \ {0} /\ P \in Int /\ KK <= P /\ P < 2 * KK
    BY <1>4, <1>8, LongWord
  <2>. HIDE DEF P, KK, x2
  <2>3. 1 * KK = KK /\ 1 \in Int /\ 1 * KK <= P /\ P < 1 * KK + KK
    BY <2>2
  <2>4. P % KK = P - 1 * KK
    BY <2>2, <2>3, QuotientOf
  <2>. QED  BY <2>1, <2>3, <2>4 DEF KK
<1>10. SqrtFixup(r19, n) = IF x2 < n THEN r19 + 1 ELSE r19
  BY DEF SqrtFixup
<1>11. x2 < n <=> next <= 4 * X
  <2>. DEFINE KK == K * K
  <2>1. KK \in Nat /\ x2 = P - KK /\ X = KK + n
    BY <1>1, <1>9
  <2>. HIDE DEF x2, P, X, KK, next, b
  <2>. QED  BY <1>1, <1>2, <1>3, <1>4, <2>1
<1>12. E * E <= 4 * (X - d) /\ 4 * (X - d) < next
  BY <1>1 DEF IsRoot
<1>13. e + 1 < K
  <2>. SUFFICES ASSUME K <= e + 1 PROVE FALSE
    BY <1>1
  <2>1. PICK c \in Nat : E + 1 = 3 * K + c
    <3>1. E + 1 - 3 * K \in Nat /\ E + 1 = 3 * K + (E + 1 - 3 * K)
      BY <1>1
    <3>. QED  BY <3>1
  <2>2. next = 9 * (K * K) + c * (6 * K + c)
    <3>. HIDE DEF E
    <3>. QED  BY <1>1, <2>1
  <2>3. c * (6 * K + c) \in Nat
    <3>1. 6 * K + c \in Nat
      BY <1>1
    <3>. QED  BY <3>1
  <2>. DEFINE KK == K * K
              v == c * (6 * K + c)
  <2>4. KK \in Nat /\ v \in Nat /\ next = 9 * KK + v /\ next < 8 * KK
    BY <1>1, <1>7, <2>2, <2>3
  <2>. HIDE DEF next, KK, v
  <2>. QED  BY <2>4
<1>14. ASSUME NEW f \in {e, e + 1}
       PROVE  (2 * K * Exponent + f) % K = f
  <2>1. f \in Nat /\ f < K
    BY <1>1, <1>13
  <2>2. 2 * K * Exponent + f = 2046 * K + f
    BY <1>1, <2>1 DEF Exponent
  <2>3. 2046 \in Int /\ 2046 * K + f \in Int /\ 2046 * K <= 2046 * K + f /\ 2046 * K + f < 2046 * K + K
    BY <1>1, <2>1
  <2>. DEFINE q == 2046
              x == 2046 * K + f
  <2>4. q \in Int /\ x \in Int /\ q * K <= x /\ x < q * K + K /\ x - q * K = f
    BY <1>1, <2>1, <2>3
  <2>5. 2 * K * Exponent + f = x
    BY <2>2
  <2>. HIDE DEF q, x
  <2>6. x % K = x - q * K
    BY <1>1, <2>4, QuotientOf
  <2>. QED  BY <2>4, <2>5, <2>6
<1>15. CASE x2 < n
  <2>1. 4 * X < (E + 2) * (E + 2)
    <3>1. (E + 2) * (E + 2) = next + 2 * (E + 1) + 1
      <4>1. E + 1 \in Int /\ E + 2 = (E + 1) + 1
        BY <1>2
      <4>. HIDE DEF E
      <4>. QED  BY <1>2, <4>1
    <3>. HIDE DEF next, X, E
    <3>2. 4 * X < next + 2 * (E + 1) + 1
      BY <1>1, <1>2, <1>12
    <3>. QED  BY <3>1, <3>2
  <2>2. IsRoot(n, e + 1)
    <3>1. 2 * K + (e + 1) = E + 1 /\ (E + 1) + 1 = E + 2
      BY <1>1
    <3>2. next <= 4 * X
      BY <1>11, <1>15
    <3>. HIDE DEF E
    <3>. QED  BY <2>1, <3>1, <3>2 DEF IsRoot
  <2>3. SqrtFixup(r19, n) % K = e + 1
    <3>1. SqrtFixup(r19, n) = 2 * K * Exponent + (e + 1)
      BY <1>1, <1>10, <1>15 DEF Exponent
    <3>. QED  BY <1>14, <3>1
  <2>. QED  BY <2>2, <2>3
<1>16. CASE ~(x2 < n)
  <2>1. E * E <= 4 * X
    <3>. DEFINE s == E * E
    <3>1. s \in Int /\ s <= 4 * (X - d)
      BY <1>2, <1>12
    <3>. HIDE DEF s, X
    <3>2. s <= 4 * X
      BY <1>1, <1>2, <3>1
    <3>. QED  BY <3>2 DEF s
  <2>2. 4 * X < next
    <3>. HIDE DEF x2, next, X
    <3>. QED  BY <1>2, <1>11, <1>16
  <2>3. IsRoot(n, e)
    BY <2>1, <2>2 DEF IsRoot
  <2>4. SqrtFixup(r19, n) % K = e
    BY <1>10, <1>14, <1>16
  <2>. QED  BY <2>3, <2>4
<1>. QED  BY <1>15, <1>16

-----------------------------------------------------------------------------
\* What is calculated in SpecCases, of what operands.

Quotients(a, b, rcp) ==
  [quotient |-> FastDiv(a, b, rcp), full |-> FastDivFullQ(a, b, rcp)]
Roots(n, estimate) ==
  [gpu |-> FastSqrt(n, estimate), cpu |-> IntSqrt(n) % K]

DivisionCase ==
  \E a \in ULong, b \in Divisors, r \in UInt :
    /\ Close((K * K) \div b - K, r, TableError)
    /\ operands = [op |-> "div", a |-> a, b |-> b, r |-> r]
    /\ result \in {Undone, Quotients(a, b, Reciprocal(b, r))}

RootCase ==
  \E n \in ULong, root \in UInt, r \in UInt :
    /\ IsRoot(n, root) /\ Close(root, r, 1)
    /\ operands = [op |-> "root", n |-> n, estimate |-> r]
    /\ result \in {Undone, Roots(n, r)}

CaseInvariant == DivisionCase \/ RootCase

LEMMA CaseInvariantHolds == SpecCases => []CaseInvariant
<1>1. InitCase => CaseInvariant
  <2>. SUFFICES ASSUME InitCase PROVE CaseInvariant OBVIOUS
  <2>1. CASE \E a \in ULong, b \in Divisors, r \in UInt :
               /\ Close((K * K) \div b - K, r, TableError)
               /\ operands = [op |-> "div", a |-> a, b |-> b, r |-> r]
    BY <2>1, Zenon DEF InitCase, CaseInvariant, DivisionCase
  <2>2. CASE \E n \in ULong, root \in UInt, r \in UInt :
               /\ IsRoot(n, root) /\ Close(root, r, 1)
               /\ operands = [op |-> "root", n |-> n, estimate |-> r]
    BY <2>2, Zenon DEF InitCase, CaseInvariant, RootCase
  <2>. QED BY <2>1, <2>2 DEF InitCase
<1>2. CaseInvariant /\ [NextCase]_caseVars => CaseInvariant'
  <2>. SUFFICES ASSUME CaseInvariant, [NextCase]_caseVars PROVE CaseInvariant' OBVIOUS
  <2>1. CASE DivisionCase
    <3>1. PICK a \in ULong, b \in Divisors, r \in UInt :
            /\ Close((K * K) \div b - K, r, TableError)
            /\ operands = [op |-> "div", a |-> a, b |-> b, r |-> r]
            /\ result \in {Undone, Quotients(a, b, Reciprocal(b, r))}
      BY <2>1 DEF DivisionCase
    <3>2. /\ operands.op = "div" /\ operands.a = a /\ operands.b = b /\ operands.r = r
      BY <3>1
    <3>3. operands' = operands /\ result' \in {result, Quotients(a, b, Reciprocal(b, r))}
      <4>1. CASE Divide BY <3>2, <4>1, Zenon DEF Divide, Quotients
      <4>2. CASE TakeRoot BY <3>2, <4>2 DEF TakeRoot
      <4>3. CASE UNCHANGED caseVars BY <4>3 DEF caseVars
      <4>. QED BY <4>1, <4>2, <4>3 DEF NextCase
    <3>4. result' \in {Undone, Quotients(a, b, Reciprocal(b, r))} BY <3>1, <3>3, Zenon
    <3>5. DivisionCase' BY <3>1, <3>3, <3>4, Zenon DEF DivisionCase
    <3>. QED BY <3>5 DEF CaseInvariant
  <2>2. CASE RootCase
    <3>1. PICK n \in ULong, root \in UInt, r \in UInt :
            /\ IsRoot(n, root) /\ Close(root, r, 1)
            /\ operands = [op |-> "root", n |-> n, estimate |-> r]
            /\ result \in {Undone, Roots(n, r)}
      BY <2>2 DEF RootCase
    <3>2. operands.op = "root" /\ operands.n = n /\ operands.estimate = r BY <3>1
    <3>3. operands' = operands /\ result' \in {result, Roots(n, r)}
      <4>1. CASE TakeRoot BY <3>2, <4>1, Zenon DEF TakeRoot, Roots
      <4>2. CASE Divide BY <3>2, <4>2 DEF Divide
      <4>3. CASE UNCHANGED caseVars BY <4>3 DEF caseVars
      <4>. QED BY <4>1, <4>2, <4>3 DEF NextCase
    <3>4. result' \in {Undone, Roots(n, r)} BY <3>1, <3>3, Zenon
    <3>5. RootCase' BY <3>1, <3>3, <3>4, Zenon DEF RootCase
    <3>. QED BY <3>5 DEF CaseInvariant
  <2>. QED BY <2>1, <2>2 DEF CaseInvariant
<1>. QED BY <1>1, <1>2, PTL DEF SpecCases

\* Whatever a ulong is divided by, quotient and remainder are exact, at every width of the
\* words and for every table that is off by no more than TableAssumption allows
\* (fast_int_math_v2.cl:40-109).
THEOREM DivisionIsAlwaysExact == SpecCases => []DivisionIsExact
<1>1. CaseInvariant => DivisionIsExact
  <2>. SUFFICES ASSUME CaseInvariant, Done("div")
                PROVE  LET q == operands.a \div operands.b
                           r == operands.a % operands.b
                       IN  result.quotient = << q % K, r >> /\ result.full = << q, r >>
    BY DEF DivisionIsExact
  <2>1. DivisionCase
    <3>1. ~RootCase
      <4>. SUFFICES ASSUME RootCase PROVE FALSE OBVIOUS
      <4>1. operands.op = "root" BY DEF RootCase
      <4>. QED BY <4>1 DEF Done
    <3>. QED BY <3>1 DEF CaseInvariant
  <2>2. PICK a \in ULong, b \in Divisors, r \in UInt :
          /\ Close((K * K) \div b - K, r, TableError)
          /\ operands = [op |-> "div", a |-> a, b |-> b, r |-> r]
          /\ result \in {Undone, Quotients(a, b, Reciprocal(b, r))}
    BY <2>1 DEF DivisionCase
  <2>3. operands.a = a /\ operands.b = b BY <2>2
  <2>4. result = Quotients(a, b, Reciprocal(b, r)) BY <2>2, Zenon DEF Done
  <2>5. /\ result.quotient = FastDiv(a, b, Reciprocal(b, r))
        /\ result.full = FastDivFullQ(a, b, Reciprocal(b, r))
    BY <2>4 DEF Quotients
  <2>6. Reciprocal(b, r) \in UInt /\ Accurate(b, Reciprocal(b, r))
    BY <2>2, ReciprocalIsAccurate
  <2>7. /\ FastDiv(a, b, Reciprocal(b, r)) = << (a \div b) % K, a % b >>
        /\ FastDivFullQ(a, b, Reciprocal(b, r)) = << a \div b, a % b >>
    <3>1. b \in 1 .. K - 1 BY KAssumption DEF Divisors, UInt
    <3>. QED BY <2>6, <3>1, FastDivIsExact
  <2>. QED BY <2>3, <2>5, <2>7
<1>. QED BY <1>1, CaseInvariantHolds, PTL

\* The GPU's root is exact at every width of the words, as cryptonight.cl:431-462 tests it.
THEOREM GpuRootIsAlwaysExact == SpecCases => []GpuRootIsExact
<1>1. CaseInvariant => GpuRootIsExact
  <2>. SUFFICES ASSUME CaseInvariant, Done("root")
                PROVE  IsRoot(operands.n, result.gpu)
    BY DEF GpuRootIsExact
  <2>1. RootCase
    <3>1. ~DivisionCase
      <4>. SUFFICES ASSUME DivisionCase PROVE FALSE OBVIOUS
      <4>1. operands.op = "div" BY DEF DivisionCase
      <4>. QED BY <4>1 DEF Done
    <3>. QED BY <3>1 DEF CaseInvariant
  <2>2. PICK n \in ULong, root \in UInt, r \in UInt :
          /\ IsRoot(n, root) /\ Close(root, r, 1)
          /\ operands = [op |-> "root", n |-> n, estimate |-> r]
          /\ result \in {Undone, Roots(n, r)}
    BY <2>1 DEF RootCase
  <2>3. operands.n = n BY <2>2
  <2>4. result = Roots(n, r) BY <2>2, Zenon DEF Done
  <2>5. result.gpu = FastSqrt(n, r) BY <2>4 DEF Roots
  <2>6. root - 1 <= r /\ r <= root + 1 BY <2>2 DEF Close
  <2>7. FastSqrt(n, r) = root BY <2>2, <2>6, FastSqrtIsExact
  <2>. QED BY <2>2, <2>3, <2>5, <2>7
<1>. QED BY <1>1, CaseInvariantHolds, PTL

\* The CPU's root is exact at every width of the words, whatever part of a number a double
\* leaves out, as long as the square of the next half fits into a ulong
\* (cryptonight_aesni.h:220-242).
THEOREM CpuRootIsAlwaysExact == SpecCases => []CpuRootIsExact
<1>1. CaseInvariant => CpuRootIsExact
  <2>. SUFFICES ASSUME CaseInvariant, Done("root"),
                       LET next == 2 * K + RootOf(operands.n - (operands.n % Dropped)) + 1
                       IN  next * next < 8 * K * K
                PROVE  IsRoot(operands.n, result.cpu)
    BY DEF CpuRootIsExact
  <2>1. RootCase
    <3>1. ~DivisionCase
      <4>. SUFFICES ASSUME DivisionCase PROVE FALSE OBVIOUS
      <4>1. operands.op = "div" BY DEF DivisionCase
      <4>. QED BY <4>1 DEF Done
    <3>. QED BY <3>1 DEF CaseInvariant
  <2>2. PICK n \in ULong, root \in UInt, r \in UInt :
          /\ IsRoot(n, root) /\ Close(root, r, 1)
          /\ operands = [op |-> "root", n |-> n, estimate |-> r]
          /\ result \in {Undone, Roots(n, r)}
    BY <2>1 DEF RootCase
  <2>3. operands.n = n BY <2>2
  <2>4. result = Roots(n, r) BY <2>2, Zenon DEF Done
  <2>5. result.cpu = IntSqrt(n) % K BY <2>4 DEF Roots
  <2>. DEFINE d == n % Dropped
              e == RootOf(n - d)
  <2>6. d \in 0 .. K - 1 /\ n - d \in Nat
    <3>1. n \in Nat /\ n \in Int /\ Dropped \in Nat \ {0} /\ Dropped <= K /\ K \in Nat
      BY DroppedAssumption, LongWord DEF ULong
    <3>. DEFINE x == (n \div Dropped) * Dropped
    <3>2. d \in 0 .. Dropped - 1 /\ n = x + d
      BY <3>1, DivMod
    <3>3. x \in Nat
      <4>1. n \div Dropped \in Nat
        BY <3>1, Division
      <4>. QED BY <3>1, <4>1
    <3>. HIDE DEF x, d
    <3>. QED BY <3>1, <3>2, <3>3
  <2>. HIDE DEF d
  <2>7. \E f \in UInt : IsRoot(n - d, f)
    BY <2>2, <2>6, RootOfPart
  <2>8. e \in UInt /\ IsRoot(n - d, e)
    BY <2>7 DEF RootOf
  <2>9. IntSqrt(n) = SqrtFixup(2 * K * Exponent + e, n)
    BY DEF IntSqrt, RootOf, d
  <2>10. (2 * K + e + 1) * (2 * K + e + 1) < 8 * K * K
    BY <2>3 DEF d
  <2>. HIDE DEF e
  <2>11. IsRoot(n, SqrtFixup(2 * K * Exponent + e, n) % K)
    BY <2>6, <2>8, <2>10, FixupIsExact
  <2>. QED BY <2>3, <2>5, <2>9, <2>11
<1>. QED BY <1>1, CaseInvariantHolds, PTL

-----------------------------------------------------------------------------
(* Digits. *)

\* A number is a quotient and a remainder.
LEMMA QuotientOfNat ==
  ASSUME NEW n \in Nat, NEW m \in Nat \ {0}
  PROVE  /\ n \div m \in Nat /\ n % m \in 0 .. m - 1
         /\ n = (n \div m) * m + (n % m)
  BY SMT

\* A number has one quotient and one remainder.
LEMMA OneQuotient ==
  ASSUME NEW m \in Nat \ {0}, NEW p \in Nat, NEW q \in Nat, NEW a \in 0 .. m - 1,
         NEW b \in 0 .. m - 1, p * m + a = q * m + b
  PROVE  p = q /\ a = b
<1>1. ASSUME NEW i \in Nat, NEW j \in Nat, i < j PROVE i * m + m <= j * m
  <2>1. PICK d \in Nat : j = i + 1 + d
    <3>1. j - i - 1 \in Nat BY <1>1
    <3>. QED BY <3>1, j = i + 1 + (j - i - 1)
  <2>2. j * m = i * m + m + d * m BY <2>1
  <2>3. d * m \in Nat OBVIOUS
  <2>. QED BY <2>2, <2>3
<1>2. ~(p < q)
  <2>. SUFFICES ASSUME p < q PROVE FALSE OBVIOUS
  <2>1. p * m + m <= q * m BY <1>1
  <2>. QED BY <2>1
<1>3. ~(q < p)
  <2>. SUFFICES ASSUME q < p PROVE FALSE OBVIOUS
  <2>1. q * m + m <= p * m BY <1>1
  <2>. QED BY <2>1
<1>. QED BY <1>2, <1>3

\* A number of one digit.
LEMMA OneDigit ==
  ASSUME NEW m \in Nat \ {0}, NEW x \in 0 .. m - 1
  PROVE  x \div m = 0 /\ x % m = x
<1>. DEFINE p == x \div m
            a == x % m
            zero == 0
<1>1. x \in Nat OBVIOUS
<1>2. p \in Nat /\ a \in 0 .. m - 1 /\ x = p * m + a BY <1>1, QuotientOfNat
<1>3. zero \in Nat /\ zero * m + x = p * m + a BY <1>1, <1>2
<1>. HIDE DEF p, a, zero
<1>4. zero = p /\ x = a BY <1>2, <1>3, OneQuotient
<1>. QED BY <1>4 DEF p, a, zero

\* What is below a product of two, taken apart.
LEMMA Below ==
  ASSUME NEW m \in Nat \ {0}, NEW q \in Nat, NEW p \in 0 .. q - 1, NEW a \in 0 .. m - 1
  PROVE  p * m + a \in 0 .. q * m - 1
<1>1. PICK d \in Nat : q = p + 1 + d
  <2>1. q - p - 1 \in Nat OBVIOUS
  <2>. QED BY <2>1, q = p + 1 + (q - p - 1)
<1>2. q * m = p * m + m + d * m BY <1>1
<1>3. d * m \in Nat /\ p * m \in Nat OBVIOUS
<1>. QED BY <1>2, <1>3

-----------------------------------------------------------------------------
\* The layouts of the scratchpads keep the nonces of a batch apart.

\* The third layout, digit by digit: group and run, nonce of the group, chunk of the run.
LEMMA DigitsOfSlot ==
  ASSUME NEW l \in Layouts, Fits(l), l.stride = 2, NEW n \in Nonces, NEW x \in ChunkNos
  PROVE  LET W == l.worksize
             M == l.memChunk
             D == Chunks \div M
         IN  /\ Slot(l, n, x) = (((n \div W) * D + (x \div M)) * W + (n % W)) * M + (x % M)
             /\ D \in Nat \ {0} /\ x \div M \in 0 .. D - 1 /\ Chunks = D * M
             /\ n \div W \in 0 .. (N \div W) - 1 /\ N = (N \div W) * W
<1>. DEFINE W == l.worksize
            M == l.memChunk
            D == Chunks \div M
            G == N \div W
<1>1. /\ W \in Nat \ {0} /\ M \in Nat \ {0} /\ n \in Nat /\ x \in Nat
      /\ N \in Nat \ {0} /\ Chunks \in Nat \ {0} /\ n < N /\ x < Chunks
      /\ N % W = 0 /\ Chunks % M = 0
  BY NonceAssumption DEF Layouts, Nonces, ChunkNos, Fits
<1>. HIDE DEF W, M
<1>2. /\ D \in Nat /\ Chunks = D * M
      /\ G \in Nat /\ N = G * W
  <2>1. D \in Nat /\ Chunks = D * M + (Chunks % M) BY <1>1, QuotientOfNat
  <2>2. G \in Nat /\ N = G * W + (N % W) BY <1>1, QuotientOfNat
  <2>3. D * M \in Nat /\ G * W \in Nat BY <1>1, <2>1, <2>2
  <2>. QED BY <1>1, <2>1, <2>2, <2>3
<1>3. /\ x \div M \in Nat /\ x % M \in 0 .. M - 1 /\ x = (x \div M) * M + (x % M)
      /\ n \div W \in Nat /\ n % W \in 0 .. W - 1 /\ n = (n \div W) * W + (n % W)
  BY <1>1, QuotientOfNat
<1>. HIDE DEF D, G
<1>4. ASSUME NEW k \in Nat \ {0}, NEW p \in Nat, NEW q \in Nat, NEW a \in Nat,
             p * k + a < q * k
      PROVE  p < q
  <2>. SUFFICES ASSUME p >= q PROVE FALSE BY <1>4
  <2>1. PICK d \in Nat : p = q + d
    <3>1. p - q \in Nat OBVIOUS
    <3>. QED BY <3>1, p = q + (p - q)
  <2>2. p * k = q * k + d * k BY <2>1
  <2>3. d * k \in Nat /\ q * k \in Nat OBVIOUS
  <2>. QED BY <1>4, <2>2, <2>3
<1>5. x \div M < D
  <2>. DEFINE p == x \div M
              a == x % M
  <2>1. p \in Nat /\ a \in Nat /\ x = p * M + a BY <1>3
  <2>. HIDE DEF p, a
  <2>2. p * M + a < D * M BY <2>1, <1>2, <1>1
  <2>3. p < D BY <1>1, <1>2, <1>4, <2>1, <2>2
  <2>. QED BY <2>3 DEF p
<1>6. n \div W < G
  <2>. DEFINE p == n \div W
              a == n % W
  <2>1. p \in Nat /\ a \in Nat /\ n = p * W + a BY <1>3
  <2>. HIDE DEF p, a
  <2>2. p * W + a < G * W BY <2>1, <1>2, <1>1
  <2>3. p < G BY <1>1, <1>2, <1>4, <2>1, <2>2
  <2>. QED BY <2>3 DEF p
<1>7. D # 0 BY <1>2, <1>3, <1>5
<1>8. Slot(l, n, x) = (((n \div W) * D + (x \div M)) * W + (n % W)) * M + (x % M)
  <2>. DEFINE g == n \div W
              w == n % W
              r == x \div M
              c == x % M
  <2>1. g \in Nat /\ w \in Nat /\ r \in Nat /\ c \in Nat BY <1>3
  <2>2. Slot(l, n, x) = (g * Chunks * W + M * w) + (c + r * W * M)
    BY DEF Slot, Base, Idx, W, M
  <2>. HIDE DEF g, w, r, c
  <2>3. (g * Chunks * W + M * w) + (c + r * W * M) = ((g * D + r) * W + w) * M + c
    BY <1>1, <1>2, <2>1
  <2>. QED BY <2>2, <2>3 DEF g, w, r, c
<1>. QED BY <1>2, <1>3, <1>5, <1>6, <1>7, <1>8 DEF W, M, D, G

\* No two chunks of the batch share a place in the buffer, whatever the layout: what a nonce
\* writes is its own, and none of its chunks is over another (cryptonight.cl:464-501, 603-611).
THEOREM SlotsAreDistinct ==
  ASSUME NEW l \in Layouts, Fits(l),
         NEW m \in Nonces, NEW n \in Nonces, NEW x \in ChunkNos, NEW y \in ChunkNos,
         Slot(l, m, x) = Slot(l, n, y)
  PROVE  m = n /\ x = y
<1>1. /\ m \in 0 .. N - 1 /\ n \in 0 .. N - 1 /\ N \in Nat \ {0}
      /\ x \in 0 .. Chunks - 1 /\ y \in 0 .. Chunks - 1 /\ Chunks \in Nat \ {0}
  BY NonceAssumption DEF Nonces, ChunkNos
<1>2. CASE l.stride = 0
  <2>1. m * Chunks + x = n * Chunks + y BY <1>2 DEF Slot, Base, Idx
  <2>. QED BY <1>1, <2>1, OneQuotient
<1>3. CASE l.stride = 1
  <2>1. m + x * N = n + y * N BY <1>3 DEF Slot, Base, Idx
  <2>2. x * N + m = y * N + n BY <1>1, <2>1
  <2>. QED BY <1>1, <2>2, OneQuotient
<1>4. CASE l.stride = 2
  <2>. DEFINE W == l.worksize
              M == l.memChunk
              D == Chunks \div M
  <2>1. W \in Nat \ {0} /\ M \in Nat \ {0} BY DEF Layouts
  <2>2. /\ Slot(l, m, x) = (((m \div W) * D + (x \div M)) * W + (m % W)) * M + (x % M)
        /\ D \in Nat \ {0} /\ x \div M \in 0 .. D - 1
    BY <1>4, DigitsOfSlot
  <2>3. /\ Slot(l, n, y) = (((n \div W) * D + (y \div M)) * W + (n % W)) * M + (y % M)
        /\ y \div M \in 0 .. D - 1
    BY <1>4, DigitsOfSlot
  <2>. HIDE DEF W, M, D
  <2>4. /\ m \div W \in Nat /\ m % W \in 0 .. W - 1 /\ m = (m \div W) * W + (m % W)
        /\ n \div W \in Nat /\ n % W \in 0 .. W - 1 /\ n = (n \div W) * W + (n % W)
    <3>1. m \in Nat /\ n \in Nat BY <1>1
    <3>. QED BY <2>1, <3>1, QuotientOfNat
  <2>5. /\ x % M \in 0 .. M - 1 /\ x = (x \div M) * M + (x % M)
        /\ y % M \in 0 .. M - 1 /\ y = (y \div M) * M + (y % M)
    <3>1. x \in Nat /\ y \in Nat BY <1>1
    <3>. QED BY <2>1, <3>1, QuotientOfNat
  <2>. DEFINE g == m \div W
              h == n \div W
              r == x \div M
              s == y \div M
              i == m % W
              j == n % W
              c == x % M
              d == y % M
  <2>6. /\ g \in Nat /\ h \in Nat /\ r \in 0 .. D - 1 /\ s \in 0 .. D - 1
        /\ i \in 0 .. W - 1 /\ j \in 0 .. W - 1 /\ c \in 0 .. M - 1 /\ d \in 0 .. M - 1
        /\ ((g * D + r) * W + i) * M + c = ((h * D + s) * W + j) * M + d
        /\ m = g * W + i /\ n = h * W + j /\ x = r * M + c /\ y = s * M + d
    BY <2>2, <2>3, <2>4, <2>5
  <2>. HIDE DEF g, h, r, s, i, j, c, d
  <2>. DEFINE u == g * D + r
              v == h * D + s
              p == u * W + i
              q == v * W + j
  <2>7. u \in Nat /\ v \in Nat BY <2>2, <2>6
  <2>8. p \in Nat /\ q \in Nat
    <3>. HIDE DEF u, v
    <3>. QED BY <2>1, <2>6, <2>7
  <2>9. p = q /\ c = d
    <3>1. p * M + c = q * M + d BY <2>6
    <3>. HIDE DEF p, q
    <3>. QED BY <2>1, <2>6, <2>8, <3>1, OneQuotient
  <2>10. u = v /\ i = j
    <3>1. u * W + i = v * W + j BY <2>9
    <3>. HIDE DEF u, v
    <3>. QED BY <2>1, <2>6, <2>7, <3>1, OneQuotient
  <2>11. g = h /\ r = s
    <3>1. g * D + r = h * D + s BY <2>10
    <3>. HIDE DEF u, v
    <3>. QED BY <2>2, <2>6, <3>1, OneQuotient
  <2>. QED BY <2>6, <2>9, <2>10, <2>11
<1>. QED BY <1>2, <1>3, <1>4 DEF Layouts

\* Each place is within the buffer of (1 << 21) * rawIntensity bytes (gpu.c:604).
THEOREM SlotsFitTheBuffer ==
  ASSUME NEW l \in Layouts, Fits(l), NEW n \in Nonces, NEW x \in ChunkNos
  PROVE  Slot(l, n, x) \in 0 .. N * Chunks - 1
<1>1. n \in 0 .. N - 1 /\ N \in Nat \ {0} /\ x \in 0 .. Chunks - 1 /\ Chunks \in Nat \ {0}
  BY NonceAssumption DEF Nonces, ChunkNos
<1>2. CASE l.stride = 0
  <2>1. Slot(l, n, x) = n * Chunks + x BY <1>2 DEF Slot, Base, Idx
  <2>. QED BY <1>1, <2>1, Below
<1>3. CASE l.stride = 1
  <2>1. Slot(l, n, x) = x * N + n BY <1>1, <1>3 DEF Slot, Base, Idx
  <2>2. x * N + n \in 0 .. Chunks * N - 1 BY <1>1, Below
  <2>. QED BY <1>1, <2>1, <2>2
<1>4. CASE l.stride = 2
  <2>. DEFINE W == l.worksize
              M == l.memChunk
              D == Chunks \div M
              G == N \div W
              g == n \div W
              r == x \div M
  <2>1. /\ Slot(l, n, x) = ((g * D + r) * W + (n % W)) * M + (x % M)
        /\ D \in Nat \ {0} /\ r \in 0 .. D - 1 /\ Chunks = D * M
        /\ g \in 0 .. G - 1 /\ N = G * W
    BY <1>4, DigitsOfSlot
  <2>2. W \in Nat \ {0} /\ M \in Nat \ {0} BY DEF Layouts
  <2>3. n % W \in 0 .. W - 1 /\ x % M \in 0 .. M - 1 /\ G \in Nat
    <3>1. n \in Nat /\ x \in Nat /\ N \in Nat BY <1>1
    <3>. QED BY <2>2, <3>1, QuotientOfNat
  <2>. HIDE DEF W, M, D, G, g, r
  <2>4. g * D + r \in 0 .. G * D - 1 BY <2>1, <2>3, Below
  <2>5. G * D \in Nat BY <2>1, <2>3
  <2>6. (g * D + r) * W + (n % W) \in 0 .. (G * D) * W - 1 BY <2>2, <2>3, <2>4, <2>5, Below
  <2>7. (G * D) * W \in Nat BY <2>2, <2>5
  <2>8. ((g * D + r) * W + (n % W)) * M + (x % M) \in 0 .. ((G * D) * W) * M - 1
    BY <2>2, <2>3, <2>6, <2>7, Below
  <2>9. ((G * D) * W) * M = N * Chunks BY <2>1, <2>2, <2>3
  <2>. QED BY <2>1, <2>8, <2>9
<1>. QED BY <1>2, <1>3, <1>4 DEF Layouts

-----------------------------------------------------------------------------
\* Slices of nonces neither overlap nor overflow.

JobNos == 1 .. Len(Jobs)

\* The slice of a thread: that of the first job begins with 0 for all of them.
SliceNo(t, j) == IF j = FirstJob THEN 0 ELSE Jobs[j].resume * iThreadCount + t

\* What cn0 is given for the nth hash of a job.
InputOf(t, j, n) ==
  [thread |-> t, job |-> j, nth |-> n, blob |-> Jobs[j].blob,
   nonce |-> SliceNo(t, j) * Slice + n, behind |-> 0]

InSlice ==
  /\ iJobNo \in [GpuThreads -> JobNos] /\ done \in [GpuThreads -> Nat]
  /\ Nonce \in [GpuThreads -> Nat]
  /\ \A t \in GpuThreads : Nonce[t] = SliceNo(t, iJobNo[t]) * Slice + done[t]

InputsInSlices ==
  \A x \in inputs : \E t \in GpuThreads, j \in JobNos, n \in 0 .. Slice - 1 : x = InputOf(t, j, n)

NonceInvariant == InSlice /\ InputsInSlices

-----------------------------------------------------------------------------
\* The constants, one by one.
LEMMA Sizes ==
  /\ iThreadCount \in Nat \ {0} /\ Byte \in Nat \ {0} /\ Slice \in Nat \ {0}
  /\ Byte * Slice \in Nat \ {0} /\ Slice <= Byte * Slice
<1>1. iThreadCount \in Nat \ {0} /\ Byte \in Nat \ {0} /\ Slice \in Nat \ {0}
  BY SizeAssumption
<1>2. PICK d \in Nat : Byte = 1 + d
  <2>1. Byte - 1 \in Nat BY <1>1
  <2>. QED BY <1>1, <2>1, Byte = 1 + (Byte - 1)
<1>3. Byte * Slice = Slice + d * Slice /\ d * Slice \in Nat BY <1>1, <1>2
<1>. QED BY <1>1, <1>3

\* Thread and resume count make the number of a slice, and it is one of Byte slices.
LEMMA SliceNumbers ==
  ASSUME NEW t \in GpuThreads, NEW j \in JobNos
  PROVE  SliceNo(t, j) \in 0 .. Byte - 1
<1>1. CASE j = FirstJob BY <1>1, Sizes DEF SliceNo
<1>2. CASE j # FirstJob
  <2>. DEFINE r == Jobs[j].resume
              q == r + 1
  <2>1. r \in Nat /\ q \in Nat /\ q * iThreadCount <= Byte /\ r \in 0 .. q - 1
    BY <1>2, JobAssumption DEF ResumedJobs, JobNos, FirstJob
  <2>2. iThreadCount \in Nat \ {0} /\ t \in 0 .. iThreadCount - 1 BY Sizes DEF GpuThreads
  <2>. HIDE DEF r, q
  <2>3. r * iThreadCount + t \in 0 .. q * iThreadCount - 1 BY <2>1, <2>2, Below
  <2>4. q * iThreadCount \in Nat /\ Byte \in Nat BY <2>1, <2>2, Sizes
  <2>5. r * iThreadCount + t \in 0 .. Byte - 1
    <3>. DEFINE s == r * iThreadCount + t
                p == q * iThreadCount
    <3>. HIDE DEF s, p
    <3>1. s \in 0 .. p - 1 /\ p \in Nat /\ p <= Byte BY <2>1, <2>3, <2>4 DEF s, p
    <3>2. s \in 0 .. Byte - 1 BY <2>4, <3>1
    <3>. QED BY <3>2 DEF s
  <2>. QED BY <1>2, <2>5 DEF SliceNo, r
<1>. QED BY <1>1, <1>2

\* No two threads, and no thread twice, have the same slice of a blob after the first job.
LEMMA OneSliceEach ==
  ASSUME NEW t \in GpuThreads, NEW u \in GpuThreads,
         NEW j \in ResumedJobs, NEW k \in ResumedJobs,
         Jobs[j].blob = Jobs[k].blob, SliceNo(t, j) = SliceNo(u, k)
  PROVE  t = u /\ j = k
<1>. DEFINE r == Jobs[j].resume
            s == Jobs[k].resume
<1>1. r \in Nat /\ s \in Nat BY JobAssumption
<1>2. r * iThreadCount + t = s * iThreadCount + u
  BY DEF SliceNo, ResumedJobs, FirstJob
<1>3. iThreadCount \in Nat \ {0} /\ t \in 0 .. iThreadCount - 1 /\ u \in 0 .. iThreadCount - 1
  BY Sizes DEF GpuThreads
<1>. HIDE DEF r, s
<1>4. r = s /\ t = u BY <1>1, <1>2, <1>3, OneQuotient
<1>. QED BY <1>4, JobAssumption DEF r, s

\* The shift of calc_start_nonce loses nothing.
LEMMA SliceStarts ==
  ASSUME NEW t \in GpuThreads, NEW j \in ResumedJobs, j \in JobNos
  PROVE  SliceStart(Jobs[j].resume, t) = SliceNo(t, j) * Slice
<1>. DEFINE s == SliceNo(t, j)
            M == Byte * Slice
            x == s * Slice
<1>1. SliceStart(Jobs[j].resume, t) = x % M
  BY DEF SliceStart, SliceNo, ResumedJobs, FirstJob
<1>2. s \in 0 .. Byte - 1 BY SliceNumbers
<1>3. Byte \in Nat /\ Slice \in Nat \ {0} /\ 0 \in 0 .. Slice - 1 /\ M \in Nat \ {0} BY Sizes
<1>4. x + 0 \in 0 .. M - 1
  <2>. HIDE DEF s
  <2>. QED BY <1>2, <1>3, Below
<1>. HIDE DEF x, M
<1>5. x \in 0 .. M - 1
  <2>1. x \in Int
    <3>. HIDE DEF s
    <3>. QED BY <1>2, <1>3 DEF x
  <2>. QED BY <1>4, <2>1
<1>6. x % M = x BY <1>3, <1>5, OneDigit
<1>. QED BY <1>1, <1>6 DEF x

\* A thread that has hashed less than its slice: the nonce is as it is, the byte behind 0.
LEMMA InputInSlice ==
  ASSUME NEW t \in GpuThreads, iJobNo[t] \in JobNos, NEW n \in 0 .. Slice - 1
  PROVE  Input(t, n, SliceNo(t, iJobNo[t]) * Slice + n) = InputOf(t, iJobNo[t], n)
<1>. DEFINE s == SliceNo(t, iJobNo[t])
            M == Byte * Slice
            x == s * Slice + n
            p == x \div M
            a == x % M
<1>1. s \in 0 .. Byte - 1 BY SliceNumbers
<1>2. Byte \in Nat \ {0} /\ Slice \in Nat \ {0} /\ M \in Nat \ {0} BY Sizes
<1>3. x \in 0 .. M - 1
  <2>. HIDE DEF s
  <2>. QED BY <1>1, <1>2, Below
<1>. HIDE DEF x, M
<1>4. p = 0 /\ a = x BY <1>2, <1>3, OneDigit
<1>. HIDE DEF p, a
<1>5. p % Byte = 0 BY <1>2, <1>4
<1>6. Input(t, n, x) = [thread |-> t, job |-> iJobNo[t], nth |-> n,
                        blob |-> Jobs[iJobNo[t]].blob, nonce |-> a, behind |-> p % Byte]
  BY DEF Input, a, p, M
<1>7. Input(t, n, x) = InputOf(t, iJobNo[t], n) BY <1>4, <1>5, <1>6 DEF InputOf, x
<1>. QED BY <1>7 DEF x

-----------------------------------------------------------------------------
LEMMA InitialNonces == InitNonces => NonceInvariant
<1>. SUFFICES ASSUME InitNonces PROVE NonceInvariant OBVIOUS
<1>1. FirstJob \in JobNos BY JobAssumption DEF FirstJob, JobNos
<1>2. InSlice
  <2>1. \A t \in GpuThreads : SliceNo(t, iJobNo[t]) = 0 BY DEF InitNonces, SliceNo
  <2>2. 0 * Slice + 0 = 0 BY Sizes
  <2>. QED BY <1>1, <2>1, <2>2 DEF InitNonces, InSlice
<1>3. InputsInSlices BY DEF InitNonces, InputsInSlices
<1>. QED BY <1>2, <1>3 DEF NonceInvariant

\* A batch stays in the slice, since none is begun after an hour.
LEMMA BatchStaysInSlice ==
  ASSUME NonceInvariant, NEW t \in GpuThreads, HashBatch(t)
  PROVE  NonceInvariant'
<1>. DEFINE s == SliceNo(t, iJobNo[t]) * Slice
<1>1. /\ iJobNo[t] \in JobNos /\ done[t] \in Nat /\ Nonce[t] = s + done[t]
      /\ rawIntensity[t] \in Nat \ {0} /\ Nonce \in [GpuThreads -> Nat]
  BY SizeAssumption DEF NonceInvariant, InSlice
<1>2. s \in Nat
  <2>1. SliceNo(t, iJobNo[t]) \in 0 .. Byte - 1 BY <1>1, SliceNumbers
  <2>2. SliceNo(t, iJobNo[t]) \in Nat BY <2>1, Sizes
  <2>. QED BY <2>2, Sizes
<1>3. InSlice'
  <2>1. iJobNo' = iJobNo BY DEF HashBatch
  <2>2. done' \in [GpuThreads -> Nat] /\ Nonce' \in [GpuThreads -> Nat]
    BY <1>1 DEF HashBatch, NonceInvariant, InSlice
  <2>3. ASSUME NEW u \in GpuThreads
        PROVE  Nonce'[u] = SliceNo(u, iJobNo[u]) * Slice + done'[u]
    <3>1. CASE u = t
      <4>1. Nonce'[u] = Nonce[t] + rawIntensity[t] /\ done'[u] = done[t] + rawIntensity[t]
        BY <3>1 DEF HashBatch, NonceInvariant, InSlice
      <4>. HIDE DEF s
      <4>2. Nonce'[u] = s + done'[u] BY <1>1, <1>2, <4>1
      <4>. QED BY <3>1, <4>2 DEF s
    <3>2. CASE u # t
      <4>1. Nonce'[u] = Nonce[u] /\ done'[u] = done[u]
        BY <3>2 DEF HashBatch, NonceInvariant, InSlice
      <4>. QED BY <4>1 DEF NonceInvariant, InSlice
    <3>. QED BY <3>1, <3>2
  <2>. QED BY <2>1, <2>2, <2>3 DEF NonceInvariant, InSlice
<1>4. InputsInSlices'
  <2>1. ASSUME NEW i \in 0 .. rawIntensity[t] - 1
        PROVE  \E n \in 0 .. Slice - 1 :
                 Input(t, done[t] + i, Nonce[t] + i) = InputOf(t, iJobNo[t], n)
    <3>. DEFINE n == done[t] + i
    <3>1. n \in 0 .. Slice - 1
      <4>1. done[t] < HourOfWork /\ HourOfWork \in Nat /\ HourOfWork + rawIntensity[t] - 1 <= Slice
        BY HourAssumption DEF HashBatch
      <4>2. Slice \in Nat BY Sizes
      <4>. QED BY <1>1, <2>1, <4>1, <4>2
    <3>2. Nonce[t] + i = s + n
      <4>. HIDE DEF s
      <4>. QED BY <1>1, <1>2, <2>1
    <3>. HIDE DEF n
    <3>3. Input(t, n, s + n) = InputOf(t, iJobNo[t], n) BY <1>1, <3>1, InputInSlice
    <3>. QED BY <3>1, <3>2, <3>3 DEF n
  <2>2. SUFFICES ASSUME NEW x \in inputs'
                 PROVE  \E u \in GpuThreads, j \in JobNos, n \in 0 .. Slice - 1 : x = InputOf(u, j, n)
    BY DEF InputsInSlices
  <2>3. CASE x \in inputs BY <2>3 DEF NonceInvariant, InputsInSlices
  <2>4. CASE x \in {Input(t, done[t] + i, Nonce[t] + i) : i \in 0 .. rawIntensity[t] - 1}
    <3>1. PICK i \in 0 .. rawIntensity[t] - 1 : x = Input(t, done[t] + i, Nonce[t] + i) BY <2>4
    <3>2. PICK n \in 0 .. Slice - 1 : x = InputOf(t, iJobNo[t], n) BY <2>1, <3>1
    <3>. QED BY <1>1, <3>2
  <2>. QED BY <2>2, <2>3, <2>4 DEF HashBatch
<1>. QED BY <1>3, <1>4 DEF NonceInvariant

\* A job that is taken begins at the start of its slice.
LEMMA JobStartsItsSlice ==
  ASSUME NonceInvariant, NEW t \in GpuThreads, TakeJob(t)
  PROVE  NonceInvariant'
<1>. DEFINE j == iJobNo[t] + 1
<1>1. iJobNo[t] \in JobNos BY DEF NonceInvariant, InSlice
<1>2. j \in JobNos /\ j \in ResumedJobs
  <2>1. Len(Jobs) \in Nat BY JobAssumption
  <2>. QED BY <1>1, <2>1 DEF TakeJob, JobNos, ResumedJobs
<1>3. Nonce'[t] = SliceNo(t, j) * Slice /\ done'[t] = 0 /\ iJobNo'[t] = j
  <2>1. Nonce'[t] = SliceStart(Jobs[j].resume, t) /\ done'[t] = 0 /\ iJobNo'[t] = j
    BY DEF TakeJob, NonceInvariant, InSlice
  <2>. HIDE DEF j
  <2>2. SliceStart(Jobs[j].resume, t) = SliceNo(t, j) * Slice BY <1>2, SliceStarts
  <2>. QED BY <2>1, <2>2
<1>4. SliceNo(t, j) * Slice \in Nat
  <2>1. SliceNo(t, j) \in 0 .. Byte - 1 BY <1>2, SliceNumbers
  <2>2. SliceNo(t, j) \in Nat BY <2>1, Sizes
  <2>. QED BY <2>2, Sizes
<1>5. InSlice'
  <2>1. /\ iJobNo' \in [GpuThreads -> JobNos] /\ done' \in [GpuThreads -> Nat]
        /\ Nonce' \in [GpuThreads -> Nat]
    <3>1. Nonce' = [Nonce EXCEPT ![t] = SliceNo(t, j) * Slice]
      BY <1>3 DEF TakeJob, NonceInvariant, InSlice
    <3>. QED BY <1>2, <1>4, <3>1 DEF TakeJob, NonceInvariant, InSlice
  <2>2. ASSUME NEW u \in GpuThreads
        PROVE  Nonce'[u] = SliceNo(u, iJobNo'[u]) * Slice + done'[u]
    <3>1. CASE u = t
      <4>. DEFINE s == SliceNo(t, j) * Slice
      <4>1. s \in Nat BY <1>4
      <4>2. Nonce'[u] = s /\ done'[u] = 0 /\ s = SliceNo(u, iJobNo'[u]) * Slice BY <1>3, <3>1
      <4>. HIDE DEF s
      <4>3. Nonce'[u] = s + done'[u] BY <4>1, <4>2
      <4>. QED BY <4>2, <4>3
    <3>2. CASE u # t
      <4>1. Nonce'[u] = Nonce[u] /\ done'[u] = done[u] /\ iJobNo'[u] = iJobNo[u]
        BY <3>2 DEF TakeJob, NonceInvariant, InSlice
      <4>. QED BY <4>1 DEF NonceInvariant, InSlice
    <3>. QED BY <3>1, <3>2
  <2>. QED BY <2>1, <2>2 DEF InSlice
<1>6. InputsInSlices' BY DEF TakeJob, NonceInvariant, InputsInSlices
<1>. QED BY <1>5, <1>6 DEF NonceInvariant

LEMMA NonceInvariantHolds == SpecNonces => []NonceInvariant
<1>1. NonceInvariant /\ [NextNonces]_nonceVars => NonceInvariant'
  <2>. SUFFICES ASSUME NonceInvariant, [NextNonces]_nonceVars PROVE NonceInvariant' OBVIOUS
  <2>1. CASE UNCHANGED nonceVars
    BY <2>1 DEF nonceVars, NonceInvariant, InSlice, InputsInSlices
  <2>2. ASSUME NEW t \in GpuThreads, HashBatch(t) PROVE NonceInvariant'
    BY <2>2, BatchStaysInSlice
  <2>3. ASSUME NEW t \in GpuThreads, TakeJob(t) PROVE NonceInvariant'
    BY <2>3, JobStartsItsSlice
  <2>. QED BY <2>1, <2>2, <2>3 DEF NextNonces
<1>. QED BY <1>1, InitialNonces, PTL DEF SpecNonces

-----------------------------------------------------------------------------
\* No nonce of a blob is hashed twice, for up to 256 slices and an hour in each
\* (minethd.h:101-106).
THEOREM EachNonceOnce == SpecNonces => []NonceIsHashedOnce
<1>1. NonceInvariant => NonceIsHashedOnce
  <2>. SUFFICES ASSUME NonceInvariant, NEW x \in inputs, NEW y \in inputs,
                       {x.job, y.job} \subseteq ResumedJobs, x.blob = y.blob, x.nonce = y.nonce
                PROVE  x = y
    BY DEF NonceIsHashedOnce
  <2>1. PICK t \in GpuThreads, j \in JobNos, n \in 0 .. Slice - 1 : x = InputOf(t, j, n)
    BY DEF NonceInvariant, InputsInSlices
  <2>2. PICK u \in GpuThreads, k \in JobNos, m \in 0 .. Slice - 1 : y = InputOf(u, k, m)
    BY DEF NonceInvariant, InputsInSlices
  <2>3. /\ x.job = j /\ x.blob = Jobs[j].blob /\ x.nonce = SliceNo(t, j) * Slice + n
        /\ y.job = k /\ y.blob = Jobs[k].blob /\ y.nonce = SliceNo(u, k) * Slice + m
    BY <2>1, <2>2 DEF InputOf
  <2>. DEFINE p == SliceNo(t, j)
              q == SliceNo(u, k)
  <2>4. p \in Nat /\ q \in Nat
    <3>1. p \in 0 .. Byte - 1 /\ q \in 0 .. Byte - 1 BY SliceNumbers
    <3>. QED BY <3>1, Sizes
  <2>5. p * Slice + n = q * Slice + m BY <2>3
  <2>. HIDE DEF p, q
  <2>6. p = q /\ n = m BY <2>4, <2>5, Sizes, OneQuotient
  <2>7. j \in ResumedJobs /\ k \in ResumedJobs /\ Jobs[j].blob = Jobs[k].blob BY <2>3
  <2>8. t = u /\ j = k BY <2>6, <2>7, OneSliceEach DEF p, q
  <2>. QED BY <2>1, <2>2, <2>6, <2>8
<1>. QED BY <1>1, NonceInvariantHolds, PTL

\* The byte behind the nonce is never written to.
THEOREM NothingSpills == SpecNonces => []OnlyTheNonceChanges
<1>1. NonceInvariant => OnlyTheNonceChanges
  BY DEF NonceInvariant, InputsInSlices, InputOf, OnlyTheNonceChanges
<1>. QED BY <1>1, NonceInvariantHolds, PTL

-----------------------------------------------------------------------------
\* Places in a ring.

\* Equal remainders are of numbers a multiple apart.
LEMMA SameRemainder ==
  ASSUME NEW m \in Nat \ {0}, NEW x \in Int, NEW y \in Int, x % m = y % m
  PROVE  ~(x < y /\ y < x + m)
<1>. SUFFICES ASSUME x < y, y < x + m PROVE FALSE
  OBVIOUS
<1>. DEFINE p == x \div m
            q == y \div m
            a == x % m
<1>1. p \in Int /\ q \in Int /\ a \in Int /\ x = p * m + a /\ y = q * m + a
  BY SMT
<1>. HIDE DEF p, q, a
<1>2. p * m < q * m /\ q * m < p * m + m /\ p * m \in Int /\ q * m \in Int
  BY <1>1
<1>3. CASE p < q
  <2>1. PICK d \in Nat : q = p + 1 + d
    <3>1. q - p - 1 \in Nat /\ q = p + 1 + (q - p - 1)
      BY <1>1, <1>3
    <3>. QED  BY <3>1
  <2>2. q * m = p * m + m + d * m
    BY <1>1, <2>1
  <2>3. d * m \in Nat
    OBVIOUS
  <2>. QED  BY <1>2, <2>2, <2>3
<1>4. CASE q <= p
  <2>1. PICK d \in Nat : p = q + d
    <3>1. p - q \in Nat /\ p = q + (p - q)
      BY <1>1, <1>4
    <3>. QED  BY <3>1
  <2>2. p * m = q * m + d * m
    BY <1>1, <2>1
  <2>3. d * m \in Nat
    OBVIOUS
  <2>. QED  BY <1>2, <2>2, <2>3
<1>. QED  BY <1>1, <1>3, <1>4

LEMMA OneRemainder ==
  ASSUME NEW m \in Nat \ {0}, NEW x \in Int, NEW q \in Int, NEW a \in 0 .. m - 1, x = q * m + a
  PROVE  x % m = a
<1>. DEFINE p == x \div m
            b == x % m
<1>1. p \in Int /\ b \in 0 .. m - 1 /\ x = p * m + b
  BY SMT
<1>. HIDE DEF p, b
<1>2. ASSUME NEW i \in Int, NEW j \in Int, i < j PROVE i * m + m <= j * m
  <2>1. PICK d \in Nat : j = i + 1 + d
    <3>1. j - i - 1 \in Nat /\ j = i + 1 + (j - i - 1)
      BY <1>2
    <3>. QED  BY <3>1
  <2>2. j * m = i * m + m + d * m
    BY <2>1
  <2>3. d * m \in Nat
    OBVIOUS
  <2>. QED  BY <2>2, <2>3
<1>3. p * m \in Int /\ q * m \in Int
  BY <1>1
<1>4. ~(p < q)
  <2>. SUFFICES ASSUME p < q PROVE FALSE
    OBVIOUS
  <2>1. p * m + m <= q * m
    BY <1>1, <1>2
  <2>. QED  BY <1>1, <1>3, <2>1
<1>5. ~(q < p)
  <2>. SUFFICES ASSUME q < p PROVE FALSE
    OBVIOUS
  <2>1. q * m + m <= p * m
    BY <1>1, <1>2
  <2>. QED  BY <1>1, <1>3, <2>1
<1>6. p = q
  BY <1>1, <1>4, <1>5
<1>7. b = a
  BY <1>1, <1>3, <1>6
<1>. QED  BY <1>7 DEF b

LEMMA RemainderOfSum ==
  ASSUME NEW m \in Nat \ {0}, NEW x \in Int, NEW c \in Int
  PROVE  ((x % m) + c) % m = (x + c) % m
<1>. DEFINE q == x \div m
            y == (x % m) + c
            p == y \div m
            a == y % m
<1>1. q \in Int /\ y \in Int /\ x + c = q * m + y
  BY SMT
<1>. HIDE DEF q, y
<1>2. p \in Int /\ a \in 0 .. m - 1 /\ y = p * m + a
  BY <1>1, SMT
<1>. HIDE DEF p, a
<1>3. x + c = (q + p) * m + a /\ q + p \in Int /\ x + c \in Int
  BY <1>1, <1>2
<1>4. (x + c) % m = a
  BY <1>2, <1>3, OneRemainder
<1>. QED  BY <1>4 DEF a, y

-----------------------------------------------------------------------------
\* The ring of the telemetry holds the latest samples, each in its place.

Samples == [count : Nat, at : Nat]

Place(j) == (j - 1) % iBucketSize

TelemetryTypes ==
  /\ row \in {"first", "other"} /\ source \in {"clock", "busy"}
  /\ ppHashCounts \in [Ring -> Nat] /\ ppTimestamps \in [Ring -> Nat]
  /\ now \in Nat /\ Epoch <= now
  /\ iHashCount \in Nat /\ iTimestamp \in Nat /\ iTimestamp <= now - Epoch
  /\ samples \in Seq(Samples)
  /\ iBucketTop = Len(samples) % iBucketSize

LatestAreStored ==
  \A j \in 1 .. Len(samples) : Len(samples) < j + iBucketSize =>
     /\ ppHashCounts[Place(j)] = samples[j].count
     /\ source = "clock" => ppTimestamps[Place(j)] = samples[j].at

RestIsClear == row = "first" => \A b \in Ring : Len(samples) <= b => ppTimestamps[b] = 0

StampsAreOfTheClock ==
  source = "clock" =>
    /\ \A j \in 1 .. Len(samples) : Epoch <= samples[j].at /\ samples[j].at <= now
    /\ \A j, h \in 1 .. Len(samples) : j <= h => samples[j].at <= samples[h].at

RingInvariant ==
  TelemetryTypes /\ LatestAreStored /\ RestIsClear /\ StampsAreOfTheClock

LEMMA StampsAreNumbers ==
  TelemetryTypes => /\ Len(samples) \in Nat
                    /\ \A j \in 1 .. Len(samples) : samples[j].at \in Nat
<1>. SUFFICES ASSUME TelemetryTypes
              PROVE  /\ Len(samples) \in Nat
                     /\ \A j \in 1 .. Len(samples) : samples[j].at \in Nat
  OBVIOUS
<1>1. samples \in Seq(Samples)
  BY DEF TelemetryTypes
<1>2. \A j \in 1 .. Len(samples) : samples[j] \in Samples
  BY <1>1
<1>. QED  BY <1>1, <1>2 DEF Samples

LEMMA InitialRing == InitTelemetry => RingInvariant
<1>. SUFFICES ASSUME InitTelemetry PROVE RingInvariant
  OBVIOUS
<1>1. Len(samples) = 0 /\ samples \in Seq(Samples)
  BY DEF InitTelemetry
<1>2. 0 % iBucketSize = 0
  BY RingAssumption
<1>3. /\ ppHashCounts \in [Ring -> Nat] /\ ppTimestamps \in [Ring -> Nat]
      /\ row = "first" => \A b \in Ring : ppTimestamps[b] = 0
  <2>1. PICK memory \in IF row = "first" THEN {Cleared} ELSE Junk :
          /\ ppHashCounts = [b \in Ring |-> memory[b].count]
          /\ ppTimestamps = [b \in Ring |-> memory[b].stamp]
    BY DEF InitTelemetry
  <2>2. memory \in [Ring -> [count : Nat, stamp : Nat]]
    BY <2>1, JunkAssumption DEF Cleared, Ring
  <2>3. row = "first" => \A b \in Ring : memory[b].stamp = 0
    BY <2>1 DEF Cleared
  <2>. QED  BY <2>1, <2>2, <2>3
<1>4. TelemetryTypes
  BY <1>1, <1>2, <1>3, ClockAssumption DEF InitTelemetry, TelemetryTypes
<1>5. RestIsClear
  BY <1>3 DEF RestIsClear
<1>. QED  BY <1>1, <1>4, <1>5
          DEF RingInvariant, LatestAreStored, StampsAreOfTheClock

LEMMA MiningKeepsRing == RingInvariant /\ Mine => RingInvariant'
<1>. SUFFICES ASSUME RingInvariant, Mine PROVE RingInvariant'
  OBVIOUS
<1>1. PICK t \in Steps, h \in Hashes, b \in Busy :
        /\ now' = now + t /\ iHashCount' = iHashCount + h /\ iTimestamp' = iTimestamp + b
        /\ iTimestamp' <= now' - Epoch
  BY DEF Mine
<1>2. t \in Nat /\ h \in Nat /\ b \in Nat /\ Epoch \in Nat
  BY ClockAssumption
<1>3. UNCHANGED <<row, source, ppHashCounts, ppTimestamps, iBucketTop, samples>>
  BY DEF Mine
<1>4. TelemetryTypes'
  BY <1>1, <1>2, <1>3 DEF RingInvariant, TelemetryTypes
<1>5. LatestAreStored' /\ RestIsClear'
  BY <1>3 DEF RingInvariant, LatestAreStored, RestIsClear, Place, Ring
<1>6. \A j \in 1 .. Len(samples) : samples[j].at \in Nat
  BY StampsAreNumbers DEF RingInvariant
<1>7. StampsAreOfTheClock'
  BY <1>1, <1>2, <1>3, <1>6 DEF RingInvariant, TelemetryTypes, StampsAreOfTheClock
<1>. QED  BY <1>4, <1>5, <1>7 DEF RingInvariant

LEMMA PushingKeepsRing == RingInvariant /\ PerfTick => RingInvariant'
<1>. SUFFICES ASSUME RingInvariant, PerfTick PROVE RingInvariant'
  OBVIOUS
<1>. DEFINE L == Len(samples)
            B == iBucketSize
            stamp == IF source = "clock" THEN now ELSE iTimestamp
<1>1. /\ ppHashCounts' = [ppHashCounts EXCEPT ![iBucketTop] = iHashCount]
      /\ ppTimestamps' = [ppTimestamps EXCEPT ![iBucketTop] = stamp]
      /\ iBucketTop' = (iBucketTop + 1) % B
      /\ samples' = Append(samples, [count |-> iHashCount, at |-> now])
      /\ UNCHANGED <<row, source, now, iHashCount, iTimestamp>>
  BY DEF PerfTick, PushPerfValue
<1>2. TelemetryTypes
  BY DEF RingInvariant
<1>3. L \in Nat /\ B \in Nat \ {0} /\ stamp \in Nat /\ Epoch \in Nat /\ L \in Int /\ 1 \in Int
  BY <1>2, RingAssumption, ClockAssumption DEF TelemetryTypes
<1>4. /\ samples' \in Seq(Samples) /\ Len(samples') = L + 1
      /\ \A j \in 1 .. L : samples'[j] = samples[j]
      /\ samples'[L + 1].count = iHashCount /\ samples'[L + 1].at = now
  <2>1. [count |-> iHashCount, at |-> now] \in Samples
    BY <1>2, <1>3 DEF TelemetryTypes, Samples
  <2>. HIDE DEF stamp
  <2>. QED  BY <1>1, <1>2, <2>1 DEF TelemetryTypes
<1>5. iBucketTop = L % B /\ iBucketTop \in Ring /\ iBucketTop' = (L + 1) % B
  <2>1. iBucketTop = L % B
    BY <1>2 DEF TelemetryTypes
  <2>2. L % B \in 0 .. B - 1
    BY <1>3
  <2>3. ((L % B) + 1) % B = (L + 1) % B
    BY <1>3, RemainderOfSum
  <2>. QED  BY <1>1, <2>1, <2>2, <2>3 DEF Ring
<1>6. TelemetryTypes'
  BY <1>1, <1>2, <1>3, <1>4, <1>5 DEF TelemetryTypes
<1>7. Place(L + 1) = iBucketTop
  BY <1>3, <1>5 DEF Place
<1>8. LatestAreStored'
  <2>. SUFFICES ASSUME NEW j \in 1 .. L + 1, L + 1 < j + B
                PROVE  /\ ppHashCounts'[Place(j)] = samples'[j].count
                       /\ source = "clock" => ppTimestamps'[Place(j)] = samples'[j].at
    BY <1>1, <1>4 DEF LatestAreStored, Place
  <2>1. CASE j = L + 1
    BY <1>1, <1>2, <1>4, <1>5, <1>7, <2>1 DEF TelemetryTypes
  <2>2. CASE j # L + 1
    <3>1. j \in 1 .. L /\ L < j + B /\ j - 1 \in Int /\ j - 1 < L /\ L < j - 1 + B
      BY <1>3, <2>2
    <3>2. Place(j) # iBucketTop
      <4>. HIDE DEF L, B
      <4>. QED  BY <1>3, <1>5, <3>1, SameRemainder DEF Place, B
    <3>3. Place(j) \in Ring
      BY <1>3, <3>1 DEF Place, Ring
    <3>4. /\ ppHashCounts[Place(j)] = samples[j].count
          /\ source = "clock" => ppTimestamps[Place(j)] = samples[j].at
      BY <3>1 DEF RingInvariant, LatestAreStored
    <3>. QED  BY <1>1, <1>2, <1>4, <3>1, <3>2, <3>3, <3>4 DEF TelemetryTypes
  <2>. QED  BY <2>1, <2>2
<1>9. RestIsClear'
  <2>. SUFFICES ASSUME row = "first", NEW b \in Ring, L + 1 <= b PROVE ppTimestamps'[b] = 0
    BY <1>1, <1>4 DEF RestIsClear, Ring
  <2>1. L \in 0 .. B - 1 /\ L <= b /\ L = 0 * B + L /\ 0 \in Int
    BY <1>3 DEF Ring
  <2>2. iBucketTop = L
    BY <1>3, <1>5, <2>1, OneDigit
  <2>3. ppTimestamps[b] = 0
    BY <2>1 DEF RingInvariant, RestIsClear
  <2>. QED  BY <1>1, <1>2, <1>3, <2>2, <2>3 DEF TelemetryTypes
<1>10. \A j \in 1 .. L : samples[j].at \in Nat
  BY <1>2, StampsAreNumbers
<1>11. StampsAreOfTheClock'
  <2>. SUFFICES ASSUME source = "clock" PROVE StampsAreOfTheClock'
    BY <1>1 DEF StampsAreOfTheClock
  <2>1. Epoch <= now
    BY <1>2 DEF TelemetryTypes
  <2>2. /\ \A j \in 1 .. L : Epoch <= samples[j].at /\ samples[j].at <= now
        /\ \A j, h \in 1 .. L : j <= h => samples[j].at <= samples[h].at
    BY DEF RingInvariant, StampsAreOfTheClock
  <2>3. now' = now /\ now \in Nat
    BY <1>1, <1>2 DEF TelemetryTypes
  <2>4. \A j \in 1 .. L + 1 : samples'[j].at = IF j = L + 1 THEN now ELSE samples[j].at
    BY <1>3, <1>4, <2>1
  <2>. HIDE DEF L, stamp
  <2>5. \A j \in 1 .. L + 1 : Epoch <= samples'[j].at /\ samples'[j].at <= now'
    BY <1>3, <1>10, <2>1, <2>2, <2>3, <2>4
  <2>6. \A j, h \in 1 .. L + 1 : j <= h => samples'[j].at <= samples'[h].at
    BY <1>3, <1>10, <2>1, <2>2, <2>3, <2>4
  <2>. QED  BY <1>4, <2>5, <2>6 DEF StampsAreOfTheClock
<1>. QED  BY <1>6, <1>8, <1>9, <1>11 DEF RingInvariant

LEMMA RingInvariantHolds == SpecTelemetry => []RingInvariant
<1>1. RingInvariant /\ [NextTelemetry]_telemetryVars => RingInvariant'
  <2>. SUFFICES ASSUME RingInvariant, NextTelemetry \/ UNCHANGED telemetryVars
                PROVE  RingInvariant'
    OBVIOUS
  <2>1. CASE UNCHANGED telemetryVars
    BY <2>1 DEF telemetryVars, RingInvariant, TelemetryTypes, LatestAreStored, RestIsClear,
                StampsAreOfTheClock, Place, Ring
  <2>. QED  BY <2>1, MiningKeepsRing, PushingKeepsRing DEF NextTelemetry
<1>. QED  BY <1>1, InitialRing, PTL DEF SpecTelemetry

-----------------------------------------------------------------------------
\* What is read from the ring, from the latest sample backwards.

Back(i) == (iBucketTop - i) % iBucketSize

Ends(i, period) == ppTimestamps[Back(i)] = 0 \/ TooOld(ppTimestamps[Back(i)], period)

LEMMA MinIs ==
  ASSUME NEW S, NEW x \in S, S \subseteq Int, \A y \in S : x <= y
  PROVE  Min(S) = x
<1>1. \A z \in S : (\A y \in S : z <= y) => z = x
  <2>. TAKE z \in S
  <2>. HAVE \A y \in S : z <= y
  <2>1. z <= x /\ x <= z /\ x \in Int /\ z \in Int
    OBVIOUS
  <2>. QED  BY <2>1
<1>. QED  BY <1>1 DEF Min

\* The bucket the loop stops at decides what is returned.
LEMMA WhereTheLoopStops ==
  ASSUME NEW period, NEW stop \in 1 .. iBucketSize,
         \A i \in 1 .. stop - 1 : ~Ends(i, period),
         stop < iBucketSize => Ends(stop, period)
  PROVE  CalcTelemetryData(period) =
           IF ~(stop < iBucketSize /\ ppTimestamps[Back(stop)] # 0) \/ stop = 1 THEN NaN
           ELSE OrNaN(ppHashCounts[Back(1)] - ppHashCounts[Back(stop - 1)],
                      ppTimestamps[Back(1)] - ppTimestamps[Back(stop - 1)])
<1>. DEFINE Stops == {iBucketSize} \union {i \in 1 .. iBucketSize - 1 : Ends(i, period)}
<1>1. iBucketSize \in Nat \ {0} /\ stop \in Int
  BY RingAssumption
<1>2. stop \in Stops
  BY <1>1
<1>3. Stops \subseteq Int
  BY <1>1
<1>4. ASSUME NEW y \in Stops PROVE stop <= y
  <2>1. CASE y = iBucketSize
    BY <1>1, <2>1
  <2>2. CASE y \in 1 .. iBucketSize - 1 /\ Ends(y, period)
    <3>1. ~(y \in 1 .. stop - 1)
      BY <2>2
    <3>. QED  BY <1>1, <2>2, <3>1
  <2>. QED  BY <2>1, <2>2
<1>. HIDE DEF Stops
<1>5. Min(Stops) = stop
  BY <1>2, <1>3, <1>4, MinIs
<1>. QED  BY <1>5 DEF CalcTelemetryData, Stops, Ends, Back

\* The i-th bucket back has the i-th sample from the end, as long as there is one, and the one
\* before the first sample is clear if the row was cleared.
LEMMA SampleBack ==
  ASSUME RingInvariant, NEW i \in 1 .. iBucketSize - 1, i <= Len(samples)
  PROVE  /\ ppHashCounts[Back(i)] = samples[Len(samples) + 1 - i].count
         /\ source = "clock" => ppTimestamps[Back(i)] = samples[Len(samples) + 1 - i].at
<1>. DEFINE L == Len(samples)
            j == L + 1 - i
<1>1. L \in Nat /\ iBucketSize \in Nat \ {0} /\ iBucketTop = L % iBucketSize
  BY StampsAreNumbers, RingAssumption DEF RingInvariant, TelemetryTypes
<1>2. i \in Int /\ L \in Int /\ -i \in Int
  BY <1>1
<1>3. ((L % iBucketSize) + (-i)) % iBucketSize = (L + (-i)) % iBucketSize
  BY <1>1, <1>2, RemainderOfSum
<1>4. L % iBucketSize \in Int
  BY <1>1
<1>5. (L % iBucketSize) + (-i) = iBucketTop - i /\ L + (-i) = j - 1
  BY <1>1, <1>2, <1>4
<1>6. Back(i) = Place(j)
  BY <1>3, <1>5 DEF Back, Place
<1>7. j \in 1 .. L /\ L < j + iBucketSize
  BY <1>1
<1>. QED  BY <1>6, <1>7 DEF RingInvariant, LatestAreStored

LEMMA ClearBack ==
  ASSUME RingInvariant, row = "first", Len(samples) + 1 \in 1 .. iBucketSize - 1
  PROVE  ppTimestamps[Back(Len(samples) + 1)] = 0
<1>. DEFINE L == Len(samples)
            B == iBucketSize
<1>1. L \in Nat /\ B \in Nat \ {0} /\ iBucketTop = L % B
  BY StampsAreNumbers, RingAssumption DEF RingInvariant, TelemetryTypes
<1>2. L \in 0 .. B - 1 /\ L % B = L
  <2>1. L \in 0 .. B - 1
    BY <1>1
  <2>. HIDE DEF L, B
  <2>. QED  BY <1>1, <2>1, OneDigit
<1>3. iBucketTop - (L + 1) = -1
  BY <1>1, <1>2
<1>4. (-1) % B = B - 1
  <2>. DEFINE a == B - 1
              x == -1
  <2>1. a \in 0 .. B - 1 /\ x \in Int /\ x = x * B + a
    BY <1>1
  <2>. HIDE DEF a, x, B
  <2>2. x % B = a
    BY <1>1, <2>1, OneRemainder
  <2>. QED  BY <2>2 DEF a, x
<1>5. Back(L + 1) = B - 1
  BY <1>3, <1>4 DEF Back
<1>6. B - 1 \in Ring /\ L <= B - 1
  BY <1>1, <1>2 DEF Ring
<1>. QED  BY <1>5, <1>6 DEF RingInvariant, RestIsClear

\* The least of some numbers: 1 .. n are finite sets, and those are well-founded.
LEMMA LeastNumber ==
  ASSUME NEW T \in SUBSET Nat, T # {}
  PROVE  \E x \in T : \A y \in T : x <= y
<1>. DEFINE R == StrictSubsetOrdering(Nat)
            UpTo == {1 .. n : n \in T}
<1>1. IsWellFoundedOn(R, FiniteSubsetsOf(Nat))
  BY FS_StrictSubsetOrderingWellFounded
<1>2. UpTo # {} /\ UpTo \subseteq FiniteSubsetsOf(Nat)
  <2>1. \A n \in T : IsFiniteSet(1 .. n) /\ 1 .. n \subseteq Nat
    <3>. TAKE n \in T
    <3>. n \in Int OBVIOUS
    <3>. QED  BY FS_Interval
  <2>. QED  BY <2>1 DEF FiniteSubsetsOf
<1>3. \A x, y \in T : y < x => << 1 .. y, 1 .. x >> \in R
  <2>. TAKE x, y \in T
  <2>. HAVE y < x
  <2>1. x \in 1 .. x /\ x \notin 1 .. y /\ 1 .. y \subseteq 1 .. x /\ 1 .. x \subseteq Nat
    OBVIOUS
  <2>. QED  BY <2>1 DEF StrictSubsetOrdering
<1>. HIDE DEF R, UpTo
<1>4. PICK u \in UpTo : \A v \in UpTo : ~(<< v, u >> \in R)
  BY <1>1, <1>2, WFMin
<1>5. PICK x \in T : u = 1 .. x
  BY <1>4 DEF UpTo
<1>6. \A y \in T : ~(y < x)
  BY <1>3, <1>4, <1>5 DEF UpTo
<1>. QED  BY <1>6

\* The samples of a period are the latest ones, if time only goes on.
Recent(period) == {i \in DOMAIN samples : ~TooOld(samples[i].at, period)}

LEMMA RecentAreTheLatest ==
  ASSUME RingInvariant, source = "clock", NEW period \in Periods, Recent(period) # {}
  PROVE  \E m \in 1 .. Len(samples) : Recent(period) = m .. Len(samples)
<1>. DEFINE L == Len(samples)
            R == Recent(period)
<1>1. L \in Nat /\ DOMAIN samples = 1 .. L /\ \A j \in 1 .. L : samples[j].at \in Nat
  BY StampsAreNumbers DEF RingInvariant, TelemetryTypes
<1>2. now \in Nat /\ period \in Nat
  BY PeriodAssumption DEF RingInvariant, TelemetryTypes
<1>3. R = {i \in 1 .. L : ~TooOld(samples[i].at, period)}
  BY <1>1 DEF Recent
<1>4. R \in SUBSET Nat /\ R # {} /\ R \subseteq 1 .. L
  BY <1>3
<1>5. PICK m \in R : \A y \in R : m <= y
  <2>. HIDE DEF R
  <2>. QED  BY <1>4, LeastNumber
<1>6. ASSUME NEW j \in m .. L PROVE j \in R
  <2>1. m \in 1 .. L /\ j \in 1 .. L /\ m <= j /\ ~TooOld(samples[m].at, period)
    BY <1>1, <1>3, <1>5
  <2>2. samples[m].at <= samples[j].at /\ samples[j].at <= now
    BY <2>1 DEF RingInvariant, StampsAreOfTheClock
  <2>3. ~TooOld(samples[j].at, period)
    BY <1>1, <1>2, <2>1, <2>2 DEF TooOld
  <2>. QED  BY <1>3, <2>1, <2>3
<1>7. R \subseteq m .. L
  <2>. HIDE DEF R
  <2>. QED  BY <1>1, <1>4, <1>5
<1>. QED  BY <1>4, <1>5, <1>6, <1>7

\* However often the ring has wrapped around, the rate is the one asked for.
THEOREM RateIsOfThePeriod == SpecTelemetry => []RateOfThePeriod
<1>1. RingInvariant => RateOfThePeriod
  <2>. SUFFICES ASSUME RingInvariant, NEW period \in Periods, source = "clock",
                       \/ row = "first"
                       \/ Len(samples) >= iBucketSize - 1
                       \/ \E i \in DOMAIN samples : TooOld(samples[i].at, period)
                PROVE  CalcTelemetryData(period) = Rate(period)
    BY DEF RateOfThePeriod
  <2>. DEFINE L == Len(samples)
              B == iBucketSize
              R == Recent(period)
              c == Cardinality(R)
  <2>1. /\ L \in Nat /\ B \in Nat \ {0} /\ period \in Nat /\ Epoch \in Nat \ {0} /\ now \in Nat
        /\ DOMAIN samples = 1 .. L /\ \A j \in 1 .. L : samples[j].at \in Nat /\ samples[j].at # 0
    <3>1. L \in Nat /\ \A j \in 1 .. L : samples[j].at \in Nat
      BY StampsAreNumbers DEF RingInvariant
    <3>2. Epoch \in Nat \ {0} /\ B \in Nat \ {0} /\ period \in Nat
      BY RingAssumption, ClockAssumption, PeriodAssumption
    <3>3. \A j \in 1 .. L : Epoch <= samples[j].at
      BY DEF RingInvariant, StampsAreOfTheClock
    <3>4. DOMAIN samples = 1 .. L /\ now \in Nat
      BY DEF RingInvariant, TelemetryTypes
    <3>. QED  BY <3>1, <3>2, <3>3, <3>4
  <2>2. ASSUME NEW i \in 1 .. B - 1, i <= L
        PROVE  Ends(i, period) <=> L + 1 - i \notin R
    <3>1. L + 1 - i \in 1 .. L
      BY <2>1, <2>2
    <3>2. ppTimestamps[Back(i)] = samples[L + 1 - i].at
      BY <2>2, SampleBack
    <3>. QED  BY <2>1, <3>1, <3>2 DEF Ends, Recent
  <2>3. Rate(period) = IF R = {} \/ 1 \in R \/ c > B - 2 THEN NaN
                       ELSE OrNaN(samples[L].count - samples[Min(R)].count,
                                  samples[L].at - samples[Min(R)].at)
    BY DEF Rate, Recent
  \* Nothing recent: the loop stops at once.
  <2>4. CASE R = {}
    <3>1. 1 < B => Ends(1, period)
      <4>. SUFFICES ASSUME 1 < B PROVE Ends(1, period)
        OBVIOUS
      <4>1. CASE L = 0
        <5>1. row = "first" /\ L + 1 = 1 /\ L + 1 \in 1 .. B - 1
          BY <2>1, <4>1
        <5>. QED  BY <5>1, ClearBack DEF Ends
      <4>2. CASE L # 0
        <5>1. 1 \in 1 .. B - 1 /\ 1 <= L
          BY <2>1, <4>2
        <5>. QED  BY <2>2, <2>4, <5>1
      <4>. QED  BY <4>1, <4>2
    <3>2. 1 \in 1 .. B /\ \A i \in 1 .. 1 - 1 : ~Ends(i, period)
      BY <2>1
    <3>3. CalcTelemetryData(period) = NaN
      BY <3>1, <3>2, WhereTheLoopStops
    <3>. QED  BY <2>3, <2>4, <3>3
  <2>5. CASE R # {}
    <3>1. PICK m \in 1 .. L : R = m .. L
      BY <2>5, RecentAreTheLatest
    <3>2. c = L - m + 1 /\ c \in 1 .. L /\ (1 \in R <=> m = 1)
      <4>1. m \in Int /\ L \in Int /\ m <= L
        BY <2>1
      <4>2. Cardinality(m .. L) = IF m > L THEN 0 ELSE L - m + 1
        BY <4>1, FS_Interval
      <4>3. c = L - m + 1
        BY <3>1, <4>1, <4>2
      <4>. HIDE DEF c, R
      <4>. QED  BY <2>1, <3>1, <4>1, <4>3
    <3>3. Min(R) = m
      <4>1. m \in R /\ R \subseteq Int /\ \A y \in R : m <= y
        BY <2>1, <3>1
      <4>. HIDE DEF R
      <4>. QED  BY <4>1, MinIs
    <3>. HIDE DEF R, c
    <3>4. ASSUME NEW i \in 1 .. B - 1, i <= c PROVE ~Ends(i, period)
      BY <2>1, <2>2, <3>1, <3>2, <3>4, SMTT(30)
    \* The whole ring is recent: the loop never stops.
    <3>5. CASE c > B - 2
      <4>1. B \in 1 .. B /\ \A i \in 1 .. B - 1 : ~Ends(i, period)
        BY <2>1, <3>2, <3>4, <3>5
      <4>2. CalcTelemetryData(period) = NaN
        <5>. DEFINE stop == B
        <5>1. stop \in 1 .. iBucketSize /\ ~(stop < iBucketSize) /\ \A i \in 1 .. stop - 1 : ~Ends(i, period)
          BY <2>1, <4>1
        <5>. HIDE DEF stop
        <5>. QED  BY <5>1, WhereTheLoopStops
      <4>. QED  BY <2>3, <3>5, <4>2
    \* All samples are recent, and there is room for one before the first.
    <3>6. CASE c <= B - 2 /\ m = 1
      <4>1. c = L /\ L + 1 \in 1 .. B - 1 /\ L + 1 \in 1 .. B /\ L + 1 < B
        BY <2>1, <3>2, <3>6
      <4>2. row = "first"
        <5>1. ~(L >= B - 1)
          BY <2>1, <4>1
        <5>2. ~(\E i \in DOMAIN samples : TooOld(samples[i].at, period))
          BY <2>1, <3>1, <3>6 DEF R, Recent
        <5>. QED  BY <5>1, <5>2
      <4>3. ppTimestamps[Back(L + 1)] = 0
        BY <4>1, <4>2, ClearBack
      <4>4. Ends(L + 1, period)
        BY <4>3 DEF Ends
      <4>5. \A i \in 1 .. L + 1 - 1 : ~Ends(i, period)
        BY <2>1, <3>4, <4>1
      <4>6. CalcTelemetryData(period) = NaN
        BY <4>1, <4>3, <4>4, <4>5, WhereTheLoopStops
      <4>. QED  BY <2>3, <3>2, <3>6, <4>6
    \* The loop stops at the last sample before the period.
    <3>7. CASE c <= B - 2 /\ m # 1
      <4>1. /\ c + 1 \in 1 .. B - 1 /\ c + 1 \in 1 .. B /\ c + 1 < B /\ c + 1 <= L
            /\ L + 1 - (c + 1) = m - 1 /\ m - 1 \in 1 .. L /\ m - 1 \notin R
            /\ c + 1 # 1 /\ c + 1 - 1 = c /\ c \in 1 .. B - 1 /\ c <= L /\ L + 1 - c = m
            /\ 1 \in 1 .. B - 1 /\ 1 <= L /\ L + 1 - 1 = L
        BY <2>1, <3>1, <3>2, <3>7
      <4>2. Ends(c + 1, period)
        BY <2>2, <4>1
      <4>3. ppTimestamps[Back(c + 1)] # 0
        <5>1. ppTimestamps[Back(c + 1)] = samples[m - 1].at
          BY <4>1, SampleBack
        <5>. QED  BY <2>1, <4>1, <5>1
      <4>4. \A i \in 1 .. (c + 1) - 1 : ~Ends(i, period)
        BY <2>1, <3>2, <3>4, <4>1, SMTT(30)
      <4>5. CalcTelemetryData(period) =
               OrNaN(ppHashCounts[Back(1)] - ppHashCounts[Back(c)],
                     ppTimestamps[Back(1)] - ppTimestamps[Back(c)])
        <5>. DEFINE stop == c + 1
        <5>1. stop \in 1 .. B /\ Ends(stop, period) /\ \A i \in 1 .. stop - 1 : ~Ends(i, period)
          BY <4>1, <4>2, <4>4
        <5>2. stop < B /\ ppTimestamps[Back(stop)] # 0 /\ stop # 1 /\ stop - 1 = c
          BY <4>1, <4>3
        <5>. HIDE DEF stop
        <5>. QED  BY <5>1, <5>2, WhereTheLoopStops
      <4>6. /\ ppHashCounts[Back(1)] = samples[L].count /\ ppTimestamps[Back(1)] = samples[L].at
            /\ ppHashCounts[Back(c)] = samples[m].count /\ ppTimestamps[Back(c)] = samples[m].at
        BY <4>1, SampleBack
      <4>7. Rate(period) = OrNaN(samples[L].count - samples[m].count,
                                 samples[L].at - samples[m].at)
        <5>1. ~(c > B - 2)
          BY <2>1, <3>2, <3>7
        <5>. QED  BY <2>3, <2>5, <3>2, <3>3, <3>7, <5>1
      <4>. QED  BY <4>5, <4>6, <4>7
    <3>8. c > B - 2 \/ c <= B - 2
      BY <2>1, <3>2
    <3>. QED  BY <3>5, <3>6, <3>7, <3>8
  <2>. QED  BY <2>4, <2>5
<1>. QED  BY <1>1, RingInvariantHolds, PTL
=============================================================================
