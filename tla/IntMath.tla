------------------------------ MODULE IntMath ------------------------------
(***************************************************************************)
(* The integer arithmetic of Cryptonight's second variant: division by an  *)
(* approximate reciprocal and the square root by an approximate one on the *)
(* GPU (fast_int_math_v2.cl), the square root in doubles on the CPU        *)
(* (cryptonight_aesni.h).  Each corrects its approximation by at most one. *)
(*                                                                         *)
(* K is 2^32: a uint is a number below K, a ulong one below K * K, and     *)
(* unsigned arithmetic is modulo these.  What hardware or a table gives    *)
(* approximately is an argument.                                           *)
(***************************************************************************)
EXTENDS Integers

CONSTANTS K, Dropped  \* 2^32, and 2^12: what of a ulong does not fit into a double

ASSUME KAssumption == K \in Nat /\ K >= 8 /\ K % 2 = 0
ASSUME DroppedAssumption == Dropped \in 1 .. K

UInt  == 0 .. K - 1
ULong == 0 .. K * K - 1

Low(x)  == x % K
High(x) == (x \div K) % K
Long(x) == LET u == x % (K * K) IN IF 2 * u < K * K THEN u ELSE u - K * K
MulHi(x, y) == (x * y) \div K

-----------------------------------------------------------------------------
(***************************************************************************)
(* get_reciprocal: K * K / a without its leading bit, from an approximate  *)
(* one, r, that the table and its interpolation give.                      *)
(***************************************************************************)
Reciprocal(a, r) ==
  LET lo0  == r * a
      sum  == (lo0 + a * K) % (K * K)
      half == a \div 2
      b    == half >= sum \/ sum >= lo0
      lo   == (half - sum) % (K * K)
      k    == (MulHi(Low(lo), r) + r * High(lo) + lo) % (K * K)
  IN  (High(k) + (IF b THEN r ELSE 0)) % K

\* Mutant of Quotient: the carry is lost.
QuotientWithoutCarry(a, r) == High((MulHi(Low(a), r) + r * High(a) + a) % (K * K))

\* The quotient of a before it is corrected: its 33rd bit is the carry.
Quotient(a, r) ==
  LET k == (MulHi(Low(a), r) + r * High(a) + a) % (K * K)
  IN  High(k) + (IF k < a THEN K ELSE 0)

\* fast_div_v2: the low half of the quotient, and the remainder.
FastDiv(a, b, r) ==
  LET q   == Quotient(a, r)
      tmp == Long(a - q * b)
      overshoot  == tmp < 0
      undershoot == tmp >= b
  IN  << ((Low(q) + (IF undershoot THEN 1 ELSE 0)) - (IF overshoot THEN 1 ELSE 0)) % K,
         ((Low(tmp) + (IF overshoot THEN b ELSE 0)) - (IF undershoot THEN b ELSE 0)) % K >>

\* fast_div_full_q: the whole quotient.
FastDivFullQ(a, b, r) ==
  LET q   == Quotient(a, r)
      tmp == Long(a - q * b)
  IN  IF tmp < 0 THEN << q - 1, (tmp + b) % K >>
      ELSE IF tmp >= b THEN << q + 1, (tmp - b) % K >>
      ELSE << q, tmp % K >>

-----------------------------------------------------------------------------
(***************************************************************************)
(* The root of n is 2 * sqrt(2^64 + n) - 2^33, rounded down.               *)
(***************************************************************************)
IsRoot(n, root) ==
  LET full == 2 * K + root
  IN  full * full <= 4 * (K * K + n) /\ 4 * (K * K + n) < (full + 1) * (full + 1)

\* Mutant of FastSqrt: the second correction forgets s.
FastSqrtWithoutS(n, result) ==
  LET s  == result \div 2
      b  == result % 2
      x2 == ((s * (s + b) + result * K) - n) % (K * K)
  IN  ((result + (IF Long(x2 + K) < 0 THEN 1 ELSE 0))
                - (IF Long(x2 + b) > 0 THEN 1 ELSE 0)) % K

\* fast_sqrt_v2, after the estimate.
FastSqrt(n, result) ==
  LET s  == result \div 2
      b  == result % 2
      x2 == ((s * (s + b) + result * K) - n) % (K * K)
  IN  ((result + (IF Long(x2 + K + s) < 0 THEN 1 ELSE 0))
                - (IF Long(x2 + b) > 0 THEN 1 ELSE 0)) % K

\* int_sqrt_v2_fixup: r19 is the double's bits without the last 19, 1023 its exponent.
Exponent == 1023

\* Mutant of SqrtFixup: the square compared is of the half before.
SqrtFixupOfHalf(r19, n) ==
  LET s  == r19 \div 2
      bias == (Exponent - 1) * K
      x2 == ((s - bias) * (r19 - (s + bias))) % (K * K)
  IN  IF x2 < n THEN r19 + 1 ELSE r19

SqrtFixup(r19, n) ==
  LET s  == r19 \div 2
      bias == (Exponent - 1) * K
      x2 == ((s - bias) * (r19 - (s + bias) + 1)) % (K * K)
  IN  IF x2 < n THEN r19 + 1 ELSE r19

\* int_sqrt_v2: the mantissa of the square root of a double, rounded towards zero, is the
\* root of what of n fits into the double.
IntSqrt(n) ==
  LET estimate == CHOOSE root \in UInt : IsRoot(n - (n % Dropped), root)
  IN  SqrtFixup(2 * K * Exponent + estimate, n)
=============================================================================
