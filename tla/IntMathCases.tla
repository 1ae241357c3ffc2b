---------------------------- MODULE IntMathCases ----------------------------
(***************************************************************************)
(* Divisions and roots, each of operands the loop of Cryptonight may have, *)
(* from any approximation that is close enough.                            *)
(***************************************************************************)
EXTENDS IntMath

CONSTANT TableError  \* how far off the table's reciprocals are

ASSUME TableAssumption ==
  TableError \in Nat /\ (2 * TableError + 3) * (TableError + 1) <= K

\* A divisor has its highest and its lowest bit set.
Divisors == {b \in UInt : 2 * b > K /\ b % 2 = 1}
Close(x, y, error) == x - error <= y /\ y <= x + error
RootOf(n) == CHOOSE root \in UInt : IsRoot(n, root)

VARIABLES operands, result

caseVars == <<operands, result>>

Undone == << >>

InitCase ==
  /\ result = Undone
  /\ \/ \E a \in ULong, b \in Divisors, r \in UInt :
          /\ Close((K * K) \div b - K, r, TableError)
          /\ operands = [op |-> "div", a |-> a, b |-> b, r |-> r]
     \/ \E n \in ULong, root \in UInt, r \in UInt :
          /\ IsRoot(n, root) /\ Close(root, r, 1)
          /\ operands = [op |-> "root", n |-> n, estimate |-> r]

Divide ==
  /\ operands.op = "div" /\ result = Undone
  /\ LET rcp == Reciprocal(operands.b, operands.r)
     IN  result' = [quotient |-> FastDiv(operands.a, operands.b, rcp),
                    full |-> FastDivFullQ(operands.a, operands.b, rcp)]
  /\ UNCHANGED operands

TakeRoot ==
  /\ operands.op = "root" /\ result = Undone
  /\ result' = [gpu |-> FastSqrt(operands.n, operands.estimate), cpu |-> IntSqrt(operands.n) % K]
  /\ UNCHANGED operands

NextCase == Divide \/ TakeRoot

SpecCases == InitCase /\ [][NextCase]_caseVars

-----------------------------------------------------------------------------
Done(op) == result # Undone /\ operands.op = op

\* Quotient and remainder are exact, though the reciprocal comes from a table of 128 lines,
\* sums wrap around, and what is left of the error is corrected once (fast_int_math_v2.cl:40-109;
\* the CPU divides, cryptonight_aesni.h:315).
DivisionIsExact ==
  Done("div") =>
    LET q == operands.a \div operands.b
        r == operands.a % operands.b
    IN  result.quotient = << q % K, r >> /\ result.full = << q, r >>

\* The GPU's root is exact for any estimate one off, at its boundaries and at both ends
\* (fast_int_math_v2.cl:125-131, as cryptonight.cl:431-462 tests it).
GpuRootIsExact == Done("root") => IsRoot(operands.n, result.gpu)

\* The CPU's root is exact unless the estimate needs no correction and the square of the next
\* half is beyond what a ulong holds (cryptonight_aesni.h:220-242).
CpuRootIsExact ==
  LET next == 2 * K + RootOf(operands.n - (operands.n % Dropped)) + 1
  IN  Done("root") /\ next * next < 8 * K * K => IsRoot(operands.n, result.cpu)

\* The CPU's root is exact: what cryptonight.cl:438-440 expects of the GPU's at the upper end.
RootsAgree == Done("root") => IsRoot(operands.n, result.cpu)
=============================================================================
