-------------------------- MODULE CryptonightProof -------------------------
(***************************************************************************)
(* A nonce ends on the GPU with the state the CPU computes for it.  First  *)
(* what words, chunks and lines of chunks are, then one iteration of cn1   *)
(* next to one of the CPU, in both versions; then the CPU's three loops    *)
(* pass by pass, as the values of recursive functions; and then the        *)
(* invariant, which says for each kernel how far each lane is on the CPU's *)
(* way.                                                                    *)
(***************************************************************************)
EXTENDS Cryptonight, CalculationsProof

Chunk == ULong \X ULong
Mems  == [ChunkNos -> Chunk]
Loops == [i : 0 .. Iterations, a : Chunk, bx0 : Chunk, bx1 : Chunk, div : UInt \X UInt, sqrt : UInt]

\* What AES makes of chunks are chunks.
AesGivesChunks ==
  /\ \A x, key \in Chunk : AesRound(x, key) \in Chunk
  /\ \A x \in Chunk, keys \in ULong \X ULong \X ULong \X ULong : AesRounds(x, keys) \in Chunk

-----------------------------------------------------------------------------
(* Words and their halves.                                                  *)

LEMMA WordOfHalves ==
  ASSUME NEW lo \in UInt, NEW hi \in UInt
  PROVE  /\ lo + K * hi \in ULong
         /\ (lo + K * hi) % K = lo /\ (lo + K * hi) \div K = hi
<1>1. K \in Nat \ {0} /\ K * K \in Nat /\ lo \in 0 .. K - 1 /\ hi \in 0 .. K - 1
  BY LongWord DEF UInt
<1>2. hi * K + K <= K * K
  BY <1>1, NextMultiple
<1>a. hi * K \in Nat /\ K * hi = hi * K
  BY <1>1
<1>. DEFINE x == lo + K * hi
<1>3. x \in Nat /\ hi * K <= x /\ x < hi * K + K /\ x < K * K /\ x - hi * K = lo
  <2>. DEFINE M == K * K
              h == hi * K
  <2>1. x = lo + h /\ h + K <= M /\ h \in Nat /\ M \in Nat
    BY <1>1, <1>2, <1>a
  <2>. HIDE DEF M, h, x
  <2>2. x \in Nat /\ h <= x /\ x < h + K /\ x < M /\ x - h = lo
    BY <1>1, <2>1
  <2>. QED  BY <2>2 DEF M, h
<1>. HIDE DEF x
<1>4. x \div K = hi /\ x % K = lo
  <2>1. x \in Int /\ hi \in Int /\ K \in Nat \ {0}
    BY <1>1, <1>3
  <2>2. x \div K = hi /\ x % K = x - hi * K
    BY <1>3, <2>1, QuotientOf
  <2>. QED  BY <1>3, <2>2
<1>. QED  BY <1>1, <1>3, <1>4 DEF x, ULong

LEMMA HalvesOfWord ==
  ASSUME NEW x \in ULong
  PROVE  x % K \in UInt /\ x \div K \in UInt /\ x = (x % K) + K * (x \div K)
<1>1. High(x) \in UInt /\ Low(x) \in UInt /\ x = High(x) * K + Low(x) /\ High(x) = x \div K
  BY Words
<1>2. Low(x) = x % K
  BY DEF Low
<1>3. \A y \in UInt : y * K = K * y
  BY LongWord DEF UInt
<1>. QED  BY <1>1, <1>2, <1>3, LongWord DEF UInt

LEMMA XorLongIs ==
  ASSUME NEW x \in ULong, NEW y \in ULong
  PROVE  XorLong(x, y) \in ULong
<1>1. XorUInt(x % K, y % K) \in UInt /\ XorUInt(x \div K, y \div K) \in UInt
  BY HalvesOfWord, XorAssumption
<1>. QED  BY <1>1, WordOfHalves DEF XorLong

\* The xor with a shifted uint leaves the low half alone.
LEMMA XorWithHigh ==
  ASSUME NEW lo \in UInt, NEW hi \in UInt, NEW s \in UInt
  PROVE  XorLong(lo + K * hi, s * K) = lo + K * XorUInt(hi, s)
<1>1. 0 \in UInt /\ s * K = 0 + K * s
  BY LongWord DEF UInt
<1>2. /\ (lo + K * hi) % K = lo /\ (lo + K * hi) \div K = hi
      /\ (0 + K * s) % K = 0 /\ (0 + K * s) \div K = s
  BY <1>1, WordOfHalves
<1>3. XorUInt(lo, 0) = lo
  BY XorAssumption
<1>. QED  BY <1>1, <1>2, <1>3 DEF XorLong

LEMMA ChunksOfWords ==
  ASSUME NEW x \in Chunk, NEW y \in Chunk
  PROVE  XorChunk(x, y) \in Chunk /\ AddChunk(x, y) \in Chunk
<1>1. x[1] \in ULong /\ x[2] \in ULong /\ y[1] \in ULong /\ y[2] \in ULong
  BY DEF Chunk
<1>2. XorChunk(x, y) \in Chunk
  BY <1>1, XorLongIs DEF Chunk, XorChunk
<1>3. \A u, v \in ULong : (u + v) % Word \in ULong
  <2>. SUFFICES ASSUME NEW u \in ULong, NEW v \in ULong PROVE (u + v) % Word \in ULong
    OBVIOUS
  <2>1. K * K \in Nat \ {0} /\ u + v \in Int
    BY LongWord DEF ULong
  <2>2. (u + v) % (K * K) \in 0 .. K * K - 1
    BY <2>1, DivMod
  <2>. QED  BY <2>2 DEF ULong, Word
<1>. QED  BY <1>1, <1>2, <1>3 DEF Chunk, AddChunk

LEMMA ModWord == ASSUME NEW x \in Int PROVE x % Word \in ULong /\ x % K \in UInt
<1>1. K * K \in Nat \ {0} /\ K \in Nat \ {0}
  BY LongWord
<1>. DEFINE M == K * K
<1>. HIDE DEF M
<1>2. x % M \in 0 .. M - 1 /\ x % K \in 0 .. K - 1
  BY <1>1, DivMod DEF M
<1>. QED  BY <1>2 DEF ULong, UInt, Word, M

LEMMA ProductIs ==
  ASSUME NEW x \in ULong, NEW y \in ULong
  PROVE  Product(x, y) \in Chunk
<1>1. K * K \in Nat \ {0} /\ x \in Nat /\ y \in Nat /\ x < K * K /\ y < K * K
  BY LongWord DEF ULong
<1>. DEFINE M == K * K
            p == x * y
<1>. HIDE DEF M
<1>2. M \in Nat \ {0} /\ x \in Nat /\ y \in Nat /\ x < M /\ y < M
  BY <1>1 DEF M
<1>3. x * y <= M * y /\ M * y = y * M
  <2>1. x \in Int /\ M \in Int /\ x <= M
    BY <1>2
  <2>. QED  BY <1>2, <2>1, Monotone
<1>4. y * M + M <= M * M
  BY <1>2, NextMultiple
<1>5. p \in Nat /\ p < M * M /\ M * M \in Nat
  <2>1. p \in Nat /\ M * M \in Nat /\ y * M \in Nat
    BY <1>2
  <2>. QED  BY <1>2, <1>3, <1>4, <2>1
<1>. HIDE DEF p
<1>6. p \div M \in Nat /\ (p \div M) * M <= p /\ p % M \in 0 .. M - 1
  <2>1. p \in Int
    BY <1>5
  <2>2. p \div M \in Nat /\ (p \div M) * M <= p
    BY <1>2, <1>5, Division
  <2>. QED  BY <1>2, <2>1, <2>2, DivMod
<1>7. (p \div M) * M < M * M
  BY <1>2, <1>5, <1>6
<1>8. p \div M < M
  BY <1>2, <1>6, <1>7, LessByFactor
<1>9. p \div M \in 0 .. M - 1
  BY <1>2, <1>6, <1>8
<1>10. Product(x, y) = << p \div M, p % M >> /\ ULong = 0 .. M - 1
  BY DEF Product, ULong, Word, M, p
<1>. QED  BY <1>6, <1>9, <1>10 DEF Chunk

LEMMA ChunkOfIs == ASSUME NEW x \in ULong PROVE ChunkOf(x) \in ChunkNos
<1>1. x \in Int /\ ChunkUnit \in Nat \ {0} /\ Chunks \in Nat \ {0}
  BY LongWord, ShapeAssumption, NonceAssumption DEF ULong
<1>2. x \div ChunkUnit \in Int
  BY <1>1, DivMod
<1>3. (x \div ChunkUnit) % Chunks \in 0 .. Chunks - 1
  BY <1>1, <1>2, DivMod
<1>. QED  BY <1>3 DEF ChunkOf, ChunkNos

-----------------------------------------------------------------------------
(* Quotient and root of an iteration.                                       *)

LEMMA RootExists == ASSUME NEW n \in ULong PROVE \E root \in UInt : IsRoot(n, root)
<1>1. K \in Nat /\ K >= 8 /\ n \in Nat /\ n < K * K /\ K * K \in Nat
  BY KAssumption DEF ULong
<1>. DEFINE X == 4 * (K * K + n)
            Sq(r) == (2 * K + r) * (2 * K + r)
            T == {r \in Nat : X < Sq(r + 1)}
<1>2. X \in Nat /\ 4 * (K * K) <= X /\ X < 8 * (K * K)
  BY <1>1
<1>3. Sq(0) <= X
  BY <1>1, <1>2
<1>4. K - 1 \in T
  <2>1. Sq(K - 1 + 1) = 9 * (K * K)
    BY <1>1
  <2>2. X < Sq(K - 1 + 1)
    <3>. HIDE DEF X, Sq
    <3>. QED  BY <1>1, <1>2, <2>1
  <2>. QED  BY <1>1, <2>2
<1>5. PICK x \in T : \A y \in T : x <= y
  BY <1>4, LeastNumber
<1>6. x \in UInt
  BY <1>1, <1>4, <1>5 DEF UInt
<1>7. Sq(x) <= X
  <2>. SUFFICES ASSUME x # 0 PROVE Sq(x) <= X
    BY <1>3
  <2>1. x - 1 \in Nat /\ x - 1 \notin T /\ x - 1 + 1 = x
    BY <1>5
  <2>2. ~(X < Sq(x - 1 + 1))
    BY <2>1
  <2>3. ~(X < Sq(x))
    BY <2>1, <2>2
  <2>4. Sq(x) \in Int
    BY <1>1
  <2>. HIDE DEF X, Sq
  <2>. QED  BY <1>2, <2>3, <2>4
<1>8. X < Sq(x + 1) /\ 2 * K + x + 1 = 2 * K + (x + 1)
  BY <1>1
<1>. QED  BY <1>6, <1>7, <1>8 DEF IsRoot

LEMMA OneRoot ==
  ASSUME NEW n \in ULong, NEW r \in UInt, NEW s \in UInt, IsRoot(n, r), IsRoot(n, s)
  PROVE  r = s
<1>1. K \in Nat /\ r \in Nat /\ s \in Nat /\ 4 * (K * K + n) \in Int
  BY LongWord DEF UInt, ULong
<1>. DEFINE X == 4 * (K * K + n)
<1>. HIDE DEF X
<1>2. ASSUME NEW x \in Nat, NEW y \in Nat, x < y,
             X < (2 * K + x + 1) * (2 * K + x + 1), (2 * K + y) * (2 * K + y) <= X
      PROVE  FALSE
  <2>. DEFINE f == 2 * K + x + 1
              g == 2 * K + y
  <2>1. f \in Nat /\ g \in Nat /\ f <= g
    BY <1>1, <1>2
  <2>2. f * f \in Int /\ g * g \in Int /\ X \in Int /\ X < f * f /\ g * g <= X
    BY <1>1, <1>2, <2>1 DEF X
  <2>. HIDE DEF f, g
  <2>3. f * f <= g * g
    BY <2>1, LessProduct
  <2>. QED  BY <2>2, <2>3
<1>3. /\ (2 * K + r) * (2 * K + r) <= X /\ X < (2 * K + r + 1) * (2 * K + r + 1)
      /\ (2 * K + s) * (2 * K + s) <= X /\ X < (2 * K + s + 1) * (2 * K + s + 1)
  BY DEF IsRoot, X
<1>4. ~(r < s) /\ ~(s < r)
  BY <1>1, <1>2, <1>3, Zenon
<1>. QED  BY <1>1, <1>4

LEMMA RootIs ==
  ASSUME NEW n \in ULong
  PROVE  FastSqrt(n, SqrtEstimate(n)) \in UInt /\ IsRoot(n, FastSqrt(n, SqrtEstimate(n)))
<1>. DEFINE root == CHOOSE r \in UInt : IsRoot(n, r)
<1>1. root \in UInt /\ IsRoot(n, root)
  BY RootExists
<1>2. SqrtEstimate(n) = IF root = 0 THEN 0 ELSE root - 1
  BY DEF SqrtEstimate
<1>. HIDE DEF root
<1>3. SqrtEstimate(n) \in UInt /\ root - 1 <= SqrtEstimate(n) /\ SqrtEstimate(n) <= root + 1
  BY <1>1, <1>2, LongWord DEF UInt
<1>4. FastSqrt(n, SqrtEstimate(n)) = root
  BY <1>1, <1>3, FastSqrtIsExact
<1>. QED  BY <1>1, <1>4

LEMMA WithEndsIs ==
  ASSUME NEW x \in UInt
  PROVE  WithEnds(x) \in Divisors /\ WithEnds(x) \in 1 .. K - 1
<1>1. PICK k \in Nat : K = 4 * k
  <2>1. K \in Nat /\ K % 4 = 0
    BY KAssumption, XorAssumption
  <2>2. K \div 4 \in Nat /\ K = (K \div 4) * 4 + (K % 4)
    BY <2>1
  <2>3. K = 4 * (K \div 4)
    BY <2>1, <2>2
  <2>. QED  BY <2>2, <2>3
<1>2. K \div 2 = 2 * k /\ k > 0 /\ x \in Nat /\ x < 4 * k
  BY <1>1, KAssumption DEF UInt
<1>3. PICK y \in Nat : x = 2 * y \/ x = 2 * y + 1
  <2>1. x = 2 * (x \div 2) + (x % 2) /\ x % 2 \in {0, 1} /\ x \div 2 \in Nat
    BY <1>2
  <2>. QED  BY <2>1
<1>. DEFINE z == IF y < k THEN y + k ELSE y
<1>4. WithEnds(x) = 2 * z + 1
  <2>1. CASE x = 2 * y
    <3>1. x % 2 = 0 /\ (x < K \div 2 <=> y < k)
      BY <1>2, <2>1
    <3>. QED  BY <1>2, <2>1, <3>1 DEF WithEnds
  <2>2. CASE x = 2 * y + 1
    <3>1. x % 2 = 1 /\ (x < K \div 2 <=> y < k)
      BY <1>2, <2>2
    <3>. QED  BY <1>2, <2>2, <3>1 DEF WithEnds
  <2>. QED  BY <1>3, <2>1, <2>2
<1>5. z \in Nat /\ k <= z /\ z < 2 * k
  BY <1>2, <1>3
<1>. HIDE DEF z
<1>6. 2 * (2 * z + 1) > K /\ (2 * z + 1) % 2 = 1 /\ 2 * z + 1 \in 1 .. K - 1
  BY <1>1, <1>2, <1>5
<1>. QED  BY <1>1, <1>4, <1>6 DEF Divisors, UInt

LEMMA QuotientOfWords ==
  ASSUME NEW x \in ULong, NEW d \in Divisors
  PROVE  /\ FastDiv(x, d, Reciprocal(d, RcpEstimate(d))) = << (x \div d) % K, x % d >>
         /\ (x \div d) % K \in UInt /\ x % d \in UInt
<1>1. K \in Nat \ {0} /\ d \in 1 .. K - 1 /\ 2 * d > K /\ K * K \in Nat
  BY LongWord DEF Divisors, UInt
<1>. DEFINE M == K * K
            q == M \div d
<1>2. q \in Nat /\ q * d <= M /\ M < q * d + d
  BY <1>1, Division
<1>3. q >= K
  <2>. SUFFICES ASSUME q < K PROVE FALSE
    BY <1>1, <1>2
  <2>1. q * d + d <= K * d
    BY <1>1, <1>2, NextMultiple
  <2>2. d * K <= K * K /\ d * K = K * d /\ K * d \in Nat
    BY <1>1, Monotone
  <2>3. q * d \in Nat
    BY <1>1, <1>2
  <2>. HIDE DEF q
  <2>. QED  BY <1>1, <1>2, <2>1, <2>2, <2>3
<1>4. q < 2 * K
  <2>. SUFFICES ASSUME 2 * K <= q PROVE FALSE
    BY <1>1, <1>2
  <2>1. (2 * K) * d <= q * d
    BY <1>1, <1>2, Monotone
  <2>2. (2 * K) * d = (2 * d) * K /\ q * d \in Nat /\ (2 * d) * K \in Nat
    BY <1>1, <1>2
  <2>3. K * K + K <= (2 * d) * K
    BY <1>1, NextMultiple
  <2>. HIDE DEF q
  <2>. QED  BY <1>1, <1>2, <2>1, <2>2, <2>3
<1>5. RcpEstimate(d) = q - K
  BY DEF RcpEstimate, Word
<1>. HIDE DEF q
<1>6. RcpEstimate(d) \in UInt
  BY <1>1, <1>2, <1>3, <1>4, <1>5 DEF UInt
<1>7. Close(M \div d - K, RcpEstimate(d), TableError)
  <2>1. TableError \in Nat /\ q - K \in Int
    BY <1>1, <1>2, TableAssumption
  <2>. QED  BY <1>5, <2>1 DEF Close, q
<1>8. Reciprocal(d, RcpEstimate(d)) \in UInt /\ Accurate(d, Reciprocal(d, RcpEstimate(d)))
  BY <1>6, <1>7, ReciprocalIsAccurate
<1>9. FastDiv(x, d, Reciprocal(d, RcpEstimate(d))) = << (x \div d) % K, x % d >>
  BY <1>1, <1>8, FastDivIsExact
<1>10. x \in Int /\ x \div d \in Int /\ x % d \in 0 .. d - 1
  <2>1. x \in Int /\ d \in Nat \ {0}
    BY <1>1, LongWord DEF ULong
  <2>. QED  BY <2>1, DivMod
<1>11. (x \div d) % K \in UInt
  BY <1>10, ModWord
<1>. QED  BY <1>1, <1>9, <1>10, <1>11 DEF UInt

-----------------------------------------------------------------------------
(* Lines of four chunks.                                                    *)

LEMMA Line ==
  ASSUME NEW i \in ChunkNos, NEW y \in 0 .. 3
  PROVE  /\ i % 4 \in 0 .. 3 /\ i \div 4 \in Nat /\ i = 4 * (i \div 4) + (i % 4)
         /\ 4 * (i \div 4) + y \in ChunkNos
         /\ (4 * (i \div 4) + y) \div 4 = i \div 4 /\ (4 * (i \div 4) + y) % 4 = y
<1>1. i \in Nat /\ i < Chunks /\ Chunks \in Nat /\ Chunks % 4 = 0
  BY ShapeAssumption, NonceAssumption DEF ChunkNos
<1>2. i % 4 \in 0 .. 3 /\ i \div 4 \in Nat /\ i = 4 * (i \div 4) + (i % 4)
  BY <1>1
<1>3. Chunks = 4 * (Chunks \div 4) /\ Chunks \div 4 \in Nat
  BY <1>1
<1>. DEFINE q == i \div 4
            c == Chunks \div 4
<1>4. q \in Nat /\ c \in Nat /\ 4 * q <= i /\ i < 4 * c
  BY <1>1, <1>2, <1>3
<1>5. 4 * q + y \in ChunkNos /\ (4 * q + y) \div 4 = q /\ (4 * q + y) % 4 = y
  <2>. HIDE DEF q, c
  <2>1. Chunks = 4 * c
    BY <1>3 DEF c
  <2>. QED  BY <1>4, <2>1 DEF ChunkNos
<1>. QED  BY <1>2, <1>5

LEMMA BesideIs ==
  ASSUME NEW i \in ChunkNos, NEW c \in 0 .. 3
  PROVE  /\ Beside(i, c) \in ChunkNos /\ Beside(i, c) \div 4 = i \div 4
         /\ XorUInt(i % 4, c) \in 0 .. 3
         /\ Beside(i, c) = 4 * (i \div 4) + XorUInt(i % 4, c)
<1>1. i % 4 \in 0 .. 3
  BY Line
<1>2. XorUInt(i % 4, c) \in 0 .. 3
  BY <1>1, XorAssumption
<1>. QED  BY <1>2, Line DEF Beside

LEMMA Stored ==
  ASSUME NEW mem \in Mems, NEW i \in ChunkNos, NEW x \in Chunk
  PROVE  Put(mem, i, x) \in Mems
BY DEF Put, Mems

LEMMA ShuffledIs ==
  ASSUME NEW o, NEW mem \in Mems, NEW i \in ChunkNos, NEW x \in Chunk, NEW l,
         l.a \in Chunk, l.bx0 \in Chunk, l.bx1 \in Chunk
  PROVE  Shuffled(o, mem, i, x, l) \in Mems
<1>1. \A c \in 0 .. 3 : Beside(i, c) \in ChunkNos /\ mem[Beside(i, c)] \in Chunk
  BY BesideIs DEF Mems
<1>2. /\ AddChunk(mem[Beside(i, 3)], l.bx1) \in Chunk
      /\ AddChunk(XorChunk(mem[Beside(i, 1)], x), l.bx0) \in Chunk
      /\ AddChunk(mem[Beside(i, 2)], l.a) \in Chunk
  BY <1>1, ChunksOfWords
<1>. QED  BY <1>2 DEF Shuffled, Mems

\* A shuffle takes no more of the loop's variables than these.
LEMMA SameShuffle ==
  ASSUME NEW o, NEW mem, NEW i, NEW x, NEW l, NEW k,
         l.a = k.a, l.bx0 = k.bx0, o.shuffle => l.bx1 = k.bx1
  PROVE  Shuffled(o, mem, i, x, l) = Shuffled(o, mem, i, x, k)
BY DEF Shuffled

-----------------------------------------------------------------------------
(* What quotient and root change in an iteration.                           *)

LEMMA Doubled ==
  ASSUME NEW x \in Int, NEW s \in Int
  PROVE  (x + 2 * (s % K)) % K = (x + 2 * s) % K
<1>. DEFINE q == s \div K
            r == s % K
<1>1. K \in Nat \ {0} /\ r \in Int /\ q \in Int /\ s = q * K + r
  BY LongWord, DivMod
<1>2. x + 2 * s = (x + 2 * r) + (2 * q) * K
  BY <1>1
<1>. HIDE DEF q, r
<1>3. ((x + 2 * r) + (2 * q) * K) % K = (x + 2 * r) % K
  <2>. DEFINE y == x + 2 * r
              p == 2 * q
              d == y \div K
              e == y % K
  <2>1. y \in Int /\ p \in Int
    BY <1>1
  <2>. HIDE DEF y, p
  <2>2. d \in Int /\ e \in 0 .. K - 1 /\ y = d * K + e
    BY <1>1, <2>1, DivMod
  <2>. HIDE DEF d, e
  <2>3. d + p \in Int /\ (d + p) * K = d * K + p * K /\ d * K \in Int /\ p * K \in Int
    BY <1>1, <2>1, <2>2
  <2>4. /\ y + p * K \in Int /\ (d + p) * K <= y + p * K /\ y + p * K < (d + p) * K + K
        /\ (y + p * K) - (d + p) * K = e
    BY <1>1, <2>2, <2>3
  <2>5. (y + p * K) % K = e
    BY <1>1, <2>3, <2>4, QuotientOf
  <2>. QED  BY <2>5 DEF e, y, p
<1>. QED  BY <1>2, <1>3 DEF r

LEMMA Lifted ==
  ASSUME NEW s \in Int
  PROVE  (s * K) % Word = (s % K) * K
<1>. DEFINE q == s \div K
            r == s % K
            M == K * K
<1>1. K \in Nat \ {0} /\ M \in Nat \ {0} /\ r \in 0 .. K - 1 /\ q \in Int /\ s = q * K + r
  BY LongWord, DivMod
<1>. HIDE DEF q, r
<1>2. s * K = q * M + r * K
  BY <1>1
<1>3. r * K + K <= M /\ r * K \in Nat /\ q * M \in Int
  BY <1>1, NextMultiple
<1>. HIDE DEF M
<1>4. q * M <= s * K /\ s * K < q * M + M /\ s * K - q * M = r * K /\ s * K \in Int
  BY <1>1, <1>2, <1>3
<1>5. (s * K) % M = r * K
  BY <1>1, <1>4, QuotientOf
<1>. QED  BY <1>5 DEF M, r, Word

MixedIn(o, c, tmp, l, d, m) ==
  /\ m.tmp \in Chunk /\ m.tmp[2] = tmp[2] /\ m.div \in UInt \X UInt /\ m.sqrt \in UInt
  /\ o.intMath =>
       /\ m.tmp[1] = XorLong(tmp[1], l.div[1] + K * XorUInt(l.div[2], l.sqrt))
       /\ m.div = << (c[2] \div d) % K, c[2] % d >>
       /\ IsRoot((c[1] + m.div[1] + K * m.div[2]) % Word, m.sqrt)
  /\ ~o.intMath => m = [tmp |-> tmp, div |-> l.div, sqrt |-> l.sqrt]

LEMMA MixInIs ==
  ASSUME NEW o, NEW c \in Chunk, NEW tmp \in Chunk, NEW l \in Loops
  PROVE  MixedIn(o, c, tmp, l, Divisor(c, l.sqrt), MixIn(o, c, tmp, l))
<1>. DEFINE d   == Divisor(c, l.sqrt)
            m   == MixIn(o, c, tmp, l)
            div == FastDiv(c[2], d, Reciprocal(d, RcpEstimate(d)))
            n   == (c[1] + div[1] + K * div[2]) % Word
            cl  == XorLong(tmp[1], l.div[1] + K * XorUInt(l.div[2], l.sqrt))
            rt  == FastSqrt(n, SqrtEstimate(n))
<1>. SUFFICES MixedIn(o, c, tmp, l, d, m)
  OBVIOUS
<1>1. /\ c[1] \in ULong /\ c[2] \in ULong /\ tmp[1] \in ULong /\ tmp[2] \in ULong
      /\ l.div \in UInt \X UInt /\ l.div[1] \in UInt /\ l.div[2] \in UInt /\ l.sqrt \in UInt
      /\ tmp = << tmp[1], tmp[2] >>
  BY DEF Chunk, Loops
<1>2. m = IF ~o.intMath THEN [tmp |-> tmp, div |-> l.div, sqrt |-> l.sqrt]
          ELSE [tmp |-> << cl, tmp[2] >>, div |-> div, sqrt |-> rt]
  BY DEF MixIn
<1>3. (c[1] + 2 * l.sqrt) % K \in UInt
  <2>1. c[1] + 2 * l.sqrt \in Int
    BY <1>1, LongWord DEF ULong, UInt
  <2>. QED  BY <2>1, ModWord
<1>4. d \in Divisors
  BY <1>3, WithEndsIs DEF Divisor
<1>5. div = << (c[2] \div d) % K, c[2] % d >> /\ div[1] \in UInt /\ div[2] \in UInt
  <2>. HIDE DEF d
  <2>. QED  BY <1>1, <1>4, QuotientOfWords
<1>. HIDE DEF div, d
<1>6. div = << div[1], div[2] >>
  BY <1>5
<1>7. n \in ULong
  <2>1. c[1] + div[1] + K * div[2] \in Int
    BY <1>1, <1>5, LongWord DEF UInt, ULong
  <2>. QED  BY <2>1, ModWord
<1>. HIDE DEF n
<1>8. rt \in UInt /\ IsRoot(n, rt)
  BY <1>7, RootIs
<1>9. cl \in ULong
  <2>1. XorUInt(l.div[2], l.sqrt) \in UInt
    BY <1>1, XorAssumption
  <2>2. l.div[1] + K * XorUInt(l.div[2], l.sqrt) \in ULong
    BY <1>1, <2>1, WordOfHalves
  <2>. QED  BY <1>1, <2>2, XorLongIs
<1>. HIDE DEF rt, cl, m
<1>10. CASE ~o.intMath
  <2>1. m = [tmp |-> tmp, div |-> l.div, sqrt |-> l.sqrt]
    BY <1>2, <1>10
  <2>. QED  BY <1>1, <1>10, <2>1 DEF MixedIn
<1>11. CASE o.intMath
  <2>1. m = [tmp |-> << cl, tmp[2] >>, div |-> div, sqrt |-> rt]
    BY <1>2, <1>11
  <2>2. m.tmp = << cl, tmp[2] >> /\ m.div = div /\ m.sqrt = rt
    BY <2>1
  <2>3. m.tmp \in Chunk /\ m.tmp[1] = cl /\ m.tmp[2] = tmp[2]
    BY <1>1, <1>9, <2>2 DEF Chunk
  <2>4. m.div \in UInt \X UInt
    BY <1>5, <1>6, <2>2
  <2>. QED  BY <1>5, <1>8, <1>11, <2>2, <2>3, <2>4 DEF MixedIn, cl, n
<1>. QED  BY <1>10, <1>11

-----------------------------------------------------------------------------
(* An iteration of the loop, on the GPU and on the CPU.                     *)

Cpus == [mem : Mems, al : ULong, ah : ULong, bx0 : Chunk, bx1 : Chunk, idx : ChunkNos,
         div : ULong, sqrt : Int, exact : BOOLEAN]

\* The two are at the same point.  The CPU keeps more bits of a root than it uses.
Same(o, m, mem, l) ==
  /\ m.mem = mem /\ m.al = l.a[1] /\ m.ah = l.a[2] /\ m.idx = ChunkOf(l.a[1]) /\ m.bx0 = l.bx0
  /\ o.shuffle => m.bx1 = l.bx1
  /\ o.intMath => m.div = l.div[1] + K * l.div[2] /\ m.sqrt % K = l.sqrt

LEMMA SecondHalfIs ==
  ASSUME NEW o, NEW mem \in Mems, NEW j \in ChunkNos, NEW c \in Chunk, NEW l \in Loops,
         l.i < Iterations
  PROVE  LET half == SecondHalf(o, mem, j, c, l)
         IN  half.mem \in Mems /\ half.loop \in Loops /\ half.loop.i = l.i + 1
<1>. DEFINE m == MixIn(o, c, mem[j], l)
            t == Product(c[1], m.tmp[1])
            a == AddChunk(l.a, IF o.shuffle THEN XorChunk(t, mem[Beside(j, 2)]) ELSE t)
            next == [i |-> l.i + 1, a |-> XorChunk(a, m.tmp), bx0 |-> c, bx1 |-> l.bx0,
                     div |-> m.div, sqrt |-> m.sqrt]
            half == SecondHalf(o, mem, j, c, l)
<1>1. half.mem = Put(Shuffled(o, mem, j, t, l), j, a) /\ half.loop = next
  BY DEF SecondHalf
<1>2. mem[j] \in Chunk /\ Beside(j, 2) \in ChunkNos /\ mem[Beside(j, 2)] \in Chunk
  BY BesideIs DEF Mems
<1>3. m.tmp \in Chunk /\ m.div \in UInt \X UInt /\ m.sqrt \in UInt
  BY <1>2, MixInIs DEF MixedIn
<1>. HIDE DEF m
<1>4. c[1] \in ULong /\ m.tmp[1] \in ULong
  BY <1>3 DEF Chunk
<1>5. t \in Chunk
  BY <1>4, ProductIs
<1>6. l.a \in Chunk /\ l.bx0 \in Chunk /\ l.bx1 \in Chunk /\ l.i \in 0 .. Iterations
  BY DEF Loops
<1>. HIDE DEF t
<1>7. a \in Chunk
  BY <1>2, <1>5, <1>6, ChunksOfWords
<1>. HIDE DEF a
<1>8. half.mem \in Mems
  BY <1>1, <1>5, <1>6, <1>7, ShuffledIs, Stored
<1>9. XorChunk(a, m.tmp) \in Chunk /\ l.i + 1 \in 0 .. Iterations
  <2>1. XorChunk(a, m.tmp) \in Chunk
    BY <1>3, <1>7, ChunksOfWords
  <2>. QED  BY <1>6, <2>1, ShapeAssumption
<1>10. next \in Loops
  BY <1>3, <1>6, <1>9 DEF Loops
<1>11. next.i = l.i + 1
  OBVIOUS
<1>. QED  BY <1>1, <1>8, <1>10, <1>11

\* The chunk of the first half, and the scratchpad after it.
FirstChunk(mem, l) == AesRound(mem[ChunkOf(l.a[1])], l.a)
FirstPad(o, mem, l) ==
  Put(Shuffled(o, mem, ChunkOf(l.a[1]), Zero, l), ChunkOf(l.a[1]), XorChunk(l.bx0, FirstChunk(mem, l)))

LEMMA FirstHalfIs ==
  ASSUME AesGivesChunks, NEW o, NEW mem \in Mems, NEW l \in Loops
  PROVE  /\ FirstChunk(mem, l) \in Chunk /\ FirstPad(o, mem, l) \in Mems
         /\ ChunkOf(l.a[1]) \in ChunkNos /\ ChunkOf(FirstChunk(mem, l)[1]) \in ChunkNos
<1>1. l.a \in Chunk /\ l.bx0 \in Chunk /\ l.bx1 \in Chunk /\ l.a[1] \in ULong
  BY DEF Loops, Chunk
<1>2. ChunkOf(l.a[1]) \in ChunkNos
  BY <1>1, ChunkOfIs
<1>3. FirstChunk(mem, l) \in Chunk
  BY <1>1, <1>2 DEF AesGivesChunks, FirstChunk, Mems
<1>4. FirstChunk(mem, l)[1] \in ULong
  BY <1>3 DEF Chunk
<1>5. ChunkOf(FirstChunk(mem, l)[1]) \in ChunkNos
  BY <1>4, ChunkOfIs
<1>6. Zero \in Chunk
  <2>1. 0 \in ULong
    BY LongWord DEF ULong
  <2>. QED  BY <2>1 DEF Zero, Chunk
<1>7. XorChunk(l.bx0, FirstChunk(mem, l)) \in Chunk
  BY <1>1, <1>3, ChunksOfWords
<1>8. Shuffled(o, mem, ChunkOf(l.a[1]), Zero, l) \in Mems
  BY <1>1, <1>2, <1>6, ShuffledIs
<1>9. FirstPad(o, mem, l) \in Mems
  BY <1>2, <1>7, <1>8, Stored DEF FirstPad
<1>. QED  BY <1>2, <1>3, <1>5, <1>9

LEMMA AmdIs ==
  ASSUME NEW o, NEW mem, NEW l
  PROVE  AmdIteration(o, mem, l) =
           SecondHalf(o, FirstPad(o, mem, l), ChunkOf(FirstChunk(mem, l)[1]), FirstChunk(mem, l), l)
BY DEF AmdIteration, FirstPad, FirstChunk

LEMMA AmdTypes ==
  ASSUME AesGivesChunks, NEW o, NEW mem \in Mems, NEW l \in Loops, l.i < Iterations
  PROVE  LET next == AmdIteration(o, mem, l)
         IN  next.mem \in Mems /\ next.loop \in Loops /\ next.loop.i = l.i + 1
BY FirstHalfIs, AmdIs, SecondHalfIs

LEMMA IntSqrtIs == ASSUME NEW n \in ULong PROVE IntSqrt(n) \in Int
<1>. DEFINE e == CHOOSE root \in UInt : IsRoot(n - (n % Dropped), root)
<1>1. n - (n % Dropped) \in ULong
  <2>1. n \in Nat /\ n < K * K /\ K * K \in Nat /\ Dropped \in Nat \ {0}
    BY LongWord, DroppedAssumption DEF ULong
  <2>2. n = (n \div Dropped) * Dropped + (n % Dropped) /\ n % Dropped \in 0 .. Dropped - 1
    <3>1. n \in Int
      BY <2>1
    <3>. QED  BY <2>1, <3>1, DivMod
  <2>3. n \div Dropped \in Nat /\ (n \div Dropped) * Dropped <= n
    BY <2>1, Division
  <2>4. (n \div Dropped) * Dropped \in Nat
    BY <2>1, <2>3
  <2>. DEFINE r == n % Dropped
              p == (n \div Dropped) * Dropped
  <2>5. n = p + r /\ r \in Nat /\ p \in Nat
    BY <2>1, <2>2, <2>4
  <2>. HIDE DEF p, r
  <2>6. n - r \in Nat /\ n - r < K * K
    BY <2>1, <2>5
  <2>. QED  BY <2>1, <2>6 DEF ULong, r
<1>2. e \in UInt
  <2>. DEFINE x == n - (n % Dropped)
  <2>. HIDE DEF x
  <2>1. x \in ULong
    BY <1>1 DEF x
  <2>2. \E root \in UInt : IsRoot(x, root)
    BY <2>1, RootExists
  <2>. QED  BY <2>2 DEF x
<1>. HIDE DEF e
<1>3. 2 * K * Exponent + e \in Int
  BY <1>2, LongWord DEF Exponent, UInt
<1>4. IntSqrt(n) = SqrtFixup(2 * K * Exponent + e, n)
  BY DEF IntSqrt, e
<1>5. \A r \in Int : SqrtFixup(r, n) \in Int
  BY DEF SqrtFixup
<1>. QED  BY <1>3, <1>4, <1>5

\* The quotient and remainder of two words, as one.
LEMMA Joined ==
  ASSUME NEW x \in ULong, NEW d \in Divisors
  PROVE  ((x \div d) % K) + (x % d) * K \in ULong
<1>1. (x \div d) % K \in UInt /\ x % d \in UInt
  BY QuotientOfWords
<1>2. (x % d) * K = K * (x % d)
  BY <1>1, LongWord DEF UInt
<1>. QED  BY <1>1, <1>2, WordOfHalves

LEMMA CpuTypes ==
  ASSUME AesGivesChunks, NEW o \in Options, NEW m \in Cpus
  PROVE  CpuIteration(o, m) \in Cpus
<1>. DEFINE i   == m.idx
            ax0 == << m.al, m.ah >>
            cx  == AesRound(m.mem[i], ax0)
            l   == [bx0 |-> m.bx0, bx1 |-> m.bx1, a |-> ax0]
            mem == Put(Shuffled(o, m.mem, i, Zero, l), i, XorChunk(m.bx0, cx))
            j   == ChunkOf(cx[1])
            cl  == IF o.intMath THEN XorLong(mem[j][1], XorLong(m.div, (m.sqrt * K) % Word))
                   ELSE mem[j][1]
            d   == WithEnds((cx[1] + 2 * m.sqrt) % K)
            div == IF o.intMath THEN ((cx[2] \div d) % K) + (cx[2] % d) * K ELSE m.div
            n   == (cx[1] + div) % Word
            hi  == (cx[1] * cl) \div Word
            lo  == (cx[1] * cl) % Word
            al  == (m.al + (IF o.shuffle THEN XorLong(hi, mem[Beside(j, 2)][1]) ELSE hi)) % Word
            ah  == (m.ah + (IF o.shuffle THEN XorLong(lo, mem[Beside(j, 2)][2]) ELSE lo)) % Word
            exact == m.exact /\ (o.intMath => IsRoot(n, IntSqrt(n) % K))
            next == [mem |-> Put(Shuffled(o, mem, j, << hi, lo >>, l), j, << al, ah >>),
                     al |-> XorLong(al, cl), ah |-> XorLong(ah, mem[j][2]),
                     idx |-> ChunkOf(XorLong(al, cl)),
                     bx0 |-> cx, bx1 |-> IF o.shuffle THEN m.bx0 ELSE m.bx1,
                     div |-> div, sqrt |-> IF o.intMath THEN IntSqrt(n) ELSE m.sqrt,
                     exact |-> exact]
<1>0. CpuIteration(o, m) = next
  BY DEF CpuIteration
<1>1. /\ m.mem \in Mems /\ m.al \in ULong /\ m.ah \in ULong /\ m.bx0 \in Chunk /\ m.bx1 \in Chunk
      /\ m.idx \in ChunkNos /\ m.div \in ULong /\ m.sqrt \in Int /\ m.exact \in BOOLEAN
      /\ o.intMath \in BOOLEAN
  BY OptionAssumption DEF Cpus
<1>2. ax0 \in Chunk /\ l.a = ax0 /\ l.bx0 = m.bx0 /\ l.bx1 = m.bx1
  BY <1>1 DEF Chunk
<1>. HIDE DEF l, ax0
<1>3. cx \in Chunk
  BY <1>1, <1>2 DEF AesGivesChunks, Mems
<1>. HIDE DEF cx
<1>4. Zero \in Chunk
  <2>1. 0 \in ULong
    BY LongWord DEF ULong
  <2>. QED  BY <2>1 DEF Zero, Chunk
<1>5. mem \in Mems
  <2>1. XorChunk(m.bx0, cx) \in Chunk
    BY <1>1, <1>3, ChunksOfWords
  <2>2. Shuffled(o, m.mem, i, Zero, l) \in Mems
    BY <1>1, <1>2, <1>4, ShuffledIs
  <2>. QED  BY <1>1, <2>1, <2>2, Stored
<1>. HIDE DEF mem
<1>6. cx[1] \in ULong /\ cx[2] \in ULong /\ j \in ChunkNos
  BY <1>3, ChunkOfIs DEF Chunk
<1>. HIDE DEF j
<1>7. /\ mem[j] \in Chunk /\ mem[j][1] \in ULong /\ mem[j][2] \in ULong
      /\ mem[Beside(j, 2)] \in Chunk
      /\ mem[Beside(j, 2)][1] \in ULong /\ mem[Beside(j, 2)][2] \in ULong
  <2>1. \A x \in ChunkNos : mem[x] \in Chunk
    BY <1>5 DEF Mems
  <2>2. \A x \in Chunk : x[1] \in ULong /\ x[2] \in ULong
    BY DEF Chunk
  <2>3. 2 \in 0 .. 3
    OBVIOUS
  <2>4. Beside(j, 2) \in ChunkNos
    BY <1>6, <2>3, BesideIs
  <2>. QED  BY <1>6, <2>1, <2>2, <2>4
<1>8. cl \in ULong
  <2>1. m.sqrt * K \in Int
    BY <1>1, LongWord
  <2>2. (m.sqrt * K) % Word \in ULong
    BY <2>1, ModWord
  <2>3. XorLong(m.div, (m.sqrt * K) % Word) \in ULong
    BY <1>1, <2>2, XorLongIs
  <2>4. XorLong(mem[j][1], XorLong(m.div, (m.sqrt * K) % Word)) \in ULong
    BY <1>7, <2>3, XorLongIs
  <2>. QED  BY <1>7, <2>4
<1>. HIDE DEF cl
<1>9. d \in Divisors
  <2>1. cx[1] + 2 * m.sqrt \in Int
    BY <1>1, <1>6, LongWord DEF ULong
  <2>2. (cx[1] + 2 * m.sqrt) % K \in UInt
    BY <2>1, ModWord
  <2>. QED  BY <2>2, WithEndsIs
<1>. HIDE DEF d
<1>10. div \in ULong
  BY <1>1, <1>6, <1>9, Joined
<1>. HIDE DEF div
<1>11. n \in ULong
  <2>1. cx[1] + div \in Int
    BY <1>6, <1>10, LongWord DEF ULong
  <2>. QED  BY <2>1, ModWord
<1>. HIDE DEF n
<1>12. << hi, lo >> \in Chunk /\ hi \in ULong /\ lo \in ULong
  <2>1. Product(cx[1], cl) \in Chunk
    BY <1>6, <1>8, ProductIs
  <2>2. << hi, lo >> \in Chunk
    BY <2>1 DEF Product
  <2>. HIDE DEF hi, lo
  <2>. QED  BY <2>2 DEF Chunk
<1>. HIDE DEF hi, lo
<1>13. al \in ULong /\ ah \in ULong
  <2>. DEFINE p == IF o.shuffle THEN XorLong(hi, mem[Beside(j, 2)][1]) ELSE hi
              q == IF o.shuffle THEN XorLong(lo, mem[Beside(j, 2)][2]) ELSE lo
  <2>1. p \in ULong /\ q \in ULong
    BY <1>7, <1>12, XorLongIs
  <2>. HIDE DEF p, q
  <2>2. m.al + p \in Int /\ m.ah + q \in Int
    BY <1>1, <2>1, LongWord DEF ULong
  <2>3. (m.al + p) % Word \in ULong /\ (m.ah + q) % Word \in ULong
    BY <2>2, ModWord
  <2>. QED  BY <2>3 DEF p, q
<1>. HIDE DEF al, ah
<1>14. << al, ah >> \in Chunk
  BY <1>13 DEF Chunk
<1>15. Put(Shuffled(o, mem, j, << hi, lo >>, l), j, << al, ah >>) \in Mems
  <2>1. Shuffled(o, mem, j, << hi, lo >>, l) \in Mems
    BY <1>1, <1>2, <1>5, <1>6, <1>12, ShuffledIs
  <2>. QED  BY <1>6, <1>14, <2>1, Stored
<1>16. /\ XorLong(al, cl) \in ULong /\ XorLong(ah, mem[j][2]) \in ULong
       /\ ChunkOf(XorLong(al, cl)) \in ChunkNos
  BY <1>7, <1>8, <1>13, XorLongIs, ChunkOfIs
<1>17. IntSqrt(n) \in Int
  BY <1>11, IntSqrtIs
<1>18. exact \in BOOLEAN
  BY <1>1
<1>. HIDE DEF exact
<1>19. next \in Cpus
  BY <1>1, <1>3, <1>10, <1>15, <1>16, <1>17, <1>18 DEF Cpus
<1>. QED  BY <1>0, <1>19

\* The same two halves on the CPU.
CpuShuffled(m) == [bx0 |-> m.bx0, bx1 |-> m.bx1, a |-> << m.al, m.ah >>]
CpuChunk(m)    == AesRound(m.mem[m.idx], << m.al, m.ah >>)
CpuPad(o, m)   == Put(Shuffled(o, m.mem, m.idx, Zero, CpuShuffled(m)), m.idx,
                      XorChunk(m.bx0, CpuChunk(m)))
CpuSecondHalf(o, m, cx, mem) ==
  LET j   == ChunkOf(cx[1])
      cl  == IF o.intMath THEN XorLong(mem[j][1], XorLong(m.div, (m.sqrt * K) % Word))
             ELSE mem[j][1]
      d   == WithEnds((cx[1] + 2 * m.sqrt) % K)
      div == IF o.intMath THEN ((cx[2] \div d) % K) + (cx[2] % d) * K ELSE m.div
      n   == (cx[1] + div) % Word
      t   == Product(cx[1], cl)
      al  == (m.al + (IF o.shuffle THEN XorLong(t[1], mem[Beside(j, 2)][1]) ELSE t[1])) % Word
      ah  == (m.ah + (IF o.shuffle THEN XorLong(t[2], mem[Beside(j, 2)][2]) ELSE t[2])) % Word
  IN  [mem |-> Put(Shuffled(o, mem, j, t, CpuShuffled(m)), j, << al, ah >>),
       al |-> XorLong(al, cl), ah |-> XorLong(ah, mem[j][2]), idx |-> ChunkOf(XorLong(al, cl)),
       bx0 |-> cx, bx1 |-> IF o.shuffle THEN m.bx0 ELSE m.bx1,
       div |-> div, sqrt |-> IF o.intMath THEN IntSqrt(n) ELSE m.sqrt,
       exact |-> m.exact /\ (o.intMath => IsRoot(n, IntSqrt(n) % K))]

LEMMA CpuIs ==
  ASSUME NEW o, NEW m
  PROVE  CpuIteration(o, m) = CpuSecondHalf(o, m, CpuChunk(m), CpuPad(o, m))
<1>. DEFINE cx  == CpuChunk(m)
            mem == CpuPad(o, m)
            j   == ChunkOf(cx[1])
            cl  == IF o.intMath THEN XorLong(mem[j][1], XorLong(m.div, (m.sqrt * K) % Word))
                   ELSE mem[j][1]
            d   == WithEnds((cx[1] + 2 * m.sqrt) % K)
            div == IF o.intMath THEN ((cx[2] \div d) % K) + (cx[2] % d) * K ELSE m.div
            n   == (cx[1] + div) % Word
            t   == Product(cx[1], cl)
            hi  == (cx[1] * cl) \div Word
            lo  == (cx[1] * cl) % Word
            al(x) == (m.al + (IF o.shuffle THEN XorLong(x, mem[Beside(j, 2)][1]) ELSE x)) % Word
            ah(x) == (m.ah + (IF o.shuffle THEN XorLong(x, mem[Beside(j, 2)][2]) ELSE x)) % Word
            after(x, y, z) ==
              [mem |-> Put(Shuffled(o, mem, j, x, CpuShuffled(m)), j, << al(y), ah(z) >>),
               al |-> XorLong(al(y), cl), ah |-> XorLong(ah(z), mem[j][2]),
               idx |-> ChunkOf(XorLong(al(y), cl)),
               bx0 |-> cx, bx1 |-> IF o.shuffle THEN m.bx0 ELSE m.bx1,
               div |-> div, sqrt |-> IF o.intMath THEN IntSqrt(n) ELSE m.sqrt,
               exact |-> m.exact /\ (o.intMath => IsRoot(n, IntSqrt(n) % K))]
<1>1. t = << hi, lo >> /\ t[1] = hi /\ t[2] = lo
  BY DEF Product
<1>2. CpuIteration(o, m) = after(<< hi, lo >>, hi, lo)
  BY DEF CpuIteration, CpuPad, CpuChunk, CpuShuffled
<1>3. CpuSecondHalf(o, m, cx, mem) = after(t, t[1], t[2])
  BY DEF CpuSecondHalf
<1>. HIDE DEF t, hi, lo, after, cx, mem
<1>4. after(t, t[1], t[2]) = after(<< hi, lo >>, hi, lo)
  BY <1>1
<1>. QED  BY <1>2, <1>3, <1>4 DEF cx, mem

\* A root that is not the right one is not forgotten.
LEMMA ExactBefore ==
  ASSUME NEW o, NEW m \in Cpus, CpuIteration(o, m).exact
  PROVE  m.exact
<1>1. \E e : CpuIteration(o, m).exact = (m.exact /\ e)
  BY CpuIs DEF CpuSecondHalf
<1>. QED  BY <1>1

\* An iteration of cn1 and one of the CPU that begin at the same point end at the same point: the
\* quotient and the root are exact on both sides, and what the CPU has more of them it drops.
LEMMA SameIteration ==
  ASSUME AesGivesChunks, NEW o \in Options, NEW m \in Cpus, NEW mem \in Mems, NEW l \in Loops,
         l.i < Iterations, Same(o, m, mem, l), CpuIteration(o, m).exact
  PROVE  LET next == AmdIteration(o, mem, l)
         IN  m.exact /\ Same(o, CpuIteration(o, m), next.mem, next.loop)
<1>. DEFINE k   == CpuShuffled(m)
            i   == ChunkOf(l.a[1])
            c   == FirstChunk(mem, l)
            pad1 == FirstPad(o, mem, l)
            j   == ChunkOf(c[1])
            x   == pad1[j]
            mix == MixIn(o, c, x, l)
            cl  == IF o.intMath THEN XorLong(x[1], XorLong(m.div, (m.sqrt * K) % Word)) ELSE x[1]
            d   == WithEnds((c[1] + 2 * m.sqrt) % K)
            div == IF o.intMath THEN ((c[2] \div d) % K) + (c[2] % d) * K ELSE m.div
            n   == (c[1] + div) % Word
            t   == Product(c[1], cl)
            side == pad1[Beside(j, 2)]
            al  == (m.al + (IF o.shuffle THEN XorLong(t[1], side[1]) ELSE t[1])) % Word
            ah  == (m.ah + (IF o.shuffle THEN XorLong(t[2], side[2]) ELSE t[2])) % Word
            next == CpuIteration(o, m)
            half == AmdIteration(o, mem, l)
            exact == m.exact /\ (o.intMath => IsRoot(n, IntSqrt(n) % K))
            a   == AddChunk(l.a, IF o.shuffle THEN XorChunk(t, side) ELSE t)
<1>1. /\ m.mem = mem /\ m.al = l.a[1] /\ m.ah = l.a[2] /\ m.idx = i /\ m.bx0 = l.bx0
      /\ o.shuffle => m.bx1 = l.bx1
      /\ o.intMath => m.div = l.div[1] + K * l.div[2] /\ m.sqrt % K = l.sqrt
  BY DEF Same
<1>2. /\ l.a \in Chunk /\ l.a = << l.a[1], l.a[2] >> /\ l.div[1] \in UInt /\ l.div[2] \in UInt
      /\ l.sqrt \in UInt /\ m.sqrt \in Int /\ m.exact \in BOOLEAN
      /\ o.intMath \in BOOLEAN /\ o.shuffle \in BOOLEAN
  BY OptionAssumption DEF Loops, Chunk, Cpus
<1>3. << m.al, m.ah >> = l.a /\ k.a = l.a /\ k.bx0 = m.bx0 /\ k.bx1 = m.bx1
  BY <1>1, <1>2 DEF CpuShuffled
<1>4. CpuChunk(m) = c
  BY <1>1, <1>3 DEF CpuChunk, FirstChunk
<1>5. CpuPad(o, m) = pad1
  <2>1. l.a = k.a /\ l.bx0 = k.bx0 /\ (o.shuffle => l.bx1 = k.bx1)
    BY <1>1, <1>3
  <2>. HIDE DEF k
  <2>2. Shuffled(o, m.mem, m.idx, Zero, k) = Shuffled(o, mem, i, Zero, l)
    BY <1>1, <2>1, SameShuffle
  <2>. QED  BY <1>1, <1>4, <2>2 DEF CpuPad, FirstPad, k
<1>6. next = CpuSecondHalf(o, m, c, pad1)
  <2>. HIDE DEF c, pad1
  <2>. QED  BY <1>4, <1>5, CpuIs
<1>7. next = [mem |-> Put(Shuffled(o, pad1, j, t, k), j, << al, ah >>),
              al |-> XorLong(al, cl), ah |-> XorLong(ah, x[2]), idx |-> ChunkOf(XorLong(al, cl)),
              bx0 |-> c, bx1 |-> IF o.shuffle THEN m.bx0 ELSE m.bx1,
              div |-> div, sqrt |-> IF o.intMath THEN IntSqrt(n) ELSE m.sqrt,
              exact |-> exact]
  <2>. HIDE DEF c, pad1, next
  <2>. QED  BY <1>6 DEF CpuSecondHalf
<1>8. c \in Chunk /\ pad1 \in Mems /\ j \in ChunkNos
  BY FirstHalfIs
<1>9. half = SecondHalf(o, pad1, j, c, l)
  BY AmdIs
<1>. HIDE DEF c, pad1
<1>10. c[1] \in ULong /\ c[2] \in ULong
  BY <1>8 DEF Chunk
<1>. HIDE DEF j
<1>11. x \in Chunk /\ side \in Chunk /\ x[1] \in ULong
  <2>1. \A y \in ChunkNos : pad1[y] \in Chunk
    BY <1>8 DEF Mems
  <2>2. \A y \in Chunk : y[1] \in ULong
    BY DEF Chunk
  <2>3. 2 \in 0 .. 3
    OBVIOUS
  <2>4. Beside(j, 2) \in ChunkNos
    BY <1>8, <2>3, BesideIs
  <2>. QED  BY <1>8, <2>1, <2>2, <2>4
<1>. HIDE DEF side, x
<1>12. o.intMath => d = Divisor(c, l.sqrt)
  <2>. SUFFICES ASSUME o.intMath PROVE d = Divisor(c, l.sqrt)
    OBVIOUS
  <2>1. c[1] \in Int
    BY <1>10, LongWord DEF ULong
  <2>2. (c[1] + 2 * (m.sqrt % K)) % K = (c[1] + 2 * m.sqrt) % K
    BY <1>2, <2>1, Doubled
  <2>. QED  BY <1>1, <2>2 DEF Divisor
<1>13. MixedIn(o, c, x, l, d, mix)
  <2>. HIDE DEF d
  <2>1. MixedIn(o, c, x, l, Divisor(c, l.sqrt), mix)
    BY <1>8, <1>11, MixInIs
  <2>2. CASE o.intMath
    BY <1>12, <2>1, <2>2
  <2>3. CASE ~o.intMath
    BY <2>1, <2>3 DEF MixedIn
  <2>. QED  BY <2>2, <2>3
<1>14. o.intMath => XorLong(m.div, (m.sqrt * K) % Word) = l.div[1] + K * XorUInt(l.div[2], l.sqrt)
  <2>. SUFFICES ASSUME o.intMath
                PROVE  XorLong(m.div, (m.sqrt * K) % Word) = l.div[1] + K * XorUInt(l.div[2], l.sqrt)
    OBVIOUS
  <2>1. (m.sqrt * K) % Word = l.sqrt * K
    BY <1>1, <1>2, Lifted
  <2>2. XorLong(l.div[1] + K * l.div[2], l.sqrt * K) = l.div[1] + K * XorUInt(l.div[2], l.sqrt)
    BY <1>2, XorWithHigh
  <2>. QED  BY <1>1, <2>1, <2>2
<1>. HIDE DEF mix
<1>15. mix.tmp[1] = cl /\ mix.tmp = << cl, x[2] >>
  <2>1. mix.tmp[1] = cl
    BY <1>2, <1>13, <1>14 DEF MixedIn
  <2>2. \A y \in Chunk : y = << y[1], y[2] >>
    BY DEF Chunk
  <2>. QED  BY <1>13, <2>1, <2>2 DEF MixedIn
<1>16. o.intMath => /\ div = mix.div[1] + K * mix.div[2]
                    /\ n = (c[1] + mix.div[1] + K * mix.div[2]) % Word
  <2>. SUFFICES ASSUME o.intMath
                PROVE  /\ div = mix.div[1] + K * mix.div[2]
                       /\ n = (c[1] + mix.div[1] + K * mix.div[2]) % Word
    OBVIOUS
  <2>. HIDE DEF d
  <2>. DEFINE q == (c[2] \div d) % K
              r == c[2] % d
  <2>1. mix.div[1] = q /\ mix.div[2] = r /\ q \in UInt /\ r \in UInt
    BY <1>13 DEF MixedIn
  <2>2. div = q + r * K
    OBVIOUS
  <2>. HIDE DEF q, r, div
  <2>3. r * K = K * r /\ c[1] + (q + K * r) = c[1] + q + K * r
    BY <1>10, <2>1, LongWord DEF UInt, ULong
  <2>. QED  BY <2>1, <2>2, <2>3
<1>17. << al, ah >> = a
  <2>. HIDE DEF t
  <2>. QED  BY <1>1, <1>2 DEF AddChunk, XorChunk
<1>18. /\ half.mem = Put(Shuffled(o, pad1, j, t, l), j, a)
       /\ half.loop.a = XorChunk(a, mix.tmp) /\ half.loop.bx0 = c /\ half.loop.bx1 = l.bx0
       /\ half.loop.div = mix.div /\ half.loop.sqrt = mix.sqrt
  BY <1>9, <1>15 DEF SecondHalf, mix, x, side
<1>. HIDE DEF half
<1>19. Shuffled(o, pad1, j, t, k) = Shuffled(o, pad1, j, t, l)
  <2>1. l.a = k.a /\ l.bx0 = k.bx0 /\ (o.shuffle => l.bx1 = k.bx1)
    BY <1>1, <1>3
  <2>. HIDE DEF k, t
  <2>. QED  BY <2>1, SameShuffle
<1>20. m.exact /\ (o.intMath => IsRoot(n, IntSqrt(n) % K))
  <2>. HIDE DEF exact
  <2>1. next.exact = exact
    BY <1>7
  <2>. QED  BY <2>1 DEF exact
<1>21. o.intMath => IntSqrt(n) % K = mix.sqrt
  <2>. SUFFICES ASSUME o.intMath PROVE IntSqrt(n) % K = mix.sqrt
    OBVIOUS
  <2>1. mix.div[1] \in Int /\ mix.div[2] \in Int
    BY <1>13, LongWord DEF UInt, MixedIn
  <2>2. n \in ULong /\ IsRoot(n, mix.sqrt)
    <3>1. c[1] + mix.div[1] + K * mix.div[2] \in Int
      BY <1>10, <2>1, LongWord DEF ULong
    <3>2. (c[1] + mix.div[1] + K * mix.div[2]) % Word \in ULong
      BY <3>1, ModWord
    <3>. HIDE DEF n
    <3>. QED  BY <1>13, <1>16, <3>2 DEF MixedIn
  <2>. HIDE DEF n
  <2>3. IntSqrt(n) % K \in UInt
    BY <2>2, IntSqrtIs, ModWord
  <2>. QED  BY <1>13, <1>20, <2>2, <2>3, OneRoot DEF MixedIn
<1>. HIDE DEF n, div, t, cl, d, k, a, al, ah
<1>22. XorChunk(a, mix.tmp) = << XorLong(al, cl), XorLong(ah, x[2]) >>
  <2>1. XorChunk(<< al, ah >>, << cl, x[2] >>) = << XorLong(al, cl), XorLong(ah, x[2]) >>
    BY DEF XorChunk
  <2>. QED  BY <1>15, <1>17, <2>1
<1>23. /\ next.mem = Put(Shuffled(o, pad1, j, t, k), j, << al, ah >>)
       /\ next.al = XorLong(al, cl) /\ next.ah = XorLong(ah, x[2])
       /\ next.idx = ChunkOf(XorLong(al, cl)) /\ next.bx0 = c
       /\ next.bx1 = IF o.shuffle THEN m.bx0 ELSE m.bx1
       /\ next.div = div /\ next.sqrt = IF o.intMath THEN IntSqrt(n) ELSE m.sqrt
  BY <1>7
<1>. HIDE DEF next
<1>24. Same(o, next, half.mem, half.loop)
  BY <1>1, <1>16, <1>17, <1>18, <1>19, <1>21, <1>22, <1>23 DEF Same
<1>. QED  BY <1>20, <1>24 DEF half, next

-----------------------------------------------------------------------------
(* Working on a line and writing it back is working on the scratchpad.      *)
Lines == [0 .. 3 -> Chunk]
At(i, y) == 4 * (i \div 4) + y

LEMMA LineIs ==
  ASSUME NEW mem \in Mems, NEW i \in ChunkNos
  PROVE  /\ ReadLine(mem, i) \in Lines
         /\ \A y \in 0 .. 3 : ReadLine(mem, i)[y] = mem[At(i, y)]
         /\ i = At(i, i % 4) /\ i % 4 \in 0 .. 3
         /\ WriteLine(mem, i, ReadLine(mem, i)) = mem
<1>1. /\ i % 4 \in 0 .. 3 /\ i = At(i, i % 4) /\ i - (i % 4) = 4 * (i \div 4)
      /\ \A y \in 0 .. 3 : At(i, y) \in ChunkNos
  <2>1. i % 4 \in 0 .. 3 /\ i \div 4 \in Nat /\ i = 4 * (i \div 4) + (i % 4)
    <3>1. 0 \in 0 .. 3
      OBVIOUS
    <3>. QED  BY <3>1, Line
  <2>2. \A y \in 0 .. 3 : At(i, y) \in ChunkNos
    BY Line DEF At
  <2>. QED  BY <2>1, <2>2 DEF At
<1>2. \A y \in 0 .. 3 : ReadLine(mem, i)[y] = mem[At(i, y)]
  BY <1>1 DEF ReadLine, At
<1>3. ReadLine(mem, i) \in Lines
  BY <1>1 DEF ReadLine, Lines, Mems, At
<1>4. ASSUME NEW x \in ChunkNos, x \div 4 = i \div 4 PROVE ReadLine(mem, i)[x % 4] = mem[x]
  <2>1. 0 \in 0 .. 3
    OBVIOUS
  <2>2. x % 4 \in 0 .. 3 /\ x = 4 * (x \div 4) + (x % 4)
    BY <2>1, Line
  <2>. QED  BY <1>2, <1>4, <2>2 DEF At
<1>5. WriteLine(mem, i, ReadLine(mem, i)) = [x \in ChunkNos |-> mem[x]]
  BY <1>4 DEF WriteLine
<1>. QED  BY <1>1, <1>2, <1>3, <1>5 DEF Mems

LEMMA LinePut ==
  ASSUME NEW mem \in Mems, NEW i \in ChunkNos, NEW f \in Lines, NEW y \in 0 .. 3, NEW v
  PROVE  WriteLine(mem, i, [f EXCEPT ![y] = v]) = [WriteLine(mem, i, f) EXCEPT ![At(i, y)] = v]
<1>1. At(i, y) \in ChunkNos /\ At(i, y) \div 4 = i \div 4 /\ At(i, y) % 4 = y
  BY Line DEF At
<1>. DEFINE g == [f EXCEPT ![y] = v]
<1>2. ASSUME NEW x \in ChunkNos
      PROVE  (IF x \div 4 = i \div 4 THEN g[x % 4] ELSE mem[x])
               = IF x = At(i, y) THEN v ELSE IF x \div 4 = i \div 4 THEN f[x % 4] ELSE mem[x]
  <2>1. 0 \in 0 .. 3
    OBVIOUS
  <2>2. x % 4 \in 0 .. 3 /\ x = 4 * (x \div 4) + (x % 4)
    BY <2>1, Line
  <2>3. CASE x = At(i, y)
    BY <1>1, <2>3 DEF Lines
  <2>4. CASE x # At(i, y) /\ x \div 4 = i \div 4
    <3>1. x % 4 # y
      BY <2>2, <2>4 DEF At
    <3>. QED  BY <2>2, <2>4, <3>1 DEF Lines
  <2>5. CASE x # At(i, y) /\ x \div 4 # i \div 4
    BY <2>5
  <2>. QED  BY <2>3, <2>4, <2>5
<1>. HIDE DEF g
<1>3. WriteLine(mem, i, g) = [WriteLine(mem, i, f) EXCEPT ![At(i, y)] = v]
  BY <1>2 DEF WriteLine
<1>. QED  BY <1>3 DEF g

LEMMA ShuffledLine ==
  ASSUME NEW o, NEW mem \in Mems, NEW i \in ChunkNos, NEW x \in Chunk, NEW l \in Loops, NEW v
  PROVE  WriteLine(mem, i, Put(Shuffled(o, ReadLine(mem, i), i % 4, x, l), i % 4, v))
           = Put(Shuffled(o, mem, i, x, l), i, v)
<1>. DEFINE line == ReadLine(mem, i)
            b1 == Beside(i % 4, 1)
            b2 == Beside(i % 4, 2)
            b3 == Beside(i % 4, 3)
            p1 == Beside(i, 1)
            p2 == Beside(i, 2)
            p3 == Beside(i, 3)
<1>b. \A f \in Lines, y \in 0 .. 3 : \A u :
        WriteLine(mem, i, [f EXCEPT ![y] = u]) = [WriteLine(mem, i, f) EXCEPT ![At(i, y)] = u]
  BY LinePut
<1>1. /\ line \in Lines /\ i % 4 \in 0 .. 3 /\ i = At(i, i % 4)
      /\ \A y \in 0 .. 3 : line[y] = mem[At(i, y)]
      /\ WriteLine(mem, i, line) = mem
  BY LineIs
<1>. HIDE DEF line
<1>2. ASSUME NEW c \in 0 .. 3
      PROVE  /\ Beside(i % 4, c) \in 0 .. 3 /\ Beside(i, c) = At(i, Beside(i % 4, c))
             /\ Beside(i, c) \in ChunkNos /\ mem[Beside(i, c)] \in Chunk
             /\ line[Beside(i % 4, c)] = mem[Beside(i, c)]
  <2>1. (i % 4) \div 4 = 0 /\ (i % 4) % 4 = i % 4
    BY <1>1
  <2>2. XorUInt(i % 4, c) \in 0 .. 3 /\ Beside(i, c) \in ChunkNos
    BY BesideIs
  <2>3. Beside(i % 4, c) = XorUInt(i % 4, c)
    BY <2>1, <2>2 DEF Beside
  <2>4. Beside(i, c) = At(i, Beside(i % 4, c))
    BY <2>3 DEF Beside, At
  <2>. QED  BY <1>1, <2>2, <2>3, <2>4 DEF Mems
<1>3. /\ b1 \in 0 .. 3 /\ p1 = At(i, b1) /\ mem[p1] \in Chunk /\ line[b1] = mem[p1]
      /\ b2 \in 0 .. 3 /\ p2 = At(i, b2) /\ mem[p2] \in Chunk /\ line[b2] = mem[p2]
      /\ b3 \in 0 .. 3 /\ p3 = At(i, b3) /\ mem[p3] \in Chunk /\ line[b3] = mem[p3]
  <2>1. 1 \in 0 .. 3 /\ 2 \in 0 .. 3 /\ 3 \in 0 .. 3
    OBVIOUS
  <2>. QED  BY <1>2, <2>1
<1>. DEFINE v1 == AddChunk(mem[p3], l.bx1)
            v2 == AddChunk(XorChunk(mem[p1], x), l.bx0)
            v3 == AddChunk(mem[p2], l.a)
            f1 == [line EXCEPT ![b1] = v1]
            f2 == [f1 EXCEPT ![b2] = v2]
            f3 == [f2 EXCEPT ![b3] = v3]
            m1 == [mem EXCEPT ![p1] = v1]
            m2 == [m1 EXCEPT ![p2] = v2]
            m3 == [m2 EXCEPT ![p3] = v3]
<1>4. v1 \in Chunk /\ v2 \in Chunk /\ v3 \in Chunk
  <2>1. l.a \in Chunk /\ l.bx0 \in Chunk /\ l.bx1 \in Chunk
    BY DEF Loops
  <2>. HIDE DEF p1, p2, p3
  <2>. QED  BY <1>3, <2>1, ChunksOfWords
<1>5. Shuffled(o, mem, i, x, l) = IF ~o.shuffle THEN mem ELSE m3
  BY DEF Shuffled
<1>6. Shuffled(o, line, i % 4, x, l) = IF ~o.shuffle THEN line ELSE f3
  <2>1. Shuffled(o, line, i % 4, x, l) =
          IF ~o.shuffle THEN line
          ELSE [line EXCEPT ![b1] = AddChunk(line[b3], l.bx1),
                            ![b2] = AddChunk(XorChunk(line[b1], x), l.bx0),
                            ![b3] = AddChunk(line[b2], l.a)]
    BY DEF Shuffled
  <2>. HIDE DEF b1, b2, b3, p1, p2, p3
  <2>2. /\ AddChunk(line[b3], l.bx1) = v1 /\ AddChunk(XorChunk(line[b1], x), l.bx0) = v2
        /\ AddChunk(line[b2], l.a) = v3
    BY <1>3
  <2>. HIDE DEF v1, v2, v3
  <2>. QED  BY <2>1, <2>2
<1>. HIDE DEF v1, v2, v3, b1, b2, b3, p1, p2, p3
<1>7. f1 \in Lines /\ f2 \in Lines /\ f3 \in Lines
  BY <1>1, <1>3, <1>4 DEF Lines
<1>. HIDE DEF f1, f2, f3, m1, m2, m3
<1>8. WriteLine(mem, i, f1) = m1
  <2>. HIDE DEF line
  <2>1. WriteLine(mem, i, [line EXCEPT ![b1] = v1]) = [WriteLine(mem, i, line) EXCEPT ![At(i, b1)] = v1]
    BY <1>b, <1>1, <1>3
  <2>. QED  BY <1>1, <1>3, <2>1 DEF f1, m1
<1>9. WriteLine(mem, i, f2) = m2
  <2>1. WriteLine(mem, i, [f1 EXCEPT ![b2] = v2]) = [WriteLine(mem, i, f1) EXCEPT ![At(i, b2)] = v2]
    BY <1>b, <1>3, <1>7
  <2>. QED  BY <1>3, <1>8, <2>1 DEF f2, m2
<1>10. WriteLine(mem, i, f3) = m3
  <2>1. WriteLine(mem, i, [f2 EXCEPT ![b3] = v3]) = [WriteLine(mem, i, f2) EXCEPT ![At(i, b3)] = v3]
    BY <1>b, <1>3, <1>7
  <2>. QED  BY <1>3, <1>9, <2>1 DEF f3, m3
<1>11. ASSUME NEW f \in Lines
       PROVE  WriteLine(mem, i, Put(f, i % 4, v)) = Put(WriteLine(mem, i, f), i, v)
  <2>1. WriteLine(mem, i, [f EXCEPT ![i % 4] = v]) = [WriteLine(mem, i, f) EXCEPT ![At(i, i % 4)] = v]
    BY <1>1, LinePut
  <2>. QED  BY <1>1, <2>1 DEF Put
<1>12. Shuffled(o, line, i % 4, x, l) \in Lines
       /\ WriteLine(mem, i, Shuffled(o, line, i % 4, x, l)) = Shuffled(o, mem, i, x, l)
  BY <1>1, <1>5, <1>6, <1>7, <1>10
<1>. QED  BY <1>11, <1>12 DEF line

\* The second line is read after the first has been written, so that it makes no difference
\* whether the two halves of an iteration are on the same line.
LEMMA NvidiaIs ==
  ASSUME AesGivesChunks, NEW o, NEW mem \in Mems, NEW l \in Loops
  PROVE  NvidiaIteration(o, mem, l) = AmdIteration(o, mem, l)
<1>. DEFINE i    == ChunkOf(l.a[1])
            c    == FirstChunk(mem, l)
            line == ReadLine(mem, i)
            mem1 == FirstPad(o, mem, l)
            j    == ChunkOf(c[1])
            half == SecondHalf(o, ReadLine(mem1, j), j % 4, c, l)
<1>1. i \in ChunkNos /\ c \in Chunk /\ mem1 \in Mems /\ j \in ChunkNos /\ Zero \in Chunk
  <2>1. 0 \in ULong
    BY LongWord DEF ULong
  <2>. QED  BY <2>1, FirstHalfIs DEF Zero, Chunk
<1>2. AesRound(line[i % 4], l.a) = c
  <2>1. line[i % 4] = mem[i]
    <3>. HIDE DEF i
    <3>. QED  BY <1>1, LineIs
  <2>. QED  BY <2>1 DEF FirstChunk
<1>3. WriteLine(mem, i, Put(Shuffled(o, line, i % 4, Zero, l), i % 4, XorChunk(l.bx0, c))) = mem1
  <2>1. mem1 = Put(Shuffled(o, mem, i, Zero, l), i, XorChunk(l.bx0, c))
    BY DEF FirstPad
  <2>. HIDE DEF i, c, mem1
  <2>. QED  BY <1>1, <2>1, ShuffledLine
<1>4. NvidiaIteration(o, mem, l) = [half EXCEPT !.mem = WriteLine(mem1, j, half.mem)]
  <2>1. NvidiaIteration(o, mem, l) =
          LET cc == AesRound(line[i % 4], l.a)
              m1 == WriteLine(mem, i, Put(Shuffled(o, line, i % 4, Zero, l), i % 4, XorChunk(l.bx0, cc)))
              jj == ChunkOf(cc[1])
              h  == SecondHalf(o, ReadLine(m1, jj), jj % 4, cc, l)
          IN  [h EXCEPT !.mem = WriteLine(m1, jj, h.mem)]
    BY DEF NvidiaIteration
  <2>. HIDE DEF i, c, line, mem1
  <2>. QED  BY <1>2, <1>3, <2>1
<1>5. AmdIteration(o, mem, l) = SecondHalf(o, mem1, j, c, l)
  BY AmdIs
<1>. HIDE DEF i, c, mem1, j
<1>. DEFINE m  == MixIn(o, c, mem1[j], l)
            t  == Product(c[1], m.tmp[1])
            a  == AddChunk(l.a, IF o.shuffle THEN XorChunk(t, mem1[Beside(j, 2)]) ELSE t)
            ml == [i |-> l.i + 1, a |-> XorChunk(a, m.tmp), bx0 |-> c, bx1 |-> l.bx0,
                   div |-> m.div, sqrt |-> m.sqrt]
            rest == ReadLine(mem1, j)
<1>6. SecondHalf(o, mem1, j, c, l) = [mem |-> Put(Shuffled(o, mem1, j, t, l), j, a), loop |-> ml]
  BY DEF SecondHalf
<1>7. rest[j % 4] = mem1[j] /\ rest[Beside(j % 4, 2)] = mem1[Beside(j, 2)]
  <2>1. /\ j % 4 \in 0 .. 3 /\ j = At(j, j % 4)
        /\ \A y \in 0 .. 3 : rest[y] = mem1[At(j, y)]
    BY <1>1, LineIs
  <2>2. (j % 4) \div 4 = 0 /\ (j % 4) % 4 = j % 4
    BY <2>1
  <2>3. XorUInt(j % 4, 2) \in 0 .. 3
    BY <2>1, XorAssumption
  <2>4. Beside(j % 4, 2) = XorUInt(j % 4, 2) /\ Beside(j, 2) = At(j, XorUInt(j % 4, 2))
    BY <2>2, <2>3 DEF Beside, At
  <2>. HIDE DEF rest
  <2>. QED  BY <2>1, <2>3, <2>4
<1>. HIDE DEF rest
<1>8. half = [mem |-> Put(Shuffled(o, rest, j % 4, t, l), j % 4, a), loop |-> ml]
  <2>1. half = SecondHalf(o, rest, j % 4, c, l)
    BY DEF rest
  <2>. HIDE DEF half
  <2>. QED  BY <1>7, <2>1 DEF SecondHalf
<1>9. t \in Chunk
  <2>1. m.tmp \in Chunk
    BY <1>1, MixInIs DEF MixedIn, Mems
  <2>. HIDE DEF m
  <2>2. c[1] \in ULong /\ m.tmp[1] \in ULong
    BY <1>1, <2>1 DEF Chunk
  <2>. QED  BY <2>2, ProductIs
<1>. HIDE DEF half, t, a, ml
<1>10. WriteLine(mem1, j, half.mem) = Put(Shuffled(o, mem1, j, t, l), j, a)
  <2>1. half.mem = Put(Shuffled(o, ReadLine(mem1, j), j % 4, t, l), j % 4, a)
    BY <1>8 DEF rest
  <2>. QED  BY <1>1, <1>9, <2>1, ShuffledLine
<1>. QED  BY <1>4, <1>5, <1>6, <1>8, <1>10

\* Both versions of cn1 make the same of a nonce's loop.
LEMMA Cn1Is ==
  ASSUME AesGivesChunks, NEW o, NEW mem \in Mems, NEW l \in Loops
  PROVE  Cn1Iteration(o, mem, l) = AmdIteration(o, mem, l)
BY NvidiaIs DEF Cn1Iteration

-----------------------------------------------------------------------------
(* The CPU's loops, pass by pass.  Each is a recursive function: that there *)
(* is one follows by induction, on the members of a set of numbers.         *)
LEMMA SetInduction ==
  ASSUME NEW S, 0 \in S, \A n \in Nat : n \in S => n + 1 \in S
  PROVE  Nat \subseteq S
<1>. SUFFICES ASSUME ~(Nat \subseteq S) PROVE FALSE
  OBVIOUS
<1>. DEFINE T == Nat \ S
<1>1. PICK x \in T : \A y \in T : x <= y
  BY LeastNumber
<1>2. x # 0 /\ x - 1 \in Nat /\ x - 1 \notin T
  BY <1>1
<1>. QED  BY <1>2

Looped(o, s) ==
  LET m[i \in 0 .. Iterations] == IF i = 0 THEN CpuStart(s) ELSE CpuIteration(o, m[i - 1])
  IN  m

Exploded(s) ==
  LET xin[i \in 0 .. Rounds] ==
        [j \in LaneNos |-> IF i = 0 THEN StateChunk(s, j + 4)
                           ELSE AesRounds(xin[i - 1][j], Key1(s))]
  IN  xin

Imploded(mem, s) ==
  LET xout[i \in 0 .. Rounds] ==
        [j \in LaneNos |->
           IF i = 0 THEN StateChunk(s, j + 4)
           ELSE AesRounds(XorChunk(mem[(i - 1) * Lanes + j], xout[i - 1][j]), Key2(s))]
  IN  xout

LEMMA LoopedIs ==
  ASSUME NEW o, NEW s
  PROVE  /\ Looped(o, s)[0] = CpuStart(s)
         /\ \A i \in 1 .. Iterations : Looped(o, s)[i] = CpuIteration(o, Looped(o, s)[i - 1])
         /\ CpuLoop(o, s) = Looped(o, s)[Iterations]
<1>. DEFINE pass(x)   == CpuIteration(o, x)
            rec(g, n) == g = [i \in 0 .. n |-> IF i = 0 THEN CpuStart(s) ELSE pass(g[i - 1])]
            S == {n \in Nat : \E g : rec(g, n)}
<1>1. Looped(o, s) = CHOOSE g : rec(g, Iterations)
  BY DEF Looped
<1>2. CpuLoop(o, s) = Looped(o, s)[Iterations]
  BY DEF CpuLoop, Looped
<1>. HIDE DEF pass
<1>3. 0 \in S
  <2>. DEFINE g == [i \in 0 .. 0 |-> CpuStart(s)]
  <2>1. rec(g, 0)
    OBVIOUS
  <2>. HIDE DEF g
  <2>. QED  BY <2>1
<1>4. ASSUME NEW n \in Nat, n \in S PROVE n + 1 \in S
  <2>1. PICK g : rec(g, n)
    BY <1>4
  <2>. DEFINE h == [i \in 0 .. n + 1 |-> IF i <= n THEN g[i] ELSE pass(g[n])]
  <2>2. ASSUME NEW i \in 0 .. n + 1
        PROVE  h[i] = IF i = 0 THEN CpuStart(s) ELSE pass(h[i - 1])
    <3>1. CASE i = 0
      BY <2>1, <3>1
    <3>2. CASE i \in 1 .. n
      <4>1. h[i] = g[i] /\ h[i - 1] = g[i - 1]
        BY <3>2
      <4>2. g[i] = pass(g[i - 1])
        BY <2>1, <3>2
      <4>. QED  BY <3>2, <4>1, <4>2
    <3>3. CASE i = n + 1
      <4>1. h[i] = pass(g[n]) /\ h[n] = g[n] /\ i - 1 = n /\ i # 0
        BY <3>3
      <4>. QED  BY <4>1
    <3>. QED  BY <3>1, <3>2, <3>3
  <2>3. h = [i \in 0 .. n + 1 |-> h[i]]
    OBVIOUS
  <2>. HIDE DEF h
  <2>4. rec(h, n + 1)
    BY <2>2, <2>3
  <2>. QED  BY <2>4
<1>. HIDE DEF S
<1>5. Iterations \in S
  BY <1>3, <1>4, SetInduction, ShapeAssumption
<1>6. \E g : rec(g, Iterations)
  BY <1>5 DEF S
<1>7. rec(Looped(o, s), Iterations)
  <2>. HIDE DEF rec
  <2>. QED  BY <1>1, <1>6
<1>8. \A i \in 0 .. Iterations :
        Looped(o, s)[i] = IF i = 0 THEN CpuStart(s) ELSE pass(Looped(o, s)[i - 1])
  BY <1>7
<1>9. 0 \in 0 .. Iterations /\ \A i \in 1 .. Iterations : i \in 0 .. Iterations /\ i # 0
  BY ShapeAssumption
<1>. QED  BY <1>2, <1>8, <1>9 DEF pass

-----------------------------------------------------------------------------
(* The passes over a scratchpad, lane by lane.                              *)

\* F is what a pass makes of each lane's chunk.
Passes(g, M, a, F) ==
  /\ g \in [0 .. M -> [LaneNos -> Chunk]]
  /\ g[0] = a
  /\ \A i \in 1 .. M : \A j \in LaneNos : g[i][j] = F[i][j][g[i - 1][j]]

PassSteps == [1 .. Rounds -> [LaneNos -> [Chunk -> Chunk]]]

LEMMA Shape ==
  /\ Lanes \in Nat \ {0} /\ Rounds \in Nat /\ Chunks = Rounds * Lanes /\ Chunks \in Nat \ {0}
  /\ 0 \in LaneNos
<1>1. Lanes \in Nat \ {0} /\ Chunks \in Nat \ {0} /\ Chunks % Lanes = 0 /\ Chunks \in Int
  BY ShapeAssumption, NonceAssumption
<1>2. Chunks = (Chunks \div Lanes) * Lanes + (Chunks % Lanes)
  BY <1>1, DivMod
<1>3. Chunks \div Lanes \in Nat
  BY <1>1, Division
<1>. QED  BY <1>1, <1>2, <1>3 DEF Rounds, LaneNos

LEMMA PassesExist ==
  ASSUME NEW a \in [LaneNos -> Chunk], NEW F \in PassSteps
  PROVE  \E g : Passes(g, Rounds, a, F)
<1>. DEFINE Upto(n) == \E g : Passes(g, n, a, F)
            S == {n \in Nat : n <= Rounds => Upto(n)}
<1>1. 0 \in S
  <2>. DEFINE g == [i \in 0 .. 0 |-> a]
  <2>1. g \in [0 .. 0 -> [LaneNos -> Chunk]] /\ g[0] = a /\ 1 .. 0 = {}
    OBVIOUS
  <2>. HIDE DEF g
  <2>2. Upto(0)
    BY <2>1 DEF Passes
  <2>. QED  BY <2>2
<1>2. ASSUME NEW n \in Nat, n \in S PROVE n + 1 \in S
  <2>. SUFFICES ASSUME n + 1 <= Rounds PROVE Upto(n + 1)
    OBVIOUS
  <2>0. n <= Rounds
    BY Shape
  <2>1. PICK g : Passes(g, n, a, F)
    BY <1>2, <2>0
  <2>. DEFINE top == [j \in LaneNos |-> F[n + 1][j][g[n][j]]]
              h == [i \in 0 .. n + 1 |-> IF i <= n THEN g[i] ELSE top]
  <2>2. top \in [LaneNos -> Chunk]
    <3>1. n + 1 \in 1 .. Rounds /\ g[n] \in [LaneNos -> Chunk]
      BY <2>1, Shape DEF Passes
    <3>2. F[n + 1] \in [LaneNos -> [Chunk -> Chunk]]
      BY <3>1 DEF PassSteps
    <3>. QED  BY <3>1, <3>2
  <2>. HIDE DEF top
  <2>3. h \in [0 .. n + 1 -> [LaneNos -> Chunk]] /\ h[0] = a
    BY <2>1, <2>2 DEF Passes
  <2>4. ASSUME NEW i \in 1 .. n + 1, NEW j \in LaneNos PROVE h[i][j] = F[i][j][h[i - 1][j]]
    <3>1. CASE i \in 1 .. n
      <4>1. h[i] = g[i] /\ h[i - 1] = g[i - 1]
        BY <3>1
      <4>2. g[i][j] = F[i][j][g[i - 1][j]]
        BY <2>1, <3>1 DEF Passes
      <4>. QED  BY <4>1, <4>2
    <3>2. CASE i = n + 1
      <4>1. h[i] = top /\ h[i - 1] = g[n] /\ top[j] = F[i][j][g[n][j]]
        BY <3>2 DEF top
      <4>. QED  BY <4>1
    <3>. QED  BY <3>1, <3>2
  <2>. HIDE DEF h
  <2>5. Passes(h, n + 1, a, F)
    BY <2>3, <2>4 DEF Passes
  <2>. QED  BY <2>5
<1>. HIDE DEF S
<1>3. Rounds \in S
  BY <1>1, <1>2, SetInduction, Shape
<1>. QED  BY <1>3, Shape DEF S

IsState(s) ==
  0 .. 13 \union 8 .. 2 * Lanes + 7 \subseteq DOMAIN s /\ \A w \in DOMAIN s : s[w] \in ULong

LEMMA StateIs ==
  ASSUME NEW s, IsState(s)
  PROVE  /\ \A j \in LaneNos : StateChunk(s, j + 4) \in Chunk
         /\ Key1(s) \in ULong \X ULong \X ULong \X ULong
         /\ Key2(s) \in ULong \X ULong \X ULong \X ULong
<1>1. \A w \in 0 .. 13 : s[w] \in ULong
  BY DEF IsState
<1>2. ASSUME NEW j \in LaneNos PROVE StateChunk(s, j + 4) \in Chunk
  <2>1. 2 * (j + 4) \in 8 .. 2 * Lanes + 7 /\ 2 * (j + 4) + 1 \in 8 .. 2 * Lanes + 7
    BY Shape DEF LaneNos
  <2>2. s[2 * (j + 4)] \in ULong /\ s[2 * (j + 4) + 1] \in ULong
    BY <2>1 DEF IsState
  <2>. QED  BY <2>2 DEF StateChunk, Chunk
<1>. QED  BY <1>1, <1>2 DEF Key1, Key2

LEMMA ExplodedIs ==
  ASSUME AesGivesChunks, NEW s, IsState(s)
  PROVE  /\ \A i \in 0 .. Rounds : \A j \in LaneNos : Exploded(s)[i][j] \in Chunk
         /\ \A j \in LaneNos : Exploded(s)[0][j] = StateChunk(s, j + 4)
         /\ \A i \in 1 .. Rounds : \A j \in LaneNos :
              Exploded(s)[i][j] = AesRounds(Exploded(s)[i - 1][j], Key1(s))
<1>. DEFINE a == [j \in LaneNos |-> StateChunk(s, j + 4)]
            F == [i \in 1 .. Rounds |-> [j \in LaneNos |-> [x \in Chunk |-> AesRounds(x, Key1(s))]]]
            rec(g) == g = [i \in 0 .. Rounds |->
                             [j \in LaneNos |-> IF i = 0 THEN StateChunk(s, j + 4)
                                                ELSE AesRounds(g[i - 1][j], Key1(s))]]
            xin == Exploded(s)
<1>1. xin = CHOOSE g : rec(g)
  BY DEF Exploded
<1>2. a \in [LaneNos -> Chunk] /\ F \in PassSteps
  BY StateIs DEF AesGivesChunks, PassSteps
<1>3. PICK g : Passes(g, Rounds, a, F)
  <2>. HIDE DEF a, F
  <2>. QED  BY <1>2, PassesExist
<1>4. ASSUME NEW i \in 0 .. Rounds
      PROVE  g[i] = [j \in LaneNos |-> IF i = 0 THEN StateChunk(s, j + 4)
                                       ELSE AesRounds(g[i - 1][j], Key1(s))]
  <2>1. g[i] \in [LaneNos -> Chunk]
    BY <1>3 DEF Passes
  <2>2. CASE i = 0
    BY <1>3, <2>2 DEF Passes
  <2>3. CASE i # 0
    <3>1. i \in 1 .. Rounds /\ i - 1 \in 0 .. Rounds
      BY <2>3, Shape
    <3>2. ASSUME NEW j \in LaneNos PROVE g[i][j] = AesRounds(g[i - 1][j], Key1(s))
      <4>1. g[i - 1][j] \in Chunk
        BY <1>3, <3>1 DEF Passes
      <4>2. g[i][j] = F[i][j][g[i - 1][j]]
        BY <1>3, <3>1 DEF Passes
      <4>3. F[i][j][g[i - 1][j]] = AesRounds(g[i - 1][j], Key1(s))
        BY <3>1, <4>1
      <4>. QED  BY <4>2, <4>3
    <3>. QED  BY <2>1, <2>3, <3>2
  <2>. QED  BY <2>2, <2>3
<1>5. rec(g)
  <2>1. g = [i \in 0 .. Rounds |-> g[i]]
    BY <1>3 DEF Passes
  <2>. QED  BY <1>4, <2>1
<1>6. rec(xin)
  <2>. HIDE DEF rec, xin
  <2>. QED  BY <1>1, <1>5
<1>. HIDE DEF xin
<1>7. \A i \in 0 .. Rounds : \A j \in LaneNos :
        xin[i][j] = IF i = 0 THEN StateChunk(s, j + 4) ELSE AesRounds(xin[i - 1][j], Key1(s))
  <2>1. ASSUME NEW i \in 0 .. Rounds
        PROVE  xin[i] = [j \in LaneNos |-> IF i = 0 THEN StateChunk(s, j + 4)
                                           ELSE AesRounds(xin[i - 1][j], Key1(s))]
    BY <1>6
  <2>. QED  BY <2>1
<1>8. \A j \in LaneNos : xin[0][j] = StateChunk(s, j + 4)
  BY <1>7, Shape
<1>9. \A i \in 1 .. Rounds : \A j \in LaneNos : xin[i][j] = AesRounds(xin[i - 1][j], Key1(s))
  <2>1. \A i \in 1 .. Rounds : i \in 0 .. Rounds /\ i # 0
    BY Shape
  <2>. QED  BY <1>7, <2>1
<1>10. \A i \in 0 .. Rounds : \A j \in LaneNos : xin[i][j] \in Chunk
  <2>. DEFINE S == {n \in Nat : n <= Rounds => \A j \in LaneNos : xin[n][j] \in Chunk}
  <2>1. 0 \in S
    BY <1>8, StateIs
  <2>2. ASSUME NEW n \in Nat, n \in S PROVE n + 1 \in S
    <3>. SUFFICES ASSUME n + 1 <= Rounds, NEW j \in LaneNos PROVE xin[n + 1][j] \in Chunk
      OBVIOUS
    <3>1. xin[n][j] \in Chunk
      BY <2>2, Shape
    <3>2. n + 1 \in 1 .. Rounds /\ (n + 1) - 1 = n
      BY Shape
    <3>3. xin[n + 1][j] = AesRounds(xin[n][j], Key1(s))
      BY <1>9, <3>2
    <3>. QED  BY <3>1, <3>3, StateIs DEF AesGivesChunks
  <2>. HIDE DEF S
  <2>3. Nat \subseteq S
    BY <2>1, <2>2, SetInduction
  <2>. QED  BY <2>3, Shape DEF S
<1>. QED  BY <1>8, <1>9, <1>10 DEF xin

LEMMA ChunkNumber ==
  /\ \A i \in 0 .. Rounds - 1 : \A j \in LaneNos :
       /\ i * Lanes + j \in ChunkNos
       /\ (i * Lanes + j) \div Lanes = i /\ (i * Lanes + j) % Lanes = j
  /\ \A x \in ChunkNos : /\ x \div Lanes \in 0 .. Rounds - 1 /\ x % Lanes \in LaneNos
                         /\ x = (x \div Lanes) * Lanes + (x % Lanes)
<1>1. Lanes \in Nat \ {0} /\ Rounds \in Nat /\ Chunks = Rounds * Lanes /\ Rounds * Lanes \in Nat
  BY Shape
<1>2. ASSUME NEW i \in 0 .. Rounds - 1, NEW j \in LaneNos
      PROVE  /\ i * Lanes + j \in ChunkNos
             /\ (i * Lanes + j) \div Lanes = i /\ (i * Lanes + j) % Lanes = j
  <2>1. i \in Int /\ Rounds \in Int /\ i < Rounds /\ j \in Nat /\ j < Lanes /\ i * Lanes \in Nat
    BY <1>1 DEF LaneNos
  <2>2. i * Lanes + Lanes <= Rounds * Lanes
    BY <1>1, <2>1, NextMultiple
  <2>. DEFINE p == i * Lanes
              x == p + j
              top == Rounds * Lanes
  <2>3. p \in Nat /\ top \in Nat /\ p + Lanes <= top
    BY <1>1, <2>1, <2>2
  <2>4. Chunks = top
    BY <1>1
  <2>. HIDE DEF p, top
  <2>5. x \in Int /\ p <= x /\ x < p + Lanes /\ x - p = j /\ x \in 0 .. top - 1
    BY <1>1, <2>1, <2>3
  <2>. HIDE DEF x
  <2>6. x \div Lanes = i /\ x % Lanes = x - p
    BY <1>1, <2>1, <2>5, QuotientOf DEF p
  <2>. QED  BY <2>4, <2>5, <2>6 DEF x, p, ChunkNos
<1>3. ASSUME NEW x \in ChunkNos
      PROVE  /\ x \div Lanes \in 0 .. Rounds - 1 /\ x % Lanes \in LaneNos
             /\ x = (x \div Lanes) * Lanes + (x % Lanes)
  <2>1. x \in Nat /\ x < Chunks /\ x \in Int
    BY <1>1 DEF ChunkNos
  <2>2. /\ x \div Lanes \in Nat /\ (x \div Lanes) * Lanes <= x
        /\ x % Lanes \in 0 .. Lanes - 1 /\ x = (x \div Lanes) * Lanes + (x % Lanes)
    BY <1>1, <2>1, DivMod, Division
  <2>3. (x \div Lanes) * Lanes < Rounds * Lanes
    BY <1>1, <2>1, <2>2
  <2>4. x \div Lanes < Rounds
    BY <1>1, <2>2, <2>3, LessByFactor
  <2>. QED  BY <1>1, <2>2, <2>4 DEF LaneNos
<1>. QED  BY <1>2, <1>3

LEMMA ImplodedIs ==
  ASSUME AesGivesChunks, NEW s, IsState(s), NEW mem \in Mems
  PROVE  /\ \A i \in 0 .. Rounds : \A j \in LaneNos : Imploded(mem, s)[i][j] \in Chunk
         /\ \A j \in LaneNos : Imploded(mem, s)[0][j] = StateChunk(s, j + 4)
         /\ \A i \in 1 .. Rounds : \A j \in LaneNos :
              Imploded(mem, s)[i][j] =
                AesRounds(XorChunk(mem[(i - 1) * Lanes + j], Imploded(mem, s)[i - 1][j]), Key2(s))
<1>. DEFINE chunk(i, j) == mem[(i - 1) * Lanes + j]
            a == [j \in LaneNos |-> StateChunk(s, j + 4)]
            F == [i \in 1 .. Rounds |->
                    [j \in LaneNos |-> [x \in Chunk |-> AesRounds(XorChunk(chunk(i, j), x), Key2(s))]]]
            rec(g) == g = [i \in 0 .. Rounds |->
                             [j \in LaneNos |-> IF i = 0 THEN StateChunk(s, j + 4)
                                                ELSE AesRounds(XorChunk(chunk(i, j), g[i - 1][j]), Key2(s))]]
            xout == Imploded(mem, s)
<1>1. xout = CHOOSE g : rec(g)
  BY DEF Imploded
<1>0. ASSUME NEW i \in 1 .. Rounds, NEW j \in LaneNos, NEW x \in Chunk
      PROVE  /\ XorChunk(chunk(i, j), x) \in Chunk
             /\ AesRounds(XorChunk(chunk(i, j), x), Key2(s)) \in Chunk
  <2>1. i - 1 \in 0 .. Rounds - 1
    BY Shape
  <2>2. (i - 1) * Lanes + j \in ChunkNos
    BY <2>1, ChunkNumber
  <2>3. chunk(i, j) \in Chunk
    BY <2>2 DEF Mems
  <2>. HIDE DEF chunk
  <2>4. XorChunk(chunk(i, j), x) \in Chunk
    BY <2>3, ChunksOfWords
  <2>. QED  BY <2>4, StateIs DEF AesGivesChunks
<1>. HIDE DEF chunk
<1>2. a \in [LaneNos -> Chunk] /\ F \in PassSteps
  BY <1>0, StateIs DEF PassSteps
<1>3. PICK g : Passes(g, Rounds, a, F)
  <2>. HIDE DEF a, F
  <2>. QED  BY <1>2, PassesExist
<1>4. ASSUME NEW i \in 0 .. Rounds
      PROVE  g[i] = [j \in LaneNos |-> IF i = 0 THEN StateChunk(s, j + 4)
                                       ELSE AesRounds(XorChunk(chunk(i, j), g[i - 1][j]), Key2(s))]
  <2>1. g[i] \in [LaneNos -> Chunk]
    BY <1>3 DEF Passes
  <2>2. CASE i = 0
    BY <1>3, <2>2 DEF Passes
  <2>3. CASE i # 0
    <3>1. i \in 1 .. Rounds /\ i - 1 \in 0 .. Rounds
      BY <2>3, Shape
    <3>2. ASSUME NEW j \in LaneNos PROVE g[i][j] = AesRounds(XorChunk(chunk(i, j), g[i - 1][j]), Key2(s))
      <4>1. g[i - 1][j] \in Chunk
        BY <1>3, <3>1 DEF Passes
      <4>2. g[i][j] = F[i][j][g[i - 1][j]]
        BY <1>3, <3>1 DEF Passes
      <4>3. F[i][j][g[i - 1][j]] = AesRounds(XorChunk(chunk(i, j), g[i - 1][j]), Key2(s))
        BY <3>1, <4>1
      <4>. QED  BY <4>2, <4>3
    <3>. QED  BY <2>1, <2>3, <3>2
  <2>. QED  BY <2>2, <2>3
<1>5. rec(g)
  <2>1. g = [i \in 0 .. Rounds |-> g[i]]
    BY <1>3 DEF Passes
  <2>. QED  BY <1>4, <2>1
<1>6. rec(xout)
  <2>. HIDE DEF rec, xout
  <2>. QED  BY <1>1, <1>5
<1>. HIDE DEF xout
<1>7. \A i \in 0 .. Rounds : \A j \in LaneNos :
        xout[i][j] = IF i = 0 THEN StateChunk(s, j + 4)
                     ELSE AesRounds(XorChunk(chunk(i, j), xout[i - 1][j]), Key2(s))
  <2>1. ASSUME NEW i \in 0 .. Rounds
        PROVE  xout[i] = [j \in LaneNos |-> IF i = 0 THEN StateChunk(s, j + 4)
                                           ELSE AesRounds(XorChunk(chunk(i, j), xout[i - 1][j]), Key2(s))]
    BY <1>6
  <2>. QED  BY <2>1
<1>8. \A j \in LaneNos : xout[0][j] = StateChunk(s, j + 4)
  BY <1>7, Shape
<1>9. \A i \in 1 .. Rounds : \A j \in LaneNos :
        xout[i][j] = AesRounds(XorChunk(chunk(i, j), xout[i - 1][j]), Key2(s))
  <2>1. \A i \in 1 .. Rounds : i \in 0 .. Rounds /\ i # 0
    BY Shape
  <2>. QED  BY <1>7, <2>1
<1>10. \A i \in 0 .. Rounds : \A j \in LaneNos : xout[i][j] \in Chunk
  <2>. DEFINE S == {n \in Nat : n <= Rounds => \A j \in LaneNos : xout[n][j] \in Chunk}
  <2>1. 0 \in S
    BY <1>8, StateIs
  <2>2. ASSUME NEW n \in Nat, n \in S PROVE n + 1 \in S
    <3>. SUFFICES ASSUME n + 1 <= Rounds, NEW j \in LaneNos PROVE xout[n + 1][j] \in Chunk
      OBVIOUS
    <3>1. xout[n][j] \in Chunk
      BY <2>2, Shape
    <3>2. n + 1 \in 1 .. Rounds /\ (n + 1) - 1 = n
      BY Shape
    <3>3. xout[n + 1][j] = AesRounds(XorChunk(chunk(n + 1, j), xout[n][j]), Key2(s))
      BY <1>9, <3>2
    <3>. QED  BY <1>0, <3>1, <3>2, <3>3
  <2>. HIDE DEF S
  <2>3. Nat \subseteq S
    BY <2>1, <2>2, SetInduction
  <2>. QED  BY <2>3, Shape DEF S
<1>. QED  BY <1>8, <1>9, <1>10 DEF xout, chunk

\* What cn0 leaves on the CPU is what each lane has after so many passes.
LEMMA CpuExplodeIs ==
  ASSUME AesGivesChunks, NEW s, IsState(s)
  PROVE  /\ CpuExplode(s) \in Mems
         /\ \A i \in 0 .. Rounds - 1 : \A j \in LaneNos :
              CpuExplode(s)[i * Lanes + j] = Exploded(s)[i + 1][j]
<1>1. CpuExplode(s) = [x \in ChunkNos |-> Exploded(s)[x \div Lanes + 1][x % Lanes]]
  BY DEF CpuExplode, Exploded
<1>2. ASSUME NEW x \in ChunkNos PROVE Exploded(s)[x \div Lanes + 1][x % Lanes] \in Chunk
  <2>1. x \div Lanes \in 0 .. Rounds - 1 /\ x % Lanes \in LaneNos
    BY ChunkNumber
  <2>2. x \div Lanes + 1 \in 0 .. Rounds
    BY <2>1, Shape
  <2>. QED  BY <2>1, <2>2, ExplodedIs
<1>3. ASSUME NEW i \in 0 .. Rounds - 1, NEW j \in LaneNos
      PROVE  CpuExplode(s)[i * Lanes + j] = Exploded(s)[i + 1][j]
  <2>. DEFINE x == i * Lanes + j
  <2>1. x \in ChunkNos /\ x \div Lanes = i /\ x % Lanes = j
    BY ChunkNumber
  <2>. HIDE DEF x
  <2>2. CpuExplode(s)[x] = Exploded(s)[i + 1][j]
    BY <1>1, <2>1
  <2>. QED  BY <2>2 DEF x
<1>. QED  BY <1>1, <1>2, <1>3 DEF Mems

LEMMA CpuImplodeIs ==
  ASSUME NEW s, NEW mem
  PROVE  CpuImplode(mem, s) =
           [w \in DOMAIN s |-> IF w \in 8 .. 2 * Lanes + 7
                               THEN Imploded(mem, s)[Rounds][(w \div 2) - 4][(w % 2) + 1] ELSE s[w]]
BY DEF CpuImplode, Imploded

\* What cn1 begins with.
StartLoop(s) ==
  [i |-> 0, a |-> XorChunk(StateChunk(s, 0), StateChunk(s, 2)),
   bx0 |-> XorChunk(StateChunk(s, 1), StateChunk(s, 3)),
   bx1 |-> XorChunk(StateChunk(s, 4), StateChunk(s, 5)),
   div |-> << s[12] % K, s[12] \div K >>, sqrt |-> s[13] % K]

LEMMA StartIs ==
  ASSUME AesGivesChunks, NEW o \in Options, NEW s, IsState(s)
  PROVE  /\ CpuStart(s) \in Cpus /\ StartLoop(s) \in Loops
         /\ Same(o, CpuStart(s), CpuExplode(s), StartLoop(s))
<1>1. \A w \in 0 .. 13 : s[w] \in ULong
  BY DEF IsState
<1>2. /\ StateChunk(s, 0) = << s[0], s[1] >> /\ StateChunk(s, 1) = << s[2], s[3] >>
      /\ StateChunk(s, 2) = << s[4], s[5] >> /\ StateChunk(s, 3) = << s[6], s[7] >>
      /\ StateChunk(s, 4) = << s[8], s[9] >> /\ StateChunk(s, 5) = << s[10], s[11] >>
  BY DEF StateChunk
<1>3. /\ s[0] \in ULong /\ s[1] \in ULong /\ s[2] \in ULong /\ s[3] \in ULong
      /\ s[4] \in ULong /\ s[5] \in ULong /\ s[6] \in ULong /\ s[7] \in ULong
      /\ s[8] \in ULong /\ s[9] \in ULong /\ s[10] \in ULong /\ s[11] \in ULong
      /\ s[12] \in ULong /\ s[13] \in ULong
  BY <1>1
<1>4. /\ XorLong(s[0], s[4]) \in ULong /\ XorLong(s[1], s[5]) \in ULong
      /\ << XorLong(s[2], s[6]), XorLong(s[3], s[7]) >> \in Chunk
      /\ << XorLong(s[8], s[10]), XorLong(s[9], s[11]) >> \in Chunk
  BY <1>3, XorLongIs DEF Chunk
<1>5. /\ XorChunk(StateChunk(s, 0), StateChunk(s, 2)) = << XorLong(s[0], s[4]), XorLong(s[1], s[5]) >>
      /\ XorChunk(StateChunk(s, 1), StateChunk(s, 3)) = << XorLong(s[2], s[6]), XorLong(s[3], s[7]) >>
      /\ XorChunk(StateChunk(s, 4), StateChunk(s, 5)) = << XorLong(s[8], s[10]), XorLong(s[9], s[11]) >>
  BY <1>2 DEF XorChunk
<1>6. /\ s[12] % K \in UInt /\ s[12] \div K \in UInt /\ s[12] = (s[12] % K) + K * (s[12] \div K)
      /\ s[13] % K \in UInt /\ s[13] \in Int
  <2>1. s[13] % K \in UInt
    BY <1>3, HalvesOfWord
  <2>2. /\ s[12] % K \in UInt /\ s[12] \div K \in UInt
        /\ s[12] = (s[12] % K) + K * (s[12] \div K)
    BY <1>3, HalvesOfWord
  <2>3. \A x \in ULong : x \in Int
    BY DEF ULong
  <2>. QED  BY <1>3, <2>1, <2>2, <2>3
<1>7. ChunkOf(XorLong(s[0], s[4])) \in ChunkNos /\ CpuExplode(s) \in Mems
  BY <1>4, ChunkOfIs, CpuExplodeIs
<1>8. CpuStart(s) \in Cpus
  BY <1>3, <1>4, <1>6, <1>7 DEF CpuStart, Cpus
<1>9. StartLoop(s) \in Loops
  <2>1. XorChunk(StateChunk(s, 0), StateChunk(s, 2)) \in Chunk
    BY <1>4, <1>5 DEF Chunk
  <2>2. 0 \in 0 .. Iterations
    BY ShapeAssumption
  <2>. QED  BY <1>4, <1>5, <1>6, <2>1, <2>2 DEF StartLoop, Loops
<1>10. Same(o, CpuStart(s), CpuExplode(s), StartLoop(s))
  BY <1>5, <1>6 DEF Same, CpuStart, StartLoop
<1>. QED  BY <1>8, <1>9, <1>10

LEMMA LoopedTypes ==
  ASSUME AesGivesChunks, NEW o \in Options, NEW s, IsState(s)
  PROVE  \A i \in 0 .. Iterations : Looped(o, s)[i] \in Cpus
<1>. DEFINE m == Looped(o, s)
            S == {n \in Nat : n <= Iterations => m[n] \in Cpus}
<1>1. m[0] = CpuStart(s) /\ \A i \in 1 .. Iterations : m[i] = CpuIteration(o, m[i - 1])
  BY LoopedIs
<1>. HIDE DEF m
<1>2. 0 \in S
  BY <1>1, StartIs
<1>3. ASSUME NEW n \in Nat, n \in S PROVE n + 1 \in S
  <2>. SUFFICES ASSUME n + 1 <= Iterations PROVE m[n + 1] \in Cpus
    OBVIOUS
  <2>1. m[n] \in Cpus
    BY <1>3, ShapeAssumption
  <2>2. n + 1 \in 1 .. Iterations /\ (n + 1) - 1 = n
    BY ShapeAssumption
  <2>3. m[n + 1] = CpuIteration(o, m[n])
    BY <1>1, <2>2
  <2>. QED  BY <2>1, <2>3, CpuTypes
<1>. HIDE DEF S
<1>4. Nat \subseteq S
  BY <1>2, <1>3, SetInduction
<1>. QED  BY <1>4, ShapeAssumption DEF S, m

-----------------------------------------------------------------------------
(* The chunks of the scratchpads in the buffer.                             *)

LEMMA OneLayout ==
  ASSUME NEW o \in Options, NEW n, NEW x
  PROVE  Cn1Slot(o, n, x) = Slot(o.layout, n, x)
BY OptionAssumption DEF Cn1Slot, NvidiaSlot, Slot, Base, Idx

LEMMA SlotIs ==
  ASSUME NEW o \in Options, NEW n \in Nonces, NEW x \in ChunkNos
  PROVE  /\ Slot(o.layout, n, x) \in 0 .. N * Chunks - 1
         /\ \A m \in Nonces, y \in ChunkNos : Slot(o.layout, m, y) = Slot(o.layout, n, x) => m = n /\ y = x
<1>1. o.layout \in Layouts /\ Fits(o.layout)
  BY OptionAssumption
<1>. QED  BY <1>1, SlotsFitTheBuffer, SlotsAreDistinct

LEMMA LaneSlots ==
  ASSUME NEW o \in Options, NEW n \in Nonces, NEW i \in 0 .. Rounds - 1, NEW j \in LaneNos,
         NEW m \in Nonces, NEW k \in 0 .. Rounds - 1, NEW g \in LaneNos,
         Slot(o.layout, n, i * Lanes + j) = Slot(o.layout, m, k * Lanes + g)
  PROVE  n = m /\ i = k /\ j = g
<1>1. /\ i * Lanes + j \in ChunkNos /\ (i * Lanes + j) \div Lanes = i /\ (i * Lanes + j) % Lanes = j
      /\ k * Lanes + g \in ChunkNos /\ (k * Lanes + g) \div Lanes = k /\ (k * Lanes + g) % Lanes = g
  BY ChunkNumber
<1>2. n = m /\ i * Lanes + j = k * Lanes + g
  BY <1>1, SlotIs
<1>. QED  BY <1>1, <1>2

LEMMA EveryState == \A n \in Nonces : IsState(State0[n]) /\ DOMAIN State0[n] = DOMAIN State0[0]
BY StateAssumption DEF IsState

-----------------------------------------------------------------------------
(* The inductive invariant.                                                 *)

WordNos == DOMAIN State0[0]
PadOf(n) == [x \in ChunkNos |-> pad[Slot(opt.layout, n, x)]]
CpuOf(n) == CpuLoop(opt, State0[n])

HashTypeOK ==
  /\ opt \in Options /\ phase \in {"cn0", "cn1", "cn2"}
  /\ states \in [Nonces -> [WordNos -> ULong]]
  /\ pad \in [0 .. N * Chunks - 1 -> Chunk]
  /\ at \in [Items -> 0 .. Rounds + 1] /\ text \in [Items -> Chunk]
  /\ phase = "cn1" => loop \in [Nonces -> Loops]
  /\ DOMAIN hashed = Nonces

\* The lanes of cn0 have done what the CPU does in as many passes.
Filled ==
  phase = "cn0" =>
    /\ states = State0
    /\ \A w \in Items : at[w] <= Rounds /\ text[w] = Exploded(State0[w[1]])[at[w]][w[2]]
    /\ \A n \in Nonces, i \in 0 .. Rounds - 1, j \in LaneNos :
         i < at[<<n, j>>] => PadOf(n)[i * Lanes + j] = Exploded(State0[n])[i + 1][j]

\* The loop of a nonce is where the CPU's is after as many iterations, unless the CPU's has taken a
\* root that is not the right one.
InStep ==
  phase = "cn1" =>
    /\ states = State0
    /\ \A n \in Nonces :
         Looped(opt, State0[n])[loop[n].i].exact =>
           Same(opt, Looped(opt, State0[n])[loop[n].i], PadOf(n), loop[n])

\* The lanes of cn2 have done what the CPU does in as many passes, and the words they have not
\* stored yet are the first ones.
Folded ==
  phase = "cn2" =>
    /\ \A n \in Nonces : CpuOf(n).exact =>
         /\ CpuOf(n).mem = PadOf(n)
         /\ \A j \in LaneNos : LET k == IF at[<<n, j>>] <= Rounds THEN at[<<n, j>>] ELSE Rounds
                               IN  text[<<n, j>>] = Imploded(CpuOf(n).mem, State0[n])[k][j]
    /\ \A n \in Nonces, u \in WordNos :
         states[n][u] = IF u \in 8 .. 2 * Lanes + 7 /\ at[<<n, (u \div 2) - 4>>] = Rounds + 1
                        THEN text[<<n, (u \div 2) - 4>>][(u % 2) + 1] ELSE State0[n][u]

HashInv == HashTypeOK /\ Filled /\ InStep /\ Folded /\ GpuHashesLikeTheCpu

LEMMA HashInit == ASSUME AesGivesChunks, Init PROVE HashInv
<1>1. \A w \in Items : w[1] \in Nonces /\ w[2] \in LaneNos /\ IsState(State0[w[1]])
  BY EveryState DEF Items
<1>2. \A w \in Items : StateChunk(State0[w[1]], w[2] + 4) \in Chunk
  BY <1>1, StateIs
<1>3. Zero \in Chunk
  <2>1. 0 \in ULong
    BY LongWord DEF ULong
  <2>. QED  BY <2>1 DEF Zero, Chunk
<1>4. HashTypeOK
  <2>1. 0 \in 0 .. Rounds + 1
    BY Shape
  <2>. QED  BY <1>2, <1>3, <2>1, StateAssumption DEF Init, HashTypeOK, WordNos
<1>5. Filled
  <2>1. ASSUME NEW w \in Items
        PROVE  at[w] <= Rounds /\ text[w] = Exploded(State0[w[1]])[at[w]][w[2]]
    <3>1. at[w] = 0 /\ text[w] = StateChunk(State0[w[1]], w[2] + 4)
      BY DEF Init
    <3>2. Exploded(State0[w[1]])[0][w[2]] = StateChunk(State0[w[1]], w[2] + 4)
      BY <1>1, ExplodedIs
    <3>. QED  BY <3>1, <3>2, Shape
  <2>2. \A n \in Nonces, i \in 0 .. Rounds - 1, j \in LaneNos : ~(i < at[<<n, j>>])
    <3>1. \A n \in Nonces, j \in LaneNos : at[<<n, j>>] = 0
      BY DEF Init, Items
    <3>. QED  BY <3>1
  <2>. QED  BY <2>1, <2>2 DEF Init, Filled
<1>6. InStep /\ Folded
  BY DEF Init, InStep, Folded
<1>7. GpuHashesLikeTheCpu
  BY DEF Init, GpuHashesLikeTheCpu
<1>. QED  BY <1>4, <1>5, <1>6, <1>7 DEF HashInv

LEMMA HashStutter == ASSUME HashInv, UNCHANGED vars PROVE HashInv'
<1>1. UNCHANGED <<opt, phase, states, pad, at, text, loop, hashed>>
  BY DEF vars
<1>2. HashTypeOK'
  BY <1>1 DEF HashInv, HashTypeOK
<1>a. \A n : PadOf(n)' = PadOf(n) /\ CpuOf(n)' = CpuOf(n)
  BY <1>1 DEF PadOf, CpuOf
<1>3. Filled'
  BY <1>1, <1>a DEF HashInv, Filled
<1>4. InStep'
  BY <1>1, <1>a DEF HashInv, InStep
<1>5. Folded'
  BY <1>1, <1>a DEF HashInv, Folded
<1>6. GpuHashesLikeTheCpu'
  BY <1>1 DEF HashInv, GpuHashesLikeTheCpu
<1>. QED  BY <1>2, <1>3, <1>4, <1>5, <1>6 DEF HashInv

LEMMA Cn0Step == ASSUME AesGivesChunks, HashInv, NEW w \in Items, Cn0(w) PROVE HashInv'
<1>. DEFINE v == w[1]
            k == at[w]
            g == w[2]
            p == Slot(opt.layout, v, k * Lanes + g)
            t == AesRounds(text[w], Key1(states[v]))
<1>1. /\ phase = "cn0" /\ k < Rounds /\ text' = [text EXCEPT ![w] = t] /\ pad' = [pad EXCEPT ![p] = t]
      /\ at' = [at EXCEPT ![w] = k + 1] /\ UNCHANGED <<opt, phase, states, loop, hashed>>
  BY DEF Cn0
<1>2. HashTypeOK /\ Filled /\ GpuHashesLikeTheCpu
  BY DEF HashInv
<1>3. /\ states = State0 /\ text[w] = Exploded(State0[v])[k][g] /\ v \in Nonces /\ g \in LaneNos
      /\ w = <<v, g>> /\ k \in 0 .. Rounds - 1 /\ opt \in Options /\ text[w] \in Chunk /\ IsState(State0[v])
  BY <1>1, <1>2, EveryState, Shape DEF Filled, HashTypeOK, Items
<1>4. t \in Chunk /\ t = Exploded(State0[v])[k + 1][g]
  <2>1. Key1(State0[v]) \in ULong \X ULong \X ULong \X ULong
    BY <1>3, StateIs
  <2>2. k + 1 \in 1 .. Rounds /\ (k + 1) - 1 = k
    BY <1>3, Shape
  <2>3. Exploded(State0[v])[k + 1][g] = AesRounds(Exploded(State0[v])[k][g], Key1(State0[v]))
    BY <1>3, <2>2, ExplodedIs
  <2>. QED  BY <1>3, <2>1, <2>3 DEF AesGivesChunks
<1>5. k * Lanes + g \in ChunkNos /\ p \in 0 .. N * Chunks - 1
  <2>1. k * Lanes + g \in ChunkNos
    BY <1>3, ChunkNumber
  <2>. QED  BY <1>3, <2>1, SlotIs
<1>. HIDE DEF k, t, p
<1>6. HashTypeOK'
  <2>1. k + 1 \in 0 .. Rounds + 1
    BY <1>3, Shape
  <2>2. text' \in [Items -> Chunk] /\ pad' \in [0 .. N * Chunks - 1 -> Chunk]
        /\ at' \in [Items -> 0 .. Rounds + 1]
    BY <1>1, <1>2, <1>4, <2>1 DEF HashTypeOK
  <2>. QED  BY <1>1, <1>2, <2>2 DEF HashTypeOK
<1>7. ASSUME NEW x \in Items
      PROVE  (at'[x] <= Rounds /\ text'[x] = Exploded(State0[x[1]])[at'[x]][x[2]])
  <2>1. CASE x = w
    <3>1. at'[x] = k + 1 /\ text'[x] = t
      BY <1>1, <1>2, <2>1 DEF HashTypeOK
    <3>. QED  BY <1>3, <1>4, <2>1, <3>1, Shape
  <2>2. CASE x # w
    <3>1. at'[x] = at[x] /\ text'[x] = text[x]
      BY <1>1, <1>2, <2>2 DEF HashTypeOK
    <3>. QED  BY <1>1, <1>2, <3>1 DEF Filled
  <2>. QED  BY <2>1, <2>2
<1>8. ASSUME NEW n \in Nonces, NEW i \in 0 .. Rounds - 1, NEW j \in LaneNos, i < at'[<<n, j>>]
      PROVE  PadOf(n)'[i * Lanes + j] = Exploded(State0[n])[i + 1][j]
  <2>. DEFINE q == Slot(opt.layout, n, i * Lanes + j)
  <2>1. i * Lanes + j \in ChunkNos
    BY ChunkNumber
  <2>2. q \in 0 .. N * Chunks - 1
    BY <1>3, <2>1, SlotIs
  <2>3. PadOf(n)'[i * Lanes + j] = pad'[q] /\ PadOf(n)[i * Lanes + j] = pad[q]
    BY <1>1, <2>1 DEF PadOf
  <2>4. CASE q = p
    <3>1. n = v /\ i = k /\ j = g
      BY <1>3, <2>4, LaneSlots DEF p
    <3>2. pad'[q] = t
      BY <1>1, <1>2, <1>5, <2>4 DEF HashTypeOK
    <3>. QED  BY <1>4, <2>3, <3>1, <3>2
  <2>5. CASE q # p
    <3>1. pad'[q] = pad[q]
      BY <1>1, <1>2, <2>2, <2>5 DEF HashTypeOK
    <3>2. i < at[<<n, j>>]
      <4>1. CASE <<n, j>> = w
        <5>1. i # k
          BY <1>3, <2>5, <4>1 DEF p
        <5>2. at'[w] = k + 1 /\ at[w] = k
          BY <1>1, <1>2 DEF HashTypeOK, k
        <5>. QED  BY <1>3, <1>8, <4>1, <5>1, <5>2
      <4>2. CASE <<n, j>> # w
        BY <1>1, <1>2, <1>8, <4>2 DEF HashTypeOK, Items
      <4>. QED  BY <4>1, <4>2
    <3>3. PadOf(n)[i * Lanes + j] = Exploded(State0[n])[i + 1][j]
      BY <1>1, <1>2, <3>2 DEF Filled
    <3>. QED  BY <2>3, <3>1, <3>3
  <2>. QED  BY <2>4, <2>5
<1>9. Filled'
  <2>1. states' = State0 /\ phase' = "cn0"
    BY <1>1, <1>3
  <2>. QED  BY <1>7, <1>8, <2>1 DEF Filled
<1>10. InStep' /\ Folded'
  BY <1>1 DEF InStep, Folded
<1>11. GpuHashesLikeTheCpu'
  BY <1>1, <1>2 DEF GpuHashesLikeTheCpu
<1>. QED  BY <1>6, <1>9, <1>10, <1>11 DEF HashInv

LEMMA StartCn1Step == ASSUME AesGivesChunks, HashInv, StartCn1 PROVE HashInv'
<1>1. /\ phase = "cn0" /\ phase' = "cn1" /\ \A w \in Items : at[w] = Rounds
      /\ loop' = [n \in Nonces |-> StartLoop(states[n])]
      /\ UNCHANGED <<opt, states, pad, at, text, hashed>>
  BY DEF StartCn1, StartLoop
<1>2. HashTypeOK /\ Filled /\ GpuHashesLikeTheCpu /\ opt \in Options /\ states = State0
  BY <1>1 DEF HashInv, HashTypeOK, Filled
<1>3. ASSUME NEW n \in Nonces
      PROVE  /\ StartLoop(State0[n]) \in Loops
             /\ Same(opt, CpuStart(State0[n]), CpuExplode(State0[n]), StartLoop(State0[n]))
  BY <1>2, EveryState, StartIs
<1>4. HashTypeOK'
  <2>1. loop' \in [Nonces -> Loops]
    BY <1>1, <1>2, <1>3
  <2>. QED  BY <1>1, <1>2, <2>1 DEF HashTypeOK
<1>5. ASSUME NEW n \in Nonces PROVE PadOf(n) = CpuExplode(State0[n])
  <2>1. ASSUME NEW x \in ChunkNos PROVE PadOf(n)[x] = CpuExplode(State0[n])[x]
    <3>. DEFINE i == x \div Lanes
                j == x % Lanes
    <3>1. i \in 0 .. Rounds - 1 /\ j \in LaneNos /\ x = i * Lanes + j
      BY ChunkNumber
    <3>. HIDE DEF i, j
    <3>2. at[<<n, j>>] = Rounds /\ i < at[<<n, j>>]
      BY <1>1, <3>1, Shape DEF Items
    <3>3. PadOf(n)[i * Lanes + j] = Exploded(State0[n])[i + 1][j]
      BY <1>1, <1>2, <3>1, <3>2 DEF Filled
    <3>4. CpuExplode(State0[n])[i * Lanes + j] = Exploded(State0[n])[i + 1][j]
      BY <3>1, EveryState, CpuExplodeIs
    <3>. QED  BY <3>1, <3>3, <3>4
  <2>2. CpuExplode(State0[n]) \in Mems
    BY EveryState, CpuExplodeIs
  <2>. QED  BY <2>1, <2>2 DEF PadOf, Mems
<1>6. InStep'
  <2>1. ASSUME NEW n \in Nonces
        PROVE  Same(opt, Looped(opt, State0[n])[loop'[n].i], PadOf(n), loop'[n])
    <3>1. loop'[n] = StartLoop(State0[n]) /\ loop'[n].i = 0
      BY <1>1, <1>2 DEF StartLoop
    <3>2. Looped(opt, State0[n])[0] = CpuStart(State0[n])
      BY LoopedIs
    <3>. QED  BY <1>3, <1>5, <3>1, <3>2
  <2>2. \A n \in Nonces : PadOf(n)' = PadOf(n)
    BY <1>1 DEF PadOf
  <2>. QED  BY <1>1, <1>2, <2>1, <2>2 DEF InStep
<1>7. Filled' /\ Folded'
  BY <1>1 DEF Filled, Folded
<1>8. GpuHashesLikeTheCpu'
  BY <1>1, <1>2 DEF GpuHashesLikeTheCpu
<1>. QED  BY <1>4, <1>6, <1>7, <1>8 DEF HashInv

LEMMA Cn1Step == ASSUME AesGivesChunks, HashInv, NEW v \in Nonces, Cn1(v) PROVE HashInv'
<1>. DEFINE slot(n, x) == Slot(opt.layout, n, x)
            l    == loop[v]
            next == AmdIteration(opt, PadOf(v), l)
            m(i) == Looped(opt, State0[v])[i]
<1>1. /\ phase = "cn1" /\ l.i < Iterations
      /\ UNCHANGED <<opt, phase, states, at, text, hashed>>
  BY DEF Cn1
<1>2. HashTypeOK /\ InStep /\ GpuHashesLikeTheCpu /\ opt \in Options /\ states = State0
  BY <1>1 DEF HashInv, HashTypeOK, InStep
<1>3. l \in Loops /\ l.i \in 0 .. Iterations - 1
  <2>1. l \in Loops
    BY <1>1, <1>2 DEF HashTypeOK
  <2>. QED  BY <1>1, <2>1, ShapeAssumption DEF Loops
<1>4. ASSUME NEW n \in Nonces PROVE PadOf(n) \in Mems
  BY <1>2, SlotIs DEF PadOf, Mems, HashTypeOK
<1>5. next.mem \in Mems /\ next.loop \in Loops /\ next.loop.i = l.i + 1
  BY <1>1, <1>3, <1>4, AmdTypes
<1>6. /\ loop' = [loop EXCEPT ![v] = next.loop]
      /\ pad' = [p \in DOMAIN pad |->
                   IF \E x \in ChunkNos : slot(v, x) = p
                   THEN next.mem[CHOOSE x \in ChunkNos : slot(v, x) = p] ELSE pad[p]]
  <2>1. \A n, x : Cn1Slot(opt, n, x) = slot(n, x)
    BY <1>2, OneLayout
  <2>2. [x \in ChunkNos |-> pad[Cn1Slot(opt, v, x)]] = PadOf(v)
    BY <2>1 DEF PadOf
  <2>3. Cn1Iteration(opt, PadOf(v), l) = next
    BY <1>3, <1>4, Cn1Is
  <2>. HIDE DEF next, l, slot
  <2>4. /\ loop' = [loop EXCEPT ![v] = Cn1Iteration(opt, PadOf(v), l).loop]
        /\ pad' = [p \in DOMAIN pad |->
                     IF \E x \in ChunkNos : Cn1Slot(opt, v, x) = p
                     THEN Cn1Iteration(opt, PadOf(v), l).mem[CHOOSE x \in ChunkNos : Cn1Slot(opt, v, x) = p]
                     ELSE pad[p]]
    BY <2>2 DEF Cn1, l
  <2>. QED  BY <2>1, <2>3, <2>4
<1>. HIDE DEF next
<1>7. ASSUME NEW n \in Nonces, NEW x \in ChunkNos
      PROVE  pad'[slot(n, x)] = IF n = v THEN next.mem[x] ELSE pad[slot(n, x)]
  <2>. DEFINE p == slot(n, x)
  <2>1. p \in DOMAIN pad
    BY <1>2, SlotIs DEF HashTypeOK
  <2>2. \A y \in ChunkNos : slot(v, y) = p => n = v /\ y = x
    BY <1>2, SlotIs
  <2>. HIDE DEF slot
  <2>3. pad'[p] = IF \E y \in ChunkNos : slot(v, y) = p
                  THEN next.mem[CHOOSE y \in ChunkNos : slot(v, y) = p] ELSE pad[p]
    <3>. HIDE DEF p
    <3>. QED  BY <1>6, <2>1
  <2>4. CASE n = v
    <3>1. (CHOOSE y \in ChunkNos : slot(v, y) = p) = x /\ slot(v, x) = p
      BY <2>2, <2>4
    <3>. QED  BY <2>3, <2>4, <3>1
  <2>5. CASE n # v
    <3>1. ~\E y \in ChunkNos : slot(v, y) = p
      BY <2>2, <2>5
    <3>. QED  BY <2>3, <2>5, <3>1
  <2>. QED  BY <2>4, <2>5
<1>8. PadOf(v)' = next.mem /\ \A n \in Nonces : n # v => PadOf(n)' = PadOf(n)
  <2>1. \A n \in Nonces : PadOf(n)' = [x \in ChunkNos |-> pad'[slot(n, x)]]
    BY <1>1 DEF PadOf
  <2>2. next.mem = [x \in ChunkNos |-> next.mem[x]]
    BY <1>5 DEF Mems
  <2>3. \A n \in Nonces : PadOf(n) = [x \in ChunkNos |-> pad[slot(n, x)]]
    BY DEF PadOf
  <2>. HIDE DEF slot
  <2>. QED  BY <1>7, <2>1, <2>2, <2>3
<1>9. HashTypeOK'
  <2>1. loop' \in [Nonces -> Loops]
    BY <1>1, <1>2, <1>5, <1>6 DEF HashTypeOK
  <2>2. pad' \in [0 .. N * Chunks - 1 -> Chunk]
    <3>1. ASSUME NEW p \in DOMAIN pad
          PROVE  (IF \E x \in ChunkNos : slot(v, x) = p
                  THEN next.mem[CHOOSE x \in ChunkNos : slot(v, x) = p] ELSE pad[p]) \in Chunk
      BY <1>2, <1>5 DEF Mems, HashTypeOK
    <3>2. DOMAIN pad = 0 .. N * Chunks - 1
      BY <1>2 DEF HashTypeOK
    <3>. HIDE DEF slot
    <3>. QED  BY <1>6, <3>1, <3>2
  <2>. QED  BY <1>1, <1>2, <2>1, <2>2 DEF HashTypeOK
<1>10. ASSUME NEW n \in Nonces, Looped(opt, State0[n])[loop'[n].i].exact
       PROVE  Same(opt, Looped(opt, State0[n])[loop'[n].i], PadOf(n)', loop'[n])
  <2>1. CASE n = v
    <3>a. loop \in [Nonces -> Loops]
      BY <1>1, <1>2 DEF HashTypeOK
    <3>b. \A i \in 0 .. Iterations - 1 : i + 1 \in 1 .. Iterations /\ (i + 1) - 1 = i
      BY ShapeAssumption
    <3>1. loop'[v] = next.loop /\ l.i + 1 \in 1 .. Iterations /\ (l.i + 1) - 1 = l.i
      BY <1>3, <1>6, <3>a, <3>b
    <3>2. m(l.i + 1) = CpuIteration(opt, m(l.i)) /\ m(l.i) \in Cpus
      <4>1. l.i \in 0 .. Iterations
        BY <1>3, ShapeAssumption
      <4>. QED  BY <1>2, <3>1, <4>1, LoopedIs, LoopedTypes, EveryState
    <3>3. m(l.i).exact => Same(opt, m(l.i), PadOf(v), l)
      BY <1>1, <1>2 DEF InStep
    <3>. HIDE DEF m
    <3>4. CpuIteration(opt, m(l.i)).exact
      BY <1>5, <1>10, <2>1, <3>1, <3>2 DEF m
    <3>5. m(l.i).exact
      BY <3>2, <3>4, ExactBefore
    <3>6. Same(opt, CpuIteration(opt, m(l.i)), next.mem, next.loop)
      BY <1>1, <1>2, <1>3, <1>4, <3>2, <3>3, <3>4, <3>5, SameIteration DEF next
    <3>. QED  BY <1>5, <1>8, <2>1, <3>1, <3>2, <3>6 DEF m
  <2>2. CASE n # v
    <3>1. loop'[n] = loop[n] /\ PadOf(n)' = PadOf(n)
      BY <1>1, <1>2, <1>6, <1>8, <2>2 DEF HashTypeOK
    <3>. QED  BY <1>1, <1>2, <1>10, <3>1 DEF InStep
  <2>. QED  BY <2>1, <2>2
<1>11. InStep'
  BY <1>1, <1>2, <1>10 DEF InStep
<1>12. Filled' /\ Folded'
  BY <1>1 DEF Filled, Folded
<1>13. GpuHashesLikeTheCpu'
  BY <1>1, <1>2 DEF GpuHashesLikeTheCpu
<1>. QED  BY <1>9, <1>11, <1>12, <1>13 DEF HashInv

LEMMA StoredWord ==
  ASSUME NEW u \in 8 .. 2 * Lanes + 7
  PROVE  /\ (u \div 2) - 4 \in LaneNos /\ (u % 2) + 1 \in {1, 2} /\ u \in Nat
         /\ u = 2 * (((u \div 2) - 4) + 4) + (u % 2)
<1>1. u \in Nat /\ Lanes \in Nat /\ u >= 8 /\ u <= 2 * Lanes + 7
  BY Shape
<1>2. u % 2 \in {0, 1} /\ u \div 2 \in Nat /\ u = 2 * (u \div 2) + (u % 2)
  BY <1>1
<1>. DEFINE h == u \div 2
            r == u % 2
<1>. HIDE DEF h, r
<1>3. h \in Nat /\ r \in {0, 1} /\ u = 2 * h + r
  BY <1>2 DEF h, r
<1>4. h - 4 \in 0 .. Lanes - 1 /\ r + 1 \in {1, 2} /\ u = 2 * ((h - 4) + 4) + r
  BY <1>1, <1>3
<1>. QED  BY <1>1, <1>4 DEF LaneNos, h, r

LEMMA LaneWords ==
  ASSUME NEW g \in LaneNos
  PROVE  /\ 2 * (g + 4) \in 8 .. 2 * Lanes + 7 /\ 2 * (g + 4) + 1 \in 8 .. 2 * Lanes + 7
         /\ 2 * (g + 4) \in WordNos /\ 2 * (g + 4) + 1 \in WordNos
         /\ (2 * (g + 4)) \div 2 = g + 4 /\ (2 * (g + 4)) % 2 = 0
         /\ (2 * (g + 4) + 1) \div 2 = g + 4 /\ (2 * (g + 4) + 1) % 2 = 1
<1>1. g \in Nat /\ g < Lanes /\ Lanes \in Nat
  BY Shape DEF LaneNos
<1>2. 2 * (g + 4) \in 8 .. 2 * Lanes + 7 /\ 2 * (g + 4) + 1 \in 8 .. 2 * Lanes + 7
  BY <1>1
<1>. QED  BY <1>1, <1>2, StateAssumption DEF WordNos

LEMMA StartCn2Step == ASSUME AesGivesChunks, HashInv, StartCn2 PROVE HashInv'
<1>1. /\ phase = "cn1" /\ phase' = "cn2" /\ \A n \in Nonces : loop[n].i = Iterations
      /\ at' = [w \in Items |-> 0] /\ text' = [w \in Items |-> StateChunk(states[w[1]], w[2] + 4)]
      /\ UNCHANGED <<opt, states, pad, loop, hashed>>
  BY DEF StartCn2
<1>2. HashTypeOK /\ InStep /\ GpuHashesLikeTheCpu /\ opt \in Options /\ states = State0
  BY <1>1 DEF HashInv, HashTypeOK, InStep
<1>3. HashTypeOK'
  <2>1. 0 \in 0 .. Rounds + 1
    BY Shape
  <2>2. \A w \in Items : StateChunk(states[w[1]], w[2] + 4) \in Chunk
    BY <1>2, EveryState, StateIs DEF Items
  <2>. QED  BY <1>1, <1>2, <2>1, <2>2 DEF HashTypeOK
<1>4. ASSUME NEW n \in Nonces, CpuOf(n).exact
      PROVE  /\ CpuOf(n).mem = PadOf(n)
             /\ \A j \in LaneNos : text'[<<n, j>>] = Imploded(CpuOf(n).mem, State0[n])[0][j]
  <2>1. CpuOf(n) = Looped(opt, State0[n])[Iterations] /\ Iterations \in 0 .. Iterations
    BY LoopedIs, ShapeAssumption DEF CpuOf
  <2>2. CpuOf(n).mem = PadOf(n)
    BY <1>1, <1>2, <1>4, <2>1 DEF InStep, Same
  <2>3. CpuOf(n) \in Cpus
    BY <1>2, <2>1, EveryState, LoopedTypes
  <2>4. CpuOf(n).mem \in Mems
    BY <2>3 DEF Cpus
  <2>5. \A j \in LaneNos : Imploded(CpuOf(n).mem, State0[n])[0][j] = StateChunk(State0[n], j + 4)
    BY <2>4, EveryState, ImplodedIs
  <2>. QED  BY <1>1, <1>2, <2>2, <2>5 DEF Items
<1>5. \A n \in Nonces, j \in LaneNos : at'[<<n, j>>] = 0
  BY <1>1 DEF Items
<1>6. ASSUME NEW n \in Nonces, NEW u \in 8 .. 2 * Lanes + 7
      PROVE  at'[<<n, (u \div 2) - 4>>] # Rounds + 1
  <2>1. (u \div 2) - 4 \in LaneNos
    BY StoredWord
  <2>2. 0 # Rounds + 1
    BY Shape
  <2>. QED  BY <1>5, <2>1, <2>2
<1>7. Folded'
  <2>1. \A n : PadOf(n)' = PadOf(n) /\ CpuOf(n)' = CpuOf(n)
    BY <1>1 DEF PadOf, CpuOf
  <2>2. \A n \in Nonces : CpuOf(n)'.exact =>
          /\ CpuOf(n)'.mem = PadOf(n)'
          /\ \A j \in LaneNos : LET k == IF at'[<<n, j>>] <= Rounds THEN at'[<<n, j>>] ELSE Rounds
                                IN  text'[<<n, j>>] = Imploded(CpuOf(n)'.mem, State0[n])[k][j]
    BY <1>4, <1>5, <2>1, Shape
  <2>3. \A n \in Nonces, u \in WordNos :
          states'[n][u] = IF u \in 8 .. 2 * Lanes + 7 /\ at'[<<n, (u \div 2) - 4>>] = Rounds + 1
                          THEN text'[<<n, (u \div 2) - 4>>][(u % 2) + 1] ELSE State0[n][u]
    BY <1>1, <1>2, <1>6
  <2>. QED  BY <2>2, <2>3 DEF Folded
<1>8. Filled' /\ InStep'
  BY <1>1 DEF Filled, InStep
<1>9. GpuHashesLikeTheCpu'
  BY <1>1, <1>2 DEF GpuHashesLikeTheCpu
<1>. QED  BY <1>3, <1>7, <1>8, <1>9 DEF HashInv

LEMMA Cn2Step == ASSUME AesGivesChunks, HashInv, NEW w \in Items, Cn2(w) PROVE HashInv'
<1>. DEFINE v == w[1]
            g == w[2]
            k == at[w]
            x == pad[Slot(opt.layout, v, k * Lanes + g)]
            t == AesRounds(XorChunk(x, text[w]), Key2(states[v]))
<1>1. /\ phase = "cn2" /\ k < Rounds /\ text' = [text EXCEPT ![w] = t]
      /\ at' = [at EXCEPT ![w] = k + 1] /\ UNCHANGED <<opt, phase, states, pad, loop, hashed>>
  BY DEF Cn2
<1>2. HashTypeOK /\ Folded /\ GpuHashesLikeTheCpu
  BY DEF HashInv
<1>3. /\ v \in Nonces /\ g \in LaneNos /\ w = <<v, g>> /\ k \in 0 .. Rounds - 1 /\ opt \in Options
      /\ text[w] \in Chunk /\ IsState(State0[v])
  BY <1>1, <1>2, EveryState, Shape DEF HashTypeOK, Items
<1>4. Key2(states[v]) = Key2(State0[v])
  <2>1. ASSUME NEW u \in 0 .. 7 PROVE states[v][u] = State0[v][u]
    <3>1. u \in WordNos /\ u \notin 8 .. 2 * Lanes + 7
      BY StateAssumption, Shape DEF WordNos
    <3>. QED  BY <1>1, <1>2, <1>3, <3>1 DEF Folded
  <2>2. 4 \in 0 .. 7 /\ 5 \in 0 .. 7 /\ 6 \in 0 .. 7 /\ 7 \in 0 .. 7
    OBVIOUS
  <2>. QED  BY <2>1, <2>2 DEF Key2
<1>5. k * Lanes + g \in ChunkNos /\ x = PadOf(v)[k * Lanes + g] /\ x \in Chunk
  <2>1. k * Lanes + g \in ChunkNos
    BY <1>3, ChunkNumber
  <2>2. Slot(opt.layout, v, k * Lanes + g) \in 0 .. N * Chunks - 1
    BY <1>3, <2>1, SlotIs
  <2>. QED  BY <1>2, <2>1, <2>2 DEF PadOf, HashTypeOK
<1>6. t \in Chunk
  <2>1. XorChunk(x, text[w]) \in Chunk
    BY <1>3, <1>5, ChunksOfWords
  <2>. QED  BY <1>3, <1>4, <2>1, StateIs DEF AesGivesChunks
<1>7. t = AesRounds(XorChunk(PadOf(v)[k * Lanes + g], text[w]), Key2(State0[v]))
  BY <1>4, <1>5
<1>. HIDE DEF x, t, k
<1>8. /\ at'[w] = k + 1 /\ text'[w] = t /\ at[w] = k
      /\ \A y \in Items : y # w => at'[y] = at[y] /\ text'[y] = text[y]
  BY <1>1, <1>2 DEF HashTypeOK, k
<1>9. HashTypeOK'
  <2>1. k + 1 \in 0 .. Rounds + 1
    BY <1>3, Shape
  <2>2. text' \in [Items -> Chunk] /\ at' \in [Items -> 0 .. Rounds + 1]
    BY <1>1, <1>2, <1>6, <2>1 DEF HashTypeOK
  <2>. QED  BY <1>1, <1>2, <2>2 DEF HashTypeOK
<1>. DEFINE PassesDone(n, j) == IF at[<<n, j>>] <= Rounds THEN at[<<n, j>>] ELSE Rounds
            NextPassesDone(n, j) == IF at'[<<n, j>>] <= Rounds THEN at'[<<n, j>>] ELSE Rounds
<1>10. ASSUME NEW n \in Nonces, CpuOf(n).exact
       PROVE  /\ CpuOf(n).mem = PadOf(n)
              /\ \A j \in LaneNos :
                   text'[<<n, j>>] = Imploded(CpuOf(n).mem, State0[n])[NextPassesDone(n, j)][j]
  <2>1. /\ CpuOf(n).mem = PadOf(n)
        /\ \A j \in LaneNos : text[<<n, j>>] = Imploded(CpuOf(n).mem, State0[n])[PassesDone(n, j)][j]
    BY <1>1, <1>2, <1>10 DEF Folded
  <2>2. ASSUME NEW j \in LaneNos
        PROVE  text'[<<n, j>>] = Imploded(CpuOf(n).mem, State0[n])[NextPassesDone(n, j)][j]
    <3>1. CASE <<n, j>> = w
      <4>1. n = v /\ j = g /\ PassesDone(n, j) = k /\ NextPassesDone(n, j) = k + 1
        BY <1>3, <1>8, <3>1, Shape
      <4>. HIDE DEF PassesDone, NextPassesDone
      <4>2. PadOf(v) \in Mems
        BY <1>2, <1>3, SlotIs DEF PadOf, Mems, HashTypeOK
      <4>3. k + 1 \in 1 .. Rounds /\ (k + 1) - 1 = k
        BY <1>3, Shape
      <4>4. Imploded(PadOf(v), State0[v])[k + 1][g] =
              AesRounds(XorChunk(PadOf(v)[k * Lanes + g], Imploded(PadOf(v), State0[v])[k][g]),
                        Key2(State0[v]))
        <5>. DEFINE b == k + 1
        <5>1. b \in 1 .. Rounds /\ b - 1 = k
          BY <4>3
        <5>. HIDE DEF b
        <5>2. Imploded(PadOf(v), State0[v])[b][g] =
                AesRounds(XorChunk(PadOf(v)[(b - 1) * Lanes + g], Imploded(PadOf(v), State0[v])[b - 1][g]),
                          Key2(State0[v]))
          BY <1>3, <4>2, <5>1, ImplodedIs
        <5>. QED  BY <5>1, <5>2 DEF b
      <4>. QED  BY <1>7, <1>8, <2>1, <3>1, <4>1, <4>4
    <3>2. CASE <<n, j>> # w
      <4>1. text'[<<n, j>>] = text[<<n, j>>] /\ NextPassesDone(n, j) = PassesDone(n, j)
        BY <1>8, <3>2 DEF Items
      <4>. HIDE DEF PassesDone, NextPassesDone
      <4>. QED  BY <2>1, <4>1
    <3>. QED  BY <3>1, <3>2
  <2>. HIDE DEF NextPassesDone
  <2>. QED  BY <2>1, <2>2
<1>11. ASSUME NEW n \in Nonces, NEW u \in WordNos
       PROVE  states'[n][u] = IF u \in 8 .. 2 * Lanes + 7 /\ at'[<<n, (u \div 2) - 4>>] = Rounds + 1
                              THEN text'[<<n, (u \div 2) - 4>>][(u % 2) + 1] ELSE State0[n][u]
  <2>. DEFINE j == (u \div 2) - 4
              b == (u % 2) + 1
  <2>1. states[n][u] = IF u \in 8 .. 2 * Lanes + 7 /\ at[<<n, j>>] = Rounds + 1
                       THEN text[<<n, j>>][b] ELSE State0[n][u]
    BY <1>1, <1>2 DEF Folded
  <2>2. u \in 8 .. 2 * Lanes + 7 => j \in LaneNos
    BY StoredWord
  <2>. HIDE DEF j, b
  <2>3. u \in 8 .. 2 * Lanes + 7 =>
          /\ (at'[<<n, j>>] = Rounds + 1) = (at[<<n, j>>] = Rounds + 1)
          /\ at[<<n, j>>] = Rounds + 1 => text'[<<n, j>>] = text[<<n, j>>]
    <3>1. k # Rounds + 1 /\ k + 1 # Rounds + 1
      BY <1>3, Shape
    <3>. QED  BY <1>8, <2>2, <3>1 DEF Items
  <2>4. states'[n][u] = IF u \in 8 .. 2 * Lanes + 7 /\ at'[<<n, j>>] = Rounds + 1
                        THEN text'[<<n, j>>][b] ELSE State0[n][u]
    BY <1>1, <2>1, <2>3
  <2>. QED  BY <2>4 DEF j, b
<1>12. Folded'
  <2>1. \A n : PadOf(n)' = PadOf(n) /\ CpuOf(n)' = CpuOf(n)
    BY <1>1 DEF PadOf, CpuOf
  <2>. QED  BY <1>10, <1>11, <2>1 DEF Folded
<1>13. Filled' /\ InStep'
  BY <1>1 DEF Filled, InStep
<1>14. GpuHashesLikeTheCpu'
  BY <1>1, <1>2 DEF GpuHashesLikeTheCpu
<1>. QED  BY <1>9, <1>12, <1>13, <1>14 DEF HashInv

LEMMA StoreTextStep == ASSUME AesGivesChunks, HashInv, NEW w \in Items, StoreText(w) PROVE HashInv'
<1>. DEFINE v  == w[1]
            g  == w[2]
            lo == 2 * (g + 4)
            hi == 2 * (g + 4) + 1
<1>1. /\ phase = "cn2" /\ at[w] = Rounds
      /\ states' = [states EXCEPT ![v][lo] = text[w][1], ![v][hi] = text[w][2]]
      /\ at' = [at EXCEPT ![w] = Rounds + 1] /\ UNCHANGED <<opt, phase, pad, text, loop, hashed>>
  BY DEF StoreText
<1>2. HashTypeOK /\ Folded /\ GpuHashesLikeTheCpu
  BY DEF HashInv
<1>3. /\ v \in Nonces /\ g \in LaneNos /\ w = <<v, g>> /\ opt \in Options
      /\ text[w] \in Chunk /\ text[w][1] \in ULong /\ text[w][2] \in ULong
  BY <1>2 DEF HashTypeOK, Items, Chunk
<1>4. /\ lo \in 8 .. 2 * Lanes + 7 /\ hi \in 8 .. 2 * Lanes + 7 /\ lo \in WordNos /\ hi \in WordNos
      /\ lo \div 2 = g + 4 /\ lo % 2 = 0 /\ hi \div 2 = g + 4 /\ hi % 2 = 1 /\ lo # hi
      /\ (g + 4) - 4 = g
  <2>1. g \in Nat
    BY <1>3, Shape DEF LaneNos
  <2>. QED  BY <1>3, <2>1, LaneWords
<1>a. \A u \in 8 .. 2 * Lanes + 7 : (u \div 2) - 4 = g => u = lo \/ u = hi
  <2>. SUFFICES ASSUME NEW u \in 8 .. 2 * Lanes + 7, (u \div 2) - 4 = g PROVE u = lo \/ u = hi
    OBVIOUS
  <2>1. u = 2 * (g + 4) + (u % 2) /\ (u % 2) + 1 \in {1, 2} /\ u \in Nat /\ g \in Nat
    BY <1>3, StoredWord, Shape DEF LaneNos
  <2>2. u % 2 = 0 \/ u % 2 = 1
    BY <2>1
  <2>. QED  BY <2>1, <2>2
<1>. HIDE DEF lo, hi
<1>5. /\ at'[w] = Rounds + 1 /\ \A y \in Items : y # w => at'[y] = at[y]
  BY <1>1, <1>2 DEF HashTypeOK
<1>6. /\ states'[v][lo] = text[w][1] /\ states'[v][hi] = text[w][2]
      /\ \A u \in WordNos : u # lo /\ u # hi => states'[v][u] = states[v][u]
      /\ \A n \in Nonces : n # v => states'[n] = states[n]
      /\ states' \in [Nonces -> [WordNos -> ULong]]
  <2>1. states \in [Nonces -> [WordNos -> ULong]]
    BY <1>2 DEF HashTypeOK
  <2>. DEFINE s1 == [states EXCEPT ![v][lo] = text[w][1]]
              s2 == [s1 EXCEPT ![v][hi] = text[w][2]]
  <2>2. states' = s2
    BY <1>1
  <2>3. s1 \in [Nonces -> [WordNos -> ULong]] /\ s1[v][lo] = text[w][1]
    BY <1>3, <1>4, <2>1
  <2>4. /\ \A u \in WordNos : u # lo => s1[v][u] = states[v][u]
        /\ \A n \in Nonces : n # v => s1[n] = states[n]
    BY <1>3, <2>1
  <2>. HIDE DEF s1
  <2>5. s2 \in [Nonces -> [WordNos -> ULong]] /\ s2[v][hi] = text[w][2]
    BY <1>3, <1>4, <2>3
  <2>6. /\ \A u \in WordNos : u # hi => s2[v][u] = s1[v][u]
        /\ \A n \in Nonces : n # v => s2[n] = s1[n]
    BY <1>3, <2>3
  <2>. HIDE DEF s2
  <2>. QED  BY <1>4, <2>2, <2>3, <2>4, <2>5, <2>6
<1>7. HashTypeOK'
  <2>1. Rounds + 1 \in 0 .. Rounds + 1
    BY Shape
  <2>. QED  BY <1>1, <1>2, <1>6, <2>1 DEF HashTypeOK
<1>. DEFINE PassesDone(n, j) == IF at[<<n, j>>] <= Rounds THEN at[<<n, j>>] ELSE Rounds
            NextPassesDone(n, j) == IF at'[<<n, j>>] <= Rounds THEN at'[<<n, j>>] ELSE Rounds
<1>8. ASSUME NEW n \in Nonces, NEW j \in LaneNos PROVE NextPassesDone(n, j) = PassesDone(n, j)
  <2>1. CASE <<n, j>> = w
    BY <1>1, <1>5, <2>1, Shape
  <2>2. CASE <<n, j>> # w
    BY <1>5, <2>2 DEF Items
  <2>. QED  BY <2>1, <2>2
<1>9. \A n \in Nonces : CpuOf(n).exact =>
        /\ CpuOf(n).mem = PadOf(n)
        /\ \A j \in LaneNos : text[<<n, j>>] = Imploded(CpuOf(n).mem, State0[n])[PassesDone(n, j)][j]
  BY <1>1, <1>2 DEF Folded
<1>. HIDE DEF PassesDone
<1>10. \A n \in Nonces : CpuOf(n).exact =>
         /\ CpuOf(n).mem = PadOf(n)
         /\ \A j \in LaneNos : text'[<<n, j>>] = Imploded(CpuOf(n).mem, State0[n])[NextPassesDone(n, j)][j]
  <2>. HIDE DEF NextPassesDone
  <2>. QED  BY <1>1, <1>8, <1>9
<1>11. ASSUME NEW n \in Nonces, NEW u \in WordNos
       PROVE  states'[n][u] = IF u \in 8 .. 2 * Lanes + 7 /\ at'[<<n, (u \div 2) - 4>>] = Rounds + 1
                              THEN text'[<<n, (u \div 2) - 4>>][(u % 2) + 1] ELSE State0[n][u]
  <2>. DEFINE j == (u \div 2) - 4
              b == (u % 2) + 1
  <2>1. states[n][u] = IF u \in 8 .. 2 * Lanes + 7 /\ at[<<n, j>>] = Rounds + 1
                       THEN text[<<n, j>>][b] ELSE State0[n][u]
    BY <1>1, <1>2 DEF Folded
  <2>2. u \in 8 .. 2 * Lanes + 7 => j \in LaneNos
    BY StoredWord
  <2>3. CASE n = v /\ u \in {lo, hi}
    <3>1. j = g /\ u \in 8 .. 2 * Lanes + 7 /\ at'[<<n, j>>] = Rounds + 1 /\ text'[<<n, j>>] = text[w]
      BY <1>1, <1>3, <1>4, <1>5, <2>3
    <3>2. states'[n][u] = text[w][b]
      BY <1>4, <1>6, <2>3
    <3>. QED  BY <3>1, <3>2
  <2>4. CASE ~(n = v /\ u \in {lo, hi})
    <3>1. states'[n][u] = states[n][u]
      BY <1>6, <2>4
    <3>2. u \in 8 .. 2 * Lanes + 7 => <<n, j>> # w
      BY <1>3, <1>a, <2>4
    <3>. HIDE DEF j, b
    <3>3. u \in 8 .. 2 * Lanes + 7 => at'[<<n, j>>] = at[<<n, j>>]
      BY <1>5, <2>2, <3>2 DEF Items
    <3>4. states'[n][u] = IF u \in 8 .. 2 * Lanes + 7 /\ at'[<<n, j>>] = Rounds + 1
                          THEN text'[<<n, j>>][b] ELSE State0[n][u]
      BY <1>1, <2>1, <3>1, <3>3
    <3>. QED  BY <3>4 DEF j, b
  <2>. QED  BY <2>3, <2>4
<1>12. Folded'
  <2>1. \A n : PadOf(n)' = PadOf(n) /\ CpuOf(n)' = CpuOf(n)
    BY <1>1 DEF PadOf, CpuOf
  <2>. QED  BY <1>10, <1>11, <2>1 DEF Folded
<1>13. Filled' /\ InStep'
  BY <1>1 DEF Filled, InStep
<1>14. GpuHashesLikeTheCpu'
  BY <1>1, <1>2 DEF GpuHashesLikeTheCpu
<1>. QED  BY <1>7, <1>12, <1>13, <1>14 DEF HashInv

LEMMA LastKeccakStep == ASSUME AesGivesChunks, HashInv, NEW v \in Nonces, LastKeccak(v) PROVE HashInv'
<1>1. /\ phase = "cn2" /\ Barrier(v) /\ hashed' = [hashed EXCEPT ![v] = states[v]]
      /\ UNCHANGED <<opt, phase, states, pad, at, text, loop>>
  BY DEF LastKeccak
<1>2. HashTypeOK /\ Folded /\ GpuHashesLikeTheCpu
  BY DEF HashInv
<1>3. \A j \in LaneNos : at[<<v, j>>] = Rounds + 1
  BY <1>1 DEF Barrier, Items
<1>4. HashTypeOK'
  BY <1>1, <1>2 DEF HashTypeOK
<1>5. Folded'
  <2>1. \A n : PadOf(n)' = PadOf(n) /\ CpuOf(n)' = CpuOf(n)
    BY <1>1 DEF PadOf, CpuOf
  <2>. QED  BY <1>1, <1>2, <2>1 DEF Folded
<1>6. Filled' /\ InStep'
  BY <1>1 DEF Filled, InStep
<1>7. ASSUME CpuOf(v).exact PROVE states[v] = CpuImplode(CpuOf(v).mem, State0[v])
  <2>. DEFINE out == Imploded(CpuOf(v).mem, State0[v])[Rounds]
  <2>1. ASSUME NEW j \in LaneNos PROVE text[<<v, j>>] = out[j]
    <3>1. ~(at[<<v, j>>] <= Rounds)
      BY <1>3, Shape
    <3>. QED  BY <1>1, <1>2, <1>7, <3>1 DEF Folded
  <2>. HIDE DEF out
  <2>2. ASSUME NEW u \in WordNos
        PROVE  states[v][u] = IF u \in 8 .. 2 * Lanes + 7 THEN out[(u \div 2) - 4][(u % 2) + 1]
                              ELSE State0[v][u]
    <3>1. states[v][u] = IF u \in 8 .. 2 * Lanes + 7 /\ at[<<v, (u \div 2) - 4>>] = Rounds + 1
                         THEN text[<<v, (u \div 2) - 4>>][(u % 2) + 1] ELSE State0[v][u]
      BY <1>1, <1>2 DEF Folded
    <3>2. u \in 8 .. 2 * Lanes + 7 => (u \div 2) - 4 \in LaneNos
      BY StoredWord
    <3>. DEFINE j == (u \div 2) - 4
                b == (u % 2) + 1
    <3>. HIDE DEF j, b
    <3>3. states[v][u] = IF u \in 8 .. 2 * Lanes + 7 THEN out[j][b] ELSE State0[v][u]
      BY <1>3, <2>1, <3>1, <3>2 DEF j, b
    <3>. QED  BY <3>3 DEF j, b
  <2>3. CpuImplode(CpuOf(v).mem, State0[v]) =
          [u \in WordNos |-> IF u \in 8 .. 2 * Lanes + 7 THEN out[(u \div 2) - 4][(u % 2) + 1]
                           ELSE State0[v][u]]
    <3>1. DOMAIN State0[v] = WordNos
      BY EveryState DEF WordNos
    <3>. QED  BY <3>1, CpuImplodeIs DEF out
  <2>4. states[v] = [u \in WordNos |-> states[v][u]]
    BY <1>2 DEF HashTypeOK
  <2>. QED  BY <2>2, <2>3, <2>4
<1>8. GpuHashesLikeTheCpu'
  <2>. SUFFICES ASSUME NEW n \in Nonces, hashed'[n] # None, CpuOf(n).exact
                PROVE  hashed'[n] = CpuImplode(CpuOf(n).mem, State0[n])
    BY <1>1 DEF GpuHashesLikeTheCpu, CpuOf
  <2>1. CASE n = v
    BY <1>1, <1>2, <1>7, <2>1 DEF HashTypeOK
  <2>2. CASE n # v
    <3>1. hashed'[n] = hashed[n]
      BY <1>1, <1>2, <2>2 DEF HashTypeOK
    <3>. QED  BY <1>2, <3>1 DEF GpuHashesLikeTheCpu, CpuOf
  <2>. QED  BY <2>1, <2>2
<1>. QED  BY <1>4, <1>5, <1>6, <1>8 DEF HashInv

\* A nonce that is hashed on the GPU ends with the state the CPU computes for it, for any number of
\* nonces, lanes, chunks and iterations, any words, options and states, and any AES that makes
\* chunks of chunks: GpuHashesLikeTheCpu (cryptonight.cl:484-934, cryptonight_aesni.h:244-357).
THEOREM GpuIsTheCpu == ASSUME AesGivesChunks PROVE Spec => []GpuHashesLikeTheCpu
<1>1. Init => HashInv
  BY HashInit
<1>2. HashInv /\ [Next]_vars => HashInv'
  <2>. SUFFICES ASSUME HashInv, [Next]_vars PROVE HashInv'
    OBVIOUS
  <2>1. CASE StartCn1
    BY <2>1, StartCn1Step
  <2>2. CASE StartCn2
    BY <2>2, StartCn2Step
  <2>3. ASSUME NEW w \in Items, Cn0(w) PROVE HashInv'
    BY <2>3, Cn0Step
  <2>4. ASSUME NEW w \in Items, Cn2(w) PROVE HashInv'
    BY <2>4, Cn2Step
  <2>5. ASSUME NEW w \in Items, StoreText(w) PROVE HashInv'
    BY <2>5, StoreTextStep
  <2>6. ASSUME NEW n \in Nonces, Cn1(n) PROVE HashInv'
    BY <2>6, Cn1Step
  <2>7. ASSUME NEW n \in Nonces, LastKeccak(n) PROVE HashInv'
    BY <2>7, LastKeccakStep
  <2>8. CASE UNCHANGED vars
    BY <2>8, HashStutter
  <2>. QED  BY <2>1, <2>2, <2>3, <2>4, <2>5, <2>6, <2>7, <2>8 DEF Next
<1>3. HashInv => GpuHashesLikeTheCpu
  BY DEF HashInv
<1>. QED  BY <1>1, <1>2, <1>3, PTL DEF Spec
=============================================================================
