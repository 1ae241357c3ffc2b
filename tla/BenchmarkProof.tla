--------------------------- MODULE BenchmarkProof ---------------------------
(***************************************************************************)
(* The benchmark counts right, for any number of threads and rounds: no    *)
(* hash and no time is lost between a thread and the totals, the two       *)
(* counters, emptied one after the other, are at most one batch apart, and *)
(* what is printed is the average of the best rounds.                      *)
(*                                                                         *)
(* The sums are over the threads and the rounds, so that each needs an     *)
(* induction.  A set of numbers that contains 0 and the successor of each  *)
(* of its members contains all of them, because otherwise there would be a *)
(* least number that it lacks: that is SetInduction, and Iteration says    *)
(* with it that a recursive function takes the steps of its definition.    *)
(***************************************************************************)
EXTENDS Benchmark, FiniteSetTheorems, WellFoundedInduction, TLAPS

Histories ==
  /\ pc \in [Threads -> {"run", "counted"}]
  /\ batches \in [Threads -> Nat] /\ timed \in [Threads -> Nat]
  /\ countedTo \in [Threads -> Nat] /\ timedTo \in [Threads -> Nat]

\* A thread in a batch has timed all it counted, and all but one before it timed that.
TimedAllButOne(t) == batches[t] = timed[t] + (IF pc[t] = "counted" THEN 1 ELSE 0)

\* Without the second conjunct nothing would bound countedTo while mpc = "time".
Lag ==
  /\ \A t \in Threads : TimedAllButOne(t)
  /\ \A t \in Threads : countedTo[t] <= batches[t]
  /\ TimeIsOneBatchBehind

Inv == Histories /\ Lag

-----------------------------------------------------------------------------
(* In the initial state nothing is counted and nothing timed.               *)
LEMMA InitialLag == Init => Inv
  BY DEF Init, Inv, Histories, Lag, TimedAllButOne, TimeIsOneBatchBehind

(* The steps of a mining thread: it may get one batch ahead, no more.       *)
LEMMA MinerKeepsLag ==
  ASSUME Inv, NEW t \in Threads, CountBatch(t) \/ TimeBatch(t)
  PROVE  Inv'
<1>. USE DEF Inv, Histories, Lag, TimedAllButOne, TimeIsOneBatchBehind
<1>1. CASE CountBatch(t)
  BY <1>1 DEF CountBatch
<1>2. CASE TimeBatch(t)
  BY <1>2 DEF TimeBatch
<1>. QED  BY <1>1, <1>2

(* The two steps that empty a counter: after the second one timedTo is      *)
(* timed, which is at most one behind batches, hence behind countedTo.      *)
LEMMA ExchangesKeepLag ==
  ASSUME Inv, ExchangeCount \/ ExchangeTime
  PROVE  Inv'
<1>1. CASE ExchangeCount
  <2>1. Histories'
    BY <1>1 DEF ExchangeCount, Inv, Histories, miner
  <2>2. \A t \in Threads : TimedAllButOne(t)' /\ (countedTo[t] <= batches[t])'
    BY <1>1 DEF ExchangeCount, Inv, Histories, Lag, TimedAllButOne, miner
  <2>3. TimeIsOneBatchBehind'
    BY <1>1 DEF ExchangeCount, Inv, Histories, Lag, TimeIsOneBatchBehind
  <2>. QED  BY <2>1, <2>2, <2>3 DEF Inv, Lag
<1>2. CASE ExchangeTime
  <2>1. Histories'
    BY <1>2 DEF ExchangeTime, Inv, Histories, miner
  <2>2. \A t \in Threads : TimedAllButOne(t)' /\ (countedTo[t] <= batches[t])'
    BY <1>2 DEF ExchangeTime, Inv, Lag, TimedAllButOne, miner
  <2>3. ASSUME NEW t \in Threads PROVE countedTo'[t] <= timedTo'[t] + 1
    <3>1. timed[t] \in Nat /\ batches[t] \in Nat /\ countedTo[t] \in Nat
      BY DEF Inv, Histories
    <3>2. countedTo[t] <= timed[t] + 1
      BY <3>1 DEF Inv, Lag, TimedAllButOne
    <3>3. CASE t = i
      BY <1>2, <3>2, <3>3 DEF ExchangeTime, Inv, Histories
    <3>4. CASE t # i
      BY <1>2, <3>4 DEF ExchangeTime, Inv, Histories, Lag, TimeIsOneBatchBehind
    <3>. QED  BY <3>3, <3>4
  <2>. QED  BY <2>1, <2>2, <2>3 DEF Inv, Lag, TimeIsOneBatchBehind
<1>. QED  BY <1>1, <1>2

(* No other step touches the counters, and none starts in mpc = "time".     *)
LEMMA OtherStepsKeepLag ==
  ASSUME Inv, Sleep \/ PrintRound \/ Sort \/ AverageBest \/ UNCHANGED vars
  PROVE  Inv'
<1>. USE DEF Inv, Histories, Lag, TimedAllButOne, TimeIsOneBatchBehind, miner
<1>1. CASE Sleep \/ PrintRound \/ Sort \/ AverageBest
  BY <1>1 DEF Sleep, PrintRound, Sort, AverageBest
<1>2. CASE UNCHANGED vars
  BY <1>2 DEF vars
<1>. QED  BY <1>1, <1>2

-----------------------------------------------------------------------------
(* Of each thread at most one batch is counted without its time, however    *)
(* many rounds the benchmark has and wherever the main thread interrupts    *)
(* the mining thread.                                                       *)
THEOREM TimeIsOneBatchBehindHolds == Spec => []TimeIsOneBatchBehind
<1>1. Inv /\ [Next]_vars => Inv'
  <2>. SUFFICES ASSUME Inv, Next \/ UNCHANGED vars PROVE Inv'
    OBVIOUS
  <2>. QED  BY MinerKeepsLag, ExchangesKeepLag, OtherStepsKeepLag DEF Next, Main
<1>2. Inv => TimeIsOneBatchBehind
  BY DEF Inv, Lag
<1>. QED  BY InitialLag, <1>1, <1>2, PTL DEF Spec

-----------------------------------------------------------------------------
(* Induction over the natural numbers, on the members of a set: the library's *)
(* theorem takes an operator.  The intervals 1 .. n are finite sets, and      *)
(* those are well-founded.                                                    *)
LEMMA LeastNumber ==
  ASSUME NEW T \in SUBSET Nat, T # {}
  PROVE  \E x \in T : \A y \in T : x <= y
<1>. DEFINE R == StrictSubsetOrdering(Nat)
            UpTo == {1 .. n : n \in T}
<1>1. IsWellFoundedOn(R, FiniteSubsetsOf(Nat))
  BY FS_StrictSubsetOrderingWellFounded
<1>2. UpTo # {} /\ UpTo \subseteq FiniteSubsetsOf(Nat)
  <2>1. \A n \in T : IsFiniteSet(1 .. n) /\ 1 .. n \subseteq Nat
    <3>. TAKE n \in T
    <3>. n \in Int OBVIOUS
    <3>. QED  BY FS_Interval
  <2>. QED  BY <2>1 DEF FiniteSubsetsOf
<1>3. \A x, y \in T : y < x => << 1 .. y, 1 .. x >> \in R
  <2>. TAKE x, y \in T
  <2>. HAVE y < x
  <2>1. x \in 1 .. x /\ x \notin 1 .. y /\ 1 .. y \subseteq 1 .. x /\ 1 .. x \subseteq Nat
    OBVIOUS
  <2>. QED  BY <2>1 DEF StrictSubsetOrdering
<1>. HIDE DEF R, UpTo
<1>4. PICK u \in UpTo : \A v \in UpTo : ~(<< v, u >> \in R)
  BY <1>1, <1>2, WFMin
<1>5. PICK x \in T : u = 1 .. x
  BY <1>4 DEF UpTo
<1>6. \A y \in T : ~(y < x)
  BY <1>3, <1>4, <1>5 DEF UpTo
<1>. QED  BY <1>6

LEMMA SetInduction ==
  ASSUME NEW S, 0 \in S, \A n \in Nat : n \in S => n + 1 \in S
  PROVE  Nat \subseteq S
<1>. SUFFICES ASSUME ~(Nat \subseteq S) PROVE FALSE
  OBVIOUS
<1>. DEFINE T == Nat \ S
<1>1. PICK x \in T : \A y \in T : x <= y
  BY LeastNumber
<1>2. x # 0 /\ x - 1 \in Nat /\ x - 1 \notin T
  BY <1>1
<1>. QED  BY <1>2

(* A sequence that each element determines the next of.                       *)
Steps(V, M) == [0 .. M - 1 -> [V -> V]]

Iterates(s, V, start, M, step) ==
  /\ s \in [0 .. M -> V]
  /\ s[0] = start
  /\ \A n \in 1 .. M : s[n] = step[n - 1][s[n - 1]]

LEMMA Iteration ==
  ASSUME NEW V, NEW start \in V, NEW M \in Nat, NEW step \in Steps(V, M)
  PROVE  \E s : Iterates(s, V, start, M, step)
<1>. USE DEF Iterates, Steps
<1>. DEFINE UpTo(m) == \E s : Iterates(s, V, start, m, step)
            S == {m \in Nat : m <= M => UpTo(m)}
<1>1. 0 \in S
  <2>. DEFINE first == [n \in 0 .. 0 |-> start]
  <2>1. first \in [0 .. 0 -> V] /\ first[0] = start /\ 1 .. 0 = {}
    OBVIOUS
  <2>2. UpTo(0)
    <3>. HIDE DEF first
    <3>. QED  BY <2>1
  <2>. QED  BY <2>2
<1>2. ASSUME NEW m \in Nat, m \in S PROVE m + 1 \in S
  <2>. SUFFICES ASSUME m + 1 <= M PROVE UpTo(m + 1)
    OBVIOUS
  <2>1. PICK s : Iterates(s, V, start, m, step)
    BY <1>2
  <2>. DEFINE next == [n \in 0 .. m + 1 |-> IF n <= m THEN s[n] ELSE step[m][s[m]]]
  <2>2. s[m] \in V /\ step[m][s[m]] \in V
    BY <2>1
  <2>3. next \in [0 .. m + 1 -> V]
    BY <2>1, <2>2
  <2>4. next[0] = start
    BY <2>1
  <2>5. ASSUME NEW n \in 1 .. m + 1 PROVE next[n] = step[n - 1][next[n - 1]]
    <3>1. CASE n <= m
      <4>1. n \in 1 .. m /\ n - 1 <= m /\ n - 1 \in 0 .. m + 1 /\ n \in 0 .. m + 1
        BY <3>1
      <4>2. next[n] = s[n] /\ next[n - 1] = s[n - 1]
        BY <3>1, <4>1
      <4>. QED  BY <2>1, <4>1, <4>2
    <3>2. CASE n = m + 1
      <4>1. next[n] = step[m][s[m]] /\ next[m] = s[m] /\ n - 1 = m
        BY <3>2
      <4>. QED  BY <4>1
    <3>. QED  BY <3>1, <3>2
  <2>. HIDE DEF next
  <2>. QED  BY <2>3, <2>4, <2>5
<1>. HIDE DEF S
<1>3. M \in S
  BY <1>1, <1>2, SetInduction
<1>. QED  BY <1>3 DEF S

-----------------------------------------------------------------------------
(* Total adds up what there is of each thread.                              *)
SumsTo(f) ==
  LET sum[n \in 0 .. N] == IF n = 0 THEN 0 ELSE sum[n - 1] + f[n - 1]
  IN  sum

LEMMA SumsOfThreads ==
  ASSUME NEW f \in [Threads -> Int]
  PROVE  /\ SumsTo(f) \in [0 .. N -> Int]
         /\ SumsTo(f)[0] = 0
         /\ \A n \in 1 .. N : SumsTo(f)[n] = SumsTo(f)[n - 1] + f[n - 1]
<1>. N \in Nat
  BY SizeAssumption
<1>. DEFINE add == [n \in 0 .. N - 1 |-> [v \in Int |-> v + f[n]]]
<1>1. add \in Steps(Int, N) /\ 0 \in Int
  BY DEF Threads, Steps
<1>2. PICK s : Iterates(s, Int, 0, N, add)
  <2>. HIDE DEF add
  <2>. QED  BY <1>1, Iteration
<1>3. ASSUME NEW n \in 1 .. N PROVE s[n] = s[n - 1] + f[n - 1]
  <2>1. n - 1 \in 0 .. N - 1 /\ s[n - 1] \in Int
    BY <1>2 DEF Iterates
  <2>2. add[n - 1][s[n - 1]] = s[n - 1] + f[n - 1]
    BY <2>1
  <2>. QED  BY <1>2, <2>2 DEF Iterates
<1>4. s = [n \in 0 .. N |-> IF n = 0 THEN 0 ELSE s[n - 1] + f[n - 1]]
  BY <1>2, <1>3 DEF Iterates
<1>. DEFINE rec(g) == g = [n \in 0 .. N |-> IF n = 0 THEN 0 ELSE g[n - 1] + f[n - 1]]
<1>5. SumsTo(f) = CHOOSE g : rec(g)
  BY DEF SumsTo
<1>6. rec(SumsTo(f))
  BY <1>4, <1>5
<1>7. \A n \in 0 .. N : SumsTo(f)[n] = IF n = 0 THEN 0 ELSE SumsTo(f)[n - 1] + f[n - 1]
  BY <1>6
<1>8. SumsTo(f)[0] = 0 /\ \A n \in 1 .. N : SumsTo(f)[n] = SumsTo(f)[n - 1] + f[n - 1]
  BY <1>7
<1>9. \A n \in Nat : n \in {m \in Nat : m <= N => SumsTo(f)[m] \in Int}
  <2>. DEFINE S == {m \in Nat : m <= N => SumsTo(f)[m] \in Int}
  <2>1. 0 \in S
    BY <1>8
  <2>2. ASSUME NEW n \in Nat, n \in S PROVE n + 1 \in S
    BY <1>8, <2>2 DEF Threads
  <2>. HIDE DEF S
  <2>. QED  BY <2>1, <2>2, SetInduction DEF S
<1>10. SumsTo(f) = [n \in 0 .. N |-> SumsTo(f)[n]]
  BY <1>6
<1>11. SumsTo(f) \in [0 .. N -> Int]
  BY <1>9, <1>10
<1>. QED  BY <1>8, <1>11

LEMMA TotalIs == ASSUME NEW f PROVE Total(f) = SumsTo(f)[N]
  BY DEF Total, SumsTo

\* What one thread gets the total gets.
LEMMA TotalPlus ==
  ASSUME NEW f \in [Threads -> Int], NEW t \in Threads, NEW d \in Int
  PROVE  /\ Total(f) \in Int
         /\ Total([f EXCEPT ![t] = f[t] + d]) = Total(f) + d
<1>. N \in Nat \ {0}
  BY SizeAssumption
<1>. DEFINE g == [f EXCEPT ![t] = f[t] + d]
            S == {n \in Nat : n <= N => SumsTo(g)[n] = SumsTo(f)[n] + (IF t < n THEN d ELSE 0)}
<1>1. g \in [Threads -> Int] /\ g[t] = f[t] + d /\ \A u \in Threads : u # t => g[u] = f[u]
  OBVIOUS
<1>. HIDE DEF g
<1>2. /\ SumsTo(f) \in [0 .. N -> Int] /\ SumsTo(f)[0] = 0
      /\ \A n \in 1 .. N : SumsTo(f)[n] = SumsTo(f)[n - 1] + f[n - 1]
  BY SumsOfThreads
<1>3. /\ SumsTo(g) \in [0 .. N -> Int] /\ SumsTo(g)[0] = 0
      /\ \A n \in 1 .. N : SumsTo(g)[n] = SumsTo(g)[n - 1] + g[n - 1]
  BY <1>1, SumsOfThreads
<1>4. t \in Nat /\ t < N
  BY DEF Threads
<1>5. 0 \in S
  BY <1>2, <1>3, <1>4
<1>6. ASSUME NEW n \in Nat, n \in S PROVE n + 1 \in S
  <2>. SUFFICES ASSUME n + 1 <= N
                PROVE  SumsTo(g)[n + 1] = SumsTo(f)[n + 1] + (IF t < n + 1 THEN d ELSE 0)
    OBVIOUS
  <2>1. n \in Threads /\ n + 1 \in 1 .. N /\ n \in 0 .. N
    BY DEF Threads
  <2>2. SumsTo(g)[n + 1] = SumsTo(g)[n] + g[n] /\ SumsTo(f)[n + 1] = SumsTo(f)[n] + f[n]
    BY <1>2, <1>3, <2>1
  <2>3. SumsTo(g)[n] = SumsTo(f)[n] + (IF t < n THEN d ELSE 0)
    <3>1. n <= N
      OBVIOUS
    <3>. QED  BY <1>6, <3>1, ZenonT(30)
  <2>4. SumsTo(f)[n] \in Int /\ f[n] \in Int /\ g[n] = IF n = t THEN f[n] + d ELSE f[n]
    BY <1>1, <1>2, <2>1
  <2>. QED  BY <1>4, <2>2, <2>3, <2>4
<1>. HIDE DEF S
<1>7. N \in S
  BY <1>5, <1>6, SetInduction
<1>8. Total(g) = Total(f) + d
  BY <1>4, <1>7, TotalIs DEF S
<1>9. Total(f) \in Int
  BY <1>2, TotalIs
<1>. QED  BY <1>8, <1>9 DEF g

LEMMA TotalWithout ==
  ASSUME NEW f \in [Threads -> Nat], NEW t \in Threads
  PROVE  /\ Total(f) \in Int
         /\ Total([f EXCEPT ![t] = 0]) = Total(f) - f[t]
<1>. DEFINE d == 0 - f[t]
<1>1. f \in [Threads -> Int] /\ d \in Int /\ f[t] + d = 0 /\ \A x \in Int : x + d = x - f[t]
  OBVIOUS
<1>. HIDE DEF d
<1>2. Total([f EXCEPT ![t] = f[t] + d]) = Total(f) + d /\ Total(f) \in Int
  BY <1>1, TotalPlus
<1>3. [f EXCEPT ![t] = f[t] + d] = [f EXCEPT ![t] = 0]
  BY <1>1
<1>. QED  BY <1>1, <1>2, <1>3

LEMMA TotalOfNothing == Total([t \in Threads |-> 0]) = 0
<1>. N \in Nat \ {0}
  BY SizeAssumption
<1>. DEFINE f == [t \in Threads |-> 0]
            S == {n \in Nat : n <= N => SumsTo(f)[n] = 0}
<1>1. f \in [Threads -> Int] /\ \A t \in Threads : f[t] = 0
  OBVIOUS
<1>. HIDE DEF f
<1>2. /\ SumsTo(f)[0] = 0
      /\ \A n \in 1 .. N : SumsTo(f)[n] = SumsTo(f)[n - 1] + f[n - 1]
  BY <1>1, SumsOfThreads
<1>3. 0 \in S
  BY <1>2
<1>4. ASSUME NEW n \in Nat, n \in S PROVE n + 1 \in S
  <2>. SUFFICES ASSUME n + 1 <= N PROVE SumsTo(f)[n + 1] = 0
    OBVIOUS
  <2>1. n \in Threads /\ n + 1 \in 1 .. N /\ SumsTo(f)[n] = 0
    BY <1>4 DEF Threads
  <2>. QED  BY <1>1, <1>2, <2>1
<1>. HIDE DEF S
<1>5. N \in S
  BY <1>3, <1>4, SetInduction
<1>. QED  BY <1>5, TotalIs DEF S, f

LEMMA PlusIsRate == ASSUME NEW r \in Rates, NEW s \in Rates PROVE Plus(r, s) \in Rates
<1>1. \A x, y \in Nat : x * y \in Nat
  OBVIOUS
<1>2. r.n \in Nat /\ r.d \in Nat /\ s.n \in Nat /\ s.d \in Nat
  BY DEF Rates
<1>3. r.n * s.d \in Nat /\ s.n * r.d \in Nat /\ r.d * s.d \in Nat
  BY <1>1, <1>2
<1>. QED  BY <1>3 DEF Plus, Rates

(* A sum of rates, one round after the other, is a rate.                    *)
RateSums(f, R) ==
  LET sum[n \in 0 .. NumTests] == IF n = 0 THEN Rate(0, 1)
                                  ELSE IF n - 1 \in R THEN Plus(sum[n - 1], f[n - 1])
                                  ELSE sum[n - 1]
  IN  sum

LEMMA SumIs == ASSUME NEW f, NEW R PROVE SumOf(f, R) = RateSums(f, R)[NumTests]
  BY DEF SumOf, RateSums

LEMMA SumsOfRounds ==
  ASSUME NEW f \in [Rounds -> Rates], NEW R
  PROVE  /\ RateSums(f, R)[0] = Rate(0, 1)
         /\ \A n \in Rounds : RateSums(f, R)[n + 1] =
              IF n \in R THEN Plus(RateSums(f, R)[n], f[n]) ELSE RateSums(f, R)[n]
         /\ \A n \in 0 .. NumTests : RateSums(f, R)[n] \in Rates
<1>. NumTests \in Nat \ {0}
  BY SizeAssumption
<1>. DEFINE next(n, v) == IF n \in R THEN Plus(v, f[n]) ELSE v
            add == [n \in 0 .. NumTests - 1 |-> [v \in Rates |-> next(n, v)]]
            rec(g) == g = [n \in 0 .. NumTests |->
                             IF n = 0 THEN Rate(0, 1)
                             ELSE IF n - 1 \in R THEN Plus(g[n - 1], f[n - 1]) ELSE g[n - 1]]
            sum == RateSums(f, R)
<1>1. Rate(0, 1) \in Rates
  BY DEF Rate, Rates
<1>2. ASSUME NEW n \in 0 .. NumTests - 1, NEW v \in Rates PROVE next(n, v) \in Rates
  BY PlusIsRate DEF Rounds
<1>3. add \in Steps(Rates, NumTests)
  BY <1>2 DEF Steps
<1>4. PICK s : Iterates(s, Rates, Rate(0, 1), NumTests, add)
  <2>. HIDE DEF add
  <2>. QED  BY <1>1, <1>3, Iteration
<1>5. ASSUME NEW n \in 1 .. NumTests PROVE s[n] = next(n - 1, s[n - 1])
  <2>1. n - 1 \in 0 .. NumTests - 1 /\ s[n - 1] \in Rates
    BY <1>4 DEF Iterates
  <2>2. add[n - 1][s[n - 1]] = next(n - 1, s[n - 1])
    BY <2>1
  <2>. QED  BY <1>4, <2>2 DEF Iterates
<1>6. rec(s)
  BY <1>4, <1>5 DEF Iterates
<1>7. rec(sum)
  <2>1. sum = CHOOSE g : rec(g)
    BY DEF RateSums
  <2>. HIDE DEF rec, sum
  <2>. QED  BY <1>6, <2>1
<1>. HIDE DEF sum
<1>8. sum[0] = Rate(0, 1) /\ \A n \in 1 .. NumTests : sum[n] = next(n - 1, sum[n - 1])
  BY <1>7
<1>9. ASSUME NEW n \in Rounds PROVE sum[n + 1] = next(n, sum[n])
  <2>. DEFINE q == n + 1
  <2>1. q \in 1 .. NumTests /\ q - 1 = n
    BY DEF Rounds
  <2>. HIDE DEF next, q
  <2>2. sum[q] = next(q - 1, sum[q - 1])
    BY <1>8, <2>1
  <2>. QED  BY <2>1, <2>2 DEF q
<1>10. ASSUME NEW n \in 0 .. NumTests PROVE sum[n] \in Rates
  <2>. DEFINE S == {m \in Nat : m <= NumTests => sum[m] \in Rates}
  <2>1. 0 \in S
    BY <1>1, <1>8
  <2>2. ASSUME NEW m \in Nat, m \in S PROVE m + 1 \in S
    <3>. HIDE DEF next
    <3>. SUFFICES ASSUME m + 1 <= NumTests PROVE sum[m + 1] \in Rates
      OBVIOUS
    <3>1. m \in 0 .. NumTests - 1 /\ m \in Rounds /\ sum[m] \in Rates
      BY <2>2 DEF Rounds
    <3>. QED  BY <1>2, <1>9, <3>1
  <2>. HIDE DEF S
  <2>3. n \in S
    BY <2>1, <2>2, SetInduction
  <2>. QED  BY <2>3 DEF S
<1>. QED  BY <1>8, <1>9, <1>10 DEF sum

LEMMA SumIsRate ==
  ASSUME NEW f \in [Rounds -> Rates], NEW R
  PROVE  SumOf(f, R) \in Rates
<1>1. NumTests \in 0 .. NumTests
  BY SizeAssumption
<1>. QED  BY <1>1, SumsOfRounds, SumIs

-----------------------------------------------------------------------------
(* The types need TimedAllButOne: it keeps timed within MaxBatches.         *)
LEMMA InitialTypes == Init => TypeOK
  BY SizeAssumption, BatchBoundAssumption DEF Init, TypeOK, Threads, Rounds, Rate, Rates

LEMMA MinerKeepsTypes ==
  ASSUME TypeOK, Inv, NEW t \in Threads, CountBatch(t) \/ TimeBatch(t)
  PROVE  TypeOK'
<1>. USE SizeAssumption, BatchAssumption, BatchBoundAssumption DEF TypeOK, totals
<1>1. CASE CountBatch(t)
  BY <1>1 DEF CountBatch
<1>2. CASE TimeBatch(t)
  <2>1. timed[t] + 1 = batches[t]
    BY <1>2 DEF TimeBatch, Inv, Lag, TimedAllButOne
  <2>. QED  BY <1>2, <2>1 DEF TimeBatch
<1>. QED  BY <1>1, <1>2

LEMMA MainKeepsTypes ==
  ASSUME TypeOK, Main
  PROVE  TypeOK'
<1>. USE SizeAssumption, BatchBoundAssumption DEF TypeOK, totals, miner
<1>1. CASE Sleep
  <2>1. Rate(0, 1) \in Rates /\ 0 \in 0 .. N /\ 0 \in Threads
    BY DEF Rate, Rates, Threads
  <2>. QED  BY <1>1, <2>1 DEF Sleep
<1>2. CASE ExchangeCount
  BY <1>2 DEF ExchangeCount
<1>3. CASE ExchangeTime
  <2>1. \A r, s \in Rates : Plus(r, s) \in Rates
    BY PlusIsRate
  <2>2. i \in Threads /\ k \in Rounds /\ iTimestamp[i] \in Nat
    BY <1>3 DEF ExchangeTime
  <2>3. fTotalHps' \in [Rounds -> Rates]
    <3>1. Rate(count, iTimestamp[i]) \in Rates
      BY <2>2 DEF Rate, Rates
    <3>2. Plus(fTotalHps[k], Rate(count, iTimestamp[i])) \in Rates
      BY <2>1, <2>2, <3>1
    <3>. QED  BY <1>3, <3>2 DEF ExchangeTime
  <2>4. iTotalCount' \in Nat /\ iTotalTime' \in Nat
    BY <1>3, <2>2 DEF ExchangeTime
  <2>5. fAveHps' \in Rates
    <3>1. Rate(iTotalCount', iTotalTime') \in Rates
      BY <2>4 DEF Rate, Rates
    <3>. QED  BY <1>3, <2>1, <3>1 DEF ExchangeTime
  <2>6. i' \in 0 .. N /\ (mpc' \in {"count", "time"} => i' \in Threads)
    BY <1>3, <2>2 DEF ExchangeTime, Threads
  <2>. QED  BY <1>3, <2>2, <2>3, <2>4, <2>5, <2>6 DEF ExchangeTime
<1>4. CASE PrintRound
  BY <1>4 DEF PrintRound, Rounds
<1>5. CASE Sort
  <2>1. PICK p \in Bijection(Rounds, Rounds) : fTotalHps' = [r \in Rounds |-> fTotalHps[p[r]]]
    BY <1>5 DEF Sort
  <2>2. p \in [Rounds -> Rounds]
    BY DEF Bijection, Injection, Surjection
  <2>3. fTotalHps' \in [Rounds -> Rates]
    BY <2>1, <2>2
  <2>. QED  BY <1>5, <2>3 DEF Sort
<1>6. CASE AverageBest
  <2>1. SumOf(fTotalHps, NumTests - NumBest .. NumTests - 1) \in Rates
    BY SumIsRate
  <2>2. average' \in Rates
    BY <1>6, <2>1 DEF AverageBest, Rate, Rates
  <2>. QED  BY <1>6, <2>2 DEF AverageBest
<1>. QED  BY <1>1, <1>2, <1>3, <1>4, <1>5, <1>6 DEF Main

LEMMA TypesAndLag == Spec => [](TypeOK /\ Inv)
<1>1. Init => TypeOK /\ Inv
  BY InitialTypes, InitialLag
<1>2. TypeOK /\ Inv /\ [Next]_vars => (TypeOK /\ Inv)'
  <2>. SUFFICES ASSUME TypeOK, Inv, Next \/ UNCHANGED vars PROVE TypeOK' /\ Inv'
    OBVIOUS
  <2>1. CASE \E t \in Threads : CountBatch(t) \/ TimeBatch(t)
    BY <2>1, MinerKeepsLag, MinerKeepsTypes
  <2>2. CASE Main
    BY <2>2, ExchangesKeepLag, OtherStepsKeepLag, MainKeepsTypes DEF Main
  <2>3. CASE UNCHANGED vars
    <3>1. TypeOK'
      BY <2>3 DEF TypeOK, vars, miner, totals
    <3>. QED  BY <2>3, <3>1, OtherStepsKeepLag
  <2>. QED  BY <2>1, <2>2, <2>3 DEF Next
<1>. QED  BY <1>1, <1>2, PTL DEF Spec

(* No counter of the benchmark leaves its range: the loops stop where the   *)
(* threads and the rounds end, and every rate is one.                       *)
THEOREM TypesHold == Spec => []TypeOK
  BY TypesAndLag, PTL

-----------------------------------------------------------------------------
(* The books: what the main thread has taken out of the counters, what it   *)
(* holds and what the threads still have make up what they have counted.    *)
LEMMA MinerKeepsBooks ==
  ASSUME TypeOK, NothingIsLost, NEW t \in Threads, CountBatch(t) \/ TimeBatch(t)
  PROVE  NothingIsLost'
<1>. DEFINE Counted == [u \in Threads |-> Intensity[u] * batches[u]]
<1>1. \A x, y \in Nat : x * y \in Nat
  OBVIOUS
<1>2. \A u \in Threads : Intensity[u] \in Nat /\ batches[u] \in Nat /\ elapsed[u] \in Nat
  BY BatchAssumption, BatchBoundAssumption DEF TypeOK
<1>3. Counted \in [Threads -> Int] /\ Intensity[t] \in Int /\ elapsed[t] \in Int
  BY <1>1, <1>2
<1>4. iHashCount \in [Threads -> Int] /\ iTimestamp \in [Threads -> Int] /\ spent \in [Threads -> Int]
  BY DEF TypeOK
<1>5. iTotalCount + InHand + Total(iHashCount) = Total(Counted)
  BY DEF NothingIsLost
<1>6. iTotalCount \in Nat /\ iTotalTime \in Nat /\ InHand \in Nat
  BY DEF TypeOK, InHand
<1>7. CASE CountBatch(t)
  <2>1. /\ iHashCount' = [iHashCount EXCEPT ![t] = iHashCount[t] + Intensity[t]]
        /\ batches' = [batches EXCEPT ![t] = @ + 1]
        /\ UNCHANGED <<iTotalCount, iTotalTime, iTimestamp, spent>> /\ InHand' = InHand
    BY <1>7 DEF CountBatch, totals, InHand
  <2>2. Counted' = [Counted EXCEPT ![t] = Counted[t] + Intensity[t]]
    <3>1. \A u \in Threads : batches'[u] = IF u = t THEN batches[u] + 1 ELSE batches[u]
      BY <2>1 DEF TypeOK
    <3>2. \A u \in Threads : Intensity[u] * (batches[u] + 1) = Intensity[u] * batches[u] + Intensity[u]
      BY <1>2
    <3>. QED  BY <3>1, <3>2
  <2>. HIDE DEF Counted
  <2>3. Total(iHashCount') = Total(iHashCount) + Intensity[t] /\ Total(iHashCount) \in Int
    BY <1>3, <1>4, <2>1, TotalPlus
  <2>4. Total(Counted') = Total(Counted) + Intensity[t] /\ Total(Counted) \in Int
    BY <1>3, <2>2, TotalPlus
  <2>5. (iTotalCount + InHand + Total(iHashCount) = Total(Counted))'
    BY <1>2, <1>5, <1>6, <2>1, <2>3, <2>4
  <2>6. (iTotalTime + Total(iTimestamp) = Total(spent))'
    BY <2>1 DEF NothingIsLost
  <2>. QED  BY <2>5, <2>6 DEF NothingIsLost, Counted
<1>8. CASE TimeBatch(t)
  <2>1. /\ iTimestamp' = [iTimestamp EXCEPT ![t] = iTimestamp[t] + elapsed[t]]
        /\ spent' = [spent EXCEPT ![t] = spent[t] + elapsed[t]]
        /\ UNCHANGED <<iTotalCount, iTotalTime, iHashCount, batches>> /\ InHand' = InHand
    BY <1>8 DEF TimeBatch, totals, InHand
  <2>2. Total(iTimestamp') = Total(iTimestamp) + elapsed[t] /\ Total(iTimestamp) \in Int
    BY <1>3, <1>4, <2>1, TotalPlus
  <2>3. Total(spent') = Total(spent) + elapsed[t] /\ Total(spent) \in Int
    BY <1>3, <1>4, <2>1, TotalPlus
  <2>4. (iTotalTime + Total(iTimestamp) = Total(spent))'
    BY <1>2, <1>6, <2>1, <2>2, <2>3 DEF NothingIsLost
  <2>5. (iTotalCount + InHand + Total(iHashCount) = Total(Counted))'
    BY <1>5, <2>1
  <2>. QED  BY <2>4, <2>5 DEF NothingIsLost
<1>. QED  BY <1>7, <1>8

LEMMA MainKeepsBooks ==
  ASSUME TypeOK, NothingIsLost, Main
  PROVE  NothingIsLost'
<1>1. /\ iTotalCount \in Nat /\ iTotalTime \in Nat /\ count \in Nat /\ i \in 0 .. N
      /\ mpc \in {"count", "time"} => i \in Threads
      /\ iHashCount \in [Threads -> Nat] /\ iTimestamp \in [Threads -> Nat]
  BY DEF TypeOK
<1>2. UNCHANGED <<batches, spent>>
  BY DEF Main, Sleep, ExchangeCount, ExchangeTime, PrintRound, Sort, AverageBest, miner
<1>3. CASE ExchangeCount
  <2>1. /\ i \in Threads /\ count' = iHashCount[i] /\ InHand = 0 /\ InHand' = count'
        /\ iHashCount' = [iHashCount EXCEPT ![i] = 0]
        /\ UNCHANGED <<iTotalCount, iTotalTime, iTimestamp>>
    BY <1>1, <1>3 DEF ExchangeCount, totals, InHand
  <2>2. Total(iHashCount') = Total(iHashCount) - iHashCount[i] /\ Total(iHashCount) \in Int
    BY <1>1, <2>1, TotalWithout
  <2>3. iHashCount[i] \in Nat
    BY <1>1, <2>1
  <2>4. iTotalCount' + InHand' + Total(iHashCount') = iTotalCount + InHand + Total(iHashCount)
    BY <1>1, <2>1, <2>2, <2>3
  <2>. QED  BY <1>2, <2>1, <2>4 DEF NothingIsLost
<1>4. CASE ExchangeTime
  <2>1. /\ i \in Threads /\ InHand = count /\ InHand' = 0
        /\ iTimestamp' = [iTimestamp EXCEPT ![i] = 0]
        /\ iTotalCount' = iTotalCount + count /\ iTotalTime' = iTotalTime + iTimestamp[i]
        /\ iHashCount' = iHashCount
    BY <1>1, <1>4 DEF ExchangeTime, InHand
  <2>2. Total(iTimestamp') = Total(iTimestamp) - iTimestamp[i] /\ Total(iTimestamp) \in Int
    BY <1>1, <2>1, TotalWithout
  <2>3. iTimestamp[i] \in Nat
    BY <1>1, <2>1
  <2>4. iTotalTime' + Total(iTimestamp') = iTotalTime + Total(iTimestamp)
    BY <1>1, <2>1, <2>2, <2>3
  <2>5. iTotalCount' + InHand' = iTotalCount + InHand
    BY <1>1, <2>1
  <2>. QED  BY <1>2, <2>1, <2>4, <2>5 DEF NothingIsLost
<1>5. CASE Sleep \/ PrintRound \/ Sort \/ AverageBest
  <2>1. UNCHANGED <<iTotalCount, iTotalTime, iHashCount, iTimestamp>> /\ InHand' = InHand
    BY <1>5 DEF Sleep, PrintRound, Sort, AverageBest, totals, InHand
  <2>. QED  BY <1>2, <2>1 DEF NothingIsLost
<1>. QED  BY <1>3, <1>4, <1>5 DEF Main

LEMMA InitialBooks == Init => NothingIsLost
<1>. SUFFICES ASSUME Init PROVE NothingIsLost
  OBVIOUS
<1>. DEFINE Nothing == [t \in Threads |-> 0]
<1>1. /\ iTotalCount = 0 /\ iTotalTime = 0 /\ InHand = 0
      /\ iHashCount = Nothing /\ iTimestamp = Nothing /\ spent = Nothing
  BY DEF Init, InHand
<1>2. [t \in Threads |-> Intensity[t] * batches[t]] = Nothing
  <2>1. \A t \in Threads : Intensity[t] \in Nat
    BY BatchAssumption
  <2>2. \A x \in Nat : x * 0 = 0
    OBVIOUS
  <2>3. \A t \in Threads : Intensity[t] * batches[t] = 0
    BY <2>1, <2>2 DEF Init
  <2>. QED  BY <2>3
<1>3. Total(Nothing) = 0
  BY TotalOfNothing
<1>. QED  BY <1>1, <1>2, <1>3 DEF NothingIsLost

(* However the emptying of the counters interleaves with the additions of   *)
(* the threads, no batch and no millisecond is lost or counted twice.       *)
THEOREM NothingIsEverLost == Spec => []NothingIsLost
<1>1. TypeOK /\ NothingIsLost /\ [Next]_vars => NothingIsLost'
  <2>. SUFFICES ASSUME TypeOK, NothingIsLost, Next \/ UNCHANGED vars PROVE NothingIsLost'
    OBVIOUS
  <2>1. CASE UNCHANGED vars
    BY <2>1 DEF vars, miner, totals, NothingIsLost, InHand
  <2>. QED  BY <2>1, MinerKeepsBooks, MainKeepsBooks DEF Next
<1>. QED  BY <1>1, InitialBooks, TypesHold, PTL DEF Spec

-----------------------------------------------------------------------------
(* The rounds at the end of a sorted array are the best ones.  The rate of  *)
(* the worst of them is the measure: whatever is not among them is no       *)
(* better, whatever is among them no worse.                                 *)
LEMMA Times ==
  ASSUME NEW m \in Nat, NEW x \in Int, NEW y \in Int, x <= y
  PROVE  x * m <= y * m
<1>1. PICK d \in Nat : y = x + d
  <2>1. y - x \in Nat /\ y = x + (y - x)
    OBVIOUS
  <2>. QED  BY <2>1
<1>2. y * m = x * m + d * m /\ d * m \in Nat /\ x * m \in Int
  BY <1>1
<1>. QED  BY <1>2

LEMMA OtherRound ==
  ASSUME NEW a \in Nat, NEW b \in Nat, NEW p \in Nat, NEW q \in Nat, NEW x \in Nat, NEW y \in Nat,
         NEW h \in Nat, NEW g \in Nat, NEW n \in Nat, NEW d \in Nat,
         (a * y + h * x * b) * q <= (p * y + g * x * q) * b, n * y <= x * d
  PROVE  ((a * d + n * b) * y + h * x * (b * d)) * q <= (p * y + (g + 1) * x * q) * (b * d)
<1>. DEFINE l == (a * y + h * x * b) * q
            r == (p * y + g * x * q) * b
            m == b * q
            ny == n * y
            xd == x * d
<1>1. ((a * d + n * b) * y + h * x * (b * d)) * q = l * d + ny * m
  OBVIOUS
<1>2. (p * y + (g + 1) * x * q) * (b * d) = r * d + xd * m
  OBVIOUS
<1>3. m \in Nat /\ ny \in Int /\ xd \in Int /\ l \in Int /\ r \in Int /\ l <= r /\ ny <= xd
  OBVIOUS
<1>4. l * d <= r * d /\ ny * m <= xd * m
  <2>. HIDE DEF l, r, m, ny, xd
  <2>. QED  BY <1>3, Times
<1>5. l * d + ny * m <= r * d + xd * m
  <2>1. l * d \in Int /\ r * d \in Int /\ ny * m \in Int /\ xd * m \in Int
    BY <1>3
  <2>. HIDE DEF l, r, m, ny, xd
  <2>. QED  BY <1>4, <2>1
<1>. QED  BY <1>1, <1>2, <1>5
LEMMA TopRound ==
  ASSUME NEW a \in Nat, NEW b \in Nat, NEW p \in Nat, NEW q \in Nat, NEW x \in Nat, NEW y \in Nat,
         NEW h \in Nat, NEW g \in Nat, NEW n \in Nat, NEW d \in Nat,
         (a * y + h * x * b) * q <= (p * y + g * x * q) * b, x * d <= n * y
  PROVE  (a * y + (h + 1) * x * b) * (q * d) <= ((p * d + n * q) * y + g * x * (q * d)) * b
<1>. DEFINE l == (a * y + h * x * b) * q
            r == (p * y + g * x * q) * b
            m == b * q
            ny == n * y
            xd == x * d
<1>1. (a * y + (h + 1) * x * b) * (q * d) = l * d + xd * m
  OBVIOUS
<1>2. ((p * d + n * q) * y + g * x * (q * d)) * b = r * d + ny * m
  OBVIOUS
<1>3. m \in Nat /\ ny \in Int /\ xd \in Int /\ l \in Int /\ r \in Int /\ l <= r /\ xd <= ny
  OBVIOUS
<1>4. l * d <= r * d /\ xd * m <= ny * m
  <2>. HIDE DEF l, r, m, ny, xd
  <2>. QED  BY <1>3, Times
<1>5. l * d + xd * m <= r * d + ny * m
  <2>1. l * d \in Int /\ r * d \in Int /\ ny * m \in Int /\ xd * m \in Int
    BY <1>3
  <2>. HIDE DEF l, r, m, ny, xd
  <2>. QED  BY <1>4, <2>1
<1>. QED  BY <1>1, <1>2, <1>5

LEMMA CommonRound ==
  ASSUME NEW a \in Nat, NEW b \in Nat, NEW p \in Nat, NEW q \in Nat, NEW x \in Nat, NEW y \in Nat,
         NEW h \in Nat, NEW g \in Nat, NEW n \in Nat, NEW d \in Nat,
         (a * y + h * x * b) * q <= (p * y + g * x * q) * b
  PROVE  ((a * d + n * b) * y + (h + 1) * x * (b * d)) * (q * d)
            <= ((p * d + n * q) * y + (g + 1) * x * (q * d)) * (b * d)
<1>. DEFINE l == (a * y + h * x * b) * q
            r == (p * y + g * x * q) * b
            m == n * b * y * q * d + x * b * d * q * d
            dd == d * d
<1>1. ((a * d + n * b) * y + (h + 1) * x * (b * d)) * (q * d) = l * dd + m
  OBVIOUS
<1>2. ((p * d + n * q) * y + (g + 1) * x * (q * d)) * (b * d) = r * dd + m
  OBVIOUS
<1>3. m \in Int /\ dd \in Nat /\ l \in Int /\ r \in Int /\ l <= r
  OBVIOUS
<1>4. l * dd <= r * dd
  <2>. HIDE DEF l, r, dd
  <2>. QED  BY <1>3, Times
<1>5. l * dd + m <= r * dd + m
  <2>1. l * dd \in Int /\ r * dd \in Int
    BY <1>3
  <2>. HIDE DEF l, r, dd, m
  <2>. QED  BY <1>3, <1>4, <2>1
<1>. QED  BY <1>1, <1>2, <1>5

\* r and h times c are at most s and g times c.
AtMost(r, h, s, g, c) ==
  (r.n * c.d + h * c.n * r.d) * s.d <= (s.n * c.d + g * c.n * s.d) * r.d

Numbers == {r \in Rates : IsNumber(r)}

LEMMA AddARound ==
  ASSUME NEW r \in Numbers, NEW s \in Numbers, NEW c \in Numbers, NEW v \in Numbers,
         NEW h \in Nat, NEW g \in Nat, AtMost(r, h, s, g, c)
  PROVE  /\ Plus(r, v) \in Numbers
         /\ v.n * c.d <= c.n * v.d => AtMost(Plus(r, v), h, s, g + 1, c)
         /\ c.n * v.d <= v.n * c.d => AtMost(r, h + 1, Plus(s, v), g, c)
         /\ AtMost(Plus(r, v), h + 1, Plus(s, v), g + 1, c)
<1>1. /\ r.n \in Nat /\ r.d \in Nat \ {0} /\ s.n \in Nat /\ s.d \in Nat \ {0}
      /\ c.n \in Nat /\ c.d \in Nat \ {0} /\ v.n \in Nat /\ v.d \in Nat \ {0}
  BY DEF Numbers, Rates, IsNumber
<1>2. Plus(r, v).n = r.n * v.d + v.n * r.d /\ Plus(r, v).d = r.d * v.d
  BY DEF Plus, Numbers
<1>3. Plus(s, v).n = s.n * v.d + v.n * s.d /\ Plus(s, v).d = s.d * v.d
  BY DEF Plus, Numbers
<1>4. (r.n * c.d + h * c.n * r.d) * s.d <= (s.n * c.d + g * c.n * s.d) * r.d
  BY DEF AtMost
<1>5. Plus(r, v) \in Numbers
  <2>1. \A x, y \in Nat \ {0} : x * y # 0
    <3>. SUFFICES ASSUME NEW x \in Nat \ {0}, NEW y \in Nat \ {0} PROVE x * y # 0
      OBVIOUS
    <3>1. PICK z \in Nat : x = z + 1
      <4>1. x - 1 \in Nat /\ x = (x - 1) + 1
        OBVIOUS
      <4>. QED  BY <4>1
    <3>2. x * y = z * y + y /\ z * y \in Nat
      BY <3>1
    <3>. QED  BY <3>2
  <2>2. Plus(r, v).d # 0
    BY <1>1, <1>2, <2>1
  <2>. QED  BY <2>2, PlusIsRate DEF Numbers, IsNumber
<1>. DEFINE rn == r.n  rd == r.d  sn == s.n  sd == s.d
            cn == c.n  cd == c.d  vn == v.n  vd == v.d
<1>d. /\ rn \in Nat /\ rd \in Nat /\ sn \in Nat /\ sd \in Nat
      /\ cn \in Nat /\ cd \in Nat /\ vn \in Nat /\ vd \in Nat
      /\ (rn * cd + h * cn * rd) * sd <= (sn * cd + g * cn * sd) * rd
  BY <1>1, <1>4
<1>6. v.n * c.d <= c.n * v.d => AtMost(Plus(r, v), h, s, g + 1, c)
  <2>. SUFFICES ASSUME vn * cd <= cn * vd
                PROVE  ((rn * vd + vn * rd) * cd + h * cn * (rd * vd)) * sd
                          <= (sn * cd + (g + 1) * cn * sd) * (rd * vd)
    BY <1>2 DEF AtMost
  <2>. HIDE DEF rn, rd, sn, sd, cn, cd, vn, vd
  <2>. QED  BY <1>d, OtherRound
<1>7. c.n * v.d <= v.n * c.d => AtMost(r, h + 1, Plus(s, v), g, c)
  <2>. SUFFICES ASSUME cn * vd <= vn * cd
                PROVE  (rn * cd + (h + 1) * cn * rd) * (sd * vd)
                          <= ((sn * vd + vn * sd) * cd + g * cn * (sd * vd)) * rd
    BY <1>3 DEF AtMost
  <2>. HIDE DEF rn, rd, sn, sd, cn, cd, vn, vd
  <2>. QED  BY <1>d, TopRound
<1>8. AtMost(Plus(r, v), h + 1, Plus(s, v), g + 1, c)
  <2>. SUFFICES ((rn * vd + vn * rd) * cd + (h + 1) * cn * (rd * vd)) * (sd * vd)
                   <= ((sn * vd + vn * sd) * cd + (g + 1) * cn * (sd * vd)) * (rd * vd)
    BY <1>2, <1>3 DEF AtMost
  <2>. HIDE DEF rn, rd, sn, sd, cn, cd, vn, vd
  <2>. QED  BY <1>d, CommonRound
<1>. QED  BY <1>5, <1>6, <1>7, <1>8

Top == NumTests - NumBest .. NumTests - 1

\* How many of the first n rounds are among R.
Count(R, n) == Cardinality(R \cap (0 .. n - 1))

LEMMA CountNext ==
  ASSUME NEW R \in SUBSET Rounds, NEW n \in Nat
  PROVE  /\ Count(R, 0) = 0 /\ Count(R, n) \in Nat
         /\ Count(R, n + 1) = Count(R, n) + (IF n \in R THEN 1 ELSE 0)
<1>. DEFINE A == R \cap (0 .. n - 1)
            B == R \cap (0 .. (n + 1) - 1)
<1>1. IsFiniteSet(A)
  <2>1. IsFiniteSet(0 .. n - 1)
    <3>1. 0 \in Int /\ n - 1 \in Int
      OBVIOUS
    <3>. QED  BY <3>1, FS_Interval
  <2>. QED  BY <2>1, FS_Intersection
<1>2. Cardinality(A) \in Nat
  BY <1>1, FS_CardinalityType
<1>3. Count(R, 0) = 0
  <2>1. R \cap (0 .. 0 - 1) = {}
    OBVIOUS
  <2>. QED  BY <2>1, FS_EmptySet DEF Count
<1>4. CASE n \in R
  <2>1. B = A \union {n} /\ n \notin A
    BY <1>4
  <2>. HIDE DEF A, B
  <2>2. Cardinality(B) = Cardinality(A) + 1
    BY <1>1, <2>1, FS_AddElement
  <2>. QED  BY <1>2, <1>3, <1>4, <2>2 DEF Count, A, B
<1>5. CASE n \notin R
  <2>1. B = A
    BY <1>5
  <2>. QED  BY <1>2, <1>3, <1>5, <2>1 DEF Count
<1>. QED  BY <1>4, <1>5

LEMMA BestPlaces == Top \in SUBSET Rounds /\ Cardinality(Top) = NumBest
<1>1. NumTests \in Nat \ {0} /\ NumBest \in Nat \ {0} /\ NumBest <= NumTests
  BY SizeAssumption
<1>. DEFINE a == NumTests - NumBest
            b == NumTests - 1
<1>2. a \in Int /\ b \in Int /\ a <= b /\ b - a + 1 = NumBest
  BY <1>1
<1>. HIDE DEF a, b
<1>3. Cardinality(a .. b) = NumBest
  BY <1>2, FS_Interval
<1>4. Top \in SUBSET Rounds
  BY <1>1 DEF Top, Rounds
<1>. QED  BY <1>3, <1>4 DEF Top, a, b

LEMMA TopIsBest ==
  ASSUME NEW f \in [Rounds -> Numbers],
         \A r, s \in Rounds : r < s => ~Less(f[s], f[r]),
         NEW u \in SUBSET Rounds, Cardinality(u) = NumBest
  PROVE  /\ SumOf(f, Top) \in Numbers
         /\ ~Less(SumOf(f, Top), SumOf(f, u))
<1>1. NumTests \in Nat \ {0} /\ NumBest \in Nat \ {0} /\ NumBest <= NumTests
  BY SizeAssumption
<1>. DEFINE first == NumTests - NumBest
            c == f[first]
            su == RateSums(f, u)
            st == RateSums(f, Top)
            Fine(n) == /\ su[n] \in Numbers /\ st[n] \in Numbers
                       /\ AtMost(su[n], Count(Top, n), st[n], Count(u, n), c)
            S == {n \in Nat : n <= NumTests => Fine(n)}
<1>2. first \in Rounds /\ Top \in SUBSET Rounds /\ c \in Numbers
  BY <1>1 DEF Top, Rounds
<1>3. f \in [Rounds -> Rates]
  BY DEF Numbers
<1>4. /\ su[0] = Rate(0, 1)
      /\ \A n \in Rounds : su[n + 1] = IF n \in u THEN Plus(su[n], f[n]) ELSE su[n]
  BY <1>3, SumsOfRounds
<1>5. /\ st[0] = Rate(0, 1)
      /\ \A n \in Rounds : st[n + 1] = IF n \in Top THEN Plus(st[n], f[n]) ELSE st[n]
  BY <1>3, SumsOfRounds
<1>6. ASSUME NEW n \in Rounds
      PROVE  IF n \in Top THEN c.n * f[n].d <= f[n].n * c.d ELSE f[n].n * c.d <= c.n * f[n].d
  <2>1. /\ c.n \in Nat /\ c.d \in Nat /\ f[n].n \in Nat /\ f[n].d \in Nat
    BY <1>2 DEF Numbers, Rates
  <2>2. c.n * f[n].d \in Int /\ f[n].n * c.d \in Int
    BY <2>1
  <2>3. CASE n = first
    BY <1>1, <2>2, <2>3 DEF Top
  <2>4. CASE n > first
    <3>1. ~Less(f[n], c) /\ n \in Top
      BY <1>1, <1>2, <2>4 DEF Top, Rounds
    <3>. QED  BY <2>2, <3>1 DEF Less
  <2>5. CASE n < first
    <3>1. ~Less(c, f[n]) /\ n \notin Top
      BY <1>1, <1>2, <2>5 DEF Top, Rounds
    <3>. QED  BY <2>2, <3>1 DEF Less
  <2>. QED  BY <1>1, <2>3, <2>4, <2>5 DEF Rounds
<1>. HIDE DEF su, st, c
<1>7. 0 \in S
  <2>1. Rate(0, 1) \in Numbers
    BY DEF Rate, Numbers, Rates, IsNumber
  <2>2. Count(Top, 0) = 0 /\ Count(u, 0) = 0
    <3>1. 0 \in Nat
      OBVIOUS
    <3>. QED  BY <1>2, <3>1, CountNext
  <2>3. AtMost(Rate(0, 1), 0, Rate(0, 1), 0, c)
    BY <1>2 DEF AtMost, Rate, Numbers, Rates
  <2>. QED  BY <1>4, <1>5, <2>1, <2>2, <2>3
<1>8. ASSUME NEW n \in Nat, n \in S PROVE n + 1 \in S
  <2>. SUFFICES ASSUME n + 1 <= NumTests PROVE Fine(n + 1)
    OBVIOUS
  <2>1. n \in Rounds /\ f[n] \in Numbers /\ Fine(n)
    BY <1>1, <1>8 DEF Rounds
  <2>2. /\ Count(u, n) \in Nat /\ Count(Top, n) \in Nat
        /\ Count(u, n + 1) = Count(u, n) + (IF n \in u THEN 1 ELSE 0)
        /\ Count(Top, n + 1) = Count(Top, n) + (IF n \in Top THEN 1 ELSE 0)
    BY <1>2, CountNext
  <2>. DEFINE v == f[n]
              h == Count(Top, n)
              g == Count(u, n)
  <2>. HIDE DEF v, h, g
  <2>3. /\ Plus(su[n], v) \in Numbers
        /\ v.n * c.d <= c.n * v.d => AtMost(Plus(su[n], v), h, st[n], g + 1, c)
        /\ c.n * v.d <= v.n * c.d => AtMost(su[n], h + 1, Plus(st[n], v), g, c)
        /\ AtMost(Plus(su[n], v), h + 1, Plus(st[n], v), g + 1, c)
    BY <1>2, <2>1, <2>2, AddARound DEF v, h, g
  <2>4. Plus(st[n], v) \in Numbers
    <3>1. 0 \in Nat /\ AtMost(st[n], 0, st[n], 0, c)
      BY <1>2, <2>1 DEF AtMost, Numbers, Rates
    <3>. QED  BY <1>2, <2>1, <3>1, AddARound DEF v
  <2>5. CASE n \in u /\ n \in Top
    BY <1>4, <1>5, <2>1, <2>2, <2>3, <2>4, <2>5 DEF v, h, g
  <2>6. CASE n \in u /\ n \notin Top
    BY <1>4, <1>5, <1>6, <2>1, <2>2, <2>3, <2>4, <2>6 DEF v, h, g
  <2>7. CASE n \notin u /\ n \in Top
    BY <1>4, <1>5, <1>6, <2>1, <2>2, <2>3, <2>4, <2>7 DEF v, h, g
  <2>8. CASE n \notin u /\ n \notin Top
    BY <1>4, <1>5, <2>1, <2>2, <2>8
  <2>. QED  BY <2>5, <2>6, <2>7, <2>8
<1>. HIDE DEF S
<1>9. NumTests \in S
  BY <1>1, <1>7, <1>8, SetInduction
<1>10. Fine(NumTests)
  BY <1>1, <1>9 DEF S
<1>11. Count(u, NumTests) = NumBest /\ Count(Top, NumTests) = NumBest
  <2>1. u \cap (0 .. NumTests - 1) = u /\ Top \cap (0 .. NumTests - 1) = Top
    BY <1>2 DEF Rounds
  <2>. QED  BY <2>1, BestPlaces DEF Count
<1>12. SumOf(f, Top) = st[NumTests] /\ SumOf(f, u) = su[NumTests]
  BY SumIs DEF su, st
<1>. DEFINE r == su[NumTests]
            t == st[NumTests]
<1>13. AtMost(r, NumBest, t, NumBest, c) /\ r \in Numbers /\ t \in Numbers
  BY <1>10, <1>11
<1>. HIDE DEF r, t
<1>14. ~Less(t, r)
  <2>1. /\ r.n \in Nat /\ r.d \in Nat /\ t.n \in Nat /\ t.d \in Nat /\ c.n \in Nat /\ c.d \in Nat \ {0}
    BY <1>2, <1>13 DEF Numbers, Rates, IsNumber
  <2>2. (r.n * c.d + NumBest * c.n * r.d) * t.d <= (t.n * c.d + NumBest * c.n * t.d) * r.d
    BY <1>13 DEF AtMost
  <2>. DEFINE x == r.n * t.d
              y == t.n * r.d
              z == NumBest * c.n * r.d * t.d
  <2>3. /\ (r.n * c.d + NumBest * c.n * r.d) * t.d = x * c.d + z
        /\ (t.n * c.d + NumBest * c.n * t.d) * r.d = y * c.d + z
    BY <1>1, <2>1
  <2>4. x \in Int /\ y \in Int /\ z \in Int /\ x * c.d \in Int /\ y * c.d \in Int
    BY <1>1, <2>1
  <2>. HIDE DEF x, y, z
  <2>5. x * c.d <= y * c.d
    BY <2>2, <2>3, <2>4
  <2>6. ~(y < x)
    <3>. SUFFICES ASSUME y < x PROVE FALSE
      OBVIOUS
    <3>1. y + 1 <= x /\ y + 1 \in Int
      BY <2>4
    <3>2. (y + 1) * c.d <= x * c.d
      BY <2>1, <2>4, <3>1, Times
    <3>3. (y + 1) * c.d = y * c.d + c.d
      <4>1. \A e \in Nat : (y + 1) * e = y * e + e
        BY <2>4
      <4>. QED  BY <2>1, <4>1
    <3>. QED  BY <2>1, <2>4, <2>5, <3>2, <3>3
  <2>. QED  BY <2>6 DEF Less, x, y
<1>. QED  BY <1>12, <1>13, <1>14 DEF r, t

\* When the array is sorted and the average taken of its end.
Averaged ==
  LET sum == SumOf(fTotalHps, Top)
  IN  /\ mpc \in {"average", "done"} /\ (\A r \in Rounds : IsNumber(fTotalHps[r])) =>
           \A r, s \in Rounds : r < s => ~Less(fTotalHps[s], fTotalHps[r])
      /\ mpc = "done" => average = Rate(sum.n, sum.d * NumBest)

LEMMA NextKeepsAveraged ==
  ASSUME TypeOK, Averaged, Next \/ UNCHANGED vars
  PROVE  Averaged'
<1>1. CASE UNCHANGED vars
  BY <1>1 DEF vars, totals, Averaged
<1>2. CASE \E t \in Threads : CountBatch(t) \/ TimeBatch(t)
  BY <1>2 DEF CountBatch, TimeBatch, totals, Averaged
<1>3. CASE Sleep \/ ExchangeCount \/ ExchangeTime \/ PrintRound
  <2>1. mpc' \notin {"average", "done"}
    BY <1>3 DEF Sleep, ExchangeCount, ExchangeTime, PrintRound
  <2>. QED  BY <2>1 DEF Averaged
<1>4. CASE Sort
  <2>1. PICK p \in Bijection(Rounds, Rounds) :
          /\ fTotalHps' = [r \in Rounds |-> fTotalHps[p[r]]]
          /\ \/ \E r \in Rounds : IsNaN(fTotalHps[r])
             \/ \A r, s \in Rounds : r < s => ~Less(fTotalHps'[s], fTotalHps'[r])
    BY <1>4 DEF Sort
  <2>2. mpc' = "average"
    BY <1>4 DEF Sort
  <2>3. ASSUME NEW r \in Rounds, IsNaN(fTotalHps[r])
        PROVE  \E s \in Rounds : ~IsNumber(fTotalHps'[s])
    <3>1. PICK s \in Rounds : p[s] = r
      BY DEF Bijection, Surjection
    <3>2. fTotalHps'[s] = fTotalHps[r]
      BY <2>1, <3>1
    <3>. QED  BY <2>3, <3>2 DEF IsNaN, IsNumber
  <2>. QED  BY <2>1, <2>2, <2>3 DEF Averaged
<1>5. CASE AverageBest
  <2>1. /\ mpc = "average" /\ mpc' = "done" /\ fTotalHps' = fTotalHps
        /\ average' = Rate(SumOf(fTotalHps, Top).n, SumOf(fTotalHps, Top).d * NumBest)
    BY <1>5 DEF AverageBest, totals, Top
  <2>. QED  BY <2>1 DEF Averaged
<1>. QED  BY <1>1, <1>2, <1>3, <1>4, <1>5 DEF Next, Main

(* The result is the mean of the best rounds, whichever these were.         *)
THEOREM BestRoundsAreAveraged == Spec => []BestRoundsAveraged
<1>1. Init => Averaged
  BY DEF Init, Averaged
<1>2. TypeOK /\ Averaged => BestRoundsAveraged
  <2>. SUFFICES ASSUME TypeOK, Averaged, mpc = "done", \A r \in Rounds : IsNumber(fTotalHps[r])
                PROVE  LET choices == {s \in SUBSET Rounds : Cardinality(s) = NumBest}
                       IN  \E s \in choices :
                             /\ Same(Rate(average.n * NumBest, average.d), SumOf(fTotalHps, s))
                             /\ \A u \in choices : ~Less(SumOf(fTotalHps, s), SumOf(fTotalHps, u))
    BY DEF BestRoundsAveraged
  <2>. DEFINE sum == SumOf(fTotalHps, Top)
  <2>1. /\ \A r, s \in Rounds : r < s => ~Less(fTotalHps[s], fTotalHps[r])
        /\ average = Rate(sum.n, sum.d * NumBest)
    BY DEF Averaged
  <2>2. fTotalHps \in [Rounds -> Numbers]
    BY DEF TypeOK, Numbers
  <2>3. Top \in SUBSET Rounds /\ Cardinality(Top) = NumBest
    BY BestPlaces
  <2>4. sum \in Numbers
    BY <2>1, <2>2, <2>3, TopIsBest
  <2>5. ASSUME NEW u \in SUBSET Rounds, Cardinality(u) = NumBest
        PROVE  ~Less(sum, SumOf(fTotalHps, u))
    BY <2>1, <2>2, <2>5, TopIsBest
  <2>6. Same(Rate(average.n * NumBest, average.d), sum)
    <3>. HIDE DEF sum
    <3>1. sum.n \in Nat /\ sum.d \in Nat \ {0} /\ NumBest \in Nat \ {0}
      BY <2>4, SizeAssumption DEF Numbers, Rates, IsNumber
    <3>2. average.n = sum.n /\ average.d = sum.d * NumBest
      BY <2>1 DEF Rate
    <3>. DEFINE x == sum.n
                y == sum.d
    <3>3. x \in Nat /\ y \in Nat \ {0} /\ average.n = x /\ average.d = y * NumBest
      BY <3>1, <3>2
    <3>. HIDE DEF x, y
    <3>4. y * NumBest # 0
      <4>1. PICK z \in Nat : NumBest = z + 1
        <5>1. NumBest - 1 \in Nat /\ NumBest = (NumBest - 1) + 1
          BY <3>1
        <5>. QED  BY <5>1
      <4>2. y * NumBest = y * z + y /\ y * z \in Nat
        BY <3>3, <4>1
      <4>. QED  BY <3>3, <4>2
    <3>5. (x * NumBest) * y = x * (y * NumBest)
      BY <3>1, <3>3
    <3>. QED  BY <3>1, <3>3, <3>4, <3>5 DEF Same, IsNumber, Rate, x, y
  <2>. QED  BY <2>3, <2>5, <2>6
<1>. QED  BY <1>1, <1>2, NextKeepsAveraged, TypesHold, PTL DEF Spec
=============================================================================
