------------------------------ MODULE Benchmark ------------------------------
(***************************************************************************)
(* do_benchmark (cli-miner.cpp:81-137) against the counters of the mining  *)
(* threads (minethd.cpp:312-323).  After each batch a thread adds to       *)
(* iHashCount and then to iTimestamp; ten times the main thread empties    *)
(* iHashCount and then iTimestamp of every thread.  Each of the four steps *)
(* is atomic, no two of them are together.                                 *)
(*                                                                         *)
(* A double is a fraction [n, d] here, with d = 0 for infinity (n > 0) and *)
(* for not-a-number (n = 0).  Time is what the threads measure, and rates  *)
(* are per unit of it; a round may see any number of batches, even none.   *)
(***************************************************************************)
EXTENDS Integers, FiniteSets, Functions

CONSTANTS N,            \* number of mining threads
          Intensity,    \* rawIntensity of each thread's GPU
          BatchMillis,  \* what iStamp2 - iStamp1 of a batch may be
          NumTests,     \* num_tests, 10 in the code
          NumBest,      \* num_tests_for_average, 6 in the code
          MaxBatches    \* bound on the batches of each thread

Threads == 0 .. N - 1
Rounds  == 0 .. NumTests - 1

ASSUME SizeAssumption == N \in Nat \ {0} /\ NumTests \in Nat \ {0} /\ NumBest \in 1 .. NumTests
ASSUME BatchAssumption == Intensity \in [Threads -> Nat \ {0}] /\ BatchMillis \subseteq Nat
ASSUME BatchBoundAssumption == MaxBatches \in Nat

VARIABLES
  pc,       \* of each mining thread: in a batch, or between its two additions
  elapsed,  \* iStamp2 - iStamp1 of its last batch
  iHashCount, iTimestamp, \* its counters
  mpc, k, i, count, \* the main thread: where it is, its loop counters, count
  iTotalCount, iTotalTime, fTotalHps, fAveHps, average, \* its sums and rates
  batches, timed,    \* history: the batches each thread has counted, and timed
  spent,             \* history: what it has added to iTimestamp
  countedTo, timedTo \* history: batches and timed when the counter was emptied last

miner  == <<pc, elapsed, batches, timed, spent>>
totals == <<iTotalCount, iTotalTime, fTotalHps, fAveHps>>
vars   == <<miner, iHashCount, iTimestamp, mpc, k, i, count, totals, average,
            countedTo, timedTo>>

-----------------------------------------------------------------------------
Rate(n, d)  == [n |-> n, d |-> d]
Rates       == [n : Nat, d : Nat]
IsNumber(r) == r.d # 0
IsNaN(r)    == r.d = 0 /\ r.n = 0

\* These cross-multiplications give what IEEE 754 gives for infinity and NaN, too.
Less(r, s) == r.n * s.d < s.n * r.d
Same(r, s) == IsNumber(r) /\ IsNumber(s) /\ r.n * s.d = s.n * r.d

Plus(r, s) == IF IsNumber(r) \/ IsNumber(s)
              THEN [n |-> r.n * s.d + s.n * r.d, d |-> r.d * s.d]
              ELSE [n |-> IF IsNaN(r) \/ IsNaN(s) THEN 0 ELSE 1, d |-> 0]

SumOf(f, S) ==
  LET sum[n \in 0 .. NumTests] == IF n = 0 THEN Rate(0, 1)
                                  ELSE IF n - 1 \in S THEN Plus(sum[n - 1], f[n - 1])
                                  ELSE sum[n - 1]
  IN  sum[NumTests]

-----------------------------------------------------------------------------
TypeOK ==
  /\ pc \in [Threads -> {"run", "counted"}]
  /\ elapsed \in [Threads -> Nat]
  /\ iHashCount \in [Threads -> Nat] /\ iTimestamp \in [Threads -> Nat]
  /\ mpc \in {"sleep", "count", "time", "print", "sort", "average", "done"}
  /\ k \in 0 .. NumTests /\ i \in 0 .. N /\ count \in Nat
  /\ mpc \in {"count", "time"} => i \in Threads
  /\ mpc \in {"sleep", "count", "time", "print"} => k \in Rounds
  /\ iTotalCount \in Nat /\ iTotalTime \in Nat
  /\ fTotalHps \in [Rounds -> Rates] /\ fAveHps \in Rates /\ average \in Rates
  /\ batches \in [Threads -> 0 .. MaxBatches] /\ timed \in [Threads -> 0 .. MaxBatches]
  /\ spent \in [Threads -> Nat]
  /\ countedTo \in [Threads -> 0 .. MaxBatches] /\ timedTo \in [Threads -> 0 .. MaxBatches]

Init ==
  /\ pc = [t \in Threads |-> "run"]
  /\ elapsed = [t \in Threads |-> 0]
  /\ iHashCount = [t \in Threads |-> 0] /\ iTimestamp = [t \in Threads |-> 0]
  /\ mpc = "sleep" /\ k = 0 /\ i = 0 /\ count = 0
  /\ iTotalCount = 0 /\ iTotalTime = 0
  /\ fTotalHps = [r \in Rounds |-> Rate(0, 1)]
  /\ fAveHps = Rate(0, 1) /\ average = Rate(0, 1)
  /\ batches = [t \in Threads |-> 0] /\ timed = [t \in Threads |-> 0]
  /\ spent = [t \in Threads |-> 0] /\ countedTo = [t \in Threads |-> 0]
  /\ timedTo = [t \in Threads |-> 0]

\* Mutant of CountBatch: after an error the loop goes on without adding the time.
CountUntimedBatch(t) ==
  /\ pc[t] = "run"
  /\ batches[t] < MaxBatches
  /\ \E m \in BatchMillis : elapsed' = [elapsed EXCEPT ![t] = m]
  /\ iHashCount' = [iHashCount EXCEPT ![t] = @ + Intensity[t]]
  /\ batches' = [batches EXCEPT ![t] = @ + 1]
  /\ pc' \in {pc, [pc EXCEPT ![t] = "counted"]}
  /\ UNCHANGED <<iTimestamp, timed, spent, mpc, k, i, count, totals, average, countedTo, timedTo>>

(***************************************************************************)
(* The batch loop of thread t.  A batch counts whatever XMRRunJob returns. *)
(***************************************************************************)
CountBatch(t) ==
  /\ pc[t] = "run"
  /\ batches[t] < MaxBatches
  /\ \E m \in BatchMillis : elapsed' = [elapsed EXCEPT ![t] = m]
  /\ iHashCount' = [iHashCount EXCEPT ![t] = @ + Intensity[t]]
  /\ batches' = [batches EXCEPT ![t] = @ + 1]
  /\ pc' = [pc EXCEPT ![t] = "counted"]
  /\ UNCHANGED <<iTimestamp, timed, spent, mpc, k, i, count, totals, average, countedTo, timedTo>>

TimeBatch(t) ==
  /\ pc[t] = "counted"
  /\ iTimestamp' = [iTimestamp EXCEPT ![t] = @ + elapsed[t]]
  /\ timed' = [timed EXCEPT ![t] = @ + 1]
  /\ spent' = [spent EXCEPT ![t] = @ + elapsed[t]]
  /\ pc' = [pc EXCEPT ![t] = "run"]
  /\ UNCHANGED <<elapsed, batches, iHashCount, mpc, k, i, count, totals, average,
                 countedTo, timedTo>>

-----------------------------------------------------------------------------
(***************************************************************************)
(* do_benchmark.                                                           *)
(***************************************************************************)
Sleep ==
  /\ mpc = "sleep"
  /\ fTotalHps' = [fTotalHps EXCEPT ![k] = Rate(0, 1)]
  /\ fAveHps' = Rate(0, 1)
  /\ i' = 0
  /\ mpc' = "count"
  /\ UNCHANGED <<miner, iHashCount, iTimestamp, k, count, iTotalCount, iTotalTime,
                 average, countedTo, timedTo>>

\* Mutant of ExchangeCount: the counter is read but not emptied.
LoadCount ==
  /\ mpc = "count"
  /\ count' = iHashCount[i]
  /\ countedTo' = [countedTo EXCEPT ![i] = batches[i]]
  /\ mpc' = "time"
  /\ UNCHANGED <<miner, iHashCount, iTimestamp, k, i, totals, average, timedTo>>

ExchangeCount ==
  /\ mpc = "count"
  /\ count' = iHashCount[i]
  /\ iHashCount' = [iHashCount EXCEPT ![i] = 0]
  /\ countedTo' = [countedTo EXCEPT ![i] = batches[i]]
  /\ mpc' = "time"
  /\ UNCHANGED <<miner, iTimestamp, k, i, totals, average, timedTo>>

\* Mutant of ExchangeTime: the loop visits one thread too many.
LoopOneTooFar ==
  /\ mpc = "time"
  /\ iTimestamp' = [iTimestamp EXCEPT ![i] = 0]
  /\ timedTo' = [timedTo EXCEPT ![i] = timed[i]]
  /\ iTotalCount' = iTotalCount + count
  /\ iTotalTime' = iTotalTime + iTimestamp[i]
  /\ fTotalHps' = [fTotalHps EXCEPT ![k] = Plus(@, Rate(count, iTimestamp[i]))]
  /\ fAveHps' = Plus(fAveHps, Rate(iTotalCount', iTotalTime'))
  /\ i' = i + 1
  /\ mpc' = IF i < N THEN "count" ELSE "print"
  /\ UNCHANGED <<miner, iHashCount, k, count, average, countedTo>>

\* The average adds, for each thread, the rate of all the threads so far.
ExchangeTime ==
  /\ mpc = "time"
  /\ iTimestamp' = [iTimestamp EXCEPT ![i] = 0]
  /\ timedTo' = [timedTo EXCEPT ![i] = timed[i]]
  /\ iTotalCount' = iTotalCount + count
  /\ iTotalTime' = iTotalTime + iTimestamp[i]
  /\ fTotalHps' = [fTotalHps EXCEPT ![k] = Plus(@, Rate(count, iTimestamp[i]))]
  /\ fAveHps' = Plus(fAveHps, Rate(iTotalCount', iTotalTime'))
  /\ i' = i + 1
  /\ mpc' = IF i + 1 < N THEN "count" ELSE "print"
  /\ UNCHANGED <<miner, iHashCount, k, count, average, countedTo>>

PrintRound ==
  /\ mpc = "print"
  /\ k' = k + 1
  /\ mpc' = IF k + 1 < NumTests THEN "sleep" ELSE "sort"
  /\ UNCHANGED <<miner, iHashCount, iTimestamp, i, count, totals, average,
                 countedTo, timedTo>>

\* Mutant of Sort: the rounds stay in the order they were run.
NoSort ==
  /\ mpc = "sort"
  /\ mpc' = "average"
  /\ UNCHANGED <<miner, iHashCount, iTimestamp, k, i, count, totals, average,
                 countedTo, timedTo>>

\* std::sort: ascending if < orders the elements, and any order if there is a NaN.
Sort ==
  /\ mpc = "sort"
  /\ \E p \in Bijection(Rounds, Rounds) :
       /\ fTotalHps' = [r \in Rounds |-> fTotalHps[p[r]]]
       /\ \/ \E r \in Rounds : IsNaN(fTotalHps[r])
          \/ \A r, s \in Rounds : r < s => ~Less(fTotalHps'[s], fTotalHps'[r])
  /\ mpc' = "average"
  /\ UNCHANGED <<miner, iHashCount, iTimestamp, k, i, count, iTotalCount, iTotalTime,
                 fAveHps, average, countedTo, timedTo>>

AverageBest ==
  /\ mpc = "average"
  /\ LET sum == SumOf(fTotalHps, NumTests - NumBest .. NumTests - 1)
     IN  average' = Rate(sum.n, sum.d * NumBest)
  /\ mpc' = "done"
  /\ UNCHANGED <<miner, iHashCount, iTimestamp, k, i, count, totals, countedTo, timedTo>>

Main == Sleep \/ ExchangeCount \/ ExchangeTime \/ PrintRound \/ Sort \/ AverageBest

Next == Main \/ \E t \in Threads : CountBatch(t) \/ TimeBatch(t)

Spec == Init /\ [][Next]_vars

-----------------------------------------------------------------------------
Total(f) ==
  LET sum[n \in 0 .. N] == IF n = 0 THEN 0 ELSE sum[n - 1] + f[n - 1]
  IN  sum[N]

InHand == IF mpc = "time" THEN count ELSE 0

\* Emptying the counters while the threads add to them loses nothing and counts nothing
\* twice (cli-miner.cpp:113-117): what was taken and what is left make up all batches.
NothingIsLost ==
  /\ iTotalCount + InHand + Total(iHashCount) = Total([t \in Threads |-> Intensity[t] * batches[t]])
  /\ iTotalTime + Total(iTimestamp) = Total(spent)

\* The two counters are not emptied together, but of each thread at most one batch, over
\* the whole benchmark, is counted without its time: the order of lines 113 and 114 against
\* that of minethd.cpp:322 and 323 sees to it, so a rate is too high by a batch at most.
TimeIsOneBatchBehind ==
  \A t \in Threads : ~(mpc = "time" /\ i = t) => countedTo[t] <= timedTo[t] + 1

\* The result is the mean of the NumBest best rounds, whatever the order they came in
\* (cli-miner.cpp:126-133), if every round had a rate.
BestRoundsAveraged ==
  (mpc = "done" /\ \A r \in Rounds : IsNumber(fTotalHps[r])) =>
    LET choices == {s \in SUBSET Rounds : Cardinality(s) = NumBest}
    IN  \E s \in choices :
          /\ Same(Rate(average.n * NumBest, average.d), SumOf(fTotalHps, s))
          /\ \A u \in choices : ~Less(SumOf(fTotalHps, s), SumOf(fTotalHps, u))

\* After the first round the average over all rounds is that of this round.
FirstAverageIsCurrent ==
  (mpc = "print" /\ k = 0 /\ IsNumber(fTotalHps[0])) => Same(fAveHps, fTotalHps[0])
=============================================================================
