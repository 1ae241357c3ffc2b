# A TLA+ model of xmr-stak-amd

This directory holds TLA+ modules, TLC configurations and TLAPS proofs for the
program in `../src`: the Cryptonight OpenCL benchmark derived from xmr-stak-amd.
It says what the program's parts promise each other, checks the promises on
small instances and proves the central ones for every size.

## 1. The system

`main` (cli-miner.cpp:46) reads `config.txt` (jconf), applies command-line
overrides, compiles the OpenCL kernels and prepares one `GpuContext` per
configured thread (`minethd::init_gpus`, `InitOpenCL`), and runs
`do_benchmark`: it starts one mining thread per context
(`minethd::thread_starter`), and ten times, ten seconds apart, empties the
threads' counters and prints hash rates.  Each mining thread runs batches on
its GPU (`XMRRunJob`) and starts a thread of its own that checks the nonces the
GPU reports on the CPU (`cpu_check_thread`).  The miner's executor (events,
timers, telemetry, reports, `switch_work`) is compiled into the program, but
`main` does not start it and its pool handlers are empty.

| component | state it keeps | operations | talks to | correct when |
|---|---|---|---|---|
| Work hand-over (minethd.cpp/.h) | `iGlobalJobNo`, `iConsumeCnt`, `iThreadCount`, `oGlobalWork`; per thread `iJobNo`, `oWork`, `GpuContext::Nonce` | `thread_starter`, `switch_work`, `consume_work`, `work_main` | benchmark or executor, GPU driver | every thread gets every work whole, in order, hashes what it took, from nonces of its own; a switch returns |
| Result checking (minethd.cpp) | per thread `iResults`, `iResultsReady` | second half of `work_main`'s loop, `cpu_check_thread` | its mining thread, by shared memory | a mismatch is reported if and only if the GPU is wrong |
| Hash-rate benchmark (cli-miner.cpp) | `iHashCount`, `iTimestamp` of each thread, totals, `fTotalHps` | `do_benchmark` | mining threads, by atomics | no hash or time is lost or counted twice; rates are rates |
| GPU driver (amd_gpu/gpu.c) | queue, buffers, kernels, `Nonce` | `InitOpenCL`, `XMRSetJob`, `XMRRunJob` | OpenCL, kernels | a batch returns its good nonces, `Nonce` advances past what was hashed |
| Kernels (opencl/*.cl) | scratchpads, states, branch and output buffers | cn0, cn1, cn2, four final hashes | driver | they compute what the CPU does |
| Integer arithmetic (fast_int_math_v2.cl, cryptonight_aesni.h) | none | division, square root | kernels, CPU hash | exact for every input |
| Telemetry (minethd.cpp) | ring of (hash count, time stamp) per thread | `push_perf_value`, `calc_telemetry_data` | executor | the rate of the period asked for, or NaN |
| Nonce space (minethd.h/.cpp, gpu.c, cn0) | `GpuContext::Nonce` | `calc_start_nonce`, the advance by a batch, cn0's write of the nonce | hand-over, driver | no nonce of a blob is hashed twice |
| Executor (executor.cpp/.h) | timed events, tallies, reports | `ex_main`, `ex_clock_thd`, `sched_reconnect`, `log_result_*`, `get_http_report` | clock, HTTP and mining threads | a timed event fires once and on time; a report is the requester's own |
| Event queue (thdq.hpp, msgstruct.h) | a queue, a mutex, a condition variable | `push`, `pop`, moves of events | executor and whoever posts to it | FIFO, no lost wake-up, no use of the wrong member of the union |
| Configuration (jconf.cpp) | parsed JSON, overrides | `parse_config`, getters | everybody | what passes the checks can be used |
| Printer (console.cpp) | verbosity, a mutex, a file | `print_msg`, `print_str` | everybody | lines are not mixed |

What makes it hard: the hand-over of works and the hand-over of results use no
lock; counters are read while they grow; buffers on the GPU are reused without
being cleared; errors of the driver are ignored by its callers.  `PROJECT.json`
lists the hazards one by one, at their lines.

## 2. The modules

| module | models | used by, proved in |
|---|---|---|
| `JobBroadcast` | what the hand-over of works promises | abstract specification |
| `WorkSwitch` | thread_starter, switch_work, consume_work, work_main's outer loop | implements `JobBroadcast`; `WorkSwitchProof` |
| `ResultCheck` | the inside of a batch and cpu_check_thread | extends `WorkSwitch`, for one thread `me`; `ResultCheckProof` |
| `Benchmark` | do_benchmark and the two counters of each thread | `BenchmarkProof` |
| `RunJob` | XMRRunJob and the kernels' branch and output buffers | `RunJobProof` |
| `Mailbox` | what the event queue promises | abstract specification |
| `EventQueue` | thdq: push and pop, mutex and condition variable | implements `Mailbox` |
| `Executor` | ex_main, ex_clock_thd, push_timed_event, get_http_report | extends `EventQueue`; `ExecutorProof` |
| `IntMath` | division and roots of GPU and CPU, as operators | |
| `IntMathCases` | one division or root of any operands | extends `IntMath`; `CalculationsProof` |
| `Scratchpad` | where each chunk of a scratchpad is, in each layout | `CalculationsProof` |
| `Cryptonight` | cn0, cn1, cn2 work-item by work-item; cryptonight_hash | extends `IntMath`, `Scratchpad`; `CryptonightProof` |
| `Telemetry` | the ring of a thread, the tick that fills it, the rate | `CalculationsProof` |
| `NonceSlices` | calc_start_nonce, `Nonce` from batch to batch, the nonce in cn0 | `CalculationsProof` |
| `Config` | jconf: parse_config, GetThreadConfig, overrides, getters | |
| `Startup` | main until the threads start, InitOpenCL, InitOpenCLGpu | extends `Config`; `StartupProof` |
| `KernelArgs` | XMRSetJob call by call, the arguments each kernel has | `StartupProof` |
| `MC*` | values of constants for TLC; `MCTelemetry` has what an uncleared ring may hold; `MCCalculations` and `MCStartup` put machines side by side | |

**WorkSwitch.**  One action per step another thread can observe.  `spc` is the
program counter of the thread that calls `thread_starter` and `switch_work`:
`CallSwitchWork`, then `WaitOver` (line 222), `CopyHead` and `CopyBlob` (the
assignment of 225, which is not atomic), `ResetConsumeCnt` (226), `BumpJobNo`
(227).  `pc[t]` is that of mining thread `t`: `EnterLoop` (295), `BeginBatch`
and `EndBatch` around `XMRRunJob`, `NoticeJob` (306 or 312), `CopyPart` (the
memcpy of 232, in two parts and any order), `Acknowledge` (233-234), `SetJob`
(236-239).  A work is a record of a *head* (target, size, resume count, stall
flag) and a *blob*; what can be mixed up is one with the other.  The variables
are the code's, plus `jobs`, a history of what was handed over, by which the
properties tell what a thread ought to hold.  `start` is the start nonce
without its low 24 zero bits; `device` is what `XMRSetJob` loaded.  `XMRSetJob`
may succeed, refuse, or fail after it wrote the input buffer; both callers
ignore its result and so does the model.

The atomics are sequentially consistent.  The code uses relaxed loads of
`iGlobalJobNo` and `iConsumeCnt`; the program builds for x86 only (it includes
SSE intrinsics), where such a load is an ordinary one that no later load
overtakes and no earlier store of another thread is seen out of order by it,
and every write is a locked instruction or a `seq_cst` store.  On another
machine the memcpy might overtake the load, which this model would not show.
The non-atomic reads and writes are undefined behaviour only if they can run at
the same time, which is what `NoTornCopy` excludes for the work and what the
runs of `ResultCheck` show to happen for the results.

**JobBroadcast.**  Jobs are appended to a sequence; each thread takes them one
after another and loads into its GPU only what it took; a new job is published
only when all threads have the one before.  No buffer, no counter.
`WorkSwitch!Broadcast` instantiates it with `taken <- Taken` (the job number, -1
before the thread is counted) and `loaded <- device`.

**ResultCheck.**  Adds to `WorkSwitch` the thread `me`'s batch (`StartBatch`,
`RunJob`, `CopyResult` slot by slot, `SetReady`) and its checker
(`ExchangeReady`, `CopyBlobOfWork`, `NextNonce`, `CheckNonce`, `EndOfLoop`),
with one action for each access of the checker to memory it shares.  A nonce is
a pair of the blob it was found for and the hash the CPU gives for the two; with
another blob the CPU's hash is any.  `stale` and `moved` remember whether the
array or the work changed since the batch in question was published, so that a
report can be put down to its cause.

**Benchmark.**  The mining thread's two additions and the main thread's two
exchanges are four actions.  Doubles are fractions whose denominator may be 0,
so that infinity and NaN are there; comparison and addition are IEEE's.  Time is
what the threads measure.  Wall-clock time is left out: a round may see any
number of batches of a thread.  The sums over threads (`Total`) and rounds (`SumOf`) are
recursive functions on numbers, added up in the order of the code's loops.

**RunJob.**  One action per call of OpenCL, each of which may fail, and one per
work-item of the kernels that use the atomic counters.  Which branch a nonce
belongs to and whether it is good is chosen in `Init` and found out by the
kernels.

**EventQueue, Mailbox.**  `queue` is the code's; `sleeping` says that the one
thread that pops is in the condition variable's wait set, and `notifying` is the
set of threads between the unlock and the notification of `push`, since thdq
releases the mutex first.  A waiter may wake for no reason and looks again.  A
mailbox is a FIFO whose owner handles everything put into it.  The moves of
`ex_event`, a tagged union, are left out: what is queued is the event itself.

**Executor.**  Each action is a stretch of code under one mutex.  The clock is the
exception: it keeps `timed_event_mutex` while it walks over the list and posts,
so `CountDown` and `Fire` are a step for each timed event, with `cursor` for the
iterator and its erasure.  An entry of the list has, besides its event and what is left
of its ticks, the number of the call that put it there, by which the history knows it.
`ex_main` connects, arms the automatic report, and handles events; `get_http_report` is split where it waits for `httpMutex`, posts
its request and waits for the promise (`hpc`).  `timers` and `ticks` are a history
of what was asked for and when it is due.  `set_value` is one step.  The
handlers of the pools' events are empty in the source, and `sched_reconnect` and
`log_result_*` have no caller; they are not in the model.  `push_timed_event` is
public, so callers other than the executor may use it, with any delay: with
0 seconds the event is counted down from 0, wraps around, and never fires, which
the history records as `NeverDue`.  `main` does not start the executor; the
model is of what it does once `ex_start` is called.

**IntMath, IntMathCases.**  The operators have the code's steps, wrapped sums
and shifts included; `K` is 2^32.  What a table or the hardware gives is an
argument, and `IntMathCases` lets it be anything close enough.

**Scratchpad, Cryptonight.**  One work-item is a nonce and a lane; cn0 and cn2 go
chunk by chunk, in any order of the work-items, with the barrier of cn2 where the
code has one, cn1 nonce by nonce in its own loop.  `opt` has the options: layout,
the AMD or the NVIDIA version of cn1, shuffling, integer arithmetic.  The CPU's hash
is three operators.  AES is a constant function, and so is the exclusive or of two uints, of
which words and chunks take as many as they need; what is compared is the data
flow, the index maps, the order of loads and stores and the arithmetic; `states`
begins with what Keccak gives and ends with what the final hashes get.

**Telemetry.**  `row` says whether the constructor cleared this thread's row (it
clears row 0, once per thread); other rows begin with junk.  `source` is what
the tick stamps the samples with: `"busy"`, the milliseconds a thread has been
busy, is what executor.cpp:264 pushes; `"clock"`, the time of day, is what
`calc_telemetry_data` compares them with.  A thread cannot have been busy for longer
than it exists, which `Mine` has as a guard.  `samples` is the history: which hash
counts were pushed, and at what time of day, whatever they were stamped with.  Junk
is counts and stamps.

**NonceSlices.**  `SliceStart` is calc_start_nonce with its 32-bit shift (`Byte`
slices of `Slice` nonces), `Input` what cn0 leaves in the blob, `inputs` the
history of all hashed inputs.  A thread begins no batch once it has hashed
`HourOfWork` nonces of a job: the code's comment counts on jobs that change
within the hour.

**Config, Startup.**  A file is a record of typed values, one list of keys per
thread, the key that comes last and whether a newline ends the file:
parse_config overwrites the last byte before it puts braces around the text
(jconf.cpp:338-360), so that the last number of a file without one loses a
digit; `spare` says whether a negative number or a fraction there has one to lose.
`GetUnrollFactor` is the code's loop, unrolled.  `ReadConfig`, `InitOpenCL`, `InitOpenCLGpu` (once per thread) and `StartThreads`
are the steps of `main`, each with its early exits; dereferencing the result of a
missing strided_index or mem_chunk is the state `"crashed"`.  Assertions are off
(NDEBUG), so `GetUint64` of a negative number or a fraction reads it as some
large number, `Huge`.

**KernelArgs.**  `args` is the value each kernel has for each parameter.  `ArgsOf` lists
what XMRSetJob sets for a kernel, `Parameters` what the kernel takes; the `NumCalls` calls
are made one after another (`CallsBefore` numbers them) and any may fail, after which those before
are the new job's and the others an older one's, or unset.  `XMRRunJob` records
which kernels ran.  `WorkSwitch` knows three outcomes of XMRSetJob only; this module
is the finer picture of the third.

## 3. What is checked

Every property has a mutant in `PROJECT.json`: a plausible mistake in one
definition, after which TLC finds the property violated in the same run.

| run | instance | shows |
|---|---|---|
| `switch` | 3 threads, 2 switches, works: a job, its resumption, another, stall | type correctness, `NoTornCopy`, `HoldsItsJob`, `HashesItsJob`, `OwnSlices`, `CountsTheThreadsThatTook`; `SwitchReturns`, `JobIsTaken`; refinement of `JobBroadcast` with its fairness |
| `first_job_slices` | 2 threads, 1 switch | violation of `OwnSlicesFromTheStart`: all threads hash the same nonces of the first work |
| `right_gpu` | 1 thread, 1 switch, 1 result slot, errors of XMRRunJob and XMRSetJob | `RightGpuIsNotBlamed`: a GPU that is right is reported only for the four causes below |
| `wrong_gpu` | 1 thread, 1 switch, 2 result slots, every nonce wrong, batches of 0 to 2 nonces, no errors of XMRRunJob and XMRSetJob | `BatchIsPickedUp`; `WrongGpuIsFoundOut` |
| `mismatch_next_batch` | 1 thread, no switch, 2 slots, no errors, hashes below the target | violation of `NoMismatchByNextBatch`: the array is overwritten while the checker reads it |
| `benchmark` | 2 threads, 3 rounds of which the best 2 count, 3 batches each | `NothingIsLost`, `TimeIsOneBatchBehind`, `BestRoundsAveraged` |
| `benchmark_average` | 2 threads, 1 round | violation of `FirstAverageIsCurrent`: the average is wrong for threads of different speed |
| `executor` | one executor, clock, 2 web threads, a caller of `push_timed_event`; up to 4 ticks | `TypeOK`, `NoLostWakeup`, `TimersOnTime`, `OneHashrateLoop`, `DevHasItsPortion`, `RequestIsThere`, `OwnReport`; `RequestIsAnswered`; refinement of `Mailbox` with its fairness |
| `calculations` | four machines side by side, see below | `GpuHashesLikeTheCpu`; `DivisionIsExact`, `GpuRootIsExact`, `CpuRootIsExact`; `RateOfThePeriod`; `NonceIsHashedOnce` |
| `telemetry_busy_time` | the telemetry of `calculations` | violation of `RateIsReported`: the stamps the executor pushes give no rate |
| `cpu_root` | words of 5 bits | violation of `RootsAgree`: the CPU's root is one too large for the largest numbers |
| `startup` | a right file and all those one value away, 3 command lines, 2 threads, 2 jobs, 2 failures; beside it 3 nonces a batch, 2 branches, 2 slots, 2 calls of XMRRunJob, any call of OpenCL may fail | `MinesAsConfigured`, `UnrollFactorIsValid`; `KernelsGetTheirBuffers`, `ASetJobIsWhole`; `TypeOK`, `ReturnsTheGoodNonces`, `NoGoodNonceIsMissed` of `RunJob` |

**Bounds.**  `MaxJobs` bounds the calls of `switch_work`.  The handshake
returns to the same shape after each switch, so two switches show every overlap
of one with the next; three threads let two disagree while a third decides.
`Slots` stands for the code's 0xFF.  Two, as in most runs, give an array that is
partly copied; with the one of `right_gpu` the copy has still two steps, the
slot and the counter, in any order, which is what lets the checker pair one batch
with another, and there is room for all failures of `XMRSetJob` and `XMRRunJob`.
`MaxRuns` is 2: a call meets the leftovers of another, failed or not.  `MaxBatches`
is 3, so that each of three rounds may have a rate; a batch takes one unit of time,
and the rates of the rounds differ nevertheless, because a round may get the count
of a batch and the next one its time.  `NumBranches` is 2 of 4, since branches do not
interact otherwise than by sharing the output.  In `right_gpu` the two works
differ in their target, so that the GPU's one hash is equal to one and below the
other.  `switch` lets `XMRSetJob` succeed only, which is what its properties about
`device` suppose; its failures are in `right_gpu`, and in the proofs.  In `wrong_gpu`
neither `XMRSetJob` nor `XMRRunJob` fails (with their failures the run would be too large;
they are in `right_gpu`), and a batch may find no nonce, as most do at the program's target.

In `executor` a tick is a second; of each 3 ticks the developer's portion, 34 %, is
one, and the second added for connecting makes it two.
`TheBudgets` lists what may happen in one behaviour: ticks of the clock, requests of
each web thread, calls of the third party.  There are requests in numbers enough to
queue up behind one another and to ask again, and ticks enough to go past one
period and to have timers of 1 and 2 ticks together in the list; the four
combinations keep the products apart.  `SizeMax` is 64 where the code has 2^64; no
behaviour counts that far.

The four machines of `calculations` share no variable; one of them runs (the
variable `calculation`), the others stay at their first state, so that one run
checks them all.  The numbers there: scratchpads of 8 chunks filled by 2 lanes, 2
nonces, 3 iterations, 6 combinations of options that between them have every layout,
both versions of cn1 and the two tests on and off; words below 32, for which all
operands are tried (32 is enough for all carries to occur, and satisfies
`TableAssumption` with a reciprocal 2 off); a ring of 4 that is overrun, busy
times of 0 and 2 (a GPU that fails at once is busy for no time); slices of 4
nonces of which a thread may begin 3, with batches of 1 and 2, for a first job,
another and its resumption.  The NVIDIA version of cn1 is run with the layout it
supposes (stride 0).  All CPU roots of these states are exact, so that the exception in
`GpuHashesLikeTheCpu` is never used.

In `startup` the files differ from a right one in one value, one key of one
thread or the end of the file, and the jobs are followed for the right file only: what a
job sets does not depend on the numbers.  Two failures of OpenCL let both jobs of a
thread end half set.  The batches of `RunJob` run beside it and share no variable with it
(the variable `part` says which of the two a behaviour follows).

**Deadlock** is not checked: a thread that was given a stall work waits until
somebody switches works, and nobody is obliged to; `main` ends, calculations come to a
result, and the bounds stop the others.

**Fairness.** In `WorkSwitch`, weak fairness of `switch_work`'s own steps and of each
mining thread: the operating system runs every thread, sleeps end, batches end.  Nothing
obliges anybody to call `switch_work`, or a thread to start another batch.  In
`ResultCheck` only the checker is fair, which is all its two liveness properties need;
`WrongGpuIsFoundOut` supposes that the checker goes on getting nonces to look at.  That
the mining thread goes on publishing batches would not do: a wrong batch may be
overwritten by an empty one before the checker looks (minethd.cpp:326-327), each time
and for ever, and nothing in the code prevents it.  In `Executor`: of the clock, of
`ex_main`, of whoever is between the unlock and the notification of a push, and of a web
thread once it is in `get_http_report`; the mutexes are taken in turns that the model
need not follow, since each is held within one action but for the clock's, which is
fair.  Nobody is obliged to ask for a report.  The queue's fairness follows: it is what
the refinement of `Mailbox` shows.  The other modules have safety properties only.

## 4. What is proved

| theorem | says, for every value of the constants |
|---|---|
| `WorkSwitchProof!TypeCorrect` | `TypeOK` |
| `WorkSwitchProof!CountIsRight` | `CountsTheThreadsThatTook` |
| `WorkSwitchProof!NoTornCopyHolds` | `NoTornCopy` |
| `WorkSwitchProof!HoldsItsJobHolds` | `HoldsItsJob` |
| `WorkSwitchProof!HashesItsJobHolds` | `HashesItsJob`, if `XMRSetJob` never fails |
| `WorkSwitchProof!OwnSlicesHolds` | `OwnSlices`, if (resume count + 1) * N <= 256 for every work |
| `WorkSwitchProof!ImplementsBroadcastSafety` | the safety part of `JobBroadcast`, if `XMRSetJob` never fails |
| `ResultCheckProof!ResultTypesAreKept` | `ResultTypeOK` |
| `ResultCheckProof!OnlyFaultyGpusAreBlamed` | `RightGpuIsNotBlamed`, if the GPU is right (`GpuFaulty` is FALSE) |
| `ResultCheckProof!CheckerKnows` | the invariant these two follow from |
| `BenchmarkProof!TypesHold` | `TypeOK` of `Benchmark` |
| `BenchmarkProof!TimeIsOneBatchBehindHolds` | `TimeIsOneBatchBehind` |
| `BenchmarkProof!NothingIsEverLost` | `NothingIsLost` |
| `BenchmarkProof!BestRoundsAreAveraged` | `BestRoundsAveraged` |
| `RunJobProof!BuffersHold` | `TypeOK` of `RunJob` |
| `RunJobProof!EachGoodNonceIsReturned` | `ReturnsTheGoodNonces` |
| `RunJobProof!FailedBatchesAreRepeated` | `NoGoodNonceIsMissed` |
| `ExecutorProof!TypesAreKept` | `TypeOK` of `Executor` |
| `ExecutorProof!EachRequestIsThere` | `RequestIsThere` |
| `ExecutorProof!EachGetsItsReport` | `OwnReport` |
| `ExecutorProof!WakeupsAreKept` | `NoLostWakeup` |
| `ExecutorProof!PoolsTakeTurns` | `DevHasItsPortion` |
| `ExecutorProof!LoopNeverDies` | `OneHashrateLoop` |
| `ExecutorProof!TimersAreOnTime` | `TimersOnTime`, for delays a size_t holds in ticks, until the clock has ticked `SizeMax` times |
| `ExecutorProof!KeepsTheOrder` | the safety part of `Mailbox` |
| `CalculationsProof!FastSqrtIsExact` | fast_sqrt_v2 is exact for any estimate at most one off |
| `CalculationsProof!FastDivIsExact` | fast_div_v2 and fast_div_full_q are exact for any accurate reciprocal |
| `CalculationsProof!ReciprocalIsAccurate` | get_reciprocal makes one of any table value close enough |
| `CalculationsProof!DivisionIsAlwaysExact`, `GpuRootIsAlwaysExact`, `CpuRootIsAlwaysExact` | `DivisionIsExact`, `GpuRootIsExact`, `CpuRootIsExact` |
| `CalculationsProof!SlotsAreDistinct` | no two chunks of a batch share a place, in any layout that fits |
| `CalculationsProof!SlotsFitTheBuffer` | each place is in the buffer InitOpenCLGpu allocates |
| `CalculationsProof!EachNonceOnce` | `NonceIsHashedOnce` |
| `CalculationsProof!NothingSpills` | cn0 never changes the byte behind the nonce |
| `CalculationsProof!RateIsOfThePeriod` | `RateOfThePeriod` |
| `CryptonightProof!GpuIsTheCpu` | `GpuHashesLikeTheCpu`, for any AES that makes chunks of chunks (`AesGivesChunks`) |
| `StartupProof!EachThreadHasItsGpu` | the invariant of `Startup`: threads start with a GPU each, set up from what the getters return |
| `StartupProof!ProgramMinesAsConfigured` | `MinesAsConfigured` |
| `StartupProof!UnrollFactorsAreValid` | `UnrollFactorIsValid` |
| `StartupProof!KernelsHaveTheirBuffers` | `KernelsGetTheirBuffers` |
| `StartupProof!SetJobsAreWhole` | `ASetJobIsWhole` |

They rest on the named assumptions of their modules about the constants, which TLC
evaluates in every run.  Most say of what type a constant is.  These say something of
the code:

- `TableAssumption`, `(2 * TableError + 3) * (TableError + 1) <= K`.  The table of
  fast_int_math_v2.cl is not in the model.  Computed apart from it
  for all 2^31 divisors, the reciprocals before the correction are off by -16295 to 17324, and
  (2 * 17324 + 3) * 17325 is about 6.0e8, well below 2^32.
- `HourAssumption`, `HourOfWork + rawIntensity - 1 <= Slice`: at the comment's 4000
  hashes a second an hour is 14.4 million nonces of the slice's 16.8, which leaves room
  for an intensity up to 2.37 million.
- `JobAssumption`, `(resume + 1) * iThreadCount <= 256`.  Of "64 threads 4 times" this
  covers resume counts 0 to 3; if the four are meant on top of the original job, the
  last one wraps around to the first slices.
- `BlobAssumption`: no work a thread hashes has the blob of `NoWork`, which is that of
  the works without one, which are never hashed.
- `PeriodAssumption`: no rate is asked for a period that reaches back to 1970.
- The hypotheses of `TimersAreOnTime`: past them the countdown, a size_t, wraps around.

*The hand-over.*  `NoTornCopy` is not inductive: that no thread is copying while
the buffer is written follows from what `iConsumeCnt` counted earlier.
`Handshake` strengthens it: the counter is the number of threads that took the
current job (0 between the reset and the new number), a thread is never more
than one job behind, and once the wait is over all threads are up to date.  That
`iConsumeCnt >= iThreadCount` means *all* threads is a fact about cardinalities
of subsets, and the reason for `FiniteSetTheorems`.  `Contents` adds what the
buffer and each thread's copy hold, part by part, and `Loaded` what its GPU
holds; the theorems about contents follow from those.  `OwnSlices` needs, besides,
that two threads with the same blob compute their slices with the final thread
count and from jobs whose slices do not wrap around; its arithmetic is in
`SliceOfThread`.

*The results.*  The checker takes no lock, so nothing it reads need be what was published.
`ResultInv` is therefore conditional: `stale` and `moved` name what has changed since the
publication, and as long as `moved` is empty the array, the blob and the nonce under check
are those of the batch.  It needs the hand-over's invariants: a thread in a batch has work
that is not a stall.

*The benchmark.*  `Lag` adds to the property what each thread has timed:
everything it counted, but for the batch it is between its two additions of.  The sums need
an induction the library's theorems cannot be used for.  `LeastNumber` (a set of numbers
that is not empty has a least one) comes from the well-foundedness of finite subsets,
`SetInduction` from that for one *set* of numbers, and `Iteration` says that a recursive
function over 0 .. n is the iteration of its step.  `TotalPlus` and `TotalWithout` are what the books
need of a sum; `TopIsBest` says that the rounds at the end of the sorted list are the best.

*A batch.*  `BatchInv` says, step by step of XMRRunJob, what is in the buffers: while the
kernels sort, entries below the counter of a branch are the items done (`Enumerates`), each
once; while they hash, those of the output are the good nonces of what was hashed so far.
That the branches' entries are distinct is what makes the result free of duplicates.

*The executor.*  `OwnReport` is about a promise, a pointer to a string and an event that
travel separately.  `Inv` says that at most one request is on its way, in the queue or
being handled, and exactly while the thread inside `get_http_report` waits with
its promise open; that timed events are never requests; and that what was answered is
what was asked.  Its preservation by each step of the queue is in `StepsOfTheQueue`.
`PoolInv` gives the countdown as a function of the ticks.  `LoopInv` counts the automatic
report wherever it is: in the list, in the queue or in `ex_main`'s hands, exactly once.
`TimerInv` relates the list to the history of calls in both directions, with the clock in the
middle of its walk: entries the iterator has passed have been counted down for this tick, the
others have not, and the order of the entries is that of the calls.

*The arithmetic.*  A quotient that is off by at most one before the correction is
exact after it; that it is off by at most one is `ReciprocalIsAccurate` and the bound on
the sum of errors.  The solver does not order products of variables by itself,
so `CalculationsProof` has a lemma for each kind of product it compares.  The root of the CPU starts
from that of n without the bits a double drops, which is the root of n or one less; the
correction finds out which from one product, and the numbers for which that product overflows
two words are the exception.

*Places.*  A number is one quotient and one
remainder (`OneQuotient`, `OneDigit`); an index map is a change of digits, so equal places have equal digits.
The ring of the telemetry is the same in one digit: `LatestAreStored` says that a sample is at its
number modulo the size of the ring until it is overwritten, and `RecentAreTheLatest` that what
is recent enough is an end of the history, since stamps of the clock do not fall.

*The start.*  `StartupInv` carries what was read through the steps of `main`; that what is
read is what was written, but for the exceptions, is `ThreadsAsRead`.  `ArgInv` says which value each
argument of each kernel has: that of the last job, if the last XMRSetJob got that far, and else of
a job between the last one that was set as a whole and the last that was tried.

*The hash.*  `HashInv` says how far along the CPU's way each lane is: in cn0 and cn2 after as
many passes (`Filled`, `Folded`), in cn1 after as many iterations (`InStep`), whatever the others
have done, since no two chunks share a place.  That one iteration of cn1 makes what one of the
CPU makes is `SameIteration`: both quotients and both roots are exact, the CPU's root by the
exception of the property.  It is the same for the NVIDIA version by `NvidiaIs`.  The CPU's
loops are recursive functions; `LoopedIs`, `ExplodedIs` and `ImplodedIs` give their values
pass by pass.  Besides the types and shapes of the constants the theorem assumes of AES that it
makes chunks of chunks, and of the exclusive or that it makes uints of uints and numbers below 4
of numbers below 4, and that 0 is neutral (`XorAssumption`).  `OptionAssumption` is the
user's: nothing in the code refuses a layout that does not fit, or the NVIDIA version of cn1 with
another layout than its own.

**Model-checked only**: everything temporal beyond `[]` (`SwitchReturns`, `JobIsTaken`,
`RequestIsAnswered`, the fairness of the two refinements, the two liveness properties
of `ResultCheck`), because fairness is about ENABLED, which the prover cannot expand.

## 5. What the runs found

Five runs end in a violation on purpose; `PROJECT.json` has the details under
`findings`.

1. `first_job_slices`: the first work is set without a start nonce, so in the
   benchmark all threads hash the same nonces (minethd.cpp:150, against
   minethd.h:101-103).
2. `mismatch_next_batch`: the checker may read results while the mining thread
   overwrites them, and report a mismatch of its own making (minethd.cpp:326).
3. `benchmark_average`: the printed average is wrong for threads of different
   speed (cli-miner.cpp:120).
4. `cpu_root`: the CPU's square root is one too large for the largest numbers
   (cryptonight_aesni.h:225): of 2^64 - 1 the low half is 3558067408, and the GPU's test
   expects 3558067407 (cryptonight.cl:440).  It concerns n from about 2^64 - 5.49e9 on,
   3 of 10^10 roots, and would be reported as a mismatch of the GPU.
5. `telemetry_busy_time`: what the executor pushes into the telemetry is the time a thread
   was busy, and `calc_telemetry_data` compares it with the time of day; no period has a
   rate (executor.cpp:264, against the report's columns, executor.cpp:325).

Others are written into properties that hold, as the exceptions they make, or
are what the property states:

- `RightGpuIsNotBlamed` excuses, besides the second above, a hash equal to the target
  (the kernels accept it, minethd.cpp:276 rejects it), a checker that uses the blob and
  the target of the next work (minethd.cpp:254), and a job the GPU never got because
  `XMRSetJob` failed (minethd.cpp:239);
- `BestRoundsAveraged` supposes that each round has a rate, since a thread that finishes
  no batch in a round makes it NaN, which is then sorted (cli-miner.cpp:119);
- `RateOfThePeriod` supposes stamps of the clock and excludes rows the constructor does not
  clear (minethd.cpp:80) until they are full or a sample is older than the period; before
  that a rate may be computed of what the memory held;
- `WrongGpuIsFoundOut` promises nothing for a GPU whose batches are all overwritten before
  the checker looks (minethd.cpp:326);
- `NonceIsHashedOnce` supposes that no batch is begun on a job after the hour
  minethd.h:104 counts on; what happens after it (slices overlap) is not in the model;
- `DevHasItsPortion` supposes a portion shorter than the period: the switch happens at the
  equality of two numbers, and with a portion as long as the period it never does
  (executor.cpp:104);
- `MinesAsConfigured` excepts the last number of a file without a newline, of which a
  digit is lost, and strided_index and mem_chunk that are not numbers (jconf.cpp).  A file
  with no other keys than config.txt:8-11 lists, and so without these two, crashes the program
  (jconf.cpp:154-155);
- `ASetJobIsWhole` says what is left of a half-set job: final kernels may run with the
  targets of different jobs.

## 6. What is not modelled

- *JSON parser* (src/rapidjson): a vendored library, more than half of the lines of the
  repository.  `Config` models what jconf makes of what it returns.
- *Hash functions of the CPU, final hashes and Keccak of the GPU, AES*: published
  functions taken from elsewhere, tables and straight-line code without control flow that
  depends on data.  A model that is shorter than they are would be the identity or an
  opaque function, which is what `Cryptonight` uses.
- *Printer, pages, sockets*: formatting and constants.  The printer writes under one
  mutex and calls nothing that takes another.
- *Reports and the build log*: executor.cpp:294-493 and the handling of the log and the
  binary in gpu.c are formatting; who gets which report and which step fails is
  modelled.
- *The move constructor of miner_work* (minethd.h:65), which does not initialize
  `iResumeCnt`.  All works of the program are moved from temporaries, a move that
  compilers elide, and nothing reads the count of the first one.
- *Moves of ex_event*, a tagged union, in `EventQueue`.
- Some transfers into local variables are still pending when `XMRRunJob` returns early
  (gpu.c:1007); what they overwrite is outside of what `RunJob` models.

Of the program's own sources, without vendored libraries and hash functions, the map covers
somewhat more than two fifths; of all lines in the repository, most of which are vendored,
about one fifteenth.  What is left of the program's own is the text of OpenCL calls and their
error messages, report formatting, the pages, and duplicates of kernels that differ in a
constant.

## 7. What may come next

The moves of `ex_event` and `miner_work`, as a module of their own.
