----------------------------- MODULE WorkSwitch -----------------------------
(***************************************************************************)
(* The hand-over of works from the thread that calls                       *)
(* minethd::thread_starter and minethd::switch_work to the mining threads  *)
(* (minethd.cpp:140-241 and 284-331).  One static buffer, oGlobalWork, is  *)
(* written with plain assignments and read with memcpy; no lock protects   *)
(* it.  What keeps the two apart is the order in which iConsumeCnt and     *)
(* iGlobalJobNo change.                                                    *)
(*                                                                         *)
(* A work has two parts that are written and read in separate steps: its   *)
(* scalar fields (head: target, size, resume count, stall flag) and its    *)
(* blob.  Atomic counters are sequentially consistent here: the program    *)
(* only builds for x86 (SSE intrinsics), where a relaxed load is a plain   *)
(* load that later loads do not overtake.                                  *)
(*                                                                         *)
(* What a thread does between taking a batch and publishing its results is *)
(* one step here and is refined by ResultCheck.                            *)
(***************************************************************************)
EXTENDS Integers, FiniteSets, Sequences

CONSTANTS N,              \* number of mining threads, jconf::GetThreadCount
          JobWorks,       \* works with something to hash, records [head, blob]
          NoWork,         \* miner_work(): the work whose bStall flag is set
          ResumeCnt,      \* iResumeCnt of each head
          SetJobOutcomes, \* what XMRSetJob may do: "ok", "refused", "partial"
          MaxJobs         \* bound on the number of calls of switch_work

Threads == 0 .. N - 1
Works   == JobWorks \union {NoWork}
Heads   == {w.head : w \in Works}
Blobs   == {w.blob : w \in Works}

ASSUME ThreadAssumption == N \in Nat \ {0}
ASSUME WorkAssumption ==
  /\ \A w \in Works : w = [head |-> w.head, blob |-> w.blob]
  /\ \A w \in JobWorks : w.head # NoWork.head
  /\ ResumeCnt \in [Heads -> Nat]
ASSUME OutcomeAssumption == SetJobOutcomes \subseteq {"ok", "refused", "partial"}
ASSUME BoundAssumption == MaxJobs \in Nat

VARIABLES
  iGlobalJobNo, iConsumeCnt, iThreadCount, oGlobalWork, \* statics of minethd
  spc,      \* where the thread that starts and switches is
  pWork,    \* the argument of its current call
  jobs,     \* history: the arguments of thread_starter and of each switch_work
  pc,       \* where each mining thread is
  todo,     \* the parts of oGlobalWork its memcpy has not copied yet
  iJobNo, oWork, \* members of each minethd
  device,   \* the input buffer and kernel arguments of its GpuContext
  start     \* the top 8 bits of its GpuContext::Nonce when that job was set

globals == <<iGlobalJobNo, iConsumeCnt, iThreadCount, oGlobalWork>>
caller  == <<spc, pWork, jobs>>
members == <<pc, todo, iJobNo, oWork, device, start>>
vars    == <<globals, caller, members>>

Stalled(w) == w.head = NoWork.head

\* The bytes of w that mean something are those of j; a stall work has no blob.
SameWork(w, j) == w.head = j.head /\ (Stalled(j) \/ w.blob = j.blob)

Publishing == {"copyHead", "copyBlob"}

TypeOK ==
  /\ iGlobalJobNo \in 0 .. MaxJobs
  /\ iConsumeCnt \in 0 .. N
  /\ iThreadCount \in {0, N}
  /\ oGlobalWork \in [head : Heads, blob : Blobs]
  /\ spc \in {"starting", "idle", "wait", "reset", "bump"} \union Publishing
  /\ pWork \in Works
  /\ jobs \in Seq(Works) /\ Len(jobs) = iGlobalJobNo + 1
  /\ pc \in [Threads -> {"none", "started", "poll", "run", "copy", "setjob"}]
  /\ todo \in [Threads -> SUBSET {"head", "blob"}]
  /\ iJobNo \in [Threads -> 0 .. MaxJobs]
  /\ oWork \in [Threads -> [head : Heads, blob : Blobs]]
  /\ device \in [Threads -> [head : Heads, blob : Blobs]]
  /\ start \in [Threads -> 0 .. 255]

-----------------------------------------------------------------------------
Init == /\ iGlobalJobNo = 0 /\ iConsumeCnt = 0 /\ iThreadCount = 0
        /\ oGlobalWork = NoWork
        /\ spc = "starting"
        /\ pWork \in Works
        /\ jobs = <<pWork>>
        /\ pc = [t \in Threads |-> "none"]
        /\ todo = [t \in Threads |-> {}]
        /\ iJobNo = [t \in Threads |-> 0]
        /\ oWork = [t \in Threads |-> NoWork]
        /\ device = [t \in Threads |-> NoWork]
        /\ start = [t \in Threads |-> 0]

(***************************************************************************)
(* XMRSetJob(t, w): the device holds w, or the call fails before or after  *)
(* the input buffer is written; both callers ignore the error.             *)
(***************************************************************************)
XMRSetJob(t, w) ==
  \/ "ok" \in SetJobOutcomes /\ device' = [device EXCEPT ![t] = w]
  \/ /\ "partial" \in SetJobOutcomes
     /\ device' = [device EXCEPT ![t] = [head |-> @.head, blob |-> w.blob]]
  \/ "refused" \in SetJobOutcomes /\ UNCHANGED device

\* Mutant of CalcStartNonce: the resume count is not scaled by the number of threads.
StartNonceWithoutScaling(resume, t) == (resume + t) % 256

\* uint32_t: only the low 8 bits of the slice number survive the shift by 24
CalcStartNonce(resume, t) == (resume * iThreadCount + t) % 256

(***************************************************************************)
(* thread_starter: the constructor copies the work, sets the GPU's job and *)
(* starts the thread; iThreadCount is assigned after the loop.  The nonce  *)
(* stays what InitOpenCLGpu made it, 0.                                    *)
(***************************************************************************)
CreateThread(t) ==
  /\ spc = "starting"
  /\ pc[t] = "none"
  /\ \A u \in Threads : u < t => pc[u] # "none"
  /\ oWork' = [oWork EXCEPT ![t] = pWork]
  /\ XMRSetJob(t, pWork)
  /\ pc' = [pc EXCEPT ![t] = "started"]
  /\ UNCHANGED <<globals, caller, todo, iJobNo, start>>

\* Mutant of FinishStarting: iThreadCount is never assigned.
FinishWithoutThreadCount ==
  /\ spc = "starting"
  /\ \A t \in Threads : pc[t] # "none"
  /\ spc' = "idle"
  /\ UNCHANGED <<globals, pWork, jobs, members>>

FinishStarting ==
  /\ spc = "starting"
  /\ \A t \in Threads : pc[t] # "none"
  /\ iThreadCount' = N
  /\ spc' = "idle"
  /\ UNCHANGED <<iGlobalJobNo, iConsumeCnt, oGlobalWork, pWork, jobs, members>>

-----------------------------------------------------------------------------
(***************************************************************************)
(* switch_work.  It has one caller at a time, the executor's thread.       *)
(***************************************************************************)
CallSwitchWork(w) ==
  /\ spc = "idle"
  /\ iGlobalJobNo < MaxJobs
  /\ pWork' = w
  /\ spc' = "wait"
  /\ UNCHANGED <<globals, jobs, members>>

\* Mutant of WaitOver: the wait ends one thread too early.
WaitForAllButOne ==
  /\ spc = "wait"
  /\ iConsumeCnt + 1 >= iThreadCount
  /\ spc' = "copyHead"
  /\ UNCHANGED <<globals, pWork, jobs, members>>

WaitOver == /\ spc = "wait"
            /\ iConsumeCnt >= iThreadCount
            /\ spc' = "copyHead"
            /\ UNCHANGED <<globals, pWork, jobs, members>>

CopyHead == /\ spc = "copyHead"
            /\ oGlobalWork' = [head |-> pWork.head, blob |-> oGlobalWork.blob]
            /\ spc' = "copyBlob"
            /\ UNCHANGED <<iGlobalJobNo, iConsumeCnt, iThreadCount, pWork, jobs, members>>

\* iWorkSize bytes are copied: none of a stall work
CopyBlob == /\ spc = "copyBlob"
            /\ oGlobalWork' = IF Stalled(pWork) THEN oGlobalWork
                              ELSE [head |-> oGlobalWork.head, blob |-> pWork.blob]
            /\ spc' = "reset"
            /\ UNCHANGED <<iGlobalJobNo, iConsumeCnt, iThreadCount, pWork, jobs, members>>

\* Mutant of ResetConsumeCnt: the counter is not reset.
NoResetOfConsumeCnt ==
  /\ spc = "reset"
  /\ spc' = "bump"
  /\ UNCHANGED <<globals, pWork, jobs, members>>

ResetConsumeCnt == /\ spc = "reset"
                   /\ iConsumeCnt' = 0
                   /\ spc' = "bump"
                   /\ UNCHANGED <<iGlobalJobNo, iThreadCount, oGlobalWork, pWork, jobs, members>>

BumpJobNo == /\ spc = "bump"
             /\ iGlobalJobNo' = iGlobalJobNo + 1
             /\ jobs' = Append(jobs, pWork)
             /\ spc' = "idle"
             /\ UNCHANGED <<iConsumeCnt, iThreadCount, oGlobalWork, pWork, members>>

-----------------------------------------------------------------------------
\* Mutant of EnterLoop: the first work is not counted as taken.
EnterLoopUncounted(t) ==
  /\ pc[t] = "started"
  /\ pc' = [pc EXCEPT ![t] = "poll"]
  /\ UNCHANGED <<globals, caller, todo, iJobNo, oWork, device, start>>

(***************************************************************************)
(* work_main and consume_work of thread t.                                 *)
(***************************************************************************)
EnterLoop(t) ==
  /\ pc[t] = "started"
  /\ iConsumeCnt' = iConsumeCnt + 1
  /\ pc' = [pc EXCEPT ![t] = "poll"]
  /\ UNCHANGED <<iGlobalJobNo, iThreadCount, oGlobalWork, caller, todo, iJobNo,
                 oWork, device, start>>

\* Mutant of BeginBatch: the inner loop does not look at the job number.
BatchWhateverTheJobNo(t) ==
  /\ pc[t] = "poll"
  /\ ~Stalled(oWork[t])
  /\ pc' = [pc EXCEPT ![t] = "run"]
  /\ UNCHANGED <<globals, caller, todo, iJobNo, oWork, device, start>>

BeginBatch(t) ==
  /\ pc[t] = "poll"
  /\ ~Stalled(oWork[t])
  /\ iGlobalJobNo = iJobNo[t]
  /\ pc' = [pc EXCEPT ![t] = "run"]
  /\ UNCHANGED <<globals, caller, todo, iJobNo, oWork, device, start>>

EndBatch(t) ==
  /\ pc[t] = "run"
  /\ pc' = [pc EXCEPT ![t] = "poll"]
  /\ UNCHANGED <<globals, caller, todo, iJobNo, oWork, device, start>>

\* Stalled or not, the thread leaves its waiting loop and calls consume_work.
NoticeJob(t) ==
  /\ pc[t] = "poll"
  /\ iGlobalJobNo # iJobNo[t]
  /\ pc' = [pc EXCEPT ![t] = "copy"]
  /\ todo' = [todo EXCEPT ![t] = {"head", "blob"}]
  /\ UNCHANGED <<globals, caller, iJobNo, oWork, device, start>>

\* memcpy copies in an order of its own
CopyPart(t, part) ==
  /\ pc[t] = "copy"
  /\ part \in todo[t]
  /\ oWork' = [oWork EXCEPT ![t] =
       IF part = "head" THEN [head |-> oGlobalWork.head, blob |-> @.blob]
                        ELSE [head |-> @.head, blob |-> oGlobalWork.blob]]
  /\ todo' = [todo EXCEPT ![t] = @ \ {part}]
  /\ UNCHANGED <<globals, caller, pc, iJobNo, device, start>>

Acknowledge(t) ==
  /\ pc[t] = "copy"
  /\ todo[t] = {}
  /\ iJobNo' = [iJobNo EXCEPT ![t] = @ + 1]
  /\ iConsumeCnt' = iConsumeCnt + 1
  /\ pc' = [pc EXCEPT ![t] = IF Stalled(oWork[t]) THEN "poll" ELSE "setjob"]
  /\ UNCHANGED <<iGlobalJobNo, iThreadCount, oGlobalWork, caller, todo, oWork,
                 device, start>>

\* Mutant of SetJob: the job is set from the shared buffer after the acknowledgement.
SetJobFromSharedWork(t) ==
  /\ pc[t] = "setjob"
  /\ start' = [start EXCEPT ![t] = CalcStartNonce(ResumeCnt[oGlobalWork.head], t)]
  /\ XMRSetJob(t, oGlobalWork)
  /\ pc' = [pc EXCEPT ![t] = "poll"]
  /\ UNCHANGED <<globals, caller, todo, iJobNo, oWork>>

SetJob(t) ==
  /\ pc[t] = "setjob"
  /\ start' = [start EXCEPT ![t] = CalcStartNonce(ResumeCnt[oWork[t].head], t)]
  /\ XMRSetJob(t, oWork[t])
  /\ pc' = [pc EXCEPT ![t] = "poll"]
  /\ UNCHANGED <<globals, caller, todo, iJobNo, oWork>>

-----------------------------------------------------------------------------
SwitchWork == WaitOver \/ CopyHead \/ CopyBlob \/ ResetConsumeCnt \/ BumpJobNo

Consume(t) == \/ EnterLoop(t) \/ EndBatch(t) \/ NoticeJob(t)
              \/ (\E part \in {"head", "blob"} : CopyPart(t, part))
              \/ Acknowledge(t) \/ SetJob(t)

Next == \/ FinishStarting \/ SwitchWork
        \/ \E w \in Works : CallSwitchWork(w)
        \/ \E t \in Threads : CreateThread(t) \/ BeginBatch(t) \/ Consume(t)

(***************************************************************************)
(* The scheduler runs every thread, sleeps end, and a batch on the GPU     *)
(* ends.  Nobody is obliged to start threads or to switch works.           *)
(***************************************************************************)
Fairness == /\ WF_vars(SwitchWork)
            /\ \A t \in Threads : WF_vars(Consume(t))

Spec == Init /\ [][Next]_vars /\ Fairness

-----------------------------------------------------------------------------
\* While switch_work assigns oGlobalWork, no mining thread is inside the memcpy
\* that reads it (minethd.cpp:225 against 232): a property of iConsumeCnt alone.
NoTornCopy == spc \in Publishing => \A t \in Threads : pc[t] # "copy"

\* Outside consume_work's memcpy a thread holds, whole, the work whose number it
\* believes it works on, so job numbers and contents never come apart.
HoldsItsJob == \A t \in Threads :
  pc[t] \notin {"none", "copy"} => SameWork(oWork[t], jobs[iJobNo[t] + 1])

\* Every batch is hashed with the input and the target of the job the thread took
\* last: XMRSetJob has loaded it before the loop at minethd.cpp:312 is entered again.
HashesItsJob == \A t \in Threads :
  pc[t] = "run" => device[t] = jobs[iJobNo[t] + 1]

\* Threads that hash the same blob, be it the same job or a resumed one that not
\* all of them have taken yet, start in different 2^24-nonce slices: the resume count
\* is scaled by the number of threads, which is final by then (minethd.h:101-106).
DistinctSlices(since) == \A t, u \in Threads :
  (/\ t # u
   /\ pc[t] = "run" /\ iJobNo[t] >= since
   /\ pc[u] = "run" /\ iJobNo[u] >= since
   /\ device[t].blob = device[u].blob) => start[t] # start[u]

OwnSlices == DistinctSlices(1)

\* The same, the job the threads are constructed with included.
OwnSlicesFromTheStart == DistinctSlices(0)

\* The handshake never loses count: iConsumeCnt is the number of threads that took
\* the current job, or 0 between the reset and the new number (minethd.cpp:226-227).
Took == {t \in Threads : /\ pc[t] \notin {"none", "started"}
                         /\ iJobNo[t] = iGlobalJobNo}
CountsTheThreadsThatTook ==
  iConsumeCnt = IF spc = "bump" THEN 0 ELSE Cardinality(Took)

\* A call of switch_work returns: the wait for iConsumeCnt (minethd.cpp:222) ends
\* whatever the threads are doing when it begins.
SwitchReturns == spc = "wait" ~> spc = "idle"

\* A thread does not go on with an old job: once a job is published each thread
\* holds it or a later one, and is out of consume_work, some time later.
JobIsTaken == \A k \in 1 .. MaxJobs, t \in Threads :
  iGlobalJobNo = k ~> (iJobNo[t] >= k /\ pc[t] \in {"poll", "run"})

(***************************************************************************)
(* The promise: works are broadcast.  The mapping forgets the buffer and   *)
(* the counter: a thread has taken job iJobNo once it has acknowledged it. *)
(***************************************************************************)
Taken  == [t \in Threads |-> IF pc[t] \in {"none", "started"} THEN -1 ELSE iJobNo[t]]

Broadcast == INSTANCE JobBroadcast WITH
  Threads <- Threads, Works <- Works, NoWork <- NoWork,
  jobs <- jobs, taken <- Taken, loaded <- device

ImplementsBroadcast == Broadcast!Spec
=============================================================================
