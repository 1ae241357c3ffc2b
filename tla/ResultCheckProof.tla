-------------------------- MODULE ResultCheckProof --------------------------
(***************************************************************************)
(* A GPU that is right is never blamed for a mismatch, for any number of   *)
(* threads, works, result slots and hashes, and whatever XMRSetJob and     *)
(* XMRRunJob return.                                                       *)
(*                                                                         *)
(* The checker takes no lock, so that nothing it reads need be what was    *)
(* published; but stale and moved record every change made since, and with *)
(* moved empty all of it is.  ResultInv says for each of the checker's     *)
(* steps what it holds in that case.  That the mining thread's work is the *)
(* one the device was given is no part of it: HoldsItsJob of the hand-over *)
(* only says that a thread with something to hash has a job's blob.        *)
(***************************************************************************)
EXTENDS ResultCheck, WorkSwitchProof

\* A nonce whose hash, with the blob on the device, is at most the device's target.
Right(n)      == n.blob = device[me].blob /\ (GpuFaulty \/ n.hash <= Target[device[me].head])
RightArray(a) == \A s \in 1 .. a.count : Right(a.slot[s])

Working == ~Stalled(oWork[me])

MiningThread ==
  /\ bpc \in {"gpu", "publish"} => pc[me] = "run"
  /\ pc[me] = "run" => Working
  /\ pc[me] \in {"copy", "setjob"} => "work" \in stale
  /\ pc[me] = "none" => iResults.count = 0 /\ iResultsReady = 0 /\ cpc = "sleep"

Publication ==
  /\ bpc = "gpu" => results.count = 0
  /\ bpc = "publish" =>
       /\ RightArray(results)
       /\ \A s \in (1 .. Slots) \ left : iResults.slot[s] = results.slot[s]
       /\ CountSlot \notin left => iResults.count = results.count
  /\ stale = {} => RightArray(iResults)
  /\ iResultsReady = 1 /\ stale = {} => Working

\* What the checker holds when nothing has changed since the batch was published.
Checker ==
  /\ cpc # "sleep" => stale \subseteq moved
  /\ cpc = "hash" => i <= Slots
  /\ moved = {} =>
       /\ cpc # "sleep" => Working
       /\ cpc \in {"loop", "hash"} => blob = oWork[me].blob
       /\ cpc = "hash" => Right(nonce)

OnlyAFaultyGpuIsBlamed == "gpu" \in reports => GpuFaulty

ResultInv == ResultTypeOK /\ MiningThread /\ Publication /\ Checker /\ OnlyAFaultyGpuIsBlamed

-----------------------------------------------------------------------------
LEMMA ResultConstants ==
  /\ me \in Threads /\ Slots \in Nat \ {0} /\ CountSlot = Slots + 1
  /\ CountSlot \notin 1 .. Slots /\ 1 .. Slots \subseteq 1 .. CountSlot
  /\ Target \in [Heads -> Nat] /\ GpuHashes \subseteq Hashes /\ Hashes \subseteq Nat
  /\ NoWork.blob \in Blobs /\ Zero \in Nonces /\ ZeroArray \in Arrays
<1>1. /\ me \in Threads /\ Slots \in Nat \ {0} /\ Target \in [Heads -> Nat]
      /\ GpuHashes \subseteq Hashes /\ Hashes \subseteq Nat
  BY ResultAssumption
<1>2. NoWork.blob \in Blobs
  BY DEF Blobs, Works
<1>3. Zero \in Nonces
  BY <1>2 DEF Zero, Nonces
<1>4. ZeroArray \in Arrays
  BY <1>1, <1>3 DEF ZeroArray, Arrays
<1>. QED BY <1>1, <1>2, <1>3, <1>4 DEF CountSlot

\* The steps of this module are steps of the hand-over, or leave it as it is.
LEMMA StepsOfTheSwitch == ResultNext => [Next]_vars
<1>. SUFFICES ASSUME ResultNext PROVE [Next]_vars
  OBVIOUS
<1>. me \in Threads
  BY ResultConstants
<1>1. CASE ElsewhereInSwitch
  BY <1>1 DEF ElsewhereInSwitch, Next, Consume
<1>2. CASE Mine
  BY <1>2 DEF Mine, StartBatch, RunJob, SetReady, NoticeNextJob, CopyResult, Next, Consume
<1>3. CASE Check
  BY <1>3 DEF Check, ExchangeReady, CopyBlobOfWork, NextNonce, EndOfLoop, CheckNonce
<1>. QED BY <1>1, <1>2, <1>3 DEF ResultNext

\* A thread with something to hash holds the blob of a job, and it is somebody's.
LEMMA WorkingHasABlob ==
  ASSUME FullInv, NEW t \in Threads, pc[t] \notin {"none", "copy"}, ~Stalled(oWork[t])
  PROVE  oWork[t].blob # NoWork.blob
<1>1. PICK k \in 0 .. MaxJobs : k = iJobNo[t]
  BY DEF FullInv, Inv, TypeOK
<1>2. SameWork(oWork[t], jobs[k + 1])
  BY <1>1 DEF FullInv, Contents, HoldsItsJob
<1>3. jobs[k + 1] \in Works
  <2>1. k \in {iGlobalJobNo - 1, iGlobalJobNo} /\ iGlobalJobNo \in Nat
    BY <1>1, BoundAssumption DEF FullInv, Inv, TypeOK, Handshake
  <2>2. k + 1 \in 1 .. Len(jobs) /\ jobs \in Seq(Works)
    BY <1>1, <2>1, BoundAssumption DEF FullInv, Inv, TypeOK
  <2>. QED BY <2>2
<1>4. ~Stalled(jobs[k + 1])
  BY <1>2 DEF SameWork, Stalled
<1>5. jobs[k + 1] \in JobWorks /\ oWork[t].blob = jobs[k + 1].blob
  BY <1>2, <1>3, <1>4 DEF Works, Stalled, SameWork
<1>. QED BY <1>5, BlobAssumption

\* What a run of the kernels may leave in the output buffer.
LEMMA OutputsAreArrays ==
  ASSUME FullInv, ResultTypeOK, NEW n \in 0 .. Slots, NEW o \in OutputsOf(n)
  PROVE  o \in Arrays /\ RightArray(o)
<1>1. device[me].blob \in Blobs /\ device[me].head \in Heads
  BY ResultConstants DEF FullInv, Inv, TypeOK
<1>2. PICK f \in [1 .. n -> Found] :
        o = [slot  |-> [s \in 1 .. Slots |->
                          IF s <= n THEN [blob |-> device[me].blob, hash |-> f[s]]
                                    ELSE output.slot[s]],
             count |-> n]
  BY DEF OutputsOf
<1>3. ASSUME NEW s \in 1 .. Slots PROVE o.slot[s] \in Nonces
  <2>1. CASE s <= n
    <3>1. f[s] \in Found
      BY <2>1
    <3>2. f[s] \in Hashes
      BY <3>1, ResultConstants DEF Found
    <3>. QED BY <1>1, <1>2, <2>1, <3>2 DEF Nonces
  <2>2. CASE ~(s <= n)
    BY <1>2, <2>2 DEF ResultTypeOK, Arrays
  <2>. QED BY <2>1, <2>2
<1>4. o \in Arrays
  <2>1. o.slot \in [1 .. Slots -> Nonces]
    BY <1>2, <1>3
  <2>. QED BY <1>2, <2>1 DEF Arrays
<1>5. ASSUME NEW s \in 1 .. n PROVE Right(o.slot[s])
  <2>1. f[s] \in Found /\ s \in 1 .. Slots /\ s <= n
    BY ResultConstants
  <2>2. o.slot[s] = [blob |-> device[me].blob, hash |-> f[s]]
    BY <1>2, <2>1
  <2>. QED BY <2>1, <2>2 DEF Found, Right
<1>. QED BY <1>2, <1>4, <1>5 DEF RightArray

-----------------------------------------------------------------------------
LEMMA InitResult == ResultInit => ResultInv
<1>. SUFFICES ASSUME ResultInit PROVE ResultInv
  OBVIOUS
<1>1. ResultTypeOK
  BY ResultConstants DEF ResultInit, ResultTypeOK
<1>2. ZeroArray.count = 0
  BY DEF ZeroArray
<1>3. MiningThread /\ Publication /\ Checker /\ OnlyAFaultyGpuIsBlamed
  BY <1>2, ResultConstants
     DEF ResultInit, Init, MiningThread, Publication, Checker, OnlyAFaultyGpuIsBlamed,
         RightArray
<1>. QED BY <1>1, <1>3 DEF ResultInv

\* Steps that change nothing of thread me.
LEMMA NotMine ==
  ASSUME ResultInv, UNCHANGED own,
         pc'[me] = pc[me], oWork'[me] = oWork[me], device'[me] = device[me]
  PROVE  ResultInv'
<1>1. ResultTypeOK'
  BY DEF ResultInv, ResultTypeOK, own, batch, shared, checker, history
<1>2. MiningThread' /\ Publication' /\ Checker' /\ OnlyAFaultyGpuIsBlamed'
  BY DEF ResultInv, MiningThread, Publication, Checker, OnlyAFaultyGpuIsBlamed, RightArray,
         Right, Working, Stalled, own, batch, shared, checker, history
<1>. QED BY <1>1, <1>2 DEF ResultInv

\* The hand-over's own steps: those of thread me that touch its work or its device come after
\* NoticeNextJob, or before there is anything to check.
LEMMA SwitchKeepsResults ==
  ASSUME FullInv, ResultInv, ElsewhereInSwitch
  PROVE  ResultInv'
<1>0. me \in Threads /\ TypeOK /\ UNCHANGED own
  BY ResultConstants DEF FullInv, Inv, ElsewhereInSwitch
<1>. USE DEF own, batch, shared, checker, history
<1>1. CASE FinishStarting \/ SwitchWork \/ \E w \in Works : CallSwitchWork(w)
  BY <1>0, <1>1, NotMine
     DEF FinishStarting, SwitchWork, WaitOver, CopyHead, CopyBlob, ResetConsumeCnt, BumpJobNo,
         CallSwitchWork, members
<1>2. ASSUME NEW t \in Threads \ {me},
             \/ CreateThread(t) \/ EnterLoop(t) \/ Acknowledge(t) \/ SetJob(t)
             \/ \E part \in {"head", "blob"} : CopyPart(t, part)
             \/ BeginBatch(t) \/ EndBatch(t) \/ NoticeJob(t)
      PROVE  ResultInv'
  BY <1>0, <1>2, NotMine
     DEF TypeOK, CreateThread, EnterLoop, Acknowledge, SetJob, CopyPart, BeginBatch, EndBatch,
         NoticeJob, XMRSetJob
<1>3. ResultTypeOK'
  BY <1>0 DEF ResultInv, ResultTypeOK
<1>4. CASE CreateThread(me)
  <2>1. pc[me] = "none" /\ pc'[me] = "started"
    BY <1>0, <1>4 DEF CreateThread, TypeOK
  <2>2. MiningThread' /\ Publication' /\ Checker' /\ OnlyAFaultyGpuIsBlamed'
    BY <1>0, <2>1 DEF ResultInv, MiningThread, Publication, Checker, OnlyAFaultyGpuIsBlamed,
       RightArray
  <2>. QED BY <1>3, <2>2 DEF ResultInv
<1>5. CASE EnterLoop(me)
  <2>1. /\ pc[me] = "started" /\ pc'[me] = "poll"
        /\ oWork'[me] = oWork[me] /\ device'[me] = device[me]
    BY <1>0, <1>5 DEF EnterLoop, TypeOK
  <2>2. MiningThread' /\ Publication' /\ Checker' /\ OnlyAFaultyGpuIsBlamed'
    BY <1>0, <2>1 DEF ResultInv, MiningThread, Publication, Checker, OnlyAFaultyGpuIsBlamed,
       RightArray, Right, Working, Stalled
  <2>. QED BY <1>3, <2>2 DEF ResultInv
<1>6. CASE Acknowledge(me)
  <2>1. /\ pc[me] = "copy" /\ pc'[me] \in {"poll", "setjob"}
        /\ oWork'[me] = oWork[me] /\ device'[me] = device[me]
    BY <1>0, <1>6 DEF Acknowledge, TypeOK
  <2>2. MiningThread' /\ Publication' /\ Checker' /\ OnlyAFaultyGpuIsBlamed'
    BY <1>0, <2>1 DEF ResultInv, MiningThread, Publication, Checker, OnlyAFaultyGpuIsBlamed,
       RightArray, Right, Working, Stalled
  <2>. QED BY <1>3, <2>2 DEF ResultInv
<1>7. CASE SetJob(me) \/ \E part \in {"head", "blob"} : CopyPart(me, part)
  <2>1. pc[me] \in {"copy", "setjob"} /\ pc'[me] \in {"copy", "poll"}
    BY <1>0, <1>7 DEF SetJob, CopyPart, TypeOK
  <2>2. "work" \in stale /\ bpc = "idle" /\ (cpc # "sleep" => "work" \in moved)
    BY <2>1 DEF ResultInv, ResultTypeOK, MiningThread, Checker
  <2>3. MiningThread' /\ Publication' /\ Checker' /\ OnlyAFaultyGpuIsBlamed'
    BY <1>0, <2>1, <2>2 DEF ResultInv, MiningThread, Publication, Checker,
       OnlyAFaultyGpuIsBlamed
  <2>. QED BY <1>3, <2>3 DEF ResultInv
<1>. QED BY <1>1, <1>2, <1>4, <1>5, <1>6, <1>7 DEF ElsewhereInSwitch

\* The batches of thread me.
LEMMA BatchKeepsResults ==
  ASSUME FullInv, ResultInv, Mine
  PROVE  ResultInv'
<1>0. me \in Threads /\ TypeOK /\ ResultTypeOK
  BY ResultConstants DEF FullInv, Inv, ResultInv
<1>1. CASE StartBatch
  <2>1. /\ pc[me] = "poll" /\ pc'[me] = "run" /\ Working /\ oWork' = oWork
        /\ device' = device
    BY <1>0, <1>1 DEF StartBatch, BeginBatch, TypeOK, Working
  <2>2. ResultTypeOK'
    BY <1>0, <1>1, ResultConstants DEF StartBatch, ResultTypeOK, shared, checker, history
  <2>3. MiningThread' /\ Publication' /\ Checker' /\ OnlyAFaultyGpuIsBlamed'
    BY <1>0, <1>1, <2>1
       DEF StartBatch, ResultInv, MiningThread, Publication, Checker, OnlyAFaultyGpuIsBlamed,
           RightArray, Right, Working, Stalled, shared, checker, history, ZeroArray
  <2>. QED BY <2>2, <2>3 DEF ResultInv
<1>2. CASE RunJob
  <2>1. output' \in Arrays /\ results' \in Arrays /\ RightArray(results')
    <3>1. CASE XMRRunJob
      <4>1. PICK n \in 0 .. Slots : \E o \in OutputsOf(n) : output' = o /\ results' = o
        BY <3>1 DEF XMRRunJob
      <4>. QED BY <1>0, <4>1, OutputsAreArrays
    <3>2. CASE XMRRunJobFails
      <4>1. results' = results /\ results.count = 0
        BY <1>2, <3>2 DEF RunJob, XMRRunJobFails, ResultInv, Publication
      <4>2. output' = output \/ \E n \in 0 .. Slots : output' \in OutputsOf(n)
        BY <3>2 DEF XMRRunJobFails
      <4>3. output' \in Arrays
        BY <1>0, <4>2, OutputsAreArrays DEF ResultTypeOK
      <4>. QED BY <1>0, <4>1, <4>3 DEF ResultTypeOK, RightArray
    <3>. QED BY <1>2, <3>1, <3>2 DEF RunJob
  <2>2. ResultTypeOK'
    BY <1>0, <1>2, <2>1 DEF RunJob, ResultTypeOK, shared, checker, history
  <2>3. MiningThread' /\ Checker' /\ OnlyAFaultyGpuIsBlamed'
    BY <1>2 DEF RunJob, ResultInv, MiningThread, Checker, OnlyAFaultyGpuIsBlamed, Right,
       Working, Stalled, shared, checker, history, vars, members
  <2>4. Publication'
    <3>1. device' = device /\ oWork' = oWork /\ UNCHANGED <<shared, history>>
      BY <1>2 DEF RunJob, vars, members
    <3>2. (1 .. Slots) \ left' = {} /\ CountSlot \in left' /\ bpc' = "publish"
      BY <1>2, ResultConstants DEF RunJob
    <3>. QED BY <2>1, <3>1, <3>2
             DEF ResultInv, Publication, RightArray, Right, Working, Stalled, shared, history
  <2>. QED BY <2>2, <2>3, <2>4 DEF ResultInv
<1>3. ASSUME NEW s \in 1 .. CountSlot, CopyResult(s) PROVE ResultInv'
  <2>1. /\ UNCHANGED <<pc, oWork, device, bpc, output, results, iResultsReady, checker, reports>>
        /\ bpc = "publish" /\ s \in left /\ left' = left \ {s}
        /\ stale' = stale \union {"results"} /\ moved' = moved \union {"results"}
    BY <1>3 DEF CopyResult, vars, members
  <2>2. /\ iResults' \in Arrays
        /\ s = CountSlot => iResults'.count = results.count /\ iResults'.slot = iResults.slot
        /\ s # CountSlot => /\ iResults'.count = iResults.count
                            /\ iResults'.slot = [iResults.slot EXCEPT ![s] = results.slot[s]]
    <3>1. results \in Arrays /\ iResults \in Arrays
      BY <1>0 DEF ResultTypeOK
    <3>2. CASE s = CountSlot
      <4>1. iResults' = [iResults EXCEPT !.count = results.count]
        BY <1>3, <3>2 DEF CopyResult
      <4>2. iResults' = [slot |-> iResults.slot, count |-> results.count]
        BY <3>1, <4>1 DEF Arrays
      <4>. QED BY <3>1, <3>2, <4>2 DEF Arrays
    <3>3. CASE s # CountSlot
      <4>1. iResults' = [iResults EXCEPT !.slot[s] = results.slot[s]] /\ s \in 1 .. Slots
        BY <1>3, <3>3, ResultConstants DEF CopyResult
      <4>2. iResults' = [slot |-> [iResults.slot EXCEPT ![s] = results.slot[s]],
                         count |-> iResults.count]
        BY <3>1, <4>1 DEF Arrays
      <4>3. [iResults.slot EXCEPT ![s] = results.slot[s]] \in [1 .. Slots -> Nonces]
        BY <3>1, <4>1 DEF Arrays
      <4>. QED BY <3>1, <3>3, <4>2, <4>3 DEF Arrays
    <3>. QED BY <3>2, <3>3
  <2>3. ResultTypeOK'
    BY <1>0, <2>1, <2>2 DEF ResultTypeOK, checker
  <2>4. pc[me] = "run"
    BY <2>1 DEF ResultInv, MiningThread
  <2>5. MiningThread'
    BY <2>1, <2>4 DEF ResultInv, MiningThread, Working, Stalled, checker
  <2>6. Checker' /\ OnlyAFaultyGpuIsBlamed'
    BY <2>1 DEF ResultInv, Checker, OnlyAFaultyGpuIsBlamed, checker
  <2>7. Publication'
    <3>1. RightArray(results)'
      BY <2>1 DEF ResultInv, Publication, RightArray, Right
    <3>2. \A u \in (1 .. Slots) \ left' : iResults'.slot[u] = results'.slot[u]
      <4>. SUFFICES ASSUME NEW u \in (1 .. Slots) \ left'
                    PROVE  iResults'.slot[u] = results.slot[u]
        BY <2>1
      <4>1. iResults.slot \in [1 .. Slots -> Nonces]
        BY <1>0 DEF ResultTypeOK, Arrays
      <4>2. u = s \/ iResults.slot[u] = results.slot[u]
        BY <2>1 DEF ResultInv, Publication
      <4>. QED BY <2>1, <2>2, <4>1, <4>2, ResultConstants
    <3>3. CountSlot \notin left' => iResults'.count = results'.count
      BY <2>1, <2>2 DEF ResultInv, Publication
    <3>. QED BY <2>1, <3>1, <3>2, <3>3 DEF Publication
  <2>. QED BY <2>3, <2>5, <2>6, <2>7 DEF ResultInv
<1>4. CASE SetReady
  <2>1. /\ pc[me] = "run" /\ pc'[me] = "poll" /\ oWork' = oWork /\ device' = device
        /\ bpc = "publish" /\ left = {} /\ UNCHANGED <<results, iResults, checker, moved, reports>>
        /\ bpc' = "idle" /\ stale' = {}
    BY <1>0, <1>4 DEF SetReady, EndBatch, TypeOK
  <2>2. ResultTypeOK'
    BY <1>0, <1>4 DEF SetReady, ResultTypeOK, checker
  <2>3. RightArray(iResults)
    <3>1. /\ RightArray(results) /\ iResults.count = results.count
          /\ \A s \in 1 .. Slots : iResults.slot[s] = results.slot[s]
      BY <2>1 DEF ResultInv, Publication
    <3>2. 1 .. results.count \subseteq 1 .. Slots
      BY <1>0, ResultConstants DEF ResultTypeOK, Arrays
    <3>. QED BY <3>1, <3>2 DEF RightArray
  <2>4. RightArray(iResults)'
    BY <2>1, <2>3 DEF RightArray, Right
  <2>5. MiningThread' /\ Publication' /\ Checker' /\ OnlyAFaultyGpuIsBlamed'
    BY <2>1, <2>4 DEF ResultInv, MiningThread, Publication, Checker, OnlyAFaultyGpuIsBlamed,
       Right, Working, Stalled, checker
  <2>. QED BY <2>2, <2>5 DEF ResultInv
<1>5. CASE NoticeNextJob
  <2>1. /\ pc[me] = "poll" /\ pc'[me] = "copy" /\ oWork' = oWork /\ device' = device
        /\ UNCHANGED <<batch, shared, checker, reports>>
        /\ stale' = stale \union {"work"} /\ moved' = moved \union {"work"}
    BY <1>0, <1>5 DEF NoticeNextJob, NoticeJob, TypeOK
  <2>2. ResultTypeOK'
    BY <1>0, <2>1 DEF ResultTypeOK, batch, shared, checker
  <2>3. MiningThread' /\ Publication' /\ Checker' /\ OnlyAFaultyGpuIsBlamed'
    BY <2>1 DEF ResultInv, MiningThread, Publication, Checker, OnlyAFaultyGpuIsBlamed,
       batch, shared, checker
  <2>. QED BY <2>2, <2>3 DEF ResultInv
<1>. QED BY <1>1, <1>2, <1>3, <1>4, <1>5 DEF Mine

\* The checker.
LEMMA CheckerKeepsResults ==
  ASSUME FullInv, ResultInv, Check
  PROVE  ResultInv'
<1>0. me \in Threads /\ TypeOK /\ ResultTypeOK
  BY ResultConstants DEF FullInv, Inv, ResultInv
<1>. USE DEF vars, members
<1>1. CASE ExchangeReady
  <2>1. ResultTypeOK'
    BY <1>0, <1>1 DEF ExchangeReady, ResultTypeOK, batch
  <2>2. MiningThread' /\ Publication' /\ Checker' /\ OnlyAFaultyGpuIsBlamed'
    BY <1>1 DEF ExchangeReady, ResultInv, MiningThread, Publication, Checker,
       OnlyAFaultyGpuIsBlamed, RightArray, Right, Working, Stalled, batch
  <2>. QED BY <2>1, <2>2 DEF ResultInv
<1>2. CASE CopyBlobOfWork
  <2>1. blob' \in Blobs /\ 1 \in 1 .. CountSlot
    BY <1>0, <1>2, ResultConstants DEF CopyBlobOfWork, TypeOK
  <2>2. ResultTypeOK'
    BY <1>0, <1>2, <2>1 DEF CopyBlobOfWork, ResultTypeOK, batch, shared, history
  <2>3. moved = {} => Working /\ blob' = oWork[me].blob
    BY <1>2 DEF CopyBlobOfWork, ResultInv, Checker, MiningThread, Working
  <2>4. MiningThread' /\ Publication' /\ Checker' /\ OnlyAFaultyGpuIsBlamed'
    BY <1>2, <2>3 DEF CopyBlobOfWork, ResultInv, MiningThread, Publication, Checker,
       OnlyAFaultyGpuIsBlamed, RightArray, Right, Working, Stalled, batch, shared, history
  <2>. QED BY <2>2, <2>4 DEF ResultInv
<1>3. CASE NextNonce
  <2>1. i \in 1 .. iResults.count /\ i \in 1 .. Slots /\ nonce' = iResults.slot[i]
    BY <1>0, <1>3, ResultConstants DEF NextNonce, ResultTypeOK, Arrays
  <2>2. nonce' \in Nonces
    BY <1>0, <2>1 DEF ResultTypeOK, Arrays
  <2>3. ResultTypeOK'
    BY <1>0, <1>3, <2>2 DEF NextNonce, ResultTypeOK, batch, shared, history
  <2>4. moved = {} => Right(nonce)'
    BY <1>3, <2>1 DEF NextNonce, ResultInv, Checker, Publication, RightArray, Right, history
  <2>5. MiningThread' /\ Publication' /\ Checker' /\ OnlyAFaultyGpuIsBlamed'
    BY <1>3, <2>1, <2>4 DEF NextNonce, ResultInv, MiningThread, Publication, Checker,
       OnlyAFaultyGpuIsBlamed, RightArray, Right, Working, Stalled, batch, shared, history
  <2>. QED BY <2>3, <2>5 DEF ResultInv
<1>4. CASE EndOfLoop
  <2>1. ResultTypeOK'
    BY <1>0, <1>4 DEF EndOfLoop, ResultTypeOK, batch, shared, history
  <2>2. MiningThread' /\ Publication' /\ Checker' /\ OnlyAFaultyGpuIsBlamed'
    BY <1>4 DEF EndOfLoop, ResultInv, MiningThread, Publication, Checker,
       OnlyAFaultyGpuIsBlamed, RightArray, Right, Working, Stalled, batch, shared, history
  <2>. QED BY <2>1, <2>2 DEF ResultInv
<1>5. CASE CheckNonce
  <2>1. PICK h \in CpuHashes, t \in Targets :
          reports' = IF h >= t THEN reports \union {Reason(h, t)} ELSE reports
    BY <1>5 DEF CheckNonce
  <2>2. Reason(h, t) \in {"gpu", "target", "results", "work", "job"}
    BY DEF Reason
  <2>3. i + 1 \in 1 .. CountSlot
    BY <1>0, <1>5, ResultConstants DEF CheckNonce, ResultTypeOK, ResultInv, Checker
  <2>4. ResultTypeOK'
    BY <1>0, <1>5, <2>1, <2>2, <2>3 DEF CheckNonce, ResultTypeOK, batch, shared
  <2>5. ASSUME h >= t, Reason(h, t) = "gpu" PROVE GpuFaulty
    <3>1. moved = {} /\ device[me] = oWork[me] /\ h # t
      <4>1. "work" \notin moved /\ moved # {"results"}
        BY <2>5 DEF Reason
      <4>2. moved = {}
        BY <1>0, <4>1 DEF ResultTypeOK
      <4>. QED BY <2>5, <4>2 DEF Reason
    <3>2. Working /\ blob = oWork[me].blob /\ Right(nonce) /\ stale = {}
      BY <1>5, <3>1 DEF CheckNonce, ResultInv, Checker
    <3>3. blob # NoWork.blob
      BY <1>5, <3>2, WorkingHasABlob, ResultConstants
         DEF CheckNonce, ResultInv, MiningThread, Working
    <3>4. h = nonce.hash
      BY <3>1, <3>2, <3>3 DEF CpuHashes, Right
    <3>5. t = Target[device[me].head]
      BY <3>1, <3>2 DEF Targets, Working
    <3>6. h \in Nat /\ t \in Nat
      BY <1>0, <3>4, <3>5, ResultConstants DEF ResultTypeOK, Nonces, TypeOK
    <3>. QED BY <2>5, <3>1, <3>2, <3>4, <3>5, <3>6 DEF Right
  <2>6. OnlyAFaultyGpuIsBlamed'
    BY <2>1, <2>5 DEF ResultInv, OnlyAFaultyGpuIsBlamed
  <2>7. MiningThread' /\ Publication' /\ Checker'
    BY <1>5 DEF CheckNonce, ResultInv, MiningThread, Publication, Checker, RightArray, Right,
       Working, Stalled, batch, shared
  <2>. QED BY <2>4, <2>6, <2>7 DEF ResultInv
<1>. QED BY <1>1, <1>2, <1>3, <1>4, <1>5 DEF Check

-----------------------------------------------------------------------------
\* The hand-over goes on undisturbed, and at every step the checker holds what was published
\* or knows that it does not (minethd.cpp:243-328).
THEOREM CheckerKnows == ResultSpec => [](FullInv /\ ResultInv)
<1>1. ResultInit => FullInv /\ ResultInv
  BY InitInv, InitContents, InitResult DEF ResultInit, FullInv
<1>2. FullInv /\ ResultInv /\ [ResultNext]_rvars => (FullInv /\ ResultInv)'
  <2>. SUFFICES ASSUME FullInv, ResultInv, [ResultNext]_rvars PROVE (FullInv /\ ResultInv)'
    OBVIOUS
  <2>1. [Next]_vars
    BY StepsOfTheSwitch DEF rvars
  <2>2. FullInv'
    BY <2>1, StepInv, StepContents DEF FullInv
  <2>3. ResultInv'
    <3>1. CASE ResultNext
      BY <3>1, SwitchKeepsResults, BatchKeepsResults, CheckerKeepsResults DEF ResultNext
    <3>2. CASE UNCHANGED rvars
      BY <3>2, NotMine DEF rvars, vars, members
    <3>. QED BY <3>1, <3>2
  <2>. QED BY <2>2, <2>3
<1>. QED BY <1>1, <1>2, PTL DEF ResultSpec

\* The loop counter stays inside the result array and its counter, although the mining thread
\* overwrites both under the checker's eyes (minethd.cpp:248-279).
THEOREM ResultTypesAreKept == ResultSpec => []ResultTypeOK
<1>1. ResultInv => ResultTypeOK
  BY DEF ResultInv
<1>. QED BY <1>1, CheckerKnows, PTL

\* A mismatch is reported for a GPU that is right only if the array or the work changed since
\* the batch was published, XMRSetJob failed, or the hash equals the target
\* (minethd.cpp:253-279).
THEOREM OnlyFaultyGpusAreBlamed ==
  ASSUME ~GpuFaulty
  PROVE  ResultSpec => []RightGpuIsNotBlamed
<1>1. ResultInv => RightGpuIsNotBlamed
  BY DEF ResultInv, OnlyAFaultyGpuIsBlamed, RightGpuIsNotBlamed
<1>. QED BY <1>1, CheckerKnows, PTL
=============================================================================
