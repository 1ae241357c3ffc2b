--------------------------- MODULE WorkSwitchProof --------------------------
(***************************************************************************)
(* The hand-over keeps its counters straight and its copies apart, for any *)
(* number of threads, any works and any outcome of XMRSetJob.              *)
(*                                                                         *)
(* NoTornCopy is not inductive: that no thread is inside its memcpy while  *)
(* oGlobalWork is written follows from the wait on iConsumeCnt, provided   *)
(* the counter is the number of threads that took the current job, and     *)
(* that survives a step only if the job numbers are at most one apart and  *)
(* a thread that copies has not taken the job it copies.  Handshake says   *)
(* all this together.                                                      *)
(***************************************************************************)
EXTENDS WorkSwitch, FiniteSetTheorems, TLAPS

Writing == {"copyHead", "copyBlob", "reset", "bump"}

Handshake ==
  /\ iThreadCount = IF spc = "starting" THEN 0 ELSE N
  /\ spc = "starting" => iGlobalJobNo = 0
  /\ spc \notin {"starting", "idle"} => iGlobalJobNo < MaxJobs
  /\ spc # "starting" => \A t \in Threads : pc[t] # "none"
  /\ \A t \in Threads : iJobNo[t] \in {iGlobalJobNo - 1, iGlobalJobNo}
  /\ \A t \in Threads : pc[t] \in {"none", "started"} => iGlobalJobNo = 0
  /\ \A t \in Threads : pc[t] = "copy" => iJobNo[t] # iGlobalJobNo
  /\ spc \in Writing => Took = Threads
  /\ CountsTheThreadsThatTook

Inv == TypeOK /\ Handshake

-----------------------------------------------------------------------------
LEMMA ThreadsFinite == IsFiniteSet(Threads) /\ Cardinality(Threads) = N
<1>1. 0 \in Int /\ N - 1 \in Int /\ ~(0 > N - 1)
  BY ThreadAssumption
<1>2. QED
  BY <1>1, FS_Interval, ThreadAssumption DEF Threads

LEMMA TookFinite ==
  /\ IsFiniteSet(Took)
  /\ Cardinality(Took) \in 0 .. N
  /\ Cardinality(Took) = N => Took = Threads
<1>1. Took \in SUBSET Threads
  BY DEF Took
<1>2. IsFiniteSet(Took) /\ Cardinality(Took) \in Nat
  BY <1>1, ThreadsFinite, FS_Subset, FS_CardinalityType
<1>3. Cardinality(Took) <= N /\ (Cardinality(Took) = N => Took = Threads)
  BY <1>1, ThreadsFinite, FS_Subset
<1>4. QED
  BY <1>2, <1>3, ThreadAssumption

\* A thread that joins the set of those that took the job raises its size by one.
LEMMA OneMoreTook ==
  ASSUME NEW t \in Threads, t \notin Took, Took' = Took \union {t}
  PROVE  Cardinality(Took)' = Cardinality(Took) + 1 /\ Cardinality(Took) + 1 \in 0 .. N
<1>1. Cardinality(Took)' = Cardinality(Took) + 1
  BY TookFinite, FS_AddElement
<1>2. Cardinality(Took) # N
  BY TookFinite
<1>3. QED
  BY <1>1, <1>2, TookFinite, ThreadAssumption

LEMMA StartNonceType ==
  ASSUME NEW r \in Nat, NEW t \in Threads, iThreadCount \in Nat
  PROVE  CalcStartNonce(r, t) \in 0 .. 255
<1>1. r * iThreadCount + t \in Nat
  <2>1. r * iThreadCount \in Nat
    OBVIOUS
  <2>2. QED
    BY <2>1 DEF Threads
<1>2. \A x \in Nat : x % 256 \in 0 .. 255
  OBVIOUS
<1>3. QED
  BY <1>1, <1>2 DEF CalcStartNonce

\* Whatever XMRSetJob does, the device is made of parts of works.
LEMMA XMRSetJobType ==
  ASSUME NEW t \in Threads, NEW w \in [head : Heads, blob : Blobs],
         device \in [Threads -> [head : Heads, blob : Blobs]], XMRSetJob(t, w)
  PROVE  device' \in [Threads -> [head : Heads, blob : Blobs]]
BY DEF XMRSetJob

LEMMA WorksAreRecords == Works \subseteq [head : Heads, blob : Blobs]
BY WorkAssumption DEF Heads, Blobs

-----------------------------------------------------------------------------
LEMMA InitInv == Init => Inv
<1> SUFFICES ASSUME Init PROVE Inv
  OBVIOUS
<1> USE DEF Init
<1>1. NoWork \in [head : Heads, blob : Blobs]
  BY WorksAreRecords DEF Works
<1>2. TypeOK
  BY <1>1, ThreadAssumption, BoundAssumption DEF TypeOK, Publishing
<1>3. Took = {} /\ Cardinality(Took) = 0
  BY FS_EmptySet DEF Took
<1>4. Handshake
  BY <1>3 DEF Handshake, CountsTheThreadsThatTook, Writing
<1>5. QED
  BY <1>2, <1>4 DEF Inv

LEMMA StepInv == Inv /\ [Next]_vars => Inv'
<1> SUFFICES ASSUME Inv, [Next]_vars PROVE Inv'
  OBVIOUS
<1> USE DEF Inv
<1>0. TypeOK /\ Handshake
  OBVIOUS
<1> Took \subseteq Threads
  BY DEF Took
<1>1. CASE FinishStarting
  <2>1. Took' = Took
    BY <1>1 DEF FinishStarting, Took, members
  <2>2. TypeOK'
    BY <1>1, <1>0 DEF FinishStarting, TypeOK, Publishing, members
  <2>3. Handshake'
    BY <1>1, <1>0, <2>1 DEF FinishStarting, Handshake, TypeOK, CountsTheThreadsThatTook,
       Writing, members
  <2>4. QED
    BY <2>2, <2>3
<1>2. CASE WaitOver
  <2>1. Took' = Took
    BY <1>2 DEF WaitOver, Took, globals, members
  <2>2. Took = Threads
    BY <1>2, <1>0, TookFinite, ThreadAssumption
       DEF WaitOver, Handshake, TypeOK, CountsTheThreadsThatTook
  <2>3. TypeOK'
    BY <1>2, <1>0 DEF WaitOver, TypeOK, Publishing, globals, members
  <2>4. Handshake'
    BY <1>2, <1>0, <2>1, <2>2 DEF WaitOver, Handshake, CountsTheThreadsThatTook, Writing,
       globals, members
  <2>5. QED
    BY <2>3, <2>4
<1>3. CASE CopyHead \/ CopyBlob
  <2>1. Took' = Took
    BY <1>3 DEF CopyHead, CopyBlob, Took, members
  <2>2. oGlobalWork' \in [head : Heads, blob : Blobs]
    <3>1. pWork.head \in Heads /\ pWork.blob \in Blobs
      BY <1>0 DEF TypeOK, Heads, Blobs
    <3>2. QED
      BY <1>3, <1>0, <3>1 DEF CopyHead, CopyBlob, TypeOK
  <2>3. TypeOK'
    <3>1. /\ spc' \in {"starting", "idle", "wait", "reset", "bump"} \union Publishing
          /\ UNCHANGED <<iGlobalJobNo, iConsumeCnt, iThreadCount, pWork, jobs, members>>
      BY <1>3 DEF CopyHead, CopyBlob, Publishing
    <3>. QED
      BY <1>0, <2>2, <3>1 DEF TypeOK, Publishing, members
  <2>4. Handshake'
    <3>1. /\ spc \in Writing /\ spc' \in Writing
          /\ UNCHANGED <<iThreadCount, iGlobalJobNo, iConsumeCnt, pc, iJobNo>>
      BY <1>3 DEF CopyHead, CopyBlob, Writing, members
    <3>2. spc \notin {"starting", "idle"} /\ spc' \notin {"starting", "idle"}
      BY <3>1 DEF Writing
    <3>3. spc # "bump" /\ spc' # "bump"
      BY <1>3 DEF CopyHead, CopyBlob
    <3>. QED
      BY <1>0, <2>1, <3>1, <3>2, <3>3 DEF Handshake, CountsTheThreadsThatTook
  <2>5. QED
    BY <2>3, <2>4
<1>4. CASE ResetConsumeCnt
  <2>1. Took' = Took
    BY <1>4 DEF ResetConsumeCnt, Took, members
  <2>2. TypeOK'
    BY <1>4, <1>0, ThreadAssumption DEF ResetConsumeCnt, TypeOK, Publishing, members
  <2>3. Handshake'
    BY <1>4, <1>0, <2>1 DEF ResetConsumeCnt, Handshake, CountsTheThreadsThatTook, Writing,
       members
  <2>4. QED
    BY <2>2, <2>3
<1>5. CASE BumpJobNo
  <2>1. Took = Threads /\ iGlobalJobNo \in Nat /\ iGlobalJobNo < MaxJobs /\ iConsumeCnt = 0
    BY <1>5, <1>0, BoundAssumption
       DEF BumpJobNo, Handshake, TypeOK, Writing, CountsTheThreadsThatTook
  <2>2. \A t \in Threads : iJobNo[t] = iGlobalJobNo /\ pc[t] \notin {"none", "started", "copy"}
    BY <2>1, <1>0 DEF Took, Handshake
  <2>3. Took' = {} /\ Cardinality(Took)' = 0
    <3>1. Took' = {}
      BY <1>5, <2>1, <2>2 DEF BumpJobNo, Took, members
    <3>2. QED
      BY <3>1, FS_EmptySet
  <2>4. TypeOK'
    BY <1>5, <1>0, <2>1, BoundAssumption DEF BumpJobNo, TypeOK, Publishing, members
  <2>5. Handshake'
    BY <1>5, <1>0, <2>1, <2>2, <2>3
       DEF BumpJobNo, Handshake, CountsTheThreadsThatTook, Writing, members
  <2>6. QED
    BY <2>4, <2>5
<1>6. ASSUME NEW w \in Works, CallSwitchWork(w) PROVE Inv'
  <2>1. Took' = Took
    BY <1>6 DEF CallSwitchWork, Took, globals, members
  <2>2. TypeOK'
    BY <1>6, <1>0 DEF CallSwitchWork, TypeOK, Publishing, globals, members
  <2>3. Handshake'
    BY <1>6, <1>0, <2>1 DEF CallSwitchWork, Handshake, CountsTheThreadsThatTook, Writing,
       globals, members
  <2>4. QED
    BY <2>2, <2>3
<1>7. ASSUME NEW t \in Threads, CreateThread(t) PROVE Inv'
  <2>1. Took' = Took
    BY <1>7, <1>0 DEF CreateThread, Took, TypeOK, globals
  <2>2. device' \in [Threads -> [head : Heads, blob : Blobs]]
    BY <1>7, <1>0, XMRSetJobType, WorksAreRecords DEF CreateThread, TypeOK
  <2>3. TypeOK'
    BY <1>7, <1>0, <2>2, WorksAreRecords DEF CreateThread, TypeOK, Publishing, globals, caller
  <2>4. Handshake'
    BY <1>7, <1>0, <2>1
       DEF CreateThread, Handshake, TypeOK, CountsTheThreadsThatTook, Writing, globals, caller
  <2>5. QED
    BY <2>3, <2>4
<1>8. ASSUME NEW t \in Threads, BeginBatch(t) PROVE Inv'
  <2>1. Took' = Took
    BY <1>8, <1>0 DEF BeginBatch, Took, TypeOK, globals
  <2>2. TypeOK'
    BY <1>8, <1>0 DEF BeginBatch, TypeOK, Publishing, globals, caller
  <2>3. Handshake'
    BY <1>8, <1>0, <2>1
       DEF BeginBatch, Handshake, TypeOK, CountsTheThreadsThatTook, Writing, globals, caller
  <2>4. QED
    BY <2>2, <2>3
<1>9. ASSUME NEW t \in Threads, EndBatch(t) PROVE Inv'
  <2>1. Took' = Took
    BY <1>9, <1>0 DEF EndBatch, Took, TypeOK, globals
  <2>2. TypeOK'
    BY <1>9, <1>0 DEF EndBatch, TypeOK, Publishing, globals, caller
  <2>3. Handshake'
    BY <1>9, <1>0, <2>1
       DEF EndBatch, Handshake, TypeOK, CountsTheThreadsThatTook, Writing, globals, caller
  <2>4. QED
    BY <2>2, <2>3
<1>10. ASSUME NEW t \in Threads, EnterLoop(t) PROVE Inv'
  <2>1. iGlobalJobNo = 0 /\ iJobNo[t] = 0 /\ t \notin Took /\ spc \notin Writing
    BY <1>10, <1>0, BoundAssumption DEF EnterLoop, Handshake, TypeOK, Took
  <2>2. Took' = Took \union {t}
    BY <1>10, <1>0, <2>1 DEF EnterLoop, Took, TypeOK
  <2>3. iConsumeCnt = Cardinality(Took)
    BY <1>0, <2>1 DEF Handshake, CountsTheThreadsThatTook, Writing
  <2>4. iConsumeCnt' = Cardinality(Took)' /\ iConsumeCnt' \in 0 .. N
    BY <1>10, <2>1, <2>2, <2>3, OneMoreTook DEF EnterLoop
  <2>5. TypeOK'
    BY <1>10, <1>0, <2>4 DEF EnterLoop, TypeOK, Publishing, caller
  <2>6. Handshake'
    BY <1>10, <1>0, <2>1, <2>4
       DEF EnterLoop, Handshake, TypeOK, CountsTheThreadsThatTook, Writing, caller
  <2>7. QED
    BY <2>5, <2>6
<1>11. ASSUME NEW t \in Threads, NoticeJob(t) PROVE Inv'
  <2>1. Took' = Took
    BY <1>11, <1>0 DEF NoticeJob, Took, TypeOK, globals
  <2>2. TypeOK'
    BY <1>11, <1>0 DEF NoticeJob, TypeOK, Publishing, globals, caller
  <2>3. Handshake'
    BY <1>11, <1>0, <2>1
       DEF NoticeJob, Handshake, TypeOK, CountsTheThreadsThatTook, Writing, globals, caller
  <2>4. QED
    BY <2>2, <2>3
<1>12. ASSUME NEW t \in Threads, NEW part \in {"head", "blob"}, CopyPart(t, part) PROVE Inv'
  <2>1. Took' = Took
    BY <1>12 DEF CopyPart, Took, globals
  <2>2. TypeOK'
    BY <1>12, <1>0 DEF CopyPart, TypeOK, Publishing, globals, caller
  <2>3. Handshake'
    BY <1>12, <1>0, <2>1
       DEF CopyPart, Handshake, CountsTheThreadsThatTook, Writing, globals, caller
  <2>4. QED
    BY <2>2, <2>3
<1>13. ASSUME NEW t \in Threads, Acknowledge(t) PROVE Inv'
  <2>1. /\ iGlobalJobNo \in Nat /\ iJobNo[t] = iGlobalJobNo - 1
        /\ t \notin Took /\ spc \notin Writing
    BY <1>13, <1>0, BoundAssumption DEF Acknowledge, Handshake, TypeOK, Took
  <2>2. iJobNo'[t] = iGlobalJobNo
    BY <1>13, <1>0, <2>1 DEF Acknowledge, TypeOK
  <2>3. Took' = Took \union {t}
    BY <1>13, <1>0, <2>1, <2>2 DEF Acknowledge, Took, TypeOK
  <2>4. iConsumeCnt = Cardinality(Took)
    BY <1>0, <2>1 DEF Handshake, CountsTheThreadsThatTook, Writing
  <2>5. iConsumeCnt' = Cardinality(Took)' /\ iConsumeCnt' \in 0 .. N
    BY <1>13, <2>1, <2>3, <2>4, OneMoreTook DEF Acknowledge
  <2>6. TypeOK'
    BY <1>13, <1>0, <2>1, <2>2, <2>5 DEF Acknowledge, TypeOK, Publishing, caller
  <2>7. Handshake'
    BY <1>13, <1>0, <2>1, <2>2, <2>5
       DEF Acknowledge, Handshake, TypeOK, CountsTheThreadsThatTook, Writing, caller
  <2>8. QED
    BY <2>6, <2>7
<1>14. ASSUME NEW t \in Threads, SetJob(t) PROVE Inv'
  <2>1. Took' = Took
    BY <1>14, <1>0 DEF SetJob, Took, TypeOK, globals
  <2>2. device' \in [Threads -> [head : Heads, blob : Blobs]]
    BY <1>14, <1>0, XMRSetJobType DEF SetJob, TypeOK
  <2>3. CalcStartNonce(ResumeCnt[oWork[t].head], t) \in 0 .. 255
    <3>1. ResumeCnt[oWork[t].head] \in Nat
      BY <1>0, WorkAssumption DEF TypeOK
    <3>2. iThreadCount \in Nat
      BY <1>0, ThreadAssumption DEF TypeOK
    <3>3. QED
      BY <3>1, <3>2, StartNonceType
  <2>4. TypeOK'
    BY <1>14, <1>0, <2>2, <2>3 DEF SetJob, TypeOK, Publishing, globals, caller
  <2>5. Handshake'
    BY <1>14, <1>0, <2>1
       DEF SetJob, Handshake, TypeOK, CountsTheThreadsThatTook, Writing, globals, caller
  <2>6. QED
    BY <2>4, <2>5
<1>15. CASE UNCHANGED vars
  <2>1. Took' = Took
    BY <1>15 DEF vars, Took, globals, members
  <2>2. QED
    BY <1>15, <1>0, <2>1 DEF vars, globals, caller, members, TypeOK, Publishing, Handshake,
       CountsTheThreadsThatTook, Writing
<1>16. QED
  BY <1>1, <1>2, <1>3, <1>4, <1>5, <1>6, <1>7, <1>8, <1>9, <1>10, <1>11, <1>12, <1>13, <1>14, <1>15
     DEF Next, SwitchWork, Consume

-----------------------------------------------------------------------------
\* Every reachable state satisfies the inductive invariant.
THEOREM InvariantHolds == Spec => []Inv
BY InitInv, StepInv, PTL DEF Spec

\* The variables keep their types: the counter stays within the number of threads and
\* job numbers within the calls made (minethd.cpp:176-179).
THEOREM TypeCorrect == Spec => []TypeOK
<1>1. Inv => TypeOK
  BY DEF Inv
<1>2. QED
  BY <1>1, InvariantHolds, PTL

\* The handshake never loses count (minethd.cpp:222-227 against 234 and 294).
THEOREM CountIsRight == Spec => []CountsTheThreadsThatTook
<1>1. Inv => CountsTheThreadsThatTook
  BY DEF Inv, Handshake
<1>2. QED
  BY <1>1, InvariantHolds, PTL

\* oGlobalWork is never written while a thread copies it (minethd.cpp:225 against 232).
THEOREM NoTornCopyHolds == Spec => []NoTornCopy
<1>1. Inv => NoTornCopy
  BY DEF Inv, Handshake, NoTornCopy, Publishing, Writing, Took
<1>2. QED
  BY <1>1, InvariantHolds, PTL

-----------------------------------------------------------------------------
(***************************************************************************)
(* What the threads hold and hash, and that the hand-over implements the   *)
(* broadcast of JobBroadcast.  The argument builds on Inv (who may touch   *)
(* the buffer when) and follows the contents of a work from the caller's   *)
(* argument through the buffer and the thread's copy to the device.  What  *)
(* reaches the device is only known when XMRSetJob does not fail; the      *)
(* theorems about the device assume so.                                    *)
(***************************************************************************)

\* The shared buffer holds the current job, or what was copied of the next one.
BufferContents ==
  /\ spc = "starting" => jobs[1] = pWork
  /\ (spc \notin {"copyBlob", "reset", "bump"} /\ iGlobalJobNo > 0)
        => SameWork(oGlobalWork, jobs[iGlobalJobNo + 1])
  /\ spc = "copyBlob" => oGlobalWork.head = pWork.head
  /\ spc \in {"reset", "bump"} => SameWork(oGlobalWork, pWork)

\* A thread inside its memcpy holds what it has copied so far.
PartialCopy == \A t \in Threads :
  pc[t] = "copy" => /\ "head" \notin todo[t] => oWork[t].head = oGlobalWork.head
                    /\ "blob" \notin todo[t] => oWork[t].blob = oGlobalWork.blob

SetJobOnlyForWork == \A t \in Threads :
  pc[t] = "setjob" => ~Stalled(oWork[t]) /\ iJobNo[t] > 0

Contents == BufferContents /\ PartialCopy /\ HoldsItsJob /\ SetJobOnlyForWork

FullInv == Inv /\ Contents

-----------------------------------------------------------------------------
LEMMA StalledIsNoWork ==
  ASSUME NEW w \in Works
  PROVE  Stalled(w) <=> w = NoWork
BY WorkAssumption DEF Works, Stalled

\* Appending a job does not change the jobs that were published before.
LEMMA OldJobsStay ==
  ASSUME TypeOK, NEW w \in Works, jobs' = Append(jobs, w), NEW k \in 1 .. iGlobalJobNo + 1
  PROVE  jobs'[k] = jobs[k]
BY DEF TypeOK

LEMMA NewJobIsLast ==
  ASSUME TypeOK, NEW w \in Works, jobs' = Append(jobs, w)
  PROVE  jobs'[iGlobalJobNo + 2] = w
BY BoundAssumption DEF TypeOK

LEMMA InitContents == Init => Contents
BY DEF Init, Contents, BufferContents, PartialCopy, HoldsItsJob, SetJobOnlyForWork

LEMMA StepContents == FullInv /\ [Next]_vars => Contents'
<1> SUFFICES ASSUME FullInv, [Next]_vars PROVE Contents'
  OBVIOUS
<1>0. TypeOK /\ Handshake /\ Contents
  BY DEF FullInv, Inv
<1>1. CASE FinishStarting
  BY <1>1, <1>0 DEF FinishStarting, Contents, BufferContents, PartialCopy, HoldsItsJob,
     SetJobOnlyForWork, SameWork, Stalled, Handshake, members
<1>2. CASE WaitOver
  BY <1>2, <1>0 DEF WaitOver, Contents, BufferContents, PartialCopy, HoldsItsJob,
     SetJobOnlyForWork, SameWork, Stalled, members, globals
<1>3. CASE CopyHead
  <2>1. \A t \in Threads : pc[t] # "copy"
    BY <1>3, <1>0 DEF CopyHead, Handshake, Writing, Took
  <2>2. QED
    BY <1>3, <1>0, <2>1 DEF CopyHead, Contents, BufferContents, PartialCopy, HoldsItsJob,
       SetJobOnlyForWork, SameWork, Stalled, members
<1>4. CASE CopyBlob
  <2>1. \A t \in Threads : pc[t] # "copy"
    BY <1>4, <1>0 DEF CopyBlob, Handshake, Writing, Took
  <2>2. QED
    BY <1>4, <1>0, <2>1 DEF CopyBlob, Contents, BufferContents, PartialCopy, HoldsItsJob,
       SetJobOnlyForWork, SameWork, Stalled, members
<1>5. CASE ResetConsumeCnt
  BY <1>5, <1>0 DEF ResetConsumeCnt, Contents, BufferContents, PartialCopy, HoldsItsJob,
     SetJobOnlyForWork, SameWork, Stalled, members
<1>6. CASE BumpJobNo
  <2>1. /\ \A t \in Threads : pc[t] # "copy" /\ iJobNo[t] = iGlobalJobNo
        /\ iGlobalJobNo \in Nat /\ pWork \in Works
    BY <1>6, <1>0, BoundAssumption DEF BumpJobNo, Handshake, Writing, Took, TypeOK
  <2>2. jobs'[iGlobalJobNo' + 1] = pWork /\ jobs'[iGlobalJobNo + 1] = jobs[iGlobalJobNo + 1]
    <3>1. jobs' = Append(jobs, pWork) /\ iGlobalJobNo' + 1 = iGlobalJobNo + 2
      BY <1>6, <2>1 DEF BumpJobNo
    <3>2. jobs'[iGlobalJobNo + 2] = pWork
      BY <1>0, <2>1, <3>1, NewJobIsLast
    <3>3. iGlobalJobNo + 1 \in 1 .. iGlobalJobNo + 1
      BY <2>1
    <3>4. jobs'[iGlobalJobNo + 1] = jobs[iGlobalJobNo + 1]
      BY <1>0, <2>1, <3>1, <3>3, OldJobsStay
    <3>5. QED
      BY <3>1, <3>2, <3>4
  <2>3. BufferContents'
    <3>1. SameWork(oGlobalWork, pWork)
      BY <1>6, <1>0 DEF BumpJobNo, Contents, BufferContents
    <3>2. SameWork(oGlobalWork, pWork)'
      BY <1>6, <3>1 DEF BumpJobNo, SameWork, Stalled
    <3>3. spc' = "idle" /\ pWork' = pWork
      BY <1>6 DEF BumpJobNo
    <3>4. QED
      BY <2>2, <3>2, <3>3 DEF BufferContents
  <2>4. HoldsItsJob'
    BY <1>6, <1>0, <2>1, <2>2 DEF BumpJobNo, Contents, HoldsItsJob, SameWork, Stalled, members
  <2>5. PartialCopy' /\ SetJobOnlyForWork'
    BY <1>6, <1>0, <2>1 DEF BumpJobNo, Contents, PartialCopy, SetJobOnlyForWork, Stalled, members
  <2>6. QED
    BY <2>3, <2>4, <2>5 DEF Contents
<1>7. ASSUME NEW w \in Works, CallSwitchWork(w) PROVE Contents'
  BY <1>7, <1>0 DEF CallSwitchWork, Contents, BufferContents, PartialCopy, HoldsItsJob,
     SetJobOnlyForWork, SameWork, Stalled, members, globals
<1>8. ASSUME NEW t \in Threads, CreateThread(t) PROVE Contents'
  <2>1. iJobNo[t] = 0 /\ jobs[1] = pWork
    BY <1>8, <1>0 DEF CreateThread, Handshake, TypeOK, Contents, BufferContents
  <2>2. HoldsItsJob'
    BY <1>8, <1>0, <2>1 DEF CreateThread, Contents, HoldsItsJob, SameWork, Stalled, TypeOK,
       globals, caller
  <2>3. BufferContents' /\ PartialCopy' /\ SetJobOnlyForWork'
    BY <1>8, <1>0 DEF CreateThread, Contents, BufferContents, PartialCopy, SetJobOnlyForWork,
       SameWork, Stalled, TypeOK, globals, caller
  <2>4. QED
    BY <2>2, <2>3 DEF Contents
<1>9. ASSUME NEW t \in Threads, EnterLoop(t) \/ BeginBatch(t) \/ EndBatch(t) PROVE Contents'
  <2>1. /\ UNCHANGED <<iGlobalJobNo, oGlobalWork, spc, pWork, jobs, todo, iJobNo, oWork>>
        /\ \A u \in Threads : pc'[u] \in {"none", "copy", "setjob"} \/ pc[u] \in {"none", "copy", "setjob"}
                               => pc'[u] = pc[u]
    BY <1>9, <1>0 DEF EnterLoop, BeginBatch, EndBatch, TypeOK, globals, caller
  <2>2. QED
    BY <2>1, <1>0 DEF Contents, BufferContents, PartialCopy, HoldsItsJob, SetJobOnlyForWork,
       SameWork, Stalled
<1>10. ASSUME NEW t \in Threads, NoticeJob(t) PROVE Contents'
  BY <1>10, <1>0 DEF NoticeJob, Contents, BufferContents, PartialCopy, HoldsItsJob,
     SetJobOnlyForWork, SameWork, Stalled, TypeOK, globals, caller
<1>11. ASSUME NEW t \in Threads, NEW part \in {"head", "blob"}, CopyPart(t, part)
       PROVE  Contents'
  <2>1. /\ pc' = pc /\ iJobNo' = iJobNo /\ jobs' = jobs
        /\ \A u \in Threads : u # t => oWork'[u] = oWork[u] /\ todo'[u] = todo[u]
    BY <1>11, <1>0 DEF CopyPart, TypeOK, caller
  <2>2. HoldsItsJob' /\ SetJobOnlyForWork'
    BY <1>11, <1>0, <2>1 DEF CopyPart, Contents, HoldsItsJob, SetJobOnlyForWork, SameWork, Stalled
  <2>3. PartialCopy'
    <3>1. CASE part = "head"
      BY <1>11, <1>0, <2>1, <3>1 DEF CopyPart, Contents, PartialCopy, TypeOK, globals
    <3>2. CASE part = "blob"
      BY <1>11, <1>0, <2>1, <3>2 DEF CopyPart, Contents, PartialCopy, TypeOK, globals
    <3>3. QED
      BY <3>1, <3>2
  <2>4. BufferContents'
    BY <1>11, <1>0 DEF CopyPart, Contents, BufferContents, SameWork, Stalled, globals, caller
  <2>5. QED
    BY <2>2, <2>3, <2>4 DEF Contents
<1>12. ASSUME NEW t \in Threads, Acknowledge(t) PROVE Contents'
  <2>1. /\ iGlobalJobNo \in Nat /\ iGlobalJobNo > 0
        /\ iJobNo[t] = iGlobalJobNo - 1 /\ spc \notin Writing
    BY <1>12, <1>0, BoundAssumption DEF Acknowledge, Handshake, TypeOK, Took
  <2>2. iJobNo'[t] = iGlobalJobNo /\ \A u \in Threads : u # t => iJobNo'[u] = iJobNo[u]
    BY <1>12, <1>0, <2>1 DEF Acknowledge, TypeOK
  <2>3. SameWork(oWork[t], jobs[iGlobalJobNo + 1])
    BY <1>12, <1>0, <2>1 DEF Acknowledge, Contents, BufferContents, PartialCopy, SameWork,
       Stalled, Writing
  <2>4. HoldsItsJob'
    BY <1>12, <1>0, <2>2, <2>3 DEF Acknowledge, Contents, HoldsItsJob, SameWork, Stalled,
       TypeOK, caller
  <2>5. PartialCopy' /\ SetJobOnlyForWork'
    BY <1>12, <1>0, <2>1, <2>2 DEF Acknowledge, Contents, PartialCopy, SetJobOnlyForWork, Stalled,
       TypeOK
  <2>6. BufferContents'
    BY <1>12, <1>0 DEF Acknowledge, Contents, BufferContents, SameWork, Stalled, caller
  <2>7. QED
    BY <2>4, <2>5, <2>6 DEF Contents
<1>13. ASSUME NEW t \in Threads, SetJob(t) PROVE Contents'
  BY <1>13, <1>0 DEF SetJob, Contents, BufferContents, PartialCopy, HoldsItsJob,
     SetJobOnlyForWork, SameWork, Stalled, TypeOK, globals, caller
<1>14. CASE UNCHANGED vars
  BY <1>14, <1>0 DEF vars, globals, caller, members, Contents, BufferContents, PartialCopy,
     HoldsItsJob, SetJobOnlyForWork, SameWork, Stalled
<1>15. QED
  BY <1>1, <1>2, <1>3, <1>4, <1>5, <1>6, <1>7, <1>8, <1>9, <1>10, <1>11, <1>12, <1>13, <1>14
     DEF Next, SwitchWork, Consume

LEMMA FullInvHolds == Spec => []FullInv
<1>1. Init => FullInv
  BY InitInv, InitContents DEF FullInv
<1>2. FullInv /\ [Next]_vars => FullInv'
  BY StepInv, StepContents DEF FullInv
<1>3. QED
  BY <1>1, <1>2, PTL DEF Spec

\* Every thread holds, whole, the job whose number it works on (minethd.cpp:232-233).
THEOREM HoldsItsJobHolds == Spec => []HoldsItsJob
<1>1. FullInv => HoldsItsJob
  BY DEF FullInv, Contents
<1>2. QED
  BY <1>1, FullInvHolds, PTL

-----------------------------------------------------------------------------
(***************************************************************************)
(* What has reached the device.                                            *)
(***************************************************************************)
JobOf(t) == jobs[iJobNo[t] + 1]

Ready(t) == pc[t] \in {"poll", "run"} /\ JobOf(t) # NoWork

DeviceContents == SetJobOutcomes = {"ok"} => \A t \in Threads :
  (pc[t] = "started" \/ Ready(t)) => device[t] = JobOf(t)

SliceContents == \A t \in Threads :
  (Ready(t) /\ iJobNo[t] > 0) => start[t] = (ResumeCnt[JobOf(t).head] * N + t) % 256

RunsOnlyForWork == \A t \in Threads : pc[t] = "run" => ~Stalled(oWork[t])

Loaded == DeviceContents /\ SliceContents /\ RunsOnlyForWork

LoadedInv == FullInv /\ Loaded

\* A job a thread took keeps its content when the next one is published.
LEMMA JobOfStays ==
  ASSUME TypeOK, NEW w \in Works, jobs' = Append(jobs, w), iJobNo' = iJobNo,
         NEW t \in Threads, iJobNo[t] \in {iGlobalJobNo - 1, iGlobalJobNo}
  PROVE  JobOf(t)' = JobOf(t)
<1>1. iJobNo[t] + 1 \in 1 .. iGlobalJobNo + 1
  BY BoundAssumption DEF TypeOK
<1>2. QED
  BY <1>1, OldJobsStay DEF JobOf

\* A thread that holds its job and is not stalled holds it to the last byte.
LEMMA HoldsAllOfIt ==
  ASSUME TypeOK, Handshake, HoldsItsJob, NEW t \in Threads, pc[t] \notin {"none", "copy"}
  PROVE  /\ JobOf(t) \in Works
         /\ Stalled(oWork[t]) <=> JobOf(t) = NoWork
         /\ JobOf(t) # NoWork => oWork[t] = JobOf(t)
<1>1. iJobNo[t] + 1 \in 1 .. Len(jobs) /\ jobs \in Seq(Works)
  <2>1. iJobNo[t] \in {iGlobalJobNo - 1, iGlobalJobNo}
    BY DEF Handshake
  <2>2. iJobNo[t] \in Nat /\ iGlobalJobNo \in Nat /\ Len(jobs) = iGlobalJobNo + 1
    BY BoundAssumption DEF TypeOK
  <2>3. QED
    BY <2>1, <2>2 DEF TypeOK
<1>2. JobOf(t) \in Works
  BY <1>1 DEF JobOf
<1>3. SameWork(oWork[t], JobOf(t))
  BY DEF HoldsItsJob, JobOf
<1>4. Stalled(oWork[t]) <=> JobOf(t) = NoWork
  BY <1>2, <1>3, StalledIsNoWork DEF SameWork, Stalled
<1>5. ASSUME JobOf(t) # NoWork PROVE oWork[t] = JobOf(t)
  <2>1. oWork[t].head = JobOf(t).head /\ oWork[t].blob = JobOf(t).blob
    BY <1>2, <1>3, <1>5, StalledIsNoWork DEF SameWork
  <2>2. oWork[t] \in [head : Heads, blob : Blobs] /\ JobOf(t) \in [head : Heads, blob : Blobs]
    BY <1>2, WorksAreRecords DEF TypeOK
  <2>3. QED
    BY <2>1, <2>2
<1>6. QED
  BY <1>2, <1>4, <1>5

LEMMA InitLoaded == Init => Loaded
BY DEF Init, Loaded, DeviceContents, SliceContents, RunsOnlyForWork, Ready

LEMMA StepLoaded == LoadedInv /\ [Next]_vars => Loaded'
<1> SUFFICES ASSUME LoadedInv, [Next]_vars PROVE Loaded'
  OBVIOUS
<1>0. TypeOK /\ Handshake /\ Contents /\ HoldsItsJob /\ Loaded
  BY DEF LoadedInv, FullInv, Inv, Contents
<1> USE DEF Loaded, DeviceContents, SliceContents, RunsOnlyForWork, Ready
<1>1. CASE FinishStarting \/ WaitOver \/ CopyHead \/ CopyBlob \/ ResetConsumeCnt
           \/ (\E w \in Works : CallSwitchWork(w)) \/ UNCHANGED vars
  <2>1. UNCHANGED <<jobs, members>>
    BY <1>1 DEF FinishStarting, WaitOver, CopyHead, CopyBlob, ResetConsumeCnt, CallSwitchWork,
       vars, caller
  <2>2. QED
    BY <2>1, <1>0 DEF JobOf, Stalled, members
<1>2. CASE BumpJobNo
  <2>1. /\ jobs' = Append(jobs, pWork) /\ pWork \in Works /\ UNCHANGED members
        /\ \A t \in Threads : iJobNo[t] \in {iGlobalJobNo - 1, iGlobalJobNo}
    BY <1>2, <1>0 DEF BumpJobNo, TypeOK, Handshake
  <2>2. \A t \in Threads : JobOf(t)' = JobOf(t)
    BY <2>1, <1>0, JobOfStays DEF members
  <2>3. QED
    BY <2>1, <2>2, <1>0 DEF Stalled, members
<1>3. ASSUME NEW t \in Threads, CreateThread(t) PROVE Loaded'
  <2>1. JobOf(t) = pWork
    <3>1. spc = "starting" /\ iGlobalJobNo = 0 /\ jobs[1] = pWork
      BY <1>3, <1>0 DEF CreateThread, Handshake, Contents, BufferContents
    <3>2. iJobNo[t] \in {iGlobalJobNo - 1, iGlobalJobNo} /\ iJobNo[t] \in Nat
      BY <1>0, BoundAssumption DEF Handshake, TypeOK
    <3>3. QED
      BY <3>1, <3>2 DEF JobOf
  <2>2. \A u \in Threads : JobOf(u)' = JobOf(u)
    BY <1>3 DEF CreateThread, caller, JobOf
  <2>3. SetJobOutcomes = {"ok"} => device' = [device EXCEPT ![t] = pWork]
    BY <1>3 DEF CreateThread, XMRSetJob
  <2>4. /\ pc' = [pc EXCEPT ![t] = "started"] /\ oWork' = [oWork EXCEPT ![t] = pWork]
        /\ UNCHANGED <<iJobNo, start>>
    BY <1>3 DEF CreateThread
  <2>5. DeviceContents'
    BY <2>1, <2>2, <2>3, <2>4, <1>0 DEF TypeOK
  <2>6. SliceContents' /\ RunsOnlyForWork'
    BY <2>2, <2>4, <1>0 DEF TypeOK, Stalled
  <2>7. QED
    BY <2>5, <2>6
<1>4. ASSUME NEW t \in Threads, EnterLoop(t) PROVE Loaded'
  <2>1. iJobNo[t] = 0
    BY <1>4, <1>0, BoundAssumption DEF EnterLoop, Handshake, TypeOK
  <2>2. QED
    BY <1>4, <2>1, <1>0 DEF EnterLoop, TypeOK, Stalled, caller, JobOf
<1>5. ASSUME NEW t \in Threads, BeginBatch(t) PROVE Loaded'
  BY <1>5, <1>0 DEF BeginBatch, TypeOK, Stalled, caller, JobOf
<1>6. ASSUME NEW t \in Threads, EndBatch(t) PROVE Loaded'
  BY <1>6, <1>0 DEF EndBatch, TypeOK, Stalled, caller, JobOf
<1>7. ASSUME NEW t \in Threads, NoticeJob(t) PROVE Loaded'
  BY <1>7, <1>0 DEF NoticeJob, TypeOK, Stalled, caller, JobOf
<1>8. ASSUME NEW t \in Threads, NEW part \in {"head", "blob"}, CopyPart(t, part)
      PROVE  Loaded'
  <2>1. /\ UNCHANGED <<pc, iJobNo, jobs, device, start>>
        /\ pc[t] = "copy" /\ \A u \in Threads : u # t => oWork'[u] = oWork[u]
    BY <1>8, <1>0 DEF CopyPart, TypeOK, caller
  <2>2. QED
    BY <2>1, <1>0 DEF Stalled, JobOf
<1>9. ASSUME NEW t \in Threads, Acknowledge(t) PROVE Loaded'
  <2>1. Stalled(oWork[t]) => JobOf(t)' = NoWork
    <3>1. /\ iGlobalJobNo \in Nat /\ iGlobalJobNo > 0
          /\ iJobNo[t] = iGlobalJobNo - 1 /\ spc \notin Writing
      BY <1>9, <1>0, BoundAssumption DEF Acknowledge, Handshake, TypeOK, Took
    <3>2. SameWork(oWork[t], jobs[iGlobalJobNo + 1])
      BY <1>9, <1>0, <3>1 DEF Acknowledge, Contents, BufferContents, PartialCopy, SameWork,
         Stalled, Writing
    <3>3. JobOf(t)' = jobs[iGlobalJobNo + 1]
      BY <1>9, <1>0, <3>1 DEF Acknowledge, TypeOK, caller, JobOf
    <3>4. jobs[iGlobalJobNo + 1] \in Works
      BY <1>0, <3>1 DEF TypeOK
    <3>5. QED
      BY <3>2, <3>3, <3>4, StalledIsNoWork DEF SameWork, Stalled
  <2>2. \A u \in Threads : u # t => JobOf(u)' = JobOf(u) /\ pc'[u] = pc[u]
    BY <1>9, <1>0 DEF Acknowledge, TypeOK, caller, JobOf
  <2>3. /\ UNCHANGED <<oWork, device, start>>
        /\ \A u \in Threads : u # t => iJobNo'[u] = iJobNo[u]
        /\ pc'[t] = IF Stalled(oWork[t]) THEN "poll" ELSE "setjob"
    BY <1>9, <1>0 DEF Acknowledge, TypeOK
  <2>4. QED
    BY <2>1, <2>2, <2>3, <1>0 DEF Stalled
<1>10. ASSUME NEW t \in Threads, SetJob(t) PROVE Loaded'
  <2>1. pc[t] = "setjob" /\ ~Stalled(oWork[t]) /\ iJobNo[t] > 0
    BY <1>10, <1>0 DEF SetJob, Contents, SetJobOnlyForWork
  <2>2. JobOf(t) # NoWork /\ oWork[t] = JobOf(t)
    BY <2>1, <1>0, HoldsAllOfIt
  <2>3. iThreadCount = N
    <3>1. iJobNo[t] \in {iGlobalJobNo - 1, iGlobalJobNo} /\ iGlobalJobNo \in Nat
      BY <1>0, BoundAssumption DEF Handshake, TypeOK
    <3>2. iGlobalJobNo # 0
      BY <2>1, <3>1
    <3>3. QED
      BY <3>2, <1>0 DEF Handshake
  <2>4. start' = [start EXCEPT ![t] = (ResumeCnt[JobOf(t).head] * N + t) % 256]
    BY <1>10, <2>2, <2>3 DEF SetJob, CalcStartNonce
  <2>5. SetJobOutcomes = {"ok"} => device' = [device EXCEPT ![t] = JobOf(t)]
    BY <1>10, <2>2 DEF SetJob, XMRSetJob
  <2>6. /\ pc' = [pc EXCEPT ![t] = "poll"] /\ UNCHANGED <<iJobNo, oWork, jobs>>
        /\ \A u \in Threads : JobOf(u)' = JobOf(u)
    BY <1>10 DEF SetJob, caller, JobOf
  <2>7. DeviceContents'
    BY <2>5, <2>6, <1>0 DEF TypeOK
  <2>8. SliceContents' /\ RunsOnlyForWork'
    BY <2>4, <2>6, <1>0 DEF TypeOK, Stalled
  <2>9. QED
    BY <2>7, <2>8
<1>11. QED
  BY <1>1, <1>2, <1>3, <1>4, <1>5, <1>6, <1>7, <1>8, <1>9, <1>10 DEF Next, SwitchWork, Consume

LEMMA LoadedInvHolds == Spec => []LoadedInv
<1>1. Init => LoadedInv
  BY InitInv, InitContents, InitLoaded DEF LoadedInv, FullInv
<1>2. LoadedInv /\ [Next]_vars => LoadedInv'
  BY StepInv, StepContents, StepLoaded DEF LoadedInv, FullInv
<1>3. QED
  BY <1>1, <1>2, PTL DEF Spec

\* When XMRSetJob does not fail, every batch runs on the whole of the job its thread took
\* last (minethd.cpp:239 before 312 is reached again).
THEOREM HashesItsJobHolds ==
  ASSUME SetJobOutcomes = {"ok"}
  PROVE  Spec => []HashesItsJob
<1>1. LoadedInv => HashesItsJob
  <2> SUFFICES ASSUME LoadedInv, NEW t \in Threads, pc[t] = "run"
               PROVE  device[t] = jobs[iJobNo[t] + 1]
    BY DEF HashesItsJob
  <2>1. ~Stalled(oWork[t])
    BY DEF LoadedInv, Loaded, RunsOnlyForWork
  <2>2. JobOf(t) # NoWork
    BY <2>1, HoldsAllOfIt DEF LoadedInv, FullInv, Inv, Contents
  <2>3. QED
    BY <2>2 DEF LoadedInv, Loaded, DeviceContents, Ready, JobOf
<1>2. QED
  BY <1>1, LoadedInvHolds, PTL

-----------------------------------------------------------------------------
(***************************************************************************)
(* Nonce slices.  8 bits number a slice, so resume counts are limited.     *)
(***************************************************************************)
SlicesSuffice == \A h \in Heads : (ResumeCnt[h] + 1) * N <= 256

\* While they suffice, resume * threads + thread is one slice per resume and thread.
LEMMA SliceOfThread ==
  ASSUME NEW r \in Nat, NEW s \in Nat, NEW t \in Threads, NEW u \in Threads,
         (r + 1) * N <= 256, (s + 1) * N <= 256,
         (r * N + t) % 256 = (s * N + u) % 256
  PROVE  t = u
<1>1. N \in Nat /\ t \in Nat /\ u \in Nat /\ t < N /\ u < N
  BY ThreadAssumption DEF Threads
<1>2. /\ r * N \in Nat /\ s * N \in Nat
      /\ (r + 1) * N = r * N + N /\ (s + 1) * N = s * N + N
  BY <1>1
<1>3. r * N + t \in 0 .. 255 /\ s * N + u \in 0 .. 255
  BY <1>1, <1>2
<1>4. \A x \in 0 .. 255 : x % 256 = x
  OBVIOUS
<1>5. r * N + t = s * N + u
  BY <1>3, <1>4
\* A resume count of the other that is larger by d moves the slice by d * N >= N.
<1>6. ASSUME NEW a \in Nat, NEW b \in Nat, NEW x \in Nat, NEW y \in Nat,
             x < N, y < N, a * N + x = b * N + y
      PROVE  ~(a < b)
  <2>1. SUFFICES ASSUME a < b PROVE FALSE
    OBVIOUS
  <2>2. PICK d \in Nat : b = a + d /\ d >= 1
    <3>1. b - a \in Nat /\ b = a + (b - a) /\ b - a >= 1
      BY <2>1
    <3>2. QED
      BY <3>1
  <2>3. b * N = a * N + d * N /\ a * N \in Nat /\ d * N \in Nat
    BY <1>1, <2>2
  <2>4. d * N >= N
    <3>1. d * N = (d - 1) * N + N /\ (d - 1) * N \in Nat
      <4>1. d - 1 \in Nat
        BY <2>2
      <4>2. QED
        BY <4>1, <1>1
    <3>2. QED
      BY <3>1, <1>1
  <2>5. QED
    BY <1>1, <1>6, <2>3, <2>4
<1>7. ~(r < s) /\ ~(s < r)
  BY <1>1, <1>5, <1>6
<1>8. QED
  BY <1>1, <1>2, <1>5, <1>7

\* Threads that hash a switched-to job, resumed or not, never share a slice (minethd.h:105).
THEOREM OwnSlicesHolds ==
  ASSUME SlicesSuffice
  PROVE  Spec => []OwnSlices
<1>1. LoadedInv => OwnSlices
  <2> SUFFICES ASSUME LoadedInv, NEW t \in Threads, NEW u \in Threads, t # u,
                      pc[t] = "run", pc[u] = "run", iJobNo[t] > 0, iJobNo[u] > 0
               PROVE  start[t] # start[u]
    <3>1. \A v \in Threads : LoadedInv /\ iJobNo[v] >= 1 => iJobNo[v] > 0
      BY BoundAssumption DEF LoadedInv, FullInv, Inv, TypeOK
    <3>2. QED
      BY <3>1 DEF OwnSlices, DistinctSlices
  <2>1. \A v \in {t, u} : JobOf(v) # NoWork /\ JobOf(v) \in Works
    BY HoldsAllOfIt DEF LoadedInv, FullInv, Inv, Contents, Loaded, RunsOnlyForWork
  <2>2. \A v \in {t, u} : start[v] = (ResumeCnt[JobOf(v).head] * N + v) % 256
    BY <2>1 DEF LoadedInv, Loaded, SliceContents, Ready
  <2>3. \A v \in {t, u} : /\ ResumeCnt[JobOf(v).head] \in Nat
                          /\ (ResumeCnt[JobOf(v).head] + 1) * N <= 256
    BY <2>1, WorkAssumption DEF SlicesSuffice, Heads
  <2>4. QED
    BY <2>2, <2>3, SliceOfThread
<1>2. QED
  BY <1>1, LoadedInvHolds, PTL

-----------------------------------------------------------------------------
(***************************************************************************)
(* The broadcast.                                                          *)
(***************************************************************************)
LEMMA InitBroadcast == Init => Broadcast!Init
BY DEF Init, Broadcast!Init, Taken

LEMMA TakenAfter ==
  ASSUME NEW t \in Threads, pc \in [Threads -> {"none", "started", "poll", "run", "copy", "setjob"}],
         NEW p, p \notin {"none", "started"}, pc' = [pc EXCEPT ![t] = p],
         iJobNo' = iJobNo, pc[t] \notin {"none", "started"}
  PROVE  Taken' = Taken
BY DEF Taken

LEMMA StepBroadcast ==
  ASSUME SetJobOutcomes = {"ok"}, LoadedInv, [Next]_vars
  PROVE  [Broadcast!Next]_(Broadcast!vars)
<1>0. TypeOK /\ Handshake /\ Contents /\ HoldsItsJob
  BY DEF LoadedInv, FullInv, Inv, Contents
<1> USE DEF Broadcast!vars
<1>1. CASE FinishStarting \/ WaitOver \/ CopyHead \/ CopyBlob \/ ResetConsumeCnt
           \/ (\E w \in Works : CallSwitchWork(w)) \/ UNCHANGED vars
  <2>1. UNCHANGED <<jobs, members>>
    BY <1>1 DEF FinishStarting, WaitOver, CopyHead, CopyBlob, ResetConsumeCnt, CallSwitchWork,
       vars, caller
  <2>2. QED
    BY <2>1 DEF members, Taken
<1>2. CASE BumpJobNo
  <2>1. /\ \A t \in Threads : /\ pc[t] \notin {"none", "started"}
                              /\ iJobNo[t] = iGlobalJobNo
        /\ iGlobalJobNo \in Nat /\ pWork \in Works /\ Len(jobs) = iGlobalJobNo + 1
    BY <1>2, <1>0, BoundAssumption DEF BumpJobNo, Handshake, Writing, Took, TypeOK
  <2>2. Broadcast!Publish(pWork)
    <3>1. \A t \in Threads : Taken[t] = Broadcast!Current
      BY <2>1 DEF Taken, Broadcast!Current
    <3>2. jobs' = Append(jobs, pWork) /\ UNCHANGED <<Taken, device>>
      BY <1>2 DEF BumpJobNo, members, Taken
    <3>3. QED
      BY <3>1, <3>2 DEF Broadcast!Publish
  <2>3. QED
    BY <2>1, <2>2 DEF Broadcast!Next
<1>3. ASSUME NEW t \in Threads, CreateThread(t) PROVE Broadcast!Create(t)
  <2>1. jobs[1] = pWork /\ jobs' = jobs
    BY <1>3, <1>0 DEF CreateThread, Contents, BufferContents, caller
  <2>2. device' = [device EXCEPT ![t] = pWork]
    BY <1>3 DEF CreateThread, XMRSetJob
  <2>3. Taken[t] = -1 /\ Taken' = Taken
    BY <1>3, <1>0 DEF CreateThread, Taken, TypeOK
  <2>4. QED
    BY <2>1, <2>2, <2>3 DEF Broadcast!Create
<1>4. ASSUME NEW t \in Threads, EnterLoop(t) PROVE Broadcast!Start(t)
  <2>1. iJobNo[t] = 0
    BY <1>4, <1>0, BoundAssumption DEF EnterLoop, Handshake, TypeOK
  <2>2. Taken[t] = -1 /\ Taken' = [Taken EXCEPT ![t] = 0]
    BY <1>4, <1>0, <2>1 DEF EnterLoop, Taken, TypeOK
  <2>3. QED
    BY <1>4, <2>2 DEF EnterLoop, Broadcast!Start, caller
<1>5. ASSUME NEW t \in Threads, BeginBatch(t) \/ EndBatch(t) \/ NoticeJob(t)
      PROVE  UNCHANGED Broadcast!vars
  <2>1. Taken' = Taken
    BY <1>5, <1>0, TakenAfter DEF BeginBatch, EndBatch, NoticeJob, TypeOK
  <2>2. QED
    BY <1>5, <2>1 DEF BeginBatch, EndBatch, NoticeJob, caller
<1>6. ASSUME NEW t \in Threads, NEW part \in {"head", "blob"}, CopyPart(t, part)
      PROVE  UNCHANGED Broadcast!vars
  BY <1>6 DEF CopyPart, Taken, caller
<1>7. ASSUME NEW t \in Threads, Acknowledge(t) PROVE Broadcast!Take(t)
  <2>1. /\ iGlobalJobNo \in Nat /\ iGlobalJobNo > 0 /\ Len(jobs) = iGlobalJobNo + 1
        /\ iJobNo[t] = iGlobalJobNo - 1
    BY <1>7, <1>0, BoundAssumption DEF Acknowledge, Handshake, TypeOK
  <2>2. Taken[t] = iJobNo[t] /\ Taken' = [Taken EXCEPT ![t] = iJobNo[t] + 1]
    BY <1>7, <1>0 DEF Acknowledge, Taken, TypeOK
  <2>3. Taken[t] \in 0 .. Broadcast!Current - 1
    BY <2>1, <2>2 DEF Broadcast!Current
  <2>4. QED
    BY <1>7, <2>2, <2>3 DEF Acknowledge, Broadcast!Take, caller
<1>8. ASSUME NEW t \in Threads, SetJob(t) PROVE Broadcast!Load(t)
  <2>1. pc[t] = "setjob" /\ ~Stalled(oWork[t]) /\ iJobNo[t] > 0
    BY <1>8, <1>0 DEF SetJob, Contents, SetJobOnlyForWork
  <2>2. JobOf(t) # NoWork /\ oWork[t] = JobOf(t)
    BY <2>1, <1>0, HoldsAllOfIt
  <2>3. device' = [device EXCEPT ![t] = JobOf(t)]
    BY <1>8, <2>2 DEF SetJob, XMRSetJob
  <2>4. Taken[t] = iJobNo[t] /\ Taken' = Taken
    BY <1>8, <1>0, TakenAfter DEF SetJob, Taken, TypeOK
  <2>5. QED
    BY <1>8, <2>1, <2>2, <2>3, <2>4 DEF SetJob, Broadcast!Load, JobOf, caller
<1>9. QED
  BY <1>1, <1>2, <1>3, <1>4, <1>5, <1>6, <1>7, <1>8
     DEF Next, SwitchWork, Consume, Broadcast!Next

\* The unlocked buffer and its counter implement the broadcast: every step of the threads is
\* a step of JobBroadcast or changes nothing it sees (minethd.cpp:182-241).
THEOREM ImplementsBroadcastSafety ==
  ASSUME SetJobOutcomes = {"ok"}
  PROVE  Spec => Broadcast!Safety
<1>1. LoadedInv /\ [Next]_vars => [Broadcast!Next]_(Broadcast!vars)
  BY StepBroadcast
<1>2. QED
  BY <1>1, InitBroadcast, LoadedInvHolds, PTL DEF Spec, Broadcast!Safety
=============================================================================
