----------------------------- MODULE ResultCheck ----------------------------
(***************************************************************************)
(* The hand-over of results from a mining thread to its cpu_check_thread   *)
(* (minethd.cpp:243-282, 284-328), on top of the hand-over of works: this  *)
(* module adds to WorkSwitch what happens inside a batch of thread me and  *)
(* in that thread's checker.  Nothing of it is shared with other threads.  *)
(*                                                                         *)
(* The checker reads iResults, oWork.bWorkBlob and oWork.iTarget without a *)
(* lock while the mining thread may overwrite them; iResultsReady only     *)
(* says that a batch was published.                                        *)
(*                                                                         *)
(* A nonce in a result array is known by the blob it was found for and by  *)
(* the hash it gives with it.  With any other blob its hash is anything.   *)
(***************************************************************************)
EXTENDS WorkSwitch

CONSTANTS me,           \* the thread whose checker is modelled
          Slots,        \* result slots before the counter, 0xFF in the code
          Hashes,       \* top words of hashes, small integers
          Target,       \* iTarget of each head
          GpuHashes,    \* the hashes, by the CPU, of nonces the GPU reports
          GpuFaulty,    \* whether it reports nonces above the target, too
          RunMayFail    \* whether XMRRunJob may return an error

ASSUME ResultAssumption ==
  /\ me \in Threads /\ Slots \in Nat \ {0} /\ Hashes \subseteq Nat
  /\ Target \in [Heads -> Nat] /\ GpuHashes \subseteq Hashes
  /\ {GpuFaulty, RunMayFail} \subseteq BOOLEAN

\* NoWork.blob is the blob of nobody: a stall work has none (minethd.h:35).
ASSUME BlobAssumption == \A w \in JobWorks : w.blob # NoWork.blob

VARIABLES
  bpc,           \* where thread me is inside a batch
  output,        \* the OutputBuffer of its GPU
  results,       \* the local array XMRRunJob fills
  left,          \* the slots its memcpy to iResults has not copied yet
  iResults, iResultsReady, \* SCheckThreadData
  cpc,           \* where the checker is
  blob, i, nonce, \* the checker's copy of the blob, its loop counter, its nonce
  stale,         \* history: what changed since the last batch was published
  moved,         \* history: the same, for the batch the checker is working on
  reports        \* history: the reasons why a CPU/GPU mismatch was printed

batch   == <<bpc, output, results, left>>
shared  == <<iResults, iResultsReady>>
checker == <<cpc, blob, i, nonce>>
history == <<stale, moved, reports>>
own     == <<batch, shared, checker, history>>
rvars   == <<vars, own>>

CountSlot == Slots + 1
Zero      == [blob |-> NoWork.blob, hash |-> 0]
Nonces    == [blob : Blobs, hash : Hashes \union {0}]
Arrays    == [slot : [1 .. Slots -> Nonces], count : 0 .. Slots]
ZeroArray == [slot |-> [s \in 1 .. Slots |-> Zero], count |-> 0]

ResultTypeOK ==
  /\ bpc \in {"idle", "gpu", "publish"} /\ left \subseteq 1 .. CountSlot
  /\ output \in Arrays /\ results \in Arrays /\ iResults \in Arrays
  /\ iResultsReady \in {0, 1}
  /\ cpc \in {"sleep", "copy", "loop", "hash"}
  /\ blob \in Blobs /\ i \in 1 .. CountSlot /\ nonce \in Nonces
  /\ {stale, moved} \subseteq SUBSET {"results", "work"}
  /\ reports \subseteq {"gpu", "target", "results", "work", "job"}

ResultInit ==
  /\ Init
  /\ bpc = "idle" /\ left = {}
  /\ output = ZeroArray /\ results = ZeroArray
  /\ iResults = ZeroArray /\ iResultsReady = 0
  /\ cpc = "sleep" /\ blob = NoWork.blob /\ i = 1 /\ nonce = Zero
  /\ stale = {} /\ moved = {} /\ reports = {}

-----------------------------------------------------------------------------
(***************************************************************************)
(* A batch of thread me.                                                   *)
(***************************************************************************)
StartBatch ==
  /\ BeginBatch(me)
  /\ bpc' = "gpu"
  /\ results' = ZeroArray
  /\ UNCHANGED <<output, left, shared, checker, history>>

(***************************************************************************)
(* XMRRunJob resets the counter of the output buffer only, so slots behind *)
(* the new counter keep nonces of earlier batches.                         *)
(***************************************************************************)
Found == {h \in GpuHashes : GpuFaulty \/ h <= Target[device[me].head]}

OutputsOf(n) ==
  {[slot  |-> [s \in 1 .. Slots |->
                 IF s <= n THEN [blob |-> device[me].blob, hash |-> f[s]]
                           ELSE output.slot[s]],
    count |-> n] : f \in [1 .. n -> Found]}

XMRRunJob ==
  \E n \in 0 .. Slots : \E o \in OutputsOf(n) : output' = o /\ results' = o

\* An error is not looked at: results stays zero, whatever the kernels did.
XMRRunJobFails ==
  /\ RunMayFail
  /\ \E o \in {output} \union UNION {OutputsOf(n) : n \in 0 .. Slots} : output' = o
  /\ UNCHANGED results

RunJob ==
  /\ bpc = "gpu"
  /\ XMRRunJob \/ XMRRunJobFails
  /\ bpc' = "publish"
  /\ left' = 1 .. CountSlot
  /\ UNCHANGED <<vars, shared, checker, history>>

\* memcpy copies slot by slot in an order of its own
CopyResult(s) ==
  /\ bpc = "publish"
  /\ s \in left
  /\ iResults' = IF s = CountSlot THEN [iResults EXCEPT !.count = results.count]
                 ELSE [iResults EXCEPT !.slot[s] = results.slot[s]]
  /\ left' = left \ {s}
  /\ stale' = stale \union {"results"}
  /\ moved' = moved \union {"results"}
  /\ UNCHANGED <<vars, bpc, output, results, iResultsReady, checker, reports>>

\* Mutant of SetReady: the flag is raised while the array is being copied.
SetReadyEarly ==
  /\ EndBatch(me)
  /\ bpc = "publish"
  /\ iResultsReady' = 1
  /\ bpc' = "idle"
  /\ stale' = {}
  /\ UNCHANGED <<output, results, left, iResults, checker, moved, reports>>

\* Mutant of SetReady: the flag is counted up instead of set.
CountBatches ==
  /\ EndBatch(me)
  /\ bpc = "publish" /\ left = {}
  /\ iResultsReady' = iResultsReady + 1
  /\ bpc' = "idle"
  /\ stale' = {}
  /\ UNCHANGED <<output, results, left, iResults, checker, moved, reports>>

SetReady ==
  /\ EndBatch(me)
  /\ bpc = "publish" /\ left = {}
  /\ iResultsReady' = 1
  /\ bpc' = "idle"
  /\ stale' = {}
  /\ UNCHANGED <<output, results, left, iResults, checker, moved, reports>>

\* From here on consume_work overwrites oWork under the checker's eyes.
NoticeNextJob ==
  /\ NoticeJob(me)
  /\ stale' = stale \union {"work"}
  /\ moved' = moved \union {"work"}
  /\ UNCHANGED <<batch, shared, checker, reports>>

-----------------------------------------------------------------------------
(***************************************************************************)
(* cpu_check_thread of thread me.                                          *)
(***************************************************************************)
ExchangeReady ==
  /\ cpc = "sleep"
  /\ iResultsReady = 1
  /\ iResultsReady' = 0
  /\ cpc' = "copy"
  /\ moved' = stale
  /\ UNCHANGED <<vars, batch, iResults, blob, i, nonce, stale, reports>>

\* Mutant of CopyBlobOfWork: the blob is copied for the first batch only.
CopyFirstBlob ==
  /\ cpc = "copy"
  /\ \/ ~Stalled(oWork[me]) /\ blob' = IF blob = NoWork.blob THEN oWork[me].blob ELSE blob
     \/ (Stalled(oWork[me]) \/ pc[me] = "copy") /\ blob' = NoWork.blob
  /\ i' = 1
  /\ cpc' = "loop"
  /\ UNCHANGED <<vars, batch, shared, nonce, history>>

\* A blob read while it is written, or of a stall work, is nobody's blob.
CopyBlobOfWork ==
  /\ cpc = "copy"
  /\ \/ ~Stalled(oWork[me]) /\ blob' = oWork[me].blob
     \/ (Stalled(oWork[me]) \/ pc[me] = "copy") /\ blob' = NoWork.blob
  /\ i' = 1
  /\ cpc' = "loop"
  /\ UNCHANGED <<vars, batch, shared, nonce, history>>

\* The loop reads the counter anew for every nonce.
NextNonce ==
  /\ cpc = "loop"
  /\ i <= iResults.count
  /\ nonce' = iResults.slot[i]
  /\ cpc' = "hash"
  /\ UNCHANGED <<vars, batch, shared, blob, i, history>>

EndOfLoop ==
  /\ cpc = "loop"
  /\ i > iResults.count
  /\ cpc' = "sleep"
  /\ UNCHANGED <<vars, batch, shared, blob, i, nonce, history>>

\* cryptonight_hash: the hash of the nonce with the blob the checker copied
CpuHashes == IF nonce.blob = blob /\ blob # NoWork.blob THEN {nonce.hash} ELSE Hashes

\* iTarget of a stall work is whatever was in memory
Targets == IF Stalled(oWork[me]) THEN Hashes ELSE {Target[oWork[me].head]}

Reason(h, t) == CASE "work" \in moved -> "work"
                  [] moved = {"results"} -> "results"
                  [] moved = {} /\ device[me] # oWork[me] -> "job"
                  [] moved = {} /\ device[me] = oWork[me] /\ h = t -> "target"
                  [] OTHER -> "gpu"

\* Mutant of CheckNonce: the loop counter is not incremented.
CheckSameNonceAgain ==
  /\ cpc = "hash"
  /\ \E h \in CpuHashes, t \in Targets :
       reports' = IF h >= t THEN reports \union {Reason(h, t)} ELSE reports
  /\ cpc' = "loop"
  /\ UNCHANGED <<vars, batch, shared, blob, i, nonce, stale, moved>>

CheckNonce ==
  /\ cpc = "hash"
  /\ \E h \in CpuHashes, t \in Targets :
       reports' = IF h >= t THEN reports \union {Reason(h, t)} ELSE reports
  /\ i' = i + 1
  /\ cpc' = "loop"
  /\ UNCHANGED <<vars, batch, shared, blob, nonce, stale, moved>>

-----------------------------------------------------------------------------
\* What WorkSwitch does besides, as it is.
ElsewhereInSwitch ==
  /\ \/ FinishStarting \/ SwitchWork
     \/ \E w \in Works : CallSwitchWork(w)
     \/ \E t \in Threads : \/ CreateThread(t) \/ EnterLoop(t)
                           \/ Acknowledge(t) \/ SetJob(t)
                           \/ \E part \in {"head", "blob"} : CopyPart(t, part)
     \/ \E t \in Threads \ {me} : BeginBatch(t) \/ EndBatch(t) \/ NoticeJob(t)
  /\ UNCHANGED own

Mine == \/ StartBatch \/ RunJob \/ SetReady \/ NoticeNextJob
        \/ \E s \in 1 .. CountSlot : CopyResult(s)

Check == ExchangeReady \/ CopyBlobOfWork \/ NextNonce \/ EndOfLoop \/ CheckNonce

ResultNext == ElsewhereInSwitch \/ Mine \/ Check

(***************************************************************************)
(* The scheduler runs the checker, its sleeps end, and so does a hash on   *)
(* the CPU.  Nothing is asked of the mining thread.                        *)
(***************************************************************************)
ResultFairness == WF_rvars(Check)

ResultSpec == ResultInit /\ [][ResultNext]_rvars /\ ResultFairness

-----------------------------------------------------------------------------
\* With a GPU that is right, whatever the checker reports has one of four causes that
\* are not the GPU's: the array or the work changed since the batch was published, the GPU
\* holds another job because XMRSetJob failed, or the hash equals the target, which the
\* kernels accept and the checker rejects (minethd.cpp:239, 253-279).
RightGpuIsNotBlamed == "gpu" \notin reports

\* A mismatch is printed at minethd.cpp:278 as a mismatch between CPU and GPU, but the
\* mining thread may publish the next batch while the checker is at work.
NoMismatchByNextBatch == "results" \notin reports

\* A published batch is picked up although its counter may change while the checker
\* counts up to it (minethd.cpp:248, 257).
BatchIsPickedUp == iResultsReady = 1 ~> iResultsReady = 0

\* A GPU whose every nonce is wrong is found out if the checker goes on getting nonces of it,
\* whichever of its batches are empty, lost, overwritten, or of the work before
\* (minethd.cpp:252-279).  If it does not, the GPU may go on for ever: each wrong batch may be
\* overwritten by an empty one before the checker looks (minethd.cpp:326-327).
WrongGpuIsFoundOut == ([]<><<NextNonce>>_rvars) => <>(reports # {})
=============================================================================
