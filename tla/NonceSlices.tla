---------------------------- MODULE NonceSlices ----------------------------
(***************************************************************************)
(* The nonces that the threads of a job hash (minethd.h:101-106).  A job   *)
(* is a blob and the number of times it was resumed.  calc_start_nonce     *)
(* gives each thread of each job a slice of its own; GpuContext::Nonce     *)
(* goes through the slice batch by batch, and cn0 writes the nonce over    *)
(* the blob's.                                                             *)
(*                                                                         *)
(* A batch that fails leaves everything as it was.  Threads may be any     *)
(* number of jobs apart: that switch_work waits for all is not used.       *)
(***************************************************************************)
EXTENDS Integers, Sequences

CONSTANTS iThreadCount,
          Byte, Slice,   \* 2^8, and 2^24: the slices of the nonces, and what is in one
          rawIntensity,  \* of each thread, the nonces of a batch
          Jobs,          \* the jobs, in the order in which the threads take them
          HourOfWork     \* 3600 * 4000: no batch is begun on a job after so many nonces

GpuThreads == 0 .. iThreadCount - 1

\* The job that the threads are constructed with does not go through calc_start_nonce.
FirstJob == 1
ResumedJobs == 2 .. Len(Jobs)

ASSUME SizeAssumption == /\ {iThreadCount, Byte, Slice} \subseteq Nat \ {0}
                         /\ rawIntensity \in [GpuThreads -> Nat \ {0}]
ASSUME HourAssumption == /\ HourOfWork \in Nat
                         /\ \A t \in GpuThreads : HourOfWork + rawIntensity[t] - 1 <= Slice
\* "Resume up to 64 threads 4 times": 256 slices.  A job is resumed under a number of its own.
ASSUME JobAssumption ==
  /\ Len(Jobs) \in Nat \ {0}
  /\ \A j \in ResumedJobs : Jobs[j].resume \in Nat /\ (Jobs[j].resume + 1) * iThreadCount <= Byte
  /\ \A j, k \in ResumedJobs :
       Jobs[j].blob = Jobs[k].blob /\ Jobs[j].resume = Jobs[k].resume => j = k

VARIABLES iJobNo,  \* the job each thread works on
          Nonce,   \* GpuContext::Nonce
          done,    \* bound and history: the nonces it has hashed of that job
          inputs   \* history: what cn0 was given

nonceVars == <<iJobNo, Nonce, done, inputs>>

InitNonces ==
  /\ iJobNo = [t \in GpuThreads |-> FirstJob]
  /\ Nonce = [t \in GpuThreads |-> 0]
  /\ done = [t \in GpuThreads |-> 0]
  /\ inputs = {}

\* Mutant of SliceStart: the resume count is not scaled by the number of threads.
SliceStartWithoutScaling(resume, t) == ((resume + t) * Slice) % (Byte * Slice)

\* calc_start_nonce, in 32 bits.
SliceStart(resume, t) == ((resume * iThreadCount + t) * Slice) % (Byte * Slice)

\* The nth hash of a thread's job: 32 bits of the global id go into the nonce, the next 8
\* into the byte behind it.
Input(t, n, gid) ==
  [thread |-> t, job |-> iJobNo[t], nth |-> n, blob |-> Jobs[iJobNo[t]].blob,
   nonce |-> gid % (Byte * Slice), behind |-> (gid \div (Byte * Slice)) % Byte]

HashBatch(t) ==
  /\ done[t] < HourOfWork
  /\ inputs' = inputs \union {Input(t, done[t] + i, Nonce[t] + i) : i \in 0 .. rawIntensity[t] - 1}
  /\ Nonce' = [Nonce EXCEPT ![t] = @ + rawIntensity[t]]
  /\ done' = [done EXCEPT ![t] = @ + rawIntensity[t]]
  /\ UNCHANGED iJobNo

\* Mutant of TakeJob: the slice's start is added to the nonce.
TakeJobOnTop(t) ==
  /\ iJobNo[t] < Len(Jobs)
  /\ iJobNo' = [iJobNo EXCEPT ![t] = @ + 1]
  /\ Nonce' = [Nonce EXCEPT ![t] = @ + SliceStart(Jobs[iJobNo[t] + 1].resume, t)]
  /\ done' = [done EXCEPT ![t] = 0]
  /\ UNCHANGED inputs

TakeJob(t) ==
  /\ iJobNo[t] < Len(Jobs)
  /\ iJobNo' = [iJobNo EXCEPT ![t] = @ + 1]
  /\ Nonce' = [Nonce EXCEPT ![t] = SliceStart(Jobs[iJobNo[t] + 1].resume, t)]
  /\ done' = [done EXCEPT ![t] = 0]
  /\ UNCHANGED inputs

NextNonces == \E t \in GpuThreads : HashBatch(t) \/ TakeJob(t)

SpecNonces == InitNonces /\ [][NextNonces]_nonceVars

-----------------------------------------------------------------------------
\* No nonce of a blob is hashed twice, by two threads, before and after the blob was resumed,
\* or by a thread that stays on a job for an hour: slices neither overlap nor overflow, the
\* last batch included (minethd.h:101-106).
NonceIsHashedOnce ==
  \A x, y \in inputs :
    (/\ {x.job, y.job} \subseteq ResumedJobs
     /\ x.blob = y.blob /\ x.nonce = y.nonce) => x = y

\* Whatever the slice, nothing of the nonce spills into the byte of the blob behind it, which
\* cn0 does not mask for that (cryptonight.cl:518-521).
OnlyTheNonceChanges == \A x \in inputs : x.behind = 0
=============================================================================
