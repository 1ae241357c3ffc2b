------------------------------- MODULE RunJob -------------------------------
(***************************************************************************)
(* XMRRunJob (gpu.c:997-1107) and the kernels it starts, for one GPU and   *)
(* one job.  cn2 sorts the nonces of a batch into branches by the last two *)
(* bits of their state; an atomic counter behind each branch buffer counts *)
(* them.  Each branch has a kernel of its own for the final hash, which    *)
(* appends the nonces it finds to the output buffer, counted in the same   *)
(* way.  No buffer is ever cleared, only the counters are.                 *)
(*                                                                         *)
(* The command queue is in order, so a command may as well run when it is  *)
(* enqueued; the work-items of a kernel run in any order.  Each call of    *)
(* OpenCL may fail: XMRRunJob returns at once, and is called again.        *)
(*                                                                         *)
(* What hashing finds out about a nonce is chosen beforehand: its branch   *)
(* and whether it is good, its final hash being at most Target.  A final   *)
(* hash by the kernel of another branch finds nothing.                     *)
(***************************************************************************)
EXTENDS Integers, FiniteSets

CONSTANTS Intensity, WorkSize, \* rawIntensity and workSize of the GpuContext
          NumBranches,         \* 4 in the code
          Slots,               \* entries of the output buffer, 0xFF in the code
          CallsMayFail,        \* whether calls of OpenCL may fail
          MaxRuns              \* bound on the calls of XMRRunJob

Branches == 0 .. NumBranches - 1
Items    == 0 .. Intensity - 1
Nonces   == 0 .. MaxRuns * Intensity - 1

ASSUME LaunchAssumption == /\ Intensity \in Nat \ {0} /\ WorkSize \in Nat \ {0}
                           /\ Intensity % WorkSize = 0
ASSUME BufferAssumption == NumBranches \in Nat \ {0} /\ Slots \in Nat \ {0}
ASSUME RunAssumption == MaxRuns \in Nat \ {0} /\ CallsMayFail \in BOOLEAN

VARIABLES
  branchOf, good, \* the branch of each nonce, and which nonces are good
  pc, step,       \* where XMRRunJob is, and its loop counter
  Nonce,          \* GpuContext::Nonce, the global offset of every kernel
  states,         \* the nonce whose state each item's part of the states buffer holds
  branch,         \* Branch0 ...: entries, and the counter behind them
  output,         \* the output buffer: entries, and the counter behind them
  todo,           \* the work-items of the running kernel that are not done
  BranchNonces,   \* the host's copies of the branch counters
  HashOutput,     \* the caller's array, zeroed before each call
  runs,           \* history: the calls so far
  reported        \* history: what the calls that succeeded have returned

hashes == <<branchOf, good>>
device == <<states, branch, output, todo>>
host   == <<Nonce, BranchNonces, HashOutput>>
vars   == <<hashes, pc, step, device, host, runs, reported>>

Window(n)  == n .. n + Intensity - 1
Found(o)   == {o.slot[s] : s \in 0 .. o.counter - 1}
NoOutput   == [slot |-> [s \in 0 .. Slots - 1 |-> 0], counter |-> 0]

HostCalls == {"zeroBranch", "zeroOutput", "cn0", "cn1", "cn2", "readBranch",
              "launchFinal", "readOutput"}

TypeOK ==
  /\ branchOf \in [Nonces -> Branches] /\ good \subseteq Nonces
  /\ pc \in HostCalls \union {"idle", "items", "finalItems", "ok", "failed"}
  /\ step \in 0 .. NumBranches
  /\ Nonce \in 0 .. MaxRuns * Intensity
  /\ states \in [Items -> Nonces]
  /\ branch \in [Branches -> [slot : [Items -> Items], counter : 0 .. Intensity]]
  /\ output \in [slot : [0 .. Slots - 1 -> Nonces], counter : 0 .. Slots]
  /\ todo \subseteq Items
  /\ BranchNonces \in [Branches -> 0 .. Intensity]
  /\ HashOutput \in [slot : [0 .. Slots - 1 -> Nonces], counter : 0 .. Slots]
  /\ runs \in 0 .. MaxRuns /\ reported \subseteq Nonces

\* "Assume we may find up to 0xFF nonces in one run" (gpu.c:650): no batch has more.
SlotsSuffice == \A r \in 0 .. MaxRuns - 1 :
                  Cardinality(good \intersect Window(r * Intensity)) <= Slots

Init ==
  /\ branchOf \in [Nonces -> Branches]
  /\ good \in SUBSET Nonces /\ SlotsSuffice
  /\ pc = "idle" /\ step = 0 /\ Nonce = 0
  /\ states = [i \in Items |-> 0]
  /\ branch = [b \in Branches |-> [slot |-> [i \in Items |-> 0], counter |-> 0]]
  /\ output = NoOutput /\ todo = {}
  /\ BranchNonces = [b \in Branches |-> 0]
  /\ HashOutput = NoOutput
  /\ runs = 0 /\ reported = {}

-----------------------------------------------------------------------------
Call ==
  /\ pc = "idle"
  /\ runs < MaxRuns
  /\ runs' = runs + 1
  /\ BranchNonces' = [b \in Branches |-> 0]
  /\ HashOutput' = NoOutput
  /\ pc' = "zeroBranch" /\ step' = 0
  /\ UNCHANGED <<hashes, Nonce, device, reported>>

\* Mutant of Fail: the nonces of a batch that failed are skipped.
FailAndAdvance ==
  /\ CallsMayFail
  /\ pc \in HostCalls
  /\ Nonce' = Nonce + Intensity
  /\ pc' = "failed"
  /\ UNCHANGED <<hashes, step, device, BranchNonces, HashOutput, runs, reported>>

\* Any call of OpenCL may fail; it changes nothing then.
Fail ==
  /\ CallsMayFail
  /\ pc \in HostCalls
  /\ pc' = "failed"
  /\ UNCHANGED <<hashes, step, device, host, runs, reported>>

\* Mutant of ZeroBranch: the branch counters are not reset.
KeepBranchCounter ==
  /\ pc = "zeroBranch"
  /\ step' = step + 1
  /\ pc' = IF step + 1 < NumBranches THEN "zeroBranch" ELSE "zeroOutput"
  /\ UNCHANGED <<hashes, device, host, runs, reported>>

ZeroBranch ==
  /\ pc = "zeroBranch"
  /\ branch' = [branch EXCEPT ![step].counter = 0]
  /\ step' = step + 1
  /\ pc' = IF step + 1 < NumBranches THEN "zeroBranch" ELSE "zeroOutput"
  /\ UNCHANGED <<hashes, states, output, todo, host, runs, reported>>

ZeroOutput ==
  /\ pc = "zeroOutput"
  /\ output' = [output EXCEPT !.counter = 0]
  /\ pc' = "cn0"
  /\ UNCHANGED <<hashes, step, states, branch, todo, host, runs, reported>>

\* cn0 computes the states of all nonces of the batch; cn1 works on the scratchpads.
RunCn0 ==
  /\ pc = "cn0"
  /\ states' = [i \in Items |-> Nonce + i]
  /\ pc' = "cn1"
  /\ UNCHANGED <<hashes, step, branch, output, todo, host, runs, reported>>

RunCn1 ==
  /\ pc = "cn1"
  /\ pc' = "cn2"
  /\ UNCHANGED <<hashes, step, device, host, runs, reported>>

LaunchCn2 ==
  /\ pc = "cn2"
  /\ todo' = Items
  /\ pc' = "items"
  /\ UNCHANGED <<hashes, step, states, branch, output, host, runs, reported>>

\* atomic_inc hands out the entries, so that items cannot disturb each other.
AppendToBranch(i) ==
  /\ pc = "items" /\ i \in todo
  /\ LET b == branchOf[states[i]]
     IN  branch' = [branch EXCEPT ![b].slot[branch[b].counter] = i, ![b].counter = @ + 1]
  /\ todo' = todo \ {i}
  /\ UNCHANGED <<hashes, pc, step, states, output, host, runs, reported>>

Cn2Ends ==
  /\ pc = "items" /\ todo = {}
  /\ pc' = "readBranch" /\ step' = 0
  /\ UNCHANGED <<hashes, device, host, runs, reported>>

ReadBranch ==
  /\ pc = "readBranch"
  /\ BranchNonces' = [BranchNonces EXCEPT ![step] = branch[step].counter]
  /\ step' = (step + 1) % NumBranches
  /\ pc' = IF step + 1 < NumBranches THEN "readBranch" ELSE "launchFinal"
  /\ UNCHANGED <<hashes, device, Nonce, HashOutput, runs, reported>>

NextFinal == /\ step' = step + 1
             /\ pc' = IF step + 1 < NumBranches THEN "launchFinal" ELSE "readOutput"

SkipFinal ==
  /\ pc = "launchFinal" /\ BranchNonces[step] = 0
  /\ NextFinal
  /\ UNCHANGED <<hashes, device, host, runs, reported>>

\* The number of work-items is the count rounded up to a multiple of WorkSize.
RoundUp(n) == ((n + WorkSize - 1) \div WorkSize) * WorkSize

LaunchFinal ==
  /\ pc = "launchFinal" /\ BranchNonces[step] # 0
  /\ todo' = 0 .. RoundUp(BranchNonces[step]) - 1
  /\ pc' = "finalItems"
  /\ UNCHANGED <<hashes, step, states, branch, output, host, runs, reported>>

\* A work-item beyond the count returns; the others hash what the entry points to.
IsGood(idx) == LET n == states[branch[step].slot[idx]] IN n \in good /\ branchOf[n] = step

\* Mutant of FinalHash: work-items beyond the count do not return.
FinalHashOfAnyItem(idx) ==
  /\ pc = "finalItems" /\ idx \in todo
  /\ output' = IF IsGood(idx)
               THEN [output EXCEPT !.slot[output.counter] = Nonce + branch[step].slot[idx],
                                   !.counter = @ + 1]
               ELSE output
  /\ todo' = todo \ {idx}
  /\ UNCHANGED <<hashes, pc, step, states, branch, host, runs, reported>>

FinalHash(idx) ==
  /\ pc = "finalItems" /\ idx \in todo
  /\ output' = IF idx < BranchNonces[step] /\ IsGood(idx)
               THEN [output EXCEPT !.slot[output.counter] = Nonce + branch[step].slot[idx],
                                   !.counter = @ + 1]
               ELSE output
  /\ todo' = todo \ {idx}
  /\ UNCHANGED <<hashes, pc, step, states, branch, host, runs, reported>>

FinalEnds ==
  /\ pc = "finalItems" /\ todo = {}
  /\ NextFinal
  /\ UNCHANGED <<hashes, device, host, runs, reported>>

ReadOutput ==
  /\ pc = "readOutput"
  /\ HashOutput' = output
  /\ Nonce' = Nonce + Intensity
  /\ reported' = reported \union Found(output)
  /\ pc' = "ok"
  /\ UNCHANGED <<hashes, step, device, BranchNonces, runs>>

Return ==
  /\ pc \in {"ok", "failed"}
  /\ pc' = "idle"
  /\ UNCHANGED <<hashes, step, device, host, runs, reported>>

Next == \/ Call \/ Fail \/ ZeroBranch \/ ZeroOutput \/ RunCn0 \/ RunCn1 \/ LaunchCn2
        \/ Cn2Ends \/ ReadBranch \/ SkipFinal \/ LaunchFinal \/ FinalEnds
        \/ ReadOutput \/ Return
        \/ \E i \in Items : AppendToBranch(i) \/ FinalHash(i)

Spec == Init /\ [][Next]_vars

-----------------------------------------------------------------------------
\* A call that succeeds returns each good nonce of its batch once and nothing else,
\* whatever earlier calls, failed ones included, left in the buffers (gpu.c:1006-1104).
ReturnsTheGoodNonces ==
  pc = "ok" => LET wanted == good \intersect Window(Nonce - Intensity)
               IN  /\ HashOutput.counter = Cardinality(wanted)
                   /\ Found(HashOutput) = wanted

\* What failed is done again: every good nonce before Nonce has been returned, and none
\* from Nonce on has, so none is missed and none is returned a second time
\* (gpu.c:1097-1106).
NoGoodNonceIsMissed == reported = {n \in good : n < Nonce}
=============================================================================
