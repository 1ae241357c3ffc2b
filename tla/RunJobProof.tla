----------------------------- MODULE RunJobProof ----------------------------
(***************************************************************************)
(* XMRRunJob returns each good nonce once, for any intensity, number of    *)
(* branches and of calls, and whatever calls of OpenCL fail.               *)
(*                                                                         *)
(* Neither property is inductive.  What the output buffer holds follows    *)
(* from what the branch buffers hold, and that from the counters having    *)
(* been reset, by this call, before cn2 appended to the buffers: what lies *)
(* beyond a counter is left over from earlier calls and is never read.     *)
(* BatchInv says at each stage of the call what is known of the buffers    *)
(* below their counters; nothing is known of them between two calls.       *)
(***************************************************************************)
EXTENDS RunJob, FiniteSetTheorems, TLAPS

\* The stages of a call, from those where little is known to those where more is.
InCall      == pc \notin {"idle", "ok", "failed"}
Launched    == pc \in {"cn1", "cn2", "items", "readBranch", "launchFinal", "finalItems",
                       "readOutput"}
Sorting     == pc \in {"items", "readBranch", "launchFinal", "finalItems", "readOutput"}
Collecting  == pc \in {"launchFinal", "finalItems", "readOutput"}

\* The entries below the counter are the members of S, each of them once.
Enumerates(buf, S) ==
  /\ buf.counter = Cardinality(S)
  /\ {buf.slot[k] : k \in 0 .. buf.counter - 1} = S
  /\ \A j, k \in 0 .. buf.counter - 1 : buf.slot[j] = buf.slot[k] => j = k

\* Nonce is at the beginning of a batch, and calls are left for this one.
AtABatch == \E r \in 0 .. runs : Nonce = r * Intensity /\ (InCall => r < runs)

StepInRange ==
  /\ pc \in {"zeroBranch", "readBranch", "launchFinal", "finalItems"} => step < NumBranches
  /\ pc = "readOutput" => step = NumBranches

CountersAreReset ==
  /\ pc = "zeroBranch" => \A b \in 0 .. step - 1 : branch[b].counter = 0
  /\ pc \in {"zeroOutput", "cn0", "cn1", "cn2"} => \A b \in Branches : branch[b].counter = 0
  /\ pc \in {"cn0", "cn1", "cn2", "items", "readBranch"} => output.counter = 0

StatesOfTheBatch == Launched => \A i \in Items : states[i] = Nonce + i

\* The items of a branch that cn2 is done with, and the whole branch.
ItemsOf(b)  == {i \in Items : branchOf[Nonce + i] = b}
SortedTo(b) == IF pc = "items" THEN ItemsOf(b) \ todo ELSE ItemsOf(b)

BranchesAreSorted == Sorting => \A b \in Branches : Enumerates(branch[b], SortedTo(b))

CountsAreRead ==
  /\ pc = "readBranch" => \A b \in 0 .. step - 1 : BranchNonces[b] = branch[b].counter
  /\ Collecting => \A b \in Branches : BranchNonces[b] = branch[b].counter

\* The nonces of the branches whose final hashes are done, and of the one being done.
GoodOf(I) == {n \in good : \E i \in I : n = Nonce + i}
Hashed(k) == {branch[step].slot[idx] : idx \in (0 .. BranchNonces[step] - 1) \ k}
Collected ==
  GoodOf({i \in Items : branchOf[Nonce + i] < step}
         \union (IF pc = "finalItems" THEN Hashed(todo) ELSE {}))

OutputIsCollected == Collecting => Enumerates(output, Collected)

BatchInv ==
  /\ AtABatch /\ StepInRange /\ CountersAreReset /\ StatesOfTheBatch
  /\ BranchesAreSorted /\ CountsAreRead /\ OutputIsCollected

Inv == TypeOK /\ SlotsSuffice /\ BatchInv /\ ReturnsTheGoodNonces /\ NoGoodNonceIsMissed

-----------------------------------------------------------------------------
LEMMA Sizes ==
  /\ Intensity \in Nat \ {0} /\ WorkSize \in Nat \ {0} /\ Intensity % WorkSize = 0
  /\ NumBranches \in Nat \ {0} /\ Slots \in Nat \ {0} /\ MaxRuns \in Nat \ {0}
  /\ MaxRuns * Intensity \in Nat \ {0}
<1>1. /\ Intensity \in Nat \ {0} /\ WorkSize \in Nat \ {0} /\ Intensity % WorkSize = 0
      /\ NumBranches \in Nat \ {0} /\ Slots \in Nat \ {0} /\ MaxRuns \in Nat \ {0}
  BY LaunchAssumption, BufferAssumption, RunAssumption
<1>. QED BY <1>1

\* Batches lie side by side.
LEMMA BatchAfterBatch ==
  ASSUME NEW r \in Nat, NEW m \in Nat, r < m
  PROVE  /\ r * Intensity \in Nat
         /\ (r + 1) * Intensity = r * Intensity + Intensity
         /\ r * Intensity + Intensity <= m * Intensity
<1>1. PICK d \in Nat : m = r + 1 + d
  <2>1. m - r - 1 \in Nat OBVIOUS
  <2>. QED BY <2>1, m = r + 1 + (m - r - 1)
<1>2. m * Intensity = r * Intensity + Intensity + d * Intensity BY <1>1, Sizes
<1>3. d * Intensity \in Nat /\ r * Intensity \in Nat BY Sizes
<1>. QED BY <1>2, <1>3, Sizes

\* The nonces of a call's batch are nonces, and there are slots for the good ones.
LEMMA TheBatch ==
  ASSUME TypeOK, AtABatch, SlotsSuffice, InCall
  PROVE  /\ Nonce \in Nat /\ Nonce + Intensity <= MaxRuns * Intensity
         /\ \A i \in Items : Nonce + i \in Nonces
         /\ IsFiniteSet(good \intersect Window(Nonce))
         /\ Cardinality(good \intersect Window(Nonce)) <= Slots
<1>1. PICK r \in 0 .. runs : Nonce = r * Intensity /\ r < runs
  BY DEF AtABatch
<1>2. r \in 0 .. MaxRuns - 1 /\ r < MaxRuns /\ r \in Nat
  BY <1>1, Sizes DEF TypeOK
<1>3. Nonce \in Nat /\ Nonce + Intensity <= MaxRuns * Intensity
  BY <1>1, <1>2, BatchAfterBatch, Sizes
<1>4. \A i \in Items : Nonce + i \in Nonces
  BY <1>3, Sizes DEF Items, Nonces
<1>5. IsFiniteSet(Window(Nonce))
  BY <1>3, Sizes, FS_Interval DEF Window
<1>6. IsFiniteSet(good \intersect Window(Nonce))
  BY <1>5, FS_Subset
<1>7. Cardinality(good \intersect Window(Nonce)) <= Slots
  BY <1>1, <1>2 DEF SlotsSuffice
<1>. QED BY <1>3, <1>4, <1>6, <1>7

\* The work-items of a final kernel are enough, and there are no more than nonces in a batch.
LEMMA EnoughItems ==
  ASSUME NEW n \in 0 .. Intensity
  PROVE  RoundUp(n) \in Nat /\ n <= RoundUp(n) /\ RoundUp(n) <= Intensity
<1>. DEFINE q == (n + WorkSize - 1) \div WorkSize
            m == Intensity \div WorkSize
<1>1. /\ q \in Nat /\ q * WorkSize \in Nat
      /\ q * WorkSize <= n + WorkSize - 1 /\ n + WorkSize - 1 < q * WorkSize + WorkSize
  <2>1. n + WorkSize - 1 \in Nat BY Sizes
  <2>. QED BY <2>1, Sizes
<1>2. m \in Nat /\ Intensity = m * WorkSize
  BY Sizes
<1>. HIDE DEF q, m
<1>3. q <= m
  <2>. SUFFICES ASSUME q > m PROVE FALSE BY <1>1, <1>2
  <2>1. PICK d \in Nat : q = m + 1 + d
    <3>1. q - m - 1 \in Nat BY <1>1, <1>2
    <3>. QED BY <3>1, <1>1, <1>2, q = m + 1 + (q - m - 1)
  <2>2. q * WorkSize = m * WorkSize + WorkSize + d * WorkSize BY <2>1, <1>2, Sizes
  <2>3. d * WorkSize \in Nat BY Sizes
  <2>. QED BY <1>1, <1>2, <2>2, <2>3, Sizes
<1>4. q * WorkSize <= Intensity
  <2>1. PICK d \in Nat : m = q + d
    <3>1. m - q \in Nat BY <1>1, <1>2, <1>3
    <3>. QED BY <3>1, <1>1, <1>2, m = q + (m - q)
  <2>2. m * WorkSize = q * WorkSize + d * WorkSize BY <2>1, <1>1, Sizes
  <2>3. d * WorkSize \in Nat BY Sizes
  <2>. QED BY <1>1, <1>2, <2>2, <2>3
<1>5. n <= q * WorkSize
  BY <1>1, Sizes
<1>. QED BY <1>1, <1>4, <1>5 DEF RoundUp, q

\* What appending an entry at the counter makes of a buffer.
LEMMA AppendEntry ==
  ASSUME NEW M \in Nat, NEW T, NEW buf \in [slot : [0 .. M - 1 -> T], counter : 0 .. M],
         NEW S, IsFiniteSet(S), Enumerates(buf, S),
         NEW x \in T, x \notin S, Cardinality(S) < M,
         NEW new, new = [buf EXCEPT !.slot[buf.counter] = x, !.counter = @ + 1]
  PROVE  /\ new \in [slot : [0 .. M - 1 -> T], counter : 0 .. M]
         /\ Enumerates(new, S \union {x})
<1>1. new = [slot |-> [buf.slot EXCEPT ![buf.counter] = x], counter |-> buf.counter + 1]
  OBVIOUS
<1>2. buf.counter \in 0 .. M - 1 /\ buf.slot \in [0 .. M - 1 -> T]
  BY DEF Enumerates
<1>3. new \in [slot : [0 .. M - 1 -> T], counter : 0 .. M]
  BY <1>1, <1>2
<1>4. Cardinality(S \union {x}) = Cardinality(S) + 1
  BY FS_AddElement
<1>5. /\ new.slot[buf.counter] = x
      /\ \A k \in 0 .. buf.counter - 1 : new.slot[k] = buf.slot[k]
  BY <1>1, <1>2
<1>6. 0 .. new.counter - 1 = (0 .. buf.counter - 1) \union {buf.counter}
  BY <1>1, <1>2
<1>7. {new.slot[k] : k \in 0 .. new.counter - 1} = S \union {x}
  BY <1>5, <1>6 DEF Enumerates
<1>8. \A k \in 0 .. buf.counter - 1 : buf.slot[k] # x
  BY DEF Enumerates
<1>9. \A j, k \in 0 .. new.counter - 1 : new.slot[j] = new.slot[k] => j = k
  BY <1>5, <1>6, <1>8 DEF Enumerates
<1>10. new.counter = Cardinality(S \union {x})
  BY <1>1, <1>4 DEF Enumerates
<1>. QED BY <1>3, <1>7, <1>9, <1>10 DEF Enumerates

\* A buffer whose counter was reset enumerates nothing.
LEMMA NothingYet == ASSUME NEW buf, buf.counter = 0 PROVE Enumerates(buf, {})
BY FS_EmptySet DEF Enumerates

-----------------------------------------------------------------------------
OutputType == [slot : [0 .. Slots - 1 -> Nonces], counter : 0 .. Slots]
BranchType == [slot : [Items -> Items], counter : 0 .. Intensity]

LEMMA EmptyBuffers ==
  /\ NoOutput \in OutputType
  /\ \A o \in OutputType : [o EXCEPT !.counter = 0] \in OutputType
  /\ \A b \in BranchType : [b EXCEPT !.counter = 0] \in BranchType
<1>1. 0 \in Nonces /\ 0 \in 0 .. Slots /\ 0 \in 0 .. Intensity
  BY Sizes DEF Nonces
<1>2. NoOutput \in OutputType
  BY <1>1 DEF NoOutput, OutputType
<1>3. \A o \in OutputType : [o EXCEPT !.counter = 0] \in OutputType
  <2>1. \A o \in OutputType : [o EXCEPT !.counter = 0] = [slot |-> o.slot, counter |-> 0]
    BY DEF OutputType
  <2>. QED BY <1>1, <2>1 DEF OutputType
<1>4. \A b \in BranchType : [b EXCEPT !.counter = 0] \in BranchType
  <2>1. \A b \in BranchType : [b EXCEPT !.counter = 0] = [slot |-> b.slot, counter |-> 0]
    BY DEF BranchType
  <2>. QED BY <1>1, <2>1 DEF BranchType
<1>. QED BY <1>2, <1>3, <1>4

LEMMA InitInv == Init => Inv
<1>. SUFFICES ASSUME Init PROVE Inv
  OBVIOUS
<1>1. 0 \in Nonces /\ 0 \in Items /\ 0 \in 0 .. Intensity /\ 0 \in 0 .. Slots
  BY Sizes DEF Nonces, Items
<1>2. TypeOK
  BY <1>1, Sizes DEF Init, TypeOK, NoOutput, Branches
<1>3. BatchInv
  <2>1. 0 * Intensity = 0 BY Sizes
  <2>. QED
    BY <2>1 DEF Init, BatchInv, AtABatch, InCall, StepInRange, CountersAreReset,
       StatesOfTheBatch, Launched, BranchesAreSorted, Sorting, CountsAreRead, Collecting,
       OutputIsCollected
<1>4. NoGoodNonceIsMissed
  <2>1. \A n \in good : ~(n < 0)
    BY Sizes DEF Init, Nonces
  <2>. QED BY <2>1 DEF Init, NoGoodNonceIsMissed
<1>. QED BY <1>2, <1>3, <1>4 DEF Init, Inv, ReturnsTheGoodNonces

LEMMA StepInv == Inv /\ [Next]_vars => Inv'
<1>. SUFFICES ASSUME Inv, [Next]_vars PROVE Inv'
  OBVIOUS
<1>0. /\ TypeOK /\ SlotsSuffice /\ ReturnsTheGoodNonces /\ NoGoodNonceIsMissed
      /\ AtABatch /\ StepInRange /\ CountersAreReset /\ StatesOfTheBatch
      /\ BranchesAreSorted /\ CountsAreRead /\ OutputIsCollected
  BY DEF Inv, BatchInv
<1>1. CASE Call
  <2>1. TypeOK'
    BY <1>0, <1>1, Sizes, EmptyBuffers, SMTT(30)
       DEF Call, TypeOK, hashes, device, HostCalls, Branches, OutputType
  <2>2. AtABatch'
    BY <1>0, <1>1 DEF Call, AtABatch, TypeOK, InCall
  <2>3. BatchInv'
    BY <1>0, <1>1, <2>2, Sizes
       DEF Call, BatchInv, StepInRange, CountersAreReset, StatesOfTheBatch, Launched,
           BranchesAreSorted, Sorting, CountsAreRead, Collecting, OutputIsCollected
  <2>. QED BY <1>0, <1>1, <2>1, <2>3 DEF Call, Inv, SlotsSuffice, ReturnsTheGoodNonces,
           NoGoodNonceIsMissed, hashes
<1>2. CASE Fail \/ Return
  <2>1. TypeOK'
    BY <1>0, <1>2, SMTT(30) DEF Fail, Return, TypeOK, hashes, device, host, HostCalls
  <2>2. BatchInv'
    BY <1>0, <1>2
       DEF Fail, Return, BatchInv, AtABatch, InCall, HostCalls, StepInRange, CountersAreReset,
           StatesOfTheBatch, Launched, BranchesAreSorted, Sorting, CountsAreRead, Collecting,
           OutputIsCollected, host
  <2>. QED BY <1>0, <1>2, <2>1, <2>2 DEF Fail, Return, Inv, SlotsSuffice,
           ReturnsTheGoodNonces, NoGoodNonceIsMissed, hashes, host
<1>3. CASE ZeroBranch
  <2>1. step \in Branches /\ step + 1 \in 0 .. NumBranches
    BY <1>0, <1>3, Sizes, SMTT(30) DEF ZeroBranch, TypeOK, StepInRange, Branches
  <2>2. TypeOK'
    <3>1. branch' \in [Branches -> BranchType]
      BY <1>0, <1>3, <2>1, EmptyBuffers DEF ZeroBranch, TypeOK, BranchType
    <3>. QED
      BY <1>0, <1>3, <2>1, <3>1
         DEF ZeroBranch, TypeOK, BranchType, hashes, host, HostCalls
  <2>3. AtABatch' /\ StepInRange'
    BY <1>0, <1>3, <2>1, Sizes DEF ZeroBranch, AtABatch, InCall, StepInRange, host, TypeOK
  <2>4. \A b \in 0 .. step : branch'[b].counter = 0
    BY <1>0, <1>3, <2>1 DEF ZeroBranch, CountersAreReset, TypeOK, Branches
  <2>5. CountersAreReset'
    BY <1>3, <2>1, <2>4, Sizes DEF ZeroBranch, CountersAreReset, Branches
  <2>6. BatchInv'
    BY <1>3, <2>3, <2>5
       DEF ZeroBranch, BatchInv, StatesOfTheBatch, Launched, BranchesAreSorted, Sorting,
           CountsAreRead, Collecting, OutputIsCollected
  <2>. QED BY <1>0, <1>3, <2>2, <2>6 DEF ZeroBranch, Inv, SlotsSuffice,
           ReturnsTheGoodNonces, NoGoodNonceIsMissed, hashes, host
<1>4. CASE ZeroOutput
  <2>1. TypeOK'
    BY <1>0, <1>4, EmptyBuffers
       DEF ZeroOutput, TypeOK, OutputType, hashes, host, HostCalls
  <2>2. BatchInv'
    BY <1>0, <1>4
       DEF ZeroOutput, BatchInv, AtABatch, InCall, StepInRange, CountersAreReset,
           StatesOfTheBatch, Launched, BranchesAreSorted, Sorting, CountsAreRead, Collecting,
           OutputIsCollected, host, TypeOK
  <2>. QED BY <1>0, <1>4, <2>1, <2>2 DEF ZeroOutput, Inv, SlotsSuffice,
           ReturnsTheGoodNonces, NoGoodNonceIsMissed, hashes, host
<1>5. CASE RunCn0
  <2>1. InCall
    BY <1>5 DEF RunCn0, InCall
  <2>2. TypeOK'
    BY <1>0, <1>5, <2>1, TheBatch DEF RunCn0, TypeOK, hashes, host, HostCalls
  <2>3. BatchInv'
    BY <1>0, <1>5
       DEF RunCn0, BatchInv, AtABatch, InCall, StepInRange, CountersAreReset,
           StatesOfTheBatch, Launched, BranchesAreSorted, Sorting, CountsAreRead, Collecting,
           OutputIsCollected, host
  <2>. QED BY <1>0, <1>5, <2>2, <2>3 DEF RunCn0, Inv, SlotsSuffice,
           ReturnsTheGoodNonces, NoGoodNonceIsMissed, hashes, host
<1>6. CASE RunCn1
  <2>1. TypeOK'
    BY <1>0, <1>6 DEF RunCn1, TypeOK, hashes, device, host, HostCalls
  <2>2. BatchInv'
    BY <1>0, <1>6
       DEF RunCn1, BatchInv, AtABatch, InCall, StepInRange, CountersAreReset,
           StatesOfTheBatch, Launched, BranchesAreSorted, Sorting, CountsAreRead, Collecting,
           OutputIsCollected, host, device
  <2>. QED BY <1>0, <1>6, <2>1, <2>2 DEF RunCn1, Inv, SlotsSuffice,
           ReturnsTheGoodNonces, NoGoodNonceIsMissed, hashes, host
<1>7. CASE LaunchCn2
  <2>1. TypeOK'
    BY <1>0, <1>7 DEF LaunchCn2, TypeOK, hashes, host, HostCalls
  <2>2. \A b \in Branches : branch[b].counter = 0 /\ SortedTo(b)' = {}
    BY <1>0, <1>7 DEF LaunchCn2, CountersAreReset, SortedTo, ItemsOf
  <2>3. BranchesAreSorted'
    BY <1>7, <2>2, NothingYet DEF LaunchCn2, BranchesAreSorted
  <2>4. BatchInv'
    BY <1>0, <1>7, <2>3
       DEF LaunchCn2, BatchInv, AtABatch, InCall, StepInRange, CountersAreReset,
           StatesOfTheBatch, Launched, CountsAreRead, Collecting, OutputIsCollected, host
  <2>. QED BY <1>0, <1>7, <2>1, <2>4 DEF LaunchCn2, Inv, SlotsSuffice,
           ReturnsTheGoodNonces, NoGoodNonceIsMissed, hashes, host
<1>8. ASSUME NEW i \in Items, AppendToBranch(i) PROVE Inv'
  <2>. DEFINE b == branchOf[states[i]]
  <2>1. InCall /\ Launched /\ Sorting
    BY <1>8 DEF AppendToBranch, InCall, Launched, Sorting
  <2>2. /\ states[i] = Nonce + i /\ Nonce + i \in Nonces /\ b \in Branches
        /\ i \in ItemsOf(b) /\ i \notin SortedTo(b)
    <3>1. states[i] = Nonce + i
      BY <1>0, <2>1 DEF StatesOfTheBatch
    <3>2. Nonce + i \in Nonces
      BY <1>0, <2>1, TheBatch
    <3>. QED BY <1>0, <1>8, <3>1, <3>2 DEF AppendToBranch, TypeOK, ItemsOf, SortedTo
  <2>3. IsFiniteSet(Items) /\ Cardinality(Items) = Intensity
    BY Sizes, FS_Interval DEF Items
  <2>4. IsFiniteSet(SortedTo(b)) /\ Cardinality(SortedTo(b)) < Intensity
    <3>1. SortedTo(b) \subseteq Items \ {i}
      BY <2>2 DEF SortedTo, ItemsOf
    <3>2. IsFiniteSet(Items \ {i}) /\ Cardinality(Items \ {i}) = Intensity - 1
      BY <2>3, FS_RemoveElement
    <3>3. /\ IsFiniteSet(SortedTo(b))
          /\ Cardinality(SortedTo(b)) <= Cardinality(Items \ {i})
      BY <3>1, <3>2, FS_Subset
    <3>4. Cardinality(SortedTo(b)) \in Nat
      BY <3>3, FS_CardinalityType
    <3>. QED BY <3>2, <3>3, <3>4, Sizes
  <2>5. /\ branch'[b] = [branch[b] EXCEPT !.slot[branch[b].counter] = i, !.counter = @ + 1]
        /\ \A c \in Branches : c # b => branch'[c] = branch[c]
        /\ DOMAIN branch' = Branches
        /\ branch' = [branch EXCEPT ![b] = branch'[b]]
    <3>. DEFINE new == [branch[b] EXCEPT !.slot[branch[b].counter] = i, !.counter = @ + 1]
    <3>1. branch' = [branch EXCEPT ![b] = new]
      BY <1>8 DEF AppendToBranch
    <3>. HIDE DEF new
    <3>2. /\ branch'[b] = new /\ DOMAIN branch' = Branches
          /\ \A c \in Branches : c # b => branch'[c] = branch[c]
      BY <1>0, <2>2, <3>1 DEF TypeOK
    <3>. QED BY <3>1, <3>2 DEF new
  <2>6. branch[b] \in [slot : [0 .. Intensity - 1 -> Items], counter : 0 .. Intensity]
    BY <1>0, <2>2 DEF TypeOK, Items
  <2>7. Enumerates(branch[b], SortedTo(b))
    BY <1>0, <2>1, <2>2 DEF BranchesAreSorted
  <2>8. /\ branch'[b] \in [slot : [0 .. Intensity - 1 -> Items], counter : 0 .. Intensity]
        /\ Enumerates(branch'[b], SortedTo(b) \union {i})
    <3>. DEFINE buf == branch[b]
                S == SortedTo(b)
                new == branch'[b]
    <3>1. /\ buf \in [slot : [0 .. Intensity - 1 -> Items], counter : 0 .. Intensity]
          /\ IsFiniteSet(S) /\ Enumerates(buf, S) /\ i \notin S /\ Cardinality(S) < Intensity
          /\ new = [buf EXCEPT !.slot[buf.counter] = i, !.counter = @ + 1]
          /\ Intensity \in Nat
      BY <2>2, <2>4, <2>5, <2>6, <2>7, Sizes
    <3>. HIDE DEF buf, S, new
    <3>2. /\ new \in [slot : [0 .. Intensity - 1 -> Items], counter : 0 .. Intensity]
          /\ Enumerates(new, S \union {i})
      BY <3>1, AppendEntry
    <3>. QED BY <3>2 DEF buf, S, new
  <2>9. branch' \in [Branches -> [slot : [Items -> Items], counter : 0 .. Intensity]]
    BY <1>0, <2>5, <2>8 DEF TypeOK, Items
  <2>10. TypeOK'
    BY <1>0, <1>8, <2>9 DEF AppendToBranch, TypeOK, hashes, host
  <2>11. \A c \in Branches :
           SortedTo(c)' = IF c = b THEN SortedTo(c) \union {i} ELSE SortedTo(c)
    BY <1>8, <2>2 DEF AppendToBranch, SortedTo, ItemsOf, hashes, host
  <2>12. BranchesAreSorted'
    <3>1. ASSUME NEW c \in Branches PROVE Enumerates(branch[c], SortedTo(c))'
      <4>1. CASE c = b
        BY <2>8, <2>11, <4>1
      <4>2. CASE c # b
        BY <1>0, <2>1, <2>5, <2>11, <4>2 DEF BranchesAreSorted
      <4>. QED BY <4>1, <4>2
    <3>. QED BY <3>1 DEF BranchesAreSorted
  <2>13. BatchInv'
    BY <1>0, <1>8, <2>12
       DEF AppendToBranch, BatchInv, AtABatch, InCall, StepInRange, CountersAreReset,
           StatesOfTheBatch, Launched, CountsAreRead, Collecting, OutputIsCollected, host
  <2>. QED BY <1>0, <1>8, <2>10, <2>13 DEF AppendToBranch, Inv, SlotsSuffice,
           ReturnsTheGoodNonces, NoGoodNonceIsMissed, hashes, host
<1>9. CASE Cn2Ends
  <2>1. TypeOK'
    BY <1>0, <1>9, Sizes DEF Cn2Ends, TypeOK, hashes, device, host, HostCalls
  <2>2. \A b \in Branches : SortedTo(b)' = SortedTo(b)
    BY <1>9 DEF Cn2Ends, SortedTo, ItemsOf, hashes, host
  <2>3. BranchesAreSorted'
    BY <1>0, <1>9, <2>2 DEF Cn2Ends, BranchesAreSorted, Sorting, device
  <2>4. BatchInv'
    BY <1>0, <1>9, <2>3, Sizes
       DEF Cn2Ends, BatchInv, AtABatch, InCall, StepInRange, CountersAreReset,
           StatesOfTheBatch, Launched, CountsAreRead, Collecting, OutputIsCollected, host, device
  <2>. QED BY <1>0, <1>9, <2>1, <2>4 DEF Cn2Ends, Inv, SlotsSuffice,
           ReturnsTheGoodNonces, NoGoodNonceIsMissed, hashes, host
<1>10. CASE ReadBranch
  <2>1. step \in Branches /\ branch[step].counter \in 0 .. Intensity
    BY <1>0, <1>10, Sizes DEF ReadBranch, TypeOK, StepInRange, Branches
  <2>2. step' = IF step + 1 < NumBranches THEN step + 1 ELSE 0
    BY <1>10, <2>1, Sizes DEF ReadBranch, Branches
  <2>3. TypeOK'
    <3>1. BranchNonces' \in [Branches -> 0 .. Intensity]
      BY <1>0, <1>10, <2>1 DEF ReadBranch, TypeOK
    <3>2. step' \in 0 .. NumBranches
      BY <2>1, <2>2, Sizes DEF Branches
    <3>. QED
      BY <1>0, <1>10, <3>1, <3>2 DEF ReadBranch, TypeOK, hashes, device, HostCalls
  <2>4. AtABatch' /\ StepInRange'
    BY <1>0, <1>10, <2>1, <2>2, Sizes
       DEF ReadBranch, AtABatch, InCall, StepInRange, Branches
  <2>5. \A b \in 0 .. step : BranchNonces'[b] = branch[b].counter
    <3>1. \A b \in 0 .. step : b = step \/ b \in 0 .. step - 1
      BY <2>1 DEF Branches
    <3>2. \A b \in 0 .. step - 1 : b \in Branches /\ BranchNonces[b] = branch[b].counter
      BY <1>0, <1>10, <2>1, Sizes DEF ReadBranch, CountsAreRead, Branches
    <3>3. BranchNonces \in [Branches -> 0 .. Intensity]
      BY <1>0 DEF TypeOK
    <3>4. BranchNonces' = [BranchNonces EXCEPT ![step] = branch[step].counter]
      BY <1>10 DEF ReadBranch
    <3>. QED BY <2>1, <3>1, <3>2, <3>3, <3>4
  <2>6. CountsAreRead'
    BY <1>10, <2>1, <2>2, <2>5, Sizes
       DEF ReadBranch, CountsAreRead, Collecting, Branches, device
  <2>7. \A b \in Branches : SortedTo(b)' = SortedTo(b)
    BY <1>10 DEF ReadBranch, SortedTo, ItemsOf, hashes
  <2>8. BranchesAreSorted'
    BY <1>0, <1>10, <2>7 DEF ReadBranch, BranchesAreSorted, Sorting, device
  <2>9. CountersAreReset' /\ StatesOfTheBatch'
    BY <1>0, <1>10
       DEF ReadBranch, CountersAreReset, StatesOfTheBatch, Launched, device
  <2>10. OutputIsCollected'
    <3>1. CASE pc' = "launchFinal"
      <4>1. step' = 0 /\ output'.counter = 0
        BY <1>0, <1>10, <2>1, <2>2, <3>1 DEF ReadBranch, CountersAreReset, device
      <4>2. \A i \in Items : ~((branchOf[Nonce + i] < step)')
        <5>1. \A i \in Items : branchOf[Nonce + i] \in Branches
          BY <1>0, <1>10, TheBatch DEF ReadBranch, TypeOK, InCall
        <5>. QED BY <1>10, <4>1, <5>1 DEF ReadBranch, hashes, Branches
      <4>3. Collected' = {}
        BY <3>1, <4>2 DEF Collected, GoodOf
      <4>. QED BY <4>1, <4>3, NothingYet DEF OutputIsCollected
    <3>2. CASE pc' # "launchFinal"
      BY <1>10, <3>2 DEF ReadBranch, OutputIsCollected, Collecting
    <3>. QED BY <3>1, <3>2
  <2>. QED BY <1>0, <1>10, <2>3, <2>4, <2>6, <2>8, <2>9, <2>10
           DEF ReadBranch, Inv, BatchInv, SlotsSuffice, ReturnsTheGoodNonces,
               NoGoodNonceIsMissed, hashes
<1>11. CASE SkipFinal
  <2>1. step \in Branches /\ step + 1 \in 0 .. NumBranches
    BY <1>0, <1>11, Sizes DEF SkipFinal, TypeOK, StepInRange, Branches
  <2>2. TypeOK'
    BY <1>0, <1>11, <2>1 DEF SkipFinal, NextFinal, TypeOK, hashes, device, host, HostCalls
  <2>3. AtABatch' /\ StepInRange' /\ CountersAreReset' /\ StatesOfTheBatch' /\ CountsAreRead'
    BY <1>0, <1>11, <2>1, Sizes
       DEF SkipFinal, NextFinal, AtABatch, InCall, StepInRange, CountersAreReset,
           StatesOfTheBatch, Launched, CountsAreRead, Collecting, host, device, Branches
  <2>4. \A b \in Branches : SortedTo(b)' = SortedTo(b)
    BY <1>11 DEF SkipFinal, NextFinal, SortedTo, ItemsOf, hashes, host
  <2>5. BranchesAreSorted'
    BY <1>0, <1>11, <2>4 DEF SkipFinal, BranchesAreSorted, Sorting, device
  <2>6. ItemsOf(step) = {}
    <3>1. branch[step].counter = 0 /\ Enumerates(branch[step], ItemsOf(step))
      BY <1>0, <1>11, <2>1
         DEF SkipFinal, CountsAreRead, Collecting, BranchesAreSorted, Sorting, SortedTo
    <3>. QED BY <3>1 DEF Enumerates
  <2>7. Collected' = Collected
    <3>1. \A i \in Items : branchOf[Nonce + i] \in Branches
      BY <1>0, <1>11, TheBatch DEF SkipFinal, TypeOK, InCall
    <3>2. \A i \in Items : branchOf[Nonce + i] < step + 1 <=> branchOf[Nonce + i] < step
      BY <2>1, <2>6, <3>1 DEF ItemsOf, Branches
    <3>. QED BY <1>11, <3>2 DEF SkipFinal, NextFinal, Collected, GoodOf, hashes, host
  <2>8. OutputIsCollected'
    BY <1>0, <1>11, <2>7 DEF SkipFinal, OutputIsCollected, Collecting, device
  <2>. QED BY <1>0, <1>11, <2>2, <2>3, <2>5, <2>8
           DEF SkipFinal, NextFinal, Inv, BatchInv, SlotsSuffice, ReturnsTheGoodNonces,
               NoGoodNonceIsMissed, hashes, host
<1>12. CASE LaunchFinal
  <2>1. step \in Branches /\ BranchNonces[step] \in 0 .. Intensity
    BY <1>0, <1>12, Sizes DEF LaunchFinal, TypeOK, StepInRange, Branches
  <2>2. /\ RoundUp(BranchNonces[step]) \in Nat
        /\ BranchNonces[step] <= RoundUp(BranchNonces[step])
        /\ RoundUp(BranchNonces[step]) <= Intensity
    BY <2>1, EnoughItems
  <2>3. todo' \subseteq Items /\ 0 .. BranchNonces[step] - 1 \subseteq todo'
    BY <1>12, <2>1, <2>2, Sizes DEF LaunchFinal, Items
  <2>4. TypeOK'
    BY <1>0, <1>12, <2>3 DEF LaunchFinal, TypeOK, hashes, host
  <2>5. AtABatch' /\ StepInRange' /\ CountersAreReset' /\ StatesOfTheBatch' /\ CountsAreRead'
    BY <1>0, <1>12
       DEF LaunchFinal, AtABatch, InCall, StepInRange, CountersAreReset,
           StatesOfTheBatch, Launched, CountsAreRead, Collecting, host
  <2>6. \A b \in Branches : SortedTo(b)' = SortedTo(b)
    BY <1>12 DEF LaunchFinal, SortedTo, ItemsOf, hashes, host
  <2>7. BranchesAreSorted'
    BY <1>0, <1>12, <2>6 DEF LaunchFinal, BranchesAreSorted, Sorting
  <2>8. Collected' = Collected
    <3>1. Hashed(todo)' = {}
      BY <1>12, <2>3 DEF LaunchFinal, Hashed, host
    <3>. QED BY <1>12, <3>1 DEF LaunchFinal, Collected, GoodOf, hashes, host
  <2>9. OutputIsCollected'
    BY <1>0, <1>12, <2>8 DEF LaunchFinal, OutputIsCollected, Collecting
  <2>. QED BY <1>0, <1>12, <2>4, <2>5, <2>7, <2>9, SMTT(30)
           DEF LaunchFinal, Inv, BatchInv, SlotsSuffice, ReturnsTheGoodNonces,
               NoGoodNonceIsMissed, hashes, host
<1>13. ASSUME NEW idx \in Items, FinalHash(idx) PROVE Inv'
  <2>. DEFINE i == branch[step].slot[idx]
              n == Nonce + i
  <2>1. step \in Branches /\ BranchNonces[step] \in 0 .. Intensity /\ InCall
    BY <1>0, <1>13, Sizes, SMTT(30) DEF FinalHash, TypeOK, StepInRange, Branches, InCall
  <2>2. /\ BranchNonces[step] = branch[step].counter
        /\ Enumerates(branch[step], ItemsOf(step))
    BY <1>0, <1>13, <2>1
       DEF FinalHash, CountsAreRead, Collecting, BranchesAreSorted, Sorting, SortedTo
  <2>3. Enumerates(output, Collected)
    BY <1>0, <1>13 DEF FinalHash, OutputIsCollected, Collecting
  <2>4. Collected \subseteq good \intersect Window(Nonce)
    <3>1. \A k \in 0 .. BranchNonces[step] - 1 : branch[step].slot[k] \in Items
      BY <2>2 DEF Enumerates, ItemsOf
    <3>2. \A j \in Items : Nonce + j \in Window(Nonce)
      BY <1>0, <2>1, TheBatch, Sizes DEF Items, Window
    <3>. QED BY <3>1, <3>2 DEF Collected, GoodOf, Hashed
  <2>5. /\ AtABatch' /\ StepInRange' /\ CountersAreReset' /\ StatesOfTheBatch'
        /\ CountsAreRead'
    BY <1>0, <1>13
       DEF FinalHash, AtABatch, InCall, StepInRange, CountersAreReset,
           StatesOfTheBatch, Launched, CountsAreRead, Collecting, host
  <2>6. \A b \in Branches : SortedTo(b)' = SortedTo(b)
    BY <1>13 DEF FinalHash, SortedTo, ItemsOf, hashes, host
  <2>7. BranchesAreSorted'
    BY <1>0, <1>13, <2>6 DEF FinalHash, BranchesAreSorted, Sorting
  <2>8. output' \in OutputType /\ Enumerates(output', Collected')
    <3>1. CASE idx < BranchNonces[step] /\ IsGood(idx)
      <4>1. /\ idx \in 0 .. BranchNonces[step] - 1 /\ i \in ItemsOf(step)
            /\ n \in good /\ n \in Nonces /\ n \in Window(Nonce)
        <5>1. idx \in 0 .. BranchNonces[step] - 1
          BY <2>1, <3>1 DEF Items
        <5>2. i \in ItemsOf(step)
          BY <2>2, <5>1 DEF Enumerates
        <5>3. states[i] = n
          BY <1>0, <1>13, <5>2 DEF FinalHash, StatesOfTheBatch, Launched, ItemsOf
        <5>4. n \in Nonces /\ n \in Window(Nonce)
          BY <1>0, <2>1, <5>2, TheBatch, Sizes DEF ItemsOf, Items, Window
        <5>. QED BY <3>1, <5>1, <5>2, <5>3, <5>4 DEF IsGood
      <4>2. n \notin Collected
        <5>1. SUFFICES ASSUME NEW j \in Items, n = Nonce + j,
                              branchOf[Nonce + j] < step \/ j \in Hashed(todo)
                       PROVE  FALSE
          <6>1. Hashed(todo) \subseteq Items
            BY <2>2 DEF Hashed, Enumerates, ItemsOf
          <6>. QED BY <1>13, <6>1 DEF FinalHash, Collected, GoodOf
        <5>2. j = i
          BY <1>0, <2>1, <4>1, <5>1, TheBatch DEF Items, ItemsOf
        <5>3. ~(branchOf[Nonce + j] < step)
          BY <2>1, <4>1, <5>2 DEF ItemsOf, Branches
        <5>4. i \notin Hashed(todo)
          BY <1>13, <2>2, <4>1 DEF FinalHash, Hashed, Enumerates
        <5>. QED BY <5>1, <5>2, <5>3, <5>4
      <4>3. Collected' = Collected \union {n}
        <5>1. Hashed(todo)' = Hashed(todo) \union {i}
          <6>1. (0 .. BranchNonces[step] - 1) \ todo'
                  = ((0 .. BranchNonces[step] - 1) \ todo) \union {idx}
            BY <1>13, <4>1 DEF FinalHash
          <6>. QED BY <1>13, <6>1 DEF FinalHash, Hashed, host
        <5>. QED BY <1>13, <4>1, <5>1 DEF FinalHash, Collected, GoodOf, hashes, host
      <4>4. IsFiniteSet(Collected) /\ Cardinality(Collected) < Slots
        <5>. DEFINE W == good \intersect Window(Nonce)
        <5>1. IsFiniteSet(W) /\ Cardinality(W) <= Slots
          BY <1>0, <2>1, TheBatch
        <5>2. Collected \subseteq W \ {n} /\ n \in W
          BY <2>4, <4>1, <4>2
        <5>. HIDE DEF W
        <5>3. IsFiniteSet(W \ {n}) /\ Cardinality(W \ {n}) = Cardinality(W) - 1
          BY <5>1, <5>2, FS_RemoveElement
        <5>4. IsFiniteSet(Collected) /\ Cardinality(Collected) <= Cardinality(W \ {n})
          BY <5>2, <5>3, FS_Subset
        <5>5. Cardinality(Collected) \in Nat /\ Cardinality(W) \in Nat
          BY <5>1, <5>4, FS_CardinalityType
        <5>. QED BY <5>1, <5>3, <5>4, <5>5, Sizes
      <4>5. output' = [output EXCEPT !.slot[output.counter] = n, !.counter = @ + 1]
        BY <1>13, <3>1 DEF FinalHash
      <4>6. output \in [slot : [0 .. Slots - 1 -> Nonces], counter : 0 .. Slots]
        BY <1>0 DEF TypeOK
      <4>7. n \in Nonces /\ Slots \in Nat
        BY <4>1, Sizes
      <4>. HIDE DEF n
      <4>8. /\ output' \in [slot : [0 .. Slots - 1 -> Nonces], counter : 0 .. Slots]
            /\ Enumerates(output', Collected \union {n})
        BY <2>3, <4>2, <4>4, <4>5, <4>6, <4>7, AppendEntry
      <4>. QED BY <4>3, <4>8 DEF OutputType
    <3>2. CASE ~(idx < BranchNonces[step] /\ IsGood(idx))
      <4>1. output' = output
        BY <1>13, <3>2 DEF FinalHash
      <4>2. Collected' = Collected
        <5>1. CASE idx \notin 0 .. BranchNonces[step] - 1
          <6>1. Hashed(todo)' = Hashed(todo)
            BY <1>13, <5>1 DEF FinalHash, Hashed, host
          <6>. QED BY <1>13, <6>1 DEF FinalHash, Collected, GoodOf, hashes, host
        <5>2. CASE idx \in 0 .. BranchNonces[step] - 1
          <6>1. i \in ItemsOf(step)
            BY <2>2, <5>2 DEF Enumerates
          <6>2. states[i] = n
            BY <1>0, <1>13, <6>1 DEF FinalHash, StatesOfTheBatch, Launched, ItemsOf
          <6>3. n \notin good
            BY <2>1, <3>2, <5>2, <6>1, <6>2 DEF IsGood, ItemsOf
          <6>4. Hashed(todo)' = Hashed(todo) \union {i}
            <7>1. (0 .. BranchNonces[step] - 1) \ todo'
                    = ((0 .. BranchNonces[step] - 1) \ todo) \union {idx}
              BY <1>13, <5>2 DEF FinalHash
            <7>. QED BY <1>13, <7>1 DEF FinalHash, Hashed, host
          <6>. QED BY <1>13, <6>3, <6>4 DEF FinalHash, Collected, GoodOf, hashes, host
        <5>. QED BY <5>1, <5>2
      <4>. QED BY <1>0, <2>3, <4>1, <4>2 DEF TypeOK, OutputType
    <3>. QED BY <3>1, <3>2
  <2>9. TypeOK'
    BY <1>0, <1>13, <2>8 DEF FinalHash, TypeOK, OutputType, hashes, host
  <2>10. OutputIsCollected'
    BY <2>8 DEF OutputIsCollected
  <2>. QED BY <1>0, <1>13, <2>5, <2>7, <2>9, <2>10
           DEF FinalHash, Inv, BatchInv, SlotsSuffice, ReturnsTheGoodNonces,
               NoGoodNonceIsMissed, hashes, host
<1>14. CASE FinalEnds
  <2>1. step \in Branches /\ step + 1 \in 0 .. NumBranches
    BY <1>0, <1>14, Sizes DEF FinalEnds, TypeOK, StepInRange, Branches
  <2>2. TypeOK'
    BY <1>0, <1>14, <2>1 DEF FinalEnds, NextFinal, TypeOK, hashes, device, host, HostCalls
  <2>3. AtABatch' /\ StepInRange' /\ CountersAreReset' /\ StatesOfTheBatch' /\ CountsAreRead'
    BY <1>0, <1>14, <2>1, Sizes
       DEF FinalEnds, NextFinal, AtABatch, InCall, StepInRange, CountersAreReset,
           StatesOfTheBatch, Launched, CountsAreRead, Collecting, host, device, Branches
  <2>4. \A b \in Branches : SortedTo(b)' = SortedTo(b)
    BY <1>14 DEF FinalEnds, NextFinal, SortedTo, ItemsOf, hashes, host
  <2>5. BranchesAreSorted'
    BY <1>0, <1>14, <2>4 DEF FinalEnds, BranchesAreSorted, Sorting, device
  <2>6. Hashed(todo) = ItemsOf(step)
    <3>1. /\ BranchNonces[step] = branch[step].counter
          /\ Enumerates(branch[step], ItemsOf(step))
      BY <1>0, <1>14, <2>1
         DEF FinalEnds, CountsAreRead, Collecting, BranchesAreSorted, Sorting, SortedTo
    <3>. QED BY <1>14, <3>1 DEF FinalEnds, Enumerates, Hashed
  <2>7. Collected' = Collected
    <3>1. \A i \in Items : branchOf[Nonce + i] \in Branches
      BY <1>0, <1>14, TheBatch DEF FinalEnds, TypeOK, InCall
    <3>2. \A i \in Items : branchOf[Nonce + i] < step + 1
                             <=> branchOf[Nonce + i] < step \/ i \in ItemsOf(step)
      BY <2>1, <3>1 DEF ItemsOf, Branches
    <3>3. {i \in Items : branchOf[Nonce + i] < step + 1}
             = {i \in Items : branchOf[Nonce + i] < step} \union ItemsOf(step)
      BY <3>2 DEF ItemsOf
    <3>. QED BY <1>14, <2>6, <3>3 DEF FinalEnds, NextFinal, Collected, GoodOf, hashes, host
  <2>8. OutputIsCollected'
    BY <1>0, <1>14, <2>7 DEF FinalEnds, OutputIsCollected, Collecting, device
  <2>. QED BY <1>0, <1>14, <2>2, <2>3, <2>5, <2>8
           DEF FinalEnds, NextFinal, Inv, BatchInv, SlotsSuffice, ReturnsTheGoodNonces,
               NoGoodNonceIsMissed, hashes, host
<1>15. CASE ReadOutput
  <2>. DEFINE wanted == good \intersect Window(Nonce)
  <2>1. InCall /\ Collecting /\ step = NumBranches
    BY <1>0, <1>15 DEF ReadOutput, InCall, Collecting, StepInRange
  <2>2. Nonce \in Nat /\ Nonce + Intensity <= MaxRuns * Intensity
    BY <1>0, <2>1, TheBatch
  <2>3. Collected = wanted
    <3>1. \A i \in Items : branchOf[Nonce + i] < step
      <4>1. \A i \in Items : branchOf[Nonce + i] \in Branches
        BY <1>0, <2>1, TheBatch DEF TypeOK
      <4>. QED BY <2>1, <4>1, Sizes DEF Branches
    <3>2. \A n \in good : n \in Window(Nonce) <=> \E i \in Items : n = Nonce + i
      <4>1. \A n \in Nat : n \in Window(Nonce) => n - Nonce \in Items /\ n = Nonce + (n - Nonce)
        BY <2>2, Sizes DEF Window, Items
      <4>2. \A i \in Items : Nonce + i \in Window(Nonce)
        BY <2>2, Sizes DEF Window, Items
      <4>3. good \subseteq Nat
        BY <1>0, Sizes DEF TypeOK, Nonces
      <4>. QED BY <4>1, <4>2, <4>3
    <3>. QED BY <1>15, <3>1, <3>2 DEF ReadOutput, Collected, GoodOf
  <2>4. Enumerates(output, wanted)
    BY <1>0, <2>1, <2>3 DEF OutputIsCollected
  <2>5. Found(output) = wanted
    BY <2>4 DEF Found, Enumerates
  <2>6. TypeOK'
    <3>1. Nonce + Intensity \in 0 .. MaxRuns * Intensity
      <4>. DEFINE all == MaxRuns * Intensity
      <4>1. all \in Nat /\ Nonce + Intensity <= all BY <2>2, Sizes
      <4>. HIDE DEF all
      <4>2. Nonce + Intensity \in 0 .. all BY <2>2, <4>1, Sizes
      <4>. QED BY <4>2 DEF all
    <3>2. reported' \subseteq Nonces
      BY <1>0, <1>15, <2>5 DEF ReadOutput, TypeOK
    <3>. QED
      BY <1>0, <1>15, <3>1, <3>2 DEF ReadOutput, TypeOK, hashes, device
  <2>7. AtABatch'
    <3>1. PICK r \in 0 .. runs : Nonce = r * Intensity /\ r < runs
      BY <1>0, <2>1 DEF AtABatch
    <3>2. r + 1 \in 0 .. runs /\ r \in Nat /\ runs \in Nat
      BY <1>0, <3>1, Sizes DEF TypeOK
    <3>3. Nonce + Intensity = (r + 1) * Intensity
      BY <3>1, <3>2, BatchAfterBatch
    <3>. QED BY <1>15, <3>2, <3>3 DEF ReadOutput, AtABatch, InCall
  <2>8. BatchInv'
    BY <1>15, <2>7 DEF ReadOutput, BatchInv, StepInRange, CountersAreReset, StatesOfTheBatch,
       Launched, BranchesAreSorted, Sorting, CountsAreRead, Collecting, OutputIsCollected
  <2>9. ReturnsTheGoodNonces'
    <3>1. (Nonce + Intensity) - Intensity = Nonce
      BY <2>2, Sizes
    <3>2. Nonce' - Intensity = Nonce /\ good' = good /\ HashOutput' = output
      BY <1>15, <3>1 DEF ReadOutput, hashes
    <3>3. (good \intersect Window(Nonce - Intensity))' = wanted
      BY <3>2 DEF Window
    <3>4. HashOutput'.counter = Cardinality(wanted) /\ Found(HashOutput)' = wanted
      BY <2>4, <2>5, <3>2 DEF Enumerates, Found
    <3>. QED BY <3>3, <3>4 DEF ReturnsTheGoodNonces
  <2>10. NoGoodNonceIsMissed'
    <3>1. \A n \in good : n < Nonce + Intensity <=> n < Nonce \/ n \in Window(Nonce)
      <4>1. good \subseteq Nat
        BY <1>0, Sizes DEF TypeOK, Nonces
      <4>. QED BY <2>2, <4>1, Sizes DEF Window
    <3>. QED BY <1>0, <1>15, <2>5, <3>1 DEF ReadOutput, NoGoodNonceIsMissed, hashes
  <2>. QED BY <1>0, <1>15, <2>6, <2>8, <2>9, <2>10 DEF ReadOutput, Inv, SlotsSuffice, hashes
<1>16. CASE UNCHANGED vars
  <2>1. BatchInv'
    <3>1. Collected' = Collected /\ \A b \in Branches : SortedTo(b)' = SortedTo(b)
      BY <1>16 DEF vars, Collected, GoodOf, Hashed, SortedTo, ItemsOf, hashes, device, host
    <3>. QED BY <1>0, <1>16, <3>1
             DEF vars, hashes, device, host, BatchInv, AtABatch, InCall, StepInRange,
                 CountersAreReset, StatesOfTheBatch, Launched, BranchesAreSorted, Sorting,
                 CountsAreRead, Collecting, OutputIsCollected
  <2>. QED BY <1>0, <1>16, <2>1 DEF vars, hashes, device, host, TypeOK, Inv, SlotsSuffice,
           ReturnsTheGoodNonces, NoGoodNonceIsMissed
<1>. QED BY <1>1, <1>2, <1>3, <1>4, <1>5, <1>6, <1>7, <1>8, <1>9, <1>10, <1>11, <1>12, <1>13,
         <1>14, <1>15, <1>16 DEF Next

-----------------------------------------------------------------------------
\* The stages of XMRRunJob fit together: what a kernel or a transfer relies on was done, in
\* this call, by those before it (gpu.c:997-1107).
THEOREM StagesFit == Spec => []Inv
BY InitInv, StepInv, PTL DEF Spec

\* Entries are written inside the branch buffers and the output buffer, and work-items of the
\* final kernels are those of a batch.
THEOREM BuffersHold == Spec => []TypeOK
<1>1. Inv => TypeOK
  BY DEF Inv
<1>. QED BY <1>1, StagesFit, PTL

\* A call that succeeds returns each good nonce of its batch once and nothing else, for any
\* intensity and number of branches and after any calls that failed (gpu.c:1006-1104).
THEOREM EachGoodNonceIsReturned == Spec => []ReturnsTheGoodNonces
<1>1. Inv => ReturnsTheGoodNonces
  BY DEF Inv
<1>. QED BY <1>1, StagesFit, PTL

\* No good nonce is missed and none is returned twice, over any number of calls
\* (gpu.c:1097-1106).
THEOREM FailedBatchesAreRepeated == Spec => []NoGoodNonceIsMissed
<1>1. Inv => NoGoodNonceIsMissed
  BY DEF Inv
<1>. QED BY <1>1, StagesFit, PTL
=============================================================================
