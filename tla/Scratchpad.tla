----------------------------- MODULE Scratchpad -----------------------------
(***************************************************************************)
(* Where the kernels keep the chunks of a nonce's scratchpad in the one    *)
(* buffer of all nonces of a batch (cryptonight.cl): one after another,    *)
(* interleaved chunk by chunk, or interleaved within a work-group in runs  *)
(* of MEM_CHUNK.                                                           *)
(***************************************************************************)
EXTENDS Integers

CONSTANTS N,       \* Threads, the nonces of a batch
          Chunks   \* MEMORY >> 4, the chunks of 16 bytes of a scratchpad

ASSUME NonceAssumption == N \in Nat \ {0} /\ Chunks \in Nat \ {0}

Nonces == 0 .. N - 1
ChunkNos == 0 .. Chunks - 1

\* What the program is compiled with: -DSTRIDED_INDEX, -DWORKSIZE, -DMEM_CHUNK_EXPONENT.
Layouts == [stride : {0, 1, 2}, worksize : Nat \ {0}, memChunk : Nat \ {0}]

\* A batch is whole work-groups.  Nothing checks the second: a MEM_CHUNK_EXPONENT above 17 is
\* accepted, and sends a work-group into the scratchpads of the next.
Fits(l) == N % l.worksize = 0 /\ Chunks % l.memChunk = 0

Base(l, n) ==
  IF l.stride = 0 THEN n * Chunks
  ELSE IF l.stride = 1 THEN n
  ELSE (n \div l.worksize) * Chunks * l.worksize + l.memChunk * (n % l.worksize)

\* Mutant of Idx: the runs of a nonce follow each other too closely.
IdxWithoutWorkSize(l, x) ==
  IF l.stride = 0 THEN x
  ELSE IF l.stride = 1 THEN x * N
  ELSE (x % l.memChunk) + (x \div l.memChunk) * l.memChunk

Idx(l, x) ==
  IF l.stride = 0 THEN x
  ELSE IF l.stride = 1 THEN x * N
  ELSE (x % l.memChunk) + (x \div l.memChunk) * l.worksize * l.memChunk

Slot(l, n, x) == Base(l, n) + Idx(l, x)

\* The NVIDIA version of cn1 has one layout only.
NvidiaSlot(n, x) == n * Chunks + x
=============================================================================
