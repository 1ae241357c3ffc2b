---------------------------- MODULE Cryptonight ----------------------------
(***************************************************************************)
(* The hash of a batch on the GPU (kernels cn0, cn1 and cn2 of             *)
(* cryptonight.cl), work-item by work-item, and that of one nonce on the   *)
(* CPU (cryptonight_hash in cryptonight_aesni.h), which checks it.         *)
(*                                                                         *)
(* AES is any function.  Words are smaller than the code's, scratchpads    *)
(* have fewer chunks, and there are fewer lanes than eight to fill them.   *)
(* The hashes before and after, Keccak and the final ones, are left out:   *)
(* `states' begins with what the first gives and ends with what the others *)
(* get.                                                                    *)
(***************************************************************************)
EXTENDS IntMath, Scratchpad, Sequences

CONSTANTS XorUInt(_, _),    \* of two uints, bit by bit
          AesRound(_, _),   \* one round, of a chunk, with a chunk as its key
          AesRounds(_, _),  \* ten rounds with the keys expanded from four words
          Lanes,            \* get_local_size(1), 8
          Iterations,       \* 0x80000
          ChunkUnit,        \* 16, the addresses of a chunk
          State0,           \* the words of the states after the first Keccak
          Options           \* what the kernels are compiled with

ASSUME ShapeAssumption ==
  /\ Lanes \in Nat \ {0} /\ Chunks % Lanes = 0 /\ Chunks % 4 = 0
  /\ Iterations \in Nat /\ ChunkUnit \in Nat \ {0}

\* Nothing in the code checks the options: the NVIDIA version of cn1 hashes other memory than
\* cn0 and cn2 unless STRIDED_INDEX is 0.
ASSUME OptionAssumption ==
  /\ Options \subseteq [layout : Layouts, nvidia : BOOLEAN, shuffle : BOOLEAN, intMath : BOOLEAN]
  /\ \A o \in Options : Fits(o.layout) /\ (o.nvidia => o.layout.stride = 0)

\* All states have as many words, 25 in the code.
ASSUME StateAssumption ==
  /\ State0 \in [Nonces -> [DOMAIN State0[0] -> ULong]]
  /\ 0 .. 13 \union 8 .. 2 * Lanes + 7 \subseteq DOMAIN State0[0]

\* K is a power of two.  Of the exclusive or nothing else is needed.
ASSUME XorAssumption ==
  /\ K % 4 = 0
  /\ \A x, y \in UInt : XorUInt(x, y) \in UInt /\ XorUInt(x, 0) = x
  /\ \A x, y \in 0 .. 3 : XorUInt(x, y) \in 0 .. 3

Word == K * K
LaneNos == 0 .. Lanes - 1
Rounds == Chunks \div Lanes

XorLong(x, y) == XorUInt(x % K, y % K) + K * XorUInt(x \div K, y \div K)
XorChunk(x, y) == << XorLong(x[1], y[1]), XorLong(x[2], y[2]) >>
AddChunk(x, y) == << (x[1] + y[1]) % Word, (x[2] + y[2]) % Word >>
Zero == << 0, 0 >>

ChunkOf(word) == (word \div ChunkUnit) % Chunks       \* word & 0x1FFFF0
StateChunk(s, c) == << s[2 * c], s[2 * c + 1] >>
Key1(s) == << s[0], s[1], s[2], s[3] >>
Key2(s) == << s[4], s[5], s[6], s[7] >>

VARIABLES opt,     \* the options
          phase,   \* the kernel that runs
          states,  \* the words of each nonce's state
          pad,     \* Scratchpad
          at,      \* how far each work-item is: the rounds it has done
          text,    \* the chunk it works on
          loop,    \* the variables of each nonce's loop in cn1
          hashed   \* the state each nonce ends with, as lane 0 gives it to Keccak

vars == <<opt, phase, states, pad, at, text, loop, hashed>>

Items == Nonces \X LaneNos
None == << >>

Init ==
  /\ opt \in Options /\ phase = "cn0"
  /\ states = State0
  /\ pad = [p \in 0 .. N * Chunks - 1 |-> Zero]
  /\ at = [w \in Items |-> 0]
  /\ text = [w \in Items |-> StateChunk(State0[w[1]], w[2] + 4)]
  /\ loop = [n \in Nonces |-> None]
  /\ hashed = [n \in Nonces |-> None]

-----------------------------------------------------------------------------
(* cn0: each lane fills every Lanes-th chunk.                              *)

Cn0(w) ==
  /\ phase = "cn0" /\ at[w] < Rounds
  /\ LET t == AesRounds(text[w], Key1(states[w[1]]))
     IN  /\ text' = [text EXCEPT ![w] = t]
         /\ pad' = [pad EXCEPT ![Slot(opt.layout, w[1], at[w] * Lanes + w[2])] = t]
  /\ at' = [at EXCEPT ![w] = @ + 1]
  /\ UNCHANGED <<opt, phase, states, loop, hashed>>

\* The queue runs the next kernel when this one has ended.
StartCn1 ==
  /\ phase = "cn0" /\ \A w \in Items : at[w] = Rounds
  /\ phase' = "cn1"
  /\ loop' = [n \in Nonces |->
       LET s == states[n]
       IN  [i |-> 0, a |-> XorChunk(StateChunk(s, 0), StateChunk(s, 2)),
            bx0 |-> XorChunk(StateChunk(s, 1), StateChunk(s, 3)),
            bx1 |-> XorChunk(StateChunk(s, 4), StateChunk(s, 5)),
            div |-> << s[12] % K, s[12] \div K >>, sqrt |-> s[13] % K]]
  /\ UNCHANGED <<opt, states, pad, at, text, hashed>>

-----------------------------------------------------------------------------
(***************************************************************************)
(* The loop of cn1.  mem is the scratchpad of one nonce, or the line of    *)
(* four chunks that the NVIDIA version keeps; i is a chunk of it.          *)
(***************************************************************************)
Beside(i, c) == 4 * (i \div 4) + XorUInt(i % 4, c)       \* idx ^ (c << 4)

Shuffled(o, mem, i, x, l) ==
  IF ~o.shuffle THEN mem
  ELSE [mem EXCEPT ![Beside(i, 1)] = AddChunk(mem[Beside(i, 3)], l.bx1),
                   ![Beside(i, 2)] = AddChunk(XorChunk(mem[Beside(i, 1)], x), l.bx0),
                   ![Beside(i, 3)] = AddChunk(mem[Beside(i, 2)], l.a)]

Put(mem, i, x) == [mem EXCEPT ![i] = x]

\* The least the estimates of reciprocal and root may be.
RcpEstimate(d) == (Word \div d) - K
SqrtEstimate(n) == LET root == CHOOSE r \in UInt : IsRoot(n, r)
                   IN  IF root = 0 THEN 0 ELSE root - 1

\* A uint with its highest and its lowest bit set, | 0x80000001.
WithEnds(x) == x + (IF x < K \div 2 THEN K \div 2 ELSE 0) + (IF x % 2 = 0 THEN 1 ELSE 0)

Divisor(c, sqrt) == WithEnds((c[1] + 2 * sqrt) % K)

\* Mutant of MixIn: quotient and root of this iteration are used.
MixInAtOnce(o, c, tmp, l) ==
  LET d    == Divisor(c, l.sqrt)
      div  == FastDiv(c[2], d, Reciprocal(d, RcpEstimate(d)))
      n    == (c[1] + div[1] + K * div[2]) % Word
      sqrt == FastSqrt(n, SqrtEstimate(n))
  IN  IF ~o.intMath THEN [tmp |-> tmp, div |-> l.div, sqrt |-> l.sqrt]
      ELSE [tmp |-> << XorLong(tmp[1], div[1] + K * XorUInt(div[2], sqrt)), tmp[2] >>,
            div |-> div, sqrt |-> sqrt]

\* The second variant mixes in quotient and root of the previous iteration.
MixIn(o, c, tmp, l) ==
  LET d    == Divisor(c, l.sqrt)
      div  == FastDiv(c[2], d, Reciprocal(d, RcpEstimate(d)))
      n    == (c[1] + div[1] + K * div[2]) % Word
  IN  IF ~o.intMath THEN [tmp |-> tmp, div |-> l.div, sqrt |-> l.sqrt]
      ELSE [tmp |-> << XorLong(tmp[1], l.div[1] + K * XorUInt(l.div[2], l.sqrt)), tmp[2] >>,
            div |-> div, sqrt |-> FastSqrt(n, SqrtEstimate(n))]

Product(x, y) == << (x * y) \div Word, (x * y) % Word >>

\* The second half of an iteration, on chunk j of mem; c is the first half's.
SecondHalf(o, mem, j, c, l) ==
  LET m == MixIn(o, c, mem[j], l)
      t == Product(c[1], m.tmp[1])
      a == AddChunk(l.a, IF o.shuffle THEN XorChunk(t, mem[Beside(j, 2)]) ELSE t)
  IN  [mem |-> Put(Shuffled(o, mem, j, t, l), j, a),
       loop |-> [i |-> l.i + 1, a |-> XorChunk(a, m.tmp), bx0 |-> c, bx1 |-> l.bx0,
                 div |-> m.div, sqrt |-> m.sqrt]]

AmdIteration(o, mem, l) ==
  LET i == ChunkOf(l.a[1])
      c == AesRound(mem[i], l.a)
  IN  SecondHalf(o, Put(Shuffled(o, mem, i, Zero, l), i, XorChunk(l.bx0, c)), ChunkOf(c[1]), c, l)

ReadLine(mem, i) == [x \in 0 .. 3 |-> mem[(i - (i % 4)) + x]]
WriteLine(mem, i, line) ==
  [x \in ChunkNos |-> IF x \div 4 = i \div 4 THEN line[x % 4] ELSE mem[x]]

\* Mutant of NvidiaIteration: both lines are read first.
NvidiaIterationReadsEarly(o, mem, l) ==
  LET i == ChunkOf(l.a[1])
      line == ReadLine(mem, i)
      c    == AesRound(line[i % 4], l.a)
      mem1 == WriteLine(mem, i, Put(Shuffled(o, line, i % 4, Zero, l), i % 4, XorChunk(l.bx0, c)))
      j    == ChunkOf(c[1])
      half == SecondHalf(o, ReadLine(mem, j), j % 4, c, l)
  IN  [half EXCEPT !.mem = WriteLine(mem1, j, half.mem)]

\* With the shuffle a line is read, changed and written back, twice.
NvidiaIteration(o, mem, l) ==
  LET i == ChunkOf(l.a[1])
      line == ReadLine(mem, i)
      c    == AesRound(line[i % 4], l.a)
      mem1 == WriteLine(mem, i, Put(Shuffled(o, line, i % 4, Zero, l), i % 4, XorChunk(l.bx0, c)))
      j    == ChunkOf(c[1])
      half == SecondHalf(o, ReadLine(mem1, j), j % 4, c, l)
  IN  [half EXCEPT !.mem = WriteLine(mem1, j, half.mem)]

Cn1Iteration(o, mem, l) ==
  IF o.nvidia /\ o.shuffle THEN NvidiaIteration(o, mem, l) ELSE AmdIteration(o, mem, l)

Cn1Slot(o, n, x) == IF o.nvidia THEN NvidiaSlot(n, x) ELSE Slot(o.layout, n, x)

Cn1(n) ==
  /\ phase = "cn1" /\ loop[n].i < Iterations
  /\ LET mem  == [x \in ChunkNos |-> pad[Cn1Slot(opt, n, x)]]
         next == Cn1Iteration(opt, mem, loop[n])
     IN  /\ loop' = [loop EXCEPT ![n] = next.loop]
         /\ pad' = [p \in DOMAIN pad |->
                      IF \E x \in ChunkNos : Cn1Slot(opt, n, x) = p
                      THEN next.mem[CHOOSE x \in ChunkNos : Cn1Slot(opt, n, x) = p] ELSE pad[p]]
  /\ UNCHANGED <<opt, phase, states, at, text, hashed>>

StartCn2 ==
  /\ phase = "cn1" /\ \A n \in Nonces : loop[n].i = Iterations
  /\ phase' = "cn2"
  /\ at' = [w \in Items |-> 0]
  /\ text' = [w \in Items |-> StateChunk(states[w[1]], w[2] + 4)]
  /\ UNCHANGED <<opt, states, pad, loop, hashed>>

-----------------------------------------------------------------------------
(* cn2: each lane folds its chunks, and lane 0 waits for the others.       *)

Cn2(w) ==
  /\ phase = "cn2" /\ at[w] < Rounds
  /\ LET x == pad[Slot(opt.layout, w[1], at[w] * Lanes + w[2])]
     IN  text' = [text EXCEPT ![w] = AesRounds(XorChunk(x, @), Key2(states[w[1]]))]
  /\ at' = [at EXCEPT ![w] = @ + 1]
  /\ UNCHANGED <<opt, phase, states, pad, loop, hashed>>

StoreText(w) ==
  /\ phase = "cn2" /\ at[w] = Rounds
  /\ states' = [states EXCEPT ![w[1]][2 * (w[2] + 4)] = text[w][1],
                              ![w[1]][2 * (w[2] + 4) + 1] = text[w][2]]
  /\ at' = [at EXCEPT ![w] = @ + 1]
  /\ UNCHANGED <<opt, phase, pad, text, loop, hashed>>

\* Mutant of Barrier: lane 0 does not wait.
NoBarrier(n) == at[<<n, 0>>] = Rounds + 1

\* The barrier holds back a work-item until all of its work-group have reached it.
Barrier(n) ==
  \A w \in Items : w[1] \div opt.layout.worksize = n \div opt.layout.worksize => at[w] = Rounds + 1

LastKeccak(n) ==
  /\ phase = "cn2" /\ Barrier(n) /\ hashed[n] = None
  /\ hashed' = [hashed EXCEPT ![n] = states[n]]
  /\ UNCHANGED <<opt, phase, states, pad, at, text, loop>>

Next == \/ StartCn1 \/ StartCn2
        \/ \E w \in Items : Cn0(w) \/ Cn2(w) \/ StoreText(w)
        \/ \E n \in Nonces : Cn1(n) \/ LastKeccak(n)

Spec == Init /\ [][Next]_vars

-----------------------------------------------------------------------------
(***************************************************************************)
(* The CPU.  exact tells whether all roots so far were of numbers whose    *)
(* root int_sqrt_v2 gets right (see IntMath).                              *)
(***************************************************************************)
CpuExplode(s) ==
  LET xin[i \in 0 .. Rounds] ==
        [j \in LaneNos |-> IF i = 0 THEN StateChunk(s, j + 4)
                           ELSE AesRounds(xin[i - 1][j], Key1(s))]
  IN  [x \in ChunkNos |-> xin[x \div Lanes + 1][x % Lanes]]

CpuStart(s) ==
  [mem |-> CpuExplode(s), al |-> XorLong(s[0], s[4]), ah |-> XorLong(s[1], s[5]),
   bx0 |-> << XorLong(s[2], s[6]), XorLong(s[3], s[7]) >>,
   bx1 |-> << XorLong(s[8], s[10]), XorLong(s[9], s[11]) >>,
   idx |-> ChunkOf(XorLong(s[0], s[4])), div |-> s[12], sqrt |-> s[13], exact |-> TRUE]

CpuIteration(o, m) ==
  LET i   == m.idx
      ax0 == << m.al, m.ah >>
      cx  == AesRound(m.mem[i], ax0)
      l   == [bx0 |-> m.bx0, bx1 |-> m.bx1, a |-> ax0]
      mem == Put(Shuffled(o, m.mem, i, Zero, l), i, XorChunk(m.bx0, cx))
      j   == ChunkOf(cx[1])
      cl  == IF o.intMath THEN XorLong(mem[j][1], XorLong(m.div, (m.sqrt * K) % Word))
             ELSE mem[j][1]
      d   == WithEnds((cx[1] + 2 * m.sqrt) % K)
      div == IF o.intMath THEN ((cx[2] \div d) % K) + (cx[2] % d) * K ELSE m.div
      n   == (cx[1] + div) % Word
      hi  == (cx[1] * cl) \div Word
      lo  == (cx[1] * cl) % Word
      al  == (m.al + (IF o.shuffle THEN XorLong(hi, mem[Beside(j, 2)][1]) ELSE hi)) % Word
      ah  == (m.ah + (IF o.shuffle THEN XorLong(lo, mem[Beside(j, 2)][2]) ELSE lo)) % Word
  IN  [mem |-> Put(Shuffled(o, mem, j, << hi, lo >>, l), j, << al, ah >>),
       al |-> XorLong(al, cl), ah |-> XorLong(ah, mem[j][2]), idx |-> ChunkOf(XorLong(al, cl)),
       bx0 |-> cx, bx1 |-> IF o.shuffle THEN m.bx0 ELSE m.bx1,
       div |-> div, sqrt |-> IF o.intMath THEN IntSqrt(n) ELSE m.sqrt,
       exact |-> m.exact /\ (o.intMath => IsRoot(n, IntSqrt(n) % K))]

CpuLoop(o, s) ==
  LET m[i \in 0 .. Iterations] == IF i = 0 THEN CpuStart(s) ELSE CpuIteration(o, m[i - 1])
  IN  m[Iterations]

CpuImplode(mem, s) ==
  LET xout[i \in 0 .. Rounds] ==
        [j \in LaneNos |->
           IF i = 0 THEN StateChunk(s, j + 4)
           ELSE AesRounds(XorChunk(mem[(i - 1) * Lanes + j], xout[i - 1][j]), Key2(s))]
  IN  [w \in DOMAIN s |-> IF w \in 8 .. 2 * Lanes + 7
                          THEN xout[Rounds][(w \div 2) - 4][(w % 2) + 1] ELSE s[w]]

\* A nonce that is hashed on the GPU ends with the state the CPU computes for it, whatever the
\* order in which the lanes of all nonces go, the layout of the scratchpads and the version of
\* the kernel (cryptonight.cl:484-934, cryptonight_aesni.h:244-357).  It is what makes a
\* mismatch (minethd.cpp:278) the GPU's fault.
GpuHashesLikeTheCpu ==
  \A n \in Nonces : hashed[n] # None =>
    LET cpu == CpuLoop(opt, State0[n])
    IN  cpu.exact => hashed[n] = CpuImplode(cpu.mem, State0[n])
=============================================================================
