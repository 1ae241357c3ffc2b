---------------------------- MODULE StartupProof ----------------------------
(***************************************************************************)
(* Who mines does so as configured, for any files, command lines, numbers  *)
(* of platforms, devices and threads; and whatever calls of XMRSetJob have *)
(* failed, the kernels that run have arguments that belong together as far *)
(* as ASetJobIsWhole says, for any number of jobs.                         *)
(***************************************************************************)
EXTENDS Startup, KernelArgs, TLAPS

(***************************************************************************)
(* The arguments of the kernels.  What is known of an argument that was    *)
(* set is known of it for good, a target excepted: it belongs to a job     *)
(* that was tried, and to none before the last that was set as a whole.    *)
(***************************************************************************)
ArgTypes ==
  /\ tried \in [Gpus -> Nat] /\ set \in [Gpus -> Nat] /\ input \in [Gpus -> Nat]
  /\ DOMAIN args = Gpus
  /\ \A t \in Gpus : DOMAIN args[t] = Kernels /\ set[t] <= tried[t]

\* The value set last for an argument, when there is one.
RightValue(t, k, i) ==
  LET value == args[t][k][i]
  IN  /\ i \in DOMAIN Parameters(k) /\ value[1] = Parameters(k)[i]
      /\ value[1] # "target" => value[2] = t
      /\ value[1] = "target" => value[2] \in 1 .. tried[t] /\ value[2] >= set[t]

ArgsAreRight ==
  \A t \in Gpus : /\ \A k \in Kernels : \A i \in DOMAIN args[t][k] : RightValue(t, k, i)
                  /\ set[t] > 0 /\ set[t] = tried[t] => input[t] = tried[t]

Launchable ==
  \A p \in launched : /\ p[1] \in Gpus /\ p[2] \in Kernels /\ tried[p[1]] > 0
                      /\ DOMAIN args[p[1]][p[2]] = DOMAIN Parameters(p[2])

ArgInv == ArgTypes /\ ArgsAreRight /\ Launchable

-----------------------------------------------------------------------------
\* XMRSetJob sets the parameters of each kernel, and the target of the final ones.
LEMMA ArgsOfAreParameters ==
  ASSUME NEW k \in Kernels
  PROVE  ArgsOf(k) = Parameters(k)
<1>1. k \in {0, 1, 2, 3, 4, 5, 6}
  BY DEF Kernels, Finals
<1>. QED BY <1>1 DEF ArgsOf, Parameters, BranchOf, Extra

LEMMA TargetIsTheFourth ==
  ASSUME NEW k \in Finals
  PROVE  k \in Kernels /\ 4 \in DOMAIN Parameters(k) /\ Parameters(k)[4] = "target"
<1>1. k \in {3, 4, 5, 6} /\ k \in Kernels
  BY DEF Kernels, Finals
<1>. QED BY <1>1 DEF Parameters

\* All calls set all arguments.
LEMMA AllCallsSetAll ==
  ASSUME NEW k \in Kernels, NEW i \in DOMAIN ArgsOf(k)
  PROVE  CallsBefore(k) + i <= NumCalls
<1>1. k \in {0, 1, 2, 3, 4, 5, 6}
  BY DEF Kernels, Finals
<1>. QED BY <1>1 DEF ArgsOf, CallsBefore, NumCalls

LEMMA InitArgInv == InitArgs => ArgInv
BY DEF InitArgs, ArgInv, ArgTypes, ArgsAreRight, Launchable

LEMMA StepArgInv == ArgInv /\ [NextArgs]_argVars => ArgInv'
<1>. SUFFICES ASSUME ArgInv, [NextArgs]_argVars PROVE ArgInv'
  OBVIOUS
<1>0. ArgTypes /\ ArgsAreRight /\ Launchable
  BY DEF ArgInv
<1>1. ASSUME NEW t \in Gpus, NEW done \in -1 .. NumCalls, XMRSetJob(t, done) PROVE ArgInv'
  <2>. DEFINE job == tried[t] + 1
  <2>1. /\ job \in Nat /\ job > 0 /\ tried' = [tried EXCEPT ![t] = job] /\ launched' = {}
        /\ set' = IF done = NumCalls THEN [set EXCEPT ![t] = job] ELSE set
        /\ done < 0 => UNCHANGED <<input, args>>
        /\ done >= 0 => /\ input' = [input EXCEPT ![t] = job]
                        /\ args' = [args EXCEPT ![t] =
                             [k \in Kernels |-> Over(args[t][k], SetBy(done, t, k, job))]]
    BY <1>0, <1>1 DEF XMRSetJob, ArgTypes, NumCalls
  <2>2. ArgTypes'
    BY <1>0, <2>1 DEF ArgTypes
  <2>3. tried'[t] = job /\ \A u \in Gpus : u # t => tried'[u] = tried[u]
    BY <1>0, <2>1 DEF ArgTypes
  <2>4. /\ set'[t] = (IF done = NumCalls THEN job ELSE set[t])
        /\ \A u \in Gpus : u # t => set'[u] = set[u]
    BY <1>0, <2>1 DEF ArgTypes
  <2>5. \A u \in Gpus : u # t => args'[u] = args[u] /\ input'[u] = input[u]
    BY <1>0, <2>1 DEF ArgTypes
  <2>6. ASSUME NEW u \in Gpus, u # t, NEW k \in Kernels, NEW i \in DOMAIN args'[u][k]
        PROVE  RightValue(u, k, i)'
    BY <1>0, <2>3, <2>4, <2>5, <2>6 DEF ArgsAreRight, RightValue
  <2>7. ASSUME NEW k \in Kernels, NEW i \in DOMAIN args'[t][k]
        PROVE  RightValue(t, k, i)'
    <3>. DEFINE old == args[t][k]
                new == SetBy(done, t, k, job)
    <3>1. set[t] \in Nat /\ set[t] < job /\ tried[t] \in Nat
      BY <1>0, <2>1 DEF ArgTypes
    <3>2. CASE i \in DOMAIN args[t][k] /\ args'[t][k][i] = args[t][k][i] /\ done # NumCalls
      <4>1. RightValue(t, k, i)
        BY <1>0, <3>2 DEF ArgsAreRight
      <4>. QED BY <2>1, <2>3, <2>4, <3>1, <3>2, <4>1 DEF RightValue
    <3>3. CASE /\ i \in DOMAIN Parameters(k)
               /\ args'[t][k][i] = Value(t, Parameters(k)[i], job)
      BY <2>1, <2>3, <2>4, <3>1, <3>3 DEF RightValue, Value
    <3>4. CASE done < 0
      BY <2>1, <3>2, <3>4 DEF NumCalls
    <3>5. CASE done >= 0
      <4>1. args'[t][k] = Over(old, new)
        BY <1>0, <2>1, <3>5 DEF ArgTypes
      <4>2. DOMAIN args'[t][k] = DOMAIN new \union DOMAIN old
        BY <4>1 DEF Over
      <4>3. args'[t][k][i] = IF i \in DOMAIN new THEN new[i] ELSE old[i]
        BY <4>1, <4>2 DEF Over
      <4>4. \A j \in DOMAIN new : /\ j \in DOMAIN Parameters(k)
                                  /\ new[j] = Value(t, Parameters(k)[j], job)
        BY ArgsOfAreParameters DEF SetBy
      <4>5. CASE i \in DOMAIN new
        BY <3>3, <4>3, <4>4, <4>5
      <4>6. CASE i \notin DOMAIN new
        <5>1. i \in DOMAIN old /\ args'[t][k][i] = old[i]
          BY <4>2, <4>3, <4>6
        <5>2. done # NumCalls
          <6>1. i \in DOMAIN ArgsOf(k)
            BY <1>0, <5>1, ArgsOfAreParameters DEF ArgsAreRight, RightValue
          <6>. QED BY <4>6, <6>1, AllCallsSetAll DEF SetBy
        <5>. QED BY <3>2, <5>1, <5>2
      <4>. QED BY <4>5, <4>6
    <3>. QED BY <3>4, <3>5, <2>1
  <2>8. ASSUME NEW u \in Gpus, set'[u] > 0, set'[u] = tried'[u] PROVE input'[u] = tried'[u]
    <3>1. CASE u # t
      BY <1>0, <2>3, <2>4, <2>5, <2>8, <3>1 DEF ArgsAreRight
    <3>2. CASE u = t
      <4>1. done = NumCalls
        BY <1>0, <2>3, <2>4, <2>8, <3>2 DEF ArgTypes
      <4>. QED BY <1>0, <2>1, <2>3, <3>2, <4>1 DEF ArgTypes, NumCalls
    <3>. QED BY <3>1, <3>2
  <2>9. ArgsAreRight'
    BY <2>6, <2>7, <2>8 DEF ArgsAreRight
  <2>. QED BY <2>1, <2>2, <2>9 DEF ArgInv, Launchable
<1>2. ASSUME NEW t \in Gpus, XMRRunJob(t) PROVE ArgInv'
  <2>1. UNCHANGED <<args, input, tried, set>>
    BY <1>2 DEF XMRRunJob
  <2>2. ArgTypes' /\ ArgsAreRight'
    BY <1>0, <2>1 DEF ArgTypes, ArgsAreRight, RightValue
  <2>. DEFINE unset == {k \in Kernels : DOMAIN args[t][k] # DOMAIN Parameters(k)}
  <2>3. PICK batch \in Batches :
          launched' = {t} \X {k \in batch : \A u \in unset \intersect batch : k < u}
    BY <1>2 DEF XMRRunJob
  <2>4. batch \subseteq Kernels
    BY <2>3 DEF Batches, Kernels
  <2>5. \A k \in batch : k \in Int /\ ~(k < k)
    BY <2>4 DEF Kernels, Finals
  <2>6. \A p \in launched' : /\ p[1] = t /\ p[2] \in Kernels
                             /\ DOMAIN args[t][p[2]] = DOMAIN Parameters(p[2])
    BY <2>3, <2>4, <2>5
  <2>7. Launchable'
    BY <1>2, <2>1, <2>6 DEF Launchable, XMRRunJob
  <2>. QED BY <2>2, <2>7 DEF ArgInv
<1>3. CASE UNCHANGED argVars
  BY <1>0, <1>3 DEF argVars, ArgInv, ArgTypes, ArgsAreRight, RightValue, Launchable
<1>. QED BY <1>1, <1>2, <1>3 DEF NextArgs

\* Every argument that is set is the one the kernel takes there, of the right GPU and of a job
\* not older than the last that was set as a whole.
THEOREM ArgumentsAreRight == SpecArgs => []ArgInv
BY InitArgInv, StepArgInv, PTL DEF SpecArgs

\* A kernel that runs has the buffers it takes for each parameter, those of its own GPU, for
\* any number of jobs and whatever calls failed (gpu.c:845-995).
THEOREM KernelsHaveTheirBuffers == SpecArgs => []KernelsGetTheirBuffers
<1>1. ArgInv => KernelsGetTheirBuffers
  BY DEF ArgInv, Launchable, ArgsAreRight, RightValue, KernelsGetTheirBuffers
<1>. QED BY <1>1, ArgumentsAreRight, PTL

\* The kernels never work for a job before the last that was set as a whole, and all for that
\* one if none was tried since (minethd.cpp:150, 239).
THEOREM SetJobsAreWhole == SpecArgs => []ASetJobIsWhole
<1>1. ArgInv => ASetJobIsWhole
  <2>. SUFFICES ASSUME ArgInv, NEW p \in launched, p[2] \in Finals
                PROVE  LET target == args[p[1]][p[2]][4][2]
                       IN  /\ target \in 1 .. tried[p[1]]
                           /\ set[p[1]] = tried[p[1]]
                                => target = tried[p[1]] /\ input[p[1]] = tried[p[1]]
                           /\ set[p[1]] > 0 => target >= set[p[1]]
    BY DEF ASetJobIsWhole
  <2>. DEFINE t == p[1]
              k == p[2]
  <2>1. /\ t \in Gpus /\ k \in Kernels /\ tried[t] > 0 /\ 4 \in DOMAIN args[t][k]
        /\ Parameters(k)[4] = "target" /\ tried[t] \in Nat /\ set[t] \in Nat
    BY TargetIsTheFourth DEF ArgInv, Launchable, ArgTypes
  <2>2. RightValue(t, k, 4)
    BY <2>1 DEF ArgInv, ArgsAreRight
  <2>3. args[t][k][4][2] \in 1 .. tried[t] /\ args[t][k][4][2] >= set[t]
    BY <2>1, <2>2 DEF RightValue
  <2>4. set[t] = tried[t] => input[t] = tried[t]
    BY <2>1 DEF ArgInv, ArgsAreRight
  <2>. QED BY <2>1, <2>3, <2>4
<1>. QED BY <1>1, ArgumentsAreRight, PTL

-----------------------------------------------------------------------------
(***************************************************************************)
(* The configuration.  Confs is all that the getters may return for a file *)
(* that parse_config accepted, and each GPU was set up from one of them.   *)
(***************************************************************************)
GpusToSetUp == {Gpu(conf.threads[i]) : i \in DOMAIN conf.threads}

StartupInv ==
  /\ file \in Files /\ argv \in Argvs
  /\ mpc \in {"main", "parsed", "context", "start", "crashed", "exit"}
  /\ mpc \in {"main", "parsed"} => gpu = << >>
  /\ mpc \in {"parsed", "context", "start"} => ParseConfig(file) = "parsed" /\ conf \in Confs
  /\ mpc \in {"context", "start"} =>
       /\ gpu \in Seq(GpusToSetUp)
       /\ Len(gpu) <= Len(conf.threads)
       /\ \A i \in DOMAIN gpu : gpu[i] = Gpu(conf.threads[i])
  /\ mpc = "start" => Len(gpu) = Len(conf.threads)

-----------------------------------------------------------------------------
LEMMA FileTypes ==
  ASSUME StartupInv
  PROVE  /\ file.values \in [Keys -> Values]
         /\ file.threads \in Seq([ThreadKeys -> Values])
         /\ Len(file.threads) \in Nat /\ Len(file.threads) < Huge /\ Huge \in Nat
         /\ DOMAIN file.threads = 1 .. Len(file.threads)
         /\ \A i \in DOMAIN file.threads : file.threads[i] \in [ThreadKeys -> Values]
         /\ argv \in Seq(Int) /\ Len(argv) \in Nat
<1>1. /\ file \in [sse2 : BOOLEAN, readable : BOOLEAN, size : STRING, newline : BOOLEAN,
                   last : Keys, spare : BOOLEAN, values : [Keys -> Values],
                   threads : Seq([ThreadKeys -> Values])]
      /\ Len(file.threads) < Huge /\ Huge \in Nat
      /\ argv \in Seq(Int)
  BY FileAssumption, OverrideAssumption DEF StartupInv
<1>. QED BY <1>1

\* What was read is what the file says, but for a number at its end that the closing brace cut.
LEMMA WhatIsRead ==
  ASSUME StartupInv, ParseConfig(file) = "parsed", NEW key \in Keys
  PROVE  /\ CheckType(key, file.values[key])
         /\ Kept(key) \/ key \in Numbers => Document(file).values[key].type = file.values[key].type
         /\ Kept(key) \/ key \notin Numbers => Document(file).values[key] = file.values[key]
         /\ Document(file).values[key].n \in Nat
<1>1. CheckType(key, Document(file).values[key])
  BY DEF ParseConfig, LooksRight
<1>2. /\ file.values \in [Keys -> Values] /\ file.last \in Keys
      /\ file \in [sse2 : BOOLEAN, readable : BOOLEAN, size : STRING, newline : BOOLEAN,
                   last : Keys, spare : BOOLEAN, values : [Keys -> Values],
                   threads : Seq([ThreadKeys -> Values])]
  BY FileTypes, FileAssumption DEF StartupInv
<1>3. file.values[key] \in [type : STRING, n : Nat]
  BY <1>2 DEF Values
<1>4. CASE file.newline \/ file.last # key
  <2>1. Document(file).values[key] = file.values[key]
    BY <1>2, <1>4 DEF Document, CutShort
  <2>. QED BY <1>1, <1>3, <2>1
<1>5. CASE ~file.newline /\ file.last = key
  <2>. DEFINE v == file.values[key]
              w == Document(file).values[key]
  <2>1. w = IF v.type = "uint" /\ v.n >= 10 THEN [v EXCEPT !.n = v.n \div 10]
            ELSE IF v.type \in {"negative", "fraction"} /\ file.spare THEN v ELSE Missing
    BY <1>2, <1>5 DEF Document, CutShort, IsUint64
  <2>2. w.type # "missing"
    BY <1>1 DEF CheckType, IsBool
  <2>3. v.type \in {"uint", "negative", "fraction"} /\ w.type = v.type /\ w.n \in Nat
    BY <1>3, <2>1, <2>2 DEF Missing
  <2>4. key \in Numbers
    BY <1>1, <2>3 DEF CheckType, IsBool
  <2>. QED BY <1>5, <2>3, <2>4 DEF CheckType, Kept
<1>. QED BY <1>4, <1>5

LEMMA PlacesFit ==
  ASSUME NEW n \in Nat, NEW i \in 1 .. n, i <= 2, NEW place \in 1 .. 2, NEW m \in Nat,
         m >= (IF n < 2 THEN n ELSE 2) * 2 + 3
  PROVE  2 * (i - 1) + place \in 1 .. m
<1>1. CASE i = 1
  BY <1>1
<1>2. CASE i = 2
  BY <1>2
<1>. QED BY <1>1, <1>2

\* The overrides of the command line, as main takes them and as its usage describes them.
LEMMA ThreadOverrides ==
  ASSUME StartupInv, NEW i \in DOMAIN file.threads, NEW place \in {1, 2}, NEW value
  PROVE  Overridden(value.n, ThreadOverride(file.threads, argv, i, place))
           = ThreadAsked(i, place, value)
<1>1. /\ i \in 1 .. Len(file.threads) /\ Len(file.threads) \in Nat
      /\ argv \in Seq(Int) /\ Len(argv) \in Nat
  BY FileTypes
<1>2. i <= 2 <=> i <= NumOverridden(file.threads)
  BY <1>1 DEF NumOverridden
<1>3. ASSUME i <= 2, TakesOverrides(file.threads, argv)
      PROVE  2 * (i - 1) + place \in 1 .. Len(argv) /\ argv[2 * (i - 1) + place] \in Int
  <2>1. Len(argv) >= (IF Len(file.threads) < 2 THEN Len(file.threads) ELSE 2) * 2 + 3
    BY <1>3 DEF TakesOverrides, NumOverridden
  <2>2. place \in 1 .. 2
    OBVIOUS
  <2>3. 2 * (i - 1) + place \in 1 .. Len(argv)
    BY <1>1, <1>3, <2>1, <2>2, PlacesFit
  <2>. QED BY <1>1, <2>3
<1>. QED
  BY <1>1, <1>2, <1>3, SMTT(30)
  DEF Overridden, ThreadOverride, Override, ThreadAsked, Asked, Given,
     TakesOverrides, NumOverridden

LEMMA OptionOverrides ==
  ASSUME StartupInv, NEW place \in 1 .. 3
  PROVE  LET k == NumOverridden(file.threads)
             o == OptionOverride(file.threads, argv, place)
         IN  /\ k = IF Len(file.threads) < 2 THEN Len(file.threads) ELSE 2
             /\ o \in Int
             /\ o >= 0 <=> Given(k, place)
             /\ Given(k, place) => o = argv[2 * k + place]
<1>. DEFINE k == NumOverridden(file.threads)
<1>1. /\ Len(file.threads) \in Nat /\ argv \in Seq(Int) /\ Len(argv) \in Nat
  BY FileTypes
<1>2. k = (IF Len(file.threads) < 2 THEN Len(file.threads) ELSE 2) /\ k \in Nat
  BY <1>1 DEF NumOverridden
<1>3. ASSUME TakesOverrides(file.threads, argv)
      PROVE  2 * k + place \in 1 .. Len(argv) /\ argv[2 * k + place] \in Int
  BY <1>1, <1>2, <1>3, SMTT(30) DEF TakesOverrides
<1>. QED
  BY <1>1, <1>2, <1>3 DEF OptionOverride, Override, Given, TakesOverrides

\* What the getters return for a thread.
LEMMA ThreadsAsRead ==
  ASSUME StartupInv, ParseConfig(file) = "parsed", conf \in Confs
  PROVE  /\ Len(conf.threads) = Len(file.threads) /\ DOMAIN conf.threads = DOMAIN file.threads
         /\ \A i \in DOMAIN file.threads :
              LET c == file.threads[i]
              IN  /\ conf.threads[i].intensity = ThreadAsked(i, 1, c["intensity"])
                  /\ conf.threads[i].intensity \in Int
                  /\ conf.threads[i].w_size = ThreadAsked(i, 2, c["worksize"])
                  /\ conf.threads[i].stridedIndex \in GetUint64(c["strided_index"])
                  /\ conf.threads[i].memChunk \in GetUint64(c["mem_chunk"])
<1>. DEFINE cfgs(i) == {[cfg EXCEPT
                 !.intensity = Overridden(@, ThreadOverride(file.threads, argv, i, 1)),
                 !.w_size = Overridden(@, ThreadOverride(file.threads, argv, i, 2))] :
               cfg \in ThreadConfigs(file.threads[i])}
<1>1. DOMAIN conf.threads = DOMAIN file.threads
  BY DEF Confs
<1>2. \A i \in DOMAIN file.threads : conf.threads[i] \in cfgs(i)
  BY DEF Confs
<1>3. Len(conf.threads) = Len(file.threads)
  <2>1. Len(file.threads) \in Nat /\ DOMAIN conf.threads = 1 .. Len(file.threads)
    BY <1>1, FileTypes
  <2>. QED BY <2>1
<1>4. ASSUME NEW i \in DOMAIN file.threads
      PROVE  /\ conf.threads[i].intensity = ThreadAsked(i, 1, file.threads[i]["intensity"])
             /\ conf.threads[i].intensity \in Int
             /\ conf.threads[i].w_size = ThreadAsked(i, 2, file.threads[i]["worksize"])
             /\ conf.threads[i].stridedIndex \in GetUint64(file.threads[i]["strided_index"])
             /\ conf.threads[i].memChunk \in GetUint64(file.threads[i]["mem_chunk"])
  <2>. DEFINE c == file.threads[i]
  <2>1. PICK cfg \in ThreadConfigs(c) :
          conf.threads[i] = [cfg EXCEPT
                 !.intensity = Overridden(cfg.intensity, ThreadOverride(file.threads, argv, i, 1)),
                 !.w_size = Overridden(cfg.w_size, ThreadOverride(file.threads, argv, i, 2))]
    BY <1>2
  <2>2. PICK s \in GetUint64(c["strided_index"]), m \in GetUint64(c["mem_chunk"]) :
          cfg = [index |-> c["index"].n, intensity |-> c["intensity"].n,
                 w_size |-> c["worksize"].n, stridedIndex |-> s, memChunk |-> m]
    BY <2>1 DEF ThreadConfigs
  <2>3. /\ conf.threads[i].stridedIndex = s /\ conf.threads[i].memChunk = m
        /\ conf.threads[i].intensity
             = Overridden(c["intensity"].n, ThreadOverride(file.threads, argv, i, 1))
        /\ conf.threads[i].w_size
             = Overridden(c["worksize"].n, ThreadOverride(file.threads, argv, i, 2))
    BY <2>1, <2>2
  <2>4. ThreadAsked(i, 1, c["intensity"]) \in Int
    <3>1. c["intensity"].n \in Nat
      BY FileTypes DEF ThreadKeys, Values
    <3>2. Given(i - 1, 1) /\ i <= 2 => argv[2 * (i - 1) + 1] \in Int
      <4>1. /\ i \in 1 .. Len(file.threads) /\ Len(file.threads) \in Nat
            /\ argv \in Seq(Int) /\ Len(argv) \in Nat
        BY FileTypes
      <4>2. Given(i - 1, 1) /\ i <= 2 => 2 * (i - 1) + 1 \in 1 .. Len(argv)
        <5>. SUFFICES ASSUME Given(i - 1, 1), i <= 2 PROVE 2 * (i - 1) + 1 \in 1 .. Len(argv)
          OBVIOUS
        <5>1. Len(argv) >= (IF Len(file.threads) < 2 THEN Len(file.threads) ELSE 2) * 2 + 3
          BY <4>1 DEF Given
        <5>2. 1 \in 1 .. 2
          OBVIOUS
        <5>. QED BY <4>1, <5>1, <5>2, PlacesFit
      <4>. QED BY <4>1, <4>2
    <3>. QED BY <3>1, <3>2 DEF ThreadAsked, Asked
  <2>. QED BY <2>2, <2>3, <2>4, ThreadOverrides
<1>. QED BY <1>1, <1>3, <1>4

\* The unroll factor is a power of two, and the least one that is enough if there is one.
LEMMA UnrollFactors ==
  ASSUME NEW n \in Int
  PROVE  IsPower(GetUnrollFactor(n)) /\ (IsPower(n) => GetUnrollFactor(n) = n)
<1>. DEFINE bounded   == IF n < 1 THEN 1 ELSE IF n > 64 THEN 64 ELSE n
            Shift(r)  == IF r < bounded THEN 2 * r ELSE r
            Shift3(r) == Shift(Shift(Shift(r)))
<1>1. bounded \in 1 .. 64 /\ (IsPower(n) => bounded = n)
  BY DEF IsPower
<1>2. GetUnrollFactor(n) = Shift3(Shift3(1))
  BY DEF GetUnrollFactor
<1>. HIDE DEF bounded
<1>3. Shift3(1) = IF bounded > 4 THEN 8 ELSE IF bounded > 2 THEN 4 ELSE IF bounded > 1 THEN 2 ELSE 1
  BY <1>1
<1>4. Shift3(8) = IF bounded > 32 THEN 64 ELSE IF bounded > 16 THEN 32
                  ELSE IF bounded > 8 THEN 16 ELSE 8
  BY <1>1
<1>5. bounded <= 4 => Shift3(4) = 4 /\ (bounded <= 2 => Shift3(2) = 2)
                      /\ (bounded <= 1 => Shift3(1) = 1)
  BY <1>1
<1>. HIDE DEF Shift3
<1>. QED BY <1>1, <1>2, <1>3, <1>4, <1>5 DEF IsPower

-----------------------------------------------------------------------------
LEMMA InitStartupInv == InitStartup => StartupInv
BY DEF InitStartup, StartupInv

LEMMA StepStartupInv == StartupInv /\ [NextStartup]_startupVars => StartupInv'
<1>. SUFFICES ASSUME StartupInv, [NextStartup]_startupVars PROVE StartupInv'
  OBVIOUS
<1>a. file' = file /\ argv' = argv
  BY DEF NextStartup, ReadConfig, InitOpenCL, InitOpenCLGpu, StartThreads, startupVars
<1>b. Confs' = Confs
  BY <1>a DEF Confs
<1>c. conf' = conf => GpusToSetUp' = GpusToSetUp /\ \A c : Gpu(c)' = Gpu(c)
  BY DEF GpusToSetUp, Gpu
<1>d. ASSUME mpc \in {"parsed", "context", "start"}
      PROVE  Len(conf.threads) \in Nat /\ DOMAIN conf.threads = 1 .. Len(conf.threads)
  BY <1>d, ThreadsAsRead, FileTypes DEF StartupInv
<1>1. CASE ReadConfig
  BY <1>1, <1>a, <1>b DEF ReadConfig, Exit, StartupInv
<1>e. ASSUME Exit PROVE StartupInv'
  BY <1>a, <1>e DEF Exit, StartupInv
<1>2. CASE InitOpenCL
  <2>1. CASE mpc' = "context" /\ UNCHANGED <<conf, gpu>>
    <3>1. mpc = "parsed" /\ gpu' = << >>
      BY <1>2, <2>1 DEF InitOpenCL, StartupInv
    <3>2. Len(gpu') = 0 /\ DOMAIN gpu' = {} /\ gpu' \in Seq(GpusToSetUp)
      BY <3>1
    <3>. QED BY <1>a, <1>b, <1>c, <1>d, <2>1, <3>1, <3>2 DEF StartupInv
  <2>. QED BY <1>2, <1>e, <2>1 DEF InitOpenCL
<1>3. CASE InitOpenCLGpu
  <2>. DEFINE new == Gpu(conf.threads[Len(gpu) + 1])
  <2>1. CASE gpu' = Append(gpu, new) /\ UNCHANGED <<mpc, conf>>
    <3>1. /\ mpc = "context" /\ gpu \in Seq(GpusToSetUp) /\ Len(gpu) < Len(conf.threads)
          /\ Len(gpu) \in Nat /\ \A i \in DOMAIN gpu : gpu[i] = Gpu(conf.threads[i])
      BY <1>3 DEF InitOpenCLGpu, StartupInv
    <3>2. new \in GpusToSetUp
      BY <1>d, <3>1 DEF GpusToSetUp
    <3>. HIDE DEF new
    <3>3. /\ gpu' \in Seq(GpusToSetUp) /\ Len(gpu') = Len(gpu) + 1
          /\ DOMAIN gpu' = 1 .. Len(gpu) + 1 /\ DOMAIN gpu = 1 .. Len(gpu)
          /\ \A i \in 1 .. Len(gpu) + 1 : gpu'[i] = IF i = Len(gpu) + 1 THEN new ELSE gpu[i]
      BY <2>1, <3>1, <3>2
    <3>. USE DEF new
    <3>4. \A i \in DOMAIN gpu' : gpu'[i] = Gpu(conf.threads[i])
      BY <3>1, <3>3
    <3>. HIDE DEF new
    <3>5. Len(gpu') <= Len(conf.threads)
      BY <1>d, <3>1, <3>3
    <3>. QED BY <1>a, <1>b, <1>c, <2>1, <3>1, <3>3, <3>4, <3>5 DEF StartupInv
  <2>. QED BY <1>3, <1>e, <2>1 DEF InitOpenCLGpu
<1>4. CASE StartThreads
  BY <1>4, <1>a, <1>b, <1>c DEF StartThreads, StartupInv
<1>5. CASE UNCHANGED startupVars
  BY <1>5, <1>a, <1>b, <1>c DEF startupVars, StartupInv
<1>. QED BY <1>1, <1>2, <1>3, <1>4, <1>5 DEF NextStartup

\* Whatever the files and the command lines: the mining threads only start with a GPU for each
\* thread of a file that was parsed, set up from what the getters return (cli-miner.cpp:46-79;
\* minethd.cpp:155-174).
THEOREM EachThreadHasItsGpu == SpecStartup => []StartupInv
BY InitStartupInv, StepStartupInv, PTL DEF SpecStartup

-----------------------------------------------------------------------------
LEMMA FlagsAsAsked ==
  ASSUME StartupInv, ParseConfig(file) = "parsed", NEW key \in Bools, NEW place \in 1 .. 2
  PROVE  Flag(Document(file).values[key], OptionOverride(file.threads, argv, place))
           = FlagAsked(place, key)
<1>1. Document(file).values[key] = file.values[key]
  <2>1. key \in Keys /\ key \notin Numbers
    BY DEF Keys, Bools, Numbers
  <2>. QED BY <2>1, WhatIsRead
<1>. DEFINE k == NumOverridden(file.threads)
            o == OptionOverride(file.threads, argv, place)
<1>2. /\ k = IF Len(file.threads) < 2 THEN Len(file.threads) ELSE 2
      /\ o >= 0 <=> Given(k, place)
      /\ Given(k, place) => o = argv[2 * k + place]
  BY OptionOverrides
<1>. HIDE DEF k, o
<1>3. FlagAsked(place, key)
        = IF Given(k, place) THEN argv[2 * k + place] # 0 ELSE file.values[key].type = "true"
  BY <1>2 DEF FlagAsked
<1>4. Flag(file.values[key], o)
        = IF Given(k, place) THEN argv[2 * k + place] # 0 ELSE file.values[key].type = "true"
  BY <1>2 DEF Flag
<1>. QED BY <1>1, <1>3, <1>4 DEF o

\* Mining only starts as file and command line ask for, whatever they hold
\* (jconf.cpp:124-169, 301-453; cli-miner.cpp:46-79; minethd.cpp:155-174).
THEOREM ProgramMinesAsConfigured == SpecStartup => []MinesAsConfigured
<1>1. StartupInv => MinesAsConfigured
  <2>. SUFFICES ASSUME StartupInv, mpc = "start" PROVE MinesAsConfigured
    BY DEF MinesAsConfigured
  <2>1. ParseConfig(file) = "parsed" /\ conf \in Confs /\ Len(gpu) = Len(conf.threads)
    BY DEF StartupInv
  <2>2. \A key \in Keys : file.values[key].type # "missing"
    <3>. TAKE key \in Keys
    <3>. QED BY <2>1, WhatIsRead DEF CheckType, IsBool
  <2>3. ASSUME Kept("gpu_thread_num")
        PROVE  Len(file.threads) = file.values["gpu_thread_num"].n
    <3>. DEFINE v == file.values["gpu_thread_num"]
    <3>1. "gpu_thread_num" \in Keys /\ "gpu_thread_num" \notin Bools \union Strings \union Arrays
      BY DEF Keys, Numbers, Bools, Strings, Arrays
    <3>2. CheckType("gpu_thread_num", v) /\ Document(file).values["gpu_thread_num"] = v
      BY <2>1, <2>3, <3>1, WhatIsRead
    <3>3. GetUint64(v) = {Len(file.threads)}
      BY <2>1, <3>2 DEF ParseConfig, LooksRight
    <3>4. v.type = "uint" \/ GetUint64(v) = {Huge}
      BY <3>1, <3>2 DEF CheckType, GetUint64, IsUint64, IsBool
    <3>5. v.type = "uint"
      BY <3>3, <3>4, FileTypes
    <3>. QED BY <3>3, <3>5 DEF GetUint64, IsUint64
  <2>4. Len(gpu) = Len(file.threads) /\ DOMAIN gpu = DOMAIN file.threads
    <3>1. Len(gpu) \in Nat /\ DOMAIN gpu = 1 .. Len(gpu)
      BY DEF StartupInv
    <3>. QED BY <2>1, <3>1, ThreadsAsRead, FileTypes
  <2>5. ASSUME NEW i \in DOMAIN gpu
        PROVE  LET c == file.threads[i]
                   o == gpu[i].options
               IN  /\ gpu[i].scratchpads = ThreadAsked(i, 1, c["intensity"])
                   /\ gpu[i].states = gpu[i].scratchpads
                   /\ gpu[i].branches > gpu[i].scratchpads
                   /\ o.workSize = ThreadAsked(i, 2, c["worksize"])
                   /\ o.shuffle = FlagAsked(1, "test_shuffle")
                   /\ o.intMath = FlagAsked(2, "test_int_math")
                   /\ IsUint64(c["strided_index"]) => o.stridedIndex = c["strided_index"].n
                   /\ IsUint64(c["mem_chunk"]) => o.memChunk = c["mem_chunk"].n
    <3>. DEFINE t == conf.threads[i]
    <3>1. gpu[i] = Gpu(t)
      BY <2>5 DEF StartupInv
    <3>2. /\ t.intensity = ThreadAsked(i, 1, file.threads[i]["intensity"]) /\ t.intensity \in Int
          /\ t.w_size = ThreadAsked(i, 2, file.threads[i]["worksize"])
          /\ t.stridedIndex \in GetUint64(file.threads[i]["strided_index"])
          /\ t.memChunk \in GetUint64(file.threads[i]["mem_chunk"])
      BY <2>1, <2>4, <2>5, ThreadsAsRead
    <3>3. /\ conf.shuffle = FlagAsked(1, "test_shuffle")
          /\ conf.intMath = FlagAsked(2, "test_int_math")
      <4>1. /\ conf.shuffle = Flag(Document(file).values["test_shuffle"],
                                   OptionOverride(file.threads, argv, 1))
            /\ conf.intMath = Flag(Document(file).values["test_int_math"],
                                   OptionOverride(file.threads, argv, 2))
        BY <2>1 DEF Confs
      <4>2. "test_shuffle" \in Bools /\ "test_int_math" \in Bools /\ 1 \in 1 .. 2 /\ 2 \in 1 .. 2
        BY DEF Bools
      <4>. QED BY <2>1, <4>1, <4>2, FlagsAsAsked
    <3>4. \A v, n : IsUint64(v) /\ n \in GetUint64(v) => n = v.n
      BY DEF GetUint64
    <3>5. /\ gpu[i].scratchpads = t.intensity /\ gpu[i].states = t.intensity
          /\ gpu[i].branches = t.intensity + 2 /\ gpu[i].options.workSize = t.w_size
          /\ gpu[i].options.stridedIndex = t.stridedIndex /\ gpu[i].options.memChunk = t.memChunk
          /\ gpu[i].options.shuffle = conf.shuffle /\ gpu[i].options.intMath = conf.intMath
      BY <3>1 DEF Gpu
    <3>. HIDE DEF t
    <3>6. gpu[i].branches > gpu[i].scratchpads
      BY <3>2, <3>5
    <3>. QED BY <3>2, <3>3, <3>4, <3>5, <3>6
  <2>. QED BY <2>2, <2>3, <2>4, <2>5 DEF MinesAsConfigured
<1>. QED BY <1>1, EachThreadHasItsGpu, PTL

\* The kernels are only built with an unroll factor that is a power of two up to 64, the one
\* asked for if that is one (jconf.cpp:225-238).
THEOREM UnrollFactorsAreValid == SpecStartup => []UnrollFactorIsValid
<1>1. StartupInv => UnrollFactorIsValid
  <2>. SUFFICES ASSUME StartupInv, mpc = "start", NEW i \in DOMAIN gpu
                PROVE  LET asked == OptionAsked(3, "main_loop_unroll_factor")
                       IN  /\ IsPower(gpu[i].options.unroll)
                           /\ Kept("main_loop_unroll_factor") /\ IsPower(asked)
                                => gpu[i].options.unroll = asked
    BY DEF UnrollFactorIsValid
  <2>. DEFINE key == "main_loop_unroll_factor"
              read == Document(file).values[key]
              k == NumOverridden(file.threads)
              o == OptionOverride(file.threads, argv, 3)
  <2>1. ParseConfig(file) = "parsed" /\ conf \in Confs /\ gpu[i] = Gpu(conf.threads[i])
    BY DEF StartupInv
  <2>2. PICK n \in GetUint64(read) : conf.unroll = GetUnrollFactor(Overridden(n, o))
    BY <2>1 DEF Confs
  <2>3. key \in Keys /\ key \notin Bools \union Strings \union Arrays
    BY DEF Keys, Numbers, Bools, Strings, Arrays
  <2>4. read.n \in Nat /\ CheckType(key, file.values[key])
        /\ (Kept(key) => read = file.values[key])
    BY <2>1, <2>3, WhatIsRead
  <2>5. /\ k = IF Len(file.threads) < 2 THEN Len(file.threads) ELSE 2
        /\ o \in Int
        /\ o >= 0 <=> Given(k, 3)
        /\ Given(k, 3) => o = argv[2 * k + 3]
    <3>1. 3 \in 1 .. 3
      OBVIOUS
    <3>. QED BY <3>1, OptionOverrides
  <2>6. n \in Int
    BY <2>2, <2>4, FileTypes DEF GetUint64
  <2>7. gpu[i].options.unroll = GetUnrollFactor(Overridden(n, o))
    BY <2>1, <2>2 DEF Gpu
  <2>. HIDE DEF k, o
  <2>8. Overridden(n, o) \in Int
    BY <2>5, <2>6 DEF Overridden
  <2>9. OptionAsked(3, key) = IF Given(k, 3) THEN argv[2 * k + 3] ELSE file.values[key].n
    BY <2>5 DEF OptionAsked, Asked
  <2>10. ASSUME Kept(key), IsPower(OptionAsked(3, key))
         PROVE  Overridden(n, o) = OptionAsked(3, key)
    <3>1. CASE Given(k, 3)
      BY <2>5, <2>9, <3>1 DEF Overridden
    <3>2. CASE ~Given(k, 3)
      <4>1. file.values[key].n # 0
        BY <2>9, <2>10, <3>2 DEF IsPower
      <4>2. file.values[key].type = "uint"
        BY <2>3, <4>1, FileTypes DEF Values
      <4>3. n = file.values[key].n
        BY <2>2, <2>4, <2>10, <4>2 DEF GetUint64, IsUint64
      <4>. QED BY <2>5, <2>9, <3>2, <4>3 DEF Overridden
    <3>. QED BY <3>1, <3>2
  <2>. QED BY <2>7, <2>8, <2>10, UnrollFactors
<1>. QED BY <1>1, EachThreadHasItsGpu, PTL
=============================================================================
