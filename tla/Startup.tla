------------------------------ MODULE Startup ------------------------------
(***************************************************************************)
(* From main to the start of the mining threads: the configuration is      *)
(* read, then every GPU is set up for one thread.  What OpenCL does may    *)
(* fail at any point, and then main returns.                               *)
(***************************************************************************)
EXTENDS Config

CONSTANTS Files, Argvs,       \* what the program may find
          Platforms, Devices, \* how many there are
          MaximumWorkSize     \* of a GPU

\* Values that are no numbers have no n, and there are fewer threads than 64 bits can count.
Values == {v \in [type : STRING, n : Nat] : v.type # "uint" => v.n = 0}
ASSUME FileAssumption ==
  \A f \in Files :
    /\ f \in [sse2 : BOOLEAN, readable : BOOLEAN, size : STRING, newline : BOOLEAN, last : Keys,
              spare : BOOLEAN, values : [Keys -> Values], threads : Seq([ThreadKeys -> Values])]
    /\ Len(f.threads) < Huge
ASSUME OverrideAssumption == Argvs \subseteq Seq(Int) /\ Huge \in Nat

VARIABLES file, argv,  \* as they are found
          mpc,         \* of main
          conf,        \* the thd_cfg of each thread and the options, as the getters return them
          gpu          \* for each thread, what InitOpenCLGpu has created

startupVars == <<file, argv, mpc, conf, gpu>>

InitStartup ==
  /\ file \in Files /\ argv \in Argvs
  /\ mpc = "main" /\ conf = << >> /\ gpu = << >>

Exit == mpc' = "exit" /\ UNCHANGED <<conf, gpu>>

\* What GetThreadConfig and the other getters return, overrides included.
Confs ==
  LET values  == Document(file).values
      threads == file.threads
      cfgs(i) == {[cfg EXCEPT !.intensity = Overridden(@, ThreadOverride(threads, argv, i, 1)),
                              !.w_size = Overridden(@, ThreadOverride(threads, argv, i, 2))] :
                    cfg \in ThreadConfigs(threads[i])}
      all     == UNION {cfgs(i) : i \in DOMAIN threads}
  IN  [threads  : {s \in [DOMAIN threads -> all] : \A i \in DOMAIN threads : s[i] \in cfgs(i)},
       platform : GetUint64(values["platform_index"]),
       shuffle  : {Flag(values["test_shuffle"], OptionOverride(threads, argv, 1))},
       intMath  : {Flag(values["test_int_math"], OptionOverride(threads, argv, 2))},
       unroll   : {GetUnrollFactor(Overridden(n, OptionOverride(threads, argv, 3))) :
                     n \in GetUint64(values["main_loop_unroll_factor"])}]

\* parse_config, and the overrides.
ReadConfig ==
  /\ mpc = "main"
  /\ \/ ParseConfig(file) = "parsed" /\ mpc' = "parsed" /\ conf' \in Confs /\ UNCHANGED gpu
     \/ ParseConfig(file) = "crashed" /\ mpc' = "crashed" /\ UNCHANGED <<conf, gpu>>
     \/ ParseConfig(file) = "refused" /\ Exit
  /\ UNCHANGED <<file, argv>>

\* InitOpenCL up to the context: platform and devices must exist.
InitOpenCL ==
  /\ mpc = "parsed"
  /\ \/ /\ conf.platform < Platforms
        /\ \A t \in DOMAIN conf.threads : conf.threads[t].index < Devices
        /\ mpc' = "context" /\ UNCHANGED <<conf, gpu>>
     \/ Exit
  /\ UNCHANGED <<file, argv>>

\* OpenCL's part: no IDX is defined for another STRIDED_INDEX, a work-group has a size, and a
\* buffer is not empty.
Buildable(o) == o.stridedIndex \in 0 .. 2 /\ o.workSize \in 1 .. MaximumWorkSize
Allocatable(elements) == elements > 0

Gpu(cfg) ==
  [scratchpads |-> cfg.intensity, states |-> cfg.intensity, branches |-> cfg.intensity + 2,
   options |-> [workSize |-> cfg.w_size, stridedIndex |-> cfg.stridedIndex,
                memChunk |-> cfg.memChunk, shuffle |-> conf.shuffle, intMath |-> conf.intMath,
                unroll |-> conf.unroll]]

\* InitOpenCLGpu for the next GPU: all it takes, or the end.
InitOpenCLGpu ==
  /\ mpc = "context" /\ Len(gpu) < Len(conf.threads)
  /\ LET new == Gpu(conf.threads[Len(gpu) + 1])
     IN  \/ /\ Allocatable(new.scratchpads) /\ Buildable(new.options)
            /\ gpu' = Append(gpu, new) /\ UNCHANGED <<mpc, conf>>
         \/ Exit
  /\ UNCHANGED <<file, argv>>

\* thread_starter, in do_benchmark.
StartThreads ==
  /\ mpc = "context" /\ Len(gpu) = Len(conf.threads) /\ mpc' = "start"
  /\ UNCHANGED <<file, argv, conf, gpu>>

NextStartup == ReadConfig \/ InitOpenCL \/ InitOpenCLGpu \/ StartThreads

SpecStartup == InitStartup /\ [][NextStartup]_startupVars

-----------------------------------------------------------------------------
(***************************************************************************)
(* What file and command line ask for, by the comments in config.txt and   *)
(* cli-miner.cpp: the file as it is, line by line.                         *)
(***************************************************************************)
IsPower(n) == n \in {1, 2, 4, 8, 16, 32, 64}

\* The argument after those for `before' threads and `place' - 1 options, if there is one.
Given(before, place) ==
  LET k == IF Len(file.threads) < 2 THEN Len(file.threads) ELSE 2
  IN  /\ before <= k /\ Len(argv) >= 2 * k + 3
      /\ argv[2 * before + place] >= 0
Asked(before, place, value) == IF Given(before, place) THEN argv[2 * before + place] ELSE value.n

ThreadAsked(i, place, value) ==
  IF i <= 2 THEN Asked(i - 1, place, value) ELSE value.n
OptionAsked(place, key) ==
  Asked(IF Len(file.threads) < 2 THEN Len(file.threads) ELSE 2, place, file.values[key])
FlagAsked(place, key) ==
  LET k == IF Len(file.threads) < 2 THEN Len(file.threads) ELSE 2
  IN  IF Given(k, place) THEN argv[2 * k + place] # 0 ELSE file.values[key].type = "true"

\* The last byte of a file without a newline is overwritten, which a number may survive.
Kept(key) == file.newline \/ file.last # key

\* A program that gets as far as to start the threads has read a file in which nothing is
\* missing, and has set up as many GPUs as it has threads, each with the buffers and the
\* program it was asked for, by the file or instead of it by the command line; a number at the
\* very end of the file and a strided_index or mem_chunk that is none excepted (jconf.cpp:124-169,
\* 301-453; cli-miner.cpp:46-79; minethd.cpp:155-174; gpu.c:571-743).
MinesAsConfigured ==
  mpc = "start" =>
    /\ \A key \in Keys : file.values[key].type # "missing"
    /\ Kept("gpu_thread_num") => Len(file.threads) = file.values["gpu_thread_num"].n
    /\ Len(gpu) = Len(file.threads)
    /\ \A i \in DOMAIN gpu :
         LET c == file.threads[i]
             o == gpu[i].options
         IN  /\ gpu[i].scratchpads = ThreadAsked(i, 1, c["intensity"])
             /\ gpu[i].states = gpu[i].scratchpads /\ gpu[i].branches > gpu[i].scratchpads
             /\ o.workSize = ThreadAsked(i, 2, c["worksize"])
             /\ o.shuffle = FlagAsked(1, "test_shuffle")
             /\ o.intMath = FlagAsked(2, "test_int_math")
             /\ IsUint64(c["strided_index"]) => o.stridedIndex = c["strided_index"].n
             /\ IsUint64(c["mem_chunk"]) => o.memChunk = c["mem_chunk"].n

\* The kernels are built with an unroll factor that config.txt calls valid, and with the one
\* asked for if that is valid itself (config.txt:28-33; jconf.cpp:225-238).
UnrollFactorIsValid ==
  mpc = "start" => \A i \in DOMAIN gpu :
    LET asked == OptionAsked(3, "main_loop_unroll_factor")
    IN  /\ IsPower(gpu[i].options.unroll)
        /\ Kept("main_loop_unroll_factor") /\ IsPower(asked) => gpu[i].options.unroll = asked
=============================================================================
