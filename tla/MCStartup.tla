----------------------------- MODULE MCStartup -----------------------------
(***************************************************************************)
(* main until it starts the threads, with files that differ from a right   *)
(* one in a value or two; then, for that one, the jobs of the threads.     *)
(* Beside it the batches of one GPU, which share nothing with these.       *)
(***************************************************************************)
EXTENDS Startup, KernelArgs, RunJob

U(n) == [type |-> "uint", n |-> n]
T(type) == [type |-> type, n |-> 0]

RightValues ==
  [k \in Keys |-> IF k = "gpu_thread_num" THEN U(2)
                  ELSE IF k = "main_loop_unroll_factor" THEN U(16)
                  ELSE IF k \in Numbers THEN U(0)
                  ELSE IF k \in Bools THEN T("false")
                  ELSE IF k \in Arrays THEN T("array") ELSE T("string")]
RightThreads ==
  << [k \in ThreadKeys |-> IF k = "intensity" THEN U(4) ELSE IF k = "worksize" THEN U(2) ELSE U(0)],
     [k \in ThreadKeys |-> IF k = "intensity" THEN U(6) ELSE IF k = "affine_to_cpu" THEN T("false")
                           ELSE U(1)] >>
RightFile ==
  [sse2 |-> TRUE, readable |-> TRUE, size |-> "right", newline |-> TRUE, last |-> "prefer_ipv4",
   spare |-> FALSE, values |-> RightValues, threads |-> RightThreads]

OtherValues == {Missing, T("true"), T("string"), T("negative"), T("fraction"), U(1), U(11), U(70)}

\* A value of the file is another, or one of each thread.
Changed ==
  {[RightFile EXCEPT !.values[k] = v] : k \in Keys, v \in OtherValues}
  \union {[RightFile EXCEPT !.threads[1][k] = v, !.threads[2][l] = w] :
            k, l \in ThreadKeys, v, w \in OtherValues}

\* A byte is lost, or the file, or a thread.
Damaged ==
  {[RightFile EXCEPT !.sse2 = FALSE], [RightFile EXCEPT !.readable = FALSE],
   [RightFile EXCEPT !.size = "short"], [RightFile EXCEPT !.size = "oversized"],
   [RightFile EXCEPT !.threads = Tail(@), !.values["gpu_thread_num"] = U(1)],
   [RightFile EXCEPT !.threads = @ \o << @[2] >>, !.values["gpu_thread_num"] = U(3)]}
  \union {[RightFile EXCEPT !.newline = FALSE, !.last = k] : k \in Keys}
  \union {[RightFile EXCEPT !.newline = FALSE, !.last = k, !.values[k] = U(n)] :
            k \in Numbers, n \in {2, 20, 32}}
  \union {[RightFile EXCEPT !.newline = FALSE, !.last = k, !.values[k] = v, !.spare = b] :
            k \in Numbers, v \in {T("negative"), T("fraction")}, b \in BOOLEAN}

TheFiles == {RightFile} \union Changed \union Damaged

TheArgvs == { << >>, << 3, 1, 1, 1, 5 >>, << 3, -1, 5, 2, 1, 1, 5 >> }

-----------------------------------------------------------------------------
VARIABLE part  \* which of the two runs: the "start" of the program, or a "batch"

StartIdle == file = RightFile /\ argv = << >> /\ InitStartup /\ InitArgs
BatchIdle == branchOf = [n \in Nonces |-> 0] /\ good = {} /\ Init

InitParts ==
  \/ part = "start" /\ InitStartup /\ InitArgs /\ BatchIdle
  \/ part = "batch" /\ StartIdle /\ Init

\* The constructors of the threads set the first jobs once all GPUs are set up.
NextParts ==
  /\ UNCHANGED part
  /\ \/ part = "start" /\ NextStartup /\ UNCHANGED <<argVars, vars>>
     \/ /\ part = "start" /\ mpc = "start" /\ file = RightFile /\ argv = << >>
        /\ NextArgs /\ UNCHANGED <<startupVars, vars>>
     \/ part = "batch" /\ Next /\ UNCHANGED <<startupVars, argVars>>

SpecParts == InitParts /\ [][NextParts]_<<part, startupVars, argVars, vars>>
=============================================================================
