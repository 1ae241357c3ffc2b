----------------------------- MODULE KernelArgs -----------------------------
(***************************************************************************)
(* What XMRSetJob gives the kernels of each GPU for a job, call by call    *)
(* (gpu.c), and what the kernels take (cryptonight.cl).  A call that fails *)
(* leaves the rest of the arguments as they were, and the threads go on:   *)
(* they ignore what XMRSetJob returns.                                     *)
(***************************************************************************)
EXTENDS Integers

CONSTANTS Gpus,   \* the threads, each with a GpuContext of its own
          Jobs,   \* bound on the jobs of a thread
          Failures  \* bound on the jobs that are not set as a whole

VARIABLES args,     \* for each thread, kernel and index: the value set last
          input,    \* for each thread: the job whose input is in its buffer
          tried,    \* for each thread: the jobs it called XMRSetJob for
          set,      \* history, for each thread: the last job that was set as a whole
          failures, \* history: how many were not
          launched  \* history: the kernels the last batch of a thread launched

argVars == <<args, input, tried, set, failures, launched>>

\* ExtraBuffers: scratchpads, states, and the branches of Blake, Groestl, JH and Skein.
Extra == << "scratchpads", "states", "blake", "groestl", "jh", "skein" >>

\* cn0, cn1, cn2, and the four hashes in the order in which cn2 numbers them.
Finals == 3 .. 6
Kernels == 0 .. 2 \union Finals

Parameters(kernel) ==
  IF kernel = 0 THEN << "input", "scratchpads", "states", "threads" >>
  ELSE IF kernel = 1 THEN << "scratchpads", "states", "threads" >>
  ELSE IF kernel = 2
       THEN << "scratchpads", "states", "blake", "groestl", "jh", "skein", "threads" >>
  ELSE << "states", << "blake", "groestl", "jh", "skein" >>[kernel - 2], "output", "target" >>

-----------------------------------------------------------------------------
\* Mutant of BranchOf: the first branch is taken to be the first extra buffer but one.
BranchOfPrevious(i) == Extra[i + 2]

\* The branch of the i-th final hash.
BranchOf(i) == Extra[i + 3]

\* The arguments that are set for a kernel, in the order of the calls of clSetKernelArg.
ArgsOf(kernel) ==
  IF kernel = 0 THEN << "input", Extra[1], Extra[2], "threads" >>
  ELSE IF kernel = 1 THEN << Extra[1], Extra[2], "threads" >>
  ELSE IF kernel = 2 THEN << Extra[1], Extra[2], Extra[3], Extra[4], Extra[5], Extra[6], "threads" >>
  ELSE << Extra[2], BranchOf(kernel - 3), "output", "target" >>

\* The calls for the kernels before it, and for all kernels.
CallsBefore(kernel) == << 0, 4, 7, 14, 18, 22, 26 >>[kernel + 1]
NumCalls == 30

\* A target belongs to a job, all else to the thread's GPU.
Value(t, what, job) == << what, IF what = "target" THEN job ELSE t >>

\* What the first `done' calls set for a kernel.
SetBy(done, t, kernel, job) ==
  [i \in {i \in DOMAIN ArgsOf(kernel) : CallsBefore(kernel) + i <= done}
     |-> Value(t, ArgsOf(kernel)[i], job)]

\* Mutant of Over: what is set once is not set again.
OverUnset(old, new) ==
  [i \in DOMAIN old \union DOMAIN new |-> IF i \in DOMAIN old THEN old[i] ELSE new[i]]

\* Arguments, of which some are set anew.
Over(old, new) ==
  [i \in DOMAIN old \union DOMAIN new |-> IF i \in DOMAIN new THEN new[i] ELSE old[i]]

InitArgs ==
  /\ args = [t \in Gpus |-> [k \in Kernels |-> << >>]]
  /\ input = [t \in Gpus |-> 0] /\ tried = [t \in Gpus |-> 0]
  /\ set = [t \in Gpus |-> 0] /\ failures = 0 /\ launched = {}

\* XMRSetJob: the input is written and `done' arguments are set, or (done is -1) nothing is.
XMRSetJob(t, done) ==
  LET job == tried[t] + 1
  IN  /\ job <= Jobs
      /\ tried' = [tried EXCEPT ![t] = job]
      /\ IF done = NumCalls THEN set' = [set EXCEPT ![t] = job] /\ UNCHANGED failures
         ELSE failures < Failures /\ failures' = failures + 1 /\ UNCHANGED set
      /\ IF done < 0 THEN UNCHANGED <<input, args>>
         ELSE /\ input' = [input EXCEPT ![t] = job]
              /\ args' = [args EXCEPT ![t] =
                           [k \in Kernels |-> Over(args[t][k], SetBy(done, t, k, job))]]
      /\ launched' = {}

\* The kernels of a batch: the final ones whose branch is taken, and none after a failure.
Batches == {{k \in 0 .. 2 \union taken : k <= last} : taken \in SUBSET Finals, last \in -1 .. 6}

\* XMRRunJob: OpenCL rejects a kernel with an argument never set, which ends the batch, too.
\* The fifth argument of the final kernels is set here.
XMRRunJob(t) ==
  /\ tried[t] > 0
  /\ LET unset == {k \in Kernels : DOMAIN args[t][k] # DOMAIN Parameters(k)}
     IN  \E batch \in Batches :
           launched' = {t} \X {k \in batch : \A u \in unset \intersect batch : k < u}
  /\ UNCHANGED <<args, input, tried, set, failures>>

NextArgs == \E t \in Gpus :
  \/ \E done \in -1 .. NumCalls : XMRSetJob(t, done)
  \/ XMRRunJob(t)

SpecArgs == InitArgs /\ [][NextArgs]_argVars

-----------------------------------------------------------------------------
\* Whatever calls of XMRSetJob have failed, a kernel that runs has the buffers it takes for
\* each parameter, those of its own GPU; and the hash it is gets the branch cn2 filled for it
\* (gpu.c:845-995, cryptonight.cl:484, 560, 850, 1067-1250).
KernelsGetTheirBuffers ==
  \A p \in launched : \A i \in DOMAIN Parameters(p[2]) :
    LET value == args[p[1]][p[2]][i]
    IN  /\ value[1] = Parameters(p[2])[i]
        /\ value[1] # "target" => value[2] = p[1]

\* When the last job was set as a whole, all kernels work for it, whatever the jobs before it
\* left behind; and when it was not, a final kernel runs with the target of some job of this
\* thread, not with none (minethd.cpp:150, 239).
ASetJobIsWhole ==
  \A p \in launched : p[2] \in Finals =>
    LET target == args[p[1]][p[2]][4][2]
    IN  /\ target \in 1 .. tried[p[1]]
        /\ set[p[1]] = tried[p[1]] => target = tried[p[1]] /\ input[p[1]] = tried[p[1]]
        /\ set[p[1]] > 0 => target >= set[p[1]]
=============================================================================
