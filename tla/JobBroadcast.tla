---------------------------- MODULE JobBroadcast ----------------------------
(***************************************************************************)
(* What minethd::thread_starter, switch_work and consume_work promise      *)
(* together: works are published one at a time; every mining thread takes  *)
(* every published work, in order, before the next one is published; and   *)
(* the GPU of a thread is only ever loaded with the work its thread took   *)
(* last.  How the promise is kept (a shared buffer, a counter and a job    *)
(* number) is the business of WorkSwitch, which refines this module.       *)
(***************************************************************************)
EXTENDS Integers, Sequences

CONSTANTS Threads,  \* the mining threads
          Works,    \* the works a caller may publish
          NoWork    \* the one that says "nothing to hash for now"

VARIABLES jobs,     \* every work published so far; jobs[k + 1] is job number k
          taken,    \* the number of the job each thread took last, -1 before it runs
          loaded    \* the work each GPU was loaded with last

vars == <<jobs, taken, loaded>>

Current == Len(jobs) - 1

Init == /\ \E w \in Works : jobs = <<w>>
        /\ taken = [t \in Threads |-> -1]
        /\ loaded = [t \in Threads |-> NoWork]

\* A thread is constructed with the first work already on its GPU.
Create(t) == /\ taken[t] = -1
             /\ loaded' = [loaded EXCEPT ![t] = jobs[1]]
             /\ UNCHANGED <<jobs, taken>>

\* A thread enters its loop: the first work counts as taken.
Start(t) == /\ taken[t] = -1
            /\ taken' = [taken EXCEPT ![t] = 0]
            /\ UNCHANGED <<jobs, loaded>>

Publish(w) == /\ \A t \in Threads : taken[t] = Current
              /\ jobs' = Append(jobs, w)
              /\ UNCHANGED <<taken, loaded>>

Take(t) == /\ taken[t] \in 0 .. Current - 1
           /\ taken' = [taken EXCEPT ![t] = @ + 1]
           /\ UNCHANGED <<jobs, loaded>>

Load(t) == /\ taken[t] > 0
           /\ jobs[taken[t] + 1] # NoWork
           /\ loaded' = [loaded EXCEPT ![t] = jobs[taken[t] + 1]]
           /\ UNCHANGED <<jobs, taken>>

Next == \/ \E w \in Works : Publish(w)
        \/ \E t \in Threads : Create(t) \/ Start(t) \/ Take(t) \/ Load(t)

Fairness == \A t \in Threads : WF_vars(Take(t)) /\ WF_vars(Load(t))

Safety == Init /\ [][Next]_vars

Spec == Safety /\ Fairness
=============================================================================
