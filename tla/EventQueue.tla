----------------------------- MODULE EventQueue -----------------------------
(***************************************************************************)
(* thdq (thdq.hpp): a queue, a mutex and a condition variable, for any     *)
(* number of posting threads and the one thread that pops, the executor.   *)
(*                                                                         *)
(* What a thread does while it holds the mutex is one step, because all    *)
(* other accesses to the queue need the mutex too and none of them takes   *)
(* another lock inside.  push notifies after it has released the mutex, so *)
(* between its two steps anything may happen.  A condition variable may    *)
(* wake its waiter for no reason.                                          *)
(***************************************************************************)
EXTENDS Sequences

CONSTANTS Posters, \* the threads that push
          Events

VARIABLES queue,     \* queue_
          notifying, \* the threads between unlock and notify_one in push
          sleeping   \* whether the popping thread is in cond_.wait

queueVars == <<queue, notifying, sleeping>>

InitQueue == queue = <<>> /\ notifying = {} /\ sleeping = FALSE

Push(t, ev) ==
  /\ t \notin notifying
  /\ queue' = Append(queue, ev)
  /\ notifying' = notifying \union {t}
  /\ UNCHANGED sleeping

\* Mutant of NotifyOne: the wake-up is forgotten.
NotifyNobody(t) ==
  /\ t \in notifying
  /\ notifying' = notifying \ {t}
  /\ UNCHANGED <<queue, sleeping>>

NotifyOne(t) ==
  /\ t \in notifying
  /\ notifying' = notifying \ {t}
  /\ sleeping' = FALSE
  /\ UNCHANGED queue

\* pop finds the queue empty and waits, releasing the mutex.
Wait ==
  /\ ~sleeping /\ queue = <<>>
  /\ sleeping' = TRUE
  /\ UNCHANGED <<queue, notifying>>

WakeSpuriously ==
  /\ sleeping
  /\ sleeping' = FALSE
  /\ UNCHANGED <<queue, notifying>>

\* pop looks again after each wake-up and returns the first event if there is one.
Pop(ev) ==
  /\ ~sleeping /\ queue # <<>>
  /\ ev = Head(queue)
  /\ queue' = Tail(queue)
  /\ UNCHANGED <<notifying, sleeping>>

NextQueue == \/ Wait \/ WakeSpuriously
             \/ \E ev \in Events : Pop(ev)
             \/ \E t \in Posters : NotifyOne(t) \/ \E ev \in Events : Push(t, ev)

QueueFairness == /\ \A t \in Posters : WF_queueVars(NotifyOne(t))
                 /\ WF_queueVars(Wait \/ \E ev \in Events : Pop(ev))

QueueSpec == InitQueue /\ [][NextQueue]_queueVars /\ QueueFairness

-----------------------------------------------------------------------------
\* No wake-up is lost: if the popping thread sleeps although there are events, somebody
\* who pushed has yet to notify it (thdq.hpp:33-48, where the mutex is released first).
NoLostWakeup == sleeping /\ queue # <<>> => notifying # {}

\* The queue keeps the promise of a mailbox, its liveness included.
Box == INSTANCE Mailbox WITH box <- queue
ImplementsMailbox == Box!Spec
=============================================================================
