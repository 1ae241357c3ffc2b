------------------------------- MODULE Mailbox -------------------------------
(***************************************************************************)
(* What the executor's event queue promises: events are handled one by one *)
(* in the order in which they were posted, and none waits for ever.  No    *)
(* mutex, no condition variable, no thread that sleeps.                    *)
(***************************************************************************)
EXTENDS Sequences

CONSTANT Events

VARIABLE box  \* what was posted and is not yet handled

Init == box = <<>>

Post(ev) == box' = Append(box, ev)

Handle == /\ box # <<>>
          /\ box' = Tail(box)

Next == Handle \/ \E ev \in Events : Post(ev)

Spec == Init /\ [][Next]_box /\ WF_box(Handle)
=============================================================================
