---------------------------- MODULE ExecutorProof ----------------------------
(***************************************************************************)
(* The executor, for any number of threads that ask for reports, of other  *)
(* posters, of timers and of ticks: reports reach the threads that asked   *)
(* for them, nothing that is posted is lost, the pools take turns, there   *)
(* is always one automatic report to come, and timed events are on time.   *)
(***************************************************************************)
EXTENDS Executor, SequenceTheorems, FiniteSetTheorems, TLAPS

IsHtml(e) == e[1] \in Html

\* A timed event is never a request: those are pushed by the web threads alone.
OtherTimers == {t \in TimedEvent : ~IsHtml(t.event)}

\* Who is inside get_http_report holds httpMutex, and the pointers are its own.
OneInside == \A r \in Requesters :
  hpc[r] \in {"push", "wait"} => pHttpString = r /\ httpReady = r

NotYetAsked == \A r \in Requesters : hpc[r] = "push" => r \notin ready

\* Some thread waits for the answer to this event.
Asked(e) == \E r \in Requesters : hpc[r] = "wait" /\ r \notin ready /\ e = <<Asks[r], 0>>

\* At most one request is on its way, in the queue or being handled.
OneRequest ==
  /\ \A i \in 1 .. Len(queue) : IsHtml(queue[i]) => Asked(queue[i])
  /\ \A i, j \in 1 .. Len(queue) : IsHtml(queue[i]) /\ IsHtml(queue[j]) => i = j
  /\ epc = "handle" /\ IsHtml(ev) =>
       Asked(ev) /\ \A i \in 1 .. Len(queue) : ~IsHtml(queue[i])

Answered == \A r \in Requesters :
  hpc[r] = "done" \/ (hpc[r] = "wait" /\ r \in ready) => data[r] = Asks[r]

RequestsInv == OneInside /\ NotYetAsked /\ OneRequest /\ Answered

Inv == TypeOK /\ lTimedEvents \in Seq(OtherTimers) /\ RequestsInv

-----------------------------------------------------------------------------
\* Sequences, and the events that are no requests.

LEMMA Appended ==
  ASSUME NEW S, NEW s \in Seq(S), NEW e \in S
  PROVE  /\ Append(s, e) \in Seq(S) /\ Len(Append(s, e)) = Len(s) + 1
         /\ \A i \in 1 .. Len(s) + 1 : Append(s, e)[i] = IF i <= Len(s) THEN s[i] ELSE e
  BY AppendProperties, LenProperties

\* What erase leaves.
LEMMA Erased ==
  ASSUME NEW S, NEW s \in Seq(S), NEW c \in 1 .. Len(s)
  PROVE  LET r == SubSeq(s, 1, c - 1) \o SubSeq(s, c + 1, Len(s))
         IN  /\ r \in Seq(S) /\ Len(r) = Len(s) - 1
             /\ \A i \in 1 .. Len(s) - 1 : r[i] = IF i < c THEN s[i] ELSE s[i + 1]
<1>. DEFINE a == SubSeq(s, 1, c - 1)
            b == SubSeq(s, c + 1, Len(s))
<1>1. Len(s) \in Nat /\ \A i \in 1 .. Len(s) : s[i] \in S BY LenProperties, ElementOfSeq
<1>2. a \in Seq(S) /\ Len(a) = c - 1 /\ \A i \in 1 .. c - 1 : a[i] = s[i]
  <2>1. c - 1 \in Int /\ \A i \in 1 .. c - 1 : s[i] \in S BY <1>1
  <2>2. /\ a \in Seq(S) /\ Len(a) = IF 1 <= c - 1 THEN (c - 1) - 1 + 1 ELSE 0
        /\ \A i \in 1 .. (c - 1) - 1 + 1 : a[i] = s[1 + i - 1]
    BY <2>1, SubSeqProperties
  <2>. QED BY <1>1, <2>2
<1>3. b \in Seq(S) /\ Len(b) = Len(s) - c /\ \A i \in 1 .. Len(s) - c : b[i] = s[c + i]
  <2>1. c + 1 \in Int /\ \A i \in c + 1 .. Len(s) : s[i] \in S BY <1>1
  <2>2. /\ b \in Seq(S) /\ Len(b) = IF c + 1 <= Len(s) THEN Len(s) - (c + 1) + 1 ELSE 0
        /\ \A i \in 1 .. Len(s) - (c + 1) + 1 : b[i] = s[c + 1 + i - 1]
    BY <1>1, <2>1, SubSeqProperties
  <2>. QED BY <1>1, <2>2
<1>. HIDE DEF a, b
<1>4. /\ a \o b \in Seq(S) /\ Len(a \o b) = Len(a) + Len(b)
      /\ \A i \in 1 .. Len(a) + Len(b) :
           (a \o b)[i] = IF i <= Len(a) THEN a[i] ELSE b[i - Len(a)]
  BY <1>2, <1>3, ConcatProperties
<1>5. Len(a \o b) = Len(s) - 1 BY <1>1, <1>2, <1>3, <1>4
<1>6. ASSUME NEW i \in 1 .. Len(s) - 1 PROVE (a \o b)[i] = IF i < c THEN s[i] ELSE s[i + 1]
  <2>1. (a \o b)[i] = IF i <= c - 1 THEN a[i] ELSE b[i - (c - 1)] BY <1>1, <1>2, <1>3, <1>4
  <2>2. CASE i < c BY <1>1, <1>2, <2>1, <2>2
  <2>3. CASE i >= c
    <3>. DEFINE k == i - (c - 1)
    <3>1. k \in 1 .. Len(s) - c /\ c + k = i + 1 BY <1>1, <2>3
    <3>. HIDE DEF k
    <3>2. b[k] = s[c + k] BY <1>3, <3>1
    <3>3. (a \o b)[i] = b[k] BY <1>1, <2>1, <2>3 DEF k
    <3>4. ~(i < c) BY <1>1, <2>3
    <3>. QED BY <3>1, <3>2, <3>3, <3>4
  <2>4. i < c \/ i >= c BY <1>1
  <2>. QED BY <2>2, <2>3, <2>4
<1>. QED BY <1>4, <1>5, <1>6 DEF a, b

LEMMA OtherEvents ==
  /\ \A e \in {HashrateLoop, PerfTick, Reconnect} : e \in Events /\ ~IsHtml(e)
  /\ \A id \in {dev_pool_id, usr_pool_id} : SwitchPool(id) \in Events /\ ~IsHtml(SwitchPool(id))
  BY ThreadAssumption DEF EventSet, IsHtml, Html, HashrateLoop, PerfTick, Reconnect, SwitchPool,
     dev_pool_id, usr_pool_id

LEMMA Requests ==
  ASSUME NEW r \in Requesters
  PROVE  <<Asks[r], 0>> \in Events /\ IsHtml(<<Asks[r], 0>>)
<1>1. Asks[r] \in Html BY ThreadAssumption
<1>. QED BY <1>1, ThreadAssumption DEF EventSet, IsHtml

LEMMA Numbers ==
  /\ TicksPerSec \in Nat \ {0} /\ SizeMax \in Nat \ {0} /\ SwitchPeriod \in Nat \ {0}
  /\ \A sec \in Nat : SecToTicks(sec) \in Nat
<1>1. TicksPerSec \in Nat \ {0} /\ SizeMax \in Nat \ {0} /\ DevDonatePeriod \in Nat \ {0}
  BY NumberAssumption
<1>2. \A sec \in Nat : SecToTicks(sec) \in Nat BY <1>1 DEF SecToTicks
<1>3. SwitchPeriod \in Nat \ {0}
  <2>1. PICK d \in Nat : DevDonatePeriod = 1 + d
    <3>1. DevDonatePeriod - 1 \in Nat BY <1>1
    <3>. QED BY <1>1, <3>1, DevDonatePeriod = 1 + (DevDonatePeriod - 1)
  <2>2. SwitchPeriod = TicksPerSec + d * TicksPerSec /\ d * TicksPerSec \in Nat
    BY <1>1, <2>1 DEF SwitchPeriod, SecToTicks
  <2>. QED BY <1>1, <2>2
<1>. QED BY <1>1, <1>2, <1>3

-----------------------------------------------------------------------------
\* What leaves the requests as they are.

\* Nothing of the queue, the handler and the web threads changes, or a handler of
\* something else begins or ends.
LEMMA RequestsUntouched ==
  ASSUME RequestsInv, queue' = queue, UNCHANGED httpVars,
         UNCHANGED <<epc, ev>> \/ epc' # "handle"
  PROVE  RequestsInv'
  BY DEF RequestsInv, OneInside, NotYetAsked, OneRequest, Answered, Asked, httpVars

\* An event is posted that is no request.
LEMMA RequestsAfterPost ==
  ASSUME Inv, NEW e \in Events, ~IsHtml(e), queue' = Append(queue, e), UNCHANGED httpVars,
         UNCHANGED <<epc, ev>> \/ epc' # "handle"
  PROVE  RequestsInv' /\ queue' \in Seq(Events)
<1>1. queue \in Seq(Events) BY DEF Inv, TypeOK
<1>2. /\ queue' \in Seq(Events) /\ Len(queue') = Len(queue) + 1 /\ Len(queue) \in Nat
      /\ \A i \in 1 .. Len(queue) + 1 : queue'[i] = IF i <= Len(queue) THEN queue[i] ELSE e
  BY <1>1, Appended, LenProperties
<1>3. \A i \in 1 .. Len(queue') : IsHtml(queue'[i]) => i \in 1 .. Len(queue) /\ queue'[i] = queue[i]
  BY <1>2
<1>4. hpc' = hpc /\ ready' = ready BY DEF httpVars
<1>5. OneRequest'
  <2>1. \A i \in 1 .. Len(queue') : IsHtml(queue'[i]) => Asked(queue'[i])
    BY <1>3 DEF Inv, RequestsInv, OneRequest
  <2>2. \A i, j \in 1 .. Len(queue') : IsHtml(queue'[i]) /\ IsHtml(queue'[j]) => i = j
    BY <1>3 DEF Inv, RequestsInv, OneRequest
  <2>3. epc' = "handle" /\ IsHtml(ev') =>
          Asked(ev') /\ \A i \in 1 .. Len(queue') : ~IsHtml(queue'[i])
    BY <1>3 DEF Inv, RequestsInv, OneRequest
  <2>. QED BY <1>4, <2>1, <2>2, <2>3 DEF OneRequest, IsHtml, Asked
<1>. QED BY <1>2, <1>5 DEF Inv, RequestsInv, OneInside, NotYetAsked, Answered, httpVars

\* push_timed_event adds to the list, and its iterator still points into it.
LEMMA TimersAfterPush ==
  ASSUME Inv, NEW e \in Events, ~IsHtml(e), NEW sec \in Nat, PushTimedEvent(e, sec)
  PROVE  /\ lTimedEvents' \in Seq(OtherTimers) /\ lTimedEvents' \in Seq(TimedEvent)
         /\ Len(lTimedEvents') = Len(lTimedEvents) + 1
         /\ timers' \in Seq([event : Events, due : Int])
<1>. DEFINE due == IF sec = 0 THEN NeverDue ELSE ticks + SecToTicks(sec)
            c == [event |-> e, due |-> due]
            t == [event |-> e, ticks_left |-> SecToTicks(sec), call |-> Len(timers) + 1]
<1>1. lTimedEvents' = Append(lTimedEvents, t) /\ timers' = Append(timers, c)
  BY DEF PushTimedEvent
<1>2. t \in OtherTimers
  <2>1. SecToTicks(sec) \in Nat /\ Len(timers) + 1 \in Nat
    BY Numbers, LenProperties DEF Inv, TypeOK
  <2>. QED BY <2>1 DEF OtherTimers, TimedEvent
<1>3. c \in [event : Events, due : Int]
  <2>1. SecToTicks(sec) \in Nat /\ ticks \in Nat BY Numbers DEF Inv, TypeOK
  <2>2. due \in Int BY <2>1 DEF NeverDue
  <2>. HIDE DEF due
  <2>. QED BY <2>2
<1>4. lTimedEvents \in Seq(OtherTimers) /\ timers \in Seq([event : Events, due : Int])
  BY DEF Inv, TypeOK
<1>. HIDE DEF t, c
<1>5. lTimedEvents' \in Seq(OtherTimers) /\ Len(lTimedEvents') = Len(lTimedEvents) + 1
  BY <1>1, <1>2, <1>4, Appended
<1>6. timers' \in Seq([event : Events, due : Int]) BY <1>1, <1>3, <1>4, Appended
<1>7. OtherTimers \subseteq TimedEvent BY DEF OtherTimers
<1>. QED BY <1>5, <1>6, <1>7, SeqMonotonic

\* The events of timers.
LEMMA TimerUnderCursor ==
  ASSUME Inv, cursor <= Len(lTimedEvents)
  PROVE  /\ cursor \in 1 .. Len(lTimedEvents) /\ lTimedEvents[cursor] \in OtherTimers
         /\ lTimedEvents[cursor].event \in Events /\ ~IsHtml(lTimedEvents[cursor].event)
<1>1. lTimedEvents \in Seq(OtherTimers) /\ cursor \in 1 .. Len(lTimedEvents) + 1
  BY DEF Inv, TypeOK
<1>2. Len(lTimedEvents) \in Nat BY <1>1, LenProperties
<1>3. cursor \in 1 .. Len(lTimedEvents) BY <1>1, <1>2
<1>4. lTimedEvents[cursor] \in OtherTimers BY <1>1, <1>3, ElementOfSeq
<1>. QED BY <1>3, <1>4 DEF OtherTimers, TimedEvent

LEMMA TimersAreEvents == OtherTimers \subseteq TimedEvent /\ Seq(OtherTimers) \subseteq Seq(TimedEvent)
<1>1. OtherTimers \subseteq TimedEvent BY DEF OtherTimers
<1>. QED BY <1>1, SeqMonotonic

-----------------------------------------------------------------------------
LEMMA InvInitially == Init => Inv
<1>. SUFFICES ASSUME Init PROVE Inv OBVIOUS
<1>1. queue = <<>> /\ lTimedEvents = <<>> /\ Len(<<>>) = 0 BY EmptySeq DEF Init, InitQueue
<1>2. queue \in Seq(Events) /\ lTimedEvents \in Seq(TimedEvent) /\ lTimedEvents \in Seq(OtherTimers)
  BY <1>1, EmptySeq
<1>3. left \in [{"clock"} \union Requesters \union Callers -> Nat]
  BY NumberAssumption DEF Init
<1>4. iSwitchPeriod \in 1 .. SwitchPeriod BY Numbers DEF Init
<1>5. ev \in Events BY OtherEvents DEF Init
<1>6. TypeOK
  <2>1. cursor \in 1 .. Len(lTimedEvents) + 1 BY <1>1 DEF Init
  <2>2. ticks \in Nat /\ pool \in {dev_pool_id, usr_pool_id} BY DEF Init
  <2>3. timers \in Seq([event : Events, due : Int]) BY EmptySeq DEF Init
  <2>. QED BY <1>2, <1>3, <1>4, <1>5, <2>1, <2>2, <2>3 DEF Init, InitQueue, TypeOK
<1>7. RequestsInv
  BY <1>1 DEF Init, RequestsInv, OneInside, NotYetAsked, OneRequest, Answered
<1>. QED BY <1>2, <1>6, <1>7 DEF Inv

LEMMA CallerKeepsInv ==
  ASSUME Inv, NEW c \in Callers, CallPushTimedEvent(c)
  PROVE  Inv'
<1>1. PICK sec \in Delays : PushTimedEvent(Reconnect, sec) BY DEF CallPushTimedEvent
<1>2. sec \in Nat BY NumberAssumption
<1>3. /\ lTimedEvents' \in Seq(OtherTimers) /\ lTimedEvents' \in Seq(TimedEvent)
      /\ Len(lTimedEvents') = Len(lTimedEvents) + 1
      /\ timers' \in Seq([event : Events, due : Int])
  BY <1>1, <1>2, OtherEvents, TimersAfterPush
<1>4. Len(lTimedEvents) \in Nat BY LenProperties DEF Inv
<1>5. cursor' \in 1 .. Len(lTimedEvents') + 1
  BY <1>3, <1>4 DEF CallPushTimedEvent, clockVars, Inv, TypeOK
<1>6. left' \in [{"clock"} \union Requesters \union Callers -> Nat]
  BY DEF CallPushTimedEvent, Inv, TypeOK
<1>7. TypeOK'
  BY <1>3, <1>5, <1>6 DEF CallPushTimedEvent, queueVars, clockVars, httpVars, Inv, TypeOK
<1>8. RequestsInv' BY RequestsUntouched DEF CallPushTimedEvent, queueVars, Inv
<1>. QED BY <1>3, <1>7, <1>8 DEF Inv

LEMMA ClockKeepsInv ==
  ASSUME Inv, Clock
  PROVE  Inv'
<1>1. CASE NextTick
  <2>1. PerfTick \in Events /\ ~IsHtml(PerfTick) BY OtherEvents
  <2>2. queue' = Append(queue, PerfTick) /\ UNCHANGED httpVars /\ UNCHANGED <<epc, ev>>
    BY <1>1 DEF NextTick, Push
  <2>3. RequestsInv' /\ queue' \in Seq(Events) BY <2>1, <2>2, RequestsAfterPost
  <2>4. notifying' \subseteq Posters BY <1>1, ThreadAssumption DEF NextTick, Push, Inv, TypeOK
  <2>5. left' \in [{"clock"} \union Requesters \union Callers -> Nat]
    BY <1>1 DEF NextTick, Inv, TypeOK
  <2>6. TypeOK'
    BY <1>1, <2>3, <2>4, <2>5 DEF NextTick, Push, timedVars, httpVars, Inv, TypeOK
  <2>. QED BY <1>1, <2>3, <2>6 DEF NextTick, timedVars, Inv
<1>2. CASE LockTimedEvents
  <2>1. RequestsInv' BY <1>2, RequestsUntouched DEF LockTimedEvents, queueVars, Inv
  <2>2. Len(lTimedEvents) \in Nat BY LenProperties DEF Inv
  <2>3. TypeOK'
    BY <1>2, <2>2 DEF LockTimedEvents, queueVars, timedVars, httpVars, Inv, TypeOK
  <2>. QED BY <1>2, <2>1, <2>3 DEF LockTimedEvents, timedVars, Inv
<1>3. CASE CountDown
  <2>1. RequestsInv' BY <1>3, RequestsUntouched DEF CountDown, queueVars, Inv
  <2>2. cursor \in 1 .. Len(lTimedEvents) /\ lTimedEvents[cursor] \in OtherTimers
    BY <1>3, TimerUnderCursor DEF CountDown
  <2>. DEFINE t == [lTimedEvents[cursor] EXCEPT !.ticks_left = TicksLeft]
  <2>3. TicksLeft \in Nat
    <3>1. lTimedEvents[cursor].ticks_left - 1 \in Int BY <2>2 DEF OtherTimers, TimedEvent
    <3>. DEFINE n == lTimedEvents[cursor].ticks_left - 1
    <3>2. n \in Int /\ SizeMax \in Nat \ {0} BY <3>1, Numbers
    <3>. HIDE DEF n
    <3>3. n % SizeMax \in Nat BY <3>2
    <3>. QED BY <3>3 DEF n, TicksLeft
  <2>4. t \in OtherTimers
    <3>. HIDE DEF TicksLeft
    <3>. QED BY <2>2, <2>3 DEF OtherTimers, TimedEvent
  <2>5. lTimedEvents' = [lTimedEvents EXCEPT ![cursor] = t] BY <1>3 DEF CountDown
  <2>. HIDE DEF t
  <2>6. lTimedEvents' \in Seq(OtherTimers) /\ Len(lTimedEvents') = Len(lTimedEvents)
    BY <2>2, <2>4, <2>5, ExceptSeq DEF Inv
  <2>7. lTimedEvents' \in Seq(TimedEvent) BY <2>6, TimersAreEvents
  <2>8. cursor' \in 1 .. Len(lTimedEvents') + 1
    <3>1. Len(lTimedEvents) \in Nat BY LenProperties DEF Inv
    <3>. QED BY <1>3, <2>2, <2>6, <3>1 DEF CountDown
  <2>9. TypeOK'
    BY <1>3, <2>7, <2>8 DEF CountDown, queueVars, httpVars, Inv, TypeOK
  <2>. QED BY <2>1, <2>6, <2>9 DEF Inv
<1>4. CASE Fire
  <2>. DEFINE e == lTimedEvents[cursor].event
  <2>1. e \in Events /\ ~IsHtml(e) /\ cursor \in 1 .. Len(lTimedEvents)
    BY <1>4, TimerUnderCursor DEF Fire
  <2>2. queue' = Append(queue, e) /\ UNCHANGED httpVars /\ UNCHANGED <<epc, ev>>
    BY <1>4 DEF Fire, Push
  <2>. HIDE DEF e
  <2>3. RequestsInv' /\ queue' \in Seq(Events) BY <2>1, <2>2, RequestsAfterPost
  <2>4. notifying' \subseteq Posters BY <1>4, ThreadAssumption DEF Fire, Push, Inv, TypeOK
  <2>5. lTimedEvents' \in Seq(OtherTimers) /\ Len(lTimedEvents') = Len(lTimedEvents) - 1
    BY <1>4, <2>1, Erased DEF Fire, Inv
  <2>6. lTimedEvents' \in Seq(TimedEvent) BY <2>5, TimersAreEvents
  <2>7. cursor' \in 1 .. Len(lTimedEvents') + 1
    <3>1. Len(lTimedEvents) \in Nat BY LenProperties DEF Inv
    <3>2. cursor' = cursor BY <1>4 DEF Fire, clockVars
    <3>3. cursor \in 1 .. (Len(lTimedEvents) - 1) + 1 BY <2>1, <3>1
    <3>. QED BY <2>5, <3>2, <3>3
  <2>8. TypeOK'
    BY <1>4, <2>3, <2>4, <2>6, <2>7 DEF Fire, Push, clockVars, httpVars, Inv, TypeOK
  <2>. QED BY <2>3, <2>5, <2>8 DEF Inv
<1>5. CASE EndOfTick
  <2>1. iSwitchPeriod' \in 1 .. SwitchPeriod
    <3>1. \/ iSwitchPeriod' \in {iSwitchPeriod, SwitchPeriod}
          \/ iSwitchPeriod > 1 /\ iSwitchPeriod' = iSwitchPeriod - 1
      BY <1>5 DEF EndOfTick, SwitchPools
    <3>2. iSwitchPeriod \in 1 .. SwitchPeriod BY DEF Inv, TypeOK
    <3>. QED BY <3>1, <3>2, Numbers
  <2>2. /\ RequestsInv' /\ queue' \in Seq(Events) /\ notifying' \subseteq Posters
        /\ sleeping' \in BOOLEAN /\ pool' \in {dev_pool_id, usr_pool_id}
    <3>1. CASE UNCHANGED <<queueVars, pool>>
      BY <1>5, <3>1, RequestsUntouched DEF EndOfTick, queueVars, Inv, TypeOK
    <3>2. ASSUME NEW id \in {dev_pool_id, usr_pool_id}, Push("clock", SwitchPool(id)), pool' = id
          PROVE  /\ RequestsInv' /\ queue' \in Seq(Events) /\ notifying' \subseteq Posters
                 /\ sleeping' \in BOOLEAN /\ pool' \in {dev_pool_id, usr_pool_id}
      <4>1. SwitchPool(id) \in Events /\ ~IsHtml(SwitchPool(id)) BY OtherEvents
      <4>2. queue' = Append(queue, SwitchPool(id)) /\ UNCHANGED httpVars /\ UNCHANGED <<epc, ev>>
        BY <1>5, <3>2 DEF EndOfTick, Push
      <4>3. RequestsInv' /\ queue' \in Seq(Events) BY <4>1, <4>2, RequestsAfterPost
      <4>4. notifying' \subseteq Posters /\ sleeping' \in BOOLEAN
        BY <3>2, ThreadAssumption DEF Push, Inv, TypeOK
      <4>. QED BY <3>2, <4>3, <4>4
    <3>. QED BY <1>5, <3>1, <3>2 DEF EndOfTick, SwitchPools
  <2>3. Len(lTimedEvents) \in Nat BY LenProperties DEF Inv
  <2>4. TypeOK'
    BY <1>5, <2>1, <2>2, <2>3 DEF EndOfTick, timedVars, httpVars, Inv, TypeOK
  <2>. QED BY <1>5, <2>2, <2>4 DEF EndOfTick, timedVars, Inv
<1>. QED BY <1>1, <1>2, <1>3, <1>4, <1>5 DEF Clock

\* The first event is taken out of the queue.
LEMMA RequestsAfterPop ==
  ASSUME Inv, PopEvent
  PROVE  RequestsInv' /\ queue' \in Seq(Events) /\ ev' \in Events
<1>1. /\ queue \in Seq(Events) /\ queue # <<>> /\ queue' = Tail(queue) /\ ev' = Head(queue)
      /\ ev' \in Events /\ epc' = "handle" /\ UNCHANGED httpVars
  BY DEF PopEvent, Pop, Inv, TypeOK
<1>2. /\ queue' \in Seq(Events) /\ Len(queue') = Len(queue) - 1
      /\ \A i \in 1 .. Len(queue') : queue'[i] = queue[i + 1]
  BY <1>1, HeadTailProperties
<1>3. Len(queue) \in Nat \ {0} BY <1>1, EmptySeq
<1>4. ev' = queue[1] /\ 1 \in 1 .. Len(queue) BY <1>1, <1>3
<1>5. \A i \in 1 .. Len(queue') : i + 1 \in 1 .. Len(queue) /\ i + 1 # 1 /\ queue'[i] = queue[i + 1]
  BY <1>2, <1>3
<1>6. /\ \A i \in 1 .. Len(queue) : IsHtml(queue[i]) => Asked(queue[i])
      /\ \A i, j \in 1 .. Len(queue) : IsHtml(queue[i]) /\ IsHtml(queue[j]) => i = j
  BY DEF Inv, RequestsInv, OneRequest
<1>7. OneRequest'
  <2>1. \A i \in 1 .. Len(queue') : IsHtml(queue'[i]) => Asked(queue'[i]) BY <1>5, <1>6
  <2>2. ASSUME NEW i \in 1 .. Len(queue'), NEW j \in 1 .. Len(queue'),
               IsHtml(queue'[i]), IsHtml(queue'[j])
        PROVE  i = j
    <3>1. i + 1 = j + 1 BY <1>5, <1>6, <2>2
    <3>. QED BY <3>1
  <2>3. IsHtml(ev') => Asked(ev') /\ \A i \in 1 .. Len(queue') : ~IsHtml(queue'[i])
    BY <1>4, <1>5, <1>6
  <2>4. hpc' = hpc /\ ready' = ready BY <1>1 DEF httpVars
  <2>. QED BY <2>1, <2>2, <2>3, <2>4 DEF OneRequest, IsHtml, Asked
<1>. QED BY <1>1, <1>2, <1>7 DEF Inv, RequestsInv, OneInside, NotYetAsked, Answered, httpVars

\* The report is written to the string of the thread that waits for it.
LEMMA RequestsAfterReport ==
  ASSUME Inv, HttpReport
  PROVE  /\ RequestsInv'
         /\ data' \in [Requesters -> Html \union {"empty"}] /\ ready' \subseteq Requesters
<1>1. PICK r \in Requesters : hpc[r] = "wait" /\ r \notin ready /\ ev = <<Asks[r], 0>>
  BY DEF HttpReport, Inv, RequestsInv, OneRequest, IsHtml, Asked
<1>2. pHttpString = r /\ httpReady = r BY <1>1 DEF Inv, RequestsInv, OneInside
<1>3. ev[1] = Asks[r] /\ Asks[r] \in Html BY <1>1, ThreadAssumption
<1>4. data' = [data EXCEPT ![r] = Asks[r]] /\ ready' = ready \union {r}
  BY <1>2, <1>3 DEF HttpReport
<1>5. data \in [Requesters -> Html \union {"empty"}] /\ ready \subseteq Requesters
  BY DEF Inv, TypeOK
<1>6. data' \in [Requesters -> Html \union {"empty"}] /\ ready' \subseteq Requesters
  BY <1>3, <1>4, <1>5
<1>7. \A q \in Requesters : hpc[q] \in {"push", "wait"} => q = r
  BY <1>2 DEF Inv, RequestsInv, OneInside
<1>8. UNCHANGED <<queue, hpc, pHttpString, httpReady>> /\ epc' = "pop"
  BY DEF HttpReport, queueVars
<1>9. \A i \in 1 .. Len(queue) : ~IsHtml(queue[i])
  BY DEF HttpReport, Inv, RequestsInv, OneRequest, IsHtml
<1>10. OneRequest' BY <1>8, <1>9 DEF OneRequest, IsHtml
<1>11. OneInside' BY <1>8 DEF Inv, RequestsInv, OneInside
<1>12. NotYetAsked' BY <1>1, <1>4, <1>7, <1>8 DEF Inv, RequestsInv, NotYetAsked
<1>13. Answered'
  <2>. SUFFICES ASSUME NEW q \in Requesters,
                       hpc[q] = "done" \/ (hpc[q] = "wait" /\ q \in ready')
                PROVE  data'[q] = Asks[q]
    BY <1>8 DEF Answered
  <2>1. CASE q = r BY <1>4, <1>5, <2>1
  <2>2. CASE q # r
    <3>1. hpc[q] = "done" BY <1>7, <2>2
    <3>2. data[q] = Asks[q] BY <3>1 DEF Inv, RequestsInv, Answered
    <3>. QED BY <1>4, <1>5, <2>2, <3>2
  <2>. QED BY <2>1, <2>2
<1>. QED BY <1>6, <1>10, <1>11, <1>12, <1>13 DEF RequestsInv

LEMMA ExMainKeepsInv ==
  ASSUME Inv, ExMain
  PROVE  Inv'
<1>1. CASE ConnectFirst
  <2>1. queue' = Append(queue, Reconnect) /\ UNCHANGED httpVars /\ epc' # "handle"
    BY <1>1 DEF ConnectFirst, Push
  <2>2. RequestsInv' /\ queue' \in Seq(Events) BY <2>1, OtherEvents, RequestsAfterPost
  <2>3. notifying' \subseteq Posters BY <1>1, ThreadAssumption DEF ConnectFirst, Push, Inv, TypeOK
  <2>4. TypeOK'
    BY <1>1, <2>2, <2>3 DEF ConnectFirst, Push, clockVars, timedVars, httpVars, Inv, TypeOK
  <2>. QED BY <1>1, <2>2, <2>4 DEF ConnectFirst, timedVars, Inv
<1>2. ASSUME UNCHANGED <<queueVars, clockVars, httpVars, ev, left, ticks, pool>>, epc' = "pop",
             UNCHANGED timedVars \/ PushTimedEvent(HashrateLoop, AutohashTime)
      PROVE  Inv'
  <2>1. RequestsInv' BY <1>2, RequestsUntouched DEF queueVars, Inv
  <2>2. /\ lTimedEvents' \in Seq(OtherTimers) /\ lTimedEvents' \in Seq(TimedEvent)
        /\ Len(lTimedEvents') \in {Len(lTimedEvents), Len(lTimedEvents) + 1}
        /\ timers' \in Seq([event : Events, due : Int])
    <3>1. CASE UNCHANGED timedVars BY <3>1 DEF timedVars, Inv, TypeOK
    <3>2. CASE PushTimedEvent(HashrateLoop, AutohashTime)
      <4>1. AutohashTime \in Nat BY NumberAssumption
      <4>. QED BY <3>2, <4>1, OtherEvents, TimersAfterPush
    <3>. QED BY <1>2, <3>1, <3>2
  <2>3. cursor' \in 1 .. Len(lTimedEvents') + 1
    <3>1. Len(lTimedEvents) \in Nat BY LenProperties DEF Inv
    <3>2. cursor' = cursor /\ cursor \in 1 .. Len(lTimedEvents) + 1
      BY <1>2 DEF clockVars, Inv, TypeOK
    <3>. QED BY <2>2, <3>1, <3>2
  <2>4. TypeOK' BY <1>2, <2>2, <2>3 DEF queueVars, clockVars, httpVars, Inv, TypeOK
  <2>. QED BY <2>1, <2>2, <2>4 DEF Inv
<1>3. CASE StartAutohash BY <1>2, <1>3 DEF StartAutohash
<1>4. CASE HandleOther BY <1>2, <1>4 DEF HandleOther
<1>5. CASE HandleHashrateLoop BY <1>2, <1>5 DEF HandleHashrateLoop
<1>6. CASE WaitForEvent
  <2>1. RequestsInv' BY <1>6, RequestsUntouched DEF WaitForEvent, Wait, Inv
  <2>2. TypeOK'
    BY <1>6 DEF WaitForEvent, Wait, clockVars, timedVars, httpVars, Inv, TypeOK
  <2>. QED BY <1>6, <2>1, <2>2 DEF WaitForEvent, timedVars, Inv
<1>7. CASE PopEvent
  <2>1. RequestsInv' /\ queue' \in Seq(Events) /\ ev' \in Events BY <1>7, RequestsAfterPop
  <2>2. TypeOK'
    BY <1>7, <2>1 DEF PopEvent, Pop, clockVars, timedVars, httpVars, Inv, TypeOK
  <2>. QED BY <1>7, <2>1, <2>2 DEF PopEvent, timedVars, Inv
<1>8. CASE HttpReport
  <2>1. /\ RequestsInv'
        /\ data' \in [Requesters -> Html \union {"empty"}] /\ ready' \subseteq Requesters
    BY <1>8, RequestsAfterReport
  <2>2. TypeOK'
    BY <1>8, <2>1 DEF HttpReport, queueVars, clockVars, timedVars, Inv, TypeOK
  <2>. QED BY <1>8, <2>1, <2>2 DEF HttpReport, timedVars, Inv
<1>. QED BY <1>1, <1>3, <1>4, <1>5, <1>6, <1>7, <1>8 DEF ExMain

-----------------------------------------------------------------------------
\* While no thread waits for an answer that is yet to come, no request is on its way.
LEMMA NoRequestOnItsWay ==
  ASSUME RequestsInv, \A q \in Requesters : hpc[q] = "wait" => q \in ready
  PROVE  /\ \A i \in 1 .. Len(queue) : ~IsHtml(queue[i])
         /\ ~(epc = "handle" /\ IsHtml(ev))
  BY DEF RequestsInv, OneRequest, Asked

LEMMA RequesterKeepsInv ==
  ASSUME Inv, NEW r \in Requesters, Requester(r)
  PROVE  Inv'
<1>1. CASE GetHttpReport(r)
  <2>1. \A q \in Requesters : hpc[q] \notin {"push", "wait"} BY <1>1 DEF GetHttpReport
  <2>2. (\A i \in 1 .. Len(queue) : ~IsHtml(queue[i])) /\ ~(epc = "handle" /\ IsHtml(ev))
    BY <2>1, NoRequestOnItsWay DEF Inv
  <2>3. UNCHANGED <<queue, epc, ev>> BY <1>1 DEF GetHttpReport, queueVars
  <2>4. OneRequest' BY <2>2, <2>3 DEF OneRequest, IsHtml
  <2>5. TypeOK'
    <3>1. /\ data' \in [Requesters -> Html \union {"empty"}]
          /\ hpc' \in [Requesters -> {"idle", "push", "wait", "done"}]
          /\ left' \in [{"clock"} \union Requesters \union Callers -> Nat]
      BY <1>1 DEF GetHttpReport, Inv, TypeOK
    <3>. QED BY <1>1, <3>1 DEF GetHttpReport, queueVars, clockVars, timedVars, Inv, TypeOK
  <2>6. hpc' = [hpc EXCEPT ![r] = "push"] /\ data' = [data EXCEPT ![r] = "empty"]
    BY <1>1 DEF GetHttpReport
  <2>7. \A q \in Requesters : q # r => hpc'[q] = hpc[q] /\ data'[q] = data[q]
    BY <2>6 DEF Inv, TypeOK
  <2>8. hpc'[r] = "push" BY <2>6 DEF Inv, TypeOK
  <2>9. OneInside' /\ NotYetAsked' /\ Answered'
    BY <1>1, <2>1, <2>7, <2>8 DEF GetHttpReport, Inv, RequestsInv, OneInside, NotYetAsked, Answered
  <2>. QED BY <1>1, <2>4, <2>5, <2>9 DEF GetHttpReport, timedVars, RequestsInv, Inv
<1>2. CASE PushRequest(r)
  <2>. DEFINE e == <<Asks[r], 0>>
  <2>1. hpc[r] = "push" /\ queue' = Append(queue, e) /\ hpc' = [hpc EXCEPT ![r] = "wait"]
    BY <1>2 DEF PushRequest, Push
  <2>2. e \in Events /\ IsHtml(e) BY Requests
  <2>3. \A q \in Requesters : hpc[q] \in {"push", "wait"} => q = r
    BY <2>1 DEF Inv, RequestsInv, OneInside
  <2>4. (\A i \in 1 .. Len(queue) : ~IsHtml(queue[i])) /\ ~(epc = "handle" /\ IsHtml(ev))
    BY <2>1, <2>3, NoRequestOnItsWay DEF Inv
  <2>5. r \notin ready BY <2>1 DEF Inv, RequestsInv, NotYetAsked
  <2>6. queue \in Seq(Events) BY DEF Inv, TypeOK
  <2>7. /\ queue' \in Seq(Events) /\ Len(queue') = Len(queue) + 1 /\ Len(queue) \in Nat
        /\ \A i \in 1 .. Len(queue) + 1 : queue'[i] = IF i <= Len(queue) THEN queue[i] ELSE e
    <3>. HIDE DEF e
    <3>. QED BY <2>1, <2>2, <2>6, Appended, LenProperties
  <2>8. \A i \in 1 .. Len(queue') : IsHtml(queue'[i]) => i = Len(queue') /\ queue'[i] = e
    <3>. HIDE DEF e
    <3>. QED BY <2>4, <2>7
  <2>9. hpc'[r] = "wait" /\ \A q \in Requesters : q # r => hpc'[q] = hpc[q]
    BY <2>1 DEF Inv, TypeOK
  <2>10. UNCHANGED <<epc, ev, data, pHttpString, httpReady, ready>> BY <1>2 DEF PushRequest
  <2>11. OneRequest' BY <2>4, <2>5, <2>8, <2>9, <2>10 DEF OneRequest, IsHtml, Asked
  <2>12. OneInside' /\ NotYetAsked' /\ Answered'
    BY <2>1, <2>3, <2>5, <2>9, <2>10 DEF Inv, RequestsInv, OneInside, NotYetAsked, Answered
  <2>13. TypeOK'
    <3>1. notifying' \subseteq Posters /\ sleeping' \in BOOLEAN
      BY <1>2, ThreadAssumption DEF PushRequest, Push, Inv, TypeOK
    <3>2. hpc' \in [Requesters -> {"idle", "push", "wait", "done"}] BY <2>1 DEF Inv, TypeOK
    <3>. QED BY <1>2, <2>7, <3>1, <3>2 DEF PushRequest, clockVars, timedVars, Inv, TypeOK
  <2>. QED BY <1>2, <2>11, <2>12, <2>13 DEF PushRequest, timedVars, RequestsInv, Inv
<1>3. CASE ReportIsReady(r)
  <2>1. /\ hpc[r] = "wait" /\ r \in ready /\ hpc' = [hpc EXCEPT ![r] = "done"]
        /\ UNCHANGED <<queue, epc, ev, data, httpReady, ready>>
    BY <1>3 DEF ReportIsReady, queueVars
  <2>2. \A q \in Requesters : hpc[q] \in {"push", "wait"} => q = r
    BY <2>1 DEF Inv, RequestsInv, OneInside
  <2>3. (\A i \in 1 .. Len(queue) : ~IsHtml(queue[i])) /\ ~(epc = "handle" /\ IsHtml(ev))
    BY <2>1, <2>2, NoRequestOnItsWay DEF Inv
  <2>4. OneRequest' BY <2>1, <2>3 DEF OneRequest, IsHtml
  <2>5. hpc'[r] = "done" /\ \A q \in Requesters : q # r => hpc'[q] = hpc[q]
    BY <2>1 DEF Inv, TypeOK
  <2>6. OneInside' /\ NotYetAsked' /\ Answered'
    BY <2>1, <2>2, <2>5 DEF Inv, RequestsInv, OneInside, NotYetAsked, Answered
  <2>7. TypeOK'
    <3>1. hpc' \in [Requesters -> {"idle", "push", "wait", "done"}] BY <2>1 DEF Inv, TypeOK
    <3>. QED BY <1>3, <3>1 DEF ReportIsReady, queueVars, clockVars, timedVars, Inv, TypeOK
  <2>. QED BY <1>3, <2>4, <2>6, <2>7 DEF ReportIsReady, timedVars, RequestsInv, Inv
<1>. QED BY <1>1, <1>2, <1>3 DEF Requester

LEMMA InvHolds == Spec => []Inv
<1>1. Inv /\ [Next]_vars => Inv'
  <2>. SUFFICES ASSUME Inv, [Next]_vars PROVE Inv' OBVIOUS
  <2>1. ASSUME UNCHANGED <<queue, clockVars, timedVars, epc, ev, httpVars, left, ticks, pool>>,
               notifying' \subseteq notifying, sleeping' \in BOOLEAN
        PROVE  Inv'
    <3>1. RequestsInv' BY <2>1, RequestsUntouched DEF Inv
    <3>2. TypeOK' BY <2>1 DEF clockVars, timedVars, httpVars, Inv, TypeOK
    <3>. QED BY <2>1, <3>1, <3>2 DEF timedVars, Inv
  <2>2. CASE UNCHANGED vars BY <2>1, <2>2 DEF vars, queueVars, Inv, TypeOK
  <2>3. CASE WakeUp BY <2>1, <2>3 DEF WakeUp, WakeSpuriously
  <2>4. ASSUME NEW t \in Posters, Notify(t) PROVE Inv'
    BY <2>1, <2>4 DEF Notify, NotifyOne
  <2>5. ASSUME NEW r \in Requesters, Requester(r) PROVE Inv' BY <2>5, RequesterKeepsInv
  <2>6. ASSUME NEW c \in Callers, CallPushTimedEvent(c) PROVE Inv' BY <2>6, CallerKeepsInv
  <2>7. CASE Clock BY <2>7, ClockKeepsInv
  <2>8. CASE ExMain BY <2>8, ExMainKeepsInv
  <2>. QED BY <2>2, <2>3, <2>4, <2>5, <2>6, <2>7, <2>8 DEF Next
<1>. QED BY <1>1, InvInitially, PTL DEF Spec

-----------------------------------------------------------------------------
\* Types are kept: the countdown of the pools stays in its period, and the clock's iterator
\* inside the list, whatever is added and erased (executor.cpp:60-106).
THEOREM TypesAreKept == Spec => []TypeOK
<1>1. Inv => TypeOK BY DEF Inv
<1>. QED BY <1>1, InvHolds, PTL

\* What http_report asserts holds, and no promise is fulfilled twice (executor.cpp:496, 516).
THEOREM EachRequestIsThere == Spec => []RequestIsThere
<1>1. Inv => RequestIsThere
  <2>. SUFFICES ASSUME Inv, epc = "handle", ev[1] \in Html
                PROVE  pHttpString \in Requesters /\ httpReady \notin ready
    BY DEF RequestIsThere
  <2>1. PICK r \in Requesters : hpc[r] = "wait" /\ r \notin ready
    BY DEF Inv, RequestsInv, OneRequest, IsHtml, Asked
  <2>. QED BY <2>1 DEF Inv, RequestsInv, OneInside
<1>. QED BY <1>1, InvHolds, PTL

\* Every thread gets the report it asked for (executor.cpp:519-534).
THEOREM EachGetsItsReport == Spec => []OwnReport
<1>1. Inv => OwnReport BY DEF Inv, RequestsInv, Answered, OwnReport
<1>. QED BY <1>1, InvHolds, PTL

-----------------------------------------------------------------------------
\* To the queue, every step of the executor is one of thdq, or none.
LEMMA StepsOfTheQueue ==
  ASSUME Inv, [Next]_vars
  PROVE  [NextQueue]_queueVars
<1>1. {"clock", "executor"} \union Requesters = Posters BY ThreadAssumption
<1>2. ASSUME NEW t \in Posters, NEW e \in Events, Push(t, e) PROVE NextQueue
  BY <1>2 DEF NextQueue
<1>3. CASE UNCHANGED queueVars BY <1>3
<1>4. CASE NextTick BY <1>1, <1>2, <1>4, OtherEvents DEF NextTick
<1>5. CASE Fire
  <2>1. lTimedEvents[cursor].event \in Events BY <1>5, TimerUnderCursor DEF Fire
  <2>. QED BY <1>1, <1>2, <1>5, <2>1 DEF Fire
<1>6. CASE EndOfTick
  <2>1. UNCHANGED queueVars \/ \E id \in {dev_pool_id, usr_pool_id} : Push("clock", SwitchPool(id))
    BY <1>6 DEF EndOfTick, SwitchPools, queueVars
  <2>. QED BY <1>1, <1>2, <2>1, OtherEvents
<1>7. CASE ConnectFirst BY <1>1, <1>2, <1>7, OtherEvents DEF ConnectFirst
<1>8. CASE WaitForEvent BY <1>8 DEF WaitForEvent, NextQueue
<1>9. CASE PopEvent BY <1>9 DEF PopEvent, NextQueue
<1>10. CASE WakeUp BY <1>10 DEF WakeUp, NextQueue
<1>11. ASSUME NEW r \in Requesters, PushRequest(r) PROVE NextQueue
  BY <1>1, <1>2, <1>11, Requests DEF PushRequest
<1>12. ASSUME NEW t \in Posters, Notify(t) PROVE NextQueue
  BY <1>12 DEF Notify, NextQueue
<1>13. CASE UNCHANGED vars BY <1>13 DEF vars
<1>14. CASE LockTimedEvents \/ CountDown BY <1>3, <1>14 DEF LockTimedEvents, CountDown
<1>15. CASE StartAutohash \/ HandleOther \/ HandleHashrateLoop \/ HttpReport
  BY <1>3, <1>15 DEF StartAutohash, HandleOther, HandleHashrateLoop, HttpReport
<1>16. ASSUME NEW r \in Requesters, GetHttpReport(r) \/ ReportIsReady(r) PROVE UNCHANGED queueVars
  BY <1>16 DEF GetHttpReport, ReportIsReady
<1>17. ASSUME NEW c \in Callers, CallPushTimedEvent(c) PROVE UNCHANGED queueVars
  BY <1>17 DEF CallPushTimedEvent
<1>. QED BY <1>3, <1>4, <1>5, <1>6, <1>7, <1>8, <1>9, <1>10, <1>11, <1>12, <1>13, <1>14, <1>15,
            <1>16, <1>17 DEF Next, Clock, ExMain, Requester

LEMMA QueueSteps == Spec => InitQueue /\ [][NextQueue]_queueVars
<1>1. Inv /\ [Next]_vars => [NextQueue]_queueVars BY StepsOfTheQueue
<1>2. Init => InitQueue BY DEF Init
<1>. QED BY <1>1, <1>2, InvHolds, PTL DEF Spec

\* No wake-up is lost between push, which notifies after it released the mutex, and pop
\* (thdq.hpp:33-48).
THEOREM WakeupsAreKept == Spec => []NoLostWakeup
<1>1. InitQueue => NoLostWakeup BY DEF InitQueue, NoLostWakeup
<1>2. NoLostWakeup /\ [NextQueue]_queueVars => NoLostWakeup'
  BY DEF NoLostWakeup, NextQueue, queueVars, Push, NotifyOne, Wait, WakeSpuriously, Pop
<1>. QED BY <1>1, <1>2, QueueSteps, PTL

\* The safety of the mailbox: the executor handles what was posted, one by one and in order.
THEOREM KeepsTheOrder == Spec => Box!Init /\ [][Box!Next]_queue
<1>1. InitQueue => Box!Init BY DEF InitQueue, Box!Init
<1>2. [NextQueue]_queueVars => [Box!Next]_queue
  BY DEF NextQueue, queueVars, Push, NotifyOne, Wait, WakeSpuriously, Pop, Box!Next, Box!Handle, Box!Post
<1>. QED BY <1>1, <1>2, QueueSteps, PTL

-----------------------------------------------------------------------------
(***************************************************************************)
(* The two pools take turns.  SwitchPools counts ticks down, so what it    *)
(* has left of a period and the ticks served make up whole periods.        *)
(***************************************************************************)
Served == IF cpc = "service" THEN ticks - 1 ELSE ticks

PoolInv ==
  /\ Served \in Nat
  /\ DevPortion = 0 => pool = usr_pool_id
  /\ DevPortion # 0 => \E periods \in Nat :
                         Served + iSwitchPeriod = periods * SwitchPeriod + SwitchPeriod
  /\ DevPortion # 0 /\ DevPortion < SwitchPeriod =>
       (pool = dev_pool_id <=> iSwitchPeriod <= DevPortion)

LEMMA RemainderOf ==
  ASSUME NEW m \in Nat \ {0}, NEW q \in Int, NEW r \in 0 .. m - 1
  PROVE  (q * m + r) % m = r
<1>. DEFINE n == q * m + r
            p == n \div m
            a == n % m
<1>0. q * m \in Int /\ n \in Int
  OBVIOUS
<1>1. p \in Int /\ a \in 0 .. m - 1 /\ n = p * m + a
  BY <1>0, SMT
<1>2. ASSUME NEW i \in Int, NEW j \in Int, i < j PROVE i * m + m <= j * m
  <2>1. PICK d \in Nat : j = i + 1 + d
    <3>1. j - i - 1 \in Nat
      BY <1>2
    <3>. QED BY <3>1, j = i + 1 + (j - i - 1)
  <2>2. j * m = i * m + m + d * m
    BY <2>1
  <2>3. d * m \in Nat /\ i * m \in Int
    OBVIOUS
  <2>. QED BY <2>2, <2>3
<1>3. q * m + r = p * m + a
  BY <1>1
<1>. HIDE DEF p, a, n
<1>4. p * m \in Int
  BY <1>1
<1>5. ~(p < q)
  <2>. SUFFICES ASSUME p < q PROVE FALSE
    OBVIOUS
  <2>1. p * m + m <= q * m
    BY <1>1, <1>2
  <2>. QED BY <1>0, <1>1, <1>3, <1>4, <2>1
<1>6. ~(q < p)
  <2>. SUFFICES ASSUME q < p PROVE FALSE
    OBVIOUS
  <2>1. q * m + m <= p * m
    BY <1>1, <1>2
  <2>. QED BY <1>0, <1>1, <1>3, <1>4, <2>1
<1>7. a = r
  BY <1>0, <1>1, <1>3, <1>5, <1>6
<1>. QED BY <1>7 DEF a, n

LEMMA Portion == DevPortion \in Nat /\ SwitchPeriod \in Nat \ {0}
<1>1. SwitchPeriod \in Nat /\ DevPercent \in Nat
  BY Numbers, NumberAssumption
<1>2. SwitchPeriod * DevPercent \in Nat
  BY <1>1
<1>3. (SwitchPeriod * DevPercent) \div 100 \in Nat
  BY <1>2
<1>4. SecToTicks(ConnectTime) \in Nat
  BY Numbers, NumberAssumption
<1>. QED BY <1>3, <1>4, Numbers DEF DevPortion

LEMMA PoolStep == TypeOK /\ PoolInv /\ [Next]_vars => PoolInv'
<1>. SUFFICES ASSUME TypeOK, PoolInv, [Next]_vars PROVE PoolInv'
  OBVIOUS
<1>1. /\ DevPortion \in Nat /\ SwitchPeriod \in Nat \ {0} /\ ticks \in Nat
      /\ iSwitchPeriod \in 1 .. SwitchPeriod /\ cpc \in {"sleep", "lock", "service"}
  BY Portion DEF TypeOK
<1>2. CASE UNCHANGED <<iSwitchPeriod, ticks, pool>> /\ (cpc' = "service" <=> cpc = "service")
  BY <1>2 DEF PoolInv, Served
<1>3. CASE LockTimedEvents
  <2>1. Served' = Served /\ UNCHANGED <<iSwitchPeriod, pool>>
    BY <1>1, <1>3 DEF LockTimedEvents, Served
  <2>. QED BY <2>1 DEF PoolInv
<1>4. CASE EndOfTick
  <2>1. /\ Served' = Served + 1 /\ Served' \in Nat /\ Served \in Nat
    BY <1>1, <1>4 DEF EndOfTick, Served, PoolInv
  <2>2. CASE DevPortion = 0
    BY <1>1, <1>4, <2>1, <2>2 DEF EndOfTick, SwitchPools, PoolInv
  <2>3. CASE DevPortion # 0
    <3>1. PICK periods \in Nat : Served + iSwitchPeriod = periods * SwitchPeriod + SwitchPeriod
      BY <2>3 DEF PoolInv
    <3>2. CASE iSwitchPeriod = 1
      <4>1. iSwitchPeriod' = SwitchPeriod /\ pool' = usr_pool_id
        BY <1>4, <2>3, <3>2 DEF EndOfTick, SwitchPools
      <4>2. (periods + 1) * SwitchPeriod = periods * SwitchPeriod + SwitchPeriod
            /\ periods + 1 \in Nat
        BY <1>1
      <4>3. Served' + iSwitchPeriod' = (periods + 1) * SwitchPeriod + SwitchPeriod
        BY <1>1, <2>1, <3>1, <3>2, <4>1, <4>2
      <4>4. \E q \in Nat : Served' + iSwitchPeriod' = q * SwitchPeriod + SwitchPeriod
        BY <4>2, <4>3
      <4>5. DevPortion < SwitchPeriod => ~(iSwitchPeriod' <= DevPortion)
        BY <1>1, <4>1
      <4>. QED BY <2>1, <2>3, <4>1, <4>4, <4>5 DEF PoolInv, usr_pool_id, dev_pool_id
    <3>3. CASE iSwitchPeriod > 1
      <4>1. /\ iSwitchPeriod' = iSwitchPeriod - 1
            /\ pool' = IF iSwitchPeriod' = DevPortion THEN dev_pool_id ELSE pool
        BY <1>4, <2>3, <3>3 DEF EndOfTick, SwitchPools
      <4>2. Served' + iSwitchPeriod' = periods * SwitchPeriod + SwitchPeriod
        BY <1>1, <2>1, <3>1, <4>1
      <4>3. DevPortion < SwitchPeriod => (pool' = dev_pool_id <=> iSwitchPeriod' <= DevPortion)
        BY <1>1, <2>3, <4>1 DEF PoolInv
      <4>. QED BY <2>1, <2>3, <4>2, <4>3 DEF PoolInv
    <3>. QED BY <1>1, <3>2, <3>3
  <2>. QED BY <2>2, <2>3
<1>5. CASE Clock
  BY <1>2, <1>3, <1>4, <1>5 DEF Clock, NextTick, CountDown, Fire, clockVars
<1>6. CASE ExMain
  BY <1>2, <1>6 DEF ExMain, ConnectFirst, StartAutohash, WaitForEvent, PopEvent, HandleOther,
     HandleHashrateLoop, HttpReport, clockVars
<1>7. ASSUME NEW r \in Requesters, Requester(r) PROVE PoolInv'
  BY <1>2, <1>7 DEF Requester, GetHttpReport, PushRequest, ReportIsReady, clockVars
<1>8. ASSUME NEW c \in Callers, CallPushTimedEvent(c) PROVE PoolInv'
  BY <1>2, <1>8 DEF CallPushTimedEvent, clockVars
<1>9. ASSUME NEW t \in Posters, Notify(t) PROVE PoolInv'
  BY <1>2, <1>9 DEF Notify, clockVars
<1>10. CASE WakeUp \/ UNCHANGED vars
  BY <1>2, <1>10 DEF WakeUp, vars, clockVars
<1>. QED BY <1>5, <1>6, <1>7, <1>8, <1>9, <1>10 DEF Next

\* The developer's pool has exactly the last DevPortion ticks of each period, for any period
\* and percentage and over any number of ticks (executor.cpp:60-106).
THEOREM PoolsTakeTurns == Spec => []DevHasItsPortion
<1>1. Init => PoolInv
  <2>. SUFFICES ASSUME Init PROVE PoolInv
    OBVIOUS
  <2>1. /\ Served = 0 /\ iSwitchPeriod = SwitchPeriod /\ pool = usr_pool_id
        /\ DevPortion \in Nat /\ SwitchPeriod \in Nat \ {0}
    BY Portion DEF Init, Served
  <2>2. Served + iSwitchPeriod = 0 * SwitchPeriod + SwitchPeriod /\ 0 \in Nat
    BY <2>1
  <2>. QED BY <2>1, <2>2 DEF PoolInv, usr_pool_id, dev_pool_id
<1>2. TypeOK /\ PoolInv => DevHasItsPortion
  <2>. SUFFICES ASSUME TypeOK, PoolInv, cpc = "sleep", DevPortion < SwitchPeriod
                PROVE  pool = dev_pool_id <=> ticks % SwitchPeriod >= SwitchPeriod - DevPortion
    BY DEF DevHasItsPortion
  <2>1. /\ DevPortion \in Nat /\ SwitchPeriod \in Nat \ {0} /\ ticks \in Nat /\ Served = ticks
        /\ iSwitchPeriod \in 1 .. SwitchPeriod
    BY Portion DEF TypeOK, Served
  <2>2. CASE DevPortion = 0
    <3>1. ticks % SwitchPeriod \in 0 .. SwitchPeriod - 1
      BY <2>1
    <3>. QED BY <2>1, <2>2, <3>1 DEF PoolInv, usr_pool_id, dev_pool_id
  <2>3. CASE DevPortion # 0
    <3>1. PICK periods \in Nat : ticks + iSwitchPeriod = periods * SwitchPeriod + SwitchPeriod
      BY <2>1, <2>3 DEF PoolInv
    <3>2. /\ ticks = periods * SwitchPeriod + (SwitchPeriod - iSwitchPeriod)
          /\ SwitchPeriod - iSwitchPeriod \in 0 .. SwitchPeriod - 1 /\ periods \in Int
      BY <2>1, <3>1
    <3>3. ticks % SwitchPeriod = SwitchPeriod - iSwitchPeriod
      BY <2>1, <3>2, RemainderOf
    <3>4. pool = dev_pool_id <=> iSwitchPeriod <= DevPortion
      BY <2>3 DEF PoolInv
    <3>. QED BY <2>1, <3>3, <3>4
  <2>. QED BY <2>1, <2>2, <2>3
<1>. QED BY <1>1, <1>2, PoolStep, TypesAreKept, PTL DEF Spec

-----------------------------------------------------------------------------
(***************************************************************************)
(* The automatic report is in one place at a time: in the list of timed    *)
(* events, in the queue, or in the hands of the executor.                  *)
(***************************************************************************)
Waiting == {n \in DOMAIN lTimedEvents : lTimedEvents[n].event = HashrateLoop}
Posted  == {n \in DOMAIN queue : queue[n] = HashrateLoop}
Handled == epc = "handle" /\ ev = HashrateLoop
Armed   == VerboseLevel >= 4 /\ epc \notin {"connect", "arm"}

LoopInv ==
  /\ ~Armed => Waiting = {} /\ Posted = {} /\ ~Handled
  /\ Armed => \/ Waiting = {} /\ Posted = {} /\ Handled
              \/ Waiting = {} /\ (\E n : Posted = {n}) /\ ~Handled
              \/ (\E n : Waiting = {n}) /\ Posted = {} /\ ~Handled

LEMMA PostedAfterPush ==
  ASSUME TypeOK, NEW e \in Events, queue' = Append(queue, e)
  PROVE  Posted' = Posted \union (IF e = HashrateLoop THEN {Len(queue) + 1} ELSE {})
<1>0. queue \in Seq(Events)
  BY DEF TypeOK
<1>1. /\ Len(queue') = Len(queue) + 1 /\ Len(queue) \in Nat
      /\ \A i \in 1 .. Len(queue) + 1 : queue'[i] = IF i <= Len(queue) THEN queue[i] ELSE e
      /\ DOMAIN queue = 1 .. Len(queue) /\ DOMAIN queue' = 1 .. Len(queue')
  BY <1>0, Appended, LenProperties
<1>2. ASSUME NEW n
      PROVE  n \in Posted' <=> n \in Posted \/ (e = HashrateLoop /\ n = Len(queue) + 1)
  BY <1>1 DEF Posted
<1>. QED BY <1>2

LEMMA WaitingAfterPush ==
  ASSUME Inv, NEW e \in Events, ~IsHtml(e), NEW sec \in Nat, PushTimedEvent(e, sec)
  PROVE  Waiting' = Waiting \union (IF e = HashrateLoop THEN {Len(lTimedEvents) + 1} ELSE {})
<1>. DEFINE t == [event |-> e, ticks_left |-> SecToTicks(sec), call |-> Len(timers) + 1]
<1>1. lTimedEvents' = Append(lTimedEvents, t) /\ lTimedEvents \in Seq(OtherTimers)
  BY DEF PushTimedEvent, Inv
<1>2. t \in OtherTimers
  <2>1. SecToTicks(sec) \in Nat /\ Len(timers) + 1 \in Nat
    BY Numbers, LenProperties DEF Inv, TypeOK
  <2>. QED BY <2>1 DEF OtherTimers, TimedEvent
<1>3. t.event = e
  OBVIOUS
<1>. HIDE DEF t
<1>4. /\ Len(lTimedEvents') = Len(lTimedEvents) + 1 /\ Len(lTimedEvents) \in Nat
      /\ \A i \in 1 .. Len(lTimedEvents) + 1 :
           lTimedEvents'[i] = IF i <= Len(lTimedEvents) THEN lTimedEvents[i] ELSE t
      /\ DOMAIN lTimedEvents = 1 .. Len(lTimedEvents)
      /\ DOMAIN lTimedEvents' = 1 .. Len(lTimedEvents')
  BY <1>1, <1>2, Appended, LenProperties
<1>5. ASSUME NEW n
      PROVE  n \in Waiting' <=> n \in Waiting \/ (e = HashrateLoop /\ n = Len(lTimedEvents) + 1)
  BY <1>3, <1>4 DEF Waiting
<1>. QED BY <1>5

LEMMA WaitingAfterCountDown == ASSUME Inv, CountDown PROVE Waiting' = Waiting
<1>. DEFINE left_ == TicksLeft
<1>1. cursor \in 1 .. Len(lTimedEvents) /\ lTimedEvents[cursor] \in OtherTimers
  BY TimerUnderCursor DEF CountDown
<1>2. DOMAIN lTimedEvents = 1 .. Len(lTimedEvents)
  BY LenProperties DEF Inv
<1>3. lTimedEvents'
        = [lTimedEvents EXCEPT ![cursor] = [lTimedEvents[cursor] EXCEPT !.ticks_left = left_]]
  BY DEF CountDown
<1>. HIDE DEF left_
<1>4. DOMAIN lTimedEvents' = DOMAIN lTimedEvents
  BY <1>3
<1>5. \A n \in DOMAIN lTimedEvents : lTimedEvents'[n].event = lTimedEvents[n].event
  BY <1>1, <1>2, <1>3 DEF OtherTimers, TimedEvent
<1>. QED BY <1>4, <1>5 DEF Waiting

LEMMA WaitingAfterFire ==
  ASSUME Inv, Fire
  PROVE  Waiting' = {IF n < cursor THEN n ELSE n - 1 : n \in Waiting \ {cursor}}
<1>1. cursor \in 1 .. Len(lTimedEvents) /\ lTimedEvents \in Seq(OtherTimers)
  BY TimerUnderCursor DEF Fire, Inv
<1>2. /\ Len(lTimedEvents) \in Nat /\ Len(lTimedEvents') = Len(lTimedEvents) - 1
      /\ \A i \in 1 .. Len(lTimedEvents) - 1 :
           lTimedEvents'[i] = IF i < cursor THEN lTimedEvents[i] ELSE lTimedEvents[i + 1]
      /\ DOMAIN lTimedEvents = 1 .. Len(lTimedEvents)
      /\ DOMAIN lTimedEvents' = 1 .. Len(lTimedEvents')
  BY <1>1, Erased, LenProperties DEF Fire
<1>3. ASSUME NEW i \in Waiting'
      PROVE  \E n \in Waiting \ {cursor} : i = IF n < cursor THEN n ELSE n - 1
  <2>1. i \in 1 .. Len(lTimedEvents) - 1 /\ lTimedEvents'[i].event = HashrateLoop
    BY <1>2, <1>3 DEF Waiting
  <2>2. CASE i < cursor
    BY <1>1, <1>2, <2>1, <2>2 DEF Waiting
  <2>3. CASE i >= cursor
    <3>1. /\ i + 1 \in 1 .. Len(lTimedEvents) /\ i + 1 # cursor /\ ~(i + 1 < cursor)
          /\ i = (i + 1) - 1 /\ ~(i < cursor)
      BY <1>1, <1>2, <2>1, <2>3
    <3>2. i + 1 \in Waiting
      BY <1>2, <2>1, <3>1 DEF Waiting
    <3>. QED BY <3>1, <3>2
  <2>4. i < cursor \/ i >= cursor
    BY <1>1, <2>1
  <2>. QED BY <2>2, <2>3, <2>4
<1>4. ASSUME NEW n \in Waiting \ {cursor}
      PROVE  (IF n < cursor THEN n ELSE n - 1) \in Waiting'
  <2>1. n \in 1 .. Len(lTimedEvents) /\ lTimedEvents[n].event = HashrateLoop /\ n # cursor
    BY <1>2, <1>4 DEF Waiting
  <2>2. CASE n < cursor
    BY <1>1, <1>2, <2>1, <2>2 DEF Waiting
  <2>3. CASE n > cursor
    <3>1. /\ n - 1 \in 1 .. Len(lTimedEvents) - 1 /\ ~(n - 1 < cursor) /\ (n - 1) + 1 = n
          /\ ~(n < cursor)
      BY <1>1, <1>2, <2>1, <2>3
    <3>2. lTimedEvents'[n - 1] = lTimedEvents[n]
      BY <1>2, <3>1
    <3>. QED BY <1>2, <2>1, <3>1, <3>2 DEF Waiting
  <2>. QED BY <1>1, <2>1, <2>2, <2>3
<1>. QED BY <1>3, <1>4

LEMMA PostedAfterPop ==
  ASSUME TypeOK, NEW e \in Events, Pop(e)
  PROVE  /\ Posted' = {n - 1 : n \in Posted \ {1}}
         /\ 1 \in Posted <=> e = HashrateLoop
<1>1. /\ queue \in Seq(Events) /\ queue # <<>> /\ queue' = Tail(queue) /\ e = Head(queue)
  BY DEF Pop, TypeOK
<1>2. /\ Len(queue) \in Nat /\ Len(queue) >= 1 /\ Len(queue') = Len(queue) - 1
      /\ \A i \in 1 .. Len(queue) - 1 : queue'[i] = queue[i + 1]
      /\ DOMAIN queue = 1 .. Len(queue) /\ DOMAIN queue' = 1 .. Len(queue')
      /\ e = queue[1]
  <2>1. Len(queue) \in Nat /\ DOMAIN queue = 1 .. Len(queue) /\ Len(queue) # 0
    BY <1>1, LenProperties, EmptySeq
  <2>2. /\ Tail(queue) \in Seq(Events) /\ Len(Tail(queue)) = Len(queue) - 1
        /\ \A i \in 1 .. Len(Tail(queue)) : Tail(queue)[i] = queue[i + 1]
    BY <1>1, HeadTailProperties
  <2>3. DOMAIN queue' = 1 .. Len(queue')
    BY <1>1, <2>2, LenProperties
  <2>4. Head(queue) = queue[1]
    BY <1>1
  <2>. QED BY <1>1, <2>1, <2>2, <2>3, <2>4
<1>3. ASSUME NEW i \in Posted' PROVE \E n \in Posted \ {1} : i = n - 1
  <2>1. i \in 1 .. Len(queue) - 1 /\ queue[i + 1] = HashrateLoop
    BY <1>2, <1>3 DEF Posted
  <2>2. i + 1 \in 1 .. Len(queue) /\ i + 1 # 1 /\ i = (i + 1) - 1
    BY <1>2, <2>1
  <2>. QED BY <1>2, <2>1, <2>2 DEF Posted
<1>4. ASSUME NEW n \in Posted \ {1} PROVE n - 1 \in Posted'
  <2>1. n \in 1 .. Len(queue) /\ queue[n] = HashrateLoop /\ n # 1
    BY <1>2, <1>4 DEF Posted
  <2>2. n - 1 \in 1 .. Len(queue) - 1 /\ (n - 1) + 1 = n
    BY <1>2, <2>1
  <2>3. queue'[n - 1] = HashrateLoop
    BY <1>2, <2>1, <2>2
  <2>. QED BY <1>2, <2>2, <2>3 DEF Posted
<1>5. 1 \in Posted <=> e = HashrateLoop
  BY <1>2 DEF Posted
<1>. QED BY <1>3, <1>4, <1>5

LEMMA LoopStep == Inv /\ LoopInv /\ [Next]_vars => LoopInv'
<1>. SUFFICES ASSUME Inv, LoopInv, [Next]_vars PROVE LoopInv'
  OBVIOUS
<1>0. TypeOK /\ Posters = {"clock", "executor"} \union Requesters
  BY ThreadAssumption DEF Inv
<1>1. ASSUME UNCHANGED <<lTimedEvents, queue>> PROVE Waiting' = Waiting /\ Posted' = Posted
  BY <1>1 DEF Waiting, Posted
<1>2. ASSUME Waiting' = Waiting, Posted' = Posted, Handled' = Handled, Armed' = Armed
      PROVE  LoopInv'
  BY <1>2 DEF LoopInv
<1>3. ASSUME NEW e \in Events, e # HashrateLoop, queue' = Append(queue, e) PROVE Posted' = Posted
  BY <1>0, <1>3, PostedAfterPush
<1>4. ASSUME UNCHANGED <<epc, ev>> PROVE Handled' = Handled /\ Armed' = Armed
  BY <1>4 DEF Handled, Armed
<1>5. CASE Clock
  <2>0. UNCHANGED <<epc, ev>>
    BY <1>5 DEF Clock, NextTick, LockTimedEvents, CountDown, Fire, EndOfTick
  <2>1. CASE NextTick
    <3>1. PerfTick \in Events /\ PerfTick # HashrateLoop
      BY OtherEvents DEF PerfTick, HashrateLoop
    <3>2. Posted' = Posted /\ Waiting' = Waiting
      BY <1>3, <2>1, <3>1 DEF NextTick, Push, timedVars, Waiting
    <3>. QED BY <1>2, <1>4, <2>0, <3>2
  <2>2. CASE LockTimedEvents
    BY <1>1, <1>2, <1>4, <2>0, <2>2 DEF LockTimedEvents, timedVars, queueVars
  <2>3. CASE CountDown
    <3>1. Posted' = Posted /\ Waiting' = Waiting
      BY <2>3, WaitingAfterCountDown DEF CountDown, queueVars, Posted
    <3>. QED BY <1>2, <1>4, <2>0, <3>1
  <2>4. CASE Fire
    <3>. DEFINE e == lTimedEvents[cursor].event
    <3>1. /\ cursor \in 1 .. Len(lTimedEvents) /\ e \in Events /\ ~IsHtml(e)
          /\ DOMAIN lTimedEvents = 1 .. Len(lTimedEvents) /\ queue' = Append(queue, e)
          /\ Len(lTimedEvents) \in Nat
      BY <2>4, TimerUnderCursor, LenProperties DEF Fire, Push, Inv
    <3>2. Waiting' = {IF n < cursor THEN n ELSE n - 1 : n \in Waiting \ {cursor}}
      BY <2>4, WaitingAfterFire
    <3>3. cursor \in Waiting <=> e = HashrateLoop
      BY <3>1 DEF Waiting
    <3>4. Posted' = Posted \union (IF e = HashrateLoop THEN {Len(queue) + 1} ELSE {})
      BY <1>0, <3>1, PostedAfterPush
    <3>5. Handled' = Handled /\ Armed' = Armed
      BY <1>4, <2>0
    <3>6. CASE e = HashrateLoop
      <4>1. Armed /\ Waiting = {cursor} /\ Posted = {} /\ ~Handled
        BY <3>3, <3>6 DEF LoopInv
      <4>2. Waiting' = {} /\ Posted' = {Len(queue) + 1}
        BY <3>2, <3>4, <3>6, <4>1
      <4>. QED BY <3>5, <4>1, <4>2 DEF LoopInv
    <3>7. CASE e # HashrateLoop
      <4>1. Posted' = Posted /\ cursor \notin Waiting
        BY <3>3, <3>4, <3>7
      <4>2. Waiting = {} => Waiting' = {}
        BY <3>2
      <4>3. ASSUME NEW n, Waiting = {n} PROVE \E m : Waiting' = {m}
        <5>1. Waiting' = {IF n < cursor THEN n ELSE n - 1}
          BY <3>2, <4>1, <4>3
        <5>. QED BY <5>1
      <4>. QED BY <3>5, <4>1, <4>2, <4>3 DEF LoopInv
    <3>. QED BY <3>6, <3>7
  <2>5. CASE EndOfTick
    <3>1. Waiting' = Waiting
      BY <2>5 DEF EndOfTick, timedVars, Waiting
    <3>2. \A id \in {dev_pool_id, usr_pool_id} :
            SwitchPool(id) \in Events /\ SwitchPool(id) # HashrateLoop
      BY OtherEvents DEF SwitchPool, HashrateLoop
    <3>3. Posted' = Posted
      <4>1. \/ queue' = queue
            \/ \E id \in {dev_pool_id, usr_pool_id} : queue' = Append(queue, SwitchPool(id))
        BY <2>5 DEF EndOfTick, SwitchPools, Push, queueVars
      <4>. QED BY <1>3, <3>2, <4>1 DEF Posted
    <3>. QED BY <1>2, <1>4, <2>0, <3>1, <3>3
  <2>. QED BY <1>5, <2>1, <2>2, <2>3, <2>4, <2>5 DEF Clock
<1>6. CASE ExMain
  <2>1. CASE ConnectFirst
    <3>1. Reconnect \in Events /\ Reconnect # HashrateLoop
      BY OtherEvents DEF Reconnect, HashrateLoop
    <3>2. Posted' = Posted /\ Waiting' = Waiting
      BY <1>3, <2>1, <3>1 DEF ConnectFirst, Push, timedVars, Waiting
    <3>3. Handled' = Handled /\ Armed' = Armed
      BY <2>1 DEF ConnectFirst, Handled, Armed
    <3>. QED BY <1>2, <3>2, <3>3
  <2>2. ASSUME PushTimedEvent(HashrateLoop, AutohashTime), UNCHANGED queue,
               Waiting = {}, Posted = {}, ~Handled', Armed'
        PROVE  LoopInv'
    <3>1. AutohashTime \in Nat /\ HashrateLoop \in Events /\ ~IsHtml(HashrateLoop)
      BY NumberAssumption, OtherEvents
    <3>2. Waiting' = {Len(lTimedEvents) + 1} /\ Posted' = {}
      BY <2>2, <3>1, WaitingAfterPush DEF Posted
    <3>. QED BY <2>2, <3>2 DEF LoopInv
  <2>3. CASE StartAutohash
    <3>1. epc = "arm" /\ epc' = "pop" /\ UNCHANGED queue
      BY <2>3 DEF StartAutohash, queueVars
    <3>2. Waiting = {} /\ Posted = {} /\ ~Handled'
      BY <3>1 DEF LoopInv, Armed, Handled
    <3>3. CASE VerboseLevel >= 4
      BY <2>2, <2>3, <3>1, <3>2, <3>3 DEF StartAutohash, Armed
    <3>4. CASE ~(VerboseLevel >= 4)
      BY <1>1, <2>3, <3>1, <3>2, <3>4 DEF StartAutohash, timedVars, Armed, LoopInv
    <3>. QED BY <3>3, <3>4
  <2>4. CASE WaitForEvent
    BY <1>1, <1>2, <1>4, <2>4 DEF WaitForEvent, Wait, timedVars
  <2>5. CASE PopEvent
    <3>1. PICK e \in Events : Pop(e) /\ ev' = e
      BY <2>5 DEF PopEvent
    <3>2. /\ Posted' = {n - 1 : n \in Posted \ {1}}
          /\ 1 \in Posted <=> e = HashrateLoop
      BY <1>0, <3>1, PostedAfterPop
    <3>3. Waiting' = Waiting /\ epc = "pop" /\ epc' = "handle"
      BY <2>5 DEF PopEvent, timedVars, Waiting
    <3>4. ~Handled /\ (Armed' <=> Armed) /\ (Handled' <=> e = HashrateLoop)
      BY <3>1, <3>3 DEF Handled, Armed
    <3>5. CASE e = HashrateLoop
      <4>1. Armed /\ Waiting = {} /\ Posted = {1}
        BY <3>2, <3>4, <3>5 DEF LoopInv
      <4>2. Posted' = {}
        BY <3>2, <4>1
      <4>. QED BY <3>3, <3>4, <3>5, <4>1, <4>2 DEF LoopInv
    <3>6. CASE e # HashrateLoop
      <4>1. Posted' = {n - 1 : n \in Posted}
        BY <3>2, <3>6
      <4>2. Posted = {} => Posted' = {}
        BY <4>1
      <4>3. ASSUME NEW n, Posted = {n} PROVE \E m : Posted' = {m}
        <5>1. Posted' = {n - 1}
          BY <4>1, <4>3
        <5>. QED BY <5>1
      <4>. QED BY <3>3, <3>4, <3>6, <4>2, <4>3 DEF LoopInv
    <3>. QED BY <3>5, <3>6
  <2>6. CASE HandleOther
    <3>1. UNCHANGED <<lTimedEvents, queue>> /\ Handled' = Handled /\ Armed' = Armed
      BY <2>6 DEF HandleOther, timedVars, queueVars, Handled, Armed
    <3>. QED BY <1>1, <1>2, <3>1
  <2>7. CASE HandleHashrateLoop
    <3>1. Handled /\ ~Handled' /\ (Armed' <=> Armed) /\ UNCHANGED queue
      BY <2>7 DEF HandleHashrateLoop, queueVars, Handled, Armed
    <3>2. Armed /\ Waiting = {} /\ Posted = {}
      BY <3>1 DEF LoopInv
    <3>. QED BY <2>2, <2>7, <3>1, <3>2 DEF HandleHashrateLoop
  <2>8. CASE HttpReport
    <3>1. UNCHANGED <<lTimedEvents, queue>> /\ ev # HashrateLoop /\ epc = "handle" /\ epc' = "pop"
      BY <2>8 DEF HttpReport, timedVars, queueVars, HashrateLoop, Html
    <3>2. Handled' = Handled /\ Armed' = Armed
      BY <3>1 DEF Handled, Armed
    <3>. QED BY <1>1, <1>2, <3>1, <3>2
  <2>. QED BY <1>6, <2>1, <2>3, <2>4, <2>5, <2>6, <2>7, <2>8 DEF ExMain
<1>7. ASSUME NEW r \in Requesters, Requester(r) PROVE LoopInv'
  <2>1. UNCHANGED <<lTimedEvents, epc, ev>>
    BY <1>7 DEF Requester, GetHttpReport, PushRequest, ReportIsReady, timedVars
  <2>2. queue' = queue \/ queue' = Append(queue, <<Asks[r], 0>>)
    BY <1>7 DEF Requester, GetHttpReport, PushRequest, ReportIsReady, queueVars, Push
  <2>3. <<Asks[r], 0>> \in Events /\ <<Asks[r], 0>> # HashrateLoop
    <3>1. IsHtml(<<Asks[r], 0>>) /\ ~IsHtml(HashrateLoop)
      BY Requests, OtherEvents
    <3>. QED BY <3>1, Requests
  <2>4. Posted' = Posted
    BY <1>3, <2>2, <2>3 DEF Posted
  <2>. QED BY <1>2, <1>4, <2>1, <2>4 DEF Waiting
<1>8. ASSUME NEW c \in Callers, CallPushTimedEvent(c) PROVE LoopInv'
  <2>1. PICK sec \in Delays : PushTimedEvent(Reconnect, sec)
    BY <1>8 DEF CallPushTimedEvent
  <2>2. sec \in Nat /\ Reconnect \in Events /\ ~IsHtml(Reconnect) /\ Reconnect # HashrateLoop
    BY NumberAssumption, OtherEvents DEF Reconnect, HashrateLoop
  <2>3. Waiting' = Waiting
    BY <2>1, <2>2, WaitingAfterPush
  <2>4. Posted' = Posted /\ UNCHANGED <<epc, ev>>
    BY <1>8 DEF CallPushTimedEvent, queueVars, Posted
  <2>. QED BY <1>2, <1>4, <2>3, <2>4
<1>9. ASSUME NEW t \in Posters, Notify(t) PROVE LoopInv'
  BY <1>1, <1>2, <1>4, <1>9 DEF Notify, NotifyOne, timedVars
<1>10. CASE WakeUp \/ UNCHANGED vars
  BY <1>1, <1>2, <1>4, <1>10 DEF WakeUp, WakeSpuriously, vars, timedVars, queueVars
<1>. QED BY <1>5, <1>6, <1>7, <1>8, <1>9, <1>10 DEF Next

\* There is never more nor less than one automatic report, whoever else pushes timed events and
\* whatever is in the queue (executor.cpp:226-227, 290-293).
THEOREM LoopNeverDies == Spec => []OneHashrateLoop
<1>1. Init => LoopInv
  <2>. SUFFICES ASSUME Init PROVE LoopInv
    OBVIOUS
  <2>1. DOMAIN queue = {} /\ DOMAIN lTimedEvents = {} /\ epc = "connect"
    BY DEF Init, InitQueue
  <2>. QED BY <2>1 DEF LoopInv, Armed, Waiting, Posted, Handled
<1>2. LoopInv => OneHashrateLoop
  <2>. SUFFICES ASSUME LoopInv
                PROVE  Cardinality(Waiting) + Cardinality(Posted) + (IF Handled THEN 1 ELSE 0)
                         = IF Armed THEN 1 ELSE 0
    BY DEF OneHashrateLoop, Waiting, Posted, Handled, Armed
  <2>1. Cardinality({}) = 0 /\ \A n : Cardinality({n}) = 1
    BY FS_EmptySet, FS_Singleton
  <2>2. CASE ~Armed
    <3>1. Cardinality(Waiting) = 0 /\ Cardinality(Posted) = 0 /\ ~Handled
      BY <2>1, <2>2 DEF LoopInv
    <3>. QED BY <2>2, <3>1
  <2>3. CASE Armed
    <3>1. \/ Cardinality(Waiting) = 0 /\ Cardinality(Posted) = 0 /\ Handled
          \/ Cardinality(Waiting) = 0 /\ Cardinality(Posted) = 1 /\ ~Handled
          \/ Cardinality(Waiting) = 1 /\ Cardinality(Posted) = 0 /\ ~Handled
      BY <2>1, <2>3 DEF LoopInv
    <3>. QED BY <2>3, <3>1
  <2>. QED BY <2>2, <2>3
<1>. QED BY <1>1, <1>2, LoopStep, InvHolds, PTL DEF Spec

-----------------------------------------------------------------------------
(***************************************************************************)
(* Timed events leave the list when they are due.  What an entry has left  *)
(* and the ticks it was counted down for make up the tick it is due at; in *)
(* the middle of a tick the entries from the clock's iterator on are one   *)
(* behind.  An entry of zero seconds was counted down below zero.          *)
(***************************************************************************)
CountedDown(n) == IF cpc = "service" /\ n >= cursor THEN ticks - 1 ELSE ticks

RightlyLeft(t, counted) ==
  /\ t.ticks_left <= SizeMax
  /\ IF timers[t.call].due = NeverDue
     THEN t.ticks_left = 0 \/ t.ticks_left >= SizeMax - counted
     ELSE t.ticks_left = timers[t.call].due - counted /\ t.ticks_left > 0

NoneIsMissing ==
  \A c \in DOMAIN timers :
    timers[c].due > ticks \/ timers[c].due = NeverDue =>
      \E n \in DOMAIN lTimedEvents : lTimedEvents[n].call = c

TimerInv ==
  /\ cpc = "service" => ticks >= 1
  /\ \A n \in DOMAIN lTimedEvents :
       LET t == lTimedEvents[n]
       IN  /\ t.call \in DOMAIN timers /\ t.event = timers[t.call].event
           /\ RightlyLeft(t, CountedDown(n))
  /\ \A n \in DOMAIN lTimedEvents : \A m \in 1 .. n - 1 :
       lTimedEvents[m].call < lTimedEvents[n].call
  /\ NoneIsMissing

LEMMA WrapAround ==
  ASSUME NEW n \in Nat, n <= SizeMax
  PROVE  (n - 1) % SizeMax = IF n = 0 THEN SizeMax - 1 ELSE n - 1
<1>1. SizeMax \in Nat \ {0}
  BY Numbers
<1>2. CASE n = 0
  <2>. DEFINE q == -1
              r == SizeMax - 1
  <2>1. q \in Int /\ r \in 0 .. SizeMax - 1 /\ q * SizeMax + r = n - 1
    BY <1>1, <1>2
  <2>. HIDE DEF q, r
  <2>2. (q * SizeMax + r) % SizeMax = r
    BY <1>1, <2>1, RemainderOf
  <2>. QED BY <1>2, <2>1, <2>2 DEF r
<1>3. CASE n # 0
  <2>. DEFINE q == 0
              r == n - 1
  <2>1. q \in Int /\ r \in 0 .. SizeMax - 1 /\ q * SizeMax + r = n - 1
    BY <1>1, <1>3
  <2>. HIDE DEF q, r
  <2>2. (q * SizeMax + r) % SizeMax = r
    BY <1>1, <2>1, RemainderOf
  <2>. QED BY <1>3, <2>1, <2>2 DEF r
<1>. QED BY <1>2, <1>3

LEMMA TicksOfASecond == ASSUME NEW sec \in Nat \ {0} PROVE SecToTicks(sec) \in Nat \ {0}
<1>1. TicksPerSec \in Nat \ {0}
  BY Numbers
<1>2. PICK d \in Nat : sec = 1 + d
  <2>1. sec - 1 \in Nat
    OBVIOUS
  <2>. QED BY <2>1, sec = 1 + (sec - 1)
<1>3. TicksPerSec * sec = TicksPerSec + TicksPerSec * d /\ TicksPerSec * d \in Nat
  BY <1>1, <1>2
<1>. QED BY <1>1, <1>3 DEF SecToTicks

\* The list and the calls, as functions.
LEMMA TimerTypes ==
  ASSUME Inv
  PROVE  /\ Len(lTimedEvents) \in Nat /\ DOMAIN lTimedEvents = 1 .. Len(lTimedEvents)
         /\ \A n \in DOMAIN lTimedEvents :
              /\ lTimedEvents[n].ticks_left \in Nat /\ lTimedEvents[n].call \in Nat
              /\ lTimedEvents[n].event \in Events
         /\ Len(timers) \in Nat /\ DOMAIN timers = 1 .. Len(timers)
         /\ \A c \in DOMAIN timers : timers[c].due \in Int /\ timers[c].event \in Events
         /\ ticks \in Nat /\ cursor \in 1 .. Len(lTimedEvents) + 1
         /\ SizeMax \in Nat \ {0}
         /\ cpc \in {"sleep", "lock", "service"}
<1>1. lTimedEvents \in Seq(TimedEvent) /\ timers \in Seq([event : Events, due : Int])
  BY DEF Inv, TypeOK
<1>2. /\ Len(lTimedEvents) \in Nat /\ DOMAIN lTimedEvents = 1 .. Len(lTimedEvents)
      /\ \A n \in 1 .. Len(lTimedEvents) : lTimedEvents[n] \in TimedEvent
  BY <1>1, LenProperties, ElementOfSeq
<1>3. /\ Len(timers) \in Nat /\ DOMAIN timers = 1 .. Len(timers)
      /\ \A c \in 1 .. Len(timers) : timers[c] \in [event : Events, due : Int]
  BY <1>1, LenProperties, ElementOfSeq
<1>. QED BY <1>2, <1>3, Numbers DEF Inv, TypeOK, TimedEvent

LEMMA TimersAfterCountDown ==
  ASSUME Inv, TimerInv, CountDown, ticks < SizeMax
  PROVE  TimerInv'
<1>. DEFINE t == lTimedEvents[cursor]
            l == TicksLeft
<1>1. /\ cursor \in DOMAIN lTimedEvents /\ cpc = "service" /\ ticks >= 1
      /\ t \in TimedEvent
  BY TimerTypes, TimerUnderCursor DEF CountDown, TimerInv, OtherTimers
<1>2. lTimedEvents' = [lTimedEvents EXCEPT ![cursor] = [t EXCEPT !.ticks_left = l]]
  BY DEF CountDown
<1>3. l # 0 /\ l = IF t.ticks_left = 0 THEN SizeMax - 1 ELSE t.ticks_left - 1
  <2>1. t.ticks_left \in Nat /\ t.ticks_left <= SizeMax
    BY <1>1, TimerTypes DEF TimerInv, RightlyLeft
  <2>. QED BY <2>1, WrapAround DEF CountDown, TicksLeft
<1>. HIDE DEF l
<1>4. /\ DOMAIN lTimedEvents' = DOMAIN lTimedEvents
      /\ lTimedEvents'[cursor].ticks_left = l
      /\ lTimedEvents'[cursor].call = t.call /\ lTimedEvents'[cursor].event = t.event
      /\ \A n \in DOMAIN lTimedEvents : n # cursor => lTimedEvents'[n] = lTimedEvents[n]
  BY <1>1, <1>2 DEF TimedEvent
<1>5. timers' = timers /\ ticks' = ticks /\ cpc' = cpc /\ cursor' = cursor + 1
  BY DEF CountDown
<1>6. \A n \in DOMAIN lTimedEvents : /\ lTimedEvents'[n].call = lTimedEvents[n].call
                                     /\ lTimedEvents'[n].event = lTimedEvents[n].event
  BY <1>4
<1>7. ASSUME NEW n \in DOMAIN lTimedEvents, n # cursor
      PROVE  RightlyLeft(lTimedEvents[n], CountedDown(n))'
  <2>1. CountedDown(n)' = CountedDown(n)
    BY <1>1, <1>5, <1>7, TimerTypes DEF CountedDown
  <2>. QED BY <1>4, <1>5, <1>7, <2>1 DEF TimerInv, RightlyLeft
<1>8. RightlyLeft(lTimedEvents[cursor], CountedDown(cursor))
      /\ CountedDown(cursor) = ticks - 1
  BY <1>1, TimerTypes DEF TimerInv, CountedDown
<1>9. /\ l <= SizeMax
      /\ IF timers[t.call].due = NeverDue THEN l = 0 \/ l >= SizeMax - ticks
         ELSE l = timers[t.call].due - ticks /\ l > 0
  <2>1. /\ t.ticks_left \in Nat /\ t.call \in DOMAIN timers /\ timers[t.call].due \in Int
        /\ ticks \in Nat /\ SizeMax \in Nat \ {0}
    BY <1>1, TimerTypes DEF TimerInv
  <2>2. CASE timers[t.call].due = NeverDue
    BY <1>1, <1>3, <1>8, <2>1, <2>2 DEF RightlyLeft
  <2>3. CASE timers[t.call].due # NeverDue
    BY <1>1, <1>3, <1>8, <2>1, <2>3 DEF RightlyLeft
  <2>. QED BY <2>2, <2>3
<1>10. \A n \in DOMAIN lTimedEvents' : RightlyLeft(lTimedEvents[n], CountedDown(n))'
  <2>1. ASSUME NEW n \in DOMAIN lTimedEvents, n = cursor
        PROVE  RightlyLeft(lTimedEvents[n], CountedDown(n))'
    <3>1. CountedDown(n)' = ticks
      BY <1>5, <2>1, TimerTypes DEF CountedDown
    <3>. QED BY <1>4, <1>5, <1>9, <2>1, <3>1 DEF RightlyLeft
  <2>. QED BY <1>4, <1>7, <2>1
<1>11. NoneIsMissing'
  BY <1>4, <1>5, <1>6 DEF TimerInv, NoneIsMissing
<1>12. ASSUME NEW n \in DOMAIN lTimedEvents', NEW m \in 1 .. n - 1
       PROVE  lTimedEvents'[m].call < lTimedEvents'[n].call
  <2>1. n \in DOMAIN lTimedEvents /\ m \in DOMAIN lTimedEvents
    BY <1>4, TimerTypes
  <2>2. lTimedEvents[m].call < lTimedEvents[n].call
    BY <2>1 DEF TimerInv
  <2>. QED BY <1>6, <2>1, <2>2
<1>. QED BY <1>1, <1>4, <1>5, <1>6, <1>10, <1>11, <1>12 DEF TimerInv

LEMMA TimersAfterFire ==
  ASSUME Inv, TimerInv, Fire, ticks < SizeMax
  PROVE  TimerInv'
<1>. DEFINE Old(n) == IF n < cursor THEN n ELSE n + 1
            t == lTimedEvents[cursor]
<1>1. /\ cursor \in 1 .. Len(lTimedEvents) /\ lTimedEvents \in Seq(OtherTimers)
      /\ cpc = "service" /\ ticks >= 1
  BY TimerUnderCursor DEF Fire, Inv, TimerInv
<1>2. /\ Len(lTimedEvents') = Len(lTimedEvents) - 1 /\ DOMAIN lTimedEvents' = 1 .. Len(lTimedEvents')
      /\ \A n \in DOMAIN lTimedEvents' : lTimedEvents'[n] = lTimedEvents[Old(n)]
  <2>1. /\ Len(lTimedEvents') = Len(lTimedEvents) - 1
        /\ \A n \in 1 .. Len(lTimedEvents) - 1 :
             lTimedEvents'[n] = IF n < cursor THEN lTimedEvents[n] ELSE lTimedEvents[n + 1]
        /\ DOMAIN lTimedEvents' = 1 .. Len(lTimedEvents')
    BY <1>1, Erased, LenProperties DEF Fire
  <2>. QED BY <2>1
<1>3. timers' = timers /\ ticks' = ticks /\ cpc' = cpc /\ cursor' = cursor
  BY DEF Fire, clockVars
<1>4. \A n \in DOMAIN lTimedEvents' :
        Old(n) \in DOMAIN lTimedEvents /\ CountedDown(n)' = CountedDown(Old(n))
  BY <1>1, <1>2, <1>3, TimerTypes DEF CountedDown
<1>5. t.ticks_left \in Nat /\ t.call \in DOMAIN timers /\ timers[t.call].due = ticks
  <2>1. /\ t.ticks_left \in Nat /\ RightlyLeft(t, ticks - 1) /\ t.call \in DOMAIN timers
        /\ timers[t.call].due \in Int /\ ticks \in Nat /\ SizeMax \in Nat \ {0}
    BY <1>1, TimerTypes DEF TimerInv, CountedDown
  <2>2. t.ticks_left <= SizeMax /\ (t.ticks_left - 1) % SizeMax = 0
    BY <2>1 DEF RightlyLeft, Fire, TicksLeft
  <2>3. (IF t.ticks_left = 0 THEN SizeMax - 1 ELSE t.ticks_left - 1) = 0
    BY <2>1, <2>2, WrapAround
  <2>4. timers[t.call].due # NeverDue
    BY <1>1, <2>1, <2>3 DEF RightlyLeft
  <2>. QED BY <1>1, <2>1, <2>3, <2>4 DEF RightlyLeft
<1>6. NoneIsMissing'
  <2>. SUFFICES ASSUME NEW c \in DOMAIN timers,
                       timers[c].due > ticks \/ timers[c].due = NeverDue
                PROVE  \E n \in DOMAIN lTimedEvents' : lTimedEvents'[n].call = c
    BY <1>3 DEF NoneIsMissing
  <2>1. PICK o \in DOMAIN lTimedEvents : lTimedEvents[o].call = c
    BY DEF TimerInv, NoneIsMissing
  <2>2. o # cursor
    BY <1>1, <1>5, <2>1, TimerTypes DEF NeverDue
  <2>. DEFINE n == IF o < cursor THEN o ELSE o - 1
  <2>3. n \in DOMAIN lTimedEvents' /\ Old(n) = o
    BY <1>1, <1>2, <2>2, TimerTypes
  <2>. QED BY <1>2, <2>1, <2>3
<1>7. ASSUME NEW n \in DOMAIN lTimedEvents', NEW m \in 1 .. n - 1
      PROVE  lTimedEvents'[m].call < lTimedEvents'[n].call
  <2>1. m \in DOMAIN lTimedEvents' /\ Old(m) \in 1 .. Old(n) - 1 /\ Old(n) \in DOMAIN lTimedEvents
    BY <1>1, <1>2, <1>4, TimerTypes
  <2>. QED BY <1>2, <2>1 DEF TimerInv
<1>8. ASSUME NEW n \in DOMAIN lTimedEvents'
      PROVE  /\ lTimedEvents'[n].call \in DOMAIN timers'
             /\ lTimedEvents'[n].event = timers'[lTimedEvents'[n].call].event
             /\ RightlyLeft(lTimedEvents[n], CountedDown(n))'
  <2>1. /\ Old(n) \in DOMAIN lTimedEvents /\ lTimedEvents'[n] = lTimedEvents[Old(n)]
        /\ CountedDown(n)' = CountedDown(Old(n))
    BY <1>2, <1>4
  <2>. HIDE DEF Old
  <2>. QED BY <1>3, <2>1 DEF TimerInv, RightlyLeft
<1>. QED BY <1>1, <1>3, <1>6, <1>7, <1>8 DEF TimerInv

\* A call that was made while the clock did not hold the mutex.
LEMMA TimersAfterCall ==
  ASSUME Inv, TimerInv, NEW e \in Events, NEW sec \in Nat, SecToTicks(sec) <= SizeMax,
         PushTimedEvent(e, sec), UNCHANGED <<cpc, cursor, ticks>>
  PROVE  TimerInv'
<1>. DEFINE due == IF sec = 0 THEN NeverDue ELSE ticks + SecToTicks(sec)
            c == [event |-> e, due |-> due]
            t == [event |-> e, ticks_left |-> SecToTicks(sec), call |-> Len(timers) + 1]
<1>1. lTimedEvents' = Append(lTimedEvents, t) /\ timers' = Append(timers, c) /\ cpc # "service"
  BY DEF PushTimedEvent
<1>2. SecToTicks(sec) \in Nat /\ (sec # 0 => SecToTicks(sec) > 0) /\ (sec = 0 => SecToTicks(sec) = 0)
  <2>1. sec # 0 => SecToTicks(sec) \in Nat \ {0}
    BY TicksOfASecond
  <2>2. sec = 0 => SecToTicks(sec) = 0
    BY Numbers DEF SecToTicks
  <2>. QED BY <2>1, <2>2
<1>3. /\ t.call = Len(timers) + 1 /\ t.event = e /\ t.ticks_left = SecToTicks(sec)
      /\ c.event = e /\ c.due = due
  OBVIOUS
<1>4. due \in Int /\ (due = NeverDue <=> sec = 0)
  BY <1>2, TimerTypes DEF NeverDue
<1>5. lTimedEvents \in Seq(TimedEvent) /\ timers \in Seq([event : Events, due : Int])
      /\ t \in TimedEvent /\ c \in [event : Events, due : Int]
  BY <1>2, <1>4, TimerTypes DEF Inv, TypeOK, TimedEvent
<1>. HIDE DEF t, c
<1>6. /\ DOMAIN lTimedEvents' = 1 .. Len(lTimedEvents) + 1
      /\ \A n \in DOMAIN lTimedEvents : lTimedEvents'[n] = lTimedEvents[n]
      /\ lTimedEvents'[Len(lTimedEvents) + 1] = t
  BY <1>1, <1>5, Appended, LenProperties
<1>7. /\ DOMAIN timers' = 1 .. Len(timers) + 1
      /\ \A n \in DOMAIN timers : timers'[n] = timers[n]
      /\ timers'[Len(timers) + 1] = c
  BY <1>1, <1>5, Appended, LenProperties
<1>8. \A n : CountedDown(n) = ticks /\ CountedDown(n)' = ticks
  BY <1>1 DEF CountedDown
<1>9. ASSUME NEW n \in DOMAIN lTimedEvents'
      PROVE  /\ lTimedEvents'[n].call \in DOMAIN timers'
             /\ lTimedEvents'[n].event = timers'[lTimedEvents'[n].call].event
             /\ RightlyLeft(lTimedEvents[n], CountedDown(n))'
  <2>1. CASE n \in DOMAIN lTimedEvents
    <3>1. /\ lTimedEvents'[n] = lTimedEvents[n] /\ lTimedEvents[n].call \in DOMAIN timers
          /\ timers'[lTimedEvents[n].call] = timers[lTimedEvents[n].call]
          /\ RightlyLeft(lTimedEvents[n], ticks)
          /\ lTimedEvents[n].event = timers[lTimedEvents[n].call].event
      BY <1>6, <1>7, <1>8, <2>1 DEF TimerInv
    <3>2. lTimedEvents[n].call \in DOMAIN timers'
      BY <1>7, <3>1, TimerTypes
    <3>. QED BY <1>8, <3>1, <3>2 DEF RightlyLeft
  <2>2. CASE n = Len(lTimedEvents) + 1
    <3>1. lTimedEvents'[n] = t /\ t.call = Len(timers) + 1 /\ timers'[t.call] = c
          /\ t.call \in DOMAIN timers'
      BY <1>3, <1>6, <1>7, <2>2, TimerTypes
    <3>2. /\ t.ticks_left <= SizeMax
          /\ IF due = NeverDue THEN t.ticks_left = 0 \/ t.ticks_left >= SizeMax - ticks
             ELSE t.ticks_left = due - ticks /\ t.ticks_left > 0
      BY <1>2, <1>3, <1>4, TimerTypes
    <3>. QED BY <1>3, <1>8, <3>1, <3>2 DEF RightlyLeft
  <2>. QED BY <1>6, <2>1, <2>2, TimerTypes
<1>10. ASSUME NEW n \in DOMAIN lTimedEvents', NEW m \in 1 .. n - 1
       PROVE  lTimedEvents'[m].call < lTimedEvents'[n].call
  <2>1. m \in DOMAIN lTimedEvents /\ lTimedEvents'[m] = lTimedEvents[m]
    BY <1>6, TimerTypes
  <2>2. lTimedEvents[m].call \in 1 .. Len(timers)
    BY <2>1, TimerTypes DEF TimerInv
  <2>3. CASE n \in DOMAIN lTimedEvents
    BY <1>6, <2>1, <2>3 DEF TimerInv
  <2>4. CASE n = Len(lTimedEvents) + 1
    BY <1>3, <1>6, <2>1, <2>2, <2>4, TimerTypes
  <2>. QED BY <1>6, <2>3, <2>4, TimerTypes
<1>11. NoneIsMissing'
  <2>. SUFFICES ASSUME NEW i \in DOMAIN timers',
                       timers'[i].due > ticks \/ timers'[i].due = NeverDue
                PROVE  \E n \in DOMAIN lTimedEvents' : lTimedEvents'[n].call = i
    BY DEF NoneIsMissing
  <2>1. CASE i \in DOMAIN timers
    <3>1. PICK n \in DOMAIN lTimedEvents : lTimedEvents[n].call = i
      BY <1>7, <2>1 DEF TimerInv, NoneIsMissing
    <3>2. n \in DOMAIN lTimedEvents' /\ lTimedEvents'[n].call = i
      BY <1>6, <3>1, TimerTypes
    <3>. QED BY <3>2
  <2>2. CASE i = Len(timers) + 1
    <3>1. Len(lTimedEvents) + 1 \in DOMAIN lTimedEvents'
      BY <1>6, TimerTypes
    <3>. QED BY <1>3, <1>6, <2>2, <3>1
  <2>. QED BY <1>7, <2>1, <2>2, TimerTypes
<1>. QED BY <1>1, <1>9, <1>10, <1>11 DEF TimerInv

LEMMA TimerStep ==
  ASSUME \A sec \in Delays \union {AutohashTime} : SecToTicks(sec) <= SizeMax,
         Inv, ticks < SizeMax => TimerInv, [Next]_vars
  PROVE  ticks' < SizeMax => TimerInv'
<1>. SUFFICES ASSUME ticks' < SizeMax PROVE TimerInv'
  OBVIOUS
<1>1. ticks' \in {ticks, ticks + 1}
  BY DEF Next, Clock, NextTick, LockTimedEvents, CountDown, Fire, EndOfTick, ExMain, ConnectFirst,
     StartAutohash, WaitForEvent, PopEvent, HandleOther, HandleHashrateLoop, HttpReport, Requester,
     GetHttpReport, PushRequest, ReportIsReady, CallPushTimedEvent, Notify, WakeUp, vars
<1>2. ticks < SizeMax /\ TimerInv
  BY <1>1, TimerTypes
<1>3. ASSUME UNCHANGED <<lTimedEvents, timers, ticks>>,
             \/ UNCHANGED <<cpc, cursor>>
             \/ cpc' # "service" /\ (cpc = "service" => cursor > Len(lTimedEvents))
      PROVE  TimerInv'
  <2>1. \A n \in DOMAIN lTimedEvents : CountedDown(n)' = CountedDown(n)
    BY <1>3, TimerTypes DEF CountedDown
  <2>2. cpc' = "service" => ticks' >= 1
    BY <1>2, <1>3 DEF TimerInv
  <2>. QED BY <1>2, <1>3, <2>1, <2>2 DEF TimerInv, RightlyLeft, NoneIsMissing
<1>4. CASE LockTimedEvents
  <2>1. /\ cpc = "lock" /\ cursor' = 1 /\ ticks' = ticks + 1 /\ UNCHANGED <<lTimedEvents, timers>>
    BY <1>4 DEF LockTimedEvents, timedVars
  <2>2. \A n \in DOMAIN lTimedEvents : CountedDown(n)' = CountedDown(n)
    BY <2>1, <1>4, TimerTypes DEF CountedDown, LockTimedEvents
  <2>3. NoneIsMissing'
    <3>1. \A c \in DOMAIN timers : timers[c].due > ticks + 1 => timers[c].due > ticks
      BY TimerTypes
    <3>. QED BY <1>2, <2>1, <3>1 DEF TimerInv, NoneIsMissing
  <2>. QED BY <1>2, <2>1, <2>2, <2>3, TimerTypes DEF TimerInv, RightlyLeft
<1>5. CASE Clock
  <2>1. CASE NextTick
    BY <1>3, <2>1 DEF NextTick, timedVars
  <2>2. CASE EndOfTick
    BY <1>3, <2>2 DEF EndOfTick, timedVars
  <2>3. CASE CountDown
    BY <1>2, <2>3, TimersAfterCountDown
  <2>4. CASE Fire
    BY <1>2, <2>4, TimersAfterFire
  <2>. QED BY <1>4, <1>5, <2>1, <2>2, <2>3, <2>4 DEF Clock
<1>6. ASSUME PushTimedEvent(HashrateLoop, AutohashTime), UNCHANGED <<clockVars, ticks>>
      PROVE  TimerInv'
  <2>1. /\ AutohashTime \in Nat /\ HashrateLoop \in Events
        /\ SecToTicks(AutohashTime) <= SizeMax
    BY NumberAssumption, OtherEvents
  <2>. QED BY <1>2, <1>6, <2>1, TimersAfterCall DEF clockVars
<1>7. CASE ExMain
  BY <1>3, <1>6, <1>7 DEF ExMain, ConnectFirst, StartAutohash, WaitForEvent, PopEvent, HandleOther,
     HandleHashrateLoop, HttpReport, clockVars, timedVars
<1>8. ASSUME NEW r \in Requesters, Requester(r) PROVE TimerInv'
  BY <1>3, <1>8 DEF Requester, GetHttpReport, PushRequest, ReportIsReady, clockVars, timedVars
<1>9. ASSUME NEW c \in Callers, CallPushTimedEvent(c) PROVE TimerInv'
  <2>1. PICK sec \in Delays : PushTimedEvent(Reconnect, sec)
    BY <1>9 DEF CallPushTimedEvent
  <2>2. sec \in Nat /\ Reconnect \in Events /\ SecToTicks(sec) <= SizeMax
    BY NumberAssumption, OtherEvents
  <2>3. UNCHANGED <<cpc, cursor, ticks>>
    BY <1>9 DEF CallPushTimedEvent, clockVars
  <2>. QED BY <1>2, <2>1, <2>2, <2>3, TimersAfterCall
<1>10. ASSUME NEW t \in Posters, Notify(t) PROVE TimerInv'
  BY <1>3, <1>10 DEF Notify, clockVars, timedVars
<1>11. CASE WakeUp \/ UNCHANGED vars
  BY <1>3, <1>11 DEF WakeUp, vars, clockVars, timedVars
<1>. QED BY <1>5, <1>7, <1>8, <1>9, <1>10, <1>11 DEF Next

\* Every timed event leaves the list at the tick it is due, in the order of the calls, whatever
\* else is in the list or added to it, for any delays whose ticks a size_t holds and until the
\* clock itself has ticked as often: then an event of zero seconds would fire after all
\* (executor.cpp:60-106).
THEOREM TimersAreOnTime ==
  ASSUME \A sec \in Delays \union {AutohashTime} : SecToTicks(sec) <= SizeMax
  PROVE  Spec => [](ticks < SizeMax => TimersOnTime)
<1>1. Init => TimerInv
  <2>. SUFFICES ASSUME Init PROVE TimerInv
    OBVIOUS
  <2>1. DOMAIN timers = {} /\ DOMAIN lTimedEvents = {} /\ cpc = "sleep"
    BY DEF Init
  <2>. QED BY <2>1 DEF TimerInv, NoneIsMissing
<1>2. Inv /\ (ticks < SizeMax => TimerInv) /\ [Next]_vars => (ticks < SizeMax => TimerInv)'
  BY TimerStep
<1>3. Inv /\ (ticks < SizeMax => TimerInv) => (ticks < SizeMax => TimersOnTime)
  <2>. SUFFICES ASSUME Inv, TimerInv, ticks < SizeMax, cpc = "sleep" PROVE TimersOnTime
    BY DEF TimersOnTime
  <2>1. ASSUME NEW n \in DOMAIN lTimedEvents
        PROVE  /\ lTimedEvents[n].call \in DOMAIN timers
               /\ LET due == timers[lTimedEvents[n].call].due IN due > ticks \/ due = NeverDue
               /\ lTimedEvents[n].event = timers[lTimedEvents[n].call].event
               /\ \A m \in 1 .. n - 1 : lTimedEvents[m].call < lTimedEvents[n].call
    <3>1. /\ lTimedEvents[n].call \in DOMAIN timers /\ RightlyLeft(lTimedEvents[n], ticks)
          /\ lTimedEvents[n].event = timers[lTimedEvents[n].call].event
          /\ \A m \in 1 .. n - 1 : lTimedEvents[m].call < lTimedEvents[n].call
      BY DEF TimerInv, CountedDown
    <3>2. LET due == timers[lTimedEvents[n].call].due IN due > ticks \/ due = NeverDue
      BY <3>1, TimerTypes DEF RightlyLeft
    <3>. QED BY <3>1, <3>2
  <2>2. \A c \in DOMAIN timers : timers[c].due > ticks \/ timers[c].due = NeverDue =>
          \E n \in DOMAIN lTimedEvents : lTimedEvents[n].call = c
    BY DEF TimerInv, NoneIsMissing
  <2>. QED BY <2>1, <2>2 DEF TimersOnTime
<1>. QED BY <1>1, <1>2, <1>3, InvHolds, PTL DEF Spec
=============================================================================
