------------------------------ MODULE Executor ------------------------------
(***************************************************************************)
(* The executor (executor.cpp): its own thread, ex_main, which handles the *)
(* events of the queue; the clock thread, which posts a tick every 500 ms, *)
(* counts down timed events and switches between the user's and the        *)
(* developer's pool; threads of the web server, which ask for reports and  *)
(* wait for them; and callers of push_timed_event.                         *)
(*                                                                         *)
(* Each action is a stretch of code that holds one mutex, or touches       *)
(* nothing that another thread reads.  The clock alone keeps a mutex over  *)
(* several steps: timed_event_mutex, while it posts what has become due.   *)
(***************************************************************************)
EXTENDS EventQueue, Integers, FiniteSets

CONSTANTS Requesters,       \* the threads that call get_http_report
          Asks,             \* the report each of them asks for
          Callers,          \* other threads that call push_timed_event
          VerboseLevel, AutohashTime,                  \* jconf
          TicksPerSec,                                 \* 1000 / iTickTime
          DevDonatePeriod, DevPercent,                 \* in seconds; fDevDonationLevel
          LeastDevTime, ConnectTime,                   \* 10 and 2 seconds
          SizeMax,                                     \* 2^64
          Delays,           \* the seconds that callers of push_timed_event ask for
          Budgets           \* bounds: the ticks of the clock and the calls of other threads

Html == {"EV_HTML_HASHRATE", "EV_HTML_RESULTS", "EV_HTML_CONNSTAT"}
HashrateLoop == <<"EV_HASHRATE_LOOP", 0>>
PerfTick     == <<"EV_PERF_TICK", 0>>
dev_pool_id  == 1
usr_pool_id  == 2
SwitchPool(id) == <<"EV_SWITCH_POOL", id>>
Reconnect      == <<"EV_RECONNECT", usr_pool_id>>
EventSet == {HashrateLoop, PerfTick, Reconnect} \union {<<k, 0>> : k \in Html}
              \union {SwitchPool(id) : id \in {dev_pool_id, usr_pool_id}}

SecToTicks(sec) == sec * TicksPerSec

SwitchPeriod == SecToTicks(DevDonatePeriod)

\* Not worth it for less than 10 seconds; 2 seconds more to make up for connecting.
DevPortion == LET portion == (SwitchPeriod * DevPercent) \div 100
              IN  IF portion < SecToTicks(LeastDevTime) \/ portion = 0 THEN 0
                  ELSE portion + SecToTicks(ConnectTime)

ASSUME ThreadAssumption ==
  /\ Posters = {"clock", "executor"} \union Requesters
  /\ {"clock", "executor"} \intersect Requesters = {}
  /\ Events = EventSet
  /\ Asks \in [Requesters -> Html]
ASSUME NumberAssumption ==
  /\ {VerboseLevel, AutohashTime, DevPercent, LeastDevTime, ConnectTime} \subseteq Nat
  /\ {TicksPerSec, DevDonatePeriod, SizeMax} \subseteq Nat \ {0}
  /\ Delays \subseteq Nat
  /\ Budgets \subseteq [{"clock"} \union Requesters \union Callers -> Nat]

VARIABLES
  cpc, cursor,     \* the clock: where it is, and its iterator into lTimedEvents
  iSwitchPeriod,   \* its countdown to the next switch of pools
  lTimedEvents,    \* events and ticks left, and, for the properties, which call each is of
  epc, ev,         \* ex_main: where it is, and the event it handles
  hpc, data,       \* each requester: where it is, and its string
  pHttpString,     \* whose string the next report is written to, or "null"
  httpReady,       \* whose promise httpReady is, or "none"
  ready,           \* the requesters whose promise is fulfilled
  left,            \* bound: what is left of the budget
  ticks, timers,   \* history: ticks served, and for all calls of push_timed_event the event
                   \* and the tick it is due at
  pool             \* history: the pool of the last EV_SWITCH_POOL

clockVars == <<cpc, cursor, iSwitchPeriod>>
httpVars  == <<hpc, data, pHttpString, httpReady, ready>>
timedVars == <<lTimedEvents, timers>>
vars == <<queueVars, clockVars, timedVars, epc, ev, httpVars, left, ticks, pool>>

TimedEvent == [event : Events, ticks_left : Nat, call : Nat]

TypeOK ==
  /\ queue \in Seq(Events) /\ notifying \subseteq Posters /\ sleeping \in BOOLEAN
  /\ cpc \in {"sleep", "lock", "service"}
  /\ cursor \in 1 .. Len(lTimedEvents) + 1
  /\ iSwitchPeriod \in 1 .. SwitchPeriod
  /\ lTimedEvents \in Seq(TimedEvent) /\ timers \in Seq([event : Events, due : Int])
  /\ epc \in {"connect", "arm", "pop", "handle"} /\ ev \in Events
  /\ hpc \in [Requesters -> {"idle", "push", "wait", "done"}]
  /\ data \in [Requesters -> Html \union {"empty"}]
  /\ pHttpString \in Requesters \union {"null"}
  /\ httpReady \in Requesters \union {"none"} /\ ready \subseteq Requesters
  /\ left \in [{"clock"} \union Requesters \union Callers -> Nat]
  /\ ticks \in Nat /\ pool \in {dev_pool_id, usr_pool_id}

Init ==
  /\ InitQueue
  /\ cpc = "sleep" /\ cursor = 1 /\ iSwitchPeriod = SwitchPeriod
  /\ lTimedEvents = <<>> /\ timers = <<>>
  /\ epc = "connect" /\ ev = PerfTick
  /\ hpc = [r \in Requesters |-> "idle"] /\ data = [r \in Requesters |-> "empty"]
  /\ pHttpString = "null" /\ httpReady = "none" /\ ready = {}
  /\ left \in Budgets
  /\ ticks = 0 /\ pool = usr_pool_id

-----------------------------------------------------------------------------
(***************************************************************************)
(* push_timed_event.  Of zero seconds there are zero ticks left, which the *)
(* clock counts down to the largest size_t: such an event is never due.    *)
(***************************************************************************)
NeverDue == -1

PushTimedEvent(event, sec) ==
  LET due == IF sec = 0 THEN NeverDue ELSE ticks + SecToTicks(sec)
  IN  /\ cpc # "service"
      /\ lTimedEvents' = Append(lTimedEvents, [event |-> event, ticks_left |-> SecToTicks(sec),
                                               call |-> Len(timers) + 1])
      /\ timers' = Append(timers, [event |-> event, due |-> due])

CallPushTimedEvent(c) ==
  /\ left[c] > 0
  /\ left' = [left EXCEPT ![c] = @ - 1]
  /\ \E sec \in Delays : PushTimedEvent(Reconnect, sec)
  /\ UNCHANGED <<queueVars, clockVars, epc, ev, httpVars, ticks, pool>>

-----------------------------------------------------------------------------
(* The clock thread, ex_clock_thd.                                         *)

NextTick ==
  /\ cpc = "sleep" /\ left["clock"] > 0
  /\ left' = [left EXCEPT !["clock"] = @ - 1]
  /\ Push("clock", PerfTick)
  /\ cpc' = "lock"
  /\ UNCHANGED <<cursor, iSwitchPeriod, timedVars, epc, ev, httpVars, ticks, pool>>

LockTimedEvents ==
  /\ cpc = "lock" /\ "clock" \notin notifying
  /\ cpc' = "service" /\ cursor' = 1
  /\ ticks' = ticks + 1
  /\ UNCHANGED <<queueVars, iSwitchPeriod, timedVars, epc, ev, httpVars, left, pool>>

\* Mutant of TicksLeft: the ticks left are a signed number.
TicksLeftSigned == lTimedEvents[cursor].ticks_left - 1

TicksLeft == (lTimedEvents[cursor].ticks_left - 1) % SizeMax

CountDown ==
  /\ cpc = "service" /\ "clock" \notin notifying
  /\ cursor <= Len(lTimedEvents) /\ TicksLeft # 0
  /\ lTimedEvents' = [lTimedEvents EXCEPT ![cursor].ticks_left = TicksLeft]
  /\ cursor' = cursor + 1
  /\ UNCHANGED <<queueVars, cpc, iSwitchPeriod, timers, epc, ev, httpVars, left, ticks, pool>>

\* Mutant of Fire: the iterator returned by erase is advanced once more.
FireAndSkip ==
  /\ cpc = "service" /\ cursor <= Len(lTimedEvents) /\ TicksLeft = 0
  /\ Push("clock", lTimedEvents[cursor].event)
  /\ lTimedEvents' = SubSeq(lTimedEvents, 1, cursor - 1)
                       \o SubSeq(lTimedEvents, cursor + 1, Len(lTimedEvents))
  /\ cursor' = IF cursor < Len(lTimedEvents) THEN cursor + 1 ELSE cursor
  /\ UNCHANGED <<cpc, iSwitchPeriod, timers, epc, ev, httpVars, left, ticks, pool>>

Fire ==
  /\ cpc = "service" /\ cursor <= Len(lTimedEvents) /\ TicksLeft = 0
  /\ Push("clock", lTimedEvents[cursor].event)
  /\ lTimedEvents' = SubSeq(lTimedEvents, 1, cursor - 1)
                       \o SubSeq(lTimedEvents, cursor + 1, Len(lTimedEvents))
  /\ UNCHANGED <<clockVars, timers, epc, ev, httpVars, left, ticks, pool>>

\* Mutant of SwitchPools: the developer's pool comes one tick late.
SwitchPoolsLate ==
  \/ /\ DevPortion = 0
     /\ UNCHANGED <<queueVars, iSwitchPeriod, pool>>
  \/ /\ DevPortion # 0 /\ iSwitchPeriod = 1
     /\ Push("clock", SwitchPool(usr_pool_id)) /\ pool' = usr_pool_id
     /\ iSwitchPeriod' = SwitchPeriod
  \/ /\ DevPortion # 0 /\ iSwitchPeriod > 1
     /\ iSwitchPeriod' = iSwitchPeriod - 1
     /\ IF iSwitchPeriod = DevPortion
        THEN Push("clock", SwitchPool(dev_pool_id)) /\ pool' = dev_pool_id
        ELSE UNCHANGED <<queueVars, pool>>

SwitchPools ==
  \/ /\ DevPortion = 0
     /\ UNCHANGED <<queueVars, iSwitchPeriod, pool>>
  \/ /\ DevPortion # 0 /\ iSwitchPeriod = 1
     /\ Push("clock", SwitchPool(usr_pool_id)) /\ pool' = usr_pool_id
     /\ iSwitchPeriod' = SwitchPeriod
  \/ /\ DevPortion # 0 /\ iSwitchPeriod > 1
     /\ iSwitchPeriod' = iSwitchPeriod - 1
     /\ IF iSwitchPeriod' = DevPortion
        THEN Push("clock", SwitchPool(dev_pool_id)) /\ pool' = dev_pool_id
        ELSE UNCHANGED <<queueVars, pool>>

\* The end of the list: the mutex is released, and the pools are looked after.
EndOfTick ==
  /\ cpc = "service" /\ cursor > Len(lTimedEvents) /\ "clock" \notin notifying
  /\ SwitchPools
  /\ cpc' = "sleep" /\ cursor' = 1
  /\ UNCHANGED <<timedVars, epc, ev, httpVars, left, ticks>>

Clock == NextTick \/ LockTimedEvents \/ CountDown \/ Fire \/ EndOfTick

-----------------------------------------------------------------------------
(* The executor's own thread, ex_main.                                     *)

ConnectFirst ==
  /\ epc = "connect"
  /\ Push("executor", Reconnect)
  /\ epc' = "arm"
  /\ UNCHANGED <<clockVars, timedVars, ev, httpVars, left, ticks, pool>>

StartAutohash ==
  /\ epc = "arm" /\ "executor" \notin notifying
  /\ IF VerboseLevel >= 4 THEN PushTimedEvent(HashrateLoop, AutohashTime)
     ELSE UNCHANGED timedVars
  /\ epc' = "pop"
  /\ UNCHANGED <<queueVars, clockVars, ev, httpVars, left, ticks, pool>>

WaitForEvent ==
  /\ epc = "pop" /\ Wait
  /\ UNCHANGED <<clockVars, timedVars, epc, ev, httpVars, left, ticks, pool>>

WakeUp ==
  /\ WakeSpuriously
  /\ UNCHANGED <<clockVars, timedVars, epc, ev, httpVars, left, ticks, pool>>

PopEvent ==
  /\ epc = "pop" /\ \E e \in Events : Pop(e) /\ ev' = e
  /\ epc' = "handle"
  /\ UNCHANGED <<clockVars, timedVars, httpVars, left, ticks, pool>>

\* The handlers of ticks, connections and switches touch nothing modelled here.
HandleOther ==
  /\ epc = "handle" /\ ev # HashrateLoop /\ ev[1] \notin Html
  /\ epc' = "pop"
  /\ UNCHANGED <<queueVars, clockVars, timedVars, ev, httpVars, left, ticks, pool>>

\* Mutant of HandleHashrateLoop: the report is printed and not scheduled again.
HandleHashrateOnce ==
  /\ epc = "handle" /\ ev = HashrateLoop
  /\ epc' = "pop"
  /\ UNCHANGED <<queueVars, clockVars, timedVars, ev, httpVars, left, ticks, pool>>

HandleHashrateLoop ==
  /\ epc = "handle" /\ ev = HashrateLoop
  /\ PushTimedEvent(HashrateLoop, AutohashTime)
  /\ epc' = "pop"
  /\ UNCHANGED <<queueVars, clockVars, ev, httpVars, left, ticks, pool>>

\* Mutant of HttpReport: the report is written after the promise is fulfilled.
HttpReportAfterwards ==
  /\ epc = "handle" /\ ev[1] \in Html
  /\ ready' = ready \union ({httpReady} \intersect Requesters)
  /\ IF httpReady \in ready
     THEN /\ epc' = "pop"
          /\ data' = IF pHttpString = "null" THEN data ELSE [data EXCEPT ![pHttpString] = ev[1]]
     ELSE UNCHANGED <<epc, data>>
  /\ UNCHANGED <<queueVars, clockVars, timedVars, ev, hpc, pHttpString, httpReady,
                 left, ticks, pool>>

\* http_report; what it asserts is the property RequestIsThere.
HttpReport ==
  /\ epc = "handle" /\ ev[1] \in Html
  /\ pHttpString # "null"
  /\ data' = [data EXCEPT ![pHttpString] = ev[1]]
  /\ ready' = ready \union {httpReady}
  /\ epc' = "pop"
  /\ UNCHANGED <<queueVars, clockVars, timedVars, ev, hpc, pHttpString, httpReady,
                 left, ticks, pool>>

ExMain == ConnectFirst \/ StartAutohash \/ WaitForEvent \/ PopEvent \/ HandleOther
            \/ HandleHashrateLoop \/ HttpReport

-----------------------------------------------------------------------------
(* get_http_report, in a thread of the web server.                         *)

\* Mutant of GetHttpReport: httpMutex is not taken.
GetHttpReportUnlocked(r) ==
  /\ hpc[r] \in {"idle", "done"} /\ left[r] > 0
  /\ left' = [left EXCEPT ![r] = @ - 1]
  /\ pHttpString' = r /\ httpReady' = r /\ ready' = ready \ {r}
  /\ data' = [data EXCEPT ![r] = "empty"]
  /\ hpc' = [hpc EXCEPT ![r] = "push"]
  /\ UNCHANGED <<queueVars, clockVars, timedVars, epc, ev, ticks, pool>>

\* httpMutex is free when nobody is inside.
GetHttpReport(r) ==
  /\ hpc[r] \in {"idle", "done"} /\ left[r] > 0
  /\ \A q \in Requesters : hpc[q] \notin {"push", "wait"}
  /\ left' = [left EXCEPT ![r] = @ - 1]
  /\ pHttpString' = r /\ httpReady' = r /\ ready' = ready \ {r}
  /\ data' = [data EXCEPT ![r] = "empty"]
  /\ hpc' = [hpc EXCEPT ![r] = "push"]
  /\ UNCHANGED <<queueVars, clockVars, timedVars, epc, ev, ticks, pool>>

PushRequest(r) ==
  /\ hpc[r] = "push"
  /\ Push(r, <<Asks[r], 0>>)
  /\ hpc' = [hpc EXCEPT ![r] = "wait"]
  /\ UNCHANGED <<clockVars, timedVars, epc, ev, data, pHttpString, httpReady, ready,
                 left, ticks, pool>>

\* Mutant of ReportIsReady: the future is not waited for.
ReturnAtOnce(r) ==
  /\ hpc[r] = "wait" /\ r \notin notifying
  /\ pHttpString' = "null"
  /\ hpc' = [hpc EXCEPT ![r] = "done"]
  /\ UNCHANGED <<queueVars, clockVars, timedVars, epc, ev, data, httpReady, ready,
                 left, ticks, pool>>

ReportIsReady(r) ==
  /\ hpc[r] = "wait" /\ r \notin notifying /\ r \in ready
  /\ pHttpString' = "null"
  /\ hpc' = [hpc EXCEPT ![r] = "done"]
  /\ UNCHANGED <<queueVars, clockVars, timedVars, epc, ev, data, httpReady, ready,
                 left, ticks, pool>>

Requester(r) == GetHttpReport(r) \/ PushRequest(r) \/ ReportIsReady(r)

Notify(t) ==
  /\ NotifyOne(t)
  /\ UNCHANGED <<clockVars, timedVars, epc, ev, httpVars, left, ticks, pool>>

Next == \/ Clock \/ ExMain \/ WakeUp
        \/ \E r \in Requesters : Requester(r)
        \/ \E c \in Callers : CallPushTimedEvent(c)
        \/ \E t \in Posters : Notify(t)

\* The system runs every thread; nobody is obliged to ask for reports or timers.
Fairness == /\ WF_vars(Clock) /\ WF_vars(ExMain)
            /\ \A t \in Posters : WF_vars(Notify(t))
            /\ \A r \in Requesters : WF_vars(PushRequest(r) \/ ReportIsReady(r))

Spec == Init /\ [][Next]_vars /\ Fairness

-----------------------------------------------------------------------------
\* A timed event leaves the list at exactly the tick it is due, whichever others are before
\* it in the list or added meanwhile, and in the order of the calls (executor.cpp:80-92).
TimersOnTime ==
  cpc = "sleep" =>
    /\ {lTimedEvents[n].call : n \in DOMAIN lTimedEvents}
         = {c \in DOMAIN timers : timers[c].due > ticks \/ timers[c].due = NeverDue}
    /\ \A n \in DOMAIN lTimedEvents :
         /\ lTimedEvents[n].event = timers[lTimedEvents[n].call].event
         /\ \A m \in 1 .. n - 1 : lTimedEvents[m].call < lTimedEvents[n].call

\* The automatic report is scheduled once at any time: it waits in the list or the queue, or
\* is being printed, and never dies out or doubles (executor.cpp:226-227, 290-293).
OneHashrateLoop ==
  LET waiting == {n \in DOMAIN lTimedEvents : lTimedEvents[n].event = HashrateLoop}
      posted  == {n \in DOMAIN queue : queue[n] = HashrateLoop}
      handled == IF epc = "handle" /\ ev = HashrateLoop THEN 1 ELSE 0
  IN  Cardinality(waiting) + Cardinality(posted) + handled =
        IF VerboseLevel >= 4 /\ epc \notin {"connect", "arm"} THEN 1 ELSE 0

\* In each period the developer's pool has exactly the last DevPortion ticks: the countdown
\* does not drift and no switch is left out or repeated (executor.cpp:60-106).
DevHasItsPortion ==
  cpc = "sleep" /\ DevPortion < SwitchPeriod =>
    (pool = dev_pool_id <=> ticks % SwitchPeriod >= SwitchPeriod - DevPortion)

\* When a request is handled there is one: the string is set, and its promise is not yet
\* fulfilled (the assertion executor.cpp:496; set_value throws if called twice, 516).
RequestIsThere ==
  epc = "handle" /\ ev[1] \in Html => pHttpString \in Requesters /\ httpReady \notin ready

\* Each thread that asked for a report gets the one it asked for, whoever asked before and
\* whatever is queued (executor.cpp:519-534).
OwnReport == \A r \in Requesters : hpc[r] = "done" => data[r] = Asks[r]

\* Each request is answered: no wake-up is lost between the queue, the executor and the
\* promise, and timed_event_mutex, which the clock keeps while it posts, blocks nobody for
\* good (executor.cpp:519-534, 80-94; thdq.hpp:33-48).
RequestIsAnswered == \A r \in Requesters : hpc[r] = "push" ~> hpc[r] = "done"
=============================================================================
