----------------------------- MODULE Telemetry -----------------------------
(***************************************************************************)
(* telemetry (minethd.cpp): a ring of hash counts and time stamps for each *)
(* mining thread, and the rate of the last milliseconds computed from it.  *)
(* One thread's ring is modelled, filled by the executor's tick.           *)
(***************************************************************************)
EXTENDS Integers, Sequences, FiniteSetsExt

CONSTANTS iBucketSize,  \* of the ring
          Junk,         \* what a row may hold that was never written
          Epoch,        \* the clock when the threads start
          Steps, Hashes, Busy,   \* bounds: between two samples, the time that passes, the
                                 \* hashes, and the time a mining thread measures for them
          MaxSamples,
          Periods       \* what rates are asked for

ASSUME RingAssumption == iBucketSize \in Nat \ {0} /\ MaxSamples \in Nat
ASSUME JunkAssumption == Junk \subseteq [0 .. iBucketSize - 1 -> [count : Nat, stamp : Nat]]
ASSUME ClockAssumption == /\ Epoch \in Nat \ {0}
                          /\ Steps \subseteq Nat /\ Hashes \subseteq Nat /\ Busy \subseteq Nat
\* It is longer since 1970 than what a rate is asked for.
ASSUME PeriodAssumption == \A period \in Periods : period \in Nat /\ period < Epoch

VARIABLES row,          \* "first" or "other": the constructor clears the first row only
          source,       \* what is pushed as the time: the "clock" or, as now, "busy" time
          ppHashCounts, ppTimestamps, iBucketTop,
          now,
          iHashCount, iTimestamp,  \* the counters of the mining thread
          samples       \* history: the hash counts that were pushed, and when

telemetryVars == <<row, source, ppHashCounts, ppTimestamps, iBucketTop, now,
                   iHashCount, iTimestamp, samples>>

Ring == 0 .. iBucketSize - 1

Cleared == [b \in Ring |-> [count |-> 0, stamp |-> 0]]

InitTelemetry ==
  /\ row \in {"first", "other"} /\ source \in {"clock", "busy"}
  /\ \E memory \in IF row = "first" THEN {Cleared} ELSE Junk :
       /\ ppHashCounts = [b \in Ring |-> memory[b].count]
       /\ ppTimestamps = [b \in Ring |-> memory[b].stamp]
  /\ iBucketTop = 0 /\ now = Epoch
  /\ iHashCount = 0 /\ iTimestamp = 0 /\ samples = << >>

\* Mutant of PushPerfValue: the ring is one shorter than its mask.
PushWithinMask(count, stamp) ==
  /\ ppHashCounts' = [ppHashCounts EXCEPT ![iBucketTop] = count]
  /\ ppTimestamps' = [ppTimestamps EXCEPT ![iBucketTop] = stamp]
  /\ iBucketTop' = (iBucketTop + 1) % (iBucketSize - 1)

PushPerfValue(count, stamp) ==
  /\ ppHashCounts' = [ppHashCounts EXCEPT ![iBucketTop] = count]
  /\ ppTimestamps' = [ppTimestamps EXCEPT ![iBucketTop] = stamp]
  /\ iBucketTop' = (iBucketTop + 1) % iBucketSize

\* EV_PERF_TICK.
PerfTick ==
  /\ Len(samples) < MaxSamples
  /\ PushPerfValue(iHashCount, IF source = "clock" THEN now ELSE iTimestamp)
  /\ samples' = Append(samples, [count |-> iHashCount, at |-> now])
  /\ UNCHANGED <<row, source, now, iHashCount, iTimestamp>>

\* Meanwhile the thread hashes, and is busy no longer than the time that has passed.
Mine ==
  /\ now - Epoch < MaxSamples
  /\ \E t \in Steps, h \in Hashes, b \in Busy :
       /\ now' = now + t
       /\ iHashCount' = iHashCount + h
       /\ iTimestamp' = iTimestamp + b
       /\ iTimestamp' <= now' - Epoch
  /\ UNCHANGED <<row, source, ppHashCounts, ppTimestamps, iBucketTop, samples>>

NextTelemetry == PerfTick \/ Mine

SpecTelemetry == InitTelemetry /\ [][NextTelemetry]_telemetryVars

-----------------------------------------------------------------------------
(***************************************************************************)
(* calc_telemetry_data: hashes and time, whose quotient is returned, or    *)
(* NaN.  Time differences are unsigned: a stamp of the future is very old. *)
(***************************************************************************)
NaN == << >>
TooOld(stamp, period) == stamp > now \/ now - stamp > period

OrNaN(hashes, time) == IF hashes = 0 /\ time = 0 THEN NaN ELSE << hashes, time >>

CalcTelemetryData(period) ==
  LET idx(i) == (iBucketTop - i) % iBucketSize
      stop == Min({iBucketSize} \union
                  {i \in 1 .. iBucketSize - 1 : \/ ppTimestamps[idx(i)] = 0
                                                \/ TooOld(ppTimestamps[idx(i)], period)})
      bHaveFullSet == stop < iBucketSize /\ ppTimestamps[idx(stop)] # 0
  IN  IF ~bHaveFullSet \/ stop = 1 THEN NaN
      ELSE OrNaN(ppHashCounts[idx(1)] - ppHashCounts[idx(stop - 1)],
                 ppTimestamps[idx(1)] - ppTimestamps[idx(stop - 1)])

-----------------------------------------------------------------------------
\* What is asked for: the rate from the first to the last sample of the period, provided that
\* there was one before it and that the ring, whose oldest bucket is never read, still has it.
Rate(period) ==
  LET recent == {i \in DOMAIN samples : ~TooOld(samples[i].at, period)}
      first  == samples[Min(recent)]
      last   == samples[Len(samples)]
  IN  IF recent = {} \/ 1 \in recent \/ Cardinality(recent) > iBucketSize - 2 THEN NaN
      ELSE OrNaN(last.count - first.count, last.at - first.at)

\* With samples stamped by the clock the rate is that of the period asked for, however the
\* ring has wrapped around, and there is none until the samples go back that far.  It holds
\* of a row that was never cleared only when no bucket that was never written is reached
\* (minethd.cpp:71-133; the constructor clears row 0 alone).
RateOfThePeriod ==
  \A period \in Periods :
    (/\ source = "clock"
     /\ \/ row = "first"
        \/ Len(samples) >= iBucketSize - 1
        \/ \E i \in DOMAIN samples : TooOld(samples[i].at, period))
    => CalcTelemetryData(period) = Rate(period)

\* Once samples were taken before and throughout a period in which the thread hashed, its rate
\* is in the report (executor.cpp:324-337, minethd.cpp:85-129).
RateIsReported ==
  \A period \in Periods :
    Rate(period) # NaN /\ Rate(period)[1] > 0 => CalcTelemetryData(period) # NaN
=============================================================================
