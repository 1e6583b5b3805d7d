-------------------------- MODULE UtilizationTracker --------------------------
(***************************************************************************)
(* NetDeviceUtilizationTracker (model/core/net-device-utilization-         *)
(* tracker.cc) listening to one point-to-point device, and what            *)
(* PtopLinkNetDeviceUtilizationTracking::WriteResults makes of its         *)
(* intervals at the end of the run.  The tracker is only woken when a      *)
(* transmission begins or ends, however many aggregation intervals have    *)
(* gone by since, and has to attribute the time in between after the fact. *)
(***************************************************************************)
EXTENDS Intervals, SequencesExt, FiniteSets

CONSTANTS Interval,   \* m_interval_ns (link_net_device_utilization_tracking_interval_ns)
          EpsInverse, \* 1 / UTILIZATION_TRACKER_COMPRESSION_APPROXIMATELY_NOT_EQUAL
          MaxNow      \* bound on simulated time

ASSUME TrackerAssumption ==
  /\ Interval \in Nat \ {0}             \* parse_geq_one_int64
  /\ EpsInverse \in Nat \ {0} /\ MaxNow \in Nat

VARIABLES
  now,            \* Simulator::Now()
  transmitting,   \* the device (external): is a packet on the wire
  phase,          \* "running" until Simulator::Run returns, then "stopped", "written"
  prev,           \* m_prev_time_ns
  intervalStart,  \* m_current_interval_start
  intervalEnd,    \* m_current_interval_end
  idle, busy,     \* m_idle_time_counter_ns, m_busy_time_counter_ns
  isOn,           \* m_current_state_is_on
  intervals,      \* m_intervals: <<start, end, busy>>
  compressed,     \* lines of link_net_device_utilization_compressed.csv
  busyBefore      \* history: true busy time before each instant 0 .. now

tracker == <<prev, intervalStart, intervalEnd, idle, busy, isOn, intervals>>
watching == <<now, transmitting, phase, prev, intervalStart, intervalEnd, idle, busy,
              isOn, intervals, compressed, busyBefore>>

TrackerInit ==
  /\ now = 0 /\ transmitting = FALSE /\ phase = "running"
  /\ prev = 0 /\ intervalStart = 0 /\ intervalEnd = Interval
  /\ idle = 0 /\ busy = 0 /\ isOn = FALSE
  /\ intervals = <<>> /\ compressed = <<>>
  /\ busyBefore = [u \in 0 .. MaxNow |-> 0]

------------------------------------------------------------------------------
(* Mutant: do-while, one interval is completed at every call.               *)
CompletedIntervalsDoWhile(t) ==
  IF t < intervalEnd THEN 1 ELSE (t - intervalEnd) \div Interval + 1

(* The while loop of TrackUtilization, closed.  The state that is ending    *)
(* (the opposite of nextOn) held since prev: it fills up the current        *)
(* interval and every later one that is over.                               *)
CompletedIntervals(t) ==
  IF t < intervalEnd THEN 0 ELSE (t - intervalEnd) \div Interval + 1

(* Mutant: the rest of the interval is not added before it is pushed.       *)
CompletedIntervalEarly(k, nextOn) ==
  LET left == intervalStart + (k - 1) * Interval IN
  <<left, left + Interval, IF k = 1 THEN busy ELSE IF nextOn THEN 0 ELSE Interval>>

CompletedInterval(k, nextOn) ==
  LET left == intervalStart + (k - 1) * Interval IN
  <<left, left + Interval,
    CASE k = 1 /\ nextOn  -> busy
      [] k = 1 /\ ~nextOn -> busy + (intervalEnd - prev)
      [] k > 1            -> IF nextOn THEN 0 ELSE Interval>>

(* Mutant: the counters survive the end of their interval.                  *)
AfterTrackingNoReset(nextOn) ==
  LET n    == CompletedIntervals(now)
      from == IF n = 0 THEN prev ELSE intervalEnd + (n - 1) * Interval
  IN [start |-> intervalStart + n * Interval, end |-> intervalEnd + n * Interval,
      idle  |-> idle + (IF nextOn THEN now - from ELSE 0),
      busy  |-> busy + (IF nextOn THEN 0 ELSE now - from),
      log   |-> intervals \o [k \in 1 .. n |-> CompletedInterval(k, nextOn)]]

AfterTracking(nextOn) ==
  LET n    == CompletedIntervals(now)
      from == IF n = 0 THEN prev ELSE intervalEnd + (n - 1) * Interval
  IN [start |-> intervalStart + n * Interval, end |-> intervalEnd + n * Interval,
      idle  |-> (IF n = 0 THEN idle ELSE 0) + (IF nextOn THEN now - from ELSE 0),
      busy  |-> (IF n = 0 THEN busy ELSE 0) + (IF nextOn THEN 0 ELSE now - from),
      log   |-> intervals \o [k \in 1 .. n |-> CompletedInterval(k, nextOn)]]

TrackUtilization(nextOn) ==
  LET after == AfterTracking(nextOn) IN
  /\ intervalStart' = after.start /\ intervalEnd' = after.end
  /\ idle' = after.idle /\ busy' = after.busy
  /\ prev' = now /\ isOn' = nextOn

------------------------------------------------------------------------------
(* The device alternates between the two trace sources, any number of times *)
(* per instant.                                                             *)
PhyTxBegin ==
  /\ phase = "running" /\ ~transmitting
  /\ transmitting' = TRUE
  /\ TrackUtilization(TRUE) /\ intervals' = AfterTracking(TRUE).log
  /\ UNCHANGED <<now, phase, compressed, busyBefore>>

PhyTxEnd ==
  /\ phase = "running" /\ transmitting
  /\ transmitting' = FALSE
  /\ TrackUtilization(FALSE) /\ intervals' = AfterTracking(FALSE).log
  /\ UNCHANGED <<now, phase, compressed, busyBefore>>

Tick ==
  /\ phase = "running" /\ now < MaxNow
  /\ now' = now + 1
  /\ busyBefore' = [busyBefore EXCEPT ![now + 1] =
                      busyBefore[now] + (IF transmitting THEN 1 ELSE 0)]
  /\ UNCHANGED <<transmitting, phase, tracker, compressed>>

(* Simulator::Run returns, maybe in mid-packet.                             *)
Stop ==
  /\ phase = "running"
  /\ phase' = "stopped"
  /\ UNCHANGED <<now, transmitting, tracker, compressed, busyBefore>>

(* Mutant: the time since the last event is not accounted before returning. *)
FinalizeWithoutTracking ==
  /\ UNCHANGED <<prev, intervalStart, intervalEnd, idle, busy, isOn>>
  /\ intervals' = IF now = intervalStart THEN intervals
                  ELSE Append(intervals, <<intervalStart, now, busy>>)

(* End the state that holds; the incomplete interval is included.           *)
FinalizeUtilization ==
  LET after   == AfterTracking(~isOn)
      partial == IF now = after.start THEN <<>> ELSE << <<after.start, now, after.busy>> >>
  IN /\ TrackUtilization(~isOn)
     /\ intervals' = after.log \o partial

------------------------------------------------------------------------------
(* The compression of the csv: a line is written when the next interval's   *)
(* utilization differs by at least 1/EpsInverse, and after the last one.    *)
Length(iv) == Right(iv) - Left(iv)

ApproximatelyEqual(a, b) ==
  LET d == Val(a) * Length(b) - Val(b) * Length(a)
  IN (IF d < 0 THEN -d ELSE d) * EpsInverse < Length(a) * Length(b)

LineEnds(ivs, j) == j = Len(ivs) \/ ~ApproximatelyEqual(ivs[j], ivs[j + 1])

(* The state of the loop over the intervals after the first j of them.       *)
NoLines == [lines |-> <<>>, left |-> 0, sum |-> 0]

(* Mutant: the running sum survives the line it was written in.              *)
NextLineNoReset(acc, ivs, j) ==
  LET sum == acc.sum + Val(ivs[j]) IN
  IF LineEnds(ivs, j)
  THEN [lines |-> Append(acc.lines, <<acc.left, Right(ivs[j]), sum>>),
        left |-> Right(ivs[j]), sum |-> sum]
  ELSE [lines |-> acc.lines, left |-> acc.left, sum |-> sum]

NextLine(acc, ivs, j) ==
  LET sum == acc.sum + Val(ivs[j]) IN
  IF LineEnds(ivs, j)
  THEN [lines |-> Append(acc.lines, <<acc.left, Right(ivs[j]), sum>>),
        left |-> Right(ivs[j]), sum |-> 0]
  ELSE [lines |-> acc.lines, left |-> acc.left, sum |-> sum]

CompressedLines(ivs) ==
  LET after[j \in 0 .. Len(ivs)] ==
        IF j = 0 THEN NoLines ELSE NextLine(after[j - 1], ivs, j)
  IN  after[Len(ivs)].lines

WriteResults ==
  /\ phase = "stopped"
  /\ phase' = "written"
  /\ FinalizeUtilization
  /\ compressed' = CompressedLines(intervals')
  /\ UNCHANGED <<now, transmitting, busyBefore>>

------------------------------------------------------------------------------
TrueBusy(from, to) == busyBefore[to] - busyBefore[from]

(* Accounting (net-device-utilization-tracker.cc:79 and what it rests on):  *)
(* idle and busy time since the current interval began add up, and equal    *)
(* what the device really did; so the assertion holds whenever an interval  *)
(* is completed.                                                            *)
Accounting ==
  phase # "written" =>
    /\ intervalEnd = intervalStart + Interval
    /\ intervalStart <= prev /\ prev < intervalEnd /\ prev <= now
    /\ idle + busy = prev - intervalStart
    /\ busy = TrueBusy(intervalStart, prev)
    /\ isOn = transmitting

(* ExactBusyTime (net-device-utilization-tracker.cc:62-101): however late   *)
(* the tracker is woken, each interval it has pushed holds exactly the time *)
(* the device was transmitting in it, and they tile the time from 0 on.     *)
ExactBusyTime ==
  /\ \A i \in DOMAIN intervals :
       Val(intervals[i]) = TrueBusy(Left(intervals[i]), Right(intervals[i]))
  /\ NonEmpty(intervals) /\ Adjoining(intervals)
  /\ intervals # <<>> => Left(intervals[1]) = 0

(* ResultsCoverRun (net-device-utilization-tracker.cc:103-113): the written *)
(* intervals reach exactly to the end of the run, the partial one included, *)
(* and all but the last have the configured length; a run that ends at 0    *)
(* has none.                                                                *)
ResultsCoverRun ==
  phase = "written" =>
    IF now = 0 THEN intervals = <<>> ELSE
    /\ intervals # <<>> /\ Right(Last(intervals)) = now
    /\ \A i \in 1 .. Len(intervals) - 1 : Length(intervals[i]) = Interval
    /\ Length(Last(intervals)) <= Interval

(* CompressionConserves (ptop-link-net-device-utilization-tracking.cc:      *)
(* 141-197): the compressed lines tile the run too and no busy time is lost *)
(* or counted twice between them.                                           *)
CompressionConserves ==
  phase = "written" =>
    IF now = 0 THEN compressed = <<>> ELSE
    /\ compressed # <<>> /\ Adjoining(compressed) /\ NonEmpty(compressed)
    /\ Left(compressed[1]) = 0 /\ Right(Last(compressed)) = now
    /\ \A i \in DOMAIN compressed :
         Val(compressed[i]) = TrueBusy(Left(compressed[i]), Right(compressed[i]))
==============================================================================
