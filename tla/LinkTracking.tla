----------------------------- MODULE LinkTracking -----------------------------
(***************************************************************************)
(* The three trackings of point-to-point links (ptop-link-net-device-      *)
(* queue-, -interface-tc-qdisc-queue- and -net-device-utilization-         *)
(* tracking.cc) from their configuration to their result files.  One link, *)
(* Watched, carries traffic: its queueing discipline feeds the queue of    *)
(* its device (both ns-3), which the utilization tracker listens to.  The  *)
(* queue trackers log with a LogUpdateHelper, of which only the promise is *)
(* used here: what it hands over encodes the signal (LogUpdateHelper       *)
(* implements StepLog).                                                    *)
(***************************************************************************)
EXTENDS UtilizationTracker, ExpUtil, Filter

CONSTANTS Settings,  \* what the configuration and the topology may be
          Link,      \* directed links <<a, b>> of the topology
          Watched,   \* the one with traffic
          System,    \* MPI systems
          Size,      \* sizes of packets, in bytes
          QueueCap,  \* capacity of the device queue, in packets
          QdiscCap   \* capacity of the queueing discipline, in packets

ASSUME LinkAssumption ==
  /\ Link \subseteq Nat \X Nat /\ IsFiniteSet(Link) /\ Watched \in Link
  /\ Size \subseteq Nat \ {0} /\ QueueCap \in Nat
  /\ \A given \in Settings, l \in Link : given.assignment[l[1]] \in System

VARIABLES
  settings,  \* [tracking, interval, assignment, qdiscs, end], see Accepted
  stage,     \* "construct", "run" or "threw"
  tracked,   \* [Kind -> [System -> links that have a tracker]]
  queue,     \* [Queue -> sizes of the packets in it, at Watched]
  sampled,   \* [Queue -> [{"pkt", "byte"} -> what was logged, per instant]]
  tables     \* [Kind -> [System -> lines of the csv files]]

Kind  == {"device", "qdisc", "utilization"}
Queue == {"device", "qdisc"}
Unit  == {"pkt", "byte"}

links == <<settings, stage, tracked, queue, sampled, tables>>
all   == <<watching, links>>

LinkInit ==
  /\ TrackerInit /\ settings \in Settings /\ stage = "construct"
  /\ tracked = [k \in Kind |-> [s \in System |-> {}]]
  /\ queue = [q \in Queue |-> <<>>]
  /\ sampled = [q \in Queue |-> [u \in Unit |-> <<>>]]
  /\ tables = [k \in Kind |-> [s \in System |-> <<>>]]

------------------------------------------------------------------------------
(* The constructors.  settings.tracking[k] is [enabled, links], the two      *)
(* parameters that each kind has; settings.qdiscs are the links with one;    *)
(* settings.end is simulation_end_time_ns.                                   *)
Enabled(k) == Boolean(settings.tracking[k].enabled)
ForAll(k)  == settings.tracking[k].links = [form |-> "plain", items |-> <<"all">>]
EnableForLinks(k) ==
  IF ForAll(k) THEN Link ELSE SetDirectedPair(settings.tracking[k].links)

Accepted(k) ==
  /\ IsBoolean(settings.tracking[k].enabled)
  /\ Enabled(k) =>
       /\ k = "utilization" => IsGeqOne(settings.interval)
       /\ ForAll(k) \/ IsSetDirectedPair(settings.tracking[k].links)
       /\ EnableForLinks(k) \subseteq Link
       /\ k = "qdisc" => EnableForLinks(k) \subseteq settings.qdiscs

(* Mutant: the system of the receiving end gets the tracker.                *)
OwnLinksOfReceiver(k, s) ==
  IF Enabled(k) THEN {l \in EnableForLinks(k) : settings.assignment[l[2]] = s} ELSE {}

OwnLinks(k, s) ==
  IF Enabled(k) THEN {l \in EnableForLinks(k) : settings.assignment[l[1]] = s} ELSE {}

(* QueueTracker, QdiscQueueTracker: Update(0, 0) for packets and bytes.      *)
NewTrackers(q) == [u \in Unit |-> [t \in 0 .. 0 |-> 0]]

Construct ==
  /\ stage = "construct"
  /\ IF \A k \in Kind : Accepted(k)
     THEN /\ stage' = "run"
          /\ tracked' = [k \in Kind |-> [s \in System |-> OwnLinks(k, s)]]
          /\ sampled' = [q \in Queue |-> NewTrackers(q)]
     ELSE stage' = "threw" /\ UNCHANGED <<tracked, sampled>>
  /\ UNCHANGED <<watching, settings, queue, tables>>

HasTracker(k, l) == \E s \in System : l \in tracked[k][s]

------------------------------------------------------------------------------
(* Traffic.  A queue of ns-3 fires PacketsInQueue and BytesInQueue at every  *)
(* change, several times per instant; the log keeps the last value of each.  *)
InUnit(q, u) == IF u = "pkt" THEN Len(q) ELSE SumFunctionOnSet(q, DOMAIN q)

(* A value holds until the next change; what changes now replaces it.        *)
ValueAt(log, t) ==
  IF t \in DOMAIN log THEN log[t]
  ELSE log[CHOOSE last \in DOMAIN log : \A u \in DOMAIN log : u <= last]

Logged(log, v) == [t \in 0 .. now |-> IF t = now THEN v ELSE ValueAt(log, t)]

(* PacketsInQueueCallback and BytesInQueueCallback of either tracker.        *)
LogQueues ==
  sampled' = [q \in Queue |-> [u \in Unit |->
    IF HasTracker(q, Watched) /\ queue'[q] # queue[q]
    THEN Logged(sampled[q][u], InUnit(queue'[q], u)) ELSE sampled[q][u]]]

Simulating == stage = "run" /\ phase = "running"

(* The IP layer hands over a packet; a full queue drops it.                  *)
Arrive(size) ==
  LET q   == IF Watched \in settings.qdiscs THEN "qdisc" ELSE "device"
      cap == IF q = "qdisc" THEN QdiscCap ELSE QueueCap IN
  /\ Simulating /\ Len(queue[q]) < cap
  /\ queue' = [queue EXCEPT ![q] = Append(@, size)]
  /\ LogQueues
  /\ UNCHANGED <<watching, settings, stage, tracked, tables>>

QdiscMayRun == queue["qdisc"] # <<>> /\ Len(queue["device"]) < QueueCap

(* QueueDisc::Run: the next packet goes to the device, which has room.       *)
QdiscRun ==
  /\ Simulating /\ QdiscMayRun
  /\ queue' = [device |-> Append(queue["device"], Head(queue["qdisc"])),
               qdisc  |-> Tail(queue["qdisc"])]
  /\ LogQueues
  /\ UNCHANGED <<watching, settings, stage, tracked, tables>>

MayTransmit == ~transmitting /\ queue["device"] # <<>>

(* The device takes the next packet of its queue and transmits it.           *)
TransmitStart ==
  /\ Simulating /\ MayTransmit
  /\ queue' = [queue EXCEPT !["device"] = Tail(@)]
  /\ LogQueues
  /\ IF HasTracker("utilization", Watched) THEN PhyTxBegin
     ELSE transmitting' = TRUE /\ UNCHANGED <<now, phase, tracker, compressed, busyBefore>>
  /\ UNCHANGED <<settings, stage, tracked, tables>>

TransmitComplete ==
  /\ Simulating /\ transmitting
  /\ IF HasTracker("utilization", Watched) THEN PhyTxEnd
     ELSE transmitting' = FALSE /\ UNCHANGED <<now, phase, tracker, compressed, busyBefore>>
  /\ UNCHANGED links

(* What follows at once in ns-3 comes before time moves on or the run stops. *)
Quiet == Simulating /\ ~MayTransmit /\ ~QdiscMayRun

Pass == Quiet /\ now < settings.end /\ Tick /\ UNCHANGED links
Halt == Quiet /\ now = settings.end /\ Stop /\ UNCHANGED links

------------------------------------------------------------------------------
(* The results.                                                              *)
Ranked(S, order) ==
  [i \in 1 .. Cardinality(S) |->
     CHOOSE x \in S : Cardinality({y \in S : <<y, x>> \in order}) = i - 1]

SortedNumbers(S) == Ranked(S, {p \in S \X S : p[1] < p[2]})
SortedLinks(S) ==
  Ranked(S, {p \in S \X S : LET a == p[1] b == p[2]
                            IN  a[1] < b[1] \/ (a[1] = b[1] /\ a[2] < b[2])})

(* What Finalize(now) hands over, by the contract of LogUpdateHelper.        *)
Finalized(log) ==
  LET begins == SortedNumbers({t \in DOMAIN log :
                  t < now /\ (t - 1 \in DOMAIN log => log[t] # log[t - 1])})
  IN  [i \in DOMAIN begins |->
         <<begins[i], IF i = Len(begins) THEN now ELSE begins[i + 1], log[begins[i]]>>]

(* The tracker of a device without traffic.                                  *)
IdleIntervals ==
  [k \in 1 .. (now + Interval - 1) \div Interval |->
     <<(k - 1) * Interval, IF k * Interval > now THEN now ELSE k * Interval, 0>>]

(* The lines of one link; the utilization has its own in UtilizationTracker. *)
QueueRows(q, l, u) ==
  LET ivs == Finalized(IF l = Watched THEN sampled[q][u] ELSE NewTrackers(q)[u])
  IN  [i \in DOMAIN ivs |-> [link |-> l, unit |-> u, interval |-> ivs[i]]]

QueueTable(q, s) ==
  LET own == SortedLinks(tracked[q][s])
  IN  FlattenSeq([i \in DOMAIN own |-> QueueRows(q, own[i], "pkt")])
      \o FlattenSeq([i \in DOMAIN own |-> QueueRows(q, own[i], "byte")])

UtilizationRows(l, lines) ==
  LET ivs == IF l = Watched THEN lines ELSE CompressedLines(IdleIntervals)
  IN  [i \in DOMAIN ivs |-> [link |-> l, unit |-> "busy", interval |-> ivs[i]]]

UtilizationTable(s, lines) ==
  LET own == SortedLinks(tracked["utilization"][s])
  IN  FlattenSeq([i \in DOMAIN own |-> UtilizationRows(own[i], lines)])

WriteTables ==
  /\ stage = "run" /\ phase = "stopped"
  /\ IF HasTracker("utilization", Watched) THEN WriteResults
     ELSE phase' = "written" /\ UNCHANGED <<now, transmitting, tracker, compressed, busyBefore>>
  /\ tables' = [k \in Kind |-> [s \in System |->
                  IF k = "utilization" THEN UtilizationTable(s, compressed') ELSE QueueTable(k, s)]]
  /\ UNCHANGED <<settings, stage, tracked, queue, sampled>>

LinkNext ==
  \/ Construct \/ \E size \in Size : Arrive(size)
  \/ QdiscRun \/ TransmitStart \/ TransmitComplete \/ Pass \/ Halt \/ WriteTables

LinkSpec == LinkInit /\ [][LinkNext]_all

------------------------------------------------------------------------------
(* The tracker of the watched link: its counters add up to the time that has *)
(* passed in the current interval (the assertion of TrackUtilization), and   *)
(* each interval it closed, however late, holds exactly the time the device  *)
(* was transmitting in it.                                                   *)
BusyTimeAccounted ==
  HasTracker("utilization", Watched) => Accounting /\ ExactBusyTime

(* Its results: the intervals reach exactly to the end of the run, partial   *)
(* one included, and their compression neither loses busy time nor counts it *)
(* twice.                                                                    *)
UtilizationConserved ==
  HasTracker("utilization", Watched) => ResultsCoverRun /\ CompressionConserves

RowsOf(k, l, u) ==
  LET rows == tables[k][settings.assignment[l[1]]]
  IN  Kept(rows, {r \in Range(rows) : r.link = l /\ r.unit = u})

Tiled(rows) ==
  LET ivs == [i \in DOMAIN rows |-> rows[i].interval]
  IN  /\ ivs # <<>> /\ NonEmpty(ivs) /\ Adjoining(ivs)
      /\ Left(ivs[1]) = 0 /\ Right(Last(ivs)) = now

Overlap(iv, jv) == Left(iv) < Right(jv) /\ Left(jv) < Right(iv)

(* The three result files of a run of some length fit together: every link   *)
(* that was asked for is in them on the system of its sender and on no       *)
(* other, from 0 to the end of the run without a gap, links in order;        *)
(* packets are there exactly while bytes are; packets wait in the device's   *)
(* queue only while it transmits, and in the discipline only while the       *)
(* device's queue is full.                                                   *)
TablesFitTogether ==
  phase = "written" /\ now > 0 =>
    /\ \A k \in Kind, s \in System, l \in Link :
         (\E i \in DOMAIN tables[k][s] : tables[k][s][i].link = l) <=>
           Enabled(k) /\ l \in EnableForLinks(k) /\ settings.assignment[l[1]] = s
    /\ \A k \in Kind, s \in System : \A i \in 2 .. Len(tables[k][s]) :
         LET r == tables[k][s][i - 1] n == tables[k][s][i] IN
         r.unit = n.unit /\ r.link # n.link => SortedLinks({r.link, n.link})[1] = r.link
    /\ \A k \in Kind : Enabled(k) => \A l \in EnableForLinks(k) :
         IF k = "utilization" THEN Tiled(RowsOf(k, l, "busy"))
         ELSE /\ \A u \in Unit : Tiled(RowsOf(k, l, u))
              /\ \A i \in DOMAIN RowsOf(k, l, "pkt"), j \in DOMAIN RowsOf(k, l, "byte") :
                   LET iv == RowsOf(k, l, "pkt")[i].interval
                       jv == RowsOf(k, l, "byte")[j].interval
                   IN  Overlap(iv, jv) => (Val(iv) = 0 <=> Val(jv) = 0)
    /\ Enabled("device") /\ Watched \in EnableForLinks("device") =>
         \A i \in DOMAIN RowsOf("device", Watched, "pkt") :
           LET iv == RowsOf("device", Watched, "pkt")[i].interval IN
           /\ Val(iv) > 0 => TrueBusy(Left(iv), Right(iv)) = Right(iv) - Left(iv)
           /\ Enabled("qdisc") /\ Watched \in EnableForLinks("qdisc") =>
                \A j \in DOMAIN RowsOf("qdisc", Watched, "pkt") :
                  LET jv == RowsOf("qdisc", Watched, "pkt")[j].interval
                  IN  Overlap(iv, jv) /\ Val(jv) > 0 => Val(iv) = QueueCap
=============================================================================
