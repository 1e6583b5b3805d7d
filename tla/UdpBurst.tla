------------------------------ MODULE UdpBurst ------------------------------
(***************************************************************************)
(* UDP bursts (udp-burst-scheduler.cc, -schedule-reader, -client, -server) *)
(* in the runs of BasicSimulation: every system reads the whole schedule,  *)
(* prepares the servers of its nodes for what will come in, keeps what     *)
(* goes out from its nodes and starts it entry by entry.  The network may  *)
(* lose, delay and reorder packets.                                        *)
(***************************************************************************)
EXTENDS BasicSimulation, SequencesExt, Filter

CONSTANTS
    MaxBursts,     \* lines of a schedule at most
    Endpoint,      \* the valid endpoints of the topology
    SegmentTime    \* time units a full segment takes at rate 1

BurstLine == [id : Token, from : Token, to : Token, rate : Token, start : Token, duration : Token]

ASSUME BurstAssumption ==
    /\ Endpoint \subseteq 0 .. NumNodes - 1 /\ SegmentTime \in Nat \ {0}
    /\ MaxBursts \in Nat
    /\ \A in \in Input : in.bursts \in Seq(BurstLine) /\ Len(in.bursts) <= MaxBursts

VARIABLES
    schedule,     \* [System -> m_schedule]
    event,        \* [System -> index that StartNextUdpBurst is due for, 0: none]
    registered,   \* [System -> <<endpoint, id>> of m_incoming_bursts of its servers]
    outgoing,     \* [System -> m_responsible_for_outgoing_bursts, by id]
    startTime,    \* [id -> m_startTime, Never before StartApplication]
    sendAt,       \* [id -> due time of m_sendEvent, Never when there is none]
    sent,         \* [id -> m_sent]
    received,     \* [id -> received counter at the server of its destination]
    net,          \* packets under way
    outLog,       \* [id -> udp_burst_[id]_outgoing.csv, lines <<run, seq>>]
    inLog,        \* [id -> udp_burst_[id]_incoming.csv]
    results,      \* [File -> the run that wrote udp_bursts_*, 0 when missing]
    report,       \* [System -> what it wrote in this run]
    withBursts    \* history: the runs that had a burst scheduler

memory == <<schedule, event, registered, outgoing, startTime, sendAt, sent, received, net, report>>
bursts == <<memory, outLog, inLog, results, withBursts>>
vars   == <<basic, bursts>>

Never == -1
Id == 0 .. MaxBursts - 1
NoReport == [out |-> <<>>, in |-> <<>>]

FreshMemory ==
    /\ schedule' = [s \in System |-> <<>>] /\ event' = [s \in System |-> 0]
    /\ registered' = [s \in System |-> {}] /\ outgoing' = [s \in System |-> <<>>]
    /\ startTime' = [i \in Id |-> Never] /\ sendAt' = [i \in Id |-> Never]
    /\ sent' = [i \in Id |-> 0] /\ received' = [i \in Id |-> 0]
    /\ net' = {} /\ report' = [s \in System |-> NoReport]

Init ==
    /\ BasicInit
    /\ schedule = [s \in System |-> <<>>] /\ event = [s \in System |-> 0]
    /\ registered = [s \in System |-> {}] /\ outgoing = [s \in System |-> <<>>]
    /\ startTime = [i \in Id |-> Never] /\ sendAt = [i \in Id |-> Never]
    /\ sent = [i \in Id |-> 0] /\ received = [i \in Id |-> 0]
    /\ net = {} /\ report = [s \in System |-> NoReport]
    /\ outLog = [i \in Id |-> <<>>] /\ inLog = [i \in Id |-> <<>>]
    /\ results = [f \in File |-> 0] /\ withBursts = {}

-----------------------------------------------------------------------------
(* The schedule: lines [id, from, to, rate, start, duration] of tokens.      *)

IsEntry(l, i) ==
    /\ \A t \in {l.id, l.from, l.to, l.rate, l.start, l.duration} : IsPositive(t)
    /\ Int64(l.id) = i - 1 /\ Int64(l.rate) # 0
    /\ Int64(l.from) # Int64(l.to) /\ {Int64(l.from), Int64(l.to)} \subseteq Endpoint
    /\ Int64(l.start) < EndTime

IsSchedule(ls) ==
    /\ \A i \in DOMAIN ls : IsEntry(ls[i], i)
    /\ \A i \in DOMAIN ls : i > 1 => Int64(ls[i - 1].start) <= Int64(ls[i].start)

ReadSchedule(ls) == [i \in DOMAIN ls |-> [f \in DOMAIN ls[i] |-> Int64(ls[i][f])]]
Complete == ReadSchedule(input.bursts)
Entry(id) == Complete[id + 1]

LoggingKey == "udp_burst_enable_logging_for_udp_burst_ids"
Logging == ParamOrDefault(config, LoggingKey, [form |-> "set", items |-> <<>>])
LogsAll == Logging = Text("all")
IsLogging == LogsAll \/ (IsSetPositiveInt64(Logging)
                          /\ AllItemsAreLessThan(SetPositiveInt64(Logging), Len(input.bursts)))
Logged == IF LogsAll THEN 0 .. Len(input.bursts) - 1 ELSE SetPositiveInt64(Logging)

Enabled == Boolean(Flag("enable_udp_burst_scheduler"))

Request(s, keys) == requested' = [requested EXCEPT ![s] = @ \cup keys]

\* mutant: servers know only of the bursts that start on their own system
IncomingFiltered(s) ==
    {<<e.to, e.id>> : e \in {x \in Range(Complete) :
                               IsOnThisSystem(x.to, s) /\ IsOnThisSystem(x.from, s)}}

\* RegisterIncomingBurst, for every server of this system.
Incoming(s) == {<<e.to, e.id>> : e \in {x \in Range(Complete) : IsOnThisSystem(x.to, s)}}

OwnEntries(s) == Kept(Complete, {e \in Range(Complete) : IsOnThisSystem(e.from, s)})

\* mutant: the log of an earlier run is not emptied
RegisterKeepsLogs(s) ==
    /\ registered' = [registered EXCEPT ![s] = Incoming(s)]
    /\ UNCHANGED inLog

Register(s) ==
    /\ registered' = [registered EXCEPT ![s] = Incoming(s)]
    /\ inLog' = [i \in Id |-> IF i \in Logged /\ i \in {r[2] : r \in Incoming(s)}
                              THEN <<>> ELSE inLog[i]]

CanSchedule ==
    /\ IsBoolean(Flag("enable_udp_burst_scheduler"))
    /\ Enabled => /\ HasParam(config, "udp_burst_schedule_filename")
                  /\ IsSchedule(input.bursts) /\ IsLogging

PrepareBursts(s) ==
    /\ Request(s, {"enable_udp_burst_scheduler", "udp_burst_schedule_filename", LoggingKey})
    /\ results' = [results EXCEPT ![FileOf(s)] = 0]
    /\ withBursts' = withBursts \cup {runs}
    /\ Register(s)
    /\ schedule' = [schedule EXCEPT ![s] = OwnEntries(s)]
    /\ event' = [event EXCEPT ![s] = IF OwnEntries(s) = <<>> THEN 0 ELSE 1]

\* The constructor of UdpBurstScheduler.
NewUdpBurstScheduler(s) ==
    /\ stage[s] = "schedulers"
    /\ IF CanSchedule THEN Goto(s, "run") /\ UNCHANGED threw ELSE ThrowIn(s, "setup")
    /\ IF CanSchedule /\ Enabled THEN PrepareBursts(s)
       ELSE /\ Request(s, {"enable_udp_burst_scheduler"})
            /\ UNCHANGED <<results, withBursts, registered, inLog, schedule, event>>
    /\ UNCHANGED <<input, runs, attribute, now, files, outgoing, startTime, sendAt, sent, received,
                   net, outLog, report>>

-----------------------------------------------------------------------------
(* The simulation.                                                           *)

NextEntry(s) == schedule[s][event[s]]

\* Install a client, to be started right now, and schedule the next one.
StartNextUdpBurst(s) ==
    /\ Simulating /\ event[s] # 0 /\ NextEntry(s).start = now
    /\ outgoing' = [outgoing EXCEPT ![s] = Append(@, NextEntry(s).id)]
    /\ event' = [event EXCEPT ![s] = IF @ = Len(schedule[s]) THEN 0 ELSE @ + 1]
    /\ UNCHANGED <<basic, schedule, registered, startTime, sendAt, sent, received, net, outLog,
                   inLog, results, report, withBursts>>

Installed == UNION {Range(outgoing[s]) : s \in System}

StartApplication(i) ==
    /\ Simulating /\ i \in Installed /\ startTime[i] = Never
    /\ startTime' = [startTime EXCEPT ![i] = now]
    /\ sendAt' = [sendAt EXCEPT ![i] = now]
    /\ UNCHANGED <<basic, schedule, event, registered, outgoing, sent, received, net, outLog, inLog,
                   results, report, withBursts>>

\* A segment at the target rate, rounded up.
Gap(i) == (SegmentTime + Entry(i).rate - 1) \div Entry(i).rate

\* mutant: a packet may leave when the burst is exactly over
NextSendInclusive(i) ==
    IF now + Gap(i) <= startTime[i] + Entry(i).duration THEN now + Gap(i) ELSE Never

NextSend(i) ==
    IF now + Gap(i) < startTime[i] + Entry(i).duration THEN now + Gap(i) ELSE Never

Send(i) ==
    /\ Simulating /\ sendAt[i] = now
    /\ sent' = [sent EXCEPT ![i] = @ + 1]
    /\ outLog' = [outLog EXCEPT ![i] = IF i \in Logged THEN Append(@, <<runs, sent[i]>>) ELSE @]
    /\ net' = net \cup {[id |-> i, seq |-> sent[i], to |-> Entry(i).to]}
    /\ sendAt' = [sendAt EXCEPT ![i] = NextSend(i)]
    /\ UNCHANGED <<basic, schedule, event, registered, outgoing, startTime, received, inLog,
                   results, report, withBursts>>

\* UdpBurstServer::HandleRead; .at throws for a burst that was not registered.
HandleRead(s, m) ==
    IF <<m.to, m.id>> \notin registered[s]
    THEN ThrowIn(s, "simulation") /\ UNCHANGED <<received, inLog>>
    ELSE /\ received' = [received EXCEPT ![m.id] = @ + 1]
         /\ inLog' = [inLog EXCEPT ![m.id] =
              IF m.id \in Logged THEN Append(@, <<runs, m.seq>>) ELSE @]
         /\ UNCHANGED <<stage, threw>>

Arrive(m) ==
    /\ Simulating
    /\ \E s \in System : s < input.np /\ IsOnThisSystem(m.to, s) /\ HandleRead(s, m)
    /\ net' = net \ {m}
    /\ UNCHANGED <<input, runs, requested, attribute, now, files, schedule, event, registered,
                   outgoing, startTime, sendAt, sent, outLog, results, report, withBursts>>

Lose(m) ==
    /\ Simulating /\ net' = net \ {m}
    /\ UNCHANGED <<basic, schedule, event, registered, outgoing, startTime, sendAt, sent, received,
                   outLog, inLog, results, report, withBursts>>

\* Time moves past no event that is due.
Tick ==
    /\ Simulating
    /\ \A s \in System : event[s] # 0 => NextEntry(s).start > now
    /\ \A i \in Installed : startTime[i] # Never /\ sendAt[i] # now
    /\ Advance /\ UNCHANGED bursts

-----------------------------------------------------------------------------
(* WriteResults.                                                             *)

SortedIds(S) == [i \in 1 .. Cardinality(S) |->
                   CHOOSE x \in S : Cardinality({y \in S : y < x}) = i - 1]

EffectiveDuration(e) ==
    IF e.start + e.duration >= EndTime THEN EndTime - e.start ELSE e.duration

Row(i, packets) == [id |-> i, duration |-> EffectiveDuration(Entry(i)), packets |-> packets]

\* The rows of both tables, the bursts going out from this system and coming in.
Tables(s) ==
    LET out == SortedIds(Range(outgoing[s]))
        in  == SortedIds({r[2] : r \in registered[s]})
    IN  [out |-> [k \in DOMAIN out |-> Row(out[k], sent[out[k]])],
         in  |-> [k \in DOMAIN in |-> Row(in[k], received[in[k]])]]

WriteResults(s) ==
    /\ stage[s] = "results" /\ Goto(s, "clean_up")
    /\ IF Enabled
       THEN /\ results' = [results EXCEPT ![FileOf(s)] = runs]
            /\ report' = [report EXCEPT ![s] = Tables(s)]
       ELSE UNCHANGED <<results, report>>
    /\ UNCHANGED <<input, runs, threw, requested, attribute, now, files, schedule, event,
                   registered, outgoing, startTime, sendAt, sent, received, net, outLog, inLog,
                   withBursts>>

Next ==
    \/ /\ \E in \in Input : Launch(in)
       /\ FreshMemory /\ UNCHANGED <<outLog, inLog, results, withBursts>>
    \/ Kill /\ UNCHANGED bursts
    \/ \E s \in System : BasicStep(s) /\ UNCHANGED bursts
    \/ \E s \in System : NewUdpBurstScheduler(s) \/ StartNextUdpBurst(s) \/ WriteResults(s)
    \/ \E i \in Id : StartApplication(i) \/ Send(i)
    \/ \E m \in net : Arrive(m) \/ Lose(m)
    \/ Tick

Spec == Init /\ [][Next]_vars

-----------------------------------------------------------------------------
(* A finished file that says Yes, also after later runs that threw or were   *)
(* killed anywhere, belongs to a complete set of results of one run: the     *)
(* timing results and, if that run had bursts, their tables are its own.     *)
FinishedMeansResults ==
    \A f \in File : finished[f].is = "Yes" =>
        /\ timing[f] = finished[f].run
        /\ finished[f].run \in withBursts => results[f] = finished[f].run

(* What the constructors let through simulates without an exception: every   *)
(* packet finds its burst registered at the server, on whatever system.      *)
SimulationNeverThrows == threw # "simulation"

Written(s) == stage[s] \in {"clean_up", "timing", "write_yes", "done"}
Reporters(way, i) == {s \in System : \E k \in DOMAIN report[s][way] : report[s][way][k].id = i}
RowOf(way, i) ==
    LET s == CHOOSE x \in Reporters(way, i) : TRUE
        k == CHOOSE k \in DOMAIN report[s][way] : report[s][way][k].id = i
    IN  report[s][way][k]

(* When all systems have written, every burst has one outgoing row, on the   *)
(* system of its source, and one incoming row, on that of its destination,   *)
(* in the order of the schedule; the outgoing count is what a sender at the  *)
(* target rate puts into the reported duration, rounded up, one packet at    *)
(* least; and no more came in than went out.                                 *)
BurstsReportedOnce ==
    (Enabled /\ input.np > 0 /\ \A s \in 0 .. input.np - 1 : Written(s)) =>
        /\ \A i \in 0 .. Len(input.bursts) - 1 :
             LET out == RowOf("out", i) in == RowOf("in", i) e == Entry(i) IN
             /\ \A s \in System :
                  /\ s \in Reporters("out", i) <=> s < input.np /\ IsOnThisSystem(e.from, s)
                  /\ s \in Reporters("in", i) <=> s < input.np /\ IsOnThisSystem(e.to, s)
             /\ in.packets <= out.packets /\ in.duration = out.duration
             /\ out.packets >= 1 /\ (out.packets - 1) * Gap(i) <= out.duration
             /\ (out.packets - 1) * Gap(i) = out.duration => out.duration = 0
             /\ out.duration <= out.packets * Gap(i)
        /\ \A s \in System : \A way \in {"out", "in"} : \A k \in 2 .. Len(report[s][way]) :
             report[s][way][k - 1].id < report[s][way][k].id

\* Past the constructor of the scheduler, until the next run.
Prepared == \A s \in 0 .. input.np - 1 : stage[s] \in {"run", "running", "results"} \/ Written(s)

(* The precise logs record this run: the incoming one, emptied before, holds *)
(* each packet that arrived once; the outgoing one, which runs only append   *)
(* to, ends with all packets of this run in the order they were sent.        *)
LogsRecordTheRun ==
    Enabled /\ input.np > 0 /\ Prepared => \A i \in Logged :
        /\ Len(inLog[i]) = received[i] /\ IsInjective(inLog[i])
        /\ \A k \in DOMAIN inLog[i] : inLog[i][k][1] = runs /\ inLog[i][k][2] \in 0 .. sent[i] - 1
        /\ Len(outLog[i]) >= sent[i]
        /\ \A k \in 1 .. Len(outLog[i]) :
             outLog[i][k][1] = runs <=> k > Len(outLog[i]) - sent[i]
        /\ \A k \in 1 .. sent[i] : outLog[i][Len(outLog[i]) - sent[i] + k] = <<runs, k - 1>>
=============================================================================
