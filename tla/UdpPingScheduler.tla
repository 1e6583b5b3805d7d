--------------------------- MODULE UdpPingScheduler ---------------------------
(***************************************************************************)
(* UdpPingScheduler on top of its clients and servers: the schedule file   *)
(* is read and checked, filtered to the nodes of each MPI system, started  *)
(* entry by entry, and reported when the run is over.                      *)
(***************************************************************************)
EXTENDS UdpPing, SequencesExt, FiniteSetsExt, Filter

CONSTANTS Endpoint,   \* valid endpoints of the topology
          System,     \* MPI systems; one of them when not distributed
          Schedule,   \* what the schedule file may hold
          MaxRtt      \* 10000 s, the first value of the minimum

(* The fields of a line that the clients depend on.                          *)
ScheduleLine == [id : Token, from : Token, to : Token, interval : Token,
                 start : Token, duration : Token, wait : Token]

ASSUME SchedulerAssumption ==
  /\ MaxRtt \in Nat
  /\ Schedule \subseteq Seq(ScheduleLine)
  /\ \A ls \in Schedule : Len(ls) <= Cardinality(Ping)

VARIABLES
  assignment,  \* distributed_node_system_id_assignment
  phase,       \* "setup", "running", "stopped", or "threw"
  schedule,    \* [System -> m_schedule]
  event,       \* [System -> the index StartNextUdpPing is due for, 0: none]
  apps,        \* [System -> m_apps], ping ids in order of installation
  rows,        \* [System -> lines of udp_pings.csv]
  summaries    \* [System -> lines of udp_pings.txt]

scheduling == <<assignment, phase, schedule, event, apps, rows, summaries>>

SchedulerInit ==
  /\ Init /\ lines \in Schedule
  /\ assignment \in [Endpoint -> System]
  /\ phase = "setup"
  /\ schedule = [s \in System |-> <<>>] /\ apps = schedule /\ rows = schedule
  /\ summaries = schedule /\ event = [s \in System |-> 0]

------------------------------------------------------------------------------
(* The checks of read_udp_ping_schedule; any violation throws.               *)
IsEntry(i) ==
  /\ \A f \in DOMAIN lines[i] : IsPositive(lines[i][f])
  /\ Entry(i - 1).id = i - 1 /\ Entry(i - 1).interval # 0
  /\ Entry(i - 1).from # Entry(i - 1).to
  /\ {Entry(i - 1).from, Entry(i - 1).to} \subseteq Endpoint
  /\ Entry(i - 1).start < EndTime

Accepted ==
  /\ \A i \in DOMAIN lines : IsEntry(i)
  /\ \A i \in 2 .. Len(lines) : Entry(i - 2).start <= Entry(i - 1).start

Complete == [i \in DOMAIN lines |-> Entry(i - 1)]

(* The entries whose source node is part of this system.                     *)
OwnPings(s) == Kept(Complete, {e \in Range(Complete) : assignment[e.from] = s})

Construct ==
  /\ phase = "setup"
  /\ IF Accepted
     THEN /\ phase' = "running"
          /\ schedule' = [s \in System |-> OwnPings(s)]
          /\ event' = [s \in System |-> IF OwnPings(s) = <<>> THEN 0 ELSE 1]
     ELSE phase' = "threw" /\ UNCHANGED <<schedule, event>>
  /\ UNCHANGED <<vars, assignment, apps, rows, summaries>>

Simulating == phase = "running" /\ ~aborted

NextPing(s) == schedule[s][event[s]]

(* Install a client, to be started right now, and schedule the next one.     *)
StartNextUdpPing(s) ==
  /\ Simulating /\ event[s] # 0 /\ NextPing(s).start = now
  /\ apps' = [apps EXCEPT ![s] = Append(@, NextPing(s).id)]
  /\ event' = [event EXCEPT ![s] = IF @ = Len(schedule[s]) THEN 0 ELSE @ + 1]
  /\ UNCHANGED <<vars, assignment, phase, schedule, rows, summaries>>

Installed == UNION {Range(apps[s]) : s \in System}

StartClient(c) ==
  /\ Simulating /\ c \in Installed
  /\ StartApplication(c)
  /\ UNCHANGED scheduling

RunPings == Simulating /\ PingStep /\ UNCHANGED scheduling

(* Time moves past no event that is due; the stop event comes first at the   *)
(* end time.                                                                 *)
Advance ==
  /\ Simulating
  /\ \A s \in System : event[s] # 0 => NextPing(s).start > now
  /\ \A c \in Installed : startTime[c] # Never /\ now \notin {sendEvent[c], finishEvent[c]}
  /\ now' = now + 1
  /\ phase' = IF now + 1 = EndTime THEN "stopped" ELSE phase
  /\ UNCHANGED <<lines, startTime, port, sendEvent, finishEvent, timestamps, aborted, net,
                 echoed, assignment, schedule, event, apps, rows, summaries>>

------------------------------------------------------------------------------
ReplyArrived(c, k) == replyTimestamps[c][k] # -1

(* One line of udp_pings.csv, for the k-th request of a client.              *)
Row(c, k) ==
  LET there == IF ReplyArrived(c, k)
               THEN replyTimestamps[c][k] - sendRequestTimestamps[c][k] ELSE -1
      back  == IF ReplyArrived(c, k)
               THEN receiveReplyTimestamps[c][k] - replyTimestamps[c][k] ELSE -1 IN
  [id |-> c, seq |-> k - 1, send |-> sendRequestTimestamps[c][k],
   reply |-> replyTimestamps[c][k], receive |-> receiveReplyTimestamps[c][k],
   there |-> there, back |-> back, rtt |-> IF ReplyArrived(c, k) THEN there + back ELSE -1,
   outcome |-> IF ReplyArrived(c, k) THEN "YES" ELSE "LOST"]

Rows(c) == [k \in 1 .. Sent(c) |-> Row(c, k)]

(* Mutant: the -1 of a lost request goes into the statistics.               *)
CountedAll(c) == 1 .. Sent(c)

(* The requests that the statistics are about.                               *)
Counted(c) == {k \in 1 .. Sent(c) : ReplyArrived(c, k)}

(* One line of udp_pings.txt; a mean is its sum over the replies.            *)
Summary(c) ==
  LET sum(field) == SumFunctionOnSet([k \in 1 .. Sent(c) |-> Row(c, k)[field]], Counted(c))
      rtts       == {Row(c, k).rtt : k \in Counted(c)} IN
  [id |-> c, sent |-> Sent(c), total |-> Cardinality(Counted(c)),
   there |-> IF rtts = {} THEN -1 ELSE sum("there"),
   back  |-> IF rtts = {} THEN -1 ELSE sum("back"),
   min   |-> IF rtts = {} THEN -1 ELSE Min({MaxRtt} \cup rtts),
   max   |-> IF rtts = {} THEN -1 ELSE Max({-1} \cup rtts)]

(* The i-th client is taken for the i-th entry of the schedule.              *)
SystemRows(s) == FlattenSeq([i \in DOMAIN apps[s] |-> Rows(apps[s][i])])

SystemSummaries(s) ==
  [i \in DOMAIN apps[s] |-> [Summary(apps[s][i]) EXCEPT !.id = schedule[s][i].id]]

WriteResults(s) ==
  /\ phase = "stopped" /\ summaries[s] = <<>>
  /\ rows' = [rows EXCEPT ![s] = SystemRows(s)]
  /\ summaries' = [summaries EXCEPT ![s] = SystemSummaries(s)]
  /\ UNCHANGED <<vars, assignment, phase, schedule, event, apps>>

SchedulerNext ==
  \/ Construct \/ RunPings \/ Advance
  \/ \E s \in System : StartNextUdpPing(s) \/ WriteResults(s)
  \/ \E c \in Ping : StartClient(c)

SchedulerSpec == SchedulerInit /\ [][SchedulerNext]_<<vars, scheduling>>

------------------------------------------------------------------------------
(* The results speak of every ping once, on the system of its source, and of *)
(* nothing else, with one row for each request in the order they left, at    *)
(* least one.  YES: the server echoed it and the latencies add up to what    *)
(* the client waited; LOST: nothing but -1.  The statistics are those of the *)
(* replies alone (a minimum above MaxRtt is given as MaxRtt).                *)
PingRowsTruthful ==
  (phase = "stopped" /\ \A s \in System : Len(summaries[s]) = Len(schedule[s])) =>
    \A s \in System :
      /\ \A i \in DOMAIN lines : assignment[Entry(i - 1).from] = s <=>
           \E j \in DOMAIN summaries[s] : summaries[s][j].id = i - 1
      /\ IsInjective([j \in DOMAIN summaries[s] |-> summaries[s][j].id])
      /\ \A r \in Range(rows[s]) : \E j \in DOMAIN summaries[s] : r.id = summaries[s][j].id
      /\ \A j \in DOMAIN summaries[s] :
           LET sum  == summaries[s][j]
               own  == Kept(rows[s], {r \in Range(rows[s]) : r.id = sum.id})
               here == {r \in Range(own) : r.outcome = "YES"} IN
           /\ Len(own) = sum.sent /\ sum.sent >= 1 /\ Cardinality(here) = sum.total
           /\ \A k \in DOMAIN own :
                /\ own[k].seq = k - 1 /\ own[k].send = Entry(sum.id).start
                                                       + (k - 1) * Interval(sum.id)
                /\ IF own[k].outcome = "YES"
                   THEN /\ <<sum.id, k - 1, own[k].reply>> \in echoed
                        /\ own[k].rtt = own[k].receive - own[k].send
                        /\ {own[k].there, own[k].back} \subseteq 0 .. own[k].rtt
                   ELSE {own[k].reply, own[k].receive, own[k].rtt} = {-1}
           /\ IF here = {} THEN {sum.there, sum.back, sum.min, sum.max} = {-1}
              ELSE /\ sum.max \in {r.rtt : r \in here}
                   /\ sum.min \in {r.rtt : r \in here} \cup {MaxRtt}
                   /\ \A r \in here : r.rtt \in sum.min .. sum.max
                   /\ sum.there + sum.back \in sum.total * sum.min .. sum.total * sum.max
=============================================================================
