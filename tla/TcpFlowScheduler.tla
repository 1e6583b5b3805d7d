--------------------------- MODULE TcpFlowScheduler ---------------------------
(***************************************************************************)
(* TcpFlowScheduler on top of its clients: the schedule file is read and   *)
(* checked, filtered to the nodes of each MPI system, started entry by     *)
(* entry by an event that schedules its successor, and reported when the   *)
(* run is over.  All systems share one clock, the simulated time.          *)
(***************************************************************************)
EXTENDS TcpFlow, Filter

CONSTANTS Node, Endpoint,  \* nodes of the topology, those with an application
          System           \* MPI systems; one of them when not distributed

ASSUME SchedulerAssumption ==
  /\ Endpoint \subseteq Node
  /\ IsFiniteSet(Flow) /\ Flow = 0 .. Cardinality(Flow) - 1

Line == [id : Flow, from : Node, to : Node, start : 0 .. MaxTime]

VARIABLES
  lines,       \* the lines of the schedule file
  assignment,  \* distributed_node_system_id_assignment
  phase,       \* "setup", "running", "stopped", or "threw"
  schedule,    \* [System -> m_schedule]
  event,       \* [System -> the pending StartNextFlow, [index, at]; index 0: none]
  apps,        \* [System -> m_apps], flow ids in order of installation
  startedAt,   \* history: when the client of a flow was started
  rows         \* [System -> lines of tcp_flows.csv]

scheduling == <<lines, assignment, phase, schedule, event, apps, startedAt, rows>>

NoEvent == [index |-> 0, at |-> 0]

SchedulerInit ==
  /\ Init
  /\ lines \in [1 .. Cardinality(Flow) -> Line]
  /\ assignment \in [Endpoint -> System]
  /\ phase = "setup"
  /\ schedule = [s \in System |-> <<>>] /\ apps = schedule /\ rows = schedule
  /\ event = [s \in System |-> NoEvent]
  /\ startedAt = [f \in Flow |-> -1]

------------------------------------------------------------------------------
(* Mutant: a flow may start when the simulation is already over.            *)
AcceptedUpToEnd(ls) ==
  \A i \in DOMAIN ls :
    /\ ls[i].id = i - 1 /\ ls[i].from # ls[i].to
    /\ {ls[i].from, ls[i].to} \subseteq Endpoint
    /\ i > 1 => ls[i - 1].start <= ls[i].start

(* Mutant: the lines need not be in the order of their start times.         *)
AcceptedUnordered(ls) ==
  \A i \in DOMAIN ls :
    /\ ls[i].id = i - 1 /\ ls[i].from # ls[i].to
    /\ {ls[i].from, ls[i].to} \subseteq Endpoint
    /\ ls[i].start < MaxTime

(* The checks of read_tcp_flow_schedule; any violation throws.               *)
Accepted(ls) ==
  \A i \in DOMAIN ls :
    /\ ls[i].id = i - 1 /\ ls[i].from # ls[i].to
    /\ {ls[i].from, ls[i].to} \subseteq Endpoint
    /\ ls[i].start < MaxTime
    /\ i > 1 => ls[i - 1].start <= ls[i].start

(* Mutant: every system keeps the complete schedule.                        *)
OwnFlowsAll(s) == lines

(* The entries whose source node is part of this system.                     *)
OwnFlows(s) == Kept(lines, {l \in Range(lines) : assignment[l.from] = s})

FirstEvent(sch) ==
  IF sch = <<>> THEN NoEvent ELSE [index |-> 1, at |-> sch[1].start]

(* The constructor: read, filter, schedule the first start.                  *)
Construct ==
  /\ phase = "setup"
  /\ IF Accepted(lines)
     THEN /\ phase' = "running"
          /\ schedule' = [s \in System |-> OwnFlows(s)]
          /\ event' = [s \in System |-> FirstEvent(OwnFlows(s))]
     ELSE phase' = "threw" /\ UNCHANGED <<schedule, event>>
  /\ UNCHANGED <<vars, lines, assignment, apps, startedAt, rows>>

Simulating == phase = "running" /\ ~aborted /\ now < MaxTime

(* The event that StartNextFlow(i) schedules, next_flow_ns - now_ns later.   *)
NextEvent(s, i) ==
  IF i = Len(schedule[s]) THEN NoEvent
  ELSE [index |-> i + 1, at |-> now + (schedule[s][i + 1].start - now)]

(* Install a client, to be started right now, and schedule the next one.     *)
StartNextFlow(s) ==
  /\ Simulating /\ event[s].index # 0 /\ event[s].at = now
  /\ apps' = [apps EXCEPT ![s] = Append(@, schedule[s][event[s].index].id)]
  /\ event' = [event EXCEPT ![s] = NextEvent(s, @.index)]
  /\ UNCHANGED <<vars, lines, assignment, phase, schedule, startedAt, rows>>

Installed == UNION {{apps[s][i] : i \in DOMAIN apps[s]} : s \in System}

StartClient(f) ==
  /\ Simulating /\ f \in Installed
  /\ StartApplication(f)
  /\ startedAt' = [startedAt EXCEPT ![f] = now]
  /\ UNCHANGED <<lines, assignment, phase, schedule, event, apps, rows>>

RunFlow(f) ==
  /\ Simulating /\ started[f]
  /\ FlowStep(f)
  /\ UNCHANGED scheduling

(* Time moves when no start is due; the Stop event was scheduled first, so   *)
(* nothing else happens at the end time.                                     *)
Advance ==
  /\ Simulating
  /\ \A s \in System : event[s].index # 0 => event[s].at > now
  /\ \A f \in Installed : started[f]
  /\ now' = now + 1
  /\ phase' = IF now + 1 = MaxTime THEN "stopped" ELSE phase
  /\ UNCHANGED <<client, aborted, server, network, lines, assignment, schedule, event, apps,
                 startedAt, rows>>

FinishedState(f) ==
  CASE isCompleted[f]    -> "YES"
    [] ~isCompleted[f] /\ connFailed[f]     -> "NO_CONN_FAIL"
    [] ~isCompleted[f] /\ closedNormally[f] -> "NO_BAD_CLOSE"
    [] ~isCompleted[f] /\ closedByError[f]  -> "NO_ERR_CLOSE"
    [] OTHER -> "NO_ONGOING"

(* Mutant: a flow that failed ends where it failed, not with the run.       *)
RowEndsWithFlow(s, i) ==
  LET entry == schedule[s][i]
      app   == apps[s][i]
      fct   == IF Ended(app) THEN completionTime[app] - entry.start
                             ELSE MaxTime - entry.start IN
  [id |-> entry.id, start |-> entry.start, end |-> entry.start + fct,
   sent |-> GetAckedBytes(app), state |-> FinishedState(app)]

Row(s, i) ==
  LET entry == schedule[s][i]
      app   == apps[s][i]
      fct   == IF isCompleted[app] THEN completionTime[app] - entry.start
                                   ELSE MaxTime - entry.start IN
  [id |-> entry.id, start |-> entry.start, end |-> entry.start + fct,
   sent |-> GetAckedBytes(app), state |-> FinishedState(app)]

(* One row per entry of the schedule, with the client at the same index;     *)
(* m_apps.at throws when there is none.                                      *)
WriteResults(s) ==
  /\ phase = "stopped" /\ rows[s] = <<>> /\ schedule[s] # <<>>
  /\ IF Len(apps[s]) < Len(schedule[s])
     THEN phase' = "threw" /\ UNCHANGED rows
     ELSE /\ rows' = [rows EXCEPT ![s] = [i \in DOMAIN schedule[s] |-> Row(s, i)]]
          /\ UNCHANGED phase
  /\ UNCHANGED <<vars, lines, assignment, schedule, event, apps, startedAt>>

SchedulerNext ==
  \/ Construct \/ Advance
  \/ \E s \in System : StartNextFlow(s) \/ WriteResults(s)
  \/ \E f \in Flow : StartClient(f) \/ RunFlow(f)

SchedulerSpec == SchedulerInit /\ [][SchedulerNext]_<<vars, scheduling>>

------------------------------------------------------------------------------
Reported == {r \in System \X (1 .. Cardinality(Flow)) : r[2] \in DOMAIN rows[r[1]]}

(* Every client starts exactly when its line says, also behind others with   *)
(* the same start time and in a schedule that was filtered (the assertion    *)
(* now_ns == entry.GetStartTimeNs()), and no start is ever left in the past. *)
StartedOnTime ==
  /\ \A f \in Flow : started[f] => startedAt[f] = lines[f + 1].start
  /\ phase = "running" => \A s \in System : event[s].index # 0 => event[s].at >= now

(* A schedule that was accepted is reported without an out-of-range access:  *)
(* all its clients were installed and started before the end of the run.     *)
AcceptedIsReportable ==
  /\ phase = "threw" => now = 0 /\ ~Accepted(lines)
  /\ phase = "stopped" => \A f \in Flow : started[f]

(* Together the systems report every flow of the file exactly once.          *)
EveryFlowReportedOnce ==
  phase = "stopped" /\ (\A s \in System : Len(rows[s]) = Len(schedule[s])) =>
    \A f \in Flow : Cardinality({r \in Reported : rows[r[1]][r[2]].id = f}) = 1

(* A row tells the truth about the flow it names: YES only when all of its   *)
(* bytes reached the server, before the end of the run; otherwise it spans   *)
(* the run; never more bytes than arrived.                                   *)
RowsTruthful ==
  \A r \in Reported :
    LET row == rows[r[1]][r[2]] IN
    /\ row.start = lines[row.id + 1].start /\ row.start <= row.end /\ row.end <= MaxTime
    /\ row.sent = GetAckedBytes(row.id) /\ row.sent <= arrived[row.id]
    /\ row.state = "YES" <=> isCompleted[row.id]
    /\ row.state = "YES" => arrived[row.id] = FlowSize[row.id]
                            /\ row.end = completionTime[row.id]
    /\ row.state # "YES" => row.end = MaxTime
=============================================================================
