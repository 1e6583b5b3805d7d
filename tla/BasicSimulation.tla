--------------------------- MODULE BasicSimulation ---------------------------
(***************************************************************************)
(* One run after the other of a basic-sim main in one run directory        *)
(* (basic-simulation.cc, main-full.cc): every MPI system is a process that *)
(* reads the configuration, prepares its files, sets up, simulates, writes *)
(* its results and finalizes.  It may throw, or be killed at any point;    *)
(* the files stay.  A process that was not distributed may host the next   *)
(* run as well, as the tests do.                                           *)
(***************************************************************************)
EXTENDS TcpConfig

CONSTANTS
    Input,      \* [lines, np, bursts]: configuration, MPI systems, UDP burst schedule
    NumNodes,   \* of the topology
    NumSystems, \* the most MPI systems a run has
    MaxRuns     \* bound on the runs

VARIABLES
    input,
    runs,       \* runs started so far
    stage,      \* [System -> how far main is], "dead" after an exception or a kill
    threw,      \* where in this run an exception was thrown: "no", "setup" or "simulation"
    requested,  \* [System -> m_configRequestedKeys]
    attribute,  \* [System -> ns-3's table of initial attribute values]
    now,
    finished,   \* [File -> [is, run]]: finished.txt and the run that wrote it
    timing      \* [File -> the run that wrote timing_results.*, 0 when missing]

process == <<input, runs, stage, threw, requested, attribute, now>>
files   == <<finished, timing>>
basic   == <<process, files>>

System == 0 .. NumSystems - 1
Single == NumSystems        \* the files of a run that is not distributed
File   == System \cup {Single}
Missing == [is |-> "missing", run |-> 0]

Text(v) == [form |-> "plain", items |-> <<v>>]

\* Only a distributed configuration is run by several processes; what a set
\* or list of a configuration holds is read as numbers, and so is its end time.
ASSUME InputAssumption ==
    /\ NumSystems \in Nat \ {0} /\ NumNodes \in Nat
    /\ \A in \in Input :
         LET values == ConfigOf(in.lines)
             flag   == ParamOrDefault(values, "enable_distributed", Text("false")).items[1]
         IN  /\ in.np \in 1 .. NumSystems
             /\ in.np = 1 \/ (IsBoolean(flag) => Boolean(flag))
             /\ \A key \in DOMAIN values :
                  /\ values[key].form \in {"set", "list"} => values[key].items \in Seq(Token)
                  /\ key = "simulation_end_time_ns" => values[key].items[1] \in Token

config  == ConfigOf(input.lines)
Scalar(key) == config[key].items[1]
HasPositive(key) == HasParam(config, key) /\ IsPositive(Scalar(key))

Flag(key)   == ParamOrDefault(config, key, Text("false")).items[1]
Distributed == Boolean(Flag("enable_distributed"))
Assignment  == ListPositiveInt64(config["distributed_node_system_id_assignment"])
FileOf(s)   == IF Distributed THEN s ELSE Single
EndTime     == Int64(Scalar("simulation_end_time_ns"))

\* IsNodeAssignedToThisSystem, true without asking when not distributed.
IsOnThisSystem(a, s) == Distributed => Assignment[a + 1] = s

Over(s) == stage[s] \in {"none", "dead", "done"}

BasicInit ==
    /\ input \in Input /\ runs = 0 /\ now = 0 /\ threw = "no"
    /\ stage = [s \in System |-> "none"]
    /\ requested = [s \in System |-> {}]
    /\ attribute = [s \in System |-> Default]
    /\ finished = [f \in File |-> Missing] /\ timing = [f \in File |-> 0]

Goto(s, next) == stage' = [stage EXCEPT ![s] = next]

ThrowIn(s, where) == Goto(s, "dead") /\ threw' = where

\* mpirun starts the next run; its processes are new, or the only one goes on.
Launch(in) ==
    /\ runs < MaxRuns /\ \A s \in System : Over(s)
    /\ runs' = runs + 1 /\ input' = in /\ now' = 0 /\ threw' = "no"
    /\ stage' = [s \in System |-> IF s < in.np THEN "construct" ELSE "none"]
    /\ requested' = [s \in System |-> {}]
    /\ \/ attribute' = [s \in System |-> Default]
       \/ stage[0] = "done" /\ (\A s \in System \ {0} : stage[s] = "none") /\ UNCHANGED attribute
    /\ UNCHANGED files

Kill ==
    /\ \E s \in System : ~Over(s)
    /\ stage' = [s \in System |-> IF Over(s) THEN stage[s] ELSE "dead"]
    /\ UNCHANGED <<input, runs, threw, requested, attribute, now, files>>

-----------------------------------------------------------------------------
(* The constructor of BasicSimulation.  Nothing that can go wrong in it      *)
(* comes after the first change to a file.                                   *)

DistributedKeys == {"distributed_simulator_implementation_type", "distributed_systems_count",
                    "distributed_node_system_id_assignment"}

IsDistribution ==
    /\ \A k \in DistributedKeys : HasParam(config, k)
    /\ Scalar("distributed_simulator_implementation_type") \in {"nullmsg", "default"}
    /\ HasPositive("distributed_systems_count")
    /\ Int64(Scalar("distributed_systems_count")) = input.np
    /\ IsListPositiveInt64(config["distributed_node_system_id_assignment"])
    /\ AllItemsAreLessThan(Range(Assignment), input.np)

ReadConfigAndConfigureSimulation(s) ==
    /\ stage[s] = "construct"
    /\ IF /\ IsConfig(input.lines)
          /\ HasPositive("simulation_end_time_ns") /\ HasPositive("simulation_seed")
          /\ IsBoolean(Flag("enable_distributed")) /\ (Distributed => IsDistribution)
       THEN /\ Goto(s, "prepare") /\ UNCHANGED threw
            /\ requested' = [requested EXCEPT ![s] = @ \cup
                 {"simulation_end_time_ns", "simulation_seed", "enable_distributed"}
                 \cup IF Distributed THEN DistributedKeys ELSE {}]
       ELSE ThrowIn(s, "setup") /\ UNCHANGED requested
    /\ UNCHANGED <<input, runs, attribute, now, files>>

\* mutant: the previous run's finished file is left to be overwritten
PrepareLogFilesKeepsFinished(s) ==
    /\ stage[s] = "prepare" /\ Goto(s, "write_no")
    /\ timing' = [timing EXCEPT ![FileOf(s)] = 0]
    /\ UNCHANGED <<input, runs, threw, requested, attribute, now, finished>>

PrepareBasicSimulationLogFiles(s) ==
    /\ stage[s] = "prepare" /\ Goto(s, "write_no")
    /\ finished' = [finished EXCEPT ![FileOf(s)] = Missing]
    /\ timing' = [timing EXCEPT ![FileOf(s)] = 0]
    /\ UNCHANGED <<input, runs, threw, requested, attribute, now>>

WriteFinished(s, is, from, to) ==
    /\ stage[s] = from /\ Goto(s, to)
    /\ finished' = [finished EXCEPT ![FileOf(s)] = [is |-> is, run |-> runs]]
    /\ UNCHANGED <<input, runs, threw, requested, attribute, now, timing>>

-----------------------------------------------------------------------------
(* What main does next.                                                      *)

\* TopologyPtop: one system for every node.
LoadTopology(s) ==
    /\ stage[s] = "topology"
    /\ IF HasParam(config, "topology_ptop_filename")
          /\ (Distributed => Len(Assignment) = NumNodes)
       THEN Goto(s, "tcp") /\ UNCHANGED threw
       ELSE ThrowIn(s, "setup")
    /\ requested' = [requested EXCEPT ![s] = @ \cup {"topology_ptop_filename"}]
    /\ UNCHANGED <<input, runs, attribute, now, files>>

ConfigureTcp(s) ==
    /\ stage[s] = "tcp"
    /\ LET table == Configured(attribute[s], config)
       IN  IF table = <<>> THEN ThrowIn(s, "setup") /\ UNCHANGED attribute
           ELSE /\ Goto(s, "schedulers") /\ attribute' = [attribute EXCEPT ![s] = table]
                /\ UNCHANGED threw
    /\ requested' = [requested EXCEPT ![s] = @ \cup KeysRead(config)]
    /\ UNCHANGED <<input, runs, now, files>>

\* The stop event of the constructor comes before everything else at its time.
StageAt(t) == IF t = EndTime THEN "results" ELSE "running"

\* Run: every key of the configuration must have been asked for.
Run(s) ==
    /\ stage[s] = "run"
    /\ IF DOMAIN config \subseteq requested[s]
       THEN Goto(s, StageAt(0)) /\ UNCHANGED threw
       ELSE ThrowIn(s, "setup")
    /\ UNCHANGED <<input, runs, requested, attribute, now, files>>

\* Systems wait for each other: simulated time needs all of them.
Simulating == \A s \in 0 .. input.np - 1 : stage[s] = "running"

Advance ==
    /\ now' = now + 1
    /\ stage' = [s \in System |-> IF stage[s] = "running" THEN StageAt(now + 1) ELSE stage[s]]
    /\ UNCHANGED <<input, runs, threw, requested, attribute, files>>

-----------------------------------------------------------------------------
(* Finalize.                                                                 *)

\* mutant: the simulator is destroyed, the attributes stay as they are
CleanUpWithoutReset(s) ==
    /\ stage[s] = "clean_up" /\ Goto(s, "timing")
    /\ UNCHANGED <<input, runs, threw, requested, attribute, now, files>>

\* Simulator::Destroy, MpiInterface::Disable and Config::Reset.
CleanUpSimulation(s) ==
    /\ stage[s] = "clean_up" /\ Goto(s, "timing")
    /\ attribute' = [attribute EXCEPT ![s] = Default]
    /\ UNCHANGED <<input, runs, threw, requested, now, files>>

StoreTimingResults(s) ==
    /\ stage[s] = "timing" /\ Goto(s, "write_yes")
    /\ timing' = [timing EXCEPT ![FileOf(s)] = runs]
    /\ UNCHANGED <<input, runs, threw, requested, attribute, now, finished>>

BasicStep(s) ==
    \/ ReadConfigAndConfigureSimulation(s) \/ PrepareBasicSimulationLogFiles(s)
    \/ WriteFinished(s, "No", "write_no", "topology")
    \/ LoadTopology(s) \/ ConfigureTcp(s) \/ Run(s)
    \/ CleanUpSimulation(s) \/ StoreTimingResults(s)
    \/ WriteFinished(s, "Yes", "write_yes", "done")

-----------------------------------------------------------------------------
(* The TCP settings that the applications of a run find are those of its own *)
(* configuration, whatever ran before it in the same process: untouched      *)
(* defaults, the basic values or the custom ones.                            *)
TcpAsConfigured ==
    \A s \in System : stage[s] \in {"run", "running"} =>
        CASE Scalar("tcp_config") = "default" -> attribute[s] = Default
          [] Scalar("tcp_config") = "basic"   -> attribute[s] = Basic
          [] Scalar("tcp_config") = "custom"  -> attribute[s] = Custom(config)
==============================================================================
