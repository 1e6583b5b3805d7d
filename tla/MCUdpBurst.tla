----------------------------- MODULE MCUdpBurst -----------------------------
(***************************************************************************)
(* Two bursts between two endpoints of three nodes, on one system or two;  *)
(* good and bad configurations and schedules, in every order.              *)
(***************************************************************************)
EXTENDS UdpBurst

Num(n) == <<n, 0>>
Pair2(key, v) == [kind |-> "pair", key |-> key, value |-> v]
Set(items) == [form |-> "set", items |-> items]

Common(tcp) == <<
    [kind |-> "skip", key |-> "", value |-> Text("")],
    Pair2("simulation_end_time_ns", Text(Num(3))), Pair2("simulation_seed", Text(Num(7))),
    Pair2("topology_ptop_filename", Text("topology.properties")), Pair2("tcp_config", Text(tcp))>>
WithBursts == <<Pair2("enable_udp_burst_scheduler", Text("true")),
                Pair2("udp_burst_schedule_filename", Text("schedule.csv"))>>
OnTwo(count, assignment) == <<
    Pair2("enable_distributed", Text("1")), Pair2("distributed_systems_count", Text(Num(count))),
    Pair2("distributed_simulator_implementation_type", Text("nullmsg")),
    Pair2("distributed_node_system_id_assignment",
          [form |-> "list", items |-> [i \in DOMAIN assignment |-> Num(assignment[i])]])>>
CustomTcp == LET keys == <<"ClockGranularity", "InitialCwnd", "SndBufSize", "RcvBufSize",
                   "SegmentSize", "DelAckCount", "MaxSegLifetime", "MinRto", "InitialEstimation",
                   "ConnTimeout", "DelAckTimeout", "PersistTimeout", "Timestamp", "Sack",
                   "WindowScaling", "EnablePacing", "TcpNoDelay">>
             IN  [k \in DOMAIN keys |-> Pair2(KeyOf[keys[k]],
                    IF keys[k] \in Switch THEN Text("0") ELSE Text(Num(k)))]

Line(id, from, to, rate, start, duration) ==
    [id |-> Num(id), from |-> Num(from), to |-> Num(to), rate |-> Num(rate),
     start |-> Num(start), duration |-> Num(duration)]

Run1(lines, bs) == [lines |-> lines, np |-> 1, bursts |-> bs]
Run2(lines, bs) == [lines |-> lines, np |-> 2, bursts |-> bs]

Both == <<Line(0, 0, 1, 1, 0, 3), Line(1, 1, 0, 3, 0, 0)>>
Late == <<Line(0, 2, 0, 3, 1, 1), Line(1, 0, 2, 3, 1, 3)>>
BadSchedules == {
    <<Line(1, 0, 1, 1, 0, 1)>>, <<Line(0, 0, 1, 0, 0, 1)>>, <<Line(0, 0, 0, 1, 0, 1)>>,
    <<Line(0, 0, 1, 1, 3, 1)>>, <<[Line(0, 0, 1, 1, 0, 1) EXCEPT !.duration = <<>>]>>,
    <<Line(0, 0, 1, 1, 2, 1), Line(1, 0, 1, 1, 1, 1)>>}

MCInput == {
    Run1(Common("basic") \o WithBursts, Both),
    Run1(Common("default") \o WithBursts \o <<Pair2(LoggingKey, Set(<<Num(1)>>))>>, Late),
    Run1(Common("default"), <<>>),
    Run1(Common("default") \o WithBursts \o <<Pair2(LoggingKey, Set(<<Num(2)>>))>>, Late),
    Run1(Common("default") \o <<Pair2("enable_udp_burst_scheduler", Text("1"))>>, Late),
    Run1(Common("default") \o <<Pair2("tcp_config", Text("basic"))>>, <<>>),
    Run1(Common("custom") \o CustomTcp, <<>>),
    Run1(Common("basic") \o <<Pair2("unused", Text("1"))>>, <<>>),
    Run1(Common("best"), <<>>),
    Run2(Common("basic") \o WithBursts \o OnTwo(2, <<0, 1, 1>>), Both),
    Run2(Common("basic") \o WithBursts \o OnTwo(2, <<0, 1, 1>>)
           \o <<Pair2(LoggingKey, Text("all"))>>, <<Line(0, 0, 1, 3, 0, 2)>>),
    Run2(Common("basic") \o OnTwo(3, <<0, 1, 1>>), <<>>),
    Run2(Common("basic") \o OnTwo(2, <<0, 2, 1>>), <<>>),
    Run2(Common("basic") \o OnTwo(2, <<0, 1>>), <<>>)}
  \cup {Run1(Common("default") \o WithBursts, bs) : bs \in BadSchedules}
=============================================================================
