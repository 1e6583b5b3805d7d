---------------------------- MODULE TopologyPtop ----------------------------
(***************************************************************************)
(* The point-to-point topology (topology-ptop.cc, its default selectors    *)
(* and point-to-point-ab-helper.cc): the constructor reads the topology    *)
(* file, checks the graph, reads the five link properties, creates nodes   *)
(* and then the links, one per undirected edge, in sorted order.  The      *)
(* first thing that is wrong makes it throw.                               *)
(***************************************************************************)
EXTENDS ExpUtil, SequencesExt

CONSTANT
    Input   \* [config, assignment, here]: a topology file, the node-to-system
            \* assignment (<<>> when not distributed) and this system

VARIABLES
    input,
    step,       \* position in Steps, Thrown after an exception
    graph,      \* [numNodes, switches, tors, servers, edges, adjacent]
    settings,   \* settings[property][link]: the five mappings
    systemId,   \* the system of every node
    device,     \* device[<<a, b>>]: the net-device of a on its link to b
    interfaces  \* m_interface_idxs_for_undirected_edges

topology == <<input, step, graph, settings, systemId, device, interfaces>>

Thrown == 0
Delay == "link_channel_delay_ns"
Rate  == "link_net_device_data_rate_megabit_per_s"
Queue == "link_net_device_queue"
Error == "link_net_device_receive_error_model"
Qdisc == "link_interface_traffic_control_qdisc"
Properties == <<Delay, Rate, Queue, Error, Qdisc>>
Steps == <<"config", "graph">> \o Properties \o <<"nodes", "links", "ready">>

At(s)   == step # Thrown /\ Steps[step] = s
Advance == step' = step + 1
Throw   == step' = Thrown /\ UNCHANGED <<graph, settings, systemId, device, interfaces>>

NodeSetKeys == {"switches", "switches_which_are_tors", "servers"}
GraphKeys   == {"num_nodes", "num_undirected_edges", "undirected_edges"} \cup NodeSetKeys

(* Of a file, the model keeps how each text reads as a number, see ExpUtil.  *)
IsReadValue(property, v) ==
    property = Qdisc /\ v.kind = "simple_red" =>
        {v.mean_pkt_size_byte, v.max_size.num, v.min_th_pkt, v.max_th_pkt} \subseteq Token

IsRead(config) ==
    LET Among(keys) == keys \cap DOMAIN config IN
    /\ \A k \in Among({"num_nodes", "num_undirected_edges"}) : config[k].items[1] \in Token
    /\ \A k \in Among(NodeSetKeys) : config[k].items \in Seq(Token)
    /\ \A k \in Among({"undirected_edges"}) : config[k].items \in Seq(Seq(Token))
    /\ \A p \in Among(Range(Properties)) :
         LET items == config[p].items IN
         IF config[p].form = "map"
         THEN /\ items \in Seq(Range(items))
              /\ \A s \in Range(items) :
                   IsSplitInTwo(s) => s[1] \in Seq(Token) /\ IsReadValue(p, s[2])
         ELSE IsReadValue(p, items[1])

ASSUME InputAssumption ==
    \A i \in Input : i.assignment \in Seq(Nat) /\ IsRead(i.config)

Param(key) == input.config[key]
Plain(key) == Param(key).items[1]

TopologyInit ==
    /\ input \in Input
    /\ step = 1
    /\ graph = [numNodes |-> 0, switches |-> {}, tors |-> {}, servers |-> {}, edges |-> <<>>,
                adjacent |-> <<>>]
    /\ settings = <<>> /\ systemId = <<>> /\ device = <<>> /\ interfaces = <<>>

AllNodesAreEndpoints ==
    IF HasParam(input.config, "all_nodes_are_endpoints")
    THEN Boolean(Plain("all_nodes_are_endpoints")) ELSE FALSE

ReadTopologyConfig ==
    /\ At("config")
    /\ IF /\ DOMAIN input.config \subseteq
                GraphKeys \cup Range(Properties) \cup {"all_nodes_are_endpoints"}
          /\ HasParam(input.config, "all_nodes_are_endpoints") =>
                IsBoolean(Plain("all_nodes_are_endpoints"))
       THEN Advance /\ UNCHANGED <<graph, settings, systemId, device, interfaces>>
       ELSE Throw
    /\ UNCHANGED input

-----------------------------------------------------------------------------
(* The graph *)

NodeSet(key) == SetPositiveInt64(Param(key))
EdgeSet      == {Pair(s) : s \in Range(Param("undirected_edges").items)}
Neighbours(a) == {b \in 0 .. Int64(Plain("num_nodes")) - 1 :
                    <<a, b>> \in EdgeSet \/ <<b, a>> \in EdgeSet}

\* The order of std::sort on pairs.
Before(e, f) == e[1] < f[1] \/ (e[1] = f[1] /\ e[2] < f[2])
Sorted(E) == [i \in 1 .. Cardinality(E) |->
                CHOOSE e \in E : Cardinality({f \in E : Before(f, e)}) = i - 1]

\* The comparisons on one edge: no self-loop, both nodes exist, smaller one first.
IsEdge(s, n) ==
    /\ IsPair(s)
    /\ LET e == Pair(s) IN e[1] # e[2] /\ e[1] < n /\ e[2] < n /\ ~(e[2] < e[1])

ParsesAsGraph ==
    LET n == Int64(Plain("num_nodes"))
        listed == Param("undirected_edges")
    IN  /\ \A k \in NodeSetKeys :
             IsSetPositiveInt64(Param(k)) /\ AllItemsAreLessThan(NodeSet(k), n)
        /\ IsSetString(listed) /\ \A s \in Range(listed.items) : IsEdge(s, n)
        /\ Len(listed.items) = Int64(Plain("num_undirected_edges"))
        /\ Len(listed.items) = Cardinality(EdgeSet)

\* mutant: links of servers are not checked
HierarchyOfAnyLinks ==
    /\ NodeSet("servers") \cap NodeSet("switches") = {}
    /\ Cardinality(NodeSet("servers") \cup NodeSet("switches")) = Int64(Plain("num_nodes"))

Hierarchy ==
    LET servers == NodeSet("servers")
        switches == NodeSet("switches")
        tors == NodeSet("switches_which_are_tors")
    IN  /\ servers \cap switches = {}
        /\ Cardinality(servers \cup switches) = Int64(Plain("num_nodes"))
        /\ Cardinality(switches \cap tors) = Cardinality(tors)
        /\ \A s \in servers : Neighbours(s) \subseteq tors

AssignmentMatches ==
    input.assignment # <<>> => Len(input.assignment) = Int64(Plain("num_nodes"))

ParseTopologyGraph ==
    /\ At("graph")
    /\ IF /\ \A k \in GraphKeys : HasParam(input.config, k)
          /\ IsPositive(Plain("num_nodes")) /\ IsPositive(Plain("num_undirected_edges"))
          /\ ParsesAsGraph /\ Hierarchy /\ AssignmentMatches
       THEN /\ Advance
            /\ graph' = [numNodes |-> Int64(Plain("num_nodes")),
                         switches |-> NodeSet("switches"),
                         tors     |-> NodeSet("switches_which_are_tors"),
                         servers  |-> NodeSet("servers"),
                         edges    |-> Sorted(EdgeSet),
                         adjacent |-> [a \in 0 .. Int64(Plain("num_nodes")) - 1 |-> Neighbours(a)]]
            /\ UNCHANGED <<settings, systemId, device, interfaces>>
       ELSE Throw
    /\ UNCHANGED input

Node == 0 .. graph.numNodes - 1
Linked(a, b) == b \in graph.adjacent[a]

GetEndpoints ==
    IF AllNodesAreEndpoints THEN Node
    ELSE IF graph.servers = {} THEN graph.tors ELSE graph.servers

IsValidEndpoint(a) ==
    \/ AllNodesAreEndpoints
    \/ ~AllNodesAreEndpoints /\ graph.servers = {} /\ a \in graph.tors
    \/ ~AllNodesAreEndpoints /\ graph.servers # {} /\ a \in graph.servers

GetLinks == FlattenSeq([i \in DOMAIN graph.edges |->
                <<graph.edges[i], <<graph.edges[i][2], graph.edges[i][1]>> >>])

-----------------------------------------------------------------------------
(* The selectors: which values each link property takes.  A size is          *)
(* [num, unit], with the unit "p" or "B" when the text ends in one of them.  *)

IsMaxSize(size) == size.unit \in {"p", "B"} /\ IsGeqOne(size.num)

IsQueueValue(v) == v.kind = "drop_tail" /\ IsMaxSize(v.max_size)

IsReceiveErrorModelValue(v) ==
    v.kind = "none" \/ (v.kind = "iid_uniform_random_pkt" /\ IsBetweenZeroAndOne(v.rate))

\* The size limit in packets, rounded up when it is given in byte.
MaxSizePkt(v) ==
    LET size == Int64(v.max_size.num) mean == Int64(v.mean_pkt_size_byte)
    IN  IF v.max_size.unit = "p" THEN size ELSE (size + mean - 1) \div mean

RedThresholds(v) ==
    /\ Int64(v.min_th_pkt) <= Int64(v.max_th_pkt)
    /\ Int64(v.max_th_pkt) <= MaxSizePkt(v)

\* queue_weight and max_p are in hundredths and must be in (0, 1].
IsSimpleRed(v) ==
    /\ v.action \in {"ecn", "drop"} /\ v.wait \in {"wait", "no_wait"}
    /\ v.gentle \in {"gentle", "not_gentle"}
    /\ IsGeqOne(v.mean_pkt_size_byte) /\ IsMaxSize(v.max_size)
    /\ \A p \in {v.queue_weight, v.max_p} : IsBetweenZeroAndOne(p) /\ Int64(p) > 0
    /\ IsPositive(v.min_th_pkt) /\ IsPositive(v.max_th_pkt) /\ RedThresholds(v)

IsTcQdiscValue(v) ==
    \/ v.kind \in {"disabled", "default"}
    \/ v.kind = "fq_codel" /\ IsGeqOne(v.interval_ns) /\ IsGeqOne(v.target_ns)
                           /\ v.max_size.unit = "p" /\ IsMaxSize(v.max_size)
    \/ v.kind \in {"fifo", "pfifo_fast"} /\ IsMaxSize(v.max_size)
    \/ v.kind = "simple_red" /\ IsSimpleRed(v)

IsValue(property, v) ==
    CASE property \in {Delay, Rate} -> IsPositive(v)
      [] property = Queue -> IsQueueValue(v)
      [] property = Error -> IsReceiveErrorModelValue(v)
      [] property = Qdisc -> IsTcQdiscValue(v)

-----------------------------------------------------------------------------
(* The link properties *)

Edges == Range(graph.edges)
Links == Edges \cup {<<e[2], e[1]>> : e \in Edges}

\* Both edge mappings: keys parse, belong to the graph, none twice, all there.
CoversExactly(v, domain) ==
    /\ IsMapString(v)
    /\ \A s \in Range(v.items) : IsPair(s[1]) /\ Pair(s[1]) \in domain
    /\ IsInjective([i \in DOMAIN v.items |-> Pair(v.items[i][1])])
    /\ Len(v.items) = Cardinality(domain)

Entry(v, link) == (CHOOSE s \in Range(v.items) : Pair(s[1]) = link)[2]

\* The global value of an error model or a qdisc is parsed once per edge, the
\* others are always parsed.
GlobalIsValid(property, v) ==
    (property \in {Error, Qdisc} /\ Edges = {}) \/ IsValue(property, v.items[1])

KeysOf(property) == IF property = Delay THEN Edges ELSE Links

Mapping(property) ==
    LET v == Param(property) IN
    [l \in KeysOf(property) |-> IF v.form = "map" THEN Entry(v, l) ELSE v.items[1]]

IsMapping(property) ==
    LET v == Param(property) IN
    IF v.form = "map"
    THEN /\ CoversExactly(v, KeysOf(property))
         /\ \A l \in KeysOf(property) : IsValue(property, Entry(v, l))
    ELSE GlobalIsValid(property, v)

ParseProperty(property) ==
    /\ At(property)
    /\ IF HasParam(input.config, property) /\ IsMapping(property)
       THEN /\ Advance
            /\ settings' = [p \in DOMAIN settings \cup {property} |->
                              IF p = property THEN Mapping(property) ELSE settings[p]]
            /\ UNCHANGED <<graph, systemId, device, interfaces>>
       ELSE Throw
    /\ UNCHANGED input

-----------------------------------------------------------------------------
(* Nodes and links *)

SetupNodes ==
    /\ At("nodes") /\ Advance
    /\ systemId' = [a \in Node |-> IF input.assignment = <<>> THEN 0 ELSE input.assignment[a + 1]]
    /\ UNCHANGED <<input, graph, settings, device, interfaces>>

\* A point-to-point channel unless the nodes are not both on this system.
ChannelKind(a, b) ==
    IF input.assignment # <<>> /\ (systemId[a] # input.here \/ systemId[b] # input.here)
    THEN "remote" ELSE "normal"

NoQdisc      == [kind |-> "disabled"]
DefaultQdisc == [kind |-> "default"]

\* Installed if wanted; assigning the address installs the default one where
\* there is none; what is not wanted is then removed.
InstalledQdisc(v) ==
    LET installed == IF v # NoQdisc THEN v ELSE NoQdisc
        assigned  == IF installed = NoQdisc THEN DefaultQdisc ELSE installed
    IN  IF v = NoQdisc THEN NoQdisc ELSE assigned

IfIdx(a) == 1 + Cardinality({l \in DOMAIN device : l[1] = a})

\* mutant: the error model of a -> b is set on the device of a
NetDeviceSender(a, b, net, host) ==
    [node |-> a, ifIdx |-> IfIdx(a), address |-> <<net, host>>, channel |-> ChannelKind(a, b),
     delay |-> settings[Delay][IF a < b THEN <<a, b>> ELSE <<b, a>>],
     rate  |-> settings[Rate][<<a, b>>], queue |-> settings[Queue][<<a, b>>],
     receiveErrorModel |-> settings[Error][<<a, b>>],
     qdisc |-> InstalledQdisc(settings[Qdisc][<<a, b>>])]

\* What a has at its end: it sends a -> b and receives b -> a.
NetDevice(a, b, net, host) ==
    [node |-> a, ifIdx |-> IfIdx(a), address |-> <<net, host>>, channel |-> ChannelKind(a, b),
     delay |-> settings[Delay][IF a < b THEN <<a, b>> ELSE <<b, a>>],
     rate  |-> settings[Rate][<<a, b>>], queue |-> settings[Queue][<<a, b>>],
     receiveErrorModel |-> settings[Error][<<b, a>>],
     qdisc |-> InstalledQdisc(settings[Qdisc][<<a, b>>])]

\* One round of the loop: the next edge, on a network of its own.
SetupLink ==
    /\ At("links") /\ Len(interfaces) < Len(graph.edges)
    /\ LET net == Len(interfaces)
           ab == graph.edges[net + 1]
           ba == <<ab[2], ab[1]>>
           devA == NetDevice(ab[1], ab[2], net, 1)
           devB == NetDevice(ab[2], ab[1], net, 2)
       IN  /\ device' = [l \in DOMAIN device \cup {ab, ba} |->
                            IF l = ab THEN devA ELSE IF l = ba THEN devB ELSE device[l]]
           /\ interfaces' = Append(interfaces, <<devA.ifIdx, devB.ifIdx>>)
    /\ UNCHANGED <<input, step, graph, settings, systemId>>

LinksDone ==
    /\ At("links") /\ Len(interfaces) = Len(graph.edges)
    /\ Advance
    /\ UNCHANGED <<input, graph, settings, systemId, device, interfaces>>

TopologyNext ==
    \/ ReadTopologyConfig \/ ParseTopologyGraph
    \/ \E p \in Range(Properties) : ParseProperty(p)
    \/ SetupNodes \/ SetupLink \/ LinksDone

-----------------------------------------------------------------------------
(* What the parsers let through is a topology: a simple graph over exactly  *)
(* the declared nodes, servers only behind ToRs, RED thresholds below the   *)
(* capacity of the queue; and a node for which a schedule may name it is a  *)
(* node on which the servers are installed, and the other way around.       *)
AcceptedIsWellFormed ==
    At("ready") =>
        /\ graph.switches \cup graph.servers = Node
        /\ \A s \in graph.servers : graph.adjacent[s] \cap (Node \ graph.tors) = {}
        /\ \A a \in Node : a \notin graph.adjacent[a] /\ \A b \in graph.adjacent[a] : Linked(b, a)
        /\ 2 * Len(graph.edges) = Cardinality({l \in Node \X Node : Linked(l[1], l[2])})
        /\ {a \in Node : IsValidEndpoint(a)} = GetEndpoints
        /\ \A l \in Links : LET v == settings[Qdisc][l] IN
             v.kind = "simple_red" =>
                /\ Int64(v.min_th_pkt) <= Int64(v.max_th_pkt)
                /\ IF v.max_size.unit = "p" THEN Int64(v.max_th_pkt) <= Int64(v.max_size.num)
                   ELSE (Int64(v.max_th_pkt) - 1) * Int64(v.mean_pkt_size_byte)
                            < Int64(v.max_size.num)

\* Reference: what the file says of link a -> b.
Said(property, a, b) ==
    LET v == Param(property) IN
    IF v.form # "map" THEN v.items[1]
    ELSE (CHOOSE s \in Range(v.items) : <<s[1][1][1], s[1][2][1]>> = <<a, b>>)[2]

(* Every link ends up with what the file says of it, at the right end: the   *)
(* sender has its rate, queue and qdisc, the receiver its error model; the   *)
(* two ends share a network nobody else is in, a link between two systems   *)
(* is a remote channel, and interfaces of a node are numbered from 1.       *)
LinksCarryTheirSettings ==
    At("ready") =>
        /\ DOMAIN device = Links
        /\ \A l \in Links :
             LET a == l[1] b == l[2] s == device[l] r == device[<<b, a>>] IN
             /\ s.node = a /\ s.rate = Said(Rate, a, b) /\ s.queue = Said(Queue, a, b)
             /\ s.qdisc = Said(Qdisc, a, b) /\ r.receiveErrorModel = Said(Error, a, b)
             /\ a < b => s.delay = Said(Delay, a, b) /\ r.delay = s.delay
             /\ \A k \in Links : device[k].address[1] = s.address[1] <=> k \in {l, <<b, a>>}
             /\ s.address # r.address
             /\ systemId[a] # systemId[b] => s.channel = "remote" /\ r.channel = "remote"
        /\ \A a \in Node : {device[l].ifIdx : l \in {k \in Links : k[1] = a}}
                              = 1 .. Cardinality(graph.adjacent[a])
=============================================================================
