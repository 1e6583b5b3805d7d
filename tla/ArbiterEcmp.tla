---------------------------- MODULE ArbiterEcmp -----------------------------
(***************************************************************************)
(* ECMP routing over the point-to-point topology.  Once the links are set  *)
(* up ArbiterEcmpHelper computes all distances with Floyd-Warshall, in     *)
(* place and cell by cell, and from them the candidate next hops;          *)
(* ArbiterEcmp picks one of them by a hash, which the model leaves open,   *)
(* and ArbiterPtop turns it into the interface the packet leaves by.  One  *)
(* flow is followed over every topology: a socket first asks for a route   *)
(* to learn its source address, then a packet goes there and one back.     *)
(***************************************************************************)
EXTENDS TopologyPtop

CONSTANTS
    INF,       \* the "infinite" distance, 100000000 in the code
    MaxNodes   \* 40000 in the code

ASSUME InfAssumption == INF \in Nat /\ MaxNodes \in Nat /\ INF > MaxNodes

VARIABLES
    dist,        \* dist[i][j]
    cursor,      \* how many of the n^3 iterations are done, -1 before them
    candidates,  \* candidates[a][t]: next hops from a towards t
    packet,      \* [src, dst, at, hops], or NoPacket
    flow,        \* <<from, to>>, the two nodes of the flow
    leg,         \* "idle", "request", "out", "back" or "done"
    outcome      \* "none", "answered" or "no-route"

routing == <<dist, cursor, candidates>>
traffic == <<packet, flow, leg, outcome>>
vars == <<topology, routing, traffic>>

NoAddress == <<-1, -1>>   \* 102.102.102.102, the source of a socket request
NoPacket  == [src |-> NoAddress, dst |-> NoAddress, at |-> -1, hops |-> 0]

Init ==
    /\ TopologyInit
    /\ dist = <<>> /\ cursor = -1 /\ candidates = <<>>
    /\ packet = NoPacket /\ flow = <<>> /\ leg = "idle" /\ outcome = "none"

n == graph.numNodes

StartFloydWarshall ==
    /\ At("ready") /\ cursor = -1
    /\ IF n > MaxNodes THEN Throw /\ UNCHANGED <<input, routing>>
       ELSE /\ cursor' = 0
            /\ dist' = [i \in Node |-> [j \in Node |->
                          IF i = j THEN 0 ELSE IF Linked(i, j) THEN 1 ELSE INF]]
            /\ UNCHANGED <<topology, candidates>>
    /\ UNCHANGED traffic

\* mutant: the three loops are nested with k innermost
TripleInnerK(c) == [i |-> c \div (n * n), j |-> (c \div n) % n, k |-> c % n]

\* The three nested loops: k outermost.
Triple(c) == [k |-> c \div (n * n), i |-> (c \div n) % n, j |-> c % n]

Relax ==
    /\ cursor \in 0 .. n * n * n - 1
    /\ LET t == Triple(cursor)
           via == dist[t.i][t.k] + dist[t.k][t.j]
       IN  dist' = IF dist[t.i][t.j] > via THEN [dist EXCEPT ![t.i][t.j] = via] ELSE dist
    /\ cursor' = cursor + 1
    /\ UNCHANGED <<topology, candidates, traffic>>

\* mutant: a next hop only has to be no farther from the target
TowardsLoosely(a, b, t) == dist[b][t] <= dist[a][t] /\ dist[b][t] < INF

\* mutant: each undirected edge is used from its smaller node only
TowardsUpwards(a, b, t) == a < b /\ dist[a][t] - 1 = dist[b][t]

\* Edge a -> b lies on a shortest path from a to t.
Towards(a, b, t) == dist[a][t] - 1 = dist[b][t]

\* CalculateGlobalState returns, and every node gets its arbiter.
InstallArbiters ==
    /\ cursor = n * n * n /\ candidates = <<>>
    /\ candidates' = [a \in Node |-> [t \in Node |->
                        {b \in graph.adjacent[a] : Towards(a, b, t)}]]
    /\ UNCHANGED <<topology, dist, cursor, traffic>>

-----------------------------------------------------------------------------
(* Arbiters *)

\* m_ip_to_node_id: the addresses of all interfaces but the loop-back.
OwnersOf(address) == {device[l].node : l \in {k \in Links : device[k].address = address}}
ResolveNodeIdFromIp(address) == CHOOSE a \in Node : a \in OwnersOf(address)

\* m_neighbor_node_id_to_if_idx of a: 0 for who is no neighbour.
NeighborIfIdx(a, b) ==
    IF ~Linked(a, b) THEN 0
    ELSE LET i == CHOOSE i \in DOMAIN graph.edges : Range(graph.edges[i]) = {a, b}
         IN  IF graph.edges[i][1] = a THEN interfaces[i][1] ELSE interfaces[i][2]

\* The links a packet may leave a node by: BaseDecide, Decide and the hash.
Routes(a, dst) ==
    {l \in Links : /\ l[1] = a
                   /\ \E b \in candidates[a][ResolveNodeIdFromIp(dst)] :
                        NeighborIfIdx(a, b) # 0 /\ device[l].ifIdx = NeighborIfIdx(a, b)}

\* TcpSocketBase or UdpSocketImpl asks for a route to t, with only the
\* destination set, to learn which of the addresses of s is its own.
RequestSource(s, t) ==
    /\ candidates # <<>> /\ leg = "idle" /\ s # t
    /\ \E l \in Links :
         /\ l[1] = t /\ device[l].ifIdx = 1
         /\ packet' = [NoPacket EXCEPT !.dst = device[l].address, !.at = s]
    /\ leg' = "request" /\ flow' = <<s, t>>
    /\ UNCHANGED <<topology, routing, outcome>>

\* The route of the answer decides the source address; the packet sets off.
SetupEndpoint ==
    /\ leg = "request" /\ outcome = "none"
    /\ \E l \in Routes(packet.at, packet.dst) :
         packet' = [packet EXCEPT !.src = device[l].address]
    /\ leg' = "out"
    /\ UNCHANGED <<topology, routing, flow, outcome>>

\* ArbiterEcmp throws when there are no candidates, for the request or later.
NoCandidates ==
    /\ leg \in {"request", "out", "back"} /\ outcome = "none"
    /\ packet.at \notin OwnersOf(packet.dst)
    /\ Routes(packet.at, packet.dst) = {}
    /\ outcome' = "no-route"
    /\ UNCHANGED <<topology, routing, packet, flow, leg>>

InTransit == leg \in {"out", "back"} /\ outcome = "none"

\* RouteOutput at the origin, RouteInput further on: local delivery has been
\* ruled out, the arbiter decides and the packet arrives at the other end.
Forward ==
    /\ InTransit /\ packet.at \notin OwnersOf(packet.dst)
    /\ \E l \in Routes(packet.at, packet.dst) :
         packet' = [packet EXCEPT !.at = l[2], !.hops = @ + 1]
    /\ UNCHANGED <<topology, routing, flow, leg, outcome>>

\* RouteInput: any address of the node will do.  The receiver answers the
\* address the packet came from.
DeliverLocally ==
    /\ InTransit /\ packet.at \in OwnersOf(packet.dst)
    /\ IF leg = "out"
       THEN /\ packet' = [packet EXCEPT !.src = packet.dst, !.dst = packet.src, !.hops = 0]
            /\ leg' = "back" /\ UNCHANGED outcome
       ELSE outcome' = "answered" /\ leg' = "done" /\ UNCHANGED packet
    /\ UNCHANGED <<topology, routing, flow>>

Proceed ==
    \/ TopologyNext /\ UNCHANGED <<routing, traffic>>
    \/ StartFloydWarshall \/ Relax \/ InstallArbiters
    \/ SetupEndpoint \/ NoCandidates \/ Forward \/ DeliverLocally

Next == Proceed \/ \E s, t \in Node : RequestSource(s, t)

Spec == Init /\ [][Next]_vars

FairSpec == Spec /\ WF_vars(Proceed)

-----------------------------------------------------------------------------
(* Reference: the nodes within d links of s.                               *)
Ball(s) ==
    LET ball[d \in 0 .. n] ==
            IF d = 0 THEN {s}
            ELSE ball[d - 1] \cup UNION {graph.adjacent[a] : a \in ball[d - 1]}
    IN  ball

Distance(s, t) ==
    LET ball == Ball(s) IN
    IF t \notin ball[n] THEN INF
    ELSE CHOOSE d \in 0 .. n : t \in ball[d] /\ \A e \in 0 .. d - 1 : t \notin ball[e]

(* Updating the matrix in place while it is read is harmless: after the     *)
(* last iteration every cell is the number of links of a shortest path, or  *)
(* INF when there is none (arbiter-ecmp-helper.cc 76-85).                   *)
DistancesExact ==
    cursor = n * n * n => \A i, j \in Node : dist[i][j] = Distance(i, j)

(* Whatever the hash picks at each node, and although the address a socket  *)
(* took as its source may belong to another interface than the one its      *)
(* packets leave by, a packet is on a shortest path between the owners of   *)
(* its two addresses: the links it has used and those it has left add up    *)
(* to the distance, so it never loops (arbiter.cc 99-126, arbiter-ptop.cc). *)
PacketsTakeShortestPaths ==
    leg \in {"out", "back", "done"} =>
        LET origin == CHOOSE a \in OwnersOf(packet.src) : TRUE
            target == CHOOSE a \in OwnersOf(packet.dst) : TRUE
        IN  packet.hops + Distance(packet.at, target) = Distance(origin, target)

Reachable == flow # <<>> /\ Distance(flow[1], flow[2]) < INF

(* The arbiter throws exactly for the flows that no path could serve; every  *)
(* other request is answered: the packet gets there and its reply back.     *)
AnsweredIffReachable ==
    [](leg = "request" => <>(outcome = IF Reachable THEN "answered" ELSE "no-route"))
=============================================================================
