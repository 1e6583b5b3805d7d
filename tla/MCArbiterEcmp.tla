---------------------------- MODULE MCArbiterEcmp ---------------------------
(***************************************************************************)
(* Every graph of four switches, and topologies of three or four nodes     *)
(* with servers, per-link mappings and every kind of mistake.              *)
(***************************************************************************)
EXTENDS ArbiterEcmp

Num(i) == <<i, 0>>
Again(i) == <<i, 1>>
Junk == <<>>
Text(form, items) == [form |-> form, items |-> items]
One(v) == Text("plain", <<v>>)
Nums(S) == Text("set", LET s == SetToSeq(S) IN [i \in DOMAIN s |-> Num(s[i])])
EdgeTexts(E) == LET s == Sorted(E) IN [i \in DOMAIN s |-> <<Num(s[i][1]), Num(s[i][2])>>]

DropTail(k, unit) == [kind |-> "drop_tail", max_size |-> [num |-> k, unit |-> unit]]
NoError == [kind |-> "none"]
Iid(p) == [kind |-> "iid_uniform_random_pkt", rate |-> p]
Red(mean, weight, lo, hi, size, unit) ==
    [kind |-> "simple_red", action |-> "ecn", mean_pkt_size_byte |-> mean, queue_weight |-> weight,
     min_th_pkt |-> lo, max_th_pkt |-> hi, max_size |-> [num |-> size, unit |-> unit],
     max_p |-> Num(10), wait |-> "wait", gentle |-> "gentle"]
Sized(kind, k, unit) == [kind |-> kind, max_size |-> [num |-> k, unit |-> unit],
                         interval_ns |-> Num(5), target_ns |-> Num(1)]

With(f, k, v) == [x \in DOMAIN f \cup {k} |-> IF x = k THEN v ELSE f[x]]
Without(f, k) == [x \in DOMAIN f \ {k} |-> f[x]]

\* num nodes, all of them ToRs, linked by E.
Plainly(num, E) ==
    With(With(With(With(With(
    [k \in NodeSetKeys |-> IF k = "servers" THEN Nums({}) ELSE Nums(0 .. num - 1)],
    "num_nodes", One(Num(num))), "num_undirected_edges", One(Num(Cardinality(E)))),
    "undirected_edges", Text("set", EdgeTexts(E))), Delay, One(Num(10))), Rate, One(Num(3)))

Complete(c) == With(With(With(c, Queue, One(DropTail(Num(9), "p"))), Error, One(NoError)),
                    Qdisc, One([kind |-> "default"]))

Local(c) == [config |-> c, assignment |-> <<>>, here |-> 0]

AllGraphs == {Local(Complete(Plainly(4, E))) :
                E \in SUBSET {e \in (0 .. 3) \X (0 .. 3) : e[1] < e[2]}}

\* Two servers behind one ToR, the switch behind it, everything per link.
StarEdges == {<<0, 2>>, <<1, 2>>, <<2, 3>>}
StarLinks == StarEdges \cup {<<e[2], e[1]>> : e \in StarEdges}
Mapped(D, V(_)) == Text("map", LET s == Sorted(D) IN
                     [i \in DOMAIN s |-> << <<Num(s[i][1]), Num(s[i][2])>>, V(s[i]) >>])
LinkQdisc(l) == IF l[1] = 2 THEN Red(Num(3), Num(20), Num(1), Num(4), Num(10), "B")
                ELSE IF l[1] = 0 THEN [kind |-> "disabled"]
                ELSE IF l[1] = 1 THEN Sized("fq_codel", Num(7), "p") ELSE Sized("fifo", Num(7), "B")
Star ==
    With(With(With(With(With(With(With(With(
    Plainly(4, StarEdges), "switches", Nums({2, 3})), "servers", Nums({0, 1})),
    "switches_which_are_tors", Nums({2})),
    Delay, Mapped(StarEdges, LAMBDA l : Num(100 + 10 * l[1] + l[2]))),
    Rate, Mapped(StarLinks, LAMBDA l : Num(10 * l[1] + l[2]))),
    Queue, Mapped(StarLinks, LAMBDA l : DropTail(Num(1 + 10 * l[1] + l[2]), "B"))),
    Error, Mapped(StarLinks, LAMBDA l : Iid(Num(10 * l[1] + l[2])))),
    Qdisc, Mapped(StarLinks, LinkQdisc))

Distributed == {[config |-> Star, assignment |-> a, here |-> 0] :
                  a \in {<<0, 0, 0, 1>>, <<0, 1, 1, 1>>, <<0, 1, 1>>}}

Bad == One(Junk)
Edge(a, b) == Text("set", << <<Num(0), Num(2)>>, <<Num(1), Num(2)>>, <<a, b>> >>)
StarWith(k, v) == With(Star, k, v)
QdiscEverywhere(v) == StarWith(Qdisc, One(v))

Variants ==
    {Without(Star, k) : k \in DOMAIN Star} \cup
    {StarWith("nonsense", Bad), StarWith("all_nodes_are_endpoints", One("true")),
     StarWith("all_nodes_are_endpoints", One("yes")), StarWith("num_nodes", Bad),
     StarWith("num_nodes", One(Num(3))), StarWith("num_undirected_edges", One(Num(2))),
     StarWith("num_undirected_edges", One(Num(-3))),
     StarWith("servers", Nums({0, 1, 2})), StarWith("servers", Nums({0})),
     StarWith("servers", Text("plain", <<Num(0)>>)),
     StarWith("servers", Text("set", <<Num(0), Num(1), Again(1)>>)),
     StarWith("switches_which_are_tors", Nums({1, 2})),
     StarWith("switches_which_are_tors", Nums({3})),
     StarWith("undirected_edges", Edge(Num(3), Num(2))),
     StarWith("undirected_edges", Edge(Num(3), Num(3))),
     StarWith("undirected_edges", Edge(Num(2), Num(4))),
     StarWith("undirected_edges", Edge(Num(0), Num(3))),
     StarWith("undirected_edges", Edge(Num(0), Again(2))),
     StarWith("undirected_edges", Edge(Num(0), Junk)),
     StarWith(Delay, Mapped(StarLinks, LAMBDA l : Num(1))),
     StarWith(Rate, Mapped(StarEdges, LAMBDA l : Num(1))),
     StarWith(Rate, Mapped(StarLinks \cup {<<0, 1>>}, LAMBDA l : Num(1))),
     StarWith(Rate, One(Num(-1))), StarWith(Rate, One(Num(0))),
     StarWith(Rate, Text("map", Append(Star[Rate].items, << <<Num(0), Again(2)>>, Num(1) >>))),
     StarWith(Queue, One(DropTail(Num(0), "p"))), StarWith(Queue, One(DropTail(Num(1), "x"))),
     StarWith(Error, One(Iid(Num(101)))), StarWith(Error, One(NoError)),
     Complete(With(Plainly(3, {}), Error, One(Iid(Junk))))} \cup
    {QdiscEverywhere(v) : v \in
       {Sized("fq_codel", Num(7), "B"), Sized("pfifo_fast", Num(7), "p"), Sized("fifo", Num(0), "p"),
        [kind |-> "codel"], [kind |-> "disabled"],
        Red(Num(3), Num(0), Num(1), Num(4), Num(10), "B"),
        Red(Num(0), Num(20), Num(1), Num(4), Num(10), "B"),
        Red(Num(3), Num(20), Num(1), Num(5), Num(10), "B"),
        Red(Num(3), Num(20), Num(5), Num(4), Num(10), "p"),
        Red(Num(3), Num(20), Num(1), Num(10), Num(10), "p")}}

MCInput == AllGraphs \cup Distributed
           \cup {Local(c) : c \in Variants} \cup {Local(Star)}
=============================================================================
