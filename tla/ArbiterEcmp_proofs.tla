------------------------- MODULE ArbiterEcmp_proofs -------------------------
(***************************************************************************)
(* For any topology files, any number of nodes and any links: what is      *)
(* accepted is a topology, every link gets what the file says of it, the   *)
(* distances computed in place are exact, and packets go the shortest way. *)
(***************************************************************************)
EXTENDS ArbiterEcmp, Lists_proofs

-----------------------------------------------------------------------------
(* Walks of d links over a graph given by who is adjacent to whom.           *)

Walks(adj, i, j, d) ==
  {w \in [0 .. d -> DOMAIN adj] :
     w[0] = i /\ w[d] = j /\ \A e \in 1 .. d : w[e] \in adj[w[e - 1]]}

(* Only nodes below k between its ends.                                      *)
Inside(w, d, k) == \A e \in 1 .. d - 1 : w[e] < k

LEMMA WalkIs ==
  ASSUME NEW adj, NEW i, NEW j, NEW d \in Nat, NEW w \in Walks(adj, i, j, d)
  PROVE  /\ w \in [0 .. d -> DOMAIN adj] /\ w[0] = i /\ w[d] = j
         /\ \A e \in 0 .. d : w[e] \in DOMAIN adj
         /\ \A e \in 1 .. d : w[e] \in adj[w[e - 1]]
BY DEF Walks

LEMMA WalkOfNone ==
  ASSUME NEW adj, NEW i, NEW j, NEW w \in Walks(adj, i, j, 0)
  PROVE  i = j /\ i \in DOMAIN adj
BY WalkIs

LEMMA StandStill ==
  ASSUME NEW adj, NEW i \in DOMAIN adj
  PROVE  Walks(adj, i, i, 0) # {}
<1> DEFINE w == [e \in 0 .. 0 |-> i]
<1>1. w \in Walks(adj, i, i, 0)
  BY DEF Walks
<1> QED BY <1>1

LEMMA OneLink ==
  ASSUME NEW adj, NEW i \in DOMAIN adj, NEW j \in DOMAIN adj, j \in adj[i]
  PROVE  Walks(adj, i, j, 1) # {}
<1> DEFINE w == [e \in 0 .. 1 |-> IF e = 0 THEN i ELSE j]
<1>1. w[0] = i /\ w[1] = j /\ w \in [0 .. 1 -> DOMAIN adj]
  OBVIOUS
<1>2. \A e \in 1 .. 1 : e = 1 /\ e - 1 = 0
  OBVIOUS
<1> HIDE DEF w
<1>3. w \in Walks(adj, i, j, 1)
  BY <1>1, <1>2 DEF Walks
<1> QED BY <1>3

LEMMA WalkJoined ==
  ASSUME NEW adj, NEW i, NEW k, NEW j, NEW c \in Nat, NEW d \in Nat,
         NEW u \in Walks(adj, i, k, c), NEW v \in Walks(adj, k, j, d)
  PROVE  Walks(adj, i, j, c + d) # {}
<1> DEFINE w == [e \in 0 .. c + d |-> IF e <= c THEN u[e] ELSE v[e - c]]
<1>1. /\ u[0] = i /\ u[c] = k /\ v[0] = k /\ v[d] = j
      /\ \A e \in 0 .. c : u[e] \in DOMAIN adj
      /\ \A e \in 0 .. d : v[e] \in DOMAIN adj
      /\ \A e \in 1 .. c : u[e] \in adj[u[e - 1]]
      /\ \A e \in 1 .. d : v[e] \in adj[v[e - 1]]
  BY WalkIs
<1>2. \A e \in 0 .. c : w[e] = u[e]
  OBVIOUS
<1>3. \A e \in c .. c + d : e - c \in 0 .. d /\ w[e] = v[e - c]
  <2> TAKE e \in c .. c + d
  <2>1. e - c \in 0 .. d /\ e \in 0 .. c + d
    OBVIOUS
  <2>2. CASE e = c
    <3>1. e - c = 0 /\ w[e] = u[c]
      BY <2>2
    <3> HIDE DEF w
    <3> QED BY <1>1, <2>1, <3>1
  <2>3. CASE e # c
    BY <2>1, <2>3
  <2> QED BY <2>2, <2>3
<1>4. w \in [0 .. c + d -> DOMAIN adj]
  <2>1. ASSUME NEW e \in 0 .. c + d PROVE w[e] \in DOMAIN adj
    <3>1. e \in 0 .. c \/ e \in c .. c + d
      OBVIOUS
    <3> HIDE DEF w
    <3> QED BY <1>1, <1>2, <1>3, <3>1
  <2> QED BY <2>1
<1>5. w[0] = i /\ w[c + d] = j
  <2>1. 0 \in 0 .. c /\ c + d \in c .. c + d /\ (c + d) - c = d
    OBVIOUS
  <2> HIDE DEF w
  <2> QED BY <1>1, <1>2, <1>3, <2>1
<1> HIDE DEF w
<1>6. ASSUME NEW e \in 1 .. c + d PROVE w[e] \in adj[w[e - 1]]
  <2>1. CASE e <= c
    <3>1. e \in 1 .. c /\ e \in 0 .. c /\ e - 1 \in 0 .. c
      BY <2>1
    <3> QED BY <1>1, <1>2, <3>1
  <2>2. CASE ~(e <= c)
    <3> DEFINE f == e - c
    <3>1. f \in 1 .. d /\ e \in c .. c + d /\ e - 1 \in c .. c + d /\ (e - 1) - c = f - 1
      BY <2>2
    <3> QED BY <1>1, <1>3, <3>1
  <2> QED BY <2>1, <2>2
<1>7. w \in Walks(adj, i, j, c + d)
  BY <1>4, <1>5, <1>6 DEF Walks
<1> QED BY <1>7

(* The part of a walk from its a-th to its b-th node.                        *)
Part(w, a, b) == [e \in 0 .. b - a |-> w[a + e]]

LEMMA PartIsWalk ==
  ASSUME NEW adj, NEW i, NEW j, NEW d \in Nat, NEW w \in Walks(adj, i, j, d),
         NEW a \in 0 .. d, NEW b \in a .. d
  PROVE  /\ b - a \in Nat
         /\ Part(w, a, b) \in Walks(adj, w[a], w[b], b - a)
         /\ \A e \in 0 .. b - a : Part(w, a, b)[e] = w[a + e]
<1> DEFINE p == Part(w, a, b)
           m == b - a
<1>1. m \in Nat /\ \A e \in 0 .. m : a + e \in 0 .. d
  OBVIOUS
<1>2. \A e \in 0 .. m : p[e] = w[a + e]
  BY DEF Part
<1>3. a + 0 = a /\ a + m = b /\ \A e \in 1 .. m : a + e \in 1 .. d /\ (a + e) - 1 = a + (e - 1)
  OBVIOUS
<1>4. \A e \in 1 .. m : e - 1 \in 0 .. m /\ e \in 0 .. m
  OBVIOUS
<1>5. /\ \A e \in 0 .. d : w[e] \in DOMAIN adj
      /\ \A e \in 1 .. d : w[e] \in adj[w[e - 1]]
  BY WalkIs
<1>6. p = [e \in 0 .. m |-> w[a + e]]
  BY DEF Part
<1> HIDE DEF m, p
<1>7. p \in [0 .. m -> DOMAIN adj]
  BY <1>1, <1>5, <1>6
<1>8. p[0] = w[a] /\ p[m] = w[b]
  BY <1>1, <1>2, <1>3
<1>9. \A e \in 1 .. m : p[e] \in adj[p[e - 1]]
  BY <1>2, <1>3, <1>4, <1>5
<1>10. p \in Walks(adj, w[a], w[b], m)
  BY <1>7, <1>8, <1>9 DEF Walks
<1> QED BY <1>1, <1>2, <1>10 DEF m, p

(* A walk through nodes up to k that visits k in between splits at its first  *)
(* and its last visit.                                                       *)
LEMMA WalkSplit ==
  ASSUME NEW adj, DOMAIN adj \subseteq Nat, NEW i, NEW j, NEW d \in Nat,
         NEW w \in Walks(adj, i, j, d), NEW k \in Nat, Inside(w, d, k + 1), ~Inside(w, d, k)
  PROVE  \E a \in Nat : \E b \in Nat :
           /\ a + b <= d
           /\ \E u \in Walks(adj, i, k, a) : Inside(u, a, k)
           /\ \E v \in Walks(adj, k, j, b) : Inside(v, b, k)
<1> DEFINE T == {e \in 1 .. d - 1 : w[e] = k}
           U == {d - e : e \in T}
<1>1. \A e \in 0 .. d : w[e] \in Nat
  BY WalkIs
<1>2. w[0] = i /\ w[d] = j
  BY WalkIs
<1>3. \A e \in 1 .. d - 1 : w[e] < k \/ w[e] = k
  <2>1. ASSUME NEW e \in 1 .. d - 1 PROVE w[e] < k \/ w[e] = k
    <3>1. w[e] < k + 1 /\ e \in 0 .. d
      BY DEF Inside
    <3> QED BY <1>1, <3>1
  <2> QED BY <2>1
<1>4. T # {} /\ T \in SUBSET Nat
  BY <1>3 DEF Inside
<1>5. U # {} /\ U \in SUBSET Nat
  BY <1>4
<1>6. PICK a \in T : \A m \in T : a <= m
  <2> HIDE DEF T
  <2> QED BY <1>4, SmallestExists
<1>7. PICK x \in U : \A m \in U : x <= m
  <2> HIDE DEF U
  <2> QED BY <1>5, SmallestExists
<1>8. PICK b \in T : x = d - b
  BY <1>7
<1>9. \A m \in T : m <= b
  <2> SUFFICES ASSUME NEW m \in T PROVE m <= b
    OBVIOUS
  <2>1. d - m \in U /\ m \in Nat /\ b \in Nat
    OBVIOUS
  <2> HIDE DEF T, U
  <2>2. d - b <= d - m
    BY <1>7, <1>8, <2>1
  <2> QED BY <2>1, <2>2
<1>10. a \in 1 .. d - 1 /\ b \in 1 .. d - 1 /\ w[a] = k /\ w[b] = k /\ a <= b
  BY <1>6
<1>11. \A e \in 1 .. d - 1 : e < a \/ e > b => w[e] < k
  <2> SUFFICES ASSUME NEW e \in 1 .. d - 1, e < a \/ e > b PROVE w[e] < k
    OBVIOUS
  <2>1. e \notin T
    BY <1>6, <1>9, <1>10
  <2> QED BY <1>3, <2>1
<1> HIDE DEF T, U
<1> DEFINE u == Part(w, 0, a)
           v == Part(w, b, d)
<1>12. /\ a - 0 = a /\ a \in Nat /\ d - b \in Nat /\ 0 \in 0 .. d /\ a \in 0 .. d /\ b \in 0 .. d
       /\ d \in b .. d
  BY <1>10
<1>13. u \in Walks(adj, i, k, a) /\ \A e \in 0 .. a : u[e] = w[0 + e]
  BY <1>2, <1>10, <1>12, PartIsWalk
<1>14. v \in Walks(adj, k, j, d - b) /\ \A e \in 0 .. d - b : v[e] = w[b + e]
  BY <1>2, <1>10, <1>12, PartIsWalk
<1> HIDE DEF u, v
<1>15. Inside(u, a, k)
  <2> SUFFICES ASSUME NEW e \in 1 .. a - 1 PROVE u[e] < k
    BY DEF Inside
  <2>1. e \in 1 .. d - 1 /\ e < a /\ e \in 0 .. a /\ 0 + e = e
    BY <1>10
  <2> QED BY <1>11, <1>13, <2>1
<1>16. Inside(v, d - b, k)
  <2> SUFFICES ASSUME NEW e \in 1 .. (d - b) - 1 PROVE v[e] < k
    BY DEF Inside
  <2>1. b + e \in 1 .. d - 1 /\ b + e > b /\ e \in 0 .. d - b
    BY <1>10
  <2> QED BY <1>11, <1>14, <2>1
<1>17. a + (d - b) <= d
  BY <1>10
<1> QED BY <1>12, <1>13, <1>14, <1>15, <1>16, <1>17

(* A walk that comes back to a node can be cut there.                        *)
LEMMA WalkCut ==
  ASSUME NEW adj, NEW i, NEW j, NEW d \in Nat, NEW w \in Walks(adj, i, j, d),
         NEW a \in 0 .. d, NEW b \in a + 1 .. d, w[a] = w[b]
  PROVE  \E e \in 0 .. d - 1 : Walks(adj, i, j, e) # {}
<1>1. w[0] = i /\ w[d] = j
  BY WalkIs
<1>2. 0 \in 0 .. d /\ a \in 0 .. d /\ b \in 0 .. d /\ d \in b .. d /\ a - 0 = a
  OBVIOUS
<1>3. a \in Nat /\ Part(w, 0, a) \in Walks(adj, i, w[a], a)
  BY <1>1, <1>2, PartIsWalk
<1>4. d - b \in Nat /\ Part(w, b, d) \in Walks(adj, w[a], j, d - b)
  BY <1>1, <1>2, PartIsWalk
<1>5. Walks(adj, i, j, a + (d - b)) # {}
  BY <1>3, <1>4, WalkJoined
<1>6. a + (d - b) \in 0 .. d - 1
  BY <1>2
<1> QED BY <1>5, <1>6

(* d is the number of links of a shortest walk.                              *)
Shortest(adj, i, j, d) ==
  d \in Nat /\ Walks(adj, i, j, d) # {} /\ \A e \in Nat : Walks(adj, i, j, e) # {} => d <= e

LEMMA ShortestExists ==
  ASSUME NEW adj, NEW i, NEW j, NEW d \in Nat, Walks(adj, i, j, d) # {}
  PROVE  \E e \in Nat : Shortest(adj, i, j, e)
<1> DEFINE T == {e \in Nat : Walks(adj, i, j, e) # {}}
<1>1. T # {} /\ T \in SUBSET Nat
  OBVIOUS
<1>2. PICK e \in T : \A m \in T : e <= m
  <2> HIDE DEF T
  <2> QED BY <1>1, SmallestExists
<1> QED BY <1>2 DEF Shortest

(* A shortest walk visits no node twice.                                     *)
LEMMA ShortestIsShort ==
  ASSUME NEW N \in Nat, NEW adj, DOMAIN adj = 0 .. N - 1, NEW i, NEW j, NEW d,
         Shortest(adj, i, j, d)
  PROVE  d < N
<1>1. d \in Nat /\ Walks(adj, i, j, d) # {}
  BY DEF Shortest
<1>2. PICK w \in Walks(adj, i, j, d) : TRUE
  BY <1>1
<1>3. w \in [0 .. d -> 0 .. N - 1]
  BY <1>1, WalkIs
<1>4. ASSUME NEW a \in 0 .. d, NEW b \in 0 .. d, w[a] = w[b] PROVE a = b
  <2>1. ASSUME NEW x \in 0 .. d, NEW y \in x + 1 .. d, w[x] = w[y] PROVE FALSE
    <3>1. PICK e \in 0 .. d - 1 : Walks(adj, i, j, e) # {}
      BY <1>1, <2>1, WalkCut
    <3>2. d <= e
      BY <3>1 DEF Shortest
    <3> QED BY <1>1, <3>1, <3>2
  <2>2. ~ (a < b)
    <3>1. a < b => b \in a + 1 .. d
      BY <1>1
    <3> QED BY <1>4, <2>1, <3>1
  <2>3. ~ (b < a)
    <3>1. b < a => a \in b + 1 .. d
      BY <1>1
    <3> QED BY <1>4, <2>1, <3>1
  <2> QED BY <2>2, <2>3
<1>5. w \in Injection(0 .. d, 0 .. N - 1)
  BY <1>3, <1>4 DEF Injection, IsInjective
<1>6. /\ IsFiniteSet(0 .. N - 1) /\ Cardinality(0 .. N - 1) = N
      /\ IsFiniteSet(0 .. d) /\ Cardinality(0 .. d) = d + 1
  <2>1. 0 \in Int /\ N - 1 \in Int /\ d \in Int
    BY <1>1
  <2>2. (IF 0 > N - 1 THEN 0 ELSE (N - 1) - 0 + 1) = N /\ (IF 0 > d THEN 0 ELSE d - 0 + 1) = d + 1
    BY <1>1
  <2> QED BY <2>1, <2>2, FS_Interval
<1>7. d + 1 <= N
  BY <1>5, <1>6, FS_Injection
<1> QED BY <1>1, <1>7

-----------------------------------------------------------------------------
(* The reference of the model: the balls around a node, and the distance.    *)

GraphTyped ==
  n \in Nat /\ Node = 0 .. n - 1 /\ graph.adjacent \in [Node -> SUBSET Node]

Reached(adj, s, d) == {t \in DOMAIN adj : \E e \in 0 .. d : Walks(adj, s, t, e) # {}}

LEMMA ReachedFirst ==
  ASSUME NEW adj, NEW s \in DOMAIN adj
  PROVE  Reached(adj, s, 0) = {s}
<1>1. \A e \in 0 .. 0 : e = 0
  OBVIOUS
<1>2. Walks(adj, s, s, 0) # {} /\ 0 \in 0 .. 0
  BY StandStill
<1>3. ASSUME NEW t \in Reached(adj, s, 0) PROVE t = s
  <2>1. PICK w : w \in Walks(adj, s, t, 0)
    BY <1>1 DEF Reached
  <2> QED BY <2>1, WalkOfNone
<1> QED BY <1>2, <1>3 DEF Reached

LEMMA ReachedNext ==
  ASSUME NEW adj, \A a \in DOMAIN adj : adj[a] \subseteq DOMAIN adj, NEW s \in DOMAIN adj,
         NEW d \in Nat
  PROVE  Reached(adj, s, d + 1)
           = Reached(adj, s, d) \cup UNION {adj[a] : a \in Reached(adj, s, d)}
<1>1. ASSUME NEW t \in Reached(adj, s, d + 1)
      PROVE  t \in Reached(adj, s, d) \cup UNION {adj[a] : a \in Reached(adj, s, d)}
  <2>1. PICK e \in 0 .. d + 1 : Walks(adj, s, t, e) # {}
    BY DEF Reached
  <2>2. CASE e \in 0 .. d
    BY <2>1, <2>2 DEF Reached
  <2>3. CASE e = d + 1
    <3>1. PICK w : w \in Walks(adj, s, t, d + 1)
      BY <2>1, <2>3
    <3>2. w[0] = s /\ w[d + 1] = t /\ w[d] \in DOMAIN adj /\ w[d + 1] \in adj[w[d]]
      <4>1. d + 1 \in Nat /\ d + 1 \in 1 .. d + 1 /\ (d + 1) - 1 = d /\ d \in 0 .. d + 1
        OBVIOUS
      <4> QED BY <3>1, <4>1, WalkIs
    <3>3. Part(w, 0, d) \in Walks(adj, s, w[d], d)
      <4>1. 0 \in 0 .. d + 1 /\ d \in 0 .. d + 1 /\ d - 0 = d /\ d + 1 \in Nat
        OBVIOUS
      <4> QED BY <3>1, <3>2, <4>1, PartIsWalk
    <3>4. d \in 0 .. d
      OBVIOUS
    <3>5. w[d] \in Reached(adj, s, d)
      BY <3>2, <3>3, <3>4 DEF Reached
    <3> QED BY <3>2, <3>5
  <2> QED BY <2>1, <2>2, <2>3
<1>2. Reached(adj, s, d) \subseteq Reached(adj, s, d + 1)
  <2>1. \A e \in 0 .. d : e \in 0 .. d + 1
    OBVIOUS
  <2> QED BY <2>1 DEF Reached
<1>3. ASSUME NEW a \in Reached(adj, s, d), NEW t \in adj[a] PROVE t \in Reached(adj, s, d + 1)
  <2>1. a \in DOMAIN adj /\ t \in DOMAIN adj
    BY DEF Reached
  <2>2. PICK e \in 0 .. d : Walks(adj, s, a, e) # {}
    BY DEF Reached
  <2>3. Walks(adj, a, t, 1) # {}
    BY <2>1, OneLink
  <2>4. Walks(adj, s, t, e + 1) # {}
    BY <2>2, <2>3, WalkJoined
  <2>5. e + 1 \in 0 .. d + 1
    OBVIOUS
  <2> QED BY <2>1, <2>4, <2>5 DEF Reached
<1> QED BY <1>1, <1>2, <1>3

BallSolves(f, s) ==
  f = [d \in 0 .. n |->
         IF d = 0 THEN {s}
         ELSE f[d - 1] \cup UNION {graph.adjacent[a] : a \in f[d - 1]}]

LEMMA BallIs ==
  ASSUME GraphTyped, NEW s \in Node
  PROVE  \A d \in 0 .. n : Ball(s)[d] = Reached(graph.adjacent, s, d)
<1> DEFINE adj == graph.adjacent
           r == [d \in 0 .. n |-> Reached(adj, s, d)]
           ball == Ball(s)
<1>1. n \in Nat /\ DOMAIN adj = Node /\ s \in DOMAIN adj
      /\ \A a \in DOMAIN adj : adj[a] \subseteq DOMAIN adj
  BY DEF GraphTyped
<1>2. \A d \in 1 .. n : /\ d - 1 \in Nat /\ d - 1 \in 0 .. n /\ (d - 1) + 1 = d
                        /\ d # 0 /\ d \in 0 .. n
  BY <1>1
<1>3. \A d \in 0 .. n : d # 0 => d \in 1 .. n
  BY <1>1
<1>4. Reached(adj, s, 0) = {s}
  BY <1>1, ReachedFirst
<1>5. \A d \in 1 .. n : Reached(adj, s, d)
        = Reached(adj, s, d - 1) \cup UNION {adj[a] : a \in Reached(adj, s, d - 1)}
  <2> TAKE d \in 1 .. n
  <2>1. Reached(adj, s, (d - 1) + 1)
        = Reached(adj, s, d - 1) \cup UNION {adj[a] : a \in Reached(adj, s, d - 1)}
    <3> HIDE DEF adj
    <3> QED BY <1>1, <1>2, ReachedNext
  <2> QED BY <1>2, <2>1
<1>6. BallSolves(r, s)
  <2>1. ASSUME NEW d \in 0 .. n
        PROVE  r[d] = IF d = 0 THEN {s} ELSE r[d - 1] \cup UNION {adj[a] : a \in r[d - 1]}
    <3>1. CASE d = 0
      BY <1>4, <3>1
    <3>2. CASE d # 0
      <4>1. d \in 1 .. n /\ r[d] = Reached(adj, s, d) /\ r[d - 1] = Reached(adj, s, d - 1)
        BY <1>2, <1>3, <3>2
      <4> HIDE DEF r
      <4> QED BY <1>5, <3>2, <4>1
    <3> QED BY <3>1, <3>2
  <2>2. r = [d \in 0 .. n |-> r[d]]
    OBVIOUS
  <2> HIDE DEF r
  <2> QED BY <2>1, <2>2 DEF BallSolves
<1>7. BallSolves(ball, s)
  <2>1. ball = CHOOSE f : BallSolves(f, s)
    BY DEF Ball, BallSolves
  <2> HIDE DEF r, ball
  <2> QED BY <1>6, <2>1
<1> HIDE DEF ball, r
<1>8. \A d \in 0 .. n : ball[d] = IF d = 0 THEN {s}
                                  ELSE ball[d - 1] \cup UNION {adj[a] : a \in ball[d - 1]}
  BY <1>7 DEF BallSolves
<1> HIDE DEF adj
<1> DEFINE T == {d \in 0 .. n : ball[d] = Reached(adj, s, d)}
<1>9. 0 \in T
  <2>1. 0 \in 0 .. n
    BY <1>1
  <2> QED BY <1>4, <1>8, <2>1
<1>10. ASSUME NEW d \in 1 .. n, d - 1 \in T PROVE d \in T
  <2>1. ball[d] = ball[d - 1] \cup UNION {adj[a] : a \in ball[d - 1]}
    BY <1>2, <1>8
  <2>2. ball[d] = Reached(adj, s, d)
    BY <1>5, <1>10, <2>1
  <2> QED BY <1>2, <2>2
<1>11. ASSUME NEW d \in 0 .. n PROVE d \in T
  <2>1. d \in Nat /\ \A i \in 1 .. d : i - 1 \in T => i \in T
    <3>1. d \in Nat /\ \A i \in 1 .. d : i \in 1 .. n
      BY <1>1
    <3> HIDE DEF T
    <3> QED BY <1>10, <3>1
  <2> HIDE DEF T
  <2> QED BY <1>9, <2>1, Climb
<1> QED BY <1>11 DEF ball, adj

(* The reference distance is the number of links of a shortest walk.         *)
LEMMA DistanceIs ==
  ASSUME GraphTyped, NEW s \in Node, NEW t \in Node
  PROVE  /\ \A d : Shortest(graph.adjacent, s, t, d) => Distance(s, t) = d /\ d < n
         /\ (\A d \in Nat : Walks(graph.adjacent, s, t, d) = {}) => Distance(s, t) = INF
<1> DEFINE adj == graph.adjacent
           ball == Ball(s)
           Is(d) == t \in ball[d] /\ \A e \in 0 .. d - 1 : t \notin ball[e]
<1>1. n \in Nat /\ Node = 0 .. n - 1 /\ DOMAIN adj = Node
  BY DEF GraphTyped
<1>2. \A d \in 0 .. n : t \in ball[d] <=> \E e \in 0 .. d : Walks(adj, s, t, e) # {}
  BY <1>1, BallIs DEF Reached
<1>3. Distance(s, t) = IF t \notin ball[n] THEN INF ELSE CHOOSE d \in 0 .. n : Is(d)
  BY DEF Distance
<1>4. n \in 0 .. n
  BY <1>1
<1> HIDE DEF adj, ball
<1>5. ASSUME NEW d, Shortest(adj, s, t, d) PROVE Distance(s, t) = d /\ d < n
  <2>1. d < n
    BY <1>1, <1>5, ShortestIsShort
  <2>2. /\ d \in Nat /\ Walks(adj, s, t, d) # {}
        /\ \A e \in Nat : Walks(adj, s, t, e) # {} => d <= e
    BY <1>5 DEF Shortest
  <2>3. d \in 0 .. n /\ d \in 0 .. d
    BY <1>1, <2>1, <2>2
  <2>4. ASSUME NEW e \in 0 .. n PROVE t \in ball[e] <=> d <= e
    <3>1. ASSUME t \in ball[e] PROVE d <= e
      <4>1. PICK f \in 0 .. e : Walks(adj, s, t, f) # {}
        BY <1>2, <3>1
      <4>2. f \in Nat /\ d <= f
        BY <2>2, <4>1
      <4> QED BY <2>2, <4>1, <4>2
    <3>2. ASSUME d <= e PROVE t \in ball[e]
      <4>1. d \in 0 .. e
        BY <2>2, <3>2
      <4> QED BY <1>2, <2>2, <4>1
    <3> QED BY <3>1, <3>2
  <2>5. Is(d)
    <3>1. \A e \in 0 .. d - 1 : e \in 0 .. n /\ ~(d <= e)
      BY <1>1, <2>1, <2>2
    <3> QED BY <2>2, <2>3, <2>4, <3>1
  <2>6. ASSUME NEW e \in 0 .. n, Is(e) PROVE e = d
    <3>1. d <= e
      BY <2>4, <2>6
    <3>2. ~(d \in 0 .. e - 1)
      <4>1. t \in ball[d]
        BY <2>5
      <4> QED BY <2>6, <4>1
    <3> QED BY <2>2, <3>1, <3>2
  <2>7. t \in ball[n]
    BY <1>1, <1>4, <2>1, <2>2, <2>4
  <2> HIDE DEF Is
  <2>8. (CHOOSE e \in 0 .. n : Is(e)) = d
    BY <2>3, <2>5, <2>6
  <2> QED BY <1>3, <2>1, <2>7, <2>8
<1>6. ASSUME \A d \in Nat : Walks(adj, s, t, d) = {} PROVE Distance(s, t) = INF
  <2>1. t \notin ball[n]
    BY <1>2, <1>4, <1>6
  <2> QED BY <1>3, <2>1
<1> QED BY <1>5, <1>6 DEF adj

-----------------------------------------------------------------------------
(* The three loops as one counter.                                           *)

(* The iteration with indices k, i and j.                                    *)
Iteration(k, i, j) == (k * n + i) * n + j

LEMMA TripleIs ==
  ASSUME n \in Nat \ {0}, NEW k \in Nat, NEW i \in 0 .. n - 1, NEW j \in 0 .. n - 1
  PROVE  /\ Iteration(k, i, j) \in Nat
         /\ Triple(Iteration(k, i, j)) = [k |-> k, i |-> i, j |-> j]
<1> DEFINE m == n
           q == k * m + i
           c == q * m + j
<1>1. m \in Nat \ {0} /\ i \in 0 .. m - 1 /\ j \in 0 .. m - 1
  OBVIOUS
<1> HIDE DEF m
<1>2. k * m \in Nat /\ q \in Nat
  BY <1>1
<1>3. q \div m = k /\ q % m = i
  BY <1>1, DivisionIs
<1> HIDE DEF q
<1>4. q * m \in Nat /\ c \in Nat
  BY <1>1, <1>2
<1>5. c \div m = q /\ c % m = j
  BY <1>1, <1>2, DivisionIs
<1> DEFINE s == m * m
           r == i * m + j
<1>6. c = k * s + r
  <2>1. q * m = k * (m * m) + i * m
    BY <1>1 DEF q
  <2> QED BY <1>1, <2>1
<1>7. s \in Nat \ {0}
  <2>1. m * m \in Nat
    BY <1>1
  <2>2. m * m # 0
    BY <1>1
  <2> QED BY <2>1, <2>2
<1>8. r \in 0 .. s - 1
  <2>1. i * m \in Nat
    BY <1>1
  <2>2. i + 1 <= m
    BY <1>1
  <2>3. (i + 1) * m <= m * m
    BY <1>1, <2>2
  <2>4. (i + 1) * m = i * m + m
    BY <1>1
  <2> QED BY <1>1, <2>1, <2>3, <2>4
<1>9. c \div s = k
  <2> HIDE DEF s, r, c
  <2> QED BY <1>6, <1>7, <1>8, DivisionIs
<1> HIDE DEF c
<1>10. c = Iteration(k, i, j)
  BY DEF c, q, m, Iteration
<1>11. Triple(c) = [k |-> c \div (m * m), i |-> (c \div m) % m, j |-> c % m]
  BY DEF Triple, m
<1> QED BY <1>3, <1>4, <1>5, <1>9, <1>10, <1>11

(* Every iteration is one of the loops, and the next one follows it.         *)
LEMMA IterationExists ==
  ASSUME n \in Nat, NEW c \in 0 .. n * n * n - 1
  PROVE  /\ n # 0
         /\ \E k \in 0 .. n - 1 : \E i \in 0 .. n - 1 : \E j \in 0 .. n - 1 :
              c = Iteration(k, i, j)
<1> DEFINE m == n
<1>1. m \in Nat /\ c \in Nat /\ c < m * m * m
  <2>1. n * n * n \in Nat
    OBVIOUS
  <2> QED BY <2>1
<1> HIDE DEF m
<1>2. m # 0
  BY <1>1
<1> DEFINE q == c \div m
           j == c % m
           k == q \div m
           i == q % m
<1>3. c = m * q + j /\ q \in Nat /\ j \in 0 .. m - 1
  BY <1>1, <1>2
<1> HIDE DEF q, j
<1>4. q = m * k + i /\ k \in Nat /\ i \in 0 .. m - 1
  BY <1>1, <1>2, <1>3
<1> HIDE DEF k, i
<1>5. c = (k * m + i) * m + j
  <2>1. m * k = k * m /\ m * q = q * m
    BY <1>1, <1>3, <1>4
  <2> QED BY <1>3, <1>4, <2>1
<1>6. k < m
  <2> SUFFICES ASSUME m <= k PROVE FALSE
    BY <1>1, <1>4
  <2>1. m * m <= k * m
    BY <1>1, <1>4
  <2>2. k * m \in Nat /\ m * m \in Nat /\ (k * m + i) \in Nat
    BY <1>1, <1>4
  <2>3. m * m <= k * m + i
    BY <1>4, <2>1, <2>2
  <2>4. (m * m) * m <= (k * m + i) * m
    BY <1>1, <2>2, <2>3
  <2>5. (k * m + i) * m \in Nat /\ (m * m) * m = m * m * m /\ (m * m) * m \in Nat
    BY <1>1, <2>2
  <2> QED BY <1>1, <1>3, <1>5, <2>4, <2>5
<1>7. k \in 0 .. m - 1
  BY <1>1, <1>4, <1>6
<1> QED BY <1>2, <1>3, <1>4, <1>5, <1>7 DEF m, Iteration

LEMMA IterationsEnd ==
  ASSUME n \in Nat \ {0}
  PROVE  Triple(n * n * n) = [k |-> n, i |-> 0, j |-> 0] /\ Triple(0) = [k |-> 0, i |-> 0, j |-> 0]
<1>1. 0 \in 0 .. n - 1 /\ n \in Nat
  OBVIOUS
<1>2. Iteration(n, 0, 0) = n * n * n /\ Iteration(0, 0, 0) = 0
  BY DEF Iteration
<1>3. Triple(Iteration(n, 0, 0)) = [k |-> n, i |-> 0, j |-> 0]
  BY <1>1, TripleIs
<1>4. Triple(Iteration(0, 0, 0)) = [k |-> 0, i |-> 0, j |-> 0]
  BY <1>1, TripleIs
<1> QED BY <1>2, <1>3, <1>4

(* Up to which node the walks between i and j are accounted for when the      *)
(* iteration t is next: the cells before this one have had their round.      *)
Settled(t, i, j) == IF i < t.i \/ (i = t.i /\ j < t.j) THEN t.k + 1 ELSE t.k

LEMMA SettledNext ==
  ASSUME n \in Nat \ {0}, NEW c \in Nat, NEW k \in 0 .. n - 1, NEW i \in 0 .. n - 1,
         NEW j \in 0 .. n - 1, Triple(c) = [k |-> k, i |-> i, j |-> j], c = Iteration(k, i, j),
         NEW a \in 0 .. n - 1, NEW b \in 0 .. n - 1
  PROVE  Settled(Triple(c + 1), a, b)
           = IF a = i /\ b = j THEN k + 1 ELSE Settled(Triple(c), a, b)
<1> DEFINE t == Triple(c)
           s == Triple(c + 1)
<1>1. t.k = k /\ t.i = i /\ t.j = j
  OBVIOUS
<1>2. k \in Nat /\ i \in Nat /\ j \in Nat /\ a \in Nat /\ b \in Nat /\ n \in Nat
  OBVIOUS
<1>3. 0 \in 0 .. n - 1
  OBVIOUS
<1>4. CASE j + 1 < n
  <2>1. c + 1 = Iteration(k, i, j + 1)
    <3>1. (k * n + i) * n \in Nat
      BY <1>2
    <3> QED BY <1>2, <3>1 DEF Iteration
  <2>2. j + 1 \in 0 .. n - 1
    BY <1>4
  <2>3. s = [k |-> k, i |-> i, j |-> j + 1]
    BY <1>2, <2>1, <2>2, TripleIs
  <2>4. s.k = k /\ s.i = i /\ s.j = j + 1
    BY <2>3
  <2> HIDE DEF t, s
  <2>5. Settled(s, a, b) = IF a = i /\ b = j THEN k + 1 ELSE Settled(t, a, b)
    BY <1>1, <1>2, <2>4 DEF Settled
  <2> QED BY <2>5 DEF t, s
<1>5. CASE j + 1 = n /\ i + 1 < n
  <2>1. c + 1 = Iteration(k, i + 1, 0)
    <3>1. (k * n + (i + 1)) * n = (k * n + i) * n + n /\ (k * n + i) * n \in Nat
      BY <1>2
    <3> QED BY <1>2, <1>5, <3>1 DEF Iteration
  <2>2. i + 1 \in 0 .. n - 1
    BY <1>5
  <2>3. s = [k |-> k, i |-> i + 1, j |-> 0]
    BY <1>2, <1>3, <2>1, <2>2, TripleIs
  <2>4. s.k = k /\ s.i = i + 1 /\ s.j = 0
    BY <2>3
  <2> HIDE DEF t, s
  <2>5. Settled(s, a, b) = IF a = i /\ b = j THEN k + 1 ELSE Settled(t, a, b)
    BY <1>1, <1>2, <1>5, <2>4 DEF Settled
  <2> QED BY <2>5 DEF t, s
<1>6. CASE j + 1 = n /\ i + 1 = n
  <2>1. c + 1 = Iteration(k + 1, 0, 0)
    <3>1. (k * n + i) + 1 = (k + 1) * n
      BY <1>2, <1>6
    <3>2. k * n \in Nat /\ (k * n + i) \in Nat
      BY <1>2
    <3>3. ((k * n + i) + 1) * n = (k * n + i) * n + n /\ (k * n + i) * n \in Nat
      BY <1>2, <3>2
    <3>4. c + 1 = ((k + 1) * n) * n
      BY <1>2, <1>6, <3>1, <3>3 DEF Iteration
    <3>5. (k + 1) * n \in Nat /\ ((k + 1) * n) * n \in Nat
      BY <1>2
    <3> QED BY <3>4, <3>5 DEF Iteration
  <2>2. s = [k |-> k + 1, i |-> 0, j |-> 0]
    BY <1>2, <1>3, <2>1, TripleIs
  <2>3. s.k = k + 1 /\ s.i = 0 /\ s.j = 0
    BY <2>2
  <2>4. a < i \/ (a = i /\ b < j) \/ (a = i /\ b = j)
    BY <1>6
  <2> HIDE DEF t, s
  <2>5. Settled(s, a, b) = IF a = i /\ b = j THEN k + 1 ELSE Settled(t, a, b)
    BY <1>1, <1>2, <2>3, <2>4 DEF Settled
  <2> QED BY <2>5 DEF t, s
<1>7. (j + 1 < n \/ j + 1 = n) /\ (i + 1 < n \/ i + 1 = n)
  OBVIOUS
<1> QED BY <1>4, <1>5, <1>6, <1>7

-----------------------------------------------------------------------------
(* The matrix m, when the iteration t is next: a distance below INF is that   *)
(* of a walk, and no walk that is accounted for is shorter.                  *)

DistTyped(adj, m) == m \in [DOMAIN adj -> [DOMAIN adj -> 0 .. INF]]

DistSound(adj, m) ==
  \A i, j \in DOMAIN adj : m[i][j] < INF => Walks(adj, i, j, m[i][j]) # {}

DistSettled(adj, m, t) ==
  \A i, j \in DOMAIN adj : \A d \in Nat : \A w \in Walks(adj, i, j, d) :
     Inside(w, d, Settled(t, i, j)) => m[i][j] <= d

Relaxed(m, t) ==
  LET via == m[t.i][t.k] + m[t.k][t.j]
  IN  IF m[t.i][t.j] > via THEN [m EXCEPT ![t.i][t.j] = via] ELSE m

(* Only the cell of the iteration changes, to the smaller of two distances.   *)
CellRelaxed(adj, m, new, k, i, j) ==
  /\ DistTyped(adj, new)
  /\ \A a, b \in DOMAIN adj : a # i \/ b # j => new[a][b] = m[a][b]
  /\ new[i][j] <= m[i][j] /\ new[i][j] <= m[i][k] + m[k][j]
  /\ new[i][j] \in {m[i][j], m[i][k] + m[k][j]}

LEMMA RelaxedIs ==
  ASSUME INF \in Nat, NEW adj, NEW m, DistTyped(adj, m), NEW i \in DOMAIN adj, NEW j \in DOMAIN adj,
         NEW k \in DOMAIN adj, NEW t, t = [k |-> k, i |-> i, j |-> j]
  PROVE  CellRelaxed(adj, m, Relaxed(m, t), k, i, j)
<1> DEFINE via == m[i][k] + m[k][j]
           new == Relaxed(m, t)
           D == DOMAIN adj
<1>1. /\ m \in [D -> [D -> 0 .. INF]] /\ m[i] \in [D -> 0 .. INF] /\ m[i][j] \in 0 .. INF
      /\ m[i][k] \in 0 .. INF /\ m[k][j] \in 0 .. INF
  BY DEF DistTyped
<1>2. new = IF m[i][j] > via THEN [m EXCEPT ![i][j] = via] ELSE m
  BY DEF Relaxed
<1>3. via \in Nat /\ INF \in Nat
  BY <1>1
<1> HIDE DEF via, new, D
<1>4. CASE m[i][j] > via
  <2>1. via \in 0 .. INF
    BY <1>1, <1>3, <1>4
  <2>2. new = [m EXCEPT ![i] = [m[i] EXCEPT ![j] = via]]
    BY <1>2, <1>4
  <2>3. [m[i] EXCEPT ![j] = via] \in [D -> 0 .. INF]
    BY <1>1, <2>1
  <2>4. new \in [D -> [D -> 0 .. INF]]
    BY <1>1, <2>2, <2>3
  <2>5. new[i] = [m[i] EXCEPT ![j] = via]
    BY <1>1, <2>2 DEF D
  <2>6. new[i][j] = via
    BY <1>1, <2>5 DEF D
  <2>7. \A a, b \in D : a # i \/ b # j => new[a][b] = m[a][b]
    BY <1>1, <2>2, <2>5
  <2>8. new[i][j] <= m[i][j] /\ new[i][j] <= via /\ new[i][j] \in {m[i][j], via}
    BY <1>1, <1>3, <1>4, <2>6
  <2> QED BY <2>4, <2>7, <2>8 DEF DistTyped, D, via, new, CellRelaxed
<1>5. CASE ~(m[i][j] > via)
  <2>1. new = m /\ m[i][j] <= via /\ m[i][j] <= m[i][j]
    BY <1>1, <1>2, <1>3, <1>5
  <2> QED BY <2>1 DEF DistTyped, via, new, CellRelaxed
<1> QED BY <1>4, <1>5

(* One iteration, in place: whether the two cells it reads have had their     *)
(* round makes no difference.                                                *)
LEMMA RelaxedSound ==
  ASSUME INF \in Nat, n \in Nat \ {0}, NEW adj, DOMAIN adj = 0 .. n - 1, NEW m, DistTyped(adj, m),
         DistSound(adj, m), NEW c \in 0 .. n * n * n - 1, DistSettled(adj, m, Triple(c))
  PROVE  /\ DistTyped(adj, Relaxed(m, Triple(c)))
         /\ DistSound(adj, Relaxed(m, Triple(c)))
         /\ DistSettled(adj, Relaxed(m, Triple(c)), Triple(c + 1))
<1> DEFINE t == Triple(c)
           s == Triple(c + 1)
           new == Relaxed(m, t)
<1>1. c \in Nat
  OBVIOUS
<1>2. PICK k \in 0 .. n - 1 : \E i \in 0 .. n - 1 : \E j \in 0 .. n - 1 : c = Iteration(k, i, j)
  BY IterationExists
<1>3. PICK i \in 0 .. n - 1 : \E j \in 0 .. n - 1 : c = Iteration(k, i, j)
  BY <1>2
<1>4. PICK j \in 0 .. n - 1 : c = Iteration(k, i, j)
  BY <1>3
<1>5. t = [k |-> k, i |-> i, j |-> j] /\ k \in Nat
  BY <1>4, TripleIs
<1>6. i \in DOMAIN adj /\ j \in DOMAIN adj /\ k \in DOMAIN adj
  OBVIOUS
<1>7. \A a, b \in DOMAIN adj : Settled(s, a, b) = IF a = i /\ b = j THEN k + 1 ELSE Settled(t, a, b)
  BY <1>1, <1>4, <1>5, SettledNext
<1>8. \A a, b \in DOMAIN adj : m[a][b] \in Nat /\ m[a][b] <= INF
  BY DEF DistTyped
<1>9. Settled(t, i, j) = k /\ Settled(t, i, k) \in {k, k + 1} /\ Settled(t, k, j) \in {k, k + 1}
  <2>1. t.k = k /\ t.i = i /\ t.j = j /\ ~(i < i) /\ ~(j < j)
    BY <1>5
  <2> HIDE DEF t
  <2> QED BY <2>1 DEF Settled
<1>10. DistSettled(adj, m, t)
  OBVIOUS
<1> HIDE DEF t, s
<1>11. /\ DistTyped(adj, new)
       /\ \A a, b \in DOMAIN adj : a # i \/ b # j => new[a][b] = m[a][b]
       /\ new[i][j] <= m[i][j] /\ new[i][j] <= m[i][k] + m[k][j]
       /\ new[i][j] \in {m[i][j], m[i][k] + m[k][j]}
  <2>1. CellRelaxed(adj, m, Relaxed(m, t), k, i, j)
    BY <1>5, <1>6, RelaxedIs, Zenon
  <2> QED BY <2>1 DEF CellRelaxed
<1> HIDE DEF new
<1>12. new[i][j] \in Nat
  BY <1>6, <1>8, <1>11
<1>13. DistSound(adj, new)
  <2> SUFFICES ASSUME NEW a \in DOMAIN adj, NEW b \in DOMAIN adj, new[a][b] < INF
               PROVE  Walks(adj, a, b, new[a][b]) # {}
    BY DEF DistSound
  <2>1. CASE new[a][b] = m[a][b]
    BY <2>1 DEF DistSound
  <2>2. CASE new[a][b] # m[a][b]
    <3>1. a = i /\ b = j /\ new[i][j] = m[i][k] + m[k][j]
      BY <1>11, <2>2
    <3>2. m[i][k] < INF /\ m[k][j] < INF /\ m[i][k] \in Nat /\ m[k][j] \in Nat
      BY <1>6, <1>8, <3>1
    <3>3. Walks(adj, i, k, m[i][k]) # {} /\ Walks(adj, k, j, m[k][j]) # {}
      BY <1>6, <3>2 DEF DistSound
    <3>4. Walks(adj, i, j, m[i][k] + m[k][j]) # {}
      BY <3>2, <3>3, WalkJoined
    <3> QED BY <3>1, <3>4
  <2> QED BY <2>1, <2>2
<1>14. DistSettled(adj, new, s)
  <2> SUFFICES ASSUME NEW a \in DOMAIN adj, NEW b \in DOMAIN adj, NEW d \in Nat,
                      NEW w \in Walks(adj, a, b, d), Inside(w, d, Settled(s, a, b))
               PROVE  new[a][b] <= d
    BY DEF DistSettled
  <2>1. CASE a # i \/ b # j
    BY <1>7, <1>10, <1>11, <2>1 DEF DistSettled
  <2>2. CASE a = i /\ b = j
    <3>1. Inside(w, d, k + 1)
      BY <1>7, <2>2
    <3>2. CASE Inside(w, d, k)
      <4>1. m[i][j] <= d
        BY <1>9, <1>10, <2>2, <3>2 DEF DistSettled
      <4> QED BY <1>6, <1>8, <1>11, <1>12, <2>2, <4>1
    <3>3. CASE ~Inside(w, d, k)
      <4>1. DOMAIN adj \subseteq Nat
        OBVIOUS
      <4>2. PICK x \in Nat : \E y \in Nat :
               /\ x + y <= d
               /\ \E u \in Walks(adj, i, k, x) : Inside(u, x, k)
               /\ \E v \in Walks(adj, k, j, y) : Inside(v, y, k)
        BY <1>5, <2>2, <3>1, <3>3, <4>1, WalkSplit
      <4>3. PICK y \in Nat : /\ x + y <= d
                             /\ \E u \in Walks(adj, i, k, x) : Inside(u, x, k)
                             /\ \E v \in Walks(adj, k, j, y) : Inside(v, y, k)
        BY <4>2
      <4>4. PICK u \in Walks(adj, i, k, x) : Inside(u, x, k)
        BY <4>3
      <4>5. PICK v \in Walks(adj, k, j, y) : Inside(v, y, k)
        BY <4>3
      <4>6. m[i][k] <= x
        <5>1. \A e \in 0 .. x : u[e] \in Nat
          BY <4>1, WalkIs
        <5>2. Inside(u, x, Settled(t, i, k))
          BY <1>5, <1>9, <4>4, <5>1 DEF Inside
        <5> QED BY <1>6, <1>10, <5>2 DEF DistSettled
      <4>7. m[k][j] <= y
        <5>1. \A e \in 0 .. y : v[e] \in Nat
          BY <4>1, WalkIs
        <5>2. Inside(v, y, Settled(t, k, j))
          BY <1>5, <1>9, <4>5, <5>1 DEF Inside
        <5> QED BY <1>6, <1>10, <5>2 DEF DistSettled
      <4>8. m[i][k] \in Nat /\ m[k][j] \in Nat
        BY <1>6, <1>8
      <4>9. x + y <= d /\ new[i][j] <= m[i][k] + m[k][j]
        BY <1>11, <4>3
      <4>10. new[i][j] <= d
        BY <1>12, <4>6, <4>7, <4>8, <4>9
      <4> QED BY <2>2, <4>10
    <3> QED BY <3>2, <3>3
  <2> QED BY <2>1, <2>2
<1> QED BY <1>11, <1>13, <1>14 DEF t, s, new

(* The matrix before the loops knows the walks with no node in between.      *)
FirstDistances(adj) ==
  [i \in DOMAIN adj |-> [j \in DOMAIN adj |->
     IF i = j THEN 0 ELSE IF j \in adj[i] THEN 1 ELSE INF]]

LEMMA StartSound ==
  ASSUME INF \in Nat, INF > 0, n \in Nat, NEW adj, DOMAIN adj = 0 .. n - 1
  PROVE  /\ DistTyped(adj, FirstDistances(adj)) /\ DistSound(adj, FirstDistances(adj))
         /\ DistSettled(adj, FirstDistances(adj), Triple(0))
<1> DEFINE m == FirstDistances(adj)
<1>1. \A i, j \in DOMAIN adj : m[i][j] = IF i = j THEN 0 ELSE IF j \in adj[i] THEN 1 ELSE INF
  BY DEF FirstDistances
<1>2. DistTyped(adj, m)
  <2>1. 0 \in 0 .. INF /\ 1 \in 0 .. INF /\ INF \in 0 .. INF
    OBVIOUS
  <2>2. \A i, j \in DOMAIN adj : (IF i = j THEN 0 ELSE IF j \in adj[i] THEN 1 ELSE INF) \in 0 .. INF
    BY <2>1
  <2> QED BY <2>2 DEF DistTyped, FirstDistances
<1> HIDE DEF m
<1>3. DistSound(adj, m)
  <2> SUFFICES ASSUME NEW i \in DOMAIN adj, NEW j \in DOMAIN adj, m[i][j] < INF
               PROVE  Walks(adj, i, j, m[i][j]) # {}
    BY DEF DistSound
  <2>1. CASE i = j
    BY <1>1, <2>1, StandStill
  <2>2. CASE i # j /\ j \in adj[i]
    BY <1>1, <2>2, OneLink
  <2> QED BY <1>1, <2>1, <2>2
<1>4. DistSettled(adj, m, Triple(0))
  <2> SUFFICES ASSUME NEW i \in DOMAIN adj, NEW j \in DOMAIN adj, NEW d \in Nat,
                      NEW w \in Walks(adj, i, j, d), Inside(w, d, Settled(Triple(0), i, j))
               PROVE  m[i][j] <= d
    BY DEF DistSettled
  <2>1. Settled(Triple(0), i, j) = 0
    <3>1. n \in Nat \ {0} /\ i \in Nat /\ j \in Nat
      OBVIOUS
    <3>2. Triple(0) = [k |-> 0, i |-> 0, j |-> 0]
      BY <3>1, IterationsEnd
    <3> QED BY <3>1, <3>2 DEF Settled
  <2>2. w[0] = i /\ w[d] = j
    BY WalkIs
  <2>3. \A e \in 0 .. d : w[e] \in DOMAIN adj
    BY WalkIs
  <2>4. \A e \in 1 .. d : w[e] \in adj[w[e - 1]]
    BY WalkIs
  <2>5. d <= 1
    <3> SUFFICES ASSUME d > 1 PROVE FALSE
      OBVIOUS
    <3>1. 1 \in 1 .. d - 1 /\ 1 \in 0 .. d
      OBVIOUS
    <3>2. w[1] < 0 /\ w[1] \in 0 .. n - 1
      BY <2>1, <2>3, <3>1 DEF Inside
    <3> QED BY <3>2
  <2>6. CASE d = 0
    BY <1>1, <2>2, <2>6
  <2>7. CASE d = 1
    <3>1. 1 \in 1 .. d /\ 1 - 1 = 0
      BY <2>7
    <3>2. j \in adj[i]
      BY <2>2, <2>4, <2>7, <3>1
    <3> QED BY <1>1, <2>7, <3>2
  <2> QED BY <2>5, <2>6, <2>7
<1> QED BY <1>2, <1>3, <1>4 DEF m

(* After the last iteration every walk is accounted for.                      *)
LEMMA EndExact ==
  ASSUME INF \in Nat, GraphTyped, n < INF, NEW m, DistTyped(graph.adjacent, m),
         DistSound(graph.adjacent, m), DistSettled(graph.adjacent, m, Triple(n * n * n))
  PROVE  \A i, j \in Node : m[i][j] = Distance(i, j)
<1> SUFFICES ASSUME NEW i \in Node, NEW j \in Node PROVE m[i][j] = Distance(i, j)
  OBVIOUS
<1> DEFINE adj == graph.adjacent
           t == Triple(n * n * n)
<1>1. n \in Nat /\ Node = 0 .. n - 1 /\ DOMAIN adj = Node
  BY DEF GraphTyped
<1>2. m[i][j] \in Nat /\ m[i][j] <= INF
  BY <1>1 DEF DistTyped
<1>3. t.k = n /\ t.i = 0 /\ t.j = 0
  <2>1. n \in Nat \ {0}
    BY <1>1
  <2>2. t = [k |-> n, i |-> 0, j |-> 0]
    BY <2>1, IterationsEnd
  <2> QED BY <2>2
<1>4. DistSound(adj, m) /\ DistSettled(adj, m, t)
  OBVIOUS
<1> HIDE DEF t, adj
<1>5. ASSUME NEW d \in Nat, NEW w \in Walks(adj, i, j, d) PROVE m[i][j] <= d
  <2>1. i \in Nat /\ j \in Nat
    BY <1>1
  <2>2. Settled(t, i, j) = n
    BY <1>3, <2>1 DEF Settled
  <2>3. \A e \in 0 .. d : w[e] \in 0 .. n - 1
    BY <1>1, WalkIs
  <2>4. Inside(w, d, n)
    BY <1>1, <2>3 DEF Inside
  <2> QED BY <1>1, <1>4, <2>2, <2>4 DEF DistSettled
<1>6. CASE m[i][j] < INF
  <2>1. Walks(adj, i, j, m[i][j]) # {}
    BY <1>1, <1>4, <1>6 DEF DistSound
  <2>2. Shortest(adj, i, j, m[i][j])
    BY <1>2, <1>5, <2>1 DEF Shortest
  <2> QED BY <2>2, DistanceIs DEF adj
<1>7. CASE ~(m[i][j] < INF)
  <2>1. ASSUME NEW d \in Nat, Walks(adj, i, j, d) # {} PROVE FALSE
    <3>1. PICK e \in Nat : Shortest(adj, i, j, e)
      BY <2>1, ShortestExists
    <3>2. e < n
      BY <1>1, <3>1, ShortestIsShort
    <3>3. PICK w : w \in Walks(adj, i, j, e)
      BY <3>1 DEF Shortest
    <3>4. m[i][j] <= e
      BY <1>5, <3>3
    <3> QED BY <1>1, <1>2, <1>7, <3>2, <3>4
  <2>2. Distance(i, j) = INF
    BY <2>1, DistanceIs DEF adj
  <2> QED BY <1>2, <1>7, <2>2
<1> QED BY <1>6, <1>7

-----------------------------------------------------------------------------
(* What the graph parser lets through.                                       *)

LEMMA TokenIs ==
  ASSUME NEW t \in Token, IsInt64(t)
  PROVE  Int64(t) \in Int /\ (IsPositive(t) => Int64(t) \in Nat)
<1>1. t \in Int \X Nat
  BY DEF Token, IsInt64
<1>2. t[1] \in Int
  BY <1>1
<1> QED BY <1>2 DEF Int64, IsPositive

(* The checks that the graph has passed, and the graph they have passed on.   *)
GraphRead ==
  /\ \A k \in GraphKeys : HasParam(input.config, k)
  /\ IsPositive(Plain("num_nodes")) /\ IsPositive(Plain("num_undirected_edges"))
  /\ ParsesAsGraph /\ Hierarchy /\ AssignmentMatches
  /\ graph = [numNodes |-> Int64(Plain("num_nodes")),
              switches |-> NodeSet("switches"),
              tors     |-> NodeSet("switches_which_are_tors"),
              servers  |-> NodeSet("servers"),
              edges    |-> Sorted(EdgeSet),
              adjacent |-> [a \in 0 .. Int64(Plain("num_nodes")) - 1 |-> Neighbours(a)]]

LEMMA GraphFields ==
  ASSUME GraphRead
  PROVE  /\ n = Int64(Plain("num_nodes")) /\ graph.switches = NodeSet("switches")
         /\ graph.tors = NodeSet("switches_which_are_tors") /\ graph.servers = NodeSet("servers")
         /\ graph.edges = Sorted(EdgeSet)
         /\ graph.adjacent = [a \in 0 .. n - 1 |-> Neighbours(a)]
BY DEF GraphRead, n

LEMMA NumbersRead ==
  ASSUME input \in Input, GraphRead
  PROVE  /\ n \in Nat
         /\ \A k \in NodeSetKeys : Param(k).items \in Seq(Token)
         /\ Param("undirected_edges").items \in Seq(Seq(Token))
<1>1. IsRead(input.config)
  BY InputAssumption
<1>2. GraphKeys \subseteq DOMAIN input.config
  BY DEF GraphRead, HasParam
<1>3. Plain("num_nodes") \in Token
  BY <1>1, <1>2 DEF IsRead, GraphKeys, Plain, Param
<1>4. IsPositive(Plain("num_nodes")) /\ IsInt64(Plain("num_nodes"))
  BY DEF GraphRead, IsPositive
<1>5. n \in Nat
  BY <1>3, <1>4, TokenIs, GraphFields
<1>6. \A k \in NodeSetKeys : Param(k).items \in Seq(Token)
  BY <1>1, <1>2 DEF IsRead, GraphKeys, Param
<1>7. Param("undirected_edges").items \in Seq(Seq(Token))
  BY <1>1, <1>2 DEF IsRead, GraphKeys, Param
<1> QED BY <1>5, <1>6, <1>7

LEMMA NodesAre ==
  ASSUME input \in Input
  PROVE  Node = 0 .. n - 1
BY DEF Node, n

LEMMA NodeSetsRead ==
  ASSUME input \in Input, GraphRead, NEW k \in NodeSetKeys
  PROVE  NodeSet(k) \subseteq Node /\ IsFiniteSet(NodeSet(k))
<1>1. n \in Nat /\ Param(k).items \in Seq(Token)
  BY NumbersRead
<1>2. IsSetPositiveInt64(Param(k)) /\ AllItemsAreLessThan(NodeSet(k), n)
  BY GraphFields DEF GraphRead, ParsesAsGraph
<1>3. ASSUME NEW x \in NodeSet(k) PROVE x \in 0 .. n - 1
  <2>1. PICK t \in Range(Param(k).items) : x = Int64(t)
    BY DEF NodeSet, SetPositiveInt64
  <2>2. t \in Token
    BY <1>1 DEF Range
  <2>3. IsPositive(t) /\ IsInt64(t)
    BY <1>2 DEF IsSetPositiveInt64, IsPositive
  <2>4. x \in Nat
    BY <2>1, <2>2, <2>3, TokenIs
  <2>5. x < n
    BY <1>2 DEF AllItemsAreLessThan
  <2> QED BY <1>1, <2>4, <2>5
<1>4. IsFiniteSet(0 .. n - 1)
  BY <1>1, FS_Interval
<1>5. NodeSet(k) \in SUBSET (0 .. n - 1)
  BY <1>3
<1> QED BY <1>4, <1>5, FS_Subset, NodesAre

(* Every undirected edge is read once, its smaller node first.               *)
Upward == {e \in Node \X Node : e[1] < e[2]}

LEMMA EdgesRead ==
  ASSUME input \in Input, GraphRead
  PROVE  EdgeSet \subseteq Upward /\ IsFiniteSet(EdgeSet)
<1> DEFINE listed == Param("undirected_edges")
<1>1. n \in Nat /\ Node = 0 .. n - 1 /\ listed.items \in Seq(Seq(Token))
  BY NumbersRead, NodesAre
<1>2. \A s \in Range(listed.items) : IsEdge(s, n)
  BY GraphFields DEF GraphRead, ParsesAsGraph
<1>3. ASSUME NEW s \in Range(listed.items) PROVE Pair(s) \in Upward
  <2>1. s \in Seq(Token)
    BY <1>1 DEF Range
  <2>2. Len(s) = 2 /\ IsPositive(s[1]) /\ IsPositive(s[2])
    BY <1>2 DEF IsEdge, IsPair, IsSplitInTwo
  <2>3. s[1] \in Token /\ s[2] \in Token
    <3>1. 1 \in 1 .. Len(s) /\ 2 \in 1 .. Len(s)
      BY <2>2
    <3> QED BY <2>1, <3>1, ElementOfSeq
  <2>4. Int64(s[1]) \in Nat /\ Int64(s[2]) \in Nat
    BY <2>2, <2>3, TokenIs DEF IsPositive
  <2>5. Pair(s)[1] = Int64(s[1]) /\ Pair(s)[2] = Int64(s[2])
    BY DEF Pair
  <2>6. /\ Pair(s)[1] # Pair(s)[2] /\ Pair(s)[1] < n /\ Pair(s)[2] < n
        /\ ~(Pair(s)[2] < Pair(s)[1])
    BY <1>2 DEF IsEdge
  <2>7. Int64(s[1]) \in Node /\ Int64(s[2]) \in Node /\ Int64(s[1]) < Int64(s[2])
    BY <1>1, <2>4, <2>5, <2>6
  <2> QED BY <2>7 DEF Upward, Pair
<1>4. EdgeSet \subseteq Upward
  BY <1>3 DEF EdgeSet
<1>5. IsFiniteSet(Node \X Node)
  <2>1. IsFiniteSet(Node)
    BY <1>1, FS_Interval
  <2> QED BY <2>1, FS_Product
<1>6. EdgeSet \in SUBSET (Node \X Node)
  BY <1>4 DEF Upward
<1> QED BY <1>4, <1>5, <1>6, FS_Subset

(* std::sort on the edges: every edge has its place.                         *)
LEMMA SortedIs ==
  ASSUME NEW E, E \subseteq Int \X Int, IsFiniteSet(E)
  PROVE  /\ Cardinality(E) \in Nat /\ Sorted(E) \in [1 .. Cardinality(E) -> E]
         /\ \A e \in E : \E i \in 1 .. Cardinality(E) : Sorted(E)[i] = e
         /\ \A i, j \in 1 .. Cardinality(E) : Sorted(E)[i] = Sorted(E)[j] => i = j
<1> DEFINE num == Cardinality(E)
           Below(e) == {f \in E : Before(f, e)}
           rank == [e \in E |-> Cardinality(Below(e)) + 1]
<1>1. num \in Nat
  BY FS_CardinalityType
<1>2. \A e \in E : IsFiniteSet(Below(e)) /\ Cardinality(Below(e)) \in Nat
  BY FS_Subset, FS_CardinalityType
<1>3. \A e \in E : e = <<e[1], e[2]>> /\ e[1] \in Int /\ e[2] \in Int
  OBVIOUS
<1>4. /\ \A e, f \in E : Before(e, f) \/ Before(f, e) \/ e = f
      /\ \A e, f, g \in E : Before(e, f) /\ Before(f, g) => Before(e, g)
      /\ \A e \in E : ~Before(e, e)
  <2>1. ASSUME NEW e \in E, NEW f \in E PROVE Before(e, f) \/ Before(f, e) \/ e = f
    BY <1>3 DEF Before
  <2>2. ASSUME NEW e \in E, NEW f \in E, NEW g \in E, Before(e, f), Before(f, g)
        PROVE  Before(e, g)
    BY <1>3, <2>2 DEF Before
  <2>3. ASSUME NEW e \in E PROVE ~Before(e, e)
    BY <1>3 DEF Before
  <2> QED BY <2>1, <2>2, <2>3
<1>5. ASSUME NEW e \in E, NEW f \in E, Before(e, f) PROVE rank[e] < rank[f]
  <2>1. Below(e) \cup {e} \in SUBSET Below(f) /\ e \notin Below(e)
    BY <1>4, <1>5
  <2>2. Cardinality(Below(e) \cup {e}) = Cardinality(Below(e)) + 1
    <3> HIDE DEF Below
    <3> QED BY <1>2, <2>1, FS_AddElement
  <2>3. Cardinality(Below(e) \cup {e}) <= Cardinality(Below(f))
    <3> HIDE DEF Below
    <3> QED BY <1>2, <2>1, FS_Subset
  <2> QED BY <1>2, <2>2, <2>3
<1>6. ASSUME NEW e \in E PROVE rank[e] \in 1 .. num
  <2>1. Below(e) \in SUBSET (E \ {e})
    BY <1>4
  <2>2. IsFiniteSet(E \ {e}) /\ Cardinality(E \ {e}) = num - 1
    BY FS_RemoveElement
  <2>3. Cardinality(Below(e)) <= num - 1
    <3> HIDE DEF Below
    <3> QED BY <2>1, <2>2, FS_Subset
  <2>4. rank[e] = Cardinality(Below(e)) + 1 /\ Cardinality(Below(e)) \in Nat
    BY <1>2
  <2> HIDE DEF rank, Below
  <2> QED BY <1>1, <2>3, <2>4
<1>7. \A e, f \in E : rank[e] = rank[f] => e = f
  <2> SUFFICES ASSUME NEW e \in E, NEW f \in E, rank[e] = rank[f] PROVE e = f
    OBVIOUS
  <2>1. rank[e] \in Int /\ rank[f] \in Int
    BY <1>1, <1>6
  <2>2. ~Before(e, f) /\ ~Before(f, e)
    <3> HIDE DEF rank
    <3> QED BY <1>5, <2>1
  <2> QED BY <1>4, <2>2
<1>8. rank \in Surjection(E, 1 .. num)
  <2>1. rank \in Injection(E, 1 .. num)
    <3>1. rank \in [E -> 1 .. num]
      BY <1>6
    <3> HIDE DEF rank
    <3> QED BY <1>7, <3>1 DEF Injection, IsInjective
  <2>2. IsFiniteSet(1 .. num) /\ Cardinality(1 .. num) = num
    BY <1>1, FS_Interval
  <2> HIDE DEF rank
  <2> QED BY <2>1, <2>2, FS_Injection
<1>9. ASSUME NEW i \in 1 .. num PROVE Sorted(E)[i] \in E /\ rank[Sorted(E)[i]] = i
  <2>1. \E e \in E : rank[e] = i
    <3> HIDE DEF rank
    <3> QED BY <1>8 DEF Surjection
  <2>2. \E e \in E : Cardinality({f \in E : Before(f, e)}) = i - 1
    <3>1. PICK e \in E : rank[e] = i
      BY <2>1
    <3>2. Cardinality(Below(e)) + 1 = i /\ Cardinality(Below(e)) \in Nat
      BY <1>2, <3>1
    <3>3. Cardinality(Below(e)) = i - 1
      BY <3>2
    <3> QED BY <3>3
  <2>3. Sorted(E)[i] = CHOOSE e \in E : Cardinality({f \in E : Before(f, e)}) = i - 1
    BY DEF Sorted
  <2>4. Sorted(E)[i] \in E /\ Cardinality({f \in E : Before(f, Sorted(E)[i])}) = i - 1
    BY <2>2, <2>3
  <2> QED BY <2>4
<1>10. Sorted(E) \in [1 .. num -> E]
  <2> DEFINE Pick(i) == CHOOSE e \in E : Cardinality({f \in E : Before(f, e)}) = i - 1
  <2>1. Sorted(E) = [i \in 1 .. num |-> Pick(i)]
    BY DEF Sorted
  <2> HIDE DEF Pick
  <2>2. \A i \in 1 .. num : Pick(i) \in E
    BY <1>9, <2>1
  <2> QED BY <2>1, <2>2
<1>11. ASSUME NEW e \in E PROVE \E i \in 1 .. num : Sorted(E)[i] = e
  <2>1. rank[e] \in 1 .. num
    BY <1>6
  <2>2. rank[Sorted(E)[rank[e]]] = rank[e] /\ Sorted(E)[rank[e]] \in E
    BY <1>9, <2>1
  <2>3. Sorted(E)[rank[e]] = e
    <3> HIDE DEF rank
    <3> QED BY <1>7, <2>2
  <2> QED BY <2>1, <2>3
<1>12. \A i, j \in 1 .. num : Sorted(E)[i] = Sorted(E)[j] => i = j
  <2> HIDE DEF rank
  <2> QED BY <1>9
<1> QED BY <1>1, <1>10, <1>11, <1>12

(* What the rest of the program relies on.                                   *)
GraphSound ==
  /\ GraphTyped
  /\ EdgeSet \subseteq Upward /\ IsFiniteSet(EdgeSet)
  /\ Len(graph.edges) \in Nat /\ graph.edges \in [1 .. Len(graph.edges) -> EdgeSet]
  /\ \A e \in EdgeSet : \E i \in 1 .. Len(graph.edges) : graph.edges[i] = e
  /\ \A i, j \in 1 .. Len(graph.edges) : graph.edges[i] = graph.edges[j] => i = j
  /\ \A a, b \in Node : Linked(a, b) <=> <<a, b>> \in EdgeSet \/ <<b, a>> \in EdgeSet
  /\ graph.switches \cup graph.servers = Node /\ graph.tors \subseteq graph.switches
  /\ \A s \in graph.servers : graph.adjacent[s] \subseteq graph.tors

LEMMA GraphIsSound ==
  ASSUME input \in Input, GraphRead
  PROVE  GraphSound
<1> DEFINE E == EdgeSet
           num == Cardinality(E)
           servers == NodeSet("servers")
           switches == NodeSet("switches")
           tors == NodeSet("switches_which_are_tors")
<1>1. n \in Nat /\ Node = 0 .. n - 1
  BY NumbersRead, NodesAre
<1>2. /\ graph.switches = switches /\ graph.tors = tors /\ graph.servers = servers
      /\ graph.edges = Sorted(E) /\ graph.adjacent = [a \in Node |-> Neighbours(a)]
      /\ n = Int64(Plain("num_nodes"))
  BY <1>1, GraphFields
<1>3. \A a \in Node : Neighbours(a) = {b \in Node : <<a, b>> \in E \/ <<b, a>> \in E}
  BY <1>1, <1>2 DEF Neighbours
<1>4. graph.adjacent \in [Node -> SUBSET Node]
  BY <1>2, <1>3
<1>5. \A a, b \in Node : Linked(a, b) <=> <<a, b>> \in E \/ <<b, a>> \in E
  BY <1>2, <1>3 DEF Linked
<1>6. E \subseteq Upward /\ IsFiniteSet(E) /\ E \subseteq Int \X Int
  <2>1. E \subseteq Upward /\ IsFiniteSet(E)
    BY EdgesRead
  <2>2. Upward \subseteq Int \X Int
    BY <1>1 DEF Upward
  <2> QED BY <2>1, <2>2
<1> HIDE DEF E
<1>7. /\ num \in Nat /\ Sorted(E) \in [1 .. num -> E]
      /\ \A e \in E : \E i \in 1 .. num : Sorted(E)[i] = e
      /\ \A i, j \in 1 .. num : Sorted(E)[i] = Sorted(E)[j] => i = j
  BY <1>6, SortedIs
<1>8. Len(graph.edges) = num
  <2> HIDE DEF num
  <2>1. Sorted(E) \in Seq(E)
    BY <1>7, SeqDef
  <2> QED BY <1>2, <1>7, <2>1, LenProperties
<1>9. /\ servers \subseteq Node /\ switches \subseteq Node /\ tors \subseteq Node
      /\ IsFiniteSet(servers) /\ IsFiniteSet(switches) /\ IsFiniteSet(tors)
  BY NodeSetsRead DEF NodeSetKeys
<1>10. /\ Cardinality(servers \cup switches) = n
       /\ Cardinality(switches \cap tors) = Cardinality(tors)
       /\ \A s \in servers : Neighbours(s) \subseteq tors
  BY <1>2 DEF GraphRead, Hierarchy
<1> HIDE DEF num, servers, switches, tors
<1>11. switches \cup servers = Node
  <2>1. IsFiniteSet(0 .. n - 1) /\ Cardinality(0 .. n - 1) = n
    <3>1. 0 \in Int /\ n - 1 \in Int /\ (IF 0 > n - 1 THEN 0 ELSE (n - 1) - 0 + 1) = n
      BY <1>1
    <3> QED BY <3>1, FS_Interval
  <2>2. servers \cup switches \in SUBSET Node
    BY <1>9
  <2>3. servers \cup switches = Node
    BY <1>1, <1>10, <2>1, <2>2, FS_Subset
  <2> QED BY <2>3
<1>12. tors \subseteq switches
  <2>1. switches \cap tors \in SUBSET tors
    OBVIOUS
  <2>2. switches \cap tors = tors
    BY <1>9, <1>10, <2>1, FS_Subset
  <2> QED BY <2>2
<1>13. \A s \in servers : graph.adjacent[s] \subseteq tors
  BY <1>2, <1>9, <1>10
<1>14. GraphTyped
  BY <1>1, <1>4 DEF GraphTyped
<1> QED BY <1>2, <1>5, <1>6, <1>7, <1>8, <1>11, <1>12, <1>13, <1>14 DEF GraphSound, E

-----------------------------------------------------------------------------
(* The steps of the constructor.                                             *)

LEMMA StepsAre ==
  /\ Steps[1] = "config" /\ Steps[2] = "graph" /\ Steps[3] = Delay /\ Steps[4] = Rate
  /\ Steps[5] = Queue /\ Steps[6] = Error /\ Steps[7] = Qdisc /\ Steps[8] = "nodes"
  /\ Steps[9] = "links" /\ Steps[10] = "ready"
BY DEF Steps, Properties

LEMMA AtIs ==
  ASSUME step \in 0 .. 10
  PROVE  /\ At("config") <=> step = 1
         /\ At("graph") <=> step = 2
         /\ \A i \in 1 .. 5 : At(Properties[i]) <=> step = 2 + i
         /\ At("nodes") <=> step = 8
         /\ At("links") <=> step = 9
         /\ At("ready") <=> step = 10
<1>1. step \in {0, 1, 2, 3, 4, 5, 6, 7, 8, 9, 10}
  OBVIOUS
<1>2. At("config") <=> step = 1
  BY <1>1, StepsAre DEF At, Thrown, Delay, Rate, Queue, Error, Qdisc
<1>3. At("graph") <=> step = 2
  BY <1>1, StepsAre DEF At, Thrown, Delay, Rate, Queue, Error, Qdisc
<1>4. \A i \in 1 .. 5 : At(Properties[i]) <=> step = 2 + i
  <2> TAKE i \in 1 .. 5
  <2>1. i \in {1, 2, 3, 4, 5}
    OBVIOUS
  <2> QED BY <1>1, <2>1, StepsAre DEF At, Thrown, Properties, Delay, Rate, Queue, Error, Qdisc
<1>5. At("nodes") <=> step = 8
  BY <1>1, StepsAre DEF At, Thrown, Delay, Rate, Queue, Error, Qdisc
<1>6. At("links") <=> step = 9
  BY <1>1, StepsAre DEF At, Thrown, Delay, Rate, Queue, Error, Qdisc
<1>7. At("ready") <=> step = 10
  BY <1>1, StepsAre DEF At, Thrown, Delay, Rate, Queue, Error, Qdisc
<1> QED BY <1>2, <1>3, <1>4, <1>5, <1>6, <1>7

LEMMA PropertiesAre ==
  ASSUME NEW p \in Range(Properties)
  PROVE  \E i \in 1 .. 5 : p = Properties[i]
BY DEF Properties, Range

-----------------------------------------------------------------------------
(* The inductive invariant of the topology.                                  *)

PropertyRead(p) ==
  /\ HasParam(input.config, p) /\ IsMapping(p)
  /\ p \in DOMAIN settings /\ settings[p] = Mapping(p)

NodesRead ==
  systemId = [a \in Node |-> IF input.assignment = <<>> THEN 0 ELSE input.assignment[a + 1]]

Flip(l) == <<l[2], l[1]>>

(* All of a device that does not depend on the devices before it.            *)
IsDevice(d, a, b, address) ==
  /\ d.node = a /\ d.address = address /\ d.channel = ChannelKind(a, b)
  /\ d.delay = settings[Delay][IF a < b THEN <<a, b>> ELSE <<b, a>>]
  /\ d.rate = settings[Rate][<<a, b>>] /\ d.queue = settings[Queue][<<a, b>>]
  /\ d.receiveErrorModel = settings[Error][<<b, a>>]
  /\ d.qdisc = InstalledQdisc(settings[Qdisc][<<a, b>>])

(* The devices of a have the numbers from 1, each one its own.               *)
LinksFrom(dev, a) == {l \in DOMAIN dev : l[1] = a}

Numbered(dev, a) ==
  /\ IsFiniteSet(LinksFrom(dev, a))
  /\ \A l \in LinksFrom(dev, a) : dev[l].ifIdx \in 1 .. Cardinality(LinksFrom(dev, a))
  /\ \A k, l \in LinksFrom(dev, a) : dev[k].ifIdx = dev[l].ifIdx => k = l
  /\ \A i \in 1 .. Cardinality(LinksFrom(dev, a)) : \E l \in LinksFrom(dev, a) : dev[l].ifIdx = i

(* After the first edges: each is on a network of its own.                    *)
DevicesSound(dev, ifs) ==
  /\ ifs \in Seq(Nat \X Nat) /\ Len(ifs) <= Len(graph.edges)
  /\ DOMAIN dev = {graph.edges[i] : i \in 1 .. Len(ifs)}
                    \cup {Flip(graph.edges[i]) : i \in 1 .. Len(ifs)}
  /\ \A i \in 1 .. Len(ifs) :
       /\ IsDevice(dev[graph.edges[i]], graph.edges[i][1], graph.edges[i][2], <<i - 1, 1>>)
       /\ IsDevice(dev[Flip(graph.edges[i])], graph.edges[i][2], graph.edges[i][1], <<i - 1, 2>>)
       /\ dev[graph.edges[i]].ifIdx = ifs[i][1] /\ dev[Flip(graph.edges[i])].ifIdx = ifs[i][2]
  /\ \A a \in Node : Numbered(dev, a)

TopologyInv ==
  /\ input \in Input /\ step \in 0 .. 10 /\ n \in Nat
  /\ step > 2 => GraphRead
  /\ \A i \in 1 .. 5 : step > 2 + i => PropertyRead(Properties[i])
  /\ step > 8 => NodesRead
  /\ step \in 1 .. 8 => device = <<>> /\ interfaces = <<>>
  /\ step \in 9 .. 10 => DevicesSound(device, interfaces)
  /\ step = 10 => Len(interfaces) = Len(graph.edges)

LEMMA NothingInstalled == GraphSound => DevicesSound(<<>>, <<>>)
<1> SUFFICES ASSUME GraphSound PROVE DevicesSound(<<>>, <<>>)
  OBVIOUS
<1>1. DOMAIN <<>> = {} /\ Len(<<>>) = 0 /\ <<>> \in Seq(Nat \X Nat)
  OBVIOUS
<1>2. IsFiniteSet({}) /\ Cardinality({}) = 0
  BY FS_EmptySet
<1>3. \A a : LinksFrom(<<>>, a) = {}
  BY <1>1 DEF LinksFrom
<1>4. \A a : Numbered(<<>>, a)
  BY <1>2, <1>3 DEF Numbered
<1>5. Len(graph.edges) \in Nat
  BY DEF GraphSound
<1>6. 1 .. 0 = {}
  OBVIOUS
<1> QED BY <1>1, <1>4, <1>5, <1>6 DEF DevicesSound

(* A device that is added to a node gets the next number.                    *)
LEMMA NumberedNext ==
  ASSUME NEW dev, NEW new, NEW a, NEW link, Numbered(dev, a), link \notin LinksFrom(dev, a),
         LinksFrom(new, a) = LinksFrom(dev, a) \cup {link},
         \A l \in LinksFrom(dev, a) : new[l].ifIdx = dev[l].ifIdx,
         new[link].ifIdx = 1 + Cardinality(LinksFrom(dev, a))
  PROVE  Numbered(new, a)
<1> DEFINE F == LinksFrom(dev, a)
           G == LinksFrom(new, a)
           c == Cardinality(F)
<1>1. /\ IsFiniteSet(F) /\ \A l \in F : dev[l].ifIdx \in 1 .. c
      /\ \A k, l \in F : dev[k].ifIdx = dev[l].ifIdx => k = l
      /\ \A i \in 1 .. c : \E l \in F : dev[l].ifIdx = i
  BY DEF Numbered
<1>2. G = F \cup {link} /\ link \notin F /\ \A l \in F : new[l].ifIdx = dev[l].ifIdx
  OBVIOUS
<1>3. new[link].ifIdx = c + 1 /\ c \in Nat
  BY <1>1, FS_CardinalityType
<1> HIDE DEF F, G
<1>4. IsFiniteSet(G) /\ Cardinality(G) = c + 1
  BY <1>1, <1>2, FS_AddElement DEF c
<1> HIDE DEF c
<1>5. \A l \in G : new[l].ifIdx \in 1 .. c + 1
  BY <1>1, <1>2, <1>3
<1>6. \A k, l \in G : new[k].ifIdx = new[l].ifIdx => k = l
  <2>1. \A l \in F : new[l].ifIdx # c + 1
    BY <1>1, <1>2, <1>3
  <2> QED BY <1>1, <1>2, <1>3, <2>1
<1>7. \A i \in 1 .. c + 1 : \E l \in G : new[l].ifIdx = i
  <2> TAKE i \in 1 .. c + 1
  <2>1. CASE i = c + 1
    BY <1>2, <1>3, <2>1
  <2>2. CASE i # c + 1
    <3>1. i \in 1 .. c
      BY <1>3, <2>2
    <3> QED BY <1>1, <1>2, <3>1
  <2> QED BY <2>1, <2>2
<1> QED BY <1>4, <1>5, <1>6, <1>7 DEF Numbered, G

LEMMA NumberedStays ==
  ASSUME NEW dev, NEW new, NEW a, Numbered(dev, a), LinksFrom(new, a) = LinksFrom(dev, a),
         \A l \in LinksFrom(dev, a) : new[l].ifIdx = dev[l].ifIdx
  PROVE  Numbered(new, a)
BY DEF Numbered

(* What one round of the loop makes of the devices.                          *)
WithLink(ab, devA, devB) ==
  [l \in DOMAIN device \cup {ab, Flip(ab)} |->
     IF l = ab THEN devA ELSE IF l = Flip(ab) THEN devB ELSE device[l]]

LEMMA EdgeIs ==
  ASSUME GraphSound, NEW i \in 1 .. Len(graph.edges)
  PROVE  /\ graph.edges[i] \in EdgeSet /\ graph.edges[i] = <<graph.edges[i][1], graph.edges[i][2]>>
         /\ graph.edges[i][1] \in Node /\ graph.edges[i][2] \in Node
         /\ graph.edges[i][1] \in Nat /\ graph.edges[i][2] \in Nat
         /\ graph.edges[i][1] < graph.edges[i][2]
<1>1. graph.edges[i] \in EdgeSet /\ EdgeSet \subseteq Upward /\ n \in Nat /\ Node = 0 .. n - 1
  BY DEF GraphSound, GraphTyped
<1>2. graph.edges[i] \in Node \X Node /\ graph.edges[i][1] < graph.edges[i][2]
  BY <1>1 DEF Upward
<1> QED BY <1>1, <1>2

LEMMA FlipIs ==
  ASSUME NEW a, NEW b
  PROVE  Flip(<<a, b>>) = <<b, a>> /\ Flip(<<a, b>>)[1] = b /\ Flip(<<a, b>>)[2] = a
BY DEF Flip

(* The next edge has no device yet.                                          *)
LEMMA NextEdgeIsNew ==
  ASSUME GraphSound, NEW dev, NEW ifs, DevicesSound(dev, ifs), Len(ifs) < Len(graph.edges)
  PROVE  /\ Len(ifs) \in Nat /\ Len(ifs) + 1 \in 1 .. Len(graph.edges)
         /\ graph.edges[Len(ifs) + 1] \notin DOMAIN dev
         /\ Flip(graph.edges[Len(ifs) + 1]) \notin DOMAIN dev
<1> DEFINE m == Len(ifs)
           e == graph.edges[m + 1]
<1>1. m \in Nat /\ Len(graph.edges) \in Nat
  BY DEF DevicesSound, GraphSound
<1>2. m + 1 \in 1 .. Len(graph.edges) /\ \A i \in 1 .. m : i \in 1 .. Len(graph.edges) /\ i # m + 1
  BY <1>1
<1>3. e = <<e[1], e[2]>> /\ e[1] \in Nat /\ e[2] \in Nat /\ e[1] < e[2]
  BY <1>2, EdgeIs
<1>4. DOMAIN dev = {graph.edges[i] : i \in 1 .. m} \cup {Flip(graph.edges[i]) : i \in 1 .. m}
  BY DEF DevicesSound
<1> HIDE DEF m
<1>5. ASSUME NEW i \in 1 .. m
      PROVE  e # graph.edges[i] /\ e # Flip(graph.edges[i]) /\ Flip(e) # graph.edges[i]
             /\ Flip(e) # Flip(graph.edges[i])
  <2> DEFINE f == graph.edges[i]
  <2>1. f = <<f[1], f[2]>> /\ f[1] \in Nat /\ f[2] \in Nat /\ f[1] < f[2]
    BY <1>2, EdgeIs
  <2>2. e # f
    BY <1>2 DEF GraphSound
  <2> HIDE DEF e, f
  <2>3. Flip(e)[1] = e[2] /\ Flip(e)[2] = e[1] /\ Flip(f)[1] = f[2] /\ Flip(f)[2] = f[1]
    BY DEF Flip
  <2>4. e # Flip(f) /\ Flip(e) # f
    BY <1>3, <2>1, <2>3
  <2>5. Flip(e) # Flip(f)
    BY <1>3, <2>1, <2>2, <2>3
  <2> QED BY <2>2, <2>4, <2>5 DEF f
<1> HIDE DEF e
<1>6. e \notin DOMAIN dev /\ Flip(e) \notin DOMAIN dev
  BY <1>4, <1>5
<1> QED BY <1>1, <1>2, <1>6 DEF m, e

LEMMA NetDeviceIs ==
  ASSUME NEW a, NEW b, NEW net, NEW host
  PROVE  /\ IsDevice(NetDevice(a, b, net, host), a, b, <<net, host>>)
         /\ NetDevice(a, b, net, host).ifIdx = 1 + Cardinality(LinksFrom(device, a))
<1> DEFINE d == NetDevice(a, b, net, host)
<1>1. /\ d.node = a /\ d.address = <<net, host>> /\ d.channel = ChannelKind(a, b)
      /\ d.delay = settings[Delay][IF a < b THEN <<a, b>> ELSE <<b, a>>]
      /\ d.rate = settings[Rate][<<a, b>>] /\ d.queue = settings[Queue][<<a, b>>]
      /\ d.receiveErrorModel = settings[Error][<<b, a>>]
      /\ d.qdisc = InstalledQdisc(settings[Qdisc][<<a, b>>])
      /\ d.ifIdx = IfIdx(a)
  BY DEF NetDevice
<1>2. IfIdx(a) = 1 + Cardinality(LinksFrom(device, a))
  BY DEF IfIdx, LinksFrom
<1> HIDE DEF d
<1>3. IsDevice(d, a, b, <<net, host>>)
  BY <1>1 DEF IsDevice
<1> QED BY <1>1, <1>2, <1>3 DEF d

(* One round of the loop.                                                    *)
LEMMA LinkAdded ==
  ASSUME GraphSound, DevicesSound(device, interfaces), Len(interfaces) < Len(graph.edges),
         NEW ab, ab = graph.edges[Len(interfaces) + 1],
         NEW devA, devA = NetDevice(ab[1], ab[2], Len(interfaces), 1),
         NEW devB, devB = NetDevice(ab[2], ab[1], Len(interfaces), 2)
  PROVE  DevicesSound(WithLink(ab, devA, devB), Append(interfaces, <<devA.ifIdx, devB.ifIdx>>))
<1> DEFINE m == Len(interfaces)
           a == ab[1]
           b == ab[2]
           dev == WithLink(ab, devA, devB)
           both == <<devA.ifIdx, devB.ifIdx>>
           ifs == Append(interfaces, both)
<1>1. m \in Nat /\ m + 1 \in 1 .. Len(graph.edges) /\ ab \notin DOMAIN device
      /\ Flip(ab) \notin DOMAIN device
  BY NextEdgeIsNew
<1>2. /\ ab = <<a, b>> /\ a \in Node /\ b \in Node /\ a < b /\ a \in Nat /\ b \in Nat
      /\ Flip(ab) = <<b, a>> /\ ab # Flip(ab) /\ a # b
  <2>1. ab = <<a, b>> /\ a \in Node /\ b \in Node /\ a < b /\ a \in Nat /\ b \in Nat
    BY <1>1, EdgeIs
  <2> HIDE DEF a, b
  <2> QED BY <2>1 DEF Flip
<1>3. /\ interfaces \in Seq(Nat \X Nat) /\ m <= Len(graph.edges)
      /\ DOMAIN device = {graph.edges[i] : i \in 1 .. m} \cup {Flip(graph.edges[i]) : i \in 1 .. m}
      /\ \A x \in Node : Numbered(device, x)
  BY DEF DevicesSound
<1>4. /\ IsDevice(devA, a, b, <<m, 1>>) /\ devA.ifIdx = 1 + Cardinality(LinksFrom(device, a))
      /\ IsDevice(devB, b, a, <<m, 2>>) /\ devB.ifIdx = 1 + Cardinality(LinksFrom(device, b))
  BY NetDeviceIs
<1>5. both \in Nat \X Nat
  <2>1. \A x \in Node : Cardinality(LinksFrom(device, x)) \in Nat
    BY <1>3, FS_CardinalityType DEF Numbered
  <2> QED BY <1>2, <1>4, <2>1
<1>6. /\ DOMAIN dev = DOMAIN device \cup {ab, Flip(ab)} /\ dev[ab] = devA /\ dev[Flip(ab)] = devB
      /\ \A l \in DOMAIN device : dev[l] = device[l]
  <2>1. DOMAIN dev = DOMAIN device \cup {ab, Flip(ab)} /\ dev[ab] = devA
    BY DEF WithLink
  <2>2. dev[Flip(ab)] = devB
    BY <1>2 DEF WithLink
  <2>3. \A l \in DOMAIN device : dev[l] = device[l]
    BY <1>1 DEF WithLink
  <2> QED BY <2>1, <2>2, <2>3
<1>7. both[1] = devA.ifIdx /\ both[2] = devB.ifIdx
  OBVIOUS
<1> HIDE DEF a, b, dev, both
<1>8. /\ ifs \in Seq(Nat \X Nat) /\ Len(ifs) = m + 1 /\ ifs[m + 1] = both
      /\ \A i \in 1 .. m : ifs[i] = interfaces[i]
  BY <1>3, <1>5
<1>9. \A i \in 1 .. m + 1 : i \in 1 .. m \/ i = m + 1
  BY <1>1
<1>10. \A i \in 1 .. m : i \in 1 .. m + 1
  BY <1>1
<1>11. m + 1 \in 1 .. m + 1 /\ (m + 1) - 1 = m
  BY <1>1
<1>12. DOMAIN dev = {graph.edges[i] : i \in 1 .. m + 1}
                      \cup {Flip(graph.edges[i]) : i \in 1 .. m + 1}
  <2> QED BY <1>3, <1>6, <1>9, <1>10, <1>11
<1>13. ASSUME NEW i \in 1 .. m + 1
       PROVE  /\ IsDevice(dev[graph.edges[i]], graph.edges[i][1], graph.edges[i][2], <<i - 1, 1>>)
              /\ IsDevice(dev[Flip(graph.edges[i])], graph.edges[i][2], graph.edges[i][1],
                          <<i - 1, 2>>)
              /\ dev[graph.edges[i]].ifIdx = ifs[i][1]
              /\ dev[Flip(graph.edges[i])].ifIdx = ifs[i][2]
  <2>1. CASE i = m + 1
    <3>1. graph.edges[i] = ab /\ ab[1] = a /\ ab[2] = b /\ i - 1 = m /\ ifs[i] = both
      BY <1>8, <1>11, <2>1 DEF a, b
    <3> HIDE DEF ifs, m
    <3> QED BY <1>4, <1>6, <1>7, <3>1
  <2>2. CASE i # m + 1
    <3>1. i \in 1 .. m
      BY <1>9, <2>2
    <3>2. /\ graph.edges[i] \in DOMAIN device /\ Flip(graph.edges[i]) \in DOMAIN device
          /\ ifs[i] = interfaces[i]
      BY <1>3, <1>8, <3>1
    <3>3. /\ IsDevice(device[graph.edges[i]], graph.edges[i][1], graph.edges[i][2], <<i - 1, 1>>)
          /\ IsDevice(device[Flip(graph.edges[i])], graph.edges[i][2], graph.edges[i][1],
                      <<i - 1, 2>>)
          /\ device[graph.edges[i]].ifIdx = interfaces[i][1]
          /\ device[Flip(graph.edges[i])].ifIdx = interfaces[i][2]
      BY <3>1 DEF DevicesSound
    <3> HIDE DEF ifs
    <3> QED BY <1>6, <3>2, <3>3
  <2> QED BY <2>1, <2>2
<1>14. ASSUME NEW x \in Node PROVE Numbered(dev, x)
  <2>1. ab[1] = a /\ Flip(ab)[1] = b
    BY <1>2
  <2>2. \A l \in LinksFrom(device, x) : dev[l].ifIdx = device[l].ifIdx
    BY <1>6 DEF LinksFrom
  <2>3. CASE x = a
    <3>1. LinksFrom(dev, x) = LinksFrom(device, x) \cup {ab} /\ ab \notin LinksFrom(device, x)
      BY <1>1, <1>2, <1>6, <2>1, <2>3 DEF LinksFrom
    <3>2. dev[ab].ifIdx = 1 + Cardinality(LinksFrom(device, x))
      BY <1>4, <1>6, <2>3
    <3> QED BY <1>3, <2>2, <3>1, <3>2, NumberedNext
  <2>4. CASE x = b
    <3>1. /\ LinksFrom(dev, x) = LinksFrom(device, x) \cup {Flip(ab)}
          /\ Flip(ab) \notin LinksFrom(device, x)
      BY <1>1, <1>2, <1>6, <2>1, <2>4 DEF LinksFrom
    <3>2. dev[Flip(ab)].ifIdx = 1 + Cardinality(LinksFrom(device, x))
      BY <1>4, <1>6, <2>4
    <3> QED BY <1>3, <2>2, <3>1, <3>2, NumberedNext
  <2>5. CASE x # a /\ x # b
    <3>1. LinksFrom(dev, x) = LinksFrom(device, x)
      BY <1>6, <2>1, <2>5 DEF LinksFrom
    <3> QED BY <1>3, <2>2, <3>1, NumberedStays
  <2> QED BY <2>3, <2>4, <2>5
<1>15. Len(ifs) <= Len(graph.edges)
  BY <1>1, <1>8
<1> HIDE DEF ifs, m
<1> QED BY <1>8, <1>12, <1>13, <1>14, <1>15 DEF DevicesSound, ifs, dev, both

-----------------------------------------------------------------------------
(* What a step leaves alone stays as it was.                                 *)

LEMMA GraphStays ==
  ASSUME UNCHANGED <<input, graph>>
  PROVE  /\ GraphRead' <=> GraphRead
         /\ Node' = Node /\ n' = n /\ EdgeSet' = EdgeSet /\ Upward' = Upward
         /\ GraphTyped' <=> GraphTyped
<1>1. GraphRead' <=> GraphRead
  BY DEF GraphRead, HasParam, Plain, Param, ParsesAsGraph, Hierarchy, AssignmentMatches, NodeSet,
         EdgeSet, Neighbours
<1>2. Node' = Node /\ n' = n
  BY DEF Node, n
<1>3. EdgeSet' = EdgeSet
  BY DEF EdgeSet, Param
<1>4. Upward' = Upward
  BY <1>2 DEF Upward
<1>5. GraphTyped' <=> GraphTyped
  BY <1>2 DEF GraphTyped
<1> QED BY <1>1, <1>2, <1>3, <1>4, <1>5

LEMMA MappingStays ==
  ASSUME UNCHANGED <<input, graph>>, NEW p
  PROVE  Mapping(p)' = Mapping(p) /\ (IsMapping(p)' <=> IsMapping(p)) /\ Links' = Links
<1>1. Param(p)' = Param(p) /\ Edges' = Edges
  BY DEF Param, Edges
<1>2. Links' = Links
  BY <1>1 DEF Links
<1>3. KeysOf(p)' = KeysOf(p)
  BY <1>1, <1>2 DEF KeysOf
<1>4. Mapping(p)' = Mapping(p)
  BY <1>1, <1>3 DEF Mapping
<1>5. IsMapping(p)' <=> IsMapping(p)
  BY <1>1, <1>3 DEF IsMapping, GlobalIsValid
<1> QED BY <1>2, <1>4, <1>5

LEMMA PropertyStays ==
  ASSUME UNCHANGED <<input, graph>>, NEW p, PropertyRead(p), p \in DOMAIN settings',
         settings'[p] = settings[p]
  PROVE  PropertyRead(p)'
BY MappingStays DEF PropertyRead, HasParam

LEMMA DevicesStay ==
  ASSUME UNCHANGED <<input, graph, settings, systemId>>, DevicesSound(device', interfaces')
  PROVE  DevicesSound(device, interfaces)'
<1>1. Node' = Node
  BY DEF Node
<1>2. ASSUME NEW d, NEW a, NEW b, NEW address, IsDevice(d, a, b, address)
      PROVE  IsDevice(d, a, b, address)'
  BY <1>2 DEF IsDevice, ChannelKind
<1>3. DevicesSound(device, interfaces)' <=>
        /\ interfaces' \in Seq(Nat \X Nat) /\ Len(interfaces') <= Len(graph'.edges)
        /\ DOMAIN device' = {graph'.edges[i] : i \in 1 .. Len(interfaces')}
                              \cup {Flip(graph'.edges[i]) : i \in 1 .. Len(interfaces')}
        /\ \A i \in 1 .. Len(interfaces') :
             /\ IsDevice(device[graph.edges[i]], graph.edges[i][1], graph.edges[i][2],
                         <<i - 1, 1>>)'
             /\ IsDevice(device[Flip(graph.edges[i])], graph.edges[i][2], graph.edges[i][1],
                         <<i - 1, 2>>)'
             /\ device'[graph'.edges[i]].ifIdx = interfaces'[i][1]
             /\ device'[Flip(graph'.edges[i])].ifIdx = interfaces'[i][2]
        /\ \A a \in Node' : Numbered(device', a)
  BY DEF DevicesSound
<1> QED BY <1>1, <1>2, <1>3 DEF DevicesSound

LEMMA ThrowKeeps ==
  ASSUME TopologyInv, Throw, UNCHANGED input
  PROVE  TopologyInv'
<1>1. step' = 0 /\ n' = n /\ input' = input
  BY DEF Throw, Thrown, n
<1>2. step' \in 0 .. 10 /\ ~(step' > 2) /\ ~(step' > 8) /\ step' \notin 1 .. 8
      /\ step' \notin 9 .. 10 /\ step' # 10 /\ \A i \in 1 .. 5 : ~(step' > 2 + i)
  BY <1>1
<1> QED BY <1>1, <1>2 DEF TopologyInv

LEMMA ConfigKeeps ==
  ASSUME TopologyInv, ReadTopologyConfig
  PROVE  TopologyInv'
<1>1. step = 1 /\ input' = input
  BY AtIs DEF TopologyInv, ReadTopologyConfig
<1>2. CASE Throw
  BY <1>1, <1>2, ThrowKeeps
<1>3. CASE Advance /\ UNCHANGED <<graph, settings, systemId, device, interfaces>>
  <2>1. step' = 2 /\ n' = n /\ device' = <<>> /\ interfaces' = <<>>
    BY <1>1, <1>3 DEF Advance, TopologyInv, n
  <2>2. step' \in 0 .. 10 /\ ~(step' > 2) /\ ~(step' > 8) /\ step' \notin 9 .. 10 /\ step' # 10
        /\ \A i \in 1 .. 5 : ~(step' > 2 + i)
    BY <2>1
  <2> QED BY <1>1, <2>1, <2>2 DEF TopologyInv
<1> QED BY <1>2, <1>3 DEF ReadTopologyConfig

LEMMA NumNodesRead ==
  ASSUME input \in Input, HasParam(input.config, "num_nodes"), IsPositive(Plain("num_nodes"))
  PROVE  Int64(Plain("num_nodes")) \in Nat
<1>1. IsRead(input.config)
  BY InputAssumption
<1>2. Plain("num_nodes") \in Token
  BY <1>1 DEF IsRead, Plain, Param, HasParam
<1> QED BY <1>2, TokenIs DEF IsPositive

LEMMA GraphKeeps ==
  ASSUME TopologyInv, ParseTopologyGraph
  PROVE  TopologyInv'
<1>1. step = 2 /\ input' = input /\ input \in Input
  BY AtIs DEF TopologyInv, ParseTopologyGraph
<1> DEFINE Accepted ==
             /\ \A k \in GraphKeys : HasParam(input.config, k)
             /\ IsPositive(Plain("num_nodes")) /\ IsPositive(Plain("num_undirected_edges"))
             /\ ParsesAsGraph /\ Hierarchy /\ AssignmentMatches
           read == [numNodes |-> Int64(Plain("num_nodes")),
                    switches |-> NodeSet("switches"),
                    tors     |-> NodeSet("switches_which_are_tors"),
                    servers  |-> NodeSet("servers"),
                    edges    |-> Sorted(EdgeSet),
                    adjacent |-> [a \in 0 .. Int64(Plain("num_nodes")) - 1 |-> Neighbours(a)]]
<1>2. CASE Throw
  BY <1>1, <1>2, ThrowKeeps
<1>3. CASE Accepted /\ Advance /\ graph' = read
           /\ UNCHANGED <<settings, systemId, device, interfaces>>
  <2>1. step' = 3 /\ device' = <<>> /\ interfaces' = <<>>
    BY <1>1, <1>3 DEF Advance, TopologyInv
  <2>2. GraphRead'
    BY <1>1, <1>3 DEF GraphRead, HasParam, Plain, Param, ParsesAsGraph, Hierarchy,
                      AssignmentMatches, NodeSet, EdgeSet, Neighbours
  <2>3. n' \in Nat
    <3>1. n' = Int64(Plain("num_nodes"))
      BY <1>3 DEF n
    <3>2. HasParam(input.config, "num_nodes")
      BY <1>3 DEF GraphKeys
    <3> QED BY <1>1, <1>3, <3>1, <3>2, NumNodesRead
  <2>4. step' \in 0 .. 10 /\ ~(step' > 8) /\ step' \notin 9 .. 10 /\ step' # 10
        /\ \A i \in 1 .. 5 : ~(step' > 2 + i)
    BY <2>1
  <2> HIDE DEF read
  <2> QED BY <1>1, <2>1, <2>2, <2>3, <2>4 DEF TopologyInv
<1> QED BY <1>2, <1>3 DEF ParseTopologyGraph

LEMMA PropertyKeeps ==
  ASSUME TopologyInv, NEW p \in Range(Properties), ParseProperty(p)
  PROVE  TopologyInv'
<1>1. PICK i \in 1 .. 5 : p = Properties[i]
  BY PropertiesAre
<1>2. step = 2 + i /\ input' = input /\ input \in Input /\ GraphRead /\ n \in Nat
  <2>1. At(Properties[i]) /\ step \in 0 .. 10 /\ input' = input
    BY <1>1 DEF ParseProperty, TopologyInv
  <2>2. step = 2 + i
    BY <2>1, AtIs
  <2>3. step > 2
    BY <2>2
  <2> QED BY <2>1, <2>2, <2>3 DEF TopologyInv
<1>3. CASE Throw
  BY <1>2, <1>3, ThrowKeeps
<1>4. CASE /\ HasParam(input.config, p) /\ IsMapping(p) /\ Advance
           /\ settings' = [q \in DOMAIN settings \cup {p} |->
                             IF q = p THEN Mapping(p) ELSE settings[q]]
           /\ UNCHANGED <<graph, systemId, device, interfaces>>
  <2>1. step' = 3 + i /\ UNCHANGED <<input, graph>>
    BY <1>2, <1>4 DEF Advance
  <2>2. GraphRead' /\ n' \in Nat
    BY <1>2, <2>1, GraphStays
  <2>3. step \in 1 .. 8
    BY <1>2
  <2>4. device' = <<>> /\ interfaces' = <<>>
    BY <1>4, <2>3 DEF TopologyInv
  <2>5. ASSUME NEW j \in 1 .. 5, step' > 2 + j PROVE PropertyRead(Properties[j])'
    <3>1. CASE Properties[j] = p
      <4>1. p \in DOMAIN settings' /\ settings'[p] = Mapping(p)
        BY <1>4
      <4>2. PropertyRead(p)'
        BY <1>4, <2>1, <4>1, MappingStays DEF PropertyRead, HasParam
      <4> QED BY <3>1, <4>2
    <3>2. CASE Properties[j] # p
      <4> DEFINE q == Properties[j]
      <4>1. j # i
        BY <1>1, <3>2
      <4>2. step > 2 + j
        BY <1>2, <2>1, <2>5, <4>1
      <4>3. PropertyRead(q)
        BY <4>2 DEF TopologyInv
      <4> HIDE DEF q
      <4>4. q # p
        BY <3>2 DEF q
      <4>5. q \in DOMAIN settings' /\ settings'[q] = settings[q]
        BY <1>4, <4>3, <4>4 DEF PropertyRead
      <4>6. PropertyRead(q)'
        BY <2>1, <4>3, <4>5, PropertyStays
      <4> QED BY <4>6 DEF q
    <3> QED BY <3>1, <3>2
  <2>6. step' \in 0 .. 10 /\ ~(step' > 8) /\ step' \notin 9 .. 10 /\ step' # 10
    BY <2>1
  <2> QED BY <1>2, <2>1, <2>2, <2>4, <2>5, <2>6 DEF TopologyInv
<1> QED BY <1>3, <1>4 DEF ParseProperty

LEMMA PropertiesStay ==
  ASSUME UNCHANGED <<input, graph, settings>>, step > 7 \/ step' <= step, step \in Int,
         step' \in Int, \A i \in 1 .. 5 : step > 2 + i => PropertyRead(Properties[i])
  PROVE  \A i \in 1 .. 5 : step' > 2 + i => PropertyRead(Properties[i])'
<1> SUFFICES ASSUME NEW i \in 1 .. 5, step' > 2 + i PROVE PropertyRead(Properties[i])'
  OBVIOUS
<1> DEFINE p == Properties[i]
<1>1. step > 2 + i
  OBVIOUS
<1>2. PropertyRead(p)
  BY <1>1
<1>3. p \in DOMAIN settings' /\ settings'[p] = settings[p]
  BY <1>2 DEF PropertyRead
<1> HIDE DEF p
<1>4. PropertyRead(p)'
  BY <1>2, <1>3, PropertyStays
<1> QED BY <1>4 DEF p

LEMMA NodesKeep ==
  ASSUME TopologyInv, SetupNodes
  PROVE  TopologyInv'
<1>1. step = 8 /\ step' = 9 /\ UNCHANGED <<input, graph, settings, device, interfaces>>
  BY AtIs DEF TopologyInv, SetupNodes, Advance
<1>2. GraphRead' /\ n' \in Nat
  BY <1>1, GraphStays DEF TopologyInv
<1>3. \A i \in 1 .. 5 : step' > 2 + i => PropertyRead(Properties[i])'
  BY <1>1, PropertiesStay DEF TopologyInv
<1>4. NodesRead'
  BY <1>1, GraphStays DEF NodesRead, SetupNodes
<1>5. GraphSound'
  <2>1. input \in Input /\ GraphRead
    BY <1>1 DEF TopologyInv
  <2>2. GraphSound
    BY <2>1, GraphIsSound
  <2> QED BY <1>1, <2>2, GraphStays DEF GraphSound, Linked
<1>6. DevicesSound(<<>>, <<>>)'
  BY <1>5, NothingInstalled, PTL
<1>7. device' = <<>> /\ interfaces' = <<>>
  BY <1>1 DEF TopologyInv
<1>8. DevicesSound(device, interfaces)'
  BY <1>6, <1>7 DEF DevicesSound, Numbered, LinksFrom
<1>9. step' \in 0 .. 10 /\ step' # 10 /\ step' \notin 1 .. 8 /\ input' \in Input
  BY <1>1 DEF TopologyInv
<1> QED BY <1>2, <1>3, <1>4, <1>8, <1>9 DEF TopologyInv

LEMMA LinkKeeps ==
  ASSUME TopologyInv, SetupLink
  PROVE  TopologyInv'
<1> DEFINE ab == graph.edges[Len(interfaces) + 1]
           devA == NetDevice(ab[1], ab[2], Len(interfaces), 1)
           devB == NetDevice(ab[2], ab[1], Len(interfaces), 2)
<1>1. /\ step = 9 /\ step' = 9 /\ UNCHANGED <<input, graph, settings, systemId>>
      /\ Len(interfaces) < Len(graph.edges)
  BY AtIs DEF TopologyInv, SetupLink
<1>2. input \in Input /\ GraphRead /\ n \in Nat /\ DevicesSound(device, interfaces) /\ NodesRead
  BY <1>1 DEF TopologyInv
<1>3. device' = WithLink(ab, devA, devB)
      /\ interfaces' = Append(interfaces, <<devA.ifIdx, devB.ifIdx>>)
  BY DEF SetupLink, WithLink, Flip
<1>4. GraphSound
  BY <1>2, GraphIsSound
<1>5. DevicesSound(WithLink(ab, devA, devB), Append(interfaces, <<devA.ifIdx, devB.ifIdx>>))
  BY <1>1, <1>2, <1>4, LinkAdded
<1>6. DevicesSound(device, interfaces)'
  <2> HIDE DEF ab, devA, devB
  <2> QED BY <1>1, <1>3, <1>5, DevicesStay
<1>7. GraphRead' /\ n' \in Nat /\ NodesRead'
  BY <1>1, <1>2, GraphStays DEF NodesRead
<1>8. \A i \in 1 .. 5 : step' > 2 + i => PropertyRead(Properties[i])'
  BY <1>1, PropertiesStay DEF TopologyInv
<1>9. step' \in 0 .. 10 /\ step' # 10 /\ step' \notin 1 .. 8 /\ input' \in Input
  BY <1>1, <1>2
<1> QED BY <1>6, <1>7, <1>8, <1>9 DEF TopologyInv

(* Whatever leaves the topology as it is, or finds its links complete.        *)
LEMMA DoneKeeps ==
  ASSUME TopologyInv, LinksDone
  PROVE  TopologyInv'
<1>1. /\ step = 9 /\ step' = 10
      /\ UNCHANGED <<input, graph, settings, systemId, device, interfaces>>
      /\ Len(interfaces) = Len(graph.edges)
  BY AtIs DEF TopologyInv, LinksDone, Advance
<1>2. input \in Input /\ GraphRead /\ n \in Nat /\ DevicesSound(device, interfaces) /\ NodesRead
  BY <1>1 DEF TopologyInv
<1>3. DevicesSound(device', interfaces')
  BY <1>1, <1>2
<1>4. DevicesSound(device, interfaces)'
  BY <1>1, <1>3, DevicesStay
<1>5. GraphRead' /\ n' \in Nat /\ NodesRead'
  BY <1>1, <1>2, GraphStays DEF NodesRead
<1>6. \A i \in 1 .. 5 : step' > 2 + i => PropertyRead(Properties[i])'
  BY <1>1, PropertiesStay DEF TopologyInv
<1>7. /\ step' \in 0 .. 10 /\ step' \notin 1 .. 8 /\ input' \in Input
      /\ Len(interfaces') = Len(graph'.edges)
  BY <1>1, <1>2
<1> QED BY <1>4, <1>5, <1>6, <1>7 DEF TopologyInv

LEMMA TopologyStays ==
  ASSUME TopologyInv, UNCHANGED topology
  PROVE  TopologyInv'
<1>1. UNCHANGED <<input, step, graph, settings, systemId, device, interfaces>>
  BY DEF topology
<1>2. (GraphRead' <=> GraphRead) /\ n' = n /\ (NodesRead' <=> NodesRead)
  BY <1>1, GraphStays DEF NodesRead
<1>3. \A i \in 1 .. 5 : step' > 2 + i => PropertyRead(Properties[i])'
  BY <1>1, PropertiesStay DEF TopologyInv
<1>4. step' \in 9 .. 10 => DevicesSound(device, interfaces)'
  <2> SUFFICES ASSUME step' \in 9 .. 10 PROVE DevicesSound(device, interfaces)'
    OBVIOUS
  <2>1. DevicesSound(device', interfaces')
    BY <1>1 DEF TopologyInv
  <2> QED BY <1>1, <2>1, DevicesStay
<1> QED BY <1>1, <1>2, <1>3, <1>4 DEF TopologyInv

LEMMA TopologyStarts ==
  ASSUME Init
  PROVE  TopologyInv
<1>1. /\ input \in Input /\ step = 1 /\ graph.numNodes = 0 /\ device = <<>> /\ interfaces = <<>>
  BY DEF Init, TopologyInit
<1>2. step \in 0 .. 10 /\ ~(step > 2) /\ ~(step > 8) /\ step \notin 9 .. 10 /\ step # 10
      /\ \A i \in 1 .. 5 : ~(step > 2 + i)
  BY <1>1
<1> QED BY <1>1, <1>2 DEF TopologyInv, n

LEMMA TopologyKept ==
  ASSUME TopologyInv, [Next]_vars
  PROVE  TopologyInv'
<1>1. CASE TopologyNext
  <2>1. CASE ReadTopologyConfig
    BY <2>1, ConfigKeeps
  <2>2. CASE ParseTopologyGraph
    BY <2>2, GraphKeeps
  <2>3. CASE \E p \in Range(Properties) : ParseProperty(p)
    BY <2>3, PropertyKeeps
  <2>4. CASE SetupNodes
    BY <2>4, NodesKeep
  <2>5. CASE SetupLink
    BY <2>5, LinkKeeps
  <2>6. CASE LinksDone
    BY <2>6, DoneKeeps
  <2> QED BY <1>1, <2>1, <2>2, <2>3, <2>4, <2>5, <2>6 DEF TopologyNext
<1>2. CASE Throw /\ UNCHANGED input
  BY <1>2, ThrowKeeps
<1>3. CASE UNCHANGED topology
  BY <1>3, TopologyStays
<1>4. TopologyNext \/ (Throw /\ UNCHANGED input) \/ UNCHANGED topology
  <2>1. CASE StartFloydWarshall
    BY <2>1 DEF StartFloydWarshall
  <2>2. CASE Relax \/ InstallArbiters \/ SetupEndpoint \/ NoCandidates \/ Forward \/ DeliverLocally
    BY <2>2 DEF Relax, InstallArbiters, SetupEndpoint, NoCandidates, Forward, DeliverLocally
  <2>3. CASE \E s, t \in Node : RequestSource(s, t)
    BY <2>3 DEF RequestSource
  <2>4. CASE UNCHANGED vars
    BY <2>4 DEF vars
  <2> QED BY <2>1, <2>2, <2>3, <2>4 DEF Next, Proceed
<1> QED BY <1>1, <1>2, <1>3, <1>4

-----------------------------------------------------------------------------
(* The topology once it is set up.                                           *)

SetUp ==
  /\ GraphSound /\ DevicesSound(device, interfaces) /\ Len(interfaces) = Len(graph.edges)
  /\ NodesRead /\ input \in Input
  /\ \A p \in Range(Properties) : PropertyRead(p)

LEMMA ReadyIs ==
  ASSUME TopologyInv, At("ready")
  PROVE  SetUp
<1>1. step = 10 /\ input \in Input
  BY AtIs DEF TopologyInv
<1>2. /\ GraphRead /\ DevicesSound(device, interfaces) /\ Len(interfaces) = Len(graph.edges)
      /\ NodesRead
  BY <1>1 DEF TopologyInv
<1>3. \A i \in 1 .. 5 : PropertyRead(Properties[i])
  BY <1>1 DEF TopologyInv
<1>4. \A p \in Range(Properties) : PropertyRead(p)
  BY <1>3, PropertiesAre
<1>5. GraphSound
  BY <1>1, <1>2, GraphIsSound
<1> QED BY <1>1, <1>2, <1>4, <1>5 DEF SetUp

(* Both directions of every edge, and nothing else.                          *)
LEMMA LinksAre ==
  ASSUME GraphSound
  PROVE  /\ Edges = EdgeSet
         /\ Links = EdgeSet \cup {Flip(e) : e \in EdgeSet}
         /\ \A a, b \in Node : Linked(a, b) <=> <<a, b>> \in Links
         /\ \A l \in Links : /\ l = <<l[1], l[2]>> /\ Flip(l) \in Links
                             /\ l[1] \in Node /\ l[2] \in Node /\ l[1] # l[2]
         /\ \A a, b \in Node : <<a, b>> \in EdgeSet <=> <<a, b>> \in Links /\ a < b
<1>1. /\ graph.edges \in [1 .. Len(graph.edges) -> EdgeSet]
      /\ \A e \in EdgeSet : \E i \in 1 .. Len(graph.edges) : graph.edges[i] = e
      /\ EdgeSet \subseteq Upward /\ n \in Nat /\ Node = 0 .. n - 1
      /\ \A a, b \in Node : Linked(a, b) <=> <<a, b>> \in EdgeSet \/ <<b, a>> \in EdgeSet
  BY DEF GraphSound, GraphTyped
<1>2. Edges = EdgeSet
  BY <1>1 DEF Edges, Range
<1>3. Links = EdgeSet \cup {Flip(e) : e \in EdgeSet}
  BY <1>2 DEF Links, Flip
<1>4. \A e \in EdgeSet : /\ e = <<e[1], e[2]>> /\ e[1] \in Node /\ e[2] \in Node
                         /\ e[1] < e[2] /\ e[1] \in Nat /\ e[2] \in Nat
  <2> TAKE e \in EdgeSet
  <2>1. e \in Node \X Node /\ e[1] < e[2]
    BY <1>1 DEF Upward
  <2> QED BY <1>1, <2>1
<1>5. ASSUME NEW a \in Node, NEW b \in Node PROVE <<a, b>> \in Links <=> Linked(a, b)
  <2>1. <<b, a>> \in EdgeSet => <<a, b>> \in Links
    BY <1>3 DEF Flip
  <2>2. <<a, b>> \in Links => <<a, b>> \in EdgeSet \/ <<b, a>> \in EdgeSet
    <3> SUFFICES ASSUME <<a, b>> \in Links, <<a, b>> \notin EdgeSet PROVE <<b, a>> \in EdgeSet
      OBVIOUS
    <3>1. PICK e \in EdgeSet : <<a, b>> = Flip(e)
      BY <1>3
    <3>2. e[1] = b /\ e[2] = a
      BY <3>1 DEF Flip
    <3> QED BY <1>4, <3>1, <3>2
  <2> QED BY <1>1, <1>3, <2>1, <2>2
<1>6. ASSUME NEW l \in Links
      PROVE  /\ l = <<l[1], l[2]>> /\ Flip(l) \in Links
             /\ l[1] \in Node /\ l[2] \in Node /\ l[1] # l[2]
  <2>1. CASE l \in EdgeSet
    BY <1>3, <1>4, <2>1
  <2>2. CASE l \notin EdgeSet
    <3>1. PICK e \in EdgeSet : l = Flip(e)
      BY <1>3, <2>2
    <3>2. l[1] = e[2] /\ l[2] = e[1] /\ l = <<l[1], l[2]>>
      BY <3>1 DEF Flip
    <3>3. Flip(l) = e
      BY <1>4, <3>2 DEF Flip
    <3> QED BY <1>3, <1>4, <3>2, <3>3
  <2> QED BY <2>1, <2>2
<1>7. ASSUME NEW a \in Node, NEW b \in Node
      PROVE  <<a, b>> \in EdgeSet <=> <<a, b>> \in Links /\ a < b
  <2>1. <<a, b>> \in EdgeSet => a < b
    BY <1>4
  <2>2. ASSUME <<a, b>> \in Links, a < b PROVE <<a, b>> \in EdgeSet
    <3>1. a \in Nat /\ b \in Nat
      BY <1>1
    <3>2. <<b, a>> \in EdgeSet => b < a
      BY <1>4
    <3> QED BY <1>1, <1>5, <2>2, <3>1, <3>2
  <2> QED BY <1>3, <2>1, <2>2
<1> QED BY <1>2, <1>3, <1>5, <1>6, <1>7

(* The edge a link belongs to, by its place in the sorted edges.              *)
LinkOn(l, i) == l = graph.edges[i] \/ l = Flip(graph.edges[i])

Host(l) == IF l[1] < l[2] THEN 1 ELSE 2

LEMMA LinkOnIs ==
  ASSUME GraphSound, NEW l, NEW i \in 1 .. Len(graph.edges), LinkOn(l, i)
  PROVE  /\ l[1] < l[2] => l = graph.edges[i]
         /\ ~(l[1] < l[2]) => l = Flip(graph.edges[i])
         /\ l = graph.edges[i] => Host(l) = 1
         /\ l = Flip(graph.edges[i]) => Host(l) = 2 /\ l[1] = graph.edges[i][2]
                                         /\ l[2] = graph.edges[i][1]
<1> DEFINE e == graph.edges[i]
<1>1. e = <<e[1], e[2]>> /\ e[1] \in Nat /\ e[2] \in Nat /\ e[1] < e[2]
  BY EdgeIs
<1>2. l = e \/ l = Flip(e)
  BY DEF LinkOn
<1> HIDE DEF e
<1>3. l = Flip(e) => l[1] = e[2] /\ l[2] = e[1]
  BY DEF Flip
<1>4. /\ l[1] < l[2] => l = e
      /\ ~(l[1] < l[2]) => l = Flip(e)
      /\ l = e => Host(l) = 1
      /\ l = Flip(e) => Host(l) = 2
  BY <1>1, <1>2, <1>3 DEF Host
<1> QED BY <1>3, <1>4 DEF e

LEMMA LinkHasOneEdge ==
  ASSUME GraphSound
  PROVE  /\ \A l \in Links : \E i \in 1 .. Len(graph.edges) : LinkOn(l, i)
         /\ \A i \in 1 .. Len(graph.edges) : \A l : LinkOn(l, i) => l \in Links
         /\ \A i, j \in 1 .. Len(graph.edges) : \A l : LinkOn(l, i) /\ LinkOn(l, j) => i = j
         /\ \A i \in 1 .. Len(graph.edges) : \A k, l :
              LinkOn(l, i) => (LinkOn(k, i) <=> k = l \/ k = Flip(l))
<1>1. /\ graph.edges \in [1 .. Len(graph.edges) -> EdgeSet]
      /\ \A e \in EdgeSet : \E i \in 1 .. Len(graph.edges) : graph.edges[i] = e
      /\ \A i, j \in 1 .. Len(graph.edges) : graph.edges[i] = graph.edges[j] => i = j
  BY DEF GraphSound
<1>2. Links = EdgeSet \cup {Flip(e) : e \in EdgeSet}
  BY LinksAre
<1>3. ASSUME NEW l \in Links PROVE \E i \in 1 .. Len(graph.edges) : LinkOn(l, i)
  <2>1. PICK e \in EdgeSet : l = e \/ l = Flip(e)
    BY <1>2
  <2>2. PICK i \in 1 .. Len(graph.edges) : graph.edges[i] = e
    BY <1>1
  <2> QED BY <2>1, <2>2 DEF LinkOn
<1>4. ASSUME NEW i \in 1 .. Len(graph.edges), NEW l, LinkOn(l, i) PROVE l \in Links
  BY <1>1, <1>2, <1>4 DEF LinkOn
<1>5. ASSUME NEW i \in 1 .. Len(graph.edges), NEW j \in 1 .. Len(graph.edges), NEW l,
             LinkOn(l, i), LinkOn(l, j)
      PROVE  i = j
  <2> DEFINE e == graph.edges[i]
             f == graph.edges[j]
  <2>1. e = <<e[1], e[2]>> /\ f = <<f[1], f[2]>> /\ (e = f => i = j)
    BY <1>1, EdgeIs
  <2>2. CASE l[1] < l[2]
    <3>1. l = e /\ l = f
      BY <1>5, <2>2, LinkOnIs
    <3> QED BY <2>1, <3>1
  <2>3. CASE ~(l[1] < l[2])
    <3>1. l = Flip(e) /\ l = Flip(f)
      BY <1>5, <2>3, LinkOnIs
    <3> HIDE DEF e, f
    <3>2. e[1] = f[1] /\ e[2] = f[2]
      BY <3>1 DEF Flip
    <3> QED BY <2>1, <3>2
  <2> QED BY <2>2, <2>3
<1>6. ASSUME NEW i \in 1 .. Len(graph.edges), NEW k, NEW l, LinkOn(l, i)
      PROVE  LinkOn(k, i) <=> k = l \/ k = Flip(l)
  <2> DEFINE e == graph.edges[i]
  <2>1. e = <<e[1], e[2]>>
    BY EdgeIs
  <2>2. l = e \/ l = Flip(e)
    BY <1>6 DEF LinkOn
  <2>3. LinkOn(k, i) <=> k = e \/ k = Flip(e)
    BY DEF LinkOn
  <2> HIDE DEF e
  <2>4. Flip(Flip(e)) = e
    BY <2>1 DEF Flip
  <2> QED BY <2>2, <2>3, <2>4
<1> QED BY <1>3, <1>4, <1>5, <1>6

(* What is at the sending end of a link.                                     *)
LEMMA DevicesAre ==
  ASSUME SetUp
  PROVE  /\ DOMAIN device = Links
         /\ \A i \in 1 .. Len(graph.edges) : \A l : LinkOn(l, i) =>
              /\ IsDevice(device[l], l[1], l[2], <<i - 1, Host(l)>>)
              /\ device[l].ifIdx = IF Host(l) = 1 THEN interfaces[i][1] ELSE interfaces[i][2]
<1> DEFINE m == Len(graph.edges)
<1>1. /\ GraphSound /\ Len(interfaces) = m
      /\ DOMAIN device = {graph.edges[i] : i \in 1 .. m} \cup {Flip(graph.edges[i]) : i \in 1 .. m}
      /\ \A i \in 1 .. m :
           /\ IsDevice(device[graph.edges[i]], graph.edges[i][1], graph.edges[i][2], <<i - 1, 1>>)
           /\ IsDevice(device[Flip(graph.edges[i])], graph.edges[i][2], graph.edges[i][1],
                       <<i - 1, 2>>)
           /\ device[graph.edges[i]].ifIdx = interfaces[i][1]
           /\ device[Flip(graph.edges[i])].ifIdx = interfaces[i][2]
  BY DEF SetUp, DevicesSound
<1>2. \A l : l \in DOMAIN device <=> \E i \in 1 .. m : LinkOn(l, i)
  BY <1>1 DEF LinkOn
<1>3. DOMAIN device = Links
  BY <1>1, <1>2, LinkHasOneEdge
<1>4. ASSUME NEW i \in 1 .. m, NEW l, LinkOn(l, i)
      PROVE  /\ IsDevice(device[l], l[1], l[2], <<i - 1, Host(l)>>)
             /\ device[l].ifIdx = IF Host(l) = 1 THEN interfaces[i][1] ELSE interfaces[i][2]
  <2>1. CASE l = graph.edges[i]
    <3>1. Host(l) = 1
      BY <1>1, <1>4, <2>1, LinkOnIs
    <3> QED BY <1>1, <2>1, <3>1
  <2>2. CASE l = Flip(graph.edges[i])
    <3>1. Host(l) = 2 /\ l[1] = graph.edges[i][2] /\ l[2] = graph.edges[i][1]
      BY <1>1, <1>4, <2>2, LinkOnIs
    <3> QED BY <1>1, <2>2, <3>1
  <2> QED BY <1>4, <2>1, <2>2 DEF LinkOn
<1> QED BY <1>3, <1>4

-----------------------------------------------------------------------------
(* Every link has what the file says of it.                                  *)

LEMMA SettingIs ==
  ASSUME SetUp, NEW p \in Range(Properties), NEW a, NEW b, <<a, b>> \in KeysOf(p)
  PROVE  settings[p][<<a, b>>] = Said(p, a, b)
<1> DEFINE v == Param(p)
<1>1. settings[p] = Mapping(p)
  BY DEF SetUp, PropertyRead
<1>2. Mapping(p)[<<a, b>>] = IF v.form = "map" THEN Entry(v, <<a, b>>) ELSE v.items[1]
  BY DEF Mapping
<1>3. Said(p, a, b) = IF v.form = "map" THEN Entry(v, <<a, b>>) ELSE v.items[1]
  BY DEF Said, Entry, Pair, Int64
<1> QED BY <1>1, <1>2, <1>3

LEMMA InstalledAsWanted ==
  ASSUME NEW v
  PROVE  InstalledQdisc(v) = v
BY DEF InstalledQdisc, DefaultQdisc, NoQdisc

LEMMA PropertiesListed ==
  /\ Delay \in Range(Properties) /\ Rate \in Range(Properties) /\ Queue \in Range(Properties)
  /\ Error \in Range(Properties) /\ Qdisc \in Range(Properties)
  /\ KeysOf(Delay) = Edges /\ KeysOf(Rate) = Links /\ KeysOf(Queue) = Links
  /\ KeysOf(Error) = Links /\ KeysOf(Qdisc) = Links
<1>1. /\ Properties[1] = Delay /\ Properties[2] = Rate /\ Properties[3] = Queue
      /\ Properties[4] = Error /\ Properties[5] = Qdisc /\ DOMAIN Properties = 1 .. 5
  BY DEF Properties
<1>2. 1 \in 1 .. 5 /\ 2 \in 1 .. 5 /\ 3 \in 1 .. 5 /\ 4 \in 1 .. 5 /\ 5 \in 1 .. 5
  OBVIOUS
<1>3. /\ Delay \in Range(Properties) /\ Rate \in Range(Properties) /\ Queue \in Range(Properties)
      /\ Error \in Range(Properties) /\ Qdisc \in Range(Properties)
  BY <1>1, <1>2 DEF Range
<1>4. /\ KeysOf(Delay) = Edges /\ KeysOf(Rate) = Links /\ KeysOf(Queue) = Links
      /\ KeysOf(Error) = Links /\ KeysOf(Qdisc) = Links
  BY DEF KeysOf, Delay, Rate, Queue, Error, Qdisc
<1> QED BY <1>3, <1>4

LEMMA LinkCarries ==
  ASSUME SetUp, NEW a \in Node, NEW b \in Node, <<a, b>> \in Links
  PROVE  LET s == device[<<a, b>>] r == device[<<b, a>>] IN
         /\ s.node = a /\ s.rate = Said(Rate, a, b) /\ s.queue = Said(Queue, a, b)
         /\ s.qdisc = Said(Qdisc, a, b) /\ r.receiveErrorModel = Said(Error, a, b)
         /\ a < b => s.delay = Said(Delay, a, b) /\ r.delay = s.delay
         /\ \A k \in Links : device[k].address[1] = s.address[1] <=> k \in {<<a, b>>, <<b, a>>}
         /\ s.address # r.address
         /\ systemId[a] # systemId[b] => s.channel = "remote" /\ r.channel = "remote"
<1> DEFINE l == <<a, b>>
           f == <<b, a>>
           s == device[l]
           r == device[f]
           m == Len(graph.edges)
<1>1. GraphSound
  BY DEF SetUp
<1>2. l \in Links /\ f \in Links /\ a # b /\ f = Flip(l) /\ l[1] = a /\ l[2] = b /\ f[1] = b
      /\ f[2] = a
  <2>1. Flip(l) = f /\ l[1] = a /\ l[2] = b /\ f[1] = b /\ f[2] = a
    BY DEF Flip
  <2> HIDE DEF l, f
  <2>2. l \in Links
    BY DEF l
  <2> QED BY <1>1, <2>1, <2>2, LinksAre
<1>3. PICK i \in 1 .. m : LinkOn(l, i)
  <2> HIDE DEF l
  <2> QED BY <1>1, <1>2, LinkHasOneEdge
<1> HIDE DEF l, f
<1>4. LinkOn(f, i)
  BY <1>1, <1>2, <1>3, LinkHasOneEdge
<1>5. IsDevice(s, a, b, <<i - 1, Host(l)>>) /\ IsDevice(r, b, a, <<i - 1, Host(f)>>)
  BY <1>2, <1>3, <1>4, DevicesAre
<1>6. /\ s.node = a /\ s.rate = settings[Rate][<<a, b>>] /\ s.queue = settings[Queue][<<a, b>>]
      /\ s.qdisc = InstalledQdisc(settings[Qdisc][<<a, b>>])
      /\ r.receiveErrorModel = settings[Error][<<a, b>>]
      /\ s.delay = settings[Delay][IF a < b THEN <<a, b>> ELSE <<b, a>>]
      /\ r.delay = settings[Delay][IF b < a THEN <<b, a>> ELSE <<a, b>>]
      /\ s.address = <<i - 1, Host(l)>> /\ r.address = <<i - 1, Host(f)>>
      /\ s.channel = ChannelKind(a, b) /\ r.channel = ChannelKind(b, a)
  BY <1>5 DEF IsDevice
<1>7. a \in Nat /\ b \in Nat
  BY <1>1 DEF GraphSound, GraphTyped
<1>8. /\ s.rate = Said(Rate, a, b) /\ s.queue = Said(Queue, a, b) /\ s.qdisc = Said(Qdisc, a, b)
      /\ r.receiveErrorModel = Said(Error, a, b)
  <2>1. <<a, b>> \in Links
    OBVIOUS
  <2>2. /\ settings[Rate][<<a, b>>] = Said(Rate, a, b)
        /\ settings[Queue][<<a, b>>] = Said(Queue, a, b)
        /\ settings[Qdisc][<<a, b>>] = Said(Qdisc, a, b)
        /\ settings[Error][<<a, b>>] = Said(Error, a, b)
    BY <2>1, SettingIs, PropertiesListed
  <2> QED BY <1>6, <2>2, InstalledAsWanted
<1>9. a < b => s.delay = Said(Delay, a, b) /\ r.delay = s.delay
  <2> SUFFICES ASSUME a < b PROVE s.delay = Said(Delay, a, b) /\ r.delay = s.delay
    OBVIOUS
  <2>1. <<a, b>> \in Edges
    BY <1>1, LinksAre
  <2>2. settings[Delay][<<a, b>>] = Said(Delay, a, b)
    BY <2>1, SettingIs, PropertiesListed
  <2>3. ~(b < a)
    BY <1>7
  <2> QED BY <1>6, <2>2, <2>3
<1>10. s.address # r.address /\ s.address[1] = i - 1
  <2>1. Host(l) # Host(f)
    BY <1>2, <1>7 DEF Host
  <2> QED BY <1>6, <2>1
<1>11. ASSUME NEW k \in Links PROVE device[k].address[1] = s.address[1] <=> k = l \/ k = f
  <2>1. PICK j \in 1 .. m : LinkOn(k, j)
    BY <1>1, LinkHasOneEdge
  <2>2. IsDevice(device[k], k[1], k[2], <<j - 1, Host(k)>>)
    BY <2>1, DevicesAre
  <2>3. device[k].address[1] = j - 1
    BY <2>2 DEF IsDevice
  <2>4. device[k].address[1] = s.address[1] <=> j = i
    BY <1>10, <2>3
  <2>5. LinkOn(k, i) <=> k = l \/ k = f
    BY <1>1, <1>2, <1>3, LinkHasOneEdge
  <2>6. LinkOn(k, i) => i = j
    BY <1>1, <2>1, LinkHasOneEdge
  <2> QED BY <2>1, <2>4, <2>5, <2>6
<1>12. systemId[a] # systemId[b] => s.channel = "remote" /\ r.channel = "remote"
  <2>1. /\ systemId[a] = IF input.assignment = <<>> THEN 0 ELSE input.assignment[a + 1]
        /\ systemId[b] = IF input.assignment = <<>> THEN 0 ELSE input.assignment[b + 1]
    BY DEF SetUp, NodesRead
  <2>2. systemId[a] # systemId[b] =>
          /\ input.assignment # <<>>
          /\ systemId[a] # input.here \/ systemId[b] # input.here
    BY <2>1
  <2> QED BY <1>6, <2>2 DEF ChannelKind
<1> QED BY <1>6, <1>8, <1>9, <1>10, <1>11, <1>12 DEF l, f

(* The neighbours of a node, by its links.                                   *)
LEMMA NeighboursCounted ==
  ASSUME SetUp, NEW a \in Node
  PROVE  /\ LinksFrom(device, a) = {k \in Links : k[1] = a}
         /\ IsFiniteSet(LinksFrom(device, a))
         /\ Cardinality(graph.adjacent[a]) = Cardinality(LinksFrom(device, a))
<1> DEFINE F == LinksFrom(device, a)
           A == graph.adjacent[a]
           other == [l \in F |-> l[2]]
<1>1. GraphSound /\ Numbered(device, a)
  BY DEF SetUp, DevicesSound
<1>2. F = {k \in Links : k[1] = a}
  BY DevicesAre DEF LinksFrom
<1>3. IsFiniteSet(F)
  BY <1>1 DEF Numbered
<1>4. \A b \in Node : b \in A <=> <<a, b>> \in Links
  BY <1>1, LinksAre DEF Linked
<1>5. A \subseteq Node
  BY <1>1 DEF GraphSound, GraphTyped
<1>6. \A l \in F : l = <<a, l[2]>> /\ l[2] \in Node
  BY <1>1, <1>2, LinksAre
<1> HIDE DEF F, A
<1>7. \A l \in F : l[2] \in A
  BY <1>2, <1>4, <1>6
<1>8. other \in [F -> A]
  BY <1>7
<1>9. \A k, l \in F : other[k] = other[l] => k = l
  BY <1>6
<1>10. \A b \in A : \E l \in F : other[l] = b
  <2> TAKE b \in A
  <2>1. <<a, b>> \in F
    BY <1>2, <1>4, <1>5
  <2>2. other[<<a, b>>] = b
    BY <2>1
  <2> QED BY <2>1, <2>2
<1> HIDE DEF other
<1>11. ExistsBijection(F, A)
  BY <1>8, <1>9, <1>10 DEF ExistsBijection, Bijection, Injection, Surjection, IsInjective
<1>12. Cardinality(A) = Cardinality(F)
  BY <1>3, <1>11, FS_Bijection
<1> QED BY <1>2, <1>3, <1>12 DEF F, A

LEMMA NumbersFromOne ==
  ASSUME SetUp, NEW a \in Node
  PROVE  {device[l].ifIdx : l \in {k \in Links : k[1] = a}} = 1 .. Cardinality(graph.adjacent[a])
<1>1. Numbered(device, a)
  BY DEF SetUp, DevicesSound
<1>2. /\ LinksFrom(device, a) = {k \in Links : k[1] = a}
      /\ Cardinality(graph.adjacent[a]) = Cardinality(LinksFrom(device, a))
  BY NeighboursCounted
<1> QED BY <1>1, <1>2 DEF Numbered

LEMMA SettingsCarried ==
  ASSUME TopologyInv
  PROVE  LinksCarryTheirSettings
<1> SUFFICES ASSUME At("ready") PROVE LinksCarryTheirSettings
  BY DEF LinksCarryTheirSettings
<1>1. SetUp /\ GraphSound
  BY ReadyIs DEF SetUp
<1>2. DOMAIN device = Links
  BY <1>1, DevicesAre
<1>3. ASSUME NEW l \in Links
      PROVE  LET a == l[1] b == l[2] s == device[l] r == device[<<b, a>>] IN
             /\ s.node = a /\ s.rate = Said(Rate, a, b) /\ s.queue = Said(Queue, a, b)
             /\ s.qdisc = Said(Qdisc, a, b) /\ r.receiveErrorModel = Said(Error, a, b)
             /\ a < b => s.delay = Said(Delay, a, b) /\ r.delay = s.delay
             /\ \A k \in Links : device[k].address[1] = s.address[1] <=> k \in {l, <<b, a>>}
             /\ s.address # r.address
             /\ systemId[a] # systemId[b] => s.channel = "remote" /\ r.channel = "remote"
  <2> DEFINE a == l[1]
             b == l[2]
  <2>1. l = <<a, b>> /\ a \in Node /\ b \in Node
    BY <1>1, LinksAre
  <2> HIDE DEF a, b
  <2>2. LET s == device[<<a, b>>] r == device[<<b, a>>] IN
         /\ s.node = a /\ s.rate = Said(Rate, a, b) /\ s.queue = Said(Queue, a, b)
         /\ s.qdisc = Said(Qdisc, a, b) /\ r.receiveErrorModel = Said(Error, a, b)
         /\ a < b => s.delay = Said(Delay, a, b) /\ r.delay = s.delay
         /\ \A k \in Links : device[k].address[1] = s.address[1] <=> k \in {<<a, b>>, <<b, a>>}
         /\ s.address # r.address
         /\ systemId[a] # systemId[b] => s.channel = "remote" /\ r.channel = "remote"
    BY <1>1, <2>1, LinkCarries
  <2>3. l[1] = a /\ l[2] = b
    BY DEF a, b
  <2> QED BY <2>1, <2>2, <2>3
<1>4. \A a \in Node : {device[l].ifIdx : l \in {k \in Links : k[1] = a}}
                        = 1 .. Cardinality(graph.adjacent[a])
  BY <1>1, NumbersFromOne
<1> QED BY <1>2, <1>3, <1>4, Zenon DEF LinksCarryTheirSettings

-----------------------------------------------------------------------------
(* What the parsers let through is a topology.                               *)

LEMMA LinksCounted ==
  ASSUME GraphSound
  PROVE  /\ IsFiniteSet(Links) /\ Cardinality(Links) = 2 * Len(graph.edges)
         /\ {l \in Node \X Node : Linked(l[1], l[2])} = Links
<1> DEFINE m == Len(graph.edges)
           E == EdgeSet
           F == {Flip(e) : e \in E}
           flip == [e \in E |-> Flip(e)]
<1>1. /\ m \in Nat /\ graph.edges \in [1 .. m -> E] /\ E \subseteq Upward /\ IsFiniteSet(E)
      /\ \A e \in E : \E i \in 1 .. m : graph.edges[i] = e
      /\ \A i, j \in 1 .. m : graph.edges[i] = graph.edges[j] => i = j
      /\ n \in Nat /\ Node = 0 .. n - 1
  BY DEF GraphSound, GraphTyped
<1>2. \A e \in E : /\ e = <<e[1], e[2]>> /\ e[1] < e[2] /\ e[1] \in Nat /\ e[2] \in Nat
                   /\ Flip(e)[1] = e[2] /\ Flip(e)[2] = e[1]
  <2> TAKE e \in E
  <2>1. e \in Node \X Node /\ e[1] < e[2]
    BY <1>1 DEF Upward
  <2> QED BY <1>1, <2>1 DEF Flip
<1>3. Links = E \cup F
  BY LinksAre
<1>4. Cardinality(E) = m
  <2> HIDE DEF m, E
  <2>1. ExistsBijection(1 .. m, E)
    BY <1>1 DEF ExistsBijection, Bijection, Injection, Surjection, IsInjective
  <2> QED BY <1>1, <2>1, FS_CountingElements
<1>5. IsFiniteSet(F) /\ Cardinality(F) = m
  <2>1. \A e, f \in E : Flip(e) = Flip(f) => e = f
    <3> HIDE DEF E
    <3> QED BY <1>2
  <2>2. flip \in [E -> F]
    OBVIOUS
  <2>3. \A e, f \in E : flip[e] = flip[f] => e = f
    BY <2>1
  <2>4. \A x \in F : \E e \in E : flip[e] = x
    OBVIOUS
  <2> HIDE DEF E, F, flip
  <2>5. ExistsBijection(E, F)
    BY <2>2, <2>3, <2>4 DEF ExistsBijection, Bijection, Injection, Surjection, IsInjective
  <2> QED BY <1>1, <1>4, <2>5, FS_Bijection
<1>6. E \cap F = {}
  <2> SUFFICES ASSUME NEW e \in E, NEW f \in E, e = Flip(f) PROVE FALSE
    OBVIOUS
  <2> HIDE DEF E
  <2> QED BY <1>2
<1> HIDE DEF E, F, m
<1>7. IsFiniteSet(Links) /\ Cardinality(Links) = m + m
  <2>1. Cardinality(E \cap F) = 0
    BY <1>6, FS_EmptySet
  <2>2. IsFiniteSet(E \cup F) /\ Cardinality(E \cup F) = Cardinality(E) + Cardinality(F)
                                                          - Cardinality(E \cap F)
    BY <1>1, <1>5, FS_Union
  <2> QED BY <1>1, <1>3, <1>4, <1>5, <2>1, <2>2
<1>8. {l \in Node \X Node : Linked(l[1], l[2])} = Links
  <2>1. /\ \A l \in Links : l = <<l[1], l[2]>> /\ l[1] \in Node /\ l[2] \in Node
        /\ \A a, b \in Node : Linked(a, b) <=> <<a, b>> \in Links
    BY LinksAre
  <2>2. \A l \in Node \X Node : l = <<l[1], l[2]>> /\ l[1] \in Node /\ l[2] \in Node
    OBVIOUS
  <2> QED BY <2>1, <2>2
<1> QED BY <1>1, <1>7, <1>8 DEF m

(* A mapping that no key is missing from and none is in twice.               *)
LEMMA EntryExists ==
  ASSUME NEW v, NEW D, IsFiniteSet(D), v.items \in Seq(Range(v.items)), CoversExactly(v, D),
         NEW link \in D
  PROVE  \E s \in Range(v.items) : Pair(s[1]) = link /\ Entry(v, link) = s[2]
<1> DEFINE items == v.items
           key == [i \in DOMAIN items |-> Pair(items[i][1])]
           num == Len(items)
<1>1. num \in Nat /\ DOMAIN items = 1 .. num /\ items \in [1 .. num -> Range(items)]
  BY LenProperties
<1>2. /\ \A s \in Range(items) : Pair(s[1]) \in D
      /\ IsInjective(key) /\ num = Cardinality(D)
  BY DEF CoversExactly
<1>3. key \in [1 .. num -> D]
  <2> HIDE DEF items, num
  <2>1. \A i \in 1 .. num : Pair(items[i][1]) \in D
    BY <1>1, <1>2
  <2> QED BY <1>1, <2>1
<1>4. key \in Injection(1 .. num, D)
  <2> HIDE DEF key
  <2> QED BY <1>2, <1>3 DEF Injection
<1>5. IsFiniteSet(1 .. num) /\ Cardinality(1 .. num) = num
  BY <1>1, FS_Interval
<1>6. key \in Surjection(1 .. num, D)
  <2> HIDE DEF key, num
  <2> QED BY <1>2, <1>4, <1>5, FS_Injection
<1>7. \E i \in 1 .. num : key[i] = link
  <2> HIDE DEF key, num
  <2> QED BY <1>6 DEF Surjection
<1>8. \E s \in Range(items) : Pair(s[1]) = link
  <2>1. PICK i \in 1 .. num : key[i] = link
    BY <1>7
  <2> HIDE DEF num
  <2>2. Pair(items[i][1]) = link
    BY <1>1, <2>1
  <2> QED BY <1>1, <2>2
<1>9. Entry(v, link) = (CHOOSE s \in Range(items) : Pair(s[1]) = link)[2]
  BY DEF Entry
<1> HIDE DEF items
<1> DEFINE chosen == CHOOSE s \in Range(items) : Pair(s[1]) = link
<1>10. chosen \in Range(items) /\ Pair(chosen[1]) = link
  BY <1>8
<1> QED BY <1>9, <1>10 DEF items

LEMMA QdiscRead ==
  ASSUME SetUp, NEW l \in Links
  PROVE  IsTcQdiscValue(settings[Qdisc][l]) /\ IsReadValue(Qdisc, settings[Qdisc][l])
<1> DEFINE v == Param(Qdisc)
           q == settings[Qdisc][l]
<1>1. /\ Qdisc \in Range(Properties) /\ KeysOf(Qdisc) = Links /\ PropertyRead(Qdisc)
      /\ IsRead(input.config) /\ GraphSound
  BY PropertiesListed, InputAssumption DEF SetUp
<1>2. /\ IsMapping(Qdisc) /\ q = IF v.form = "map" THEN Entry(v, l) ELSE v.items[1]
  BY <1>1 DEF PropertyRead, Mapping
<1>3. IF v.form = "map"
      THEN /\ v.items \in Seq(Range(v.items))
           /\ \A s \in Range(v.items) :
                IsSplitInTwo(s) => s[1] \in Seq(Token) /\ IsReadValue(Qdisc, s[2])
      ELSE IsReadValue(Qdisc, v.items[1])
  <2>1. Qdisc \in Range(Properties) \cap DOMAIN input.config
    BY <1>1 DEF PropertyRead, HasParam
  <2>2. v = input.config[Qdisc]
    BY DEF Param
  <2> HIDE DEF v
  <2> QED BY <1>1, <2>1, <2>2 DEF IsRead
<1>4. IsFiniteSet(Links)
  BY <1>1, LinksCounted
<1> HIDE DEF v, q
<1>5. \A x : IsValue(Qdisc, x) = IsTcQdiscValue(x)
  BY DEF IsValue, Delay, Rate, Queue, Error, Qdisc
<1>6. CASE v.form = "map"
  <2>1. CoversExactly(v, Links) /\ IsValue(Qdisc, Entry(v, l))
    BY <1>1, <1>2, <1>6 DEF IsMapping, v
  <2>2. PICK s \in Range(v.items) : Pair(s[1]) = l /\ Entry(v, l) = s[2]
    BY <1>3, <1>4, <1>6, <2>1, EntryExists
  <2>3. IsSplitInTwo(s)
    BY <2>1 DEF CoversExactly, IsMapString
  <2> QED BY <1>2, <1>3, <1>5, <1>6, <2>1, <2>2, <2>3 DEF q
<1>7. CASE v.form # "map"
  <2>1. Edges # {}
    <3>1. Links = Edges \cup {Flip(e) : e \in Edges}
      BY <1>1, LinksAre
    <3> QED BY <3>1
  <2>2. IsValue(Qdisc, v.items[1])
    BY <1>2, <1>7, <2>1 DEF IsMapping, GlobalIsValid, v
  <2> QED BY <1>2, <1>3, <1>5, <1>7, <2>2 DEF q
<1> QED BY <1>6, <1>7 DEF q

(* A limit in byte is rounded up to packets, by at most one.                 *)
LEMMA RoundedUp ==
  ASSUME NEW size \in Nat, NEW mean \in Nat \ {0}, NEW x \in Int, x <= (size + mean - 1) \div mean,
         size > 0
  PROVE  (x - 1) * mean < size
<1> DEFINE s == size + mean - 1
           y == s \div mean
<1>1. s \in Nat
  OBVIOUS
<1> HIDE DEF s
<1>2. y \in Nat /\ y * mean <= s
  BY <1>1
<1>3. x <= y
  BY DEF s
<1> HIDE DEF y
<1>4. x * mean <= y * mean
  BY <1>2, <1>3
<1>5. (x - 1) * mean = x * mean - mean /\ x * mean \in Int /\ y * mean \in Int
  BY <1>2
<1>6. s = size + mean - 1
  BY DEF s
<1> QED BY <1>1, <1>2, <1>4, <1>5, <1>6

LEMMA RedBelowCapacity ==
  ASSUME NEW v, IsTcQdiscValue(v), IsReadValue(Qdisc, v), v.kind = "simple_red"
  PROVE  /\ Int64(v.min_th_pkt) <= Int64(v.max_th_pkt)
         /\ IF v.max_size.unit = "p" THEN Int64(v.max_th_pkt) <= Int64(v.max_size.num)
            ELSE (Int64(v.max_th_pkt) - 1) * Int64(v.mean_pkt_size_byte) < Int64(v.max_size.num)
<1> DEFINE size == Int64(v.max_size.num)
           mean == Int64(v.mean_pkt_size_byte)
           hi == Int64(v.max_th_pkt)
<1>1. IsSimpleRed(v)
  BY DEF IsTcQdiscValue
<1>2. /\ v.mean_pkt_size_byte \in Token /\ v.max_size.num \in Token /\ v.max_th_pkt \in Token
  BY DEF IsReadValue
<1>3. /\ IsGeqOne(v.mean_pkt_size_byte) /\ IsGeqOne(v.max_size.num) /\ IsPositive(v.max_th_pkt)
      /\ Int64(v.min_th_pkt) <= hi /\ hi <= MaxSizePkt(v)
  BY <1>1 DEF IsSimpleRed, IsMaxSize, RedThresholds
<1>4. /\ size \in Nat \ {0} /\ mean \in Nat \ {0} /\ hi \in Nat
  <2>1. /\ IsPositive(v.mean_pkt_size_byte) /\ IsPositive(v.max_size.num) /\ size >= 1 /\ mean >= 1
        /\ IsInt64(v.mean_pkt_size_byte) /\ IsInt64(v.max_size.num) /\ IsInt64(v.max_th_pkt)
    BY <1>3 DEF IsGeqOne, IsPositive
  <2>2. size \in Nat /\ mean \in Nat /\ hi \in Nat
    BY <1>2, <1>3, <2>1, TokenIs
  <2> QED BY <2>1, <2>2
<1>5. hi <= IF v.max_size.unit = "p" THEN size ELSE (size + mean - 1) \div mean
  BY <1>3 DEF MaxSizePkt
<1> HIDE DEF size, mean, hi
<1>6. v.max_size.unit # "p" => (hi - 1) * mean < size
  BY <1>4, <1>5, RoundedUp
<1> QED BY <1>3, <1>5, <1>6 DEF size, mean, hi

LEMMA EndpointsAre ==
  ASSUME SetUp
  PROVE  {a \in Node : IsValidEndpoint(a)} = GetEndpoints
<1>1. graph.switches \cup graph.servers = Node /\ graph.tors \subseteq graph.switches
  BY DEF SetUp, GraphSound
<1>2. CASE AllNodesAreEndpoints
  BY <1>2 DEF IsValidEndpoint, GetEndpoints
<1>3. CASE ~AllNodesAreEndpoints
  BY <1>1, <1>3 DEF IsValidEndpoint, GetEndpoints
<1> QED BY <1>2, <1>3

LEMMA WellFormed ==
  ASSUME TopologyInv
  PROVE  AcceptedIsWellFormed
<1> SUFFICES ASSUME At("ready") PROVE AcceptedIsWellFormed
  BY DEF AcceptedIsWellFormed
<1>1. SetUp /\ GraphSound
  BY ReadyIs DEF SetUp
<1>2. /\ graph.switches \cup graph.servers = Node
      /\ \A s \in graph.servers : graph.adjacent[s] \cap (Node \ graph.tors) = {}
  BY <1>1 DEF GraphSound
<1>3. ASSUME NEW a \in Node
      PROVE  a \notin graph.adjacent[a] /\ \A b \in graph.adjacent[a] : Linked(b, a)
  <2>1. ASSUME NEW b \in graph.adjacent[a] PROVE a # b /\ Linked(b, a)
    <3>1. b \in Node /\ Linked(a, b)
      BY <1>1 DEF GraphSound, GraphTyped, Linked
    <3>2. <<a, b>> \in Links
      BY <1>1, <3>1, LinksAre
    <3>3. <<a, b>>[1] # <<a, b>>[2] /\ Flip(<<a, b>>) \in Links
      BY <1>1, <3>2, LinksAre
    <3>4. <<b, a>> \in Links /\ a # b
      BY <3>3, FlipIs
    <3> QED BY <1>1, <3>1, <3>4, LinksAre
  <2> QED BY <2>1
<1>4. 2 * Len(graph.edges) = Cardinality({l \in Node \X Node : Linked(l[1], l[2])})
  BY <1>1, LinksCounted
<1>5. {a \in Node : IsValidEndpoint(a)} = GetEndpoints
  BY <1>1, EndpointsAre
<1>6. ASSUME NEW l \in Links, settings[Qdisc][l].kind = "simple_red"
      PROVE  LET v == settings[Qdisc][l] IN
             /\ Int64(v.min_th_pkt) <= Int64(v.max_th_pkt)
             /\ IF v.max_size.unit = "p" THEN Int64(v.max_th_pkt) <= Int64(v.max_size.num)
                ELSE (Int64(v.max_th_pkt) - 1) * Int64(v.mean_pkt_size_byte)
                         < Int64(v.max_size.num)
  BY <1>1, <1>6, QdiscRead, RedBelowCapacity
<1> QED BY <1>2, <1>3, <1>4, <1>5, <1>6, Zenon DEF AcceptedIsWellFormed

-----------------------------------------------------------------------------
(* The inductive invariant of the routing.                                   *)

DistancesInv ==
  cursor # -1 =>
    /\ step = 10 /\ n <= MaxNodes /\ cursor \in 0 .. n * n * n
    /\ DistTyped(graph.adjacent, dist) /\ DistSound(graph.adjacent, dist)
    /\ DistSettled(graph.adjacent, dist, Triple(cursor))

CandidatesInv ==
  candidates # <<>> =>
    /\ cursor = n * n * n
    /\ candidates = [a \in Node |-> [t \in Node |-> {b \in graph.adjacent[a] : Towards(a, b, t)}]]

(* A packet belongs to the owners of its addresses, and what it has gone and  *)
(* has left to go is the distance between them.                              *)
OnTheWay ==
  \E k \in Links : \E l \in Links :
     /\ packet.src = device[k].address /\ packet.dst = device[l].address
     /\ packet.hops + Distance(packet.at, l[1]) = Distance(k[1], l[1])

IsPacket(p) == p = [src |-> p.src, dst |-> p.dst, at |-> p.at, hops |-> p.hops]

TrafficInv ==
  /\ IsPacket(packet)
  /\ leg # "idle" =>
       /\ candidates # <<>> /\ packet.at \in Node /\ packet.hops \in Nat
       /\ \E l \in Links : packet.dst = device[l].address
  /\ leg = "request" => packet.hops = 0
  /\ leg \in {"out", "back", "done"} => OnTheWay

RoutingInv == TopologyInv /\ DistancesInv /\ CandidatesInv /\ TrafficInv

LEMMA NoNodesNoCursor ==
  ASSUME n \in Nat
  PROVE  n * n * n \in Nat /\ n * n * n # -1
<1>1. n * n * n \in Nat
  OBVIOUS
<1> QED BY <1>1

LEMMA TripleStays ==
  ASSUME UNCHANGED graph
  PROVE  Triple(cursor)' = Triple(cursor') /\ n' = n /\ graph'.adjacent = graph.adjacent
BY DEF Triple, n

LEMMA ReadyGraph ==
  ASSUME TopologyInv, step = 10
  PROVE  SetUp /\ GraphSound /\ GraphTyped /\ n \in Nat /\ DOMAIN graph.adjacent = Node
         /\ Node = 0 .. n - 1
<1>1. At("ready")
  BY AtIs DEF TopologyInv
<1>2. SetUp
  BY <1>1, ReadyIs
<1>3. GraphSound /\ GraphTyped
  BY <1>2 DEF SetUp, GraphSound
<1> QED BY <1>2, <1>3 DEF GraphTyped

LEMMA DistancesStart ==
  ASSUME TopologyInv, DistancesInv, CandidatesInv, StartFloydWarshall
  PROVE  DistancesInv' /\ CandidatesInv'
<1>1. step = 10 /\ cursor = -1 /\ n \in Nat /\ UNCHANGED candidates
  BY AtIs DEF TopologyInv, StartFloydWarshall, routing
<1>2. candidates = <<>>
  BY <1>1, NoNodesNoCursor DEF CandidatesInv
<1>3. CandidatesInv'
  BY <1>1, <1>2 DEF CandidatesInv
<1>4. CASE n > MaxNodes
  <2>1. cursor' = -1
    BY <1>1, <1>4 DEF StartFloydWarshall, routing
  <2> QED BY <1>3, <2>1 DEF DistancesInv
<1>5. CASE ~(n > MaxNodes)
  <2>1. /\ cursor' = 0 /\ UNCHANGED topology
        /\ dist' = [i \in Node |-> [j \in Node |->
                     IF i = j THEN 0 ELSE IF Linked(i, j) THEN 1 ELSE INF]]
    BY <1>5 DEF StartFloydWarshall
  <2>2. step' = 10 /\ graph' = graph
    BY <1>1, <2>1 DEF topology
  <2>3. DOMAIN graph.adjacent = Node /\ Node = 0 .. n - 1
    BY <1>1, ReadyGraph
  <2>4. dist' = FirstDistances(graph.adjacent)
    BY <2>1, <2>3 DEF FirstDistances, Linked
  <2>5. INF \in Nat /\ INF > 0 /\ n <= MaxNodes
    BY <1>1, <1>5, InfAssumption
  <2>6. /\ DistTyped(graph.adjacent, dist') /\ DistSound(graph.adjacent, dist')
        /\ DistSettled(graph.adjacent, dist', Triple(0))
    BY <1>1, <2>3, <2>4, <2>5, StartSound
  <2>7. 0 \in 0 .. n * n * n
    BY <1>1, NoNodesNoCursor
  <2>8. Triple(cursor)' = Triple(0) /\ n' = n
    BY <2>1, <2>2, TripleStays
  <2> QED BY <1>3, <2>1, <2>2, <2>5, <2>6, <2>7, <2>8 DEF DistancesInv
<1> QED BY <1>4, <1>5

LEMMA DistancesRelaxed ==
  ASSUME TopologyInv, DistancesInv, CandidatesInv, Relax
  PROVE  DistancesInv' /\ CandidatesInv'
<1>1. n \in Nat /\ n * n * n \in Nat /\ cursor \in 0 .. n * n * n - 1 /\ cursor' = cursor + 1
      /\ UNCHANGED <<topology, candidates>>
  BY NoNodesNoCursor DEF TopologyInv, Relax
<1>2. cursor # -1 /\ cursor # n * n * n /\ cursor + 1 \in 0 .. n * n * n
  BY <1>1
<1>3. /\ step = 10 /\ n <= MaxNodes
      /\ DistTyped(graph.adjacent, dist) /\ DistSound(graph.adjacent, dist)
      /\ DistSettled(graph.adjacent, dist, Triple(cursor))
  BY <1>2 DEF DistancesInv
<1>4. step' = 10 /\ graph' = graph
  BY <1>1, <1>3 DEF topology
<1>5. dist' = Relaxed(dist, Triple(cursor))
  BY DEF Relax, Relaxed
<1>6. DOMAIN graph.adjacent = Node /\ Node = 0 .. n - 1
  BY <1>3, ReadyGraph
<1>7. n # 0 /\ INF \in Nat
  BY <1>1, IterationExists, InfAssumption
<1>8. /\ DistTyped(graph.adjacent, dist') /\ DistSound(graph.adjacent, dist')
      /\ DistSettled(graph.adjacent, dist', Triple(cursor + 1))
  BY <1>1, <1>3, <1>5, <1>6, <1>7, RelaxedSound
<1>9. Triple(cursor)' = Triple(cursor + 1) /\ n' = n
  BY <1>1, <1>4, TripleStays
<1>10. DistancesInv'
  BY <1>1, <1>2, <1>3, <1>4, <1>8, <1>9 DEF DistancesInv
<1>11. CandidatesInv'
  BY <1>1, <1>2 DEF CandidatesInv
<1> QED BY <1>10, <1>11

LEMMA RoutingStays ==
  ASSUME DistancesInv, CandidatesInv, UNCHANGED <<step, graph, routing>>
  PROVE  DistancesInv' /\ CandidatesInv'
<1>1. UNCHANGED <<dist, cursor, candidates>>
  BY DEF routing
<1>2. DistancesInv'
  BY <1>1, TripleStays DEF DistancesInv
<1>3. CandidatesInv'
  <2> SUFFICES ASSUME candidates' # <<>> PROVE CandidatesInv'
    BY DEF CandidatesInv
  <2>1. /\ cursor = n * n * n
        /\ candidates = [a \in Node |-> [t \in Node |->
                           {b \in graph.adjacent[a] : Towards(a, b, t)}]]
    BY <1>1 DEF CandidatesInv
  <2>2. \A a, b, t : Towards(a, b, t)' = Towards(a, b, t)
    BY <1>1 DEF Towards
  <2>3. Node' = Node /\ n' = n
    BY DEF Node, n
  <2> QED BY <1>1, <2>1, <2>2, <2>3 DEF CandidatesInv
<1> QED BY <1>2, <1>3

LEMMA CandidatesFound ==
  ASSUME TopologyInv, DistancesInv, InstallArbiters
  PROVE  DistancesInv' /\ CandidatesInv'
<1>1. /\ cursor = n * n * n /\ UNCHANGED <<topology, dist, cursor>>
      /\ candidates' = [a \in Node |-> [t \in Node |->
                          {b \in graph.adjacent[a] : Towards(a, b, t)}]]
  BY DEF InstallArbiters
<1>2. UNCHANGED <<step, graph>>
  BY <1>1 DEF topology
<1>3. DistancesInv'
  BY <1>1, <1>2, TripleStays DEF DistancesInv
<1>4. CandidatesInv'
  <2>1. \A a, b, t : Towards(a, b, t)' = Towards(a, b, t)
    BY <1>1 DEF Towards
  <2>2. Node' = Node /\ n' = n
    BY <1>2 DEF Node, n
  <2> QED BY <1>1, <1>2, <2>1, <2>2 DEF CandidatesInv
<1> QED BY <1>3, <1>4

-----------------------------------------------------------------------------
(* Routes.                                                                   *)

(* An address is that of one link, at the node it starts from.               *)
LEMMA OwnersAre ==
  ASSUME SetUp, NEW l \in Links
  PROVE  /\ OwnersOf(device[l].address) = {l[1]}
         /\ ResolveNodeIdFromIp(device[l].address) = l[1]
<1>1. GraphSound
  BY DEF SetUp
<1>2. PICK i \in 1 .. Len(graph.edges) : LinkOn(l, i)
  BY <1>1, LinkHasOneEdge
<1>3. device[l].node = l[1] /\ device[l].address = <<i - 1, Host(l)>>
  BY <1>2, DevicesAre DEF IsDevice
<1>4. ASSUME NEW k \in Links, device[k].address = device[l].address PROVE k = l
  <2>1. PICK j \in 1 .. Len(graph.edges) : LinkOn(k, j)
    BY <1>1, LinkHasOneEdge
  <2>2. device[k].address = <<j - 1, Host(k)>>
    BY <2>1, DevicesAre DEF IsDevice
  <2>3. <<j - 1, Host(k)>> = <<i - 1, Host(l)>>
    BY <1>3, <1>4, <2>2
  <2>4. j - 1 = i - 1 /\ Host(k) = Host(l)
    BY <2>3
  <2>5. j = i
    BY <2>4
  <2>6. k[1] < k[2] <=> l[1] < l[2]
    BY <2>4 DEF Host
  <2>7. LinkOn(k, i)
    BY <2>1, <2>5
  <2>8. CASE l[1] < l[2]
    BY <1>1, <1>2, <2>6, <2>7, <2>8, LinkOnIs
  <2>9. CASE ~(l[1] < l[2])
    BY <1>1, <1>2, <2>6, <2>7, <2>9, LinkOnIs
  <2> QED BY <2>8, <2>9
<1>5. {k \in Links : device[k].address = device[l].address} = {l}
  BY <1>4
<1>6. OwnersOf(device[l].address) = {l[1]}
  BY <1>3, <1>5 DEF OwnersOf
<1>7. l[1] \in Node
  BY <1>1, LinksAre
<1> QED BY <1>6, <1>7 DEF ResolveNodeIdFromIp

(* The arbiter of a knows the number of its device on the link to b.          *)
LEMMA NeighborIs ==
  ASSUME SetUp, NEW a \in Node, NEW b \in Node, Linked(a, b)
  PROVE  <<a, b>> \in Links /\ NeighborIfIdx(a, b) = device[<<a, b>>].ifIdx
<1> DEFINE E == graph.edges
           P(i) == Range(E[i]) = {a, b}
           c == CHOOSE i \in DOMAIN E : P(i)
           l == <<a, b>>
<1>1. GraphSound
  BY DEF SetUp
<1>2. DOMAIN E = 1 .. Len(E)
  BY <1>1 DEF GraphSound
<1>3. l \in Links /\ l[1] = a /\ l[2] = b
  BY <1>1, LinksAre
<1>4. \A i \in 1 .. Len(E) : /\ Range(E[i]) = {E[i][1], E[i][2]}
                             /\ E[i] = <<E[i][1], E[i][2]>> /\ E[i][1] # E[i][2]
  <2> TAKE i \in 1 .. Len(E)
  <2>1. E[i] = <<E[i][1], E[i][2]>> /\ E[i][1] \in Nat /\ E[i][2] \in Nat /\ E[i][1] < E[i][2]
    BY <1>1, EdgeIs
  <2>2. DOMAIN E[i] = {1, 2}
    BY <2>1
  <2> QED BY <2>1, <2>2 DEF Range
<1>5. \E i \in DOMAIN E : P(i)
  <2> HIDE DEF l
  <2>1. PICK i \in 1 .. Len(E) : LinkOn(l, i)
    BY <1>1, <1>3, LinkHasOneEdge
  <2>2. l = E[i] \/ l = Flip(E[i])
    BY <2>1 DEF LinkOn
  <2>3. {E[i][1], E[i][2]} = {a, b}
    BY <1>3, <2>2 DEF Flip
  <2> QED BY <1>2, <1>4, <2>3
<1>6. c \in DOMAIN E /\ P(c)
  BY <1>5
<1>7. NeighborIfIdx(a, b) = IF E[c][1] = a THEN interfaces[c][1] ELSE interfaces[c][2]
  BY DEF NeighborIfIdx
<1> HIDE DEF c
<1>8. {E[c][1], E[c][2]} = {a, b} /\ E[c] = <<E[c][1], E[c][2]>> /\ E[c][1] # E[c][2]
  BY <1>2, <1>4, <1>6
<1>9. a # b
  BY <1>8
<1>10. (E[c] = <<a, b>> /\ E[c][1] = a) \/ (E[c] = <<b, a>> /\ E[c][1] # a)
  <2> DEFINE x == E[c][1]
             y == E[c][2]
  <2>1. E[c] = <<x, y>> /\ x # y /\ {x, y} = {a, b}
    BY <1>8
  <2> HIDE DEF x, y
  <2>2. (x = a \/ x = b) /\ (y = a \/ y = b)
    BY <2>1
  <2>3. (x = a /\ y = b) \/ (x = b /\ y = a /\ x # a)
    BY <1>9, <2>1, <2>2
  <2> QED BY <2>1, <2>3 DEF x, y
<1>11. Flip(<<b, a>>) = l
  BY DEF Flip
<1>12. LinkOn(l, c)
  BY <1>10, <1>11 DEF LinkOn
<1>13. Host(l) = IF E[c][1] = a THEN 1 ELSE 2
  <2>1. /\ l = E[c] => Host(l) = 1
        /\ l = Flip(E[c]) => Host(l) = 2
    BY <1>1, <1>2, <1>6, <1>12, LinkOnIs
  <2> QED BY <1>10, <1>11, <2>1
<1>14. device[l].ifIdx = IF Host(l) = 1 THEN interfaces[c][1] ELSE interfaces[c][2]
  BY <1>2, <1>6, <1>12, DevicesAre
<1> QED BY <1>3, <1>7, <1>13, <1>14

(* A packet leaves a node by the link to one of its candidates.               *)
LEMMA RouteIs ==
  ASSUME SetUp, CandidatesInv, candidates # <<>>, NEW a \in Node, NEW l \in Links,
         NEW k \in Routes(a, device[l].address)
  PROVE  k \in Links /\ k[1] = a /\ k[2] \in Node /\ Towards(a, k[2], l[1])
<1>1. GraphSound /\ Numbered(device, a)
  BY DEF SetUp, DevicesSound
<1>2. ResolveNodeIdFromIp(device[l].address) = l[1] /\ l[1] \in Node
  BY <1>1, OwnersAre, LinksAre
<1>3. k \in Links /\ k[1] = a /\ \E b \in candidates[a][l[1]] :
                                   device[k].ifIdx = NeighborIfIdx(a, b)
  BY <1>2 DEF Routes
<1>4. candidates[a][l[1]] = {b \in graph.adjacent[a] : Towards(a, b, l[1])}
  BY <1>2 DEF CandidatesInv
<1>5. PICK b \in graph.adjacent[a] : Towards(a, b, l[1]) /\ device[k].ifIdx = NeighborIfIdx(a, b)
  BY <1>3, <1>4
<1>6. b \in Node /\ Linked(a, b)
  BY <1>1, <1>5 DEF GraphSound, GraphTyped, Linked
<1>7. <<a, b>> \in Links /\ device[k].ifIdx = device[<<a, b>>].ifIdx
  BY <1>5, <1>6, NeighborIs
<1>8. k \in LinksFrom(device, a) /\ <<a, b>> \in LinksFrom(device, a)
  BY <1>3, <1>7, NeighboursCounted
<1>9. k = <<a, b>>
  BY <1>1, <1>7, <1>8 DEF Numbered
<1> QED BY <1>3, <1>5, <1>6, <1>9

-----------------------------------------------------------------------------
(* Packets.                                                                  *)

LEMMA DistancesAre ==
  ASSUME TopologyInv, DistancesInv, cursor = n * n * n
  PROVE  /\ step = 10 /\ SetUp
         /\ \A i, j \in Node : dist[i][j] = Distance(i, j) /\ Distance(i, j) \in Int
<1>1. n \in Nat /\ cursor # -1
  BY NoNodesNoCursor DEF TopologyInv
<1>2. /\ step = 10 /\ n <= MaxNodes /\ DistTyped(graph.adjacent, dist)
      /\ DistSound(graph.adjacent, dist) /\ DistSettled(graph.adjacent, dist, Triple(cursor))
  BY <1>1 DEF DistancesInv
<1>3. SetUp /\ GraphTyped /\ DOMAIN graph.adjacent = Node
  BY <1>2, ReadyGraph
<1>4. INF \in Nat /\ n < INF
  BY <1>1, <1>2, InfAssumption
<1>5. DistSettled(graph.adjacent, dist, Triple(n * n * n))
  BY <1>2
<1>6. \A i, j \in Node : dist[i][j] = Distance(i, j)
  BY <1>2, <1>3, <1>4, <1>5, EndExact
<1>7. \A i, j \in Node : dist[i][j] \in Int
  BY <1>2, <1>3, <1>4 DEF DistTyped
<1> QED BY <1>2, <1>3, <1>6, <1>7

Routed ==
  /\ step = 10 /\ SetUp /\ CandidatesInv /\ candidates # <<>>
  /\ \A i, j \in Node : dist[i][j] = Distance(i, j) /\ Distance(i, j) \in Int

LEMMA RoutedIs ==
  ASSUME TopologyInv, DistancesInv, CandidatesInv, candidates # <<>>
  PROVE  Routed
<1>1. cursor = n * n * n
  BY DEF CandidatesInv
<1> QED BY <1>1, DistancesAre DEF Routed

LEMMA DistanceStays ==
  ASSUME UNCHANGED graph
  PROVE  /\ \A s, t : Distance(s, t)' = Distance(s, t)
         /\ \A t : Distance(packet.at, t)' = Distance(packet'.at, t)
BY DEF Distance, Ball, n

LEMMA StillOnTheWay ==
  ASSUME UNCHANGED topology, NEW k \in Links, NEW l \in Links,
         packet'.src = device[k].address, packet'.dst = device[l].address,
         packet'.hops + Distance(packet'.at, l[1]) = Distance(k[1], l[1])
  PROVE  OnTheWay'
<1>1. graph' = graph /\ device' = device
  BY DEF topology
<1>2. Links' = Links
  BY <1>1 DEF Links, Edges
<1>3. /\ Distance(packet.at, l[1])' = Distance(packet'.at, l[1])
      /\ Distance(k[1], l[1])' = Distance(k[1], l[1])
  BY <1>1, DistanceStays
<1> QED BY <1>1, <1>2, <1>3 DEF OnTheWay

LEMMA PacketIs ==
  ASSUME NEW src, NEW dst, NEW at, NEW hops, NEW p,
         p = [src |-> src, dst |-> dst, at |-> at, hops |-> hops]
  PROVE  IsPacket(p) /\ p.src = src /\ p.dst = dst /\ p.at = at /\ p.hops = hops
BY DEF IsPacket

LEMMA PacketExcept ==
  ASSUME NEW p, IsPacket(p), NEW a, NEW b, NEW h
  PROVE  /\ [p EXCEPT !.src = a] = [src |-> a, dst |-> p.dst, at |-> p.at, hops |-> p.hops]
         /\ [p EXCEPT !.at = a, !.hops = @ + 1]
              = [src |-> p.src, dst |-> p.dst, at |-> a, hops |-> p.hops + 1]
         /\ [p EXCEPT !.src = a, !.dst = b, !.hops = h]
              = [src |-> a, dst |-> b, at |-> p.at, hops |-> h]
<1> DEFINE src == p.src
           dst == p.dst
           at == p.at
           hops == p.hops
<1>1. p = [src |-> src, dst |-> dst, at |-> at, hops |-> hops]
  BY DEF IsPacket
<1> HIDE DEF src, dst, at, hops
<1>2. /\ [p EXCEPT !.src = a] = [src |-> a, dst |-> dst, at |-> at, hops |-> hops]
      /\ [p EXCEPT !.at = a, !.hops = @ + 1]
           = [src |-> src, dst |-> dst, at |-> a, hops |-> hops + 1]
      /\ [p EXCEPT !.src = a, !.dst = b, !.hops = h]
           = [src |-> a, dst |-> b, at |-> at, hops |-> h]
  <2>1. [p EXCEPT !.src = a] = [src |-> a, dst |-> dst, at |-> at, hops |-> hops]
    BY <1>1
  <2>2. [p EXCEPT !.at = a, !.hops = @ + 1]
          = [src |-> src, dst |-> dst, at |-> a, hops |-> hops + 1]
    <3> DEFINE q == [p EXCEPT !.at = a]
    <3>1. q = [src |-> src, dst |-> dst, at |-> a, hops |-> hops]
      BY <1>1
    <3> HIDE DEF q
    <3>2. [q EXCEPT !.hops = @ + 1] = [src |-> src, dst |-> dst, at |-> a, hops |-> hops + 1]
      BY <3>1
    <3> QED BY <3>2, Zenon DEF q
  <2>3. [p EXCEPT !.src = a, !.dst = b, !.hops = h]
          = [src |-> a, dst |-> b, at |-> at, hops |-> h]
    <3> DEFINE q == [p EXCEPT !.src = a]
               r == [q EXCEPT !.dst = b]
    <3>1. q = [src |-> a, dst |-> dst, at |-> at, hops |-> hops]
      BY <1>1
    <3> HIDE DEF q
    <3>2. r = [src |-> a, dst |-> b, at |-> at, hops |-> hops]
      BY <3>1
    <3> HIDE DEF r
    <3>3. [r EXCEPT !.hops = h] = [src |-> a, dst |-> b, at |-> at, hops |-> h]
      BY <3>2
    <3> QED BY <3>3, Zenon DEF q, r
  <2> QED BY <2>1, <2>2, <2>3
<1> QED BY <1>2 DEF src, dst, at, hops

(* Whoever asks learns an address of a node.                                 *)
LEMMA RequestKeeps ==
  ASSUME Routed, TrafficInv, NEW s \in Node, NEW t \in Node, RequestSource(s, t)
  PROVE  TrafficInv'
<1>1. PICK l \in Links : packet' = [NoPacket EXCEPT !.dst = device[l].address, !.at = s]
  BY DEF RequestSource
<1>2. packet' = [src |-> NoAddress, dst |-> device[l].address, at |-> s, hops |-> 0]
  BY <1>1 DEF NoPacket
<1>3. IsPacket(packet') /\ packet'.dst = device[l].address /\ packet'.at = s /\ packet'.hops = 0
  BY <1>2, PacketIs
<1>4. leg' = "request" /\ UNCHANGED <<graph, device, candidates>>
  BY DEF RequestSource, topology, routing
<1>5. Links' = Links /\ Node' = Node
  BY <1>4 DEF Links, Edges, Node
<1>6. IsPacket(packet)'
  BY <1>3 DEF IsPacket
<1> QED BY <1>3, <1>4, <1>5, <1>6 DEF TrafficInv, Routed

(* The way is as long as it was when the packet set off.                     *)
LEMMA SetupKeeps ==
  ASSUME Routed, TrafficInv, SetupEndpoint
  PROVE  TrafficInv'
<1>1. leg = "request" /\ leg' = "out" /\ UNCHANGED topology /\ UNCHANGED candidates
  BY DEF SetupEndpoint, routing
<1>2. /\ IsPacket(packet) /\ packet.at \in Node /\ packet.hops = 0
      /\ \E l \in Links : packet.dst = device[l].address
  BY <1>1 DEF TrafficInv
<1>3. PICK l \in Links : packet.dst = device[l].address
  BY <1>2
<1>4. PICK k \in Routes(packet.at, device[l].address) :
        packet' = [packet EXCEPT !.src = device[k].address]
  BY <1>3 DEF SetupEndpoint
<1>5. k \in Links /\ k[1] = packet.at
  BY <1>2, <1>4, RouteIs DEF Routed
<1>6. packet' = [src |-> device[k].address, dst |-> packet.dst, at |-> packet.at,
                 hops |-> packet.hops]
  BY <1>2, <1>4, PacketExcept
<1>7. /\ IsPacket(packet') /\ packet'.src = device[k].address /\ packet'.dst = device[l].address
      /\ packet'.at = k[1] /\ packet'.hops = 0
  BY <1>2, <1>3, <1>5, <1>6, PacketIs
<1>8. l[1] \in Node /\ k[1] \in Node
  BY <1>2, <1>3, <1>5, LinksAre DEF Routed, SetUp
<1>9. 0 + Distance(k[1], l[1]) = Distance(k[1], l[1])
  BY <1>8 DEF Routed
<1>10. OnTheWay'
  BY <1>1, <1>3, <1>5, <1>7, <1>9, StillOnTheWay
<1>11. Links' = Links /\ Node' = Node /\ device' = device
  BY <1>1 DEF topology, Links, Edges, Node
<1>12. IsPacket(packet)'
  BY <1>7 DEF IsPacket
<1> QED BY <1>1, <1>3, <1>7, <1>8, <1>10, <1>11, <1>12 DEF TrafficInv, Routed

LEMMA ForwardKeeps ==
  ASSUME Routed, TrafficInv, Forward
  PROVE  TrafficInv'
<1>1. leg \in {"out", "back"} /\ UNCHANGED leg /\ UNCHANGED topology /\ UNCHANGED candidates
  BY DEF Forward, InTransit, routing
<1>2. IsPacket(packet) /\ packet.at \in Node /\ packet.hops \in Nat /\ OnTheWay
  BY <1>1 DEF TrafficInv
<1>3. PICK k \in Links : \E l \in Links :
        /\ packet.src = device[k].address /\ packet.dst = device[l].address
        /\ packet.hops + Distance(packet.at, l[1]) = Distance(k[1], l[1])
  BY <1>2 DEF OnTheWay
<1>4. PICK l \in Links :
        /\ packet.src = device[k].address /\ packet.dst = device[l].address
        /\ packet.hops + Distance(packet.at, l[1]) = Distance(k[1], l[1])
  BY <1>3
<1>5. PICK r \in Routes(packet.at, device[l].address) :
        packet' = [packet EXCEPT !.at = r[2], !.hops = @ + 1]
  BY <1>4 DEF Forward
<1>6. r[2] \in Node /\ Towards(packet.at, r[2], l[1])
  BY <1>2, <1>5, RouteIs DEF Routed
<1>7. packet' = [src |-> packet.src, dst |-> packet.dst, at |-> r[2], hops |-> packet.hops + 1]
  BY <1>2, <1>5, PacketExcept
<1>8. /\ IsPacket(packet') /\ packet'.src = device[k].address /\ packet'.dst = device[l].address
      /\ packet'.at = r[2] /\ packet'.hops = packet.hops + 1
  BY <1>4, <1>7, PacketIs
<1>9. l[1] \in Node /\ k[1] \in Node
  BY <1>3, <1>4, LinksAre DEF Routed, SetUp
<1>10. packet.hops + 1 + Distance(r[2], l[1]) = Distance(k[1], l[1])
  <2>1. /\ Distance(packet.at, l[1]) - 1 = Distance(r[2], l[1])
        /\ Distance(packet.at, l[1]) \in Int /\ Distance(r[2], l[1]) \in Int
    BY <1>2, <1>6, <1>9 DEF Routed, Towards
  <2> QED BY <1>2, <1>4, <2>1
<1>11. OnTheWay'
  BY <1>1, <1>3, <1>4, <1>8, <1>10, StillOnTheWay
<1>12. Links' = Links /\ Node' = Node /\ device' = device
  BY <1>1 DEF topology, Links, Edges, Node
<1>13. IsPacket(packet)' /\ packet'.hops \in Nat
  BY <1>2, <1>8 DEF IsPacket
<1> QED BY <1>1, <1>4, <1>6, <1>8, <1>11, <1>12, <1>13 DEF TrafficInv, Routed

LEMMA DeliverKeeps ==
  ASSUME Routed, TrafficInv, DeliverLocally
  PROVE  TrafficInv'
<1>1. leg \in {"out", "back"} /\ UNCHANGED topology /\ UNCHANGED candidates
  BY DEF DeliverLocally, InTransit, routing
<1>2. IsPacket(packet) /\ packet.at \in Node /\ packet.hops \in Nat /\ OnTheWay
      /\ \E l \in Links : packet.dst = device[l].address
  BY <1>1 DEF TrafficInv
<1>3. PICK k \in Links : \E l \in Links :
        /\ packet.src = device[k].address /\ packet.dst = device[l].address
        /\ packet.hops + Distance(packet.at, l[1]) = Distance(k[1], l[1])
  BY <1>2 DEF OnTheWay
<1>4. PICK l \in Links :
        /\ packet.src = device[k].address /\ packet.dst = device[l].address
        /\ packet.hops + Distance(packet.at, l[1]) = Distance(k[1], l[1])
  BY <1>3
<1>5. Links' = Links /\ Node' = Node /\ device' = device
  BY <1>1 DEF topology, Links, Edges, Node
<1>6. l[1] \in Node /\ k[1] \in Node
  BY <1>3, <1>4, LinksAre DEF Routed, SetUp
<1>7. CASE leg = "out"
  <2>1. packet.at = l[1]
    <3>1. packet.at \in OwnersOf(device[l].address)
      BY <1>4 DEF DeliverLocally
    <3>2. OwnersOf(device[l].address) = {l[1]}
      BY <1>4, OwnersAre DEF Routed
    <3> QED BY <3>1, <3>2
  <2>2. /\ packet' = [packet EXCEPT !.src = packet.dst, !.dst = packet.src, !.hops = 0]
        /\ leg' = "back"
    BY <1>7 DEF DeliverLocally
  <2>3. packet' = [src |-> packet.dst, dst |-> packet.src, at |-> packet.at, hops |-> 0]
    BY <1>2, <2>2, PacketExcept
  <2>4. /\ IsPacket(packet') /\ packet'.src = device[l].address /\ packet'.dst = device[k].address
        /\ packet'.at = l[1] /\ packet'.hops = 0
    BY <1>4, <2>1, <2>3, PacketIs
  <2>5. 0 + Distance(l[1], k[1]) = Distance(l[1], k[1])
    BY <1>6 DEF Routed
  <2>6. OnTheWay'
    BY <1>1, <1>3, <1>4, <2>4, <2>5, StillOnTheWay
  <2>7. IsPacket(packet)'
    BY <2>4 DEF IsPacket
  <2> QED BY <1>1, <1>3, <1>5, <1>6, <2>2, <2>4, <2>6, <2>7 DEF TrafficInv, Routed
<1>8. CASE leg # "out"
  <2>1. packet' = packet /\ leg' = "done"
    BY <1>8 DEF DeliverLocally
  <2>2. OnTheWay'
    BY <1>1, <1>3, <1>4, <2>1, StillOnTheWay
  <2>3. IsPacket(packet)'
    BY <1>2, <2>1 DEF IsPacket
  <2> QED BY <1>1, <1>2, <1>5, <2>1, <2>2, <2>3 DEF TrafficInv, Routed
<1> QED BY <1>7, <1>8

LEMMA TrafficStays ==
  ASSUME TrafficInv, UNCHANGED <<topology, candidates, packet, leg>>
  PROVE  TrafficInv'
<1>1. Links' = Links /\ Node' = Node /\ device' = device
  BY DEF topology, Links, Edges, Node
<1>2. OnTheWay => OnTheWay'
  BY StillOnTheWay DEF OnTheWay
<1>3. IsPacket(packet)'
  BY DEF TrafficInv, IsPacket
<1> QED BY <1>1, <1>2, <1>3 DEF TrafficInv

-----------------------------------------------------------------------------
(* Every step.                                                               *)

LEMMA NotReadyYet ==
  ASSUME TopologyInv, TopologyNext
  PROVE  step # 10
<1>1. step \in 0 .. 10
  BY DEF TopologyInv
<1>2. \A p \in Range(Properties) : At(p) => step # 10
  <2> SUFFICES ASSUME NEW i \in 1 .. 5, At(Properties[i]) PROVE step # 10
    BY PropertiesAre
  <2>1. step = 2 + i
    BY <1>1, AtIs
  <2> QED BY <2>1
<1>3. CASE \E p \in Range(Properties) : ParseProperty(p)
  BY <1>2, <1>3 DEF ParseProperty
<1>4. CASE ~(\E p \in Range(Properties) : ParseProperty(p))
  <2>1. At("config") \/ At("graph") \/ At("nodes") \/ At("links")
    BY <1>4 DEF TopologyNext, ReadTopologyConfig, ParseTopologyGraph, SetupNodes, SetupLink,
                LinksDone
  <2> QED BY <1>1, <2>1, AtIs
<1> QED BY <1>3, <1>4

(* Nothing is sent before the arbiters are installed.                         *)
LEMMA NothingSentYet ==
  ASSUME TopologyInv, DistancesInv, CandidatesInv, TrafficInv, step # 10 \/ candidates = <<>>
  PROVE  candidates = <<>> /\ leg = "idle" /\ (step # 10 => cursor = -1)
<1>1. n * n * n # -1
  BY NoNodesNoCursor DEF TopologyInv
<1>2. step # 10 => cursor = -1
  BY DEF DistancesInv
<1>3. candidates = <<>>
  BY <1>1, <1>2 DEF CandidatesInv
<1> QED BY <1>2, <1>3 DEF TrafficInv

LEMMA IdleKeeps ==
  ASSUME TrafficInv, UNCHANGED traffic, leg = "idle"
  PROVE  TrafficInv'
<1>1. packet' = packet /\ leg' = "idle"
  BY DEF traffic
<1>2. IsPacket(packet)'
  BY <1>1 DEF TrafficInv, IsPacket
<1> QED BY <1>1, <1>2 DEF TrafficInv

LEMMA RoutingStarts ==
  ASSUME Init
  PROVE  RoutingInv
<1>1. TopologyInv
  BY TopologyStarts
<1>2. cursor = -1 /\ candidates = <<>> /\ leg = "idle" /\ packet = NoPacket
  BY DEF Init
<1>3. IsPacket(packet)
  BY <1>2 DEF NoPacket, IsPacket
<1> QED BY <1>1, <1>2, <1>3 DEF RoutingInv, DistancesInv, CandidatesInv, TrafficInv

LEMMA RoutingKept ==
  ASSUME RoutingInv, [Next]_vars
  PROVE  RoutingInv'
<1>1. TopologyInv /\ DistancesInv /\ CandidatesInv /\ TrafficInv
  BY DEF RoutingInv
<1>2. TopologyInv'
  BY <1>1, TopologyKept
<1>3. CASE TopologyNext /\ UNCHANGED <<routing, traffic>>
  <2>1. candidates = <<>> /\ leg = "idle" /\ cursor = -1
    BY <1>1, <1>3, NotReadyYet, NothingSentYet
  <2>2. candidates' = <<>> /\ cursor' = -1
    BY <1>3, <2>1 DEF routing
  <2>3. TrafficInv'
    BY <1>1, <1>3, <2>1, IdleKeeps
  <2> QED BY <1>2, <2>2, <2>3 DEF RoutingInv, DistancesInv, CandidatesInv
<1>4. CASE StartFloydWarshall
  <2>1. cursor = -1 /\ UNCHANGED traffic
    BY <1>4 DEF StartFloydWarshall
  <2>2. candidates = <<>>
    BY <1>1, <2>1, NoNodesNoCursor DEF CandidatesInv, TopologyInv
  <2>3. TrafficInv'
    BY <1>1, <2>1, <2>2, NothingSentYet, IdleKeeps
  <2> QED BY <1>1, <1>2, <1>4, <2>3, DistancesStart DEF RoutingInv
<1>5. CASE Relax
  <2>1. cursor # n * n * n /\ UNCHANGED traffic
    <3>1. n * n * n \in Nat
      BY <1>1, NoNodesNoCursor DEF TopologyInv
    <3> QED BY <1>5, <3>1 DEF Relax
  <2>2. candidates = <<>>
    BY <1>1, <2>1 DEF CandidatesInv
  <2>3. TrafficInv'
    BY <1>1, <2>1, <2>2, NothingSentYet, IdleKeeps
  <2> QED BY <1>1, <1>2, <1>5, <2>3, DistancesRelaxed DEF RoutingInv
<1>6. CASE InstallArbiters
  <2>1. candidates = <<>> /\ UNCHANGED traffic
    BY <1>6 DEF InstallArbiters
  <2>2. TrafficInv'
    BY <1>1, <2>1, NothingSentYet, IdleKeeps
  <2> QED BY <1>1, <1>2, <1>6, <2>2, CandidatesFound DEF RoutingInv
<1>7. CASE \E s, t \in Node : RequestSource(s, t)
  <2>1. UNCHANGED <<step, graph, routing>> /\ candidates # <<>>
    BY <1>7 DEF RequestSource, topology
  <2>2. TrafficInv'
    BY <1>1, <1>7, <2>1, RoutedIs, RequestKeeps
  <2> QED BY <1>1, <1>2, <2>1, <2>2, RoutingStays DEF RoutingInv
<1>8. CASE SetupEndpoint \/ Forward \/ DeliverLocally
  <2>1. UNCHANGED <<step, graph, routing>> /\ leg # "idle"
    BY <1>8 DEF SetupEndpoint, Forward, DeliverLocally, InTransit, topology
  <2>2. Routed
    BY <1>1, <2>1, RoutedIs DEF TrafficInv
  <2>3. TrafficInv'
    BY <1>1, <1>8, <2>2, SetupKeeps, ForwardKeeps, DeliverKeeps
  <2> QED BY <1>1, <1>2, <2>1, <2>3, RoutingStays DEF RoutingInv
<1>9. CASE NoCandidates \/ UNCHANGED vars
  <2>1. UNCHANGED <<topology, routing, packet, leg>>
    BY <1>9 DEF NoCandidates, vars, traffic
  <2>2. UNCHANGED <<step, graph, routing>> /\ UNCHANGED candidates
    BY <2>1 DEF topology, routing
  <2>3. TrafficInv'
    BY <1>1, <2>1, <2>2, TrafficStays
  <2> QED BY <1>1, <1>2, <2>2, <2>3, RoutingStays DEF RoutingInv
<1> QED BY <1>3, <1>4, <1>5, <1>6, <1>7, <1>8, <1>9 DEF Next, Proceed

(* What the invariant says of a packet, in the words of the property.         *)
LEMMA ShortestPathsTaken ==
  ASSUME RoutingInv
  PROVE  PacketsTakeShortestPaths
<1> SUFFICES ASSUME leg \in {"out", "back", "done"} PROVE PacketsTakeShortestPaths
  BY DEF PacketsTakeShortestPaths
<1>1. Routed /\ OnTheWay
  BY RoutedIs DEF RoutingInv, TrafficInv
<1>2. PICK k \in Links : \E l \in Links :
        /\ packet.src = device[k].address /\ packet.dst = device[l].address
        /\ packet.hops + Distance(packet.at, l[1]) = Distance(k[1], l[1])
  BY <1>1 DEF OnTheWay
<1>3. PICK l \in Links :
        /\ packet.src = device[k].address /\ packet.dst = device[l].address
        /\ packet.hops + Distance(packet.at, l[1]) = Distance(k[1], l[1])
  BY <1>2
<1>4. OwnersOf(packet.src) = {k[1]} /\ OwnersOf(packet.dst) = {l[1]}
  BY <1>1, <1>3, OwnersAre DEF Routed
<1>5. (CHOOSE a \in OwnersOf(packet.src) : TRUE) = k[1]
      /\ (CHOOSE a \in OwnersOf(packet.dst) : TRUE) = l[1]
  BY <1>4
<1> QED BY <1>3, <1>5 DEF PacketsTakeShortestPaths

-----------------------------------------------------------------------------
(* The inductive invariant: what has been read is a topology, the devices    *)
(* of the edges before the current one are set up, every cell of the matrix  *)
(* is the length of a walk and no longer than any walk through the nodes     *)
(* that are done, and a packet has as far to go as it has not yet gone.      *)
THEOREM RoutingInductive == Spec => []RoutingInv
<1>1. Init => RoutingInv
  BY RoutingStarts
<1>2. RoutingInv /\ [Next]_vars => RoutingInv'
  BY RoutingKept
<1> QED BY <1>1, <1>2, PTL DEF Spec

(* Whatever the file says, what the parsers let through is a simple graph    *)
(* over exactly the declared nodes with servers only behind ToRs, and the    *)
(* RED thresholds lie below the capacity (topology-ptop.cc 150-305).         *)
THEOREM AcceptedWellFormed == Spec => []AcceptedIsWellFormed
<1>1. RoutingInv => AcceptedIsWellFormed
  BY WellFormed DEF RoutingInv
<1> QED BY <1>1, RoutingInductive, PTL

(* Every link gets what the file says of it, each setting at the end it is   *)
(* for, on a network of its own; the interfaces of a node are numbered       *)
(* from 1 without a gap (topology-ptop.cc 514-722).                          *)
THEOREM LinksCarry == Spec => []LinksCarryTheirSettings
<1>1. RoutingInv => LinksCarryTheirSettings
  BY SettingsCarried DEF RoutingInv
<1> QED BY <1>1, RoutingInductive, PTL

(* Floyd-Warshall over the matrix it reads gives the number of links of a    *)
(* shortest path, for every graph of at most MaxNodes nodes and every INF    *)
(* above it (arbiter-ecmp-helper.cc 51-85).                                  *)
THEOREM ExactDistances == Spec => []DistancesExact
<1>1. RoutingInv => DistancesExact
  BY DistancesAre DEF RoutingInv, DistancesExact
<1> QED BY <1>1, RoutingInductive, PTL

(* Whatever the hash picks, what a packet has gone and has left to go is     *)
(* the distance between the owners of its addresses (arbiter.cc 99-126).     *)
THEOREM ShortestPaths == Spec => []PacketsTakeShortestPaths
<1>1. RoutingInv => PacketsTakeShortestPaths
  BY ShortestPathsTaken
<1> QED BY <1>1, RoutingInductive, PTL
=============================================================================
