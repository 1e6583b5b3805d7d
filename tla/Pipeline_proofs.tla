--------------------------- MODULE Pipeline_proofs ---------------------------
(***************************************************************************)
(* For any instances, configurations and finite documents, any number of   *)
(* edits and kills: what is marked finished has been computed, and stays   *)
(* so; reproduce.sh fails for one reason only, and what it plots is what   *)
(* the document asks for.  And of a solver that its runs execute, the      *)
(* max-min fair allocation: for any graph and flows its result is fair.    *)
(***************************************************************************)
EXTENDS Pipeline, Mmfa, Lists_proofs

-----------------------------------------------------------------------------
(* What a step leaves behind: a product of the interpretation is what later  *)
(* steps need of a run directory.  A sequence of operations settles one when *)
(* it makes it and does not truncate it afterwards.                          *)

Product == {"dir", "input", "runScript"}

Gives(op, d, f) == IF f = "dir" THEN op.do = "makeDir" /\ op.dir = d
                   ELSE op.do = "write" /\ op.dir = d /\ op.file = f

Spoils(op, d, f) == f # "dir" /\ op.do = "truncate" /\ op.dir = d /\ op.file = f

Quiet(p, d, f) == \A k \in 1 .. Len(p) : ~Spoils(p[k], d, f)

Settles(p, d, f) ==
  \E k \in 1 .. Len(p) :
    Gives(p[k], d, f) /\ \A j \in 1 .. Len(p) : j > k => ~Spoils(p[j], d, f)

LEMMA ConcatSettles ==
  ASSUME NEW V, NEW p \in Seq(V), NEW q \in Seq(V), NEW d, NEW f
  PROVE  /\ Quiet(p, d, f) /\ Quiet(q, d, f) => Quiet(p \o q, d, f)
         /\ Settles(p, d, f) /\ Quiet(q, d, f) => Settles(p \o q, d, f)
         /\ Settles(q, d, f) => Settles(p \o q, d, f)
<1>1. /\ p \o q \in Seq(V) /\ Len(p \o q) = Len(p) + Len(q) /\ Len(p) \in Nat /\ Len(q) \in Nat
      /\ \A k \in 1 .. Len(p) : (p \o q)[k] = p[k] /\ k \in 1 .. Len(p \o q)
      /\ \A k \in 1 .. Len(q) : (p \o q)[Len(p) + k] = q[k] /\ Len(p) + k \in 1 .. Len(p \o q)
      /\ \A k \in 1 .. Len(p \o q) : k \in 1 .. Len(p) \/ k - Len(p) \in 1 .. Len(q)
      /\ \A k \in 1 .. Len(p \o q) :
           k - Len(p) \in 1 .. Len(q) => (p \o q)[k] = q[k - Len(p)]
  BY ConcatIs
<1> DEFINE r == p \o q
<1> HIDE DEF r
<1>2. ASSUME Quiet(p, d, f), Quiet(q, d, f) PROVE Quiet(r, d, f)
  BY <1>1, <1>2 DEF Quiet, r
<1>3. ASSUME Settles(p, d, f), Quiet(q, d, f) PROVE Settles(r, d, f)
  <2>1. PICK k \in 1 .. Len(p) :
          Gives(p[k], d, f) /\ \A j \in 1 .. Len(p) : j > k => ~Spoils(p[j], d, f)
    BY <1>3 DEF Settles
  <2>2. k \in 1 .. Len(r) /\ Gives(r[k], d, f)
    BY <1>1, <2>1 DEF r
  <2>3. ASSUME NEW j \in 1 .. Len(r), j > k PROVE ~Spoils(r[j], d, f)
    <3>1. CASE j \in 1 .. Len(p)
      BY <1>1, <2>1, <2>3, <3>1 DEF r
    <3>2. CASE j - Len(p) \in 1 .. Len(q)
      BY <1>1, <1>3, <3>2 DEF r, Quiet
    <3> QED BY <1>1, <3>1, <3>2 DEF r
  <2> QED BY <2>2, <2>3 DEF Settles
<1>4. ASSUME Settles(q, d, f) PROVE Settles(r, d, f)
  <2>1. PICK k \in 1 .. Len(q) :
          Gives(q[k], d, f) /\ \A j \in 1 .. Len(q) : j > k => ~Spoils(q[j], d, f)
    BY <1>4 DEF Settles
  <2> DEFINE l == Len(p) + k
  <2>2. l \in 1 .. Len(r) /\ Gives(r[l], d, f)
    BY <1>1, <2>1 DEF r
  <2>3. ASSUME NEW j \in 1 .. Len(r), j > l PROVE ~Spoils(r[j], d, f)
    <3>1. j - Len(p) \in 1 .. Len(q) /\ j - Len(p) > k
      BY <1>1, <2>1, <2>3 DEF r
    <3> QED BY <1>1, <2>1, <3>1 DEF r
  <2> HIDE DEF l
  <2> QED BY <2>2, <2>3 DEF Settles
<1> QED BY <1>2, <1>3, <1>4 DEF r

(* Operations over a set, given by the operations for each of its elements.  *)
OpsOver(S, ops) == FlattenSeq([k \in DOMAIN SetToSeq(S) |-> ops[SetToSeq(S)[k]]])

LEMMA SetToSeqLists ==
  ASSUME NEW S, IsFiniteSet(S)
  PROVE  /\ Cardinality(S) \in Nat /\ SetToSeq(S) \in [1 .. Cardinality(S) -> S]
         /\ \A x \in S : \E k \in 1 .. Cardinality(S) : SetToSeq(S)[k] = x
<1> DEFINE n == Cardinality(S)
<1>1. n \in Nat /\ \E f : f \in Bijection(1 .. n, S)
  BY FS_CardinalityType DEF ExistsBijection
<1>2. \E f \in [1 .. n -> S] : IsInjective(f)
  BY <1>1 DEF Bijection, Injection
<1>3. SetToSeq(S) \in [1 .. n -> S] /\ IsInjective(SetToSeq(S))
  BY <1>2 DEF SetToSeq
<1>4. IsFiniteSet(1 .. n) /\ Cardinality(1 .. n) = n
  BY <1>1, FS_Interval
<1>5. SetToSeq(S) \in Surjection(1 .. n, S)
  <2>1. SetToSeq(S) \in Injection(1 .. n, S)
    BY <1>3 DEF Injection
  <2> QED BY <1>4, <2>1, FS_Injection
<1> QED BY <1>1, <1>3, <1>5 DEF Surjection

LEMMA OpsOverSolves ==
  ASSUME NEW V, NEW S, IsFiniteSet(S), NEW ops \in [S -> Seq(V)]
  PROVE  /\ OpsOver(S, ops) \in Seq(V)
         /\ \A x \in S : \A j \in 1 .. Len(ops[x]) :
              \E l \in 1 .. Len(OpsOver(S, ops)) : OpsOver(S, ops)[l] = ops[x][j]
<1> DEFINE order == SetToSeq(S)
           ss == [k \in DOMAIN order |-> ops[order[k]]]
           n == Cardinality(S)
<1>1. n \in Nat /\ order \in [1 .. n -> S] /\ \A x \in S : \E k \in 1 .. n : order[k] = x
  BY SetToSeqLists
<1> HIDE DEF order, n
<1>2. ss \in [1 .. n -> Seq(V)] /\ \A k \in 1 .. n : ss[k] = ops[order[k]]
  BY <1>1
<1> HIDE DEF ss
<1>3. ss \in Seq(Seq(V)) /\ Len(ss) = n
  BY <1>1, <1>2, SeqDef, LenProperties
<1>4. PICK g : /\ g[0] = <<>> /\ FlattenSeq(ss) = g[n]
               /\ \A i \in 0 .. n : g[i] \in Seq(V)
               /\ \A i \in 1 .. n : g[i] = g[i - 1] \o ss[i]
  <2>1. ss \in Seq(Seq(V)) => UnrollsTo(ss, V, Len(ss))
    BY FlattenUnrolls
  <2>2. UnrollsTo(ss, V, n)
    BY <1>3, <2>1
  <2> QED BY <2>2, Zenon DEF UnrollsTo
<1>5. OpsOver(S, ops) = g[n] /\ g[n] \in Seq(V)
  BY <1>1, <1>4 DEF OpsOver, ss, order
<1>6. ASSUME NEW x \in S, NEW j \in 1 .. Len(ops[x])
      PROVE  \E l \in 1 .. Len(g[n]) : g[n][l] = ops[x][j]
  <2>1. PICK m \in 1 .. n : order[m] = x
    BY <1>1
  <2> DEFINE T == {i \in 0 .. n : i >= m => \E l \in 1 .. Len(g[i]) : g[i][l] = ops[x][j]}
  <2>2. 0 \in T
    BY <1>1
  <2>3. ASSUME NEW i \in 1 .. n, i - 1 \in T PROVE i \in T
    <3>1. /\ g[i] = g[i - 1] \o ss[i] /\ g[i - 1] \in Seq(V) /\ ss[i] \in Seq(V) /\ i \in 0 .. n
      BY <1>1, <1>2, <1>4, PartsInOrder
    <3>2. /\ Len(g[i]) = Len(g[i - 1]) + Len(ss[i]) /\ Len(g[i - 1]) \in Nat /\ Len(ss[i]) \in Nat
          /\ \A l \in 1 .. Len(g[i - 1]) : l \in 1 .. Len(g[i]) /\ g[i][l] = g[i - 1][l]
          /\ \A l \in 1 .. Len(ss[i]) : /\ Len(g[i - 1]) + l \in 1 .. Len(g[i])
                                        /\ g[i][Len(g[i - 1]) + l] = ss[i][l]
      <4> DEFINE p == g[i - 1]
                 q == ss[i]
                 r == g[i]
      <4>1. p \in Seq(V) /\ q \in Seq(V) /\ r = p \o q
        BY <3>1
      <4> HIDE DEF p, q, r
      <4>2. /\ Len(r) = Len(p) + Len(q) /\ Len(p) \in Nat /\ Len(q) \in Nat
            /\ \A l \in 1 .. Len(p) : l \in 1 .. Len(r) /\ r[l] = p[l]
            /\ \A l \in 1 .. Len(q) : Len(p) + l \in 1 .. Len(r) /\ r[Len(p) + l] = q[l]
        BY <4>1, ConcatIs
      <4> QED BY <4>2 DEF p, q, r
    <3>3. CASE i = m
      <4>1. ss[i] = ops[x]
        BY <1>2, <2>1, <3>3
      <4> QED BY <3>1, <3>2, <4>1
    <3>4. CASE i < m
      BY <3>1, <3>4
    <3>5. CASE i > m
      <4>1. i - 1 >= m
        BY <3>5
      <4>2. PICK l \in 1 .. Len(g[i - 1]) : g[i - 1][l] = ops[x][j]
        BY <2>3, <4>1
      <4> QED BY <3>1, <3>2, <4>2
    <3> QED BY <3>3, <3>4, <3>5
  <2> HIDE DEF T
  <2>4. n \in T
    BY <1>1, <2>2, <2>3, Climb
  <2> QED BY <1>1, <2>4 DEF T
<1> QED BY <1>5, <1>6

LEMMA OpsOverSettles ==
  ASSUME NEW V, NEW S, IsFiniteSet(S), NEW ops \in [S -> Seq(V)], NEW d, NEW f,
         \A x \in S : Settles(ops[x], d, f) \/ Quiet(ops[x], d, f)
  PROVE  /\ (\E x \in S : Settles(ops[x], d, f)) => Settles(OpsOver(S, ops), d, f)
         /\ (\A x \in S : Quiet(ops[x], d, f)) => Quiet(OpsOver(S, ops), d, f)
<1> DEFINE order == SetToSeq(S)
           ss == [k \in DOMAIN order |-> ops[order[k]]]
           n == Cardinality(S)
<1>1. n \in Nat /\ order \in [1 .. n -> S] /\ \A x \in S : \E k \in 1 .. n : order[k] = x
  BY SetToSeqLists
<1> HIDE DEF order, n
<1>2. ss \in [1 .. n -> Seq(V)] /\ \A k \in 1 .. n : ss[k] = ops[order[k]]
  BY <1>1
<1> HIDE DEF ss
<1>3. ss \in Seq(Seq(V)) /\ Len(ss) = n
  BY <1>1, <1>2, SeqDef, LenProperties
<1>4. PICK g : /\ g[0] = <<>> /\ FlattenSeq(ss) = g[n]
               /\ \A i \in 0 .. n : g[i] \in Seq(V)
               /\ \A i \in 1 .. n : g[i] = g[i - 1] \o ss[i]
  <2>1. ss \in Seq(Seq(V)) => UnrollsTo(ss, V, Len(ss))
    BY FlattenUnrolls
  <2>2. UnrollsTo(ss, V, n)
    BY <1>3, <2>1
  <2> QED BY <2>2, Zenon DEF UnrollsTo
<1>5. OpsOver(S, ops) = g[n]
  BY <1>4 DEF OpsOver, ss, order
<1> DEFINE T == {i \in 0 .. n :
                   /\ (\A k \in 1 .. i : Quiet(ss[k], d, f)) => Quiet(g[i], d, f)
                   /\ (\E k \in 1 .. i : Settles(ss[k], d, f)) => Settles(g[i], d, f)}
<1>6. 0 \in T
  <2>1. Quiet(<<>>, d, f)
    BY DEF Quiet
  <2> QED BY <1>1, <1>4, <2>1
<1>7. ASSUME NEW i \in 1 .. n, i - 1 \in T PROVE i \in T
  <2>1. /\ g[i] = g[i - 1] \o ss[i] /\ g[i - 1] \in Seq(V) /\ ss[i] \in Seq(V) /\ i \in 0 .. n
    BY <1>1, <1>2, <1>4, PartsInOrder
  <2>2. /\ Quiet(g[i - 1], d, f) /\ Quiet(ss[i], d, f) => Quiet(g[i], d, f)
        /\ Settles(g[i - 1], d, f) /\ Quiet(ss[i], d, f) => Settles(g[i], d, f)
        /\ Settles(ss[i], d, f) => Settles(g[i], d, f)
    BY <2>1, ConcatSettles
  <2>3. \A k \in 1 .. i - 1 : k \in 1 .. i
    OBVIOUS
  <2>4. \A k \in 1 .. i : k = i \/ k \in 1 .. i - 1
    OBVIOUS
  <2>5. Settles(ss[i], d, f) \/ Quiet(ss[i], d, f)
    BY <1>1, <1>2
  <2>6. /\ (\A k \in 1 .. i - 1 : Quiet(ss[k], d, f)) => Quiet(g[i - 1], d, f)
        /\ (\E k \in 1 .. i - 1 : Settles(ss[k], d, f)) => Settles(g[i - 1], d, f)
    BY <1>7
  <2>7. i \in 1 .. i
    OBVIOUS
  <2>8. (\A k \in 1 .. i : Quiet(ss[k], d, f)) => Quiet(g[i], d, f)
    BY <2>2, <2>3, <2>6, <2>7, Zenon
  <2>9. (\E k \in 1 .. i : Settles(ss[k], d, f)) => Settles(g[i], d, f)
    BY <2>2, <2>4, <2>5, <2>6, Zenon
  <2> QED BY <2>1, <2>8, <2>9, Zenon
<1> HIDE DEF T
<1>8. n \in T
  BY <1>1, <1>6, <1>7, Climb
<1>9. /\ (\A k \in 1 .. n : Quiet(ss[k], d, f)) => Quiet(g[n], d, f)
      /\ (\E k \in 1 .. n : Settles(ss[k], d, f)) => Settles(g[n], d, f)
  BY <1>8 DEF T
<1>10. /\ (\A x \in S : Quiet(ops[x], d, f)) => \A k \in 1 .. n : Quiet(ss[k], d, f)
       /\ (\E x \in S : Settles(ops[x], d, f)) => \E k \in 1 .. n : Settles(ss[k], d, f)
  BY <1>1, <1>2
<1> QED BY <1>5, <1>9, <1>10

-----------------------------------------------------------------------------
(* The inductive invariant.                                                  *)

PlainOp  == {"makeRuns", "makeDir", "compare", "checkReady", "truncate", "write",
             "truncateMapping", "writeMapping"}
RemoveOp == {"cleanSlate", "remove", "removeRuns"}
SolverOp == {"unfinish", "markNo", "openResult", "solve", "markYes"}
PlotOp   == {"readMapping", "plot"}

Op ==
  [do : {"makeDir", "compare", "checkReady", "remove", "run"} \cup SolverOp, dir : Config]
    \cup [do : {"truncate", "write"}, dir : Config, file : File]
    \cup [do : {"cleanSlate", "removeRuns", "makeRuns", "truncateMapping", "noDirectory",
                "readMapping"}]
    \cup [do : {"writeMapping"}, of : Drafts] \cup [do : {"plot"}, of : Instance]

Ops(kinds) == {op \in Op : op.do \in kinds}

Typed ==
  /\ doc \in Drafts /\ dirs \subseteq Config /\ IsFiniteSet(dirs)
  /\ files \in [Config -> [File -> {"absent", "empty", "ok"}]]
  /\ finished \in [Config -> {"absent", "empty", "No", "Yes"}]
  /\ result \in [Config -> {"none", "partial", "right", "misled"}]
  /\ mapping.state = "ok" => mapping.of \in Drafts
  /\ plots \in [Instance -> [of : SUBSET Config, drawn : BOOLEAN, complete : BOOLEAN]]
  /\ stage \in {"idle", "interpret", "run", "plot"} /\ program \in Seq(Op)
  /\ chained \in BOOLEAN /\ edited \in BOOLEAN

(* What each step is made of; step 3 visits directories that are there.      *)
StageSound ==
  /\ stage = "idle" => program = <<>> /\ ~chained
  /\ stage = "interpret" => program \in Seq(Ops(PlainOp \cup RemoveOp))
  /\ stage = "run" => /\ program \in Seq(Ops({"noDirectory", "run"} \cup SolverOp))
                      /\ \A k \in 1 .. Len(program) :
                           program[k].do # "noDirectory" => program[k].dir \in dirs
  /\ stage = "plot" => program \in Seq(Ops(PlotOp))
  /\ lastError.chained => stage = "idle"

(* The solver of d is at work, n of its operations done: nothing else is      *)
(* running, d is not finished, and its results are complete once solved.     *)
Solving(d, n) ==
  /\ 6 - n <= Len(program)
  /\ \A k \in 1 .. 6 - n : program[k] = SolverOps(d)[n + k]
  /\ \A k \in 1 .. Len(program) : k > 6 - n => program[k].do \notin SolverOp
  /\ finished[d] # "Yes"
  /\ n >= 4 => /\ result[d] \in {"right", "misled"}
               /\ chained /\ d \in Asked => result[d] = "right"

NotSolving == \A k \in 1 .. Len(program) : program[k].do \notin SolverOp

SolverSound == NotSolving \/ \E d \in dirs : \E n \in 0 .. 5 : Solving(d, n)

ResultsSound ==
  /\ \A d \in Config : finished[d] = "Yes" => result[d] \in {"right", "misled"}
  /\ \A i \in Instance : plots[i].complete

AskedOf(draft) == UNION {draft[i] : i \in DOMAIN draft}

Holds(d, f) == IF f = "dir" THEN d \in dirs ELSE files[d][f] = "ok"

(* What the document asked for when the interpretation began is there at its  *)
(* end, and the mapping is of that document.                                 *)
Interpreting(draft) ==
  /\ IF program = <<>> THEN mapping.state = "ok" /\ mapping.of = draft
     ELSE program[Len(program)].do = "writeMapping" /\ program[Len(program)].of = draft
  /\ ~edited => draft = doc
  /\ \A d \in AskedOf(draft) : \A f \in Product :
       Settles(program, d, f) \/ (Holds(d, f) /\ Quiet(program, d, f))

InterpretSound ==
  stage = "interpret" /\ chained =>
    program \in Seq(Ops(PlainOp)) /\ \E draft \in Drafts : Interpreting(draft)

Interpreted ==
  /\ mapping.state = "ok" /\ (~edited => mapping.of = doc)
  /\ \A d \in Asked : \A f \in Product : Holds(d, f)

(* Each directory asked for is finished, or has its turn.                    *)
RunSound ==
  stage = "run" /\ chained =>
    /\ Interpreted
    /\ \A k \in 1 .. Len(program) : program[k].do # "noDirectory"
    /\ \A d \in Asked :
         \/ finished[d] = "Yes"
         \/ \E k \in 1 .. Len(program) : program[k].do \in {"run", "markYes"} /\ program[k].dir = d

PlotSound ==
  stage = "plot" /\ chained =>
    /\ Interpreted /\ \A d \in Asked : finished[d] = "Yes"
    /\ ~edited => \A i \in DOMAIN doc :
         \/ \E k \in 1 .. Len(program) : program[k].do = "plot" /\ program[k].of = i
         \/ plots[i].drawn /\ plots[i].of = doc[i]

IInv ==
  /\ Typed /\ StageSound /\ SolverSound /\ ResultsSound
  /\ InterpretSound /\ RunSound /\ PlotSound /\ OnlyLeftoversFailSteps

-----------------------------------------------------------------------------
(* The operations of an interpretation.                                      *)

LEMMA OpFields ==
  ASSUME NEW op \in Op
  PROVE  /\ op.do \in {"makeDir", "compare", "checkReady", "remove", "run", "truncate", "write"}
                       \cup SolverOp => op.dir \in Config
         /\ op.do \in {"truncate", "write"} => op.file \in File
         /\ op.do = "writeMapping" => op.of \in Drafts
         /\ op.do = "plot" => op.of \in Instance
BY DEF Op, SolverOp

LEMMA OpKinds ==
  ASSUME NEW A, NEW B, A \subseteq B
  PROVE  Seq(Ops(A)) \subseteq Seq(Ops(B)) /\ Seq(Ops(A)) \subseteq Seq(Op)
<1>1. Ops(A) \subseteq Ops(B) /\ Ops(A) \subseteq Op
  BY DEF Ops
<1> HIDE DEF Op
<1> QED BY <1>1

LEMMA RewriteOps ==
  ASSUME NEW d \in Config, NEW f \in File
  PROVE  /\ Rewrite(d, f) \in Seq(Ops(PlainOp))
         /\ \A e : \A g \in Product :
              IF e = d /\ g = f THEN Settles(Rewrite(d, f), e, g) ELSE Quiet(Rewrite(d, f), e, g)
<1> DEFINE t == [do |-> "truncate", dir |-> d, file |-> f]
           w == [do |-> "write", dir |-> d, file |-> f]
<1>1. t \in Ops(PlainOp) /\ w \in Ops(PlainOp)
  BY DEF Ops, Op, PlainOp
<1>2. t.do = "truncate" /\ t.dir = d /\ t.file = f /\ w.do = "write" /\ w.dir = d /\ w.file = f
  OBVIOUS
<1>3. Rewrite(d, f) = <<t, w>>
  BY DEF Rewrite
<1> HIDE DEF t, w
<1>4. Rewrite(d, f) \in Seq(Ops(PlainOp))
  BY <1>1, <1>3
<1>5. Len(Rewrite(d, f)) = 2 /\ Rewrite(d, f)[1] = t /\ Rewrite(d, f)[2] = w
  BY <1>3
<1>6. ASSUME NEW e, NEW g \in Product, ~ (e = d /\ g = f)
      PROVE  Quiet(Rewrite(d, f), e, g)
  BY <1>2, <1>5, <1>6 DEF Quiet, Spoils
<1>7. ASSUME f \in Product
      PROVE  Settles(Rewrite(d, f), d, f)
  <2>1. f # "dir"
    BY DEF File
  <2>2. 2 \in 1 .. Len(Rewrite(d, f)) /\ Gives(Rewrite(d, f)[2], d, f)
    BY <1>2, <1>5, <2>1 DEF Gives
  <2>3. \A j \in 1 .. Len(Rewrite(d, f)) : ~ (j > 2)
    BY <1>5
  <2> QED BY <2>2, <2>3 DEF Settles
<1> QED BY <1>4, <1>6, <1>7

LEMMA OnOps ==
  ASSUME NEW d \in Config, NEW what \in PlainOp \cup RemoveOp \cup SolverOp \cup {"run"},
         what \notin {"makeRuns", "truncate", "write", "truncateMapping", "writeMapping",
                      "cleanSlate", "removeRuns"}
  PROVE  /\ On(d, what) \in Seq(Ops({what})) /\ On(d, what) = <<[do |-> what, dir |-> d]>>
         /\ \A e, g : Quiet(On(d, what), e, g)
<1> DEFINE o == [do |-> what, dir |-> d]
<1>1. o \in Ops({what}) /\ o.do = what
  BY DEF Ops, Op, PlainOp, RemoveOp, SolverOp
<1>2. On(d, what) = <<o>>
  BY DEF On
<1> HIDE DEF o
<1>3. On(d, what) \in Seq(Ops({what})) /\ Len(On(d, what)) = 1 /\ On(d, what)[1] = o
  BY <1>1, <1>2
<1> QED BY <1>1, <1>2, <1>3 DEF Quiet, Spoils, o

LEMMA RunDirOpsSettle ==
  ASSUME NEW d \in Config
  PROVE  /\ RunDirOps(d) \in Seq(Ops(PlainOp))
         /\ \A e : \A f \in Product :
              IF e = d /\ f \in {"dir", "input"} THEN Settles(RunDirOps(d), e, f)
              ELSE Quiet(RunDirOps(d), e, f)
<1> DEFINE V == Ops(PlainOp)
           p == On(d, "makeDir")
           q == p \o On(d, "compare") \o On(d, "checkReady")
           r == q \o Rewrite(d, "dataStructure")
           s == r \o Rewrite(d, "input")
           t == s \o Rewrite(d, "inputReady")
<1>1. RunDirOps(d) = t
  BY DEF RunDirOps
<1>2. /\ On(d, "makeDir") \in Seq(V) /\ On(d, "compare") \in Seq(V)
      /\ On(d, "checkReady") \in Seq(V)
  <2>1. Seq(Ops({"makeDir"})) \subseteq Seq(V) /\ Seq(Ops({"compare"})) \subseteq Seq(V)
        /\ Seq(Ops({"checkReady"})) \subseteq Seq(V)
    BY OpKinds DEF PlainOp
  <2> QED BY <2>1, OnOps DEF PlainOp
<1>3. "dataStructure" \in File /\ "input" \in File /\ "inputReady" \in File
  BY DEF File
<1>4. /\ Rewrite(d, "dataStructure") \in Seq(V) /\ Rewrite(d, "input") \in Seq(V)
      /\ Rewrite(d, "inputReady") \in Seq(V)
  BY <1>3, RewriteOps
<1> HIDE DEF V
<1>5. p \in Seq(V) /\ p \o On(d, "compare") \in Seq(V) /\ q \in Seq(V)
  BY <1>2
<1>6. r \in Seq(V) /\ s \in Seq(V) /\ t \in Seq(V)
  <2> HIDE DEF q
  <2> QED BY <1>4, <1>5
<1> SUFFICES ASSUME NEW e, NEW f \in Product
             PROVE  IF e = d /\ f \in {"dir", "input"} THEN Settles(t, e, f) ELSE Quiet(t, e, f)
  BY <1>1, <1>6 DEF V
<1>7. /\ Quiet(On(d, "makeDir"), e, f) /\ Quiet(On(d, "compare"), e, f)
      /\ Quiet(On(d, "checkReady"), e, f)
  BY OnOps DEF PlainOp
<1>8. Quiet(Rewrite(d, "dataStructure"), e, f) /\ Quiet(Rewrite(d, "inputReady"), e, f)
  BY <1>3, RewriteOps DEF Product
<1>9. IF e = d /\ f = "input" THEN Settles(Rewrite(d, "input"), e, f)
      ELSE Quiet(Rewrite(d, "input"), e, f)
  BY <1>3, RewriteOps
<1>10. Quiet(q, e, f) /\ Quiet(r, e, f)
  <2>1. Quiet(p \o On(d, "compare"), e, f)
    BY <1>2, <1>5, <1>7, ConcatSettles
  <2>2. Quiet(q, e, f)
    BY <1>2, <1>5, <1>7, <2>1, ConcatSettles
  <2> QED BY <1>4, <1>5, <1>8, <2>2, ConcatSettles
<1>11. CASE ~ (e = d /\ f \in {"dir", "input"})
  <2>1. Quiet(s, e, f)
    BY <1>4, <1>6, <1>9, <1>10, <1>11, ConcatSettles
  <2>2. Quiet(t, e, f)
    BY <1>4, <1>6, <1>8, <2>1, ConcatSettles
  <2> QED BY <1>11, <2>2
<1>12. CASE e = d /\ f = "input"
  <2>1. Settles(s, e, f)
    BY <1>4, <1>6, <1>9, <1>12, ConcatSettles
  <2>2. Settles(t, e, f)
    BY <1>4, <1>6, <1>8, <2>1, ConcatSettles
  <2> QED BY <1>12, <2>2
<1>13. CASE e = d /\ f = "dir"
  <2>1. Settles(p, e, f)
    <3>1. p = <<[do |-> "makeDir", dir |-> d]>>
      BY OnOps DEF PlainOp
    <3>2. Len(p) = 1 /\ p[1].do = "makeDir" /\ p[1].dir = d
      BY <3>1
    <3> HIDE DEF p
    <3>3. 1 \in 1 .. Len(p) /\ Gives(p[1], e, f) /\ \A j \in 1 .. Len(p) : ~ (j > 1)
      BY <1>13, <3>2 DEF Gives
    <3> QED BY <3>3 DEF Settles
  <2>2. Settles(p \o On(d, "compare"), e, f)
    BY <1>2, <1>5, <1>7, <2>1, ConcatSettles
  <2>3. Settles(q, e, f)
    BY <1>2, <1>5, <1>7, <2>2, ConcatSettles
  <2>4. Settles(r, e, f)
    BY <1>4, <1>5, <1>8, <2>3, ConcatSettles
  <2>5. Settles(s, e, f)
    BY <1>4, <1>6, <1>9, <1>13, <2>4, ConcatSettles
  <2>6. Settles(t, e, f)
    BY <1>4, <1>6, <1>8, <2>5, ConcatSettles
  <2> QED BY <1>13, <2>6
<1> QED BY <1>11, <1>12, <1>13

LEMMA InstanceOpsSettle ==
  ASSUME NEW configs \in SUBSET Config, IsFiniteSet(configs)
  PROVE  /\ InstanceOps(configs) \in Seq(Ops(PlainOp))
         /\ \A d : \A f \in Product :
              IF d \in configs THEN Settles(InstanceOps(configs), d, f)
              ELSE Quiet(InstanceOps(configs), d, f)
<1> DEFINE V == Ops(PlainOp)
           make == [d \in configs |-> RunDirOps(d)]
           script == [d \in configs |-> Rewrite(d, "runScript")]
           p == OpsOver(configs, make)
           q == OpsOver(configs, script)
<1>1. "runScript" \in File
  BY DEF File
<1>2. make \in [configs -> Seq(V)] /\ script \in [configs -> Seq(V)]
  <2>1. \A d \in configs : RunDirOps(d) \in Seq(V) /\ Rewrite(d, "runScript") \in Seq(V)
    BY <1>1, RunDirOpsSettle, RewriteOps
  <2> QED BY <2>1
<1>3. /\ Operations(configs, RunDirOps) = p
      /\ Operations(configs, LAMBDA d : Rewrite(d, "runScript")) = q
  <2>1. SetToSeq(configs) \in [1 .. Cardinality(configs) -> configs]
    BY SetToSeqLists
  <2>2. \A k \in DOMAIN SetToSeq(configs) : SetToSeq(configs)[k] \in configs
    BY <2>1
  <2>3. [k \in DOMAIN SetToSeq(configs) |-> RunDirOps(SetToSeq(configs)[k])]
          = [k \in DOMAIN SetToSeq(configs) |-> make[SetToSeq(configs)[k]]]
    BY <2>2
  <2>4. [k \in DOMAIN SetToSeq(configs) |-> Rewrite(SetToSeq(configs)[k], "runScript")]
          = [k \in DOMAIN SetToSeq(configs) |-> script[SetToSeq(configs)[k]]]
    BY <2>2
  <2>5. Operations(configs, RunDirOps) = p
    BY <2>3 DEF Operations, OpsOver
  <2>6. Operations(configs, LAMBDA d : Rewrite(d, "runScript")) = q
    BY <2>4 DEF Operations, OpsOver
  <2> QED BY <2>5, <2>6
<1>4. InstanceOps(configs) = p \o q
  BY <1>3 DEF InstanceOps
<1>5. \A d \in configs : make[d] = RunDirOps(d) /\ script[d] = Rewrite(d, "runScript")
  OBVIOUS
<1> HIDE DEF make, script
<1>6. p \in Seq(V) /\ q \in Seq(V)
  BY <1>2, OpsOverSolves
<1> SUFFICES ASSUME NEW d, NEW f \in Product
             PROVE  IF d \in configs THEN Settles(p \o q, d, f) ELSE Quiet(p \o q, d, f)
  BY <1>4, <1>6
<1>7. \A x \in configs :
        /\ IF d = x /\ f \in {"dir", "input"} THEN Settles(make[x], d, f) ELSE Quiet(make[x], d, f)
        /\ IF d = x /\ f = "runScript" THEN Settles(script[x], d, f) ELSE Quiet(script[x], d, f)
  BY <1>1, <1>5, RunDirOpsSettle, RewriteOps
<1>8. /\ (\E x \in configs : Settles(make[x], d, f)) => Settles(p, d, f)
      /\ (\A x \in configs : Quiet(make[x], d, f)) => Quiet(p, d, f)
      /\ (\E x \in configs : Settles(script[x], d, f)) => Settles(q, d, f)
      /\ (\A x \in configs : Quiet(script[x], d, f)) => Quiet(q, d, f)
  <2>1. \A x \in configs : Settles(make[x], d, f) \/ Quiet(make[x], d, f)
    BY <1>7
  <2>2. \A x \in configs : Settles(script[x], d, f) \/ Quiet(script[x], d, f)
    BY <1>7
  <2>3. /\ (\E x \in configs : Settles(make[x], d, f)) => Settles(p, d, f)
        /\ (\A x \in configs : Quiet(make[x], d, f)) => Quiet(p, d, f)
    BY <1>2, <2>1, OpsOverSettles
  <2>4. /\ (\E x \in configs : Settles(script[x], d, f)) => Settles(q, d, f)
        /\ (\A x \in configs : Quiet(script[x], d, f)) => Quiet(q, d, f)
    BY <1>2, <2>2, OpsOverSettles
  <2> QED BY <2>3, <2>4
<1> HIDE DEF p, q
<1>9. CASE d \notin configs
  <2>1. Quiet(p, d, f) /\ Quiet(q, d, f)
    BY <1>7, <1>8, <1>9
  <2> QED BY <1>6, <1>9, <2>1, ConcatSettles
<1>10. CASE d \in configs /\ f = "runScript"
  <2>1. Settles(q, d, f)
    BY <1>7, <1>8, <1>10
  <2> QED BY <1>6, <1>10, <2>1, ConcatSettles
<1>11. CASE d \in configs /\ f # "runScript"
  <2>1. Settles(p, d, f) /\ Quiet(q, d, f)
    BY <1>7, <1>8, <1>11 DEF Product
  <2> QED BY <1>6, <1>11, <2>1, ConcatSettles
<1> QED BY <1>9, <1>10, <1>11

LEMMA DraftIsFinite ==
  ASSUME NEW draft \in Drafts
  PROVE  /\ DOMAIN draft \subseteq Instance /\ IsFiniteSet(DOMAIN draft)
         /\ AskedOf(draft) \subseteq Config /\ AskedOf(draft) # {}
         /\ \A i \in DOMAIN draft : draft[i] \in SUBSET Config /\ IsFiniteSet(draft[i])
BY DraftsAssumption DEF AskedOf

(* The part of an interpretation that writes the run directories.            *)
Directories == Operations(DOMAIN doc, LAMBDA i : InstanceOps(doc[i]))

LEMMA DirectoriesSettle ==
  ASSUME doc \in Drafts
  PROVE  /\ Directories \in Seq(Ops(PlainOp))
         /\ \A d \in AskedOf(doc) : \A f \in Product : Settles(Directories, d, f)
<1> DEFINE S == DOMAIN doc
           ops == [i \in S |-> InstanceOps(doc[i])]
           p == OpsOver(S, ops)
<1>1. IsFiniteSet(S) /\ \A i \in S : doc[i] \in SUBSET Config /\ IsFiniteSet(doc[i])
  BY DraftIsFinite
<1>2. ops \in [S -> Seq(Ops(PlainOp))]
  <2>1. \A i \in S : InstanceOps(doc[i]) \in Seq(Ops(PlainOp))
    BY <1>1, InstanceOpsSettle
  <2> QED BY <2>1
<1>3. Directories = p
  <2>1. SetToSeq(S) \in [1 .. Cardinality(S) -> S]
    BY <1>1, SetToSeqLists
  <2>2. \A k \in DOMAIN SetToSeq(S) : SetToSeq(S)[k] \in S
    BY <2>1
  <2>3. [k \in DOMAIN SetToSeq(S) |-> InstanceOps(doc[SetToSeq(S)[k]])]
          = [k \in DOMAIN SetToSeq(S) |-> ops[SetToSeq(S)[k]]]
    BY <2>2
  <2> QED BY <2>3 DEF Directories, Operations, OpsOver
<1>4. \A i \in S : ops[i] = InstanceOps(doc[i])
  OBVIOUS
<1> HIDE DEF ops
<1>5. p \in Seq(Ops(PlainOp))
  BY <1>1, <1>2, OpsOverSolves
<1>6. ASSUME NEW d \in AskedOf(doc), NEW f \in Product PROVE Settles(p, d, f)
  <2>1. PICK i \in S : d \in doc[i]
    BY DEF AskedOf
  <2>2. \A x \in S : Settles(ops[x], d, f) \/ Quiet(ops[x], d, f)
    BY <1>1, <1>4, InstanceOpsSettle
  <2>3. Settles(ops[i], d, f)
    BY <1>1, <1>4, <2>1, InstanceOpsSettle
  <2> QED BY <1>1, <1>2, <2>2, <2>3, OpsOverSettles
<1> QED BY <1>3, <1>5, <1>6

LEMMA RemovalsTyped ==
  ASSUME NEW S \in SUBSET Config, IsFiniteSet(S)
  PROVE  Operations(S, LAMBDA d : On(d, "remove")) \in Seq(Ops({"remove"}))
<1> DEFINE ops == [d \in S |-> On(d, "remove")]
<1>1. ops \in [S -> Seq(Ops({"remove"}))]
  <2>1. \A d \in S : On(d, "remove") \in Seq(Ops({"remove"}))
    BY OnOps DEF RemoveOp
  <2> QED BY <2>1
<1>2. Operations(S, LAMBDA d : On(d, "remove")) = OpsOver(S, ops)
  <2>1. SetToSeq(S) \in [1 .. Cardinality(S) -> S]
    BY SetToSeqLists
  <2>2. \A k \in DOMAIN SetToSeq(S) : SetToSeq(S)[k] \in S
    BY <2>1
  <2>3. [k \in DOMAIN SetToSeq(S) |-> On(SetToSeq(S)[k], "remove")]
          = [k \in DOMAIN SetToSeq(S) |-> ops[SetToSeq(S)[k]]]
    BY <2>2
  <2> QED BY <2>3 DEF Operations, OpsOver
<1> HIDE DEF ops
<1> QED BY <1>1, <1>2, OpsOverSolves

(* An interpretation as a whole: it ends with the mapping of the document.   *)
LEMMA InterpretationSettles ==
  ASSUME Typed, NEW flag
  PROVE  /\ Interpretation(flag) \in Seq(Ops(PlainOp \cup RemoveOp))
         /\ flag = "none" =>
              /\ Interpretation(flag) \in Seq(Ops(PlainOp)) /\ Interpretation(flag) # <<>>
              /\ LET last == Interpretation(flag)[Len(Interpretation(flag))]
                 IN  last.do = "writeMapping" /\ last.of = doc
              /\ \A d \in AskedOf(doc) : \A f \in Product : Settles(Interpretation(flag), d, f)
<1> DEFINE W == Ops(PlainOp \cup RemoveOp)
           V == Ops(PlainOp)
           t == [do |-> "truncateMapping"]
           w == [do |-> "writeMapping", of |-> doc]
           m == [do |-> "makeRuns"]
           a == IF flag = "clean-slate" THEN CleanSlateOps ELSE <<>>
           b == IF flag = "remove-unused"
                THEN Operations(dirs \ UNION {doc[i] : i \in DOMAIN doc}, LAMBDA d : On(d, "remove"))
                ELSE <<>>
           z == <<t, w>>
           p == ((a \o <<m>>) \o Directories) \o b
           all == p \o z
<1>1. Interpretation(flag) = all
  BY DEF Interpretation, Directories
<1>2. doc \in Drafts /\ dirs \subseteq Config /\ IsFiniteSet(dirs)
  BY DEF Typed
<1>3. t \in V /\ w \in V /\ m \in V
  BY <1>2 DEF Ops, Op, PlainOp
<1>4. Directories \in Seq(V) /\ \A d \in AskedOf(doc) : \A f \in Product : Settles(Directories, d, f)
  BY <1>2, DirectoriesSettle
<1>5. Seq(V) \subseteq Seq(W) /\ Seq(Ops({"remove"})) \subseteq Seq(W)
  BY OpKinds DEF RemoveOp
<1>6. a \in Seq(W) /\ (flag = "none" => a = <<>>)
  <2>1. <<>> \in Seq(W)
    OBVIOUS
  <2>2. CleanSlateOps \in Seq(W)
    <3> DEFINE c == [do |-> "cleanSlate"]
               r == [do |-> "removeRuns"]
               o == Operations(dirs, LAMBDA d : On(d, "remove"))
    <3>1. c \in W /\ r \in W
      BY DEF Ops, Op, RemoveOp
    <3>2. o \in Seq(W)
      BY <1>2, <1>5, RemovalsTyped
    <3>3. CleanSlateOps = (<<c>> \o o) \o <<r>>
      BY DEF CleanSlateOps
    <3> HIDE DEF c, r, o, W
    <3>4. <<c>> \o o \in Seq(W)
      BY <3>1, <3>2
    <3> QED BY <3>1, <3>3, <3>4
  <2> HIDE DEF W
  <2> QED BY <2>1, <2>2
<1>7. b \in Seq(W) /\ (flag = "none" => b = <<>>)
  <2>1. <<>> \in Seq(W)
    OBVIOUS
  <2> DEFINE S == dirs \ UNION {doc[i] : i \in DOMAIN doc}
  <2>2. S \in SUBSET Config /\ IsFiniteSet(S)
    BY <1>2, FS_Subset
  <2> HIDE DEF S
  <2>3. Operations(S, LAMBDA d : On(d, "remove")) \in Seq(W)
    BY <1>5, <2>2, RemovalsTyped
  <2> HIDE DEF W
  <2> QED BY <2>1, <2>3 DEF S
<1> HIDE DEF W, V, t, w, m, a, b
<1>8. z \in Seq(V) /\ z \in Seq(W) /\ Len(z) = 2 /\ z[1] = t /\ z[2] = w
  <2>1. z \in Seq(V)
    BY <1>3
  <2>2. Len(z) = 2 /\ z[1] = t /\ z[2] = w
    OBVIOUS
  <2> HIDE DEF z
  <2> QED BY <1>5, <2>1, <2>2
<1>9. <<m>> \in Seq(V) /\ <<m>> \in Seq(W)
  <2>1. <<m>> \in Seq(V)
    BY <1>3
  <2> QED BY <1>5, <2>1, Zenon
<1> HIDE DEF z
<1>10. all \in Seq(W)
  <2>1. a \o <<m>> \in Seq(W) /\ Directories \in Seq(W)
    BY <1>4, <1>5, <1>6, <1>9
  <2>2. (a \o <<m>>) \o Directories \in Seq(W)
    BY <2>1
  <2>3. p \in Seq(W)
    BY <1>7, <2>2
  <2> HIDE DEF p
  <2> QED BY <1>8, <2>3
<1>11. ASSUME flag = "none"
       PROVE  /\ all \in Seq(V) /\ all # <<>>
              /\ all[Len(all)].do = "writeMapping" /\ all[Len(all)].of = doc
              /\ \A d \in AskedOf(doc) : \A f \in Product : Settles(all, d, f)
  <2> DEFINE q == <<m>> \o Directories
  <2>1. a = <<>> /\ b = <<>>
    BY <1>6, <1>7, <1>11
  <2>2. a \o <<m>> = <<m>>
    BY <1>9, <2>1
  <2>3. q \in Seq(V)
    BY <1>4, <1>9
  <2>4. p = q
    <3>1. p = q \o <<>>
      BY <2>1, <2>2
    <3> HIDE DEF p, q
    <3> QED BY <2>3, <3>1
  <2>5. \A d \in AskedOf(doc) : \A f \in Product : Settles(q, d, f)
    BY <1>4, <1>9, ConcatSettles
  <2> HIDE DEF p, q
  <2>6. all \in Seq(V) /\ Len(all) = Len(q) + 2 /\ all[Len(all)] = w
    <3> DEFINE r == q \o z
    <3>1. all = r
      BY <2>4
    <3>2. 2 \in 1 .. Len(z)
      BY <1>8
    <3>3. q \in Seq(V) /\ z \in Seq(V) /\ r = q \o z
      BY <1>8, <2>3, Zenon
    <3> HIDE DEF all, r
    <3>4. /\ r \in Seq(V) /\ Len(r) = Len(q) + Len(z)
          /\ \A k \in 1 .. Len(z) : r[Len(q) + k] = z[k]
      BY <3>3, ConcatIs
    <3>5. r[Len(q) + 2] = w
      BY <1>8, <3>2, <3>4
    <3> QED BY <1>8, <3>1, <3>4, <3>5
  <2>7. w.do = "writeMapping" /\ w.of = doc /\ t.do = "truncateMapping"
    BY DEF w, t
  <2>8. \A d, f : Quiet(z, d, f)
    BY <1>8, <2>7 DEF Quiet, Spoils
  <2>9. \A d \in AskedOf(doc) : \A f \in Product : Settles(all, d, f)
    BY <1>8, <2>3, <2>4, <2>5, <2>8, ConcatSettles
  <2>10. all # <<>>
    <3>1. Len(q) \in Nat
      BY <2>3
    <3> QED BY <2>6, <3>1
  <2> HIDE DEF all
  <2> QED BY <2>6, <2>7, <2>9, <2>10
<1> HIDE DEF all
<1> QED BY <1>1, <1>10, <1>11 DEF V, W

-----------------------------------------------------------------------------
(* The operations of steps 3 and 4.                                          *)

LEMMA RunOpsVisit ==
  ASSUME Typed
  PROVE  /\ RunOps \in Seq(Ops({"noDirectory", "run"}))
         /\ \A k \in 1 .. Len(RunOps) : RunOps[k].do # "noDirectory" => RunOps[k].dir \in dirs
         /\ dirs # {} => \A k \in 1 .. Len(RunOps) : RunOps[k].do = "run"
         /\ \A d \in dirs : \E k \in 1 .. Len(RunOps) : RunOps[k].do = "run" /\ RunOps[k].dir = d
<1>1. IsFiniteSet(dirs) /\ dirs \subseteq Config
  BY DEF Typed
<1>2. CASE dirs = {}
  <2> DEFINE o == [do |-> "noDirectory"]
  <2>1. o \in Ops({"noDirectory", "run"}) /\ o.do = "noDirectory"
    BY DEF Ops, Op
  <2>2. RunOps = <<o>>
    BY <1>2 DEF RunOps
  <2> HIDE DEF o
  <2>3. RunOps \in Seq(Ops({"noDirectory", "run"})) /\ Len(RunOps) = 1 /\ RunOps[1] = o
    BY <2>1, <2>2
  <2> QED BY <1>2, <2>1, <2>3
<1>3. CASE dirs # {}
  <2> DEFINE V == {op \in Ops({"run"}) : op.dir \in dirs}
             ops == [d \in dirs |-> On(d, "run")]
  <2>1. \A d \in dirs : /\ On(d, "run") = <<[do |-> "run", dir |-> d]>>
                        /\ [do |-> "run", dir |-> d] \in V
    BY <1>1, OnOps DEF Ops, Op
  <2>2. /\ \A d \in dirs : /\ On(d, "run") \in Seq(V) /\ Len(On(d, "run")) = 1
                           /\ On(d, "run")[1].do = "run" /\ On(d, "run")[1].dir = d
    <3> SUFFICES ASSUME NEW d \in dirs
                 PROVE  /\ On(d, "run") \in Seq(V) /\ Len(On(d, "run")) = 1
                        /\ On(d, "run")[1].do = "run" /\ On(d, "run")[1].dir = d
      OBVIOUS
    <3> DEFINE o == [do |-> "run", dir |-> d]
    <3>1. On(d, "run") = <<o>> /\ o \in V /\ o.do = "run" /\ o.dir = d
      BY <2>1
    <3> HIDE DEF V, o
    <3>2. <<o>> \in Seq(V) /\ Len(<<o>>) = 1 /\ <<o>>[1] = o
      BY <3>1
    <3>3. On(d, "run") \in Seq(V) /\ Len(On(d, "run")) = 1 /\ On(d, "run")[1] = o
      BY <3>1, <3>2, Zenon
    <3> QED BY <3>1, <3>3, Zenon
  <2>3. ops \in [dirs -> Seq(V)] /\ \A d \in dirs : ops[d] = On(d, "run")
    <3> HIDE DEF V
    <3> QED BY <2>2
  <2>4. RunOps = OpsOver(dirs, ops)
    <3>1. SetToSeq(dirs) \in [1 .. Cardinality(dirs) -> dirs]
      BY <1>1, SetToSeqLists
    <3>2. \A k \in DOMAIN SetToSeq(dirs) : SetToSeq(dirs)[k] \in dirs
      BY <3>1
    <3>3. [k \in DOMAIN SetToSeq(dirs) |-> On(SetToSeq(dirs)[k], "run")]
            = [k \in DOMAIN SetToSeq(dirs) |-> ops[SetToSeq(dirs)[k]]]
      BY <3>2
    <3> QED BY <1>3, <3>3 DEF RunOps, Operations, OpsOver
  <2> HIDE DEF ops, V
  <2>5. /\ RunOps \in Seq(V)
        /\ \A d \in dirs : \A j \in 1 .. Len(ops[d]) :
             \E l \in 1 .. Len(RunOps) : RunOps[l] = ops[d][j]
    BY <1>1, <2>3, <2>4, OpsOverSolves
  <2>6. \A k \in 1 .. Len(RunOps) : RunOps[k] \in V
    BY <2>5
  <2>7. V \subseteq Ops({"run"}) /\ \A op \in V : op.do = "run" /\ op.dir \in dirs
    BY DEF V, Ops
  <2>8. RunOps \in Seq(Ops({"noDirectory", "run"}))
    <3>1. V \subseteq Ops({"noDirectory", "run"})
      BY <2>7 DEF Ops
    <3> QED BY <2>5, <3>1
  <2>9. ASSUME NEW d \in dirs
        PROVE  \E k \in 1 .. Len(RunOps) : RunOps[k].do = "run" /\ RunOps[k].dir = d
    <3>1. ops[d] = On(d, "run") /\ 1 \in 1 .. Len(ops[d])
      BY <2>2, <2>3
    <3>2. PICK l \in 1 .. Len(RunOps) : RunOps[l] = ops[d][1]
      BY <2>5, <3>1
    <3> QED BY <2>2, <3>1, <3>2
  <2> QED BY <2>6, <2>7, <2>8, <2>9
<1> QED BY <1>2, <1>3

LEMMA PlotOpsVisit ==
  ASSUME Typed
  PROVE  /\ PlotOps \in Seq(Ops(PlotOp))
         /\ \A i \in DOMAIN doc :
              \E k \in 1 .. Len(PlotOps) : PlotOps[k].do = "plot" /\ PlotOps[k].of = i
<1> DEFINE S == DOMAIN doc
           r == [do |-> "readMapping"]
           V == Ops(PlotOp)
           ops == [i \in S |-> <<[do |-> "plot", of |-> i]>>]
           p == OpsOver(S, ops)
<1>1. S \subseteq Instance /\ IsFiniteSet(S)
  BY DraftIsFinite DEF Typed
<1>2. r \in V /\ \A i \in S : [do |-> "plot", of |-> i] \in V
  BY <1>1 DEF Ops, Op, PlotOp
<1>3. PlotOps = <<r>> \o p
  <2>1. SetToSeq(S) \in [1 .. Cardinality(S) -> S]
    BY <1>1, SetToSeqLists
  <2>2. \A k \in DOMAIN SetToSeq(S) : SetToSeq(S)[k] \in S
    BY <2>1
  <2>3. [k \in DOMAIN SetToSeq(S) |-> <<[do |-> "plot", of |-> SetToSeq(S)[k]]>>]
          = [k \in DOMAIN SetToSeq(S) |-> ops[SetToSeq(S)[k]]]
    BY <2>2
  <2> QED BY <2>3 DEF PlotOps, Operations, OpsOver
<1>4. \A i \in S : /\ ops[i] \in Seq(V) /\ Len(ops[i]) = 1
                   /\ ops[i][1].do = "plot" /\ ops[i][1].of = i
  <2> SUFFICES ASSUME NEW i \in S
               PROVE  /\ ops[i] \in Seq(V) /\ Len(ops[i]) = 1
                      /\ ops[i][1].do = "plot" /\ ops[i][1].of = i
    OBVIOUS
  <2> DEFINE o == [do |-> "plot", of |-> i]
  <2>1. ops[i] = <<o>> /\ o \in V /\ o.do = "plot" /\ o.of = i
    BY <1>2
  <2> HIDE DEF V, o, ops
  <2> QED BY <2>1
<1>5. ops \in [S -> Seq(V)]
  BY <1>4
<1> HIDE DEF ops, V, r
<1>6. /\ p \in Seq(V)
      /\ \A i \in S : \A j \in 1 .. Len(ops[i]) : \E l \in 1 .. Len(p) : p[l] = ops[i][j]
  BY <1>1, <1>5, OpsOverSolves
<1>7. <<r>> \in Seq(V) /\ Len(<<r>>) = 1
  BY <1>2
<1> HIDE DEF p
<1>8. /\ <<r>> \o p \in Seq(V)
      /\ \A k \in 1 .. Len(p) : /\ (<<r>> \o p)[Len(<<r>>) + k] = p[k]
                                /\ Len(<<r>>) + k \in 1 .. Len(<<r>> \o p)
  BY <1>6, <1>7, ConcatIs
<1>9. ASSUME NEW i \in S
      PROVE  \E k \in 1 .. Len(<<r>> \o p) : /\ (<<r>> \o p)[k].do = "plot"
                                             /\ (<<r>> \o p)[k].of = i
  <2>1. 1 \in 1 .. Len(ops[i])
    BY <1>4
  <2>2. PICK l \in 1 .. Len(p) : p[l] = ops[i][1]
    BY <1>6, <2>1
  <2> DEFINE k == Len(<<r>>) + l
  <2>3. k \in 1 .. Len(<<r>> \o p) /\ (<<r>> \o p)[k] = p[l]
    BY <1>8
  <2> HIDE DEF k
  <2> QED BY <1>4, <2>2, <2>3
<1> QED BY <1>3, <1>8, <1>9 DEF V

LEMMA ConcatOne ==
  ASSUME NEW V, NEW p \in Seq(V), NEW o \in V, NEW r, r = p \o <<o>>
  PROVE  /\ r \in Seq(V) /\ Len(r) = Len(p) + 1 /\ r[Len(p) + 1] = o
         /\ \A k \in 1 .. Len(p) : r[k] = p[k]
OBVIOUS

LEMMA SolverOpsAre ==
  ASSUME NEW d \in Config
  PROVE  /\ SolverOps(d) \in Seq(Ops(SolverOp)) /\ Len(SolverOps(d)) = 6
         /\ \A k \in 1 .. 6 : SolverOps(d)[k].dir = d
         /\ SolverOps(d)[1].do = "unfinish" /\ SolverOps(d)[2].do = "markNo"
         /\ SolverOps(d)[3].do = "openResult" /\ SolverOps(d)[4].do = "solve"
         /\ SolverOps(d)[5].do = "unfinish" /\ SolverOps(d)[6].do = "markYes"
<1> DEFINE V == Ops(SolverOp)
           o(what) == [do |-> what, dir |-> d]
           p1 == <<o("unfinish")>>
           p2 == p1 \o <<o("markNo")>>
           p3 == p2 \o <<o("openResult")>>
           p4 == p3 \o <<o("solve")>>
           p5 == p4 \o <<o("unfinish")>>
           p6 == p5 \o <<o("markYes")>>
<1>1. \A what \in SolverOp : o(what) \in V /\ o(what).do = what /\ o(what).dir = d
  BY DEF Ops, Op
<1>2. SolverOps(d) = p6
  BY DEF SolverOps, On
<1> HIDE DEF o, V
<1>3. /\ o("unfinish") \in V /\ o("markNo") \in V /\ o("openResult") \in V
      /\ o("solve") \in V /\ o("markYes") \in V
  BY <1>1 DEF SolverOp
<1>4. p1 \in Seq(V) /\ Len(p1) = 1 /\ p1[1] = o("unfinish")
  BY <1>3
<1> HIDE DEF p1
<1>5. p2 \in Seq(V) /\ Len(p2) = 2 /\ p2[1] = o("unfinish") /\ p2[2] = o("markNo")
  <2>1. p2 = p1 \o <<o("markNo")>>
    OBVIOUS
  <2> HIDE DEF p2
  <2>2. /\ p2 \in Seq(V) /\ Len(p2) = Len(p1) + 1 /\ p2[Len(p1) + 1] = o("markNo")
        /\ \A k \in 1 .. Len(p1) : p2[k] = p1[k]
    <3>1. p1 \in Seq(V) /\ o("markNo") \in V
      BY <1>3, <1>4
    <3> QED BY <2>1, <3>1, ConcatOne
  <2> QED BY <1>4, <2>2
<1> HIDE DEF p2
<1>6. /\ p3 \in Seq(V) /\ Len(p3) = 3
      /\ p3[1] = o("unfinish") /\ p3[2] = o("markNo") /\ p3[3] = o("openResult")
  <2>1. p3 = p2 \o <<o("openResult")>>
    OBVIOUS
  <2> HIDE DEF p3
  <2>2. /\ p3 \in Seq(V) /\ Len(p3) = Len(p2) + 1 /\ p3[Len(p2) + 1] = o("openResult")
        /\ \A k \in 1 .. Len(p2) : p3[k] = p2[k]
    <3>1. p2 \in Seq(V) /\ o("openResult") \in V
      BY <1>3, <1>5
    <3> QED BY <2>1, <3>1, ConcatOne
  <2> QED BY <1>5, <2>2
<1> HIDE DEF p3
<1>7. /\ p4 \in Seq(V) /\ Len(p4) = 4 /\ p4[4] = o("solve")
      /\ p4[1] = o("unfinish") /\ p4[2] = o("markNo") /\ p4[3] = o("openResult")
  <2>1. p4 = p3 \o <<o("solve")>>
    OBVIOUS
  <2> HIDE DEF p4
  <2>2. /\ p4 \in Seq(V) /\ Len(p4) = Len(p3) + 1 /\ p4[Len(p3) + 1] = o("solve")
        /\ \A k \in 1 .. Len(p3) : p4[k] = p3[k]
    <3>1. p3 \in Seq(V) /\ o("solve") \in V
      BY <1>3, <1>6
    <3> QED BY <2>1, <3>1, ConcatOne
  <2> QED BY <1>6, <2>2
<1> HIDE DEF p4
<1>8. /\ p5 \in Seq(V) /\ Len(p5) = 5 /\ p5[4] = o("solve") /\ p5[5] = o("unfinish")
      /\ p5[1] = o("unfinish") /\ p5[2] = o("markNo") /\ p5[3] = o("openResult")
  <2>1. p5 = p4 \o <<o("unfinish")>>
    OBVIOUS
  <2> HIDE DEF p5
  <2>2. /\ p5 \in Seq(V) /\ Len(p5) = Len(p4) + 1 /\ p5[Len(p4) + 1] = o("unfinish")
        /\ \A k \in 1 .. Len(p4) : p5[k] = p4[k]
    <3>1. p4 \in Seq(V) /\ o("unfinish") \in V
      BY <1>3, <1>7
    <3> QED BY <2>1, <3>1, ConcatOne
  <2> QED BY <1>7, <2>2
<1> HIDE DEF p5
<1>9. /\ p6 \in Seq(V) /\ Len(p6) = 6 /\ p6[6] = o("markYes")
      /\ p6[4] = o("solve") /\ p6[5] = o("unfinish")
      /\ p6[1] = o("unfinish") /\ p6[2] = o("markNo") /\ p6[3] = o("openResult")
  <2>1. p6 = p5 \o <<o("markYes")>>
    OBVIOUS
  <2> HIDE DEF p6
  <2>2. /\ p6 \in Seq(V) /\ Len(p6) = Len(p5) + 1 /\ p6[Len(p5) + 1] = o("markYes")
        /\ \A k \in 1 .. Len(p5) : p6[k] = p5[k]
    <3>1. p5 \in Seq(V) /\ o("markYes") \in V
      BY <1>3, <1>8
    <3> QED BY <2>1, <3>1, ConcatOne
  <2> QED BY <1>8, <2>2
<1> HIDE DEF p6
<1>10. /\ \A k \in 1 .. 6 : p6[k].dir = d
       /\ p6[1].do = "unfinish" /\ p6[2].do = "markNo" /\ p6[3].do = "openResult"
       /\ p6[4].do = "solve" /\ p6[5].do = "unfinish" /\ p6[6].do = "markYes"
  <2>1. \A k \in 1 .. 6 : k \in {1, 2, 3, 4, 5, 6}
    OBVIOUS
  <2> QED BY <1>1, <1>9, <2>1 DEF SolverOp
<1> QED BY <1>2, <1>9, <1>10 DEF V

-----------------------------------------------------------------------------
(* Control.                                                                  *)

LEMMA InvInit == Init => IInv
<1> SUFFICES ASSUME Init PROVE IInv
  OBVIOUS
<1>1. Typed
  <2>1. [f \in File |-> "absent"] \in [File -> {"absent", "empty", "ok"}]
    OBVIOUS
  <2>2. files \in [Config -> [File -> {"absent", "empty", "ok"}]]
    BY <2>1 DEF Init, EmptyDir
  <2>3. IsFiniteSet(dirs) /\ program \in Seq(Op)
    <3> HIDE DEF Op
    <3> QED BY FS_EmptySet DEF Init
  <2> QED BY <2>2, <2>3 DEF Init, Typed, NoPlot, NoMapping
<1>2. StageSound /\ NotSolving
  BY DEF Init, StageSound, NotSolving, NoError
<1>3. ResultsSound /\ InterpretSound /\ RunSound /\ PlotSound /\ OnlyLeftoversFailSteps
  BY DEF Init, ResultsSound, InterpretSound, RunSound, PlotSound, OnlyLeftoversFailSteps, NoPlot,
         NoError
<1> QED BY <1>1, <1>2, <1>3 DEF IInv, SolverSound

(* What an idle step leaves: nothing to do.                                  *)
LEMMA IdleKeeps ==
  ASSUME IInv, stage' = "idle", program' = <<>>, chained' = FALSE, UNCHANGED <<disk, author>>,
         OnlyLeftoversFailSteps'
  PROVE  IInv'
<1>1. Typed'
  <2>1. <<>> \in Seq(Op)
    OBVIOUS
  <2> QED BY <2>1 DEF IInv, Typed, disk, author
<1>2. StageSound' /\ NotSolving'
  BY DEF StageSound, NotSolving
<1>3. ResultsSound' /\ InterpretSound' /\ RunSound' /\ PlotSound'
  BY DEF IInv, ResultsSound, InterpretSound, RunSound, PlotSound, disk
<1> QED BY <1>1, <1>2, <1>3 DEF IInv, SolverSound

LEMMA StartKeeps ==
  ASSUME IInv, NEW flag, NEW chain \in BOOLEAN, Start(flag, chain)
  PROVE  IInv'
<1>1. /\ Typed /\ ResultsSound /\ doc \in Drafts
      /\ Interpretation(flag) \in Seq(Ops(PlainOp \cup RemoveOp))
      /\ chain => /\ Interpretation(flag) \in Seq(Ops(PlainOp)) /\ Interpretation(flag) # <<>>
                  /\ LET last == Interpretation(flag)[Len(Interpretation(flag))]
                     IN  last.do = "writeMapping" /\ last.of = doc
                  /\ \A d \in AskedOf(doc) : \A f \in Product : Settles(Interpretation(flag), d, f)
  BY InterpretationSettles DEF IInv, Start, Typed
<1> DEFINE p == Interpretation(flag)
<1>2. /\ stage' = "interpret" /\ program' = p /\ chained' = chain /\ lastError' = NoError
      /\ edited' = FALSE /\ UNCHANGED <<disk, doc>>
  BY DEF Start
<1> HIDE DEF p
<1>3. Typed'
  <2>1. p \in Seq(Op)
    BY <1>1, OpKinds DEF p
  <2> QED BY <1>1, <1>2, <2>1 DEF Typed, disk
<1>4. StageSound' /\ ResultsSound' /\ RunSound' /\ PlotSound' /\ OnlyLeftoversFailSteps'
  BY <1>1, <1>2 DEF StageSound, ResultsSound, RunSound, PlotSound, OnlyLeftoversFailSteps, NoError,
                    disk, p
<1>5. NotSolving'
  <2>1. \A k \in 1 .. Len(p) : p[k] \in Ops(PlainOp \cup RemoveOp)
    BY <1>1 DEF p
  <2> QED BY <1>2, <2>1 DEF NotSolving, Ops, PlainOp, RemoveOp, SolverOp
<1>6. InterpretSound'
  <2> SUFFICES ASSUME chain PROVE program' \in Seq(Ops(PlainOp)) /\ Interpreting(doc)'
    BY <1>1, <1>2 DEF InterpretSound
  <2> QED BY <1>1, <1>2 DEF Interpreting, p
<1> QED BY <1>3, <1>4, <1>5, <1>6 DEF IInv, SolverSound

LEMMA StartRunKeeps ==
  ASSUME IInv, \/ StartAlone("run", RunOps)
               \/ InterpretDone /\ chained
  PROVE  IInv'
<1>1. /\ stage' = "run" /\ program' = RunOps /\ UNCHANGED <<disk, author, chained>>
      /\ lastError' = NoError \/ lastError' = lastError
      /\ stage \in {"idle", "interpret"} /\ (chained => stage = "interpret" /\ program = <<>>)
      /\ ~lastError'.chained
  BY DEF StartAlone, InterpretDone, IInv, StageSound, NoError
<1>2. /\ Typed /\ RunOps \in Seq(Ops({"noDirectory", "run"}))
      /\ \A k \in 1 .. Len(RunOps) : RunOps[k].do # "noDirectory" => RunOps[k].dir \in dirs
      /\ dirs # {} => \A k \in 1 .. Len(RunOps) : RunOps[k].do = "run"
      /\ \A d \in dirs : \E k \in 1 .. Len(RunOps) : RunOps[k].do = "run" /\ RunOps[k].dir = d
  BY RunOpsVisit DEF IInv
<1> HIDE DEF RunOps
<1>3. Typed'
  <2>1. RunOps \in Seq(Op)
    BY <1>2, OpKinds
  <2> QED BY <1>1, <1>2, <2>1 DEF Typed, disk, author
<1>4. StageSound'
  <2>1. RunOps \in Seq(Ops({"noDirectory", "run"} \cup SolverOp))
    BY <1>2, OpKinds
  <2> QED BY <1>1, <1>2, <2>1 DEF StageSound, disk
<1>5. NotSolving'
  <2>1. \A k \in 1 .. Len(RunOps) : RunOps[k] \in Ops({"noDirectory", "run"})
    BY <1>2
  <2> QED BY <1>1, <2>1 DEF NotSolving, Ops, SolverOp
<1>6. ResultsSound' /\ InterpretSound' /\ PlotSound' /\ OnlyLeftoversFailSteps'
  BY <1>1 DEF IInv, ResultsSound, InterpretSound, PlotSound, OnlyLeftoversFailSteps, disk
<1>7. RunSound'
  <2> SUFFICES ASSUME chained PROVE RunSound'
    BY <1>1 DEF RunSound
  <2>1. PICK draft \in Drafts : Interpreting(draft)
    BY <1>1 DEF IInv, InterpretSound
  <2>2. mapping.state = "ok" /\ mapping.of = draft /\ (~edited => draft = doc)
    BY <1>1, <2>1 DEF Interpreting
  <2>3. Asked = AskedOf(draft) /\ Asked # {}
    BY <2>2, DraftIsFinite DEF Asked, AskedOf
  <2>4. \A d \in Asked : \A f \in Product : Holds(d, f)
    BY <1>1, <2>1, <2>3 DEF Interpreting, Settles
  <2>5. Asked \subseteq dirs
    BY <2>4 DEF Holds, Product
  <2>6. Interpreted
    BY <2>2, <2>4 DEF Interpreted
  <2>7. Interpreted' /\ Asked' = Asked
    BY <1>1, <2>6 DEF Interpreted, Asked, Holds, disk, author
  <2>8. \A k \in 1 .. Len(RunOps) : RunOps[k].do = "run"
    BY <1>2, <2>3, <2>5
  <2>9. \A d \in Asked : \E k \in 1 .. Len(RunOps) : RunOps[k].do = "run" /\ RunOps[k].dir = d
    BY <1>2, <2>5
  <2> QED BY <1>1, <2>7, <2>8, <2>9 DEF RunSound
<1> QED BY <1>3, <1>4, <1>5, <1>6, <1>7 DEF IInv, SolverSound

LEMMA StartPlotKeeps ==
  ASSUME IInv, \/ StartAlone("plot", PlotOps)
               \/ RunDone /\ chained
  PROVE  IInv'
<1>1. /\ stage' = "plot" /\ program' = PlotOps /\ UNCHANGED <<disk, author, chained>>
      /\ lastError' = NoError \/ lastError' = lastError
      /\ stage \in {"idle", "run"} /\ (chained => stage = "run" /\ program = <<>>)
      /\ ~lastError'.chained
  BY DEF StartAlone, RunDone, IInv, StageSound, NoError
<1>2. /\ Typed /\ PlotOps \in Seq(Ops(PlotOp))
      /\ \A i \in DOMAIN doc :
           \E k \in 1 .. Len(PlotOps) : PlotOps[k].do = "plot" /\ PlotOps[k].of = i
  BY PlotOpsVisit DEF IInv
<1> HIDE DEF PlotOps
<1>3. Typed'
  <2>1. PlotOps \in Seq(Op)
    BY <1>2, OpKinds
  <2> QED BY <1>1, <1>2, <2>1 DEF Typed, disk, author
<1>4. StageSound'
  BY <1>1, <1>2 DEF StageSound
<1>5. NotSolving'
  <2>1. \A k \in 1 .. Len(PlotOps) : PlotOps[k] \in Ops(PlotOp)
    BY <1>2
  <2> QED BY <1>1, <2>1 DEF NotSolving, Ops, SolverOp, PlotOp
<1>6. ResultsSound' /\ InterpretSound' /\ RunSound' /\ OnlyLeftoversFailSteps'
  BY <1>1 DEF IInv, ResultsSound, InterpretSound, RunSound, OnlyLeftoversFailSteps, disk
<1>7. PlotSound'
  <2> SUFFICES ASSUME chained PROVE PlotSound'
    BY <1>1 DEF PlotSound
  <2>1. Interpreted /\ \A d \in Asked : finished[d] = "Yes"
    BY <1>1 DEF IInv, RunSound
  <2> QED BY <1>1, <1>2, <2>1 DEF PlotSound, Interpreted, Asked, Holds, disk, author
<1> QED BY <1>3, <1>4, <1>5, <1>6, <1>7 DEF IInv, SolverSound

LEMMA EditKeeps ==
  ASSUME IInv, NEW draft \in Drafts, Edit(draft)
  PROVE  IInv'
<1>1. UNCHANGED <<disk, control>> /\ doc' = draft /\ edited' = TRUE
  BY DEF Edit
<1>2. Typed' /\ StageSound' /\ ResultsSound' /\ OnlyLeftoversFailSteps'
  BY <1>1 DEF IInv, Typed, StageSound, ResultsSound, OnlyLeftoversFailSteps, Asked, disk, control
<1>3. SolverSound'
  BY <1>1 DEF IInv, SolverSound, NotSolving, Solving, Asked, disk, control
<1>4. InterpretSound'
  <2> SUFFICES ASSUME stage = "interpret", chained PROVE InterpretSound'
    BY <1>1 DEF InterpretSound, control
  <2>1. PICK old \in Drafts : Interpreting(old)
    BY DEF IInv, InterpretSound
  <2>2. Interpreting(old)'
    BY <1>1, <2>1 DEF Interpreting, Holds, disk, control
  <2>3. program' \in Seq(Ops(PlainOp))
    BY <1>1 DEF IInv, InterpretSound, control
  <2> QED BY <2>2, <2>3 DEF InterpretSound
<1>5. RunSound' /\ PlotSound'
  BY <1>1 DEF IInv, RunSound, PlotSound, Interpreted, Asked, Holds, disk, control
<1> QED BY <1>2, <1>3, <1>4, <1>5 DEF IInv

-----------------------------------------------------------------------------
(* Operations.                                                               *)

LEMMA TailIs ==
  ASSUME NEW V, NEW p \in Seq(V), p # <<>>, NEW q, q = Tail(p)
  PROVE  /\ Len(p) \in Nat /\ Len(p) >= 1 /\ Head(p) = p[1] /\ 1 \in 1 .. Len(p)
         /\ q \in Seq(V) /\ Len(q) = Len(p) - 1
         /\ \A k \in 1 .. Len(q) : q[k] = p[k + 1] /\ k + 1 \in 1 .. Len(p)
         /\ \A k \in 1 .. Len(p) : k # 1 => k - 1 \in 1 .. Len(q) /\ q[k - 1] = p[k]
OBVIOUS

(* The operation that is next says which step is running.                    *)
LEMMA StageOfHead ==
  ASSUME IInv, program # <<>>
  PROVE  /\ Head(program) = program[1] /\ Head(program) \in Op /\ ~lastError.chained
         /\ 1 \in 1 .. Len(program)
         /\ Head(program).do \in PlainOp \cup RemoveOp =>
              /\ stage = "interpret" /\ NotSolving
              /\ chained => Head(program).do \in PlainOp
         /\ Head(program).do \in {"noDirectory", "run"} \cup SolverOp => stage = "run"
         /\ Head(program).do \in PlotOp => stage = "plot"
<1>1. /\ program \in Seq(Op) /\ StageSound /\ stage \in {"idle", "interpret", "run", "plot"}
  BY DEF IInv, Typed
<1>2. /\ 1 \in 1 .. Len(program) /\ Head(program) = program[1] /\ Head(program) \in Op
  <2> HIDE DEF Op
  <2> QED BY <1>1
<1>3. stage # "idle" /\ ~lastError.chained
  BY <1>1 DEF StageSound
<1>4. /\ stage = "interpret" => \A k \in 1 .. Len(program) : program[k].do \in PlainOp \cup RemoveOp
      /\ stage = "run" => Head(program).do \in {"noDirectory", "run"} \cup SolverOp
      /\ stage = "plot" => Head(program).do \in PlotOp
  <2>1. ASSUME NEW kinds, program \in Seq(Ops(kinds))
        PROVE  \A k \in 1 .. Len(program) : program[k].do \in kinds
    <3>1. \A k \in 1 .. Len(program) : program[k] \in Ops(kinds)
      BY <2>1
    <3> QED BY <3>1 DEF Ops
  <2> QED BY <1>1, <1>2, <2>1 DEF StageSound
<1>5. stage = "interpret" => NotSolving
  BY <1>4 DEF NotSolving, PlainOp, RemoveOp, SolverOp
<1>6. stage = "interpret" /\ chained => Head(program).do \in PlainOp
  <2> SUFFICES ASSUME stage = "interpret", chained PROVE Head(program).do \in PlainOp
    OBVIOUS
  <2>1. program \in Seq(Ops(PlainOp))
    BY DEF IInv, InterpretSound
  <2>2. program[1] \in Ops(PlainOp)
    BY <1>2, <2>1
  <2> QED BY <1>2, <2>2 DEF Ops
<1>7. /\ (PlainOp \cup RemoveOp) \cap ({"noDirectory", "run"} \cup SolverOp) = {}
      /\ (PlainOp \cup RemoveOp) \cap PlotOp = {}
      /\ PlotOp \cap ({"noDirectory", "run"} \cup SolverOp) = {}
  BY DEF PlainOp, RemoveOp, PlotOp, SolverOp
<1> QED BY <1>1, <1>2, <1>3, <1>4, <1>5, <1>6, <1>7

(* A product that is settled stays so, operation after operation.            *)
LEMMA SettledStays ==
  ASSUME NEW V, NEW p \in Seq(V), p # <<>>, NEW q, q = Tail(p), NEW d, NEW f,
         NEW held, NEW holds,
         Settles(p, d, f) \/ (held /\ Quiet(p, d, f)),
         Gives(p[1], d, f) => holds,
         held /\ ~Spoils(p[1], d, f) => holds
  PROVE  Settles(q, d, f) \/ (holds /\ Quiet(q, d, f))
<1>1. /\ Len(p) \in Nat /\ 1 \in 1 .. Len(p) /\ Len(q) = Len(p) - 1
      /\ \A k \in 1 .. Len(q) : q[k] = p[k + 1] /\ k + 1 \in 1 .. Len(p)
      /\ \A k \in 1 .. Len(p) : k # 1 => k - 1 \in 1 .. Len(q) /\ q[k - 1] = p[k]
  BY TailIs
<1>2. CASE held /\ Quiet(p, d, f)
  BY <1>1, <1>2 DEF Quiet
<1>3. CASE Settles(p, d, f)
  <2>1. PICK k \in 1 .. Len(p) :
          Gives(p[k], d, f) /\ \A j \in 1 .. Len(p) : j > k => ~Spoils(p[j], d, f)
    BY <1>3 DEF Settles
  <2>2. CASE k = 1
    <3>1. \A j \in 1 .. Len(q) : j + 1 > 1
      OBVIOUS
    <3>2. Quiet(q, d, f)
      BY <1>1, <2>1, <2>2, <3>1 DEF Quiet
    <3> QED BY <2>1, <2>2, <3>2
  <2>3. CASE k # 1
    <3> DEFINE l == k - 1
    <3>1. l \in 1 .. Len(q) /\ Gives(q[l], d, f)
      BY <1>1, <2>1, <2>3
    <3>2. ASSUME NEW j \in 1 .. Len(q), j > l PROVE ~Spoils(q[j], d, f)
      <4>1. j + 1 \in 1 .. Len(p) /\ j + 1 > k /\ q[j] = p[j + 1]
        BY <1>1, <2>1, <3>2
      <4> QED BY <2>1, <4>1
    <3> HIDE DEF l
    <3> QED BY <3>1, <3>2 DEF Settles
  <2> QED BY <2>2, <2>3
<1> QED BY <1>2, <1>3

(* One operation of an interpretation: what it makes is there.               *)
LEMMA InterpretStep ==
  ASSUME IInv, program # <<>>, Head(program).do \in PlainOp \cup RemoveOp, Step,
         UNCHANGED <<plots, author>>, Typed', ResultsSound',
         chained => /\ \A d \in Config : \A f \in Product :
                         Gives(Head(program), d, f) \/ (Holds(d, f) /\ ~Spoils(Head(program), d, f))
                           => Holds(d, f)'
                    /\ Head(program).do = "writeMapping" =>
                         mapping' = [state |-> "ok", of |-> Head(program).of]
  PROVE  IInv'
<1>1. /\ stage = "interpret" /\ NotSolving /\ ~lastError.chained /\ Head(program) = program[1]
      /\ program' = Tail(program) /\ UNCHANGED <<stage, chained, lastError>>
      /\ UNCHANGED <<doc, edited>> /\ program \in Seq(Op)
  BY StageOfHead DEF Step, author, IInv, Typed
<1>2. /\ Len(program) \in Nat /\ Len(program) >= 1 /\ Len(program') = Len(program) - 1
      /\ \A k \in 1 .. Len(program') : program'[k] = program[k + 1] /\ k + 1 \in 1 .. Len(program)
  BY <1>1, TailIs
<1>3. \A V : program \in Seq(V) => program' \in Seq(V)
  BY <1>1
<1>4. StageSound'
  <2>1. program' \in Seq(Ops(PlainOp \cup RemoveOp))
    BY <1>1, <1>3 DEF IInv, StageSound
  <2> QED BY <1>1, <2>1 DEF StageSound
<1>5. NotSolving'
  BY <1>1, <1>2 DEF NotSolving
<1>6. RunSound' /\ PlotSound' /\ OnlyLeftoversFailSteps'
  BY <1>1 DEF RunSound, PlotSound, OnlyLeftoversFailSteps
<1>7. InterpretSound'
  <2> SUFFICES ASSUME chained PROVE InterpretSound'
    BY <1>1 DEF InterpretSound
  <2>1. program \in Seq(Ops(PlainOp)) /\ \E draft \in Drafts : Interpreting(draft)
    BY <1>1 DEF IInv, InterpretSound
  <2>2. PICK draft \in Drafts : Interpreting(draft)
    BY <2>1
  <2>3. /\ program[Len(program)].do = "writeMapping" /\ program[Len(program)].of = draft
        /\ ~edited => draft = doc
    BY <2>2 DEF Interpreting
  <2>4. IF program' = <<>> THEN mapping'.state = "ok" /\ mapping'.of = draft
        ELSE program'[Len(program')].do = "writeMapping" /\ program'[Len(program')].of = draft
    <3>1. CASE Len(program) = 1
      <4>1. mapping' = [state |-> "ok", of |-> draft]
        BY <1>1, <2>3, <3>1
      <4>2. program' = <<>>
        <5>1. Len(program') = 0 /\ program' \in Seq(Op)
          BY <1>1, <1>2, <1>3, <3>1
        <5> HIDE DEF Op
        <5> QED BY <5>1
      <4> QED BY <4>1, <4>2
    <3>2. CASE Len(program) # 1
      <4>1. Len(program') \in 1 .. Len(program') /\ Len(program') + 1 = Len(program)
        BY <1>2, <3>2
      <4>2. program'[Len(program')] = program[Len(program)]
        BY <1>2, <4>1
      <4>3. program' # <<>>
        BY <4>1
      <4> QED BY <2>3, <4>2, <4>3
    <3> QED BY <3>1, <3>2
  <2>5. ASSUME NEW d \in AskedOf(draft), NEW f \in Product
        PROVE  Settles(program', d, f) \/ (Holds(d, f)' /\ Quiet(program', d, f))
    <3>1. d \in Config
      BY DraftIsFinite
    <3>2. Settles(program, d, f) \/ (Holds(d, f) /\ Quiet(program, d, f))
      BY <2>2 DEF Interpreting
    <3>3. /\ Gives(program[1], d, f) => Holds(d, f)'
          /\ Holds(d, f) /\ ~Spoils(program[1], d, f) => Holds(d, f)'
      BY <1>1, <3>1
    <3> DEFINE held == Holds(d, f)
               holds == Holds(d, f)'
    <3> HIDE DEF held, holds
    <3>4. Settles(program', d, f) \/ (holds /\ Quiet(program', d, f))
      BY <1>1, <3>2, <3>3, SettledStays DEF held, holds
    <3> QED BY <3>4 DEF holds
  <2>6. Interpreting(draft)'
    BY <1>1, <2>3, <2>4, <2>5 DEF Interpreting
  <2>7. program' \in Seq(Ops(PlainOp))
    BY <1>3, <2>1
  <2> QED BY <2>6, <2>7 DEF InterpretSound
<1> QED BY <1>4, <1>5, <1>6, <1>7 DEF IInv, SolverSound

LEMMA NothingToDo ==
  ASSUME IInv, NEW what \in PlainOp \cup RemoveOp \cup SolverOp \cup PlotOp \cup {"noDirectory", "run"},
         Doing(what)
  PROVE  /\ program # <<>> /\ Head(program) \in Op /\ Head(program).do = what
         /\ Tail(program) \in Seq(Op)
<1>1. program # <<>> /\ Head(program).do = what /\ Head(program) \in Op
  BY StageOfHead DEF Doing
<1>2. program \in Seq(Op)
  BY DEF IInv, Typed
<1> HIDE DEF Op
<1> QED BY <1>1, <1>2

(* Only the removals by hand of a clean slate take anything away.            *)
LEMMA RemovalKeeps ==
  ASSUME IInv, RemoveDir \/ RemoveRuns \/ (CleanSlate /\ Step)
  PROVE  IInv'
<1>1. PICK what \in RemoveOp : Doing(what) /\ Step
  BY DEF RemoveDir, RemoveRuns, CleanSlate, RemoveOp
<1>2. program # <<>> /\ Head(program).do = what /\ Tail(program) \in Seq(Op)
  BY <1>1, NothingToDo
<1>3. stage = "interpret" /\ ~chained
  <2>1. what \notin PlainOp
    BY DEF PlainOp, RemoveOp
  <2>2. stage = "interpret" /\ (chained => Head(program).do \in PlainOp)
    BY <1>2, StageOfHead
  <2> QED BY <1>2, <2>1, <2>2
<1>4. UNCHANGED <<plots, author, stage, chained, lastError>> /\ program' = Tail(program)
  BY <1>1 DEF RemoveDir, RemoveRuns, CleanSlate, Step, disk
<1>5. /\ dirs' \subseteq dirs /\ (mapping' = mapping \/ mapping' = NoMapping)
      /\ files' \in [Config -> [File -> {"absent", "empty", "ok"}]]
      /\ finished' \in [Config -> {"absent", "empty", "No", "Yes"}]
      /\ result' \in [Config -> {"none", "partial", "right", "misled"}]
      /\ \A d \in Config : \/ finished'[d] = finished[d] /\ result'[d] = result[d]
                           \/ finished'[d] = "absent"
  <2>1. Typed
    BY DEF IInv
  <2>2. EmptyDir \in [File -> {"absent", "empty", "ok"}]
    BY DEF EmptyDir
  <2>3. CASE RemoveDir
    BY <2>1, <2>2, <2>3 DEF RemoveDir, Typed
  <2>4. CASE RemoveRuns
    BY <2>1, <2>4 DEF RemoveRuns, Typed
  <2>5. CASE CleanSlate
    BY <2>1, <2>5 DEF CleanSlate, Typed, disk
  <2> QED BY <2>3, <2>4, <2>5
<1>6. Typed'
  <2>1. IsFiniteSet(dirs')
    BY <1>5, FS_Subset DEF IInv, Typed
  <2>2. mapping'.state = "ok" => mapping'.of \in Drafts
    BY <1>5 DEF IInv, Typed, NoMapping
  <2> QED BY <1>2, <1>4, <1>5, <2>1, <2>2 DEF IInv, Typed, author
<1>7. ResultsSound'
  BY <1>4, <1>5 DEF IInv, ResultsSound
<1> QED BY <1>1, <1>2, <1>3, <1>4, <1>6, <1>7, InterpretStep

LEMMA PlainKeeps ==
  ASSUME IInv, \/ MakeRuns \/ MakeDir \/ (Compare /\ Step) \/ CheckReady \/ Truncate \/ Write
               \/ TruncateMapping \/ WriteMapping
  PROVE  IInv'
<1> DEFINE op == Head(program)
<1>1. PICK what \in PlainOp : Doing(what) /\ Step
  BY DEF MakeRuns, MakeDir, Compare, CheckReady, Truncate, Write, TruncateMapping, WriteMapping,
         PlainOp
<1>2. /\ program # <<>> /\ op \in Op /\ op.do = what /\ Tail(program) \in Seq(Op)
      /\ op.do \in PlainOp
  BY <1>1, NothingToDo
<1>3. /\ op.do \in {"makeDir", "checkReady", "truncate", "write"} => op.dir \in Config
      /\ op.do \in {"truncate", "write"} => op.file \in File
      /\ op.do = "writeMapping" => op.of \in Drafts
  BY <1>2, OpFields
<1>4. /\ UNCHANGED <<finished, result, plots, author, stage, chained, lastError>>
      /\ program' = Tail(program)
  BY <1>1 DEF MakeRuns, MakeDir, Compare, CheckReady, Truncate, Write, TruncateMapping,
              WriteMapping, Step, disk
<1> HIDE DEF op
<1>5. /\ dirs' = IF op.do = "makeDir" THEN dirs \cup {op.dir} ELSE dirs
      /\ mapping' = CASE op.do = "truncateMapping" -> [state |-> "empty", of |-> <<>>]
                      [] op.do = "writeMapping" -> [state |-> "ok", of |-> op.of]
                      [] OTHER -> mapping
      /\ files' = CASE op.do = "checkReady" ->
                         [files EXCEPT ![op.dir]["inputReady"] = IF @ = "absent" THEN @ ELSE "empty"]
                    [] op.do = "truncate" -> [files EXCEPT ![op.dir][op.file] = "empty"]
                    [] op.do = "write" -> [files EXCEPT ![op.dir][op.file] = "ok"]
                    [] OTHER -> files
  BY DEF MakeRuns, MakeDir, Compare, CheckReady, Truncate, Write, TruncateMapping, WriteMapping,
         Doing, Here, disk, op
<1>6. Typed /\ files \in [Config -> [File -> {"absent", "empty", "ok"}]]
  BY DEF IInv, Typed
<1>7. files' \in [Config -> [File -> {"absent", "empty", "ok"}]]
  <2>1. CASE op.do = "checkReady"
    <3>1. "inputReady" \in File /\ op.dir \in Config
      BY <1>3, <2>1 DEF File
    <3>2. files' = [files EXCEPT ![op.dir]["inputReady"] = IF @ = "absent" THEN @ ELSE "empty"]
      BY <1>5, <2>1
    <3> QED BY <1>6, <3>1, <3>2
  <2>2. CASE op.do = "truncate"
    <3>1. files' = [files EXCEPT ![op.dir][op.file] = "empty"]
      BY <1>5, <2>2
    <3> QED BY <1>3, <1>6, <2>2, <3>1
  <2>3. CASE op.do = "write"
    <3>1. files' = [files EXCEPT ![op.dir][op.file] = "ok"]
      BY <1>5, <2>3
    <3> QED BY <1>3, <1>6, <2>3, <3>1
  <2> QED BY <1>5, <1>6, <2>1, <2>2, <2>3
<1>8. Typed'
  <2>1. dirs' \subseteq Config
    BY <1>3, <1>5, <1>6 DEF Typed
  <2>2. IsFiniteSet(dirs')
    BY <1>5, <1>6, FS_AddElement DEF Typed
  <2>3. mapping'.state = "ok" => mapping'.of \in Drafts
    <3>1. CASE op.do = "writeMapping"
      BY <1>3, <1>5, <3>1
    <3>2. CASE op.do = "truncateMapping"
      BY <1>5, <3>2
    <3>3. CASE op.do \notin {"writeMapping", "truncateMapping"}
      <4>1. mapping' = mapping
        BY <1>5, <3>3
      <4> QED BY <1>6, <4>1 DEF Typed
    <3> QED BY <3>1, <3>2, <3>3
  <2> QED BY <1>2, <1>4, <1>6, <1>7, <2>1, <2>2, <2>3 DEF Typed, author
<1>9. ResultsSound'
  BY <1>4 DEF IInv, ResultsSound
<1>10. ASSUME NEW d \in Config, NEW f \in Product,
              Gives(op, d, f) \/ (Holds(d, f) /\ ~Spoils(op, d, f))
       PROVE  Holds(d, f)'
  <2>1. CASE f = "dir"
    BY <1>5, <1>10, <2>1 DEF Gives, Holds
  <2>2. CASE f # "dir"
    <3>1. f \in File /\ f # "inputReady"
      BY <2>2 DEF Product, File
    <3>2. CASE op.do = "checkReady"
      <4>1. files' = [files EXCEPT ![op.dir]["inputReady"] = IF @ = "absent" THEN @ ELSE "empty"]
        BY <1>5, <3>2
      <4>2. files'[d][f] = files[d][f]
        BY <1>3, <1>6, <3>1, <3>2, <4>1
      <4> QED BY <1>10, <2>2, <3>2, <4>2 DEF Gives, Holds
    <3>3. CASE op.do = "truncate"
      <4>1. files' = [files EXCEPT ![op.dir][op.file] = "empty"]
        BY <1>5, <3>3
      <4>2. ~ (op.dir = d /\ op.file = f) /\ files[d][f] = "ok"
        BY <1>10, <2>2, <3>3 DEF Gives, Spoils, Holds
      <4>3. files'[d][f] = files[d][f]
        BY <1>3, <1>6, <3>1, <3>3, <4>1, <4>2
      <4> QED BY <2>2, <4>2, <4>3 DEF Holds
    <3>4. CASE op.do = "write"
      <4>1. files' = [files EXCEPT ![op.dir][op.file] = "ok"]
        BY <1>5, <3>4
      <4>2. (op.dir = d /\ op.file = f) \/ files[d][f] = "ok"
        BY <1>10, <2>2, <3>4 DEF Gives, Holds
      <4>3. files'[d][f] = "ok"
        BY <1>3, <1>6, <3>1, <3>4, <4>1, <4>2
      <4> QED BY <2>2, <4>3 DEF Holds
    <3>5. CASE op.do \notin {"checkReady", "truncate", "write"}
      <4>1. files' = files
        BY <1>5, <3>5
      <4> QED BY <1>10, <2>2, <3>5, <4>1 DEF Gives, Holds
    <3> QED BY <3>2, <3>3, <3>4, <3>5
  <2> QED BY <2>1, <2>2
<1>11. op.do = "writeMapping" => mapping' = [state |-> "ok", of |-> op.of]
  BY <1>5
<1>12. UNCHANGED <<plots, author>>
  BY <1>4
<1> QED BY <1>1, <1>2, <1>8, <1>9, <1>10, <1>11, <1>12, InterpretStep DEF op

-----------------------------------------------------------------------------
(* Steps that end, and steps that fail.                                      *)

LEMMA EndKeeps ==
  ASSUME IInv, \/ InterpretDone /\ ~chained
               \/ RunDone /\ ~chained
               \/ PlotDone
               \/ Crash
  PROVE  IInv'
<1>1. /\ stage' = "idle" /\ program' = <<>> /\ chained' = FALSE /\ UNCHANGED <<disk, author>>
      /\ lastError' = lastError
  BY DEF InterpretDone, RunDone, PlotDone, Crash, IInv, Typed
<1>2. OnlyLeftoversFailSteps'
  BY <1>1 DEF IInv, OnlyLeftoversFailSteps, disk, Asked
<1> QED BY <1>1, <1>2, IdleKeeps

(* As part of reproduce.sh, only what is left over fails.                    *)
LEMMA FailKeeps ==
  ASSUME IInv, NEW why, Fail(why), UNCHANGED <<disk, author>>,
         chained => \/ why \in {"cleanSlateWithoutRuns", "hashMatched"}
                    \/ /\ why \in {"noRunScript", "runFailed"}
                       /\ \E d \in dirs \ Asked :
                            files[d]["runScript"] = "absent" \/ files[d]["input"] # "ok"
  PROVE  IInv'
<1>1. /\ stage' = "idle" /\ program' = <<>> /\ chained' = FALSE
      /\ lastError' = [why |-> why, chained |-> chained]
  BY DEF Fail
<1>2. dirs' = dirs /\ files' = files /\ Asked' = Asked
  BY DEF disk, Asked
<1>3. OnlyLeftoversFailSteps'
  BY <1>1, <1>2 DEF OnlyLeftoversFailSteps
<1> QED BY <1>1, <1>3, IdleKeeps

-----------------------------------------------------------------------------
(* Step 3.                                                                   *)

LEMMA SolverHead ==
  ASSUME IInv, program # <<>>, Head(program).do \in SolverOp
  PROVE  \E d \in dirs : \E n \in 0 .. 5 :
           /\ Solving(d, n) /\ Here = d /\ Head(program).do = SolverOps(d)[n + 1].do
           /\ program[1] = SolverOps(d)[n + 1]
<1>1. 1 \in 1 .. Len(program) /\ Head(program) = program[1]
  BY StageOfHead
<1>2. PICK d \in dirs : \E n \in 0 .. 5 : Solving(d, n)
  BY <1>1 DEF IInv, SolverSound, NotSolving
<1>3. PICK n \in 0 .. 5 : Solving(d, n)
  BY <1>2
<1>4. 1 \in 1 .. 6 - n /\ n + 1 \in 1 .. 6
  OBVIOUS
<1>5. program[1] = SolverOps(d)[n + 1]
  BY <1>3, <1>4 DEF Solving
<1>6. d \in Config
  BY DEF IInv, Typed
<1>7. SolverOps(d)[n + 1].dir = d
  BY <1>4, <1>6, SolverOpsAre
<1> QED BY <1>1, <1>3, <1>5, <1>7 DEF Here

(* Which of its operations the solver is at.                                 *)
LEMMA SolverAt ==
  ASSUME NEW d \in Config, NEW n \in 0 .. 5
  PROVE  /\ SolverOps(d)[n + 1].do = "openResult" => n = 2
         /\ SolverOps(d)[n + 1].do = "solve" => n = 3
         /\ SolverOps(d)[n + 1].do = "unfinish" => n \in {0, 4}
         /\ SolverOps(d)[n + 1].do = "markNo" => n = 1
         /\ SolverOps(d)[n + 1].do = "markYes" <=> n = 5
         /\ SolverOps(d)[n + 1].do \in SolverOp
<1>1. n \in {0, 1, 2, 3, 4, 5}
  OBVIOUS
<1> QED BY <1>1, SolverOpsAre DEF SolverOp

(* An operation of the solver of d: what it leaves is sound, and once it is   *)
(* finished d has had its turn.                                              *)
LEMMA SolverStep ==
  ASSUME IInv, program # <<>>, NEW d \in dirs, NEW n \in 0 .. 5, Solving(d, n), Step,
         UNCHANGED <<dirs, files, mapping, plots, author>>,
         finished' \in [Config -> {"absent", "empty", "No", "Yes"}],
         result' \in [Config -> {"none", "partial", "right", "misled"}],
         \A c \in Config : c # d => finished'[c] = finished[c] /\ result'[c] = result[c],
         finished'[d] = "Yes" <=> n = 5,
         n \in {4, 5} => result'[d] = result[d],
         n = 3 => /\ result'[d] \in {"right", "misled"}
                  /\ chained /\ d \in Asked => result'[d] = "right"
  PROVE  IInv'
<1>1. /\ Typed /\ program \in Seq(Op) /\ d \in Config /\ Tail(program) \in Seq(Op)
  <2>1. Typed /\ program \in Seq(Op) /\ d \in Config
    BY DEF IInv, Typed
  <2> HIDE DEF Op
  <2> QED BY <2>1
<1>2. /\ 1 \in 1 .. 6 - n /\ program[1] = SolverOps(d)[n + 1] /\ Head(program) = program[1]
      /\ SolverOps(d)[n + 1].do \in SolverOp /\ SolverOps(d)[n + 1].dir = d
  <2>1. 1 \in 1 .. 6 - n /\ n + 1 \in 1 .. 6
    OBVIOUS
  <2>2. SolverOps(d)[n + 1].dir = d
    BY <1>1, <2>1, SolverOpsAre
  <2>3. program[1] = SolverOps(d)[n + 1]
    BY <2>1 DEF Solving
  <2> QED BY <1>1, <2>1, <2>2, <2>3, SolverAt, StageOfHead
<1>3. stage = "run" /\ ~lastError.chained
  BY <1>2, StageOfHead
<1>4. /\ program' = Tail(program) /\ UNCHANGED <<stage, chained, lastError, doc, edited>>
      /\ Asked' = Asked
  BY DEF Step, author, Asked
<1>5. /\ Len(program) \in Nat /\ Len(program') = Len(program) - 1
      /\ \A k \in 1 .. Len(program') : program'[k] = program[k + 1] /\ k + 1 \in 1 .. Len(program)
      /\ \A k \in 1 .. Len(program) :
           k # 1 => k - 1 \in 1 .. Len(program') /\ program'[k - 1] = program[k]
  BY <1>1, <1>4, TailIs
<1>6. Typed'
  BY <1>1, <1>4 DEF Typed, author
<1>7. StageSound'
  <2>1. /\ program \in Seq(Ops({"noDirectory", "run"} \cup SolverOp))
        /\ \A k \in 1 .. Len(program) :
             program[k].do # "noDirectory" => program[k].dir \in dirs
    BY <1>3 DEF IInv, StageSound
  <2>2. program' \in Seq(Ops({"noDirectory", "run"} \cup SolverOp))
    BY <1>4, <2>1
  <2>3. \A k \in 1 .. Len(program') : program'[k].do # "noDirectory" => program'[k].dir \in dirs
    BY <1>5, <2>1
  <2> QED BY <1>3, <1>4, <2>2, <2>3 DEF StageSound
<1>8. SolverSound'
  <2>1. CASE n = 5
    <3>1. \A k \in 1 .. Len(program) : k > 1 => program[k].do \notin SolverOp
      BY <2>1 DEF Solving
    <3>2. \A k \in 1 .. Len(program') : k + 1 > 1
      OBVIOUS
    <3>3. NotSolving'
      BY <1>5, <3>1, <3>2 DEF NotSolving
    <3> QED BY <3>3 DEF SolverSound
  <2>2. CASE n # 5
    <3> DEFINE m == n + 1
    <3>1. m \in 0 .. 5 /\ 6 - m = (6 - n) - 1 /\ (m >= 4 => n = 3 \/ n = 4)
      BY <2>2
    <3>2. 6 - m <= Len(program')
      BY <1>5, <3>1 DEF Solving
    <3>3. ASSUME NEW k \in 1 .. 6 - m PROVE program'[k] = SolverOps(d)[m + k]
      <4>1. k + 1 \in 1 .. 6 - n /\ k \in 1 .. Len(program') /\ n + (k + 1) = m + k
        BY <1>5, <3>1, <3>2
      <4>2. program[k + 1] = SolverOps(d)[n + (k + 1)]
        BY <4>1 DEF Solving
      <4> QED BY <1>5, <4>1, <4>2
    <3>4. ASSUME NEW k \in 1 .. Len(program'), k > 6 - m PROVE program'[k].do \notin SolverOp
      <4>1. k + 1 \in 1 .. Len(program) /\ k + 1 > 6 - n /\ program'[k] = program[k + 1]
        BY <1>5, <3>1, <3>4
      <4> QED BY <4>1 DEF Solving
    <3>5. finished'[d] # "Yes"
      BY <2>2
    <3>6. ASSUME m >= 4
          PROVE  /\ result'[d] \in {"right", "misled"}
                 /\ chained /\ d \in Asked => result'[d] = "right"
      <4>1. CASE n = 3
        BY <4>1
      <4>2. CASE n = 4
        <5>1. n >= 4 /\ result'[d] = result[d]
          BY <4>2
        <5> QED BY <5>1 DEF Solving
      <4> QED BY <3>1, <3>6, <4>1, <4>2
    <3> HIDE DEF m
    <3>7. Solving(d, m)'
      BY <1>4, <3>2, <3>3, <3>4, <3>5, <3>6 DEF Solving, SolverOps, On
    <3> QED BY <3>1, <3>7 DEF SolverSound
  <2> QED BY <2>1, <2>2
<1>9. ResultsSound'
  <2>1. \A c \in Config : finished[c] = "Yes" => result[c] \in {"right", "misled"}
    BY DEF IInv, ResultsSound
  <2>2. n = 5 => result'[d] \in {"right", "misled"}
    <3>1. n = 5 => n >= 4 /\ result'[d] = result[d]
      OBVIOUS
    <3> QED BY <3>1 DEF Solving
  <2>3. \A c \in Config : finished'[c] = "Yes" => result'[c] \in {"right", "misled"}
    BY <2>1, <2>2
  <2> QED BY <2>3 DEF IInv, ResultsSound
<1>10. RunSound'
  <2> SUFFICES ASSUME chained PROVE RunSound'
    BY <1>4 DEF RunSound
  <2>1. /\ Interpreted /\ \A k \in 1 .. Len(program) : program[k].do # "noDirectory"
        /\ \A c \in Asked :
             \/ finished[c] = "Yes"
             \/ \E k \in 1 .. Len(program) : /\ program[k].do \in {"run", "markYes"}
                                             /\ program[k].dir = c
    BY <1>3 DEF IInv, RunSound
  <2>2. Interpreted'
    BY <1>4, <2>1 DEF Interpreted, Holds
  <2>3. \A k \in 1 .. Len(program') : program'[k].do # "noDirectory"
    BY <1>5, <2>1
  <2>4. ASSUME NEW c \in Asked
        PROVE  \/ finished'[c] = "Yes"
               \/ \E k \in 1 .. Len(program') : /\ program'[k].do \in {"run", "markYes"}
                                                /\ program'[k].dir = c
    <3>0. c \in Config
      BY <1>1, <2>1, DraftIsFinite DEF Interpreted, Asked, AskedOf, Typed
    <3>1. CASE finished[c] = "Yes"
      BY <3>0, <3>1 DEF Solving
    <3>2. CASE \E k \in 1 .. Len(program) : /\ program[k].do \in {"run", "markYes"}
                                            /\ program[k].dir = c
      <4>1. PICK k \in 1 .. Len(program) : /\ program[k].do \in {"run", "markYes"}
                                           /\ program[k].dir = c
        BY <3>2
      <4>2. CASE k = 1
        <5>1. SolverOps(d)[n + 1].do = "markYes" /\ c = d
          BY <1>2, <4>1, <4>2 DEF SolverOp
        <5> QED BY <1>1, <5>1, SolverAt
      <4>3. CASE k # 1
        BY <1>5, <4>1, <4>3
      <4> QED BY <4>2, <4>3
    <3> QED BY <2>1, <3>1, <3>2
  <2> QED BY <1>4, <2>2, <2>3, <2>4 DEF RunSound
<1>11. InterpretSound' /\ PlotSound' /\ OnlyLeftoversFailSteps'
  BY <1>3, <1>4 DEF InterpretSound, PlotSound, OnlyLeftoversFailSteps
<1> QED BY <1>6, <1>7, <1>8, <1>9, <1>10, <1>11 DEF IInv

(* The operations of a solver that do not fail.                              *)
LEMMA SolverKeeps ==
  ASSUME IInv, \/ OpenResult
               \/ Solve /\ Step
               \/ MarkFinished("unfinish", "empty")
               \/ MarkFinished("markNo", "No")
               \/ MarkFinished("markYes", "Yes")
  PROVE  IInv'
<1>1. PICK what \in SolverOp : Doing(what) /\ Step
  BY DEF OpenResult, Solve, MarkFinished, SolverOp
<1>2. program # <<>> /\ Head(program).do = what /\ Head(program).do \in SolverOp
  BY <1>1, NothingToDo
<1>3. PICK d \in dirs : \E n \in 0 .. 5 :
        Solving(d, n) /\ Here = d /\ Head(program).do = SolverOps(d)[n + 1].do
  BY <1>2, SolverHead
<1>4. PICK n \in 0 .. 5 : Solving(d, n) /\ Here = d /\ Head(program).do = SolverOps(d)[n + 1].do
  BY <1>3
<1>5. /\ d \in Config /\ finished \in [Config -> {"absent", "empty", "No", "Yes"}]
      /\ result \in [Config -> {"none", "partial", "right", "misled"}]
      /\ files \in [Config -> [File -> {"absent", "empty", "ok"}]]
      /\ finished[d] # "Yes"
  BY <1>4 DEF IInv, Typed, Solving
<1>6. /\ what = "openResult" => n = 2
      /\ what = "solve" => n = 3
      /\ what = "unfinish" => n \in {0, 4}
      /\ what = "markNo" => n = 1
      /\ what = "markYes" <=> n = 5
  BY <1>2, <1>4, <1>5, SolverAt
<1>7. UNCHANGED <<dirs, files, mapping, plots, author>>
  BY <1>1 DEF OpenResult, Solve, MarkFinished
<1>8. CASE OpenResult
  <2>1. what = "openResult" /\ n = 2
    BY <1>1, <1>2, <1>6, <1>8 DEF OpenResult, Doing
  <2>2. result' = [result EXCEPT ![d] = "partial"] /\ finished' = finished
    BY <1>4, <1>8 DEF OpenResult
  <2>3. /\ result' \in [Config -> {"none", "partial", "right", "misled"}]
        /\ \A c \in Config : c # d => finished'[c] = finished[c] /\ result'[c] = result[c]
    BY <1>5, <2>2
  <2> QED BY <1>1, <1>2, <1>4, <1>5, <1>7, <2>1, <2>2, <2>3, SolverStep
<1>9. CASE Solve /\ Step
  <2>1. what = "solve" /\ n = 3
    BY <1>1, <1>2, <1>6, <1>9 DEF Solve, Doing
  <2>2. PICK r \in {"right", "misled"} :
          /\ result' = [result EXCEPT ![d] = r] /\ finished' = finished
          /\ r = "misled" => files[d]["input"] # "ok"
    <3>1. ~ Fail("runFailed")
      BY <1>2, <1>9, StageOfHead DEF Fail, Step, SolverOp
    <3> QED BY <1>4, <1>9, <3>1 DEF Solve
  <2>3. /\ result' \in [Config -> {"none", "partial", "right", "misled"}]
        /\ result'[d] = r
        /\ \A c \in Config : c # d => finished'[c] = finished[c] /\ result'[c] = result[c]
    BY <1>5, <2>2
  <2>4. chained /\ d \in Asked => r = "right"
    <3>1. chained /\ d \in Asked => files[d]["input"] = "ok"
      BY <1>2, StageOfHead DEF IInv, RunSound, Interpreted, Holds, Product
    <3> QED BY <2>2, <3>1
  <2> QED BY <1>1, <1>2, <1>4, <1>5, <1>7, <2>1, <2>2, <2>3, <2>4, SolverStep
<1>10. CASE \/ MarkFinished("unfinish", "empty")
            \/ MarkFinished("markNo", "No")
            \/ MarkFinished("markYes", "Yes")
  <2>1. PICK mark \in {"empty", "No", "Yes"} :
          /\ finished' = [finished EXCEPT ![d] = mark] /\ result' = result
          /\ mark = "Yes" <=> what = "markYes"
          /\ what \in {"unfinish", "markNo", "markYes"}
    BY <1>1, <1>2, <1>4, <1>10 DEF MarkFinished, Doing
  <2>2. /\ finished' \in [Config -> {"absent", "empty", "No", "Yes"}]
        /\ finished'[d] = "Yes" <=> n = 5
        /\ \A c \in Config : c # d => finished'[c] = finished[c] /\ result'[c] = result[c]
    BY <1>5, <1>6, <2>1
  <2>3. n # 3
    BY <1>6, <2>1
  <2> QED BY <1>1, <1>2, <1>4, <1>5, <1>7, <2>1, <2>2, <2>3, SolverStep
<1> QED BY <1>8, <1>9, <1>10

(* A directory's turn begins between two solvers, in a directory that is there. *)
LEMMA TurnIs ==
  ASSUME IInv, Doing("run")
  PROVE  /\ program # <<>> /\ Head(program).do = "run" /\ program[1] = Head(program)
         /\ stage = "run" /\ ~lastError.chained /\ NotSolving /\ Here \in dirs /\ Here \in Config
         /\ program \in Seq(Op) /\ Typed
<1>1. program # <<>> /\ Head(program).do = "run"
  BY DEF Doing
<1>2. 1 \in 1 .. Len(program) /\ program[1] = Head(program) /\ stage = "run" /\ ~lastError.chained
  BY <1>1, StageOfHead
<1>3. Here \in dirs /\ Typed /\ program \in Seq(Op) /\ dirs \subseteq Config
  BY <1>1, <1>2 DEF IInv, StageSound, Here, Typed
<1>4. NotSolving
  <2>1. ASSUME NEW d \in dirs, NEW n \in 0 .. 5, Solving(d, n) PROVE FALSE
    <3>1. 1 \in 1 .. 6 - n
      OBVIOUS
    <3>2. program[1] = SolverOps(d)[n + 1]
      BY <2>1, <3>1 DEF Solving
    <3>3. program[1].do \in SolverOp
      BY <1>3, <3>2, SolverAt
    <3> QED BY <1>1, <1>2, <3>3 DEF SolverOp
  <2> QED BY <2>1 DEF IInv, SolverSound
<1> QED BY <1>1, <1>2, <1>3, <1>4

(* A directory that step 3 skips is finished, or nothing relies on it.       *)
LEMMA SkipKeeps ==
  ASSUME IInv, Doing("run"), files[Here]["runScript"] = "empty" \/ Skipped(Here), Step,
         UNCHANGED <<disk, author>>
  PROVE  IInv'
<1>1. /\ program # <<>> /\ Head(program).do = "run" /\ program[1] = Head(program)
      /\ stage = "run" /\ ~lastError.chained /\ NotSolving /\ Here \in Config
      /\ program \in Seq(Op) /\ Typed
  BY TurnIs
<1>2. /\ program' = Tail(program) /\ UNCHANGED <<stage, chained, lastError, doc, edited>>
      /\ UNCHANGED <<dirs, files, finished, result, mapping, plots>> /\ Asked' = Asked
  BY DEF Step, disk, author, Asked
<1>3. /\ Len(program) \in Nat /\ Len(program') = Len(program) - 1
      /\ \A k \in 1 .. Len(program') : program'[k] = program[k + 1] /\ k + 1 \in 1 .. Len(program)
      /\ \A k \in 1 .. Len(program) :
           k # 1 => k - 1 \in 1 .. Len(program') /\ program'[k - 1] = program[k]
      /\ program' \in Seq(Op)
  BY <1>1, <1>2, TailIs
<1>4. files[Here]["runScript"] = "empty" \/ finished[Here] = "Yes"
  BY DEF Skipped
<1>5. Typed'
  BY <1>1, <1>2, <1>3 DEF Typed
<1>6. StageSound'
  <2>1. /\ program \in Seq(Ops({"noDirectory", "run"} \cup SolverOp))
        /\ \A k \in 1 .. Len(program) : program[k].do # "noDirectory" => program[k].dir \in dirs
    BY <1>1 DEF IInv, StageSound
  <2>2. program' \in Seq(Ops({"noDirectory", "run"} \cup SolverOp))
    BY <1>1, <1>2, <2>1
  <2>3. \A k \in 1 .. Len(program') : program'[k].do # "noDirectory" => program'[k].dir \in dirs
    BY <1>3, <2>1
  <2> QED BY <1>1, <1>2, <2>2, <2>3 DEF StageSound
<1>7. NotSolving'
  BY <1>1, <1>3 DEF NotSolving
<1>8. RunSound'
  <2> SUFFICES ASSUME chained PROVE RunSound'
    BY <1>2 DEF RunSound
  <2>1. /\ Interpreted /\ \A k \in 1 .. Len(program) : program[k].do # "noDirectory"
        /\ \A c \in Asked :
             \/ finished[c] = "Yes"
             \/ \E k \in 1 .. Len(program) : /\ program[k].do \in {"run", "markYes"}
                                             /\ program[k].dir = c
    BY <1>1 DEF IInv, RunSound
  <2>2. Interpreted'
    BY <1>2, <2>1 DEF Interpreted, Holds
  <2>3. \A k \in 1 .. Len(program') : program'[k].do # "noDirectory"
    BY <1>3, <2>1
  <2>4. Here \in Asked => finished[Here] = "Yes"
    BY <1>4, <2>1 DEF Interpreted, Holds, Product
  <2>5. ASSUME NEW c \in Asked
        PROVE  \/ finished[c] = "Yes"
               \/ \E k \in 1 .. Len(program') : /\ program'[k].do \in {"run", "markYes"}
                                                /\ program'[k].dir = c
    <3>1. CASE finished[c] = "Yes"
      BY <3>1
    <3>2. CASE \E k \in 1 .. Len(program) : /\ program[k].do \in {"run", "markYes"}
                                            /\ program[k].dir = c
      <4>1. PICK k \in 1 .. Len(program) : /\ program[k].do \in {"run", "markYes"}
                                           /\ program[k].dir = c
        BY <3>2
      <4>2. CASE k = 1
        BY <1>1, <2>4, <4>1, <4>2 DEF Here
      <4>3. CASE k # 1
        BY <1>3, <4>1, <4>3
      <4> QED BY <4>2, <4>3
    <3> QED BY <2>1, <3>1, <3>2
  <2> QED BY <1>2, <2>2, <2>3, <2>5 DEF RunSound
<1>9. ResultsSound' /\ InterpretSound' /\ PlotSound' /\ OnlyLeftoversFailSteps'
  BY <1>1, <1>2 DEF IInv, ResultsSound, InterpretSound, PlotSound, OnlyLeftoversFailSteps
<1> QED BY <1>5, <1>6, <1>7, <1>8, <1>9 DEF IInv, SolverSound

(* A directory that is not finished begins its solver.                       *)
LEMMA TurnKeeps ==
  ASSUME IInv, Doing("run"), NEW d, d = Here, ~Skipped(d), program' = SolverOps(d) \o Tail(program),
         UNCHANGED <<stage, chained, lastError, disk, author>>
  PROVE  IInv'
<1> DEFINE s == SolverOps(d)
           q == Tail(program)
           r == program'
           V == Ops({"noDirectory", "run"} \cup SolverOp)
<1>1. /\ program # <<>> /\ Head(program).do = "run" /\ program[1] = Head(program)
      /\ stage = "run" /\ ~lastError.chained /\ NotSolving /\ d \in dirs /\ d \in Config
      /\ program \in Seq(Op) /\ Typed
  BY TurnIs
<1>2. /\ UNCHANGED <<stage, chained, lastError, doc, edited>>
      /\ UNCHANGED <<dirs, files, finished, result, mapping, plots>> /\ Asked' = Asked
  BY DEF disk, author, Asked
<1>3. /\ Len(program) \in Nat /\ Len(q) = Len(program) - 1
      /\ \A k \in 1 .. Len(q) : q[k] = program[k + 1] /\ k + 1 \in 1 .. Len(program)
      /\ \A k \in 1 .. Len(program) : k # 1 => k - 1 \in 1 .. Len(q) /\ q[k - 1] = program[k]
  BY <1>1, TailIs
<1>4. /\ s \in Seq(Ops(SolverOp)) /\ Len(s) = 6 /\ \A k \in 1 .. 6 : s[k].dir = d
      /\ s[6].do = "markYes"
  BY <1>1, SolverOpsAre
<1>5. /\ program \in Seq(V)
      /\ \A k \in 1 .. Len(program) : program[k].do # "noDirectory" => program[k].dir \in dirs
  BY <1>1 DEF IInv, StageSound
<1>6. s \in Seq(V) /\ q \in Seq(V)
  <2>1. s \in Seq(V)
    BY <1>4, OpKinds
  <2> HIDE DEF V, s
  <2> QED BY <1>1, <1>5, <2>1
<1>7. r = s \o q
  OBVIOUS
<1> HIDE DEF s, q, r, V
<1>8. /\ r \in Seq(V) /\ Len(r) = 6 + Len(q)
      /\ \A k \in 1 .. 6 : r[k] = s[k] /\ k \in 1 .. Len(r)
      /\ \A k \in 1 .. Len(q) : r[6 + k] = q[k] /\ 6 + k \in 1 .. Len(r)
      /\ \A k \in 1 .. Len(r) : k \in 1 .. 6 \/ (k - 6 \in 1 .. Len(q) /\ r[k] = q[k - 6])
  <2>1. /\ r \in Seq(V) /\ Len(r) = Len(s) + Len(q) /\ Len(q) \in Nat
        /\ \A k \in 1 .. Len(s) : r[k] = s[k] /\ k \in 1 .. Len(r)
        /\ \A k \in 1 .. Len(q) : r[Len(s) + k] = q[k] /\ Len(s) + k \in 1 .. Len(r)
        /\ \A k \in 1 .. Len(r) : k \in 1 .. Len(s) \/ k - Len(s) \in 1 .. Len(q)
        /\ \A k \in 1 .. Len(r) : k - Len(s) \in 1 .. Len(q) => r[k] = q[k - Len(s)]
    BY <1>6, <1>7, ConcatIs
  <2>2. Len(s) = 6
    BY <1>4
  <2> QED BY <2>1, <2>2
<1>9. Typed'
  <2>1. r \in Seq(Op)
    BY <1>8, OpKinds DEF V
  <2> QED BY <1>1, <1>2, <2>1 DEF Typed, r
<1>10. \A k \in 1 .. 6 : s[k].do \in SolverOp
  <2>1. ASSUME NEW W, s \in Seq(W) PROVE \A k \in 1 .. Len(s) : s[k] \in W
    BY <2>1
  <2>2. \A k \in 1 .. Len(s) : s[k] \in Ops(SolverOp)
    BY <1>4, <2>1
  <2> QED BY <1>4, <2>2 DEF Ops
<1>11. StageSound'
  <2>1. \A k \in 1 .. Len(r) : r[k].do # "noDirectory" => r[k].dir \in dirs
    <3> SUFFICES ASSUME NEW k \in 1 .. Len(r), r[k].do # "noDirectory" PROVE r[k].dir \in dirs
      OBVIOUS
    <3>1. CASE k \in 1 .. 6
      BY <1>1, <1>4, <1>8, <3>1
    <3>2. CASE k - 6 \in 1 .. Len(q) /\ r[k] = q[k - 6]
      BY <1>3, <1>5, <3>2
    <3> QED BY <1>8, <3>1, <3>2
  <2> QED BY <1>1, <1>2, <1>8, <2>1 DEF StageSound, r, V
<1>12. Solving(d, 0)'
  <2>1. ASSUME NEW k \in 1 .. Len(r), k > 6 PROVE r[k].do \notin SolverOp
    <3>1. k - 6 \in 1 .. Len(q) /\ r[k] = q[k - 6]
      BY <1>8, <2>1
    <3> QED BY <1>1, <1>3, <3>1 DEF NotSolving
  <2>2. 6 - 0 = 6 /\ ~ (0 >= 4) /\ \A k \in 1 .. 6 : 0 + k = k
    OBVIOUS
  <2>3. 6 <= Len(r) /\ \A k \in 1 .. 6 : r[k] = s[k]
    BY <1>3, <1>8
  <2>4. finished'[d] # "Yes"
    BY <1>2 DEF Skipped
  <2>5. /\ 6 - 0 <= Len(r) /\ \A k \in 1 .. 6 - 0 : r[k] = s[0 + k]
        /\ \A k \in 1 .. Len(r) : k > 6 - 0 => r[k].do \notin SolverOp
    BY <2>1, <2>2, <2>3
  <2> QED BY <2>2, <2>4, <2>5 DEF Solving, SolverOps, On, r, s
<1>13. RunSound'
  <2> SUFFICES ASSUME chained PROVE RunSound'
    BY <1>2 DEF RunSound
  <2>1. /\ Interpreted /\ \A k \in 1 .. Len(program) : program[k].do # "noDirectory"
        /\ \A c \in Asked :
             \/ finished[c] = "Yes"
             \/ \E k \in 1 .. Len(program) : /\ program[k].do \in {"run", "markYes"}
                                             /\ program[k].dir = c
    BY <1>1 DEF IInv, RunSound
  <2>2. Interpreted'
    BY <1>2, <2>1 DEF Interpreted, Holds
  <2>3. \A k \in 1 .. Len(r) : r[k].do # "noDirectory"
    <3>1. \A k \in 1 .. 6 : s[k].do # "noDirectory"
      BY <1>10 DEF SolverOp
    <3> SUFFICES ASSUME NEW k \in 1 .. Len(r) PROVE r[k].do # "noDirectory"
      OBVIOUS
    <3>2. CASE k \in 1 .. 6
      BY <1>8, <3>1, <3>2
    <3>3. CASE k - 6 \in 1 .. Len(q) /\ r[k] = q[k - 6]
      <4>1. r[k] = program[(k - 6) + 1] /\ (k - 6) + 1 \in 1 .. Len(program)
        BY <1>3, <3>3
      <4> QED BY <2>1, <4>1
    <3> QED BY <1>8, <3>2, <3>3
  <2>4. ASSUME NEW c \in Asked
        PROVE  \/ finished[c] = "Yes"
               \/ \E k \in 1 .. Len(r) : r[k].do \in {"run", "markYes"} /\ r[k].dir = c
    <3>1. CASE finished[c] = "Yes"
      BY <3>1
    <3>2. CASE \E k \in 1 .. Len(program) : /\ program[k].do \in {"run", "markYes"}
                                            /\ program[k].dir = c
      <4>1. PICK k \in 1 .. Len(program) : /\ program[k].do \in {"run", "markYes"}
                                           /\ program[k].dir = c
        BY <3>2
      <4>2. CASE k = 1
        <5>1. c = d /\ 6 \in 1 .. 6
          BY <1>1, <4>1, <4>2 DEF Here
        <5>2. 6 \in 1 .. Len(r) /\ r[6] = s[6]
          BY <1>8, <5>1
        <5> QED BY <1>4, <5>1, <5>2
      <4>3. CASE k # 1
        <5>1. k - 1 \in 1 .. Len(q) /\ q[k - 1] = program[k]
          BY <1>3, <4>3
        <5>2. 6 + (k - 1) \in 1 .. Len(r) /\ r[6 + (k - 1)] = program[k]
          BY <1>8, <5>1
        <5> QED BY <4>1, <5>2
      <4> QED BY <4>2, <4>3
    <3> QED BY <2>1, <3>1, <3>2
  <2> QED BY <1>2, <2>2, <2>3, <2>4 DEF RunSound, r
<1>14. ResultsSound' /\ InterpretSound' /\ PlotSound' /\ OnlyLeftoversFailSteps'
  BY <1>1, <1>2 DEF IInv, ResultsSound, InterpretSound, PlotSound, OnlyLeftoversFailSteps
<1>15. SolverSound'
  BY <1>1, <1>2, <1>12 DEF SolverSound
<1> QED BY <1>9, <1>11, <1>13, <1>14, <1>15 DEF IInv

LEMMA RunKeeps ==
  ASSUME IInv, NoDirectory \/ RunDirectory \/ OpenResult \/ Solve
                 \/ MarkFinished("unfinish", "empty") \/ MarkFinished("markNo", "No")
                 \/ MarkFinished("markYes", "Yes")
  PROVE  IInv'
<1>1. stage = "run" /\ chained =>
        /\ \A k \in 1 .. Len(program) : program[k].do # "noDirectory"
        /\ \A d \in Asked : files[d]["input"] = "ok" /\ files[d]["runScript"] = "ok"
  BY DEF IInv, RunSound, Interpreted, Holds, Product
<1>2. CASE NoDirectory
  <2>1. program # <<>> /\ Head(program).do = "noDirectory"
    BY <1>2 DEF NoDirectory, Doing
  <2>2. stage = "run" /\ 1 \in 1 .. Len(program) /\ program[1] = Head(program)
    BY <2>1, StageOfHead
  <2>3. ~chained
    BY <1>1, <2>1, <2>2
  <2> QED BY <1>2, <2>3, FailKeeps DEF NoDirectory
<1>3. CASE RunDirectory
  <2>1. Doing("run") /\ UNCHANGED <<disk, author>>
    BY <1>3 DEF RunDirectory
  <2>2. stage = "run" /\ Here \in dirs
    BY <2>1, TurnIs
  <2>3. CASE files[Here]["runScript"] = "absent" /\ Fail("noRunScript")
    <3>1. chained => Here \in dirs \ Asked
      BY <1>1, <2>2, <2>3
    <3> QED BY <2>1, <2>3, <3>1, FailKeeps
  <2>4. CASE (files[Here]["runScript"] = "empty" \/ Skipped(Here)) /\ Step
    BY <2>1, <2>4, SkipKeeps
  <2>5. CASE /\ ~Skipped(Here) /\ program' = SolverOps(Here) \o Tail(program)
             /\ UNCHANGED <<stage, chained, lastError>>
    <3> DEFINE d == Here
    <3>1. d = Here /\ ~Skipped(d) /\ program' = SolverOps(d) \o Tail(program)
      BY <2>5
    <3> HIDE DEF d
    <3> QED BY <2>1, <2>5, <3>1, TurnKeeps
  <2> QED BY <1>3, <2>3, <2>4, <2>5 DEF RunDirectory
<1>4. CASE Solve /\ ~Step
  <2>1. Doing("solve") /\ files[Here]["input"] # "ok" /\ Fail("runFailed") /\ UNCHANGED <<disk, author>>
    BY <1>4 DEF Solve, disk
  <2>2. program # <<>> /\ Head(program).do \in SolverOp
    BY <2>1 DEF Doing, SolverOp
  <2>3. stage = "run" /\ Here \in dirs
    BY <2>2, StageOfHead, SolverHead
  <2>4. chained => Here \in dirs \ Asked
    BY <1>1, <2>1, <2>3
  <2> QED BY <2>1, <2>4, FailKeeps
<1> QED BY <1>2, <1>3, <1>4, SolverKeeps

LEMMA InterpretKeeps ==
  ASSUME IInv, CleanSlate \/ RemoveDir \/ RemoveRuns \/ MakeRuns \/ MakeDir \/ Compare \/ CheckReady
                 \/ Truncate \/ Write \/ TruncateMapping \/ WriteMapping
  PROVE  IInv'
<1>1. CASE CleanSlate /\ ~Step
  BY <1>1, FailKeeps DEF CleanSlate
<1>2. CASE Compare /\ ~Step
  BY <1>2, FailKeeps DEF Compare
<1> QED BY <1>1, <1>2, RemovalKeeps, PlainKeeps

-----------------------------------------------------------------------------
(* Step 4.                                                                   *)

LEMMA PlotStep ==
  ASSUME IInv, program # <<>>, Head(program).do \in PlotOp, Step,
         UNCHANGED <<dirs, files, finished, result, mapping, author>>,
         plots' \in [Instance -> [of : SUBSET Config, drawn : BOOLEAN, complete : BOOLEAN]],
         \A i \in Instance : \/ plots'[i] = plots[i]
                             \/ /\ plots'[i].drawn /\ plots'[i].complete
                                /\ i \in DOMAIN mapping.of /\ plots'[i].of = mapping.of[i],
         Head(program).do = "plot" /\ Head(program).of \in DOMAIN mapping.of =>
           /\ plots'[Head(program).of].drawn
           /\ plots'[Head(program).of].of = mapping.of[Head(program).of]
  PROVE  IInv'
<1>1. /\ stage = "plot" /\ ~lastError.chained /\ Head(program) = program[1]
      /\ program \in Seq(Op) /\ Typed
  BY StageOfHead DEF IInv, Typed
<1>2. /\ program' = Tail(program) /\ UNCHANGED <<stage, chained, lastError, doc, edited>>
      /\ Asked' = Asked
  BY DEF Step, author, Asked
<1>3. /\ Len(program) \in Nat /\ Len(program') = Len(program) - 1
      /\ \A k \in 1 .. Len(program') : program'[k] = program[k + 1] /\ k + 1 \in 1 .. Len(program)
      /\ \A k \in 1 .. Len(program) :
           k # 1 => k - 1 \in 1 .. Len(program') /\ program'[k - 1] = program[k]
      /\ program' \in Seq(Op)
  BY <1>1, <1>2, TailIs
<1>4. Typed'
  BY <1>1, <1>2, <1>3 DEF Typed, author
<1>5. program' \in Seq(Ops(PlotOp))
  <2>1. program \in Seq(Ops(PlotOp))
    BY <1>1 DEF IInv, StageSound
  <2> QED BY <1>1, <1>2, <2>1
<1>6. StageSound'
  BY <1>1, <1>2, <1>5 DEF StageSound
<1>7. NotSolving'
  <2>1. ASSUME NEW V, program' \in Seq(V) PROVE \A k \in 1 .. Len(program') : program'[k] \in V
    BY <2>1
  <2>2. \A k \in 1 .. Len(program') : program'[k] \in Ops(PlotOp)
    BY <1>5, <2>1
  <2> QED BY <2>2 DEF NotSolving, Ops, PlotOp, SolverOp
<1>8. ResultsSound'
  BY DEF IInv, ResultsSound
<1>9. PlotSound'
  <2> SUFFICES ASSUME chained PROVE PlotSound'
    BY <1>2 DEF PlotSound
  <2>1. /\ Interpreted /\ \A d \in Asked : finished[d] = "Yes"
        /\ ~edited => \A i \in DOMAIN doc :
             \/ \E k \in 1 .. Len(program) : program[k].do = "plot" /\ program[k].of = i
             \/ plots[i].drawn /\ plots[i].of = doc[i]
    BY <1>1 DEF IInv, PlotSound
  <2>2. Interpreted' /\ \A d \in Asked' : finished'[d] = "Yes"
    BY <1>2, <2>1 DEF Interpreted, Holds
  <2>3. ASSUME ~edited, NEW i \in DOMAIN doc
        PROVE  \/ \E k \in 1 .. Len(program') : program'[k].do = "plot" /\ program'[k].of = i
               \/ plots'[i].drawn /\ plots'[i].of = doc[i]
    <3>1. mapping.of = doc /\ i \in Instance
      BY <1>1, <2>1, <2>3, DraftIsFinite DEF Interpreted, Typed
    <3>2. CASE plots[i].drawn /\ plots[i].of = doc[i]
      BY <3>1, <3>2
    <3>3. CASE \E k \in 1 .. Len(program) : program[k].do = "plot" /\ program[k].of = i
      <4>1. PICK k \in 1 .. Len(program) : program[k].do = "plot" /\ program[k].of = i
        BY <3>3
      <4>2. CASE k = 1
        BY <1>1, <3>1, <4>1, <4>2
      <4>3. CASE k # 1
        BY <1>3, <4>1, <4>3
      <4> QED BY <4>2, <4>3
    <3> QED BY <2>1, <2>3, <3>2, <3>3
  <2> QED BY <1>2, <2>2, <2>3 DEF PlotSound
<1>10. InterpretSound' /\ RunSound' /\ OnlyLeftoversFailSteps'
  BY <1>1, <1>2 DEF InterpretSound, RunSound, OnlyLeftoversFailSteps
<1> QED BY <1>4, <1>6, <1>7, <1>8, <1>9, <1>10 DEF IInv, SolverSound

(* As part of reproduce.sh neither the mapping nor a finished run is missing. *)
LEMMA PlotKeeps ==
  ASSUME IInv, ReadMapping \/ PlotInstance
  PROVE  IInv'
<1>1. PICK what \in PlotOp : Doing(what)
  BY DEF ReadMapping, PlotInstance, PlotOp
<1>2. /\ program # <<>> /\ Head(program).do = what /\ Head(program) \in Op
      /\ stage = "plot" /\ Head(program).do \in PlotOp
  BY <1>1, NothingToDo, StageOfHead
<1>3. chained => /\ mapping.state = "ok" /\ Asked = AskedOf(mapping.of)
                 /\ \A d \in Asked : d \in dirs /\ finished[d] = "Yes"
  BY <1>2 DEF IInv, PlotSound, Interpreted, Asked, AskedOf, Holds, Product
<1>4. ASSUME NEW why, Fail(why), UNCHANGED <<disk, author>>, ~chained PROVE IInv'
  BY <1>4, FailKeeps
<1>5. plots \in [Instance -> [of : SUBSET Config, drawn : BOOLEAN, complete : BOOLEAN]]
  BY DEF IInv, Typed
<1>6. CASE ReadMapping
  <2>1. UNCHANGED <<disk, author>> /\ Head(program).do # "plot"
    BY <1>6 DEF ReadMapping, Doing
  <2>2. CASE Step
    BY <1>2, <1>5, <2>1, <2>2, PlotStep DEF disk
  <2>3. CASE mapping.state # "ok" /\ Fail("noMapping")
    BY <1>3, <1>4, <2>1, <2>3
  <2> QED BY <1>6, <2>2, <2>3 DEF ReadMapping
<1>7. CASE PlotInstance
  <2> DEFINE i == Head(program).of
  <2>1. /\ Head(program).do = "plot" /\ i \in Instance
        /\ UNCHANGED <<dirs, files, finished, result, mapping, author>>
    <3>1. Head(program).do = "plot"
      BY <1>7 DEF PlotInstance, Doing
    <3>2. i \in Instance
      BY <1>2, <3>1, OpFields
    <3> QED BY <1>7, <3>1, <3>2 DEF PlotInstance
  <2>2. CASE i \notin DOMAIN mapping.of /\ Step /\ UNCHANGED plots
    BY <1>2, <1>5, <2>1, <2>2, PlotStep
  <2>3. CASE /\ i \in DOMAIN mapping.of
             /\ \E d \in mapping.of[i] : d \notin dirs \/ finished[d] # "Yes"
             /\ UNCHANGED plots
             /\ Fail("noRunDir") \/ Fail("notFinished")
    <3>1. PICK d \in mapping.of[i] : d \notin dirs \/ finished[d] # "Yes"
      BY <2>3
    <3>2. d \in AskedOf(mapping.of)
      BY <2>3 DEF AskedOf
    <3>3. ~chained
      BY <1>3, <3>1, <3>2
    <3>4. UNCHANGED <<disk, author>>
      BY <1>7, <2>3 DEF PlotInstance, disk
    <3> QED BY <1>4, <2>3, <3>3, <3>4
  <2>4. CASE /\ i \in DOMAIN mapping.of
             /\ \A d \in mapping.of[i] : d \in dirs /\ finished[d] = "Yes"
             /\ plots' = [plots EXCEPT ![i] =
                  [of |-> mapping.of[i], drawn |-> TRUE,
                   complete |-> \A d \in mapping.of[i] : result[d] \in {"right", "misled"}]]
             /\ Step
    <3>1. mapping.of[i] \subseteq Config
      BY <2>4 DEF IInv, Typed
    <3>2. \A d \in mapping.of[i] : result[d] \in {"right", "misled"}
      BY <2>4, <3>1 DEF IInv, ResultsSound
    <3> DEFINE plot == [of |-> mapping.of[i], drawn |-> TRUE, complete |-> TRUE]
    <3>3. plot \in [of : SUBSET Config, drawn : BOOLEAN, complete : BOOLEAN]
      BY <3>1
    <3>4. plot.of = mapping.of[i] /\ plot.drawn = TRUE /\ plot.complete = TRUE
      OBVIOUS
    <3>5. plots' = [plots EXCEPT ![i] = plot]
      BY <2>4, <3>2
    <3> HIDE DEF plot
    <3>6. /\ plots' \in [Instance -> [of : SUBSET Config, drawn : BOOLEAN, complete : BOOLEAN]]
          /\ plots'[i] = plot
          /\ \A j \in Instance : j # i => plots'[j] = plots[j]
      BY <1>5, <2>1, <3>3, <3>5
    <3> QED BY <1>2, <2>1, <2>4, <3>4, <3>6, PlotStep
  <2> QED BY <1>7, <2>2, <2>3, <2>4 DEF PlotInstance
<1> QED BY <1>6, <1>7

-----------------------------------------------------------------------------
(* Every step.                                                               *)

LEMMA InvNext ==
  ASSUME IInv, [Next]_vars
  PROVE  IInv'
<1>1. CASE UNCHANGED vars
  <2>1. /\ UNCHANGED <<dirs, files, finished, result, mapping, plots, doc, edited>>
        /\ UNCHANGED <<stage, program, chained, lastError>> /\ Asked' = Asked
    BY <1>1 DEF vars, disk, control, author, Asked
  <2>2. Typed' /\ StageSound' /\ ResultsSound' /\ OnlyLeftoversFailSteps'
    BY <2>1 DEF IInv, Typed, StageSound, ResultsSound, OnlyLeftoversFailSteps
  <2>3. SolverSound'
    BY <2>1 DEF IInv, SolverSound, NotSolving, Solving, SolverOps, On
  <2>4. InterpretSound'
    BY <2>1 DEF IInv, InterpretSound, Interpreting, Holds
  <2>5. RunSound' /\ PlotSound'
    BY <2>1 DEF IInv, RunSound, PlotSound, Interpreted, Holds
  <2> QED BY <2>2, <2>3, <2>4, <2>5 DEF IInv
<1>2. ASSUME NEW flag, NEW chain \in BOOLEAN, Start(flag, chain) PROVE IInv'
  BY <1>2, StartKeeps
<1>3. CASE StartAlone("run", RunOps) \/ StartAlone("plot", PlotOps) \/ InterpretDone \/ RunDone
             \/ PlotDone \/ Crash
  BY <1>3, StartRunKeeps, StartPlotKeeps, EndKeeps
<1>4. CASE CleanSlate \/ RemoveDir \/ RemoveRuns \/ MakeRuns \/ MakeDir \/ Compare \/ CheckReady
             \/ Truncate \/ Write \/ TruncateMapping \/ WriteMapping
  BY <1>4, InterpretKeeps
<1>5. CASE NoDirectory \/ RunDirectory \/ OpenResult \/ Solve \/ MarkFinished("unfinish", "empty")
             \/ MarkFinished("markNo", "No") \/ MarkFinished("markYes", "Yes")
  BY <1>5, RunKeeps
<1>6. CASE ReadMapping \/ PlotInstance
  BY <1>6, PlotKeeps
<1>7. ASSUME NEW draft \in Drafts, Edit(draft) PROVE IInv'
  BY <1>7, EditKeeps
<1> QED BY <1>1, <1>2, <1>3, <1>4, <1>5, <1>6, <1>7 DEF Next

LEMMA InvAlways == Spec => []IInv
BY InvInit, InvNext, PTL DEF Spec

(* What a step may do to the mark and the results of a directory: nothing,   *)
(* remove it, or work on it while it is not finished.                        *)
LEMMA MarkSteps ==
  ASSUME IInv, [Next]_vars, NEW d \in Config
  PROVE  \/ finished'[d] = finished[d] /\ result'[d] = result[d]
         \/ d \notin dirs' /\ finished'[d] = "absent"
         \/ /\ finished[d] # "Yes"
            /\ finished'[d] = "Yes" => /\ result'[d] = result[d]
                                       /\ chained /\ d \in Asked => result[d] = "right"
<1>1. CASE UNCHANGED <<finished, result>>
  BY <1>1
<1>2. CASE RemoveDir
  BY <1>2 DEF RemoveDir, IInv, Typed
<1>3. CASE \/ OpenResult \/ Solve \/ MarkFinished("unfinish", "empty")
           \/ MarkFinished("markNo", "No") \/ MarkFinished("markYes", "Yes")
  <2>1. PICK what \in SolverOp : Doing(what)
    BY <1>3 DEF OpenResult, Solve, MarkFinished, SolverOp
  <2>2. program # <<>> /\ Head(program).do = what /\ Head(program).do \in SolverOp
    BY <2>1, NothingToDo
  <2>3. PICK h \in dirs : \E n \in 0 .. 5 :
          Solving(h, n) /\ Here = h /\ Head(program).do = SolverOps(h)[n + 1].do
    BY <2>2, SolverHead
  <2>4. PICK n \in 0 .. 5 : Solving(h, n) /\ Here = h /\ Head(program).do = SolverOps(h)[n + 1].do
    BY <2>3
  <2>5. /\ h \in Config /\ finished \in [Config -> {"absent", "empty", "No", "Yes"}]
        /\ result \in [Config -> {"none", "partial", "right", "misled"}] /\ finished[h] # "Yes"
    BY <2>4 DEF IInv, Typed, Solving
  <2>6. CASE OpenResult \/ Solve
    BY <2>4, <2>5, <2>6 DEF OpenResult, Solve
  <2>7. CASE MarkFinished("unfinish", "empty") \/ MarkFinished("markNo", "No")
    BY <2>4, <2>5, <2>7 DEF MarkFinished
  <2>8. CASE MarkFinished("markYes", "Yes")
    <3>1. n = 5
      BY <2>2, <2>4, <2>5, <2>8, SolverAt DEF MarkFinished, Doing
    <3>2. chained /\ h \in Asked => result[h] = "right"
      BY <2>4, <3>1 DEF Solving
    <3>3. finished' = [finished EXCEPT ![h] = "Yes"] /\ result' = result
      BY <2>4, <2>8 DEF MarkFinished
    <3> QED BY <2>5, <3>2, <3>3
  <2> QED BY <1>3, <2>6, <2>7, <2>8
<1>4. CASE UNCHANGED vars
  BY <1>1, <1>4 DEF vars, disk
<1>5. ASSUME Next, ~RemoveDir, ~OpenResult, ~Solve, ~MarkFinished("unfinish", "empty"),
             ~MarkFinished("markNo", "No"), ~MarkFinished("markYes", "Yes")
      PROVE  UNCHANGED <<finished, result>>
  BY <1>5 DEF Next, Start, StartAlone, InterpretDone, RunDone, PlotDone, CleanSlate, RemoveRuns,
     MakeRuns, MakeDir, Compare, CheckReady, Truncate, Write, TruncateMapping, WriteMapping,
     NoDirectory, RunDirectory, ReadMapping, PlotInstance, Edit, Crash, disk
<1> QED BY <1>1, <1>2, <1>3, <1>4, <1>5

-----------------------------------------------------------------------------
(* The theorems.                                                             *)

(* run.sh trusts finished.txt: whatever was killed, edited or removed by     *)
(* hand before, what reproduce.sh marks finished among the directories the   *)
(* document asks for has the right results, and nothing is ever marked       *)
(* before its solver wrote its results.                                      *)
THEOREM MarkedWhenRight == Spec => FinishedIsRight
<1>1. ASSUME IInv, IInv', [Next]_vars, NEW d \in Config, finished'[d] = "Yes"
      PROVE  \/ result'[d] = "right"
             \/ /\ result'[d] = "misled"
                /\ \/ UNCHANGED <<finished[d], result[d]>>
                   \/ ~chained
                   \/ d \notin Asked
  <2>1. result'[d] \in {"right", "misled"}
    BY <1>1 DEF IInv, ResultsSound
  <2>2. \/ finished'[d] = finished[d] /\ result'[d] = result[d]
        \/ result'[d] = result[d] /\ (chained /\ d \in Asked => result[d] = "right")
    BY <1>1, MarkSteps
  <2> QED BY <2>1, <2>2
<1>2. IInv /\ IInv' /\ [Next]_vars =>
        [\A d \in Config : finished'[d] = "Yes" =>
            \/ result'[d] = "right"
            \/ /\ result'[d] = "misled"
               /\ \/ UNCHANGED <<finished[d], result[d]>>
                  \/ ~chained
                  \/ d \notin Asked]_vars
  BY <1>1
<1> QED BY <1>2, InvAlways, PTL DEF Spec, FinishedIsRight

(* A run that is finished is never run again while its directory is there,   *)
(* whatever is interpreted, killed or reproduced in between (run.sh).        *)
THEOREM FinishedStays == Spec => FinishedKept
<1>1. IInv /\ [Next]_vars =>
        [\A d \in Config : finished[d] = "Yes" /\ d \in dirs' => finished'[d] = "Yes"]_vars
  BY MarkSteps
<1> QED BY <1>1, InvAlways, PTL DEF Spec, FinishedKept

(* reproduce.sh fails in steps 3 and 4 only over a directory that the        *)
(* document no longer asks for and that a kill left half written             *)
(* (reproduce.sh, step_3_run.sh, step_4_plot.sh).                            *)
THEOREM OnlyLeftoversFail == Spec => []OnlyLeftoversFailSteps
BY InvAlways, PTL DEF IInv

(* What reproduce.sh plots to its end is what the document asks for, and no  *)
(* plot is drawn from output that a run had not finished (plot.py).          *)
THEOREM PlotsReflect == Spec => []PlotsReflectDocument
<1>1. ASSUME IInv PROVE PlotsReflectDocument
  <2>1. \A i \in Instance : plots[i].complete
    BY <1>1 DEF IInv, ResultsSound
  <2>2. ASSUME stage = "plot", program = <<>>, chained, ~edited, NEW i \in DOMAIN doc
        PROVE  plots[i].drawn /\ plots[i].of = doc[i]
    <3>1. ~ \E k \in 1 .. Len(program) : program[k].do = "plot" /\ program[k].of = i
      BY <2>2
    <3> QED BY <1>1, <2>2, <3>1 DEF IInv, PlotSound
  <2> QED BY <2>1, <2>2 DEF PlotsReflectDocument
<1> QED BY <1>1, InvAlways, PTL

-----------------------------------------------------------------------------
(* The solver: multiples, and divisions without a rest.                      *)

LEMMA MultipleIs ==
  ASSUME NEW b \in Nat \ {0}, NEW q \in Nat, NEW a \in Nat, a = q * b
  PROVE  Multiple(a, b)
<1>1. q <= q * b
  <2>1. q * 1 <= q * b
    <3>1. 1 <= b
      OBVIOUS
    <3> QED BY <3>1
  <2> QED BY <2>1
<1>2. q \in 0 .. a
  BY <1>1
<1> QED BY <1>2 DEF Multiple

LEMMA MultiplesSubtract ==
  ASSUME NEW b \in Nat \ {0}, NEW a \in Nat, NEW c \in Nat, c <= a,
         Multiple(a, b), Multiple(c, b)
  PROVE  Multiple(a - c, b)
<1>1. PICK p \in 0 .. a : a = p * b
  BY DEF Multiple
<1>2. PICK q \in 0 .. c : c = q * b
  BY DEF Multiple
<1>3. a - c = (p - q) * b /\ a - c \in Nat
  BY <1>1, <1>2
<1>4. p - q \in Nat
  <2>1. CASE p < q
    <3>1. q - p >= 1 /\ (q - p) * b >= 1
      BY <1>1, <1>2, <2>1
    <3>2. (q - p) * b = 0 - (p - q) * b
      BY <1>1, <1>2
    <3> QED BY <1>1, <1>2, <1>3, <3>1, <3>2
  <2> QED BY <1>1, <1>2, <2>1
<1> QED BY <1>3, <1>4, MultipleIs

(* A number taken any number of times is a multiple of what it is one of.    *)
LEMMA MultiplesTake ==
  ASSUME NEW b \in Nat \ {0}, NEW a \in Nat, NEW k \in Nat, Multiple(a, b)
  PROVE  Multiple(a * k, b)
<1>1. PICK p \in 0 .. a : a = p * b
  BY DEF Multiple
<1>2. a * k = (p * k) * b /\ p * k \in Nat /\ a * k \in Nat
  BY <1>1
<1> QED BY <1>2, MultipleIs

LEMMA MultiplesChain ==
  ASSUME NEW a \in Nat, NEW b \in Nat \ {0}, NEW c \in Nat \ {0}, Multiple(a, b), Multiple(b, c)
  PROVE  Multiple(a, c)
<1>1. PICK p \in 0 .. a : a = p * b
  BY DEF Multiple
<1>2. PICK q \in 0 .. b : b = q * c
  BY DEF Multiple
<1>3. a = (p * q) * c /\ p * q \in Nat
  BY <1>1, <1>2
<1> QED BY <1>3, MultipleIs

(* What is a multiple of m times a unit can be divided by m.                 *)
LEMMA DivisionExact ==
  ASSUME NEW m \in Nat \ {0}, NEW h \in Nat \ {0}, NEW a \in Nat, Multiple(a, m * h)
  PROVE  /\ a \div m \in Nat /\ (a \div m) * m = a
         /\ Multiple(a \div m, h)
         /\ \A z \in Nat : z * m = a => Multiple(z, h)
<1>1. PICK q \in 0 .. a : a = q * (m * h)
  BY DEF Multiple
<1> DEFINE z == q * h
<1>2. z \in Nat /\ a = z * m /\ a = z * m + 0 /\ 0 \in 0 .. m - 1
  BY <1>1
<1>3. Multiple(z, h)
  BY <1>1, <1>2, MultipleIs
<1> HIDE DEF z
<1>4. \A y \in Nat : y * m = a => y = z
  <2> SUFFICES ASSUME NEW y \in Nat, y * m = a PROVE y = z
    OBVIOUS
  <2>1. (y * m + 0) \div m = y /\ (z * m + 0) \div m = z
    BY <1>2, DivisionIs
  <2>2. y * m + 0 = a /\ z * m + 0 = a
    BY <1>2
  <2> QED BY <2>1, <2>2
<1>5. a \div m = z
  BY <1>2, DivisionIs
<1> QED BY <1>2, <1>3, <1>4, <1>5

-----------------------------------------------------------------------------
(* The solver: what holds between two of its iterations.  Every link's flows *)
(* are counted and its capacity accounted for; what is left of it can still  *)
(* be divided; the tightness listed is exact; nobody fixed has more than any *)
(* listed link would give; whoever is fixed has a bottleneck.                *)

Unfixed == Flow \ DOMAIN allocation

SolverType ==
  /\ capacity \in [Link -> Capacity] /\ path \in [Flow -> FlowPath]
  /\ remainder \in [Link -> Nat] /\ numFixed \in [Link -> Nat]
  /\ DOMAIN allocation \subseteq Flow /\ \A f \in DOMAIN allocation : allocation[f] \in Nat

Balanced ==
  \A l \in Link : /\ numFixed[l] + Cardinality(ToFix(l)) = Cardinality(Present(l))
                  /\ remainder[l] + Load(l) = capacity[l]
                  /\ Multiple(remainder[l], Grain[Cardinality(Unfixed)])

TightnessExact ==
  /\ DOMAIN tightness = {l \in Link : ToFix(l) # {}}
  /\ \A l \in DOMAIN tightness : /\ tightness[l] \in Nat \ {0}
                                 /\ tightness[l] * Cardinality(ToFix(l)) = remainder[l]

Rising == \A f \in DOMAIN allocation : \A l \in DOMAIN tightness : allocation[f] <= tightness[l]

Bottleneck(f, l) ==
  /\ Crosses(f, l) /\ ToFix(l) = {} /\ Load(l) = capacity[l]
  /\ \A g \in Present(l) : allocation[g] <= allocation[f]

SolverInv ==
  /\ SolverType /\ Balanced /\ TightnessExact /\ Rising
  /\ \A f \in DOMAIN allocation : \E l \in Link : Bottleneck(f, l)

LEMMA FlowSets ==
  /\ \A S \in SUBSET Flow : IsFiniteSet(S) /\ Cardinality(S) \in Nat
                            /\ Cardinality(S) <= Cardinality(Flow)
                            /\ (S # {} => Cardinality(S) # 0)
  /\ \A l : Present(l) \in SUBSET Flow /\ ToFix(l) \in SUBSET Present(l)
<1>1. \A S \in SUBSET Flow : IsFiniteSet(S)
  BY InputAssumption, FS_Subset
<1>2. \A S \in SUBSET Flow : Cardinality(S) \in Nat /\ Cardinality(S) <= Cardinality(Flow)
  BY <1>1, InputAssumption, FS_Subset, FS_CardinalityType
<1>3. \A S \in SUBSET Flow : S # {} => Cardinality(S) # 0
  BY <1>1, FS_EmptySet
<1>4. \A l : Present(l) \in SUBSET Flow /\ ToFix(l) \in SUBSET Present(l)
  BY DEF Present, ToFix
<1> QED BY <1>1, <1>2, <1>3, <1>4

(* A path takes no link twice: a flow crosses a link once or not at all.     *)
LEMMA HopsOnce ==
  ASSUME SolverType, NEW f \in Flow, NEW l
  PROVE  Cardinality(Hops(f, l)) = IF Crosses(f, l) THEN 1 ELSE 0
<1>1. path[f] \in FlowPath /\ path[f] \in Seq(Nat)
  BY InputAssumption DEF SolverType
<1>2. /\ Len(path[f]) \in Nat
      /\ \A i \in 1 .. Len(path[f]) - 1 : \A j \in 1 .. i - 1 :
           <<path[f][j], path[f][j + 1]>> # <<path[f][i], path[f][i + 1]>>
  <2>1. Len(path[f]) \in Nat
    BY <1>1
  <2>2. \A p \in FlowPath : \A i \in 1 .. Len(p) - 1 : \A j \in 1 .. i - 1 :
          <<p[j], p[j + 1]>> # <<p[i], p[i + 1]>>
    BY InputAssumption
  <2> QED BY <1>1, <2>1, <2>2, Zenon
<1>3. \A i, j \in Hops(f, l) : ~(j < i)
  <2> SUFFICES ASSUME NEW i \in Hops(f, l), NEW j \in Hops(f, l), j < i PROVE FALSE
    OBVIOUS
  <2>1. /\ i \in 1 .. Len(path[f]) - 1 /\ <<path[f][i], path[f][i + 1]>> = l
        /\ j \in 1 .. Len(path[f]) - 1 /\ <<path[f][j], path[f][j + 1]>> = l
    BY DEF Hops
  <2>2. j \in 1 .. i - 1
    BY <1>2, <2>1
  <2> QED BY <1>2, <2>1, <2>2
<1>4. Hops(f, l) \subseteq Int
  BY <1>2 DEF Hops
<1>5. CASE Crosses(f, l)
  <2>1. PICK i \in Hops(f, l) : TRUE
    BY <1>5 DEF Crosses
  <2>2. ASSUME NEW j \in Hops(f, l) PROVE j = i
    <3>1. ~(j < i) /\ ~(i < j) /\ i \in Int /\ j \in Int
      BY <1>3, <1>4, <2>1
    <3> QED BY <3>1
  <2>3. Hops(f, l) = {i}
    BY <2>1, <2>2
  <2> QED BY <1>5, <2>3, FS_Singleton
<1>6. CASE ~Crosses(f, l)
  BY <1>6, FS_EmptySet DEF Crosses
<1> QED BY <1>5, <1>6

(* Every flow is on some link.                                               *)
LEMMA FlowsCross ==
  ASSUME SolverType, NEW f \in Flow
  PROVE  \E l \in Link : Crosses(f, l)
<1> DEFINE l == <<path[f][1], path[f][2]>>
<1>1. path[f] \in FlowPath /\ path[f] \in Seq(Nat) /\ Len(path[f]) >= 2
  BY InputAssumption DEF SolverType
<1>2. 1 \in 1 .. Len(path[f]) - 1 /\ 1 + 1 = 2
  BY <1>1
<1>3. l \in Link
  BY <1>1, <1>2, InputAssumption
<1>4. 1 \in Hops(f, l)
  BY <1>2 DEF Hops
<1> QED BY <1>3, <1>4 DEF Crosses

(* Of the flows that an iteration fixes, those that cross another link.      *)
Shared(l, m) == Cardinality(ToFix(m) \cap ToFix(l))

LEMMA FixedHopsAreShared ==
  ASSUME SolverType, NEW l, NEW m
  PROVE  FixedHops(l, m) = Shared(l, m)
<1> DEFINE X == ToFix(l)
           hops == [f \in X |-> Cardinality(Hops(f, m))]
           A == ToFix(m) \cap X
           B == X \ ToFix(m)
<1>1. /\ X \in SUBSET Flow /\ X \cap DOMAIN allocation = {}
      /\ IsFiniteSet(X) /\ IsFiniteSet(A) /\ IsFiniteSet(B)
      /\ Cardinality(A) \in Nat /\ Cardinality(B) \in Nat
  <2>1. X \in SUBSET Flow /\ A \in SUBSET Flow /\ B \in SUBSET Flow
    BY FlowSets
  <2> QED BY <2>1, FlowSets DEF ToFix
<1>2. \A f \in X : hops[f] = IF f \in A THEN 1 ELSE 0
  <2> SUFFICES ASSUME NEW f \in X PROVE Cardinality(Hops(f, m)) = IF f \in A THEN 1 ELSE 0
    OBVIOUS
  <2>1. f \in A <=> Crosses(f, m)
    BY <1>1 DEF ToFix, Present
  <2> QED BY <1>1, <2>1, HopsOnce
<1>3. A \cup B = X /\ A \cap B = {}
  OBVIOUS
<1>4. FixedHops(l, m) = SumFunctionOnSet(hops, X)
  BY DEF FixedHops
<1> HIDE DEF hops, A, B, X
<1>5. SumFunctionOnSet(hops, A \cup B) = SumFunctionOnSet(hops, A) + SumFunctionOnSet(hops, B)
  BY <1>1, <1>2, <1>3, SumSplit
<1>6. \A f \in A : hops[f] = 1
  BY <1>2, <1>3
<1>7. \A f \in B : hops[f] = 0
  BY <1>2, <1>3
<1>8. SumFunctionOnSet(hops, A) = 1 * Cardinality(A) /\ SumFunctionOnSet(hops, B) = 0 * Cardinality(B)
  BY <1>1, <1>6, <1>7, SumConstant
<1>9. SumFunctionOnSet(hops, A) = Cardinality(A) /\ SumFunctionOnSet(hops, B) = 0
  BY <1>1, <1>8
<1>10. SumFunctionOnSet(hops, A \cup B) = Cardinality(A)
  BY <1>1, <1>5, <1>9
<1>11. FixedHops(l, m) = Cardinality(A)
  BY <1>3, <1>4, <1>10
<1> QED BY <1>11 DEF Shared, A, X

LEMMA SolverInitEstablishes ==
  SolverInit => SolverInv
<1> SUFFICES ASSUME SolverInit PROVE SolverInv
  OBVIOUS
<1>1. DOMAIN allocation = {} /\ Unfixed = Flow /\ \A l : ToFix(l) = Present(l)
  BY DEF SolverInit, Unfixed, ToFix
<1>2. SolverType
  BY <1>1, InputAssumption DEF SolverInit, SolverType
<1>3. Cardinality(Flow) \in Nat
  BY FlowSets
<1>4. \A l : IsFiniteSet(Present(l)) /\ Cardinality(Present(l)) \in Nat
             /\ Cardinality(Present(l)) <= Cardinality(Flow)
             /\ (Present(l) # {} => Cardinality(Present(l)) # 0)
  BY FlowSets
<1>5. Balanced
  <2> SUFFICES ASSUME NEW l \in Link
               PROVE  /\ numFixed[l] + Cardinality(ToFix(l)) = Cardinality(Present(l))
                      /\ remainder[l] + Load(l) = capacity[l]
                      /\ Multiple(remainder[l], Grain[Cardinality(Unfixed)])
    BY DEF Balanced
  <2>1. numFixed[l] = 0 /\ remainder[l] = capacity[l] /\ capacity[l] \in Capacity /\ capacity[l] \in Nat
    BY InputAssumption DEF SolverInit
  <2>2. Load(l) = 0
    <3>1. Present(l) \cap DOMAIN allocation = {}
      BY <1>1
    <3> QED BY <3>1, SumUnrolls, FS_EmptySet DEF Load
  <2>3. Multiple(capacity[l], Grain[Cardinality(Flow)])
    BY <2>1, GrainAssumption
  <2> QED BY <1>1, <1>4, <2>1, <2>2, <2>3
<1>6. TightnessExact
  <2>1. DOMAIN tightness = {l \in Link : Present(l) # {}}
    BY DEF SolverInit
  <2> SUFFICES ASSUME NEW l \in Link, Present(l) # {}
               PROVE  /\ tightness[l] \in Nat \ {0}
                      /\ tightness[l] * Cardinality(Present(l)) = remainder[l]
    BY <1>1, <2>1 DEF TightnessExact
  <2> DEFINE c == capacity[l]
             j == Cardinality(Present(l))
             n == Cardinality(Flow)
  <2>2. c \in Capacity /\ c \in Nat \ {0} /\ remainder[l] = c
    BY InputAssumption DEF SolverInit
  <2>3. tightness[l] = c \div (j - 0)
    BY DEF SolverInit, Tightness
  <2>4. j \in 1 .. n /\ n \in Nat /\ j - 0 = j
    BY <1>3, <1>4
  <2> HIDE DEF c, j, n
  <2>5. n \in 1 .. n /\ 0 \in 0 .. n - 1
    BY <2>4
  <2>6. Multiple(c, Grain[n]) /\ Multiple(Grain[n], j * Grain[0])
    BY <2>2, <2>4, <2>5, GrainAssumption DEF n
  <2>7. Grain[n] \in Nat \ {0} /\ Grain[0] \in Nat \ {0}
    BY <2>5, GrainAssumption DEF n
  <2>8. j * Grain[0] \in Nat \ {0} /\ j \in Nat \ {0}
    BY <2>4, <2>7
  <2>9. Multiple(c, j * Grain[0])
    BY <2>2, <2>6, <2>7, <2>8, MultiplesChain
  <2>10. c \div j \in Nat /\ (c \div j) * j = c
    BY <2>2, <2>7, <2>8, <2>9, DivisionExact
  <2>11. c \div j # 0
    BY <2>2, <2>8, <2>10
  <2> QED BY <2>2, <2>3, <2>4, <2>10, <2>11 DEF j
<1> QED BY <1>1, <1>2, <1>5, <1>6 DEF SolverInv, Rising

-----------------------------------------------------------------------------
(* The solver: one iteration.                                                *)

(* The flows it fixes get the tightness of its link, the others keep theirs. *)
LEMMA IterationAllocates ==
  ASSUME SolverType, NEW l \in DOMAIN tightness, FixFlowsOf(l)
  PROVE  /\ DOMAIN allocation' = DOMAIN allocation \cup ToFix(l)
         /\ \A f \in ToFix(l) : allocation'[f] = tightness[l]
         /\ \A f \in DOMAIN allocation : allocation'[f] = allocation[f]
<1>1. allocation' = [f \in DOMAIN allocation \cup ToFix(l) |->
                        IF f \in ToFix(l) THEN tightness[l] ELSE allocation[f]]
  BY DEF FixFlowsOf
<1>2. ToFix(l) \cap DOMAIN allocation = {}
  BY DEF ToFix
<1> QED BY <1>1, <1>2

LEMMA IterationFlows ==
  ASSUME SolverType, NEW l \in DOMAIN tightness, FixFlowsOf(l)
  PROVE  /\ \A f, m : Crosses(f, m)' = Crosses(f, m)
         /\ \A m : Present(m)' = Present(m)
         /\ \A m : ToFix(m)' = ToFix(m) \ ToFix(l)
         /\ \A m : /\ Shared(l, m) \in Nat /\ Shared(l, m) <= Cardinality(ToFix(m))
                   /\ Cardinality(ToFix(m)') = Cardinality(ToFix(m)) - Shared(l, m)
<1>1. path' = path /\ DOMAIN allocation' = DOMAIN allocation \cup ToFix(l)
  BY IterationAllocates DEF FixFlowsOf, input
<1>2. \A f, m : Crosses(f, m)' = Crosses(f, m)
  BY <1>1 DEF Crosses, Hops
<1>3. \A m : Present(m)' = Present(m)
  BY <1>2 DEF Present
<1>4. \A m : ToFix(m)' = ToFix(m) \ ToFix(l)
  BY <1>1, <1>3 DEF ToFix
<1>5. ASSUME NEW m
      PROVE  /\ Shared(l, m) \in Nat /\ Shared(l, m) <= Cardinality(ToFix(m))
             /\ Cardinality(ToFix(m)') = Cardinality(ToFix(m)) - Shared(l, m)
  <2>1. IsFiniteSet(ToFix(m)) /\ ToFix(m) \cap ToFix(l) \in SUBSET Flow
    BY FlowSets
  <2>2. Shared(l, m) \in Nat /\ Shared(l, m) <= Cardinality(ToFix(m))
    BY <2>1, FlowSets, FS_Subset DEF Shared
  <2>3. Cardinality(ToFix(m) \ ToFix(l)) = Cardinality(ToFix(m)) - Shared(l, m)
    BY <2>1, FS_Difference DEF Shared
  <2> QED BY <1>4, <2>2, <2>3
<1> QED BY <1>2, <1>3, <1>4, <1>5

LEMMA IterationLoads ==
  ASSUME SolverType, NEW l \in DOMAIN tightness, tightness[l] \in Nat, FixFlowsOf(l), NEW m
  PROVE  Load(m)' = Load(m) + tightness[l] * Shared(l, m) /\ Load(m) \in Nat
<1> DEFINE A == Present(m) \cap DOMAIN allocation
           B == ToFix(m) \cap ToFix(l)
           t == tightness[l]
<1>1. A \in SUBSET Flow /\ B \in SUBSET Flow
  BY FlowSets
<1>2. IsFiniteSet(A) /\ IsFiniteSet(B) /\ A \cap B = {}
  BY <1>1, FlowSets DEF ToFix
<1>3. Present(m)' \cap DOMAIN allocation' = A \cup B
  BY IterationFlows, IterationAllocates DEF ToFix
<1>4. Load(m)' = SumFunctionOnSet(allocation', A \cup B)
  BY <1>3 DEF Load
<1>5. \A f \in A : allocation'[f] = allocation[f] /\ allocation[f] \in Nat
  BY IterationAllocates DEF SolverType
<1>6. \A f \in B : allocation'[f] = t
  BY IterationAllocates
<1>7. Load(m) = SumFunctionOnSet(allocation, A) /\ Shared(l, m) = Cardinality(B)
  BY DEF Load, Shared
<1> HIDE DEF A, B, t
<1>8. t \in Nat /\ \A f \in A \cup B : allocation'[f] \in Nat
  <2>1. t \in Nat
    BY DEF t
  <2> QED BY <1>5, <1>6, <2>1
<1>9. SumFunctionOnSet(allocation', A \cup B) =
        SumFunctionOnSet(allocation', A) + SumFunctionOnSet(allocation', B)
  BY <1>2, <1>8, SumSplit
<1>10. SumFunctionOnSet(allocation', A) = SumFunctionOnSet(allocation, A)
  BY <1>2, <1>5, SumSame
<1>11. SumFunctionOnSet(allocation', B) = t * Cardinality(B)
  BY <1>2, <1>6, <1>8, SumConstant
<1>12. SumFunctionOnSet(allocation, A) \in Nat
  BY <1>2, <1>5, SumType
<1> QED BY <1>4, <1>7, <1>9, <1>10, <1>11, <1>12 DEF t

(* The flows that are fixed no longer take part in the units.                *)
LEMMA IterationUnits ==
  ASSUME SolverInv, NEW l \in DOMAIN tightness, FixFlowsOf(l)
  PROVE  /\ Cardinality(Unfixed) \in 1 .. Cardinality(Flow)
         /\ Cardinality(Unfixed') \in 0 .. Cardinality(Unfixed) - 1
         /\ Cardinality(ToFix(l)) \in 1 .. Cardinality(Unfixed)
         /\ \A m : Cardinality(ToFix(m)') \in 0 .. Cardinality(Unfixed')
<1> DEFINE X == ToFix(l)
<1>1. SolverType /\ X # {}
  BY DEF SolverInv, TightnessExact
<1>2. X \in SUBSET Unfixed /\ Unfixed \in SUBSET Flow
  BY <1>1, FlowSets DEF Unfixed, ToFix
<1>3. Unfixed' = Unfixed \ X
  BY <1>1, IterationAllocates DEF Unfixed
<1>4. \A m : ToFix(m)' \in SUBSET Unfixed'
  <2> TAKE m
  <2>1. ToFix(m)' = ToFix(m) \ X /\ ToFix(m) \in SUBSET Unfixed
    BY <1>1, FlowSets, IterationFlows DEF Unfixed, ToFix
  <2> QED BY <1>3, <2>1
<1> HIDE DEF X
<1>5. /\ IsFiniteSet(Unfixed) /\ Cardinality(Unfixed) \in Nat /\ Cardinality(X) \in Nat
      /\ Cardinality(Unfixed) <= Cardinality(Flow) /\ Cardinality(X) # 0
      /\ Cardinality(Flow) \in Nat
  <2>1. X \in SUBSET Flow
    BY <1>2
  <2> QED BY <1>1, <1>2, <2>1, FlowSets
<1>6. Cardinality(X) <= Cardinality(Unfixed)
  BY <1>2, <1>5, FS_Subset
<1>7. Cardinality(Unfixed') = Cardinality(Unfixed) - Cardinality(X) /\ IsFiniteSet(Unfixed')
  <2>1. Unfixed \cap X = X
    BY <1>2
  <2> QED BY <1>3, <1>5, <2>1, FS_Difference
<1>8. \A m : Cardinality(ToFix(m)') \in Nat /\ Cardinality(ToFix(m)') <= Cardinality(Unfixed')
  <2> TAKE m
  <2>1. IsFiniteSet(ToFix(m)')
    BY <1>4, <1>7, FS_Subset
  <2> QED BY <1>4, <1>7, <2>1, FS_Subset, FS_CardinalityType
<1>9. Cardinality(Unfixed') \in Nat
  BY <1>7, FS_CardinalityType
<1>10. Cardinality(X) \in 1 .. Cardinality(Unfixed) /\ Cardinality(Unfixed') \in 0 .. Cardinality(Unfixed) - 1
       /\ Cardinality(Unfixed) \in 1 .. Cardinality(Flow)
  BY <1>5, <1>6, <1>7, <1>9
<1>11. \A m : Cardinality(ToFix(m)') \in 0 .. Cardinality(Unfixed')
  BY <1>8, <1>9
<1> QED BY <1>10, <1>11 DEF X

(* The tightness is a multiple of what the flows left to fix need.           *)
LEMMA IterationTightness ==
  ASSUME SolverInv, NEW l \in DOMAIN tightness, FixFlowsOf(l)
  PROVE  /\ l \in Link /\ tightness[l] \in Nat \ {0}
         /\ Grain[Cardinality(Unfixed')] \in Nat \ {0}
         /\ Multiple(tightness[l], Grain[Cardinality(Unfixed')])
         /\ Multiple(Grain[Cardinality(Unfixed)], Grain[Cardinality(Unfixed')])
         /\ \A j \in 1 .. Cardinality(Unfixed') :
              Multiple(Grain[Cardinality(Unfixed')], j * Grain[0]) /\ Grain[0] \in Nat \ {0}
<1> DEFINE t == tightness[l]
           x == Cardinality(ToFix(l))
           u == Cardinality(Unfixed)
           v == Cardinality(Unfixed')
           n == Cardinality(Flow)
<1>1. l \in Link /\ t \in Nat \ {0} /\ t * x = remainder[l] /\ remainder[l] \in Nat
      /\ Multiple(remainder[l], Grain[u])
  BY DEF SolverInv, SolverType, TightnessExact, Balanced
<1>2. u \in 1 .. n /\ v \in 0 .. u - 1 /\ x \in 1 .. u /\ n \in Nat
  BY IterationUnits, FlowSets
<1>3. \A w \in 0 .. n : Grain[w] \in Nat \ {0}
  BY GrainAssumption
<1>4. \A a \in 1 .. n : \A b \in 0 .. a - 1 : \A j \in 1 .. a : Multiple(Grain[a], j * Grain[b])
  BY GrainAssumption
<1> HIDE DEF t, x, u, v, n
<1>5. Grain[u] \in Nat \ {0} /\ Grain[v] \in Nat \ {0} /\ Grain[0] \in Nat \ {0}
  BY <1>2, <1>3
<1>6. Multiple(Grain[u], x * Grain[v]) /\ x * Grain[v] \in Nat \ {0}
  <2>1. x * Grain[v] \in Nat \ {0}
    BY <1>2, <1>5
  <2> QED BY <1>2, <1>4, <2>1
<1>7. Multiple(remainder[l], x * Grain[v])
  BY <1>1, <1>5, <1>6, MultiplesChain
<1>8. Multiple(t, Grain[v])
  <2>1. x \in Nat \ {0}
    BY <1>2
  <2> QED BY <1>1, <1>5, <1>7, <2>1, DivisionExact
<1>9. Multiple(Grain[u], Grain[v])
  <2>1. 1 \in 1 .. u /\ 1 * Grain[v] = Grain[v]
    BY <1>2, <1>5
  <2> QED BY <1>2, <1>4, <2>1
<1>10. \A j \in 1 .. v : Multiple(Grain[v], j * Grain[0])
  <2> TAKE j \in 1 .. v
  <2>1. v \in 1 .. n /\ 0 \in 0 .. v - 1
    BY <1>2
  <2> QED BY <1>4, <2>1
<1> QED BY <1>1, <1>5, <1>8, <1>9, <1>10 DEF t, u, v

(* What an iteration leaves of a link: at least its tightness for each flow  *)
(* still to fix.                                                             *)
LEMMA IterationRemainder ==
  ASSUME SolverInv, NEW l \in DOMAIN tightness, Lowest(l), FixFlowsOf(l), NEW m \in Link
  PROVE  /\ remainder'[m] = remainder[m] - tightness[l] * Shared(l, m)
         /\ remainder'[m] \in Nat
         /\ remainder'[m] >= tightness[l] * Cardinality(ToFix(m)')
         /\ Multiple(remainder'[m], Grain[Cardinality(Unfixed')])
         /\ numFixed'[m] = numFixed[m] + Shared(l, m) /\ numFixed'[m] \in Nat
<1> DEFINE t == tightness[l]
           k == Shared(l, m)
           p == Cardinality(ToFix(m))
           r == remainder[m]
<1>1. t \in Nat \ {0} /\ k \in Nat /\ k <= p /\ p \in Nat /\ r \in Nat /\ numFixed[m] \in Nat
      /\ Cardinality(ToFix(m)') = p - k
  <2>1. SolverType
    BY DEF SolverInv
  <2>2. t \in Nat \ {0}
    BY DEF SolverInv, TightnessExact
  <2>3. k \in Nat /\ k <= p /\ Cardinality(ToFix(m)') = p - k
    BY <2>1, IterationFlows
  <2>4. p \in Nat
    BY FlowSets
  <2>5. r \in Nat /\ numFixed[m] \in Nat
    BY <2>1 DEF SolverType
  <2> QED BY <2>2, <2>3, <2>4, <2>5
<1>2. remainder'[m] = r - t * k /\ numFixed'[m] = numFixed[m] + k
  BY FixedHopsAreShared DEF SolverInv, FixFlowsOf, Deduct
<1>3. t * p <= r
  <2>1. CASE ToFix(m) = {}
    <3>1. p = 0 /\ t * p = 0
      BY <1>1, <2>1, FS_EmptySet
    <3> QED BY <1>1, <3>1
  <2>2. CASE ToFix(m) # {}
    <3>1. m \in DOMAIN tightness /\ tightness[m] * p = r /\ tightness[m] \in Nat
      BY <2>2 DEF SolverInv, TightnessExact
    <3>2. t <= tightness[m]
      BY <1>1, <3>1 DEF Lowest, Precedes
    <3> HIDE DEF t, p, r
    <3>3. t * p <= tightness[m] * p
      BY <1>1, <3>1, <3>2
    <3> QED BY <3>1, <3>3
  <2> QED BY <2>1, <2>2
<1>4. Multiple(r, Grain[Cardinality(Unfixed)])
  BY DEF SolverInv, Balanced
<1>5. /\ Grain[Cardinality(Unfixed)] \in Nat \ {0} /\ Grain[Cardinality(Unfixed')] \in Nat \ {0}
      /\ Multiple(Grain[Cardinality(Unfixed)], Grain[Cardinality(Unfixed')])
      /\ Multiple(t, Grain[Cardinality(Unfixed')])
  <2>1. Cardinality(Unfixed) \in 0 .. Cardinality(Flow)
    BY IterationUnits, FlowSets
  <2>2. Grain[Cardinality(Unfixed)] \in Nat \ {0}
    BY <2>1, GrainAssumption
  <2> QED BY <2>2, IterationTightness
<1> HIDE DEF t, k, p, r
<1>6. t * k \in Nat /\ t * k <= t * p /\ r - t * k >= t * (p - k)
  <2>1. t * p = t * k + t * (p - k) /\ t * (p - k) >= 0 /\ t * k \in Nat /\ t * p \in Nat
        /\ t * (p - k) \in Nat
    BY <1>1
  <2> QED BY <1>1, <1>3, <2>1
<1>7. r - t * k \in Nat /\ t * k <= r
  <2>1. t * p \in Nat
    BY <1>1
  <2> QED BY <1>1, <1>3, <1>6, <2>1
<1>8. Multiple(r, Grain[Cardinality(Unfixed')])
  BY <1>1, <1>4, <1>5, MultiplesChain
<1>9. Multiple(t * k, Grain[Cardinality(Unfixed')])
  BY <1>1, <1>5, MultiplesTake
<1>10. Multiple(r - t * k, Grain[Cardinality(Unfixed')])
  BY <1>1, <1>5, <1>6, <1>7, <1>8, <1>9, MultiplesSubtract
<1>11. numFixed[m] + k \in Nat
  BY <1>1
<1> QED BY <1>1, <1>2, <1>6, <1>7, <1>10, <1>11 DEF t, k, r

(* The new list: the links with flows left, each at its exact tightness,     *)
(* which is no lower than that of the link just dealt with.                  *)
LEMMA IterationRetightens ==
  ASSUME SolverInv, NEW l \in DOMAIN tightness, Lowest(l), FixFlowsOf(l)
  PROVE  /\ DOMAIN tightness' = {m \in Link : ToFix(m)' # {}}
         /\ \A m \in DOMAIN tightness' :
              /\ tightness'[m] \in Nat \ {0}
              /\ tightness'[m] * Cardinality(ToFix(m)') = remainder'[m]
              /\ tightness[l] <= tightness'[m]
<1>1. SolverType /\ DOMAIN tightness = {m \in Link : ToFix(m) # {}}
  BY DEF SolverInv, TightnessExact
<1>2. ASSUME NEW m \in Link
      PROVE  numFixed'[m] # Cardinality(Present(m)) <=> ToFix(m)' # {}
  <2>1. /\ numFixed[m] \in Nat /\ Cardinality(ToFix(m)) \in Nat /\ Shared(l, m) \in Nat
        /\ Shared(l, m) <= Cardinality(ToFix(m))
        /\ Cardinality(ToFix(m)') = Cardinality(ToFix(m)) - Shared(l, m)
        /\ numFixed'[m] = numFixed[m] + Shared(l, m)
    BY <1>1, FlowSets, IterationFlows, IterationRemainder DEF SolverType
  <2>2. numFixed[m] + Cardinality(ToFix(m)) = Cardinality(Present(m))
    BY DEF SolverInv, Balanced
  <2>3. ToFix(m)' \in SUBSET Flow
    BY <1>1, FlowSets, IterationFlows
  <2>4. Cardinality(ToFix(m)') # 0 <=> ToFix(m)' # {}
    BY <2>3, FlowSets, FS_EmptySet
  <2>5. numFixed'[m] # Cardinality(Present(m)) <=> Cardinality(ToFix(m)') # 0
    BY <2>1, <2>2
  <2> QED BY <2>4, <2>5
<1>3. DOMAIN tightness' = {m \in DOMAIN tightness : numFixed'[m] # Cardinality(Present(m))}
  BY DEF FixFlowsOf, Retighten
<1>4. DOMAIN tightness' = {m \in Link : ToFix(m)' # {}}
  <2>1. \A m \in Link : ToFix(m)' # {} => m \in DOMAIN tightness
    BY <1>1, IterationFlows
  <2> QED BY <1>1, <1>2, <1>3, <2>1
<1>5. ASSUME NEW m \in DOMAIN tightness'
      PROVE  /\ tightness'[m] \in Nat \ {0}
             /\ tightness'[m] * Cardinality(ToFix(m)') = remainder'[m]
             /\ tightness[l] <= tightness'[m]
  <2> DEFINE r == remainder'[m]
             j == Cardinality(ToFix(m)')
             z == tightness'[m]
             t == tightness[l]
  <2>1. m \in Link /\ m \in DOMAIN tightness /\ ToFix(m)' # {}
    BY <1>1, <1>3, <1>4
  <2>2. j \in 1 .. Cardinality(Unfixed') /\ j \in Nat \ {0}
    <3>1. j \in 0 .. Cardinality(Unfixed') /\ Cardinality(Unfixed') \in Nat
      BY IterationUnits
    <3>2. j # 0
      BY <1>1, <2>1, FlowSets, IterationFlows
    <3> QED BY <3>1, <3>2
  <2>3. r \in Nat /\ r >= t * j /\ t \in Nat \ {0} /\ Multiple(r, Grain[Cardinality(Unfixed')])
    BY <2>1, IterationRemainder, IterationTightness
  <2>4. z \in Nat /\ z * j = r
    <3>1. CASE \E f \in ToFix(l) : Crosses(f, m)
      <4>1. z = r \div (Cardinality(Present(m)) - numFixed'[m])
        BY <3>1 DEF FixFlowsOf, Retighten, Tightness
      <4>2. Cardinality(Present(m)) - numFixed'[m] = j
        <5>1. /\ numFixed[m] \in Nat /\ Cardinality(ToFix(m)) \in Nat /\ Shared(l, m) \in Nat
              /\ j = Cardinality(ToFix(m)) - Shared(l, m)
              /\ numFixed'[m] = numFixed[m] + Shared(l, m)
          BY <1>1, <2>1, FlowSets, IterationFlows, IterationRemainder DEF SolverType
        <5>2. numFixed[m] + Cardinality(ToFix(m)) = Cardinality(Present(m))
          BY <2>1 DEF SolverInv, Balanced
        <5> HIDE DEF j
        <5> QED BY <5>1, <5>2
      <4>3. /\ Grain[Cardinality(Unfixed')] \in Nat \ {0} /\ Grain[0] \in Nat \ {0}
            /\ Multiple(Grain[Cardinality(Unfixed')], j * Grain[0])
        BY <2>2, IterationTightness
      <4> HIDE DEF r, j, z, t
      <4>4. j * Grain[0] \in Nat \ {0}
        BY <2>2, <4>3
      <4>5. Multiple(r, j * Grain[0])
        BY <2>3, <4>3, <4>4, MultiplesChain
      <4>6. r \div j \in Nat /\ (r \div j) * j = r
        BY <2>2, <2>3, <4>3, <4>5, DivisionExact
      <4> QED BY <4>1, <4>2, <4>6
    <3>2. CASE ~ \E f \in ToFix(l) : Crosses(f, m)
      <4>1. ToFix(m) \cap ToFix(l) = {}
        BY <3>2 DEF ToFix, Present
      <4>2. Shared(l, m) = 0
        BY <4>1, FS_EmptySet DEF Shared
      <4>3. z = tightness[m]
        BY <3>2 DEF FixFlowsOf, Retighten
      <4>4. z \in Nat /\ z * Cardinality(ToFix(m)) = remainder[m] /\ remainder[m] \in Nat
        BY <2>1, <4>3 DEF SolverInv, SolverType, TightnessExact
      <4>5. j = Cardinality(ToFix(m)) /\ r = remainder[m]
        <5>1. j = Cardinality(ToFix(m)) - 0 /\ Cardinality(ToFix(m)) \in Nat
          BY <1>1, <4>2, FlowSets, IterationFlows
        <5>2. r = remainder[m] - t * 0
          BY <2>1, <4>2, IterationRemainder
        <5> HIDE DEF j, r, t
        <5> QED BY <2>3, <4>4, <5>1, <5>2
      <4> QED BY <4>4, <4>5
    <3> QED BY <3>1, <3>2
  <2> HIDE DEF r, j, z, t
  <2>5. t <= z
    <3>1. ASSUME z < t PROVE FALSE
      <4>1. (t - z) * j >= 1 /\ (t - z) * j = t * j - z * j
        BY <2>2, <2>3, <2>4, <3>1
      <4>2. t * j \in Int /\ z * j \in Int
        BY <2>2, <2>3, <2>4
      <4> QED BY <2>3, <2>4, <4>1, <4>2
    <3> QED BY <2>3, <2>4, <3>1
  <2>6. z # 0
    BY <2>3, <2>4, <2>5
  <2> QED BY <2>4, <2>5, <2>6 DEF r, j, z, t
<1> QED BY <1>4, <1>5

LEMMA IterationPreserves ==
  ASSUME SolverInv, NEW l \in DOMAIN tightness, Lowest(l), FixFlowsOf(l)
  PROVE  SolverInv'
<1> DEFINE t == tightness[l]
<1>1. SolverType /\ Balanced /\ TightnessExact /\ Rising /\ capacity' = capacity /\ path' = path
  BY DEF SolverInv, FixFlowsOf, input
<1>2. l \in Link /\ t \in Nat \ {0}
  BY IterationTightness
<1>3. /\ \A f, m : Crosses(f, m)' = Crosses(f, m)
      /\ \A m : Present(m)' = Present(m)
      /\ \A m : ToFix(m)' = ToFix(m) \ ToFix(l)
  BY <1>1, IterationFlows
<1>4. /\ DOMAIN allocation' = DOMAIN allocation \cup ToFix(l)
      /\ \A f \in ToFix(l) : allocation'[f] = t
      /\ \A f \in DOMAIN allocation : allocation'[f] = allocation[f]
  BY <1>1, IterationAllocates
<1>5. \A m \in Link : /\ Load(m)' = Load(m) + t * Shared(l, m) /\ Load(m) \in Nat
                      /\ remainder'[m] = remainder[m] - t * Shared(l, m)
                      /\ remainder'[m] \in Nat /\ numFixed'[m] \in Nat
                      /\ numFixed'[m] = numFixed[m] + Shared(l, m)
                      /\ Multiple(remainder'[m], Grain[Cardinality(Unfixed')])
  BY <1>1, <1>2, IterationLoads, IterationRemainder
<1>6. \A m : /\ Shared(l, m) \in Nat
             /\ Cardinality(ToFix(m)') = Cardinality(ToFix(m)) - Shared(l, m)
  BY <1>1, IterationFlows
<1>7. SolverType'
  <2>1. remainder' \in [Link -> Nat] /\ numFixed' \in [Link -> Nat]
    <3>1. remainder' = [m \in Link |-> remainder'[m]] /\ numFixed' = [m \in Link |-> numFixed'[m]]
      BY DEF FixFlowsOf, Deduct
    <3> QED BY <1>5, <3>1
  <2>2. DOMAIN allocation' \subseteq Flow
    BY <1>1, <1>4, FlowSets DEF SolverType
  <2>3. \A f \in DOMAIN allocation' : allocation'[f] \in Nat
    BY <1>1, <1>2, <1>4 DEF SolverType
  <2> QED BY <1>1, <2>1, <2>2, <2>3 DEF SolverType
<1>8. Balanced'
  <2> SUFFICES ASSUME NEW m \in Link
               PROVE  /\ numFixed'[m] + Cardinality(ToFix(m)') = Cardinality(Present(m)')
                      /\ remainder'[m] + Load(m)' = capacity'[m]
                      /\ Multiple(remainder'[m], Grain[Cardinality(Unfixed')])
    BY DEF Balanced
  <2>1. /\ remainder[m] \in Nat /\ numFixed[m] \in Nat /\ Cardinality(ToFix(m)) \in Nat
        /\ t * Shared(l, m) \in Nat
    BY <1>1, <1>2, <1>6, FlowSets DEF SolverType
  <2>2. numFixed[m] + Cardinality(ToFix(m)) = Cardinality(Present(m)) /\ remainder[m] + Load(m) = capacity[m]
    BY <1>1 DEF Balanced
  <2>3. numFixed'[m] + Cardinality(ToFix(m)') = Cardinality(Present(m)')
    BY <1>3, <1>5, <1>6, <2>1, <2>2
  <2> HIDE DEF t
  <2>4. remainder'[m] + Load(m)' = capacity'[m]
    BY <1>1, <1>5, <2>1, <2>2
  <2> QED BY <1>5, <2>3, <2>4
<1>9. /\ TightnessExact'
      /\ \A m \in DOMAIN tightness' : tightness'[m] \in Nat /\ t <= tightness'[m]
  BY IterationRetightens DEF TightnessExact
<1>10. \A f \in DOMAIN allocation' : allocation'[f] \in Nat /\ allocation'[f] <= t
  BY <1>1, <1>2, <1>4 DEF Rising, SolverType
<1>11. Rising'
  <2> SUFFICES ASSUME NEW f \in DOMAIN allocation', NEW m \in DOMAIN tightness'
               PROVE  allocation'[f] <= tightness'[m]
    BY DEF Rising
  <2>1. /\ allocation'[f] \in Nat /\ allocation'[f] <= t
        /\ tightness'[m] \in Nat /\ t <= tightness'[m] /\ t \in Nat
    BY <1>2, <1>9, <1>10
  <2> HIDE DEF t
  <2> QED BY <2>1
(* Its link is now full, and the bottleneck of the flows it fixed.           *)
<1>12. ASSUME NEW f \in ToFix(l) PROVE Bottleneck(f, l)'
  <2>1. Crosses(f, l)' /\ ToFix(l)' = {}
    BY <1>3 DEF ToFix, Present
  <2>2. Load(l)' = capacity'[l]
    <3>1. t * Cardinality(ToFix(l)) = remainder[l] /\ remainder[l] \in Nat
      BY <1>1 DEF TightnessExact, SolverType
    <3>2. Shared(l, l) = Cardinality(ToFix(l))
      <4>1. ToFix(l) \cap ToFix(l) = ToFix(l)
        OBVIOUS
      <4> QED BY <4>1 DEF Shared
    <3>3. remainder'[l] + Load(l)' = capacity'[l] /\ remainder'[l] = remainder[l] - t * Shared(l, l)
      BY <1>2, <1>5, <1>8 DEF Balanced
    <3>4. capacity'[l] \in Nat
      BY <1>1, <1>2, InputAssumption DEF SolverType
    <3>5. Load(l)' \in Nat
      <4>1. t * Shared(l, l) \in Nat
        BY <3>1, <3>2
      <4> HIDE DEF t
      <4> QED BY <1>2, <1>5, <4>1
    <3>6. remainder'[l] = 0
      BY <3>1, <3>2, <3>3
    <3> QED BY <3>3, <3>4, <3>5, <3>6
  <2>3. \A g \in Present(l)' : allocation'[g] <= allocation'[f]
    <3>1. Present(l)' \subseteq DOMAIN allocation'
      BY <1>3, <1>4 DEF ToFix
    <3>2. allocation'[f] = t
      BY <1>4
    <3> QED BY <1>10, <3>1, <3>2
  <2> QED BY <2>1, <2>2, <2>3 DEF Bottleneck
(* A bottleneck of before has no flows to fix, so nothing on it changes.     *)
<1>13. ASSUME NEW f \in DOMAIN allocation, NEW b \in Link, Bottleneck(f, b)
       PROVE  Bottleneck(f, b)'
  <2>1. Crosses(f, b)' /\ ToFix(b)' = {}
    BY <1>3, <1>13 DEF Bottleneck
  <2>2. Load(b)' = capacity'[b]
    <3>1. ToFix(b) \cap ToFix(l) = {}
      BY <1>13 DEF Bottleneck
    <3>2. Shared(l, b) = 0
      BY <3>1, FS_EmptySet DEF Shared
    <3>3. Load(b)' = Load(b) + t * 0 /\ Load(b) \in Nat /\ Load(b) = capacity[b]
      BY <1>5, <1>13, <3>2 DEF Bottleneck
    <3> QED BY <1>1, <1>2, <3>3
  <2>3. \A g \in Present(b)' : allocation'[g] <= allocation'[f]
    <3>1. Present(b) \subseteq DOMAIN allocation
      BY <1>13 DEF Bottleneck, ToFix
    <3> QED BY <1>3, <1>4, <1>13, <3>1 DEF Bottleneck
  <2> QED BY <2>1, <2>2, <2>3 DEF Bottleneck
<1>14. \A f \in DOMAIN allocation' : \E b \in Link : Bottleneck(f, b)'
  <2> TAKE f \in DOMAIN allocation'
  <2>1. CASE f \in ToFix(l)
    BY <1>2, <1>12, <2>1
  <2>2. CASE f \in DOMAIN allocation
    <3>1. PICK b \in Link : Bottleneck(f, b)
      BY <2>2 DEF SolverInv
    <3> QED BY <1>13, <2>2, <3>1
  <2> QED BY <1>4, <2>1, <2>2
<1> QED BY <1>7, <1>8, <1>9, <1>11, <1>14 DEF SolverInv

(* For any graph, capacities, flows and paths, between any two iterations of *)
(* solve_mmfa.py: every link's capacity is accounted for, its tightness is   *)
(* exact and rises, and every fixed flow has a bottleneck.                   *)
THEOREM SolverInductive == SolverSpec => []SolverInv
<1>1. SolverInit => SolverInv
  BY SolverInitEstablishes
<1>2. SolverInv /\ [FixTightest]_solution => SolverInv'
  <2> SUFFICES ASSUME SolverInv, [FixTightest]_solution PROVE SolverInv'
    OBVIOUS
  <2>1. CASE FixTightest
    <3>1. PICK l \in DOMAIN tightness : Lowest(l) /\ FixFlowsOf(l)
      BY <2>1 DEF FixTightest
    <3> QED BY <3>1, IterationPreserves
  <2>2. CASE UNCHANGED solution
    <3>1. /\ capacity' = capacity /\ path' = path /\ remainder' = remainder
          /\ numFixed' = numFixed /\ tightness' = tightness /\ allocation' = allocation
      BY <2>2 DEF solution, input
    <3>2. \A f, l : Crosses(f, l)' = Crosses(f, l)
      BY <3>1 DEF Crosses, Hops
    <3>3. \A l : Present(l)' = Present(l)
      BY <3>2 DEF Present
    <3>4. \A l : ToFix(l)' = ToFix(l) /\ Load(l)' = Load(l)
      BY <3>1, <3>3 DEF ToFix, Load
    <3>5. \A f, l : Bottleneck(f, l)' = Bottleneck(f, l)
      BY <3>1, <3>2, <3>3, <3>4 DEF Bottleneck
    <3>6. SolverType'
      BY <3>1 DEF SolverInv, SolverType
    <3>7. Balanced'
      <4>1. Unfixed' = Unfixed
        BY <3>1 DEF Unfixed
      <4> QED BY <3>1, <3>3, <3>4, <4>1 DEF SolverInv, Balanced
    <3>8. TightnessExact' /\ Rising'
      BY <3>1, <3>4 DEF SolverInv, TightnessExact, Rising
    <3> QED BY <3>1, <3>5, <3>6, <3>7, <3>8 DEF SolverInv
  <2> QED BY <2>1, <2>2
<1> QED BY <1>1, <1>2, PTL DEF SolverSpec

(* After every iteration a link's remainder is its capacity less what the    *)
(* fixed flows take of it, and what is left is enough for the others:        *)
(* calculate_tightness never raises.                                         *)
THEOREM RemaindersExact == SolverSpec => []RemainderExact
<1>1. SolverInv => RemainderExact
  <2> SUFFICES ASSUME SolverInv, NEW l \in Link
               PROVE  /\ remainder[l] + Load(l) = capacity[l] /\ remainder[l] \in Nat
                      /\ l \in DOMAIN tightness =>
                           /\ tightness[l] > 0
                           /\ tightness[l] * (Cardinality(Present(l)) - numFixed[l]) = remainder[l]
    BY DEF RemainderExact
  <2>1. remainder[l] + Load(l) = capacity[l] /\ remainder[l] \in Nat /\ numFixed[l] \in Nat
    BY DEF SolverInv, SolverType, Balanced
  <2>2. Cardinality(Present(l)) - numFixed[l] = Cardinality(ToFix(l))
    <3>1. numFixed[l] + Cardinality(ToFix(l)) = Cardinality(Present(l)) /\ Cardinality(ToFix(l)) \in Nat
      BY FlowSets DEF SolverInv, Balanced
    <3> QED BY <2>1, <3>1
  <2>3. l \in DOMAIN tightness => /\ tightness[l] \in Nat \ {0}
                                  /\ tightness[l] * Cardinality(ToFix(l)) = remainder[l]
    BY DEF SolverInv, TightnessExact
  <2> QED BY <2>1, <2>2, <2>3
<1> QED BY <1>1, SolverInductive, PTL

(* When no link is listed any more, every flow is fixed and crosses a full   *)
(* link on which no flow has more: the allocation is max-min fair.           *)
THEOREM AllocationFair == SolverSpec => []MaxMinFair
<1>1. SolverInv => MaxMinFair
  <2> SUFFICES ASSUME SolverInv, Done
               PROVE  /\ DOMAIN allocation = Flow
                      /\ \A f \in Flow : \E l \in Link :
                           /\ Crosses(f, l)
                           /\ Load(l) = capacity[l]
                           /\ \A g \in Present(l) : allocation[g] <= allocation[f]
    BY DEF MaxMinFair
  <2>1. ASSUME NEW f \in Flow PROVE f \in DOMAIN allocation
    <3>1. PICK l \in Link : Crosses(f, l)
      BY FlowsCross DEF SolverInv
    <3>2. ToFix(l) = {}
      BY DEF SolverInv, TightnessExact, Done
    <3> QED BY <3>1, <3>2 DEF ToFix, Present
  <2>2. DOMAIN allocation = Flow
    BY <2>1 DEF SolverInv, SolverType
  <2>3. \A f \in DOMAIN allocation : \E l \in Link : Bottleneck(f, l)
    BY DEF SolverInv
  <2> QED BY <2>2, <2>3 DEF Bottleneck
<1> QED BY <1>1, SolverInductive, PTL
=============================================================================
