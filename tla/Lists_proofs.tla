---------------------------- MODULE Lists_proofs ----------------------------
(***************************************************************************)
(* What the loops over data that the models use compute: a filtered        *)
(* schedule is the complete one at strictly increasing places, at exactly  *)
(* those whose entry is kept; sequences put one after the other; sums.     *)
(***************************************************************************)
EXTENDS Filter, SequencesExt, SequenceTheorems, FiniteSetTheorems, WellFoundedInduction, TLAPS

(* Induction over numbers, by the smallest counterexample.                   *)
LEMMA SmallestExists ==
  ASSUME NEW T \in SUBSET Nat, T # {}
  PROVE  \E n \in T : \A m \in T : n <= m
<1> DEFINE R == OpToRel(<, Nat)
<1>1. IsWellFoundedOn(R, Nat)
  BY NatLessThanWellFounded
<1> HIDE DEF R
<1>2. PICK n \in T : \A m \in T : ~ (<<m, n>> \in R)
  BY <1>1, WFMin
<1>3. \A m \in T : ~ (m < n)
  BY <1>2 DEF R, OpToRel
<1> QED BY <1>3

(* What the recursive function of Kept, up to n, satisfies.                   *)
KeptSolves(f, seq, keep, n) ==
  f = [k \in 0 .. n |->
         IF k = 0 THEN <<>>
         ELSE IF seq[k] \in keep THEN Append(f[k - 1], seq[k]) ELSE f[k - 1]]

(* There is one.                                                             *)
LEMMA KeptRecursion ==
  ASSUME NEW seq, NEW keep, NEW n \in Nat
  PROVE  \E f : KeptSolves(f, seq, keep, n)
<1> DEFINE Bad == {k \in Nat : ~ \E f : KeptSolves(f, seq, keep, k)}
<1>1. SUFFICES ASSUME Bad # {} PROVE FALSE
  OBVIOUS
<1>2. PICK b \in Bad : \A m \in Bad : b <= m
  BY <1>1, SmallestExists
<1>3. b # 0
  <2> DEFINE g == [k \in 0 .. 0 |-> <<>>]
  <2>1. KeptSolves(g, seq, keep, 0)
    BY DEF KeptSolves
  <2> QED BY <2>1
<1>4. b \in Nat /\ b - 1 \in Nat /\ b - 1 \notin Bad
  BY <1>2, <1>3
<1>5. PICK f : KeptSolves(f, seq, keep, b - 1)
  BY <1>4
<1> DEFINE next == IF seq[b] \in keep THEN Append(f[b - 1], seq[b]) ELSE f[b - 1]
           g == [k \in 0 .. b |-> IF k = b THEN next ELSE f[k]]
<1> HIDE DEF next
<1>6. \A k \in 0 .. b - 1 : g[k] = f[k]
  BY <1>4
<1>7. g[b] = next
  OBVIOUS
<1> HIDE DEF Bad
<1>8. \A k \in 0 .. b : g[k] = IF k = 0 THEN <<>>
                              ELSE IF seq[k] \in keep THEN Append(g[k - 1], seq[k]) ELSE g[k - 1]
  <2> TAKE k \in 0 .. b
  <2>1. CASE k = b
    BY <2>1, <1>3, <1>4, <1>6, <1>7 DEF next, Bad
  <2>2. CASE k # b
    <3>1. k \in 0 .. b - 1 /\ (k # 0 => k - 1 \in 0 .. b - 1)
      BY <2>2, <1>4
    <3>2. f[k] = IF k = 0 THEN <<>>
                 ELSE IF seq[k] \in keep THEN Append(f[k - 1], seq[k]) ELSE f[k - 1]
      BY <3>1, <1>5 DEF KeptSolves
    <3> QED BY <3>1, <3>2, <1>6
  <2> QED BY <2>1, <2>2
<1>9. KeptSolves(g, seq, keep, b)
  BY <1>8 DEF KeptSolves
<1> QED BY <1>9, <1>2 DEF Bad

(* out holds, in order, the kept ones of the first k elements of seq: h says  *)
(* where in seq an element of out comes from.                                *)
Embeds(h, out, seq, keep, k) ==
  /\ h \in [1 .. Len(out) -> 1 .. k]
  /\ \A i, j \in 1 .. Len(out) : i < j => h[i] < h[j]
  /\ \A i \in 1 .. Len(out) : out[i] = seq[h[i]] /\ seq[h[i]] \in keep
  /\ \A i \in 1 .. k : seq[i] \in keep => \E j \in 1 .. Len(out) : h[j] = i

(* One round of the loop.                                                    *)
LEMMA EmbedsNext ==
  ASSUME NEW S, NEW seq \in Seq(S), NEW keep, NEW k \in 1 .. Len(seq),
         NEW out \in Seq(S), NEW h, Embeds(h, out, seq, keep, k - 1)
  PROVE  \E g : Embeds(g, IF seq[k] \in keep THEN Append(out, seq[k]) ELSE out, seq, keep, k)
<1>0. Len(out) \in Nat /\ k \in Nat /\ seq[k] \in S
  OBVIOUS
<1>1. CASE seq[k] \notin keep
  <2>1. h \in [1 .. Len(out) -> 1 .. k]
    BY <1>0 DEF Embeds
  <2>2. \A i \in 1 .. k : seq[i] \in keep => i \in 1 .. k - 1
    BY <1>0, <1>1
  <2>3. Embeds(h, out, seq, keep, k)
    BY <2>1, <2>2 DEF Embeds
  <2> QED BY <1>1, <2>3
<1>2. CASE seq[k] \in keep
  <2> DEFINE new == Append(out, seq[k])
             last == Len(out) + 1
             g == [i \in 1 .. last |-> IF i = last THEN k ELSE h[i]]
  <2>1. new \in Seq(S) /\ Len(new) = last
    BY <1>0
  <2>2. \A i \in 1 .. last : new[i] = IF i = last THEN seq[k] ELSE out[i]
    BY <1>0
  <2>3. \A i \in 1 .. Len(out) : h[i] \in 1 .. k - 1
    BY DEF Embeds
  <2>4. g \in [1 .. last -> 1 .. k]
    BY <1>0, <2>3
  <2>5. \A i, j \in 1 .. last : i < j => g[i] < g[j]
    <3> SUFFICES ASSUME NEW i \in 1 .. last, NEW j \in 1 .. last, i < j
                 PROVE  g[i] < g[j]
      OBVIOUS
    <3>1. i \in 1 .. Len(out) /\ g[i] = h[i] /\ h[i] \in 1 .. k - 1
      BY <1>0, <2>3
    <3>2. CASE j = last
      BY <1>0, <3>1, <3>2
    <3>3. CASE j # last
      <4>1. j \in 1 .. Len(out) /\ g[j] = h[j]
        BY <1>0, <3>3
      <4> QED BY <3>1, <4>1 DEF Embeds
    <3> QED BY <3>2, <3>3
  <2>6. \A i \in 1 .. last : new[i] = seq[g[i]] /\ seq[g[i]] \in keep
    <3> HIDE DEF new
    <3> QED BY <1>0, <1>2, <2>2 DEF Embeds
  <2>7. \A i \in 1 .. k : seq[i] \in keep => \E j \in 1 .. last : g[j] = i
    <3> SUFFICES ASSUME NEW i \in 1 .. k, seq[i] \in keep
                 PROVE  \E j \in 1 .. last : g[j] = i
      OBVIOUS
    <3>1. CASE i = k
      BY <3>1, <1>0
    <3>2. CASE i # k
      <4>1. i \in 1 .. k - 1
        BY <3>2, <1>0
      <4>2. PICK j \in 1 .. Len(out) : h[j] = i
        BY <4>1 DEF Embeds
      <4>3. j \in 1 .. last /\ j # last
        BY <1>0
      <4> QED BY <4>2, <4>3
    <3> QED BY <3>1, <3>2
  <2>8. Embeds(g, new, seq, keep, k)
    <3> HIDE DEF new, g
    <3> QED BY <2>1, <2>4, <2>5, <2>6, <2>7 DEF Embeds
  <2> QED BY <1>2, <2>1, <2>8
<1> QED BY <1>1, <1>2

(* The loop as a whole: a filtered schedule embeds in the complete one.       *)
LEMMA KeptEmbeds ==
  ASSUME NEW S, NEW seq \in Seq(S), NEW keep
  PROVE  /\ Kept(seq, keep) \in Seq(S)
         /\ \E h : Embeds(h, Kept(seq, keep), seq, keep, Len(seq))
<1> DEFINE n == Len(seq)
           f == CHOOSE g : KeptSolves(g, seq, keep, n)
<1>1. n \in Nat
  OBVIOUS
<1>2. KeptSolves(f, seq, keep, n)
  BY <1>1, KeptRecursion
<1>3. Kept(seq, keep) = f[n]
  BY DEF Kept, KeptSolves
<1> HIDE DEF f
<1>4. f[0] = <<>> /\ \A k \in 1 .. n : f[k] = IF seq[k] \in keep THEN Append(f[k - 1], seq[k])
                                              ELSE f[k - 1]
  <2> HIDE DEF n
  <2>1. \A k \in 0 .. n : f[k] = IF k = 0 THEN <<>>
                                 ELSE IF seq[k] \in keep THEN Append(f[k - 1], seq[k])
                                 ELSE f[k - 1]
    BY <1>2 DEF KeptSolves
  <2>2. f[0] = <<>>
    BY <1>1, <2>1
  <2>3. ASSUME NEW k \in 1 .. n
        PROVE  f[k] = IF seq[k] \in keep THEN Append(f[k - 1], seq[k]) ELSE f[k - 1]
    <3>1. k \in 0 .. n /\ k # 0
      BY <1>1
    <3> QED BY <2>1, <3>1, Zenon
  <2> QED BY <2>2, <2>3, Zenon
<1> DEFINE Good(k) == f[k] \in Seq(S) /\ \E h : Embeds(h, f[k], seq, keep, k)
           Bad == {k \in 0 .. n : ~ Good(k)}
<1>5. Bad = {}
  <2>1. SUFFICES ASSUME Bad # {} PROVE FALSE
    OBVIOUS
  <2>2. PICK b \in Bad : \A m \in Bad : b <= m
    <3>1. Bad \in SUBSET Nat
      BY <1>1
    <3> HIDE DEF Bad
    <3> QED BY <2>1, <3>1, SmallestExists
  <2>3. b # 0
    <3>1. Embeds(<<>>, <<>>, seq, keep, 0)
      BY DEF Embeds
    <3>2. Good(0)
      BY <3>1, <1>4
    <3> QED BY <3>2
  <2>4. b \in 1 .. n /\ b - 1 \in 0 .. n /\ b - 1 \notin Bad
    BY <2>2, <2>3, <1>1
  <2>5. Good(b - 1)
    BY <2>4
  <2>6. PICK h : Embeds(h, f[b - 1], seq, keep, b - 1)
    BY <2>5
  <2>7. \E g : Embeds(g, f[b], seq, keep, b)
    <3> HIDE DEF n
    <3>1. b \in 1 .. Len(seq) /\ f[b - 1] \in Seq(S)
      BY <2>4, <2>5 DEF n
    <3> HIDE DEF Bad
    <3>2. \E g : Embeds(g, IF seq[b] \in keep THEN Append(f[b - 1], seq[b]) ELSE f[b - 1],
                       seq, keep, b)
      BY <3>1, <2>6, EmbedsNext, Zenon
    <3>3. f[b] = IF seq[b] \in keep THEN Append(f[b - 1], seq[b]) ELSE f[b - 1]
      BY <2>4, <1>4
    <3> QED BY <3>2, <3>3
  <2>8. f[b] \in Seq(S)
    <3>1. seq[b] \in S
      BY <2>4
    <3>2. f[b] \in {Append(f[b - 1], seq[b]), f[b - 1]}
      BY <2>4, <1>4
    <3>3. f[b - 1] \in Seq(S)
      BY <2>5
    <3> HIDE DEF n, Bad
    <3>4. Append(f[b - 1], seq[b]) \in Seq(S)
      BY <3>1, <3>3
    <3> QED BY <3>2, <3>3, <3>4
  <2>9. Good(b)
    BY <2>7, <2>8
  <2> QED BY <2>9, <2>2
<1>6. Good(n)
  <2> HIDE DEF Good
  <2> QED BY <1>5, <1>1
<1> QED BY <1>3, <1>6

-----------------------------------------------------------------------------
(* Order, by induction.                                                      *)

LEMMA AscendsFromNeighbours ==
  ASSUME NEW n \in Nat, NEW f, \A i \in 1 .. n : f[i] \in Int,
         \A i \in 2 .. n : f[i - 1] <= f[i]
  PROVE  \A i, j \in 1 .. n : i <= j => f[i] <= f[j]
<1> SUFFICES ASSUME NEW i \in 1 .. n PROVE \A j \in 1 .. n : i <= j => f[i] <= f[j]
  OBVIOUS
<1> DEFINE Bad == {j \in 1 .. n : i <= j /\ ~ (f[i] <= f[j])}
<1>1. SUFFICES ASSUME Bad # {} PROVE FALSE
  OBVIOUS
<1>2. Bad \in SUBSET Nat
  OBVIOUS
<1>3. PICK b \in Bad : \A m \in Bad : b <= m
  <2> HIDE DEF Bad
  <2> QED BY <1>1, <1>2, SmallestExists
<1>4. b \in 2 .. n /\ i <= b - 1
  BY <1>3
<1>5. b - 1 \in 1 .. n /\ b - 1 \notin Bad
  BY <1>3, <1>4
<1>6. f[i] <= f[b - 1] /\ f[b - 1] <= f[b]
  BY <1>4, <1>5
<1> QED BY <1>3, <1>4, <1>5, <1>6

(* A filtered schedule is no longer than the complete one.                   *)
LEMMA EmbedsLater ==
  ASSUME NEW S, NEW out \in Seq(S), NEW seq, NEW keep, NEW k \in Nat,
         NEW h, Embeds(h, out, seq, keep, k)
  PROVE  \A i \in 1 .. Len(out) : i <= h[i]
<1> DEFINE n == Len(out)
           Bad == {i \in 1 .. n : ~ (i <= h[i])}
<1>0. /\ n \in Nat /\ \A i \in 1 .. n : h[i] \in 1 .. k
      /\ \A i, j \in 1 .. n : i < j => h[i] < h[j]
  BY DEF Embeds
<1> HIDE DEF n
<1>1. SUFFICES ASSUME Bad # {} PROVE FALSE
  BY DEF n
<1>2. Bad \in SUBSET Nat
  BY <1>0
<1>3. PICK b \in Bad : \A m \in Bad : b <= m
  <2> HIDE DEF Bad
  <2> QED BY <1>1, <1>2, SmallestExists
<1>4. b \in 1 .. n /\ b # 1
  BY <1>0, <1>3
<1>5. b - 1 \in 1 .. n /\ b - 1 \notin Bad
  BY <1>0, <1>3, <1>4
<1>6. b - 1 <= h[b - 1] /\ h[b - 1] < h[b]
  BY <1>0, <1>4, <1>5
<1> QED BY <1>0, <1>3, <1>4, <1>5, <1>6

-----------------------------------------------------------------------------
(* Sequences of sequences.                                                   *)

LEMMA Climb ==
  ASSUME NEW n \in Nat, NEW T, 0 \in T, \A i \in 1 .. n : i - 1 \in T => i \in T
  PROVE  n \in T
<1> DEFINE Bad == (0 .. n) \ T
<1>1. SUFFICES ASSUME n \notin T PROVE FALSE
  OBVIOUS
<1>2. Bad \in SUBSET Nat /\ Bad # {}
  BY <1>1
<1> HIDE DEF Bad
<1>3. PICK b \in Bad : \A m \in Bad : b <= m
  BY <1>2, SmallestExists
<1>4. b \in 1 .. n /\ b \notin T
  BY <1>3 DEF Bad
<1>5. b - 1 \in T
  <2>1. ~ (b <= b - 1) /\ b - 1 \in 0 .. n
    BY <1>4
  <2> QED BY <1>3, <2>1 DEF Bad
<1> QED BY <1>4, <1>5

(* What the recursive function of FlattenSeq, up to n, satisfies.             *)
FlattenSolves(g, ss, n) ==
  g = [i \in 1 .. n |-> IF i = 1 THEN ss[i] ELSE g[i - 1] \o ss[i]]

LEMMA FlattenRecursion ==
  ASSUME NEW ss, NEW n \in Nat
  PROVE  \E g : FlattenSolves(g, ss, n)
<1> DEFINE T == {k \in Nat : \E g : FlattenSolves(g, ss, k)}
<1>1. 0 \in T
  <2> DEFINE g == [i \in 1 .. 0 |-> <<>>]
  <2>1. FlattenSolves(g, ss, 0)
    BY DEF FlattenSolves
  <2> QED BY <2>1
<1>2. ASSUME NEW k \in 1 .. n, k - 1 \in T PROVE k \in T
  <2>1. PICK g : FlattenSolves(g, ss, k - 1)
    BY <1>2
  <2> DEFINE next == IF k = 1 THEN ss[k] ELSE g[k - 1] \o ss[k]
             h == [i \in 1 .. k |-> IF i = k THEN next ELSE g[i]]
  <2> HIDE DEF T, next
  <2>2. \A i \in 1 .. k - 1 : h[i] = g[i] /\ g[i] = IF i = 1 THEN ss[i] ELSE g[i - 1] \o ss[i]
    <3>1. \A i \in 1 .. k - 1 : g[i] = IF i = 1 THEN ss[i] ELSE g[i - 1] \o ss[i]
      BY <2>1 DEF FlattenSolves
    <3>2. \A i \in 1 .. k - 1 : i \in 1 .. k /\ i # k
      OBVIOUS
    <3>3. \A i \in 1 .. k - 1 : h[i] = g[i]
      BY <3>2
    <3> QED BY <3>1, <3>3, Zenon
  <2>3. \A i \in 1 .. k : h[i] = IF i = 1 THEN ss[i] ELSE h[i - 1] \o ss[i]
    <3> TAKE i \in 1 .. k
    <3>1. i # 1 => i - 1 \in 1 .. k - 1
      OBVIOUS
    <3>2. CASE i = k
      BY <2>2, <3>1, <3>2 DEF next
    <3>3. CASE i # k
      <4>1. i \in 1 .. k - 1
        BY <3>3
      <4> QED BY <2>2, <3>1, <4>1
    <3> QED BY <3>2, <3>3
  <2>4. FlattenSolves(h, ss, k)
    BY <2>3 DEF FlattenSolves
  <2> QED BY <2>4 DEF T
<1> HIDE DEF T
<1>3. n \in T
  BY <1>1, <1>2, Climb
<1> QED BY <1>3 DEF T

(* A sequence of sequences, flattened one after the other.                   *)
UnrollsTo(ss, V, n) ==
  \E g : /\ g[0] = <<>> /\ FlattenSeq(ss) = g[n]
         /\ \A i \in 0 .. n : g[i] \in Seq(V)
         /\ \A i \in 1 .. n : g[i] = g[i - 1] \o ss[i]

LEMMA FlattenUnrolls ==
  ASSUME NEW V, NEW ss \in Seq(Seq(V))
  PROVE  UnrollsTo(ss, V, Len(ss))
<1> DEFINE n == Len(ss)
           f == CHOOSE f : FlattenSolves(f, ss, n)
           g == [i \in 0 .. n |-> IF i = 0 THEN <<>> ELSE f[i]]
<1>1. n \in Nat /\ \A i \in 1 .. n : ss[i] \in Seq(V)
  OBVIOUS
<1>2. FlattenSolves(f, ss, n)
  BY <1>1, FlattenRecursion
<1>3. FlattenSeq(ss) = g[n]
  <2>1. CASE n = 0
    BY <2>1 DEF FlattenSeq
  <2>2. CASE n # 0
    <3>1. FlattenSeq(ss) = f[n]
      BY <2>2 DEF FlattenSeq, FlattenSolves
    <3> HIDE DEF f
    <3> QED BY <1>1, <2>2, <3>1
  <2> QED BY <2>1, <2>2
<1> HIDE DEF f, n
<1>4. \A i \in 1 .. n : f[i] = IF i = 1 THEN ss[i] ELSE f[i - 1] \o ss[i]
  BY <1>2 DEF FlattenSolves
<1>5. g[0] = <<>>
  BY <1>1
<1>6. \A i \in 1 .. n : g[i] = g[i - 1] \o ss[i]
  <2> TAKE i \in 1 .. n
  <2>1. CASE i = 1
    <3>1. g[i] = ss[i] /\ g[i - 1] = <<>> /\ ss[i] \in Seq(V)
      BY <1>1, <1>4, <2>1
    <3>2. ss[i] = <<>> \o ss[i]
      BY <3>1
    <3> HIDE DEF g
    <3> QED BY <3>1, <3>2, Zenon
  <2>2. CASE i # 1
    <3>1. i - 1 \in 0 .. n /\ i - 1 # 0 /\ i \in 0 .. n /\ i # 0
      BY <1>1, <2>2
    <3>2. g[i] = f[i] /\ g[i - 1] = f[i - 1]
      BY <3>1
    <3> HIDE DEF g
    <3> QED BY <1>4, <2>2, <3>2, Zenon
  <2> QED BY <2>1, <2>2
<1> HIDE DEF g
<1>7. \A i \in 0 .. n : g[i] \in Seq(V)
  <2> DEFINE T == {i \in 0 .. n : g[i] \in Seq(V)}
  <2>1. 0 \in T
    <3>1. <<>> \in Seq(V)
      OBVIOUS
    <3>2. g[0] \in Seq(V)
      BY <1>5, <3>1, Zenon
    <3>3. 0 \in 0 .. n
      BY <1>1
    <3> QED BY <3>2, <3>3, Zenon
  <2>2. \A i \in 1 .. n : i - 1 \in T => i \in T
    <3> SUFFICES ASSUME NEW i \in 1 .. n, i - 1 \in T PROVE i \in T
      OBVIOUS
    <3>1. g[i - 1] \in Seq(V) /\ ss[i] \in Seq(V)
      BY <1>1
    <3>2. g[i - 1] \o ss[i] \in Seq(V)
      BY <3>1
    <3>3. i \in 0 .. n
      BY <1>1
    <3> QED BY <1>6, <3>2, <3>3
  <2>3. ASSUME NEW m \in 0 .. n PROVE m \in T
    <3>1. m \in Nat /\ \A i \in 1 .. m : i - 1 \in T => i \in T
      BY <1>1, <2>2
    <3> HIDE DEF T
    <3> QED BY <2>1, <3>1, Climb
  <2> QED BY <2>3
<1> QED BY <1>3, <1>5, <1>6, <1>7 DEF n, UnrollsTo

LEMMA ConcatIs ==
  ASSUME NEW V, NEW p \in Seq(V), NEW q \in Seq(V)
  PROVE  /\ p \o q \in Seq(V) /\ Len(p \o q) = Len(p) + Len(q) /\ Len(p) \in Nat /\ Len(q) \in Nat
         /\ \A k \in 1 .. Len(p) : (p \o q)[k] = p[k] /\ k \in 1 .. Len(p \o q)
         /\ \A k \in 1 .. Len(q) : (p \o q)[Len(p) + k] = q[k] /\ Len(p) + k \in 1 .. Len(p \o q)
         /\ \A k \in 1 .. Len(p \o q) : k \in 1 .. Len(p) \/ k - Len(p) \in 1 .. Len(q)
         /\ \A k \in 1 .. Len(p \o q) :
              k - Len(p) \in 1 .. Len(q) => (p \o q)[k] = q[k - Len(p)]
OBVIOUS

LEMMA PartsInOrder ==
  ASSUME NEW V, NEW n \in Nat, NEW ss, NEW g, ss \in [1 .. n -> Seq(V)],
         \A i \in 0 .. n : g[i] \in Seq(V), NEW i \in 1 .. n
  PROVE  g[i - 1] \in Seq(V) /\ g[i] \in Seq(V) /\ ss[i] \in Seq(V) /\ i \in 0 .. n
OBVIOUS

(* A part of a flattened sequence is a block of it; what is outside comes     *)
(* from the other parts.                                                     *)
ComesFrom(w, x, ss, D) == \E i \in D : \E k \in 1 .. Len(ss[i]) : w[x] = ss[i][k]

IsBlock(w, ss, D, j, a) ==
  /\ a + Len(ss[j]) <= Len(w)
  /\ \A k \in 1 .. Len(ss[j]) : w[a + k] = ss[j][k]
  /\ \A x \in 1 .. Len(w) : x \in a + 1 .. a + Len(ss[j]) \/ ComesFrom(w, x, ss, D \ {j})

LEMMA ComesFromLonger ==
  ASSUME NEW V, NEW p \in Seq(V), NEW q \in Seq(V), NEW ss, NEW D, NEW E, D \subseteq E,
         NEW x \in 1 .. Len(p), ComesFrom(p, x, ss, D)
  PROVE  ComesFrom(p \o q, x, ss, E)
<1>1. (p \o q)[x] = p[x]
  BY ConcatIs
<1> QED BY <1>1 DEF ComesFrom

LEMMA BlockOf ==
  ASSUME NEW V, NEW n \in Nat, NEW ss \in [1 .. n -> Seq(V)], NEW j \in 1 .. n
  PROVE  /\ FlattenSeq(ss) \in Seq(V)
         /\ \E a \in Nat : IsBlock(FlattenSeq(ss), ss, 1 .. n, j, a)
<1>1. ss \in Seq(Seq(V)) /\ Len(ss) = n
  BY SeqDef, LenProperties
<1>2. PICK g : /\ g[0] = <<>> /\ FlattenSeq(ss) = g[n]
               /\ \A i \in 0 .. n : g[i] \in Seq(V)
               /\ \A i \in 1 .. n : g[i] = g[i - 1] \o ss[i]
  <2>1. UnrollsTo(ss, V, n)
    BY <1>1, FlattenUnrolls
  <2> QED BY <2>1, Zenon DEF UnrollsTo
<1> DEFINE D == 1 .. n
           Before(i) == \A x \in 1 .. Len(g[i]) : ComesFrom(g[i], x, ss, 1 .. i)
           Holds(i) == \E a \in Nat : IsBlock(g[i], ss, D, j, a)
           T == {i \in 0 .. n : IF i < j THEN Before(i) ELSE Holds(i)}
<1>3. 0 \in T
  BY <1>2
<1>4. ASSUME NEW i \in 1 .. n, i - 1 \in T PROVE i \in T
  <2> DEFINE p == g[i - 1]
             q == ss[i]
  <2>1. g[i] = p \o q /\ p \in Seq(V) /\ q \in Seq(V) /\ i \in 0 .. n
    BY <1>2, PartsInOrder
  <2> HIDE DEF p, q
  <2>2. /\ Len(g[i]) = Len(p) + Len(q) /\ Len(p) \in Nat /\ Len(q) \in Nat
        /\ \A k \in 1 .. Len(p) : g[i][k] = p[k]
        /\ \A k \in 1 .. Len(q) : g[i][Len(p) + k] = q[k]
        /\ \A x \in 1 .. Len(g[i]) : x \in 1 .. Len(p) \/ x - Len(p) \in 1 .. Len(q)
        /\ \A x \in 1 .. Len(g[i]) : x - Len(p) \in 1 .. Len(q) => g[i][x] = q[x - Len(p)]
    BY <2>1, ConcatIs
  <2>3. ASSUME NEW x \in 1 .. Len(g[i]), x - Len(p) \in 1 .. Len(q), NEW E, i \in E
        PROVE  ComesFrom(g[i], x, ss, E)
    BY <2>2, <2>3 DEF ComesFrom, q
  <2>4. CASE i < j
    <3>1. \A x \in 1 .. Len(p) : ComesFrom(p, x, ss, 1 .. i - 1)
      BY <1>4, <2>4 DEF p
    <3>2. ASSUME NEW x \in 1 .. Len(g[i]) PROVE ComesFrom(g[i], x, ss, 1 .. i)
      <4>1. CASE x \in 1 .. Len(p)
        <5>1. 1 .. i - 1 \subseteq 1 .. i
          OBVIOUS
        <5> QED BY <2>1, <3>1, <4>1, <5>1, ComesFromLonger
      <4>2. CASE x - Len(p) \in 1 .. Len(q)
        BY <2>3, <4>2
      <4> QED BY <2>2, <4>1, <4>2
    <3> QED BY <2>1, <2>4, <3>2
  <2>5. CASE i = j
    <3>1. \A x \in 1 .. Len(p) : ComesFrom(p, x, ss, 1 .. i - 1)
      BY <1>4, <2>5 DEF p
    <3>2. ASSUME NEW x \in 1 .. Len(g[i])
          PROVE  x \in Len(p) + 1 .. Len(p) + Len(ss[j]) \/ ComesFrom(g[i], x, ss, D \ {j})
      <4>1. CASE x \in 1 .. Len(p)
        <5>1. 1 .. i - 1 \subseteq D \ {j}
          BY <2>5
        <5> HIDE DEF D
        <5> QED BY <2>1, <3>1, <4>1, <5>1, ComesFromLonger
      <4>2. CASE x - Len(p) \in 1 .. Len(q)
        BY <2>2, <2>5, <4>2 DEF q
      <4> QED BY <2>2, <4>1, <4>2
    <3>3. Len(p) + Len(ss[j]) <= Len(g[i])
          /\ \A k \in 1 .. Len(ss[j]) : g[i][Len(p) + k] = ss[j][k]
      BY <2>2, <2>5 DEF q
    <3>4. IsBlock(g[i], ss, D, j, Len(p))
      <4> HIDE DEF D
      <4> QED BY <3>2, <3>3 DEF IsBlock
    <3>5. Holds(i)
      BY <2>2, <3>4
    <3> HIDE DEF Holds, Before
    <3> QED BY <2>1, <2>5, <3>5
  <2>6. CASE i > j
    <3>1. PICK a \in Nat : IsBlock(p, ss, D, j, a)
      <4>1. ~ (i - 1 < j)
        BY <2>6
      <4> QED BY <1>4, <4>1 DEF p
    <3>2. ASSUME NEW x \in 1 .. Len(g[i])
          PROVE  x \in a + 1 .. a + Len(ss[j]) \/ ComesFrom(g[i], x, ss, D \ {j})
      <4>1. CASE x \in 1 .. Len(p)
        <5> HIDE DEF D
        <5>1. x \in a + 1 .. a + Len(ss[j]) \/ ComesFrom(p, x, ss, D \ {j})
          BY <3>1, <4>1 DEF IsBlock
        <5> QED BY <2>1, <4>1, <5>1, ComesFromLonger
      <4>2. CASE x - Len(p) \in 1 .. Len(q)
        <5>1. i \in D \ {j}
          BY <2>6
        <5> HIDE DEF D
        <5> QED BY <2>3, <4>2, <5>1
      <4> QED BY <2>2, <4>1, <4>2
    <3>3. a + Len(ss[j]) <= Len(g[i])
          /\ \A k \in 1 .. Len(ss[j]) : g[i][a + k] = ss[j][k]
      <4>1. Len(ss[j]) \in Nat /\ a + Len(ss[j]) <= Len(p)
            /\ \A k \in 1 .. Len(ss[j]) : p[a + k] = ss[j][k]
        <5>1. ss[j] \in Seq(V)
          OBVIOUS
        <5> HIDE DEF D
        <5> QED BY <3>1, <5>1 DEF IsBlock
      <4>2. \A k \in 1 .. Len(ss[j]) : a + k \in 1 .. Len(p)
        BY <2>2, <4>1
      <4> QED BY <2>2, <4>1, <4>2
    <3>4. IsBlock(g[i], ss, D, j, a)
      <4> HIDE DEF D
      <4> QED BY <3>2, <3>3 DEF IsBlock
    <3>5. Holds(i) /\ ~ (i < j)
      BY <2>6, <3>4
    <3> HIDE DEF Holds, Before
    <3> QED BY <2>1, <3>5
  <2> QED BY <2>4, <2>5, <2>6
<1> HIDE DEF T
<1>5. n \in T
  BY <1>3, <1>4, Climb
<1>6. ~ (n < j) /\ n \in 0 .. n
  OBVIOUS
<1> QED BY <1>2, <1>5, <1>6 DEF T

(* Filtering for the elements of a block gives the block.                    *)
KeepsBlock(seq, keep, a, p) ==
  /\ a + p <= Len(seq)
  /\ \A x \in 1 .. Len(seq) : seq[x] \in keep <=> x \in a + 1 .. a + p

BlockKept(own, S, seq, a, p) ==
  /\ own \in Seq(S) /\ Len(own) = p
  /\ \A k \in 1 .. p : own[k] = seq[a + k]

LEMMA KeptBlock ==
  ASSUME NEW S, NEW seq \in Seq(S), NEW keep, NEW a \in Nat, NEW p \in Nat,
         KeepsBlock(seq, keep, a, p)
  PROVE  BlockKept(Kept(seq, keep), S, seq, a, p)
<1> DEFINE own == Kept(seq, keep)
           m == Len(own)
           n == Len(seq)
<1> USE DEF KeepsBlock
<1>1. own \in Seq(S) /\ m \in Nat /\ n \in Nat
  BY KeptEmbeds
<1>2. PICK h : Embeds(h, own, seq, keep, n)
  BY KeptEmbeds
<1> HIDE DEF own
<1>3. /\ \A i \in 1 .. m : h[i] \in 1 .. n /\ h[i] \in a + 1 .. a + p /\ own[i] = seq[h[i]]
      /\ \A i, j \in 1 .. m : i < j => h[i] < h[j]
      /\ \A k \in 1 .. p : \E j \in 1 .. m : h[j] = a + k
  <2>1. \A i \in 1 .. m : h[i] \in 1 .. n /\ own[i] = seq[h[i]] /\ seq[h[i]] \in keep
    BY <1>2 DEF Embeds
  <2>2. \A i, j \in 1 .. m : i < j => h[i] < h[j]
    BY <1>2 DEF Embeds
  <2>3. ASSUME NEW k \in 1 .. p PROVE \E j \in 1 .. m : h[j] = a + k
    <3>1. a + k \in 1 .. n /\ a + k \in a + 1 .. a + p
      BY <1>1
    <3>2. seq[a + k] \in keep
      BY <3>1
    <3> QED BY <1>2, <3>1, <3>2 DEF Embeds
  <2> QED BY <2>1, <2>2, <2>3
<1> HIDE DEF m, n
<1> DEFINE Good(k) == k \in 1 .. p => k \in 1 .. m /\ h[k] = a + k
           T == {k \in 0 .. p : \A i \in 1 .. k : i \in 1 .. m /\ h[i] = a + i}
<1>4. 0 \in T
  OBVIOUS
<1>5. ASSUME NEW k \in 1 .. p, k - 1 \in T PROVE k \in T
  <2>1. PICK j \in 1 .. m : h[j] = a + k
    <3> HIDE DEF T
    <3> QED BY <1>3
  <2>2. j >= k
    <3>1. SUFFICES ASSUME j < k PROVE FALSE
      BY <1>1, <2>1
    <3>2. j \in 1 .. k - 1
      BY <1>1, <3>1
    <3>3. h[j] = a + j
      BY <1>5, <3>2
    <3> QED BY <2>1, <3>1, <3>3
  <2>3. k \in 1 .. m
    BY <1>1, <2>2
  <2>4. h[k] <= a + k
    <3>1. CASE j = k
      BY <2>1, <3>1
    <3>2. CASE j # k
      <4>1. k < j
        BY <1>1, <2>2, <3>2
      <4> HIDE DEF T
      <4>2. h[k] < h[j] /\ h[k] \in 1 .. n
        BY <1>3, <2>3, <4>1
      <4> QED BY <1>1, <2>1, <4>2
    <3> QED BY <3>1, <3>2
  <2>5. h[k] >= a + k
    <3>1. CASE k = 1
      <4> HIDE DEF T
      <4> QED BY <1>3, <2>3, <3>1
    <3>2. CASE k # 1
      <4>1. k - 1 \in 1 .. k - 1 /\ k - 1 < k
        BY <3>2
      <4>2. k - 1 \in 1 .. m /\ h[k - 1] = a + (k - 1)
        BY <1>5, <4>1
      <4> HIDE DEF T
      <4>3. h[k - 1] < h[k] /\ h[k] \in 1 .. n
        BY <1>3, <2>3, <4>1, <4>2
      <4> QED BY <1>1, <4>2, <4>3
    <3> QED BY <3>1, <3>2
  <2>6. h[k] = a + k
    <3>1. h[k] \in Int
      BY <1>1, <1>3, <2>3
    <3> QED BY <2>4, <2>5, <3>1
  <2>7. \A i \in 1 .. k : i \in 1 .. k - 1 \/ i = k
    OBVIOUS
  <2> QED BY <1>5, <2>3, <2>6, <2>7
<1>6. p \in T
  <2> HIDE DEF T
  <2> QED BY <1>4, <1>5, Climb
<1>7. \A i \in 1 .. p : i \in 1 .. m /\ h[i] = a + i
  BY <1>6
<1> HIDE DEF T
<1>8. m = p
  <2>1. p <= m
    BY <1>1, <1>7
  <2>2. SUFFICES ASSUME p < m PROVE FALSE
    BY <1>1, <2>1
  <2>3. p + 1 \in 1 .. m
    BY <1>1, <2>2
  <2>4. h[p + 1] \in a + 1 .. a + p
    BY <1>3, <2>3
  <2>5. p \in 1 .. p /\ p < p + 1
    BY <2>4
  <2>6. h[p] < h[p + 1] /\ h[p] = a + p
    BY <1>3, <1>7, <2>3, <2>5
  <2> QED BY <2>4, <2>6
<1>9. \A i \in 1 .. p : own[i] = seq[a + i]
  BY <1>3, <1>7
<1> QED BY <1>1, <1>8, <1>9 DEF m, own, BlockKept

-----------------------------------------------------------------------------
(* The division of whole numbers.                                            *)

LEMMA DivisionIs ==
  ASSUME NEW m \in Nat \ {0}, NEW q \in Nat, NEW r \in 0 .. m - 1
  PROVE  (q * m + r) \div m = q /\ (q * m + r) % m = r
<1> DEFINE c == q * m + r
           x == c \div m
           y == c % m
<1>1. q * m \in Nat /\ c \in Nat
  BY SMT
<1>2. c = m * x + y /\ x \in Nat /\ y \in 0 .. m - 1
  <2> HIDE DEF c
  <2> QED BY <1>1
<1>3. m * x \in Nat /\ c = q * m + r
  BY <1>2
<1> HIDE DEF c, x, y
<1>4. x = q
  <2>1. ASSUME x < q PROVE FALSE
    <3>1. x + 1 <= q
      BY <1>2, <2>1
    <3>2. (x + 1) * m <= q * m
      BY <1>2, <3>1
    <3>3. (x + 1) * m = m * x + m
      BY <1>2
    <3> QED BY <1>1, <1>2, <1>3, <3>2, <3>3
  <2>2. ASSUME q < x PROVE FALSE
    <3>1. q + 1 <= x
      BY <1>2, <2>2
    <3>2. (q + 1) * m <= x * m
      BY <1>2, <3>1
    <3>3. (q + 1) * m = q * m + m /\ x * m = m * x
      BY <1>2
    <3> QED BY <1>1, <1>2, <1>3, <3>2, <3>3
  <2> QED BY <1>2, <2>1, <2>2
<1>5. m * q = q * m
  OBVIOUS
<1> QED BY <1>1, <1>2, <1>3, <1>4, <1>5 DEF c, x, y

-----------------------------------------------------------------------------
(* Sums over a finite set.                                                   *)

AnyOf(s) == CHOOSE x \in s : TRUE

(* What the recursive function of a sum over a set satisfies.                *)
SumSolves(sum, f, family) ==
  sum = [s \in family |-> IF s = {} THEN 0 ELSE f[AnyOf(s)] + sum[s \ {AnyOf(s)}]]

LEMMA AnyOfLeaves ==
  ASSUME NEW s, IsFiniteSet(s), s # {}
  PROVE  /\ AnyOf(s) \in s /\ IsFiniteSet(s \ {AnyOf(s)}) /\ Cardinality(s) \in Nat \ {0}
         /\ Cardinality(s \ {AnyOf(s)}) = Cardinality(s) - 1
<1>1. AnyOf(s) \in s
  BY DEF AnyOf
<1>2. IsFiniteSet(s \ {AnyOf(s)}) /\ Cardinality(s \ {AnyOf(s)}) = Cardinality(s) - 1
  BY <1>1, FS_RemoveElement
<1>3. Cardinality(s) \in Nat /\ Cardinality(s) # 0
  BY FS_CardinalityType, FS_EmptySet
<1> QED BY <1>1, <1>2, <1>3

(* It exists: one cardinality after the other.                               *)
LEMMA SumRecursion ==
  ASSUME NEW D, IsFiniteSet(D), NEW f
  PROVE  \E sum : SumSolves(sum, f, SUBSET D)
<1> DEFINE Upto(n) == {s \in SUBSET D : Cardinality(s) <= n}
           Bad == {n \in Nat : ~ \E sum : SumSolves(sum, f, Upto(n))}
<1>1. \A s \in SUBSET D : IsFiniteSet(s) /\ Cardinality(s) \in Nat /\ Cardinality(s) <= Cardinality(D)
  BY FS_Subset, FS_CardinalityType
<1>2. Bad = {}
  <2>1. SUFFICES ASSUME Bad # {} PROVE FALSE
    OBVIOUS
  <2>2. PICK b \in Bad : \A m \in Bad : b <= m
    <3>1. Bad \in SUBSET Nat
      OBVIOUS
    <3> HIDE DEF Bad
    <3> QED BY <2>1, <3>1, SmallestExists
  <2>3. b # 0
    <3> DEFINE g == [s \in Upto(0) |-> 0]
    <3>1. \A s \in Upto(0) : s = {}
      BY <1>1, FS_EmptySet
    <3>2. g = [s \in Upto(0) |-> IF s = {} THEN 0 ELSE f[AnyOf(s)] + g[s \ {AnyOf(s)}]]
      BY <3>1
    <3> QED BY <3>2 DEF SumSolves
  <2>4. b \in Nat /\ b - 1 \in Nat /\ b - 1 \notin Bad
    <3>1. b \in Nat
      BY <2>2
    <3> HIDE DEF Bad
    <3> QED BY <2>2, <2>3, <3>1
  <2>5. PICK sum : SumSolves(sum, f, Upto(b - 1))
    BY <2>4
  <2> DEFINE next(s) == IF s = {} THEN 0 ELSE f[AnyOf(s)] + sum[s \ {AnyOf(s)}]
             g == [s \in Upto(b) |-> next(s)]
  <2> HIDE DEF Bad
  <2>6. \A s \in Upto(b - 1) : s \in Upto(b) /\ sum[s] = next(s)
    <3>1. \A s \in Upto(b - 1) : sum[s] = next(s)
      BY <2>5 DEF SumSolves
    <3>2. \A s \in Upto(b - 1) : s \in Upto(b)
      BY <1>1, <2>4
    <3> QED BY <3>1, <3>2
  <2>7. \A s \in Upto(b) : s # {} => s \ {AnyOf(s)} \in Upto(b - 1)
    <3> SUFFICES ASSUME NEW s \in Upto(b), s # {} PROVE s \ {AnyOf(s)} \in Upto(b - 1)
      OBVIOUS
    <3>1. Cardinality(s \ {AnyOf(s)}) = Cardinality(s) - 1 /\ Cardinality(s) \in Nat
      BY <1>1, AnyOfLeaves
    <3>2. s \ {AnyOf(s)} \in SUBSET D /\ Cardinality(s) <= b
      OBVIOUS
    <3> QED BY <2>4, <3>1, <3>2
  <2>8. \A s \in Upto(b) : next(s) = IF s = {} THEN 0 ELSE f[AnyOf(s)] + g[s \ {AnyOf(s)}]
    <3> SUFFICES ASSUME NEW s \in Upto(b), s # {}
                 PROVE  sum[s \ {AnyOf(s)}] = g[s \ {AnyOf(s)}]
      OBVIOUS
    <3> DEFINE r == s \ {AnyOf(s)}
    <3>1. r \in Upto(b - 1)
      BY <2>7
    <3> HIDE DEF r
    <3>2. r \in Upto(b) /\ sum[r] = next(r)
      BY <2>6, <3>1
    <3>3. g[r] = next(r)
      BY <3>2
    <3> QED BY <3>2, <3>3 DEF r
  <2>9. SumSolves(g, f, Upto(b))
    <3>1. g = [s \in Upto(b) |-> IF s = {} THEN 0 ELSE f[AnyOf(s)] + g[s \ {AnyOf(s)}]]
      BY <2>8
    <3> QED BY <3>1 DEF SumSolves
  <2> QED BY <2>2, <2>9 DEF Bad
<1>3. Upto(Cardinality(D)) = SUBSET D
  BY <1>1
<1>4. Cardinality(D) \in Nat
  BY FS_CardinalityType
<1>5. Cardinality(D) \notin Bad
  <2> HIDE DEF Bad
  <2> QED BY <1>2
<1> HIDE DEF Upto
<1> QED BY <1>3, <1>4, <1>5

LEMMA SumIs ==
  ASSUME NEW S, IsFiniteSet(S), NEW f
  PROVE  \E sum : SumSolves(sum, f, SUBSET S) /\ SumFunctionOnSet(f, S) = sum[S]
<1>1. SumFunctionOnSet(f, S) = (CHOOSE sum : SumSolves(sum, f, SUBSET S))[S]
  BY DEF SumFunctionOnSet, FoldFunctionOnSet, MapThenFoldSet, SumSolves, AnyOf
<1>2. SumSolves(CHOOSE sum : SumSolves(sum, f, SUBSET S), f, SUBSET S)
  BY SumRecursion
<1> QED BY <1>1, <1>2

(* Two sums of the parts of something that lies between two bounds.          *)
LEMMA SumsBounded ==
  ASSUME NEW S, IsFiniteSet(S), NEW f, NEW g, NEW lo \in Int, NEW hi \in Int,
         \A x \in S : f[x] \in Int /\ g[x] \in Int /\ lo <= f[x] + g[x] /\ f[x] + g[x] <= hi
  PROVE  SumFunctionOnSet(f, S) + SumFunctionOnSet(g, S) \in
           Cardinality(S) * lo .. Cardinality(S) * hi
<1>1. PICK sf : SumSolves(sf, f, SUBSET S) /\ SumFunctionOnSet(f, S) = sf[S]
  BY SumIs
<1>2. PICK sg : SumSolves(sg, g, SUBSET S) /\ SumFunctionOnSet(g, S) = sg[S]
  BY SumIs
<1> DEFINE Good(s) == /\ sf[s] \in Int /\ sg[s] \in Int
                      /\ Cardinality(s) * lo <= sf[s] + sg[s]
                      /\ sf[s] + sg[s] <= Cardinality(s) * hi
           Bad == {k \in Nat : \E s \in SUBSET S : Cardinality(s) = k /\ ~Good(s)}
<1>3. \A s \in SUBSET S : IsFiniteSet(s) /\ Cardinality(s) \in Nat
  BY FS_Subset, FS_CardinalityType
<1>4. \A s \in SUBSET S :
        /\ sf[s] = IF s = {} THEN 0 ELSE f[AnyOf(s)] + sf[s \ {AnyOf(s)}]
        /\ sg[s] = IF s = {} THEN 0 ELSE g[AnyOf(s)] + sg[s \ {AnyOf(s)}]
  BY <1>1, <1>2 DEF SumSolves
<1>5. Bad = {}
  <2>1. SUFFICES ASSUME Bad # {} PROVE FALSE
    OBVIOUS
  <2>2. PICK b \in Bad : \A m \in Bad : b <= m
    <3>1. Bad \in SUBSET Nat
      OBVIOUS
    <3> HIDE DEF Bad
    <3> QED BY <2>1, <3>1, SmallestExists
  <2>3. PICK s \in SUBSET S : Cardinality(s) = b /\ ~Good(s)
    BY <2>2
  <2>4. s # {}
    <3>1. ASSUME s = {} PROVE Good(s)
      <4>1. sf[s] = 0 /\ sg[s] = 0
        BY <1>4, <3>1
      <4>2. Cardinality(s) = 0
        BY <3>1, FS_EmptySet
      <4>3. Cardinality(s) * lo = 0 /\ Cardinality(s) * hi = 0
        BY <4>2
      <4> QED BY <4>1, <4>3
    <3> HIDE DEF Good
    <3> QED BY <2>3, <3>1
  <2> DEFINE r == s \ {AnyOf(s)}
  <2>5. /\ AnyOf(s) \in S /\ r \in SUBSET S
        /\ Cardinality(r) = Cardinality(s) - 1 /\ Cardinality(r) \in Nat
    BY <1>3, <2>4, AnyOfLeaves
  <2>6. Cardinality(r) \notin Bad
    <3>1. b = Cardinality(s)
      BY <2>3
    <3> HIDE DEF Bad, r, Good
    <3> QED BY <1>3, <2>2, <2>5, <3>1
  <2>7. Good(r)
    BY <2>5, <2>6
  <2>8. sf[s] = f[AnyOf(s)] + sf[r] /\ sg[s] = g[AnyOf(s)] + sg[r]
    BY <1>4, <2>4
  <2>9. /\ f[AnyOf(s)] \in Int /\ g[AnyOf(s)] \in Int
        /\ lo <= f[AnyOf(s)] + g[AnyOf(s)] /\ f[AnyOf(s)] + g[AnyOf(s)] <= hi
    BY <2>5
  <2> DEFINE c == Cardinality(r)
  <2>10. Cardinality(s) = c + 1 /\ c \in Nat
    BY <1>3, <2>5
  <2> HIDE DEF c
  <2>11. /\ Cardinality(s) * lo = c * lo + lo /\ c * lo \in Int
         /\ Cardinality(s) * hi = c * hi + hi /\ c * hi \in Int
    BY <2>10
  <2> DEFINE cl == c * lo
             ch == c * hi
  <2>12. /\ sf[r] \in Int /\ sg[r] \in Int /\ cl <= sf[r] + sg[r] /\ sf[r] + sg[r] <= ch
         /\ cl \in Int /\ ch \in Int
    BY <2>7, <2>11 DEF c
  <2>13. Cardinality(s) * lo = cl + lo /\ Cardinality(s) * hi = ch + hi
    BY <2>11
  <2> HIDE DEF r, Bad, cl, ch
  <2>14. Good(s)
    BY <2>8, <2>9, <2>12, <2>13
  <2> QED BY <2>3, <2>14
<1>6. Good(S)
  <2> HIDE DEF Good
  <2> QED BY <1>3, <1>5
<1>7. Cardinality(S) * lo \in Int /\ Cardinality(S) * hi \in Int
  <2>1. Cardinality(S) \in Nat
    BY <1>3
  <2> QED BY <2>1
<1> HIDE DEF Bad
<1> QED BY <1>1, <1>2, <1>6, <1>7

(* Induction over the subsets of a finite set.                               *)
LEMMA GrowSet ==
  ASSUME NEW S, IsFiniteSet(S), NEW P, {} \in P,
         \A s \in SUBSET S : s # {} /\ (\A x \in s : s \ {x} \in P) => s \in P
  PROVE  S \in P
<1> DEFINE T == {i \in Nat : \A s \in SUBSET S : Cardinality(s) = i => s \in P}
<1>1. \A s \in SUBSET S : IsFiniteSet(s) /\ Cardinality(s) \in Nat
  BY FS_Subset, FS_CardinalityType
<1>2. 0 \in T
  BY <1>1, FS_EmptySet
<1>3. ASSUME NEW i \in 1 .. Cardinality(S), i - 1 \in T
      PROVE  i \in T
  <2> SUFFICES ASSUME NEW s \in SUBSET S, Cardinality(s) = i PROVE s \in P
    OBVIOUS
  <2>1. s # {}
    BY <1>1, FS_EmptySet
  <2>2. ASSUME NEW x \in s PROVE s \ {x} \in P
    <3>1. Cardinality(s \ {x}) = i - 1
      BY <1>1, FS_RemoveElement
    <3> QED BY <1>3, <3>1
  <2> QED BY <2>1, <2>2
<1>4. Cardinality(S) \in T
  <2> HIDE DEF T
  <2> QED BY <1>1, <1>2, <1>3, Climb
<1> QED BY <1>4

(* The recursive functions of two sums agree wherever the terms do.          *)
LEMMA SumsAgree ==
  ASSUME NEW S, IsFiniteSet(S), NEW T, IsFiniteSet(T), NEW f, NEW g, NEW sf, NEW sg,
         SumSolves(sf, f, SUBSET S), SumSolves(sg, g, SUBSET T),
         NEW R \in SUBSET S, R \in SUBSET T, \A x \in R : f[x] = g[x]
  PROVE  sf[R] = sg[R]
<1> DEFINE P == {s \in SUBSET R : sf[s] = sg[s]}
<1>1. \A s \in SUBSET R :
        /\ sf[s] = IF s = {} THEN 0 ELSE f[AnyOf(s)] + sf[s \ {AnyOf(s)}]
        /\ sg[s] = IF s = {} THEN 0 ELSE g[AnyOf(s)] + sg[s \ {AnyOf(s)}]
  BY DEF SumSolves
<1>2. {} \in P
  BY <1>1
<1>3. ASSUME NEW s \in SUBSET R, s # {}, \A x \in s : s \ {x} \in P
      PROVE  s \in P
  <2>1. AnyOf(s) \in s
    BY <1>3 DEF AnyOf
  <2>2. sf[s \ {AnyOf(s)}] = sg[s \ {AnyOf(s)}] /\ f[AnyOf(s)] = g[AnyOf(s)]
    BY <1>3, <2>1
  <2> QED BY <1>1, <1>3, <2>2
<1>4. IsFiniteSet(R)
  BY FS_Subset
<1>5. R \in P
  <2> HIDE DEF P
  <2> QED BY <1>2, <1>3, <1>4, GrowSet
<1> QED BY <1>5

LEMMA SumUnrolls ==
  ASSUME NEW S, IsFiniteSet(S), NEW f
  PROVE  SumFunctionOnSet(f, S) =
           IF S = {} THEN 0 ELSE f[AnyOf(S)] + SumFunctionOnSet(f, S \ {AnyOf(S)})
<1>1. PICK sum : SumSolves(sum, f, SUBSET S) /\ SumFunctionOnSet(f, S) = sum[S]
  BY SumIs
<1>2. sum[S] = IF S = {} THEN 0 ELSE f[AnyOf(S)] + sum[S \ {AnyOf(S)}]
  BY <1>1 DEF SumSolves
<1> DEFINE R == S \ {AnyOf(S)}
<1>3. IsFiniteSet(R) /\ R \in SUBSET S
  BY FS_Subset
<1> HIDE DEF R
<1>4. PICK rest : SumSolves(rest, f, SUBSET R) /\ SumFunctionOnSet(f, R) = rest[R]
  BY <1>3, SumIs
<1>5. sum[R] = rest[R]
  BY <1>1, <1>3, <1>4, SumsAgree
<1> QED BY <1>1, <1>2, <1>4, <1>5 DEF R

(* Equal terms, equal sums.                                                  *)
LEMMA SumSame ==
  ASSUME NEW S, IsFiniteSet(S), NEW f, NEW g, \A x \in S : f[x] = g[x]
  PROVE  SumFunctionOnSet(f, S) = SumFunctionOnSet(g, S)
<1>1. PICK sf : SumSolves(sf, f, SUBSET S) /\ SumFunctionOnSet(f, S) = sf[S]
  BY SumIs
<1>2. PICK sg : SumSolves(sg, g, SUBSET S) /\ SumFunctionOnSet(g, S) = sg[S]
  BY SumIs
<1>3. sf[S] = sg[S]
  <2>1. S \in SUBSET S
    OBVIOUS
  <2> QED BY <1>1, <1>2, <2>1, SumsAgree
<1> QED BY <1>1, <1>2, <1>3

(* A sum of numbers is a number.                                             *)
LEMMA SumType ==
  ASSUME NEW S, IsFiniteSet(S), NEW f, \A x \in S : f[x] \in Nat
  PROVE  SumFunctionOnSet(f, S) \in Nat
<1> DEFINE Sum(s) == SumFunctionOnSet(f, s)
           P == {s \in SUBSET S : Sum(s) \in Nat}
<1>1. \A s \in SUBSET S :
        IsFiniteSet(s) /\ Sum(s) = IF s = {} THEN 0 ELSE f[AnyOf(s)] + Sum(s \ {AnyOf(s)})
  BY FS_Subset, SumUnrolls
<1> HIDE DEF Sum
<1>2. {} \in P
  <2>1. Sum({}) = 0
    BY <1>1
  <2> QED BY <2>1
<1>3. ASSUME NEW s \in SUBSET S, s # {}, \A x \in s : s \ {x} \in P
      PROVE  s \in P
  <2> DEFINE a == AnyOf(s)
  <2>1. a \in s
    BY <1>3 DEF AnyOf
  <2>2. Sum(s) = f[a] + Sum(s \ {a})
    BY <1>1, <1>3
  <2> HIDE DEF a
  <2>3. f[a] \in Nat /\ Sum(s \ {a}) \in Nat
    BY <1>3, <2>1
  <2>4. Sum(s) \in Nat
    BY <2>2, <2>3
  <2> QED BY <2>4
<1>4. S \in P
  <2> HIDE DEF P
  <2> QED BY <1>2, <1>3, GrowSet
<1> QED BY <1>4 DEF Sum

(* Any term can be taken out of a sum.                                       *)
LEMMA SumWithout ==
  ASSUME NEW S, IsFiniteSet(S), NEW f, \A x \in S : f[x] \in Nat
  PROVE  \A x \in S : SumFunctionOnSet(f, S) = f[x] + SumFunctionOnSet(f, S \ {x})
<1> DEFINE Sum(s) == SumFunctionOnSet(f, s)
           P == {s \in SUBSET S : \A x \in s : Sum(s) = f[x] + Sum(s \ {x})}
<1>1. \A s \in SUBSET S :
        /\ IsFiniteSet(s) /\ Sum(s) \in Nat
        /\ Sum(s) = IF s = {} THEN 0 ELSE f[AnyOf(s)] + Sum(s \ {AnyOf(s)})
  BY FS_Subset, SumUnrolls, SumType
<1> HIDE DEF Sum
<1>2. {} \in P
  OBVIOUS
<1>3. ASSUME NEW s \in SUBSET S, s # {}, \A x \in s : s \ {x} \in P
      PROVE  s \in P
  <2> DEFINE a == AnyOf(s)
  <2>1. a \in s
    BY <1>3 DEF AnyOf
  <2>2. Sum(s) = f[a] + Sum(s \ {a})
    BY <1>1, <1>3
  <2> HIDE DEF a
  <2>3. ASSUME NEW x \in s, x # a PROVE Sum(s) = f[x] + Sum(s \ {x})
    <3> DEFINE both == s \ {a, x}
    <3>1. (s \ {a}) \ {x} = both /\ (s \ {x}) \ {a} = both /\ both \in SUBSET S
      OBVIOUS
    <3>2. Sum(s \ {a}) = f[x] + Sum(both)
      BY <1>3, <2>1, <2>3, <3>1
    <3>3. Sum(s \ {x}) = f[a] + Sum(both)
      BY <1>3, <2>1, <2>3, <3>1
    <3>4. Sum(both) \in Nat /\ f[a] \in Nat /\ f[x] \in Nat
      BY <1>1, <2>1, <3>1
    <3> HIDE DEF both, P
    <3> QED BY <2>2, <3>2, <3>3, <3>4
  <2> QED BY <2>2, <2>3
<1>4. S \in P
  <2> HIDE DEF P
  <2> QED BY <1>2, <1>3, GrowSet
<1> QED BY <1>4 DEF Sum

(* The sum over two sets that have no element in common.                     *)
LEMMA SumSplit ==
  ASSUME NEW A, IsFiniteSet(A), NEW B, IsFiniteSet(B), A \cap B = {},
         NEW f, \A x \in A \cup B : f[x] \in Nat
  PROVE  SumFunctionOnSet(f, A \cup B) = SumFunctionOnSet(f, A) + SumFunctionOnSet(f, B)
<1> DEFINE Sum(s) == SumFunctionOnSet(f, s)
           P == {s \in SUBSET A : Sum(s \cup B) = Sum(s) + Sum(B)}
<1>1. \A s \in SUBSET (A \cup B) :
        Sum(s) \in Nat /\ \A x \in s : Sum(s) = f[x] + Sum(s \ {x})
  <2>1. IsFiniteSet(A \cup B)
    BY FS_Union
  <2>2. \A s \in SUBSET (A \cup B) : IsFiniteSet(s)
    BY <2>1, FS_Subset
  <2> QED BY <2>2, SumType, SumWithout
<1>2. {} \in P
  <2>1. Sum({}) = 0
    BY SumUnrolls, FS_EmptySet
  <2>2. {} \cup B = B /\ Sum(B) \in Nat
    BY <1>1
  <2> HIDE DEF Sum
  <2> QED BY <2>1, <2>2
<1> HIDE DEF Sum
<1>3. ASSUME NEW s \in SUBSET A, s # {}, \A x \in s : s \ {x} \in P
      PROVE  s \in P
  <2>1. PICK x \in s : TRUE
    BY <1>3
  <2> DEFINE r == s \ {x}
  <2>2. (s \cup B) \ {x} = r \cup B /\ x \in s \cup B
    OBVIOUS
  <2>3. Sum(r \cup B) = Sum(r) + Sum(B)
    BY <1>3
  <2>4. Sum(s \cup B) = f[x] + Sum(r \cup B) /\ Sum(s) = f[x] + Sum(r)
    BY <1>1, <2>2
  <2>5. Sum(r) \in Nat /\ Sum(B) \in Nat /\ f[x] \in Nat
    BY <1>1
  <2> HIDE DEF r
  <2>6. Sum(s \cup B) = Sum(s) + Sum(B)
    BY <2>3, <2>4, <2>5
  <2> QED BY <2>6
<1>4. A \in P
  <2> HIDE DEF P
  <2> QED BY <1>2, <1>3, GrowSet
<1> QED BY <1>4 DEF Sum

(* The sum of equal terms.                                                   *)
LEMMA SumConstant ==
  ASSUME NEW S, IsFiniteSet(S), NEW c \in Nat, NEW f, \A x \in S : f[x] = c
  PROVE  SumFunctionOnSet(f, S) = c * Cardinality(S)
<1> DEFINE Sum(s) == SumFunctionOnSet(f, s)
           P == {s \in SUBSET S : Sum(s) = c * Cardinality(s)}
<1>1. \A s \in SUBSET S :
        /\ IsFiniteSet(s) /\ Cardinality(s) \in Nat
        /\ Sum(s) = IF s = {} THEN 0 ELSE f[AnyOf(s)] + Sum(s \ {AnyOf(s)})
  BY FS_Subset, FS_CardinalityType, SumUnrolls
<1> HIDE DEF Sum
<1>2. {} \in P
  <2>1. Sum({}) = 0 /\ Cardinality({}) = 0
    BY <1>1, FS_EmptySet
  <2> QED BY <2>1
<1>3. ASSUME NEW s \in SUBSET S, s # {}, \A x \in s : s \ {x} \in P
      PROVE  s \in P
  <2> DEFINE a == AnyOf(s)
             k == Cardinality(s)
  <2>1. a \in s /\ Cardinality(s \ {a}) = k - 1 /\ k \in Nat
    BY <1>1, <1>3, AnyOfLeaves
  <2>2. Sum(s) = f[a] + Sum(s \ {a})
    BY <1>1, <1>3
  <2>3. Sum(s \ {a}) = c * (k - 1) /\ f[a] = c
    BY <1>3, <2>1
  <2> HIDE DEF a, k
  <2>4. c + c * (k - 1) = c * k
    BY <2>1
  <2>5. Sum(s) = c * k
    BY <2>2, <2>3, <2>4
  <2> QED BY <2>5 DEF k
<1>4. S \in P
  <2> HIDE DEF P
  <2> QED BY <1>2, <1>3, GrowSet
<1> QED BY <1>4 DEF Sum
=============================================================================
