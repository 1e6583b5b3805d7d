--------------------------- MODULE Tracking_proofs ----------------------------
(***************************************************************************)
(* What is logged during a run.  First the log of LogUpdateHelper: for     *)
(* every set of values, every time bound and any number of Finalize calls  *)
(* it is exact.  Then the trackings of the links, whose logs of queues are *)
(* kept by that helper: the busy time of the device, and how the files of  *)
(* the three trackings fit together.  The two specifications have no       *)
(* variable in common: each theorem is about one of them.                  *)
(***************************************************************************)
EXTENDS LogUpdateHelper, LinkTracking, Lists_proofs

Triple == Time \X Time \X (Value \cup {Unset})
Line   == Time \X (Value \cup {Unset})

(***************************************************************************)
(* Appending the interval that starts where the log ends keeps an encoding *)
(* an encoding (log-update-helper.h:117-120, 162-164, 175-195).            *)
(***************************************************************************)
Extensible(l, sig, a, b, c, v) ==
  /\ l \in Seq(Triple) /\ sig \in [Time -> Value]
  /\ a \in Time /\ b \in Time /\ c \in Time /\ v \in Value \cup {Unset}
  /\ Encodes(l, sig, a, b) /\ a <= b /\ b < c
  /\ \A u \in Time : b <= u /\ u < c => sig[u] = v
  /\ l = <<>> => a = b
  /\ l # <<>> => Right(l[Len(l)]) = b /\ Val(l[Len(l)]) # v

EndsAt(l, b, v) == l # <<>> /\ Right(l[Len(l)]) = b /\ Val(l[Len(l)]) = v

LEMMA AppendEncodes ==
  ASSUME NEW l, NEW sig, NEW a, NEW b, NEW c, NEW v, Extensible(l, sig, a, b, c, v),
         NEW m, m = l \o << <<b, c, v>> >>
  PROVE  m \in Seq(Triple) /\ Encodes(m, sig, a, c) /\ EndsAt(m, c, v)
<1> DEFINE iv == <<b, c, v>>
<1>a. /\ l \in Seq(Triple) /\ a \in Time /\ b \in Time /\ c \in Time /\ v \in Value \cup {Unset}
      /\ a <= b /\ b < c
      /\ l # <<>> => Right(l[Len(l)]) = b /\ Val(l[Len(l)]) # v
  BY DEF Extensible
<1>b. /\ sig \in [Time -> Value] /\ Encodes(l, sig, a, b)
      /\ \A u \in Time : b <= u /\ u < c => sig[u] = v
  BY DEF Extensible
<1>0. a \in Int /\ b \in Int /\ c \in Int
  BY <1>a, LogAssumption DEF Time
<1>1. iv \in Triple /\ Left(iv) = b /\ Right(iv) = c /\ Val(iv) = v
  BY <1>a DEF Triple, Left, Right, Val
<1>2. /\ m \in Seq(Triple) /\ Len(m) = Len(l) + 1
      /\ m[Len(l) + 1] = iv
      /\ \A i \in 1 .. Len(l) : m[i] = l[i]
      /\ DOMAIN m = 1 .. Len(l) + 1 /\ DOMAIN l = 1 .. Len(l)
      /\ Len(l) \in Nat
  BY <1>1, <1>a
<1> HIDE DEF iv
<1>3. NonEmpty(m)
  <2> SUFFICES ASSUME NEW i \in DOMAIN m PROVE Left(m[i]) < Right(m[i])
    BY DEF NonEmpty
  <2>1. CASE i = Len(l) + 1
    BY <1>1, <1>2, <1>a, <2>1
  <2>2. CASE i # Len(l) + 1
    BY <1>2, <1>b, <2>2 DEF Encodes, NonEmpty
  <2> QED BY <2>1, <2>2
<1>4. Adjoining(m) /\ Merged(m)
  <2> SUFFICES ASSUME NEW i \in DOMAIN m \ {1}
               PROVE  Right(m[i - 1]) = Left(m[i]) /\ Val(m[i - 1]) # Val(m[i])
    BY DEF Adjoining, Merged
  <2>1. CASE i = Len(l) + 1
    <3>1. l # <<>> /\ m[i - 1] = l[Len(l)]
      BY <1>2, <2>1
    <3> QED BY <3>1, <2>1, <1>1, <1>2, <1>a
  <2>2. CASE i # Len(l) + 1
    <3>1. i \in DOMAIN l \ {1} /\ m[i] = l[i] /\ m[i - 1] = l[i - 1]
      BY <1>2, <2>2
    <3> QED BY <3>1, <1>b DEF Encodes, Adjoining, Merged
  <2> QED BY <2>1, <2>2
<1>5. Truthful(m, sig)
  <2> SUFFICES ASSUME NEW i \in DOMAIN m, NEW u \in Time,
                      Left(m[i]) <= u, u < Right(m[i])
               PROVE  sig[u] = Val(m[i])
    BY <1>b DEF Truthful
  <2>1. CASE i = Len(l) + 1
    BY <1>1, <1>2, <1>b, <2>1
  <2>2. CASE i # Len(l) + 1
    BY <1>2, <1>b, <2>2 DEF Encodes, Truthful
  <2> QED BY <2>1, <2>2
<1>6. Covers(m, a, c)
  <2> SUFFICES ASSUME NEW u \in a .. c - 1
               PROVE  \E i \in DOMAIN m : Left(m[i]) <= u /\ u < Right(m[i])
    BY DEF Covers
  <2>1. CASE u < b
    <3>1. u \in a .. b - 1
      BY <1>0, <2>1
    <3>2. PICK i \in DOMAIN l : Left(l[i]) <= u /\ u < Right(l[i])
      BY <3>1, <1>b DEF Encodes, Covers
    <3>3. i \in DOMAIN m /\ m[i] = l[i]
      BY <1>2
    <3> QED BY <3>2, <3>3
  <2>2. CASE u >= b
    <3>1. Len(l) + 1 \in DOMAIN m /\ Left(iv) <= u /\ u < Right(iv)
      BY <1>0, <1>1, <1>2, <2>2
    <3> QED BY <3>1, <1>2
  <2>3. u < b \/ u >= b
    BY <1>0
  <2> QED BY <2>1, <2>2, <2>3
<1>7. Within(m, a, c)
  <2> SUFFICES ASSUME NEW i \in DOMAIN m
               PROVE  a <= Left(m[i]) /\ Right(m[i]) <= c
    BY DEF Within
  <2>1. CASE i = Len(l) + 1
    BY <1>0, <1>1, <1>2, <1>a, <2>1
  <2>2. CASE i # Len(l) + 1
    <3>1. i \in DOMAIN l /\ m[i] = l[i] /\ l[i] \in Triple
      BY <1>2, <1>a, <2>2
    <3>2. a <= Left(l[i]) /\ Right(l[i]) <= b /\ Right(l[i]) \in Time
      BY <3>1, <1>b DEF Encodes, Within, Triple, Right
    <3> QED BY <1>0, <1>a, <3>1, <3>2 DEF Time
  <2> QED BY <2>1, <2>2
<1>8. Encodes(m, sig, a, c)
  BY <1>3, <1>4, <1>5, <1>6, <1>7 DEF Encodes
<1>9. EndsAt(m, c, v)
  BY <1>1, <1>2 DEF EndsAt
<1> QED BY <1>2, <1>8, <1>9

(***************************************************************************)
(* An encoding of the past does not notice a change of the signal from t   *)
(* on (Update overwrites the signal only from its own time on).            *)
(***************************************************************************)
LEMMA PastIsSettled ==
  ASSUME NEW l \in Seq(Triple), NEW sig \in [Time -> Value],
         NEW new \in [Time -> Value],
         NEW a \in Time, NEW b \in Time, NEW t \in Time, b <= t,
         Encodes(l, sig, a, b),
         \A u \in Time : u < t => new[u] = sig[u]
  PROVE  Encodes(l, new, a, b)
<1>1. Truthful(l, new)
  <2> SUFFICES ASSUME NEW i \in DOMAIN l, NEW u \in Time,
                      Left(l[i]) <= u, u < Right(l[i])
               PROVE  new[u] = Val(l[i])
    BY DEF Truthful
  <2>1. Right(l[i]) <= b /\ Right(l[i]) \in Time
    BY DEF Encodes, Within, Triple, Right
  <2>2. u < t
    BY <2>1 DEF Time
  <2> QED BY <2>2 DEF Encodes, Truthful
<1> QED BY <1>1 DEF Encodes

(* Pushing two intervals is pushing the one and then the other. *)
LEMMA TwoAppends ==
  ASSUME NEW S, NEW s \in Seq(S), NEW x \in S, NEW y \in S
  PROVE  s \o <<x, y>> = (s \o <<x>>) \o <<y>>
<1>1. s \o <<x, y>> \in Seq(S) /\ (s \o <<x>>) \o <<y>> \in Seq(S)
  OBVIOUS
<1>2. Len(s \o <<x, y>>) = Len((s \o <<x>>) \o <<y>>)
  OBVIOUS
<1>3. \A i \in 1 .. Len(s \o <<x, y>>) : (s \o <<x, y>>)[i] = ((s \o <<x>>) \o <<y>>)[i]
  OBVIOUS
<1> QED BY <1>1, <1>2, <1>3, SeqEqual

(* The empty log encodes the empty span. *)
LEMMA EmptyEncodes ==
  ASSUME NEW sig, NEW a \in Time
  PROVE  Encodes(<<>>, sig, a, a)
BY DEF Encodes, NonEmpty, Adjoining, Merged, Truthful, Covers, Within, Time

------------------------------------------------------------------------------
(* Writing well-typed entries keeps both sinks well typed. *)
LEMMA SinkTypes ==
  ASSUME TypeOK
  PROVE  /\ \A ivs \in Seq(Triple) : PushToMemory(ivs) => log' \in Seq(Triple)
         /\ \A lines \in Seq(Line) : WriteLines(lines) => file' \in Seq(Line)
<1>1. log \in Seq(Triple) /\ file \in Seq(Line)
  BY DEF TypeOK, Triple, Line
<1>2. ASSUME NEW ivs \in Seq(Triple), PushToMemory(ivs)
      PROVE  log' \in Seq(Triple)
  BY <1>1, <1>2 DEF PushToMemory
<1>3. ASSUME NEW lines \in Seq(Line), WriteLines(lines)
      PROVE  file' \in Seq(Line)
  BY <1>1, <1>3 DEF WriteLines
<1> QED BY <1>2, <1>3

(***************************************************************************)
(* TypeCorrect: every field of the helper keeps its type                   *)
(* (log-update-helper.h:39-52).                                            *)
(***************************************************************************)
THEOREM TypeCorrect == Spec => []TypeOK
<1> USE LogAssumption
<1>1. Init => TypeOK
  BY DEF Init, TypeOK, Time
<1>2. TypeOK /\ [Next]_vars => TypeOK'
  <2> SUFFICES ASSUME TypeOK, [Next]_vars PROVE TypeOK'
    OBVIOUS
  <2>1. ASSUME NEW t \in Time, NEW v \in Value, Update(t, v)
        PROVE  TypeOK'
    <3>1. /\ log' \in Seq(Time \X Time \X (Value \cup {Unset}))
          /\ file' \in Seq(Time \X (Value \cup {Unset}))
          /\ alphaValue' \in Value \cup {Unset}
          /\ alphaLeft' \in Time \cup {-1} /\ betaLeft' \in Time \cup {-1}
      <4>1. CASE SameInstant(t)
        BY <4>1 DEF SameInstant, TypeOK
      <4>2. CASE StartAlpha(t)
        BY <4>2 DEF StartAlpha, TypeOK
      <4>3. CASE StartBeta(t)
        BY <4>3 DEF StartBeta, TypeOK
      <4>4. CASE MergeBeta(t)
        BY <4>4 DEF MergeBeta, TypeOK
      <4>5. CASE FlushAlpha(t)
        <5>1. << <<alphaLeft, betaLeft, alphaValue>> >> \in Seq(Triple)
          BY <4>5 DEF FlushAlpha, TypeOK, Triple
        <5>2. << <<alphaLeft, alphaValue>> >> \in Seq(Line)
          BY <4>5 DEF FlushAlpha, TypeOK, Line
        <5>3. log' \in Seq(Triple) /\ file' \in Seq(Line)
          BY <4>5, <5>1, <5>2, SinkTypes DEF FlushAlpha
        <5> QED BY <4>5, <5>3 DEF FlushAlpha, TypeOK, Triple, Line
      <4> QED BY <2>1, <4>1, <4>2, <4>3, <4>4, <4>5 DEF Update, NewInstant
    <3> QED BY <2>1, <3>1 DEF Update, RecordUpdate, TypeOK
  <2>2. ASSUME NEW t \in Time, Finalize(t)
        PROVE  TypeOK'
    <3>1. /\ log' \in Seq(Time \X Time \X (Value \cup {Unset}))
          /\ file' \in Seq(Time \X (Value \cup {Unset}))
      <4> USE DEF TypeOK, Triple, Line
      <4>1. CASE CloseNothing
        BY <4>1 DEF CloseNothing
      <4>2. CASE CloseOnlyAlpha(t)
        <5>1. CASE alphaLeft # t
          <6>1. << <<alphaLeft, lastValue>>, <<t, lastValue>> >> \in Seq(Line)
            BY <4>2 DEF CloseOnlyAlpha
          <6>2. << <<alphaLeft, t, lastValue>> >> \in Seq(Triple)
            BY <4>2 DEF CloseOnlyAlpha
          <6> QED BY <4>2, <5>1, <6>1, <6>2, SinkTypes DEF CloseOnlyAlpha
        <5> QED BY <4>2, <5>1 DEF CloseOnlyAlpha
      <4>3. CASE CloseMerged(t)
        <5>1. << <<alphaLeft, alphaValue>>, <<t, alphaValue>> >> \in Seq(Line)
          BY <4>3 DEF CloseMerged
        <5>2. << <<alphaLeft, t, alphaValue>> >> \in Seq(Triple)
          BY <4>3 DEF CloseMerged
        <5> QED BY <4>3, <5>1, <5>2, SinkTypes DEF CloseMerged
      <4>4. CASE CloseBoth(t)
        <5>1. << <<alphaLeft, alphaValue>>, <<betaLeft, lastValue>>, <<t, lastValue>> >>
                \in Seq(Line)
          BY <4>4 DEF CloseBoth
        <5>2. << <<alphaLeft, alphaValue>>, <<betaLeft, alphaValue>> >> \in Seq(Line)
          BY <4>4 DEF CloseBoth
        <5>3. << <<alphaLeft, betaLeft, alphaValue>>, <<betaLeft, t, lastValue>> >>
                \in Seq(Triple)
          BY <4>4 DEF CloseBoth
        <5>4. << <<alphaLeft, betaLeft, alphaValue>> >> \in Seq(Triple)
          BY <4>4 DEF CloseBoth
        <5> QED BY <4>4, <5>1, <5>2, <5>3, <5>4, SinkTypes DEF CloseBoth
      <4> QED BY <2>2, <4>1, <4>2, <4>3, <4>4 DEF Finalize
    <3>2. finalizes' \in 0 .. MaxFinalize
      BY <2>2 DEF Finalize, TypeOK
    <3>3. /\ end' \in Time \cup {-1} /\ status' \in {"recording", "finalized", "spent"}
          /\ open' \in BOOLEAN /\ threw' \in BOOLEAN
      BY <2>2 DEF Finalize, TypeOK
    <3> QED BY <2>2, <3>1, <3>2, <3>3 DEF Finalize, TypeOK
  <2>3. ASSUME NEW t \in Time \cup {-1}, Refuse(t)
        PROVE  TypeOK'
    BY <2>3 DEF Refuse, state, history, TypeOK
  <2>4. CASE UNCHANGED vars
    BY <2>4 DEF vars, TypeOK
  <2> QED BY <2>1, <2>2, <2>3, <2>4 DEF Next
<1> QED BY <1>1, <1>2, PTL DEF Spec

------------------------------------------------------------------------------
(***************************************************************************)
(* Recording.  An update at time t leaves the signal before t alone, and   *)
(* the stamps say that everything flushed lies before lastCheck <= t.      *)
(***************************************************************************)
IInv == TypeOK /\ PendingEncodesSignal /\ FinalLogExact

LEMMA UpdateKeepsPending ==
  ASSUME TypeOK, PendingEncodesSignal, SaveInMemory, status = "recording",
         NEW t \in Time, NEW v \in Value, Update(t, v)
  PROVE  Stamps' /\ OpenIntervals' /\ Flushed'
<1> USE LogAssumption
<1>1. /\ t >= lastCheck /\ lastCheck' = t /\ lastValue' = v
      /\ signal' = [u \in Time |-> IF u >= t THEN v ELSE signal[u]]
      /\ first' = IF first = -1 THEN t ELSE first
  BY DEF Update, RecordUpdate
<1>2. Stamps /\ OpenIntervals /\ Flushed
  BY DEF PendingEncodesSignal
<1>3. /\ signal \in [Time -> Value] /\ signal' \in [Time -> Value]
      /\ \A u \in Time : u < t => signal'[u] = signal[u]
      /\ \A u \in Time : u >= t => signal'[u] = v
      /\ log \in Seq(Triple)
  BY <1>1 DEF TypeOK, Triple, Time
<1>4. CASE SameInstant(t)
  <2>1. Stamps'
    BY <1>1, <1>2, <1>4 DEF SameInstant, Stamps, TypeOK, Time
  <2>2. OpenIntervals'
    BY <1>1, <1>2, <1>3, <1>4 DEF SameInstant, OpenIntervals, Stamps, TypeOK, Time
  <2>3. Flushed'
    <3>1. ASSUME alphaLeft # -1
          PROVE  Encodes(log, signal', first, alphaLeft)
      <4>1. first \in Time /\ alphaLeft \in Time /\ alphaLeft <= t
        BY <1>1, <1>2, <3>1 DEF Stamps, TypeOK, Time
      <4> QED BY <1>2, <1>3, <3>1, <4>1, PastIsSettled DEF Flushed
    <3>2. first' = first \/ alphaLeft = -1
      BY <1>1, <1>2 DEF Stamps
    <3> QED BY <1>2, <1>4, <3>1, <3>2 DEF SameInstant, Flushed
  <2> QED BY <2>1, <2>2, <2>3
<1>5. CASE t > lastCheck /\ StartAlpha(t)
  <2>1. Stamps'
    BY <1>1, <1>2, <1>5 DEF StartAlpha, Stamps, TypeOK, Time
  <2>2. OpenIntervals'
    BY <1>1, <1>2, <1>3, <1>5 DEF StartAlpha, OpenIntervals, Stamps, TypeOK, Time
  <2>3. log' = <<>> /\ first' = t /\ alphaLeft' = t
    BY <1>1, <1>2, <1>5 DEF StartAlpha, Stamps, Flushed
  <2> QED BY <2>1, <2>2, <2>3, EmptyEncodes DEF Flushed
<1>6. CASE t > lastCheck /\ StartBeta(t)
  <2>1. Stamps'
    BY <1>1, <1>2, <1>6 DEF StartBeta, Stamps, TypeOK, Time
  <2>2. OpenIntervals'
    BY <1>1, <1>2, <1>3, <1>6 DEF StartBeta, OpenIntervals, Stamps, TypeOK, Time
  <2>3. log' = <<>> /\ log = <<>> /\ alphaLeft' = alphaLeft /\ first' = first
        /\ first \in Time /\ alphaLeft \in Time /\ alphaLeft <= t
    BY <1>1, <1>2, <1>6 DEF StartBeta, Stamps, Flushed, TypeOK, Time
  <2>4. Encodes(log, signal', first, alphaLeft)
    BY <1>2, <1>3, <1>6, <2>3, PastIsSettled DEF Flushed, StartBeta
  <2> QED BY <2>1, <2>2, <2>3, <2>4 DEF Flushed
<1>7. CASE t > lastCheck /\ MergeBeta(t)
  <2>1. Stamps'
    BY <1>1, <1>2, <1>7 DEF MergeBeta, Stamps, TypeOK, Time
  <2>2. OpenIntervals'
    BY <1>1, <1>2, <1>3, <1>7 DEF MergeBeta, OpenIntervals, Stamps, TypeOK, Time
  <2>3. log' = log /\ alphaLeft' = alphaLeft /\ alphaValue' = alphaValue /\ first' = first
        /\ first \in Time /\ alphaLeft \in Time /\ alphaLeft <= t /\ alphaLeft # -1
        /\ betaLeft # -1 /\ betaLeft' # -1
    BY <1>1, <1>2, <1>7 DEF MergeBeta, Stamps, TypeOK, Time
  <2>4. Encodes(log, signal', first, alphaLeft)
    BY <1>2, <1>3, <2>3, PastIsSettled DEF Flushed
  <2> QED BY <1>2, <2>1, <2>2, <2>3, <2>4 DEF Flushed
<1>8. CASE t > lastCheck /\ FlushAlpha(t)
  <2>1. Stamps'
    BY <1>1, <1>2, <1>8 DEF FlushAlpha, Stamps, TypeOK, Time
  <2>2. OpenIntervals'
    BY <1>1, <1>2, <1>3, <1>8 DEF FlushAlpha, OpenIntervals, Stamps, TypeOK, Time
  <2>3. /\ log' = log \o << <<alphaLeft, betaLeft, alphaValue>> >>
        /\ alphaLeft' = betaLeft /\ alphaValue' = lastValue /\ betaLeft' = t /\ first' = first
        /\ first \in Time /\ alphaLeft \in Time /\ betaLeft \in Time /\ alphaLeft < betaLeft
        /\ first <= alphaLeft /\ betaLeft < t /\ alphaValue # lastValue
        /\ alphaValue \in Value \cup {Unset} /\ alphaLeft # -1 /\ betaLeft # -1
    BY <1>1, <1>2, <1>8 DEF FlushAlpha, PushToMemory, Stamps, TypeOK, Time
  <2>4. Encodes(log, signal', first, alphaLeft)
    <3>1. alphaLeft <= t
      BY <2>3 DEF Time
    <3> QED BY <1>2, <1>3, <2>3, <3>1, PastIsSettled DEF Flushed
  <2>5. \A u \in Time : alphaLeft <= u /\ u < betaLeft => signal'[u] = alphaValue
    BY <1>2, <1>3, <2>3 DEF OpenIntervals, Time
  <2>6. log = <<>> => first = alphaLeft
    BY <2>3, <2>4 DEF Encodes, Covers, Time
  <2>7. log # <<>> => Right(log[Len(log)]) = alphaLeft /\ Val(log[Len(log)]) # alphaValue
    BY <1>2 DEF Flushed
  <2>8. Encodes(log', signal', first, betaLeft) /\ EndsAt(log', betaLeft, alphaValue)
    <3>1. Extensible(log, signal', first, alphaLeft, betaLeft, alphaValue)
      BY <1>3, <2>3, <2>4, <2>5, <2>6, <2>7 DEF Extensible
    <3> QED BY <2>3, <3>1, AppendEncodes
  <2>9. t # -1
    BY DEF Time
  <2> QED BY <2>1, <2>2, <2>3, <2>8, <2>9 DEF Flushed, EndsAt
<1> QED BY <1>4, <1>5, <1>6, <1>7, <1>8 DEF Update, NewInstant

(***************************************************************************)
(* Finalizing.  The held-back intervals end where the finalization begins. *)
(***************************************************************************)
LEMMA FinalizeEncodes ==
  ASSUME TypeOK, PendingEncodesSignal, SaveInMemory, status = "recording",
         NEW t \in Time, Finalize(t)
  PROVE  IF first = -1 THEN log' = <<>> ELSE Encodes(log', signal, first, t)
<1>1. Stamps /\ OpenIntervals /\ Flushed /\ t >= lastCheck
  BY DEF PendingEncodesSignal, Finalize
<1>2. signal \in [Time -> Value] /\ log \in Seq(Triple)
  BY DEF TypeOK, Triple
<1>3. CASE CloseNothing
  BY <1>1, <1>3 DEF CloseNothing, Stamps, Flushed
<1>4. ASSUME alphaLeft # -1
      PROVE  /\ first \in Time /\ alphaLeft \in Time /\ first <= alphaLeft
             /\ lastCheck \in Time /\ alphaLeft <= lastCheck /\ first # -1
             /\ Encodes(log, signal, first, alphaLeft)
             /\ log = <<>> => first = alphaLeft
             /\ log # <<>> => Right(log[Len(log)]) = alphaLeft /\ Val(log[Len(log)]) # alphaValue
             /\ \A u \in Time : u >= lastCheck => signal[u] = lastValue
  <2>1. Encodes(log, signal, first, alphaLeft)
    BY <1>1, <1>4 DEF Flushed
  <2>2. /\ first \in Time /\ alphaLeft \in Time /\ first <= alphaLeft
        /\ lastCheck \in Time /\ alphaLeft <= lastCheck /\ first # -1
    BY <1>1, <1>4 DEF Stamps, TypeOK, Time
  <2>3. log = <<>> => first = alphaLeft
    BY <2>1, <2>2 DEF Encodes, Covers, Time
  <2> QED BY <1>1, <1>4, <2>1, <2>2, <2>3 DEF Flushed, OpenIntervals
<1>5. CASE CloseOnlyAlpha(t)
  <2>1. log = <<>> /\ alphaLeft # -1 /\ alphaLeft = lastCheck
    BY <1>1, <1>5 DEF CloseOnlyAlpha, Flushed, Stamps
  <2>2. CASE alphaLeft = t
    <3>1. log' = log
      BY <1>5, <2>2 DEF CloseOnlyAlpha
    <3> QED BY <1>4, <2>1, <2>2, <3>1
  <2>3. CASE alphaLeft # t
    <3>1. log' = log \o << <<alphaLeft, t, lastValue>> >> /\ alphaLeft < t
      BY <1>1, <1>5, <2>1, <2>3, <1>4 DEF CloseOnlyAlpha, PushToMemory, Time
    <3>2. \A u \in Time : alphaLeft <= u /\ u < t => signal[u] = lastValue
      BY <1>4, <2>1
    <3>3. lastValue \in Value \cup {Unset}
      BY DEF TypeOK
    <3>4. Encodes(log', signal, first, t)
      <4>1. first \in Time /\ alphaLeft \in Time /\ first <= alphaLeft
            /\ Encodes(log, signal, first, alphaLeft) /\ first = alphaLeft
        BY <1>4, <2>1
      <4>2. Extensible(log, signal, first, alphaLeft, t, lastValue)
        BY <1>2, <2>1, <3>1, <3>2, <3>3, <4>1 DEF Extensible
      <4> QED BY <3>1, <4>2, AppendEncodes
    <3> QED BY <1>4, <2>1, <3>1, <3>4
  <2> QED BY <2>2, <2>3
<1>6. CASE alphaLeft # -1 /\ betaLeft # -1
  <2>1. /\ betaLeft \in Time /\ alphaLeft < betaLeft /\ betaLeft = lastCheck /\ betaLeft <= t
        /\ alphaValue \in Value \cup {Unset} /\ lastValue \in Value \cup {Unset}
        /\ \A u \in Time : alphaLeft <= u /\ u < betaLeft => signal[u] = alphaValue
    BY <1>1, <1>6 DEF Stamps, OpenIntervals, TypeOK, Time
  <2>2. CASE CloseMerged(t)
    <3>1. log' = log \o << <<alphaLeft, t, alphaValue>> >> /\ alphaLeft < t
      BY <1>4, <1>6, <2>1, <2>2 DEF CloseMerged, PushToMemory, Time
    <3>2. \A u \in Time : alphaLeft <= u /\ u < t => signal[u] = alphaValue
      BY <1>4, <1>6, <2>1, <2>2 DEF CloseMerged, Time
    <3>3. Extensible(log, signal, first, alphaLeft, t, alphaValue)
      BY <1>2, <1>4, <1>6, <2>1, <3>1, <3>2 DEF Extensible
    <3> QED BY <1>4, <1>6, <3>1, <3>3, AppendEncodes
  <2>3. CASE CloseBoth(t)
    <3>0. PICK m : m = log \o << <<alphaLeft, betaLeft, alphaValue>> >>
      OBVIOUS
    <3>1. m \in Seq(Triple) /\ Encodes(m, signal, first, betaLeft) /\ EndsAt(m, betaLeft, alphaValue)
      <4>1. /\ first \in Time /\ alphaLeft \in Time /\ first <= alphaLeft
            /\ Encodes(log, signal, first, alphaLeft)
            /\ log = <<>> => first = alphaLeft
            /\ log # <<>> => Right(log[Len(log)]) = alphaLeft /\ Val(log[Len(log)]) # alphaValue
        BY <1>4, <1>6
      <4>2. Extensible(log, signal, first, alphaLeft, betaLeft, alphaValue)
        BY <1>2, <2>1, <4>1 DEF Extensible
      <4> QED BY <3>0, <4>2, AppendEncodes
    <3>2. CASE betaLeft = t
      <4>1. log' = m
        BY <2>3, <3>0, <3>2 DEF CloseBoth, PushToMemory
      <4> QED BY <1>4, <1>6, <3>1, <3>2, <4>1
    <3>3. CASE betaLeft # t
      <4>1. log' = log \o << <<alphaLeft, betaLeft, alphaValue>>, <<betaLeft, t, lastValue>> >>
        BY <2>3, <3>3 DEF CloseBoth, PushToMemory
      <4>2. log' = m \o << <<betaLeft, t, lastValue>> >>
        <5>1. <<alphaLeft, betaLeft, alphaValue>> \in Triple /\ <<betaLeft, t, lastValue>> \in Triple
          BY <1>4, <1>6, <2>1 DEF Triple
        <5>2. \A x, y \in Triple : log \o <<x, y>> = (log \o <<x>>) \o <<y>>
          BY <1>2, TwoAppends
        <5> QED BY <3>0, <4>1, <5>1, <5>2
      <4>3. betaLeft < t /\ first <= betaLeft /\ alphaValue # lastValue
        BY <1>4, <1>6, <2>1, <2>3, <3>3 DEF CloseBoth, Time
      <4>4. \A u \in Time : betaLeft <= u /\ u < t => signal[u] = lastValue
        BY <1>4, <1>6, <2>1
      <4>5. Encodes(log', signal, first, t)
        <5>1. Extensible(m, signal, first, betaLeft, t, lastValue)
          BY <1>2, <1>4, <1>6, <2>1, <3>1, <4>3, <4>4 DEF Extensible, EndsAt
        <5> QED BY <4>2, <5>1, AppendEncodes
      <4> QED BY <1>4, <1>6, <4>2, <4>5
    <3> QED BY <3>2, <3>3
  <2>4. CloseMerged(t) \/ CloseBoth(t)
    BY <1>6 DEF Finalize, CloseNothing, CloseOnlyAlpha
  <2> QED BY <2>2, <2>3, <2>4
<1> QED BY <1>3, <1>5, <1>6 DEF Finalize, CloseMerged, CloseBoth

------------------------------------------------------------------------------
(***************************************************************************)
(* ExactLog: the recorder's invariant and the exactness of the log it      *)
(* hands over (log-update-helper.h:78-216), for all behaviours.            *)
(***************************************************************************)
THEOREM ExactLog == Spec => [](PendingEncodesSignal /\ FinalLogExact)
<1>1. Init => IInv
  <2> SUFFICES ASSUME Init PROVE IInv
    OBVIOUS
  <2>1. TypeOK
    BY LogAssumption DEF Init, TypeOK, Time
  <2>2. Stamps /\ OpenIntervals /\ Flushed
    BY DEF Init, Stamps, OpenIntervals, Flushed
  <2> QED BY <2>1, <2>2 DEF Init, IInv, PendingEncodesSignal, FinalLogExact
<1>2. TypeOK /\ TypeOK' /\ IInv /\ [Next]_vars => IInv'
  <2> SUFFICES ASSUME TypeOK, TypeOK', IInv, [Next]_vars
               PROVE  PendingEncodesSignal' /\ FinalLogExact'
    BY DEF IInv
  <2> USE DEF IInv
  <2>1. ASSUME NEW t \in Time, NEW v \in Value, Update(t, v)
        PROVE  PendingEncodesSignal' /\ FinalLogExact'
    <3>1. status' # "finalized" /\ (status' = "recording" => status = "recording")
      BY <2>1 DEF Update, RecordUpdate
    <3> QED BY <2>1, <3>1, UpdateKeepsPending DEF PendingEncodesSignal, FinalLogExact
  <2>2. ASSUME NEW t \in Time, Finalize(t)
        PROVE  PendingEncodesSignal' /\ FinalLogExact'
    <3>1. /\ status' # "recording" /\ (status' = "finalized" => status = "recording")
          /\ (status = "recording" => end' = t) /\ first' = first /\ signal' = signal
      BY <2>2 DEF Finalize
    <3> QED BY <2>2, <3>1, FinalizeEncodes DEF PendingEncodesSignal, FinalLogExact
  <2>3. ASSUME UNCHANGED <<state, history>>
        PROVE  PendingEncodesSignal' /\ FinalLogExact'
    BY <2>3 DEF state, history, PendingEncodesSignal, FinalLogExact, Stamps, OpenIntervals, Flushed
  <2> QED BY <2>1, <2>2, <2>3 DEF Next, Refuse, vars, state, history
<1> QED BY <1>1, <1>2, TypeCorrect, PTL DEF Spec, IInv

------------------------------------------------------------------------------
(***************************************************************************)
(* The save file.  While recording it has one line per interval flushed.   *)
(***************************************************************************)
LineOf(iv) == <<Left(iv), Val(iv)>>
Mirror(l)  == [i \in 1 .. Len(l) |-> LineOf(l[i])]

FileTracks ==
  SaveInMemory /\ SaveToFile /\ status = "recording" => open /\ file = Mirror(log)

(* Pushing intervals or lines is appending them one by one.                  *)
LEMMA PushIsAppend ==
  ASSUME NEW S, NEW s \in Seq(S)
  PROVE  /\ \A x \in S : s \o <<x>> = Append(s, x)
         /\ \A x, y \in S : s \o <<x, y>> = Append(Append(s, x), y)
         /\ \A x, y, z \in S : s \o <<x, y, z>> = Append(Append(Append(s, x), y), z)
<1>1. ASSUME NEW x \in S PROVE s \o <<x>> = Append(s, x)
  OBVIOUS
<1>2. ASSUME NEW x \in S, NEW y \in S
      PROVE  s \o <<x, y>> = Append(Append(s, x), y)
  <2>1. s \o <<x, y>> \in Seq(S) /\ Append(Append(s, x), y) \in Seq(S)
    OBVIOUS
  <2>2. Len(s \o <<x, y>>) = Len(Append(Append(s, x), y))
    OBVIOUS
  <2>3. \A i \in 1 .. Len(s \o <<x, y>>) : (s \o <<x, y>>)[i] = Append(Append(s, x), y)[i]
    OBVIOUS
  <2> QED BY <2>1, <2>2, <2>3, SeqEqual
<1>3. ASSUME NEW x \in S, NEW y \in S, NEW z \in S
      PROVE  s \o <<x, y, z>> = Append(Append(Append(s, x), y), z)
  <2>1. PICK u : u = Append(Append(s, x), y)
    OBVIOUS
  <2>2. /\ u \in Seq(S) /\ Len(u) = Len(s) + 2 /\ u[Len(s) + 1] = x /\ u[Len(s) + 2] = y
        /\ \A i \in 1 .. Len(s) : u[i] = s[i]
    BY <2>1
  <2>3. PICK whole : whole = s \o <<x, y, z>>
    OBVIOUS
  <2>4. /\ whole \in Seq(S) /\ Len(whole) = Len(s) + 3 /\ whole[Len(s) + 3] = z
        /\ whole[Len(s) + 1] = x /\ whole[Len(s) + 2] = y
        /\ \A i \in 1 .. Len(s) : whole[i] = s[i]
    BY <2>3
  <2>5. /\ Append(u, z) \in Seq(S) /\ Len(Append(u, z)) = Len(s) + 3
        /\ Append(u, z)[Len(s) + 3] = z
        /\ \A i \in 1 .. Len(s) + 2 : Append(u, z)[i] = u[i]
    BY <2>2
  <2>6. ASSUME NEW i \in 1 .. Len(whole) PROVE whole[i] = Append(u, z)[i]
    <3>1. \/ i \in 1 .. Len(s)
          \/ i \in {Len(s) + 1, Len(s) + 2, Len(s) + 3}
      BY <2>4
    <3> QED BY <2>2, <2>4, <2>5, <3>1
  <2>7. whole = Append(u, z)
    BY <2>4, <2>5, <2>6, SeqEqual
  <2> QED BY <2>1, <2>3, <2>7
<1> QED BY <1>1, <1>2, <1>3

(* The mirror of a longer log is the longer mirror of the log.               *)
LEMMA MirrorAppend ==
  ASSUME NEW l \in Seq(Triple), NEW iv \in Triple
  PROVE  /\ Append(l, iv) \in Seq(Triple) /\ Append(l, iv) # <<>> /\ Last(Append(l, iv)) = iv
         /\ Mirror(Append(l, iv)) = Append(Mirror(l), LineOf(iv))
         /\ Mirror(l) \in Seq(Line)
<1>1. \A x \in Triple : LineOf(x) \in Line
  BY DEF Triple, Line, LineOf, Left, Val
<1>2. PICK m : m = Append(l, iv)
  OBVIOUS
<1>3. /\ m \in Seq(Triple) /\ Len(m) = Len(l) + 1 /\ Len(l) \in Nat /\ m[Len(l) + 1] = iv
      /\ \A i \in 1 .. Len(l) : m[i] = l[i]
  BY <1>2
<1>4. ASSUME NEW k \in Seq(Triple)
      PROVE  Mirror(k) \in Seq(Line) /\ Len(Mirror(k)) = Len(k)
  <2>1. \A i \in 1 .. Len(k) : LineOf(k[i]) \in Line
    BY <1>1
  <2>2. Mirror(k) \in [1 .. Len(k) -> Line]
    BY <2>1 DEF Mirror
  <2>3. Len(k) \in Nat
    OBVIOUS
  <2> QED BY <2>2, <2>3, SeqDef
<1>5. Mirror(l) \in Seq(Line) /\ Len(Mirror(l)) = Len(l)
  BY <1>4
<1>6. Mirror(m) \in Seq(Line) /\ Len(Mirror(m)) = Len(m)
  BY <1>3, <1>4
<1>7. /\ Append(Mirror(l), LineOf(iv)) \in Seq(Line)
      /\ Len(Append(Mirror(l), LineOf(iv))) = Len(l) + 1
      /\ \A i \in 1 .. Len(l) : Append(Mirror(l), LineOf(iv))[i] = Mirror(l)[i]
      /\ Append(Mirror(l), LineOf(iv))[Len(l) + 1] = LineOf(iv)
  BY <1>1, <1>3, <1>5
<1>8. ASSUME NEW i \in 1 .. Len(m)
      PROVE  Mirror(m)[i] = Append(Mirror(l), LineOf(iv))[i]
  <2>1. Mirror(m)[i] = LineOf(m[i])
    BY DEF Mirror
  <2>2. CASE i = Len(l) + 1
    BY <1>3, <1>7, <2>1, <2>2
  <2>3. CASE i # Len(l) + 1
    <3>1. i \in 1 .. Len(l)
      BY <1>3, <2>3
    <3>2. Mirror(l)[i] = LineOf(l[i])
      BY <3>1 DEF Mirror
    <3> QED BY <1>3, <1>7, <2>1, <3>1, <3>2
  <2> QED BY <2>2, <2>3
<1>9. Mirror(m) = Append(Mirror(l), LineOf(iv))
  BY <1>3, <1>6, <1>7, <1>8, SeqEqual
<1>10. m # <<>> /\ Last(m) = iv
  BY <1>3 DEF Last
<1> QED BY <1>2, <1>3, <1>5, <1>9, <1>10

(* The closing line repeats the value of the last interval at its end.       *)
Closed(l, f, t) ==
  IF l = <<>> THEN f = <<>> ELSE f = Append(Mirror(l), <<t, Val(Last(l))>>)

LEMMA ClosedIsMirrored ==
  ASSUME NEW l \in Seq(Triple), NEW f, NEW t \in Time, Closed(l, f, t)
  PROVE  f = Mirror(l) \o (IF l = <<>> THEN <<>> ELSE << <<t, Val(Last(l))>> >>)
<1>1. CASE l = <<>>
  <2>1. Mirror(l) = <<>>
    BY <1>1 DEF Mirror
  <2> QED BY <1>1, <2>1 DEF Closed
<1>2. CASE l # <<>>
  <2>1. \A x \in Triple : LineOf(x) \in Line /\ Val(x) \in Value \cup {Unset}
    BY DEF Triple, Line, LineOf, Left, Val
  <2>2. \A i \in 1 .. Len(l) : LineOf(l[i]) \in Line
    BY <2>1
  <2>3. Mirror(l) \in [1 .. Len(l) -> Line] /\ Len(l) \in Nat
    BY <2>2 DEF Mirror
  <2>4. Mirror(l) \in Seq(Line)
    BY <2>3, SeqDef
  <2>5. Val(Last(l)) \in Value \cup {Unset}
    BY <1>2, <2>1 DEF Last
  <2>6. PICK z \in Line : z = <<t, Val(Last(l))>>
    BY <2>5 DEF Line
  <2>7. \A x \in Line : Mirror(l) \o <<x>> = Append(Mirror(l), x)
    BY <2>4, PushIsAppend
  <2> QED BY <1>2, <2>6, <2>7 DEF Closed
<1> QED BY <1>1, <1>2

LEMMA UpdateMirrors ==
  ASSUME TypeOK, FileTracks, SaveInMemory, SaveToFile, status = "recording",
         NEW t \in Time, NEW v \in Value, Update(t, v)
  PROVE  open' /\ file' = Mirror(log')
<1>1. open /\ open' = open /\ file = Mirror(log)
  BY DEF FileTracks, Update
<1>2. CASE file' = file /\ log' = log
  BY <1>1, <1>2
<1>3. CASE t > lastCheck /\ FlushAlpha(t)
  <2>1. log \in Seq(Triple) /\ file \in Seq(Line)
    BY DEF TypeOK, Triple, Line
  <2>2. /\ alphaLeft \in Time /\ betaLeft \in Time /\ alphaValue \in Value \cup {Unset}
        /\ log' = log \o << <<alphaLeft, betaLeft, alphaValue>> >>
        /\ file' = file \o << <<alphaLeft, alphaValue>> >>
    BY <1>1, <1>3 DEF TypeOK, FlushAlpha, PushToMemory, WriteLines
  <2>3. PICK iv \in Triple : iv = <<alphaLeft, betaLeft, alphaValue>>
    BY <2>2 DEF Triple
  <2>4. LineOf(iv) = <<alphaLeft, alphaValue>> /\ LineOf(iv) \in Line
    BY <2>2, <2>3 DEF LineOf, Line, Left, Val
  <2>5. \A x \in Triple : log \o <<x>> = Append(log, x)
    BY <2>1, PushIsAppend
  <2>6. \A x \in Line : file \o <<x>> = Append(file, x)
    BY <2>1, PushIsAppend
  <2>7. log' = Append(log, iv) /\ file' = Append(file, LineOf(iv))
    BY <2>2, <2>3, <2>4, <2>5, <2>6
  <2>8. Mirror(Append(log, iv)) = Append(Mirror(log), LineOf(iv))
    BY <2>1, MirrorAppend
  <2> QED BY <1>1, <2>7, <2>8
<1> QED BY <1>2, <1>3 DEF Update, SameInstant, NewInstant, StartAlpha, StartBeta, MergeBeta

(* One interval pushed, and its line, and the closing line.                  *)
LEMMA CloseMirrors ==
  ASSUME NEW l \in Seq(Triple), NEW a \in Time, NEW b \in Time, NEW v \in Value \cup {Unset},
         NEW m, m = l \o << <<a, b, v>> >>,
         NEW f, f = Mirror(l) \o << <<a, v>>, <<b, v>> >>
  PROVE  Closed(m, f, b)
<1>1. PICK iv \in Triple : iv = <<a, b, v>>
  BY DEF Triple
<1>2. /\ LineOf(iv) \in Line /\ LineOf(iv) = <<a, v>> /\ Val(iv) = v
  BY <1>1 DEF Line, LineOf, Left, Val
<1>3. PICK z \in Line : z = <<b, v>>
  BY DEF Line
<1>4. m = Append(l, iv)
  <2>1. \A x \in Triple : l \o <<x>> = Append(l, x)
    BY PushIsAppend
  <2> QED BY <1>1, <2>1
<1>5. /\ m # <<>> /\ Last(m) = iv /\ Mirror(m) = Append(Mirror(l), LineOf(iv))
      /\ Mirror(l) \in Seq(Line)
  BY <1>4, MirrorAppend
<1>6. \A x, y \in Line : Mirror(l) \o <<x, y>> = Append(Append(Mirror(l), x), y)
  BY <1>5, PushIsAppend
<1>7. f = Append(Mirror(m), z)
  BY <1>2, <1>3, <1>5, <1>6
<1> QED BY <1>2, <1>3, <1>5, <1>7 DEF Closed

LEMMA FinalizeMirrors ==
  ASSUME TypeOK, PendingEncodesSignal, FileTracks, SaveInMemory, SaveToFile,
         status = "recording", NEW t \in Time, Finalize(t)
  PROVE  Closed(log', file', t)
<1>1. open /\ file = Mirror(log) /\ Flushed
  BY DEF FileTracks, PendingEncodesSignal
<1>2. log \in Seq(Triple) /\ file \in Seq(Line)
  BY DEF TypeOK, Triple, Line
<1>3. lastValue \in Value \cup {Unset} /\ alphaValue \in Value \cup {Unset}
  BY DEF TypeOK
<1>4. CASE log' = <<>> /\ file' = file /\ log = <<>>
  <2>1. file' = <<>>
    BY <1>1, <1>4 DEF Mirror
  <2> QED BY <1>4, <2>1 DEF Closed
<1>5. CASE CloseNothing
  BY <1>1, <1>4, <1>5 DEF CloseNothing, Flushed
<1>6. CASE CloseOnlyAlpha(t)
  <2>1. log = <<>> /\ alphaLeft \in Time
    BY <1>1, <1>6 DEF CloseOnlyAlpha, Flushed, TypeOK
  <2>2. CASE alphaLeft = t
    BY <1>4, <1>6, <2>1, <2>2 DEF CloseOnlyAlpha
  <2>3. CASE alphaLeft # t
    <3>1. /\ log' = log \o << <<alphaLeft, t, lastValue>> >>
          /\ file' = Mirror(log) \o << <<alphaLeft, lastValue>>, <<t, lastValue>> >>
      BY <1>1, <1>6, <2>3 DEF CloseOnlyAlpha, PushToMemory, WriteLines
    <3> QED BY <1>2, <1>3, <2>1, <3>1, CloseMirrors
  <2> QED BY <2>2, <2>3
<1>7. CASE CloseMerged(t)
  <2>1. alphaLeft \in Time
    BY <1>7 DEF CloseMerged, TypeOK
  <2>2. /\ log' = log \o << <<alphaLeft, t, alphaValue>> >>
        /\ file' = Mirror(log) \o << <<alphaLeft, alphaValue>>, <<t, alphaValue>> >>
    BY <1>1, <1>7 DEF CloseMerged, PushToMemory, WriteLines
  <2> QED BY <1>2, <1>3, <2>1, <2>2, CloseMirrors
<1>8. CASE CloseBoth(t)
  <2>1. alphaLeft \in Time /\ betaLeft \in Time
    BY <1>8 DEF CloseBoth, TypeOK
  <2>2. CASE betaLeft = t
    <3>1. /\ log' = log \o << <<alphaLeft, betaLeft, alphaValue>> >>
          /\ file' = Mirror(log) \o << <<alphaLeft, alphaValue>>, <<betaLeft, alphaValue>> >>
      BY <1>1, <1>8, <2>2 DEF CloseBoth, PushToMemory, WriteLines
    <3>2. Closed(log', file', betaLeft)
      BY <1>2, <1>3, <2>1, <3>1, CloseMirrors
    <3> QED BY <2>2, <3>2
  <2>3. CASE betaLeft # t
    <3>1. PICK iv \in Triple : iv = <<alphaLeft, betaLeft, alphaValue>>
      BY <1>3, <2>1 DEF Triple
    <3>2. PICK jv \in Triple : jv = <<betaLeft, t, lastValue>>
      BY <1>3, <2>1 DEF Triple
    <3>3. PICK z \in Line : z = <<t, lastValue>>
      BY <1>3 DEF Line
    <3>4. /\ LineOf(iv) \in Line /\ LineOf(iv) = <<alphaLeft, alphaValue>>
          /\ LineOf(jv) \in Line /\ LineOf(jv) = <<betaLeft, lastValue>> /\ Val(jv) = lastValue
      BY <1>3, <2>1, <3>1, <3>2 DEF Line, LineOf, Left, Val
    <3>5. /\ log' = log \o <<iv, jv>>
          /\ file' = file \o <<LineOf(iv), LineOf(jv), z>>
      BY <1>1, <1>8, <2>3, <3>1, <3>2, <3>3, <3>4 DEF CloseBoth, PushToMemory, WriteLines
    <3>6. log' = Append(Append(log, iv), jv)
      <4>1. \A x, y \in Triple : log \o <<x, y>> = Append(Append(log, x), y)
        BY <1>2, PushIsAppend
      <4> QED BY <3>5, <4>1
    <3>7. file' = Append(Append(Append(file, LineOf(iv)), LineOf(jv)), z)
      <4>1. \A x, y, w \in Line : file \o <<x, y, w>> = Append(Append(Append(file, x), y), w)
        BY <1>2, PushIsAppend
      <4> QED BY <3>4, <3>5, <4>1
    <3>8. /\ Append(log, iv) \in Seq(Triple)
          /\ Mirror(Append(log, iv)) = Append(Mirror(log), LineOf(iv))
      BY <1>2, MirrorAppend
    <3>9. /\ log' # <<>> /\ Last(log') = jv
          /\ Mirror(log') = Append(Mirror(Append(log, iv)), LineOf(jv))
      BY <3>6, <3>8, MirrorAppend
    <3>10. file' = Append(Mirror(log'), z)
      BY <1>1, <3>7, <3>8, <3>9
    <3> QED BY <3>3, <3>4, <3>9, <3>10 DEF Closed
  <2> QED BY <2>2, <2>3
<1> QED BY <1>5, <1>6, <1>7, <1>8 DEF Finalize

(***************************************************************************)
(* FileMirrors: the save file and the log in memory tell the same curve    *)
(* (log-update-helper.h:121-123, 165-168, 189-203).                        *)
(***************************************************************************)
THEOREM FileMirrors == Spec => []FileMirrorsLog
<1> DEFINE Files == FileTracks /\ FileMirrorsLog
<1>1. Init => Files
  <2> SUFFICES ASSUME Init PROVE Files
    OBVIOUS
  <2>1. file = Mirror(log)
    BY DEF Init, Mirror
  <2> QED BY <2>1 DEF Init, FileTracks, FileMirrorsLog
<1>2. TypeOK /\ TypeOK' /\ PendingEncodesSignal /\ Files /\ [Next]_vars => Files'
  <2> SUFFICES ASSUME TypeOK, TypeOK', PendingEncodesSignal, Files, [Next]_vars
               PROVE  Files'
    OBVIOUS
  <2>1. ASSUME NEW t \in Time, NEW v \in Value, Update(t, v)
        PROVE  Files'
    <3>1. status' # "finalized" /\ (status' = "recording" => status = "recording")
      BY <2>1 DEF Update, RecordUpdate
    <3> QED BY <2>1, <3>1, UpdateMirrors DEF FileTracks, FileMirrorsLog
  <2>2. ASSUME NEW t \in Time, Finalize(t)
        PROVE  Files'
    <3>1. /\ status' # "recording" /\ (status' = "finalized" => status = "recording")
          /\ (status = "recording" => end' = t)
      BY <2>2 DEF Finalize
    <3>2. SaveInMemory /\ SaveToFile /\ status = "recording" => Closed(log', file', t)
      BY <2>2, FinalizeMirrors
    <3>3. log' \in Seq(Triple)
      BY DEF TypeOK, Triple
    <3>4. SaveInMemory /\ SaveToFile /\ status = "recording" =>
            file' = Mirror(log') \o (IF log' = <<>> THEN <<>> ELSE << <<t, Val(Last(log'))>> >>)
      BY <3>2, <3>3, ClosedIsMirrored
    <3> QED BY <3>1, <3>4 DEF Mirror, LineOf, FileTracks, FileMirrorsLog
  <2>3. ASSUME UNCHANGED <<state, history>>
        PROVE  Files'
    BY <2>3 DEF state, history, FileTracks, FileMirrorsLog, Mirror
  <2> QED BY <2>1, <2>2, <2>3 DEF Next, Refuse, vars, state, history
<1> QED BY <1>1, <1>2, TypeCorrect, ExactLog, PTL DEF Spec

------------------------------------------------------------------------------
(***************************************************************************)
(* Refinement.  Both modules define their encodings from Intervals.        *)
(***************************************************************************)
LEMMA SameEncodes ==
  ASSUME NEW l, NEW sig, NEW a, NEW b
  PROVE  Abs!Encodes(l, sig, a, b) <=> Encodes(l, sig, a, b)
BY DEF Abs!Encodes, Abs!NonEmpty, Abs!Adjoining, Abs!Merged, Abs!Truthful, Abs!Covers,
       Abs!Within, Abs!Left, Abs!Right, Abs!Val,
       Encodes, NonEmpty, Adjoining, Merged, Truthful, Covers, Within, Left, Right, Val

(***************************************************************************)
(* RefinesStepLog: a helper that saves in memory (log-update-helper.h:73)  *)
(* is the abstract recorder: each accepted call is one step of it.         *)
(***************************************************************************)
THEOREM RefinesStepLog ==
  ASSUME SaveInMemory = TRUE
  PROVE  Spec => ImplementsStepLog
<1> USE DEF Abs!Time, Time
<1>1. Init => Abs!Init
  BY DEF Init, Abs!Init
<1>2. ASSUME TypeOK, PendingEncodesSignal, [Next]_vars
      PROVE  [Abs!Next]_(Abs!vars)
  <2>1. ASSUME NEW t \in Time, NEW v \in Value, Update(t, v)
        PROVE  Abs!Next
    <3>1. CASE status = "recording"
      <4>1. Abs!Update(t, v)
        BY <2>1, <3>1 DEF Update, RecordUpdate, Abs!Update
      <4> QED BY <4>1 DEF Abs!Next
    <3>2. CASE status # "recording"
      BY <1>2, <2>1, <3>2 DEF Update, RecordUpdate, TypeOK, Abs!Next, Abs!Reuse
    <3> QED BY <3>1, <3>2
  <2>2. ASSUME NEW t \in Time, Finalize(t)
        PROVE  Abs!Next
    <3>1. CASE status = "recording"
      <4>1. IF first = -1 THEN log' = <<>> ELSE Abs!Encodes(log', signal, first, t)
        BY <1>2, <2>2, <3>1, FinalizeEncodes, SameEncodes
      <4>2. Abs!Finalize(t)
        BY <2>2, <3>1, <4>1 DEF Finalize, Abs!Finalize
      <4> QED BY <4>2 DEF Abs!Next
    <3>2. CASE status # "recording"
      BY <1>2, <2>2, <3>2 DEF Finalize, TypeOK, Abs!Next, Abs!Reuse
    <3> QED BY <3>1, <3>2
  <2>3. ASSUME UNCHANGED <<state, history>>
        PROVE  UNCHANGED Abs!vars
    BY <2>3 DEF state, history, Abs!vars
  <2> QED BY <1>2, <2>1, <2>2, <2>3 DEF Next, Refuse, vars, state, history
<1> QED BY <1>1, <1>2, TypeCorrect, ExactLog, PTL DEF Spec, ImplementsStepLog, Abs!Spec

-----------------------------------------------------------------------------
(* Logs of busy time.                                                        *)

(* The intervals ivs tile from .. to, each with the busy time before its    *)
(* right end less that before its left end.                                  *)
Exact(busyUpTo, ivs, from, to) ==
  /\ ivs \in Seq(Nat \X Nat \X Nat)
  /\ IF ivs = <<>> THEN from = to ELSE Left(ivs[1]) = from /\ Right(ivs[Len(ivs)]) = to
  /\ \A i \in 1 .. Len(ivs) :
       /\ from <= Left(ivs[i]) /\ Left(ivs[i]) < Right(ivs[i]) /\ Right(ivs[i]) <= to
       /\ Val(ivs[i]) = busyUpTo[Right(ivs[i])] - busyUpTo[Left(ivs[i])]
       /\ i > 1 => Right(ivs[i - 1]) = Left(ivs[i])

Regular(ivs) == \A i \in 1 .. Len(ivs) : Length(ivs[i]) = Interval

(* What lies in the past stays true.                                         *)
LEMMA ExactStays ==
  ASSUME NEW f, NEW g, NEW ivs, NEW from \in Nat, NEW to \in Nat, Exact(f, ivs, from, to),
         \A u \in 0 .. to : g[u] = f[u]
  PROVE  Exact(g, ivs, from, to)
<1>1. ASSUME NEW i \in 1 .. Len(ivs)
      PROVE  Val(ivs[i]) = g[Right(ivs[i])] - g[Left(ivs[i])]
  <2>1. ivs[i] \in Nat \X Nat \X Nat /\ Left(ivs[i]) < Right(ivs[i]) /\ Right(ivs[i]) <= to
    BY DEF Exact
  <2>2. Left(ivs[i]) \in 0 .. to /\ Right(ivs[i]) \in 0 .. to
    BY <2>1 DEF Left, Right
  <2> QED BY <2>2 DEF Exact
<1> QED BY <1>1 DEF Exact

(* Two logs in a row.                                                        *)
LEMMA ExactConcat ==
  ASSUME NEW f, NEW a, NEW b, NEW x \in Nat, NEW y \in Nat, NEW z \in Nat,
         Exact(f, a, x, y), Exact(f, b, y, z), x <= y, y <= z
  PROVE  Exact(f, a \o b, x, z)
<1> DEFINE c == a \o b
           T == Nat \X Nat \X Nat
<1>1. a \in Seq(T) /\ b \in Seq(T)
  BY DEF Exact
<1> HIDE DEF T
<1>2. /\ c \in Seq(T) /\ Len(c) = Len(a) + Len(b) /\ Len(a) \in Nat /\ Len(b) \in Nat
      /\ \A i \in 1 .. Len(a) : c[i] = a[i]
      /\ \A i \in 1 .. Len(b) : c[Len(a) + i] = b[i]
  BY <1>1
<1> HIDE DEF c
<1>3. \A s \in Seq(T) : s = <<>> <=> Len(s) = 0
  BY EmptySeq
<1>4. ASSUME NEW i \in 1 .. Len(c)
      PROVE  \/ i \in 1 .. Len(a) /\ c[i] = a[i]
             \/ i - Len(a) \in 1 .. Len(b) /\ c[i] = b[i - Len(a)] /\ i > Len(a)
  <2>1. CASE i <= Len(a)
    BY <1>2, <2>1
  <2>2. CASE i > Len(a)
    <3>1. i - Len(a) \in 1 .. Len(b) /\ Len(a) + (i - Len(a)) = i
      BY <1>2, <2>2
    <3> QED BY <1>2, <2>2, <3>1
  <2> QED BY <1>2, <2>1, <2>2
<1>5. /\ \A i \in 1 .. Len(a) : Left(a[i]) \in Nat /\ Right(a[i]) \in Nat
      /\ \A i \in 1 .. Len(b) : Left(b[i]) \in Nat /\ Right(b[i]) \in Nat
  <2>1. (\A i \in 1 .. Len(a) : a[i] \in T) /\ (\A i \in 1 .. Len(b) : b[i] \in T)
    BY <1>1
  <2>2. \A t \in T : Left(t) \in Nat /\ Right(t) \in Nat
    BY DEF T, Left, Right
  <2> QED BY <2>1, <2>2
<1>6. ASSUME NEW i \in 1 .. Len(c)
      PROVE  /\ x <= Left(c[i]) /\ Left(c[i]) < Right(c[i]) /\ Right(c[i]) <= z
             /\ Val(c[i]) = f[Right(c[i])] - f[Left(c[i])]
  <2>1. CASE i \in 1 .. Len(a) /\ c[i] = a[i]
    BY <1>5, <2>1 DEF Exact
  <2>2. CASE i - Len(a) \in 1 .. Len(b) /\ c[i] = b[i - Len(a)]
    <3> DEFINE j == i - Len(a)
    <3>1. j \in 1 .. Len(b) /\ c[i] = b[j]
      BY <2>2
    <3> HIDE DEF j
    <3>2. /\ y <= Left(b[j]) /\ Left(b[j]) < Right(b[j]) /\ Right(b[j]) <= z
          /\ Val(b[j]) = f[Right(b[j])] - f[Left(b[j])]
      BY <3>1 DEF Exact
    <3> QED BY <1>5, <3>1, <3>2
  <2> QED BY <1>4, <2>1, <2>2
<1>7. a # <<>> => Right(a[Len(a)]) = y /\ Left(a[1]) = x /\ Len(a) \in 1 .. Len(a)
  BY <1>1, <1>2, <1>3 DEF Exact
<1>8. b # <<>> => Right(b[Len(b)]) = z /\ Left(b[1]) = y /\ Len(b) \in 1 .. Len(b) /\ 1 \in 1 .. Len(b)
  BY <1>1, <1>2, <1>3 DEF Exact
<1>9. ASSUME NEW i \in 1 .. Len(c), i > 1 PROVE Right(c[i - 1]) = Left(c[i])
  <2>1. CASE i \in 1 .. Len(a)
    <3>1. i - 1 \in 1 .. Len(a) /\ c[i] = a[i] /\ c[i - 1] = a[i - 1]
      BY <1>2, <1>9, <2>1
    <3> QED BY <1>9, <2>1, <3>1 DEF Exact
  <2>2. CASE i = Len(a) + 1
    <3>1. c[i] = b[1] /\ b # <<>>
      BY <1>1, <1>2, <1>3, <2>2
    <3>2. Len(a) \in 1 .. Len(a) /\ i - 1 = Len(a)
      BY <1>2, <1>9, <2>2
    <3>3. a # <<>> /\ c[i - 1] = a[Len(a)]
      <4>1. Len(a) # 0 /\ c[Len(a)] = a[Len(a)]
        BY <1>2, <3>2
      <4> QED BY <1>1, <1>3, <3>2, <4>1
    <3> QED BY <1>7, <1>8, <3>1, <3>3
  <2>3. CASE i > Len(a) + 1
    <3> DEFINE j == i - Len(a)
    <3>1. j \in 1 .. Len(b) /\ j > 1 /\ j - 1 \in 1 .. Len(b) /\ Len(a) + j = i
          /\ Len(a) + (j - 1) = i - 1
      BY <1>2, <2>3
    <3>2. c[i] = b[j] /\ c[i - 1] = b[j - 1]
      BY <1>2, <3>1
    <3> HIDE DEF j
    <3> QED BY <3>1, <3>2 DEF Exact
  <2> QED BY <1>2, <2>1, <2>2, <2>3
<1>10. IF c = <<>> THEN x = z ELSE Left(c[1]) = x /\ Right(c[Len(c)]) = z
  <2>1. CASE a = <<>> /\ b = <<>>
    BY <1>1, <1>2, <1>3, <2>1 DEF Exact
  <2>2. CASE a = <<>> /\ b # <<>>
    <3>1. Len(a) = 0 /\ c # <<>> /\ Len(c) = Len(b) /\ c[1] = b[1] /\ c[Len(c)] = b[Len(b)] /\ x = y
      BY <1>1, <1>2, <1>3, <1>8, <2>2 DEF Exact
    <3> QED BY <1>8, <2>2, <3>1
  <2>3. CASE a # <<>> /\ b = <<>>
    <3>1. Len(b) = 0 /\ c # <<>> /\ Len(c) = Len(a) /\ c[1] = a[1] /\ c[Len(c)] = a[Len(a)] /\ y = z
      BY <1>1, <1>2, <1>3, <1>7, <2>3 DEF Exact
    <3> QED BY <1>7, <2>3, <3>1
  <2>4. CASE a # <<>> /\ b # <<>>
    <3>1. c # <<>> /\ c[1] = a[1] /\ c[Len(c)] = b[Len(b)]
      BY <1>1, <1>2, <1>3, <1>7, <1>8, <2>4
    <3> QED BY <1>7, <1>8, <2>4, <3>1
  <2> QED BY <2>1, <2>2, <2>3, <2>4
<1>11. c \in Seq(Nat \X Nat \X Nat)
  BY <1>2 DEF T
<1> QED BY <1>6, <1>9, <1>10, <1>11 DEF Exact, c

(* A single interval.                                                        *)
LEMMA ExactSingle ==
  ASSUME NEW f, NEW x \in Nat, NEW y \in Nat, x < y, NEW v \in Nat, v = f[y] - f[x]
  PROVE  Exact(f, << <<x, y, v>> >>, x, y)
<1> DEFINE iv == <<x, y, v>>
           ivs == <<iv>>
<1>1. iv \in Nat \X Nat \X Nat /\ Left(iv) = x /\ Right(iv) = y /\ Val(iv) = v
  BY DEF Left, Right, Val
<1> HIDE DEF iv
<1>2. ivs \in Seq(Nat \X Nat \X Nat) /\ Len(ivs) = 1 /\ ivs[1] = iv /\ ivs # <<>>
  BY <1>1
<1> HIDE DEF ivs
<1> QED BY <1>1, <1>2 DEF Exact, ivs, iv

-----------------------------------------------------------------------------
(* The inductive invariant.                                                  *)

DeviceTyped ==
  /\ now \in 0 .. MaxNow /\ transmitting \in BOOLEAN
  /\ phase \in {"running", "stopped", "written"}
  /\ busyBefore \in [0 .. MaxNow -> Nat]

(* The counters of the interval that is open, what the device did since the  *)
(* tracker was woken last, and the intervals that are closed.                *)
CountersSound ==
  /\ prev \in Nat /\ intervalStart \in Nat /\ idle \in Nat /\ busy \in Nat
  /\ Accounting
  /\ \A u \in prev .. now :
       busyBefore[u] = busyBefore[prev] + (IF transmitting THEN u - prev ELSE 0)

ClosedSound == Exact(busyBefore, intervals, 0, intervalStart) /\ Regular(intervals)

ResultsSound ==
  /\ Exact(busyBefore, intervals, 0, now) /\ ResultsCoverRun
  /\ Exact(busyBefore, compressed, 0, now)

TrackerInv == IF phase = "written" THEN ResultsSound ELSE CountersSound /\ ClosedSound

LinkInv ==
  /\ DeviceTyped
  /\ stage # "run" => TrackerInit /\ ~HasTracker("utilization", Watched)
  /\ HasTracker("utilization", Watched) => TrackerInv

-----------------------------------------------------------------------------
(* TrackUtilization.                                                         *)

(* How many intervals the loop completes: the last of them ends no later     *)
(* than now, and the next one later.                                         *)
LEMMA CompletedBound ==
  ASSUME NEW t \in Nat, intervalEnd \in Nat, t >= intervalEnd
  PROVE  /\ CompletedIntervals(t) \in Nat \ {0}
         /\ intervalEnd + (CompletedIntervals(t) - 1) * Interval <= t
         /\ t < intervalEnd + CompletedIntervals(t) * Interval
<1> DEFINE d == t - intervalEnd
           q == d \div Interval
<1>1. d \in Nat /\ Interval \in Nat \ {0}
  BY TrackerAssumption
<1>2. CompletedIntervals(t) = q + 1
  BY DEF CompletedIntervals
<1> HIDE DEF d
<1>3. q \in Nat /\ q * Interval <= d /\ d < (q + 1) * Interval
  BY <1>1
<1> HIDE DEF q
<1>4. (q + 1) - 1 = q
  BY <1>3
<1> QED BY <1>1, <1>2, <1>3, <1>4 DEF d

(* The intervals of a loop of n rounds lie one after the other.              *)
LEMMA Rounds ==
  ASSUME NEW n \in Nat, NEW k \in 1 .. n
  PROVE  /\ (k - 1) * Interval \in Nat /\ k * Interval \in Nat
         /\ (k - 1) * Interval + Interval = k * Interval
         /\ k * Interval <= n * Interval
         /\ k > 1 => (k - 1) * Interval >= Interval
<1>1. Interval \in Nat \ {0} /\ k \in Nat \ {0} /\ k <= n
  BY TrackerAssumption
<1>2. (k - 1) * Interval \in Nat /\ k * Interval \in Nat
  BY <1>1
<1>3. (k - 1) * Interval + Interval = k * Interval
  BY <1>1
<1>4. k * Interval <= n * Interval
  BY <1>1
<1>5. k > 1 => (k - 1) * Interval >= Interval
  BY <1>1
<1> QED BY <1>2, <1>3, <1>4, <1>5

(* What the device did since the tracker was woken last.                     *)
LEMMA SinceWoken ==
  ASSUME DeviceTyped, CountersSound, phase # "written", NEW nextOn \in BOOLEAN,
         nextOn <=> ~transmitting
  PROVE  /\ prev \in 0 .. now /\ now \in Nat /\ intervalEnd \in Nat /\ Interval \in Nat \ {0}
         /\ intervalEnd = intervalStart + Interval /\ intervalStart <= prev /\ prev < intervalEnd
         /\ \A u \in 0 .. now : busyBefore[u] \in Nat
         /\ \A u, v \in prev .. now :
              u <= v => busyBefore[v] - busyBefore[u] = IF nextOn THEN 0 ELSE v - u
<1>1. /\ prev \in Nat /\ now \in Nat /\ MaxNow \in Nat /\ now <= MaxNow /\ intervalStart \in Nat
      /\ Interval \in Nat \ {0} /\ prev <= now
      /\ intervalEnd = intervalStart + Interval /\ intervalStart <= prev /\ prev < intervalEnd
  BY TrackerAssumption DEF DeviceTyped, CountersSound, Accounting
<1>2. \A u \in 0 .. now : busyBefore[u] \in Nat
  BY <1>1 DEF DeviceTyped
<1>3. ASSUME NEW u \in prev .. now, NEW v \in prev .. now, u <= v
      PROVE  busyBefore[v] - busyBefore[u] = IF nextOn THEN 0 ELSE v - u
  <2>1. /\ busyBefore[u] \in Nat /\ busyBefore[v] \in Nat /\ busyBefore[prev] \in Nat
        /\ u \in Nat /\ v \in Nat
    BY <1>1, <1>2
  <2>2. CASE nextOn
    <3>1. busyBefore[u] = busyBefore[prev] + 0 /\ busyBefore[v] = busyBefore[prev] + 0
      BY <2>2 DEF CountersSound
    <3> QED BY <2>1, <2>2, <3>1
  <2>3. CASE ~nextOn
    <3>1. /\ busyBefore[u] = busyBefore[prev] + (u - prev)
          /\ busyBefore[v] = busyBefore[prev] + (v - prev)
      BY <2>3 DEF CountersSound
    <3> QED BY <1>1, <2>1, <2>3, <3>1
  <2> QED BY <2>2, <2>3
<1> QED BY <1>1, <1>2, <1>3

(* The intervals that the loop completes are those of the device.            *)
LEMMA CompletedExact ==
  ASSUME DeviceTyped, CountersSound, phase # "written", NEW nextOn \in BOOLEAN,
         nextOn <=> ~transmitting, NEW n \in Nat, n # 0, intervalStart + n * Interval <= now
  PROVE  LET ivs == [k \in 1 .. n |-> CompletedInterval(k, nextOn)]
         IN  /\ Exact(busyBefore, ivs, intervalStart, intervalStart + n * Interval)
             /\ Regular(ivs)
<1> DEFINE ivs == [k \in 1 .. n |-> CompletedInterval(k, nextOn)]
           T == Nat \X Nat \X Nat
<1>1. /\ prev \in 0 .. now /\ now \in Nat /\ intervalEnd \in Nat /\ Interval \in Nat \ {0}
      /\ intervalEnd = intervalStart + Interval /\ intervalStart <= prev /\ prev < intervalEnd
      /\ \A u \in 0 .. now : busyBefore[u] \in Nat
      /\ \A u, v \in prev .. now :
           u <= v => busyBefore[v] - busyBefore[u] = IF nextOn THEN 0 ELSE v - u
  BY SinceWoken
<1>2. /\ intervalStart \in Nat /\ busy \in Nat
      /\ busy = busyBefore[prev] - busyBefore[intervalStart]
  BY DEF CountersSound, Accounting, TrueBusy
<1>3. ASSUME NEW k \in 1 .. n
      PROVE  LET left == intervalStart + (k - 1) * Interval IN
             /\ ivs[k] \in T /\ Left(ivs[k]) = left /\ Right(ivs[k]) = left + Interval
             /\ left + Interval = intervalStart + k * Interval
             /\ left \in intervalStart .. now /\ left + Interval \in 0 .. now
             /\ left + Interval <= intervalStart + n * Interval
             /\ Val(ivs[k]) = busyBefore[left + Interval] - busyBefore[left]
  <2> DEFINE left == intervalStart + (k - 1) * Interval
  <2>1. /\ (k - 1) * Interval \in Nat /\ (k - 1) * Interval + Interval = k * Interval
        /\ k * Interval <= n * Interval /\ n * Interval \in Nat
        /\ k > 1 => (k - 1) * Interval >= Interval
    BY Rounds, <1>1
  <2>2. /\ left \in Nat /\ left \in intervalStart .. now /\ left + Interval \in 0 .. now
        /\ left + Interval = intervalStart + k * Interval
        /\ left + Interval <= intervalStart + n * Interval
    BY <1>1, <1>2, <2>1
  <2>3. k = 1 => left = intervalStart /\ left + Interval = intervalEnd
    <3>1. k = 1 => (k - 1) * Interval = 0
      BY <1>1
    <3> QED BY <1>1, <1>2, <3>1
  <2>4. k > 1 => left >= intervalEnd
    BY <1>1, <1>2, <2>1
  <2>5. ivs[k] = CompletedInterval(k, nextOn)
    OBVIOUS
  <2> HIDE DEF left, ivs
  <2>6. PICK v \in Nat : /\ ivs[k] = <<left, left + Interval, v>>
                         /\ v = busyBefore[left + Interval] - busyBefore[left]
    <3>1. CASE k = 1 /\ nextOn
      <4>1. busyBefore[intervalEnd] - busyBefore[prev] = 0
        BY <1>1, <2>2, <2>3, <3>1
      <4>2. ivs[k] = <<left, left + Interval, busy>>
        BY <2>5, <3>1 DEF CompletedInterval, left
      <4>3. busy = busyBefore[left + Interval] - busyBefore[left]
        BY <1>1, <1>2, <2>2, <2>3, <3>1, <4>1
      <4> QED BY <1>2, <4>2, <4>3
    <3>2. CASE k = 1 /\ ~nextOn
      <4>1. busyBefore[intervalEnd] - busyBefore[prev] = intervalEnd - prev
        BY <1>1, <2>2, <2>3, <3>2
      <4>2. ivs[k] = <<left, left + Interval, busy + (intervalEnd - prev)>>
        BY <2>5, <3>2 DEF CompletedInterval, left
      <4>3. busy + (intervalEnd - prev) = busyBefore[left + Interval] - busyBefore[left]
        BY <1>1, <1>2, <2>2, <2>3, <3>2, <4>1
      <4> QED BY <1>1, <1>2, <4>2, <4>3
    <3>3. CASE k > 1
      <4>1. left \in prev .. now /\ left + Interval \in prev .. now /\ left <= left + Interval
        BY <1>1, <2>2, <2>4, <3>3
      <4>2. busyBefore[left + Interval] - busyBefore[left] = IF nextOn THEN 0 ELSE Interval
        BY <1>1, <2>2, <4>1
      <4>3. ivs[k] = <<left, left + Interval, IF nextOn THEN 0 ELSE Interval>>
        BY <2>5, <3>3 DEF CompletedInterval, left
      <4> QED BY <1>1, <4>2, <4>3
    <3> QED BY <3>1, <3>2, <3>3
  <2> QED BY <1>1, <2>2, <2>6 DEF left, Left, Right, Val
<1>4. ivs \in Seq(T) /\ Len(ivs) = n
  <2>1. ivs \in [1 .. n -> T]
    BY <1>3
  <2> HIDE DEF ivs, T
  <2> QED BY <2>1, SeqDef, LenProperties
<1> HIDE DEF ivs, T
<1>5. n \in 1 .. n /\ 1 \in 1 .. n
  OBVIOUS
<1>6. ivs # <<>> /\ Left(ivs[1]) = intervalStart /\ Right(ivs[Len(ivs)]) = intervalStart + n * Interval
  <2>1. (1 - 1) * Interval = 0
    BY <1>1
  <2>2. ivs # <<>>
    BY <1>4, EmptySeq
  <2> QED BY <1>2, <1>3, <1>4, <1>5, <2>1, <2>2
<1>7. ASSUME NEW i \in 1 .. Len(ivs), i > 1 PROVE Right(ivs[i - 1]) = Left(ivs[i])
  <2>1. i \in 1 .. n /\ i - 1 \in 1 .. n
    BY <1>4, <1>7
  <2>2. Right(ivs[i - 1]) = intervalStart + (i - 1) * Interval
    BY <1>3, <2>1
  <2> QED BY <1>3, <2>1, <2>2
<1>8. ASSUME NEW i \in 1 .. Len(ivs)
      PROVE  /\ intervalStart <= Left(ivs[i]) /\ Left(ivs[i]) < Right(ivs[i])
             /\ Right(ivs[i]) <= intervalStart + n * Interval
             /\ Val(ivs[i]) = busyBefore[Right(ivs[i])] - busyBefore[Left(ivs[i])]
             /\ Length(ivs[i]) = Interval
  <2> DEFINE left == intervalStart + (i - 1) * Interval
  <2>1. /\ Left(ivs[i]) = left /\ Right(ivs[i]) = left + Interval /\ left \in intervalStart .. now
        /\ left + Interval <= intervalStart + n * Interval
        /\ Val(ivs[i]) = busyBefore[left + Interval] - busyBefore[left]
    BY <1>3, <1>4
  <2> HIDE DEF left
  <2> QED BY <1>1, <1>2, <2>1 DEF Length
<1>9. ivs \in Seq(Nat \X Nat \X Nat)
  BY <1>4 DEF T
<1> QED BY <1>6, <1>7, <1>8, <1>9 DEF Exact, Regular, ivs

LEMMA RegularConcat ==
  ASSUME NEW a \in Seq(Nat \X Nat \X Nat), NEW b \in Seq(Nat \X Nat \X Nat), Regular(a), Regular(b)
  PROVE  Regular(a \o b)
<1> DEFINE T == Nat \X Nat \X Nat
<1>1. a \in Seq(T) /\ b \in Seq(T)
  OBVIOUS
<1> HIDE DEF T
<1>2. /\ Len(a \o b) = Len(a) + Len(b) /\ Len(a) \in Nat /\ Len(b) \in Nat
      /\ \A i \in 1 .. Len(a) : (a \o b)[i] = a[i]
      /\ \A i \in 1 .. Len(b) : (a \o b)[Len(a) + i] = b[i]
  BY <1>1
<1>3. ASSUME NEW i \in 1 .. Len(a \o b) PROVE Length((a \o b)[i]) = Interval
  <2>1. CASE i <= Len(a)
    <3>1. i \in 1 .. Len(a)
      BY <1>2, <2>1
    <3> QED BY <1>2, <3>1 DEF Regular
  <2>2. CASE i > Len(a)
    <3>1. i - Len(a) \in 1 .. Len(b) /\ Len(a) + (i - Len(a)) = i
      BY <1>2, <2>2
    <3>2. (a \o b)[i] = b[i - Len(a)]
      BY <1>2, <3>1
    <3> QED BY <3>1, <3>2 DEF Regular
  <2> QED BY <1>2, <2>1, <2>2
<1> QED BY <1>3 DEF Regular

(* TrackUtilization as a whole: the counters are those of the interval that  *)
(* is open now, and the closed intervals reach up to it.                     *)
LEMMA TrackingIsExact ==
  ASSUME DeviceTyped, CountersSound, ClosedSound, phase # "written", NEW nextOn \in BOOLEAN,
         nextOn <=> ~transmitting
  PROVE  LET after == AfterTracking(nextOn) IN
         /\ after.start \in Nat /\ after.end = after.start + Interval
         /\ after.start <= now /\ now < after.end
         /\ after.idle \in Nat /\ after.busy \in Nat
         /\ after.idle + after.busy = now - after.start
         /\ after.busy = busyBefore[now] - busyBefore[after.start]
         /\ Exact(busyBefore, after.log, 0, after.start) /\ Regular(after.log)
<1> DEFINE n     == CompletedIntervals(now)
           after == AfterTracking(nextOn)
           new   == [k \in 1 .. n |-> CompletedInterval(k, nextOn)]
<1>1. /\ prev \in 0 .. now /\ now \in Nat /\ intervalEnd \in Nat /\ Interval \in Nat \ {0}
      /\ intervalEnd = intervalStart + Interval /\ intervalStart <= prev /\ prev < intervalEnd
      /\ \A u \in 0 .. now : busyBefore[u] \in Nat
      /\ \A u, v \in prev .. now :
           u <= v => busyBefore[v] - busyBefore[u] = IF nextOn THEN 0 ELSE v - u
  BY SinceWoken
<1>2. /\ intervalStart \in Nat /\ busy \in Nat /\ idle \in Nat /\ idle + busy = prev - intervalStart
      /\ busy = busyBefore[prev] - busyBefore[intervalStart]
  BY DEF CountersSound, Accounting, TrueBusy
<1>3. CASE now < intervalEnd
  <2>1. n = 0
    BY <1>3 DEF CompletedIntervals
  <2>2. /\ after.start = intervalStart + 0 * Interval /\ after.end = intervalEnd + 0 * Interval
        /\ after.idle = idle + (IF nextOn THEN now - prev ELSE 0)
        /\ after.busy = busy + (IF nextOn THEN 0 ELSE now - prev)
        /\ after.log = intervals \o [k \in 1 .. 0 |-> CompletedInterval(k, nextOn)]
    BY <2>1 DEF AfterTracking
  <2>3. after.log = intervals
    <3>1. [k \in 1 .. 0 |-> CompletedInterval(k, nextOn)] = <<>>
      OBVIOUS
    <3>2. intervals \in Seq(Nat \X Nat \X Nat)
      BY DEF ClosedSound, Exact
    <3> QED BY <2>2, <3>1, <3>2
  <2> HIDE DEF after
  <2>4. after.start = intervalStart /\ after.end = intervalEnd
    BY <1>1, <1>2, <2>2
  <2>5. busyBefore[now] - busyBefore[prev] = IF nextOn THEN 0 ELSE now - prev
    BY <1>1
  <2>6. /\ after.idle \in Nat /\ after.busy \in Nat
        /\ after.idle + after.busy = now - intervalStart
    BY <1>1, <1>2, <2>2
  <2>7. after.busy = busyBefore[now] - busyBefore[intervalStart]
    <3>1. busyBefore[now] \in Nat /\ busyBefore[prev] \in Nat /\ busyBefore[intervalStart] \in Nat
      BY <1>1, <1>2
    <3> QED BY <1>2, <2>2, <2>5, <3>1
  <2>8. Exact(busyBefore, after.log, 0, after.start) /\ Regular(after.log)
    BY <2>3, <2>4 DEF ClosedSound
  <2> QED BY <1>1, <1>2, <1>3, <2>4, <2>6, <2>7, <2>8 DEF after
<1>4. CASE now >= intervalEnd
  <2>1. /\ n \in Nat \ {0} /\ intervalEnd + (n - 1) * Interval <= now
        /\ now < intervalEnd + n * Interval
    BY <1>1, <1>4, CompletedBound
  <2> DEFINE from == intervalEnd + (n - 1) * Interval
  <2>2. /\ after.start = intervalStart + n * Interval /\ after.end = intervalEnd + n * Interval
        /\ after.idle = 0 + (IF nextOn THEN now - from ELSE 0)
        /\ after.busy = 0 + (IF nextOn THEN 0 ELSE now - from)
        /\ after.log = intervals \o new
    BY <2>1 DEF AfterTracking
  <2>3. Exact(busyBefore, new, intervalStart, intervalStart + n * Interval) /\ Regular(new)
    <3>1. intervalStart + n * Interval <= now
      <4>1. (n - 1) * Interval + Interval = n * Interval /\ n * Interval \in Nat
            /\ (n - 1) * Interval \in Nat
        BY <1>1, <2>1
      <4> QED BY <1>1, <1>2, <2>1, <4>1
    <3> QED BY <2>1, <3>1, CompletedExact
  <2>4. (n - 1) * Interval + Interval = n * Interval /\ n * Interval \in Nat
        /\ (n - 1) * Interval \in Nat
    BY <1>1, <2>1
  <2>5. from = intervalStart + n * Interval /\ from \in Nat /\ from \in prev .. now
    BY <1>1, <1>2, <2>1, <2>4
  <2> HIDE DEF after, new, from, n
  <2>6. busyBefore[now] - busyBefore[from] = IF nextOn THEN 0 ELSE now - from
    BY <1>1, <2>5
  <2>7. /\ after.idle \in Nat /\ after.busy \in Nat /\ after.idle + after.busy = now - from
        /\ after.busy = busyBefore[now] - busyBefore[from]
    BY <1>1, <2>2, <2>5, <2>6
  <2>8. after.start = from /\ after.end = from + Interval /\ now < after.end
    BY <1>1, <1>2, <2>1, <2>2, <2>4, <2>5
  <2>9. Exact(busyBefore, after.log, 0, from)
    <3>1. Exact(busyBefore, intervals, 0, intervalStart) /\ intervalStart <= from /\ 0 <= intervalStart
      BY <1>1, <1>2, <2>5 DEF ClosedSound
    <3> QED BY <1>2, <2>2, <2>3, <2>5, <3>1, ExactConcat
  <2>10. Regular(after.log)
    BY <2>2, <2>3, RegularConcat DEF ClosedSound, Exact
  <2> QED BY <2>5, <2>7, <2>8, <2>9, <2>10 DEF after
<1> QED BY <1>1, <1>3, <1>4

-----------------------------------------------------------------------------
(* The steps of the tracker.                                                 *)

(* A transmission begins or ends.                                            *)
LEMMA DeviceStep ==
  ASSUME DeviceTyped, CountersSound, ClosedSound, phase # "written", NEW nextOn \in BOOLEAN,
         nextOn <=> ~transmitting, transmitting' = nextOn, TrackUtilization(nextOn),
         intervals' = AfterTracking(nextOn).log, UNCHANGED <<now, phase, busyBefore>>
  PROVE  CountersSound' /\ ClosedSound'
<1> DEFINE after == AfterTracking(nextOn)
<1>1. /\ after.start \in Nat /\ after.end = after.start + Interval
      /\ after.start <= now /\ now < after.end
      /\ after.idle \in Nat /\ after.busy \in Nat
      /\ after.idle + after.busy = now - after.start
      /\ after.busy = busyBefore[now] - busyBefore[after.start]
      /\ Exact(busyBefore, after.log, 0, after.start) /\ Regular(after.log)
  BY TrackingIsExact
<1>2. /\ intervalStart' = after.start /\ intervalEnd' = after.end /\ idle' = after.idle
      /\ busy' = after.busy /\ intervals' = after.log /\ prev' = now /\ isOn' = nextOn
      /\ isOn' = transmitting'
  BY DEF TrackUtilization
<1> HIDE DEF after
<1>3. now \in Nat /\ busyBefore[now] \in Nat
  BY TrackerAssumption DEF DeviceTyped
<1>4. Accounting'
  BY <1>1, <1>2, <1>3 DEF Accounting, TrueBusy
<1>5. \A u \in prev' .. now' :
        busyBefore'[u] = busyBefore'[prev'] + (IF transmitting' THEN u - prev' ELSE 0)
  BY <1>2, <1>3
<1>6. CountersSound'
  BY <1>1, <1>2, <1>3, <1>4, <1>5 DEF CountersSound
<1>7. ClosedSound'
  BY <1>1, <1>2 DEF ClosedSound, Regular
<1> QED BY <1>6, <1>7

(* Time moves on by one.                                                     *)
LEMMA TickStep ==
  ASSUME DeviceTyped, CountersSound, ClosedSound, Tick
  PROVE  DeviceTyped' /\ CountersSound' /\ ClosedSound'
<1>1. /\ now' = now + 1 /\ now < MaxNow /\ UNCHANGED <<transmitting, phase>>
      /\ UNCHANGED <<prev, intervalStart, intervalEnd, idle, busy, isOn, intervals>>
      /\ busyBefore' = [busyBefore EXCEPT ![now + 1] =
                          busyBefore[now] + (IF transmitting THEN 1 ELSE 0)]
      /\ phase # "written"
  BY DEF Tick, tracker
<1>2. now \in Nat /\ MaxNow \in Nat /\ now + 1 \in 0 .. MaxNow /\ busyBefore[now] \in Nat
  BY <1>1, TrackerAssumption DEF DeviceTyped
<1>3. /\ \A u \in 0 .. now : busyBefore'[u] = busyBefore[u]
      /\ busyBefore'[now + 1] = busyBefore[now] + (IF transmitting THEN 1 ELSE 0)
  BY <1>1, <1>2 DEF DeviceTyped
<1>4. DeviceTyped'
  <2>1. busyBefore[now] + (IF transmitting THEN 1 ELSE 0) \in Nat
    BY <1>2
  <2>2. busyBefore' \in [0 .. MaxNow -> Nat]
    BY <1>1, <2>1 DEF DeviceTyped
  <2> QED BY <1>1, <1>2, <2>2 DEF DeviceTyped
<1>5. /\ prev \in 0 .. now /\ intervalStart \in 0 .. now
      /\ Accounting /\ intervalStart <= prev /\ prev <= now
  BY <1>1, <1>2 DEF CountersSound, Accounting
<1>6. Accounting'
  <2>1. busyBefore'[prev] = busyBefore[prev] /\ busyBefore'[intervalStart] = busyBefore[intervalStart]
    BY <1>3, <1>5
  <2>2. prev <= now'
    BY <1>1, <1>2, <1>5
  <2> QED BY <1>1, <1>5, <2>1, <2>2 DEF Accounting, TrueBusy
<1>7. ASSUME NEW u \in prev .. now + 1
      PROVE  busyBefore'[u] = busyBefore'[prev] + (IF transmitting THEN u - prev ELSE 0)
  <2>1. busyBefore'[prev] = busyBefore[prev] /\ busyBefore[prev] \in Nat
    BY <1>2, <1>3, <1>5 DEF DeviceTyped
  <2>2. CASE u \in prev .. now
    BY <1>3, <1>5, <2>1, <2>2 DEF CountersSound
  <2>3. CASE u = now + 1
    <3>1. busyBefore[now] = busyBefore[prev] + (IF transmitting THEN now - prev ELSE 0)
      BY <1>2, <1>5 DEF CountersSound
    <3> QED BY <1>2, <1>3, <1>5, <2>1, <2>3, <3>1
  <2> QED BY <1>2, <1>5, <2>2, <2>3
<1>8. CountersSound'
  BY <1>1, <1>6, <1>7 DEF CountersSound
<1>9. Exact(busyBefore', intervals, 0, intervalStart)
  <2>1. \A u \in 0 .. intervalStart : busyBefore'[u] = busyBefore[u]
    BY <1>2, <1>3, <1>5
  <2> QED BY <1>5, <2>1, ExactStays DEF ClosedSound
<1>10. ClosedSound'
  BY <1>1, <1>9 DEF ClosedSound, Regular
<1> QED BY <1>4, <1>8, <1>10

-----------------------------------------------------------------------------
(* The compression.                                                          *)

(* What the recursive function of CompressedLines, up to n, satisfies.       *)
LoopSolves(after, ivs, n) ==
  after = [j \in 0 .. n |-> IF j = 0 THEN NoLines ELSE NextLine(after[j - 1], ivs, j)]

(* There is one.                                                             *)
LEMMA LoopRecursion ==
  ASSUME NEW ivs, NEW n \in Nat
  PROVE  \E after : LoopSolves(after, ivs, n)
<1> DEFINE Bad == {k \in Nat : ~ \E after : LoopSolves(after, ivs, k)}
<1>1. SUFFICES ASSUME Bad # {} PROVE FALSE
  OBVIOUS
<1>2. PICK b \in Bad : \A m \in Bad : b <= m
  BY <1>1, SmallestExists
<1>3. b # 0
  <2> DEFINE g == [j \in 0 .. 0 |-> NoLines]
  <2>1. LoopSolves(g, ivs, 0)
    BY DEF LoopSolves
  <2> QED BY <2>1
<1>4. b \in Nat /\ b - 1 \in Nat /\ b - 1 \notin Bad
  BY <1>2, <1>3
<1>5. PICK f : LoopSolves(f, ivs, b - 1)
  BY <1>4
<1> DEFINE next == NextLine(f[b - 1], ivs, b)
           g == [j \in 0 .. b |-> IF j = b THEN next ELSE f[j]]
<1> HIDE DEF next
<1>6. \A j \in 0 .. b - 1 : g[j] = f[j]
  BY <1>4
<1>7. g[b] = next
  OBVIOUS
<1> HIDE DEF Bad
<1>8. \A j \in 0 .. b : g[j] = IF j = 0 THEN NoLines ELSE NextLine(g[j - 1], ivs, j)
  <2> TAKE j \in 0 .. b
  <2>1. CASE j = b
    <3>1. b - 1 \in 0 .. b - 1
      BY <1>4
    <3>2. g[b - 1] = f[b - 1]
      BY <3>1, <1>6
    <3> QED BY <2>1, <3>2, <1>3, <1>7 DEF next
  <2>2. CASE j # b
    <3>1. j \in 0 .. b - 1 /\ (j # 0 => j - 1 \in 0 .. b - 1)
      BY <2>2, <1>4
    <3>2. f[j] = IF j = 0 THEN NoLines ELSE NextLine(f[j - 1], ivs, j)
      BY <3>1, <1>5 DEF LoopSolves
    <3>3. g[j] = f[j] /\ (j # 0 => g[j - 1] = f[j - 1])
      BY <3>1, <1>6
    <3> HIDE DEF g
    <3> QED BY <3>2, <3>3
  <2> QED BY <2>1, <2>2
<1>9. LoopSolves(g, ivs, b)
  BY <1>8 DEF LoopSolves
<1> QED BY <1>9, <1>2 DEF Bad

(* The loop after j intervals: the lines that are written are exact, and the *)
(* running sum is the busy time since the last of them.                      *)
Reach(ivs, j) == IF j = 0 THEN 0 ELSE Right(ivs[j])

LoopSound(f, ivs, acc, j) ==
  /\ acc.left \in Nat /\ acc.sum \in Nat /\ acc.left <= Reach(ivs, j)
  /\ Exact(f, acc.lines, 0, acc.left)
  /\ acc.sum = f[Reach(ivs, j)] - f[acc.left]
  /\ j # 0 /\ LineEnds(ivs, j) => acc.left = Reach(ivs, j)

(* One round of the loop.                                                    *)
LEMMA LoopNext ==
  ASSUME NEW to \in Nat, NEW f, \A u \in 0 .. to : f[u] \in Nat,
         NEW ivs, Exact(f, ivs, 0, to), NEW j \in 1 .. Len(ivs),
         NEW acc, LoopSound(f, ivs, acc, j - 1)
  PROVE  LoopSound(f, ivs, NextLine(acc, ivs, j), j)
<1> DEFINE new  == NextLine(acc, ivs, j)
           sum  == acc.sum + Val(ivs[j])
           line == <<acc.left, Right(ivs[j]), sum>>
           l == Left(ivs[j])
           r == Right(ivs[j])
<1>1. ivs \in Seq(Nat \X Nat \X Nat) /\ Len(ivs) \in Nat /\ j \in Nat \ {0}
  BY DEF Exact
<1>2. ivs[j] \in Nat \X Nat \X Nat
  BY <1>1
<1>3. l \in Nat /\ r \in Nat /\ Val(ivs[j]) \in Nat
  BY <1>2 DEF Left, Right, Val
<1>4. l < r /\ r <= to /\ Val(ivs[j]) = f[r] - f[l]
  BY DEF Exact
<1>5. Reach(ivs, j) = r /\ Reach(ivs, j - 1) = l
  <2>1. CASE j = 1
    <3>1. ivs # <<>>
      BY <1>1, EmptySeq
    <3>2. l = 0
      BY <2>1, <3>1 DEF Exact
    <3> QED BY <2>1, <3>2 DEF Reach
  <2>2. CASE j > 1
    <3>1. j - 1 # 0 /\ Right(ivs[j - 1]) = l
      BY <1>1, <2>2 DEF Exact
    <3> QED BY <1>1, <3>1 DEF Reach
  <2> QED BY <1>1, <2>1, <2>2
<1> HIDE DEF l, r
<1>6. /\ acc.left \in Nat /\ acc.sum \in Nat /\ acc.left <= l
      /\ Exact(f, acc.lines, 0, acc.left) /\ acc.sum = f[l] - f[acc.left]
  BY <1>5 DEF LoopSound
<1>7. f[l] \in Nat /\ f[r] \in Nat /\ f[acc.left] \in Nat /\ acc.left < r
  BY <1>3, <1>4, <1>6
<1>8. sum \in Nat /\ sum = f[r] - f[acc.left]
  <2>1. sum = (f[l] - f[acc.left]) + (f[r] - f[l]) /\ sum \in Nat
    BY <1>3, <1>4, <1>6
  <2> HIDE DEF sum
  <2> QED BY <1>7, <2>1
<1> HIDE DEF sum
<1>9. CASE LineEnds(ivs, j)
  <2>1. new.lines = Append(acc.lines, line) /\ new.left = r /\ new.sum = 0
    BY <1>9 DEF NextLine, sum, r
  <2>2. acc.lines \in Seq(Nat \X Nat \X Nat)
    BY <1>6 DEF Exact
  <2>3. Append(acc.lines, line) = acc.lines \o <<line>>
    <3>1. line \in Nat \X Nat \X Nat
      BY <1>3, <1>6, <1>8 DEF r
    <3> QED BY <2>2, <3>1, AppendIsConcat
  <2>4. Exact(f, << <<acc.left, r, sum>> >>, acc.left, r)
    BY <1>3, <1>6, <1>7, <1>8, ExactSingle
  <2>5. Exact(f, acc.lines \o << <<acc.left, r, sum>> >>, 0, r)
    BY <1>3, <1>6, <1>7, <2>4, ExactConcat
  <2>6. line = <<acc.left, r, sum>>
    BY DEF r
  <2> HIDE DEF new, line
  <2> QED BY <1>3, <1>5, <1>7, <2>1, <2>3, <2>5, <2>6 DEF LoopSound, new
<1>10. CASE ~LineEnds(ivs, j)
  <2>1. new.lines = acc.lines /\ new.left = acc.left /\ new.sum = sum
    BY <1>10 DEF NextLine, sum
  <2> HIDE DEF new
  <2> QED BY <1>3, <1>5, <1>6, <1>7, <1>8, <1>10, <2>1 DEF LoopSound, new
<1> QED BY <1>9, <1>10

(* The loop as a whole: the compressed lines are exact too, and reach as far *)
(* as the intervals.                                                         *)
LEMMA CompressedExact ==
  ASSUME NEW to \in Nat, NEW f, \A u \in 0 .. to : f[u] \in Nat, NEW ivs, Exact(f, ivs, 0, to)
  PROVE  Exact(f, CompressedLines(ivs), 0, to)
<1> DEFINE n == Len(ivs)
           after == CHOOSE g : LoopSolves(g, ivs, n)
<1>1. ivs \in Seq(Nat \X Nat \X Nat) /\ n \in Nat
  BY DEF Exact
<1>2. LoopSolves(after, ivs, n)
  BY <1>1, LoopRecursion
<1>3. CompressedLines(ivs) = after[n].lines
  BY DEF CompressedLines, LoopSolves
<1> HIDE DEF after
<1>4. \A j \in 0 .. n : after[j] = IF j = 0 THEN NoLines ELSE NextLine(after[j - 1], ivs, j)
  <2> HIDE DEF n
  <2> QED BY <1>2 DEF LoopSolves
<1> DEFINE Bad == {j \in 0 .. n : ~LoopSound(f, ivs, after[j], j)}
<1>5. Bad = {}
  <2>1. SUFFICES ASSUME Bad # {} PROVE FALSE
    OBVIOUS
  <2>2. PICK b \in Bad : \A m \in Bad : b <= m
    <3>1. Bad \in SUBSET Nat
      BY <1>1
    <3> HIDE DEF Bad
    <3> QED BY <2>1, <3>1, SmallestExists
  <2>3. b # 0
    <3>1. after[0] = NoLines
      BY <1>1, <1>4
    <3>2. f[0] \in Nat /\ Exact(f, <<>>, 0, 0)
      BY DEF Exact
    <3>3. LoopSound(f, ivs, NoLines, 0)
      BY <3>2 DEF LoopSound, NoLines, Reach
    <3> QED BY <3>1, <3>3
  <2>4. b \in 1 .. n /\ b - 1 \in 0 .. n /\ b - 1 \notin Bad
    BY <2>2, <2>3, <1>1
  <2>5. LoopSound(f, ivs, after[b - 1], b - 1)
    BY <2>4
  <2>6. LoopSound(f, ivs, NextLine(after[b - 1], ivs, b), b)
    BY <2>4, <2>5, LoopNext
  <2>7. after[b] = NextLine(after[b - 1], ivs, b)
    <3>1. b \in 0 .. n /\ b # 0
      BY <2>4, <1>1
    <3> HIDE DEF n, Bad
    <3> QED BY <1>4, <3>1
  <2> QED BY <2>6, <2>7
<1>6. LoopSound(f, ivs, after[n], n)
  BY <1>1, <1>5
<1> HIDE DEF Bad
<1>7. after[n].left = to
  <2>1. CASE ivs = <<>>
    <3>1. n = 0 /\ to = 0
      BY <2>1 DEF Exact
    <3> HIDE DEF n
    <3> QED BY <1>6, <3>1 DEF LoopSound, Reach
  <2>2. CASE ivs # <<>>
    <3>1. Right(ivs[n]) = to /\ n # 0 /\ LineEnds(ivs, n)
      BY <1>1, <2>2, EmptySeq DEF Exact, LineEnds
    <3> HIDE DEF n
    <3> QED BY <1>6, <3>1 DEF LoopSound, Reach
  <2> QED BY <2>1, <2>2
<1> HIDE DEF n
<1> QED BY <1>3, <1>6, <1>7 DEF LoopSound

-----------------------------------------------------------------------------
(* The end of a run, and the steps of the link.                              *)

(* FinalizeUtilization and the compression: the results are exact, and reach *)
(* to the end of the run.                                                    *)
LEMMA WriteStep ==
  ASSUME DeviceTyped, CountersSound, ClosedSound, phase # "written", WriteResults
  PROVE  DeviceTyped' /\ ResultsSound'
<1> DEFINE nextOn == ~isOn
           after == AfterTracking(nextOn)
           partial == IF now = after.start THEN <<>> ELSE << <<after.start, now, after.busy>> >>
<1>1. nextOn \in BOOLEAN /\ (nextOn <=> ~transmitting)
  BY DEF CountersSound, Accounting, DeviceTyped
<1>2. /\ after.start \in Nat /\ after.end = after.start + Interval
      /\ after.start <= now /\ now < after.end /\ after.busy \in Nat
      /\ after.busy = busyBefore[now] - busyBefore[after.start]
      /\ Exact(busyBefore, after.log, 0, after.start) /\ Regular(after.log)
  BY <1>1, TrackingIsExact
<1>3. /\ intervals' = after.log \o partial /\ compressed' = CompressedLines(intervals')
      /\ UNCHANGED <<now, transmitting, busyBefore>> /\ phase' = "written"
  BY DEF WriteResults, FinalizeUtilization
<1>4. now \in Nat /\ Interval \in Nat \ {0} /\ \A u \in 0 .. now : busyBefore[u] \in Nat
  BY TrackerAssumption DEF DeviceTyped
<1>5. DeviceTyped'
  BY <1>3 DEF DeviceTyped
<1> HIDE DEF after, nextOn, partial
<1>6. partial = <<>> \/ (partial = << <<after.start, now, after.busy>> >> /\ after.start < now)
  BY <1>2, <1>4 DEF partial
<1>7. /\ Exact(busyBefore, intervals', 0, now)
      /\ intervals' # <<>> => Right(Last(intervals')) = now
      /\ \A i \in 1 .. Len(intervals') - 1 : Length(intervals'[i]) = Interval
      /\ intervals' # <<>> => Length(Last(intervals')) <= Interval
  <2> DEFINE T == Nat \X Nat \X Nat
             ivs == after.log
  <2>1. ivs \in Seq(T)
    BY <1>2 DEF Exact
  <2> HIDE DEF T, ivs
  <2>2. CASE partial = <<>>
    <3>1. intervals' = ivs
      BY <1>3, <2>1, <2>2 DEF ivs
    <3>2. after.start = now
      BY <2>2 DEF partial
    <3>3. Exact(busyBefore, intervals', 0, now) /\ Regular(intervals')
      BY <1>2, <3>1, <3>2 DEF ivs
    <3>4. Len(intervals') \in Nat /\ (intervals' # <<>> => Len(intervals') \in 1 .. Len(intervals'))
      BY <2>1, <3>1, EmptySeq
    <3>5. intervals' # <<>> => Right(Last(intervals')) = now /\ Length(Last(intervals')) = Interval
      BY <3>3, <3>4 DEF Exact, Regular, Last
    <3> QED BY <1>4, <3>3, <3>4, <3>5 DEF Regular
  <2>3. CASE partial = << <<after.start, now, after.busy>> >> /\ after.start < now
    <3> DEFINE iv == <<after.start, now, after.busy>>
    <3>1. Exact(busyBefore, partial, after.start, now)
      BY <1>2, <1>4, <2>3, ExactSingle
    <3>2. Exact(busyBefore, intervals', 0, now)
      <4>1. 0 <= after.start /\ after.start <= now
        BY <1>2, <1>4
      <4> QED BY <1>2, <1>3, <1>4, <3>1, <4>1, ExactConcat
    <3>3. iv \in T /\ Right(iv) = now /\ Left(iv) = after.start
      BY <1>2, <1>4 DEF T, Left, Right
    <3>4. intervals' = ivs \o <<iv>>
      BY <1>3, <2>3 DEF ivs
    <3> HIDE DEF iv
    <3>5. /\ Len(intervals') = Len(ivs) + 1 /\ Len(ivs) \in Nat /\ intervals'[Len(ivs) + 1] = iv
          /\ \A i \in 1 .. Len(ivs) : intervals'[i] = ivs[i]
      BY <2>1, <3>3, <3>4
    <3>6. Last(intervals') = iv
      BY <3>5 DEF Last
    <3>7. Length(iv) <= Interval
      BY <1>2, <1>4, <3>3 DEF Length
    <3>8. ASSUME NEW i \in 1 .. Len(intervals') - 1 PROVE Length(intervals'[i]) = Interval
      <4>1. i \in 1 .. Len(ivs)
        BY <3>5
      <4> QED BY <1>2, <3>5, <4>1 DEF Regular, ivs
    <3> QED BY <3>2, <3>3, <3>6, <3>7, <3>8
  <2> QED BY <1>6, <2>2, <2>3
<1>8. now = 0 <=> intervals' = <<>>
  <2>1. CASE intervals' = <<>>
    BY <1>7, <2>1 DEF Exact
  <2>2. CASE intervals' # <<>>
    <3>1. intervals' \in Seq(Nat \X Nat \X Nat) /\ 1 \in 1 .. Len(intervals')
      BY <1>7, <2>2, EmptySeq DEF Exact
    <3>2. intervals'[1] \in Nat \X Nat \X Nat
      BY <3>1
    <3>3. Left(intervals'[1]) \in Nat /\ Right(intervals'[1]) \in Nat
      BY <3>2 DEF Left, Right
    <3>4. Left(intervals'[1]) < Right(intervals'[1]) /\ Right(intervals'[1]) <= now
      BY <1>7, <3>1 DEF Exact
    <3> QED BY <1>4, <2>2, <3>3, <3>4
  <2> QED BY <2>1, <2>2
<1>9. ResultsCoverRun'
  BY <1>3, <1>7, <1>8 DEF ResultsCoverRun, Length
<1>10. Exact(busyBefore, compressed', 0, now)
  BY <1>3, <1>4, <1>7, CompressedExact
<1> QED BY <1>3, <1>5, <1>7, <1>9, <1>10 DEF ResultsSound

LEMMA InitTracker ==
  ASSUME TrackerInit
  PROVE  DeviceTyped /\ CountersSound /\ ClosedSound /\ TrackerInv
<1>1. /\ now = 0 /\ transmitting = FALSE /\ phase = "running" /\ prev = 0 /\ intervalStart = 0
      /\ intervalEnd = Interval /\ idle = 0 /\ busy = 0 /\ isOn = FALSE /\ intervals = <<>>
      /\ busyBefore = [u \in 0 .. MaxNow |-> 0] /\ MaxNow \in Nat /\ Interval \in Nat \ {0}
  BY TrackerAssumption DEF TrackerInit
<1>2. DeviceTyped
  <2>1. busyBefore \in [0 .. MaxNow -> Nat] /\ now \in 0 .. MaxNow
    BY <1>1
  <2> QED BY <1>1, <2>1 DEF DeviceTyped
<1>3. busyBefore[0] = 0
  BY <1>1
<1>4. Accounting
  <2>1. /\ intervalEnd = intervalStart + Interval /\ intervalStart <= prev /\ prev < intervalEnd
        /\ prev <= now /\ idle + busy = prev - intervalStart
    BY <1>1
  <2>2. busy = TrueBusy(intervalStart, prev)
    BY <1>1, <1>3 DEF TrueBusy
  <2>3. isOn = transmitting
    BY <1>1
  <2> QED BY <2>1, <2>2, <2>3 DEF Accounting
<1>5. CountersSound
  BY <1>1, <1>3, <1>4 DEF CountersSound
<1>6. ClosedSound
  BY <1>1 DEF ClosedSound, Exact, Regular
<1> QED BY <1>1, <1>2, <1>5, <1>6 DEF TrackerInv

LEMMA VarsStay ==
  ASSUME UNCHANGED watching
  PROVE  /\ DeviceTyped => DeviceTyped'
         /\ TrackerInit => TrackerInit'
         /\ TrackerInv => TrackerInv'
<1>1. UNCHANGED <<now, transmitting, phase, prev, intervalStart, intervalEnd, idle, busy, isOn,
                  intervals, compressed, busyBefore>>
  BY DEF watching
<1>2. DeviceTyped => DeviceTyped'
  BY <1>1 DEF DeviceTyped
<1>3. TrackerInit => TrackerInit'
  BY <1>1 DEF TrackerInit
<1>4. ResultsSound => ResultsSound'
  BY <1>1 DEF ResultsSound, ResultsCoverRun, Length
<1>5. CountersSound => CountersSound'
  BY <1>1 DEF CountersSound, Accounting, TrueBusy
<1>6. ClosedSound => ClosedSound'
  BY <1>1 DEF ClosedSound, Regular
<1> QED BY <1>1, <1>2, <1>3, <1>4, <1>5, <1>6 DEF TrackerInv

LEMMA TrackerNext ==
  ASSUME LinkInv, [LinkNext]_all
  PROVE  LinkInv'
<1> DEFINE has == HasTracker("utilization", Watched)
           begins == IF has THEN PhyTxBegin
                     ELSE /\ transmitting' = TRUE
                          /\ UNCHANGED <<now, phase, tracker, compressed, busyBefore>>
           ends == IF has THEN PhyTxEnd
                   ELSE /\ transmitting' = FALSE
                        /\ UNCHANGED <<now, phase, tracker, compressed, busyBefore>>
<1>1. CASE Construct
  <2>1. UNCHANGED watching /\ stage = "construct"
    BY <1>1 DEF Construct
  <2>2. TrackerInit
    BY <2>1 DEF LinkInv
  <2>3. DeviceTyped' /\ TrackerInv' /\ TrackerInit'
    BY <2>1, <2>2, InitTracker, VarsStay
  <2>4. stage' # "run" => ~has'
    BY <1>1, <2>1 DEF Construct, LinkInv, HasTracker
  <2> QED BY <2>3, <2>4 DEF LinkInv
<1>2. CASE UNCHANGED <<stage, tracked>> /\ UNCHANGED watching
  <2>1. has' = has
    BY <1>2 DEF HasTracker
  <2> QED BY <1>2, <2>1, VarsStay DEF LinkInv
<1>3. CASE /\ stage = "run" /\ phase = "running" /\ UNCHANGED <<stage, tracked>>
           /\ begins \/ ends \/ Tick \/ Stop
  <2>1. has' = has
    BY <1>3 DEF HasTracker
  <2>2. has => CountersSound /\ ClosedSound
    BY <1>3 DEF LinkInv, TrackerInv
  <2>3. DeviceTyped
    BY DEF LinkInv
  <2>4. CASE begins
    <3>1. transmitting' = TRUE /\ UNCHANGED <<now, phase, busyBefore>>
      BY <2>4 DEF PhyTxBegin
    <3>2. DeviceTyped'
      BY <2>3, <3>1 DEF DeviceTyped
    <3>3. has => CountersSound' /\ ClosedSound'
      BY <1>3, <2>2, <2>3, <2>4, <3>1, DeviceStep DEF PhyTxBegin
    <3> QED BY <1>3, <2>1, <3>1, <3>2, <3>3 DEF LinkInv, TrackerInv
  <2>5. CASE ends
    <3>1. transmitting' = FALSE /\ UNCHANGED <<now, phase, busyBefore>>
      BY <2>5 DEF PhyTxEnd
    <3>2. DeviceTyped'
      BY <2>3, <3>1 DEF DeviceTyped
    <3>3. has => CountersSound' /\ ClosedSound'
      BY <1>3, <2>2, <2>3, <2>5, <3>1, DeviceStep DEF PhyTxEnd
    <3> QED BY <1>3, <2>1, <3>1, <3>2, <3>3 DEF LinkInv, TrackerInv
  <2>6. CASE Tick
    <3>1. DeviceTyped' /\ (has => CountersSound' /\ ClosedSound')
      <4>1. CASE has
        BY <2>2, <2>3, <2>6, <4>1, TickStep
      <4>2. CASE ~has
        <5>1. /\ now' = now + 1 /\ now \in Nat /\ now < MaxNow /\ MaxNow \in Nat
              /\ busyBefore[now] \in Nat /\ UNCHANGED <<transmitting, phase>>
              /\ busyBefore' = [busyBefore EXCEPT ![now + 1] =
                                  busyBefore[now] + (IF transmitting THEN 1 ELSE 0)]
          BY <2>3, <2>6, TrackerAssumption DEF Tick, DeviceTyped
        <5>2. busyBefore[now] + (IF transmitting THEN 1 ELSE 0) \in Nat
          BY <5>1
        <5>3. busyBefore' \in [0 .. MaxNow -> Nat]
          BY <2>3, <5>1, <5>2 DEF DeviceTyped
        <5> QED BY <2>3, <4>2, <5>1, <5>3 DEF DeviceTyped
      <4> QED BY <4>1, <4>2
    <3> QED BY <1>3, <2>1, <2>6, <3>1 DEF LinkInv, TrackerInv, Tick
  <2>7. CASE Stop
    <3>1. /\ phase' = "stopped" /\ UNCHANGED <<now, transmitting, busyBefore, intervals>>
          /\ UNCHANGED <<prev, intervalStart, intervalEnd, idle, busy, isOn>>
      BY <2>7 DEF Stop, tracker
    <3>2. DeviceTyped'
      BY <2>3, <3>1 DEF DeviceTyped
    <3>3. has => Accounting'
      BY <1>3, <2>2, <3>1 DEF CountersSound, Accounting, TrueBusy
    <3>4. has => CountersSound' /\ ClosedSound'
      BY <2>2, <3>1, <3>3 DEF CountersSound, ClosedSound, Regular
    <3> QED BY <1>3, <2>1, <3>1, <3>2, <3>4 DEF LinkInv, TrackerInv
  <2> QED BY <1>3, <2>4, <2>5, <2>6, <2>7
<1>4. CASE WriteTables
  <2>1. /\ stage = "run" /\ phase = "stopped" /\ UNCHANGED <<stage, tracked>>
        /\ IF has THEN WriteResults
           ELSE /\ phase' = "written"
                /\ UNCHANGED <<now, transmitting, tracker, compressed, busyBefore>>
    BY <1>4 DEF WriteTables
  <2>2. has' = has /\ DeviceTyped
    BY <2>1 DEF HasTracker, LinkInv
  <2>3. CASE has
    <3>1. CountersSound /\ ClosedSound /\ phase' = "written"
      BY <2>1, <2>3 DEF LinkInv, TrackerInv, WriteResults
    <3>2. DeviceTyped' /\ ResultsSound'
      BY <2>1, <2>2, <2>3, <3>1, WriteStep
    <3> QED BY <2>1, <3>1, <3>2 DEF LinkInv, TrackerInv
  <2>4. CASE ~has
    BY <2>1, <2>2, <2>4 DEF LinkInv, DeviceTyped
  <2> QED BY <2>3, <2>4
<1>5. CASE TransmitStart
  <2>1. begins /\ UNCHANGED <<stage, tracked>> /\ stage = "run" /\ phase = "running"
    BY <1>5 DEF TransmitStart, Simulating
  <2> QED BY <1>3, <2>1
<1>6. CASE TransmitComplete
  <2>1. ends /\ UNCHANGED <<stage, tracked>> /\ stage = "run" /\ phase = "running"
    BY <1>6 DEF TransmitComplete, Simulating, links
  <2> QED BY <1>3, <2>1
<1>7. CASE Pass \/ Halt
  <2>1. /\ Tick \/ Stop
        /\ UNCHANGED <<stage, tracked>> /\ stage = "run" /\ phase = "running"
    BY <1>7 DEF Pass, Halt, Quiet, Simulating, links
  <2> QED BY <1>3, <2>1
<1>8. CASE QdiscRun \/ (\E size \in Size : Arrive(size)) \/ UNCHANGED all
  <2>1. UNCHANGED <<stage, tracked>> /\ UNCHANGED watching
    BY <1>8 DEF QdiscRun, Arrive, all, links
  <2> QED BY <1>2, <2>1
<1> QED BY <1>1, <1>4, <1>5, <1>6, <1>7, <1>8 DEF LinkNext

-----------------------------------------------------------------------------
(* The theorems.                                                             *)

LEMMA LinkAlways == LinkSpec => []LinkInv
<1>1. LinkInit => LinkInv
  <2> SUFFICES ASSUME LinkInit PROVE LinkInv
    OBVIOUS
  <2>1. TrackerInit /\ DeviceTyped
    BY InitTracker DEF LinkInit
  <2>2. ~HasTracker("utilization", Watched)
    BY DEF LinkInit, HasTracker, Kind
  <2> QED BY <2>1, <2>2 DEF LinkInv
<1>2. LinkInv /\ [LinkNext]_all => LinkInv'
  BY TrackerNext
<1> QED BY <1>1, <1>2, PTL DEF LinkSpec

(* An exact log in the words of the properties.                              *)
LEMMA ExactTiles ==
  ASSUME NEW ivs, NEW from \in Nat, NEW to \in Nat, Exact(busyBefore, ivs, from, to)
  PROVE  /\ \A i \in DOMAIN ivs : Val(ivs[i]) = TrueBusy(Left(ivs[i]), Right(ivs[i]))
         /\ NonEmpty(ivs) /\ Adjoining(ivs)
         /\ ivs # <<>> => Left(ivs[1]) = from
         /\ ivs # <<>> => Right(Last(ivs)) = to
         /\ ivs = <<>> => from = to
<1>1. ivs \in Seq(Nat \X Nat \X Nat) /\ DOMAIN ivs = 1 .. Len(ivs) /\ Len(ivs) \in Nat
  BY DEF Exact
<1>2. \A i \in DOMAIN ivs \ {1} : i \in 1 .. Len(ivs) /\ i > 1
  BY <1>1
<1>3. Adjoining(ivs)
  BY <1>2 DEF Adjoining, Exact
<1>4. NonEmpty(ivs) /\ \A i \in DOMAIN ivs : Val(ivs[i]) = TrueBusy(Left(ivs[i]), Right(ivs[i]))
  BY <1>1 DEF NonEmpty, Exact, TrueBusy
<1> QED BY <1>3, <1>4 DEF Exact, Last

(* The tracker attributes the busy time exactly: the counters at any moment, *)
(* however many intervals have gone by unnoticed, and every closed interval. *)
THEOREM BusyTimeExact == LinkSpec => []BusyTimeAccounted
<1>1. LinkInv => BusyTimeAccounted
  <2> SUFFICES ASSUME LinkInv, HasTracker("utilization", Watched) PROVE Accounting /\ ExactBusyTime
    BY DEF BusyTimeAccounted
  <2>1. CASE phase = "written"
    <3>1. Exact(busyBefore, intervals, 0, now) /\ now \in Nat
      BY <2>1, TrackerAssumption DEF LinkInv, TrackerInv, ResultsSound, DeviceTyped
    <3> QED BY <2>1, <3>1, ExactTiles DEF ExactBusyTime, Accounting
  <2>2. CASE phase # "written"
    <3>1. Exact(busyBefore, intervals, 0, intervalStart) /\ intervalStart \in Nat /\ Accounting
      BY <2>2 DEF LinkInv, TrackerInv, ClosedSound, CountersSound
    <3> QED BY <3>1, ExactTiles DEF ExactBusyTime
  <2> QED BY <2>1, <2>2
<1> QED BY <1>1, LinkAlways, PTL

(* The results cover the run, also when it ends amid an interval or a packet,*)
(* and no busy time is lost or counted twice in the compressed ones.         *)
THEOREM UtilizationKept == LinkSpec => []UtilizationConserved
<1>1. LinkInv => UtilizationConserved
  <2> SUFFICES ASSUME LinkInv, HasTracker("utilization", Watched), phase = "written"
               PROVE  ResultsCoverRun /\ CompressionConserves
    BY DEF UtilizationConserved, ResultsCoverRun, CompressionConserves
  <2>1. ResultsCoverRun /\ Exact(busyBefore, compressed, 0, now) /\ now \in Nat
    BY TrackerAssumption DEF LinkInv, TrackerInv, ResultsSound, DeviceTyped
  <2>2. now = 0 => compressed = <<>>
    <3> SUFFICES ASSUME now = 0, compressed # <<>> PROVE FALSE
      OBVIOUS
    <3>1. compressed \in Seq(Nat \X Nat \X Nat) /\ 1 \in 1 .. Len(compressed)
      BY <2>1, EmptySeq DEF Exact
    <3>2. compressed[1] \in Nat \X Nat \X Nat
      BY <3>1
    <3>3. Left(compressed[1]) \in Nat /\ Right(compressed[1]) \in Nat
      BY <3>2 DEF Left, Right
    <3>4. Left(compressed[1]) < Right(compressed[1]) /\ Right(compressed[1]) <= 0
      BY <2>1, <3>1 DEF Exact
    <3> QED BY <3>3, <3>4
  <2> QED BY <2>1, <2>2, ExactTiles DEF CompressionConserves
<1> QED BY <1>1, LinkAlways, PTL

-----------------------------------------------------------------------------
(* What a loop over a std::map goes through: every key once, in order.       *)
StrictOrder(order, S) ==
  /\ \A x \in S : <<x, x>> \notin order
  /\ \A x, y \in S : x = y \/ <<x, y>> \in order \/ <<y, x>> \in order
  /\ \A x, y, z \in S : <<x, y>> \in order /\ <<y, z>> \in order => <<x, z>> \in order

Enumerates(f, S, order) ==
  /\ Cardinality(S) \in Nat /\ f \in [1 .. Cardinality(S) -> S]
  /\ \A x \in S : \E k \in 1 .. Cardinality(S) : f[k] = x
  /\ \A j, k \in 1 .. Cardinality(S) : j < k => <<f[j], f[k]>> \in order

LEMMA RankedFacts ==
  ASSUME NEW S, IsFiniteSet(S), NEW order, StrictOrder(order, S)
  PROVE  Enumerates(Ranked(S, order), S, order)
<1> DEFINE n == Cardinality(S)
           Below(x) == {y \in S : <<y, x>> \in order}
           rank == [x \in S |-> Cardinality(Below(x)) + 1]
           f == Ranked(S, order)
<1>1. n \in Nat
  BY FS_CardinalityType
<1>2. \A x \in S : IsFiniteSet(Below(x)) /\ Cardinality(Below(x)) \in Nat
  BY FS_Subset, FS_CardinalityType
<1>3. ASSUME NEW x \in S, NEW y \in S, <<x, y>> \in order PROVE rank[x] < rank[y]
  <2>1. Below(x) \cup {x} \in SUBSET Below(y) /\ x \notin Below(x)
    <3>1. x \in Below(y) /\ x \notin Below(x) /\ \A z \in Below(x) : z \in Below(y)
      BY <1>3 DEF StrictOrder
    <3> HIDE DEF Below
    <3> QED BY <3>1
  <2>2. Cardinality(Below(x) \cup {x}) = Cardinality(Below(x)) + 1
    <3> HIDE DEF Below
    <3> QED BY <1>2, <2>1, FS_AddElement
  <2>3. Cardinality(Below(x) \cup {x}) <= Cardinality(Below(y))
    <3> HIDE DEF Below
    <3> QED BY <1>2, <2>1, FS_Subset
  <2> HIDE DEF Below
  <2> QED BY <1>2, <2>2, <2>3
<1>4. ASSUME NEW x \in S PROVE rank[x] \in 1 .. n
  <2>1. Below(x) \in SUBSET (S \ {x})
    BY DEF StrictOrder
  <2>2. IsFiniteSet(S \ {x}) /\ Cardinality(S \ {x}) = n - 1
    BY FS_RemoveElement
  <2>3. Cardinality(Below(x)) <= n - 1
    <3> HIDE DEF Below
    <3> QED BY <2>1, <2>2, FS_Subset
  <2>4. rank[x] = Cardinality(Below(x)) + 1 /\ Cardinality(Below(x)) \in Nat
    BY <1>2
  <2> HIDE DEF rank, Below
  <2> QED BY <1>1, <2>3, <2>4
<1>5. \A x, y \in S : rank[x] = rank[y] => x = y
  <2>1. \A x \in S : rank[x] \in Int
    BY <1>1, <1>4
  <2>2. \A x, y \in S : <<x, y>> \in order => rank[x] # rank[y]
    <3> HIDE DEF rank
    <3> QED BY <1>3, <2>1
  <2> HIDE DEF rank
  <2> QED BY <2>2 DEF StrictOrder
<1>6. rank \in Surjection(S, 1 .. n)
  <2>1. rank \in Injection(S, 1 .. n)
    <3>1. rank \in [S -> 1 .. n]
      BY <1>4
    <3> HIDE DEF rank
    <3> QED BY <1>5, <3>1 DEF Injection, IsInjective
  <2>2. IsFiniteSet(1 .. n) /\ Cardinality(1 .. n) = n
    BY <1>1, FS_Interval
  <2> HIDE DEF rank
  <2> QED BY <2>1, <2>2, FS_Injection
<1>7. ASSUME NEW k \in 1 .. n PROVE f[k] \in S /\ rank[f[k]] = k
  <2>1. \E x \in S : rank[x] = k
    <3> HIDE DEF rank
    <3> QED BY <1>6 DEF Surjection
  <2>2. \E x \in S : Cardinality({y \in S : <<y, x>> \in order}) = k - 1
    <3>1. PICK x \in S : rank[x] = k
      BY <2>1
    <3>2. rank[x] = Cardinality(Below(x)) + 1 /\ Cardinality(Below(x)) \in Nat
      BY <1>2
    <3>3. Cardinality(Below(x)) = k - 1
      <4> HIDE DEF rank, Below
      <4> QED BY <3>1, <3>2
    <3> QED BY <3>3
  <2>3. f[k] = CHOOSE x \in S : Cardinality({y \in S : <<y, x>> \in order}) = k - 1
    BY DEF Ranked
  <2>4. f[k] \in S /\ Cardinality({y \in S : <<y, f[k]>> \in order}) = k - 1
    BY <2>2, <2>3
  <2> QED BY <1>1, <2>4
<1>8. f \in [1 .. n -> S]
  <2> DEFINE g == [k \in 1 .. n |-> CHOOSE x \in S : Cardinality({y \in S : <<y, x>> \in order}) = k - 1]
  <2>1. f = g
    BY DEF Ranked
  <2>2. \A k \in 1 .. n : g[k] \in S
    <3> HIDE DEF f, g, rank
    <3> QED BY <1>7, <2>1
  <2> HIDE DEF f, rank
  <2> QED BY <2>1, <2>2
<1>9. \A x \in S : \E k \in 1 .. n : f[k] = x
  <2> HIDE DEF f, rank
  <2> QED BY <1>4, <1>5, <1>7
<1>10. ASSUME NEW j \in 1 .. n, NEW k \in 1 .. n, j < k PROVE <<f[j], f[k]>> \in order
  <2>1. f[j] \in S /\ f[k] \in S /\ rank[f[j]] = j /\ rank[f[k]] = k
    BY <1>7
  <2>2. j \in Nat /\ k \in Nat /\ j # k /\ ~ (k < j)
    BY <1>1, <1>10
  <2> HIDE DEF f, rank
  <2>3. f[j] # f[k] /\ ~ (rank[f[k]] < rank[f[j]])
    BY <2>1, <2>2
  <2> QED BY <1>3, <2>1, <2>3 DEF StrictOrder
<1> HIDE DEF f
<1> QED BY <1>1, <1>8, <1>9, <1>10 DEF f, Enumerates

(* The two orders that the models sort by.                                   *)
LEMMA NumbersSorted ==
  ASSUME NEW S \in SUBSET Nat, IsFiniteSet(S)
  PROVE  /\ Cardinality(S) \in Nat /\ SortedNumbers(S) \in [1 .. Cardinality(S) -> S]
         /\ \A x \in S : \E k \in 1 .. Cardinality(S) : SortedNumbers(S)[k] = x
         /\ \A j, k \in 1 .. Cardinality(S) : j < k => SortedNumbers(S)[j] < SortedNumbers(S)[k]
<1> DEFINE order == {p \in S \X S : p[1] < p[2]}
<1>1. \A x, y \in S : <<x, y>> \in order <=> x < y
  OBVIOUS
<1>2. SortedNumbers(S) = Ranked(S, order)
  BY DEF SortedNumbers
<1>3. \A x \in S : x \in Nat
  OBVIOUS
<1> HIDE DEF order
<1>4. StrictOrder(order, S)
  BY <1>1, <1>3 DEF StrictOrder
<1>5. Enumerates(SortedNumbers(S), S, order)
  BY <1>2, <1>4, RankedFacts
<1>6. \A j \in 1 .. Cardinality(S) : SortedNumbers(S)[j] \in S
  BY <1>5 DEF Enumerates
<1> QED BY <1>1, <1>5, <1>6 DEF Enumerates

Precedes(a, b) == a[1] < b[1] \/ (a[1] = b[1] /\ a[2] < b[2])

LEMMA LinksSorted ==
  ASSUME NEW S \in SUBSET (Nat \X Nat), IsFiniteSet(S)
  PROVE  /\ Cardinality(S) \in Nat /\ SortedLinks(S) \in [1 .. Cardinality(S) -> S]
         /\ \A x \in S : \E k \in 1 .. Cardinality(S) : SortedLinks(S)[k] = x
         /\ \A j, k \in 1 .. Cardinality(S) : j < k => Precedes(SortedLinks(S)[j], SortedLinks(S)[k])
<1> DEFINE order == {p \in S \X S : LET a == p[1] b == p[2]
                                    IN  a[1] < b[1] \/ (a[1] = b[1] /\ a[2] < b[2])}
<1>1. \A x, y \in S : <<x, y>> \in order <=> Precedes(x, y)
  BY DEF Precedes
<1>2. SortedLinks(S) = Ranked(S, order)
  BY DEF SortedLinks
<1>3. \A x \in S : x[1] \in Nat /\ x[2] \in Nat /\ x = <<x[1], x[2]>>
  OBVIOUS
<1> HIDE DEF order
<1>4. StrictOrder(order, S)
  <2>1. \A x \in S : ~Precedes(x, x)
    BY <1>3 DEF Precedes
  <2>2. ASSUME NEW x \in S, NEW y \in S PROVE x = y \/ Precedes(x, y) \/ Precedes(y, x)
    <3>1. x[1] = y[1] /\ x[2] = y[2] => x = y
      BY <1>3
    <3> QED BY <1>3, <3>1 DEF Precedes
  <2>3. \A x, y, z \in S : Precedes(x, y) /\ Precedes(y, z) => Precedes(x, z)
    BY <1>3 DEF Precedes
  <2> QED BY <1>1, <2>1, <2>2, <2>3, Zenon DEF StrictOrder
<1>5. Enumerates(SortedLinks(S), S, order)
  BY <1>2, <1>4, RankedFacts
<1>6. \A j \in 1 .. Cardinality(S) : SortedLinks(S)[j] \in S
  BY <1>5 DEF Enumerates
<1> QED BY <1>1, <1>5, <1>6 DEF Enumerates

(* Of two links, the one that precedes the other is sorted first.            *)
LEMMA FirstOfTwo ==
  ASSUME NEW a \in Nat \X Nat, NEW b \in Nat \X Nat, Precedes(a, b)
  PROVE  SortedLinks({a, b})[1] = a
<1> DEFINE S == {a, b}
           f == SortedLinks(S)
           n == Cardinality(S)
<1>1. S \in SUBSET (Nat \X Nat)
  OBVIOUS
<1>2. IsFiniteSet(S)
  <2>1. IsFiniteSet({a}) /\ {a} \cup {b} = S
    BY FS_Singleton
  <2> QED BY <2>1, FS_AddElement
<1>3. /\ n \in Nat /\ f \in [1 .. n -> S] /\ \E k \in 1 .. n : f[k] = a
      /\ \A j, k \in 1 .. n : j < k => Precedes(f[j], f[k])
  BY <1>1, <1>2, LinksSorted
<1>4. ~Precedes(a, a) /\ ~Precedes(b, a)
  BY DEF Precedes
<1> HIDE DEF f, n
<1>5. PICK k \in 1 .. n : f[k] = a
  BY <1>3
<1>6. f[1] = a \/ f[1] = b
  BY <1>3, <1>5
<1>7. k = 1
  <2> SUFFICES ASSUME k # 1 PROVE FALSE
    OBVIOUS
  <2>1. 1 \in 1 .. n /\ 1 < k
    BY <1>3
  <2>2. Precedes(f[1], a)
    BY <1>3, <1>5, <2>1
  <2> QED BY <1>4, <1>6, <2>2
<1> QED BY <1>5, <1>7 DEF f

(* What a log says of an instant, before and after a change.                 *)
LEMMA ValuesOf ==
  ASSUME NEW m \in Nat, NEW f \in [0 .. m -> Nat], NEW t \in Nat
  PROVE  ValueAt(f, t) = f[IF t <= m THEN t ELSE m] /\ ValueAt(f, t) \in Nat
<1> DEFINE latest == CHOOSE last \in DOMAIN f : \A u \in DOMAIN f : u <= last
<1>1. DOMAIN f = 0 .. m /\ m \in 0 .. m /\ \A u \in 0 .. m : u <= m
  OBVIOUS
<1>2. latest \in 0 .. m /\ \A u \in 0 .. m : u <= latest
  BY <1>1
<1> HIDE DEF latest
<1>3. latest = m
  BY <1>1, <1>2
<1>4. ValueAt(f, t) = IF t \in 0 .. m THEN f[t] ELSE f[m]
  BY <1>1, <1>3 DEF ValueAt, latest
<1> QED BY <1>4

LEMMA LoggedIs ==
  ASSUME now \in Nat, NEW m \in 0 .. now, NEW f \in [0 .. m -> Nat], NEW v \in Nat
  PROVE  /\ Logged(f, v) \in [0 .. now -> Nat] /\ ValueAt(Logged(f, v), now) = v
         /\ \A t \in 0 .. now - 1 : ValueAt(Logged(f, v), t) = ValueAt(f, t)
<1> DEFINE g == Logged(f, v)
<1>1. m \in Nat /\ \A t \in 0 .. now : t \in Nat
  OBVIOUS
<1>2. \A t \in 0 .. now : ValueAt(f, t) \in Nat
  BY <1>1, ValuesOf
<1>3. /\ g \in [0 .. now -> Nat]
      /\ \A t \in 0 .. now : g[t] = IF t = now THEN v ELSE ValueAt(f, t)
  BY <1>2 DEF Logged
<1> HIDE DEF g
<1>4. \A t \in 0 .. now : ValueAt(g, t) = g[t]
  <2> TAKE t \in 0 .. now
  <2>1. t \in Nat /\ t <= now
    OBVIOUS
  <2> QED BY <1>3, <2>1, ValuesOf
<1>5. now \in 0 .. now /\ \A t \in 0 .. now - 1 : t \in 0 .. now /\ t # now
  OBVIOUS
<1> QED BY <1>3, <1>4, <1>5 DEF g

(* Without a change in between a value stays.                                *)
LEMMA ValueStays ==
  ASSUME NEW f, NEW b \in Nat, NEW e \in Nat,
         \A t \in b + 1 .. e - 1 : ValueAt(f, t) = ValueAt(f, t - 1)
  PROVE  \A t \in b .. e - 1 : ValueAt(f, t) = ValueAt(f, b)
<1> SUFFICES ASSUME NEW t \in b .. e - 1 PROVE ValueAt(f, t) = ValueAt(f, b)
  OBVIOUS
<1> DEFINE n == t - b
           T == {i \in 0 .. n : ValueAt(f, b + i) = ValueAt(f, b)}
<1>1. n \in Nat /\ b + n = t /\ b + 0 = b /\ 0 \in 0 .. n
  OBVIOUS
<1>2. 0 \in T
  BY <1>1
<1>3. ASSUME NEW i \in 1 .. n, i - 1 \in T PROVE i \in T
  <2>1. ValueAt(f, b + (i - 1)) = ValueAt(f, b)
    BY <1>3
  <2>2. b + i \in b + 1 .. e - 1 /\ (b + i) - 1 = b + (i - 1) /\ i \in 0 .. n
    BY <1>1
  <2>3. ValueAt(f, b + i) = ValueAt(f, b + (i - 1))
    BY <2>2
  <2> QED BY <2>1, <2>2, <2>3
<1> HIDE DEF T
<1>4. n \in T
  BY <1>1, <1>2, <1>3, Climb
<1> HIDE DEF n
<1> QED BY <1>1, <1>4 DEF T

(* The device is busy throughout when it is at every instant.                *)
LEMMA BusyThroughout ==
  ASSUME NEW f, NEW b \in Nat, NEW e \in Nat, b <= e, \A t \in b .. e : f[t] \in Nat,
         \A t \in b .. e - 1 : f[t + 1] = f[t] + 1
  PROVE  f[e] - f[b] = e - b
<1> DEFINE n == e - b
           T == {i \in 0 .. n : f[b + i] = f[b] + i}
<1>1. n \in Nat /\ b + n = e /\ b + 0 = b /\ 0 \in 0 .. n /\ f[b] \in Nat
  OBVIOUS
<1>2. 0 \in T
  BY <1>1
<1>3. ASSUME NEW i \in 1 .. n, i - 1 \in T PROVE i \in T
  <2>1. f[b + (i - 1)] = f[b] + (i - 1)
    BY <1>3
  <2>2. b + (i - 1) \in b .. e - 1 /\ (b + (i - 1)) + 1 = b + i /\ i \in 0 .. n
    BY <1>1
  <2>3. f[b + i] = f[b + (i - 1)] + 1
    BY <2>2
  <2>4. f[b + i] = f[b] + i
    BY <1>1, <2>1, <2>3
  <2> QED BY <2>2, <2>4
<1> HIDE DEF T
<1>4. n \in T
  BY <1>1, <1>2, <1>3, Climb
<1>5. f[e] = f[b] + n
  BY <1>1, <1>4 DEF T
<1> QED BY <1>1, <1>5

(* The intervals of a result reach from the start of the run to its end.     *)
Tiling(ivs) ==
  /\ ivs \in Seq(Nat \X Nat \X Nat) /\ ivs # <<>> /\ NonEmpty(ivs) /\ Adjoining(ivs)
  /\ Left(ivs[1]) = 0 /\ Right(Last(ivs)) = now

(* Each has the value that the log has throughout it.                        *)
Tells(ivs, f) ==
  \A i \in DOMAIN ivs :
    /\ Left(ivs[i]) \in Nat /\ Right(ivs[i]) \in Nat /\ Val(ivs[i]) \in Nat
    /\ Left(ivs[i]) < Right(ivs[i]) /\ Right(ivs[i]) <= now
    /\ \A t \in Left(ivs[i]) .. Right(ivs[i]) - 1 : ValueAt(f, t) = Val(ivs[i])

LEMMA FinalizedIs ==
  ASSUME now \in Nat \ {0}, NEW m \in 0 .. now, NEW f \in [0 .. m -> Nat]
  PROVE  Tiling(Finalized(f)) /\ Tells(Finalized(f), f)
<1> DEFINE S == {t \in DOMAIN f : t < now /\ (t - 1 \in DOMAIN f => f[t] # f[t - 1])}
           n == Cardinality(S)
           q == SortedNumbers(S)
           ends(i) == IF i = n THEN now ELSE q[i + 1]
           ivs == Finalized(f)
<1>1. m \in Nat /\ DOMAIN f = 0 .. m /\ \A t \in 0 .. m : f[t] \in Nat /\ t \in Nat
  OBVIOUS
<1>2. S \in SUBSET Nat /\ IsFiniteSet(S)
  <2>1. S \in SUBSET (0 .. m) /\ IsFiniteSet(0 .. m)
    BY <1>1, FS_Interval
  <2> HIDE DEF S
  <2>2. S \in SUBSET Nat
    BY <1>1, <2>1
  <2> QED BY <2>1, <2>2, FS_Subset
<1>3. 0 \in S /\ \A t \in S : t \in 0 .. m /\ t < now
  BY <1>1
<1>4. ASSUME NEW t \in 1 .. now - 1, t \notin S PROVE ValueAt(f, t) = ValueAt(f, t - 1)
  <2>1. /\ t \in Nat /\ t - 1 \in Nat /\ t < now
        /\ ValueAt(f, t) = f[IF t <= m THEN t ELSE m]
        /\ ValueAt(f, t - 1) = f[IF t - 1 <= m THEN t - 1 ELSE m]
    <3>1. t \in Nat /\ t - 1 \in Nat /\ t < now
      BY <1>4
    <3>2. \A x \in Nat : ValueAt(f, x) = f[IF x <= m THEN x ELSE m]
      <4> HIDE DEF S
      <4> QED BY <1>1, ValuesOf
    <3> QED BY <3>1, <3>2
  <2>2. CASE t <= m
    <3>1. t \in 0 .. m /\ t - 1 \in 0 .. m
      BY <1>1, <2>1, <2>2
    <3>2. f[t] = f[t - 1]
      BY <1>1, <1>4, <2>1, <3>1
    <3> QED BY <2>1, <2>2, <3>1, <3>2
  <2>3. CASE ~ (t <= m)
    <3>1. t - 1 = m \/ ~ (t - 1 <= m)
      BY <1>1, <2>1, <2>3
    <3> QED BY <2>1, <2>3, <3>1
  <2> QED BY <2>2, <2>3
<1> HIDE DEF S
<1>5. /\ n \in Nat /\ q \in [1 .. n -> S]
      /\ \A x \in S : \E k \in 1 .. n : q[k] = x
      /\ \A j, k \in 1 .. n : j < k => q[j] < q[k]
  BY <1>2, NumbersSorted
<1>6. /\ DOMAIN q = 1 .. n /\ Len(q) = n
      /\ \A i \in 1 .. n : q[i] \in S /\ q[i] \in Nat /\ q[i] < now /\ q[i] \in 0 .. m
  <2>1. q \in Seq(S) /\ Len(q) = n
    <3> HIDE DEF q, n
    <3> QED BY <1>5, SeqDef, LenProperties
  <2>2. \A i \in 1 .. n : q[i] \in S
    BY <1>5
  <2> HIDE DEF q, n
  <2> QED BY <1>2, <1>3, <1>5, <2>1, <2>2
<1>7. ivs = [i \in 1 .. n |-> <<q[i], ends(i), f[q[i]]>>]
  <2>1. ivs = [i \in DOMAIN q |-> <<q[i], IF i = Len(q) THEN now ELSE q[i + 1], f[q[i]]>>]
    BY DEF Finalized, S
  <2> HIDE DEF q, n, ivs
  <2> QED BY <1>6, <2>1
<1> HIDE DEF q, n
<1>8. n >= 1 /\ q[1] = 0 /\ 1 \in 1 .. n /\ n \in 1 .. n
  <2>1. PICK k \in 1 .. n : q[k] = 0
    BY <1>3, <1>5
  <2>2. 1 \in 1 .. n /\ n \in 1 .. n /\ n >= 1
    BY <1>5
  <2>3. k = 1 \/ 1 < k
    BY <1>5
  <2>4. ~ (q[1] < q[k])
    BY <1>6, <2>1, <2>2
  <2> QED BY <1>5, <2>1, <2>2, <2>3, <2>4
<1>9. ASSUME NEW i \in 1 .. n
      PROVE  /\ ends(i) \in Nat /\ q[i] < ends(i) /\ ends(i) <= now
             /\ \A x \in S : ~ (q[i] < x /\ x < ends(i))
  <2>1. CASE i = n
    <3>1. ends(i) = now /\ now \in Nat
      BY <2>1
    <3>2. ASSUME NEW x \in S, q[i] < x PROVE FALSE
      <4>1. PICK k \in 1 .. n : q[k] = x
        BY <1>5
      <4>2. k = n \/ k < n
        BY <1>5
      <4>3. ~ (q[k] < q[i])
        BY <1>6, <3>2, <4>1
      <4> QED BY <1>5, <1>6, <2>1, <3>2, <4>1, <4>2, <4>3
    <3> HIDE DEF ends
    <3> QED BY <1>6, <3>1, <3>2
  <2>2. CASE i # n
    <3>1. i + 1 \in 1 .. n /\ i < i + 1
      BY <1>5, <2>2
    <3>2. ends(i) = q[i + 1]
      BY <2>2
    <3>3. ASSUME NEW x \in S, q[i] < x, x < q[i + 1] PROVE FALSE
      <4>1. PICK k \in 1 .. n : q[k] = x
        BY <1>5
      <4>2. k = i \/ k < i \/ k = i + 1 \/ i + 1 < k
        BY <1>5
      <4>3. ~ (q[k] < q[i]) /\ ~ (q[i + 1] < q[k]) /\ k # i /\ k # i + 1
        BY <1>6, <3>1, <3>3, <4>1
      <4> QED BY <1>5, <3>1, <4>2, <4>3
    <3>4. q[i + 1] \in Nat /\ q[i + 1] < now /\ q[i] < q[i + 1] /\ now \in Nat
      BY <1>5, <1>6, <3>1
    <3> HIDE DEF ends
    <3> QED BY <3>2, <3>3, <3>4
  <2> QED BY <2>1, <2>2
<1>10. /\ DOMAIN ivs = 1 .. n
       /\ \A i \in 1 .. n : /\ ivs[i] \in Nat \X Nat \X Nat
                            /\ Left(ivs[i]) = q[i] /\ Right(ivs[i]) = ends(i)
                            /\ Val(ivs[i]) = f[q[i]] /\ f[q[i]] \in Nat
  <2> HIDE DEF ends, ivs
  <2>1. DOMAIN ivs = 1 .. n /\ \A i \in 1 .. n : ivs[i] = <<q[i], ends(i), f[q[i]]>>
    BY <1>7
  <2>2. \A i \in 1 .. n : q[i] \in Nat /\ ends(i) \in Nat /\ f[q[i]] \in Nat
    BY <1>1, <1>6, <1>9
  <2>3. ASSUME NEW i \in 1 .. n PROVE ivs[i] \in Nat \X Nat \X Nat
    <3>1. \A x, y, z \in Nat : <<x, y, z>> \in Nat \X Nat \X Nat
      OBVIOUS
    <3>2. q[i] \in Nat /\ ends(i) \in Nat /\ f[q[i]] \in Nat /\ ivs[i] = <<q[i], ends(i), f[q[i]]>>
      BY <2>1, <2>2
    <3> QED BY <3>1, <3>2
  <2> QED BY <2>1, <2>2, <2>3 DEF Left, Right, Val
<1>11. ivs \in Seq(Nat \X Nat \X Nat) /\ Len(ivs) = n
  <2>1. ivs \in [1 .. n -> Nat \X Nat \X Nat]
    <3>1. ivs = [i \in 1 .. n |-> ivs[i]]
      BY <1>7
    <3> HIDE DEF ivs
    <3> QED BY <1>10, <3>1
  <2> HIDE DEF ivs
  <2> QED BY <1>5, <2>1, SeqDef, LenProperties
<1> HIDE DEF ivs
<1>12. Tiling(ivs)
  <2>1. ivs # <<>>
    BY <1>8, <1>11, EmptySeq
  <2>2. NonEmpty(ivs)
    BY <1>9, <1>10 DEF NonEmpty
  <2>3. Adjoining(ivs)
    <3> SUFFICES ASSUME NEW i \in 1 .. n, i # 1 PROVE Right(ivs[i - 1]) = Left(ivs[i])
      BY <1>10 DEF Adjoining
    <3>1. i - 1 \in 1 .. n /\ i - 1 # n /\ (i - 1) + 1 = i
      BY <1>5
    <3> QED BY <1>10, <3>1
  <2>4. Left(ivs[1]) = 0
    BY <1>8, <1>10
  <2>5. Right(Last(ivs)) = now
    BY <1>8, <1>10, <1>11 DEF Last
  <2> QED BY <1>11, <2>1, <2>2, <2>3, <2>4, <2>5 DEF Tiling
<1>13. Tells(ivs, f)
  <2> SUFFICES ASSUME NEW i \in 1 .. n
               PROVE  /\ Left(ivs[i]) \in Nat /\ Right(ivs[i]) \in Nat /\ Val(ivs[i]) \in Nat
                      /\ Left(ivs[i]) < Right(ivs[i]) /\ Right(ivs[i]) <= now
                      /\ \A t \in Left(ivs[i]) .. Right(ivs[i]) - 1 : ValueAt(f, t) = Val(ivs[i])
    BY <1>10 DEF Tells
  <2> HIDE DEF ends
  <2>1. q[i] \in Nat /\ ends(i) \in Nat /\ q[i] < ends(i) /\ ends(i) <= now /\ q[i] \in 0 .. m
    BY <1>6, <1>9
  <2>2. ASSUME NEW t \in q[i] + 1 .. ends(i) - 1 PROVE ValueAt(f, t) = ValueAt(f, t - 1)
    <3>1. t \in 1 .. now - 1 /\ q[i] < t /\ t < ends(i)
      BY <2>1
    <3>2. t \notin S
      BY <1>9, <3>1
    <3> QED BY <1>4, <3>1, <3>2
  <2>3. \A t \in q[i] .. ends(i) - 1 : ValueAt(f, t) = ValueAt(f, q[i])
    BY <2>1, <2>2, ValueStays
  <2>4. ValueAt(f, q[i]) = f[q[i]]
    <3>1. q[i] <= m
      BY <1>1, <2>1
    <3>2. ValueAt(f, q[i]) = f[IF q[i] <= m THEN q[i] ELSE m]
      BY <1>1, <2>1, ValuesOf
    <3> QED BY <3>1, <3>2
  <2> QED BY <1>10, <2>1, <2>3, <2>4
<1> QED BY <1>12, <1>13 DEF ivs

-----------------------------------------------------------------------------
(* The tables: the rows of every link, link after link.                      *)

RowType == [link : Nat \X Nat, unit : {"pkt", "byte", "busy"}, interval : Nat \X Nat \X Nat]

RowsFrom(ivs, l, u) == [i \in DOMAIN ivs |-> [link |-> l, unit |-> u, interval |-> ivs[i]]]

LEMMA RowsShape ==
  ASSUME NEW ivs \in Seq(Nat \X Nat \X Nat), NEW l \in Nat \X Nat, NEW u \in {"pkt", "byte", "busy"}
  PROVE  /\ RowsFrom(ivs, l, u) \in Seq(RowType) /\ Len(RowsFrom(ivs, l, u)) = Len(ivs)
         /\ Len(ivs) \in Nat /\ DOMAIN ivs = 1 .. Len(ivs)
         /\ \A i \in 1 .. Len(ivs) : /\ RowsFrom(ivs, l, u)[i].link = l
                                     /\ RowsFrom(ivs, l, u)[i].unit = u
                                     /\ RowsFrom(ivs, l, u)[i].interval = ivs[i]
<1> DEFINE n == Len(ivs)
           T == Nat \X Nat \X Nat
           rows == RowsFrom(ivs, l, u)
           row(i) == [link |-> l, unit |-> u, interval |-> ivs[i]]
<1>1. n \in Nat /\ DOMAIN ivs = 1 .. n /\ \A i \in 1 .. n : ivs[i] \in T
  OBVIOUS
<1>2. \A i \in 1 .. n : row(i) \in RowType
  <2> HIDE DEF T
  <2> QED BY <1>1 DEF RowType, T
<1>3. rows = [i \in 1 .. n |-> row(i)]
  BY <1>1 DEF RowsFrom
<1> HIDE DEF rows, n
<1>4. rows \in [1 .. n -> RowType]
  BY <1>2, <1>3
<1>5. rows \in Seq(RowType) /\ Len(rows) = n
  <2>1. n \in Nat
    BY <1>1
  <2> QED BY <1>4, <2>1, SeqDef, LenProperties
<1> QED BY <1>1, <1>3, <1>5 DEF rows, n

(* What a table of the rows R[l] of the links l in S holds.                  *)
Block(w, l, rows, a) ==
  /\ a + Len(rows) <= Len(w) /\ \A k \in 1 .. Len(rows) : w[a + k] = rows[k]
  /\ \A x \in 1 .. Len(w) : w[x].link = l <=> x \in a + 1 .. a + Len(rows)

LinkOrder(w) ==
  \A x \in 1 .. Len(w) : x > 1 => w[x - 1].link = w[x].link \/ Precedes(w[x - 1].link, w[x].link)

RowsByLink(w, S, R) ==
  /\ w \in Seq(RowType)
  /\ \A x \in 1 .. Len(w) : w[x].link \in S
  /\ \A x \in 1 .. Len(w) : \E l \in S : \E k \in 1 .. Len(R[l]) : w[x] = R[l][k]
  /\ \A l \in S : \E a \in Nat : Block(w, l, R[l], a)
  /\ LinkOrder(w)

RowsOfEach(S, R) ==
  /\ R \in [S -> Seq(RowType)]
  /\ \A l \in S : \A k \in 1 .. Len(R[l]) : R[l][k].link = l

LEMMA TableOfLinks ==
  ASSUME NEW S \in SUBSET (Nat \X Nat), IsFiniteSet(S), NEW R, RowsOfEach(S, R), NEW ss,
         ss = [i \in DOMAIN SortedLinks(S) |-> R[SortedLinks(S)[i]]]
  PROVE  RowsByLink(FlattenSeq(ss), S, R)
<1> DEFINE own == SortedLinks(S)
           n == Cardinality(S)
           V == RowType
           w == FlattenSeq(ss)
<1>1. /\ n \in Nat /\ own \in [1 .. n -> S]
      /\ \A x \in S : \E k \in 1 .. n : own[k] = x
      /\ \A j, k \in 1 .. n : j < k => Precedes(own[j], own[k])
  BY LinksSorted
<1>2. ss = [i \in 1 .. n |-> R[own[i]]]
  BY <1>1
<1> HIDE DEF own, n, V
<1>3. /\ ss \in [1 .. n -> Seq(V)]
      /\ \A i \in 1 .. n : ss[i] = R[own[i]] /\ own[i] \in S
      /\ \A i \in 1 .. n : \A k \in 1 .. Len(ss[i]) : ss[i][k].link = own[i]
  <2>1. \A i \in 1 .. n : own[i] \in S
    BY <1>1
  <2>2. \A l \in S : R[l] \in Seq(V)
    BY DEF RowsOfEach, V
  <2>3. \A i \in 1 .. n : R[own[i]] \in Seq(V)
    BY <2>1, <2>2
  <2>4. ss \in [1 .. n -> Seq(V)] /\ \A i \in 1 .. n : ss[i] = R[own[i]]
    BY <1>2, <2>3
  <2> QED BY <2>1, <2>4 DEF RowsOfEach
<1>4. \A j \in 1 .. n : w \in Seq(V) /\ \E a \in Nat : IsBlock(w, ss, 1 .. n, j, a)
  BY <1>1, <1>3, BlockOf
<1>5. PICK g : /\ g[0] = <<>> /\ w = g[n]
               /\ \A i \in 0 .. n : g[i] \in Seq(V)
               /\ \A i \in 1 .. n : g[i] = g[i - 1] \o ss[i]
  <2>1. ss \in Seq(Seq(V)) /\ Len(ss) = n
    BY <1>1, <1>3, SeqDef, LenProperties
  <2>2. UnrollsTo(ss, V, n)
    BY <2>1, FlattenUnrolls
  <2> QED BY <2>2, Zenon DEF UnrollsTo
<1> DEFINE From(v, i) == \A x \in 1 .. Len(v) : \E j \in 1 .. i : \E k \in 1 .. Len(ss[j]) : v[x] = ss[j][k]
           T == {i \in 0 .. n : From(g[i], i) /\ LinkOrder(g[i])}
<1>6. 0 \in T
  <2>1. 0 \in 0 .. n /\ Len(g[0]) = 0
    BY <1>1, <1>5
  <2> QED BY <2>1 DEF LinkOrder
<1>7. ASSUME NEW i \in 1 .. n, i - 1 \in T PROVE i \in T
  <2> DEFINE p == g[i - 1]
             q == ss[i]
  <2>1. g[i] = p \o q /\ p \in Seq(V) /\ q \in Seq(V) /\ i \in 0 .. n /\ i \in Nat
    <3>1. i - 1 \in 0 .. n /\ i \in 0 .. n /\ i \in Nat
      BY <1>1
    <3> QED BY <1>3, <1>5, <3>1
  <2>2. /\ From(p, i - 1) /\ LinkOrder(p)
        /\ \A k \in 1 .. Len(q) : q[k].link = own[i]
    BY <1>3, <1>7
  <2> HIDE DEF p, q
  <2>3. /\ Len(g[i]) = Len(p) + Len(q) /\ Len(p) \in Nat /\ Len(q) \in Nat
        /\ \A k \in 1 .. Len(p) : g[i][k] = p[k]
        /\ \A x \in 1 .. Len(g[i]) : x \in 1 .. Len(p) \/ x - Len(p) \in 1 .. Len(q)
        /\ \A x \in 1 .. Len(g[i]) : x - Len(p) \in 1 .. Len(q) => g[i][x] = q[x - Len(p)]
    BY <2>1, ConcatIs
  <2>4. ASSUME NEW x \in 1 .. Len(g[i])
        PROVE  \E j \in 1 .. i : \E k \in 1 .. Len(ss[j]) : g[i][x] = ss[j][k]
    <3>1. CASE x \in 1 .. Len(p)
      <4>1. PICK j \in 1 .. i - 1 : \E k \in 1 .. Len(ss[j]) : p[x] = ss[j][k]
        BY <2>2, <3>1
      <4>2. j \in 1 .. i /\ g[i][x] = p[x]
        BY <2>1, <2>3, <3>1
      <4> QED BY <4>1, <4>2
    <3>2. CASE x - Len(p) \in 1 .. Len(q)
      <4>1. i \in 1 .. i /\ g[i][x] = q[x - Len(p)]
        BY <2>1, <2>3, <3>2
      <4> QED BY <3>2, <4>1 DEF q
    <3> QED BY <2>3, <3>1, <3>2
  <2>5. ASSUME NEW x \in 1 .. Len(g[i]), x > 1
        PROVE  g[i][x - 1].link = g[i][x].link \/ Precedes(g[i][x - 1].link, g[i][x].link)
    <3>0. x - 1 \in 1 .. Len(g[i])
      BY <2>3, <2>5
    <3>1. CASE x \in 1 .. Len(p)
      <4>1. x - 1 \in 1 .. Len(p) /\ g[i][x] = p[x] /\ g[i][x - 1] = p[x - 1]
        BY <2>3, <2>5, <3>1
      <4> QED BY <2>2, <2>5, <3>1, <4>1 DEF LinkOrder
    <3>2. CASE x - Len(p) \in 1 .. Len(q) /\ x - 1 \in 1 .. Len(p)
      <4>1. g[i][x].link = own[i]
        BY <2>2, <2>3, <3>2
      <4>2. PICK j \in 1 .. i - 1 : \E k \in 1 .. Len(ss[j]) : p[x - 1] = ss[j][k]
        BY <2>2, <3>2
      <4>3. j \in 1 .. n /\ j < i
        BY <1>1, <2>1
      <4>4. g[i][x - 1].link = own[j]
        <5>1. PICK k \in 1 .. Len(ss[j]) : p[x - 1] = ss[j][k]
          BY <4>2
        <5>2. g[i][x - 1] = p[x - 1]
          BY <2>3, <3>2
        <5> QED BY <1>3, <4>3, <5>1, <5>2
      <4>5. Precedes(own[j], own[i])
        BY <1>1, <4>3
      <4> QED BY <4>1, <4>4, <4>5
    <3>3. CASE x - Len(p) \in 1 .. Len(q) /\ x - 1 - Len(p) \in 1 .. Len(q)
      <4>1. g[i][x - 1] = q[x - 1 - Len(p)] /\ g[i][x] = q[x - Len(p)]
        BY <2>3, <3>0, <3>3
      <4> QED BY <2>2, <3>3, <4>1
    <3> QED BY <2>3, <3>0, <3>1, <3>2, <3>3
  <2>6. LinkOrder(g[i])
    BY <2>5 DEF LinkOrder
  <2>7. From(g[i], i)
    BY <2>4
  <2> HIDE DEF From
  <2> QED BY <2>1, <2>6, <2>7
<1>8. n \in T
  <2> HIDE DEF T
  <2> QED BY <1>1, <1>6, <1>7, Climb
<1>9. w \in Seq(V) /\ LinkOrder(w) /\ From(w, n)
  <2>1. n \in 0 .. n
    BY <1>1
  <2>2. From(g[n], n) /\ LinkOrder(g[n])
    BY <1>8
  <2>3. w = g[n] /\ g[n] \in Seq(V)
    BY <1>5, <2>1
  <2> HIDE DEF From, w
  <2> QED BY <2>2, <2>3
<1> HIDE DEF T, w
<1>10. ASSUME NEW x \in 1 .. Len(w)
       PROVE  w[x].link \in S /\ \E l \in S : \E k \in 1 .. Len(R[l]) : w[x] = R[l][k]
  <2>1. PICK j \in 1 .. n : \E k \in 1 .. Len(ss[j]) : w[x] = ss[j][k]
    BY <1>9
  <2>2. PICK k \in 1 .. Len(ss[j]) : w[x] = ss[j][k]
    BY <2>1
  <2>3. w[x].link = own[j] /\ own[j] \in S /\ ss[j] = R[own[j]]
    BY <1>3, <2>2
  <2> QED BY <2>2, <2>3
<1>11. ASSUME NEW l \in S PROVE \E a \in Nat : Block(w, l, R[l], a)
  <2>1. PICK j \in 1 .. n : own[j] = l
    BY <1>1
  <2>2. PICK a \in Nat : IsBlock(w, ss, 1 .. n, j, a)
    BY <1>4
  <2>3. ss[j] = R[l] /\ Len(ss[j]) \in Nat
    BY <1>3, <2>1
  <2>4. ASSUME NEW x \in 1 .. Len(w), w[x].link = l PROVE x \in a + 1 .. a + Len(R[l])
    <3>1. SUFFICES ASSUME ComesFrom(w, x, ss, (1 .. n) \ {j}) PROVE FALSE
      BY <2>2, <2>3 DEF IsBlock
    <3>2. PICK i \in (1 .. n) \ {j} : \E k \in 1 .. Len(ss[i]) : w[x] = ss[i][k]
      BY <3>1 DEF ComesFrom
    <3>3. own[i] = l
      BY <1>3, <2>4, <3>2
    <3>4. i < j \/ j < i
      BY <1>1, <3>2
    <3>5. Precedes(l, l)
      BY <1>1, <2>1, <3>3, <3>4
    <3>6. l[1] \in Nat /\ l[2] \in Nat
      OBVIOUS
    <3> QED BY <3>5, <3>6 DEF Precedes
  <2>5. ASSUME NEW x \in 1 .. Len(w), x \in a + 1 .. a + Len(R[l]) PROVE w[x].link = l
    <3>1. x - a \in 1 .. Len(ss[j]) /\ a + (x - a) = x
      BY <2>3, <2>5
    <3>2. w[x] = ss[j][x - a]
      BY <2>2, <3>1 DEF IsBlock
    <3> QED BY <1>3, <2>1, <3>1, <3>2
  <2>6. Block(w, l, R[l], a)
    BY <2>2, <2>3, <2>4, <2>5 DEF Block, IsBlock
  <2> QED BY <2>6
<1> QED BY <1>9, <1>10, <1>11 DEF RowsByLink, V, w

UnitBlock(w, l, u, rows) ==
  \E a \in Nat :
    /\ a + Len(rows) <= Len(w) /\ \A k \in 1 .. Len(rows) : w[a + k] = rows[k]
    /\ \A x \in 1 .. Len(w) : w[x].link = l /\ w[x].unit = u <=> x \in a + 1 .. a + Len(rows)

(* Filtering a table for one link and unit gives the rows of that link.      *)
LEMMA KeptRows ==
  ASSUME NEW w \in Seq(RowType), NEW l, NEW u, NEW rows \in Seq(RowType),
         UnitBlock(w, l, u, rows)
  PROVE  Kept(w, {r \in Range(w) : r.link = l /\ r.unit = u}) = rows
<1> DEFINE keep == {r \in Range(w) : r.link = l /\ r.unit = u}
           own == Kept(w, keep)
           V == RowType
<1>1. PICK a \in Nat :
        /\ a + Len(rows) <= Len(w) /\ \A k \in 1 .. Len(rows) : w[a + k] = rows[k]
        /\ \A x \in 1 .. Len(w) : w[x].link = l /\ w[x].unit = u <=> x \in a + 1 .. a + Len(rows)
  BY DEF UnitBlock
<1>2. Len(rows) \in Nat /\ DOMAIN w = 1 .. Len(w) /\ Len(w) \in Nat
  OBVIOUS
<1>3. \A x \in 1 .. Len(w) : w[x] \in keep <=> x \in a + 1 .. a + Len(rows)
  BY <1>1, <1>2 DEF Range
<1> HIDE DEF keep, V
<1>4. KeepsBlock(w, keep, a, Len(rows))
  BY <1>1, <1>2, <1>3 DEF KeepsBlock
<1>5. BlockKept(own, V, w, a, Len(rows))
  BY <1>1, <1>2, <1>4, KeptBlock DEF V
<1> HIDE DEF own
<1>6. own \in Seq(V) /\ Len(own) = Len(rows) /\ \A k \in 1 .. Len(own) : own[k] = rows[k]
  BY <1>1, <1>5 DEF BlockKept
<1>7. own = rows
  BY <1>6, SeqEqual DEF V
<1> QED BY <1>7 DEF own, keep

-----------------------------------------------------------------------------
(* The invariant: what the logs say at every instant that is over.           *)

Packets(q, t) == ValueAt(sampled[q]["pkt"], t)

Sampling(q) ==
  /\ \A u \in Unit :
       /\ \E m \in 0 .. now : sampled[q][u] \in [0 .. m -> Nat]
       /\ ValueAt(sampled[q][u], now) = InUnit(queue[q], u)
  /\ \A t \in 0 .. now : Packets(q, t) = 0 <=> ValueAt(sampled[q]["byte"], t) = 0

(* What follows at once has happened when time moves on.                     *)
Moment(t) ==
  HasTracker("device", Watched) =>
    /\ Packets("device", t) > 0 => busyBefore[t + 1] = busyBefore[t] + 1
    /\ HasTracker("qdisc", Watched) /\ Packets("qdisc", t) > 0 => Packets("device", t) = QueueCap

Configured ==
  /\ settings \in Settings
  /\ stage = "run" => /\ tracked = [k \in Kind |-> [s \in System |-> OwnLinks(k, s)]]
                      /\ \A k \in Kind : Accepted(k)

QueuesTyped ==
  /\ queue \in [Queue -> Seq(Size)] /\ Len(queue["device"]) <= QueueCap
  /\ stage = "construct" => \A q \in Queue : queue[q] = <<>>

Recorded ==
  stage = "run" => /\ \A q \in Queue : HasTracker(q, Watched) => Sampling(q)
                   /\ \A t \in 0 .. now - 1 : Moment(t)

Reported ==
  phase = "written" =>
    tables = [k \in Kind |-> [s \in System |->
                IF k = "utilization" THEN UtilizationTable(s, compressed) ELSE QueueTable(k, s)]]

FitInv == LinkInv /\ Configured /\ QueuesTyped /\ Recorded /\ Reported

(* A queue has bytes exactly while it has packets, as no packet is empty.    *)
LEMMA UnitsAgree ==
  ASSUME NEW q \in Seq(Size)
  PROVE  /\ \A u \in Unit : InUnit(q, u) \in Nat
         /\ InUnit(q, "pkt") = 0 <=> InUnit(q, "byte") = 0
         /\ q = <<>> => \A u \in Unit : InUnit(q, u) = 0
<1> DEFINE bytes == SumFunctionOnSet(q, DOMAIN q)
<1>1. Len(q) \in Nat /\ DOMAIN q = 1 .. Len(q) /\ (q = <<>> <=> Len(q) = 0)
  BY EmptySeq
<1>2. \A i \in DOMAIN q : q[i] \in Nat /\ q[i] # 0
  <2>1. \A i \in DOMAIN q : q[i] \in Size
    OBVIOUS
  <2> QED BY <2>1, LinkAssumption
<1>3. IsFiniteSet(DOMAIN q)
  BY <1>1, FS_Interval
<1>4. bytes \in Nat
  BY <1>2, <1>3, SumType
<1>5. Len(q) = 0 => bytes = 0
  <2>1. Len(q) = 0 => DOMAIN q = {}
    BY <1>1
  <2> QED BY <1>3, <2>1, SumUnrolls
<1>6. Len(q) # 0 => bytes # 0
  <2> SUFFICES ASSUME Len(q) # 0 PROVE bytes # 0
    OBVIOUS
  <2> DEFINE rest == SumFunctionOnSet(q, DOMAIN q \ {1})
  <2>1. 1 \in DOMAIN q
    BY <1>1
  <2>2. bytes = q[1] + rest
    BY <1>2, <1>3, <2>1, SumWithout
  <2>3. rest \in Nat
    <3>1. IsFiniteSet(DOMAIN q \ {1}) /\ \A i \in DOMAIN q \ {1} : q[i] \in Nat
      BY <1>2, <1>3, FS_Subset
    <3> QED BY <3>1, SumType
  <2> HIDE DEF bytes, rest
  <2> QED BY <1>2, <2>1, <2>2, <2>3
<1>7. InUnit(q, "pkt") = Len(q) /\ InUnit(q, "byte") = bytes
  BY DEF InUnit
<1>8. \A u \in Unit : u = "pkt" \/ u = "byte"
  BY DEF Unit
<1> HIDE DEF bytes
<1> QED BY <1>1, <1>4, <1>5, <1>6, <1>7, <1>8

(* Construct.                                                                *)
LEMMA ConstructFits ==
  ASSUME FitInv, Construct
  PROVE  Configured' /\ QueuesTyped' /\ Recorded' /\ Reported'
<1>1. /\ stage = "construct" /\ UNCHANGED <<settings, queue>> /\ UNCHANGED watching
      /\ stage' = "run" => /\ \A k \in Kind : Accepted(k)
                           /\ tracked' = [k \in Kind |-> [s \in System |-> OwnLinks(k, s)]]
                           /\ sampled' = [q \in Queue |-> NewTrackers(q)]
      /\ stage' # "construct"
  BY DEF Construct
<1>2. now = 0 /\ now' = 0 /\ phase' = "running"
  BY <1>1 DEF FitInv, LinkInv, TrackerInit, watching
<1>3. \A q \in Queue : queue[q] = <<>>
  BY <1>1 DEF FitInv, QueuesTyped
<1>4. Configured'
  BY <1>1 DEF FitInv, Configured, Accepted, OwnLinks, Enabled, ForAll, EnableForLinks
<1>5. QueuesTyped'
  BY <1>1 DEF FitInv, QueuesTyped
<1>6. Recorded'
  <2> SUFFICES ASSUME stage' = "run" PROVE Recorded'
    BY DEF Recorded
  <2> DEFINE zero == [t \in 0 .. 0 |-> 0]
  <2>1. \A q \in Queue : \A u \in Unit : sampled'[q][u] = zero
    BY <1>1 DEF NewTrackers
  <2>2. zero \in [0 .. 0 -> Nat] /\ 0 \in 0 .. 0 /\ zero[0] = 0
    OBVIOUS
  <2> HIDE DEF zero
  <2>3. ValueAt(zero, 0) = 0
    BY <2>2, ValuesOf
  <2>4. \A q \in Queue : \A u \in Unit : InUnit(queue'[q], u) = 0
    <3>1. <<>> \in Seq(Size)
      OBVIOUS
    <3> QED BY <1>1, <1>3, <3>1, UnitsAgree
  <2>5. ASSUME NEW q \in Queue PROVE Sampling(q)'
    <3>1. \A t \in 0 .. now' : t = 0
      BY <1>2
    <3>2. /\ sampled'[q]["pkt"] = zero /\ sampled'[q]["byte"] = zero
      BY <2>1 DEF Unit
    <3>3. \A t \in 0 .. now' : Packets(q, t)' = 0 <=> ValueAt(sampled[q]["byte"], t)' = 0
      BY <3>1, <3>2 DEF Packets, ValueAt
    <3>4. \A u \in Unit : ValueAt(sampled'[q][u], now') = InUnit(queue'[q], u)
      BY <1>2, <2>1, <2>3, <2>4
    <3>5. \A u \in Unit : \E m \in 0 .. now' : sampled'[q][u] \in [0 .. m -> Nat]
      BY <1>2, <2>1, <2>2
    <3> QED BY <3>3, <3>4, <3>5 DEF Sampling, ValueAt, InUnit
  <2>6. \A t \in 0 .. now' - 1 : FALSE
    BY <1>2
  <2> QED BY <2>5, <2>6 DEF Recorded
<1>7. Reported'
  BY <1>2 DEF Reported
<1> QED BY <1>4, <1>5, <1>6, <1>7

(* Traffic that changes a queue.                                             *)
LEMMA QueuesFit ==
  ASSUME FitInv, stage = "run", LogQueues, queue' \in [Queue -> Seq(Size)],
         Len(queue'["device"]) <= QueueCap,
         UNCHANGED <<now, phase, busyBefore, settings, stage, tracked>>, phase # "written"
  PROVE  Configured' /\ QueuesTyped' /\ Recorded' /\ Reported'
<1>1. now \in Nat /\ now' = now /\ busyBefore' = busyBefore /\ tracked' = tracked /\ stage' = "run"
  BY TrackerAssumption DEF FitInv, LinkInv, DeviceTyped
<1>2. Configured'
  BY DEF FitInv, Configured, Accepted, OwnLinks, Enabled, ForAll, EnableForLinks
<1>3. QueuesTyped' /\ Reported'
  BY DEF QueuesTyped, Reported
<1>4. \A q \in Queue : HasTracker(q, Watched)' <=> HasTracker(q, Watched)
  BY <1>1 DEF HasTracker
<1>5. ASSUME NEW q \in Queue, HasTracker(q, Watched), NEW u \in Unit
      PROVE  /\ \E m \in 0 .. now : sampled'[q][u] \in [0 .. m -> Nat]
             /\ ValueAt(sampled'[q][u], now) = InUnit(queue'[q], u)
             /\ \A t \in 0 .. now - 1 : ValueAt(sampled'[q][u], t) = ValueAt(sampled[q][u], t)
  <2>1. Sampling(q)
    BY <1>5 DEF FitInv, Recorded
  <2>2. PICK m \in 0 .. now : sampled[q][u] \in [0 .. m -> Nat]
    BY <2>1 DEF Sampling
  <2>3. ValueAt(sampled[q][u], now) = InUnit(queue[q], u)
    BY <2>1 DEF Sampling
  <2>4. InUnit(queue'[q], u) \in Nat
    <3>1. queue'[q] \in Seq(Size)
      OBVIOUS
    <3> QED BY <3>1, UnitsAgree
  <2>5. sampled'[q][u] = IF queue'[q] # queue[q] THEN Logged(sampled[q][u], InUnit(queue'[q], u))
                         ELSE sampled[q][u]
    BY <1>5 DEF LogQueues
  <2>6. CASE queue'[q] # queue[q]
    <3>1. sampled'[q][u] = Logged(sampled[q][u], InUnit(queue'[q], u))
      BY <2>5, <2>6
    <3>2. now \in 0 .. now
      BY <1>1
    <3> DEFINE f == sampled[q][u]
               v == InUnit(queue'[q], u)
    <3>3. f \in [0 .. m -> Nat] /\ v \in Nat /\ sampled'[q][u] = Logged(f, v)
      BY <2>2, <2>4, <3>1
    <3> HIDE DEF f, v
    <3>4. /\ Logged(f, v) \in [0 .. now -> Nat] /\ ValueAt(Logged(f, v), now) = v
          /\ \A t \in 0 .. now - 1 : ValueAt(Logged(f, v), t) = ValueAt(f, t)
      BY <1>1, <3>3, LoggedIs
    <3>5. /\ \E k \in 0 .. now : sampled'[q][u] \in [0 .. k -> Nat]
          /\ ValueAt(sampled'[q][u], now) = v
          /\ \A t \in 0 .. now - 1 : ValueAt(sampled'[q][u], t) = ValueAt(f, t)
      BY <3>2, <3>3, <3>4, Zenon
    <3> QED BY <3>5 DEF f, v
  <2>7. CASE queue'[q] = queue[q]
    BY <2>2, <2>3, <2>5, <2>7
  <2> QED BY <2>6, <2>7
<1>6. "pkt" \in Unit /\ "byte" \in Unit /\ "device" \in Queue /\ "qdisc" \in Queue
  BY DEF Unit, Queue
<1>7. ASSUME NEW q \in Queue, HasTracker(q, Watched) PROVE Sampling(q)'
  <2>1. \A u \in Unit : \E m \in 0 .. now : sampled'[q][u] \in [0 .. m -> Nat]
    BY <1>5, <1>7
  <2>2. \A u \in Unit : ValueAt(sampled'[q][u], now) = InUnit(queue'[q], u)
    BY <1>5, <1>7
  <2>3. ASSUME NEW t \in 0 .. now
        PROVE  ValueAt(sampled'[q]["pkt"], t) = 0 <=> ValueAt(sampled'[q]["byte"], t) = 0
    <3>1. CASE t = now
      <4>1. queue'[q] \in Seq(Size)
        OBVIOUS
      <4> QED BY <1>6, <2>2, <3>1, <4>1, UnitsAgree
    <3>2. CASE t # now
      <4>1. t \in 0 .. now - 1
        BY <1>1, <3>2
      <4>2. ValueAt(sampled[q]["pkt"], t) = 0 <=> ValueAt(sampled[q]["byte"], t) = 0
        BY <1>7 DEF FitInv, Recorded, Sampling, Packets
      <4> QED BY <1>5, <1>6, <1>7, <4>1, <4>2
    <3> QED BY <3>1, <3>2
  <2> QED BY <1>1, <2>1, <2>2, <2>3 DEF Sampling, Packets, ValueAt, InUnit
<1>8. ASSUME NEW t \in 0 .. now - 1 PROVE Moment(t)'
  <2>1. Moment(t)
    BY <1>8 DEF FitInv, Recorded
  <2>2. \A q \in Queue : HasTracker(q, Watched) => Packets(q, t)' = Packets(q, t)
    <3> SUFFICES ASSUME NEW q \in Queue, HasTracker(q, Watched) PROVE Packets(q, t)' = Packets(q, t)
      OBVIOUS
    <3>1. ValueAt(sampled'[q]["pkt"], t) = ValueAt(sampled[q]["pkt"], t)
      BY <1>5, <1>6
    <3> QED BY <3>1 DEF Packets, ValueAt
  <2> QED BY <1>1, <1>4, <1>6, <2>1, <2>2 DEF Moment
<1>9. Recorded'
  BY <1>1, <1>4, <1>7, <1>8 DEF Recorded
<1> QED BY <1>2, <1>3, <1>9

(* Steps that leave the queues, their logs and the time alone.               *)
LEMMA StaysFit ==
  ASSUME FitInv, UNCHANGED <<now, busyBefore, settings, stage, tracked, queue, sampled>>
  PROVE  Configured' /\ QueuesTyped' /\ Recorded'
<1>1. Configured'
  BY DEF FitInv, Configured, Accepted, OwnLinks, Enabled, ForAll, EnableForLinks
<1>2. QueuesTyped'
  BY DEF FitInv, QueuesTyped
<1>3. \A q : (HasTracker(q, Watched)' <=> HasTracker(q, Watched))
             /\ (Sampling(q)' <=> Sampling(q))
  BY DEF HasTracker, Sampling, Packets, ValueAt, InUnit
<1>4. \A t : Moment(t)' <=> Moment(t)
  BY DEF Moment, HasTracker, Packets, ValueAt
<1>5. Recorded'
  BY <1>3, <1>4 DEF FitInv, Recorded
<1> QED BY <1>1, <1>2, <1>5

(* Time moves on when nothing more can follow: if packets wait the device is *)
(* transmitting, and if some wait in the discipline its queue is full.       *)
LEMMA PassFits ==
  ASSUME FitInv, Pass, DeviceTyped'
  PROVE  Configured' /\ QueuesTyped' /\ Recorded' /\ Reported'
<1>1. /\ Quiet /\ Tick /\ UNCHANGED <<settings, stage, tracked, queue, sampled, tables>>
      /\ stage = "run" /\ phase = "running"
  BY DEF Pass, Quiet, Simulating, links
<1>2. /\ now \in 0 .. MaxNow /\ now \in Nat /\ MaxNow \in Nat /\ now < MaxNow /\ now' = now + 1
      /\ busyBefore \in [0 .. MaxNow -> Nat] /\ transmitting \in BOOLEAN /\ phase' = "running"
      /\ busyBefore' = [busyBefore EXCEPT ![now + 1] =
                          busyBefore[now] + (IF transmitting THEN 1 ELSE 0)]
  BY <1>1, TrackerAssumption DEF FitInv, LinkInv, DeviceTyped, Tick
<1>3. Configured'
  BY <1>1 DEF FitInv, Configured, Accepted, OwnLinks, Enabled, ForAll, EnableForLinks
<1>4. QueuesTyped' /\ Reported'
  BY <1>1, <1>2 DEF FitInv, QueuesTyped, Reported
<1>5. \A q \in Queue : HasTracker(q, Watched)' <=> HasTracker(q, Watched)
  BY <1>1 DEF HasTracker
<1>6. ASSUME NEW q \in Queue, HasTracker(q, Watched), NEW u \in Unit
      PROVE  /\ \E m \in 0 .. now' : sampled[q][u] \in [0 .. m -> Nat]
             /\ ValueAt(sampled[q][u], now) = InUnit(queue[q], u)
             /\ ValueAt(sampled[q][u], now') = InUnit(queue[q], u)
  <2>1. Sampling(q)
    BY <1>1, <1>6 DEF FitInv, Recorded
  <2>2. PICK m \in 0 .. now : sampled[q][u] \in [0 .. m -> Nat]
    BY <2>1 DEF Sampling
  <2>3. ValueAt(sampled[q][u], now) = InUnit(queue[q], u)
    BY <2>1 DEF Sampling
  <2>4. m \in 0 .. now' /\ m \in Nat /\ now' \in Nat /\ m <= now /\ m <= now'
    BY <1>2
  <2>5. ValueAt(sampled[q][u], now) = sampled[q][u][m]
    <3>1. ValueAt(sampled[q][u], now) = sampled[q][u][IF now <= m THEN now ELSE m]
      BY <1>2, <2>2, <2>4, ValuesOf
    <3> QED BY <1>2, <2>4, <3>1
  <2>6. ValueAt(sampled[q][u], now') = sampled[q][u][m]
    <3>1. ValueAt(sampled[q][u], now') = sampled[q][u][IF now' <= m THEN now' ELSE m]
      BY <1>2, <2>2, <2>4, ValuesOf
    <3> QED BY <1>2, <2>4, <3>1
  <2> QED BY <2>2, <2>3, <2>4, <2>5, <2>6
<1>7. "pkt" \in Unit /\ "byte" \in Unit /\ "device" \in Queue /\ "qdisc" \in Queue
  BY DEF Unit, Queue
<1>8. \A q \in Queue : queue[q] \in Seq(Size)
  BY DEF FitInv, QueuesTyped
<1>9. ASSUME NEW q \in Queue, HasTracker(q, Watched) PROVE Sampling(q)'
  <2>1. ASSUME NEW t \in 0 .. now'
        PROVE  ValueAt(sampled[q]["pkt"], t) = 0 <=> ValueAt(sampled[q]["byte"], t) = 0
    <3>1. CASE t = now'
      BY <1>6, <1>7, <1>8, <1>9, <3>1, UnitsAgree
    <3>2. CASE t # now'
      <4>1. t \in 0 .. now
        BY <1>2, <3>2
      <4> QED BY <1>1, <1>9, <4>1 DEF FitInv, Recorded, Sampling, Packets
    <3> QED BY <3>1, <3>2
  <2>2. \A u \in Unit : \E m \in 0 .. now' : sampled'[q][u] \in [0 .. m -> Nat]
    BY <1>1, <1>6, <1>9
  <2>3. \A u \in Unit : ValueAt(sampled'[q][u], now') = InUnit(queue'[q], u)
    BY <1>1, <1>6, <1>9
  <2> QED BY <1>1, <2>1, <2>2, <2>3 DEF Sampling, Packets, ValueAt, InUnit
<1>10. ASSUME NEW t \in 0 .. now' - 1 PROVE Moment(t)'
  <2>1. CASE t = now
    <3>1. ASSUME HasTracker("device", Watched), Packets("device", now) > 0
          PROVE  busyBefore'[now + 1] = busyBefore'[now] + 1
      <4>1. Len(queue["device"]) = Packets("device", now)
        BY <1>6, <1>7, <3>1 DEF Packets, InUnit
      <4>2. queue["device"] # <<>>
        BY <1>7, <1>8, <3>1, <4>1, EmptySeq
      <4>3. transmitting
        BY <1>1, <4>2 DEF Quiet, MayTransmit
      <4>4. now + 1 \in 0 .. MaxNow /\ now + 1 # now
        BY <1>2
      <4> QED BY <1>2, <4>3, <4>4
    <3>2. ASSUME HasTracker("device", Watched), HasTracker("qdisc", Watched),
                 Packets("qdisc", now) > 0
          PROVE  Packets("device", now) = QueueCap
      <4>1. /\ Len(queue["device"]) = Packets("device", now)
            /\ Len(queue["qdisc"]) = Packets("qdisc", now)
        BY <1>6, <1>7, <3>2 DEF Packets, InUnit
      <4>2. queue["qdisc"] # <<>>
        BY <1>7, <1>8, <3>2, <4>1, EmptySeq
      <4>3. ~ (Len(queue["device"]) < QueueCap) /\ Len(queue["device"]) <= QueueCap
        BY <1>1, <4>2 DEF Quiet, QdiscMayRun, FitInv, QueuesTyped
      <4>4. Len(queue["device"]) \in Nat /\ QueueCap \in Nat
        BY <1>7, <1>8, LinkAssumption
      <4> QED BY <4>1, <4>3, <4>4
    <3> QED BY <1>1, <1>5, <1>7, <2>1, <3>1, <3>2 DEF Moment, Packets, ValueAt
  <2>2. CASE t # now
    <3>1. t \in 0 .. now - 1
      BY <1>2, <2>2
    <3>2. Moment(t)
      BY <1>1, <3>1 DEF FitInv, Recorded
    <3>3. busyBefore'[t] = busyBefore[t] /\ busyBefore'[t + 1] = busyBefore[t + 1]
      <4>1. t \in 0 .. MaxNow /\ t + 1 \in 0 .. MaxNow /\ t # now + 1 /\ t + 1 # now + 1
        BY <1>2, <3>1
      <4> QED BY <1>2, <4>1
    <3> QED BY <1>1, <1>5, <1>7, <3>2, <3>3 DEF Moment, Packets, ValueAt
  <2> QED BY <2>1, <2>2
<1>11. Recorded'
  BY <1>1, <1>5, <1>9, <1>10 DEF Recorded
<1> QED BY <1>3, <1>4, <1>11

(* The tables are what they were written as.                                 *)
LEMMA TablesStay ==
  ASSUME UNCHANGED <<now, tracked, sampled>>
  PROVE  /\ \A s \in System : UtilizationTable(s, compressed)' = UtilizationTable(s, compressed')
         /\ \A k \in Kind, s \in System : QueueTable(k, s)' = QueueTable(k, s)
<1>1. /\ \A q, l, u : QueueRows(q, l, u)' = QueueRows(q, l, u)
      /\ \A l : UtilizationRows(l, compressed)' = UtilizationRows(l, compressed')
  BY DEF QueueRows, UtilizationRows, Finalized, IdleIntervals, NewTrackers
<1>2. \A s \in System : UtilizationTable(s, compressed)' = UtilizationTable(s, compressed')
  BY <1>1 DEF UtilizationTable, UtilizationRows, IdleIntervals
<1>3. \A k \in Kind, s \in System : QueueTable(k, s)' = QueueTable(k, s)
  BY <1>1 DEF QueueTable, QueueRows, Finalized, NewTrackers
<1> QED BY <1>2, <1>3

LEMMA FitNext ==
  ASSUME FitInv, [LinkNext]_all
  PROVE  FitInv'
<1>1. LinkInv' /\ DeviceTyped'
  BY TrackerNext DEF FitInv, LinkInv
<1>2. /\ queue \in [Queue -> Seq(Size)] /\ Len(queue["device"]) <= QueueCap
      /\ "device" \in Queue /\ "qdisc" \in Queue
      /\ queue["device"] \in Seq(Size) /\ queue["qdisc"] \in Seq(Size)
      /\ Len(queue["device"]) \in Nat /\ QueueCap \in Nat
  <2>1. queue \in [Queue -> Seq(Size)] /\ Len(queue["device"]) <= QueueCap /\ QueueCap \in Nat
    BY LinkAssumption DEF FitInv, QueuesTyped
  <2>2. "device" \in Queue /\ "qdisc" \in Queue
    BY DEF Queue
  <2> QED BY <2>1, <2>2
<1>3. CASE Construct
  BY <1>1, <1>3, ConstructFits DEF FitInv
<1>4. ASSUME NEW size \in Size, Arrive(size) PROVE FitInv'
  <2> DEFINE q == IF Watched \in settings.qdiscs THEN "qdisc" ELSE "device"
  <2>1. /\ Len(queue[q]) < (IF q = "qdisc" THEN QdiscCap ELSE QueueCap)
        /\ queue' = [queue EXCEPT ![q] = Append(queue[q], size)] /\ LogQueues
        /\ UNCHANGED <<now, phase, busyBefore, settings, stage, tracked>>
        /\ stage = "run" /\ phase # "written"
    BY <1>4 DEF Arrive, Simulating, watching
  <2>2. q = "device" \/ q = "qdisc"
    OBVIOUS
  <2> HIDE DEF q
  <2>3. queue[q] \in Seq(Size) /\ Append(queue[q], size) \in Seq(Size) /\ q \in Queue
        /\ Len(Append(queue[q], size)) = Len(queue[q]) + 1
    BY <1>2, <2>2
  <2>4. queue' \in [Queue -> Seq(Size)]
    BY <1>2, <2>1, <2>3
  <2>5. Len(queue'["device"]) <= QueueCap
    <3>1. CASE q = "device"
      <4>1. queue'["device"] = Append(queue["device"], size) /\ Len(queue["device"]) < QueueCap
        BY <1>2, <2>1, <3>1
      <4> QED BY <1>2, <2>3, <3>1, <4>1
    <3>2. CASE q = "qdisc"
      <4>1. queue'["device"] = queue["device"]
        BY <1>2, <2>1, <3>2
      <4> QED BY <1>2, <4>1
    <3> QED BY <2>2, <3>1, <3>2
  <2> QED BY <1>1, <2>1, <2>4, <2>5, QueuesFit DEF FitInv
<1>5. CASE QdiscRun
  <2>1. /\ queue' = [device |-> Append(queue["device"], Head(queue["qdisc"])),
                     qdisc  |-> Tail(queue["qdisc"])]
        /\ queue["qdisc"] # <<>> /\ Len(queue["device"]) < QueueCap /\ LogQueues
        /\ UNCHANGED <<now, phase, busyBefore, settings, stage, tracked>>
        /\ stage = "run" /\ phase # "written"
    BY <1>5 DEF QdiscRun, QdiscMayRun, Simulating, watching
  <2>2. Head(queue["qdisc"]) \in Size /\ Tail(queue["qdisc"]) \in Seq(Size)
    BY <1>2, <2>1, HeadTailProperties
  <2>3. /\ Append(queue["device"], Head(queue["qdisc"])) \in Seq(Size)
        /\ Len(Append(queue["device"], Head(queue["qdisc"]))) = Len(queue["device"]) + 1
    BY <1>2, <2>2
  <2>4. queue' \in [Queue -> Seq(Size)]
    <3> DEFINE a == Append(queue["device"], Head(queue["qdisc"]))
               b == Tail(queue["qdisc"])
    <3>1. a \in Seq(Size) /\ b \in Seq(Size) /\ queue' = [device |-> a, qdisc |-> b]
      BY <2>1, <2>2, <2>3
    <3> HIDE DEF a, b
    <3>2. queue' = [q \in {"device", "qdisc"} |-> IF q = "device" THEN a ELSE b]
      BY <3>1
    <3> QED BY <3>1, <3>2 DEF Queue
  <2>5. Len(queue'["device"]) <= QueueCap
    BY <1>2, <2>1, <2>3
  <2> QED BY <1>1, <2>1, <2>4, <2>5, QueuesFit DEF FitInv
<1>6. CASE TransmitStart
  <2>1. /\ queue' = [queue EXCEPT !["device"] = Tail(queue["device"])]
        /\ queue["device"] # <<>> /\ LogQueues
        /\ UNCHANGED <<now, phase, busyBefore, settings, stage, tracked>>
        /\ stage = "run" /\ phase # "written"
    BY <1>6 DEF TransmitStart, MayTransmit, Simulating, PhyTxBegin
  <2>2. Tail(queue["device"]) \in Seq(Size) /\ Len(Tail(queue["device"])) = Len(queue["device"]) - 1
    BY <1>2, <2>1, HeadTailProperties
  <2>3. queue' \in [Queue -> Seq(Size)] /\ queue'["device"] = Tail(queue["device"])
    BY <1>2, <2>1, <2>2
  <2>4. Len(queue'["device"]) <= QueueCap
    BY <1>2, <2>2, <2>3
  <2> QED BY <1>1, <2>1, <2>3, <2>4, QueuesFit DEF FitInv
<1>7. CASE TransmitComplete
  <2>1. /\ UNCHANGED <<now, busyBefore, settings, stage, tracked, queue, sampled>>
        /\ phase' = "running"
    BY <1>7 DEF TransmitComplete, Simulating, PhyTxEnd, links
  <2>2. Reported'
    BY <2>1 DEF Reported
  <2> QED BY <1>1, <2>1, <2>2, StaysFit DEF FitInv
<1>8. CASE Pass
  BY <1>1, <1>8, PassFits DEF FitInv
<1>9. CASE Halt
  <2>1. /\ UNCHANGED <<now, busyBefore, settings, stage, tracked, queue, sampled>>
        /\ phase' = "stopped"
    BY <1>9 DEF Halt, Stop, links
  <2>2. Reported'
    BY <2>1 DEF Reported
  <2> QED BY <1>1, <2>1, <2>2, StaysFit DEF FitInv
<1>10. CASE WriteTables
  <2>1. /\ UNCHANGED <<now, busyBefore, settings, stage, tracked, queue, sampled>>
        /\ tables' = [k \in Kind |-> [s \in System |->
             IF k = "utilization" THEN UtilizationTable(s, compressed') ELSE QueueTable(k, s)]]
    BY <1>10 DEF WriteTables, WriteResults
  <2>2. tables' = [k \in Kind |-> [s \in System |->
             IF k = "utilization" THEN UtilizationTable(s, compressed)' ELSE QueueTable(k, s)']]
    BY <2>1, TablesStay
  <2>3. Reported'
    BY <2>2 DEF Reported
  <2> QED BY <1>1, <2>1, <2>3, StaysFit DEF FitInv
<1>11. CASE UNCHANGED all
  <2>1. UNCHANGED <<now, busyBefore, settings, stage, tracked, queue, sampled, tables, phase, compressed>>
    BY <1>11 DEF all, watching, links
  <2>2. /\ \A s \in System : UtilizationTable(s, compressed)' = UtilizationTable(s, compressed)
        /\ \A k \in Kind, s \in System : QueueTable(k, s)' = QueueTable(k, s)
    BY <2>1, TablesStay
  <2>3. Reported'
    BY <2>1, <2>2 DEF FitInv, Reported
  <2> QED BY <1>1, <2>1, <2>3, StaysFit DEF FitInv
<1> QED BY <1>3, <1>4, <1>5, <1>6, <1>7, <1>8, <1>9, <1>10, <1>11 DEF LinkNext

LEMMA FitAlways == LinkSpec => []FitInv
<1>1. LinkInit /\ LinkInv => FitInv
  <2> SUFFICES ASSUME LinkInit, LinkInv PROVE FitInv
    OBVIOUS
  <2>1. /\ stage = "construct" /\ phase = "running" /\ settings \in Settings
        /\ queue = [q \in Queue |-> <<>>]
    BY DEF LinkInit, TrackerInit
  <2>2. <<>> \in Seq(Size) /\ Len(<<>>) = 0 /\ QueueCap \in Nat /\ "device" \in Queue
    BY LinkAssumption DEF Queue
  <2>3. QueuesTyped
    <3>1. queue \in [Queue -> Seq(Size)] /\ queue["device"] = <<>> /\ \A q \in Queue : queue[q] = <<>>
      BY <2>1, <2>2
    <3>2. Len(queue["device"]) <= QueueCap
      BY <2>2, <3>1
    <3> QED BY <3>1, <3>2 DEF QueuesTyped
  <2> QED BY <2>1, <2>3 DEF FitInv, Configured, Recorded, Reported
<1>2. FitInv /\ [LinkNext]_all => FitInv'
  BY FitNext
<1> QED BY <1>1, <1>2, LinkAlways, PTL DEF LinkSpec

-----------------------------------------------------------------------------
(* The intervals that the rows of a link are made of.                        *)

Units(k) == IF k = "utilization" THEN {"busy"} ELSE Unit

LogOf(q, l, u) == IF l = Watched THEN sampled[q][u] ELSE NewTrackers(q)[u]

IntervalsOf(k, l, u) ==
  IF k = "utilization" THEN IF l = Watched THEN compressed ELSE CompressedLines(IdleIntervals)
  ELSE Finalized(LogOf(k, l, u))

LEMMA ExactShape ==
  ASSUME NEW f, NEW ivs, NEW to \in Nat \ {0}, Exact(f, ivs, 0, to)
  PROVE  /\ ivs \in Seq(Nat \X Nat \X Nat) /\ ivs # <<>> /\ NonEmpty(ivs) /\ Adjoining(ivs)
         /\ Left(ivs[1]) = 0 /\ Right(Last(ivs)) = to
<1>1. /\ ivs \in Seq(Nat \X Nat \X Nat) /\ DOMAIN ivs = 1 .. Len(ivs) /\ Len(ivs) \in Nat
      /\ ivs # <<>>
  BY DEF Exact
<1>2. \A i \in DOMAIN ivs \ {1} : i \in 1 .. Len(ivs) /\ i > 1
  BY <1>1
<1>3. Adjoining(ivs)
  BY <1>2 DEF Adjoining, Exact
<1>4. NonEmpty(ivs)
  BY <1>1 DEF NonEmpty, Exact
<1> QED BY <1>1, <1>3, <1>4 DEF Exact, Last

(* A device that never transmits: as many intervals as begin before the end. *)
LEMMA IdleExact ==
  ASSUME now \in Nat \ {0}
  PROVE  Exact([t \in 0 .. now |-> 0], IdleIntervals, 0, now)
<1> DEFINE n == (now + Interval - 1) \div Interval
           f == [t \in 0 .. now |-> 0]
           left(k) == (k - 1) * Interval
           right(k) == IF k * Interval > now THEN now ELSE k * Interval
           ivs == IdleIntervals
<1>1. Interval \in Nat \ {0} /\ now + Interval - 1 \in Nat
  BY TrackerAssumption
<1>2. n \in Nat /\ n * Interval <= now + Interval - 1 /\ now + Interval - 1 < (n + 1) * Interval
  BY <1>1
<1>3. ivs = [k \in 1 .. n |-> <<left(k), right(k), 0>>]
  BY DEF IdleIntervals
<1> HIDE DEF n, ivs
<1>4. (n + 1) * Interval = n * Interval + Interval /\ n * Interval \in Nat
  BY <1>1, <1>2
<1>5. n # 0 /\ now <= n * Interval
  BY <1>1, <1>2, <1>4
<1>6. 1 \in 1 .. n /\ n \in 1 .. n
  BY <1>2, <1>5
<1>7. ASSUME NEW k \in 1 .. n
      PROVE  /\ left(k) \in Nat /\ right(k) \in Nat /\ left(k) < right(k) /\ right(k) <= now
             /\ k = n => right(k) = now
             /\ k # n => right(k) = k * Interval
  <2>1. /\ left(k) \in Nat /\ k * Interval \in Nat /\ left(k) + Interval = k * Interval
        /\ k * Interval <= n * Interval
    BY <1>2, Rounds
  <2>2. left(k) < now
    BY <1>1, <1>2, <2>1
  <2>3. k # n => k * Interval < now
    <3> SUFFICES ASSUME k # n PROVE k * Interval < now
      OBVIOUS
    <3>1. k + 1 \in 1 .. n
      BY <1>2
    <3>2. (k + 1) * Interval <= n * Interval
      BY <1>2, <3>1, Rounds
    <3>3. (k + 1) * Interval = k * Interval + Interval
      BY <1>1
    <3> QED BY <1>1, <1>2, <1>4, <2>1, <3>2, <3>3
  <2> DEFINE p == k * Interval
  <2>4. p \in Nat /\ left(k) < p /\ (k # n => p < now) /\ (k = n => now <= p)
    BY <1>1, <1>5, <2>1, <2>3
  <2>5. right(k) = IF p > now THEN now ELSE p
    OBVIOUS
  <2> HIDE DEF left, right
  <2> QED BY <2>1, <2>2, <2>4, <2>5
<1>8. /\ DOMAIN ivs = 1 .. n
      /\ \A k \in 1 .. n : Left(ivs[k]) = left(k) /\ Right(ivs[k]) = right(k) /\ Val(ivs[k]) = 0
  <2> HIDE DEF left, right
  <2> QED BY <1>3 DEF Left, Right, Val
<1>9. ivs \in Seq(Nat \X Nat \X Nat) /\ Len(ivs) = n
  <2>1. ASSUME NEW k \in 1 .. n PROVE <<left(k), right(k), 0>> \in Nat \X Nat \X Nat
    <3> HIDE DEF left, right
    <3> QED BY <1>7
  <2>2. ivs \in [1 .. n -> Nat \X Nat \X Nat]
    <3> HIDE DEF left, right
    <3> QED BY <1>3, <2>1
  <2> QED BY <1>2, <2>2, SeqDef, LenProperties
<1>10. left(1) = 0 /\ \A k \in 1 .. n : k > 1 => right(k - 1) = left(k)
  <2>1. ASSUME NEW k \in 1 .. n, k > 1 PROVE right(k - 1) = left(k)
    <3>1. k - 1 \in 1 .. n /\ k - 1 # n
      BY <1>2, <2>1
    <3> HIDE DEF right
    <3> QED BY <1>7, <3>1
  <2>2. left(1) = 0
    BY <1>1
  <2> QED BY <2>1, <2>2
<1>11. ASSUME NEW i \in 1 .. Len(ivs)
       PROVE  /\ 0 <= Left(ivs[i]) /\ Left(ivs[i]) < Right(ivs[i]) /\ Right(ivs[i]) <= now
              /\ Val(ivs[i]) = f[Right(ivs[i])] - f[Left(ivs[i])]
              /\ i > 1 => Right(ivs[i - 1]) = Left(ivs[i])
  <2>1. i \in 1 .. n /\ (i > 1 => i - 1 \in 1 .. n)
    BY <1>2, <1>9
  <2>2. /\ left(i) \in Nat /\ right(i) \in Nat /\ left(i) < right(i) /\ right(i) <= now
        /\ Left(ivs[i]) = left(i) /\ Right(ivs[i]) = right(i) /\ Val(ivs[i]) = 0
    BY <1>7, <1>8, <2>1
  <2>3. i > 1 => Right(ivs[i - 1]) = right(i - 1) /\ right(i - 1) = left(i)
    BY <1>8, <1>10, <2>1
  <2> HIDE DEF left, right
  <2>4. f[left(i)] = 0 /\ f[right(i)] = 0
    BY <2>2
  <2> QED BY <2>2, <2>3, <2>4
<1>12. ivs # <<>> /\ Left(ivs[1]) = 0 /\ Right(ivs[Len(ivs)]) = now
  <2>1. ivs # <<>>
    BY <1>5, <1>9, EmptySeq
  <2> HIDE DEF left, right
  <2> QED BY <1>6, <1>7, <1>8, <1>9, <1>10, <2>1
<1> QED BY <1>9, <1>11, <1>12 DEF Exact, ivs

LEMMA LogOfIs ==
  ASSUME FitInv, stage = "run", now \in Nat, NEW q \in Queue, NEW s \in System,
         NEW l \in tracked[q][s]
  PROVE  /\ \A u \in Unit : \E m \in 0 .. now : LogOf(q, l, u) \in [0 .. m -> Nat]
         /\ \A t \in 0 .. now :
              ValueAt(LogOf(q, l, "pkt"), t) = 0 <=> ValueAt(LogOf(q, l, "byte"), t) = 0
<1>1. CASE l = Watched
  <2>1. HasTracker(q, Watched)
    BY <1>1 DEF HasTracker
  <2>2. Sampling(q)
    BY <2>1 DEF FitInv, Recorded
  <2> QED BY <1>1, <2>2 DEF Sampling, LogOf, Packets
<1>2. CASE l # Watched
  <2> DEFINE zero == [t \in 0 .. 0 |-> 0]
  <2>1. \A u \in Unit : LogOf(q, l, u) = zero
    BY <1>2 DEF LogOf, NewTrackers
  <2>2. zero \in [0 .. 0 -> Nat] /\ 0 \in 0 .. now
    OBVIOUS
  <2>3. "pkt" \in Unit /\ "byte" \in Unit
    BY DEF Unit
  <2> HIDE DEF zero
  <2> QED BY <2>1, <2>2, <2>3
<1> QED BY <1>1, <1>2

LEMMA IntervalsTile ==
  ASSUME FitInv, phase = "written", now > 0, NEW k \in Kind, NEW s \in System,
         NEW l \in tracked[k][s], NEW u \in Units(k)
  PROVE  /\ Tiling(IntervalsOf(k, l, u)) /\ stage = "run" /\ now \in Nat \ {0}
         /\ k # "utilization" => Tells(IntervalsOf(k, l, u), LogOf(k, l, u))
<1>1. now \in Nat \ {0} /\ stage = "run" /\ DeviceTyped
  BY TrackerAssumption DEF FitInv, LinkInv, DeviceTyped, TrackerInit
<1>2. CASE k = "utilization" /\ l = Watched
  <2>1. HasTracker("utilization", Watched)
    BY <1>2 DEF HasTracker
  <2>2. Exact(busyBefore, compressed, 0, now)
    BY <2>1 DEF FitInv, LinkInv, TrackerInv, ResultsSound
  <2>3. IntervalsOf(k, l, u) = compressed
    BY <1>2 DEF IntervalsOf
  <2> QED BY <1>1, <1>2, <2>2, <2>3, ExactShape DEF Tiling
<1>3. CASE k = "utilization" /\ l # Watched
  <2> DEFINE f == [t \in 0 .. now |-> 0]
  <2>1. Exact(f, IdleIntervals, 0, now) /\ \A t \in 0 .. now : f[t] \in Nat
    BY <1>1, IdleExact
  <2> HIDE DEF f
  <2>2. Exact(f, CompressedLines(IdleIntervals), 0, now)
    BY <1>1, <2>1, CompressedExact
  <2>3. IntervalsOf(k, l, u) = CompressedLines(IdleIntervals)
    BY <1>3 DEF IntervalsOf
  <2> QED BY <1>1, <1>3, <2>2, <2>3, ExactShape DEF Tiling
<1>4. CASE k # "utilization"
  <2>1. k \in Queue /\ u \in Unit
    BY <1>4 DEF Kind, Queue, Units
  <2>2. PICK m \in 0 .. now : LogOf(k, l, u) \in [0 .. m -> Nat]
    BY <1>1, <2>1, LogOfIs
  <2>3. IntervalsOf(k, l, u) = Finalized(LogOf(k, l, u))
    BY <1>4 DEF IntervalsOf
  <2> QED BY <1>1, <2>2, <2>3, FinalizedIs
<1> QED BY <1>2, <1>3, <1>4

-----------------------------------------------------------------------------
(* The tables that are written.                                              *)

(* A table of some units, with the rows R[u][l].                             *)
Sound(w, S, units, R) ==
  /\ w \in Seq(RowType)
  /\ \A x \in 1 .. Len(w) : w[x].link \in S
  /\ \A u \in units : \A l \in S : UnitBlock(w, l, u, R[u][l])
  /\ \A x \in 1 .. Len(w) : x > 1 /\ w[x - 1].unit = w[x].unit =>
       w[x - 1].link = w[x].link \/ Precedes(w[x - 1].link, w[x].link)

OfUnit(S, r, u) == \A l \in S : \A k \in 1 .. Len(r[l]) : r[l][k].unit = u

LEMMA UnitsOfRows ==
  ASSUME NEW S, NEW r, NEW u, NEW w, RowsByLink(w, S, r), OfUnit(S, r, u)
  PROVE  \A x \in 1 .. Len(w) : w[x].unit = u
BY DEF RowsByLink, OfUnit

LEMMA OneUnit ==
  ASSUME NEW S, NEW R, NEW u, NEW w, RowsByLink(w, S, R[u]), OfUnit(S, R[u], u)
  PROVE  Sound(w, S, {u}, R)
<1>1. \A x \in 1 .. Len(w) : w[x].unit = u
  BY UnitsOfRows
<1>2. \A l \in S : UnitBlock(w, l, u, R[u][l])
  <2> TAKE l \in S
  <2>1. PICK a \in Nat : Block(w, l, R[u][l], a)
    BY DEF RowsByLink
  <2>2. \A x \in 1 .. Len(w) : w[x].link = l /\ w[x].unit = u <=> x \in a + 1 .. a + Len(R[u][l])
    BY <1>1, <2>1 DEF Block
  <2> QED BY <2>1, <2>2 DEF Block, UnitBlock
<1>3. w \in Seq(RowType) /\ (\A x \in 1 .. Len(w) : w[x].link \in S) /\ LinkOrder(w)
  BY DEF RowsByLink
<1> QED BY <1>1, <1>2, <1>3 DEF Sound, LinkOrder

LEMMA TwoUnits ==
  ASSUME NEW S, NEW R, NEW u, NEW v, u # v, NEW p, NEW q,
         RowsByLink(p, S, R[u]), OfUnit(S, R[u], u), RowsByLink(q, S, R[v]), OfUnit(S, R[v], v),
         \A l \in S : R[u][l] \in Seq(RowType) /\ R[v][l] \in Seq(RowType)
  PROVE  Sound(p \o q, S, {u, v}, R)
<1> DEFINE both == p \o q
<1>1. /\ Sound(p, S, {u}, R) /\ \A x \in 1 .. Len(p) : p[x].unit = u
      /\ Sound(q, S, {v}, R) /\ \A x \in 1 .. Len(q) : q[x].unit = v
  <2>1. Sound(p, S, {u}, R) /\ Sound(q, S, {v}, R)
    BY OneUnit
  <2>2. \A x \in 1 .. Len(p) : p[x].unit = u
    BY UnitsOfRows
  <2>3. \A x \in 1 .. Len(q) : q[x].unit = v
    BY UnitsOfRows
  <2> QED BY <2>1, <2>2, <2>3
<1>2. p \in Seq(RowType) /\ q \in Seq(RowType)
  BY <1>1 DEF Sound
<1>3. /\ both \in Seq(RowType) /\ Len(both) = Len(p) + Len(q) /\ Len(p) \in Nat /\ Len(q) \in Nat
      /\ \A k \in 1 .. Len(p) : both[k] = p[k] /\ k \in 1 .. Len(both)
      /\ \A k \in 1 .. Len(q) : both[Len(p) + k] = q[k] /\ Len(p) + k \in 1 .. Len(both)
      /\ \A x \in 1 .. Len(both) : x \in 1 .. Len(p) \/ x - Len(p) \in 1 .. Len(q)
      /\ \A x \in 1 .. Len(both) : x - Len(p) \in 1 .. Len(q) => both[x] = q[x - Len(p)]
  BY <1>2, ConcatIs
<1> HIDE DEF both
<1>4. \A x \in 1 .. Len(both) : both[x].link \in S
  BY <1>1, <1>3 DEF Sound
<1>5. ASSUME NEW l \in S PROVE UnitBlock(both, l, u, R[u][l])
  <2> DEFINE rows == R[u][l]
  <2>1. PICK a \in Nat :
          /\ a + Len(rows) <= Len(p) /\ \A k \in 1 .. Len(rows) : p[a + k] = rows[k]
          /\ \A x \in 1 .. Len(p) : p[x].link = l /\ p[x].unit = u <=> x \in a + 1 .. a + Len(rows)
    BY <1>1 DEF Sound, UnitBlock
  <2>2. Len(rows) \in Nat
    <3>1. rows \in Seq(RowType)
      OBVIOUS
    <3> HIDE DEF rows
    <3> QED BY <3>1
  <2> HIDE DEF rows
  <2>3. a + Len(rows) <= Len(both) /\ \A k \in 1 .. Len(rows) : both[a + k] = rows[k]
    <3>1. \A k \in 1 .. Len(rows) : a + k \in 1 .. Len(p)
      BY <1>3, <2>1, <2>2
    <3>2. \A k \in 1 .. Len(rows) : both[a + k] = p[a + k]
      BY <1>3, <3>1
    <3>3. \A k \in 1 .. Len(rows) : p[a + k] = rows[k]
      BY <2>1
    <3>4. a + Len(rows) <= Len(both)
      <4>1. a + Len(rows) <= Len(p)
        BY <2>1
      <4> QED BY <1>3, <2>1, <2>2, <4>1
    <3> QED BY <3>2, <3>3, <3>4
  <2>4. ASSUME NEW x \in 1 .. Len(both)
        PROVE  both[x].link = l /\ both[x].unit = u <=> x \in a + 1 .. a + Len(rows)
    <3>1. CASE x \in 1 .. Len(p)
      BY <1>3, <2>1, <3>1
    <3>2. CASE x - Len(p) \in 1 .. Len(q)
      <4>1. both[x].unit = v
        BY <1>1, <1>3, <3>2
      <4>2. ~ (x \in a + 1 .. a + Len(rows))
        BY <1>3, <2>1, <2>2, <3>2
      <4> QED BY <4>1, <4>2
    <3> QED BY <1>3, <3>1, <3>2
  <2> QED BY <2>3, <2>4 DEF UnitBlock, rows
<1>6. ASSUME NEW l \in S PROVE UnitBlock(both, l, v, R[v][l])
  <2> DEFINE rows == R[v][l]
  <2>1. PICK a \in Nat :
          /\ a + Len(rows) <= Len(q) /\ \A k \in 1 .. Len(rows) : q[a + k] = rows[k]
          /\ \A x \in 1 .. Len(q) : q[x].link = l /\ q[x].unit = v <=> x \in a + 1 .. a + Len(rows)
    BY <1>1 DEF Sound, UnitBlock
  <2>2. Len(rows) \in Nat
    <3>1. rows \in Seq(RowType)
      OBVIOUS
    <3> HIDE DEF rows
    <3> QED BY <3>1
  <2> HIDE DEF rows
  <2> DEFINE b == Len(p) + a
  <2>3. b \in Nat /\ b + Len(rows) <= Len(both)
    BY <1>3, <2>1, <2>2
  <2>4. \A k \in 1 .. Len(rows) : both[b + k] = rows[k]
    <3> TAKE k \in 1 .. Len(rows)
    <3>1. a + k \in 1 .. Len(q) /\ b + k = Len(p) + (a + k)
      BY <1>3, <2>1, <2>2
    <3> HIDE DEF b
    <3> QED BY <1>3, <2>1, <3>1
  <2>5. ASSUME NEW x \in 1 .. Len(both)
        PROVE  both[x].link = l /\ both[x].unit = v <=> x \in b + 1 .. b + Len(rows)
    <3>1. CASE x \in 1 .. Len(p)
      <4>1. both[x].unit = u
        BY <1>1, <1>3, <3>1
      <4>2. ~ (x \in b + 1 .. b + Len(rows))
        BY <1>3, <2>1, <2>2, <3>1
      <4> QED BY <4>1, <4>2
    <3>2. CASE x - Len(p) \in 1 .. Len(q)
      <4>1. both[x] = q[x - Len(p)]
        BY <1>3, <3>2
      <4>2. both[x].link = l /\ both[x].unit = v <=> x - Len(p) \in a + 1 .. a + Len(rows)
        BY <2>1, <3>2, <4>1
      <4>3. x - Len(p) \in a + 1 .. a + Len(rows) <=> x \in b + 1 .. b + Len(rows)
        BY <1>3, <2>2
      <4> QED BY <4>2, <4>3
    <3> QED BY <1>3, <3>1, <3>2
  <2> HIDE DEF b
  <2> QED BY <2>3, <2>4, <2>5 DEF UnitBlock, rows
<1>7. ASSUME NEW x \in 1 .. Len(both), x > 1, both[x - 1].unit = both[x].unit
      PROVE  both[x - 1].link = both[x].link \/ Precedes(both[x - 1].link, both[x].link)
  <2>0. x - 1 \in 1 .. Len(both)
    BY <1>3, <1>7
  <2>1. CASE x \in 1 .. Len(p)
    <3>1. x - 1 \in 1 .. Len(p) /\ both[x] = p[x] /\ both[x - 1] = p[x - 1]
      BY <1>3, <1>7, <2>1
    <3> QED BY <1>1, <1>7, <2>1, <3>1 DEF Sound
  <2>2. CASE x - Len(p) \in 1 .. Len(q) /\ x - 1 \in 1 .. Len(p)
    <3>1. both[x].unit = v /\ both[x - 1].unit = u
      BY <1>1, <1>3, <2>2
    <3> QED BY <1>7, <3>1
  <2>3. CASE x - Len(p) \in 1 .. Len(q) /\ (x - 1) - Len(p) \in 1 .. Len(q)
    <3>1. both[x] = q[x - Len(p)] /\ both[x - 1] = q[(x - 1) - Len(p)]
      BY <1>3, <2>0, <2>3
    <3>2. (x - 1) - Len(p) = (x - Len(p)) - 1 /\ x - Len(p) > 1
      BY <1>3, <2>3
    <3> QED BY <1>1, <1>7, <2>3, <3>1, <3>2 DEF Sound
  <2> QED BY <1>3, <2>0, <2>1, <2>2, <2>3
<1> QED BY <1>3, <1>4, <1>5, <1>6, <1>7 DEF Sound, both

(* The rows of the links in S, of a kind and a unit.                         *)
RowsIn(k, S) == [u \in Units(k) |-> [l \in S |-> RowsFrom(IntervalsOf(k, l, u), l, u)]]

LEMMA TablesSound ==
  ASSUME FitInv, phase = "written", now > 0, NEW k \in Kind, NEW s \in System
  PROVE  /\ tracked[k][s] \in SUBSET Link
         /\ Sound(tables[k][s], tracked[k][s], Units(k), RowsIn(k, tracked[k][s]))
<1> DEFINE S == tracked[k][s]
           R == RowsIn(k, S)
           own == SortedLinks(S)
<1>1. stage = "run" /\ now \in Nat
  BY TrackerAssumption DEF FitInv, LinkInv, DeviceTyped, TrackerInit
<1>2. S \in SUBSET Link /\ S \in SUBSET (Nat \X Nat) /\ IsFiniteSet(S)
  <2>1. S = OwnLinks(k, s) /\ (Enabled(k) => EnableForLinks(k) \subseteq Link)
    BY <1>1 DEF FitInv, Configured, Accepted
  <2>2. S \in SUBSET Link
    BY <2>1 DEF OwnLinks
  <2> HIDE DEF S
  <2>3. S \in SUBSET (Nat \X Nat)
    BY <2>2, LinkAssumption
  <2> QED BY <2>2, <2>3, LinkAssumption, FS_Subset
<1>3. ASSUME NEW u \in Units(k), NEW l \in S
      PROVE  /\ R[u][l] = RowsFrom(IntervalsOf(k, l, u), l, u) /\ R[u][l] \in Seq(RowType)
             /\ \A i \in 1 .. Len(R[u][l]) : R[u][l][i].link = l /\ R[u][l][i].unit = u
  <2>1. IntervalsOf(k, l, u) \in Seq(Nat \X Nat \X Nat)
    BY IntervalsTile DEF Tiling
  <2>2. l \in Nat \X Nat /\ u \in {"pkt", "byte", "busy"}
    BY <1>2 DEF Units, Unit
  <2>3. R[u][l] = RowsFrom(IntervalsOf(k, l, u), l, u)
    BY DEF RowsIn
  <2> HIDE DEF S, R
  <2> QED BY <2>1, <2>2, <2>3, RowsShape
<1>4. ASSUME NEW u \in Units(k) PROVE RowsOfEach(S, R[u]) /\ OfUnit(S, R[u], u)
  <2>1. R[u] = [l \in S |-> RowsFrom(IntervalsOf(k, l, u), l, u)]
    BY DEF RowsIn
  <2> HIDE DEF S, R
  <2>2. R[u] \in [S -> Seq(RowType)]
    BY <1>3, <2>1
  <2> QED BY <1>3, <2>2 DEF RowsOfEach, OfUnit
<1>5. ASSUME NEW u \in Units(k)
      PROVE  RowsByLink(FlattenSeq([i \in DOMAIN own |-> R[u][own[i]]]), S, R[u])
  <2> DEFINE ss == [i \in DOMAIN own |-> R[u][own[i]]]
  <2>1. ss = [i \in DOMAIN SortedLinks(S) |-> R[u][SortedLinks(S)[i]]]
    OBVIOUS
  <2> HIDE DEF S, R, ss
  <2>2. RowsByLink(FlattenSeq(ss), S, R[u])
    BY <1>2, <1>4, <1>5, <2>1, TableOfLinks
  <2> QED BY <2>2 DEF ss
<1>6. \A i \in DOMAIN own : own[i] \in S
  <2> HIDE DEF S
  <2> QED BY <1>2, LinksSorted
<1>7. CASE k = "utilization"
  <2>1. Units(k) = {"busy"}
    BY <1>7 DEF Units
  <2>2. \A l \in S : R["busy"][l] = UtilizationRows(l, compressed)
    <3> HIDE DEF S, R
    <3> QED BY <1>3, <1>7, <2>1 DEF UtilizationRows, RowsFrom, IntervalsOf
  <2>3. tables[k][s] = FlattenSeq([i \in DOMAIN own |-> UtilizationRows(own[i], compressed)])
    BY <1>7 DEF FitInv, Reported, UtilizationTable
  <2> HIDE DEF S, R, own
  <2>4. [i \in DOMAIN own |-> UtilizationRows(own[i], compressed)]
          = [i \in DOMAIN own |-> R["busy"][own[i]]]
    BY <1>6, <2>2
  <2>5. RowsByLink(tables[k][s], S, R["busy"])
    BY <1>5, <2>1, <2>3, <2>4
  <2>6. Sound(tables[k][s], S, {"busy"}, R)
    BY <1>4, <2>1, <2>5, OneUnit
  <2> QED BY <1>2, <2>1, <2>6 DEF S, R
<1>8. CASE k # "utilization"
  <2>1. k \in Queue /\ Units(k) = {"pkt", "byte"}
    BY <1>8 DEF Units, Unit, Kind, Queue
  <2>2. \A l \in S : \A u \in Units(k) : R[u][l] = QueueRows(k, l, u)
    <3> HIDE DEF S, R
    <3> QED BY <1>3, <1>8 DEF QueueRows, RowsFrom, IntervalsOf, LogOf
  <2>3. tables[k][s] = FlattenSeq([i \in DOMAIN own |-> QueueRows(k, own[i], "pkt")])
                         \o FlattenSeq([i \in DOMAIN own |-> QueueRows(k, own[i], "byte")])
    <3>1. tables[k][s] = QueueTable(k, s)
      BY <1>8 DEF FitInv, Reported
    <3> QED BY <3>1 DEF QueueTable
  <2> HIDE DEF S, R, own
  <2>4. \A u \in Units(k) : [i \in DOMAIN own |-> QueueRows(k, own[i], u)]
                              = [i \in DOMAIN own |-> R[u][own[i]]]
    BY <1>6, <2>2
  <2> DEFINE p == FlattenSeq([i \in DOMAIN own |-> R["pkt"][own[i]]])
             q == FlattenSeq([i \in DOMAIN own |-> R["byte"][own[i]]])
  <2>5. tables[k][s] = p \o q
    BY <2>1, <2>3, <2>4
  <2>6. RowsByLink(p, S, R["pkt"]) /\ RowsByLink(q, S, R["byte"])
    BY <1>5, <2>1
  <2>7. OfUnit(S, R["pkt"], "pkt") /\ OfUnit(S, R["byte"], "byte")
    BY <1>4, <2>1
  <2> HIDE DEF p, q
  <2>8. \A l \in S : R["pkt"][l] \in Seq(RowType) /\ R["byte"][l] \in Seq(RowType)
    BY <1>3, <2>1
  <2>9. Sound(p \o q, S, {"pkt", "byte"}, R)
    BY <2>6, <2>7, <2>8, TwoUnits
  <2> QED BY <1>2, <2>1, <2>5, <2>9 DEF S, R
<1> QED BY <1>7, <1>8

(* The rows of a link, filtered from the table of the system of its sender.  *)
LEMMA RowsOfIs ==
  ASSUME FitInv, phase = "written", now > 0, NEW k \in Kind, Enabled(k),
         NEW l \in EnableForLinks(k), NEW u \in Units(k)
  PROVE  /\ RowsOf(k, l, u) = RowsFrom(IntervalsOf(k, l, u), l, u)
         /\ settings.assignment[l[1]] \in System /\ l \in tracked[k][settings.assignment[l[1]]]
         /\ DOMAIN RowsOf(k, l, u) = DOMAIN IntervalsOf(k, l, u)
         /\ \A i \in DOMAIN IntervalsOf(k, l, u) :
              RowsOf(k, l, u)[i].interval = IntervalsOf(k, l, u)[i]
         /\ Tiled(RowsOf(k, l, u))
<1> DEFINE s == settings.assignment[l[1]]
           w == tables[k][s]
           ivs == IntervalsOf(k, l, u)
           rows == RowsFrom(ivs, l, u)
<1>1. /\ stage = "run" /\ settings \in Settings /\ tracked = [j \in Kind |-> [n \in System |-> OwnLinks(j, n)]]
      /\ l \in Link /\ l \in Nat \X Nat
  <2>1. stage = "run"
    BY DEF FitInv, LinkInv, TrackerInit
  <2>2. /\ settings \in Settings /\ tracked = [j \in Kind |-> [n \in System |-> OwnLinks(j, n)]]
        /\ EnableForLinks(k) \subseteq Link
    BY <2>1 DEF FitInv, Configured, Accepted
  <2> QED BY <2>1, <2>2, LinkAssumption
<1>2. s \in System
  BY <1>1, LinkAssumption
<1>3. l \in tracked[k][s]
  <2>1. tracked[k][s] = OwnLinks(k, s)
    BY <1>1, <1>2
  <2> QED BY <2>1 DEF OwnLinks
<1> HIDE DEF s
<1>4. Tiling(ivs)
  BY <1>2, <1>3, IntervalsTile
<1>5. u \in {"pkt", "byte", "busy"}
  BY DEF Units, Unit
<1>6. /\ rows \in Seq(RowType) /\ Len(rows) = Len(ivs) /\ Len(ivs) \in Nat
      /\ DOMAIN ivs = 1 .. Len(ivs) /\ DOMAIN rows = DOMAIN ivs
      /\ \A i \in 1 .. Len(ivs) : rows[i].interval = ivs[i]
  <2>1. ivs \in Seq(Nat \X Nat \X Nat)
    BY <1>4 DEF Tiling
  <2>2. DOMAIN rows = DOMAIN ivs
    BY DEF RowsFrom
  <2> HIDE DEF ivs
  <2> QED BY <1>1, <1>5, <2>1, <2>2, RowsShape
<1>7. Sound(w, tracked[k][s], Units(k), RowsIn(k, tracked[k][s]))
  BY <1>2, TablesSound
<1>8. RowsIn(k, tracked[k][s])[u][l] = rows
  BY <1>3 DEF RowsIn
<1> HIDE DEF rows, w, ivs
<1>9. w \in Seq(RowType) /\ UnitBlock(w, l, u, rows)
  BY <1>3, <1>7, <1>8 DEF Sound
<1>10. Kept(w, {r \in Range(w) : r.link = l /\ r.unit = u}) = rows
  BY <1>6, <1>9, KeptRows
<1>11. RowsOf(k, l, u) = rows
  BY <1>10 DEF RowsOf, w, s
<1>12. Tiled(rows)
  <2> DEFINE same == [i \in DOMAIN rows |-> rows[i].interval]
  <2>1. same = [i \in 1 .. Len(ivs) |-> ivs[i]]
    BY <1>6
  <2>2. ivs = [i \in 1 .. Len(ivs) |-> ivs[i]]
    BY <1>4, <1>6 DEF Tiling
  <2>3. same = ivs
    BY <2>1, <2>2
  <2> HIDE DEF same
  <2>4. same # <<>> /\ NonEmpty(same) /\ Adjoining(same) /\ Left(same[1]) = 0 /\ Right(Last(same)) = now
    BY <1>4, <2>3 DEF Tiling
  <2> QED BY <2>4 DEF Tiled, same
<1> QED BY <1>2, <1>3, <1>6, <1>11, <1>12 DEF s, ivs, rows

(* Two intervals that overlap share an instant, and tell what was then.      *)
LEMMA SharedInstant ==
  ASSUME now \in Nat, NEW ivs, NEW f, Tells(ivs, f), NEW jvs, NEW g, Tells(jvs, g),
         NEW i \in DOMAIN ivs, NEW j \in DOMAIN jvs, Overlap(ivs[i], jvs[j])
  PROVE  \E t \in 0 .. now - 1 : ValueAt(f, t) = Val(ivs[i]) /\ ValueAt(g, t) = Val(jvs[j])
<1> DEFINE a == Left(ivs[i])
           b == Right(ivs[i])
           c == Left(jvs[j])
           d == Right(jvs[j])
           t == IF a < c THEN c ELSE a
<1>1. /\ a \in Nat /\ b \in Nat /\ c \in Nat /\ d \in Nat
      /\ a < b /\ b <= now /\ c < d /\ d <= now
      /\ \A x \in a .. b - 1 : ValueAt(f, x) = Val(ivs[i])
      /\ \A x \in c .. d - 1 : ValueAt(g, x) = Val(jvs[j])
  BY DEF Tells
<1>2. a < d /\ c < b
  BY DEF Overlap
<1> HIDE DEF a, b, c, d
<1>3. t \in a .. b - 1 /\ t \in c .. d - 1 /\ t \in 0 .. now - 1
  BY <1>1, <1>2
<1> QED BY <1>1, <1>3

LEMMA FitTogether ==
  ASSUME FitInv, phase = "written", now > 0
  PROVE  TablesFitTogether
<1>1. now \in Nat /\ now \in 0 .. MaxNow /\ stage = "run" /\ busyBefore \in [0 .. MaxNow -> Nat]
      /\ MaxNow \in Nat
  BY TrackerAssumption DEF FitInv, LinkInv, DeviceTyped, TrackerInit
<1>2. tracked = [k \in Kind |-> [s \in System |-> OwnLinks(k, s)]]
  BY <1>1 DEF FitInv, Configured
<1>3. "device" \in Kind /\ "qdisc" \in Kind /\ "device" \in Queue /\ "qdisc" \in Queue
      /\ "pkt" \in Unit /\ "byte" \in Unit
  BY DEF Kind, Queue, Unit
<1>4. ASSUME NEW k \in Kind, NEW s \in System, NEW l \in Link
      PROVE  (\E i \in DOMAIN tables[k][s] : tables[k][s][i].link = l) <=>
               Enabled(k) /\ l \in EnableForLinks(k) /\ settings.assignment[l[1]] = s
  <2> DEFINE w == tables[k][s]
             S == tracked[k][s]
  <2>1. l \in S <=> Enabled(k) /\ l \in EnableForLinks(k) /\ settings.assignment[l[1]] = s
    BY <1>2 DEF OwnLinks
  <2>2. Sound(w, S, Units(k), RowsIn(k, S))
    BY TablesSound
  <2> HIDE DEF w
  <2>3. (\E i \in DOMAIN w : w[i].link = l) => l \in S
    <3> HIDE DEF S
    <3> QED BY <2>2 DEF Sound
  <2>4. ASSUME l \in S PROVE \E i \in DOMAIN w : w[i].link = l
    <3>1. PICK u \in Units(k) : TRUE
      BY DEF Units, Unit
    <3> DEFINE ivs == IntervalsOf(k, l, u)
               rows == RowsFrom(ivs, l, u)
    <3>2. Tiling(ivs)
      BY <2>4, IntervalsTile
    <3>3. RowsIn(k, S)[u][l] = rows
      BY <2>4 DEF RowsIn
    <3> HIDE DEF S, ivs
    <3>4. Len(rows) \in Nat /\ Len(rows) # 0
      <4>1. ivs \in Seq(Nat \X Nat \X Nat) /\ ivs # <<>>
        BY <3>2 DEF Tiling
      <4>2. l \in Nat \X Nat /\ u \in {"pkt", "byte", "busy"}
        BY <3>1, LinkAssumption DEF Units, Unit
      <4>3. Len(rows) = Len(ivs)
        BY <4>1, <4>2, RowsShape
      <4> QED BY <4>1, <4>3, EmptySeq
    <3> HIDE DEF rows
    <3>5. UnitBlock(w, l, u, rows)
      BY <2>2, <2>4, <3>1, <3>3 DEF Sound
    <3>6. PICK a \in Nat :
            /\ a + Len(rows) <= Len(w)
            /\ \A x \in 1 .. Len(w) : w[x].link = l /\ w[x].unit = u <=> x \in a + 1 .. a + Len(rows)
      BY <3>5 DEF UnitBlock
    <3>7. w \in Seq(RowType)
      BY <2>2 DEF Sound
    <3>8. a + 1 \in 1 .. Len(w) /\ a + 1 \in a + 1 .. a + Len(rows)
      BY <3>4, <3>6, <3>7
    <3>9. a + 1 \in DOMAIN w
      BY <3>7, <3>8
    <3> QED BY <3>6, <3>8, <3>9
  <2> HIDE DEF S
  <2> QED BY <2>1, <2>3, <2>4 DEF w
<1>5. ASSUME NEW k \in Kind, NEW s \in System, NEW i \in 2 .. Len(tables[k][s])
      PROVE  LET r == tables[k][s][i - 1] n == tables[k][s][i] IN
             r.unit = n.unit /\ r.link # n.link => SortedLinks({r.link, n.link})[1] = r.link
  <2> DEFINE w == tables[k][s]
             S == tracked[k][s]
  <2>1. Sound(w, S, Units(k), RowsIn(k, S)) /\ S \in SUBSET Link
    BY TablesSound
  <2>2. i \in 2 .. Len(w)
    OBVIOUS
  <2> HIDE DEF w, S
  <2>3. w \in Seq(RowType)
    BY <2>1 DEF Sound
  <2>4. i \in 1 .. Len(w) /\ i - 1 \in 1 .. Len(w) /\ i > 1
    BY <2>2, <2>3
  <2>5. w[i].link \in Nat \X Nat /\ w[i - 1].link \in Nat \X Nat
    <3>1. w[i].link \in S /\ w[i - 1].link \in S
      BY <2>1, <2>4 DEF Sound
    <3> QED BY <2>1, <3>1, LinkAssumption
  <2>6. w[i - 1].unit = w[i].unit /\ w[i - 1].link # w[i].link
          => Precedes(w[i - 1].link, w[i].link)
    BY <2>1, <2>4 DEF Sound
  <2>7. w[i - 1].unit = w[i].unit /\ w[i - 1].link # w[i].link
          => SortedLinks({w[i - 1].link, w[i].link})[1] = w[i - 1].link
    BY <2>5, <2>6, FirstOfTwo
  <2> QED BY <2>7 DEF w
<1>6. ASSUME NEW k \in Kind, Enabled(k), NEW l \in EnableForLinks(k), k = "utilization"
      PROVE  Tiled(RowsOf(k, l, "busy"))
  BY <1>6, RowsOfIs DEF Units
<1>7. ASSUME NEW k \in Kind, Enabled(k), NEW l \in EnableForLinks(k), k # "utilization"
      PROVE  /\ \A u \in Unit : Tiled(RowsOf(k, l, u))
             /\ \A i \in DOMAIN RowsOf(k, l, "pkt"), j \in DOMAIN RowsOf(k, l, "byte") :
                  LET iv == RowsOf(k, l, "pkt")[i].interval
                      jv == RowsOf(k, l, "byte")[j].interval
                  IN  Overlap(iv, jv) => (Val(iv) = 0 <=> Val(jv) = 0)
  <2> DEFINE s == settings.assignment[l[1]]
             ivs == IntervalsOf(k, l, "pkt")
             jvs == IntervalsOf(k, l, "byte")
  <2>1. Units(k) = Unit /\ k \in Queue
    BY <1>7 DEF Units, Kind, Queue
  <2>2. \A u \in Unit : Tiled(RowsOf(k, l, u))
    BY <1>7, <2>1, RowsOfIs
  <2>3. /\ s \in System /\ l \in tracked[k][s]
        /\ DOMAIN RowsOf(k, l, "pkt") = DOMAIN ivs
        /\ \A i \in DOMAIN ivs : RowsOf(k, l, "pkt")[i].interval = ivs[i]
    BY <1>3, <1>7, <2>1, RowsOfIs
  <2>4. /\ DOMAIN RowsOf(k, l, "byte") = DOMAIN jvs
        /\ \A j \in DOMAIN jvs : RowsOf(k, l, "byte")[j].interval = jvs[j]
    BY <1>3, <1>7, <2>1, RowsOfIs
  <2> HIDE DEF s
  <2>5. Tells(ivs, LogOf(k, l, "pkt")) /\ Tells(jvs, LogOf(k, l, "byte"))
    BY <1>3, <1>7, <2>1, <2>3, IntervalsTile
  <2>6. \A t \in 0 .. now - 1 :
          ValueAt(LogOf(k, l, "pkt"), t) = 0 <=> ValueAt(LogOf(k, l, "byte"), t) = 0
    <3>1. \A t \in 0 .. now - 1 : t \in 0 .. now
      BY <1>1
    <3> QED BY <1>1, <2>1, <2>3, <3>1, LogOfIs
  <2> HIDE DEF ivs, jvs
  <2>7. ASSUME NEW i \in DOMAIN ivs, NEW j \in DOMAIN jvs, Overlap(ivs[i], jvs[j])
        PROVE  Val(ivs[i]) = 0 <=> Val(jvs[j]) = 0
    <3>1. \E t \in 0 .. now - 1 : /\ ValueAt(LogOf(k, l, "pkt"), t) = Val(ivs[i])
                                  /\ ValueAt(LogOf(k, l, "byte"), t) = Val(jvs[j])
      BY <1>1, <2>5, <2>7, SharedInstant
    <3> QED BY <2>6, <3>1
  <2> QED BY <2>2, <2>3, <2>4, <2>7
<1>8. ASSUME Enabled("device"), Watched \in EnableForLinks("device"),
             NEW i \in DOMAIN RowsOf("device", Watched, "pkt")
      PROVE  LET iv == RowsOf("device", Watched, "pkt")[i].interval IN
             /\ Val(iv) > 0 => TrueBusy(Left(iv), Right(iv)) = Right(iv) - Left(iv)
             /\ Enabled("qdisc") /\ Watched \in EnableForLinks("qdisc") =>
                  \A j \in DOMAIN RowsOf("qdisc", Watched, "pkt") :
                    LET jv == RowsOf("qdisc", Watched, "pkt")[j].interval
                    IN  Overlap(iv, jv) /\ Val(jv) > 0 => Val(iv) = QueueCap
  <2> DEFINE s == settings.assignment[Watched[1]]
             f == LogOf("device", Watched, "pkt")
             g == LogOf("qdisc", Watched, "pkt")
             ivs == IntervalsOf("device", Watched, "pkt")
             jvs == IntervalsOf("qdisc", Watched, "pkt")
  <2>1. "pkt" \in Units("device") /\ "pkt" \in Units("qdisc")
    BY DEF Units, Unit
  <2>2. /\ s \in System /\ Watched \in tracked["device"][s] /\ i \in DOMAIN ivs
        /\ RowsOf("device", Watched, "pkt")[i].interval = ivs[i]
    BY <1>3, <1>8, <2>1, RowsOfIs
  <2>3. Tells(ivs, f) /\ HasTracker("device", Watched)
    BY <1>3, <2>1, <2>2, IntervalsTile DEF HasTracker
  <2>4. ASSUME NEW t \in 0 .. now - 1
        PROVE  /\ ValueAt(f, t) > 0 => busyBefore[t + 1] = busyBefore[t] + 1
               /\ HasTracker("qdisc", Watched) /\ ValueAt(g, t) > 0 => ValueAt(f, t) = QueueCap
    <3>1. Moment(t)
      BY <1>1 DEF FitInv, Recorded
    <3>2. Packets("device", t) = ValueAt(f, t) /\ Packets("qdisc", t) = ValueAt(g, t)
      BY DEF Packets, LogOf
    <3> QED BY <2>3, <3>1, <3>2 DEF Moment
  <2> HIDE DEF s, f, ivs
  <2> DEFINE a == Left(ivs[i])
             b == Right(ivs[i])
  <2>5. a \in Nat /\ b \in Nat /\ a < b /\ b <= now /\ \A t \in a .. b - 1 : ValueAt(f, t) = Val(ivs[i])
    BY <2>2, <2>3 DEF Tells
  <2> HIDE DEF a, b
  <2>6. ASSUME Val(ivs[i]) > 0 PROVE busyBefore[b] - busyBefore[a] = b - a
    <3>1. \A t \in a .. b - 1 : busyBefore[t + 1] = busyBefore[t] + 1
      <4>1. \A t \in a .. b - 1 : t \in 0 .. now - 1
        BY <1>1, <2>5
      <4> QED BY <2>4, <2>5, <2>6, <4>1
    <3>2. \A t \in a .. b : busyBefore[t] \in Nat
      <4>1. \A t \in a .. b : t \in 0 .. MaxNow
        BY <1>1, <2>5
      <4> QED BY <1>1, <4>1
    <3>3. a <= b
      BY <2>5
    <3> QED BY <2>5, <3>1, <3>2, <3>3, BusyThroughout
  <2>7. ASSUME Enabled("qdisc"), Watched \in EnableForLinks("qdisc"),
               NEW j \in DOMAIN RowsOf("qdisc", Watched, "pkt"),
               Overlap(ivs[i], RowsOf("qdisc", Watched, "pkt")[j].interval),
               Val(RowsOf("qdisc", Watched, "pkt")[j].interval) > 0
        PROVE  Val(ivs[i]) = QueueCap
    <3>1. /\ Watched \in tracked["qdisc"][s] /\ j \in DOMAIN jvs
          /\ RowsOf("qdisc", Watched, "pkt")[j].interval = jvs[j]
      BY <1>3, <2>1, <2>7, RowsOfIs DEF s
    <3>2. Tells(jvs, g) /\ HasTracker("qdisc", Watched)
      BY <1>3, <2>1, <2>2, <3>1, IntervalsTile DEF HasTracker
    <3> HIDE DEF g, jvs
    <3>3. Overlap(ivs[i], jvs[j]) /\ Val(jvs[j]) > 0
      BY <2>7, <3>1
    <3>4. \E t \in 0 .. now - 1 : ValueAt(f, t) = Val(ivs[i]) /\ ValueAt(g, t) = Val(jvs[j])
      BY <1>1, <2>2, <2>3, <3>1, <3>2, <3>3, SharedInstant
    <3> QED BY <2>4, <3>2, <3>3, <3>4
  <2> QED BY <2>2, <2>6, <2>7 DEF TrueBusy, a, b
<1>9. \A k \in Kind : Enabled(k) => \A l \in EnableForLinks(k) :
        IF k = "utilization" THEN Tiled(RowsOf(k, l, "busy"))
        ELSE /\ \A u \in Unit : Tiled(RowsOf(k, l, u))
             /\ \A i \in DOMAIN RowsOf(k, l, "pkt"), j \in DOMAIN RowsOf(k, l, "byte") :
                  LET iv == RowsOf(k, l, "pkt")[i].interval
                      jv == RowsOf(k, l, "byte")[j].interval
                  IN  Overlap(iv, jv) => (Val(iv) = 0 <=> Val(jv) = 0)
  BY <1>6, <1>7
<1> QED BY <1>4, <1>5, <1>8, <1>9 DEF TablesFitTogether

(* The three files of a run fit together: each link asked for is in them on  *)
(* the system of its sender, in order and without a gap, packets wait in the *)
(* device only while it transmits and in the discipline only behind a full   *)
(* device queue (the WriteResults of the three trackings).                   *)
THEOREM FilesFitTogether == LinkSpec => []TablesFitTogether
<1>1. FitInv => TablesFitTogether
  BY FitTogether DEF TablesFitTogether
<1> QED BY <1>1, FitAlways, PTL
=============================================================================
