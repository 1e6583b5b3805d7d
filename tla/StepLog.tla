------------------------------- MODULE StepLog -------------------------------
(***************************************************************************)
(* What a LogUpdateHelper promises its callers, without saying how: it     *)
(* watches a signal through timestamped updates that never go back in      *)
(* time, and when it is finalized at time t it hands over the run-length   *)
(* encoding of the signal from the first update up to t.  Nothing is       *)
(* promised to a caller that goes on using it after that.                  *)
(***************************************************************************)
EXTENDS Intervals

CONSTANTS Value,    \* what can be logged
          MaxTime   \* bound on time, in nanoseconds

VARIABLES signal,   \* the value at each instant, so far
          first,    \* instant of the first update, -1 before it
          last,     \* instant of the latest update, -1 before the first
          status,   \* "recording", "finalized" or "spent"
          result    \* the log handed over

vars == <<signal, first, last, status, result>>

Time == 0 .. MaxTime

Init ==
  /\ signal \in [Time -> Value]      \* what it was before the first update
  /\ first = -1 /\ last = -1
  /\ status = "recording"
  /\ result = <<>>

(* From t on the signal is v, until told otherwise. *)
Update(t, v) ==
  /\ status = "recording" /\ t >= last
  /\ signal' = [u \in Time |-> IF u >= t THEN v ELSE signal[u]]
  /\ first' = IF first = -1 THEN t ELSE first
  /\ last' = t
  /\ UNCHANGED <<status, result>>

Finalize(t) ==
  /\ status = "recording" /\ t >= last
  /\ status' = "finalized"
  /\ IF first = -1 THEN result' = <<>> ELSE Encodes(result', signal, first, t)
  /\ UNCHANGED <<signal, first, last>>

Reuse == status \in {"finalized", "spent"} /\ status' = "spent"

Next ==
  \/ \E t \in Time, v \in Value : Update(t, v)
  \/ \E t \in Time : Finalize(t)
  \/ Reuse

Spec == Init /\ [][Next]_vars
==============================================================================
