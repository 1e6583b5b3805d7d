------------------------------ MODULE Intervals ------------------------------
(***************************************************************************)
(* Piecewise-constant signals over discrete time and the logs of           *)
(* <<left, right, value>> triples that the trackers of basic-sim hand out: *)
(* the vocabulary in which LogUpdateHelper and NetDeviceUtilizationTracker *)
(* are specified.  Nothing here models code.                               *)
(***************************************************************************)
EXTENDS Integers, Sequences

Left(iv)  == iv[1]
Right(iv) == iv[2]
Val(iv)   == iv[3]

(***************************************************************************)
(* Consecutive intervals are non-empty, adjoin, and carry different values *)
(* (so no two neighbours could have been merged into one).                 *)
(***************************************************************************)
NonEmpty(log)  == \A i \in DOMAIN log : Left(log[i]) < Right(log[i])
Adjoining(log) == \A i \in DOMAIN log \ {1} : Right(log[i - 1]) = Left(log[i])
Merged(log)    == \A i \in DOMAIN log \ {1} : Val(log[i - 1]) # Val(log[i])

(* Each interval carries the value the signal had throughout it.           *)
Truthful(log, signal) ==
  \A i \in DOMAIN log : \A u \in DOMAIN signal :
    Left(log[i]) <= u /\ u < Right(log[i]) => signal[u] = Val(log[i])

(* Every instant of from .. to-1 lies in some interval.                    *)
Covers(log, from, to) ==
  \A u \in from .. to - 1 : \E i \in DOMAIN log :
    Left(log[i]) <= u /\ u < Right(log[i])

(* No interval reaches outside from .. to.                                 *)
Within(log, from, to) ==
  \A i \in DOMAIN log : from <= Left(log[i]) /\ Right(log[i]) <= to

(* log is THE run-length encoding of signal over from .. to-1.             *)
Encodes(log, signal, from, to) ==
  /\ NonEmpty(log) /\ Adjoining(log) /\ Merged(log)
  /\ Truthful(log, signal)
  /\ Covers(log, from, to)
  /\ Within(log, from, to)
==============================================================================
