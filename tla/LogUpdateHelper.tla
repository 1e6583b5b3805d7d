--------------------------- MODULE LogUpdateHelper ---------------------------
(***************************************************************************)
(* LogUpdateHelper<V> (contrib/basic-sim/model/core/log-update-helper.h):  *)
(* the recorder behind every queue, qdisc and TCP trace of basic-sim.  It  *)
(* never keeps the whole history.  It holds back two open intervals, alpha *)
(* (value known) and beta (value not final before time moves on), and      *)
(* merges or flushes them to memory and/or to a file.                      *)
(***************************************************************************)
EXTENDS Intervals, SequencesExt

CONSTANTS Value,         \* values of the template parameter V that are logged
          Unset,         \* V(-1), what both value fields hold initially; it may
                         \* coincide with a logged value
          MaxTime,       \* bound on time
          SaveInMemory,  \* m_save_in_memory
          SaveToFile,    \* m_save_to_file
          MaxFinalize    \* bound on the number of Finalize calls

ASSUME LogAssumption ==
  /\ MaxTime \in Nat /\ MaxFinalize \in Nat
  /\ SaveInMemory \in BOOLEAN /\ SaveToFile \in BOOLEAN
  /\ SaveInMemory \/ SaveToFile      \* the constructor throws otherwise

Time == 0 .. MaxTime

VARIABLES
  log,         \* m_log_time_value: <<left, right, value>> triples
  file,        \* lines of the save file: <<time, value>> pairs
  open,        \* is m_save_file_stream still open
  lastValue,   \* m_last_update_value
  alphaValue,  \* m_interval_alpha_value
  lastCheck,   \* m_last_interval_check_time
  alphaLeft,   \* m_interval_alpha_left_time
  betaLeft,    \* m_interval_beta_left_time
  finalizes,   \* number of Finalize calls that returned
  threw,       \* did the last call throw
  \* History, for the properties only:
  signal,      \* the signal described by the accepted updates
  first,       \* time of the first accepted update, -1 before it
  status,      \* "recording", then "finalized", then "spent" (used again)
  end          \* time of the first Finalize, -1 before it

state   == <<log, file, open, lastValue, alphaValue, lastCheck, alphaLeft, betaLeft>>
history == <<signal, first, status, end>>
vars    == <<log, file, open, lastValue, alphaValue, lastCheck, alphaLeft, betaLeft,
             finalizes, threw, signal, first, status, end>>

Init ==
  /\ log = <<>> /\ file = <<>> /\ open = SaveToFile
  /\ lastValue = Unset /\ alphaValue = Unset
  /\ lastCheck = -1 /\ alphaLeft = -1 /\ betaLeft = -1
  /\ finalizes = 0 /\ threw = FALSE
  /\ \E v \in Value : signal = [t \in Time |-> v]
  /\ first = -1 /\ status = "recording" /\ end = -1

------------------------------------------------------------------------------
(* Both sinks; writing to a closed stream does nothing.                     *)
PushToMemory(ivs) == log' = IF SaveInMemory THEN log \o ivs ELSE log
WriteLines(lines) == file' = IF open THEN file \o lines ELSE file

(* The interval rotation at the first update of a new instant.              *)
StartAlpha(t) ==
  /\ alphaLeft = -1
  /\ alphaLeft' = t
  /\ UNCHANGED <<log, file, alphaValue, betaLeft>>

(* Mutant: alpha keeps the value it had, not the last one of its span.      *)
StartBetaStaleAlpha(t) ==
  /\ alphaLeft # -1 /\ betaLeft = -1
  /\ betaLeft' = t
  /\ UNCHANGED <<log, file, alphaLeft, alphaValue>>

StartBeta(t) ==
  /\ alphaLeft # -1 /\ betaLeft = -1
  /\ betaLeft' = t /\ alphaValue' = lastValue
  /\ UNCHANGED <<log, file, alphaLeft>>

MergeBeta(t) ==
  /\ alphaLeft # -1 /\ betaLeft # -1 /\ alphaValue = lastValue
  /\ betaLeft' = t
  /\ UNCHANGED <<log, file, alphaLeft, alphaValue>>

FlushAlpha(t) ==
  /\ alphaLeft # -1 /\ betaLeft # -1 /\ alphaValue # lastValue
  /\ PushToMemory(<< <<alphaLeft, betaLeft, alphaValue>> >>)
  /\ WriteLines(<< <<alphaLeft, alphaValue>> >>)
  /\ alphaLeft' = betaLeft /\ alphaValue' = lastValue /\ betaLeft' = t

SameInstant(t) ==
  /\ t = lastCheck
  /\ UNCHANGED <<log, file, alphaLeft, alphaValue, betaLeft>>

(* Mutant: intervals rotate at every update, not once per instant.          *)
NewInstantAlways(t) ==
  /\ t >= lastCheck
  /\ StartAlpha(t) \/ StartBeta(t) \/ MergeBeta(t) \/ FlushAlpha(t)

NewInstant(t) ==
  /\ t > lastCheck
  /\ StartAlpha(t) \/ StartBeta(t) \/ MergeBeta(t) \/ FlushAlpha(t)

RecordUpdate(t, v) ==
  /\ signal' = [u \in Time |-> IF u >= t THEN v ELSE signal[u]]
  /\ first' = IF first = -1 THEN t ELSE first
  /\ status' = IF status = "recording" THEN "recording" ELSE "spent"
  /\ UNCHANGED end

Update(t, v) ==
  /\ t >= 0 /\ t >= lastCheck
  /\ SameInstant(t) \/ NewInstant(t)
  /\ lastCheck' = t /\ lastValue' = v
  /\ threw' = FALSE
  /\ RecordUpdate(t, v)
  /\ UNCHANGED <<open, finalizes>>

------------------------------------------------------------------------------
(* Finalize closes alpha and beta at time t; it resets neither of them.     *)
CloseNothing ==
  /\ alphaLeft = -1
  /\ UNCHANGED <<log, file>>

CloseOnlyAlpha(t) ==
  /\ alphaLeft # -1 /\ betaLeft = -1
  /\ IF alphaLeft # t
     THEN /\ PushToMemory(<< <<alphaLeft, t, lastValue>> >>)
          /\ WriteLines(<< <<alphaLeft, lastValue>>, <<t, lastValue>> >>)
     ELSE UNCHANGED <<log, file>>

CloseMerged(t) ==
  /\ alphaLeft # -1 /\ betaLeft # -1 /\ alphaValue = lastValue
  /\ PushToMemory(<< <<alphaLeft, t, alphaValue>> >>)
  /\ WriteLines(<< <<alphaLeft, alphaValue>>, <<t, alphaValue>> >>)

(* Mutant: no test for an empty beta interval.                              *)
CloseBothUntested(t) ==
  /\ alphaLeft # -1 /\ betaLeft # -1 /\ alphaValue # lastValue
  /\ PushToMemory(<< <<alphaLeft, betaLeft, alphaValue>>, <<betaLeft, t, lastValue>> >>)
  /\ WriteLines(<< <<alphaLeft, alphaValue>>, <<betaLeft, lastValue>>, <<t, lastValue>> >>)

(* Mutant: the closing line of the file carries the value of the empty beta. *)
CloseBothWrongTail(t) ==
  /\ alphaLeft # -1 /\ betaLeft # -1 /\ alphaValue # lastValue
  /\ IF betaLeft # t
     THEN /\ PushToMemory(<< <<alphaLeft, betaLeft, alphaValue>>, <<betaLeft, t, lastValue>> >>)
          /\ WriteLines(<< <<alphaLeft, alphaValue>>, <<betaLeft, lastValue>>, <<t, lastValue>> >>)
     ELSE /\ PushToMemory(<< <<alphaLeft, betaLeft, alphaValue>> >>)
          /\ WriteLines(<< <<alphaLeft, alphaValue>>, <<betaLeft, lastValue>> >>)

CloseBoth(t) ==
  /\ alphaLeft # -1 /\ betaLeft # -1 /\ alphaValue # lastValue
  /\ IF betaLeft # t
     THEN /\ PushToMemory(<< <<alphaLeft, betaLeft, alphaValue>>, <<betaLeft, t, lastValue>> >>)
          /\ WriteLines(<< <<alphaLeft, alphaValue>>, <<betaLeft, lastValue>>, <<t, lastValue>> >>)
     ELSE /\ PushToMemory(<< <<alphaLeft, betaLeft, alphaValue>> >>)
          /\ WriteLines(<< <<alphaLeft, alphaValue>>, <<betaLeft, alphaValue>> >>)

Finalize(t) ==
  /\ finalizes < MaxFinalize
  /\ t >= 0 /\ t >= lastCheck
  /\ CloseNothing \/ CloseOnlyAlpha(t) \/ CloseMerged(t) \/ CloseBoth(t)
  /\ open' = FALSE
  /\ finalizes' = finalizes + 1 /\ threw' = FALSE
  /\ status' = IF status = "recording" THEN "finalized" ELSE "spent"
  /\ end' = IF status = "recording" THEN t ELSE end
  /\ UNCHANGED <<lastValue, alphaValue, lastCheck, alphaLeft, betaLeft, signal, first>>

(* Update and Finalize both refuse a negative time and a time in the past.  *)
Refuse(t) ==
  /\ t < 0 \/ t < lastCheck
  /\ threw' = TRUE
  /\ UNCHANGED <<state, finalizes, history>>

Next ==
  \/ \E t \in Time, v \in Value : Update(t, v)
  \/ \E t \in Time : Finalize(t)
  \/ \E t \in Time \cup {-1} : Refuse(t)

Spec == Init /\ [][Next]_vars
------------------------------------------------------------------------------
(* TypeOK: times are instants or the -1 of "not yet", values are logged     *)
(* values or the initial V(-1).                                             *)
TypeOK ==
  /\ log \in Seq(Time \X Time \X (Value \cup {Unset}))
  /\ file \in Seq(Time \X (Value \cup {Unset}))
  /\ open \in BOOLEAN /\ threw \in BOOLEAN
  /\ lastValue \in Value \cup {Unset} /\ alphaValue \in Value \cup {Unset}
  /\ lastCheck \in Time \cup {-1}
  /\ alphaLeft \in Time \cup {-1} /\ betaLeft \in Time \cup {-1}
  /\ finalizes \in 0 .. MaxFinalize
  /\ signal \in [Time -> Value]
  /\ first \in Time \cup {-1} /\ end \in Time \cup {-1}
  /\ status \in {"recording", "finalized", "spent"}

(* The three time stamps move together: alpha opens first, beta always      *)
(* opens at the latest instant that was checked, after alpha.               *)
Stamps ==
  /\ alphaLeft = -1 => lastCheck = -1 /\ betaLeft = -1 /\ first = -1
  /\ alphaLeft # -1 => /\ 0 <= first /\ first <= alphaLeft
                       /\ betaLeft = -1 => alphaLeft = lastCheck
  /\ betaLeft # -1 => alphaLeft < betaLeft /\ betaLeft = lastCheck

(* The signal since lastCheck is lastValue, over alpha it is alphaValue.    *)
OpenIntervals ==
  \A u \in Time :
    /\ alphaLeft # -1 /\ u >= lastCheck => signal[u] = lastValue
    /\ betaLeft # -1 /\ alphaLeft <= u /\ u < betaLeft => signal[u] = alphaValue

(* While recording, what has been flushed encodes the signal up to alpha,   *)
(* and the last flushed interval could not have been merged with alpha.     *)
Flushed ==
  /\ alphaLeft = -1 \/ betaLeft = -1 => log = <<>>
  /\ alphaLeft # -1 => Encodes(log, signal, first, alphaLeft)
  /\ log # <<>> => /\ Right(log[Len(log)]) = alphaLeft
                   /\ Val(log[Len(log)]) # alphaValue

(* PendingEncodesSignal (log-update-helper.h:78-144): whatever the order of *)
(* updates, repeats within an instant and repeats of a value, the intervals *)
(* flushed so far and the two held back together encode the signal.         *)
PendingEncodesSignal ==
  SaveInMemory /\ status = "recording" => Stamps /\ OpenIntervals /\ Flushed

(* FinalLogExact (log-update-helper.h:146-216): the log handed over by the  *)
(* first Finalize is the run-length encoding of the signal from the first   *)
(* update to the finalization: no gap, no overlap, no empty interval, no    *)
(* two neighbours with the same value, every value the one in force.        *)
FinalLogExact ==
  SaveInMemory /\ status = "finalized" =>
    IF first = -1 THEN log = <<>> ELSE Encodes(log, signal, first, end)

(* FileMirrorsLog (log-update-helper.h:121-123,165-168,189-203): the file   *)
(* lists the left end of each interval of the log, and closes with a line   *)
(* that repeats the last value at the end: the reader of the csv and the    *)
(* reader of the vector see the same curve.                                 *)
FileMirrorsLog ==
  SaveInMemory /\ SaveToFile /\ status = "finalized" =>
    file = [i \in 1 .. Len(log) |-> <<Left(log[i]), Val(log[i])>>]
             \o (IF log = <<>> THEN <<>> ELSE << <<end, Val(Last(log))>> >>)

(* ImplementsStepLog: every behaviour is one of the abstract recorder.      *)
Abs == INSTANCE StepLog WITH
         last   <- lastCheck,
         result <- IF status = "recording" THEN <<>> ELSE log
ImplementsStepLog == Abs!Spec
==============================================================================
