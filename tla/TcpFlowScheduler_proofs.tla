----------------------- MODULE TcpFlowScheduler_proofs -----------------------
(***************************************************************************)
(* For any number of flows, any sizes, send steps and buffers: what a      *)
(* client reports about its flow is true, however the flow ended (the      *)
(* theorems of TcpFlow, first).  And for any systems, nodes and schedule:  *)
(* the scheduler runs its flows as TcpFlow says, starts each of them on    *)
(* time, and reports each of them once and truthfully.                     *)
(***************************************************************************)
EXTENDS TcpFlowScheduler, Lists_proofs

-----------------------------------------------------------------------------
(* The types, by the actor that keeps them; the server's list follows below. *)

ClientTyped ==
  /\ started \in [Flow -> BOOLEAN] /\ hasSocket \in [Flow -> BOOLEAN]
  /\ connected \in [Flow -> BOOLEAN] /\ connFailed \in [Flow -> BOOLEAN]
  /\ closedNormally \in [Flow -> BOOLEAN] /\ closedByError \in [Flow -> BOOLEAN]
  /\ isCompleted \in [Flow -> BOOLEAN]
  /\ totBytes \in [Flow -> Nat] /\ ackedBytes \in [Flow -> Nat]
  /\ completionTime \in [Flow -> -1 .. MaxTime] /\ stateAt \in [Flow -> -1 .. MaxTime]
  /\ progress \in [Flow -> [at : -1 .. MaxTime, is : Nat]]

NetworkTyped ==
  /\ now \in 0 .. MaxTime /\ aborted \in BOOLEAN
  /\ sock \in [Flow -> SockState] /\ child \in [Flow -> ChildState]
  /\ txSize \in [Flow -> 0 .. BufferCap] /\ arrived \in [Flow -> Nat]
  /\ closeRequested \in [Flow -> BOOLEAN]

Typed == ClientTyped /\ NetworkTyped

(* What is acknowledged has arrived, what arrived was sent, and no more is   *)
(* sent than the flow has; nothing is sent before the connection is there.   *)
BytesSound(f) ==
  /\ 0 <= totBytes[f] - txSize[f] /\ totBytes[f] - txSize[f] <= arrived[f]
  /\ arrived[f] <= totBytes[f] /\ totBytes[f] <= FlowSize[f]
  /\ sock[f] \in {"none", "SYN_SENT"} => totBytes[f] = 0

(* A flow has ended exactly when its socket is closed or waits to be, and    *)
(* its report was made of the bytes acknowledged then.                      *)
ReportSound(f) ==
  /\ sock[f] = "none" <=> ~started[f]
  /\ Ended(f) <=> sock[f] \in {"TIME_WAIT", "CLOSED"}
  /\ Ended(f) => ackedBytes[f] = totBytes[f] - txSize[f]
  /\ isCompleted[f] => /\ closedNormally[f] /\ ~connFailed[f] /\ ~closedByError[f]
                       /\ ackedBytes[f] = FlowSize[f]

(* The logs are never ahead of the clock, nor of the report.                 *)
LogsSound(f) ==
  /\ started[f] => progress[f].is = totBytes[f] - txSize[f]
  /\ progress[f].at <= now /\ stateAt[f] <= now
  /\ Ended(f) => progress[f].at <= completionTime[f]

FlowSound(f) == BytesSound(f) /\ ReportSound(f) /\ LogsSound(f)

FlowsSound == Typed /\ \A f \in Flow : FlowSound(f)

LEMMA ModBelow ==
  ASSUME NEW a \in Nat, NEW b \in Nat \ {0}
  PROVE  a % b \in 0 .. a
<1>1. a % b \in 0 .. b - 1
  OBVIOUS
<1>2. CASE a < b
  <2>1. a % b = a
    BY <1>2
  <2> QED BY <2>1
<1>3. CASE a >= b
  BY <1>1, <1>3
<1> QED BY <1>2, <1>3

(* The send loop never offers more than is left of the flow nor more than    *)
(* the buffer holds (tcp-flow-client.cc 244-304).                           *)
LEMMA SentTotalsBounded ==
  ASSUME Typed, NEW f \in Flow, NEW state, BytesSound(f), NEW total \in SentTotals(f, state)
  PROVE  /\ total \in Nat /\ totBytes[f] <= total /\ total <= FlowSize[f]
         /\ txSize[f] + total - totBytes[f] \in 0 .. BufferCap
<1> DEFINE free == BufferCap - txSize[f]
<1>1. /\ totBytes[f] \in Nat /\ txSize[f] \in Nat /\ FlowSize[f] \in Nat
      /\ BufferCap \in Nat /\ SendStep \in Nat \ {0}
      /\ free \in Nat /\ totBytes[f] <= FlowSize[f]
  BY FlowAssumption DEF Typed, ClientTyped, NetworkTyped, BytesSound
<1>2. free % SendStep \in 0 .. free
  BY <1>1, ModBelow
<1>3. \/ total = totBytes[f]
      \/ total = FlowSize[f] /\ FlowSize[f] - totBytes[f] <= free
      \/ /\ FlowSize[f] - totBytes[f] > free
         /\ total = totBytes[f] + free - (free % SendStep) \/ total = totBytes[f] + free
  BY <1>1 DEF SentTotals
<1> HIDE DEF free
<1>4. txSize[f] + free = BufferCap
  BY <1>1 DEF free
<1> DEFINE cut == free % SendStep
<1>5. cut \in Nat /\ cut <= free
  BY <1>1, <1>2
<1>6. \/ total = totBytes[f]
      \/ total = FlowSize[f] /\ FlowSize[f] - totBytes[f] <= free
      \/ /\ FlowSize[f] - totBytes[f] > free
         /\ total = totBytes[f] + free - cut \/ total = totBytes[f] + free
  BY <1>3
<1>7. free \in Nat
  BY <1>1 DEF free
<1> HIDE DEF cut
<1> QED BY <1>1, <1>4, <1>5, <1>6, <1>7

-----------------------------------------------------------------------------
(* One step of a flow.                                                     *)

Unmoved(g) ==
  /\ sock'[g] = sock[g] /\ started'[g] = started[g]
  /\ totBytes'[g] = totBytes[g] /\ txSize'[g] = txSize[g] /\ arrived'[g] = arrived[g]
  /\ connFailed'[g] = connFailed[g] /\ closedNormally'[g] = closedNormally[g]
  /\ closedByError'[g] = closedByError[g] /\ ackedBytes'[g] = ackedBytes[g]
  /\ isCompleted'[g] = isCompleted[g] /\ completionTime'[g] = completionTime[g]
  /\ progress'[g] = progress[g] /\ stateAt'[g] = stateAt[g]

Moves(f) == Typed' /\ FlowSound(f)' /\ \A g \in Flow \ {f} : Unmoved(g)

Sends(f) ==
  /\ totBytes' \in [Flow -> Nat] /\ txSize' \in [Flow -> 0 .. BufferCap]
  /\ connected' \in [Flow -> BOOLEAN] /\ closeRequested' \in [Flow -> BOOLEAN]
  /\ \A g \in Flow \ {f} : totBytes'[g] = totBytes[g] /\ txSize'[g] = txSize[g]
  /\ totBytes[f] <= totBytes'[f] /\ totBytes'[f] <= FlowSize[f]
  /\ totBytes'[f] - txSize'[f] = totBytes[f] - txSize[f]

LEMMA SendDataEffect ==
  ASSUME Typed, NEW f \in Flow, NEW state, BytesSound(f), SendData(f, state)
  PROVE  Sends(f)
<1>1. PICK total \in SentTotals(f, state) :
        /\ txSize' = [txSize EXCEPT ![f] = @ + total - totBytes[f]]
        /\ totBytes' = [totBytes EXCEPT ![f] = total]
        /\ connected' = [connected EXCEPT ![f] = total # FlowSize[f]]
        /\ closeRequested' = [closeRequested EXCEPT ![f] = @ \/ total = FlowSize[f]]
  BY DEF SendData
<1>2. /\ total \in Nat /\ totBytes[f] <= total /\ total <= FlowSize[f]
      /\ txSize[f] + total - totBytes[f] \in 0 .. BufferCap
  BY SentTotalsBounded
<1>3. totBytes \in [Flow -> Nat] /\ txSize \in [Flow -> 0 .. BufferCap] /\ BufferCap \in Nat
  BY FlowAssumption DEF Typed, ClientTyped, NetworkTyped
<1>4. /\ totBytes' \in [Flow -> Nat] /\ txSize' \in [Flow -> 0 .. BufferCap]
      /\ totBytes'[f] = total /\ txSize'[f] = txSize[f] + total - totBytes[f]
      /\ \A g \in Flow \ {f} : totBytes'[g] = totBytes[g] /\ txSize'[g] = txSize[g]
  BY <1>1, <1>2, <1>3
<1>5. connected' \in [Flow -> BOOLEAN] /\ closeRequested' \in [Flow -> BOOLEAN]
  BY <1>1 DEF Typed, ClientTyped, NetworkTyped
<1>6. totBytes'[f] - txSize'[f] = totBytes[f] - txSize[f]
  BY <1>2, <1>3, <1>4
<1> QED BY <1>2, <1>4, <1>5, <1>6 DEF Sends

LEMMA StartApplicationSound ==
  ASSUME Typed, NEW f \in Flow, FlowSound(f), StartApplication(f)
  PROVE  Moves(f)
<1>1. CASE /\ StateChange(f, "SYN_SENT") /\ UNCHANGED report
           /\ hasSocket' = [hasSocket EXCEPT ![f] = TRUE]
  BY <1>1, FlowAssumption DEF StartApplication, StateChange, report, Moves, Unmoved, Typed,
     ClientTyped, NetworkTyped, FlowSound, BytesSound, ReportSound, LogsSound, Ended, SockState
<1>2. CASE StateChange(f, "CLOSED") /\ ConnectionFailedReport(f)
  <2>1. Typed'
    BY <1>2, FlowAssumption DEF StartApplication, StateChange, ConnectionFailedReport, Conclude,
       Typed, ClientTyped, NetworkTyped, SockState
  <2>2. \A g \in Flow \ {f} : Unmoved(g)
    BY <1>2 DEF StartApplication, StateChange, ConnectionFailedReport, Conclude, Unmoved,
       Typed, ClientTyped, NetworkTyped
  <2>3. /\ sock[f] = "none" /\ sock'[f] = "CLOSED" /\ started'[f] = TRUE
        /\ connFailed'[f] = TRUE /\ isCompleted'[f] = FALSE /\ ackedBytes'[f] = 0
        /\ completionTime'[f] = now /\ stateAt'[f] = now
        /\ progress'[f] = [at |-> now, is |-> 0] /\ UNCHANGED <<now, totBytes, txSize, arrived>>
    BY <1>2 DEF StartApplication, StateChange, ConnectionFailedReport, Conclude,
       FlowSound, ReportSound, Typed, ClientTyped, NetworkTyped
  <2>4. totBytes[f] = 0 /\ txSize[f] = 0
    BY <2>3 DEF FlowSound, BytesSound, Typed, ClientTyped, NetworkTyped
  <2>5. BytesSound(f)'
    BY <2>3, <2>4 DEF FlowSound, BytesSound
  <2>6. ReportSound(f)' /\ LogsSound(f)'
    BY <2>3, <2>4 DEF ReportSound, LogsSound, Ended, Typed, NetworkTyped
  <2> QED BY <2>1, <2>2, <2>5, <2>6 DEF Moves, FlowSound
<1> QED BY <1>1, <1>2 DEF StartApplication

LEMMA ConnectionSucceededSound ==
  ASSUME Typed, NEW f \in Flow, FlowSound(f), ConnectionSucceeded(f)
  PROVE  Moves(f)
<1>1. /\ sock[f] = "SYN_SENT" /\ StateChange(f, "ESTABLISHED") /\ SendData(f, "ESTABLISHED")
      /\ UNCHANGED <<now, aborted, started, hasSocket, arrived, child>>
      /\ UNCHANGED <<completionTime, connFailed, closedNormally, closedByError>>
      /\ UNCHANGED <<ackedBytes, isCompleted, progress>>
  BY DEF ConnectionSucceeded, report
<1>2. Sends(f)
  BY <1>1, SendDataEffect DEF FlowSound
<1>3. Typed'
  <2>1. ClientTyped'
    <3>1. stateAt' \in [Flow -> -1 .. MaxTime]
      BY <1>1, FlowAssumption DEF StateChange, Typed, ClientTyped, NetworkTyped
    <3>2. UNCHANGED <<started, hasSocket, connFailed, closedNormally, closedByError, isCompleted>>
      BY <1>1
    <3>3. UNCHANGED <<ackedBytes, completionTime, progress>>
      BY <1>1
    <3>4. totBytes' \in [Flow -> Nat] /\ connected' \in [Flow -> BOOLEAN]
      BY <1>2 DEF Sends
    <3> QED BY <3>1, <3>2, <3>3, <3>4 DEF Typed, ClientTyped
  <2>2. NetworkTyped'
    BY <1>1, <1>2 DEF Sends, StateChange, Typed, ClientTyped, NetworkTyped, SockState
  <2> QED BY <2>1, <2>2 DEF Typed
<1>4. \A g \in Flow \ {f} : Unmoved(g)
  BY <1>1, <1>2 DEF Sends, StateChange, Unmoved, Typed, ClientTyped, NetworkTyped
<1>5. BytesSound(f)' /\ ReportSound(f)' /\ LogsSound(f)'
  BY <1>1, <1>2 DEF Sends, StateChange, FlowSound, BytesSound, ReportSound, LogsSound, Ended,
     Typed, ClientTyped, NetworkTyped
<1> QED BY <1>3, <1>4, <1>5 DEF Moves, FlowSound

LEMMA ConnectionFailedSound ==
  ASSUME Typed, NEW f \in Flow, FlowSound(f), ConnectionFailed(f)
  PROVE  Moves(f)
BY FlowAssumption DEF ConnectionFailed, StateChange, ConnectionFailedReport, Conclude, Moves, Unmoved, Typed, ClientTyped,
   NetworkTyped, FlowSound, BytesSound, ReportSound, LogsSound, Ended, SockState, ChildState

LEMMA DataSendSound ==
  ASSUME Typed, NEW f \in Flow, FlowSound(f), DataSend(f)
  PROVE  Moves(f)
<1>1. /\ sock[f] \in {"ESTABLISHED", "FIN_WAIT"} /\ SendData(f, sock[f])
      /\ UNCHANGED <<now, aborted, started, hasSocket, stateAt, sock, arrived, child>>
      /\ UNCHANGED <<completionTime, connFailed, closedNormally, closedByError>>
      /\ UNCHANGED <<ackedBytes, isCompleted, progress>>
  BY DEF DataSend, report
<1>2. Sends(f)
  BY <1>1, SendDataEffect DEF FlowSound
<1>3. Typed'
  BY <1>1, <1>2 DEF Sends, Typed, ClientTyped, NetworkTyped
<1>4. \A g \in Flow \ {f} : Unmoved(g)
  BY <1>1, <1>2 DEF Sends, Unmoved
<1>5. BytesSound(f)' /\ ReportSound(f)' /\ LogsSound(f)'
  BY <1>1, <1>2 DEF Sends, FlowSound, BytesSound, ReportSound, LogsSound, Ended,
     Typed, ClientTyped, NetworkTyped
<1> QED BY <1>3, <1>4, <1>5 DEF Moves, FlowSound

LEMMA AcknowledgeSound ==
  ASSUME Typed, NEW f \in Flow, FlowSound(f), Acknowledge(f)
  PROVE  Moves(f)
<1>1. /\ sock[f] \in {"ESTABLISHED", "FIN_WAIT"}
      /\ UNCHANGED <<now, aborted, started, hasSocket, connected, stateAt, sock, totBytes>>
      /\ UNCHANGED <<closeRequested, arrived, child>>
      /\ UNCHANGED <<completionTime, connFailed, closedNormally, closedByError>>
      /\ UNCHANGED <<ackedBytes, isCompleted>>
      /\ progress' = [progress EXCEPT ![f] = [at |-> now, is |-> GetAckedBytes(f)']]
  BY DEF Acknowledge, TxBufferUnackSequenceChange, report
<1>2. ~Ended(f) /\ ~Ended(f)' /\ GetAckedBytes(f) = totBytes[f] - txSize[f]
                /\ GetAckedBytes(f)' = totBytes[f] - txSize'[f]
  BY <1>1 DEF FlowSound, ReportSound, GetAckedBytes, Ended
<1>3. PICK n \in 1 .. arrived[f] - (totBytes[f] - txSize[f]) :
        txSize' = [txSize EXCEPT ![f] = @ - n]
  BY <1>2 DEF Acknowledge
<1>4. /\ totBytes[f] \in Nat /\ arrived[f] \in Nat /\ txSize[f] \in 0 .. BufferCap
      /\ BufferCap \in Nat /\ arrived[f] <= totBytes[f]
      /\ 0 <= totBytes[f] - txSize[f]
  BY FlowAssumption DEF FlowSound, BytesSound, Typed, ClientTyped, NetworkTyped
<1>5. /\ txSize[f] - n \in 0 .. BufferCap
      /\ 0 <= totBytes[f] - (txSize[f] - n) /\ totBytes[f] - (txSize[f] - n) <= arrived[f]
      /\ totBytes[f] - (txSize[f] - n) \in Nat
  BY <1>4
<1>6. txSize'[f] = txSize[f] - n /\ txSize' \in [Flow -> 0 .. BufferCap]
  BY <1>3, <1>5 DEF Typed, NetworkTyped
<1>7. progress'[f] = [at |-> now, is |-> totBytes[f] - txSize'[f]]
      /\ progress' \in [Flow -> [at : -1 .. MaxTime, is : Nat]]
  BY <1>1, <1>2, <1>5, <1>6 DEF Typed, ClientTyped, NetworkTyped
<1>8. Typed'
  BY <1>1, <1>6, <1>7 DEF Typed, ClientTyped, NetworkTyped
<1>9. \A g \in Flow \ {f} : Unmoved(g)
  BY <1>1, <1>3 DEF Unmoved, Typed, ClientTyped, NetworkTyped
<1>10. BytesSound(f)' /\ ReportSound(f)' /\ LogsSound(f)'
  BY <1>1, <1>2, <1>5, <1>6, <1>7 DEF FlowSound, BytesSound, ReportSound, LogsSound, Ended,
     Typed, NetworkTyped
<1> QED BY <1>8, <1>9, <1>10 DEF Moves, FlowSound

LEMMA SendFinSound ==
  ASSUME Typed, NEW f \in Flow, FlowSound(f), SendFin(f)
  PROVE  Moves(f)
BY FlowAssumption DEF SendFin, StateChange, report, Moves, Unmoved, Typed, ClientTyped,
   NetworkTyped, FlowSound, BytesSound, ReportSound, LogsSound, Ended, SockState, ChildState

LEMMA CloseFromOutsideSound ==
  ASSUME Typed, NEW f \in Flow, FlowSound(f), CloseFromOutside(f)
  PROVE  Moves(f)
BY FlowAssumption DEF CloseFromOutside, client, Moves, Unmoved, Typed, ClientTyped,
   NetworkTyped, FlowSound, BytesSound, ReportSound, LogsSound, Ended, SockState, ChildState

LEMMA CloseHandshakeSound ==
  ASSUME Typed, NEW f \in Flow, FlowSound(f), CloseHandshake(f)
  PROVE  Moves(f)
BY FlowAssumption DEF CloseHandshake, StateChange, SocketClosedNormal, Conclude, Moves, Unmoved, Typed, ClientTyped,
   NetworkTyped, FlowSound, BytesSound, ReportSound, LogsSound, Ended, SockState, ChildState

LEMMA ResetSound ==
  ASSUME Typed, NEW f \in Flow, FlowSound(f), Reset(f)
  PROVE  Moves(f)
BY FlowAssumption DEF Reset, StateChange, SocketClosedNormal, Conclude, Moves, Unmoved, Typed, ClientTyped,
   NetworkTyped, FlowSound, BytesSound, ReportSound, LogsSound, Ended, SockState, ChildState

LEMMA RetriesExhaustedSound ==
  ASSUME Typed, NEW f \in Flow, FlowSound(f), RetriesExhausted(f)
  PROVE  Moves(f)
BY FlowAssumption DEF RetriesExhausted, StateChange, SocketClosedError, Conclude, Moves, Unmoved, Typed, ClientTyped,
   NetworkTyped, FlowSound, BytesSound, ReportSound, LogsSound, Ended, SockState, ChildState

LEMMA TimeWaitOverSound ==
  ASSUME Typed, NEW f \in Flow, FlowSound(f), TimeWaitOver(f)
  PROVE  Moves(f)
BY FlowAssumption DEF TimeWaitOver, StateChange, report, Moves, Unmoved, Typed, ClientTyped,
   NetworkTyped, FlowSound, BytesSound, ReportSound, LogsSound, Ended, SockState, ChildState

LEMMA HandleAcceptSound ==
  ASSUME Typed, NEW f \in Flow, FlowSound(f), HandleAccept(f)
  PROVE  Moves(f)
BY FlowAssumption DEF HandleAccept, client, Moves, Unmoved, Typed, ClientTyped,
   NetworkTyped, FlowSound, BytesSound, ReportSound, LogsSound, Ended, SockState, ChildState

LEMMA DeliverSound ==
  ASSUME Typed, NEW f \in Flow, FlowSound(f), Deliver(f)
  PROVE  Moves(f)
BY FlowAssumption DEF Deliver, client, Moves, Unmoved, Typed, ClientTyped,
   NetworkTyped, FlowSound, BytesSound, ReportSound, LogsSound, Ended, SockState, ChildState

LEMMA HandlePeerCloseSound ==
  ASSUME Typed, NEW f \in Flow, FlowSound(f), HandlePeerClose(f)
  PROVE  Moves(f)
BY FlowAssumption DEF HandlePeerClose, client, Moves, Unmoved, Typed, ClientTyped,
   NetworkTyped, FlowSound, BytesSound, ReportSound, LogsSound, Ended, SockState, ChildState

LEMMA HandlePeerErrorSound ==
  ASSUME Typed, NEW f \in Flow, FlowSound(f), HandlePeerError(f)
  PROVE  Moves(f)
BY FlowAssumption DEF HandlePeerError, client, Moves, Unmoved, Typed, ClientTyped,
   NetworkTyped, FlowSound, BytesSound, ReportSound, LogsSound, Ended, SockState, ChildState

LEMMA LastAckReceivedSound ==
  ASSUME Typed, NEW f \in Flow, FlowSound(f), LastAckReceived(f)
  PROVE  Moves(f)
BY FlowAssumption DEF LastAckReceived, client, Moves, Unmoved, Typed, ClientTyped,
   NetworkTyped, FlowSound, BytesSound, ReportSound, LogsSound, Ended, SockState, ChildState

-----------------------------------------------------------------------------
(* The server's list.                                                      *)

ListSound ==
  /\ socketList \in Seq(Flow) /\ IsInjective(socketList)
  /\ ToSet(socketList) = {f \in Flow : child[f] = "open"}

(* Erasing the first occurrence of something that occurs once leaves a list  *)
(* of all the others; erasing what does not occur leaves the list.           *)
LEMMA RemoveFirstLists ==
  ASSUME NEW S, NEW s \in Seq(S), NEW e, NEW r, r = RemoveFirst(s, e), IsInjective(s)
  PROVE  r \in Seq(S) /\ IsInjective(r) /\ ToSet(r) = ToSet(s) \ {e}
<1>0. DOMAIN s = 1 .. Len(s) /\ Len(s) \in Nat
  OBVIOUS
<1>3. \A i, j \in DOMAIN s : s[i] = s[j] => i = j
  BY DEF IsInjective
<1>1. CASE \A i \in 1 .. Len(s) : s[i] # e
  <2>1. r = s
    BY <1>1 DEF RemoveFirst
  <2> QED BY <1>0, <1>1, <2>1 DEF ToSet
<1>2. CASE \E i \in 1 .. Len(s) : s[i] = e
  <2> DEFINE I == {i \in 1 .. Len(s) : s[i] = e}
  <2>1. PICK k \in 1 .. Len(s) : s[k] = e
    BY <1>2
  <2>2. I = {k}
    BY <1>0, <1>3, <2>1
  <2>3. SelectInSeq(s, LAMBDA v : v = e) = Min(I)
    BY <2>2 DEF SelectInSeq
  <2>4. Min(I) = k
    BY <2>2 DEF Min
  <2>5. r = RemoveAt(s, k)
    BY <1>2, <2>3, <2>4 DEF RemoveFirst
  <2>6. r = SubSeq(s, 1, k - 1) \o SubSeq(s, k + 1, Len(s))
    BY <2>5 DEF RemoveAt
  <2> DEFINE a == SubSeq(s, 1, k - 1)
             b == SubSeq(s, k + 1, Len(s))
  <2>7. /\ a \in Seq(S) /\ Len(a) = k - 1
        /\ b \in Seq(S) /\ Len(b) = Len(s) - k
        /\ \A i \in 1 .. k - 1 : a[i] = s[i]
        /\ \A i \in 1 .. Len(s) - k : b[i] = s[i + k]
    <3>1. k \in Int /\ Len(s) \in Int /\ 1 <= k /\ k <= Len(s) /\ \A i \in 1 .. Len(s) : s[i] \in S
      BY <1>0, <2>1
    <3>2. /\ \A i \in 1 .. k - 1 : s[i] \in S
          /\ \A i \in k + 1 .. Len(s) : s[i] \in S
      BY <3>1
    <3>3. /\ a \in Seq(S) /\ Len(a) = IF 1 <= k - 1 THEN k - 1 - 1 + 1 ELSE 0
          /\ \A i \in 1 .. k - 1 - 1 + 1 : a[i] = s[1 + i - 1]
      BY <3>1, <3>2, SubSeqProperties
    <3>4. /\ b \in Seq(S)
          /\ Len(b) = IF k + 1 <= Len(s) THEN Len(s) - (k + 1) + 1 ELSE 0
          /\ \A i \in 1 .. Len(s) - (k + 1) + 1 : b[i] = s[k + 1 + i - 1]
      BY <3>1, <3>2, SubSeqProperties
    <3> HIDE DEF a, b
    <3>5. Len(a) = k - 1 /\ Len(b) = Len(s) - k
      BY <3>1, <3>3, <3>4
    <3>6. \A i \in 1 .. k - 1 : a[i] = s[i]
      BY <3>1, <3>3
    <3>7. \A i \in 1 .. Len(s) - k : b[i] = s[i + k]
      BY <3>1, <3>4
    <3> QED BY <3>3, <3>4, <3>5, <3>6, <3>7
  <2> HIDE DEF a, b
  <2>8. /\ r \in Seq(S) /\ DOMAIN r = 1 .. Len(s) - 1
        /\ \A i \in 1 .. Len(s) - 1 : r[i] = IF i < k THEN s[i] ELSE s[i + 1]
    <3>1. r = a \o b
      BY <2>6 DEF a, b
    <3>2. r \in Seq(S) /\ Len(r) = Len(s) - 1 /\ DOMAIN r = 1 .. Len(s) - 1
      <4>1. r \in Seq(S) /\ Len(r) = Len(a) + Len(b)
        <5>1. a \in Seq(S) /\ b \in Seq(S)
          BY <2>7
        <5>2. a \o b \in Seq(S) /\ Len(a \o b) = Len(a) + Len(b)
          BY <5>1
        <5> QED BY <3>1, <5>2
      <4>2. Len(r) = Len(s) - 1
        BY <1>0, <2>1, <2>7, <4>1
      <4> QED BY <4>1, <4>2
    <3>3. ASSUME NEW i \in 1 .. Len(s) - 1 PROVE r[i] = IF i < k THEN s[i] ELSE s[i + 1]
      <4>1. r[i] = IF i <= k - 1 THEN a[i] ELSE b[i - (k - 1)]
        BY <1>0, <2>1, <2>7, <3>1
      <4>2. CASE i < k
        BY <2>1, <2>7, <4>1, <4>2
      <4>3. CASE i >= k
        <5>1. i - (k - 1) \in 1 .. Len(s) - k /\ (i - (k - 1)) + k = i + 1
          BY <1>0, <2>1, <4>3
        <5> QED BY <2>1, <2>7, <4>1, <4>3, <5>1
      <4> QED BY <2>1, <4>2, <4>3
    <3> QED BY <3>2, <3>3
  <2>9. \A i, j \in DOMAIN r : r[i] = r[j] => i = j
    <3> SUFFICES ASSUME NEW i \in 1 .. Len(s) - 1, NEW j \in 1 .. Len(s) - 1, r[i] = r[j]
                 PROVE  i = j
      BY <2>8
    <3>1. /\ i \in DOMAIN s /\ i + 1 \in DOMAIN s
          /\ j \in DOMAIN s /\ j + 1 \in DOMAIN s
      BY <1>0
    <3>2. CASE i < k /\ j < k
      BY <1>3, <2>8, <3>1, <3>2
    <3>3. CASE i >= k /\ j >= k
      <4>1. i + 1 = j + 1
        BY <1>3, <2>8, <3>1, <3>3, <2>1
      <4> QED BY <4>1
    <3>4. CASE i < k /\ j >= k
      <4>1. i = j + 1
        BY <1>3, <2>8, <3>1, <3>4, <2>1
      <4> QED BY <3>4, <4>1, <2>1
    <3>5. CASE i >= k /\ j < k
      <4>1. i + 1 = j
        BY <1>3, <2>8, <3>1, <3>5, <2>1
      <4> QED BY <3>5, <4>1, <2>1
    <3> QED BY <2>1, <3>2, <3>3, <3>4, <3>5
  <2>10. ASSUME NEW i \in DOMAIN r PROVE \E j \in DOMAIN s : r[i] = s[j] /\ r[i] # e
    <3>1. CASE i < k
      BY <1>0, <1>3, <2>1, <2>8, <3>1
    <3>2. CASE i >= k
      <4>1. i + 1 \in DOMAIN s /\ i + 1 # k /\ r[i] = s[i + 1]
        BY <1>0, <2>1, <2>8, <3>2
      <4> QED BY <1>0, <1>3, <2>1, <4>1
    <3> QED BY <2>1, <2>8, <3>1, <3>2
  <2>11. ASSUME NEW j \in DOMAIN s, s[j] # e PROVE \E i \in DOMAIN r : r[i] = s[j]
    <3>1. CASE j < k
      <4>1. j \in DOMAIN r /\ r[j] = s[j]
        BY <1>0, <2>1, <2>8, <3>1
      <4> QED BY <4>1
    <3>2. CASE j > k
      <4>1. j - 1 \in 1 .. Len(s) - 1 /\ ~(j - 1 < k) /\ (j - 1) + 1 = j
        BY <1>0, <2>1, <3>2
      <4>2. r[j - 1] = s[j]
        BY <2>8, <4>1
      <4> QED BY <2>8, <4>1, <4>2
    <3> QED BY <1>0, <2>1, <2>11, <3>1, <3>2
  <2> QED BY <2>8, <2>9, <2>10, <2>11 DEF IsInjective, ToSet
<1> QED BY <1>0, <1>1, <1>2

ServerSound == ListSound /\ totalRx \in Nat

LEMMA CleanUpSound ==
  ASSUME Typed, ListSound, NEW f \in Flow, CleanUp(f), NEW state \in ChildState,
         state # "open", child' = [child EXCEPT ![f] = state]
  PROVE  ListSound'
<1>1. /\ socketList' \in Seq(Flow) /\ IsInjective(socketList')
      /\ ToSet(socketList') = ToSet(socketList) \ {f}
  BY RemoveFirstLists DEF ListSound, CleanUp
<1>2. {g \in Flow : child'[g] = "open"} = {g \in Flow : child[g] = "open"} \ {f}
  BY DEF Typed, NetworkTyped
<1> QED BY <1>1, <1>2 DEF ListSound

LEMMA HandleAcceptServer ==
  ASSUME Typed, ListSound, NEW f \in Flow, HandleAccept(f)
  PROVE  ListSound'
<1> DEFINE n == Len(socketList)
<1>1. /\ socketList \in Seq(Flow) /\ socketList' = Append(socketList, f)
      /\ child[f] = "none" /\ child' = [child EXCEPT ![f] = "open"]
      /\ IsInjective(socketList) /\ ToSet(socketList) = {g \in Flow : child[g] = "open"}
  BY DEF HandleAccept, ListSound
<1>2. /\ socketList' \in Seq(Flow) /\ n \in Nat /\ DOMAIN socketList = 1 .. n
      /\ DOMAIN socketList' = 1 .. n + 1 /\ socketList'[n + 1] = f
      /\ \A i \in 1 .. n : socketList'[i] = socketList[i]
  BY <1>1
<1>3. DOMAIN socketList' = DOMAIN socketList \cup {n + 1} /\ n + 1 \notin DOMAIN socketList
  BY <1>2
<1>4. \A i \in DOMAIN socketList : socketList[i] # f
  BY <1>1 DEF ToSet
<1>5. IsInjective(socketList')
  BY <1>1, <1>2, <1>3, <1>4 DEF IsInjective
<1>6. ToSet(socketList') = ToSet(socketList) \cup {f}
  BY <1>2, <1>3 DEF ToSet
<1>7. {g \in Flow : child'[g] = "open"} = {g \in Flow : child[g] = "open"} \cup {f}
  BY <1>1 DEF Typed, NetworkTyped
<1> QED BY <1>1, <1>2, <1>5, <1>6, <1>7 DEF ListSound

LEMMA ServerStep ==
  ASSUME Typed, ServerSound, NEW f \in Flow, FlowStep(f)
  PROVE  ServerSound'
<1>1. ASSUME UNCHANGED <<socketList, child>> PROVE ListSound'
  BY <1>1 DEF ServerSound, ListSound
<1>2. ASSUME UNCHANGED <<socketList, totalRx, child>> PROVE ServerSound'
  BY <1>1, <1>2 DEF ServerSound
<1>3. CASE \/ StartApplication(f) \/ ConnectionSucceeded(f) \/ ConnectionFailed(f)
           \/ DataSend(f) \/ Acknowledge(f) \/ SendFin(f) \/ CloseFromOutside(f)
  BY <1>2, <1>3 DEF StartApplication, ConnectionSucceeded, ConnectionFailed, DataSend,
     Acknowledge, SendFin, CloseFromOutside, server
<1>4. CASE CloseHandshake(f) \/ Reset(f) \/ RetriesExhausted(f) \/ TimeWaitOver(f)
  BY <1>2, <1>4 DEF CloseHandshake, Reset, RetriesExhausted, TimeWaitOver, server
<1>5. CASE HandleAccept(f)
  <2>1. ListSound' /\ totalRx' = totalRx
    BY <1>5, HandleAcceptServer DEF ServerSound, HandleAccept
  <2> QED BY <2>1 DEF ServerSound
<1>6. CASE Deliver(f)
  <2>1. UNCHANGED <<socketList, child>>
    BY <1>6 DEF Deliver
  <2>2. totalRx' \in Nat
    <3>1. PICK n \in 1 .. totBytes[f] - arrived[f] : HandleRead(f, n)
      BY <1>6 DEF Deliver
    <3>2. totBytes[f] \in Nat /\ arrived[f] \in Nat /\ totalRx \in Nat
      BY DEF Typed, ClientTyped, NetworkTyped, ServerSound
    <3> QED BY <3>1, <3>2 DEF HandleRead
  <2> QED BY <1>1, <2>1, <2>2 DEF ServerSound
<1>7. CASE HandlePeerClose(f)
  <2>1. CleanUp(f) /\ child' = [child EXCEPT ![f] = "lastack"] /\ totalRx' = totalRx
    BY <1>7 DEF HandlePeerClose
  <2>2. "lastack" \in ChildState /\ "lastack" # "open"
    BY DEF ChildState
  <2> QED BY <2>1, <2>2, CleanUpSound DEF ServerSound
<1>8. CASE HandlePeerError(f)
  <2> DEFINE state == IF child[f] = "open" THEN "dead" ELSE "done"
  <2>1. CleanUp(f) /\ child' = [child EXCEPT ![f] = state] /\ totalRx' = totalRx
    BY <1>8 DEF HandlePeerError
  <2>2. state \in ChildState /\ state # "open"
    BY DEF ChildState
  <2> HIDE DEF state
  <2> QED BY <2>1, <2>2, CleanUpSound DEF ServerSound
<1>9. CASE LastAckReceived(f)
  <2>1. /\ UNCHANGED <<socketList, totalRx>>
        /\ child[f] = "lastack" /\ child' = [child EXCEPT ![f] = "done"]
    BY <1>9 DEF LastAckReceived, server
  <2>2. {g \in Flow : child'[g] = "open"} = {g \in Flow : child[g] = "open"}
    BY <2>1 DEF Typed, NetworkTyped
  <2> QED BY <2>1, <2>2 DEF ServerSound, ListSound
<1> QED BY <1>3, <1>4, <1>5, <1>6, <1>7, <1>8, <1>9 DEF FlowStep

-----------------------------------------------------------------------------
(* The system.                                                             *)

IInv == FlowsSound /\ ServerSound

LEMMA FlowStepMoves ==
  ASSUME Typed, NEW f \in Flow, FlowSound(f), FlowStep(f)
  PROVE  Moves(f)
BY StartApplicationSound, ConnectionSucceededSound, ConnectionFailedSound, DataSendSound,
   AcknowledgeSound, SendFinSound, CloseFromOutsideSound, CloseHandshakeSound, ResetSound,
   RetriesExhaustedSound, TimeWaitOverSound, HandleAcceptSound, DeliverSound,
   HandlePeerCloseSound, HandlePeerErrorSound, LastAckReceivedSound DEF FlowStep

LEMMA UnmovedSound ==
  ASSUME Typed, NEW g \in Flow, FlowSound(g), Unmoved(g), now' \in Nat, now <= now'
  PROVE  FlowSound(g)'
<1>1. BytesSound(g)'
  BY DEF FlowSound, BytesSound, Unmoved
<1>2. ReportSound(g)'
  BY DEF FlowSound, ReportSound, Unmoved, Ended
<1>3. /\ progress'[g] = progress[g] /\ progress[g].at \in Int
      /\ stateAt'[g] = stateAt[g] /\ stateAt[g] \in Int /\ now \in Int
  BY DEF Unmoved, Typed, ClientTyped, NetworkTyped
<1>4. LogsSound(g)'
  BY <1>3 DEF FlowSound, LogsSound, Unmoved, Ended
<1> QED BY <1>1, <1>2, <1>4 DEF FlowSound

LEMMA FlowStepClock ==
  ASSUME NEW f \in Flow, FlowStep(f)
  PROVE  now' = now
BY DEF FlowStep, StartApplication, ConnectionSucceeded, ConnectionFailed, DataSend, Acknowledge,
   SendFin, CloseFromOutside, CloseHandshake, Reset, RetriesExhausted, TimeWaitOver,
   HandleAccept, Deliver, HandlePeerClose, HandlePeerError, LastAckReceived

LEMMA InvNext == IInv /\ [Next]_vars => IInv'
<1> SUFFICES ASSUME IInv, [Next]_vars PROVE IInv'
  OBVIOUS
<1>0. Typed /\ ServerSound /\ now \in Nat /\ \A f \in Flow : FlowSound(f)
  BY DEF IInv, FlowsSound, Typed, NetworkTyped
<1>1. ASSUME NEW f \in Flow, FlowStep(f) PROVE IInv'
  <2>1. Moves(f) /\ now' = now /\ ServerSound'
    BY <1>0, <1>1, FlowStepMoves, FlowStepClock, ServerStep
  <2>2. \A g \in Flow : FlowSound(g)'
    BY <1>0, <2>1, UnmovedSound DEF Moves
  <2> QED BY <2>1, <2>2 DEF IInv, FlowsSound, Moves
<1>2. ASSUME UNCHANGED <<client, aborted, server, network>>, now' \in 0 .. MaxTime, now <= now'
      PROVE  IInv'
  <2>1. Typed'
    BY <1>0, <1>2 DEF Typed, ClientTyped, NetworkTyped, client, network
  <2>2. \A g \in Flow : Unmoved(g)
    BY <1>2 DEF client, network, Unmoved
  <2>3. \A g \in Flow : FlowSound(g)'
    BY <1>0, <1>2, <2>2, UnmovedSound
  <2>4. ServerSound'
    BY <1>0, <1>2 DEF server, network, ServerSound, ListSound
  <2> QED BY <2>1, <2>3, <2>4 DEF IInv, FlowsSound
<1>3. CASE Tick
  <2>1. now' \in 0 .. MaxTime /\ now <= now'
    BY <1>0, <1>3, FlowAssumption DEF Tick, Typed, NetworkTyped
  <2> QED BY <1>2, <1>3, <2>1 DEF Tick
<1>4. CASE UNCHANGED vars
  BY <1>0, <1>2, <1>4 DEF vars, Typed, NetworkTyped
<1> QED BY <1>1, <1>3, <1>4 DEF Next

LEMMA InvInit == Init => IInv
<1> SUFFICES ASSUME Init PROVE IInv
  OBVIOUS
<1>1. 0 \in 0 .. MaxTime /\ -1 \in -1 .. MaxTime /\ 0 \in 0 .. BufferCap
  BY FlowAssumption
<1>2. ClientTyped
  <2>1. /\ started \in [Flow -> BOOLEAN] /\ hasSocket \in [Flow -> BOOLEAN]
        /\ connected \in [Flow -> BOOLEAN] /\ connFailed \in [Flow -> BOOLEAN]
        /\ closedNormally \in [Flow -> BOOLEAN] /\ closedByError \in [Flow -> BOOLEAN]
        /\ isCompleted \in [Flow -> BOOLEAN]
    BY DEF Init
  <2>2. totBytes \in [Flow -> Nat] /\ ackedBytes \in [Flow -> Nat]
    BY DEF Init
  <2>3. completionTime \in [Flow -> -1 .. MaxTime] /\ stateAt \in [Flow -> -1 .. MaxTime]
    BY <1>1 DEF Init
  <2>4. progress \in [Flow -> [at : -1 .. MaxTime, is : Nat]]
    BY <1>1 DEF Init
  <2> QED BY <2>1, <2>2, <2>3, <2>4 DEF ClientTyped
<1>3. NetworkTyped
  BY <1>1 DEF Init, NetworkTyped, SockState, ChildState
<1>4. ASSUME NEW f \in Flow PROVE FlowSound(f)
  <2>1. /\ totBytes[f] = 0 /\ txSize[f] = 0 /\ arrived[f] = 0 /\ sock[f] = "none"
        /\ started[f] = FALSE /\ connFailed[f] = FALSE /\ closedNormally[f] = FALSE
        /\ closedByError[f] = FALSE /\ isCompleted[f] = FALSE
        /\ progress[f].at = -1 /\ stateAt[f] = -1 /\ now = 0
    BY DEF Init
  <2>2. BytesSound(f)
    BY <2>1, FlowAssumption DEF BytesSound
  <2> QED BY <2>1, <2>2 DEF FlowSound, ReportSound, LogsSound, Ended
<1>5. ServerSound
  <2>1. socketList = <<>> /\ totalRx = 0 /\ {f \in Flow : child[f] = "open"} = {}
    BY DEF Init
  <2> QED BY <2>1 DEF ServerSound, ListSound, IsInjective, ToSet
<1> QED BY <1>2, <1>3, <1>4, <1>5 DEF IInv, FlowsSound, Typed

LEMMA InvAlways == Spec => []IInv
BY InvInit, InvNext, PTL DEF Spec

(* GetAckedBytes is one expression, before and after the flow ended.         *)
LEMMA AckedIsSentLessBuffered ==
  ASSUME IInv, NEW f \in Flow
  PROVE  GetAckedBytes(f) = totBytes[f] - txSize[f]
BY DEF IInv, FlowsSound, FlowSound, ReportSound, GetAckedBytes

-----------------------------------------------------------------------------
(* Sums over the connections.                                              *)

LEMMA SumOfAll ==
  ASSUME NEW D, IsFiniteSet(D), NEW S, NEW f \in [D -> S]
  PROVE  \E sum : SumSolves(sum, f, SUBSET D) /\ SumFunction(f) = sum[D]
<1>1. SumFunction(f) = SumFunctionOnSet(f, D)
  BY DEF SumFunction
<1> QED BY <1>1, SumIs

(* The parts of two functions that differ in one value by n differ by n when *)
(* they have that value, and not otherwise.                                  *)
Differ(D, f, h, d, n, sum, new) ==
  /\ IsFiniteSet(D) /\ f \in [D -> Nat] /\ h \in [D -> Nat] /\ n \in Nat
  /\ \A x \in D : h[x] = IF x = d THEN f[x] + n ELSE f[x]
  /\ SumSolves(sum, f, SUBSET D) /\ SumSolves(new, h, SUBSET D)

LEMMA PartsDiffer ==
  ASSUME NEW D, NEW f, NEW h, NEW n, NEW d, NEW sum, NEW new, Differ(D, f, h, d, n, sum, new)
  PROVE  \A s \in SUBSET D : sum[s] \in Nat /\ new[s] = IF d \in s THEN sum[s] + n ELSE sum[s]
<1> USE DEF Differ
<1> DEFINE Good(s) == sum[s] \in Nat /\ new[s] = IF d \in s THEN sum[s] + n ELSE sum[s]
           Bad == {k \in Nat : \E s \in SUBSET D : Cardinality(s) = k /\ ~Good(s)}
<1>1. \A s \in SUBSET D : IsFiniteSet(s) /\ Cardinality(s) \in Nat
  BY FS_Subset, FS_CardinalityType
<1>2. \A s \in SUBSET D :
        /\ sum[s] = IF s = {} THEN 0 ELSE f[AnyOf(s)] + sum[s \ {AnyOf(s)}]
        /\ new[s] = IF s = {} THEN 0 ELSE h[AnyOf(s)] + new[s \ {AnyOf(s)}]
  BY DEF SumSolves
<1>3. Bad = {}
  <2>1. SUFFICES ASSUME Bad # {} PROVE FALSE
    OBVIOUS
  <2>2. PICK b \in Bad : \A m \in Bad : b <= m
    <3>1. Bad \in SUBSET Nat
      OBVIOUS
    <3> HIDE DEF Bad
    <3> QED BY <2>1, <3>1, SmallestExists
  <2>3. PICK s \in SUBSET D : Cardinality(s) = b /\ ~Good(s)
    BY <2>2
  <2>4. s # {}
    <3>1. ASSUME s = {} PROVE Good(s)
      <4>1. sum[s] = 0 /\ new[s] = 0
        BY <1>2, <3>1
      <4> QED BY <3>1, <4>1
    <3> HIDE DEF Good
    <3> QED BY <2>3, <3>1
  <2> DEFINE r == s \ {AnyOf(s)}
  <2>5. /\ AnyOf(s) \in s /\ AnyOf(s) \in D /\ r \in SUBSET D
        /\ Cardinality(r) = Cardinality(s) - 1 /\ Cardinality(r) \in Nat
    BY <1>1, <2>4, AnyOfLeaves
  <2>6. Cardinality(r) \notin Bad
    <3>1. b = Cardinality(s)
      BY <2>3
    <3> HIDE DEF Bad, r, Good
    <3> QED BY <1>1, <2>2, <2>5, <3>1
  <2>7. Good(r)
    BY <2>5, <2>6
  <2>8. sum[s] = f[AnyOf(s)] + sum[r] /\ new[s] = h[AnyOf(s)] + new[r]
    BY <1>2, <2>4
  <2>9. h[AnyOf(s)] = IF AnyOf(s) = d THEN f[AnyOf(s)] + n ELSE f[AnyOf(s)]
    BY <2>5
  <2>10. f[AnyOf(s)] \in Nat /\ h[AnyOf(s)] \in Nat
    BY <2>5
  <2>11. d \in s <=> (d \in r \/ AnyOf(s) = d)
    BY <2>5
  <2>12. AnyOf(s) \notin r
    OBVIOUS
  <2> HIDE DEF r, Bad
  <2>13. Good(s)
    <3>1. CASE AnyOf(s) = d
      BY <2>7, <2>8, <2>9, <2>10, <2>11, <2>12, <3>1
    <3>2. CASE AnyOf(s) # d
      BY <2>7, <2>8, <2>9, <2>10, <2>11, <3>2
    <3> QED BY <3>1, <3>2
  <2> QED BY <2>3, <2>13
<1> QED BY <1>1, <1>3

(* Adding to one value adds to the sum.                                      *)
LEMMA SumGrows ==
  ASSUME NEW D, IsFiniteSet(D), NEW f \in [D -> Nat], NEW d \in D, NEW n \in Nat
  PROVE  SumFunction(f) \in Nat /\ SumFunction([f EXCEPT ![d] = @ + n]) = SumFunction(f) + n
<1> DEFINE h == [f EXCEPT ![d] = @ + n]
<1>1. h \in [D -> Nat] /\ \A x \in D : h[x] = IF x = d THEN f[x] + n ELSE f[x]
  OBVIOUS
<1> HIDE DEF h
<1>2. PICK sum : SumSolves(sum, f, SUBSET D) /\ SumFunction(f) = sum[D]
  BY SumOfAll
<1>3. PICK new : SumSolves(new, h, SUBSET D) /\ SumFunction(h) = new[D]
  BY <1>1, SumOfAll
<1>4. \A s \in SUBSET D : sum[s] \in Nat /\ new[s] = IF d \in s THEN sum[s] + n ELSE sum[s]
  <2>1. h \in [D -> Nat]
    BY <1>1
  <2>2. \A x \in D : h[x] = IF x = d THEN f[x] + n ELSE f[x]
    BY <1>1
  <2>3. SumSolves(sum, f, SUBSET D)
    BY <1>2
  <2>4. SumSolves(new, h, SUBSET D)
    BY <1>3
  <2>5. Differ(D, f, h, d, n, sum, new)
    BY <2>1, <2>2, <2>3, <2>4 DEF Differ
  <2> QED BY <2>5, PartsDiffer
<1>5. D \in SUBSET D
  OBVIOUS
<1> QED BY <1>2, <1>3, <1>4, <1>5 DEF h

(* Nothing adds up to nothing.                                               *)
LEMMA SumOfZeros ==
  ASSUME NEW D, IsFiniteSet(D), NEW f \in [D -> Nat], \A x \in D : f[x] = 0
  PROVE  SumFunction(f) = 0
<1>1. PICK sum : SumSolves(sum, f, SUBSET D) /\ SumFunction(f) = sum[D]
  BY SumOfAll
<1> DEFINE Bad == {k \in Nat : \E s \in SUBSET D : Cardinality(s) = k /\ sum[s] # 0}
<1>2. \A s \in SUBSET D : IsFiniteSet(s) /\ Cardinality(s) \in Nat
  BY FS_Subset, FS_CardinalityType
<1>3. \A s \in SUBSET D : sum[s] = IF s = {} THEN 0 ELSE f[AnyOf(s)] + sum[s \ {AnyOf(s)}]
  BY <1>1 DEF SumSolves
<1>4. Bad = {}
  <2>1. SUFFICES ASSUME Bad # {} PROVE FALSE
    OBVIOUS
  <2>2. PICK b \in Bad : \A m \in Bad : b <= m
    <3>1. Bad \in SUBSET Nat
      OBVIOUS
    <3> HIDE DEF Bad
    <3> QED BY <2>1, <3>1, SmallestExists
  <2>3. PICK s \in SUBSET D : Cardinality(s) = b /\ sum[s] # 0
    BY <2>2
  <2>4. s # {}
    <3>1. s = {} => sum[s] = 0
      BY <1>3
    <3> QED BY <2>3, <3>1
  <2> DEFINE r == s \ {AnyOf(s)}
  <2>5. /\ AnyOf(s) \in D /\ r \in SUBSET D
        /\ Cardinality(r) = Cardinality(s) - 1 /\ Cardinality(r) \in Nat
    BY <1>2, <2>4, AnyOfLeaves
  <2>6. Cardinality(r) \notin Bad
    <3>1. b = Cardinality(s)
      BY <2>3
    <3> HIDE DEF Bad, r
    <3> QED BY <1>2, <2>2, <2>5, <3>1
  <2>7. sum[r] = 0
    BY <2>5, <2>6
  <2>8. sum[s] = f[AnyOf(s)] + sum[r]
    BY <1>3, <2>4
  <2>9. f[AnyOf(s)] = 0
    BY <2>5
  <2> HIDE DEF r, Bad
  <2> QED BY <2>3, <2>7, <2>8, <2>9
<1>5. sum[D] = 0
  BY <1>2, <1>4
<1> QED BY <1>1, <1>5

-----------------------------------------------------------------------------
(* The server's total.                                                     *)

Counted == totalRx \in Nat /\ totalRx = SumFunction(arrived)

(* HandleRead adds to the total what Deliver adds to one connection, and     *)
(* nothing else touches either (tcp-flow-server.cc, HandleRead).             *)
LEMMA FlowStepCounts ==
  ASSUME Typed, Counted, IsFiniteSet(Flow), NEW f \in Flow, FlowStep(f)
  PROVE  Counted'
<1>1. CASE UNCHANGED <<totalRx, arrived>>
  BY <1>1 DEF Counted
<1>2. CASE Deliver(f)
  <2>1. PICK n \in 1 .. totBytes[f] - arrived[f] :
          arrived' = [arrived EXCEPT ![f] = @ + n] /\ totalRx' = totalRx + n
    BY <1>2 DEF Deliver, HandleRead
  <2>2. arrived \in [Flow -> Nat] /\ n \in Nat
    BY DEF Typed, NetworkTyped
  <2>3. SumFunction([arrived EXCEPT ![f] = @ + n]) = SumFunction(arrived) + n
    BY <2>2, SumGrows
  <2> QED BY <2>1, <2>2, <2>3 DEF Counted
<1>3. CASE StartApplication(f) \/ ConnectionSucceeded(f) \/ ConnectionFailed(f) \/ DataSend(f)
  BY <1>1, <1>3 DEF StartApplication, ConnectionSucceeded, ConnectionFailed, DataSend, server
<1>4. CASE Acknowledge(f) \/ SendFin(f) \/ CloseFromOutside(f) \/ CloseHandshake(f)
  BY <1>1, <1>4 DEF Acknowledge, SendFin, CloseFromOutside, CloseHandshake, server
<1>5. CASE Reset(f) \/ RetriesExhausted(f) \/ TimeWaitOver(f)
  BY <1>1, <1>5 DEF Reset, RetriesExhausted, TimeWaitOver, server
<1>6. CASE HandleAccept(f) \/ HandlePeerClose(f) \/ HandlePeerError(f) \/ LastAckReceived(f)
  BY <1>1, <1>6 DEF HandleAccept, HandlePeerClose, HandlePeerError, LastAckReceived, server
<1> QED BY <1>2, <1>3, <1>4, <1>5, <1>6 DEF FlowStep

-----------------------------------------------------------------------------
(* The theorems.                                                           *)

(* Every variable keeps its type: no client counts more bytes than its flow  *)
(* has, no send buffer overflows, and the server lists flows only.           *)
THEOREM TypeCorrect == Spec => []TypeOK
<1>1. IInv => TypeOK
  BY DEF IInv, FlowsSound, FlowSound, BytesSound, Typed, ClientTyped, NetworkTyped,
     ServerSound, ListSound, TypeOK
<1> QED BY <1>1, InvAlways, PTL

(* A flow that SocketClosedNormal reports as completed was closed normally   *)
(* and all of its bytes are at the server, for any size, step and buffer.    *)
THEOREM CompletedDelivered == Spec => []CompletedIsDelivered
<1>1. IInv => CompletedIsDelivered
  <2> SUFFICES ASSUME IInv, NEW f \in Flow, isCompleted[f]
               PROVE  /\ closedNormally[f] /\ ~connFailed[f] /\ ~closedByError[f]
                      /\ ackedBytes[f] = FlowSize[f] /\ arrived[f] = FlowSize[f]
    BY DEF CompletedIsDelivered
  <2>1. BytesSound(f) /\ ReportSound(f) /\ Typed
    BY DEF IInv, FlowsSound, FlowSound
  <2>2. /\ closedNormally[f] /\ ~connFailed[f] /\ ~closedByError[f]
        /\ ackedBytes[f] = FlowSize[f] /\ ackedBytes[f] = totBytes[f] - txSize[f]
    BY <2>1 DEF ReportSound, Ended
  <2>3. arrived[f] = FlowSize[f]
    BY <2>1, <2>2, FlowAssumption DEF BytesSound, Typed, ClientTyped, NetworkTyped
  <2> QED BY <2>2, <2>3
<1> QED BY <1>1, InvAlways, PTL

(* The two ends agree on the bytes of each flow, and the server's total is   *)
(* the sum over its connections (SendData, GetAckedBytes, HandleRead).       *)
THEOREM BytesAgree ==
  ASSUME IsFiniteSet(Flow)
  PROVE  Spec => []BytesConserved
<1>1. Init => Counted
  <2> SUFFICES ASSUME Init PROVE Counted
    OBVIOUS
  <2>1. arrived \in [Flow -> Nat] /\ \A f \in Flow : arrived[f] = 0
    BY DEF Init
  <2>2. SumFunction(arrived) = 0
    BY <2>1, SumOfZeros
  <2> QED BY <2>2 DEF Init, Counted
<1>2. IInv /\ Counted /\ [Next]_vars => Counted'
  <2>1. Tick \/ UNCHANGED vars => UNCHANGED <<totalRx, arrived>>
    BY DEF Tick, vars, server, network
  <2>2. UNCHANGED <<totalRx, arrived>> /\ Counted => Counted'
    BY DEF Counted
  <2> QED BY <2>1, <2>2, FlowStepCounts DEF IInv, FlowsSound, Next
<1>3. IInv /\ Counted => BytesConserved
  <2> SUFFICES ASSUME IInv, Counted, NEW f \in Flow
               PROVE  /\ 0 <= GetAckedBytes(f) /\ GetAckedBytes(f) <= arrived[f]
                      /\ arrived[f] <= totBytes[f]
    BY DEF BytesConserved, Counted
  <2> QED BY AckedIsSentLessBuffered DEF IInv, FlowsSound, FlowSound, BytesSound
<1> QED BY <1>1, <1>2, <1>3, InvAlways, PTL DEF Spec

(* The progress log always ends with the amount the report would state,      *)
(* whichever callback wrote it last and however the flow ended.              *)
THEOREM ProgressReported == Spec => []ProgressMatchesAcked
<1>1. IInv => ProgressMatchesAcked
  BY AckedIsSentLessBuffered
     DEF IInv, FlowsSound, FlowSound, LogsSound, ProgressMatchesAcked
<1> QED BY <1>1, InvAlways, PTL

(* FinalizeDetailedLogs closes no log before its last update, though a       *)
(* socket outlives its flow's report by TIME_WAIT.                           *)
THEOREM LogsFinalizable == Spec => []DetailedLogsFinalizable
<1>1. IInv => DetailedLogsFinalizable
  BY DEF IInv, FlowsSound, FlowSound, LogsSound, DetailedLogsFinalizable, FinalizeTimes
<1> QED BY <1>1, InvAlways, PTL

(* The server's list of sockets is exactly its open connections, once each,  *)
(* also when CleanUp runs again for a connection that is gone.               *)
THEOREM ListExact == Spec => []ListedIffOpen
<1>1. IInv => ListedIffOpen
  BY DEF IInv, ServerSound, ListSound, ListedIffOpen
<1> QED BY <1>1, InvAlways, PTL

LEMMA FlowStepAcks ==
  ASSUME Typed, NEW f \in Flow, FlowSound(f), FlowStep(f)
  PROVE  totBytes'[f] - txSize'[f] >= totBytes[f] - txSize[f]
<1>0. totBytes[f] \in Int /\ txSize[f] \in Int
  BY FlowAssumption DEF Typed, ClientTyped, NetworkTyped
<1>1. CASE ConnectionSucceeded(f) \/ DataSend(f)
  <2>1. Sends(f)
    BY <1>1, SendDataEffect DEF ConnectionSucceeded, DataSend, FlowSound
  <2> QED BY <1>0, <2>1 DEF Sends
<1>2. CASE Acknowledge(f)
  <2>1. PICK n \in 1 .. arrived[f] - GetAckedBytes(f) : txSize' = [txSize EXCEPT ![f] = @ - n]
    BY <1>2 DEF Acknowledge
  <2>2. txSize'[f] = txSize[f] - n /\ totBytes'[f] = totBytes[f]
    BY <1>2, <2>1 DEF Acknowledge, Typed, NetworkTyped
  <2>3. n \in Nat
    OBVIOUS
  <2> QED BY <1>0, <2>2, <2>3
<1>3. CASE UNCHANGED <<totBytes, txSize>>
  BY <1>0, <1>3
<1>4. CASE StartApplication(f) \/ ConnectionFailed(f) \/ SendFin(f) \/ CloseFromOutside(f)
  BY <1>3, <1>4 DEF StartApplication, ConnectionFailed, SendFin, CloseFromOutside, client
<1>5. CASE CloseHandshake(f) \/ Reset(f) \/ RetriesExhausted(f) \/ TimeWaitOver(f)
  BY <1>3, <1>5 DEF CloseHandshake, Reset, RetriesExhausted, TimeWaitOver
<1>6. CASE \/ HandleAccept(f) \/ Deliver(f) \/ HandlePeerClose(f) \/ HandlePeerError(f)
           \/ LastAckReceived(f)
  BY <1>3, <1>6 DEF HandleAccept, Deliver, HandlePeerClose, HandlePeerError, LastAckReceived,
     client
<1> QED BY <1>1, <1>2, <1>4, <1>5, <1>6 DEF FlowStep

(* Reported progress never falls, not even at the step that replaces the     *)
(* live count (m_totBytes less the buffer) by the frozen one.                *)
THEOREM ProgressNeverFalls == Spec => ProgressAscends
<1>1. ASSUME IInv, IInv', [Next]_vars, NEW g \in Flow
      PROVE  GetAckedBytes(g)' >= GetAckedBytes(g)
  <2>1. GetAckedBytes(g) = totBytes[g] - txSize[g]
    BY <1>1, AckedIsSentLessBuffered
  <2>2. GetAckedBytes(g)' = totBytes'[g] - txSize'[g]
    BY <1>1 DEF IInv, FlowsSound, FlowSound, ReportSound, GetAckedBytes, Ended
  <2>3. Typed /\ FlowSound(g) /\ totBytes[g] \in Int /\ txSize[g] \in Int
    BY <1>1, FlowAssumption DEF IInv, FlowsSound, Typed, ClientTyped, NetworkTyped
  <2>4. ASSUME totBytes'[g] = totBytes[g], txSize'[g] = txSize[g]
        PROVE  GetAckedBytes(g)' >= GetAckedBytes(g)
    BY <2>1, <2>2, <2>3, <2>4
  <2>5. ASSUME NEW f \in Flow, FlowStep(f) PROVE GetAckedBytes(g)' >= GetAckedBytes(g)
    <3>1. CASE f = g
      BY <2>1, <2>2, <2>3, <2>5, <3>1, FlowStepAcks
    <3>2. CASE f # g
      <4>1. Moves(f)
        BY <1>1, <2>5, FlowStepMoves DEF IInv, FlowsSound
      <4> QED BY <2>4, <3>2, <4>1 DEF Moves, Unmoved
    <3> QED BY <3>1, <3>2
  <2>6. CASE Tick \/ UNCHANGED vars
    BY <2>4, <2>6 DEF Tick, vars, client, network
  <2> QED BY <1>1, <2>5, <2>6 DEF Next
<1>2. IInv /\ IInv' /\ [Next]_vars
        => [\A f \in Flow : GetAckedBytes(f)' >= GetAckedBytes(f)]_vars
  BY <1>1
<1> QED BY <1>2, InvAlways, PTL DEF Spec, ProgressAscends

-----------------------------------------------------------------------------
(* The inductive invariant, on top of that of the flows.                     *)

SchedulingTyped ==
  /\ lines \in [1 .. Cardinality(Flow) -> Line] /\ assignment \in [Endpoint -> System]
  /\ phase \in {"setup", "running", "stopped", "threw"}
  /\ schedule \in [System -> Seq(Line)]
  /\ event \in [System -> [index : Nat, at : Int]]
  /\ apps \in [System -> Seq(Flow)] /\ startedAt \in [Flow -> Int]
  /\ rows = [s \in System |-> rows[s]]

(* Only an accepted schedule is run, each system with its part of it; the    *)
(* run stops at its end with every client that was installed started.        *)
PhaseSound ==
  /\ phase = "setup" => now = 0
  /\ phase = "threw" => now = 0 /\ ~Accepted(lines)
  /\ phase \in {"setup", "threw"} => \A s \in System : /\ schedule[s] = <<>> /\ apps[s] = <<>>
                                                       /\ event[s].index = 0
  /\ phase \in {"running", "stopped"} =>
       Accepted(lines) /\ \A s \in System : schedule[s] = OwnFlows(s)
  /\ phase = "stopped" => now = MaxTime /\ ~aborted /\ \A f \in Installed : started[f]

(* The clients installed are those of the entries before the pending one,    *)
(* which is not in the past.                                                 *)
PendingSound(s) ==
  /\ IF event[s].index = 0 THEN Len(apps[s]) = Len(schedule[s])
     ELSE /\ event[s].index \in 1 .. Len(schedule[s])
          /\ event[s].at = schedule[s][event[s].index].start
          /\ now <= event[s].at /\ Len(apps[s]) = event[s].index - 1
  /\ \A i \in 1 .. Len(apps[s]) : apps[s][i] = schedule[s][i].id

(* A client is installed at the time of its entry, started before that time  *)
(* passes, and cannot have ended before.                                     *)
StartSound(f) ==
  /\ started[f] => f \in Installed /\ startedAt[f] = lines[f + 1].start /\ startedAt[f] <= now
  /\ f \in Installed /\ ~started[f] => now = lines[f + 1].start
  /\ Ended(f) => startedAt[f] <= completionTime[f]

RowsSound(s) ==
  rows[s] # <<>> => phase = "stopped" /\ rows[s] = [i \in DOMAIN schedule[s] |-> Row(s, i)]

SchedulerInv ==
  /\ SchedulingTyped /\ PhaseSound
  /\ \A s \in System : PendingSound(s) /\ RowsSound(s)
  /\ \A f \in Flow : StartSound(f)

-----------------------------------------------------------------------------
(* The flows do what TcpFlow says: StartClient, RunFlow and Advance are      *)
(* steps of it, the rest of the scheduler leaves them alone.                 *)
LEMMA StepOfTheFlows ==
  [SchedulerNext]_<<vars, scheduling>> => [Next]_vars
<1> SUFFICES ASSUME [SchedulerNext]_<<vars, scheduling>> PROVE [Next]_vars
  OBVIOUS
<1>1. ASSUME NEW f \in Flow, StartClient(f) \/ RunFlow(f) PROVE Next
  BY <1>1 DEF StartClient, RunFlow, Simulating, Next, FlowStep
<1>2. CASE Advance
  BY <1>2 DEF Advance, Simulating, Next, Tick, server, network, client
<1>3. CASE Construct \/ \E s \in System : StartNextFlow(s) \/ WriteResults(s)
  BY <1>3 DEF Construct, StartNextFlow, WriteResults
<1> QED BY <1>1, <1>2, <1>3 DEF SchedulerNext

(* So every property of the flows holds of them under the scheduler, too.    *)
THEOREM RunsFlows ==
  SchedulerSpec => Spec
<1>1. SchedulerInit => Init
  BY DEF SchedulerInit
<1> QED BY <1>1, StepOfTheFlows, PTL DEF SchedulerSpec, Spec

-----------------------------------------------------------------------------
(* The schedule of a system.                                                 *)

LEMMA FlowsAreNumbered ==
  /\ Cardinality(Flow) \in Nat /\ MaxTime \in Nat
  /\ \A f : f \in Flow <=> f \in Nat /\ f + 1 \in 1 .. Cardinality(Flow)
<1>1. Cardinality(Flow) \in Nat /\ Flow = 0 .. Cardinality(Flow) - 1
  BY SchedulerAssumption, FS_CardinalityType
<1> QED BY <1>1, FlowAssumption

(* Where in the file the entries of a system come from.                      *)
OwnAt(h, s) ==
  LET own == OwnFlows(s) IN
  /\ h \in [1 .. Len(own) -> 1 .. Cardinality(Flow)]
  /\ \A i, j \in 1 .. Len(own) : i < j => h[i] < h[j]
  /\ \A i \in 1 .. Len(own) : i <= h[i] /\ own[i] = lines[h[i]]
                              /\ assignment[lines[h[i]].from] = s
  /\ \A i \in 1 .. Cardinality(Flow) :
       assignment[lines[i].from] = s => \E j \in 1 .. Len(own) : h[j] = i

LEMMA OwnFlowsAt ==
  ASSUME SchedulingTyped, NEW s \in System
  PROVE  OwnFlows(s) \in Seq(Line) /\ \E h : OwnAt(h, s)
<1> DEFINE keep == {l \in Range(lines) : assignment[l.from] = s}
           own == OwnFlows(s)
<1>1. lines \in Seq(Line) /\ Len(lines) = Cardinality(Flow)
  <2> DEFINE n == Cardinality(Flow)
  <2>1. n \in Nat /\ lines \in [1 .. n -> Line]
    BY FlowsAreNumbered DEF SchedulingTyped
  <2> HIDE DEF n
  <2>2. lines \in Seq(Line)
    BY <2>1, SeqDef
  <2>3. Len(lines) = n
    BY <2>1, <2>2, LenProperties
  <2> QED BY <2>2, <2>3 DEF n
<1>2. own = Kept(lines, keep)
  BY DEF OwnFlows
<1>3. \A i \in 1 .. Cardinality(Flow) : lines[i] \in keep <=> assignment[lines[i].from] = s
  BY <1>1 DEF Range
<1> HIDE DEF keep, own
<1>4. own \in Seq(Line)
  BY <1>1, <1>2, KeptEmbeds
<1>5. PICK h : Embeds(h, own, lines, keep, Cardinality(Flow))
  BY <1>1, <1>2, KeptEmbeds
<1>6. \A i \in 1 .. Len(own) : i <= h[i]
  BY <1>4, <1>5, EmbedsLater, FlowsAreNumbered
<1>7. OwnAt(h, s)
  BY <1>3, <1>5, <1>6 DEF OwnAt, Embeds, own
<1> QED BY <1>4, <1>7 DEF own

(* What the reader let through, line by line.                                *)
LEMMA AcceptedLines ==
  ASSUME SchedulingTyped, Accepted(lines)
  PROVE  /\ \A i \in 1 .. Cardinality(Flow) :
              /\ lines[i] \in Line /\ lines[i].id = i - 1 /\ lines[i].from \in Endpoint
              /\ lines[i].start \in Nat /\ lines[i].start < MaxTime
         /\ \A i, j \in 1 .. Cardinality(Flow) : i <= j => lines[i].start <= lines[j].start
<1> DEFINE n == Cardinality(Flow)
           start == [i \in 1 .. n |-> lines[i].start]
<1>1. n \in Nat /\ DOMAIN lines = 1 .. n
  BY FlowsAreNumbered DEF SchedulingTyped
<1>2. ASSUME NEW i \in 1 .. n
      PROVE  /\ lines[i] \in Line /\ lines[i].id = i - 1 /\ lines[i].from \in Endpoint
             /\ lines[i].start \in Nat /\ lines[i].start < MaxTime
             /\ i > 1 => lines[i - 1].start <= lines[i].start
  <2>1. lines[i] \in Line
    BY DEF SchedulingTyped
  <2>2. lines[i].start \in 0 .. MaxTime
    BY <2>1 DEF Line
  <2> QED BY <1>1, <2>1, <2>2, FlowsAreNumbered DEF Accepted
<1> HIDE DEF n
<1>3. \A i \in 1 .. n : start[i] \in Int
  BY <1>2
<1>4. \A i \in 2 .. n : start[i - 1] <= start[i]
  BY <1>1, <1>2
<1>5. \A i, j \in 1 .. n : i <= j => start[i] <= start[j]
  <2> HIDE DEF start
  <2> QED BY <1>1, <1>3, <1>4, AscendsFromNeighbours
<1> QED BY <1>2, <1>5 DEF n

(* Filtered, the entries are still in the order of their start times.        *)
LEMMA OwnFlowsOrdered ==
  ASSUME SchedulingTyped, Accepted(lines), NEW s \in System
  PROVE  /\ \A i \in 1 .. Len(OwnFlows(s)) :
              /\ OwnFlows(s)[i].id \in Flow /\ OwnFlows(s)[i].start \in Nat
              /\ OwnFlows(s)[i].start < MaxTime
              /\ OwnFlows(s)[i] = lines[OwnFlows(s)[i].id + 1]
         /\ \A i, j \in 1 .. Len(OwnFlows(s)) :
              i <= j => OwnFlows(s)[i].start <= OwnFlows(s)[j].start
<1> DEFINE own == OwnFlows(s)
<1>1. PICK h : OwnAt(h, s)
  BY OwnFlowsAt
<1>2. Len(own) \in Nat
  BY OwnFlowsAt
<1>3. /\ \A i \in 1 .. Len(own) : h[i] \in 1 .. Cardinality(Flow) /\ own[i] = lines[h[i]]
      /\ \A i, j \in 1 .. Len(own) : i < j => h[i] < h[j]
  BY <1>1 DEF OwnAt
<1> HIDE DEF own
<1>4. \A i \in 1 .. Len(own) : /\ own[i].id \in Flow /\ own[i].start \in Nat
                               /\ own[i].start < MaxTime /\ own[i] = lines[own[i].id + 1]
  <2> SUFFICES ASSUME NEW i \in 1 .. Len(own)
               PROVE  /\ own[i].id \in Flow /\ own[i].start \in Nat
                      /\ own[i].start < MaxTime /\ own[i] = lines[own[i].id + 1]
    OBVIOUS
  <2>1. h[i] \in 1 .. Cardinality(Flow) /\ own[i] = lines[h[i]]
    BY <1>3
  <2>2. /\ own[i].id = h[i] - 1 /\ own[i] \in Line
        /\ own[i].start \in Nat /\ own[i].start < MaxTime
    BY <2>1, AcceptedLines
  <2>3. own[i].id + 1 = h[i]
    BY <2>1, <2>2, FlowsAreNumbered
  <2> QED BY <2>1, <2>2, <2>3 DEF Line
<1>5. \A i, j \in 1 .. Len(own) : i <= j => h[i] <= h[j]
  BY <1>2, <1>3, FlowsAreNumbered
<1>6. \A i, j \in 1 .. Len(own) : i <= j => own[i].start <= own[j].start
  BY <1>3, <1>5, AcceptedLines
<1> QED BY <1>4, <1>6 DEF own

-----------------------------------------------------------------------------
(* The steps.                                                                *)

LEMMA SchedulingStays ==
  ASSUME SchedulerInv, UNCHANGED scheduling, UNCHANGED now
  PROVE  /\ SchedulingTyped' /\ Installed' = Installed
         /\ \A s \in System : PendingSound(s)'
<1>1. SchedulingTyped' /\ Installed' = Installed
  BY DEF SchedulerInv, SchedulingTyped, scheduling, Installed
<1>2. \A s \in System : PendingSound(s)'
  BY DEF SchedulerInv, PendingSound, scheduling
<1> QED BY <1>1, <1>2

(* A running flow ends now or is as it was.                                  *)
LEMMA FlowEndsNow ==
  ASSUME Typed, NEW f \in Flow, FlowSound(f), started[f], FlowStep(f)
  PROVE  /\ UNCHANGED started
         /\ \A g \in Flow : Ended(g)' => \/ completionTime'[g] = now
                                         \/ Ended(g) /\ completionTime'[g] = completionTime[g]
<1>1. CASE \/ ConnectionFailed(f) \/ CloseHandshake(f) \/ Reset(f) \/ RetriesExhausted(f)
  <2>1. UNCHANGED started
    BY <1>1 DEF ConnectionFailed, CloseHandshake, Reset, RetriesExhausted
  <2>2. completionTime' = [completionTime EXCEPT ![f] = now]
    BY <1>1 DEF ConnectionFailed, CloseHandshake, Reset, RetriesExhausted,
                ConnectionFailedReport, SocketClosedNormal, SocketClosedError, Conclude
  <2>3. \A g \in Flow \ {f} : Unmoved(g)
    BY FlowStepMoves DEF Moves
  <2>4. completionTime'[f] = now
    BY <2>2 DEF Typed, ClientTyped
  <2> QED BY <2>1, <2>3, <2>4 DEF Unmoved, Ended
<1>2. CASE \/ ConnectionSucceeded(f) \/ DataSend(f) \/ Acknowledge(f) \/ SendFin(f)
           \/ CloseFromOutside(f) \/ TimeWaitOver(f) \/ HandleAccept(f) \/ Deliver(f)
           \/ HandlePeerClose(f) \/ HandlePeerError(f) \/ LastAckReceived(f)
  <2>1. UNCHANGED <<started, report>>
    BY <1>2 DEF ConnectionSucceeded, DataSend, Acknowledge, SendFin, CloseFromOutside,
                TimeWaitOver, HandleAccept, Deliver, HandlePeerClose, HandlePeerError,
                LastAckReceived, client, report
  <2> QED BY <2>1 DEF report, Ended
<1> QED BY <1>1, <1>2 DEF FlowStep, StartApplication

LEMMA RunFlowKeeps ==
  ASSUME IInv, SchedulerInv, NEW f \in Flow, RunFlow(f)
  PROVE  SchedulerInv'
<1>1. /\ phase = "running" /\ started[f] /\ FlowStep(f) /\ UNCHANGED scheduling
      /\ Typed /\ FlowSound(f) /\ now \in 0 .. MaxTime
  BY DEF RunFlow, Simulating, IInv, FlowsSound, Typed, NetworkTyped
<1>2. /\ UNCHANGED now /\ UNCHANGED started
      /\ \A g \in Flow : Ended(g)' => \/ completionTime'[g] = now
                                      \/ Ended(g) /\ completionTime'[g] = completionTime[g]
  BY <1>1, FlowStepClock, FlowEndsNow
<1>3. /\ SchedulingTyped' /\ Installed' = Installed
      /\ \A s \in System : PendingSound(s)'
  BY <1>1, <1>2, SchedulingStays
<1>4. PhaseSound' /\ \A s \in System : RowsSound(s)'
  BY <1>1, <1>2 DEF SchedulerInv, PhaseSound, RowsSound, scheduling, OwnFlows
<1>5. \A g \in Flow : StartSound(g)'
  <2> SUFFICES ASSUME NEW g \in Flow PROVE StartSound(g)'
    OBVIOUS
  <2>1. StartSound(g) /\ UNCHANGED <<lines, startedAt>>
    BY <1>1 DEF SchedulerInv, scheduling
  <2>2. Ended(g)' => \/ completionTime'[g] = now
                     \/ Ended(g) /\ completionTime'[g] = completionTime[g]
    BY <1>2
  <2>3. Ended(g)' => started[g]
    <3>1. FlowSound(g)'
      BY <1>1, StepOfTheFlows, InvNext
         DEF IInv, FlowsSound, RunFlow, SchedulerNext
    <3>2. Ended(g)' => started'[g]
      BY <3>1 DEF FlowSound, ReportSound
    <3> QED BY <1>2, <3>2
  <2>4. Ended(g)' => startedAt'[g] <= completionTime'[g]
    BY <2>1, <2>2, <2>3 DEF StartSound
  <2> QED BY <1>2, <1>3, <2>1, <2>4 DEF StartSound
<1> QED BY <1>3, <1>4, <1>5 DEF SchedulerInv

LEMMA StartClientKeeps ==
  ASSUME IInv, SchedulerInv, NEW f \in Flow, StartClient(f)
  PROVE  SchedulerInv'
<1>1. /\ phase = "running" /\ now < MaxTime /\ f \in Installed /\ ~started[f]
      /\ StartApplication(f) /\ startedAt' = [startedAt EXCEPT ![f] = now]
      /\ UNCHANGED <<lines, assignment, phase, schedule, event, apps, rows, now, aborted>>
      /\ Typed /\ FlowSound(f) /\ now \in 0 .. MaxTime
  BY DEF StartClient, StartApplication, Simulating, IInv, FlowsSound, Typed, NetworkTyped
<1>2. Moves(f)
  BY <1>1, FlowStepMoves DEF FlowStep
<1>3. started' = [started EXCEPT ![f] = TRUE]
  BY <1>1 DEF StartApplication
<1>4. Installed' = Installed
  BY <1>1 DEF Installed
<1>5. SchedulingTyped'
  BY <1>1 DEF SchedulerInv, SchedulingTyped
<1>6. \A s \in System : PendingSound(s)'
  BY <1>1 DEF SchedulerInv, PendingSound
<1>7. PhaseSound' /\ \A s \in System : RowsSound(s)'
  BY <1>1 DEF SchedulerInv, PhaseSound, RowsSound, OwnFlows
<1>8. ASSUME NEW g \in Flow, g # f PROVE StartSound(g)'
  <2>1. StartSound(g) /\ Unmoved(g) /\ startedAt'[g] = startedAt[g]
    BY <1>1, <1>2, <1>8 DEF SchedulerInv, SchedulingTyped, Moves
  <2> QED BY <1>1, <1>4, <2>1 DEF StartSound, Unmoved, Ended
<1>9. StartSound(f)'
  <2>1. now = lines[f + 1].start /\ startedAt'[f] = now /\ started'[f] /\ ~Ended(f)
    BY <1>1, <1>3 DEF SchedulerInv, StartSound, SchedulingTyped, Typed, ClientTyped,
                      FlowSound, ReportSound
  <2>2. Ended(f)' => completionTime'[f] = now
    <3>1. CASE UNCHANGED report
      BY <2>1, <3>1 DEF report, Ended
    <3>2. CASE ConnectionFailedReport(f)
      BY <1>1, <3>2 DEF ConnectionFailedReport, Conclude, Typed, ClientTyped
    <3> QED BY <1>1, <3>1, <3>2 DEF StartApplication
  <2> QED BY <1>1, <1>4, <2>1, <2>2 DEF StartSound
<1> QED BY <1>5, <1>6, <1>7, <1>8, <1>9 DEF SchedulerInv

LEMMA AdvanceKeeps ==
  ASSUME IInv, SchedulerInv, Advance
  PROVE  SchedulerInv'
<1>1. /\ phase = "running" /\ now < MaxTime /\ ~aborted /\ now \in Nat /\ now' = now + 1
      /\ \A s \in System : event[s].index # 0 => event[s].at > now
      /\ \A f \in Installed : started[f]
      /\ phase' = IF now + 1 = MaxTime THEN "stopped" ELSE phase
      /\ UNCHANGED <<lines, assignment, schedule, event, apps, startedAt, rows, aborted, started,
                     connFailed, closedNormally, closedByError, completionTime>>
  BY DEF Advance, Simulating, IInv, FlowsSound, Typed, NetworkTyped, client
<1>2. Installed' = Installed
  BY <1>1 DEF Installed
<1>3. SchedulingTyped'
  BY <1>1 DEF SchedulerInv, SchedulingTyped
<1>4. PhaseSound'
  BY <1>1, <1>2 DEF SchedulerInv, PhaseSound, OwnFlows
<1>5. ASSUME NEW s \in System PROVE PendingSound(s)' /\ RowsSound(s)'
  <2>1. PendingSound(s) /\ rows[s] = <<>> /\ event[s] \in [index : Nat, at : Int]
    BY <1>1 DEF SchedulerInv, RowsSound, SchedulingTyped
  <2>2. event[s].index # 0 => now' <= event[s].at
    BY <1>1, <2>1
  <2> QED BY <1>1, <2>1, <2>2 DEF PendingSound, RowsSound
<1>6. ASSUME NEW f \in Flow PROVE StartSound(f)'
  <2>1. StartSound(f) /\ startedAt[f] \in Int
    BY DEF SchedulerInv, SchedulingTyped
  <2>2. started[f] => startedAt[f] <= now'
    BY <1>1, <2>1 DEF StartSound
  <2> QED BY <1>1, <1>2, <2>1, <2>2 DEF StartSound, Ended
<1> QED BY <1>3, <1>4, <1>5, <1>6 DEF SchedulerInv

LEMMA ConstructKeeps ==
  ASSUME IInv, SchedulerInv, Construct
  PROVE  SchedulerInv'
<1>1. /\ phase = "setup" /\ UNCHANGED <<lines, assignment, apps, startedAt, rows>>
      /\ UNCHANGED <<now, started, connFailed, closedNormally, closedByError, completionTime>>
  BY DEF Construct, vars, client
<1>2. now = 0 /\ \A s \in System : apps[s] = <<>> /\ rows[s] = <<>>
  BY <1>1 DEF SchedulerInv, PhaseSound, RowsSound
<1>3. Installed' = Installed
  BY <1>1 DEF Installed
<1>4. \A f \in Flow : StartSound(f)'
  BY <1>1, <1>3 DEF SchedulerInv, StartSound, Ended
<1>5. \A s \in System : RowsSound(s)'
  BY <1>1, <1>2 DEF RowsSound
<1>6. CASE ~Accepted(lines)
  <2>1. phase' = "threw" /\ UNCHANGED <<schedule, event>>
    BY <1>6 DEF Construct
  <2>2. SchedulingTyped' /\ PhaseSound' /\ \A s \in System : PendingSound(s)'
    BY <1>1, <1>2, <1>6, <2>1 DEF SchedulerInv, SchedulingTyped, PhaseSound, PendingSound
  <2> QED BY <1>4, <1>5, <2>2 DEF SchedulerInv
<1>7. CASE Accepted(lines)
  <2>1. /\ phase' = "running" /\ schedule' = [s \in System |-> OwnFlows(s)]
        /\ event' = [s \in System |-> FirstEvent(OwnFlows(s))]
    BY <1>7 DEF Construct
  <2>2. ASSUME NEW s \in System
        PROVE  /\ OwnFlows(s) \in Seq(Line) /\ event'[s] \in [index : Nat, at : Int]
               /\ PendingSound(s)'
    <3> DEFINE own == OwnFlows(s)
    <3>1. /\ own \in Seq(Line)
          /\ \A i \in 1 .. Len(own) : own[i].start \in Nat
      BY <1>7, OwnFlowsAt, OwnFlowsOrdered DEF SchedulerInv
    <3>2. schedule'[s] = own /\ event'[s] = FirstEvent(own) /\ apps'[s] = <<>>
      BY <1>1, <1>2, <2>1
    <3> HIDE DEF own
    <3>3. CASE own = <<>>
      <4>1. event'[s] = [index |-> 0, at |-> 0] /\ event'[s].index = 0
        BY <3>2, <3>3 DEF FirstEvent, NoEvent
      <4>2. Len(own) = 0 /\ schedule'[s] = own /\ apps'[s] = own
        BY <3>2, <3>3
      <4>3. PendingSound(s)'
        BY <4>1, <4>2 DEF PendingSound
      <4> QED BY <3>1, <4>1, <4>3 DEF own
    <3>4. CASE own # <<>>
      <4>1. 1 \in 1 .. Len(own) /\ event'[s] = [index |-> 1, at |-> own[1].start]
        BY <3>1, <3>2, <3>4 DEF FirstEvent
      <4>2. own[1].start \in Nat /\ now' = 0
        BY <1>1, <1>2, <3>1, <4>1
      <4> QED BY <3>1, <3>2, <4>1, <4>2 DEF PendingSound, own
    <3> QED BY <3>1, <3>3, <3>4 DEF own
  <2>3. SchedulingTyped'
    BY <1>1, <2>1, <2>2 DEF SchedulerInv, SchedulingTyped
  <2>4. PhaseSound'
    BY <1>1, <1>7, <2>1 DEF PhaseSound, OwnFlows
  <2> QED BY <1>4, <1>5, <2>2, <2>3, <2>4 DEF SchedulerInv
<1> QED BY <1>6, <1>7

LEMMA StartNextFlowKeeps ==
  ASSUME IInv, SchedulerInv, NEW s \in System, StartNextFlow(s)
  PROVE  SchedulerInv'
<1> DEFINE i == event[s].index
           entry == schedule[s][i]
<1>1. /\ phase = "running" /\ now < MaxTime /\ now \in Nat /\ i # 0 /\ event[s].at = now
      /\ UNCHANGED <<lines, assignment, phase, schedule, startedAt, rows>>
      /\ UNCHANGED <<now, aborted, started, connFailed, closedNormally, closedByError,
                     completionTime>>
      /\ apps' = [apps EXCEPT ![s] = Append(@, entry.id)]
      /\ event' = [event EXCEPT ![s] = NextEvent(s, i)]
  BY DEF StartNextFlow, Simulating, IInv, FlowsSound, Typed, NetworkTyped, vars, client,
         SchedulerInv, SchedulingTyped
<1>2. /\ SchedulingTyped /\ PhaseSound /\ PendingSound(s) /\ Accepted(lines)
      /\ schedule[s] = OwnFlows(s) /\ schedule[s] \in Seq(Line) /\ Len(schedule[s]) \in Nat
      /\ apps[s] \in Seq(Flow)
  BY <1>1 DEF SchedulerInv, PhaseSound, SchedulingTyped
<1>3. /\ i \in 1 .. Len(schedule[s]) /\ entry.start = now /\ Len(apps[s]) = i - 1
      /\ \A k \in 1 .. Len(apps[s]) : apps[s][k] = schedule[s][k].id
  BY <1>1, <1>2 DEF PendingSound
<1>4. entry.id \in Flow /\ entry = lines[entry.id + 1]
  BY <1>2, <1>3, OwnFlowsOrdered
<1>5. i < Len(schedule[s]) => /\ i + 1 \in 1 .. Len(schedule[s])
                              /\ schedule[s][i + 1].start \in Nat
                              /\ now <= schedule[s][i + 1].start
  <2> SUFFICES ASSUME i < Len(schedule[s])
               PROVE  /\ i + 1 \in 1 .. Len(schedule[s])
                      /\ schedule[s][i + 1].start \in Nat /\ now <= schedule[s][i + 1].start
    OBVIOUS
  <2>1. i \in 1 .. Len(schedule[s]) /\ i + 1 \in 1 .. Len(schedule[s]) /\ i <= i + 1
    BY <1>2, <1>3
  <2>2. /\ \A k \in 1 .. Len(schedule[s]) : schedule[s][k].start \in Nat
        /\ \A k, l \in 1 .. Len(schedule[s]) :
             k <= l => schedule[s][k].start <= schedule[s][l].start
    BY <1>2, OwnFlowsOrdered
  <2> QED BY <1>3, <2>1, <2>2
<1>6. /\ event'[s] \in [index : Nat, at : Int]
      /\ IF i = Len(schedule[s]) THEN event'[s].index = 0
         ELSE event'[s] = [index |-> i + 1, at |-> schedule[s][i + 1].start]
  <2>1. event'[s] = NextEvent(s, i)
    BY <1>1, <1>2 DEF SchedulingTyped
  <2> QED BY <1>1, <1>2, <1>3, <1>5, <2>1 DEF NextEvent, NoEvent
<1> HIDE DEF i, entry
<1>7. /\ apps'[s] = Append(apps[s], entry.id) /\ apps'[s] \in Seq(Flow)
      /\ \A t \in System : t # s => apps'[t] = apps[t] /\ event'[t] = event[t]
  BY <1>1, <1>2, <1>4 DEF SchedulingTyped
<1>8. /\ Len(apps'[s]) = i /\ DOMAIN apps'[s] = DOMAIN apps[s] \cup {i}
      /\ apps'[s][i] = entry.id /\ \A k \in DOMAIN apps[s] : apps'[s][k] = apps[s][k]
  BY <1>2, <1>3, <1>4, <1>7
<1>9. Installed' = Installed \cup {entry.id}
  <2>1. {apps'[s][k] : k \in DOMAIN apps'[s]} = {apps[s][k] : k \in DOMAIN apps[s]} \cup {entry.id}
    BY <1>8
  <2> QED BY <1>7, <2>1 DEF Installed
<1>10. SchedulingTyped'
  <2>1. apps' \in [System -> Seq(Flow)] /\ event' \in [System -> [index : Nat, at : Int]]
    BY <1>1, <1>2, <1>6, <1>7 DEF SchedulingTyped
  <2> QED BY <1>1, <1>2, <2>1 DEF SchedulingTyped
<1>11. PhaseSound' /\ \A t \in System : RowsSound(t)'
  BY <1>1 DEF SchedulerInv, PhaseSound, RowsSound, OwnFlows
<1>12. PendingSound(s)'
  <2>1. \A k \in 1 .. i : apps'[s][k] = schedule[s][k].id
    BY <1>2, <1>3, <1>8 DEF entry
  <2> QED BY <1>1, <1>2, <1>3, <1>5, <1>6, <1>8, <2>1 DEF PendingSound
<1>13. \A t \in System : PendingSound(t)'
  BY <1>1, <1>7, <1>12 DEF SchedulerInv, PendingSound
<1>14. \A f \in Flow : StartSound(f)'
  BY <1>1, <1>3, <1>4, <1>9 DEF SchedulerInv, StartSound, Ended
<1> QED BY <1>10, <1>11, <1>13, <1>14 DEF SchedulerInv

(* A stopped run: every client of every system is installed.                 *)
LEMMA StoppedIsComplete ==
  ASSUME SchedulerInv, phase = "stopped", NEW s \in System
  PROVE  /\ event[s].index = 0 /\ Len(apps[s]) = Len(schedule[s])
         /\ schedule[s] = OwnFlows(s) /\ Accepted(lines)
<1>1. PendingSound(s) /\ now = MaxTime /\ schedule[s] = OwnFlows(s) /\ Accepted(lines)
  BY DEF SchedulerInv, PhaseSound
<1>2. event[s].index = 0
  <2> SUFFICES ASSUME event[s].index # 0 PROVE FALSE
    OBVIOUS
  <2>1. /\ event[s].index \in 1 .. Len(schedule[s])
        /\ MaxTime <= schedule[s][event[s].index].start
    BY <1>1 DEF PendingSound
  <2>2. /\ schedule[s][event[s].index].start \in Nat
        /\ schedule[s][event[s].index].start < MaxTime
    BY <1>1, <2>1, OwnFlowsOrdered DEF SchedulerInv
  <2> QED BY <2>1, <2>2, FlowsAreNumbered
<1> QED BY <1>1, <1>2 DEF PendingSound

LEMMA WriteResultsKeeps ==
  ASSUME IInv, SchedulerInv, NEW s \in System, WriteResults(s)
  PROVE  SchedulerInv'
<1>1. /\ phase = "stopped" /\ Len(apps[s]) = Len(schedule[s]) /\ Len(schedule[s]) \in Nat
  BY StoppedIsComplete DEF WriteResults, SchedulerInv, SchedulingTyped
<1>2. /\ rows' = [rows EXCEPT ![s] = [i \in DOMAIN schedule[s] |-> Row(s, i)]]
      /\ UNCHANGED <<lines, assignment, phase, schedule, event, apps, startedAt>>
      /\ UNCHANGED vars
  BY <1>1 DEF WriteResults
<1>3. /\ UNCHANGED <<now, aborted, started, connFailed, closedNormally, closedByError>>
      /\ UNCHANGED <<completionTime, isCompleted, ackedBytes, totBytes, txSize>>
  BY <1>2 DEF vars, client, network
<1>4. Installed' = Installed
  BY <1>2 DEF Installed
<1>5. SchedulingTyped'
  BY <1>2 DEF SchedulerInv, SchedulingTyped
<1>6. PhaseSound' /\ \A t \in System : PendingSound(t)'
  BY <1>2, <1>3, <1>4 DEF SchedulerInv, PhaseSound, PendingSound, OwnFlows
<1>7. \A f \in Flow : StartSound(f)'
  BY <1>2, <1>3, <1>4 DEF SchedulerInv, StartSound, Ended
<1>8. \A t \in System : \A i : Row(t, i)' = Row(t, i)
  BY <1>2, <1>3 DEF Row, GetAckedBytes, FinishedState, Ended
<1>9. ASSUME NEW t \in System PROVE RowsSound(t)'
  <2>1. rows'[t] = IF t = s THEN [i \in DOMAIN schedule[s] |-> Row(s, i)] ELSE rows[t]
    BY <1>2 DEF SchedulerInv, SchedulingTyped
  <2>2. RowsSound(t)
    BY DEF SchedulerInv
  <2> QED BY <1>1, <1>2, <1>8, <2>1, <2>2 DEF RowsSound
<1> QED BY <1>5, <1>6, <1>7, <1>9 DEF SchedulerInv

LEMMA NextKeeps ==
  ASSUME IInv, SchedulerInv, [SchedulerNext]_<<vars, scheduling>>
  PROVE  SchedulerInv'
<1>1. CASE UNCHANGED <<vars, scheduling>>
  <2>1. UNCHANGED scheduling /\ UNCHANGED now
    BY <1>1 DEF vars
  <2>2. UNCHANGED <<aborted, started, connFailed, closedNormally, closedByError, completionTime>>
    BY <1>1 DEF vars, client
  <2>3. /\ SchedulingTyped' /\ Installed' = Installed
        /\ \A s \in System : PendingSound(s)'
    BY <2>1, SchedulingStays
  <2>4. PhaseSound'
    BY <2>1, <2>2, <2>3 DEF SchedulerInv, PhaseSound, OwnFlows, scheduling
  <2>5. \A f \in Flow : StartSound(f)'
    BY <2>1, <2>2, <2>3 DEF SchedulerInv, StartSound, Ended, scheduling
  <2>6. \A s \in System : RowsSound(s)'
    <3>1. \A s : \A i : Row(s, i)' = Row(s, i)
      BY <1>1 DEF vars, client, network, scheduling, Row, GetAckedBytes, FinishedState, Ended
    <3> QED BY <2>1, <3>1 DEF SchedulerInv, RowsSound, scheduling
  <2> QED BY <2>3, <2>4, <2>5, <2>6 DEF SchedulerInv
<1> QED BY <1>1, ConstructKeeps, AdvanceKeeps, StartNextFlowKeeps, WriteResultsKeeps,
           StartClientKeeps, RunFlowKeeps DEF SchedulerNext

LEMMA InitEstablishes == SchedulerInit => SchedulerInv
<1> SUFFICES ASSUME SchedulerInit PROVE SchedulerInv
  OBVIOUS
<1>1. /\ phase = "setup" /\ now = 0 /\ lines \in [1 .. Cardinality(Flow) -> Line]
      /\ assignment \in [Endpoint -> System]
      /\ \A s \in System : schedule[s] = <<>> /\ apps[s] = <<>> /\ rows[s] = <<>>
                          /\ event[s] = [index |-> 0, at |-> 0] /\ event[s].index = 0
      /\ \A f \in Flow : ~started[f] /\ ~Ended(f)
  BY DEF SchedulerInit, Init, NoEvent, Ended
<1>2. SchedulingTyped
  BY <1>1 DEF SchedulingTyped, SchedulerInit, NoEvent
<1>3. Installed = {}
  <2>1. \A s \in System : {apps[s][i] : i \in DOMAIN apps[s]} = {}
    BY <1>1
  <2> QED BY <2>1 DEF Installed
<1>4. PhaseSound /\ \A f \in Flow : StartSound(f)
  BY <1>1, <1>3 DEF PhaseSound, StartSound
<1>5. \A s \in System : PendingSound(s) /\ RowsSound(s)
  BY <1>1 DEF PendingSound, RowsSound
<1> QED BY <1>2, <1>4, <1>5 DEF SchedulerInv

LEMMA SchedulerInvAlways == SchedulerSpec => [](IInv /\ SchedulerInv)
<1>1. SchedulerSpec => []IInv
  BY RunsFlows, InvAlways, PTL
<1>2. IInv /\ SchedulerInv /\ [SchedulerNext]_<<vars, scheduling>> => SchedulerInv'
  BY NextKeeps
<1> QED BY <1>1, <1>2, InitEstablishes, PTL DEF SchedulerSpec

-----------------------------------------------------------------------------
(* The theorems.                                                             *)

(* No client starts before or after the time of its line, whatever part of   *)
(* the schedule its system keeps and however many lines share a time: the    *)
(* assertion of StartNextFlow on now_ns never fires.                         *)
THEOREM StartsOnTime == SchedulerSpec => []StartedOnTime
<1>1. SchedulerInv => StartedOnTime
  BY DEF SchedulerInv, SchedulingTyped, StartSound, PendingSound, StartedOnTime
<1> QED BY <1>1, SchedulerInvAlways, PTL

(* Where a flow of a stopped run is found: at one place of one system.        *)
LEMMA ReportedAt ==
  ASSUME SchedulerInv, phase = "stopped", NEW f \in Flow
  PROVE  \E s \in System : \E j \in 1 .. Cardinality(Flow) :
           /\ j \in 1 .. Len(schedule[s]) /\ schedule[s][j].id = f /\ apps[s][j] = f
           /\ \A t \in System : \A i \in 1 .. Len(schedule[t]) :
                schedule[t][i].id = f => t = s /\ i = j
<1> DEFINE n == Cardinality(Flow)
           k == f + 1
           s == assignment[lines[k].from]
<1>1. /\ SchedulingTyped /\ Accepted(lines) /\ n \in Nat /\ f \in Nat /\ k \in 1 .. n
      /\ \A t \in System : schedule[t] = OwnFlows(t) /\ schedule[t] \in Seq(Line)
  <2>1. SchedulingTyped /\ Accepted(lines) /\ \A t \in System : schedule[t] = OwnFlows(t)
    BY DEF SchedulerInv, PhaseSound
  <2>2. n \in Nat /\ f \in Nat /\ k \in 1 .. n
    BY FlowsAreNumbered
  <2> QED BY <2>1, <2>2 DEF SchedulingTyped
<1>2. \A i \in 1 .. n : lines[i].id = i - 1 /\ lines[i].from \in Endpoint
  BY <1>1, AcceptedLines
<1>3. s \in System
  BY <1>1, <1>2 DEF SchedulingTyped
<1> HIDE DEF n, s
<1>4. PICK h : OwnAt(h, s)
  BY <1>1, <1>3, OwnFlowsAt
<1>5. /\ \A i \in 1 .. Len(schedule[s]) : h[i] \in 1 .. n /\ i <= h[i]
                                           /\ schedule[s][i] = lines[h[i]]
      /\ \A i, l \in 1 .. Len(schedule[s]) : i < l => h[i] < h[l]
  BY <1>1, <1>3, <1>4 DEF OwnAt, n
<1>6. PICK j \in 1 .. Len(schedule[s]) : h[j] = k
  BY <1>1, <1>3, <1>4 DEF OwnAt, n, s
<1>7. j \in 1 .. n /\ schedule[s][j].id = f
  BY <1>1, <1>2, <1>5, <1>6
<1>8. apps[s][j] = f
  BY <1>3, <1>6, <1>7, StoppedIsComplete DEF SchedulerInv, PendingSound
<1>9. ASSUME NEW t \in System, NEW i \in 1 .. Len(schedule[t]), schedule[t][i].id = f
      PROVE  t = s /\ i = j
  <2>1. PICK g : OwnAt(g, t)
    BY <1>1, <1>9, OwnFlowsAt
  <2>2. g[i] \in 1 .. n /\ schedule[t][i] = lines[g[i]] /\ assignment[lines[g[i]].from] = t
    BY <1>1, <2>1 DEF OwnAt, n
  <2>3. g[i] = k
    BY <1>1, <1>2, <1>9, <2>2
  <2>4. t = s
    BY <2>2, <2>3 DEF s
  <2>5. h[i] = k /\ i \in 1 .. Len(schedule[s])
    <3>1. i \in 1 .. Len(schedule[s]) /\ schedule[s][i].id = f
      BY <1>9, <2>4
    <3>2. h[i] \in 1 .. n /\ schedule[s][i] = lines[h[i]]
      BY <1>5, <3>1
    <3>3. f = h[i] - 1
      BY <1>2, <3>1, <3>2
    <3>4. h[i] \in Int
      BY <1>1, <3>2
    <3> QED BY <1>1, <3>1, <3>3, <3>4
  <2>6. ~ (i < j) /\ ~ (j < i)
    BY <1>1, <1>5, <1>6, <2>5
  <2> QED BY <1>1, <2>4, <2>5, <2>6
<1> QED BY <1>3, <1>6, <1>7, <1>8, <1>9 DEF n

(* A run that was accepted ends with every client installed and started, so  *)
(* the reports never index a client that is not there; only a schedule that  *)
(* breaks a rule of the file makes the constructor throw.                    *)
THEOREM AcceptedReportable == SchedulerSpec => []AcceptedIsReportable
<1>1. SchedulerInv => AcceptedIsReportable
  <2> SUFFICES ASSUME SchedulerInv PROVE AcceptedIsReportable
    OBVIOUS
  <2>1. ASSUME phase = "stopped", NEW f \in Flow PROVE started[f]
    <3>1. PICK s \in System : \E j \in 1 .. Cardinality(Flow) :
            j \in 1 .. Len(schedule[s]) /\ schedule[s][j].id = f /\ apps[s][j] = f
      BY <2>1, ReportedAt
    <3>2. PICK j \in 1 .. Len(schedule[s]) : apps[s][j] = f
      BY <3>1
    <3>3. Len(apps[s]) = Len(schedule[s]) /\ apps[s] \in Seq(Flow)
      BY <2>1, StoppedIsComplete DEF SchedulerInv, SchedulingTyped
    <3>4. f \in Installed
      BY <3>2, <3>3 DEF Installed
    <3> QED BY <2>1, <3>4 DEF SchedulerInv, PhaseSound
  <2> QED BY <2>1 DEF SchedulerInv, PhaseSound, AcceptedIsReportable
<1> QED BY <1>1, SchedulerInvAlways, PTL

LEMMA RowsAreComplete ==
  ASSUME SchedulerInv, NEW s \in System, NEW i \in DOMAIN rows[s]
  PROVE  /\ phase = "stopped" /\ i \in 1 .. Len(schedule[s])
         /\ rows[s][i] = Row(s, i) /\ rows[s][i].id = schedule[s][i].id
<1>1. schedule[s] \in Seq(Line) /\ RowsSound(s) /\ rows[s] # <<>>
  BY DEF SchedulerInv, SchedulingTyped
<1>2. /\ phase = "stopped" /\ i \in DOMAIN schedule[s]
      /\ rows[s][i] = Row(s, i)
  BY <1>1 DEF RowsSound
<1> QED BY <1>1, <1>2 DEF Row

(* The systems' files together have one row per line of the schedule file.   *)
THEOREM ReportedOnce == SchedulerSpec => []EveryFlowReportedOnce
<1>1. SchedulerInv => EveryFlowReportedOnce
  <2> SUFFICES ASSUME SchedulerInv, phase = "stopped", NEW f \in Flow,
                      \A s \in System : Len(rows[s]) = Len(schedule[s])
               PROVE  Cardinality({r \in Reported : rows[r[1]][r[2]].id = f}) = 1
    BY DEF EveryFlowReportedOnce
  <2>1. \A s \in System : DOMAIN rows[s] = 1 .. Len(schedule[s])
    <3> SUFFICES ASSUME NEW s \in System PROVE DOMAIN rows[s] = 1 .. Len(schedule[s])
      OBVIOUS
    <3>1. schedule[s] \in Seq(Line) /\ RowsSound(s) /\ Len(rows[s]) = Len(schedule[s])
      BY DEF SchedulerInv, SchedulingTyped
    <3>2. CASE rows[s] = <<>>
      BY <3>1, <3>2
    <3>3. CASE rows[s] # <<>>
      BY <3>1, <3>3 DEF RowsSound
    <3> QED BY <3>2, <3>3
  <2>2. PICK s \in System : \E j \in 1 .. Cardinality(Flow) :
           /\ j \in 1 .. Len(schedule[s]) /\ schedule[s][j].id = f
           /\ \A t \in System : \A i \in 1 .. Len(schedule[t]) :
                schedule[t][i].id = f => t = s /\ i = j
    BY ReportedAt
  <2>3. PICK j \in 1 .. Cardinality(Flow) :
           /\ j \in 1 .. Len(schedule[s]) /\ schedule[s][j].id = f
           /\ \A t \in System : \A i \in 1 .. Len(schedule[t]) :
                schedule[t][i].id = f => t = s /\ i = j
    BY <2>2
  <2> DEFINE own == {r \in Reported : rows[r[1]][r[2]].id = f}
  <2>4. <<s, j>> \in own
    <3>1. j \in DOMAIN rows[s]
      BY <2>1, <2>3
    <3>2. rows[s][j].id = f
      BY <2>3, <3>1, RowsAreComplete
    <3> QED BY <3>1, <3>2 DEF Reported
  <2>5. ASSUME NEW r \in own PROVE r = <<s, j>>
    <3>1. /\ r \in System \X (1 .. Cardinality(Flow)) /\ r[1] \in System
          /\ r[2] \in DOMAIN rows[r[1]] /\ rows[r[1]][r[2]].id = f
      BY <2>5 DEF Reported
    <3>2. r[2] \in 1 .. Len(schedule[r[1]]) /\ schedule[r[1]][r[2]].id = f
      BY <3>1, RowsAreComplete
    <3>3. r[1] = s /\ r[2] = j
      BY <2>3, <3>1, <3>2
    <3> QED BY <3>1, <3>3
  <2>6. own = {<<s, j>>}
    BY <2>4, <2>5
  <2> QED BY <2>6, FS_Singleton
<1> QED BY <1>1, SchedulerInvAlways, PTL

(* What a row says of its flow is true: YES stands for all bytes at the      *)
(* server by the time the row gives, the others span the rest of the run,    *)
(* and no row claims more bytes than arrived.                                *)
THEOREM RowsTrue == SchedulerSpec => []RowsTruthful
<1>1. IInv /\ SchedulerInv => RowsTruthful
  <2> SUFFICES ASSUME IInv, SchedulerInv, NEW r \in Reported
               PROVE  LET row == rows[r[1]][r[2]] IN
                      /\ row.start = lines[row.id + 1].start /\ row.start <= row.end
                      /\ row.end <= MaxTime
                      /\ row.sent = GetAckedBytes(row.id) /\ row.sent <= arrived[row.id]
                      /\ row.state = "YES" <=> isCompleted[row.id]
                      /\ row.state = "YES" => arrived[row.id] = FlowSize[row.id]
                                              /\ row.end = completionTime[row.id]
                      /\ row.state # "YES" => row.end = MaxTime
    BY DEF RowsTruthful
  <2> DEFINE s == r[1]
             i == r[2]
             entry == schedule[s][i]
             f == entry.id
  <2>1. s \in System /\ i \in DOMAIN rows[s]
    BY DEF Reported
  <2> HIDE DEF s, i
  <2>2. phase = "stopped" /\ i \in 1 .. Len(schedule[s]) /\ rows[s][i] = Row(s, i)
    BY <2>1, RowsAreComplete
  <2>3. /\ schedule[s] = OwnFlows(s) /\ Accepted(lines) /\ Len(apps[s]) = Len(schedule[s])
        /\ now = MaxTime /\ ~aborted /\ MaxTime \in Nat
    BY <2>1, <2>2, StoppedIsComplete, FlowsAreNumbered DEF SchedulerInv, PhaseSound
  <2>4. f \in Flow /\ entry.start \in Nat /\ entry.start < MaxTime /\ entry = lines[f + 1]
    BY <2>1, <2>2, <2>3, OwnFlowsOrdered DEF SchedulerInv
  <2>5. apps[s][i] = f
    BY <2>1, <2>2, <2>3 DEF SchedulerInv, PendingSound
  <2> HIDE DEF entry
  <2>6. Row(s, i) = [id |-> f, start |-> entry.start,
                     end |-> entry.start + (IF isCompleted[f] THEN completionTime[f] - entry.start
                                            ELSE MaxTime - entry.start),
                     sent |-> GetAckedBytes(f), state |-> FinishedState(f)]
    BY <2>5 DEF Row, entry
  <2>7. f \in Flow
    BY <2>4
  <2> HIDE DEF f
  <2>8. Typed /\ BytesSound(f) /\ ReportSound(f) /\ StartSound(f)
    BY <2>7 DEF IInv, FlowsSound, FlowSound, SchedulerInv
  <2>9. completionTime[f] \in -1 .. MaxTime
    BY <2>7, <2>8 DEF Typed, ClientTyped
  <2>10. FinishedState(f) = "YES" <=> isCompleted[f]
    BY DEF FinishedState
  <2>11. GetAckedBytes(f) <= arrived[f]
    BY <2>7, <2>8, AckedIsSentLessBuffered DEF BytesSound
  <2>12. isCompleted[f] => /\ Ended(f) /\ arrived[f] = FlowSize[f]
                           /\ entry.start <= completionTime[f]
    <3> SUFFICES ASSUME isCompleted[f] PROVE /\ Ended(f) /\ arrived[f] = FlowSize[f]
                                             /\ entry.start <= completionTime[f]
      OBVIOUS
    <3>1. Ended(f) /\ ackedBytes[f] = FlowSize[f] /\ ackedBytes[f] = totBytes[f] - txSize[f]
      BY <2>8 DEF ReportSound, Ended
    <3>2. arrived[f] = FlowSize[f]
      BY <2>7, <2>8, <3>1, FlowAssumption DEF BytesSound, Typed, ClientTyped, NetworkTyped
    <3>3. started[f]
      BY <2>8, <3>1 DEF ReportSound
    <3>4. startedAt[f] = entry.start /\ startedAt[f] <= completionTime[f]
      BY <2>4, <2>8, <3>1, <3>3 DEF StartSound, f
    <3> QED BY <3>1, <3>2, <3>4
  <2>13. LET row == Row(s, i) IN
         /\ row.id = f /\ row.start = entry.start /\ row.sent = GetAckedBytes(f)
         /\ row.state = FinishedState(f)
         /\ row.end = IF isCompleted[f] THEN completionTime[f] ELSE MaxTime
    BY <2>3, <2>4, <2>6, <2>9
  <2>14. /\ entry.start = lines[f + 1].start /\ entry.start < MaxTime /\ entry.start \in Nat
         /\ rows[r[1]][r[2]] = Row(s, i)
    BY <2>2, <2>4 DEF s, i, f
  <2> QED BY <2>3, <2>9, <2>10, <2>11, <2>12, <2>13, <2>14
<1> QED BY <1>1, SchedulerInvAlways, PTL
=============================================================================
