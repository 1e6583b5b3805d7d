------------------------------- MODULE TcpFlow -------------------------------
(***************************************************************************)
(* TCP flows of basic-sim: every client (TcpFlowClient) pushes a fixed     *)
(* number of bytes into its socket and closes; one server (TcpFlowServer)  *)
(* accepts, counts and forgets the connections.  The ns-3 socket is        *)
(* external: its send buffer, its handshakes, the bytes it delivers and    *)
(* acknowledges, and the callbacks it may invoke.  Detailed logging is on. *)
(***************************************************************************)
EXTENDS Integers, FiniteSets, SequencesExt

CONSTANTS Flow,       \* the flows; a flow is its client
          FlowSize,   \* [Flow -> bytes], m_flowSizeByte
          SendStep,   \* m_sendStepSize
          BufferCap,  \* capacity of the send buffer of a socket
          MaxTime     \* bound on time

ASSUME FlowAssumption ==
  /\ FlowSize \in [Flow -> Nat \ {0}]    \* the checker of attribute FlowSizeByte
  /\ SendStep \in Nat \ {0} /\ MaxTime \in Nat
  /\ BufferCap \in Nat /\ SendStep <= BufferCap

VARIABLES
  now,
  \* client
  started, hasSocket, connected, totBytes, completionTime,
  connFailed, closedNormally, closedByError, ackedBytes, isCompleted,
  progress,    \* last update of the progress log, [at, is]
  stateAt,     \* time of the last update of the socket state log
  aborted,     \* an NS_ABORT_MSG check ended the program
  \* server
  socketList, totalRx,
  \* ns-3 sockets: client side, its send buffer, close requested, bytes that
  \* reached the server, the accepted socket on the server side
  sock, txSize, closeRequested, arrived, child

client  == <<started, hasSocket, connected, totBytes, completionTime, connFailed,
             closedNormally, closedByError, ackedBytes, isCompleted, progress, stateAt>>
server  == <<socketList, totalRx>>
network == <<sock, txSize, closeRequested, arrived, child>>
vars    == <<now, client, aborted, server, network>>

SockState  == {"none", "SYN_SENT", "ESTABLISHED", "FIN_WAIT", "TIME_WAIT", "CLOSED"}
ChildState == {"none", "open", "lastack", "done", "dead"}

Init ==
  /\ now = 0 /\ aborted = FALSE
  /\ started = [f \in Flow |-> FALSE] /\ hasSocket = started /\ connected = started
  /\ totBytes = [f \in Flow |-> 0] /\ ackedBytes = totBytes
  /\ completionTime = [f \in Flow |-> -1]
  /\ connFailed = started /\ closedNormally = started
  /\ closedByError = started /\ isCompleted = started
  /\ progress = [f \in Flow |-> [at |-> -1, is |-> 0]]
  /\ stateAt = completionTime
  /\ socketList = <<>> /\ totalRx = 0
  /\ sock = [f \in Flow |-> "none"] /\ child = sock
  /\ txSize = totBytes /\ arrived = totBytes /\ closeRequested = started

Ended(f) == connFailed[f] \/ closedNormally[f] \/ closedByError[f]

(* m_totBytes - TxBuffer size while the socket lives, frozen afterwards.    *)
GetAckedBytes(f) == IF Ended(f) THEN ackedBytes[f] ELSE totBytes[f] - txSize[f]

------------------------------------------------------------------------------
(* Socket::Send in a loop: packets of SendStep bytes are accepted while they *)
(* fit; the first that does not is refused (-1) or taken in part, and ends   *)
(* the loop.  A socket whose FIN is out refuses everything.                  *)
SentTotals(f, state) ==
  LET rest == FlowSize[f] - totBytes[f]
      free == BufferCap - txSize[f] IN
  IF state # "ESTABLISHED" THEN {totBytes[f]}
  ELSE IF rest <= free THEN {FlowSize[f]}
  ELSE {totBytes[f] + free - (free % SendStep), totBytes[f] + free}

(* Mutant: the client forgets to close once everything is in.               *)
SendDataNeverCloses(f, state) ==
  \E total \in SentTotals(f, state) :
    /\ txSize' = [txSize EXCEPT ![f] = @ + total - totBytes[f]]
    /\ totBytes' = [totBytes EXCEPT ![f] = total]
    /\ connected' = [connected EXCEPT ![f] = TRUE]
    /\ UNCHANGED closeRequested

(* SendData of a connected client: fill the buffer, and once every byte is   *)
(* in, Close and stop sending.                                               *)
SendData(f, state) ==
  \E total \in SentTotals(f, state) :
    /\ txSize' = [txSize EXCEPT ![f] = @ + total - totBytes[f]]
    /\ totBytes' = [totBytes EXCEPT ![f] = total]
    /\ connected' = [connected EXCEPT ![f] = total # FlowSize[f]]
    /\ closeRequested' = [closeRequested EXCEPT ![f] = @ \/ total = FlowSize[f]]

(* A trace callback of the socket state.                                     *)
StateChange(f, to) ==
  /\ sock' = [sock EXCEPT ![f] = to]
  /\ stateAt' = [stateAt EXCEPT ![f] = now]

(* The report of a flow that ended: exactly one flag, now.                   *)
Conclude(f, flag, acked, completed) ==
  /\ completionTime' = [completionTime EXCEPT ![f] = now]
  /\ connFailed' = [connFailed EXCEPT ![f] = flag = "connFailed"]
  /\ closedNormally' = [closedNormally EXCEPT ![f] = flag = "closedNormally"]
  /\ closedByError' = [closedByError EXCEPT ![f] = flag = "closedByError"]
  /\ ackedBytes' = [ackedBytes EXCEPT ![f] = acked]
  /\ isCompleted' = [isCompleted EXCEPT ![f] = completed]
  /\ hasSocket' = [hasSocket EXCEPT ![f] = FALSE]

ConnectionFailedReport(f) == Conclude(f, "connFailed", 0, FALSE)

report == <<completionTime, connFailed, closedNormally, closedByError, ackedBytes, isCompleted>>

(* StartApplication, called once per client: socket, traces, Connect.  With  *)
(* no route Connect returns -1 and the flow has failed on the spot.          *)
StartApplication(f) ==
  /\ ~started[f]
  /\ started' = [started EXCEPT ![f] = TRUE]
  /\ progress' = [progress EXCEPT ![f] = [at |-> now, is |-> 0]]
  /\ \/ /\ StateChange(f, "SYN_SENT")
        /\ hasSocket' = [hasSocket EXCEPT ![f] = TRUE]
        /\ UNCHANGED report
     \/ /\ StateChange(f, "CLOSED")
        /\ ConnectionFailedReport(f)
  /\ UNCHANGED <<now, aborted, connected, totBytes, server, txSize, closeRequested, arrived, child>>

ConnectionSucceeded(f) ==
  /\ sock[f] = "SYN_SENT"
  /\ StateChange(f, "ESTABLISHED")
  /\ SendData(f, "ESTABLISHED")
  /\ UNCHANGED <<now, aborted, started, hasSocket, report, progress, server, arrived, child>>

ConnectionFailed(f) ==
  /\ sock[f] = "SYN_SENT"
  /\ StateChange(f, "CLOSED")
  /\ ConnectionFailedReport(f)
  /\ UNCHANGED <<now, aborted, started, connected, totBytes, progress, server, txSize,
                 closeRequested, arrived, child>>

(* The socket reports room in its buffer.                                   *)
DataSend(f) ==
  /\ sock[f] \in {"ESTABLISHED", "FIN_WAIT"} /\ txSize[f] < BufferCap
  /\ connected[f]
  /\ SendData(f, sock[f])
  /\ UNCHANGED <<now, aborted, started, hasSocket, report, progress, stateAt, server, sock,
                 arrived, child>>

(* Bytes are acknowledged: the buffer shrinks first, then UnackSequence      *)
(* fires and the progress log takes GetAckedBytes().                         *)
(* Mutant: the trace fires before the buffer has shrunk.                    *)
TxBufferUnackSequenceChangeEarly(f) ==
  progress' = [progress EXCEPT ![f] = [at |-> now, is |-> GetAckedBytes(f)]]

TxBufferUnackSequenceChange(f) ==
  progress' = [progress EXCEPT ![f] = [at |-> now, is |-> GetAckedBytes(f)']]

Acknowledge(f) ==
  /\ sock[f] \in {"ESTABLISHED", "FIN_WAIT"}
  /\ \E n \in 1 .. arrived[f] - GetAckedBytes(f) : txSize' = [txSize EXCEPT ![f] = @ - n]
  /\ UNCHANGED <<report, totBytes>>
  /\ TxBufferUnackSequenceChange(f)
  /\ UNCHANGED <<now, aborted, started, hasSocket, connected, stateAt, server, sock,
                 closeRequested, arrived, child>>

(* The FIN leaves, with or after the last byte of the buffer.                *)
SendFin(f) ==
  /\ sock[f] = "ESTABLISHED" /\ closeRequested[f]
  /\ StateChange(f, "FIN_WAIT")
  /\ UNCHANGED <<now, aborted, started, hasSocket, connected, report, totBytes, progress, server,
                 txSize, closeRequested, arrived, child>>

(* Somebody else closes the client's socket (TcpFlowClient::GetSocket).      *)
CloseFromOutside(f) ==
  /\ hasSocket[f] /\ sock[f] = "ESTABLISHED" /\ ~closeRequested[f]
  /\ closeRequested' = [closeRequested EXCEPT ![f] = TRUE]
  /\ UNCHANGED <<now, aborted, client, server, sock, txSize, arrived, child>>

(* Mutant: every normal close counts as completion.                         *)
SocketClosedNormalAlwaysComplete(f) ==
  /\ Conclude(f, "closedNormally", totBytes[f] - txSize[f], TRUE)
  /\ aborted' = (txSize[f] # 0)

(* The abort check sits between the flags and the rest: the program ends     *)
(* there, and what it leaves behind is never read.                           *)
SocketClosedNormal(f) ==
  /\ Conclude(f, "closedNormally", totBytes[f] - txSize[f],
              totBytes[f] - txSize[f] = FlowSize[f])
  /\ aborted' = (txSize[f] # 0)

(* Mutant: copied from ConnectionFailed, nothing was acknowledged.          *)
SocketClosedErrorZero(f) ==
  Conclude(f, "closedByError", 0, FALSE)

SocketClosedError(f) ==
  Conclude(f, "closedByError", totBytes[f] - txSize[f], FALSE)

(* The closing handshake is over: everything, FIN included, is acknowledged. *)
CloseHandshake(f) ==
  /\ sock[f] = "FIN_WAIT" /\ txSize[f] = 0 /\ child[f] \in {"lastack", "done"}
  /\ StateChange(f, "TIME_WAIT")
  /\ SocketClosedNormal(f)
  /\ UNCHANGED <<now, started, connected, totBytes, progress, server, txSize, closeRequested,
                 arrived, child>>

(* A reset by the peer is a normal close to the application.                 *)
Reset(f) ==
  /\ sock[f] \in {"SYN_SENT", "ESTABLISHED", "FIN_WAIT"}
  /\ StateChange(f, "CLOSED")
  /\ SocketClosedNormal(f)
  /\ UNCHANGED <<now, started, connected, totBytes, progress, server, txSize, closeRequested,
                 arrived, child>>

(* Retransmissions are exhausted.                                            *)
RetriesExhausted(f) ==
  /\ sock[f] \in {"ESTABLISHED", "FIN_WAIT"}
  /\ StateChange(f, "CLOSED")
  /\ SocketClosedError(f)
  /\ UNCHANGED <<now, aborted, started, connected, totBytes, progress, server, txSize,
                 closeRequested, arrived, child>>

(* 2 MSL after the client was told, its socket still changes state.          *)
TimeWaitOver(f) ==
  /\ sock[f] = "TIME_WAIT"
  /\ StateChange(f, "CLOSED")
  /\ UNCHANGED <<now, aborted, started, hasSocket, connected, report, totBytes, progress, server,
                 txSize, closeRequested, arrived, child>>

------------------------------------------------------------------------------
(* The server.                                                              *)
HandleAccept(f) ==
  /\ child[f] = "none" /\ sock[f] \in {"ESTABLISHED", "FIN_WAIT"}
  /\ child' = [child EXCEPT ![f] = "open"]
  /\ socketList' = Append(socketList, f)
  /\ UNCHANGED <<now, aborted, client, totalRx, sock, txSize, closeRequested, arrived>>

(* Mutant: only the first packet in the socket is read and counted.         *)
HandleReadOne(f, n) == totalRx' = totalRx + 1

(* The socket is drained at once, so what arrives is what is counted.        *)
HandleRead(f, n) == totalRx' = totalRx + n

Deliver(f) ==
  /\ child[f] = "open" /\ sock[f] # "none"
  /\ \E n \in 1 .. totBytes[f] - arrived[f] :
       /\ arrived' = [arrived EXCEPT ![f] = @ + n]
       /\ HandleRead(f, n)
  /\ UNCHANGED <<now, aborted, client, socketList, sock, txSize, closeRequested, child>>

(* Mutant: the front of the list is erased, whoever it is.                  *)
CleanUpFront(f) ==
  socketList' = IF socketList = <<>> THEN <<>> ELSE Tail(socketList)

(* Erase the first entry that is this socket, if there is one.               *)
CleanUp(f) == socketList' = RemoveFirst(socketList, f)

(* The FIN of the client arrived, after all of its data; the socket answers  *)
(* with its own and waits for the last acknowledgement.                      *)
HandlePeerClose(f) ==
  /\ child[f] = "open" /\ sock[f] = "FIN_WAIT" /\ arrived[f] = totBytes[f]
  /\ child' = [child EXCEPT ![f] = "lastack"]
  /\ CleanUp(f)
  /\ UNCHANGED <<now, aborted, client, totalRx, sock, txSize, closeRequested, arrived>>

(* An error; after a normal close when the LAST_ACK retries fail.            *)
HandlePeerError(f) ==
  /\ child[f] \in {"open", "lastack"}
  /\ child' = [child EXCEPT ![f] = IF child[f] = "open" THEN "dead" ELSE "done"]
  /\ CleanUp(f)
  /\ UNCHANGED <<now, aborted, client, totalRx, sock, txSize, closeRequested, arrived>>

LastAckReceived(f) ==
  /\ child[f] = "lastack" /\ sock[f] \in {"TIME_WAIT", "CLOSED"}
  /\ child' = [child EXCEPT ![f] = "done"]
  /\ UNCHANGED <<now, aborted, client, server, sock, txSize, closeRequested, arrived>>

Tick ==
  /\ now < MaxTime /\ now' = now + 1
  /\ UNCHANGED <<client, aborted, server, network>>

FlowStep(f) ==
  \/ StartApplication(f) \/ ConnectionSucceeded(f) \/ ConnectionFailed(f)
  \/ DataSend(f) \/ Acknowledge(f) \/ SendFin(f) \/ CloseFromOutside(f)
  \/ CloseHandshake(f) \/ Reset(f) \/ RetriesExhausted(f) \/ TimeWaitOver(f)
  \/ HandleAccept(f) \/ Deliver(f) \/ HandlePeerClose(f) \/ HandlePeerError(f)
  \/ LastAckReceived(f)

Next == ~aborted /\ (Tick \/ \E f \in Flow : FlowStep(f))

Spec == Init /\ [][Next]_vars

(* A network that moves what it was given: handshakes are answered, bytes    *)
(* and FINs arrive and are acknowledged, room in a buffer is announced, and  *)
(* a client whose peer is gone gives up.  Failures are allowed, not owed.    *)
Moving(f) ==
  /\ WF_vars(~aborted /\ (ConnectionSucceeded(f) \/ ConnectionFailed(f)))
  /\ WF_vars(~aborted /\ HandleAccept(f)) /\ WF_vars(~aborted /\ Deliver(f))
  /\ WF_vars(~aborted /\ Acknowledge(f)) /\ WF_vars(~aborted /\ DataSend(f))
  /\ WF_vars(~aborted /\ SendFin(f)) /\ WF_vars(~aborted /\ HandlePeerClose(f))
  /\ WF_vars(~aborted /\ CloseHandshake(f))
  /\ WF_vars(~aborted /\ child[f] = "dead" /\ RetriesExhausted(f))

FairSpec == Spec /\ \A f \in Flow : Moving(f)

------------------------------------------------------------------------------
(* FinalizeDetailedLogs: the time the transport logs and the state log are   *)
(* closed at.  LogUpdateHelper throws when a log was updated later.          *)
(* Mutant: every log ends with the connection.                              *)
FinalizeTimesTogether(f) ==
  LET stamp == IF Ended(f) THEN completionTime[f] ELSE now IN
  [transport |-> stamp, state |-> stamp]

FinalizeTimes(f) ==
  [transport |-> IF Ended(f) THEN completionTime[f] ELSE now, state |-> now]

(* The value each variable may take.                                         *)
TypeOK ==
  /\ now \in 0 .. MaxTime /\ aborted \in BOOLEAN
  /\ totBytes \in [Flow -> Nat] /\ \A f \in Flow : totBytes[f] <= FlowSize[f]
  /\ ackedBytes \in [Flow -> Nat] /\ arrived \in [Flow -> Nat] /\ totalRx \in Nat
  /\ txSize \in [Flow -> 0 .. BufferCap]
  /\ completionTime \in [Flow -> -1 .. MaxTime] /\ stateAt \in [Flow -> -1 .. MaxTime]
  /\ progress \in [Flow -> [at : -1 .. MaxTime, is : Nat]]
  /\ {started, hasSocket, connected, connFailed, closedNormally, closedByError,
      isCompleted, closeRequested} \subseteq [Flow -> BOOLEAN]
  /\ sock \in [Flow -> SockState] /\ child \in [Flow -> ChildState]
  /\ socketList \in Seq(Flow)

(* The two ends agree: what a client counts as acknowledged has reached the  *)
(* server, nothing arrived that was not sent, and the server's total over    *)
(* all connections lies between the clients' acknowledged and sent totals    *)
(* (SendData's count, GetAckedBytes' subtraction, HandleRead's sum).         *)
BytesConserved ==
  /\ \A f \in Flow : 0 <= GetAckedBytes(f) /\ GetAckedBytes(f) <= arrived[f]
                     /\ arrived[f] <= totBytes[f]
  /\ totalRx = SumFunction(arrived)

(* A flow reported as completed was closed normally, with every byte of it   *)
(* at the server: a reset or an outside close never counts as completion.    *)
CompletedIsDelivered ==
  \A f \in Flow : isCompleted[f] /\ ~aborted =>
    /\ closedNormally[f] /\ ~connFailed[f] /\ ~closedByError[f]
    /\ ackedBytes[f] = FlowSize[f] /\ arrived[f] = FlowSize[f]

(* The last value of the progress log is at all times the amount a report    *)
(* would give as sent, over whichever way the flow ended                     *)
(* (test-case-with-log-validators.cc compares the two).                      *)
ProgressMatchesAcked ==
  \A f \in Flow : started[f] => progress[f].is = GetAckedBytes(f)

(* FinalizeDetailedLogs never asks a LogUpdateHelper to end before its last  *)
(* update, also for a socket that changes state after the close callback.    *)
DetailedLogsFinalizable ==
  \A f \in Flow : started[f] =>
    /\ progress[f].at <= FinalizeTimes(f).transport
    /\ stateAt[f] <= FinalizeTimes(f).state

(* The server lists exactly its open connections, once each, although the    *)
(* clean-up of one of them may run twice with others accepted in between.    *)
ListedIffOpen ==
  IsInjective(socketList) /\ ToSet(socketList) = {f \in Flow : child[f] = "open"}

(* Reported progress never falls, whichever callbacks run and in whatever    *)
(* order: sending, acknowledgements, closing.                                *)
ProgressAscends ==
  [][\A f \in Flow : GetAckedBytes(f)' >= GetAckedBytes(f)]_vars

(* A started flow ends on a network that keeps moving: the client neither    *)
(* waits for room it is never told about nor leaves the socket unclosed.     *)
FlowEnds == \A f \in Flow : started[f] ~> (Ended(f) \/ aborted)
=============================================================================
