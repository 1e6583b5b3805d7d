------------------------------- MODULE UdpPing -------------------------------
(***************************************************************************)
(* UDP pings of basic-sim: clients (UdpPingClient) on one node, each with  *)
(* an ephemeral port for as long as it runs, and the server (UdpPingServer) *)
(* that echoes.  The network loses, delays and reorders packets, and a     *)
(* port that was given back may be given to the next client while replies  *)
(* to its former owner are still on their way.                             *)
(***************************************************************************)
EXTENDS ExpUtil

CONSTANTS Ping,      \* the clients, by m_udpPingId
          Port,      \* ephemeral ports of a node
          EndTime    \* simulation_end_time_ns

ASSUME PingAssumption ==
  /\ IsFiniteSet(Ping) /\ Ping = 0 .. Cardinality(Ping) - 1 /\ EndTime \in Nat
  /\ Port \subseteq Nat \ {0} /\ Port # {} /\ IsFiniteSet(Port)

NoPort == 0
Never  == -1

VARIABLES
  lines,       \* the schedule: lines [id, from, to, interval, start, duration, wait]
  now,
  startTime,   \* m_startTime, Never before it
  port,        \* the port of m_socket, NoPort when it is 0
  sendEvent,   \* due time of m_sendEvent, Never when expired
  finishEvent, \* due time of m_waitForFinishEvent, Never when expired
  sendRequestTimestamps, replyTimestamps, receiveReplyTimestamps,
  aborted,     \* an NS_ABORT check or an exception ended the program
  net,         \* packets under way
  echoed       \* history: <<id, seq, time>> of every echo of the server

timestamps == <<sendRequestTimestamps, replyTimestamps, receiveReplyTimestamps>>
vars == <<lines, now, startTime, port, sendEvent, finishEvent, timestamps, aborted, net, echoed>>

(* What the schedule says of a client; UdpPingClientHelper hands it over.    *)
Entry(c)    == [f \in DOMAIN lines[c + 1] |-> Int64(lines[c + 1][f])]
Interval(c) == Entry(c).interval
Duration(c) == Entry(c).duration
Wait(c)     == Entry(c).wait

Init ==
  /\ now = 0 /\ aborted = FALSE /\ net = {} /\ echoed = {}
  /\ startTime = [c \in Ping |-> Never] /\ sendEvent = startTime /\ finishEvent = startTime
  /\ port = [c \in Ping |-> NoPort]
  /\ sendRequestTimestamps = [c \in Ping |-> <<>>]
  /\ replyTimestamps = sendRequestTimestamps /\ receiveReplyTimestamps = sendRequestTimestamps

Sent(c) == Len(sendRequestTimestamps[c])

SameNode(c) == {d \in Ping : d < Len(lines) /\ Entry(d).from = Entry(c).from}

FreePorts(c) == Port \ {port[d] : d \in SameNode(c)}

(* Bind to a free ephemeral port, which throws when there is none; first     *)
(* transmission right now.                                                   *)
StartApplication(c) ==
  /\ startTime[c] = Never
  /\ IF FreePorts(c) = {} THEN aborted' = TRUE /\ UNCHANGED <<port, startTime, sendEvent>>
     ELSE /\ \E p \in FreePorts(c) : port' = [port EXCEPT ![c] = p]
          /\ startTime' = [startTime EXCEPT ![c] = now]
          /\ sendEvent' = [sendEvent EXCEPT ![c] = now]
          /\ UNCHANGED aborted
  /\ UNCHANGED <<lines, now, finishEvent, timestamps, net, echoed>>

PushTimestamps(c) ==
  /\ sendRequestTimestamps' = [sendRequestTimestamps EXCEPT ![c] = Append(@, now)]
  /\ replyTimestamps' = [replyTimestamps EXCEPT ![c] = Append(@, -1)]
  /\ receiveReplyTimestamps' = [receiveReplyTimestamps EXCEPT ![c] = Append(@, -1)]

(* Mutant: a request may leave when the duration is exactly over.           *)
ScheduleNextInclusive(c) ==
  IF now + Interval(c) <= startTime[c] + Duration(c)
  THEN /\ sendEvent' = [sendEvent EXCEPT ![c] = now + Interval(c)]
       /\ UNCHANGED finishEvent
  ELSE /\ sendEvent' = [sendEvent EXCEPT ![c] = Never]
       /\ finishEvent' = [finishEvent EXCEPT ![c] = startTime[c] + Duration(c) + Wait(c)]

(* The next transmission within the duration, or the end after the wait.     *)
ScheduleNext(c) ==
  IF now + Interval(c) < startTime[c] + Duration(c)
  THEN /\ sendEvent' = [sendEvent EXCEPT ![c] = now + Interval(c)]
       /\ UNCHANGED finishEvent
  ELSE /\ sendEvent' = [sendEvent EXCEPT ![c] = Never]
       /\ finishEvent' = [finishEvent EXCEPT ![c] =
                            now + (startTime[c] + Duration(c) - now + Wait(c))]

Send(c) ==
  /\ sendEvent[c] = now
  /\ PushTimestamps(c)
  /\ net' = net \cup {[kind |-> "request", id |-> c, seq |-> Sent(c), ts |-> now,
                       back |-> <<Entry(c).from, port[c]>>]}
  /\ ScheduleNext(c)
  /\ UNCHANGED <<lines, now, startTime, port, aborted, echoed>>

(* UdpPingServer::HandleRead: id and seq come back, with the server's time.  *)
Echo(m) ==
  /\ m.kind = "request"
  /\ net' = (net \ {m}) \cup {[m EXCEPT !.kind = "reply", !.ts = now]}
  /\ echoed' = echoed \cup {<<m.id, m.seq, now>>}
  /\ UNCHANGED <<lines, now, startTime, port, sendEvent, finishEvent, timestamps, aborted>>

(* Mutant: whatever arrives on the port is taken for the client's own.      *)
HandleReadAnyId(c, m) ==
  IF m.seq >= Sent(c) \/ replyTimestamps[c][m.seq + 1] # -1
                      \/ receiveReplyTimestamps[c][m.seq + 1] # -1
  THEN aborted' = TRUE /\ UNCHANGED timestamps
  ELSE /\ replyTimestamps' = [replyTimestamps EXCEPT ![c][m.seq + 1] = m.ts]
       /\ receiveReplyTimestamps' = [receiveReplyTimestamps EXCEPT ![c][m.seq + 1] = now]
       /\ UNCHANGED <<sendRequestTimestamps, aborted>>

(* Mutant: the time of arrival is stored as that of the echo.               *)
HandleReadArrivalOnly(c, m) ==
  IF m.id # c THEN UNCHANGED <<timestamps, aborted>>
  ELSE /\ replyTimestamps' = [replyTimestamps EXCEPT ![c][m.seq + 1] = now]
       /\ receiveReplyTimestamps' = [receiveReplyTimestamps EXCEPT ![c][m.seq + 1] = now]
       /\ UNCHANGED <<sendRequestTimestamps, aborted>>

(* UdpPingClient::HandleRead: a reply to another id is ignored; one that     *)
(* was not asked for, or came before, aborts the program.                    *)
HandleRead(c, m) ==
  IF m.id # c THEN UNCHANGED <<timestamps, aborted>>
  ELSE IF m.seq >= Sent(c) \/ replyTimestamps[c][m.seq + 1] # -1
                           \/ receiveReplyTimestamps[c][m.seq + 1] # -1
  THEN aborted' = TRUE /\ UNCHANGED timestamps
  ELSE /\ replyTimestamps' = [replyTimestamps EXCEPT ![c][m.seq + 1] = m.ts]
       /\ receiveReplyTimestamps' = [receiveReplyTimestamps EXCEPT ![c][m.seq + 1] = now]
       /\ UNCHANGED <<sendRequestTimestamps, aborted>>

Arrive(m) ==
  /\ m.kind = "reply"
  /\ \E c \in Ping : port[c] # NoPort /\ <<Entry(c).from, port[c]>> = m.back /\ HandleRead(c, m)
  /\ net' = net \ {m}
  /\ UNCHANGED <<lines, now, startTime, port, sendEvent, finishEvent, echoed>>

(* Lost on a link or in a queue, or no socket at the port any more.          *)
Lose(m) ==
  /\ net' = net \ {m}
  /\ UNCHANGED <<lines, now, startTime, port, sendEvent, finishEvent, timestamps, aborted, echoed>>

(* Close the socket; the port is free again.  Both events must be over.      *)
Finish(c) ==
  /\ finishEvent[c] = now
  /\ finishEvent' = [finishEvent EXCEPT ![c] = Never]
  /\ IF sendEvent[c] # Never
     THEN aborted' = TRUE /\ UNCHANGED port
     ELSE port' = [port EXCEPT ![c] = NoPort] /\ UNCHANGED aborted
  /\ UNCHANGED <<lines, now, startTime, sendEvent, timestamps, net, echoed>>

PingStep ==
  \/ \E c \in Ping : Send(c) \/ Finish(c)
  \/ \E m \in net : Echo(m) \/ Arrive(m) \/ Lose(m)

------------------------------------------------------------------------------
(* No sanity check of a client ever fires: neither stale replies to a port   *)
(* that changed hands, nor reordering, nor the order of the two events; and  *)
(* a client that is over leaves its port to the next one.                    *)
NeverAborts == ~aborted

(* What a client records for a request is what happened to that request: the *)
(* server echoed this very id and sequence number at the reply timestamp,    *)
(* after it was sent and before it came back; else both stay at -1.          *)
RepliesAreOwn ==
  \A c \in Ping : \A k \in 1 .. Sent(c) :
    LET reply == replyTimestamps[c][k] IN
    IF reply = -1 THEN receiveReplyTimestamps[c][k] = -1
    ELSE /\ <<c, k - 1, reply>> \in echoed
         /\ sendRequestTimestamps[c][k] <= reply
         /\ reply <= receiveReplyTimestamps[c][k] /\ receiveReplyTimestamps[c][k] <= now

(* A client starts when its line says and sends at start, start + interval,  *)
(* ... strictly before start + duration (one request at least), and holds    *)
(* its port from its start until exactly duration + wait later.              *)
RequestsOnSchedule ==
  \A c \in Ping : startTime[c] # Never =>
    LET start == Entry(c).start
        over  == start + Duration(c) IN
    /\ startTime[c] = start
    /\ \A k \in 1 .. Sent(c) :
         /\ sendRequestTimestamps[c][k] = start + (k - 1) * Interval(c)
         /\ k > 1 => sendRequestTimestamps[c][k] < over
    /\ finishEvent[c] # Never =>
         finishEvent[c] = over + Wait(c) /\ start + Sent(c) * Interval(c) >= over
    /\ now > over + Wait(c) => port[c] = NoPort
    /\ now < over + Wait(c) => port[c] # NoPort
=============================================================================
