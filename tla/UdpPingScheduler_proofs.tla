----------------------- MODULE UdpPingScheduler_proofs -----------------------
(***************************************************************************)
(* For every schedule, any number of clients and ports and any network:    *)
(* the requests leave on schedule, what a client records is what happened  *)
(* to its requests, and no check of a client ever fires.                   *)
(***************************************************************************)
EXTENDS UdpPingScheduler, Lists_proofs

-----------------------------------------------------------------------------
(* The inductive invariant.                                                  *)

Packet == [kind : {"request", "reply"}, id : Ping, seq : Nat, ts : Nat, back : Int \X Nat]
Listed == 0 .. Len(lines) - 1

ClientsTyped ==
  /\ startTime \in [Ping -> Int] /\ sendEvent \in [Ping -> Int]
  /\ finishEvent \in [Ping -> Int] /\ port \in [Ping -> Port \cup {NoPort}]
  /\ sendRequestTimestamps \in [Ping -> Seq(Int)]
  /\ replyTimestamps \in [Ping -> Seq(Int)]
  /\ receiveReplyTimestamps \in [Ping -> Seq(Int)]
  /\ net \subseteq Packet /\ aborted \in BOOLEAN

SchedulingTyped ==
  /\ lines \in Schedule /\ now \in Nat
  /\ assignment \in [Endpoint -> System]
  /\ phase \in {"setup", "running", "stopped", "threw"}
  /\ schedule \in [System -> Seq({Entry(c) : c \in Listed})]
  /\ event \in [System -> Nat] /\ apps \in [System -> Seq(Listed)]

Started(c) == startTime[c] # Never

(* Only an accepted schedule is run; a client is installed at the time of    *)
(* its entry, and that time does not pass before it is started.              *)
SchedulingSound ==
  /\ phase \in {"running", "stopped"} => Accepted
  /\ \A s \in System : /\ event[s] <= Len(schedule[s])
                       /\ phase \in {"setup", "threw"} => event[s] = 0 /\ apps[s] = <<>>
  /\ \A c \in Installed : Started(c) \/ now = Entry(c).start
  /\ \A c \in Ping : Started(c) => c \in Installed

(* Where a client that was started is: about to send, waiting, or over.      *)
OnSchedule(c) ==
  LET start == Entry(c).start
      over  == start + Duration(c) IN
  /\ startTime[c] = start /\ start <= now
  /\ \A k \in 1 .. Sent(c) :
       /\ sendRequestTimestamps[c][k] = start + (k - 1) * Interval(c)
       /\ sendRequestTimestamps[c][k] <= now
       /\ k > 1 => sendRequestTimestamps[c][k] < over
  /\ sendEvent[c] # Never =>
       /\ now <= sendEvent[c] /\ sendEvent[c] = start + Sent(c) * Interval(c)
       /\ Sent(c) > 0 => sendEvent[c] < over
       /\ finishEvent[c] = Never /\ port[c] # NoPort
  /\ finishEvent[c] # Never =>
       /\ now <= finishEvent[c] /\ finishEvent[c] = over + Wait(c)
       /\ start + Sent(c) * Interval(c) >= over
       /\ sendEvent[c] = Never /\ port[c] # NoPort
  /\ sendEvent[c] = Never /\ finishEvent[c] = Never =>
       now >= over + Wait(c) /\ port[c] = NoPort

ClientSound(c) ==
  /\ Len(replyTimestamps[c]) = Sent(c) /\ Len(receiveReplyTimestamps[c]) = Sent(c)
  /\ IF Started(c) THEN OnSchedule(c)
     ELSE /\ sendEvent[c] = Never /\ finishEvent[c] = Never
          /\ port[c] = NoPort /\ Sent(c) = 0

(* A packet under way is the only trace of its request, which is open.       *)
PacketSound(m) ==
  /\ m.seq < Sent(m.id) /\ m.ts <= now
  /\ replyTimestamps[m.id][m.seq + 1] = -1 /\ receiveReplyTimestamps[m.id][m.seq + 1] = -1
  /\ sendRequestTimestamps[m.id][m.seq + 1] <= m.ts
  /\ m.kind = "reply" => <<m.id, m.seq, m.ts>> \in echoed

NetSound ==
  /\ \A m \in net : PacketSound(m)
  /\ \A m, n \in net : m.id = n.id /\ m.seq = n.seq => m = n

ClientsSound == \A c \in Ping : ClientSound(c)

IInv ==
  /\ ClientsTyped /\ SchedulingTyped /\ SchedulingSound /\ ClientsSound
  /\ NetSound /\ RepliesAreOwn

-----------------------------------------------------------------------------
(* What the reader lets through (udp-ping-schedule-reader.cc:89-171).         *)

LEMMA PositiveIsNat ==
  ASSUME NEW t \in Token, IsPositive(t)
  PROVE  Int64(t) \in Nat
<1>1. t \in Int \X Nat /\ t[1] >= 0
  BY DEF Token, IsPositive, IsInt64, Int64
<1> QED BY <1>1 DEF Int64

LEMMA EntryFacts ==
  ASSUME Accepted, lines \in Schedule, NEW c \in Listed
  PROVE  /\ Entry(c).id = c /\ Entry(c).start \in Nat /\ Entry(c).from \in Nat
         /\ Interval(c) \in Nat \ {0} /\ Duration(c) \in Nat /\ Wait(c) \in Nat
<1>1. lines \in Seq(ScheduleLine)
  BY SchedulerAssumption
<1>2. c \in Nat /\ c + 1 \in DOMAIN lines /\ (c + 1) - 1 = c
  BY <1>1 DEF Listed
<1>3. lines[c + 1] \in ScheduleLine
  BY <1>1, <1>2
<1> DEFINE Fields == {"id", "from", "to", "interval", "start", "duration", "wait"}
<1>4. DOMAIN lines[c + 1] = Fields /\ \A f \in Fields : lines[c + 1][f] \in Token
  BY <1>3 DEF ScheduleLine
<1>5. IsEntry(c + 1)
  BY <1>2 DEF Accepted
<1>6. \A f \in Fields : Int64(lines[c + 1][f]) \in Nat
  BY <1>4, <1>5, PositiveIsNat DEF IsEntry
<1>7. Entry(c) = [f \in Fields |-> Int64(lines[c + 1][f])]
  BY <1>4 DEF Entry
<1>8. Entry(c).id = c /\ Entry(c).interval # 0
  BY <1>2, <1>5 DEF IsEntry
<1>9. \A f \in Fields : Entry(c)[f] \in Nat
  BY <1>6, <1>7
<1> QED BY <1>8, <1>9 DEF Interval, Duration, Wait

(* A client that is installed has an entry that was accepted.                *)
LEMMA InstalledIsListed ==
  ASSUME SchedulingTyped, SchedulingSound, NEW c \in Installed
  PROVE  c \in Listed /\ Accepted
<1>1. PICK s \in System : c \in Range(apps[s])
  BY DEF Installed
<1>2. PICK i \in DOMAIN apps[s] : c = apps[s][i]
  BY <1>1 DEF Range
<1>3. apps[s] \in Seq(Listed) /\ apps[s] # <<>>
  BY <1>2 DEF SchedulingTyped
<1>4. phase \in {"running", "stopped"}
  BY <1>3 DEF SchedulingTyped, SchedulingSound
<1> QED BY <1>2, <1>3, <1>4 DEF SchedulingSound

LEMMA StartedIsListed ==
  ASSUME SchedulingTyped, SchedulingSound, NEW c \in Ping, Started(c)
  PROVE  c \in Listed /\ Accepted
  BY InstalledIsListed DEF SchedulingSound

LEMMA ListedIsPing ==
  ASSUME lines \in Schedule
  PROVE  Listed \subseteq Ping
<1>1. Len(lines) \in Nat /\ Len(lines) <= Cardinality(Ping)
  BY SchedulerAssumption
<1>2. Cardinality(Ping) \in Nat
  BY PingAssumption, FS_CardinalityType
<1> QED BY <1>1, <1>2, PingAssumption DEF Listed

-----------------------------------------------------------------------------
(* What a step leaves alone.                                                 *)

LEMMA EntriesStay ==
  ASSUME UNCHANGED lines
  PROVE  /\ \A c : /\ Entry(c)' = Entry(c) /\ Interval(c)' = Interval(c)
                   /\ Duration(c)' = Duration(c) /\ Wait(c)' = Wait(c)
         /\ Listed' = Listed /\ Accepted' = Accepted
  BY DEF Entry, Interval, Duration, Wait, Listed, Accepted, IsEntry

LEMMA SchedulingStays ==
  ASSUME SchedulingTyped, SchedulingSound,
         UNCHANGED <<lines, now, startTime>>, UNCHANGED scheduling
  PROVE  SchedulingTyped' /\ SchedulingSound'
<1>1. SchedulingTyped'
  BY EntriesStay DEF SchedulingTyped, scheduling
<1>2. Installed' = Installed /\ \A c : Started(c)' = Started(c)
  BY DEF scheduling, Installed, Started
<1>3. SchedulingSound'
  BY <1>2, EntriesStay DEF SchedulingSound, scheduling
<1> QED BY <1>1, <1>3

LEMMA ClientStays ==
  ASSUME NEW c, ClientSound(c), UNCHANGED <<lines, now>>,
         startTime'[c] = startTime[c], sendEvent'[c] = sendEvent[c],
         finishEvent'[c] = finishEvent[c], port'[c] = port[c],
         sendRequestTimestamps'[c] = sendRequestTimestamps[c],
         Len(replyTimestamps'[c]) = Len(replyTimestamps[c]),
         Len(receiveReplyTimestamps'[c]) = Len(receiveReplyTimestamps[c])
  PROVE  ClientSound(c)'
<1>1. Sent(c)' = Sent(c) /\ Started(c)' = Started(c)
  BY DEF Sent, Started
<1>2. OnSchedule(c) => OnSchedule(c)'
  BY <1>1, EntriesStay DEF OnSchedule
<1> QED BY <1>1, <1>2 DEF ClientSound

LEMMA PlaceOf ==
  ASSUME ClientsTyped, NEW m \in Packet, PacketSound(m)
  PROVE  /\ m.id \in Ping /\ m.seq \in Nat /\ m.ts \in Nat /\ Sent(m.id) \in Nat
         /\ m.seq + 1 \in 1 .. Sent(m.id)
<1>1. m.seq \in Nat /\ m.id \in Ping /\ m.ts \in Nat
  BY DEF Packet
<1>2. Sent(m.id) \in Nat
  BY <1>1 DEF Sent, ClientsTyped
<1> QED BY <1>1, <1>2 DEF PacketSound

LEMMA PacketStays ==
  ASSUME ClientsTyped, now \in Nat, NEW m \in Packet, PacketSound(m),
         now' \in Nat, now <= now', echoed \subseteq echoed',
         Sent(m.id)' \in Nat, Sent(m.id) <= Sent(m.id)',
         \A k \in 1 .. Sent(m.id) :
           k = m.seq + 1 =>
             /\ sendRequestTimestamps'[m.id][k] = sendRequestTimestamps[m.id][k]
             /\ replyTimestamps'[m.id][k] = replyTimestamps[m.id][k]
             /\ receiveReplyTimestamps'[m.id][k] = receiveReplyTimestamps[m.id][k]
  PROVE  PacketSound(m)'
<1>1. /\ m.id \in Ping /\ m.seq \in Nat /\ m.ts \in Nat /\ Sent(m.id) \in Nat
      /\ m.seq + 1 \in 1 .. Sent(m.id)
  BY PlaceOf
<1> QED BY <1>1 DEF PacketSound

(* What is recorded stays true while time passes and echoes are added.       *)
LEMMA RepliesStay ==
  ASSUME ClientsTyped, ClientsSound, RepliesAreOwn, now \in Nat, now' \in Nat, now <= now',
         echoed \subseteq echoed', UNCHANGED timestamps
  PROVE  RepliesAreOwn'
<1> SUFFICES ASSUME NEW c \in Ping, NEW k \in 1 .. Sent(c)
             PROVE  LET reply == replyTimestamps[c][k] IN
                    IF reply = -1 THEN receiveReplyTimestamps[c][k] = -1
                    ELSE /\ <<c, k - 1, reply>> \in echoed'
                         /\ sendRequestTimestamps[c][k] <= reply
                         /\ reply <= receiveReplyTimestamps[c][k]
                         /\ receiveReplyTimestamps[c][k] <= now'
  BY DEF RepliesAreOwn, timestamps, Sent
<1>1. replyTimestamps[c][k] # -1 => receiveReplyTimestamps[c][k] <= now
  BY DEF RepliesAreOwn
<1>2. receiveReplyTimestamps[c][k] \in Int
  BY DEF ClientsTyped, ClientsSound, ClientSound
<1> QED BY <1>1, <1>2 DEF RepliesAreOwn

-----------------------------------------------------------------------------
LEMMA PortsAreNumbers ==
  Port \subseteq Nat \ {0}
  BY PingAssumption

(* A client sends: udp-ping-client.cc, Send and ScheduleNext.                *)
LEMMA SendKeeps ==
  ASSUME IInv, NEW c \in Ping, Send(c), UNCHANGED scheduling
  PROVE  IInv'
<1> USE DEF IInv
<1>1. /\ UNCHANGED <<lines, now, startTime, port, aborted, echoed>>
      /\ now \in Nat /\ now' \in Nat /\ now <= now' /\ echoed \subseteq echoed'
  BY DEF Send, SchedulingTyped
<1>2. Started(c) /\ ClientSound(c) /\ OnSchedule(c)
  BY DEF Send, ClientsSound, ClientSound, Never, SchedulingTyped
<1>3. /\ c \in Listed /\ Accepted /\ Entry(c).start \in Nat /\ Entry(c).from \in Nat
      /\ Interval(c) \in Nat \ {0} /\ Duration(c) \in Nat /\ Wait(c) \in Nat
  BY <1>2, StartedIsListed, EntryFacts DEF SchedulingTyped
<1> DEFINE n == Sent(c)
<1>4. n \in Nat /\ Len(replyTimestamps[c]) = n /\ Len(receiveReplyTimestamps[c]) = n
  BY <1>2 DEF Sent, ClientsTyped, ClientSound
<1>5. PICK m \in Packet :
        /\ m = [kind |-> "request", id |-> c, seq |-> n, ts |-> now,
                back |-> <<Entry(c).from, port[c]>>]
        /\ m.id = c /\ m.seq = n /\ m.ts = now /\ m.kind = "request"
  <2>1. port[c] \in Nat
    <3>1. port[c] \in Port \cup {0}
      BY DEF ClientsTyped, NoPort
    <3>2. 0 \in Nat
      OBVIOUS
    <3> QED BY <3>1, <3>2, PortsAreNumbers, Zenon
  <2>2. <<Entry(c).from, port[c]>> \in Int \X Nat
    BY <1>3, <2>1
  <2>3. [kind |-> "request", id |-> c, seq |-> n, ts |-> now,
         back |-> <<Entry(c).from, port[c]>>] \in Packet
    BY <1>1, <1>4, <2>2 DEF Packet
  <2> QED BY <2>3
<1>6. /\ sendRequestTimestamps'[c] = Append(sendRequestTimestamps[c], now)
      /\ replyTimestamps'[c] = Append(replyTimestamps[c], -1)
      /\ receiveReplyTimestamps'[c] = Append(receiveReplyTimestamps[c], -1)
      /\ \A d \in Ping \ {c} :
           /\ sendRequestTimestamps'[d] = sendRequestTimestamps[d]
           /\ replyTimestamps'[d] = replyTimestamps[d]
           /\ receiveReplyTimestamps'[d] = receiveReplyTimestamps[d]
           /\ sendEvent'[d] = sendEvent[d] /\ finishEvent'[d] = finishEvent[d]
  BY DEF Send, PushTimestamps, ScheduleNext, ClientsTyped
<1>7. ClientsTyped'
  <2>1. sendEvent' \in [Ping -> Int] /\ finishEvent' \in [Ping -> Int]
    <3>1. startTime[c] \in Int /\ now + Interval(c) \in Int /\ Never \in Int
      BY <1>1, <1>3 DEF ClientsTyped, Never
    <3>2. now + (startTime[c] + Duration(c) - now + Wait(c)) \in Int
      BY <1>1, <1>3, <3>1
    <3> QED BY <3>1, <3>2 DEF Send, ScheduleNext, ClientsTyped
  <2>2. /\ sendRequestTimestamps' \in [Ping -> Seq(Int)]
        /\ replyTimestamps' \in [Ping -> Seq(Int)]
        /\ receiveReplyTimestamps' \in [Ping -> Seq(Int)]
    BY <1>1 DEF Send, PushTimestamps, ClientsTyped
  <2>3. net' \subseteq Packet
    BY <1>5 DEF Send, ClientsTyped
  <2> QED BY <1>1, <2>1, <2>2, <2>3 DEF ClientsTyped
<1>8. SchedulingTyped' /\ SchedulingSound'
  BY <1>1, SchedulingStays
<1>9. /\ Sent(c)' = n + 1
      /\ \A k \in 1 .. n + 1 :
           /\ sendRequestTimestamps'[c][k] = IF k = n + 1 THEN now ELSE sendRequestTimestamps[c][k]
           /\ replyTimestamps'[c][k] = IF k = n + 1 THEN -1 ELSE replyTimestamps[c][k]
           /\ receiveReplyTimestamps'[c][k] =
                IF k = n + 1 THEN -1 ELSE receiveReplyTimestamps[c][k]
  BY <1>4, <1>6 DEF Sent, ClientsTyped
<1> DEFINE start == Entry(c).start
           over == start + Duration(c)
<1>10. now = start + n * Interval(c) /\ (n > 0 => now < over) /\ start <= now
  BY <1>2, <1>3 DEF OnSchedule, Send, Never, SchedulingTyped
<1>17. now <= over
  <2>1. CASE n > 0
    BY <2>1, <1>1, <1>3, <1>10
  <2>2. CASE n = 0
    <3>1. 0 * Interval(c) = 0
      BY <1>3
    <3> QED BY <2>2, <3>1, <1>1, <1>3, <1>10
  <2> QED BY <2>1, <2>2, <1>4
<1>11. now + Interval(c) = start + (n + 1) * Interval(c)
  <2>1. (n + 1) * Interval(c) = n * Interval(c) + Interval(c)
    BY <1>3, <1>4
  <2>2. n * Interval(c) \in Int
    BY <1>3, <1>4
  <2> HIDE DEF n
  <2> QED BY <1>1, <1>3, <1>10, <2>1, <2>2
<1>12. Started(c)' /\ OnSchedule(c)'
  <2>1. Started(c)' /\ startTime'[c] = start /\ start <= now'
    BY <1>1, <1>2, <1>10 DEF Started, OnSchedule
  <2>2. \A k \in 1 .. n + 1 :
          /\ sendRequestTimestamps'[c][k] = start + (k - 1) * Interval(c)
          /\ sendRequestTimestamps'[c][k] <= now
          /\ k > 1 => sendRequestTimestamps'[c][k] < over
    <3> SUFFICES ASSUME NEW k \in 1 .. n + 1
                 PROVE  /\ sendRequestTimestamps'[c][k] = start + (k - 1) * Interval(c)
                        /\ sendRequestTimestamps'[c][k] <= now
                        /\ k > 1 => sendRequestTimestamps'[c][k] < over
      OBVIOUS
    <3>1. CASE k = n + 1
      <4>1. k - 1 = n /\ (k > 1 => n > 0)
        BY <3>1, <1>4
      <4>2. sendRequestTimestamps'[c][k] = now
        BY <3>1, <1>9
      <4> HIDE DEF n
      <4> QED BY <4>1, <4>2, <1>1, <1>10
    <3>2. CASE k # n + 1
      <4>1. k \in 1 .. n
        BY <3>2, <1>4
      <4> QED BY <3>2, <4>1, <1>2, <1>9 DEF OnSchedule
    <3> QED BY <3>1, <3>2
  <2>3. CASE now + Interval(c) < startTime[c] + Duration(c)
    <3>1. sendEvent'[c] = now + Interval(c) /\ finishEvent'[c] = finishEvent[c]
      BY <2>3 DEF Send, ScheduleNext, ClientsTyped
    <3>2. finishEvent[c] = Never /\ port[c] # NoPort
      BY <1>2 DEF OnSchedule, Send, Never, SchedulingTyped
    <3>3. sendEvent'[c] # Never /\ now <= sendEvent'[c] /\ sendEvent'[c] < over
      BY <1>1, <1>2, <1>3, <2>3, <3>1 DEF OnSchedule, Never
    <3> QED BY <1>1, <1>4, <1>9, <1>11, <2>1, <2>2, <3>1, <3>2, <3>3, EntriesStay
            DEF OnSchedule, Never
  <2>4. CASE ~ (now + Interval(c) < startTime[c] + Duration(c))
    <3>1. /\ sendEvent'[c] = Never
          /\ finishEvent'[c] = now + (startTime[c] + Duration(c) - now + Wait(c))
      BY <2>4 DEF Send, ScheduleNext, ClientsTyped
    <3>2. port[c] # NoPort
      BY <1>2 DEF OnSchedule, Send, Never, SchedulingTyped
    <3>3. /\ finishEvent'[c] = over + Wait(c) /\ now <= finishEvent'[c]
          /\ finishEvent'[c] # Never
      <4>1. startTime[c] = start
        BY <1>2 DEF OnSchedule
      <4> QED BY <1>1, <1>3, <1>17, <3>1, <4>1 DEF Never
    <3>4. start + (n + 1) * Interval(c) >= over
      BY <1>1, <1>2, <1>3, <1>11, <2>4 DEF OnSchedule
    <3> QED BY <1>1, <1>9, <2>1, <2>2, <3>1, <3>2, <3>3, <3>4, EntriesStay DEF OnSchedule
  <2> QED BY <2>3, <2>4
<1>13. ClientsSound'
  <2>1. ASSUME NEW d \in Ping \ {c} PROVE ClientSound(d)'
    BY <1>1, <1>6, ClientStays DEF ClientsSound
  <2>2. Len(replyTimestamps'[c]) = n + 1 /\ Len(receiveReplyTimestamps'[c]) = n + 1
    BY <1>4, <1>6 DEF ClientsTyped
  <2>3. ClientSound(c)'
    BY <1>9, <1>12, <2>2 DEF ClientSound
  <2> QED BY <2>1, <2>3 DEF ClientsSound
<1>14. net' = net \cup {m}
  BY <1>5 DEF Send
<1>15. NetSound'
  <2>1. PacketSound(m)'
    <3>1. n + 1 \in 1 .. n + 1
      BY <1>4
    <3> QED BY <1>1, <1>4, <1>5, <1>9, <3>1 DEF PacketSound
  <2>2. ASSUME NEW o \in net PROVE PacketSound(o)'
    <3>1. o \in Packet /\ PacketSound(o) /\ o.id \in Ping
      BY DEF ClientsTyped, NetSound, Packet
    <3>2. CASE o.id = c
      BY <1>1, <1>4, <1>9, <3>1, <3>2, PacketStays
    <3>3. CASE o.id # c
      <4>0. o.id \in Ping \ {c}
        BY <3>1, <3>3
      <4>2. sendRequestTimestamps'[o.id] = sendRequestTimestamps[o.id]
        BY <1>6, <4>0
      <4>3. sendRequestTimestamps[o.id] \in Seq(Int)
        BY <4>0 DEF ClientsTyped
      <4>1. Sent(o.id)' = Sent(o.id) /\ Sent(o.id) \in Nat
        BY <4>2, <4>3 DEF Sent
      <4>4. /\ replyTimestamps'[o.id] = replyTimestamps[o.id]
            /\ receiveReplyTimestamps'[o.id] = receiveReplyTimestamps[o.id]
        BY <1>6, <4>0
      <4> QED BY <1>1, <3>1, <4>1, <4>2, <4>4, PacketStays
    <3> QED BY <3>2, <3>3
  <2>3. ASSUME NEW o \in net, o.id = c, o.seq = n PROVE FALSE
    <3>1. n < Sent(c)
      BY <2>3 DEF NetSound, PacketSound
    <3> QED BY <3>1, <1>4
  <2>4. \A o, q \in net' : o.id = q.id /\ o.seq = q.seq => o = q
    BY <1>5, <1>14, <2>3 DEF NetSound
  <2> QED BY <1>14, <2>1, <2>2, <2>4 DEF NetSound
<1>16. RepliesAreOwn'
  <2> SUFFICES ASSUME NEW d \in Ping, NEW k \in 1 .. Sent(d)'
               PROVE  LET reply == replyTimestamps'[d][k] IN
                      IF reply = -1 THEN receiveReplyTimestamps'[d][k] = -1
                      ELSE /\ <<d, k - 1, reply>> \in echoed'
                           /\ sendRequestTimestamps'[d][k] <= reply
                           /\ reply <= receiveReplyTimestamps'[d][k]
                           /\ receiveReplyTimestamps'[d][k] <= now'
    BY DEF RepliesAreOwn
  <2>1. CASE d = c
    <3>1. CASE k = n + 1
      BY <1>9, <2>1, <3>1
    <3>2. CASE k # n + 1
      <4>1. k \in 1 .. n /\ k \in 1 .. n + 1
        BY <1>4, <1>9, <2>1, <3>2
      <4> QED BY <1>1, <1>9, <2>1, <3>2, <4>1 DEF RepliesAreOwn
    <3> QED BY <3>1, <3>2
  <2>2. CASE d # c
    BY <1>1, <1>6, <2>2 DEF RepliesAreOwn, Sent
  <2> QED BY <2>1, <2>2
<1> QED BY <1>7, <1>8, <1>13, <1>15, <1>16

(* A client is over: its socket is closed (udp-ping-client.cc).              *)
LEMMA FinishKeeps ==
  ASSUME IInv, NEW c \in Ping, Finish(c), UNCHANGED scheduling
  PROVE  IInv' /\ UNCHANGED aborted
<1> USE DEF IInv
<1>1. /\ UNCHANGED <<lines, now, startTime, sendEvent, timestamps, net, echoed>>
      /\ now \in Nat /\ now' \in Nat /\ now <= now' /\ echoed \subseteq echoed'
  BY DEF Finish, SchedulingTyped
<1>2. Started(c) /\ ClientSound(c) /\ OnSchedule(c)
  BY DEF Finish, ClientsSound, ClientSound, Never, SchedulingTyped
<1>3. finishEvent[c] = now /\ sendEvent[c] = Never /\ now = Entry(c).start + Duration(c) + Wait(c)
  BY <1>2 DEF Finish, OnSchedule, SchedulingTyped, Never
<1>4. /\ finishEvent' = [finishEvent EXCEPT ![c] = Never]
      /\ port' = [port EXCEPT ![c] = NoPort] /\ UNCHANGED aborted
  BY <1>3 DEF Finish
<1>5. ClientsTyped'
  BY <1>1, <1>4 DEF ClientsTyped, timestamps, Never
<1>6. SchedulingTyped' /\ SchedulingSound'
  BY <1>1, SchedulingStays
<1>7. ClientsSound'
  <2>1. ASSUME NEW d \in Ping, d # c PROVE ClientSound(d)'
    <3>1. finishEvent'[d] = finishEvent[d] /\ port'[d] = port[d]
      BY <1>4, <2>1 DEF ClientsTyped
    <3> QED BY <1>1, <3>1, ClientStays DEF ClientsSound, timestamps
  <2>2. finishEvent'[c] = Never /\ port'[c] = NoPort
    BY <1>4 DEF ClientsTyped
  <2>3. OnSchedule(c)'
    BY <1>1, <1>2, <1>3, <2>2, EntriesStay DEF OnSchedule, timestamps, Sent
  <2>4. ClientSound(c)'
    BY <1>1, <1>2, <2>3 DEF ClientSound, Started, timestamps, Sent
  <2> QED BY <2>1, <2>4 DEF ClientsSound
<1>8. NetSound'
  BY <1>1 DEF NetSound, PacketSound, timestamps, Sent
<1>9. RepliesAreOwn'
  BY <1>1, RepliesStay
<1> QED BY <1>4, <1>5, <1>6, <1>7, <1>8, <1>9

(* The packets: echoed (udp-ping-server.cc, HandleRead) or lost.             *)
LEMMA EchoKeeps ==
  ASSUME IInv, NEW m \in net, Echo(m), UNCHANGED scheduling
  PROVE  IInv'
<1> USE DEF IInv
<1>1. /\ UNCHANGED <<lines, now, startTime, port, sendEvent, finishEvent, timestamps, aborted>>
      /\ now \in Nat /\ now' \in Nat /\ now <= now' /\ echoed \subseteq echoed'
  BY DEF Echo, SchedulingTyped
<1>2. m \in Packet /\ PacketSound(m) /\ m.id \in Ping
  BY DEF ClientsTyped, NetSound, Packet
<1>3. PICK e \in Packet :
        /\ e = [m EXCEPT !.kind = "reply", !.ts = now]
        /\ e.id = m.id /\ e.seq = m.seq /\ e.ts = now /\ e.kind = "reply"
  <2>1. [m EXCEPT !.kind = "reply", !.ts = now] \in Packet
    BY <1>1, <1>2 DEF Packet
  <2> QED BY <1>2, <2>1 DEF Packet
<1>4. net' = (net \ {m}) \cup {e} /\ <<m.id, m.seq, now>> \in echoed'
  BY <1>3 DEF Echo
<1>5. ClientsTyped'
  BY <1>1, <1>4 DEF ClientsTyped, timestamps
<1>6. SchedulingTyped' /\ SchedulingSound'
  BY <1>1, SchedulingStays
<1>7. ClientsSound'
  BY <1>1, ClientStays DEF ClientsSound, timestamps
<1>8. NetSound'
  <2>1. ASSUME NEW o \in net PROVE PacketSound(o)'
    BY <1>1 DEF NetSound, PacketSound, timestamps, Sent
  <2>2. sendRequestTimestamps[m.id][m.seq + 1] <= now
    <3>1. m.seq + 1 \in 1 .. Sent(m.id)
      BY <1>2, PlaceOf
    <3>2. Started(m.id)
      BY <1>2, <3>1 DEF ClientsSound, ClientSound
    <3> QED BY <1>2, <3>1, <3>2 DEF ClientsSound, ClientSound, OnSchedule
  <2>3. PacketSound(e)'
    BY <1>1, <1>2, <1>3, <1>4, <2>2 DEF PacketSound, timestamps, Sent
  <2>4. \A o \in net : o # m => ~ (o.id = e.id /\ o.seq = e.seq)
    BY <1>3 DEF NetSound
  <2>5. \A o, q \in net' : o.id = q.id /\ o.seq = q.seq => o = q
    BY <1>4, <2>4 DEF NetSound
  <2> QED BY <1>4, <2>1, <2>3, <2>5 DEF NetSound
<1>9. RepliesAreOwn'
  BY <1>1, RepliesStay
<1> QED BY <1>5, <1>6, <1>7, <1>8, <1>9

LEMMA LoseKeeps ==
  ASSUME IInv, NEW m \in net, Lose(m), UNCHANGED scheduling
  PROVE  IInv'
<1> USE DEF IInv
<1>1. /\ UNCHANGED <<lines, now, startTime, port, sendEvent, finishEvent, timestamps, aborted>>
      /\ UNCHANGED echoed /\ now \in Nat /\ now' \in Nat /\ now <= now'
      /\ net' \subseteq net
  BY DEF Lose, SchedulingTyped
<1>2. ClientsTyped'
  BY <1>1 DEF ClientsTyped, timestamps
<1>3. SchedulingTyped' /\ SchedulingSound'
  BY <1>1, SchedulingStays
<1>4. ClientsSound'
  BY <1>1, ClientStays DEF ClientsSound, timestamps
<1>5. NetSound'
  BY <1>1 DEF NetSound, PacketSound, timestamps, Sent
<1>6. RepliesAreOwn'
  BY <1>1, RepliesStay
<1> QED BY <1>2, <1>3, <1>4, <1>5, <1>6

(* A reply arrives (udp-ping-client.cc, HandleRead): it finds its request    *)
(* open, or belongs to another client and is ignored.                        *)
LEMMA ArriveKeeps ==
  ASSUME IInv, NEW m \in net, Arrive(m), UNCHANGED scheduling
  PROVE  IInv' /\ UNCHANGED aborted
<1> USE DEF IInv
<1>1. /\ UNCHANGED <<lines, now, startTime, port, sendEvent, finishEvent, echoed>>
      /\ now \in Nat /\ now' \in Nat /\ now <= now' /\ echoed \subseteq echoed'
      /\ m.kind = "reply" /\ net' = net \ {m}
  BY DEF Arrive, SchedulingTyped
<1>2. m \in Packet /\ PacketSound(m) /\ m.id \in Ping /\ m.seq \in Nat /\ m.ts \in Nat
  BY DEF ClientsTyped, NetSound, Packet
<1>3. SchedulingTyped' /\ SchedulingSound'
  BY <1>1, SchedulingStays
<1>4. PICK c \in Ping : HandleRead(c, m)
  BY DEF Arrive
<1>5. CASE m.id # c
  <2>1. UNCHANGED <<timestamps, aborted>>
    BY <1>4, <1>5 DEF HandleRead
  <2>2. ClientsTyped'
    BY <1>1, <2>1 DEF ClientsTyped, timestamps
  <2>3. ClientsSound'
    BY <1>1, <2>1, ClientStays DEF ClientsSound, timestamps
  <2>4. NetSound'
    BY <1>1, <2>1 DEF NetSound, PacketSound, timestamps, Sent
  <2>5. RepliesAreOwn'
    BY <1>1, <2>1, RepliesStay
  <2> QED BY <1>3, <2>1, <2>2, <2>3, <2>4, <2>5
<1>6. CASE m.id = c
  <2> DEFINE i == m.seq + 1
  <2>1. /\ ~ (m.seq >= Sent(c)) /\ replyTimestamps[c][i] = -1
        /\ receiveReplyTimestamps[c][i] = -1 /\ i \in 1 .. Sent(c)
        /\ Len(replyTimestamps[c]) = Sent(c) /\ Len(receiveReplyTimestamps[c]) = Sent(c)
    <3>1. Sent(c) \in Nat /\ i \in 1 .. Sent(c)
      BY <1>2, <1>6, PlaceOf
    <3> QED BY <1>2, <1>6, <3>1 DEF PacketSound, ClientsSound, ClientSound
  <2>2. /\ replyTimestamps' = [replyTimestamps EXCEPT ![c][i] = m.ts]
        /\ receiveReplyTimestamps' = [receiveReplyTimestamps EXCEPT ![c][i] = now]
        /\ UNCHANGED <<sendRequestTimestamps, aborted>>
    BY <1>4, <1>6, <2>1 DEF HandleRead
  <2>3. /\ replyTimestamps'[c] = [replyTimestamps[c] EXCEPT ![i] = m.ts]
        /\ receiveReplyTimestamps'[c] = [receiveReplyTimestamps[c] EXCEPT ![i] = now]
        /\ \A d \in Ping \ {c} : /\ replyTimestamps'[d] = replyTimestamps[d]
                                 /\ receiveReplyTimestamps'[d] = receiveReplyTimestamps[d]
    BY <2>2 DEF ClientsTyped
  <2>4. /\ replyTimestamps[c] \in Seq(Int) /\ receiveReplyTimestamps[c] \in Seq(Int)
        /\ replyTimestamps'[c] \in Seq(Int) /\ receiveReplyTimestamps'[c] \in Seq(Int)
        /\ Len(replyTimestamps'[c]) = Sent(c) /\ Len(receiveReplyTimestamps'[c]) = Sent(c)
        /\ \A k \in 1 .. Sent(c) :
             /\ replyTimestamps'[c][k] = IF k = i THEN m.ts ELSE replyTimestamps[c][k]
             /\ receiveReplyTimestamps'[c][k] = IF k = i THEN now ELSE receiveReplyTimestamps[c][k]
    BY <1>1, <1>2, <2>1, <2>3 DEF ClientsTyped
  <2>5. ClientsTyped'
    BY <1>1, <2>2, <2>4 DEF ClientsTyped
  <2>6. ClientsSound'
    <3>1. ASSUME NEW d \in Ping, d # c PROVE ClientSound(d)'
      BY <1>1, <2>2, <2>3, <3>1, ClientStays DEF ClientsSound
    <3>2. ClientSound(c)'
      BY <1>1, <2>1, <2>2, <2>4, ClientStays DEF ClientsSound
    <3> QED BY <3>1, <3>2 DEF ClientsSound
  <2>7. NetSound'
    <3>1. ASSUME NEW o \in net, o # m PROVE PacketSound(o)'
      <4>1. o \in Packet /\ PacketSound(o) /\ o.id \in Ping /\ o.seq \in Nat
        BY DEF ClientsTyped, NetSound, Packet
      <4>2. Sent(o.id)' = Sent(o.id) /\ Sent(o.id) \in Nat
        BY <2>2, <4>1 DEF Sent, ClientsTyped
      <4>3. CASE o.id = c
        <5>1. o.seq # m.seq
          BY <1>6, <3>1, <4>3 DEF NetSound
        <5>2. o.seq + 1 # i
          BY <1>2, <4>1, <5>1
        <5>3. \A k \in 1 .. Sent(o.id) : k = o.seq + 1 =>
                /\ replyTimestamps'[o.id][k] = replyTimestamps[o.id][k]
                /\ receiveReplyTimestamps'[o.id][k] = receiveReplyTimestamps[o.id][k]
          <6> HIDE DEF i
          <6> QED BY <2>4, <4>3, <5>2
        <5> QED BY <1>1, <2>2, <4>1, <4>2, <5>3, PacketStays
      <4>4. CASE o.id # c
        <5>1. /\ replyTimestamps'[o.id] = replyTimestamps[o.id]
              /\ receiveReplyTimestamps'[o.id] = receiveReplyTimestamps[o.id]
          BY <2>3, <4>1, <4>4
        <5> QED BY <1>1, <2>2, <4>1, <4>2, <5>1, PacketStays
      <4> QED BY <4>3, <4>4
    <3> QED BY <1>1, <3>1 DEF NetSound
  <2>8. RepliesAreOwn'
    <3> SUFFICES ASSUME NEW d \in Ping, NEW k \in 1 .. Sent(d)'
                 PROVE  LET reply == replyTimestamps'[d][k] IN
                        IF reply = -1 THEN receiveReplyTimestamps'[d][k] = -1
                        ELSE /\ <<d, k - 1, reply>> \in echoed'
                             /\ sendRequestTimestamps'[d][k] <= reply
                             /\ reply <= receiveReplyTimestamps'[d][k]
                             /\ receiveReplyTimestamps'[d][k] <= now'
      BY DEF RepliesAreOwn
    <3>0. k \in 1 .. Sent(d)
      BY <2>2 DEF Sent
    <3>1. CASE d = c /\ k = i
      <4>1. /\ replyTimestamps'[c][i] = m.ts /\ receiveReplyTimestamps'[c][i] = now
        BY <2>1, <2>4
      <4>3. i - 1 = m.seq /\ m.ts # -1
        BY <1>2
      <4>2. /\ sendRequestTimestamps[c][i] <= m.ts /\ m.ts <= now
            /\ <<c, m.seq, m.ts>> \in echoed
        BY <1>1, <1>2, <1>6 DEF PacketSound
      <4> QED BY <1>1, <2>2, <3>1, <4>1, <4>2, <4>3
    <3>2. CASE d = c /\ k # i
      BY <1>1, <2>2, <2>4, <3>0, <3>2 DEF RepliesAreOwn
    <3>3. CASE d # c
      BY <1>1, <2>2, <2>3, <3>0, <3>3 DEF RepliesAreOwn
    <3> QED BY <3>1, <3>2, <3>3
  <2> QED BY <1>3, <2>2, <2>5, <2>6, <2>7, <2>8
<1> QED BY <1>5, <1>6

-----------------------------------------------------------------------------
(* The scheduler (udp-ping-scheduler.cc).                                    *)

(* A client is started, at a port that is free if there is one.              *)
LEMMA StartClientKeeps ==
  ASSUME IInv, NEW c \in Ping, StartClient(c)
  PROVE  IInv'
<1> USE DEF IInv
<1>1. /\ UNCHANGED <<lines, now, finishEvent, timestamps, net, echoed>> /\ UNCHANGED scheduling
      /\ now \in Nat /\ now' \in Nat /\ now <= now' /\ echoed \subseteq echoed'
      /\ c \in Installed /\ startTime[c] = Never
  BY DEF StartClient, StartApplication, SchedulingTyped
<1>2. NetSound' /\ RepliesAreOwn'
  BY <1>1, RepliesStay DEF NetSound, PacketSound, timestamps, Sent
<1>3. CASE FreePorts(c) = {}
  <2>1. aborted' = TRUE /\ UNCHANGED <<port, startTime, sendEvent>>
    BY <1>3 DEF StartClient, StartApplication
  <2>2. ClientsTyped'
    BY <1>1, <2>1 DEF ClientsTyped, timestamps
  <2>3. SchedulingTyped' /\ SchedulingSound'
    BY <1>1, <2>1, SchedulingStays
  <2>4. ClientsSound'
    BY <1>1, <2>1, ClientStays DEF ClientsSound, timestamps
  <2> QED BY <1>2, <2>2, <2>3, <2>4
<1>4. CASE FreePorts(c) # {}
  <2>1. PICK p \in FreePorts(c) : port' = [port EXCEPT ![c] = p]
    BY <1>4 DEF StartClient, StartApplication
  <2>2. /\ startTime' = [startTime EXCEPT ![c] = now]
        /\ sendEvent' = [sendEvent EXCEPT ![c] = now] /\ UNCHANGED aborted
    BY <1>4 DEF StartClient, StartApplication
  <2>3. p \in Port /\ p # NoPort
    BY PortsAreNumbers DEF FreePorts, NoPort
  <2>4. ClientsTyped'
    BY <1>1, <2>1, <2>2, <2>3 DEF ClientsTyped, timestamps
  <2>5. /\ startTime'[c] = now /\ sendEvent'[c] = now /\ port'[c] = p
        /\ \A d \in Ping : d # c => /\ startTime'[d] = startTime[d] /\ port'[d] = port[d]
                                    /\ sendEvent'[d] = sendEvent[d]
    BY <2>1, <2>2 DEF ClientsTyped
  <2>6. now # Never
    BY <1>1 DEF Never
  <2>7. Installed' = Installed
    BY <1>1 DEF scheduling, Installed
  <2>8. SchedulingTyped'
    BY <1>1, EntriesStay DEF SchedulingTyped, scheduling
  <2>9. Installed \subseteq Ping
    BY InstalledIsListed, ListedIsPing DEF SchedulingTyped
  <2>10. SchedulingSound'
    <3>1. \A d \in Ping : Started(d)' <=> Started(d) \/ d = c
      BY <2>5, <2>6 DEF Started
    <3> QED BY <1>1, <2>7, <2>9, <3>1, EntriesStay DEF SchedulingSound, scheduling
  <2>11. ClientsSound'
    <3>1. ASSUME NEW d \in Ping, d # c PROVE ClientSound(d)'
      BY <1>1, <2>5, <3>1, ClientStays DEF ClientsSound, timestamps
    <3>2. /\ c \in Listed /\ Accepted /\ Entry(c).start \in Nat
          /\ Interval(c) \in Nat \ {0} /\ Duration(c) \in Nat /\ Wait(c) \in Nat
      BY <1>1, InstalledIsListed, EntryFacts DEF SchedulingTyped
    <3>3. /\ finishEvent[c] = Never /\ Sent(c) = 0 /\ Len(replyTimestamps[c]) = 0
          /\ Len(receiveReplyTimestamps[c]) = 0 /\ ~ Started(c)
      BY <1>1 DEF ClientsSound, ClientSound, Started
    <3>4. Entry(c).start = now
      BY <1>1, <3>3 DEF SchedulingSound
    <3>5. Sent(c)' = 0 /\ Entry(c).start + 0 * Interval(c) = now
      BY <1>1, <3>2, <3>3, <3>4 DEF Sent, timestamps
    <3>6. OnSchedule(c)'
      BY <1>1, <2>3, <2>5, <2>6, <3>2, <3>3, <3>4, <3>5, EntriesStay DEF OnSchedule
    <3>7. ClientSound(c)'
      BY <1>1, <2>5, <2>6, <3>3, <3>5, <3>6 DEF ClientSound, Started, timestamps
    <3> QED BY <3>1, <3>7 DEF ClientsSound
  <2> QED BY <1>2, <2>4, <2>8, <2>10, <2>11
<1> QED BY <1>3, <1>4

(* Steps that touch neither clients nor packets.                             *)
LEMMA ClientsStay ==
  ASSUME IInv, UNCHANGED vars
  PROVE  ClientsTyped' /\ ClientsSound' /\ NetSound' /\ RepliesAreOwn'
<1> USE DEF IInv, vars, timestamps
<1>1. ClientsTyped' /\ NetSound'
  BY DEF ClientsTyped, NetSound, PacketSound, Sent
<1>2. ClientsSound'
  BY ClientStays DEF ClientsSound
<1>3. RepliesAreOwn'
  BY DEF RepliesAreOwn, Sent
<1> QED BY <1>1, <1>2, <1>3

LEMMA ConstructKeeps ==
  ASSUME IInv, Construct
  PROVE  IInv'
<1> USE DEF IInv
<1>1. /\ UNCHANGED vars /\ UNCHANGED <<lines, now, startTime, assignment, apps>>
      /\ phase = "setup"
  BY DEF Construct, vars
<1>2. \A s \in System : apps[s] = <<>> /\ event[s] = 0
  BY <1>1 DEF SchedulingSound
<1>3. Installed = {} /\ Installed' = {}
  BY <1>1, <1>2 DEF Installed, Range
<1>4. \A c \in Ping : ~ Started(c) /\ Started(c)' = Started(c)
  BY <1>1, <1>3 DEF SchedulingSound, Started
<1>5. SchedulingTyped' /\ SchedulingSound'
  <2>1. CASE Accepted
    <3> DEFINE Entries == {Entry(c) : c \in Listed}
    <3>1. lines \in Seq(ScheduleLine)
      BY SchedulerAssumption DEF SchedulingTyped
    <3>2. Complete \in Seq(Entries)
      BY <3>1 DEF Complete, Listed
    <3>3. \A s \in System : OwnPings(s) \in Seq(Entries)
      BY <3>2, KeptEmbeds DEF OwnPings
    <3>4. /\ phase' = "running" /\ schedule' = [s \in System |-> OwnPings(s)]
          /\ event' = [s \in System |-> IF OwnPings(s) = <<>> THEN 0 ELSE 1]
      BY <2>1 DEF Construct
    <3>5. \A s \in System : event'[s] \in Nat /\ event'[s] <= Len(schedule'[s])
      BY <3>3, <3>4
    <3>6. SchedulingTyped'
      BY <1>1, <3>3, <3>4, <3>5, EntriesStay DEF SchedulingTyped
    <3>7. SchedulingSound'
      BY <1>1, <1>3, <1>4, <2>1, <3>4, <3>5, EntriesStay DEF SchedulingSound
    <3> QED BY <3>6, <3>7
  <2>2. CASE ~ Accepted
    <3>1. phase' = "threw" /\ UNCHANGED <<schedule, event>>
      BY <2>2 DEF Construct
    <3>2. SchedulingTyped'
      BY <1>1, <3>1, EntriesStay DEF SchedulingTyped
    <3>3. SchedulingSound'
      BY <1>1, <1>2, <1>3, <1>4, <3>1 DEF SchedulingSound
    <3> QED BY <3>2, <3>3
  <2> QED BY <2>1, <2>2
<1> QED BY <1>1, <1>5, ClientsStay

LEMMA StartNextKeeps ==
  ASSUME IInv, NEW s \in System, StartNextUdpPing(s)
  PROVE  IInv'
<1> USE DEF IInv
<1>1. /\ UNCHANGED vars /\ UNCHANGED <<lines, now, startTime, assignment, phase, schedule>>
      /\ phase = "running" /\ event[s] # 0 /\ NextPing(s).start = now
  BY DEF StartNextUdpPing, vars, Simulating
<1>2. Accepted /\ event[s] \in 1 .. Len(schedule[s])
  BY <1>1 DEF SchedulingSound, SchedulingTyped
<1>3. PICK c \in Listed : NextPing(s) = Entry(c)
  <2> DEFINE Entries == {Entry(c) : c \in Listed}
  <2>1. schedule[s] \in Seq(Entries)
    BY DEF SchedulingTyped
  <2>2. NextPing(s) \in Entries
    <3> HIDE DEF Entries
    <3> QED BY <1>2, <2>1 DEF NextPing
  <2> QED BY <2>2
<1>4. NextPing(s).id = c
  BY <1>2, <1>3, EntryFacts DEF SchedulingTyped
<1>5. /\ apps' = [apps EXCEPT ![s] = Append(@, c)]
      /\ event' = [event EXCEPT ![s] = IF @ = Len(schedule[s]) THEN 0 ELSE @ + 1]
  BY <1>4 DEF StartNextUdpPing
<1>6. /\ apps'[s] = Append(apps[s], c) /\ apps[s] \in Seq(Listed)
      /\ \A t \in System : t # s => apps'[t] = apps[t]
  BY <1>5 DEF SchedulingTyped
<1>7. SchedulingTyped'
  <2>1. apps' \in [System -> Seq(Listed)]
    BY <1>5, <1>6 DEF SchedulingTyped
  <2>2. event' \in [System -> Nat]
    BY <1>2, <1>5 DEF SchedulingTyped
  <2> QED BY <1>1, <2>1, <2>2, EntriesStay DEF SchedulingTyped
<1>8. Installed' = Installed \cup {c}
  <2>1. Range(apps'[s]) = Range(apps[s]) \cup {c}
    <3>1. /\ DOMAIN apps'[s] = DOMAIN apps[s] \cup {Len(apps[s]) + 1}
          /\ apps'[s][Len(apps[s]) + 1] = c
          /\ \A i \in DOMAIN apps[s] : apps'[s][i] = apps[s][i]
      BY <1>6
    <3> QED BY <3>1 DEF Range
  <2> QED BY <1>6, <2>1 DEF Installed
<1>9. SchedulingSound'
  <2>1. \A t \in System : event'[t] <= Len(schedule[t])
    BY <1>2, <1>5 DEF SchedulingTyped, SchedulingSound
  <2>2. \A d : Started(d)' = Started(d)
    BY <1>1 DEF Started
  <2> QED BY <1>1, <1>2, <1>3, <1>8, <2>1, <2>2, EntriesStay DEF SchedulingSound
<1> QED BY <1>1, <1>7, <1>9, ClientsStay

LEMMA WriteResultsKeeps ==
  ASSUME IInv, NEW s \in System, WriteResults(s)
  PROVE  IInv'
<1> USE DEF IInv
<1>1. /\ UNCHANGED vars /\ UNCHANGED <<lines, now, startTime>>
      /\ UNCHANGED <<assignment, phase, schedule, event, apps>>
  BY DEF WriteResults, vars
<1>2. SchedulingTyped'
  BY <1>1, EntriesStay DEF SchedulingTyped
<1>3. Installed' = Installed /\ \A c : Started(c)' = Started(c)
  BY <1>1 DEF Installed, Started
<1>4. SchedulingSound'
  BY <1>1, <1>3, EntriesStay DEF SchedulingSound
<1> QED BY <1>1, <1>2, <1>4, ClientsStay

(* Time passes: every client that is due has been served.                    *)
LEMMA AdvanceKeeps ==
  ASSUME IInv, Advance
  PROVE  IInv'
<1> USE DEF IInv
<1>1. /\ UNCHANGED <<lines, startTime, port, sendEvent, finishEvent, timestamps, aborted, net,
                     echoed, assignment, schedule, event, apps>>
      /\ now \in Nat /\ now' = now + 1 /\ phase = "running" /\ phase' \in {"running", "stopped"}
      /\ now' \in Nat /\ now <= now'
      /\ \A c \in Installed : Started(c) /\ now \notin {sendEvent[c], finishEvent[c]}
  BY DEF Advance, SchedulingTyped, Simulating, Started
<1>2. ClientsTyped' /\ RepliesAreOwn'
  BY <1>1, RepliesStay DEF ClientsTyped, timestamps
<1>3. SchedulingTyped'
  BY <1>1, EntriesStay DEF SchedulingTyped
<1>4. Installed' = Installed /\ \A c : Started(c)' = Started(c)
  BY <1>1 DEF Installed, Started
<1>5. SchedulingSound'
  BY <1>1, <1>4, EntriesStay DEF SchedulingSound
<1>6. NetSound'
  <2>1. ASSUME NEW m \in net PROVE PacketSound(m)'
    <3>1. m \in Packet /\ PacketSound(m) /\ Sent(m.id) \in Nat
      BY PlaceOf DEF ClientsTyped, NetSound
    <3> QED BY <1>1, <3>1, PacketStays DEF timestamps, Sent
  <2> QED BY <1>1, <2>1 DEF NetSound
<1>7. ClientsSound'
  <2> SUFFICES ASSUME NEW c \in Ping PROVE ClientSound(c)'
    BY DEF ClientsSound
  <2>1. ClientSound(c) /\ Sent(c)' = Sent(c)
    BY <1>1 DEF ClientsSound, timestamps, Sent
  <2>2. CASE ~ Started(c)
    BY <1>1, <1>4, <2>1, <2>2 DEF ClientSound, timestamps
  <2>3. CASE Started(c)
    <3>1. /\ OnSchedule(c) /\ now # sendEvent[c] /\ now # finishEvent[c]
          /\ sendEvent[c] \in Int /\ finishEvent[c] \in Int
          /\ sendRequestTimestamps[c] \in Seq(Int)
      BY <1>1, <2>1, <2>3 DEF ClientSound, SchedulingSound, ClientsTyped
    <3>2. /\ c \in Listed /\ Entry(c).start \in Nat
          /\ Interval(c) \in Nat \ {0} /\ Duration(c) \in Nat /\ Wait(c) \in Nat
      BY <2>3, StartedIsListed, EntryFacts DEF SchedulingTyped
    <3>3. /\ sendEvent[c] # Never => now' <= sendEvent[c]
          /\ finishEvent[c] # Never => now' <= finishEvent[c]
          /\ Entry(c).start <= now'
          /\ now >= Entry(c).start + Duration(c) + Wait(c) =>
               now' >= Entry(c).start + Duration(c) + Wait(c)
      BY <1>1, <3>1, <3>2 DEF OnSchedule
    <3>4. \A k \in 1 .. Sent(c) : sendRequestTimestamps[c][k] <= now'
      BY <1>1, <3>1 DEF OnSchedule, Sent
    <3>5. OnSchedule(c)'
      BY <1>1, <2>1, <3>1, <3>3, <3>4, EntriesStay DEF OnSchedule, timestamps
    <3> QED BY <1>1, <1>4, <2>1, <2>3, <3>5 DEF ClientSound, timestamps
  <2> QED BY <2>2, <2>3
<1> QED BY <1>2, <1>3, <1>5, <1>6, <1>7

-----------------------------------------------------------------------------
LEMMA InitEstablishes ==
  ASSUME SchedulerInit
  PROVE  IInv
<1>1. SchedulingTyped
  BY DEF SchedulerInit, SchedulingTyped, Init
<1>2. Installed = {} /\ \A c \in Ping : ~ Started(c)
  BY DEF SchedulerInit, Init, Installed, Range, Started
<1>3. SchedulingSound
  BY <1>2 DEF SchedulerInit, SchedulingSound
<1>4. ClientsTyped
  <2>1. startTime = [c \in Ping |-> -1] /\ sendEvent = startTime /\ finishEvent = startTime
    BY DEF SchedulerInit, Init, Never
  <2>2. /\ sendRequestTimestamps = [c \in Ping |-> <<>>]
        /\ replyTimestamps = sendRequestTimestamps
        /\ receiveReplyTimestamps = sendRequestTimestamps
    BY DEF SchedulerInit, Init
  <2>3. sendRequestTimestamps \in [Ping -> Seq(Int)]
    BY <2>2
  <2>4. startTime \in [Ping -> Int]
    BY <2>1
  <2>5. port \in [Ping -> Port \cup {NoPort}] /\ net = {} /\ aborted = FALSE
    BY DEF SchedulerInit, Init
  <2> QED BY <2>1, <2>2, <2>3, <2>4, <2>5 DEF ClientsTyped
<1>5. \A c \in Ping : Sent(c) = 0
  BY DEF SchedulerInit, Init, Sent
<1>6. ClientsSound
  BY <1>2, <1>5 DEF SchedulerInit, Init, ClientsSound, ClientSound
<1>7. NetSound /\ RepliesAreOwn
  BY <1>5 DEF SchedulerInit, Init, NetSound, RepliesAreOwn
<1> QED BY <1>1, <1>3, <1>4, <1>6, <1>7 DEF IInv

LEMMA NextKeeps ==
  ASSUME IInv, [SchedulerNext]_<<vars, scheduling>>
  PROVE  IInv'
<1>1. CASE Construct
  BY <1>1, ConstructKeeps
<1>2. CASE Advance
  BY <1>2, AdvanceKeeps
<1>3. ASSUME NEW s \in System, StartNextUdpPing(s) \/ WriteResults(s) PROVE IInv'
  BY <1>3, StartNextKeeps, WriteResultsKeeps
<1>4. ASSUME NEW c \in Ping, StartClient(c) PROVE IInv'
  BY <1>4, StartClientKeeps
<1>5. CASE RunPings
  <2>1. PingStep /\ UNCHANGED scheduling
    BY <1>5 DEF RunPings
  <2>2. ASSUME NEW c \in Ping, Send(c) \/ Finish(c) PROVE IInv'
    BY <2>1, <2>2, SendKeeps, FinishKeeps
  <2>3. ASSUME NEW m \in net, Echo(m) \/ Arrive(m) \/ Lose(m) PROVE IInv'
    BY <2>1, <2>3, EchoKeeps, ArriveKeeps, LoseKeeps
  <2> QED BY <2>1, <2>2, <2>3 DEF PingStep
<1>6. CASE UNCHANGED <<vars, scheduling>>
  <2>1. UNCHANGED vars /\ UNCHANGED scheduling /\ UNCHANGED <<lines, now, startTime>>
    BY <1>6 DEF vars
  <2>2. SchedulingTyped' /\ SchedulingSound'
    BY <2>1, SchedulingStays DEF IInv
  <2> QED BY <2>1, <2>2, ClientsStay DEF IInv
<1> QED BY <1>1, <1>2, <1>3, <1>4, <1>5, <1>6 DEF SchedulerNext

LEMMA Inductive ==
  SchedulerSpec => []IInv
<1>1. SchedulerInit => IInv
  BY InitEstablishes
<1>2. IInv /\ [SchedulerNext]_<<vars, scheduling>> => IInv'
  BY NextKeeps
<1> QED BY <1>1, <1>2, PTL DEF SchedulerSpec

-----------------------------------------------------------------------------
(* Ports.                                                                    *)

LEMMA HoldsPortUntilOver ==
  ASSUME IInv, NEW c \in Ping, Started(c), port[c] # NoPort
  PROVE  now <= Entry(c).start + Duration(c) + Wait(c)
<1> USE DEF IInv
<1> DEFINE over == Entry(c).start + Duration(c)
<1>1. OnSchedule(c)
  BY DEF ClientsSound, ClientSound
<1>2. /\ c \in Listed /\ Entry(c).start \in Nat /\ now \in Nat /\ sendEvent[c] \in Int
      /\ Interval(c) \in Nat \ {0} /\ Duration(c) \in Nat /\ Wait(c) \in Nat
  BY StartedIsListed, EntryFacts DEF SchedulingTyped, ClientsTyped
<1>3. CASE sendEvent[c] # Never
  <2>1. now <= over
    <3>1. CASE Sent(c) > 0
      BY <3>1, <1>1, <1>2, <1>3 DEF OnSchedule
    <3>2. CASE ~ (Sent(c) > 0)
      <4>1. Sent(c) = 0 /\ 0 * Interval(c) = 0
        BY <3>2, <1>2 DEF Sent, ClientsTyped
      <4> QED BY <4>1, <1>1, <1>2, <1>3 DEF OnSchedule
    <3> QED BY <3>1, <3>2
  <2> QED BY <1>2, <2>1
<1>4. CASE sendEvent[c] = Never
  BY <1>1, <1>2, <1>4 DEF OnSchedule
<1> QED BY <1>3, <1>4

(* The clients that may hold a port of the node when c is started.           *)
Rivals(c) ==
  {d \in Listed \ {c} :
     /\ Entry(d).from = Entry(c).from /\ Entry(d).start <= Entry(c).start
     /\ Entry(c).start <= Entry(d).start + Duration(d) + Wait(d)}

(* A property of the schedule: there are never more than the node has ports. *)
PortsSuffice == Accepted => \A c \in Listed : Cardinality(Rivals(c)) < Cardinality(Port)

LEMMA PortIsFree ==
  ASSUME IInv, PortsSuffice, NEW c \in Installed, startTime[c] = Never
  PROVE  FreePorts(c) # {}
<1> USE DEF IInv
<1>1. /\ c \in Listed /\ Accepted /\ Listed \subseteq Ping
  BY InstalledIsListed, ListedIsPing DEF SchedulingTyped
<1>2. now = Entry(c).start /\ Cardinality(Rivals(c)) < Cardinality(Port)
  BY <1>1 DEF SchedulingSound, Started, PortsSuffice
<1>3. IsFiniteSet(Rivals(c)) /\ IsFiniteSet(Port)
  BY <1>1, FS_Subset, PingAssumption DEF Rivals
<1>4. ASSUME NEW d \in SameNode(c), port[d] # NoPort PROVE d \in Rivals(c)
  <2>1. d \in Ping /\ Started(d) /\ Entry(d).from = Entry(c).from
    BY <1>4 DEF SameNode, ClientsSound, ClientSound
  <2>2. d \in Listed /\ OnSchedule(d) /\ d # c
    BY <2>1, StartedIsListed DEF ClientsSound, ClientSound, Started
  <2>3. now <= Entry(d).start + Duration(d) + Wait(d)
    BY <1>4, <2>1, HoldsPortUntilOver
  <2> QED BY <1>2, <2>1, <2>2, <2>3 DEF Rivals, OnSchedule
<1>5. SUFFICES ASSUME FreePorts(c) = {} PROVE FALSE
  OBVIOUS
<1>6. \A p \in Port : \E d \in Rivals(c) : port[d] = p
  <2>1. \A p \in Port : p # NoPort
    BY PortsAreNumbers DEF NoPort
  <2> QED BY <1>4, <1>5, <2>1 DEF FreePorts
<1> DEFINE holder == [p \in Port |-> CHOOSE d \in Rivals(c) : port[d] = p]
<1>7. holder \in [Port -> Rivals(c)] /\ \A p \in Port : port[holder[p]] = p
  BY <1>6
<1> HIDE DEF holder
<1>8. \E p, q \in Port : p # q /\ holder[p] = holder[q]
  BY <1>2, <1>3, <1>7, FS_PigeonHole
<1> QED BY <1>7, <1>8

LEMMA NothingAborts ==
  ASSUME IInv, PortsSuffice, NeverAborts, [SchedulerNext]_<<vars, scheduling>>
  PROVE  PortsSuffice' /\ NeverAborts'
<1>1. UNCHANGED lines
  BY DEF SchedulerNext, Construct, Advance, RunPings, PingStep, Send, Echo, Arrive, Lose, Finish,
         StartNextUdpPing, StartClient, StartApplication, WriteResults, vars
<1>2. PortsSuffice'
  <2>1. \A c : Rivals(c)' = Rivals(c)
    BY <1>1, EntriesStay DEF Rivals
  <2> QED BY <1>1, <2>1, EntriesStay DEF PortsSuffice
<1>3. CASE RunPings
  <2>1. PingStep /\ UNCHANGED scheduling
    BY <1>3 DEF RunPings
  <2>2. ASSUME NEW c \in Ping, Send(c) \/ Finish(c) PROVE UNCHANGED aborted
    BY <2>1, <2>2, FinishKeeps DEF Send
  <2>3. ASSUME NEW m \in net, Echo(m) \/ Arrive(m) \/ Lose(m) PROVE UNCHANGED aborted
    BY <2>1, <2>3, ArriveKeeps DEF Echo, Lose
  <2>4. UNCHANGED aborted
    BY <2>1, <2>2, <2>3 DEF PingStep
  <2> QED BY <1>2, <2>4 DEF NeverAborts
<1>4. ASSUME NEW c \in Ping, StartClient(c) PROVE NeverAborts'
  <2>1. FreePorts(c) # {}
    BY <1>4, PortIsFree DEF StartClient, StartApplication
  <2> QED BY <1>4, <2>1 DEF StartClient, StartApplication, NeverAborts
<1>5. CASE \/ Construct \/ Advance \/ UNCHANGED <<vars, scheduling>>
           \/ \E s \in System : StartNextUdpPing(s) \/ WriteResults(s)
  <2>1. UNCHANGED aborted
    BY <1>5 DEF Construct, Advance, StartNextUdpPing, WriteResults, vars
  <2> QED BY <1>2, <2>1 DEF NeverAborts
<1> QED BY <1>2, <1>3, <1>4, <1>5 DEF SchedulerNext

-----------------------------------------------------------------------------
(* The theorems.                                                             *)

(* Whatever the network does, a client records for a request what happened   *)
(* to that very request, or -1.                                              *)
THEOREM RepliesOwn ==
  SchedulerSpec => []RepliesAreOwn
<1>1. IInv => RepliesAreOwn
  BY DEF IInv
<1> QED BY <1>1, Inductive, PTL

(* Every client starts and sends when its line says, at least once, and      *)
(* holds its port exactly until its duration and wait are over.              *)
THEOREM OnTime ==
  SchedulerSpec => []RequestsOnSchedule
<1>1. IInv => RequestsOnSchedule
  <2> SUFFICES ASSUME IInv PROVE RequestsOnSchedule
    OBVIOUS
  <2> USE DEF IInv
  <2> SUFFICES ASSUME NEW c \in Ping, startTime[c] # Never
               PROVE  LET start == Entry(c).start
                          over  == start + Duration(c) IN
                      /\ startTime[c] = start
                      /\ \A k \in 1 .. Sent(c) :
                           /\ sendRequestTimestamps[c][k] = start + (k - 1) * Interval(c)
                           /\ k > 1 => sendRequestTimestamps[c][k] < over
                      /\ finishEvent[c] # Never =>
                           /\ finishEvent[c] = over + Wait(c)
                           /\ start + Sent(c) * Interval(c) >= over
                      /\ now > over + Wait(c) => port[c] = NoPort
                      /\ now < over + Wait(c) => port[c] # NoPort
    BY DEF RequestsOnSchedule
  <2>1. OnSchedule(c)
    BY DEF ClientsSound, ClientSound, Started
  <2>2. /\ c \in Listed /\ Entry(c).start \in Nat /\ now \in Nat /\ sendEvent[c] \in Int
        /\ Interval(c) \in Nat \ {0} /\ Duration(c) \in Nat /\ Wait(c) \in Nat
    BY StartedIsListed, EntryFacts DEF SchedulingTyped, ClientsTyped, Started
  <2> DEFINE over == Entry(c).start + Duration(c)
  <2>3. now > over + Wait(c) => port[c] = NoPort
    BY <2>2, HoldsPortUntilOver DEF Started
  <2>4. now < over + Wait(c) => port[c] # NoPort
    BY <2>1, <2>2 DEF OnSchedule
  <2> QED BY <2>1, <2>3, <2>4 DEF OnSchedule
<1> QED BY <1>1, Inductive, PTL

(* When a node has more ports than clients of its own may run at a time, no  *)
(* check of a client ever fires: no port is missing, no event is left over,  *)
(* and no reply is taken for one that came before or was not asked for.      *)
THEOREM NoCheckFires ==
  SchedulerSpec /\ PortsSuffice => []NeverAborts
<1>1. SchedulerInit => NeverAborts
  BY DEF SchedulerInit, Init, NeverAborts
<1>2. IInv /\ PortsSuffice /\ NeverAborts /\ [SchedulerNext]_<<vars, scheduling>>
        => PortsSuffice' /\ NeverAborts'
  BY NothingAborts
<1> QED BY <1>1, <1>2, Inductive, PTL DEF SchedulerSpec

-----------------------------------------------------------------------------
(* What is installed and reported.                                           *)

Entries == {Entry(c) : c \in Listed}

(* How many entries of its schedule a system has installed a client for.     *)
Begun(s) == IF event[s] = 0 THEN Len(schedule[s]) ELSE event[s] - 1

(* The installed clients are those of the first entries; the next entry is   *)
(* not overdue.                                                              *)
AppsSound(s) ==
  /\ schedule[s] = IF phase \in {"running", "stopped"} THEN OwnPings(s) ELSE <<>>
  /\ Len(apps[s]) = Begun(s)
  /\ \A i \in 1 .. Begun(s) : apps[s][i] = schedule[s][i].id
  /\ event[s] # 0 => NextPing(s).start >= now

(* What is written is computed from records that no longer change.           *)
Nothing(s)      == rows[s] = <<>> /\ summaries[s] = <<>>
Results(s)      == rows[s] = SystemRows(s) /\ summaries[s] = SystemSummaries(s)
WrittenSound(s) == Nothing(s) \/ (phase = "stopped" /\ Results(s))

PhaseSound ==
  /\ phase = "setup" => now = 0
  /\ phase = "running" => now < EndTime \/ lines = <<>>
  /\ phase = "stopped" => now = EndTime /\ \A c \in Installed : Started(c)

(* A client that has stopped sending has sent.                               *)
SendersSound == \A c \in Ping : Started(c) /\ sendEvent[c] = Never => Sent(c) >= 1

ResultsInv ==
  /\ rows = [s \in System |-> rows[s]] /\ summaries = [s \in System |-> summaries[s]]
  /\ PhaseSound /\ SendersSound
  /\ \A s \in System : AppsSound(s) /\ WrittenSound(s)

(* What a system keeps of the schedule: the entries that start on it, all of *)
(* them, in their order.                                                     *)
LEMMA OwnPingsOrdered ==
  ASSUME lines \in Schedule, Accepted, NEW s
  PROVE  /\ OwnPings(s) \in Seq(Entries)
         /\ \A k \in 1 .. Len(OwnPings(s)) :
              /\ OwnPings(s)[k].id \in Listed /\ OwnPings(s)[k] = Entry(OwnPings(s)[k].id)
              /\ assignment[OwnPings(s)[k].from] = s
         /\ \A j, k \in 1 .. Len(OwnPings(s)) :
              j < k => /\ OwnPings(s)[j].id < OwnPings(s)[k].id
                       /\ OwnPings(s)[j].start <= OwnPings(s)[k].start
         /\ \A c \in Listed : assignment[Entry(c).from] = s =>
              \E k \in 1 .. Len(OwnPings(s)) : OwnPings(s)[k].id = c
<1> DEFINE keep == {e \in Range(Complete) : assignment[e.from] = s}
           own == OwnPings(s)
           n == Len(lines)
<1>1. lines \in Seq(ScheduleLine) /\ n \in Nat /\ DOMAIN lines = 1 .. n
  BY SchedulerAssumption
<1>2. DOMAIN Complete = 1 .. n /\ Complete \in Seq(Entries) /\ Len(Complete) = n
  BY <1>1 DEF Complete, Entries, Listed
<1>3. own = Kept(Complete, keep)
  BY DEF OwnPings
<1>4. ASSUME NEW k \in 1 .. n
      PROVE  /\ k - 1 \in Listed /\ Complete[k] = Entry(k - 1)
             /\ Complete[k].id = k - 1 /\ Complete[k].start \in Int
  <2>1. k - 1 \in Listed /\ Complete[k] = Entry(k - 1)
    BY <1>1 DEF Complete, Listed
  <2> QED BY <2>1, EntryFacts
<1>5. \A j, k \in 1 .. n : j <= k => Complete[j].start <= Complete[k].start
  <2> DEFINE f == [k \in 1 .. n |-> Complete[k].start]
  <2>1. \A k \in 1 .. n : f[k] \in Int /\ f[k] = Complete[k].start
    BY <1>4
  <2>2. ASSUME NEW k \in 2 .. n PROVE f[k - 1] <= f[k]
    <3>1. k \in 1 .. n /\ k - 1 \in 1 .. n /\ (k - 1) - 1 = k - 2
      BY <1>1
    <3>2. Entry(k - 2).start <= Entry(k - 1).start
      BY <1>1 DEF Accepted
    <3>3. Complete[k] = Entry(k - 1) /\ Complete[k - 1] = Entry(k - 2)
      BY <1>4, <3>1
    <3> HIDE DEF n
    <3> QED BY <2>1, <3>1, <3>2, <3>3
  <2> HIDE DEF f, n
  <2>3. \A i, j \in 1 .. n : i <= j => f[i] <= f[j]
    BY <1>1, <2>1, <2>2, AscendsFromNeighbours
  <2> QED BY <2>1, <2>3
<1> HIDE DEF keep, own, n
<1>6. own \in Seq(Entries) /\ Len(own) \in Nat
  BY <1>2, <1>3, KeptEmbeds
<1>7. PICK h : Embeds(h, own, Complete, keep, n)
  BY <1>2, <1>3, KeptEmbeds
<1>8. ASSUME NEW k \in 1 .. Len(own)
      PROVE  /\ h[k] \in 1 .. n /\ own[k] = Complete[h[k]] /\ own[k].id = h[k] - 1
             /\ own[k].id \in Listed /\ own[k] = Entry(own[k].id) /\ assignment[own[k].from] = s
  <2>1. h[k] \in 1 .. n /\ own[k] = Complete[h[k]] /\ own[k] \in keep
    BY <1>7 DEF Embeds
  <2> QED BY <1>4, <2>1 DEF keep
<1>9. ASSUME NEW j \in 1 .. Len(own), NEW k \in 1 .. Len(own), j < k
      PROVE  own[j].id < own[k].id /\ own[j].start <= own[k].start
  <2>1. h[j] < h[k]
    BY <1>7, <1>9 DEF Embeds
  <2>2. h[j] \in 1 .. n /\ h[k] \in 1 .. n
    BY <1>8
  <2>3. own[j].id < own[k].id /\ h[j] <= h[k]
    BY <1>1, <1>8, <2>1, <2>2
  <2> QED BY <1>5, <1>8, <2>2, <2>3
<1>10. ASSUME NEW c \in Listed, assignment[Entry(c).from] = s
       PROVE  \E k \in 1 .. Len(own) : own[k].id = c
  <2>1. c + 1 \in 1 .. n /\ (c + 1) - 1 = c
    BY <1>1 DEF Listed, n
  <2>2. Complete[c + 1] = Entry(c)
    BY <1>4, <2>1
  <2>3. Complete[c + 1] \in keep
    BY <1>2, <1>10, <2>1, <2>2 DEF keep, Range
  <2>4. PICK k \in 1 .. Len(own) : h[k] = c + 1
    BY <1>7, <2>1, <2>3 DEF Embeds
  <2> QED BY <1>8, <2>1, <2>4
<1> QED BY <1>6, <1>8, <1>9, <1>10 DEF own

LEMMA OwnPingShape ==
  ASSUME lines \in Schedule, Accepted, NEW s, NEW k \in 1 .. Len(OwnPings(s))
  PROVE  OwnPings(s)[k].start \in Nat
<1>1. OwnPings(s)[k].id \in Listed /\ OwnPings(s)[k] = Entry(OwnPings(s)[k].id)
  BY OwnPingsOrdered
<1>2. \A c \in Listed : Entry(c).start \in Nat
  BY EntryFacts
<1> QED BY <1>1, <1>2

LEMMA OwnPingsStay ==
  ASSUME UNCHANGED <<lines, assignment>>
  PROVE  \A s : OwnPings(s)' = OwnPings(s)
<1>1. Complete' = Complete
  BY EntriesStay DEF Complete
<1> QED BY <1>1 DEF OwnPings

LEMMA ResultsStay ==
  ASSUME UNCHANGED timestamps, UNCHANGED <<schedule, apps>>
  PROVE  \A t : SystemRows(t)' = SystemRows(t) /\ SystemSummaries(t)' = SystemSummaries(t)
<1>1. \A c : Sent(c)' = Sent(c)
  BY DEF Sent, timestamps
<1>2. \A c, k : Row(c, k)' = Row(c, k) /\ ReplyArrived(c, k)' = ReplyArrived(c, k)
  BY DEF Row, ReplyArrived, timestamps
<1>3. \A c : Rows(c)' = Rows(c) /\ Counted(c)' = Counted(c)
  BY <1>1, <1>2 DEF Rows, Counted
<1>4. \A c : Summary(c)' = Summary(c)
  BY <1>1, <1>2, <1>3 DEF Summary
<1> QED BY <1>3, <1>4 DEF SystemRows, SystemSummaries

(* A step of the clients, before the end of the run.                         *)
LEMMA QuietResults ==
  ASSUME ResultsInv, UNCHANGED <<lines, now>>, UNCHANGED scheduling, phase # "stopped"
  PROVE  /\ rows' = [s \in System |-> rows'[s]] /\ summaries' = [s \in System |-> summaries'[s]]
         /\ PhaseSound' /\ \A s \in System : AppsSound(s)' /\ WrittenSound(s)'
<1> USE DEF ResultsInv, scheduling
<1>1. \A s : OwnPings(s)' = OwnPings(s)
  BY OwnPingsStay
<1>2. PhaseSound'
  BY DEF PhaseSound
<1>3. ASSUME NEW s \in System PROVE AppsSound(s)' /\ WrittenSound(s)'
  <2>1. AppsSound(s) /\ Nothing(s)
    BY DEF WrittenSound
  <2>2. AppsSound(s)'
    BY <1>1, <2>1 DEF AppsSound, Begun, NextPing
  <2>3. Nothing(s)'
    BY <2>1 DEF Nothing
  <2> QED BY <2>2, <2>3 DEF WrittenSound
<1> QED BY <1>2, <1>3

LEMMA InstalledStay ==
  ASSUME UNCHANGED <<startTime, apps>>
  PROVE  Installed' = Installed /\ \A c : Started(c)' = Started(c)
  BY DEF Installed, Started

LEMMA ConstructResults ==
  ASSUME IInv, ResultsInv, Construct
  PROVE  ResultsInv'
<1> USE DEF IInv, ResultsInv
<1>1. /\ UNCHANGED <<lines, now, startTime, sendEvent, sendRequestTimestamps>>
      /\ UNCHANGED <<assignment, apps, rows, summaries>>
      /\ phase = "setup" /\ now = 0 /\ phase' \in {"running", "threw"}
  BY DEF Construct, vars, timestamps, PhaseSound
<1>2. \A s \in System : apps[s] = <<>> /\ event[s] = 0 /\ Nothing(s) /\ schedule[s] = <<>>
  BY <1>1 DEF SchedulingSound, WrittenSound, AppsSound
<1>3. \A s : OwnPings(s)' = OwnPings(s)
  BY <1>1, OwnPingsStay
<1>4. SendersSound'
  BY <1>1 DEF SendersSound, Started, Sent
<1>5. \A s \in System : WrittenSound(s)'
  BY <1>1, <1>2 DEF WrittenSound, Nothing
<1>6. CASE Accepted
  <2>1. /\ phase' = "running" /\ schedule' = [s \in System |-> OwnPings(s)]
        /\ event' = [s \in System |-> IF OwnPings(s) = <<>> THEN 0 ELSE 1]
    BY <1>6 DEF Construct
  <2>2. PhaseSound'
    <3>1. ASSUME lines # <<>> PROVE 0 < EndTime
      <4>1. Len(lines) \in Nat \ {0}
        BY <3>1, SchedulerAssumption DEF SchedulingTyped
      <4>2. 1 \in DOMAIN lines /\ 1 - 1 = 0 /\ 0 \in Listed
        BY <4>1, SchedulerAssumption DEF SchedulingTyped, Listed
      <4>3. Entry(0).start \in Nat /\ Entry(0).start < EndTime
        BY <1>6, <4>2, EntryFacts DEF Accepted, IsEntry, SchedulingTyped
      <4> QED BY <4>3, PingAssumption
    <3> QED BY <1>1, <2>1, <3>1 DEF PhaseSound
  <2>3. ASSUME NEW s \in System PROVE AppsSound(s)'
    <3>1. schedule'[s] = OwnPings(s) /\ apps'[s] = <<>> /\ OwnPings(s) \in Seq(Entries)
      BY <1>1, <1>2, <1>6, <2>1, OwnPingsOrdered DEF SchedulingTyped
    <3>2. CASE OwnPings(s) = <<>>
      <4>1. event'[s] = 0
        BY <2>1, <3>2
      <4> QED BY <1>3, <2>1, <3>1, <3>2, <4>1 DEF AppsSound, Begun
    <3>3. CASE OwnPings(s) # <<>>
      <4>1. event'[s] = 1 /\ 1 \in 1 .. Len(OwnPings(s))
        BY <2>1, <3>1, <3>3
      <4>2. OwnPings(s)[1].start \in Nat
        BY <1>6, <4>1, OwnPingShape DEF SchedulingTyped
      <4>3. NextPing(s)' = OwnPings(s)[1]
        BY <3>1, <4>1 DEF NextPing
      <4> QED BY <1>1, <1>3, <2>1, <3>1, <4>1, <4>2, <4>3 DEF AppsSound, Begun
    <3> QED BY <3>2, <3>3
  <2> QED BY <1>1, <1>4, <1>5, <2>2, <2>3
<1>7. CASE ~ Accepted
  <2>1. phase' = "threw" /\ UNCHANGED <<schedule, event>>
    BY <1>7 DEF Construct
  <2>2. PhaseSound'
    BY <2>1 DEF PhaseSound
  <2>3. ASSUME NEW s \in System PROVE AppsSound(s)'
    BY <1>1, <1>2, <2>1 DEF AppsSound, Begun
  <2> QED BY <1>1, <1>4, <1>5, <2>2, <2>3
<1> QED BY <1>6, <1>7

LEMMA StartNextResults ==
  ASSUME IInv, ResultsInv, NEW s \in System, StartNextUdpPing(s)
  PROVE  ResultsInv'
<1> USE DEF IInv, ResultsInv
<1>1. /\ UNCHANGED <<lines, now, startTime, sendEvent, sendRequestTimestamps>>
      /\ UNCHANGED <<assignment, phase, schedule, rows, summaries>>
      /\ phase = "running" /\ event[s] # 0 /\ NextPing(s).start = now
  BY DEF StartNextUdpPing, vars, timestamps, Simulating
<1>2. Accepted /\ event[s] \in 1 .. Len(schedule[s]) /\ schedule[s] = OwnPings(s)
  BY <1>1 DEF SchedulingSound, SchedulingTyped, AppsSound
<1>3. /\ apps' = [apps EXCEPT ![s] = Append(@, NextPing(s).id)]
      /\ event' = [event EXCEPT ![s] = IF @ = Len(schedule[s]) THEN 0 ELSE @ + 1]
  BY DEF StartNextUdpPing
<1>4. /\ apps'[s] = Append(apps[s], NextPing(s).id) /\ apps[s] \in Seq(Listed)
      /\ event'[s] = (IF event[s] = Len(schedule[s]) THEN 0 ELSE event[s] + 1)
      /\ \A t \in System : t # s => apps'[t] = apps[t] /\ event'[t] = event[t]
  BY <1>3 DEF SchedulingTyped
<1>5. PhaseSound' /\ SendersSound'
  BY <1>1 DEF PhaseSound, SendersSound, Started, Sent
<1>6. \A t \in System : WrittenSound(t)'
  BY <1>1 DEF WrittenSound, Nothing
<1>7. \A t : OwnPings(t)' = OwnPings(t)
  BY <1>1, OwnPingsStay
<1>8. AppsSound(s)'
  <2> DEFINE n == Len(schedule[s])
             b == event[s]
  <2>1. n \in Nat /\ b \in 1 .. n /\ Begun(s) = b - 1 /\ Len(apps[s]) = b - 1
    BY <1>1, <1>2 DEF SchedulingTyped, AppsSound, Begun
  <2>2. Begun(s)' = b
    BY <1>1, <1>4, <2>1 DEF Begun
  <2>3. Len(apps'[s]) = b /\ \A i \in 1 .. b : apps'[s][i] = schedule[s][i].id
    <3>1. \A i \in 1 .. b - 1 : apps[s][i] = schedule[s][i].id
      BY <2>1 DEF AppsSound
    <3>2. NextPing(s).id = schedule[s][b].id
      BY DEF NextPing
    <3> HIDE DEF n, b
    <3>3. Len(apps'[s]) = b /\ apps'[s][b] = NextPing(s).id
          /\ \A i \in 1 .. b - 1 : apps'[s][i] = apps[s][i]
      BY <1>4, <2>1
    <3> QED BY <2>1, <3>1, <3>2, <3>3
  <2>4. event'[s] # 0 => NextPing(s)'.start >= now
    <3> SUFFICES ASSUME event'[s] # 0 PROVE NextPing(s)'.start >= now
      OBVIOUS
    <3>1. event'[s] = b + 1 /\ b + 1 \in 1 .. n
      BY <1>4, <2>1
    <3>2. schedule[s][b].start <= schedule[s][b + 1].start
      <4>1. b \in 1 .. n /\ b < b + 1
        BY <2>1
      <4>2. \A j, k \in 1 .. n : j < k => schedule[s][j].start <= schedule[s][k].start
        BY <1>2, OwnPingsOrdered DEF SchedulingTyped
      <4> HIDE DEF b, n
      <4> QED BY <3>1, <4>1, <4>2
    <3>3. schedule[s][b + 1].start \in Nat /\ now \in Nat
      BY <1>2, <3>1, OwnPingShape DEF SchedulingTyped
    <3>4. NextPing(s)' = schedule[s][b + 1] /\ schedule[s][b].start = now
      BY <1>1, <3>1 DEF NextPing
    <3> HIDE DEF b, n
    <3> QED BY <3>2, <3>3, <3>4
  <2> HIDE DEF n, b
  <2> QED BY <1>1, <1>2, <1>7, <2>2, <2>3, <2>4 DEF AppsSound
<1>9. ASSUME NEW t \in System, t # s PROVE AppsSound(t)'
  <2>1. Begun(t)' = Begun(t) /\ NextPing(t)' = NextPing(t)
    BY <1>1, <1>4, <1>9 DEF Begun, NextPing
  <2> QED BY <1>1, <1>4, <1>7, <1>9, <2>1 DEF AppsSound
<1> QED BY <1>1, <1>5, <1>6, <1>8, <1>9

LEMMA WriteResultsResults ==
  ASSUME IInv, ResultsInv, NEW s \in System, WriteResults(s)
  PROVE  ResultsInv'
<1> USE DEF IInv, ResultsInv
<1>1. /\ UNCHANGED <<lines, now, startTime, sendEvent, timestamps>>
      /\ UNCHANGED <<assignment, phase, schedule, event, apps>> /\ phase = "stopped"
      /\ rows' = [rows EXCEPT ![s] = SystemRows(s)]
      /\ summaries' = [summaries EXCEPT ![s] = SystemSummaries(s)]
  BY DEF WriteResults, vars
<1>2. PhaseSound' /\ SendersSound'
  BY <1>1, InstalledStay DEF PhaseSound, SendersSound, Sent, timestamps
<1>3. \A t : OwnPings(t)' = OwnPings(t)
  BY <1>1, OwnPingsStay
<1>4. \A t \in System : AppsSound(t)'
  BY <1>1, <1>3 DEF AppsSound, Begun, NextPing
<1>5. /\ \A t : SystemRows(t)' = SystemRows(t)
      /\ \A t : SystemSummaries(t)' = SystemSummaries(t)
  BY <1>1, ResultsStay
<1>6. /\ rows'[s] = SystemRows(s) /\ summaries'[s] = SystemSummaries(s)
      /\ \A t \in System : t # s => rows'[t] = rows[t] /\ summaries'[t] = summaries[t]
      /\ rows' = [t \in System |-> rows'[t]] /\ summaries' = [t \in System |-> summaries'[t]]
  BY <1>1
<1>7. ASSUME NEW t \in System PROVE WrittenSound(t)'
  <2>1. CASE t = s
    BY <1>1, <1>5, <1>6, <2>1 DEF WrittenSound, Results
  <2>2. CASE t # s
    BY <1>1, <1>5, <1>6, <2>2 DEF WrittenSound, Results, Nothing
  <2> QED BY <2>1, <2>2
<1> QED BY <1>2, <1>4, <1>6, <1>7

LEMMA AdvanceResults ==
  ASSUME IInv, ResultsInv, Advance
  PROVE  ResultsInv'
<1> USE DEF IInv, ResultsInv
<1>1. /\ UNCHANGED <<lines, startTime, sendEvent, timestamps>>
      /\ UNCHANGED <<assignment, schedule, event, apps, rows, summaries>>
      /\ phase = "running" /\ now \in Nat /\ now' = now + 1 /\ EndTime \in Nat
      /\ phase' = IF now + 1 = EndTime THEN "stopped" ELSE "running"
      /\ \A c \in Installed : Started(c)
      /\ \A s \in System : event[s] # 0 => NextPing(s).start > now
  BY PingAssumption DEF Advance, SchedulingTyped, Simulating, Started
<1>2. PhaseSound' /\ SendersSound'
  BY <1>1, InstalledStay DEF PhaseSound, SendersSound, Sent, timestamps
<1>3. \A s : OwnPings(s)' = OwnPings(s)
  BY <1>1, OwnPingsStay
<1>4. ASSUME NEW s \in System PROVE AppsSound(s)'
  <2>1. AppsSound(s) /\ Begun(s)' = Begun(s) /\ NextPing(s)' = NextPing(s)
    BY <1>1 DEF Begun, NextPing
  <2>2. event[s] # 0 => NextPing(s).start >= now + 1
    <3> SUFFICES ASSUME event[s] # 0 PROVE NextPing(s).start >= now + 1
      OBVIOUS
    <3>1. Accepted /\ event[s] \in 1 .. Len(schedule[s]) /\ schedule[s] = OwnPings(s)
      BY <1>1 DEF SchedulingSound, SchedulingTyped, AppsSound
    <3>2. NextPing(s).start \in Nat
      BY <3>1, OwnPingShape DEF NextPing, SchedulingTyped
    <3> QED BY <1>1, <3>2
  <2> QED BY <1>1, <1>3, <2>1, <2>2 DEF AppsSound
<1>5. ASSUME NEW s \in System PROVE WrittenSound(s)'
  BY <1>1 DEF WrittenSound, Nothing
<1> QED BY <1>1, <1>2, <1>4, <1>5

LEMMA ClientsResults ==
  ASSUME IInv, ResultsInv,
         RunPings \/ (\E c \in Ping : StartClient(c)) \/ UNCHANGED <<vars, scheduling>>
  PROVE  ResultsInv'
<1> USE DEF IInv, ResultsInv
<1>1. CASE RunPings
  <2>1. UNCHANGED <<lines, now, startTime>> /\ UNCHANGED scheduling /\ phase # "stopped"
    BY <1>1 DEF RunPings, Simulating, PingStep, Send, Finish, Echo, Arrive, Lose
  <2>2. SendersSound'
    <3>1. ASSUME NEW c \in Ping, Send(c) PROVE SendersSound'
      <4>1. /\ \A d \in Ping : d # c => Sent(d)' = Sent(d) /\ sendEvent'[d] = sendEvent[d]
            /\ Sent(c)' = Sent(c) + 1 /\ Sent(c) \in Nat
        BY <3>1 DEF Send, PushTimestamps, ScheduleNext, ClientsTyped, Sent
      <4> QED BY <2>1, <4>1 DEF SendersSound, Started
    <3>2. ASSUME UNCHANGED <<sendRequestTimestamps, sendEvent>> PROVE SendersSound'
      BY <2>1, <3>2 DEF SendersSound, Started, Sent
    <3>3. ASSUME NEW c \in Ping, Finish(c) PROVE SendersSound'
      BY <3>2, <3>3 DEF Finish, timestamps
    <3>4. ASSUME NEW m \in net, Echo(m) \/ Arrive(m) \/ Lose(m) PROVE SendersSound'
      BY <3>2, <3>4 DEF Echo, Arrive, Lose, HandleRead, timestamps
    <3> QED BY <1>1, <3>1, <3>3, <3>4 DEF RunPings, PingStep
  <2> QED BY <2>1, <2>2, QuietResults
<1>2. ASSUME NEW c \in Ping, StartClient(c) PROVE ResultsInv'
  <2>1. UNCHANGED <<lines, now, timestamps>> /\ UNCHANGED scheduling /\ phase # "stopped"
    BY <1>2 DEF StartClient, StartApplication, Simulating
  <2>2. SendersSound'
    <3>1. \/ UNCHANGED <<startTime, sendEvent>>
          \/ /\ \A d \in Ping : d # c => startTime'[d] = startTime[d] /\ sendEvent'[d] = sendEvent[d]
             /\ sendEvent'[c] = now
      BY <1>2 DEF StartClient, StartApplication, ClientsTyped
    <3>2. now # Never
      BY DEF SchedulingTyped, Never
    <3> QED BY <2>1, <3>1, <3>2 DEF SendersSound, Started, Sent, timestamps
  <2> QED BY <2>1, <2>2, QuietResults
<1>3. CASE UNCHANGED <<vars, scheduling>>
  <2>1. /\ UNCHANGED <<lines, now, startTime, sendEvent, timestamps>>
        /\ UNCHANGED <<assignment, phase, schedule, event, apps, rows, summaries>>
    BY <1>3 DEF vars, scheduling
  <2>2. PhaseSound' /\ SendersSound'
    BY <2>1, InstalledStay DEF PhaseSound, SendersSound, Sent, timestamps
  <2>3. \A t : OwnPings(t)' = OwnPings(t)
    BY <2>1, OwnPingsStay
  <2>4. \A t \in System : AppsSound(t)'
    BY <2>1, <2>3 DEF AppsSound, Begun, NextPing
  <2>5. /\ \A t : SystemRows(t)' = SystemRows(t)
        /\ \A t : SystemSummaries(t)' = SystemSummaries(t)
    BY <2>1, ResultsStay
  <2>6. \A t \in System : WrittenSound(t)'
    BY <2>1, <2>5 DEF WrittenSound, Results, Nothing
  <2> QED BY <2>1, <2>2, <2>4, <2>6
<1> QED BY <1>1, <1>2, <1>3

LEMMA ResultsAlways ==
  SchedulerSpec => [](IInv /\ ResultsInv)
<1>1. SchedulerInit => ResultsInv
  <2> SUFFICES ASSUME SchedulerInit PROVE ResultsInv
    OBVIOUS
  <2> USE DEF SchedulerInit, Init
  <2>1. Installed = {} /\ \A c \in Ping : ~ Started(c)
    BY DEF Installed, Range, Started
  <2>2. PhaseSound /\ SendersSound
    BY <2>1 DEF PhaseSound, SendersSound
  <2>3. \A s \in System : AppsSound(s) /\ WrittenSound(s)
    BY DEF AppsSound, Begun, WrittenSound, Nothing
  <2> QED BY <2>2, <2>3 DEF ResultsInv
<1>2. IInv /\ ResultsInv /\ [SchedulerNext]_<<vars, scheduling>> => ResultsInv'
  BY ConstructResults, StartNextResults, WriteResultsResults, AdvanceResults, ClientsResults
     DEF SchedulerNext
<1> QED BY <1>1, <1>2, Inductive, PTL DEF SchedulerSpec

-----------------------------------------------------------------------------
(* The results of a run that is over.                                        *)

Over(s) == phase = "stopped" /\ Len(summaries[s]) = Len(schedule[s])

(* The clients of the system are those of its schedule, and its results are  *)
(* written.                                                                  *)
LEMMA OverFacts ==
  ASSUME IInv, ResultsInv, NEW s \in System, Over(s)
  PROVE  /\ Accepted /\ schedule[s] = OwnPings(s) /\ apps[s] \in Seq(Listed)
         /\ Len(apps[s]) = Len(schedule[s])
         /\ \A i \in 1 .. Len(apps[s]) : apps[s][i] = schedule[s][i].id
         /\ rows[s] = SystemRows(s) /\ summaries[s] = SystemSummaries(s)
<1> USE DEF IInv, ResultsInv, Over
<1>1. Accepted /\ schedule[s] = OwnPings(s) /\ apps[s] \in Seq(Listed) /\ now = EndTime
  BY DEF SchedulingSound, SchedulingTyped, AppsSound, PhaseSound
<1>2. event[s] = 0
  <2>1. SUFFICES ASSUME event[s] # 0 PROVE FALSE
    OBVIOUS
  <2>2. event[s] \in 1 .. Len(schedule[s]) /\ NextPing(s).start >= now
    BY <2>1 DEF SchedulingSound, SchedulingTyped, AppsSound
  <2> DEFINE e == OwnPings(s)[event[s]]
  <2>3. e.id \in Listed /\ e = Entry(e.id) /\ NextPing(s) = e
    BY <1>1, <2>2, OwnPingsOrdered DEF NextPing, SchedulingTyped
  <2> HIDE DEF e
  <2>4. e.id \in Nat /\ e.id + 1 \in DOMAIN lines /\ (e.id + 1) - 1 = e.id
    BY <2>3, SchedulerAssumption DEF Listed, SchedulingTyped
  <2>5. Entry(e.id).start < EndTime /\ Entry(e.id).start \in Nat
    BY <1>1, <2>3, <2>4, EntryFacts DEF Accepted, IsEntry, SchedulingTyped
  <2>6. e.start < EndTime /\ e.start \in Nat /\ e.start >= EndTime
    BY <1>1, <2>2, <2>3, <2>5
  <2> QED BY <2>6, PingAssumption
<1>3. /\ Len(apps[s]) = Len(schedule[s])
      /\ \A i \in 1 .. Len(apps[s]) : apps[s][i] = schedule[s][i].id
  BY <1>2 DEF AppsSound, Begun
<1>4. Results(s)
  <2>1. CASE Nothing(s)
    <3>1. apps[s] = <<>> /\ DOMAIN apps[s] = {}
      BY <1>1, <1>3, <2>1 DEF Nothing
    <3>2. SystemSummaries(s) = <<>>
      BY <3>1 DEF SystemSummaries
    <3>3. SystemRows(s) = <<>>
      BY <3>1 DEF SystemRows, FlattenSeq
    <3> QED BY <2>1, <3>2, <3>3 DEF Nothing, Results
  <2>2. CASE ~ Nothing(s)
    BY <2>2 DEF WrittenSound
  <2> QED BY <2>1, <2>2
<1> QED BY <1>1, <1>3, <1>4 DEF Results

(* Every request of a client that was installed has the row it deserves.     *)
RowTrue(c, k) ==
  LET r == Row(c, k) IN
  /\ r.id = c /\ r.seq = k - 1 /\ r.send = Entry(c).start + (k - 1) * Interval(c)
  /\ r.outcome = "YES" <=> k \in Counted(c)
  /\ IF r.outcome = "YES"
     THEN /\ <<c, k - 1, r.reply>> \in echoed
          /\ r.rtt = r.receive - r.send /\ r.rtt = r.there + r.back
          /\ r.there \in Nat /\ r.back \in Nat /\ r.rtt \in Nat
          /\ {r.there, r.back} \subseteq 0 .. r.rtt
     ELSE {r.reply, r.receive, r.rtt} = {-1}

LEMMA ClientsAtEnd ==
  ASSUME IInv, ResultsInv, phase = "stopped", NEW c \in Installed
  PROVE  /\ c \in Ping /\ c \in Listed /\ Sent(c) \in Nat /\ Sent(c) >= 1
         /\ \A k \in 1 .. Sent(c) : RowTrue(c, k)
<1> USE DEF IInv, ResultsInv
<1>1. c \in Listed /\ c \in Ping /\ Accepted
  BY InstalledIsListed, ListedIsPing DEF SchedulingTyped
<1>2. Sent(c) \in Nat /\ Started(c) /\ OnSchedule(c) /\ now = EndTime
  BY <1>1 DEF ClientsTyped, Sent, PhaseSound, ClientsSound, ClientSound
<1>3. Sent(c) >= 1
  <2>1. CASE sendEvent[c] = Never
    BY <1>1, <1>2, <2>1 DEF SendersSound
  <2>2. CASE sendEvent[c] # Never
    <3>1. SUFFICES ASSUME Sent(c) = 0 PROVE FALSE
      BY <1>2
    <3>2. Entry(c).start \in Nat /\ Interval(c) \in Nat
      BY <1>1, EntryFacts DEF SchedulingTyped
    <3>3. Entry(c).start < EndTime
      <4>1. c + 1 \in DOMAIN lines /\ (c + 1) - 1 = c
        BY <1>1, SchedulerAssumption DEF Listed, SchedulingTyped
      <4> QED BY <1>1, <4>1 DEF Accepted, IsEntry
    <3>4. now <= Entry(c).start + Sent(c) * Interval(c)
      BY <1>2, <2>2 DEF OnSchedule
    <3>5. Sent(c) * Interval(c) = 0
      BY <3>1, <3>2
    <3> QED BY <1>2, <3>2, <3>3, <3>4, <3>5, PingAssumption
  <2> QED BY <2>1, <2>2
<1>4. ASSUME NEW k \in 1 .. Sent(c) PROVE RowTrue(c, k)
  <2> DEFINE send == sendRequestTimestamps[c][k]
             reply == replyTimestamps[c][k]
             receive == receiveReplyTimestamps[c][k]
  <2>1. send \in Int /\ reply \in Int /\ receive \in Int
    BY <1>1 DEF ClientsTyped, ClientsSound, ClientSound, Sent
  <2>2. send = Entry(c).start + (k - 1) * Interval(c)
    BY <1>2 DEF OnSchedule
  <2>3. IF reply = -1 THEN receive = -1
        ELSE <<c, k - 1, reply>> \in echoed /\ send <= reply /\ reply <= receive
    BY <1>1 DEF RepliesAreOwn
  <2>4. k \in Counted(c) <=> reply # -1
    BY DEF Counted, ReplyArrived
  <2> HIDE DEF send, reply, receive
  <2>5. /\ Row(c, k).id = c /\ Row(c, k).seq = k - 1 /\ Row(c, k).send = send
        /\ Row(c, k).reply = reply /\ Row(c, k).receive = receive
        /\ reply # -1 => /\ Row(c, k).outcome = "YES" /\ Row(c, k).there = reply - send
                         /\ Row(c, k).back = receive - reply
                         /\ Row(c, k).rtt = (reply - send) + (receive - reply)
        /\ reply = -1 => Row(c, k).outcome = "LOST" /\ Row(c, k).rtt = -1
    BY DEF Row, ReplyArrived, send, reply, receive
  <2>6. CASE reply # -1
    <3> DEFINE r == Row(c, k)
    <3>1. r.there = reply - send /\ r.back = receive - reply
          /\ r.rtt = (reply - send) + (receive - reply) /\ r.receive = receive /\ r.send = send
      BY <2>5, <2>6
    <3> HIDE DEF r
    <3>2. /\ r.rtt = r.receive - r.send /\ r.rtt = r.there + r.back
          /\ r.there \in Nat /\ r.back \in Nat /\ r.rtt \in Nat
          /\ {r.there, r.back} \subseteq 0 .. r.rtt
      BY <2>1, <2>3, <2>6, <3>1
    <3> QED BY <2>2, <2>3, <2>4, <2>5, <2>6, <3>2 DEF RowTrue, r
  <2>7. CASE reply = -1
    BY <2>2, <2>3, <2>4, <2>5, <2>7 DEF RowTrue
  <2> QED BY <2>6, <2>7
<1> QED BY <1>1, <1>2, <1>3, <1>4

(* The rows of a system are the blocks of its clients, one after the other.  *)
AnyRow == {Row(c, k) : c \in Ping, k \in Nat}
Blocks(s) == [i \in 1 .. Len(apps[s]) |-> Rows(apps[s][i])]

LEMMA RowsInBlocks ==
  ASSUME IInv, ResultsInv, NEW s \in System, Over(s)
  PROVE  /\ \A i \in 1 .. Len(apps[s]) :
              /\ Blocks(s)[i] = Rows(apps[s][i]) /\ Rows(apps[s][i]) \in Seq(AnyRow)
              /\ Sent(apps[s][i]) \in Nat /\ Len(Rows(apps[s][i])) = Sent(apps[s][i])
              /\ \A k \in 1 .. Len(Rows(apps[s][i])) : Rows(apps[s][i])[k].id = apps[s][i]
         /\ \A j \in 1 .. Len(apps[s]) :
              /\ rows[s] \in Seq(AnyRow)
              /\ \E a \in Nat : IsBlock(rows[s], Blocks(s), 1 .. Len(apps[s]), j, a)
<1> DEFINE n == Len(apps[s])
           app == apps[s]
<1>1. app \in Seq(Listed) /\ n \in Nat /\ rows[s] = SystemRows(s)
  BY OverFacts DEF Over
<1>2. \A i \in 1 .. n : app[i] \in Installed
  BY <1>1 DEF Installed, Range
<1>3. rows[s] = FlattenSeq(Blocks(s))
  BY <1>1 DEF SystemRows, Blocks
<1>4. ASSUME NEW i \in 1 .. n
      PROVE  /\ app[i] \in Ping /\ Rows(app[i]) \in Seq(AnyRow) /\ Sent(app[i]) \in Nat
             /\ Len(Rows(app[i])) = Sent(app[i])
             /\ \A k \in 1 .. Len(Rows(app[i])) : Rows(app[i])[k].id = app[i]
  <2>1. app[i] \in Ping /\ Sent(app[i]) \in Nat
    BY <1>1, <1>2, ClientsAtEnd DEF Over
  <2>2. \A k \in 1 .. Sent(app[i]) : k \in Nat
    BY <2>1
  <2>3. \A k \in 1 .. Sent(app[i]) : Row(app[i], k) \in AnyRow
    BY <2>1, <2>2 DEF AnyRow
  <2>4. Rows(app[i]) \in Seq(AnyRow) /\ Len(Rows(app[i])) = Sent(app[i])
    BY <2>1, <2>3 DEF Rows
  <2>5. \A k : Row(app[i], k).id = app[i]
    BY DEF Row
  <2> QED BY <2>1, <2>4, <2>5 DEF Rows
<1>5. Blocks(s) \in [1 .. n -> Seq(AnyRow)] /\ \A i \in 1 .. n : Blocks(s)[i] = Rows(app[i])
  BY <1>4 DEF Blocks
<1> HIDE DEF app, n
<1>6. ASSUME NEW j \in 1 .. n
      PROVE  rows[s] \in Seq(AnyRow) /\ \E a \in Nat : IsBlock(rows[s], Blocks(s), 1 .. n, j, a)
  BY <1>1, <1>3, <1>5, BlockOf
<1> QED BY <1>4, <1>5, <1>6 DEF app, n

(* The rows of a client, among all those of its system.                      *)
LEMMA OwnRows ==
  ASSUME IInv, ResultsInv, NEW s \in System, Over(s), NEW j \in 1 .. Len(apps[s])
  PROVE  Kept(rows[s], {r \in Range(rows[s]) : r.id = apps[s][j]}) = Rows(apps[s][j])
<1> DEFINE n == Len(apps[s])
           app == apps[s]
           ss == Blocks(s)
           keep == {r \in Range(rows[s]) : r.id = app[j]}
<1>1. /\ Accepted /\ schedule[s] = OwnPings(s) /\ app \in Seq(Listed) /\ n \in Nat
      /\ Len(schedule[s]) = n
      /\ \A i \in 1 .. n : app[i] = schedule[s][i].id
  BY OverFacts DEF Over
<1>4. ASSUME NEW i \in 1 .. n
      PROVE  /\ Rows(app[i]) \in Seq(AnyRow) /\ Sent(app[i]) \in Nat
             /\ Len(Rows(app[i])) = Sent(app[i])
             /\ \A k \in 1 .. Len(Rows(app[i])) : Rows(app[i])[k].id = app[i]
  BY RowsInBlocks
<1>5. \A i \in 1 .. n : ss[i] = Rows(app[i])
  BY RowsInBlocks
<1>6. ASSUME NEW i \in 1 .. n, i # j PROVE app[i] # app[j]
  <2>1. \A x, y \in 1 .. n : x < y => OwnPings(s)[x].id < OwnPings(s)[y].id
    BY <1>1, OwnPingsOrdered DEF IInv, SchedulingTyped
  <2>2. \A x \in 1 .. n : app[x] = OwnPings(s)[x].id /\ app[x] \in Nat
    BY <1>1 DEF Listed
  <2>3. j \in 1 .. n /\ (i < j \/ j < i)
    BY <1>1, <1>6
  <2> HIDE DEF n, app
  <2> QED BY <2>1, <2>2, <2>3
<1> HIDE DEF app, n, ss, keep
<1>7. j \in 1 .. n
  BY DEF n
<1>8. rows[s] \in Seq(AnyRow) /\ \E a \in Nat : IsBlock(rows[s], ss, 1 .. n, j, a)
  BY <1>7, RowsInBlocks DEF n, ss
<1>9. PICK a \in Nat : IsBlock(rows[s], ss, 1 .. n, j, a)
  BY <1>8
<1> DEFINE p == Sent(app[j])
           seq == rows[s]
<1>10. p \in Nat /\ Len(ss[j]) = p /\ a + p <= Len(seq) /\ Len(seq) \in Nat
  BY <1>4, <1>5, <1>7, <1>8, <1>9 DEF IsBlock
<1>11. \A k \in 1 .. p : seq[a + k] = Row(app[j], k)
  <2>1. \A k \in 1 .. p : seq[a + k] = ss[j][k]
    BY <1>9, <1>10 DEF IsBlock
  <2> QED BY <1>5, <1>7, <2>1 DEF Rows
<1>12. ASSUME NEW x \in 1 .. Len(seq)
       PROVE  seq[x] \in keep <=> x \in a + 1 .. a + p
  <2>1. seq[x] \in keep <=> seq[x].id = app[j]
    BY <1>8 DEF keep, Range
  <2>2. CASE x \in a + 1 .. a + p
    <3>1. x - a \in 1 .. p /\ a + (x - a) = x
      BY <1>10, <2>2
    <3>2. seq[x] = Row(app[j], x - a)
      BY <1>11, <3>1
    <3> QED BY <2>1, <2>2, <3>2 DEF Row
  <2>3. CASE x \notin a + 1 .. a + p
    <3>1. ComesFrom(rows[s], x, ss, (1 .. n) \ {j})
      BY <1>9, <1>10, <2>3 DEF IsBlock
    <3>2. PICK i \in (1 .. n) \ {j} : \E k \in 1 .. Len(ss[i]) : seq[x] = ss[i][k]
      BY <3>1 DEF ComesFrom
    <3>3. PICK k \in 1 .. Len(ss[i]) : seq[x] = ss[i][k]
      BY <3>2
    <3>4. seq[x].id = app[i]
      BY <1>4, <1>5, <3>3
    <3>5. app[i] # app[j]
      BY <1>6
    <3> QED BY <2>1, <2>3, <3>4, <3>5
  <2> QED BY <2>2, <2>3
<1>13. /\ Kept(seq, keep) \in Seq(AnyRow) /\ Len(Kept(seq, keep)) = p
       /\ \A k \in 1 .. p : Kept(seq, keep)[k] = seq[a + k]
  <2>1. KeepsBlock(seq, keep, a, p)
    BY <1>10, <1>12 DEF KeepsBlock
  <2>2. seq \in Seq(AnyRow) /\ p \in Nat
    BY <1>8, <1>10
  <2> HIDE DEF seq, p
  <2>3. BlockKept(Kept(seq, keep), AnyRow, seq, a, p)
    BY <2>1, <2>2, KeptBlock, Zenon
  <2> QED BY <2>3 DEF BlockKept
<1> DEFINE own == Kept(seq, keep)
           all == Rows(app[j])
<1>14. own = all
  <2>1. /\ all \in Seq(AnyRow) /\ Len(all) = p
        /\ \A k \in 1 .. p : all[k] = Row(app[j], k)
    BY <1>4, <1>7 DEF Rows
  <2>2. \A k \in 1 .. p : own[k] = all[k]
    BY <1>11, <1>13, <2>1
  <2>3. own \in Seq(AnyRow) /\ Len(own) = p
    BY <1>13
  <2> HIDE DEF own, all, p
  <2> QED BY <2>1, <2>2, <2>3, SeqEqual
<1> QED BY <1>14 DEF keep, app

(* Every row is one of a client of the system.                               *)
LEMMA RowsOfClients ==
  ASSUME IInv, ResultsInv, NEW s \in System, Over(s)
  PROVE  \A r \in Range(rows[s]) : \E j \in 1 .. Len(apps[s]) : r.id = apps[s][j]
<1> DEFINE n == Len(apps[s])
<1> SUFFICES ASSUME NEW x \in DOMAIN rows[s]
             PROVE  \E j \in 1 .. n : rows[s][x].id = apps[s][j]
  BY DEF Range
<1>1. n \in Nat /\ apps[s] \in Seq(Listed) /\ rows[s] = SystemRows(s)
  BY OverFacts
<1>2. CASE n = 0
  <2>1. [i \in 1 .. n |-> Rows(apps[s][i])] = <<>>
    BY <1>2
  <2>2. rows[s] = FlattenSeq(<<>>)
    BY <1>1, <2>1 DEF SystemRows
  <2>3. rows[s] = <<>>
    BY <2>2 DEF FlattenSeq
  <2> QED BY <2>3
<1>3. CASE n # 0
  <2> HIDE DEF n
  <2>1. 1 \in 1 .. n
    BY <1>1, <1>3
  <2>2. rows[s] \in Seq(AnyRow) /\ \E a \in Nat : IsBlock(rows[s], Blocks(s), 1 .. n, 1, a)
    BY <2>1, RowsInBlocks DEF n
  <2>3. PICK a \in Nat : IsBlock(rows[s], Blocks(s), 1 .. n, 1, a)
    BY <2>2
  <2>4. ComesFrom(rows[s], x, Blocks(s), 1 .. n)
    <3> DEFINE p == Len(Blocks(s)[1])
    <3>1. x \in 1 .. Len(rows[s]) /\ Len(rows[s]) \in Nat /\ p \in Nat
      BY <2>1, <2>2, RowsInBlocks DEF n
    <3>2. CASE x \in a + 1 .. a + p
      <4>1. x - a \in 1 .. p /\ a + (x - a) = x
        BY <3>1, <3>2
      <4>2. rows[s][x] = Blocks(s)[1][x - a]
        BY <2>3, <4>1 DEF IsBlock
      <4> QED BY <2>1, <4>1, <4>2 DEF ComesFrom
    <3>3. CASE x \notin a + 1 .. a + p
      <4>1. ComesFrom(rows[s], x, Blocks(s), (1 .. n) \ {1})
        BY <2>3, <3>1, <3>3 DEF IsBlock
      <4> QED BY <4>1 DEF ComesFrom
    <3> QED BY <3>2, <3>3
  <2>5. PICK i \in 1 .. n : \E k \in 1 .. Len(Blocks(s)[i]) : rows[s][x] = Blocks(s)[i][k]
    BY <2>4 DEF ComesFrom
  <2>6. PICK k \in 1 .. Len(Blocks(s)[i]) : rows[s][x] = Blocks(s)[i][k]
    BY <2>5
  <2>7. rows[s][x].id = apps[s][i]
    BY <2>6, RowsInBlocks DEF n
  <2> QED BY <2>7
<1> QED BY <1>2, <1>3

(* The statistics of a client are those of its answered requests.            *)
SummaryTrue(c) ==
  LET sum  == Summary(c)
      here == {Row(c, k) : k \in Counted(c)} IN
  /\ Cardinality(here) = sum.total
  /\ IF here = {} THEN {sum.there, sum.back, sum.min, sum.max} = {-1}
     ELSE /\ sum.max \in {r.rtt : r \in here}
          /\ sum.min \in {r.rtt : r \in here} \cup {MaxRtt}
          /\ \A r \in here : r.rtt \in sum.min .. sum.max
          /\ sum.there + sum.back \in sum.total * sum.min .. sum.total * sum.max

LEMMA MinMaxOf ==
  ASSUME NEW T, IsFiniteSet(T), T \subseteq Int, T # {}
  PROVE  /\ Min(T) \in T /\ \A x \in T : Min(T) <= x
         /\ Max(T) \in T /\ \A x \in T : x <= Max(T)
<1>1. \E x \in T : \A y \in T : x <= y
  <2> DEFINE Below(x) == {y \in T : y < x}
             Bad == {k \in Nat : \E x \in T : Cardinality(Below(x)) = k}
  <2>1. \A x \in T : IsFiniteSet(Below(x)) /\ Cardinality(Below(x)) \in Nat
    BY FS_Subset, FS_CardinalityType
  <2>2. PICK b \in Bad : \A m \in Bad : b <= m
    <3>1. Bad \in SUBSET Nat /\ Bad # {}
      BY <2>1
    <3> HIDE DEF Bad
    <3> QED BY <3>1, SmallestExists
  <2>3. PICK x \in T : Cardinality(Below(x)) = b
    BY <2>2
  <2>4. ASSUME NEW y \in T, ~ (x <= y) PROVE FALSE
    <3>1. y < x
      BY <2>4
    <3>2. Below(y) \subseteq Below(x) \ {y}
      <4>1. x \in Int /\ y \in Int /\ \A z \in T : z \in Int
        OBVIOUS
      <4>2. \A z \in T : z < y => z < x /\ z # y
        BY <3>1, <4>1
      <4> QED BY <4>2
    <3>3. y \in Below(x)
      BY <3>1
    <3>4. /\ IsFiniteSet(Below(x) \ {y})
          /\ Cardinality(Below(x) \ {y}) = Cardinality(Below(x)) - 1
      BY <2>1, <3>3, FS_RemoveElement
    <3>5. Cardinality(Below(y)) <= Cardinality(Below(x) \ {y})
      BY <3>2, <3>4, FS_Subset
    <3>6. Cardinality(Below(y)) \in Bad
      BY <2>1
    <3> DEFINE cx == Cardinality(Below(x))
               cy == Cardinality(Below(y))
    <3>7. cx \in Nat /\ cy \in Nat /\ cy <= cx - 1 /\ cx <= cy
      BY <2>1, <2>2, <2>3, <3>4, <3>5, <3>6
    <3> HIDE DEF cx, cy
    <3> QED BY <3>7
  <2> QED BY <2>4
<1>2. \E x \in T : \A y \in T : x >= y
  <2> DEFINE Above(x) == {y \in T : y > x}
             Bad == {k \in Nat : \E x \in T : Cardinality(Above(x)) = k}
  <2>1. \A x \in T : IsFiniteSet(Above(x)) /\ Cardinality(Above(x)) \in Nat
    BY FS_Subset, FS_CardinalityType
  <2>2. PICK b \in Bad : \A m \in Bad : b <= m
    <3>1. Bad \in SUBSET Nat /\ Bad # {}
      BY <2>1
    <3> HIDE DEF Bad
    <3> QED BY <3>1, SmallestExists
  <2>3. PICK x \in T : Cardinality(Above(x)) = b
    BY <2>2
  <2>4. ASSUME NEW y \in T, ~ (x >= y) PROVE FALSE
    <3>1. y > x
      BY <2>4
    <3>2. Above(y) \subseteq Above(x) \ {y}
      <4>1. x \in Int /\ y \in Int /\ \A z \in T : z \in Int
        OBVIOUS
      <4>2. \A z \in T : z > y => z > x /\ z # y
        BY <3>1, <4>1
      <4> QED BY <4>2
    <3>3. y \in Above(x)
      BY <3>1
    <3>4. /\ IsFiniteSet(Above(x) \ {y})
          /\ Cardinality(Above(x) \ {y}) = Cardinality(Above(x)) - 1
      BY <2>1, <3>3, FS_RemoveElement
    <3>5. Cardinality(Above(y)) <= Cardinality(Above(x) \ {y})
      BY <3>2, <3>4, FS_Subset
    <3>6. Cardinality(Above(y)) \in Bad
      BY <2>1
    <3> DEFINE cx == Cardinality(Above(x))
               cy == Cardinality(Above(y))
    <3>7. cx \in Nat /\ cy \in Nat /\ cy <= cx - 1 /\ cx <= cy
      BY <2>1, <2>2, <2>3, <3>4, <3>5, <3>6
    <3> HIDE DEF cx, cy
    <3> QED BY <3>7
  <2> QED BY <2>4
<1> QED BY <1>1, <1>2 DEF Min, Max

(* A minimum starts from MaxRtt and a maximum from -1 (udp-ping-scheduler.cc, *)
(* WriteResults); the sums cannot leave the bounds these two give.            *)
LEMMA SummariesAtEnd ==
  ASSUME NEW c, Sent(c) \in Nat, \A k \in 1 .. Sent(c) : RowTrue(c, k)
  PROVE  SummaryTrue(c)
<1> DEFINE C == Counted(c)
           here == {Row(c, k) : k \in C}
           rtts == {Row(c, k).rtt : k \in C}
           there == [k \in 1 .. Sent(c) |-> Row(c, k)["there"]]
           back == [k \in 1 .. Sent(c) |-> Row(c, k)["back"]]
           lo == Min({MaxRtt} \cup rtts)
           hi == Max({-1} \cup rtts)
           sum == Summary(c)
<1>1. C \subseteq 1 .. Sent(c) /\ IsFiniteSet(C) /\ Cardinality(C) \in Nat
  <2>1. C \subseteq 1 .. Sent(c) /\ IsFiniteSet(1 .. Sent(c))
    BY FS_Interval DEF Counted
  <2> HIDE DEF C
  <2> QED BY <2>1, FS_Subset, FS_CardinalityType
<1>2. \A k \in C : /\ Row(c, k).there \in Nat /\ Row(c, k).back \in Nat /\ Row(c, k).rtt \in Nat
                   /\ Row(c, k).rtt = Row(c, k).there + Row(c, k).back /\ Row(c, k).seq = k - 1
  BY <1>1 DEF RowTrue
<1>3. /\ sum.total = Cardinality(C)
      /\ rtts = {} => sum.there = -1 /\ sum.back = -1 /\ sum.min = -1 /\ sum.max = -1
      /\ rtts # {} => /\ sum.there = SumFunctionOnSet(there, C)
                      /\ sum.back = SumFunctionOnSet(back, C)
                      /\ sum.min = lo /\ sum.max = hi
  BY DEF Summary
<1> HIDE DEF C, sum
<1>4. rtts = {r.rtt : r \in here} /\ (here = {} <=> rtts = {})
  OBVIOUS
<1>5. Cardinality(here) = Cardinality(C)
  <2> DEFINE row == [k \in C |-> Row(c, k)]
  <2>1. \A j, k \in C : row[j] = row[k] => j = k
    <3> SUFFICES ASSUME NEW j \in C, NEW k \in C, row[j] = row[k] PROVE j = k
      OBVIOUS
    <3>1. Row(c, j).seq = Row(c, k).seq
      OBVIOUS
    <3>2. j - 1 = k - 1 /\ j \in Int /\ k \in Int
      BY <1>1, <1>2, <3>1
    <3> QED BY <3>2
  <2>2. row \in [C -> here] /\ \A r \in here : \E k \in C : row[k] = r
    OBVIOUS
  <2> HIDE DEF row, here
  <2>3. row \in Bijection(C, here)
    BY <2>1, <2>2 DEF Bijection, Injection, Surjection, IsInjective
  <2>4. ExistsBijection(C, here)
    BY <2>3 DEF ExistsBijection
  <2> QED BY <1>1, <2>4, FS_Bijection
<1>6. CASE rtts = {}
  BY <1>3, <1>4, <1>5, <1>6 DEF SummaryTrue, sum, C
<1>7. CASE rtts # {}
  <2>1. IsFiniteSet(rtts) /\ rtts \subseteq Nat
    <3> DEFINE rtt == [k \in C |-> Row(c, k).rtt]
    <3>1. IsFiniteSet(rtts)
      <4>1. rtt \in [C -> rtts] /\ \A x \in rtts : \E k \in C : rtt[k] = x
        OBVIOUS
      <4> HIDE DEF rtt, rtts
      <4>2. rtt \in Surjection(C, rtts)
        BY <4>1 DEF Surjection
      <4> QED BY <1>1, <4>2, FS_Surjection
    <3> QED BY <1>2, <3>1
  <2> HIDE DEF rtts, here
  <2>2. /\ IsFiniteSet({MaxRtt} \cup rtts) /\ {MaxRtt} \cup rtts \subseteq Int
        /\ IsFiniteSet({-1} \cup rtts) /\ {-1} \cup rtts \subseteq Int
    <3>1. IsFiniteSet({MaxRtt} \cup rtts) /\ IsFiniteSet({-1} \cup rtts)
      BY <2>1, FS_Singleton, FS_Union
    <3> QED BY <2>1, <3>1, SchedulerAssumption
  <2>3. lo \in {MaxRtt} \cup rtts /\ \A x \in rtts : lo <= x
    BY <2>2, MinMaxOf
  <2>4. hi \in {-1} \cup rtts /\ \A x \in rtts : x <= hi
    BY <2>2, MinMaxOf
  <2> HIDE DEF lo, hi
  <2>5. lo \in Int /\ hi \in Int /\ hi \in rtts
    <3>1. PICK x \in rtts : x <= hi
      BY <1>7, <2>4
    <3>2. x \in Nat /\ lo \in Int /\ hi \in Int
      BY <2>1, <2>2, <2>3, <2>4
    <3>3. hi # -1
      BY <3>1, <3>2
    <3> QED BY <2>4, <3>2, <3>3
  <2>6. \A k \in C : Row(c, k).rtt \in rtts
    BY DEF rtts
  <2>7. ASSUME NEW k \in C
        PROVE  /\ there[k] \in Int /\ back[k] \in Int
               /\ lo <= there[k] + back[k] /\ there[k] + back[k] <= hi
    <3>1. /\ there[k] = Row(c, k).there /\ back[k] = Row(c, k).back
          /\ Row(c, k).rtt = Row(c, k).there + Row(c, k).back
          /\ Row(c, k).there \in Nat /\ Row(c, k).back \in Nat
      BY <1>1, <1>2
    <3>2. lo <= Row(c, k).rtt /\ Row(c, k).rtt <= hi
      BY <2>3, <2>4, <2>6
    <3> HIDE DEF there, back
    <3> QED BY <3>1, <3>2
  <2> HIDE DEF there, back
  <2>8. SumFunctionOnSet(there, C) + SumFunctionOnSet(back, C) \in
          Cardinality(C) * lo .. Cardinality(C) * hi
    BY <1>1, <2>5, <2>7, SumsBounded
  <2>9. \A r \in here : r.rtt \in lo .. hi
    <3>1. \A r \in here : r.rtt \in rtts
      BY <1>4
    <3>2. \A x \in rtts : x \in lo .. hi
      BY <2>1, <2>3, <2>4, <2>5
    <3> QED BY <3>1, <3>2
  <2>10. /\ sum.there = SumFunctionOnSet(there, C) /\ sum.back = SumFunctionOnSet(back, C)
         /\ sum.min = lo /\ sum.max = hi /\ sum.total = Cardinality(C) /\ here # {}
    BY <1>3, <1>4, <1>7
  <2>11. /\ Cardinality(here) = sum.total /\ here # {}
         /\ sum.max \in {r.rtt : r \in here} /\ sum.min \in {r.rtt : r \in here} \cup {MaxRtt}
         /\ \A r \in here : r.rtt \in sum.min .. sum.max
         /\ sum.there + sum.back \in sum.total * sum.min .. sum.total * sum.max
    BY <1>4, <1>5, <2>3, <2>5, <2>8, <2>9, <2>10
  <2> QED BY <2>11 DEF SummaryTrue, sum, here, C
<1> QED BY <1>6, <1>7

(* The results of a run that is over speak of every ping once, on the system *)
(* of its source, and of nothing else: one row for each request, YES with    *)
(* latencies that add up or LOST, and statistics of the replies alone.       *)
THEOREM RowsTrue ==
  SchedulerSpec => []PingRowsTruthful
<1>1. IInv /\ ResultsInv => PingRowsTruthful
  <2> SUFFICES ASSUME IInv, ResultsInv, phase = "stopped",
                      \A s \in System : Len(summaries[s]) = Len(schedule[s]), NEW s \in System
      PROVE
      /\ \A i \in DOMAIN lines : assignment[Entry(i - 1).from] = s <=>
           \E j \in DOMAIN summaries[s] : summaries[s][j].id = i - 1
      /\ IsInjective([j \in DOMAIN summaries[s] |-> summaries[s][j].id])
      /\ \A r \in Range(rows[s]) : \E j \in DOMAIN summaries[s] : r.id = summaries[s][j].id
      /\ \A j \in DOMAIN summaries[s] :
           LET sum  == summaries[s][j]
               own  == Kept(rows[s], {r \in Range(rows[s]) : r.id = sum.id})
               here == {r \in Range(own) : r.outcome = "YES"} IN
           /\ Len(own) = sum.sent /\ sum.sent >= 1 /\ Cardinality(here) = sum.total
           /\ \A k \in DOMAIN own :
                /\ own[k].seq = k - 1 /\ own[k].send = Entry(sum.id).start
                                                       + (k - 1) * Interval(sum.id)
                /\ IF own[k].outcome = "YES"
                   THEN /\ <<sum.id, k - 1, own[k].reply>> \in echoed
                        /\ own[k].rtt = own[k].receive - own[k].send
                        /\ {own[k].there, own[k].back} \subseteq 0 .. own[k].rtt
                   ELSE {own[k].reply, own[k].receive, own[k].rtt} = {-1}
           /\ IF here = {} THEN {sum.there, sum.back, sum.min, sum.max} = {-1}
              ELSE /\ sum.max \in {r.rtt : r \in here}
                   /\ sum.min \in {r.rtt : r \in here} \cup {MaxRtt}
                   /\ \A r \in here : r.rtt \in sum.min .. sum.max
                   /\ sum.there + sum.back \in sum.total * sum.min .. sum.total * sum.max
    BY DEF PingRowsTruthful
  <2> DEFINE n == Len(apps[s])
             own == OwnPings(s)
  <2>1. /\ Accepted /\ Len(own) = n /\ n \in Nat /\ apps[s] \in Seq(Listed)
        /\ \A i \in 1 .. n : apps[s][i] = own[i].id
        /\ rows[s] = SystemRows(s) /\ summaries[s] = SystemSummaries(s)
        /\ lines \in Schedule
    <3>1. Over(s) /\ lines \in Schedule
      BY DEF Over, IInv, SchedulingTyped
    <3>2. /\ Accepted /\ schedule[s] = own /\ apps[s] \in Seq(Listed)
          /\ Len(apps[s]) = Len(schedule[s])
          /\ \A i \in 1 .. Len(apps[s]) : apps[s][i] = schedule[s][i].id
          /\ rows[s] = SystemRows(s) /\ summaries[s] = SystemSummaries(s)
      BY <3>1, OverFacts
    <3> HIDE DEF own
    <3> QED BY <3>1, <3>2
  <2>2. /\ DOMAIN summaries[s] = 1 .. n
        /\ \A j \in 1 .. n :
             /\ summaries[s][j].id = apps[s][j]
             /\ \A f \in {"sent", "total", "there", "back", "min", "max"} :
                  summaries[s][j][f] = Summary(apps[s][j])[f]
    <3>1. DOMAIN summaries[s] = 1 .. n
      BY <2>1 DEF SystemSummaries
    <3>2. ASSUME NEW j \in 1 .. n
          PROVE  summaries[s][j] = [Summary(apps[s][j]) EXCEPT !.id = schedule[s][j].id]
      BY <2>1 DEF SystemSummaries
    <3>3. \A j \in 1 .. n : schedule[s][j].id = apps[s][j]
      BY OverFacts DEF Over
    <3>4. \A c : DOMAIN Summary(c) = {"id", "sent", "total", "there", "back", "min", "max"}
      BY DEF Summary
    <3> QED BY <3>1, <3>2, <3>3, <3>4
  <2>3. ASSUME NEW j \in 1 .. n
        PROVE  /\ apps[s][j] \in Listed /\ Sent(apps[s][j]) \in Nat /\ Sent(apps[s][j]) >= 1
               /\ \A k \in 1 .. Sent(apps[s][j]) : RowTrue(apps[s][j], k)
               /\ SummaryTrue(apps[s][j])
    <3>1. apps[s][j] \in Installed
      BY <2>1 DEF Installed, Range
    <3>2. /\ apps[s][j] \in Listed /\ Sent(apps[s][j]) \in Nat /\ Sent(apps[s][j]) >= 1
          /\ \A k \in 1 .. Sent(apps[s][j]) : RowTrue(apps[s][j], k)
      BY <3>1, ClientsAtEnd
    <3> QED BY <3>2, SummariesAtEnd
  <2> HIDE DEF n, own
  <2>4. ASSUME NEW i \in DOMAIN lines
        PROVE  assignment[Entry(i - 1).from] = s <=>
                 \E j \in DOMAIN summaries[s] : summaries[s][j].id = i - 1
    <3>1. i - 1 \in Listed
      BY <2>1, SchedulerAssumption DEF Listed
    <3>2. ASSUME assignment[Entry(i - 1).from] = s
          PROVE  \E j \in 1 .. n : own[j].id = i - 1
      BY <2>1, <3>1, <3>2, OwnPingsOrdered DEF own
    <3>3. ASSUME NEW j \in 1 .. n, own[j].id = i - 1
          PROVE  assignment[Entry(i - 1).from] = s
      BY <2>1, <3>3, OwnPingsOrdered DEF own
    <3> QED BY <2>1, <2>2, <3>2, <3>3
  <2>5. \A j, k \in 1 .. n : j # k => apps[s][j] # apps[s][k]
    <3>1. \A j, k \in 1 .. n : j < k => own[j].id < own[k].id
      BY <2>1, OwnPingsOrdered DEF own
    <3>2. \A j \in 1 .. n : own[j].id \in Nat
      <4>1. \A c \in Listed : c \in Nat
        BY <2>1, SchedulerAssumption DEF Listed
      <4> QED BY <2>1, <2>3, <4>1
    <3>3. ASSUME NEW j \in 1 .. n, NEW k \in 1 .. n, j # k PROVE own[j].id # own[k].id
      <4>1. j < k \/ k < j
        BY <2>1, <3>3
      <4> QED BY <3>1, <3>2, <4>1
    <3> QED BY <2>1, <3>3
  <2>6. IsInjective([j \in DOMAIN summaries[s] |-> summaries[s][j].id])
    BY <2>2, <2>5 DEF IsInjective
  <2>7. \A r \in Range(rows[s]) : \E j \in DOMAIN summaries[s] : r.id = summaries[s][j].id
    <3>1. \A r \in Range(rows[s]) : \E j \in 1 .. n : r.id = apps[s][j]
      BY RowsOfClients DEF Over, n
    <3> QED BY <2>2, <3>1
  <2>8. ASSUME NEW j \in 1 .. n
        PROVE  LET sum  == summaries[s][j]
                   all  == Kept(rows[s], {r \in Range(rows[s]) : r.id = sum.id})
                   here == {r \in Range(all) : r.outcome = "YES"} IN
               /\ Len(all) = sum.sent /\ sum.sent >= 1 /\ Cardinality(here) = sum.total
               /\ \A k \in DOMAIN all :
                    /\ all[k].seq = k - 1 /\ all[k].send = Entry(sum.id).start
                                                           + (k - 1) * Interval(sum.id)
                    /\ IF all[k].outcome = "YES"
                       THEN /\ <<sum.id, k - 1, all[k].reply>> \in echoed
                            /\ all[k].rtt = all[k].receive - all[k].send
                            /\ {all[k].there, all[k].back} \subseteq 0 .. all[k].rtt
                       ELSE {all[k].reply, all[k].receive, all[k].rtt} = {-1}
               /\ IF here = {} THEN {sum.there, sum.back, sum.min, sum.max} = {-1}
                  ELSE /\ sum.max \in {r.rtt : r \in here}
                       /\ sum.min \in {r.rtt : r \in here} \cup {MaxRtt}
                       /\ \A r \in here : r.rtt \in sum.min .. sum.max
                       /\ sum.there + sum.back \in sum.total * sum.min .. sum.total * sum.max
    <3> DEFINE c == apps[s][j]
               sum == summaries[s][j]
               all == Kept(rows[s], {r \in Range(rows[s]) : r.id = sum.id})
               here == {r \in Range(all) : r.outcome = "YES"}
    <3>1. sum.id = c
      BY <2>2
    <3>2. all = Rows(c)
      BY <3>1, OwnRows DEF Over, n
    <3>3. /\ Sent(c) \in Nat /\ Sent(c) >= 1 /\ SummaryTrue(c)
          /\ \A k \in 1 .. Sent(c) : RowTrue(c, k)
      BY <2>3
    <3>4. /\ sum.sent = Summary(c).sent /\ sum.total = Summary(c).total
          /\ sum.there = Summary(c).there /\ sum.back = Summary(c).back
          /\ sum.min = Summary(c).min /\ sum.max = Summary(c).max
      BY <2>2
    <3>5. Summary(c).sent = Sent(c)
      BY DEF Summary
    <3> HIDE DEF all, sum, c
    <3>6. /\ DOMAIN all = 1 .. Sent(c) /\ Len(all) = Sent(c)
          /\ \A k \in 1 .. Sent(c) : all[k] = Row(c, k)
      BY <3>2, <3>3 DEF Rows
    <3>7. here = {Row(c, k) : k \in Counted(c)}
      <4>1. \A k \in 1 .. Sent(c) : Row(c, k).outcome = "YES" <=> k \in Counted(c)
        BY <3>3 DEF RowTrue
      <4>2. Counted(c) \subseteq 1 .. Sent(c)
        BY DEF Counted
      <4>3. Range(all) = {Row(c, k) : k \in 1 .. Sent(c)}
        BY <3>6 DEF Range
      <4> QED BY <4>1, <4>2, <4>3
    <3> HIDE DEF here
    <3>8. /\ Cardinality(here) = sum.total
          /\ IF here = {} THEN {sum.there, sum.back, sum.min, sum.max} = {-1}
             ELSE /\ sum.max \in {r.rtt : r \in here}
                  /\ sum.min \in {r.rtt : r \in here} \cup {MaxRtt}
                  /\ \A r \in here : r.rtt \in sum.min .. sum.max
                  /\ sum.there + sum.back \in sum.total * sum.min .. sum.total * sum.max
      BY <3>3, <3>4, <3>7 DEF SummaryTrue
    <3>9. ASSUME NEW k \in 1 .. Sent(c)
          PROVE  /\ all[k].seq = k - 1 /\ all[k].send = Entry(sum.id).start
                                                        + (k - 1) * Interval(sum.id)
                 /\ IF all[k].outcome = "YES"
                    THEN /\ <<sum.id, k - 1, all[k].reply>> \in echoed
                         /\ all[k].rtt = all[k].receive - all[k].send
                         /\ {all[k].there, all[k].back} \subseteq 0 .. all[k].rtt
                    ELSE {all[k].reply, all[k].receive, all[k].rtt} = {-1}
      <4>1. all[k] = Row(c, k) /\ RowTrue(c, k) /\ sum.id = c
        BY <3>1, <3>3, <3>6
      <4> QED BY <4>1 DEF RowTrue
    <3> QED BY <3>3, <3>4, <3>5, <3>6, <3>8, <3>9 DEF sum, all, here
  <2> QED BY <2>2, <2>4, <2>6, <2>7, <2>8
<1> QED BY <1>1, ResultsAlways, PTL
=============================================================================
