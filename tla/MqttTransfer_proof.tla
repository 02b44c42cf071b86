------------------------- MODULE MqttTransfer_proof -------------------------
(***************************************************************************)
(* Proofs about MqttTransfer for any captures, sizes, packet length, queue *)
(* bound and number of connection losses.                                  *)
(***************************************************************************)
EXTENDS MqttTransfer, TLAPS

-----------------------------------------------------------------------------
(* Type correctness.  SenderInv is part of it: sendDataPayload stays within *)
(* m_data because of what the fields of the sender say of each other.      *)

\* The fields of the sender between two slots.  A transfer is active exactly
\* while it is in process; it is of some capture, and while bytes are left the
\* next chunk starts where the last one ended.
SenderInv ==
    /\ m_dataTransActive <=> m_dataTransProcess
    /\ m_dataTransProcess => m_data # 0 /\ m_dataLeft <= size[m_data]
    /\ ~m_dataTransProcess => m_dataLeft = 0
    /\ step = "finish" => m_dataTransProcess /\ m_dataLeft = 0
    /\ ChunkInBounds

\* A chunk is not empty and no longer than what is left, and it is full unless
\* it is the last (ChunkLength).
LEMMA ChunkLengthBounds ==
    ASSUME NEW left \in Nat, left > 0
    PROVE  /\ ChunkLength(left) \in 1..left
           /\ ChunkLength(left) = PacketLength \/ ChunkLength(left) = left
  BY PacketLengthAssumption DEF ChunkLength

\* The next multiple of the packet length.
LEMMA NextMultiple ==
    ASSUME NEW c \in Nat, NEW p \in Nat
    PROVE  /\ (c + 1) * p = c * p + p /\ c * p \in Nat
           /\ 0 * p = 0
  OBVIOUS

\* The packets of a capture are packets.
LEMMA PacketTypes ==
    /\ \A i \in Captures : Header(i) \in Packets /\ Finish(i) \in Packets
    /\ \A i \in Captures, b, n \in Nat : Payload(i, b, n) \in Packets
    /\ \A i \in Captures : Header(i).of = i /\ Finish(i).of = i
    /\ \A i \in Captures, b, n \in Nat : Payload(i, b, n).of = i
    /\ Captures \subseteq Nat
    /\ Status \notin Packets
  BY MaxCapturesAssumption DEF Header, Payload, Finish, Packets, Status, Captures

\* Publishing a packet keeps Paho's outbox well typed (Publish).
LEMMA PublishTypes ==
    ASSUME OutboxOK, UNCHANGED <<flown, got>>, NEW p \in Packets \cup {Status}, Publish(p)
    PROVE  OutboxOK'
<1>1. CASE outbox' = outbox
  BY <1>1 DEF OutboxOK
<1>2. CASE outbox' = Append(outbox, p)
  <2>1. outbox' \in Seq(Packets \cup {Status}) /\ Len(outbox') = Len(outbox) + 1
    BY <1>2 DEF OutboxOK
  <2> QED
    BY <2>1 DEF OutboxOK
<1> QED
  BY <1>1, <1>2 DEF Publish

\* Publishing a data packet keeps the outbox and the history well typed.
LEMMA PublishPacketTypes ==
    ASSUME OutboxOK, HistoryOK, UNCHANGED <<flown, got>>,
           NEW p \in Packets, p.of \in Captures, PublishPacket(p)
    PROVE  OutboxOK' /\ HistoryOK'
<1>1. CASE m_connected
  <2>1. OutboxOK'
    BY <1>1, PublishTypes DEF PublishPacket
  <2>2. HistoryOK'
    BY <1>1 DEF PublishPacket, HistoryOK
  <2> QED
    BY <2>1, <2>2
<1>2. CASE ~m_connected
  BY <1>2 DEF PublishPacket, OutboxOK, HistoryOK
<1> QED
  BY <1>1, <1>2

\* Posting an event keeps the queue within its bound (Post).
LEMMA PostKeepsQueue ==
    ASSUME QueueOK, NEW e \in Events, Post(e)
    PROVE  QueueOK'
<1>1. Len(events) \in Nat /\ events' = Append(events, e) /\ Len(events) < MaxQueue
  BY DEF QueueOK, Post
<1>2. events' \in Seq(Events) /\ Len(events') = Len(events) + 1
  BY <1>1 DEF QueueOK
<1> QED
  BY <1>1, <1>2, MaxQueueAssumption DEF QueueOK

\* Taking the first event keeps the queue within its bound (Take).
LEMMA TakeKeepsQueue ==
    ASSUME QueueOK, NEW e, Take(e)
    PROVE  QueueOK'
<1>1. Len(events) \in Nat /\ events' = Tail(events) /\ events # <<>>
  BY DEF QueueOK, Take
<1>2. events' \in Seq(Events) /\ Len(events') = Len(events) - 1
  BY <1>1 DEF QueueOK
<1> QED
  BY <1>1, <1>2, MaxQueueAssumption DEF QueueOK

\* A capture posts an event of its own (MotionDetected).
LEMMA CapturePosts ==
    ASSUME TypeOK, MotionDetected
    PROVE  \E i \in Captures : i = captured + 1 /\ captured' = i /\ Post(Captured(i))
  BY MaxCapturesAssumption DEF MotionDetected, TypeOK, InputOK, Captures

\* Every step of the program, of Paho and of the broker keeps the event queue
\* within its bound.
LEMMA StepKeepsQueue ==
    ASSUME TypeOK, [Next]_vars
    PROVE  QueueOK'
<1>0. QueueOK
  BY DEF TypeOK
<1>1. CASE MotionDetected
  <2>1. PICK i \in Captures : Post(Captured(i))
    BY <1>1, CapturePosts
  <2>2. Captured(i) \in Events
    BY DEF Events
  <2> QED
    BY <1>0, <2>1, <2>2, PostKeepsQueue
<1>2. CASE LinkUp \/ LinkLost \/ Complete \/ ControlArrives
  <2>1. PICK e \in Notes : Post(e)
    BY <1>2 DEF LinkUp, LinkLost, Complete, ControlArrives, Notes
  <2> QED
    BY <1>0, <2>1, PostKeepsQueue DEF Events
<1>3. CASE \/ OnConnected \/ OnDisconnected \/ OnControl \/ IgnoreSended \/ SendDataPayload
           \/ \E i \in Captures : SendCapture(i)
  <2>1. PICK e : Take(e)
    BY <1>3 DEF OnConnected, OnDisconnected, OnControl, SendCapture, IgnoreSended, SendDataPayload
  <2> QED
    BY <1>0, <2>1, TakeKeepsQueue
<1>4. CASE Deliver \/ PublishState \/ SendDataFinish \/ UNCHANGED vars
  <2>1. events' = events
    BY <1>4 DEF Deliver, PublishState, SendDataFinish, vars
  <2> QED
    BY <1>0, <2>1 DEF QueueOK
<1> QED
  BY <1>1, <1>2, <1>3, <1>4 DEF Next, Main

\* Everything but the sender, its history and the outbox: the inputs and the
\* connection (every action).
LEMMA StepKeepsInputs ==
    ASSUME TypeOK, [Next]_vars
    PROVE  InputOK' /\ LinkOK' /\ size' = size
<1> USE DEF TypeOK, InputOK, LinkOK, inputVars, linkVars
<1>1. CASE MotionDetected
  <2>1. captured' \in 0..MaxCaptures /\ files' \in SUBSET Clips
    BY <1>1, MaxCapturesAssumption DEF MotionDetected
  <2> QED
    BY <1>1, <2>1 DEF MotionDetected
<1>2. CASE LinkUp
  BY <1>2 DEF LinkUp
<1>3. CASE LinkLost
  <2>1. losses' \in 0..MaxLosses
    BY <1>3, MaxLossesAssumption DEF LinkLost
  <2> QED
    BY <1>3, <2>1 DEF LinkLost
<1>4. CASE Deliver \/ Complete \/ ControlArrives
  BY <1>4 DEF Deliver, Complete, ControlArrives
<1>5. CASE OnConnected \/ OnDisconnected
  BY <1>5 DEF OnConnected, OnDisconnected
<1>6. CASE PublishState \/ OnControl \/ IgnoreSended \/ SendDataPayload \/ SendDataFinish
  BY <1>6 DEF PublishState, OnControl, IgnoreSended, SendDataPayload, SendDataFinish
<1>7. ASSUME NEW i \in Captures, SendCapture(i) PROVE InputOK' /\ LinkOK' /\ size' = size
  <2>1. files' \in SUBSET Clips
    BY <1>7 DEF SendCapture
  <2> QED
    BY <1>7, <2>1 DEF SendCapture
<1>8. CASE UNCHANGED vars
  BY <1>8 DEF vars
<1> QED
  BY <1>1, <1>2, <1>3, <1>4, <1>5, <1>6, <1>7, <1>8 DEF Next, Main

\* The steps that leave the sender and its history alone keep the outbox, and
\* what the broker got, well typed.
LEMMA StepKeepsOutbox ==
    ASSUME TypeOK, \/ MotionDetected \/ LinkUp \/ LinkLost \/ Deliver \/ Complete \/ ControlArrives
                   \/ OnConnected \/ PublishState \/ OnDisconnected \/ OnControl \/ IgnoreSended
    PROVE  OutboxOK'
<1>0. OutboxOK /\ Len(outbox) \in Nat
  BY DEF TypeOK, OutboxOK
<1>1. CASE MotionDetected \/ LinkUp \/ ControlArrives \/ OnDisconnected \/ IgnoreSended
  BY <1>0, <1>1 DEF MotionDetected, LinkUp, ControlArrives, OnDisconnected, IgnoreSended, OutboxOK
<1>2. CASE LinkLost
  BY <1>0, <1>2 DEF LinkLost, OutboxOK
<1>3. CASE Deliver
  <2>1. flown' \in 1..Len(outbox) /\ UNCHANGED outbox
    BY <1>0, <1>3 DEF Deliver, OutboxOK
  <2>2. outbox[flown'] \in Packets \cup {Status}
    BY <1>0, <2>1 DEF OutboxOK
  <2>3. got' \in Seq(Packets)
    BY <1>0, <1>3, <2>2 DEF Deliver, OutboxOK
  <2> QED
    BY <1>0, <2>1, <2>3 DEF OutboxOK
<1>4. CASE Complete
  <2>1. outbox # <<>> /\ outbox' = Tail(outbox) /\ flown' = flown - 1 /\ flown > 0 /\ got' = got
    BY <1>0, <1>4 DEF Complete, OutboxOK
  <2>2. outbox' \in Seq(Packets \cup {Status}) /\ Len(outbox') = Len(outbox) - 1
    BY <1>0, <2>1 DEF OutboxOK
  <2> QED
    BY <1>0, <2>1, <2>2 DEF OutboxOK
<1>5. CASE OnConnected \/ PublishState
  BY <1>0, <1>5, PublishTypes DEF OnConnected, PublishState
<1>6. CASE OnControl
  <2>1. UNCHANGED <<flown, got>> /\ (Publish(Status) \/ UNCHANGED outbox)
    BY <1>6 DEF OnControl
  <2> QED
    BY <1>0, <2>1, PublishTypes DEF OutboxOK
<1> QED
  BY <1>1, <1>2, <1>3, <1>4, <1>5, <1>6

\* dataSend: the outbox, the sender and its history are well typed after it,
\* and the whole capture is left to send.
LEMMA DataSendTypes ==
    ASSUME TypeOK, NEW i \in Captures, DataSend(i), UNCHANGED <<size, flown, got, step>>,
           step = "idle"
    PROVE  OutboxOK' /\ SenderOK' /\ HistoryOK' /\ SenderInv'
<1>1. OutboxOK' /\ HistoryOK'
  BY PublishPacketTypes, PacketTypes DEF DataSend, TypeOK
<1>2. size[i] \in Nat /\ i # 0
  <2>1. size[i] \in Nat
    BY SizesAssumption DEF TypeOK, InputOK
  <2>2. i # 0
    BY MaxCapturesAssumption DEF Captures
  <2> QED
    BY <2>1, <2>2
<1>3. SenderOK'
  BY <1>2 DEF TypeOK, SenderOK, DataSend
<1>4. SenderInv'
  <2>1. m_chunkIndex' * PacketLength = 0
    BY PacketLengthAssumption, NextMultiple DEF DataSend
  <2> QED
    BY <1>2, <2>1 DEF DataSend, SenderInv, ChunkInBounds
<1> QED
  BY <1>1, <1>3, <1>4

\* sendDataPayload: the chunk it cuts is within the capture, and so is the next.
LEMMA PayloadTypes ==
    ASSUME TypeOK, SenderInv, SendDataPayload, size' = size
    PROVE  /\ OutboxOK' /\ SenderOK' /\ HistoryOK' /\ SenderInv'
           /\ m_data \in Captures /\ size[m_data] \in Nat
           /\ m_chunkIndex * PacketLength \in Nat
           /\ m_dataLeft' = m_dataLeft - ChunkLength(m_dataLeft)
           /\ ChunkLength(m_dataLeft) \in 1..m_dataLeft
<1>0. m_dataLeft \in Nat /\ m_dataLeft > 0 /\ m_chunkIndex \in Nat /\ PacketLength \in Nat
  BY PacketLengthAssumption DEF TypeOK, SenderOK, SendDataPayload
<1>1. m_dataTransActive /\ m_dataTransProcess /\ m_data \in Captures /\ size[m_data] \in Nat
  BY SizesAssumption DEF SendDataPayload, SenderInv, TypeOK, SenderOK, InputOK
<1> DEFINE n == ChunkLength(m_dataLeft)
           b == m_chunkIndex * PacketLength
<1>2. n \in 1..m_dataLeft /\ (n = PacketLength \/ n = m_dataLeft)
  BY <1>0, ChunkLengthBounds
<1>3. b \in Nat /\ (m_chunkIndex + 1) * PacketLength = b + PacketLength
  BY <1>0, NextMultiple
<1>4. b + m_dataLeft = size[m_data]
  BY <1>0, <1>1 DEF SenderInv, ChunkInBounds
<1>5. /\ PublishPacket(Payload(m_data, b, n))
      /\ m_chunkIndex' = m_chunkIndex + 1
      /\ m_dataLeft' = m_dataLeft - n
      /\ step' = IF m_dataLeft' = 0 THEN "finish" ELSE "idle"
      /\ UNCHANGED <<flown, got, m_dataTransActive, m_dataTransProcess, m_data>>
  BY DEF SendDataPayload
<1> HIDE DEF n, b
<1>6. OutboxOK' /\ HistoryOK'
  <2>1. n \in Nat
    BY <1>0, <1>2
  <2>2. Payload(m_data, b, n) \in Packets /\ Payload(m_data, b, n).of \in Captures
    BY <1>1, <1>3, <2>1, PacketTypes
  <2> QED
    BY <1>5, <2>2, PublishPacketTypes DEF TypeOK
<1>7. SenderOK'
  BY <1>0, <1>2, <1>5 DEF TypeOK, SenderOK
<1>8. m_dataLeft' > 0 => m_chunkIndex' * PacketLength + m_dataLeft' = size'[m_data']
  BY <1>0, <1>1, <1>2, <1>3, <1>4, <1>5
<1>9. SenderInv'
  <2>1. m_dataLeft' \in Nat /\ m_dataLeft' <= size[m_data]
    BY <1>0, <1>1, <1>2, <1>3, <1>4, <1>5
  <2> QED
    BY <1>1, <1>5, <1>8, <2>1 DEF SenderInv, ChunkInBounds
<1> QED
  BY <1>1, <1>2, <1>3, <1>5, <1>6, <1>7, <1>9 DEF n, b

\* Every step keeps the outbox, the sender and its history well typed.
LEMMA StepKeepsSender ==
    ASSUME TypeOK, SenderInv, [Next]_vars
    PROVE  OutboxOK' /\ SenderOK' /\ HistoryOK' /\ SenderInv'
<1>0. size' = size
  BY StepKeepsInputs
<1>1. CASE \/ MotionDetected \/ LinkUp \/ LinkLost \/ Deliver \/ Complete \/ ControlArrives
           \/ OnConnected \/ PublishState \/ OnDisconnected \/ OnControl \/ IgnoreSended
  <2>1. OutboxOK'
    BY <1>1, StepKeepsOutbox
  <2>2. UNCHANGED <<senderVars, historyVars>> /\ (step' = step \/ step' \in {"idle", "publishState"})
    BY <1>1 DEF MotionDetected, LinkUp, LinkLost, Deliver, Complete, ControlArrives, OnConnected,
       PublishState, OnDisconnected, OnControl, IgnoreSended
  <2>3. SenderOK' /\ HistoryOK'
    BY <2>2 DEF TypeOK, SenderOK, HistoryOK, senderVars, historyVars
  <2>4. SenderInv'
    BY <1>0, <2>2 DEF SenderInv, ChunkInBounds, senderVars
  <2> QED
    BY <2>1, <2>3, <2>4
<1>2. ASSUME NEW i \in Captures, SendCapture(i)
      PROVE  OutboxOK' /\ SenderOK' /\ HistoryOK' /\ SenderInv'
  <2>1. step = "idle" /\ UNCHANGED <<size, flown, got, step>>
    BY <1>2 DEF SendCapture, Take, inputVars
  <2>2. CASE DataSend(i)
    BY <2>1, <2>2, DataSendTypes
  <2>3. CASE UNCHANGED <<files, outbox, senderVars, historyVars>>
    BY <2>1, <2>3 DEF TypeOK, OutboxOK, SenderOK, HistoryOK, SenderInv, ChunkInBounds,
       senderVars, historyVars
  <2> QED
    BY <1>2, <2>2, <2>3 DEF SendCapture
<1>3. CASE SendDataPayload
  BY <1>0, <1>3, PayloadTypes
<1>4. CASE SendDataFinish
  <2>1. m_data \in Captures
    BY <1>4 DEF SendDataFinish, SenderInv, TypeOK, SenderOK
  <2>2. OutboxOK' /\ HistoryOK'
    BY <1>4, <2>1, PublishPacketTypes, PacketTypes DEF SendDataFinish, TypeOK
  <2>3. SenderOK' /\ SenderInv'
    BY <1>0, <1>4 DEF SendDataFinish, TypeOK, SenderOK, SenderInv, ChunkInBounds
  <2> QED
    BY <2>2, <2>3
<1>5. CASE UNCHANGED vars
  <2>1. UNCHANGED <<size, outbox, flown, got, step, accepted, damaged>> /\ UNCHANGED senderVars
    BY <1>5 DEF vars, inputVars, historyVars
  <2>2. OutboxOK' /\ HistoryOK'
    BY <2>1 DEF TypeOK, OutboxOK, HistoryOK
  <2>3. SenderOK' /\ SenderInv'
    BY <2>1 DEF TypeOK, SenderOK, SenderInv, ChunkInBounds, senderVars
  <2> QED
    BY <2>2, <2>3
<1> QED
  BY <1>1, <1>2, <1>3, <1>4, <1>5 DEF Next, Main

\* The program starts in a well-typed state with nothing to send.
LEMMA InitTypes == Init => TypeOK /\ SenderInv
<1>1. SUFFICES ASSUME Init PROVE TypeOK /\ SenderInv
  OBVIOUS
<1>2. /\ outbox \in Seq(Packets \cup {Status}) /\ Len(outbox) = 0 /\ got \in Seq(Packets)
      /\ events \in Seq(Events) /\ Len(events) = 0 /\ accepted \in Seq(Packets)
  BY <1>1 DEF Init
<1>3. InputOK /\ LinkOK
  <2>1. 0 \in 0..MaxCaptures /\ 0 \in 0..MaxLosses
    BY MaxCapturesAssumption, MaxLossesAssumption
  <2>2. InputOK
    BY <1>1, <2>1 DEF Init, InputOK
  <2>3. LinkOK
    BY <1>1, <2>1 DEF Init, LinkOK
  <2> QED
    BY <2>2, <2>3
<1>4. OutboxOK /\ QueueOK /\ HistoryOK
  BY <1>1, <1>2, MaxQueueAssumption DEF Init, OutboxOK, QueueOK, HistoryOK
<1>5. SenderOK /\ SenderInv
  BY <1>1 DEF Init, SenderOK, SenderInv, ChunkInBounds
<1> QED
  BY <1>3, <1>4, <1>5 DEF TypeOK

\* TypeOK and SenderInv together are inductive.
LEMMA TypeInductive == Spec => [](TypeOK /\ SenderInv)
<1>1. TypeOK /\ SenderInv /\ [Next]_vars => TypeOK' /\ SenderInv'
  BY StepKeepsQueue, StepKeepsInputs, StepKeepsSender DEF TypeOK
<1> QED
  BY <1>1, InitTypes, PTL DEF Spec

\* Every variable of the transfer keeps its type; in particular the unsigned
\* m_dataLeft never goes below zero (WiCamMQTTClient::sendDataPayload).
THEOREM TypeCorrect == Spec => []TypeOK
  BY TypeInductive, PTL

\* The chunk sendDataPayload cuts starts where the last one ended and ends
\* within the capture, for every size and packet length.
THEOREM ChunkInBoundsAlways == Spec => []ChunkInBounds
<1>1. SenderInv => ChunkInBounds
  BY DEF SenderInv
<1> QED
  BY <1>1, TypeInductive, PTL

-----------------------------------------------------------------------------
(* A transfer does not stall.                                              *)

\* As long as the connection is up, every loss still waiting is followed by a
\* reconnection, and a client that does not know of the connection will.
Covered == LossCovered(events, Lost, Connected)

LinkInv ==
    /\ link => Covered
    /\ link /\ ~m_connected => Waiting(events, Connected)

\* The events are different ones.
LEMMA EventsDiffer ==
    /\ Connected # Lost /\ Connected # Sended /\ Connected # Control
    /\ Lost # Sended /\ Lost # Control /\ Sended # Control
    /\ \A i : Captured(i) \notin Notes
    /\ \A i, j : Captured(i) = Captured(j) => i = j
  BY DEF Connected, Lost, Sended, Control, Captured, Notes

\* Posting an event makes it wait, and it is the only one that begins to.
LEMMA PostedWaits ==
    ASSUME QueueOK, NEW e \in Events, Post(e)
    PROVE  \A x : Waiting(events', x) <=> Waiting(events, x) \/ x = e
<1>1. /\ Len(events) \in Nat /\ Len(events') = Len(events) + 1
      /\ \A i \in 1..Len(events) : events'[i] = events[i]
      /\ events'[Len(events) + 1] = e
  BY DEF Post, QueueOK
<1> QED
  BY <1>1 DEF Waiting

\* A reconnection covers the losses before it; other events but losses keep
\* them covered.
LEMMA PostedCovers ==
    ASSUME QueueOK, NEW e \in Events, Post(e)
    PROVE  (e = Connected => Covered') /\ (e # Lost /\ Covered => Covered')
<1>1. /\ Len(events) \in Nat /\ Len(events') = Len(events) + 1
      /\ \A i \in 1..Len(events) : events'[i] = events[i]
      /\ events'[Len(events) + 1] = e /\ Connected # Lost
  BY EventsDiffer DEF Post, QueueOK
<1>2. ASSUME e = Connected, NEW i \in 1..Len(events'), events'[i] = Lost
      PROVE  \E j \in (i + 1)..Len(events') : events'[j] = Connected
  <2>1. i < Len(events')
    BY <1>1, <1>2
  <2> QED
    BY <1>1, <1>2, <2>1
<1>3. ASSUME e # Lost, Covered, NEW i \in 1..Len(events'), events'[i] = Lost
      PROVE  \E j \in (i + 1)..Len(events') : events'[j] = Connected
  <2>1. i \in 1..Len(events) /\ events[i] = Lost
    BY <1>1, <1>3
  <2>2. PICK j \in (i + 1)..Len(events) : events[j] = Connected
    BY <1>3, <2>1 DEF Covered, LossCovered
  <2> QED
    BY <1>1, <2>2
<1>4. Lost' = Lost /\ Connected' = Connected
  BY DEF Lost, Connected
<1> QED
  BY <1>2, <1>3, <1>4 DEF Covered, LossCovered

\* Taking an event leaves the others waiting, and the losses covered.
LEMMA TakenWaits ==
    ASSUME QueueOK, NEW e, Take(e)
    PROVE  /\ \A x : Waiting(events', x) => Waiting(events, x)
           /\ \A x : Waiting(events, x) /\ x # e => Waiting(events', x)
           /\ Covered => Covered'
           /\ Covered /\ e = Lost => Waiting(events', Connected)
<1>1. /\ Len(events) \in Nat /\ Len(events) >= 1 /\ events[1] = e
      /\ Len(events') = Len(events) - 1
      /\ \A i \in 1..Len(events') : events'[i] = events[i + 1]
  BY DEF Take, QueueOK
<1>2. \A x : Waiting(events', x) => Waiting(events, x)
  BY <1>1 DEF Waiting
<1>3. ASSUME NEW k \in 2..Len(events)
      PROVE  k - 1 \in 1..Len(events') /\ events'[k - 1] = events[k]
  BY <1>1, <1>3
<1>4. ASSUME NEW x, Waiting(events, x), x # e PROVE Waiting(events', x)
  <2>1. PICK k \in 1..Len(events) : events[k] = x
    BY <1>4 DEF Waiting
  <2>2. k \in 2..Len(events)
    BY <1>1, <1>4, <2>1
  <2> QED
    BY <1>3, <2>1, <2>2 DEF Waiting
<1>5. ASSUME Covered, NEW i \in 1..Len(events'), events'[i] = Lost
      PROVE  \E j \in (i + 1)..Len(events') : events'[j] = Connected
  <2>1. i + 1 \in 1..Len(events) /\ events[i + 1] = Lost
    BY <1>1, <1>5
  <2>2. PICK k \in (i + 2)..Len(events) : events[k] = Connected
    BY <1>5, <2>1 DEF Covered, LossCovered
  <2>3. k \in 2..Len(events) /\ k - 1 \in (i + 1)..Len(events')
    BY <1>1, <2>2
  <2> QED
    BY <1>3, <2>2, <2>3
<1>6. ASSUME Covered, e = Lost PROVE Waiting(events', Connected)
  <2>1. PICK k \in 2..Len(events) : events[k] = Connected
    BY <1>1, <1>6 DEF Covered, LossCovered
  <2> QED
    BY <1>3, <2>1 DEF Waiting
<1>7. Lost' = Lost /\ Connected' = Connected
  BY DEF Lost, Connected
<1> QED
  BY <1>2, <1>4, <1>5, <1>6, <1>7 DEF Covered, LossCovered

\* LinkInv holds in every state.
LEMMA LinkInductive == Spec => []LinkInv
<1>1. Init => LinkInv
  BY DEF Init, LinkInv
<1>2. ASSUME TypeOK, LinkInv, [Next]_vars PROVE LinkInv'
  <2>0. QueueOK
    BY <1>2 DEF TypeOK
  <2> USE <1>2 DEF LinkInv, linkVars
  <2>1. CASE LinkUp
    <3>1. Post(Connected) /\ Connected \in Events
      BY <2>1 DEF LinkUp, Events, Notes
    <3> QED
      BY <2>0, <3>1, PostedWaits, PostedCovers
  <2>2. CASE LinkLost
    BY <2>2 DEF LinkLost
  <2>3. CASE MotionDetected \/ Complete \/ ControlArrives
    <3>1. PICK e \in Events : Post(e) /\ e # Lost
      <4>1. CASE MotionDetected
        BY <4>1, CapturePosts, EventsDiffer DEF Events, Notes
      <4>2. CASE Complete \/ ControlArrives
        BY <4>2, EventsDiffer DEF Complete, ControlArrives, Events, Notes
      <4> QED
        BY <2>3, <4>1, <4>2
    <3>2. UNCHANGED <<link, m_connected>>
      BY <2>3 DEF MotionDetected, Complete, ControlArrives
    <3>3. (Covered => Covered') /\ (Waiting(events, Connected) => Waiting(events', Connected))
      BY <2>0, <3>1, PostedWaits, PostedCovers
    <3> QED
      BY <3>2, <3>3
  <2>4. CASE OnConnected
    <3>1. Take(Connected) /\ m_connected' /\ link' = link
      BY <2>4 DEF OnConnected
    <3> QED
      BY <2>0, <3>1, TakenWaits
  <2>5. CASE OnDisconnected
    <3>1. Take(Lost) /\ link' = link
      BY <2>5 DEF OnDisconnected
    <3> QED
      BY <2>0, <3>1, TakenWaits
  <2>6. CASE \/ OnControl \/ IgnoreSended \/ SendDataPayload \/ \E i \in Captures : SendCapture(i)
    <3>1. PICK e : Take(e) /\ e # Connected
      BY <2>6, EventsDiffer DEF OnControl, IgnoreSended, SendDataPayload, SendCapture, Notes
    <3>2. UNCHANGED <<link, m_connected>>
      BY <2>6 DEF OnControl, IgnoreSended, SendDataPayload, SendCapture
    <3>3. (Covered => Covered') /\ (Waiting(events, Connected) => Waiting(events', Connected))
      BY <2>0, <3>1, TakenWaits
    <3> QED
      BY <3>2, <3>3
  <2>7. CASE Deliver \/ PublishState \/ SendDataFinish \/ UNCHANGED vars
    <3>1. UNCHANGED <<link, m_connected, events>>
      BY <2>7 DEF Deliver, PublishState, SendDataFinish, vars
    <3> QED
      BY <3>1 DEF Covered
  <2> QED
    BY <2>1, <2>2, <2>3, <2>4, <2>5, <2>6, <2>7 DEF Next, Main
<1>3. TypeOK /\ LinkInv /\ [Next]_vars => LinkInv'
  BY <1>2
<1> QED
  BY <1>1, <1>3, TypeCorrect, PTL DEF Spec

\* A packet published while the client knows of the connection, and while there
\* is one, is in Paho's outbox.
LEMMA PublishFills ==
    ASSUME OutboxOK, NEW p \in Packets \cup {Status}, Publish(p)
    PROVE  (link \/ outbox # <<>>) => outbox' # <<>>
<1>1. Append(outbox, p) # <<>>
  BY DEF OutboxOK
<1> QED
  BY <1>1 DEF Publish

\* While the connection is up a transfer with bytes left always has a completion
\* coming that will make onSended send the next chunk.
THEOREM NoStallAlways == Spec => []NoStall
<1>1. Init => NoStall
  BY DEF Init, NoStall
<1>2. ASSUME TypeOK, SenderInv, LinkInv, NoStall, [Next]_vars PROVE NoStall'
  <2>0. QueueOK /\ OutboxOK
    BY <1>2 DEF TypeOK
  <2> USE DEF senderVars, linkVars
  <2>1. CASE LinkUp \/ Complete
    <3>1. PICK e \in {Connected, Sended} : Post(e) /\ e \in Events
      BY <2>1 DEF LinkUp, Complete, Events, Notes
    <3>2. Waiting(events', Sended) \/ Waiting(events', Connected)
      BY <2>0, <3>1, PostedWaits
    <3> QED
      BY <3>2 DEF NoStall
  <2>2. CASE LinkLost
    BY <2>2 DEF LinkLost, NoStall
  <2>3. CASE MotionDetected \/ ControlArrives
    <3>1. PICK e \in Events : Post(e)
      <4>1. CASE MotionDetected
        <5>1. PICK i \in Captures : Post(Captured(i))
          BY <1>2, <4>1, CapturePosts
        <5> QED
          BY <5>1 DEF Events
      <4>2. CASE ControlArrives
        BY <4>2 DEF ControlArrives, Events, Notes
      <4> QED
        BY <2>3, <4>1, <4>2
    <3>2. UNCHANGED <<link, outbox, step, m_dataTransProcess, m_dataLeft>>
      BY <2>3 DEF MotionDetected, ControlArrives
    <3>3. /\ Waiting(events, Sended) => Waiting(events', Sended)
          /\ Waiting(events, Connected) => Waiting(events', Connected)
      BY <2>0, <3>1, PostedWaits
    <3> QED
      BY <1>2, <3>2, <3>3 DEF NoStall
  <2>4. CASE OnConnected
    BY <2>4 DEF OnConnected, NoStall
  <2>5. CASE PublishState
    <3>1. link => outbox' # <<>>
      BY <2>0, <2>5, PublishFills DEF PublishState
    <3> QED
      BY <2>5, <3>1 DEF PublishState, NoStall
  <2>6. CASE OnDisconnected \/ OnControl
    <3>1. PICK e \in {Lost, Control} : Take(e)
      BY <2>6 DEF OnDisconnected, OnControl
    <3>2. UNCHANGED <<link, step, m_dataTransProcess, m_dataLeft>>
      BY <2>6 DEF OnDisconnected, OnControl
    <3>3. outbox # <<>> => outbox' # <<>>
      BY <2>0, <2>6, PublishFills DEF OnDisconnected, OnControl
    <3>4. /\ Waiting(events, Sended) => Waiting(events', Sended)
          /\ Waiting(events, Connected) => Waiting(events', Connected)
      BY <2>0, <3>1, TakenWaits, EventsDiffer
    <3> QED
      BY <1>2, <3>2, <3>3, <3>4 DEF NoStall
  <2>7. ASSUME NEW i \in Captures, SendCapture(i) PROVE NoStall'
    <3>1. Take(Captured(i)) /\ link' = link /\ step' = step
      BY <2>7 DEF SendCapture
    <3>2. /\ Waiting(events, Sended) => Waiting(events', Sended)
          /\ Waiting(events, Connected) => Waiting(events', Connected)
      BY <2>0, <3>1, TakenWaits, EventsDiffer DEF Notes
    <3>3. CASE UNCHANGED <<files, outbox, senderVars, historyVars>>
      BY <1>2, <3>1, <3>2, <3>3 DEF NoStall
    <3>4. CASE DataSend(i)
      <4>1. CASE m_connected
        <5>1. Publish(Header(i)) /\ Header(i) \in Packets
          BY <3>4, <4>1, PacketTypes DEF DataSend, PublishPacket
        <5>2. link => outbox' # <<>>
          BY <2>0, <5>1, PublishFills
        <5> QED
          BY <3>1, <5>2 DEF NoStall
      <4>2. CASE ~m_connected
        BY <1>2, <3>1, <3>2, <4>2 DEF LinkInv, NoStall
      <4> QED
        BY <4>1, <4>2
    <3> QED
      BY <2>7, <3>3, <3>4 DEF SendCapture
  <2>8. CASE IgnoreSended
    <3>1. ~m_dataTransProcess' \/ ~(m_dataLeft' > 0)
      BY <1>2, <2>8 DEF IgnoreSended, SenderInv
    <3> QED
      BY <3>1 DEF NoStall
  <2>9. CASE SendDataPayload
    <3>0. Take(Sended) /\ link' = link
      BY <2>9 DEF SendDataPayload
    <3>1. CASE m_connected
      <4>1. PICK p \in Packets : Publish(p)
        <5>1. /\ Payload(m_data, m_chunkIndex * PacketLength, ChunkLength(m_dataLeft)) \in Packets
              /\ PublishPacket(Payload(m_data, m_chunkIndex * PacketLength, ChunkLength(m_dataLeft)))
          <6>1. size' = size
            BY <1>2, StepKeepsInputs
          <6>2. m_data \in Captures /\ m_chunkIndex * PacketLength \in Nat /\ ChunkLength(m_dataLeft) \in Nat
            BY <1>2, <2>9, <6>1, PayloadTypes DEF TypeOK, SenderOK
          <6> QED
            BY <2>9, <6>2, PacketTypes DEF SendDataPayload
        <5> QED
          BY <3>1, <5>1 DEF PublishPacket
      <4>2. link => outbox' # <<>>
        BY <2>0, <4>1, PublishFills
      <4> QED
        BY <3>0, <4>2 DEF NoStall
    <3>2. CASE ~m_connected
      <4>1. Waiting(events, Connected) => Waiting(events', Connected)
        BY <2>0, <3>0, TakenWaits, EventsDiffer
      <4> QED
        BY <1>2, <3>0, <3>2, <4>1 DEF LinkInv, NoStall
    <3> QED
      BY <3>1, <3>2
  <2>10. CASE SendDataFinish
    BY <2>10 DEF SendDataFinish, NoStall
  <2>11. CASE Deliver \/ UNCHANGED vars
    <3>1. UNCHANGED <<link, outbox, events, step, m_dataTransProcess, m_dataLeft>>
      BY <2>11 DEF Deliver, vars
    <3> QED
      BY <1>2, <3>1 DEF NoStall
  <2> QED
    BY <1>2, <2>1, <2>2, <2>3, <2>4, <2>5, <2>6, <2>7, <2>8, <2>9, <2>10, <2>11 DEF Next, Main
<1>3. TypeOK /\ SenderInv /\ LinkInv /\ NoStall /\ [Next]_vars => NoStall'
  BY <1>2
<1> QED
  BY <1>1, <1>3, TypeInductive, LinkInductive, PTL DEF Spec

-----------------------------------------------------------------------------
(* Captures wait in order, which FramedStream's next frame rests on.       *)

\* The captures waiting in queue q are among those after lo and up to hi, in
\* the order they were made.
Offers(q, lo, hi) ==
    \A k \in 1..Len(q) : q[k].type = "captured" =>
        /\ lo < q[k].of /\ q[k].of <= hi
        /\ \A j \in 1..(k - 1) : q[j].type = "captured" => q[j].of < q[k].of

OfferInv == m_data <= captured /\ Offers(events, m_data, captured)

\* Every event has a type, and only a capture is one of a capture.
LEMMA EventFields ==
    /\ \A e \in Notes : e.type # "captured"
    /\ \A i : Captured(i).type = "captured" /\ Captured(i).of = i
    /\ \A e \in Events : e.of \in Nat
  BY MaxCapturesAssumption DEF Events, Notes, Connected, Lost, Sended, Control, Captured, Captures

\* Any other event may be posted between the captures.
LEMMA PostNoteOffers ==
    ASSUME QueueOK, NEW e \in Notes, Post(e), NEW lo, NEW hi, Offers(events, lo, hi)
    PROVE  Offers(events', lo, hi)
<1>1. events' = Append(events, e) /\ e.type # "captured" /\ events \in Seq(Events)
  BY EventFields DEF Post, QueueOK
<1> QED
  BY <1>1 DEF Offers

\* A new capture is offered after the ones before it.
LEMMA PostCaptureOffers ==
    ASSUME QueueOK, NEW lo \in Nat, NEW hi \in Nat, lo <= hi, Offers(events, lo, hi),
           Post(Captured(hi + 1))
    PROVE  Offers(events', lo, hi + 1)
<1> DEFINE e == Captured(hi + 1)
<1>1. events' = Append(events, e) /\ events \in Seq(Events)
  BY DEF Post, QueueOK
<1>2. e.type = "captured" /\ e.of = hi + 1
  BY EventFields
<1>3. \A k \in 1..Len(events) : events[k].of \in Nat
  BY <1>1, EventFields
<1> HIDE DEF e
<1>4. SUFFICES ASSUME NEW k \in 1..Len(events'), events'[k].type = "captured"
               PROVE  /\ lo < events'[k].of /\ events'[k].of <= hi + 1
                      /\ \A j \in 1..(k - 1) :
                            events'[j].type = "captured" => events'[j].of < events'[k].of
  BY DEF Offers
<1>5. CASE k \in 1..Len(events)
  BY <1>1, <1>3, <1>4, <1>5 DEF Offers
<1>6. CASE k = Len(events) + 1
  <2>1. events'[k] = e
    BY <1>1, <1>6
  <2>2. \A j \in 1..Len(events) : events'[j] = events[j]
    BY <1>1
  <2> QED
    BY <1>2, <1>3, <1>6, <2>1, <2>2 DEF Offers
<1> QED
  BY <1>1, <1>5, <1>6

\* Taking the first event keeps the offers; if it is a capture those left are
\* of later ones.
LEMMA TakeOffers ==
    ASSUME QueueOK, NEW e, Take(e), NEW lo, NEW hi, Offers(events, lo, hi)
    PROVE  /\ Offers(events', lo, hi)
           /\ \A i : e = Captured(i) => lo < i /\ i <= hi /\ Offers(events', i, hi)
<1>1. /\ events' = Tail(events) /\ events # <<>> /\ events[1] = e /\ events \in Seq(Events)
      /\ Len(events) \in Nat \ {0} /\ Len(events') = Len(events) - 1
      /\ \A k \in 1..Len(events') : events'[k] = events[k + 1]
  BY DEF Take, QueueOK
<1>2. Offers(events', lo, hi)
  BY <1>1 DEF Offers
<1>3. ASSUME NEW i, e = Captured(i) PROVE lo < i /\ i <= hi /\ Offers(events', i, hi)
  <2>1. events[1].type = "captured" /\ events[1].of = i
    BY <1>1, <1>3, EventFields
  <2>2. lo < i /\ i <= hi
    BY <1>1, <2>1 DEF Offers
  <2>3. \A k \in 2..Len(events) : events[k].type = "captured" => i < events[k].of
    BY <1>1, <2>1 DEF Offers
  <2>4. \A k \in 1..Len(events') : events'[k].type = "captured" => i < events'[k].of
    BY <1>1, <2>3
  <2> QED
    BY <1>2, <2>2, <2>4 DEF Offers
<1> QED
  BY <1>2, <1>3

\* OfferInv holds in every state.
LEMMA OfferInductive == Spec => []OfferInv
<1>1. Init => OfferInv
  BY DEF Init, OfferInv, Offers
<1>2. ASSUME TypeOK, OfferInv, [Next]_vars PROVE OfferInv'
  <2>0. QueueOK /\ m_data \in Nat /\ captured \in Nat
    BY <1>2, MaxCapturesAssumption DEF TypeOK, SenderOK, InputOK, Captures
  <2> USE DEF inputVars, senderVars
  <2>1. CASE MotionDetected
    <3>1. captured' = captured + 1 /\ Post(Captured(captured + 1)) /\ m_data' = m_data
      BY <2>1 DEF MotionDetected
    <3> QED
      BY <1>2, <2>0, <3>1, PostCaptureOffers DEF OfferInv
  <2>2. CASE LinkUp \/ LinkLost \/ Complete \/ ControlArrives
    <3>1. PICK e \in Notes : Post(e)
      BY <2>2 DEF LinkUp, LinkLost, Complete, ControlArrives, Notes
    <3>2. UNCHANGED <<captured, m_data>>
      BY <2>2 DEF LinkUp, LinkLost, Complete, ControlArrives
    <3> QED
      BY <1>2, <2>0, <3>1, <3>2, PostNoteOffers DEF OfferInv
  <2>3. CASE OnConnected \/ OnDisconnected \/ OnControl \/ IgnoreSended \/ SendDataPayload
    <3>1. PICK e : Take(e)
      BY <2>3 DEF OnConnected, OnDisconnected, OnControl, IgnoreSended, SendDataPayload
    <3>2. UNCHANGED <<captured, m_data>>
      BY <2>3 DEF OnConnected, OnDisconnected, OnControl, IgnoreSended, SendDataPayload
    <3> QED
      BY <1>2, <2>0, <3>1, <3>2, TakeOffers DEF OfferInv
  <2>4. ASSUME NEW i \in Captures, SendCapture(i) PROVE OfferInv'
    <3>1. Take(Captured(i)) /\ captured' = captured
      BY <2>4 DEF SendCapture
    <3>2. Offers(events', m_data, captured) /\ i <= captured /\ Offers(events', i, captured)
      BY <1>2, <2>0, <3>1, TakeOffers DEF OfferInv
    <3>3. m_data' \in {m_data, i}
      BY <2>4 DEF SendCapture, DataSend
    <3> QED
      BY <1>2, <3>1, <3>2, <3>3 DEF OfferInv
  <2>5. CASE Deliver \/ PublishState \/ SendDataFinish \/ UNCHANGED vars
    <3>1. UNCHANGED <<captured, m_data, events>>
      BY <2>5 DEF Deliver, PublishState, SendDataFinish, vars
    <3> QED
      BY <1>2, <3>1 DEF OfferInv
  <2> QED
    BY <1>2, <2>1, <2>2, <2>3, <2>4, <2>5 DEF Next, Main
<1>3. TypeOK /\ OfferInv /\ [Next]_vars => OfferInv'
  BY <1>2
<1> QED
  BY <1>1, <1>3, TypeCorrect, PTL DEF Spec

-----------------------------------------------------------------------------
(* The transfers implement FramedStream.                                   *)

\* The variables FramedStream sees.
StreamView == <<size, m_dataTransProcess, m_data, m_dataLeft, accepted>>

\* What publishPacket does to the accepted packets: p may be lost.
LEMMA PublishPacketSends ==
    ASSUME NEW p, PublishPacket(p)
    PROVE  accepted' \in Stream!Sent(accepted, p)
  BY DEF PublishPacket, Stream!Sent

\* The packets and chunks of FramedStream are those of the transfer.
LEMMA SameFraming ==
    /\ Stream!Captures = Captures
    /\ \A i : Stream!Header(i) = Header(i) /\ Stream!Finish(i) = Finish(i)
    /\ \A i, b, n : Stream!Payload(i, b, n) = Payload(i, b, n)
    /\ \A left : Stream!ChunkLength(left) = ChunkLength(left)
  BY DEF Stream!Captures, Captures, Stream!Header, Header, Stream!Finish, Finish,
     Stream!Payload, Payload, Stream!ChunkLength, ChunkLength

\* dataSend() starts a frame.
LEMMA SendStarts ==
    ASSUME TypeOK, SenderInv, OfferInv, NEW i \in Captures, SendCapture(i), DataSend(i),
           ~m_dataTransProcess
    PROVE  Stream!Start(i)
<1>1. m_data < i /\ i # 0 /\ size[i] \in Nat
  <2>1. Take(Captured(i)) /\ QueueOK
    BY DEF SendCapture, TypeOK
  <2>2. m_data < i
    BY <2>1, TakeOffers DEF OfferInv
  <2>3. size[i] \in Nat
    BY SizesAssumption DEF TypeOK, InputOK
  <2>4. i # 0
    BY MaxCapturesAssumption DEF Captures
  <2> QED
    BY <2>2, <2>3, <2>4
<1>2. /\ m_dataTransProcess' = TRUE /\ m_data' = i /\ m_dataLeft' = size[i] /\ size' = size
      /\ accepted' \in Stream!Sent(accepted, Header(i))
  BY PublishPacketSends DEF DataSend, SendCapture, inputVars
<1>3. (IF m_data' = 0 THEN 0 ELSE size'[m_data'] - m_dataLeft') = 0
  BY <1>1, <1>2
<1> QED
  BY <1>1, <1>2, <1>3, SameFraming DEF Stream!Start

\* sendDataPayload() frames the next chunk.
LEMMA PayloadChunks ==
    ASSUME TypeOK, SenderInv, SendDataPayload, size' = size
    PROVE  Stream!Chunk
<1> DEFINE n == ChunkLength(m_dataLeft)
           b == m_chunkIndex * PacketLength
<1>1. /\ m_data \in Captures /\ m_data # 0 /\ size[m_data] \in Nat /\ b \in Nat
      /\ n \in 1..m_dataLeft /\ m_dataLeft' = m_dataLeft - n
      /\ m_dataLeft \in Nat /\ m_dataLeft > 0 /\ m_dataTransProcess
  BY PayloadTypes DEF SendDataPayload, SenderInv, TypeOK, SenderOK
<1>2. b + m_dataLeft = size[m_data]
  BY <1>1 DEF SenderInv, ChunkInBounds
<1>3. accepted' \in Stream!Sent(accepted, Payload(m_data, b, n))
      /\ UNCHANGED <<m_dataTransProcess, m_data>>
  BY PublishPacketSends DEF SendDataPayload
<1> HIDE DEF b
<1>4. size[m_data] - m_dataLeft = b /\ size[m_data] - b = m_dataLeft
  BY <1>1, <1>2
<1> HIDE DEF n
<1>5. size[m_data] - m_dataLeft' = b + n
  BY <1>1, <1>2
<1>6. Stream!ChunkLength(size[m_data] - b) = n
  BY <1>4, SameFraming DEF n
<1>7. b < size[m_data]
  BY <1>1, <1>2
<1> QED
  BY <1>1, <1>3, <1>4, <1>5, <1>6, <1>7, SameFraming DEF Stream!Chunk

\* The transfer of captures through Paho implements FramedStream: one capture at
\* a time is framed as a header, its chunks in order and a finish, in the order
\* the captures were made, whatever is refused, lost, delayed or sent again.
THEOREM TransfersAreFramed == Spec => StreamSpec
<1>1. Init => Stream!InitStream
  BY SameFraming DEF Init, Stream!InitStream
<1>2. ASSUME TypeOK, SenderInv, OfferInv, [Next]_vars
      PROVE  [Stream!NextStream]_(Stream!streamVars)
  <2>0. size' = size
    BY <1>2, StepKeepsInputs
  <2> USE DEF inputVars, senderVars, historyVars
  <2>1. ASSUME UNCHANGED StreamView PROVE UNCHANGED Stream!streamVars
    BY <2>1 DEF StreamView, Stream!streamVars
  <2>2. CASE MotionDetected \/ LinkUp \/ LinkLost \/ Deliver \/ Complete \/ ControlArrives
    BY <2>1, <2>2 DEF MotionDetected, LinkUp, LinkLost, Deliver, Complete, ControlArrives, StreamView
  <2>3. CASE OnConnected \/ PublishState \/ OnDisconnected \/ OnControl \/ IgnoreSended
    BY <2>1, <2>3 DEF OnConnected, PublishState, OnDisconnected, OnControl, IgnoreSended, StreamView
  <2>4. ASSUME NEW i \in Captures, SendCapture(i)
        PROVE  [Stream!NextStream]_(Stream!streamVars)
    <3>1. CASE DataSend(i) /\ ~m_dataTransProcess
      <4>1. Stream!Start(i)
        BY <1>2, <2>4, <3>1, SendStarts
      <4> QED
        BY <4>1, SameFraming DEF Stream!NextStream
    <3>2. CASE UNCHANGED <<outbox, senderVars, historyVars>>
      BY <2>0, <2>1, <3>2 DEF StreamView
    <3> QED
      BY <2>4, <3>1, <3>2 DEF SendCapture
  <2>5. CASE SendDataPayload
    BY <1>2, <2>0, <2>5, PayloadChunks DEF Stream!NextStream
  <2>6. CASE SendDataFinish
    <3>1. Stream!End
      <4>1. /\ m_dataTransProcess /\ m_dataLeft = 0 /\ m_data # 0 /\ m_data \in Captures
            /\ size[m_data] \in Nat
        BY <1>2, <2>6, SizesAssumption DEF SendDataFinish, SenderInv, TypeOK, SenderOK, InputOK
      <4>2. /\ m_dataTransProcess' = FALSE /\ UNCHANGED <<m_data, m_dataLeft>>
            /\ accepted' \in Stream!Sent(accepted, Finish(m_data))
        BY <2>6, PublishPacketSends DEF SendDataFinish
      <4>3. size[m_data] - m_dataLeft = size[m_data]
        BY <4>1
      <4> QED
        BY <2>0, <4>1, <4>2, <4>3, SameFraming DEF Stream!End
    <3> QED
      BY <3>1 DEF Stream!NextStream
  <2>7. CASE UNCHANGED vars
    BY <2>1, <2>7 DEF vars, StreamView
  <2> QED
    BY <1>2, <2>2, <2>3, <2>4, <2>5, <2>6, <2>7 DEF Next, Main
<1>3. TypeOK /\ SenderInv /\ OfferInv /\ [Next]_vars => [Stream!NextStream]_(Stream!streamVars)
  BY <1>2
<1> QED
  BY <1>1, <1>3, TypeInductive, OfferInductive, PTL DEF Spec, StreamSpec, Stream!StreamSpec

\* FramedStream's promise, carried over.
StreamProof == INSTANCE FramedStream_proof WITH
    busy    <- m_dataTransProcess,
    current <- m_data,
    at      <- IF m_data = 0 THEN 0 ELSE size[m_data] - m_dataLeft,
    stream  <- accepted

\* The data packets Paho accepts never interleave two captures, and within one
\* none is repeated or overtakes another.
THEOREM AcceptedInOrder == Spec => []Ordered(size, accepted)
<1>1. StreamProof!StreamSpec => [](StreamProof!StreamTypeOK /\ StreamProof!StreamOrdered)
  BY StreamProof!StreamOrderedAlways, MaxCapturesAssumption, SizesAssumption, PacketLengthAssumption
<1>2. Stream!InitStream => StreamProof!InitStream
  BY DEF Stream!InitStream, StreamProof!InitStream, Stream!Captures, StreamProof!Captures
<1>3. [Stream!NextStream]_(Stream!streamVars) => [StreamProof!NextStream]_(StreamProof!streamVars)
  BY DEF Stream!NextStream, Stream!Start, Stream!Chunk, Stream!End, Stream!streamVars, Stream!Sent,
     Stream!Captures, Stream!Header, Stream!Payload, Stream!Finish, Stream!ChunkLength,
     StreamProof!NextStream, StreamProof!Start, StreamProof!Chunk, StreamProof!End,
     StreamProof!streamVars, StreamProof!Sent, StreamProof!Captures, StreamProof!Header,
     StreamProof!Payload, StreamProof!Finish, StreamProof!ChunkLength
<1>4. StreamProof!StreamOrdered => Ordered(size, accepted)
  BY DEF StreamProof!StreamOrdered, StreamProof!Ordered, Ordered, StreamProof!Before, Before,
     StreamProof!Place, Place
<1> QED
  BY <1>1, <1>2, <1>3, <1>4, TransfersAreFramed, PTL
     DEF StreamSpec, Stream!StreamSpec, StreamProof!StreamSpec

-----------------------------------------------------------------------------
(* What is delivered is whole.                                             *)

\* The broker has p, or Paho will see to it.
Received(p) == \E k \in 1..Len(got) : got[k] = p
Accepted(p) == Received(p) \/ \E m \in 1..Len(outbox) : outbox[m] = p

\* The place in its frame of the packet sent next.
NextPlace == 1 + size[m_data] - m_dataLeft

\* The broker has the flown ones; whatever waits in the outbox of a capture
\* that is not damaged, all that comes before it in the frame was received or
\* waits in front of it; and so does all that comes before the packet sent next.
FlownInv == \A m \in 1..flown : outbox[m] = Status \/ Received(outbox[m])

OutboxInv ==
    \A i \in Captures \ damaged, m \in 1..Len(outbox) : outbox[m].of = i =>
        /\ outbox[m] \in FramePackets(i)
        /\ \A p \in FramePackets(i) : Place(size, p) < Place(size, outbox[m]) =>
              Received(p) \/ \E l \in 1..(m - 1) : outbox[l] = p

NextInv ==
    m_dataTransProcess /\ m_data \notin damaged =>
        \A p \in FramePackets(m_data) : Place(size, p) < NextPlace => Accepted(p)

DeliveryInv == FlownInv /\ OutboxInv /\ NextInv /\ DeliveredWhole

\* Two multiples of the packet length that lie less than one apart.
LEMMA MultiplesApart ==
    ASSUME NEW c \in Nat, NEW d \in Nat, NEW p \in Nat \ {0}, d * p < c * p + p
    PROVE  d <= c
<1>1. SUFFICES ASSUME d > c PROVE FALSE
  OBVIOUS
<1> DEFINE e == d - (c + 1)
<1>2. e \in Nat /\ d = (c + 1) + e
  BY <1>1
<1>3. d * p = (c + 1) * p + e * p /\ e * p \in Nat
  BY <1>2
<1>4. (c + 1) * p = c * p + p /\ c * p \in Nat
  OBVIOUS
<1> HIDE DEF e
<1>5. d * p \in Nat /\ d * p >= c * p + p
  BY <1>3, <1>4
<1> QED
  BY <1>4, <1>5

\* The chunks of a capture, and where its packets stand in its frame (Place).
LEMMA ChunkFacts ==
    ASSUME size \in [Captures -> Sizes], NEW i \in Captures, NEW c \in Chunks(i)
    PROVE  /\ size[i] \in Nat /\ c \in Nat /\ c * PacketLength \in Nat
           /\ c * PacketLength < size[i]
           /\ ChunkOf(i, c) \in Packets /\ ChunkOf(i, c).of = i
           /\ Place(size, ChunkOf(i, c)) = 1 + c * PacketLength
<1>1. size[i] \in Nat /\ c \in Nat /\ PacketLength \in Nat \ {0}
  <2>1. size[i] \in Nat
    BY SizesAssumption
  <2>2. c \in 0..size[i]
    BY DEF Chunks
  <2> QED
    BY <2>1, <2>2, PacketLengthAssumption
<1>2. c * PacketLength \in Nat /\ c * PacketLength < size[i]
  BY <1>1 DEF Chunks
<1> DEFINE b == c * PacketLength
           n == ChunkLength(size[i] - b)
<1>3. n \in Nat
  <2>1. size[i] - b \in Nat /\ size[i] - b > 0
    BY <1>1, <1>2
  <2> HIDE DEF b
  <2> QED
    BY <2>1, ChunkLengthBounds
<1>4. ChunkOf(i, c) = Payload(i, b, n)
  BY DEF ChunkOf
<1> HIDE DEF n, b
<1>5. b \in Nat
  BY <1>2 DEF b
<1>6. Payload(i, b, n) \in Packets /\ Payload(i, b, n).of = i
  BY <1>3, <1>5, PacketTypes
<1>7. Place(size, Payload(i, b, n)) = 1 + b
  BY DEF Place, Payload
<1> QED
  BY <1>1, <1>2, <1>4, <1>6, <1>7 DEF b

LEMMA FrameFacts ==
    ASSUME size \in [Captures -> Sizes], NEW i \in Captures
    PROVE  /\ \A p \in FramePackets(i) : p \in Packets /\ p.of = i
           /\ \A p \in FramePackets(i) : Place(size, p) \in Nat
           /\ \A p \in FramePackets(i) : Place(size, p) <= 0 => p = Header(i)
           /\ Header(i) \in FramePackets(i) /\ Finish(i) \in FramePackets(i)
           /\ Place(size, Header(i)) = 0 /\ Place(size, Finish(i)) = 1 + size[i]
<1>1. Header(i) \in FramePackets(i) /\ Finish(i) \in FramePackets(i)
  BY DEF FramePackets
<1>2. Place(size, Header(i)) = 0 /\ Place(size, Finish(i)) = 1 + size[i] /\ size[i] \in Nat
  BY SizesAssumption DEF Place, Header, Finish
<1>3. ASSUME NEW p \in FramePackets(i)
      PROVE  p \in Packets /\ p.of = i /\ Place(size, p) \in Nat
             /\ (Place(size, p) <= 0 => p = Header(i))
  <2>1. CASE p = Header(i) \/ p = Finish(i)
    BY <1>2, <2>1, PacketTypes
  <2>2. ASSUME NEW c \in Chunks(i), p = ChunkOf(i, c)
        PROVE  p \in Packets /\ p.of = i /\ Place(size, p) \in Nat /\ Place(size, p) > 0
    BY <2>2, ChunkFacts
  <2> QED
    BY <1>3, <2>1, <2>2 DEF FramePackets
<1> QED
  BY <1>1, <1>2, <1>3

\* The frames are fixed.
LEMMA SameFrames ==
    ASSUME size' = size
    PROVE  \A i : FramePackets(i)' = FramePackets(i)
  BY DEF FramePackets, Chunks, ChunkOf

\* What is received stays received, and what is only accepted stays so if it is
\* appended to.
LEMMA AppendKeeps ==
    ASSUME TypeOK, FlownInv, OutboxInv, NEW p \in Packets \cup {Status},
           outbox' = Append(outbox, p), UNCHANGED <<got, flown, size, damaged>>,
           \A i \in Captures \ damaged : p.of = i =>
              /\ p \in FramePackets(i)
              /\ \A q \in FramePackets(i) : Place(size, q) < Place(size, p) => Accepted(q)
    PROVE  /\ FlownInv' /\ OutboxInv'
           /\ Accepted(p)' /\ \A q : Accepted(q) => Accepted(q)'
<1>1. /\ Len(outbox) \in Nat /\ Len(outbox') = Len(outbox) + 1
      /\ \A m \in 1..Len(outbox) : outbox'[m] = outbox[m]
      /\ outbox'[Len(outbox) + 1] = p /\ flown \in 0..Len(outbox)
  BY DEF TypeOK, OutboxOK
<1>2. FlownInv'
  BY <1>1 DEF FlownInv, Received
<1>3. Accepted(p)' /\ \A q : Accepted(q) => Accepted(q)'
  BY <1>1 DEF Accepted, Received
<1>4. OutboxInv'
  <2>1. SUFFICES ASSUME NEW i \in Captures, i \notin damaged, NEW m \in 1..Len(outbox'),
                        outbox'[m].of = i
                 PROVE  /\ outbox'[m] \in FramePackets(i)
                        /\ \A q \in FramePackets(i) : Place(size, q) < Place(size, outbox'[m]) =>
                              Received(q) \/ \E l \in 1..(m - 1) : outbox'[l] = q
    BY SameFrames DEF OutboxInv, Received
  <2>2. CASE m \in 1..Len(outbox)
    BY <1>1, <2>1, <2>2 DEF OutboxInv
  <2>3. CASE m = Len(outbox) + 1
    BY <1>1, <2>1, <2>3 DEF Accepted
  <2> QED
    BY <1>1, <2>2, <2>3
<1> QED
  BY <1>2, <1>3, <1>4

\* Nothing is lost by a step that leaves the outbox and what was received alone.
LEMMA RestKeeps ==
    ASSUME UNCHANGED <<outbox, got, size>>, flown' = flown \/ flown' = 0, damaged \subseteq damaged',
           FlownInv, OutboxInv, DeliveredWhole
    PROVE  /\ FlownInv' /\ OutboxInv' /\ DeliveredWhole'
           /\ \A q : Accepted(q) => Accepted(q)'
<1>1. FlownInv'
  BY DEF FlownInv, Received
<1>2. OutboxInv'
  BY SameFrames DEF OutboxInv, Received
<1>3. DeliveredWhole'
  BY SameFrames DEF DeliveredWhole
<1> QED
  BY <1>1, <1>2, <1>3 DEF Accepted, Received

\* publishPacket: the next packet of a frame is accepted behind those before it,
\* or the capture is damaged.
LEMMA PacketKeeps ==
    ASSUME TypeOK, FlownInv, OutboxInv, DeliveredWhole,
           NEW i \in Captures, NEW p \in FramePackets(i), PublishPacket(p),
           UNCHANGED <<got, flown, size>>,
           i \notin damaged =>
              \A q \in FramePackets(i) : Place(size, q) < Place(size, p) => Accepted(q)
    PROVE  /\ FlownInv' /\ OutboxInv' /\ DeliveredWhole'
           /\ damaged \subseteq damaged'
           /\ \A q : Accepted(q) => Accepted(q)'
           /\ i \notin damaged' => Accepted(p)'
<1>1. p \in Packets /\ p.of = i
  BY FrameFacts DEF TypeOK, InputOK
<1>2. CASE m_connected /\ link
  <2>1. outbox' = Append(outbox, p) /\ damaged' = damaged
    BY <1>2 DEF PublishPacket, Publish
  <2>2. DeliveredWhole'
    BY <2>1, SameFrames DEF DeliveredWhole
  <2> QED
    BY <1>1, <2>1, <2>2, AppendKeeps
<1>3. CASE ~(m_connected /\ link)
  <2>1. outbox' = outbox /\ damaged' = damaged \cup {i}
    BY <1>1, <1>3 DEF PublishPacket, Publish
  <2> QED
    BY <2>1, RestKeeps
<1> QED
  BY <1>2, <1>3

\* Publishing the client's state changes nothing of this.
LEMMA StatusKeeps ==
    ASSUME TypeOK, FlownInv, OutboxInv, DeliveredWhole, Publish(Status) \/ outbox' = outbox,
           UNCHANGED <<got, flown, size, damaged>>
    PROVE  /\ FlownInv' /\ OutboxInv' /\ DeliveredWhole'
           /\ \A q : Accepted(q) => Accepted(q)'
<1>1. CASE outbox' = outbox
  BY <1>1, RestKeeps
<1>2. CASE outbox' = Append(outbox, Status)
  <2>1. \A i \in Captures : Status.of # i
    BY MaxCapturesAssumption DEF Status, Captures
  <2>2. DeliveredWhole'
    BY <1>2, SameFrames DEF DeliveredWhole
  <2> QED
    BY <1>2, <2>1, <2>2, AppendKeeps
<1> QED
  BY <1>1, <1>2 DEF Publish

\* sendDataPayload sends the chunk at NextPlace: only that one lies between the
\* packets sent so far and those after it.
LEMMA PayloadIsNext ==
    ASSUME TypeOK, SenderInv, SendDataPayload, size' = size
    PROVE  /\ m_data \in Captures
           /\ PublishPacket(ChunkOf(m_data, m_chunkIndex))
           /\ ChunkOf(m_data, m_chunkIndex) \in FramePackets(m_data)
           /\ Place(size, ChunkOf(m_data, m_chunkIndex)) = NextPlace
           /\ \A p \in FramePackets(m_data) : Place(size, p) < NextPlace' =>
                 Place(size, p) < NextPlace \/ p = ChunkOf(m_data, m_chunkIndex)
<1> DEFINE n == ChunkLength(m_dataLeft)
           b == m_chunkIndex * PacketLength
<1>1. /\ m_data \in Captures /\ size[m_data] \in Nat /\ b \in Nat
      /\ m_dataLeft' = m_dataLeft - n /\ n \in 1..m_dataLeft
      /\ m_dataLeft \in Nat /\ m_dataLeft > 0 /\ m_chunkIndex \in Nat
      /\ PacketLength \in Nat \ {0} /\ m_dataTransProcess /\ size \in [Captures -> Sizes]
  BY PayloadTypes, PacketLengthAssumption
     DEF SendDataPayload, SenderInv, TypeOK, SenderOK, InputOK
<1>2. PublishPacket(Payload(m_data, b, n)) /\ m_data' = m_data
  BY DEF SendDataPayload
<1>3. b + m_dataLeft = size[m_data]
  BY <1>1 DEF SenderInv, ChunkInBounds
<1>4. n = PacketLength \/ n = m_dataLeft
  BY <1>1, ChunkLengthBounds
<1>5. m_chunkIndex <= b
  <2>1. PICK r \in Nat : PacketLength = r + 1
    <3>1. PacketLength - 1 \in Nat /\ PacketLength = (PacketLength - 1) + 1
      BY <1>1
    <3> QED
      BY <3>1
  <2>2. m_chunkIndex * (r + 1) = m_chunkIndex * r + m_chunkIndex /\ m_chunkIndex * r \in Nat
    BY <1>1
  <2> QED
    BY <1>1, <2>1, <2>2
<1>6. size[m_data] - b = m_dataLeft /\ b < size[m_data]
  <2> HIDE DEF b
  <2> QED
    BY <1>1, <1>3
<1>7. ChunkOf(m_data, m_chunkIndex) = Payload(m_data, b, n)
  BY <1>6 DEF ChunkOf
<1>8. m_chunkIndex \in Chunks(m_data)
  BY <1>1, <1>5, <1>6 DEF Chunks
<1>9. Place(size, ChunkOf(m_data, m_chunkIndex)) = 1 + b
  BY <1>1, <1>8, ChunkFacts
<1> HIDE DEF n
<1>10. NextPlace = 1 + b /\ NextPlace' = 1 + b + n /\ n \in Nat
  <2> HIDE DEF b
  <2> QED
    BY <1>1, <1>2, <1>3 DEF NextPlace
<1>11. ASSUME NEW p \in FramePackets(m_data), Place(size, p) < NextPlace'
       PROVE  Place(size, p) < NextPlace \/ p = ChunkOf(m_data, m_chunkIndex)
  <2>1. CASE p = Header(m_data)
    BY <1>1, <1>10, <2>1, FrameFacts
  <2>2. CASE p = Finish(m_data)
    <3>1. Place(size, p) = 1 + size[m_data]
      BY <1>1, <2>2, FrameFacts
    <3> HIDE DEF b
    <3> QED
      BY <1>1, <1>3, <1>10, <1>11, <3>1
  <2>3. ASSUME NEW c \in Chunks(m_data), p = ChunkOf(m_data, c)
        PROVE  Place(size, p) < NextPlace \/ p = ChunkOf(m_data, m_chunkIndex)
    <3>1. /\ Place(size, p) = 1 + c * PacketLength /\ c \in Nat /\ c * PacketLength \in Nat
          /\ c * PacketLength < size[m_data]
      BY <1>1, <2>3, ChunkFacts
    <3>2. c * PacketLength < b + n /\ n <= PacketLength
      <4>1. c * PacketLength < b + n
        BY <1>1, <1>10, <1>11, <3>1
      <4>2. n <= PacketLength
        BY <1>1 DEF n, ChunkLength
      <4> QED
        BY <4>1, <4>2
    <3>3. c * PacketLength < m_chunkIndex * PacketLength + PacketLength
      <4> DEFINE d == c * PacketLength
      <4>1. d < b + n /\ d \in Nat
        BY <3>1, <3>2
      <4> HIDE DEF d, b
      <4>2. d < b + PacketLength
        BY <1>1, <1>10, <3>2, <4>1
      <4> QED
        BY <4>2 DEF d, b
    <3>4. c <= m_chunkIndex
      BY <1>1, <3>1, <3>3, MultiplesApart
    <3>5. CASE c = m_chunkIndex
      BY <2>3, <3>5
    <3>6. CASE c < m_chunkIndex
      <4> DEFINE e == m_chunkIndex - c
      <4>1. e \in Nat \ {0} /\ m_chunkIndex = c + e
        BY <1>1, <3>1, <3>6
      <4>2. (c + e) * PacketLength = c * PacketLength + e * PacketLength
        BY <1>1, <3>1, <4>1
      <4>3. e * PacketLength \in Nat /\ e * PacketLength > 0
        BY <1>1, <4>1
      <4> HIDE DEF e
      <4>4. c * PacketLength < b
        BY <1>1, <3>1, <4>1, <4>2, <4>3
      <4> QED
        BY <1>1, <1>10, <3>1, <4>4
    <3> QED
      BY <1>1, <3>1, <3>4, <3>5, <3>6
  <2> QED
    BY <1>11, <2>1, <2>2, <2>3 DEF FramePackets
<1> QED
  BY <1>1, <1>2, <1>7, <1>8, <1>9, <1>10, <1>11 DEF FramePackets

\* Every step keeps what is delivered whole.
LEMMA DeliveryStep ==
    ASSUME TypeOK, SenderInv, DeliveryInv, [Next]_vars
    PROVE  DeliveryInv'
<1>0. size' = size /\ FlownInv /\ OutboxInv /\ NextInv /\ DeliveredWhole
  BY StepKeepsInputs DEF DeliveryInv
<1>n. ASSUME \A q : Accepted(q) => Accepted(q)', UNCHANGED senderVars, damaged \subseteq damaged'
      PROVE  NextInv'
  BY <1>0, <1>n, SameFrames DEF NextInv, NextPlace, senderVars
<1>1. CASE MotionDetected \/ LinkUp \/ LinkLost \/ ControlArrives \/ OnDisconnected \/ IgnoreSended
           \/ UNCHANGED vars
  <2>1. /\ UNCHANGED <<outbox, got, senderVars, historyVars>>
        /\ flown' = flown \/ flown' = 0
    BY <1>1 DEF MotionDetected, LinkUp, LinkLost, ControlArrives, OnDisconnected, IgnoreSended, vars
  <2> QED
    BY <1>0, <1>n, <2>1, RestKeeps DEF DeliveryInv, historyVars
<1>2. CASE OnConnected \/ PublishState \/ OnControl
  <2>1. /\ Publish(Status) \/ outbox' = outbox
        /\ UNCHANGED <<got, flown, senderVars, historyVars>>
    BY <1>2 DEF OnConnected, PublishState, OnControl
  <2> QED
    BY <1>0, <1>n, <2>1, StatusKeeps DEF DeliveryInv, historyVars
<1>3. CASE Deliver
  <2>1. /\ flown \in 0..Len(outbox) /\ Len(outbox) \in Nat /\ got \in Seq(Packets)
        /\ flown' = flown + 1 /\ flown' \in 1..Len(outbox)
        /\ UNCHANGED <<outbox, senderVars, damaged>>
    BY <1>3 DEF Deliver, TypeOK, OutboxOK, historyVars
  <2>p. PICK p : p = outbox[flown + 1]
    OBVIOUS
  <2>2. \/ p = Status /\ got' = got
        \/ p # Status /\ p \in Packets /\ got' = Append(got, p)
    BY <1>3, <2>1, <2>p DEF Deliver, TypeOK, OutboxOK
  <2>3. /\ \A q : Received(q) => Received(q)'
        /\ p = Status \/ Received(p)'
    <3>1. /\ Len(got) \in Nat
          /\ \/ got' = got
             \/ /\ Len(got') = Len(got) + 1 /\ got'[Len(got) + 1] = p
                /\ \A k \in 1..Len(got) : got'[k] = got[k]
      BY <2>1, <2>2
    <3> QED
      BY <2>2, <3>1 DEF Received
  <2>4. FlownInv'
    <3>1. SUFFICES ASSUME NEW m \in 1..flown'
                   PROVE  outbox[m] = Status \/ Received(outbox[m])'
      BY <2>1 DEF FlownInv
    <3>2. m \in 1..flown \/ m = flown + 1
      BY <2>1
    <3> QED
      BY <1>0, <2>1, <2>3, <2>p, <3>2 DEF FlownInv
  <2>5. OutboxInv'
    BY <1>0, <2>1, <2>3, SameFrames DEF OutboxInv
  <2>6. NextInv'
    BY <1>n, <2>1, <2>3 DEF Accepted
  <2>7. DeliveredWhole'
    <3>1. CASE p = Status
      BY <1>0, <2>1, <2>2, <3>1, SameFrames, PacketTypes DEF DeliveredWhole
    <3>2. CASE p # Status
      <4>1. /\ got' = Append(got, p) /\ Len(got') = Len(got) + 1 /\ got'[Len(got) + 1] = p
            /\ Len(got) \in Nat /\ \A k \in 1..Len(got) : got'[k] = got[k]
        BY <2>1, <2>2, <3>2
      <4>2. SUFFICES ASSUME NEW i \in Captures, i \notin damaged, NEW k \in 1..Len(got'),
                            got'[k].of = i
                     PROVE  /\ got'[k] \in FramePackets(i)
                            /\ \A q \in FramePackets(i) : Place(size, q) < Place(size, got'[k]) =>
                                  \E j \in 1..(k - 1) : got'[j] = q
        BY <1>0, <2>1, SameFrames DEF DeliveredWhole
      <4>3. CASE k \in 1..Len(got)
        BY <1>0, <4>1, <4>2, <4>3 DEF DeliveredWhole
      <4>4. CASE k = Len(got) + 1
        <5>1. /\ p \in FramePackets(i)
              /\ \A q \in FramePackets(i) : Place(size, q) < Place(size, p) =>
                    Received(q) \/ \E l \in 1..(flown' - 1) : outbox[l] = q
          BY <1>0, <2>1, <2>p, <4>1, <4>2, <4>4 DEF OutboxInv
        <5>2. ASSUME NEW q \in FramePackets(i), NEW l \in 1..(flown' - 1), outbox[l] = q
              PROVE  Received(q)
          <6>1. q # Status
            BY FrameFacts, PacketTypes DEF TypeOK, InputOK
          <6> QED
            BY <1>0, <2>1, <5>2, <6>1 DEF FlownInv
        <5>3. \A q \in FramePackets(i) : Place(size, q) < Place(size, p) => Received(q)
          BY <5>1, <5>2
        <5> QED
          BY <4>1, <4>4, <5>1, <5>3 DEF Received
      <4> QED
        BY <4>1, <4>3, <4>4
    <3> QED
      BY <3>1, <3>2
  <2> QED
    BY <2>4, <2>5, <2>6, <2>7 DEF DeliveryInv
<1>4. CASE Complete
  <2>1. /\ flown \in 1..Len(outbox) /\ Len(outbox) \in Nat /\ flown' = flown - 1
        /\ outbox' = Tail(outbox) /\ Len(outbox') = Len(outbox) - 1
        /\ \A m \in 1..Len(outbox') : outbox'[m] = outbox[m + 1]
        /\ UNCHANGED <<got, senderVars, damaged>>
    <3>1. outbox # <<>> /\ outbox \in Seq(Packets \cup {Status})
      BY <1>4 DEF Complete, TypeOK, OutboxOK
    <3> QED
      BY <1>4, <3>1 DEF Complete, TypeOK, OutboxOK, historyVars
  <2>2. outbox[1] = Status \/ Received(outbox[1])
    BY <1>0, <2>1 DEF FlownInv
  <2>3. \A q : Received(q)' <=> Received(q)
    BY <2>1 DEF Received
  <2>4. FlownInv'
    BY <1>0, <2>1, <2>3 DEF FlownInv
  <2>5. ASSUME NEW l \in 1..Len(outbox)
        PROVE  l = 1 \/ (l - 1 \in 1..Len(outbox') /\ outbox'[l - 1] = outbox[l])
    BY <2>1
  <2>6. \A q \in Packets : Accepted(q) => Accepted(q)'
    BY <2>2, <2>3, <2>5, PacketTypes DEF Accepted
  <2>7. OutboxInv'
    <3>1. SUFFICES ASSUME NEW i \in Captures, i \notin damaged, NEW m \in 1..Len(outbox'),
                          outbox'[m].of = i
                   PROVE  /\ outbox'[m] \in FramePackets(i)
                          /\ \A q \in FramePackets(i) : Place(size, q) < Place(size, outbox'[m]) =>
                                Received(q) \/ \E l \in 1..(m - 1) : outbox'[l] = q
      BY <1>0, <2>1, <2>3, SameFrames DEF OutboxInv
    <3>2. /\ outbox'[m] = outbox[m + 1] /\ m + 1 \in 1..Len(outbox)
          /\ outbox[m + 1] \in FramePackets(i)
          /\ \A q \in FramePackets(i) : Place(size, q) < Place(size, outbox[m + 1]) =>
                Received(q) \/ \E l \in 1..m : outbox[l] = q
      BY <1>0, <2>1, <3>1 DEF OutboxInv
    <3>3. ASSUME NEW q \in FramePackets(i), NEW l \in 1..m, outbox[l] = q
          PROVE  Received(q) \/ \E j \in 1..(m - 1) : outbox'[j] = q
      <4>1. q # Status
        BY FrameFacts, PacketTypes DEF TypeOK, InputOK
      <4>2. CASE l = 1
        BY <2>2, <3>3, <4>1, <4>2
      <4>3. CASE l # 1
        <5>1. l - 1 \in 1..(m - 1) /\ l - 1 \in 1..Len(outbox') /\ l \in 1..Len(outbox)
          BY <2>1, <3>1, <4>3
        <5>2. outbox'[l - 1] = q
          BY <2>1, <3>3, <5>1
        <5> QED
          BY <5>1, <5>2
      <4> QED
        BY <4>2, <4>3
    <3> QED
      BY <3>2, <3>3
  <2>8. NextInv'
    <3>1. ASSUME m_dataTransProcess
          PROVE  FramePackets(m_data) \subseteq Packets
      BY <3>1, FrameFacts DEF TypeOK, InputOK, SenderInv, SenderOK
    <3> QED
      BY <1>0, <2>1, <2>6, <3>1, SameFrames DEF NextInv, NextPlace, senderVars
  <2>9. DeliveredWhole'
    BY <1>0, <2>1, SameFrames DEF DeliveredWhole
  <2> QED
    BY <2>4, <2>7, <2>8, <2>9 DEF DeliveryInv
<1>5. ASSUME NEW i \in Captures, SendCapture(i)
      PROVE  DeliveryInv'
  <2>1. UNCHANGED <<got, flown>> /\ size \in [Captures -> Sizes]
    BY <1>5 DEF SendCapture, TypeOK, InputOK
  <2>2. CASE UNCHANGED <<files, outbox, senderVars, historyVars>>
    BY <1>0, <1>n, <2>1, <2>2, RestKeeps DEF DeliveryInv, historyVars
  <2>3. CASE DataSend(i)
    <3>1. /\ m_data' = i /\ m_dataLeft' = size[i] /\ PublishPacket(Header(i))
          /\ Header(i) \in FramePackets(i) /\ size[i] \in Nat
      BY <2>1, <2>3, FrameFacts, SizesAssumption DEF DataSend
    <3>2. \A q \in FramePackets(i) : ~(Place(size, q) < Place(size, Header(i)))
      BY <2>1, FrameFacts
    <3>3. /\ FlownInv' /\ OutboxInv' /\ DeliveredWhole'
          /\ i \notin damaged' => Accepted(Header(i))'
      BY <1>0, <2>1, <3>1, <3>2, PacketKeeps
    <3>4. NextPlace' = 1
      BY <1>0, <3>1 DEF NextPlace
    <3>5. \A q \in FramePackets(i) : Place(size, q) < 1 => q = Header(i)
      BY <2>1, FrameFacts
    <3>6. NextInv'
      BY <1>0, <3>1, <3>3, <3>4, <3>5, SameFrames DEF NextInv
    <3> QED
      BY <3>3, <3>6 DEF DeliveryInv
  <2> QED
    BY <1>5, <2>2, <2>3 DEF SendCapture
<1>6. CASE SendDataPayload
  <2>1. PICK i \in Captures, p \in FramePackets(m_data) :
            /\ i = m_data /\ PublishPacket(p)
            /\ Place(size, p) = NextPlace
            /\ \A q \in FramePackets(m_data) : Place(size, q) < NextPlace' =>
                  Place(size, q) < NextPlace \/ q = p
    BY <1>0, <1>6, PayloadIsNext
  <2>2. UNCHANGED <<got, flown, m_data>> /\ m_dataTransProcess
    BY <1>6 DEF SendDataPayload, SenderInv
  <2>3. i \notin damaged =>
            \A q \in FramePackets(i) : Place(size, q) < Place(size, p) => Accepted(q)
    BY <1>0, <2>1, <2>2 DEF NextInv
  <2>4. /\ FlownInv' /\ OutboxInv' /\ DeliveredWhole' /\ damaged \subseteq damaged'
        /\ \A q : Accepted(q) => Accepted(q)'
        /\ i \notin damaged' => Accepted(p)'
    BY <1>0, <2>1, <2>2, <2>3, PacketKeeps
  <2>5. NextInv'
    BY <1>0, <2>1, <2>2, <2>4, SameFrames DEF NextInv
  <2> QED
    BY <2>4, <2>5 DEF DeliveryInv
<1>7. CASE SendDataFinish
  <2>1. /\ m_data \in Captures /\ PublishPacket(Finish(m_data)) /\ m_dataTransProcess
        /\ m_dataLeft = 0 /\ UNCHANGED <<got, flown>> /\ m_dataTransProcess' = FALSE
        /\ size \in [Captures -> Sizes] /\ size[m_data] \in Nat
    BY <1>7, SizesAssumption DEF SendDataFinish, SenderInv, TypeOK, SenderOK, InputOK
  <2>2. Finish(m_data) \in FramePackets(m_data) /\ Place(size, Finish(m_data)) = NextPlace
    BY <2>1, FrameFacts DEF NextPlace
  <2>3. m_data \notin damaged =>
            \A q \in FramePackets(m_data) :
                Place(size, q) < Place(size, Finish(m_data)) => Accepted(q)
    BY <1>0, <2>1, <2>2 DEF NextInv
  <2>4. FlownInv' /\ OutboxInv' /\ DeliveredWhole'
    BY <1>0, <2>1, <2>2, <2>3, PacketKeeps
  <2> QED
    BY <2>1, <2>4 DEF DeliveryInv, NextInv
<1> QED
  BY <1>1, <1>2, <1>3, <1>4, <1>5, <1>6, <1>7 DEF Next, Main

\* A capture no packet of which was refused arrives whole, across any number of
\* lost connections: Paho's outbox, its deliveries that are repeated, and the
\* chunks cut by sendDataPayload together.
THEOREM DeliveredWholeAlways == Spec => []DeliveredWhole
<1>1. Init => DeliveryInv
  <2>1. SUFFICES ASSUME Init PROVE DeliveryInv
    OBVIOUS
  <2>2. Len(got) = 0 /\ Len(outbox) = 0 /\ flown = 0 /\ ~m_dataTransProcess
    BY <2>1 DEF Init
  <2> QED
    BY <2>2 DEF DeliveryInv, FlownInv, OutboxInv, NextInv, DeliveredWhole
<1>2. TypeOK /\ SenderInv /\ DeliveryInv /\ [Next]_vars => DeliveryInv'
  BY DeliveryStep
<1>3. DeliveryInv => DeliveredWhole
  BY DEF DeliveryInv
<1> QED
  BY <1>1, <1>2, <1>3, TypeInductive, PTL DEF Spec

=============================================================================
