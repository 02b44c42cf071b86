---------------------------- MODULE MqttTransfer ----------------------------
(***************************************************************************)
(* The transfer of captures by WiCamMQTTClient.                            *)
(*                                                                         *)
(* The capture thread posts an encoded image, or the name of a video or    *)
(* sound file, to the main thread.  The main thread sends one capture at a *)
(* time: dataSend() publishes a header, every completed publication of the *)
(* client (onSended, whatever was published) sends one more chunk, and the *)
(* last chunk is followed by the finish packet.  Publications go through   *)
(* Paho, which refuses them while its connection is down, delivers them    *)
(* with QoS 1 and sends again, after a reconnection, what was not          *)
(* acknowledged.                                                           *)
(***************************************************************************)
EXTENDS Framing, ConnectionEvents

CONSTANTS
    Clips,      \* the captures that are a video or sound file
    MaxQueue,   \* bound of the model: events waiting in the main thread's queue
    MaxOutbox,  \* bound of the model: publications a control message may join
    MaxLosses   \* bound of the model: losses of the connection

ASSUME ClipsAssumption     == Clips \subseteq Captures
ASSUME MaxQueueAssumption  == MaxQueue \in Nat \ {0}
ASSUME MaxOutboxAssumption == MaxOutbox \in Nat
ASSUME MaxLossesAssumption == MaxLosses \in Nat

VARIABLES
    size,               \* the bytes of each capture, fixed
    files,              \* the clips whose file is in /tmp
    captured,           \* the captures made so far
    link, losses,       \* Paho's connection is up; how often it was lost
    outbox,             \* publications Paho accepted and has not completed
    flown,              \* how many of them, from the front, the broker has
    events,             \* the event queue of the main thread
    step,               \* where the main thread is inside a slot
    m_connected,        \* WiCamMQTTClient's fields ...
    m_dataTransActive,
    m_dataTransProcess,
    m_data,             \* ... the capture m_data holds the bytes of
    m_dataLeft,
    m_chunkIndex,
    accepted,           \* the data packets Paho accepted, in order
    damaged,            \* the captures a data packet of which was not accepted
    got                 \* the data packets the broker received, in order

inputVars   == <<size, captured>>
linkVars    == <<link, losses>>
senderVars  == <<m_dataTransActive, m_dataTransProcess, m_data, m_dataLeft, m_chunkIndex>>
historyVars == <<accepted, damaged>>
vars == <<inputVars, files, linkVars, outbox, flown, events, step, m_connected, senderVars,
          historyVars, got>>

-----------------------------------------------------------------------------

Connected    == [type |-> "connected", of |-> 0]
Lost         == [type |-> "lost", of |-> 0]
Sended       == [type |-> "sended", of |-> 0]
Control      == [type |-> "control", of |-> 0]
Captured(i)  == [type |-> "captured", of |-> i]
Notes        == {Connected, Lost, Sended, Control}
Events       == Notes \cup {Captured(i) : i \in Captures}

\* The retained online and state messages: no packets of a transfer.
Status == [type |-> "STATUS", of |-> 0, from |-> 0, len |-> 0]

Init ==
    /\ size \in [Captures -> Sizes]
    /\ files = {} /\ captured = 0
    /\ link = FALSE /\ losses = 0
    /\ outbox = <<>> /\ flown = 0
    /\ events = <<>> /\ step = "idle"
    /\ m_connected = FALSE
    /\ m_dataTransActive = FALSE /\ m_dataTransProcess = FALSE
    /\ m_data = 0 /\ m_dataLeft = 0 /\ m_chunkIndex = 0
    /\ accepted = <<>> /\ damaged = {} /\ got = <<>>

Post(e) == Len(events) < MaxQueue /\ events' = Append(events, e)

-----------------------------------------------------------------------------
(* The capture thread.                                                     *)

\* emit motionDetectedImage(buff), motionDetectedVideo(name) or ...Sound(name):
\* a clip is in its file by then, unless the file could not be written.
MotionDetected ==
    /\ captured < MaxCaptures
    /\ captured' = captured + 1
    /\ Post(Captured(captured'))
    /\ files' \in {files, files \cup ({captured'} \cap Clips)}
    /\ UNCHANGED <<size, linkVars, outbox, flown, step, m_connected, senderVars, historyVars, got>>

-----------------------------------------------------------------------------
(* Paho's threads and the broker.                                          *)

LinkUp ==
    /\ ~link /\ link' = TRUE
    /\ Post(Connected)
    /\ UNCHANGED <<inputVars, files, losses, outbox, flown, step, m_connected, senderVars, historyVars, got>>

\* Mutant: a clean session forgets what was not acknowledged.
LinkLostCleanSession ==
    /\ link /\ losses < MaxLosses
    /\ link' = FALSE /\ losses' = losses + 1
    /\ outbox' = <<>> /\ flown' = 0
    /\ Post(Lost)
    /\ UNCHANGED <<inputVars, files, step, m_connected, senderVars, historyVars, got>>

\* What was not acknowledged will be sent again.
LinkLost ==
    /\ link /\ losses < MaxLosses
    /\ link' = FALSE /\ losses' = losses + 1
    /\ flown' = 0
    /\ Post(Lost)
    /\ UNCHANGED <<inputVars, files, outbox, step, m_connected, senderVars, historyVars, got>>

Deliver ==
    /\ link /\ flown < Len(outbox)
    /\ flown' = flown + 1
    /\ got' = IF outbox[flown'] = Status THEN got ELSE Append(got, outbox[flown'])
    /\ UNCHANGED <<inputVars, files, linkVars, outbox, events, step, m_connected, senderVars, historyVars>>

\* on_send: emit sended().
Complete ==
    /\ link /\ flown > 0
    /\ outbox' = Tail(outbox) /\ flown' = flown - 1
    /\ Post(Sended)
    /\ UNCHANGED <<inputVars, files, linkVars, step, m_connected, senderVars, historyVars, got>>

\* A control message: the states it may have published lie among the chunks and
\* shift their completions.  Bounds of the model: one waits in the queue, which
\* has room for completions then, and MaxOutbox.
ControlArrives ==
    /\ link /\ ~Waiting(events, Control) /\ Len(outbox) < MaxOutbox
    /\ Post(Control)
    /\ UNCHANGED <<inputVars, files, linkVars, outbox, flown, step, m_connected, senderVars, historyVars, got>>

-----------------------------------------------------------------------------
(* The slots of WiCamMQTTClient, run by the main thread.                   *)

Take(e) ==
    /\ step = "idle"
    /\ events # <<>> /\ Head(events) = e
    /\ events' = Tail(events)

\* MQTTClient::publish: MQTTAsync_sendMessage fails while the link is down.
Publish(p) == outbox' = IF link THEN Append(outbox, p) ELSE outbox

\* The online message is published with the connection the event announced,
\* which may be gone; then setSystemState publishes the state.
OnConnected ==
    /\ Take(Connected)
    /\ Publish(Status)
    /\ m_connected' = TRUE
    /\ step' = "publishState"
    /\ UNCHANGED <<inputVars, files, linkVars, flown, senderVars, historyVars, got>>

PublishState ==
    /\ step = "publishState"
    /\ Publish(Status)
    /\ step' = "idle"
    /\ UNCHANGED <<inputVars, files, linkVars, flown, events, m_connected, senderVars, historyVars, got>>

OnDisconnected ==
    /\ Take(Lost)
    /\ m_connected' = FALSE
    /\ UNCHANGED <<inputVars, files, linkVars, outbox, flown, step, senderVars, historyVars, got>>

\* A command that changes the state of the system publishes it if connected.
OnControl ==
    /\ Take(Control)
    /\ \E changes \in BOOLEAN :
          IF changes /\ m_connected THEN Publish(Status) ELSE UNCHANGED outbox
    /\ UNCHANGED <<inputVars, files, linkVars, flown, step, m_connected, senderVars, historyVars, got>>

\* publishPacket, with the flag and the link it depends on.
PublishPacket(p) ==
    IF m_connected
    THEN /\ Publish(p)
         /\ accepted' = IF link THEN Append(accepted, p) ELSE accepted
         /\ damaged' = IF link THEN damaged ELSE damaged \cup {p.of}
    ELSE damaged' = damaged \cup {p.of} /\ UNCHANGED <<outbox, accepted>>

\* Mutants: the chunk index of the last capture is kept; no header is sent.
DataSendKeepingIndex(i) ==
    /\ m_dataTransProcess' = TRUE /\ m_dataTransActive' = TRUE
    /\ m_data' = i /\ m_dataLeft' = size[i] /\ UNCHANGED m_chunkIndex
    /\ PublishPacket(Header(i))

DataSendWithoutHeader(i) ==
    /\ m_dataTransProcess' = TRUE /\ m_dataTransActive' = TRUE
    /\ m_data' = i /\ m_dataLeft' = size[i] /\ m_chunkIndex' = 0
    /\ UNCHANGED <<outbox, historyVars>>

DataSend(i) ==
    /\ m_dataTransProcess' = TRUE
    /\ m_chunkIndex' = 0
    /\ m_dataLeft' = size[i]
    /\ m_data' = i
    /\ PublishPacket(Header(i))
    /\ m_dataTransActive' = TRUE

\* Mutant: the guard of sendImage, sendVideo and sendSound is dropped.
SendCaptureAnyTime(i) ==
    /\ Take(Captured(i))
    /\ IF i \in Clips \ files
       THEN UNCHANGED <<files, outbox, senderVars, historyVars>>
       ELSE DataSend(i) /\ files' = files \ {i}
    /\ UNCHANGED <<inputVars, linkVars, flown, step, m_connected, got>>

\* sendImage, sendVideo and sendSound: exit if there is an active sending
\* process, or if the clip's file cannot be opened; the file of a clip is
\* removed once it is read.
SendCapture(i) ==
    /\ Take(Captured(i))
    /\ IF m_dataTransProcess \/ i \in Clips \ files
       THEN UNCHANGED <<files, outbox, senderVars, historyVars>>
       ELSE DataSend(i) /\ files' = files \ {i}
    /\ UNCHANGED <<inputVars, linkVars, flown, step, m_connected, got>>

\* A completion outside a transfer, or with nothing left to send, is ignored.
IgnoreSended ==
    /\ Take(Sended)
    /\ ~m_dataTransActive \/ m_dataLeft = 0
    /\ UNCHANGED <<inputVars, files, linkVars, outbox, flown, step, m_connected, senderVars,
                   historyVars, got>>

SendDataPayload ==
    /\ Take(Sended)
    /\ m_dataTransActive /\ m_dataLeft # 0
    /\ LET n == ChunkLength(m_dataLeft) IN
       /\ PublishPacket(Payload(m_data, m_chunkIndex * PacketLength, n))
       /\ m_chunkIndex' = m_chunkIndex + 1
       /\ m_dataLeft' = m_dataLeft - n
       /\ step' = IF m_dataLeft' = 0 THEN "finish" ELSE "idle"
    /\ UNCHANGED <<inputVars, files, linkVars, flown, m_connected, m_dataTransActive,
                   m_dataTransProcess, m_data, got>>

\* Mutant: m_dataTransProcess stays up after the finish.
SendDataFinishStillBusy ==
    /\ step = "finish" /\ step' = "idle"
    /\ m_dataTransActive' = FALSE
    /\ PublishPacket(Finish(m_data))
    /\ UNCHANGED <<inputVars, files, linkVars, flown, events, m_connected, m_dataTransProcess,
                   m_data, m_dataLeft, m_chunkIndex, got>>

SendDataFinish ==
    /\ step = "finish"
    /\ m_dataTransActive' = FALSE
    /\ PublishPacket(Finish(m_data))
    /\ m_dataTransProcess' = FALSE
    /\ step' = "idle"
    /\ UNCHANGED <<inputVars, files, linkVars, flown, events, m_connected, m_data, m_dataLeft,
                   m_chunkIndex, got>>

Main ==
    \/ OnConnected \/ PublishState \/ OnDisconnected \/ OnControl
    \/ \E i \in Captures : SendCapture(i)
    \/ IgnoreSended \/ SendDataPayload \/ SendDataFinish

-----------------------------------------------------------------------------

Next ==
    \/ MotionDetected
    \/ LinkUp \/ LinkLost \/ Deliver \/ Complete \/ ControlArrives
    \/ Main

Spec == Init /\ [][Next]_vars

\* Paho reconnects by itself (automaticReconnect) and works through its outbox,
\* Qt runs the main loop; captures, commands and losses owe nothing.
FairSpec ==
    Spec /\ WF_vars(Main) /\ WF_vars(LinkUp) /\ WF_vars(Deliver) /\ WF_vars(Complete)

-----------------------------------------------------------------------------

InputOK   == size \in [Captures -> Sizes] /\ captured \in 0..MaxCaptures /\ files \in SUBSET Clips
LinkOK    == link \in BOOLEAN /\ losses \in 0..MaxLosses /\ m_connected \in BOOLEAN
OutboxOK  == outbox \in Seq(Packets \cup {Status}) /\ flown \in 0..Len(outbox) /\ got \in Seq(Packets)
QueueOK   == events \in Seq(Events) /\ Len(events) <= MaxQueue
SenderOK  ==
    /\ step \in {"idle", "publishState", "finish"}
    /\ m_dataTransActive \in BOOLEAN /\ m_dataTransProcess \in BOOLEAN
    /\ m_data \in Captures \cup {0} /\ m_dataLeft \in Nat /\ m_chunkIndex \in Nat
HistoryOK == accepted \in Seq(Packets) /\ damaged \in SUBSET Captures

\* Every variable keeps its type.
TypeOK == InputOK /\ LinkOK /\ OutboxOK /\ QueueOK /\ SenderOK /\ HistoryOK

\* A transfer with bytes left never starves while the connection is up: a
\* completion, or what will bring one, is on its way, whatever was refused,
\* lost or sent again before.
NoStall ==
    m_dataTransProcess /\ m_dataLeft > 0 /\ link =>
        \/ outbox # <<>>
        \/ Waiting(events, Sended) \/ Waiting(events, Connected)
        \/ step = "publishState"

\* The chunk cut next is the next bytes of the capture, and all of them are
\* within it.
ChunkInBounds ==
    m_dataTransProcess /\ m_dataLeft > 0 =>
        m_chunkIndex * PacketLength + m_dataLeft = size[m_data]

\* The transfers, seen from Paho, are what FramedStream promises.
Stream == INSTANCE FramedStream WITH
    busy    <- m_dataTransProcess,
    current <- m_data,
    at      <- IF m_data = 0 THEN 0 ELSE size[m_data] - m_dataLeft,
    stream  <- accepted

StreamSpec == Stream!StreamSpec

\* The packets of the frame of a capture: header, payloads that cover it, finish.
Chunks(i)       == {c \in 0..size[i] : c * PacketLength < size[i]}
ChunkOf(i, c)   == Payload(i, c * PacketLength, ChunkLength(size[i] - c * PacketLength))
FramePackets(i) == {Header(i), Finish(i)} \cup {ChunkOf(i, c) : c \in Chunks(i)}

\* A capture no packet of which was refused arrives whole: the broker receives
\* nothing of it but its frame, and whatever it receives, all that comes before
\* in the frame is there.  With the finish, it has it all; what a reconnection
\* sends again only repeats packets.
DeliveredWhole ==
    \A i \in Captures \ damaged, k \in 1..Len(got) : got[k].of = i =>
        /\ got[k] \in FramePackets(i)
        /\ \A p \in FramePackets(i) :
              Place(size, p) < Place(size, got[k]) => \E j \in 1..(k - 1) : got[j] = p

\* The transfer of a capture that has bytes ends, across losses of the connection
\* and whatever is refused on the way.
TransfersEnd == (m_dataTransProcess /\ size[m_data] > 0) ~> ~m_dataTransProcess

\* What the guard of sendImage, sendVideo and sendSound takes for granted: an
\* active sending process, of any capture, is one that ends.
EveryTransferEnds == m_dataTransProcess ~> ~m_dataTransProcess

=============================================================================
