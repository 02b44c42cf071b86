------------------------------- MODULE Framing -------------------------------
(***************************************************************************)
(* The packets a capture is cut into: DATATRANS_MESSAGE_TYPE and the       *)
(* arithmetic of WiCamMQTTClient::dataSend and sendDataPayload.            *)
(***************************************************************************)
EXTENDS Integers, Sequences

CONSTANTS
    MaxCaptures,    \* bound of the model: captures made
    Sizes,          \* bound of the model: the bytes a capture may have
    PacketLength    \* MQTT_DATA_PACKET_LENGTH

ASSUME MaxCapturesAssumption  == MaxCaptures \in Nat
ASSUME SizesAssumption        == Sizes \subseteq Nat
ASSUME PacketLengthAssumption == PacketLength \in Nat \ {0}

Captures == 1..MaxCaptures

\* DATATRANS_MESSAGE_TYPE: of: the capture; from, len: the bytes of a payload.
Header(i)          == [type |-> "DATA_HEADER",  of |-> i, from |-> 0, len |-> 0]
Payload(i, b, n)   == [type |-> "DATA_PAYLOAD", of |-> i, from |-> b, len |-> n]
Finish(i)          == [type |-> "DATA_FINISH",  of |-> i, from |-> 0, len |-> 0]

Packets ==
    [type : {"DATA_HEADER", "DATA_PAYLOAD", "DATA_FINISH"},
     of : Captures, from : Nat, len : Nat]

\* Mutant: the final chunk is not cut short.
FullChunk(left) == PacketLength

\* The length of the chunk cut from what is left: care with the final one.
ChunkLength(left) == IF left < PacketLength THEN left ELSE PacketLength

\* Where a packet stands in the frame of its capture, given the sizes.
Place(sizes, p) ==
    CASE p.type = "DATA_HEADER"  -> 0
      [] p.type = "DATA_PAYLOAD" -> 1 + p.from
      [] p.type = "DATA_FINISH"  -> 1 + sizes[p.of]

Before(sizes, p, q) ==
    p.of < q.of \/ (p.of = q.of /\ Place(sizes, p) < Place(sizes, q))

\* Transfers never interleave, and within one no packet is repeated or
\* overtakes another: header, payloads in the order of their bytes, finish.
Ordered(sizes, s) ==
    \A j, k \in 1..Len(s) : j < k => Before(sizes, s[j], s[k])

=============================================================================
