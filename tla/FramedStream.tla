---------------------------- MODULE FramedStream ----------------------------
(***************************************************************************)
(* What WiCamMQTTClient's data transfer promises to a subscriber of the    *)
(* image, video and sound topics, without connection, callbacks or queues: *)
(* captures are framed one at a time as a header, the payloads in order    *)
(* and a finish, and any packet may be missing from the stream.            *)
(***************************************************************************)
EXTENDS Framing

VARIABLES
    size,       \* the bytes of each capture
    busy,       \* a capture is being framed
    current,    \* that capture, or the last one framed; 0 before the first
    at,         \* the bytes of it already framed
    stream      \* the packets handed to the broker's connection

streamVars == <<size, busy, current, at, stream>>

\* The stream after sending p: p may be lost.
Sent(s, p) == {s, Append(s, p)}

-----------------------------------------------------------------------------

InitStream ==
    /\ size \in [Captures -> Sizes]
    /\ busy = FALSE /\ current = 0 /\ at = 0
    /\ stream = <<>>

\* Captures are framed in the order they were made; some are never framed.
Start(i) ==
    /\ ~busy /\ current < i
    /\ busy' = TRUE /\ current' = i /\ at' = 0
    /\ stream' \in Sent(stream, Header(i))
    /\ UNCHANGED size

Chunk ==
    /\ busy /\ at < size[current]
    /\ LET n == ChunkLength(size[current] - at) IN
       /\ at' = at + n
       /\ stream' \in Sent(stream, Payload(current, at, n))
    /\ UNCHANGED <<size, busy, current>>

End ==
    /\ busy /\ at = size[current]
    /\ busy' = FALSE
    /\ stream' \in Sent(stream, Finish(current))
    /\ UNCHANGED <<size, current, at>>

NextStream == (\E i \in Captures : Start(i)) \/ Chunk \/ End

StreamSpec == InitStream /\ [][NextStream]_streamVars

-----------------------------------------------------------------------------

\* Every variable keeps its type.
StreamTypeOK ==
    /\ size \in [Captures -> Sizes]
    /\ busy \in BOOLEAN
    /\ current \in Captures \cup {0}
    /\ at \in Nat
    /\ stream \in Seq(Packets)

\* Transfers never interleave and no packet of one is repeated or overtakes
\* another.
StreamOrdered == Ordered(size, stream)

=============================================================================
