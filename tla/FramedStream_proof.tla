------------------------- MODULE FramedStream_proof -------------------------
(***************************************************************************)
(* The order FramedStream promises, for any captures, sizes and packet     *)
(* length.                                                                 *)
(***************************************************************************)
EXTENDS FramedStream, TLAPS

\* A chunk is not empty and no longer than what is left (ChunkLength).
LEMMA ChunkLengthBounds ==
    ASSUME NEW left \in Nat, left > 0
    PROVE  ChunkLength(left) \in 1..left
  BY PacketLengthAssumption DEF ChunkLength

\* A packet that comes after all of an ordered stream keeps it ordered.
LEMMA AppendOrdered ==
    ASSUME NEW S, NEW s \in Seq(S), NEW p \in S, NEW sizes, Ordered(sizes, s),
           \A k \in 1..Len(s) : Before(sizes, s[k], p)
    PROVE  Ordered(sizes, Append(s, p))
  BY DEF Ordered

\* The packets of a capture are packets, and stand where they should (Place).
LEMMA HeaderPlace ==
    ASSUME NEW i \in Captures, NEW sizes
    PROVE  Header(i) \in Packets /\ Header(i).of = i /\ Place(sizes, Header(i)) = 0
  BY DEF Header, Packets, Place

\* A payload stands at its first byte.
LEMMA PayloadPlace ==
    ASSUME NEW i \in Captures, NEW b \in Nat, NEW n \in Nat, NEW sizes
    PROVE  /\ Payload(i, b, n) \in Packets /\ Payload(i, b, n).of = i
           /\ Place(sizes, Payload(i, b, n)) = 1 + b
  BY DEF Payload, Packets, Place

\* The finish stands after the last byte.
LEMMA FinishPlace ==
    ASSUME NEW i \in Captures, NEW sizes
    PROVE  /\ Finish(i) \in Packets /\ Finish(i).of = i
           /\ Place(sizes, Finish(i)) = 1 + sizes[i]
  BY DEF Finish, Packets, Place

\* Every packet stands somewhere.
LEMMA PlaceIsNat ==
    ASSUME NEW sizes \in [Captures -> Nat], NEW p \in Packets
    PROVE  Place(sizes, p) \in Nat
<1>1. p.of \in Captures /\ p.from \in Nat /\ sizes[p.of] \in Nat
  BY DEF Packets
<1>2. p.type \in {"DATA_HEADER", "DATA_PAYLOAD", "DATA_FINISH"}
  BY DEF Packets
<1> QED
  BY <1>1, <1>2 DEF Place

\* Every packet in the stream belongs to the current capture or an earlier one,
\* and those of a capture still open (which is some capture) stand before the next byte to frame.
StreamBehind ==
    /\ busy => current # 0
    /\ \A k \in 1..Len(stream) :
          /\ stream[k].of <= current
          /\ busy /\ stream[k].of = current => Place(size, stream[k]) < 1 + at

\* Sending p, which stands after the whole stream, keeps the stream well typed
\* and ordered; every packet in it is an old one or p.
LEMMA SendOne ==
    ASSUME StreamTypeOK, StreamOrdered, NEW p \in Packets, stream' \in Sent(stream, p),
           \A k \in 1..Len(stream) : Before(size, stream[k], p)
    PROVE  /\ stream' \in Seq(Packets)
           /\ Ordered(size, stream')
           /\ \A k \in 1..Len(stream') :
                 (\E j \in 1..Len(stream) : stream'[k] = stream[j]) \/ stream'[k] = p
<1>1. stream \in Seq(Packets) /\ Ordered(size, stream)
  BY DEF StreamTypeOK, StreamOrdered
<1>2. CASE stream' = stream
  BY <1>1, <1>2
<1>3. CASE stream' = Append(stream, p)
  BY <1>1, <1>3, AppendOrdered
<1> QED
  BY <1>2, <1>3 DEF Sent

\* Any two captures' packets in the stream are in order and none is repeated:
\* the stream StreamSpec produces is a framing of one capture after the other.
THEOREM StreamOrderedAlways == StreamSpec => [](StreamTypeOK /\ StreamOrdered)
<1> DEFINE Inv == StreamTypeOK /\ StreamOrdered /\ StreamBehind
<1>1. InitStream => Inv
  <2>1. SUFFICES ASSUME InitStream PROVE Inv
    OBVIOUS
  <2>2. Len(stream) = 0 /\ stream \in Seq(Packets)
    BY <2>1 DEF InitStream
  <2>3. StreamTypeOK
    BY <2>1, <2>2 DEF InitStream, StreamTypeOK
  <2>4. StreamOrdered /\ StreamBehind
    BY <2>1, <2>2 DEF InitStream, StreamOrdered, StreamBehind, Ordered
  <2> QED
    BY <2>3, <2>4
<1>2. ASSUME Inv, [NextStream]_streamVars PROVE Inv'
  <2>0. /\ size \in [Captures -> Sizes] /\ busy \in BOOLEAN
        /\ current \in Nat /\ at \in Nat /\ stream \in Seq(Packets)
        /\ \A k \in 1..Len(stream) : stream[k] \in Packets /\ stream[k].of \in Nat
    <3>1. Captures \subseteq Nat
      BY MaxCapturesAssumption DEF Captures
    <3>2. stream \in Seq(Packets) /\ (\A k \in 1..Len(stream) : stream[k] \in Packets)
      BY <1>2 DEF StreamTypeOK
    <3>3. \A p \in Packets : p.of \in Captures
      BY DEF Packets
    <3>4. \A k \in 1..Len(stream) : stream[k].of \in Nat
      BY <3>1, <3>2, <3>3
    <3>5. current \in Nat
      BY <1>2, <3>1 DEF StreamTypeOK
    <3> QED
      BY <1>2, <3>2, <3>4, <3>5 DEF StreamTypeOK
  <2>1. ASSUME NEW i \in Captures, Start(i) PROVE Inv'
    <3>1. i \in Nat /\ current < i /\ i # 0
      BY <2>1, MaxCapturesAssumption DEF Captures, Start
    <3>2. \A k \in 1..Len(stream) : stream[k].of < i
      BY <1>2, <2>0, <3>1 DEF StreamBehind
    <3>3. \A k \in 1..Len(stream) : Before(size, stream[k], Header(i))
      BY <3>2, HeaderPlace DEF Before
    <3>4. /\ stream' \in Seq(Packets) /\ Ordered(size, stream')
          /\ \A k \in 1..Len(stream') :
                (\E j \in 1..Len(stream) : stream'[k] = stream[j]) \/ stream'[k] = Header(i)
      BY <1>2, <2>1, <3>3, SendOne, HeaderPlace DEF Start
    <3>5. StreamBehind'
      <4>1. SUFFICES ASSUME NEW k \in 1..Len(stream')
                     PROVE  stream'[k].of <= i /\ (stream'[k].of = i => Place(size, stream'[k]) < 1)
        BY <2>1, <3>1 DEF Start, StreamBehind
      <4>2. CASE stream'[k] = Header(i)
        BY <3>1, <4>2, HeaderPlace
      <4>3. CASE \E j \in 1..Len(stream) : stream'[k] = stream[j]
        BY <2>0, <3>1, <3>2, <4>3
      <4> QED
        BY <3>4, <4>2, <4>3
    <3> QED
      BY <2>0, <2>1, <3>4, <3>5 DEF Start, StreamTypeOK, StreamOrdered
  <2>2. ASSUME Chunk PROVE Inv'
    <3> DEFINE n == ChunkLength(size[current] - at)
    <3>1. current \in Captures /\ size[current] \in Nat
      BY <1>2, <2>0, <2>2, SizesAssumption DEF Chunk, StreamTypeOK, StreamBehind
    <3>2. n \in Nat /\ n > 0
      <4>1. size[current] - at \in Nat /\ size[current] - at > 0
        BY <2>0, <2>2, <3>1 DEF Chunk
      <4> QED
        BY <4>1, ChunkLengthBounds
    <3> HIDE DEF n
    <3>3. \A k \in 1..Len(stream) : Before(size, stream[k], Payload(current, at, n))
      BY <1>2, <2>0, <2>2, <3>1, <3>2, PayloadPlace DEF Before, StreamBehind, Chunk
    <3>4. stream' \in Sent(stream, Payload(current, at, n)) /\ at' = at + n
          /\ UNCHANGED <<size, busy, current>> /\ busy
      BY <2>2 DEF Chunk, n
    <3>5. /\ stream' \in Seq(Packets) /\ Ordered(size, stream')
          /\ \A k \in 1..Len(stream') :
                \/ \E j \in 1..Len(stream) : stream'[k] = stream[j]
                \/ stream'[k] = Payload(current, at, n)
      BY <1>2, <2>0, <3>1, <3>2, <3>3, <3>4, SendOne, PayloadPlace
    <3>6. StreamBehind'
      <4>1. SUFFICES ASSUME NEW k \in 1..Len(stream')
                     PROVE  /\ stream'[k].of <= current
                            /\ stream'[k].of = current => Place(size, stream'[k]) < 1 + (at + n)
        BY <1>2, <3>4 DEF StreamBehind
      <4>2. CASE stream'[k] = Payload(current, at, n)
        BY <2>0, <3>1, <3>2, <4>2, PayloadPlace
      <4>3. CASE \E j \in 1..Len(stream) : stream'[k] = stream[j]
        <5>1. PICK j \in 1..Len(stream) : stream'[k] = stream[j]
          BY <4>3
        <5>2. stream[j].of <= current /\ (stream[j].of = current => Place(size, stream[j]) < 1 + at)
          BY <1>2, <3>4 DEF StreamBehind
        <5>3. Place(size, stream[j]) \in Nat
          <6>1. size \in [Captures -> Nat] /\ stream[j] \in Packets
            BY <2>0, SizesAssumption
          <6> QED
            BY <6>1, PlaceIsNat
        <5> QED
          BY <2>0, <3>2, <5>1, <5>2, <5>3
      <4> QED
        BY <3>5, <4>2, <4>3
    <3> QED
      BY <1>2, <2>0, <3>2, <3>4, <3>5, <3>6 DEF StreamTypeOK, StreamOrdered
  <2>3. ASSUME End PROVE Inv'
    <3>1. current \in Captures /\ size[current] \in Nat
      BY <1>2, <2>0, <2>3, SizesAssumption DEF End, StreamTypeOK, StreamBehind
    <3>2. \A k \in 1..Len(stream) : Before(size, stream[k], Finish(current))
      BY <1>2, <2>0, <2>3, <3>1, FinishPlace DEF Before, StreamBehind, End
    <3>3. /\ stream' \in Seq(Packets) /\ Ordered(size, stream')
          /\ \A k \in 1..Len(stream') :
                (\E j \in 1..Len(stream) : stream'[k] = stream[j]) \/ stream'[k] = Finish(current)
      BY <1>2, <2>3, <3>1, <3>2, SendOne, FinishPlace DEF End
    <3>4. StreamBehind'
      <4>1. busy' = FALSE /\ current' = current /\ Finish(current).of = current
        BY <2>3 DEF End, Finish
      <4>2. \A j \in 1..Len(stream) : stream[j].of <= current
        BY <1>2 DEF StreamBehind
      <4>3. ASSUME NEW k \in 1..Len(stream') PROVE stream'[k].of <= current
        <5>1. CASE stream'[k] = Finish(current)
          BY <2>0, <4>1, <5>1
        <5>2. CASE \E j \in 1..Len(stream) : stream'[k] = stream[j]
          BY <4>2, <5>2
        <5> QED
          BY <3>3, <5>1, <5>2
      <4> QED
        BY <4>1, <4>3 DEF StreamBehind
    <3> QED
      BY <1>2, <2>3, <3>3, <3>4 DEF End, StreamTypeOK, StreamOrdered
  <2>4. CASE UNCHANGED streamVars
    BY <1>2, <2>4 DEF streamVars, StreamTypeOK, StreamOrdered, StreamBehind
  <2> QED
    BY <1>2, <2>1, <2>2, <2>3, <2>4 DEF NextStream
<1>3. Inv /\ [NextStream]_streamVars => Inv'
  BY <1>2
<1> QED
  BY <1>1, <1>3, PTL DEF StreamSpec

=============================================================================
