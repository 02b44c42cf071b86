---------------------------- MODULE HttpRequest ----------------------------
(***************************************************************************)
(* HttpRequest: how the bytes of a connection become a request.            *)
(*                                                                         *)
(* The client's bytes are a sequence of items: lines, each a text ended by *)
(* CR LF, and bodies.  The socket delivers them in pieces of any size.     *)
(* What a line says is its kind; which bytes of which item the parser has  *)
(* in hand is kept exactly, as positions in the stream, because line       *)
(* breaks cut by a delivery and the size counters depend on it.            *)
(***************************************************************************)
EXTENDS Integers, Sequences

CONSTANTS
    Wires,              \* the streams of items clients may send, in a sequence
    MaxSize,            \* setting maxRequestSize
    MaxMultiPartSize,   \* setting maxMultiPartSize
    Block,              \* a multipart body is copied in blocks of 65536 bytes
    IntBound            \* an int lies in -IntBound .. IntBound - 1

ASSUME SizesAssumption ==
    /\ MaxSize \in Nat \ {0} /\ MaxMultiPartSize \in Nat \ {0}
    /\ Block \in Nat \ {0} /\ IntBound \in Nat \ {0}

\* An item has a size, and a number where its text stands for one.
ASSUME WiresAssumption == Wires \in Seq(Seq([kind : STRING, text : Nat, value : Int]))

VARIABLES
    client,             \* the client of the connection: it sends Wires[client]
    arrived,            \* bytes the socket has delivered
    pos,                \* bytes the parser has taken
    lineStart,          \* lineBuffer holds the bytes lineStart + 1 .. pos
    status,             \* "none" without a currentRequest, else RequestStatus
    currentSize,
    expectedBodySize,
    boundary,           \* a multipart boundary was found
    headers,            \* the items taken as headers
    bodyStart,          \* where the body began
    bodySize,           \* bytes of bodyData, or of the temporary file
    brokenLineEnd       \* history: a CR was read apart from its LF

requestVars ==
    <<lineStart, status, currentSize, expectedBodySize, boundary, headers, bodyStart, bodySize>>
parserVars == <<pos, requestVars, brokenLineEnd>>

-----------------------------------------------------------------------------
(* The stream.                                                             *)

Size(item) == IF item.kind = "body" THEN item.text ELSE item.text + 2

\* The number of bytes of the first i items of every stream, and the item every
\* byte belongs to.
EndsOf == [c \in 1 .. Len(Wires) |->
    LET end[i \in 0 .. Len(Wires[c])] ==
            IF i = 0 THEN 0 ELSE end[i - 1] + Size(Wires[c][i])
    IN  end]

ItemOf == [c \in 1 .. Len(Wires) |->
    [p \in 1 .. EndsOf[c][Len(Wires[c])] |->
        CHOOSE i \in 1 .. Len(Wires[c]) : EndsOf[c][i - 1] < p /\ p <= EndsOf[c][i]]]

wire    == Wires[client]
Ends    == EndsOf[client]
Total   == Ends[Len(wire)]
Item(p) == ItemOf[client][p]

IsLF(p)   == wire[Item(p)].kind # "body" /\ p = Ends[Item(p)]
IsCR(p)   == wire[Item(p)].kind # "body" /\ p = Ends[Item(p)] - 1
IsText(p) == ~IsLF(p) /\ ~IsCR(p)

Least(S) == CHOOSE n \in S : \A m \in S : n <= m

Available == arrived - pos

\* QIODevice::readLine(max): up to the next LF, what has arrived, or max.
ReadLineEnd(max) ==
    Least({arrived, pos + max} \cup {p \in pos + 1 .. arrived : IsLF(p)})

\* The line the bytes from + 1 .. to make: an item, a blank, or a fragment of
\* an item, which no reader can take for that item.
LineOf(from, to) ==
    LET text == {p \in from + 1 .. to : IsText(p)} IN
    IF text = {} THEN [kind |-> "blank", item |-> 0]
    ELSE LET i == Item(Least(text)) IN
         IF from = Ends[i - 1] THEN [kind |-> wire[i].kind, item |-> i]
                               ELSE [kind |-> "fragment", item |-> i]

HasBreak(from, to) == \E p \in from + 1 .. to : ~IsText(p)

Wrap(n) == ((n + IntBound) % (2 * IntBound)) - IntBound

-----------------------------------------------------------------------------
(* The parser.                                                             *)

\* new HttpRequest
FreshRequest ==
    /\ status' = "waitForRequest"
    /\ lineStart' = pos /\ currentSize' = 0 /\ expectedBodySize' = 0
    /\ boundary' = FALSE /\ headers' = <<>>
    /\ bodyStart' = 0 /\ bodySize' = 0

\* Mutant: a body is measured by what its headers declared only.
SettlesByHeaders(newStatus, size, multipart) ==
    LET limit == IF multipart THEN MaxMultiPartSize ELSE MaxSize IN
    status' = IF size > limit /\ newStatus \in {"waitForRequest", "waitForHeader"}
              THEN "abort" ELSE newStatus

\* The end of readFromSocket: too many bytes abort whatever came before.
Settles(newStatus, size, multipart) ==
    LET limit == IF multipart THEN MaxMultiPartSize ELSE MaxSize IN
    status' = IF size > limit THEN "abort" ELSE newStatus

\* The common part of readRequest and readHeader: the line grows by what
\* readLine gives, and its whole length is added to currentSize each time.
LineTo == ReadLineEnd(MaxSize - currentSize + 1)
Counted == currentSize + (LineTo - lineStart)

\* Mutant: lineBuffer is cleared on every call.
TakeLineForgetting ==
    /\ pos' = LineTo
    /\ currentSize' = Counted
    /\ lineStart' = LineTo
    /\ brokenLineEnd' = (brokenLineEnd \/ IsCR(LineTo))

TakeLine ==
    /\ pos' = LineTo
    /\ currentSize' = Counted
    /\ lineStart' = IF HasBreak(lineStart, LineTo) THEN LineTo ELSE lineStart
    /\ brokenLineEnd' = (brokenLineEnd \/ IsCR(LineTo))

\* "collecting more parts until line break"
Collecting == ~HasBreak(lineStart, LineTo)

ReadRequest ==
    /\ status = "waitForRequest" /\ Available > 0
    /\ TakeLine
    /\ LET line == LineOf(lineStart, LineTo).kind IN
        Settles(IF Collecting \/ line = "blank" THEN status
                ELSE IF line = "request" THEN "waitForHeader" ELSE "abort",
                Counted, boundary)
    /\ UNCHANGED <<expectedBodySize, boundary, headers, bodyStart, bodySize>>

HeaderKinds == {"header", "length", "multipart", "close", "cookie"}

\* A header, or one more line of the last one.
HeaderLine(line) ==
    /\ ~Collecting /\ line.kind # "blank"
    /\ headers' = IF line.kind \in HeaderKinds THEN Append(headers, line.item) ELSE headers
    /\ Settles(status, Counted, boundary)
    /\ UNCHANGED <<expectedBodySize, boundary, bodyStart, bodySize>>

HasHeader(kind) == \E i \in 1 .. Len(headers) : wire[headers[i]].kind = kind

\* QMultiMap::value: of the headers of one name the last counts.
IsLast(kind, i) ==
    /\ wire[headers[i]].kind = kind
    /\ \A k \in i + 1 .. Len(headers) : wire[headers[k]].kind # kind
LastHeader(kind) == headers[CHOOSE i \in 1 .. Len(headers) : IsLast(kind, i)]

\* One more line is appended to the value: what was a number is none then, and
\* what was "close" is some other word.
Continued(i) == i < Len(wire) /\ wire[i + 1].kind = "more"

\* toInt, 0 for what is no number.
ContentLength ==
    IF HasHeader("length") /\ ~Continued(LastHeader("length"))
    THEN wire[LastHeader("length")].value ELSE 0

\* The empty line: is there a body, and may it be that large?
HeadersComplete(line) ==
    /\ ~Collecting /\ line.kind = "blank"
    /\ expectedBodySize' = ContentLength
    /\ boundary' = HasHeader("multipart")
    /\ Settles(IF expectedBodySize' = 0 THEN "complete"
               ELSE IF ~boundary' /\ Wrap(expectedBodySize' + Counted) > MaxSize THEN "abort"
               ELSE IF boundary' /\ expectedBodySize' > MaxMultiPartSize THEN "abort"
               ELSE "waitForBody",
               Counted, boundary')
    /\ bodyStart' = LineTo
    /\ UNCHANGED <<headers, bodySize>>

ReadHeader ==
    /\ status = "waitForHeader" /\ Available > 0
    /\ TakeLine
    /\ LET line == LineOf(lineStart, LineTo) IN
        \/ HeaderLine(line)
        \/ HeadersComplete(line)
        \/ /\ Collecting
           /\ Settles(status, Counted, boundary)
           /\ UNCHANGED <<expectedBodySize, boundary, headers, bodyStart, bodySize>>

\* QIODevice::read: at most n bytes, none for a negative n.
ReadCount(n) == IF n < 0 THEN 0 ELSE Least({n, Available})

\* Mutant: a body is complete one byte late.
ReadBodyLate ==
    /\ status = "waitForBody" /\ ~boundary /\ Available > 0
    /\ LET n == ReadCount(expectedBodySize - bodySize) IN
        /\ pos' = pos + n /\ lineStart' = pos + n
        /\ currentSize' = currentSize + n
        /\ bodySize' = bodySize + n
        /\ Settles(IF bodySize + n > expectedBodySize THEN "complete" ELSE status,
                   currentSize + n, boundary)
    /\ UNCHANGED <<expectedBodySize, boundary, headers, bodyStart, brokenLineEnd>>

ReadBody ==
    /\ status = "waitForBody" /\ ~boundary /\ Available > 0
    /\ LET n == ReadCount(expectedBodySize - bodySize) IN
        /\ pos' = pos + n /\ lineStart' = pos + n
        /\ currentSize' = currentSize + n
        /\ bodySize' = bodySize + n
        /\ Settles(IF bodySize + n >= expectedBodySize THEN "complete" ELSE status,
                   currentSize + n, boundary)
    /\ UNCHANGED <<expectedBodySize, boundary, headers, bodyStart, brokenLineEnd>>

\* The bytes of the form fields, which parseMultiPartFile counts once more.
FieldBytes == wire[Item(bodyStart + 1)].value

\* A multipart body goes to a temporary file, a block at a time, and is parsed
\* from there.
ReadMultiPart ==
    /\ status = "waitForBody" /\ boundary /\ Available > 0
    /\ LET n == ReadCount(Least({expectedBodySize - bodySize, Block}))
           size == bodySize + n
           done == size < MaxMultiPartSize /\ size >= expectedBodySize
           counted == IF done THEN currentSize + FieldBytes ELSE currentSize
       IN  /\ pos' = pos + n /\ lineStart' = pos + n
           /\ bodySize' = size
           /\ currentSize' = counted
           /\ Settles(IF size >= MaxMultiPartSize THEN "abort"
                      ELSE IF done THEN "complete" ELSE status,
                      counted, boundary)
    /\ UNCHANGED <<expectedBodySize, boundary, headers, bodyStart, brokenLineEnd>>

\* One call of readFromSocket.
ReadFromSocket == ReadRequest \/ ReadHeader \/ ReadBody \/ ReadMultiPart

=============================================================================
