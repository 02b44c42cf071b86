---------------------------- MODULE HttpExchange ---------------------------
(***************************************************************************)
(* One connection from its first byte to its end: the loop of              *)
(* HttpConnectionHandler::read() over the requests of the connection, with *)
(* the request parser and the response writer it uses.                     *)
(*                                                                         *)
(* The request handler is any program: it writes parts, may ask to close,  *)
(* returns or throws.  The read timer and the pool are in HttpServer.      *)
(***************************************************************************)
EXTENDS HttpRequest, HttpResponse

CONSTANT
    MaxWrites   \* bound of the model: parts a request handler writes

ASSUME MaxWritesAssumption == MaxWrites \in Nat

VARIABLES
    place,      \* where read() is
    writes,     \* parts the request handler has written
    answered,   \* the number of responses finished
    served      \* history: where in the stream the last request ended

vars == <<client, arrived, parserVars, responseVars, place, writes, answered, served>>

Places == {"waiting", "reading", "service", "closed"}

Init ==
    /\ client \in 1 .. Len(Wires)
    /\ arrived = 0 /\ pos = 0 /\ lineStart = 0
    /\ status = "none" /\ currentSize = 0 /\ expectedBodySize = 0
    /\ boundary = FALSE /\ headers = <<>> /\ bodyStart = 0 /\ bodySize = 0
    /\ brokenLineEnd = FALSE
    /\ sentHeaders = FALSE /\ sentLastPart = FALSE /\ chunkedMode = FALSE
    /\ closeHeader = "none" /\ contentLength = 0 /\ hasLength = FALSE
    /\ bodySent = 0 /\ terminated = FALSE
    /\ place = "waiting" /\ writes = 0 /\ answered = 0 /\ served = 0

\* The socket delivers some more bytes.
Deliver(n) ==
    /\ place # "closed" /\ arrived + n <= Total
    /\ arrived' = arrived + n
    /\ UNCHANGED <<client, parserVars, responseVars, place, writes, answered, served>>

-----------------------------------------------------------------------------
(* read().                                                                 *)

\* readyRead, or the next turn of the outer loop.
BeginRead ==
    /\ place = "waiting" /\ Available > 0
    /\ place' = "reading"
    /\ IF status = "none" THEN FreshRequest ELSE UNCHANGED requestVars
    /\ UNCHANGED <<client, arrived, pos, brokenLineEnd, responseVars, writes, answered, served>>

Collect ==
    /\ place = "reading"
    /\ ReadFromSocket
    /\ UNCHANGED <<client, arrived, responseVars, place, writes, answered, served>>

\* All that has arrived is read and the request is not complete.
WaitForMore ==
    /\ place = "reading" /\ Available = 0 /\ status \notin {"complete", "abort"}
    /\ place' = "waiting"
    /\ UNCHANGED <<client, arrived, parserVars, responseVars, writes, answered, served>>

\* 413, and the connection is closed.
RejectRequest ==
    /\ place = "reading" /\ status = "abort"
    /\ place' = "closed" /\ status' = "none"
    /\ answered' = answered + 1
    /\ UNCHANGED <<client, arrived, pos, lineStart, currentSize, expectedBodySize, boundary,
                   headers, bodyStart, bodySize, brokenLineEnd, responseVars, writes, served>>

\* The last line of the request: HTTP/1.0 for the items with value 10.
Http10 == \E i \in 1 .. Len(wire) :
            wire[i].kind = "request" /\ wire[i].value = 10 /\ Ends[i] > served /\ Ends[i] <= pos
CloseRequested == (HasHeader("close") /\ ~Continued(LastHeader("close"))) \/ Http10

Serve ==
    /\ place = "reading" /\ status = "complete"
    /\ place' = "service" /\ writes' = 0
    /\ FreshResponse(IF CloseRequested THEN "Connection" ELSE "none")
    /\ UNCHANGED <<client, arrived, parserVars, answered, served>>

\* The request handler.
ServiceAsksToClose(name) ==
    /\ place = "service"
    /\ SetCloseHeader(name)
    /\ UNCHANGED <<client, arrived, parserVars, place, writes, answered, served>>

ServiceWrites(size, lastPart) ==
    /\ place = "service" /\ writes < MaxWrites
    /\ Write(size, lastPart)
    /\ writes' = writes + 1
    /\ UNCHANGED <<client, arrived, parserVars, place, answered, served>>

\* The rules of lines 244 to 267 for a response that is complete: headers are
\* looked up as the response left them.
Closes ==
    \/ CloseRequested \/ closeHeader' = "Connection"
    \/ ~hasLength' /\ ~chunkedMode'

\* Mutant: a handler that throws leaves its response as it is.
FinishUnfinished ==
    /\ place = "service"
    /\ UNCHANGED responseVars
    /\ place' = IF Closes THEN "closed" ELSE "waiting"
    /\ status' = "none"
    /\ answered' = answered + 1 /\ served' = pos
    /\ UNCHANGED <<client, arrived, pos, lineStart, currentSize, expectedBodySize, boundary,
                   headers, bodyStart, bodySize, brokenLineEnd, writes>>

\* service returns or throws at any point.  What it has not finished is
\* finished by an empty last part, then the connection is closed or kept, and
\* the request is deleted.
Finish ==
    /\ place = "service"
    /\ IF sentLastPart THEN UNCHANGED responseVars ELSE Write(0, TRUE)
    /\ place' = IF Closes THEN "closed" ELSE "waiting"
    /\ status' = "none"
    /\ answered' = answered + 1 /\ served' = pos
    /\ UNCHANGED <<client, arrived, pos, lineStart, currentSize, expectedBodySize, boundary,
                   headers, bodyStart, bodySize, brokenLineEnd, writes>>

Read ==
    \/ BeginRead \/ Collect \/ WaitForMore \/ RejectRequest \/ Serve
    \/ \E name \in {"Connection", "connection"} : ServiceAsksToClose(name)
    \/ \E size \in 0 .. 1, lastPart \in BOOLEAN : ServiceWrites(size, lastPart)
    \/ Finish

Next == Read \/ \E n \in 1 .. Total : Deliver(n)

Spec == Init /\ [][Next]_vars

-----------------------------------------------------------------------------

\* Every variable keeps its type; the parser is never ahead of the socket.
TypeOK ==
    /\ client \in 1 .. Len(Wires)
    /\ arrived \in 0 .. Total /\ pos \in 0 .. arrived
    /\ lineStart \in 0 .. pos /\ bodyStart \in 0 .. pos /\ served \in 0 .. pos
    /\ status \in {"none", "waitForRequest", "waitForHeader", "waitForBody", "complete", "abort"}
    /\ currentSize \in Int /\ expectedBodySize \in Int /\ bodySize \in Nat
    /\ boundary \in BOOLEAN /\ brokenLineEnd \in BOOLEAN
    /\ headers \in Seq(1 .. Len(wire))
    /\ sentHeaders \in BOOLEAN /\ sentLastPart \in BOOLEAN /\ chunkedMode \in BOOLEAN
    /\ hasLength \in BOOLEAN /\ terminated \in BOOLEAN
    /\ closeHeader \in {"Connection", "connection", "none"}
    /\ contentLength \in Nat /\ bodySent \in Nat
    /\ place \in Places /\ writes \in 0 .. MaxWrites /\ answered \in Nat

\* Where the requests of the stream end: before a request line, and at the end.
RequestEnds == {Ends[i] : i \in {j \in 1 .. Len(wire) :
                    \/ j = Len(wire)
                    \/ j > 1 /\ wire[j + 1].kind \in {"request", "broken"}}}

\* The items of the request that begins after byte p.
ItemsAfter(p) ==
    {i \in 1 .. Len(wire) : Ends[i] > p /\ \A e \in RequestEnds : e > p => Ends[i] <= e}

\* The lines between a request's first and its blank one, and the lines a
\* request may begin with.
LineKinds == HeaderKinds \cup {"more"}
Starts    == {"request", "broken"}

\* In the stream w item i is followed by one of these kinds.
Followed(w, i, kinds) == i < Len(w) /\ w[i + 1].kind \in kinds

\* In the stream w a request line at r has its blank line at b.
IsRequest(w, r, b) ==
    /\ r \in 1 .. Len(w) /\ b \in r + 1 .. Len(w)
    /\ w[r].kind = "request" /\ w[b].kind = "blank"
    /\ \A j \in r + 1 .. b - 1 : w[j].kind \in LineKinds

\* The client means the Content-Length of the request from r to its blank line
\* at b: it is the size of the body that follows, on one line, and without a
\* body it is no positive number.
TellsLength(w, r, b) ==
    LET lengths == {j \in r + 1 .. b - 1 : w[j].kind = "length"} IN
    IF Followed(w, b, {"body"})
    THEN lengths # {} /\ \A j \in lengths :
            w[j].value = w[b + 1].text /\ ~Followed(w, j, {"more"})
    ELSE \A j \in lengths : w[j].value <= 0

\* The stream w is one of whole requests: after an empty line, maybe, each is a
\* request line, headers, a blank line, and the body its length tells.  A line
\* that begins no request may have anything after it.
WholeRequests(w) ==
    /\ \A i \in 1 .. Len(w) :
        /\ w[i].kind = "blank" <=> w[i].text = 0
        /\ w[i].kind \in LineKinds \cup {"request"} => Followed(w, i, LineKinds \cup {"blank"})
        /\ w[i].kind = "blank" => i = Len(w) \/ Followed(w, i, Starts \cup {"body"})
        /\ w[i].kind = "body" => i = Len(w) \/ Followed(w, i, Starts)
        /\ i = 1 => w[1].kind \in Starts \/ (w[1].kind = "blank" /\ Followed(w, 1, Starts))
    /\ \A r, b \in 1 .. Len(w) : IsRequest(w, r, b) => TellsLength(w, r, b)

\* However the bytes are cut into deliveries, as long as no cut falls between
\* a CR and its LF, a request that is served is one the client sent: it ends
\* where the client's ends, with all its headers and its whole body.
ServedAsSent ==
    place = "service" /\ ~brokenLineEnd =>
        LET items == ItemsAfter(served) IN
        /\ pos \in RequestEnds
        /\ {headers[i] : i \in 1 .. Len(headers)} = {i \in items : wire[i].kind \in HeaderKinds}
        /\ \A i \in items : wire[i].kind = "body" => bodyStart = Ends[i - 1]

\* A request that is served fits the limits, counted in the bytes it really
\* has, whatever its Content-Length said.
ServedFits ==
    place = "service" =>
        /\ ~boundary => pos - served <= MaxSize
        /\ boundary => bodySize < MaxMultiPartSize

\* After a response on a connection that stays open the client knows where the
\* response ended, whatever the request handler wrote, and wherever it threw.
ResponseDelimited == place = "waiting" /\ answered > 0 => Delimited

\* The items of the last request declare the body they have.
HonestLength ==
    \A i \in ItemsAfter(served) : wire[i].kind = "length" =>
        \E j \in ItemsAfter(served) : wire[j].kind = "body" /\ wire[j].text = wire[i].value

\* Every request that has arrived whole, with the length of its body, is served
\* or rejected before the handler waits for the client again; only a line end
\* cut in two leaves the server waiting for what has come already.
WholeRequestsAnswered ==
    place = "waiting" /\ pos \in RequestEnds /\ pos > served /\ ~brokenLineEnd =>
        ~HonestLength

=============================================================================
