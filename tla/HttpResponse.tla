---------------------------- MODULE HttpResponse ---------------------------
(***************************************************************************)
(* HttpResponse: what a request handler's writes put on the connection.    *)
(* The bytes of a response are abstracted to their number, the headers to  *)
(* those that tell a client where the response ends.                       *)
(***************************************************************************)
EXTENDS Naturals

VARIABLES
    sentHeaders,
    sentLastPart,
    chunkedMode,
    closeHeader,    \* the name under which "close" was set: "Connection",
                    \* "connection", or "none"
    contentLength,  \* value of the Content-Length header
    hasLength,      \* the header is there
    bodySent,       \* bytes of body on the wire
    terminated      \* the empty chunk is on the wire

responseVars ==
    <<sentHeaders, sentLastPart, chunkedMode, closeHeader, contentLength, hasLength,
      bodySent, terminated>>

\* The constructor, with the header the connection handler sets at once.
FreshResponse(close) ==
    /\ sentHeaders' = FALSE /\ sentLastPart' = FALSE /\ chunkedMode' = FALSE
    /\ closeHeader' = close
    /\ contentLength' = 0 /\ hasLength' = FALSE
    /\ bodySent' = 0 /\ terminated' = FALSE

\* setHeader, for the one header a request handler sets here: the program's own
\* handlers set none of Connection, Content-Length and Transfer-Encoding, and what
\* a Content-Length of the handler's own would promise is the handler's affair.
SetCloseHeader(name) ==
    /\ ~sentHeaders /\ closeHeader = "none"
    /\ closeHeader' = name
    /\ UNCHANGED <<sentHeaders, sentLastPart, chunkedMode, contentLength, hasLength,
                   bodySent, terminated>>

\* The first write chooses: one single part has a Content-Length, and a
\* response that will not close the connection is chunked.
UsesChunks(lastPart) ==
    IF sentHeaders THEN chunkedMode ELSE ~lastPart /\ closeHeader = "none"

\* write(data, lastPart) of size bytes.
Write(size, lastPart) ==
    /\ ~sentLastPart
    /\ chunkedMode' = UsesChunks(lastPart)
    /\ hasLength' = (hasLength \/ (~sentHeaders /\ lastPart))
    /\ contentLength' = IF ~sentHeaders /\ lastPart THEN size ELSE contentLength
    /\ sentHeaders' = TRUE
    /\ bodySent' = bodySent + size
    /\ terminated' = (lastPart /\ chunkedMode')
    /\ sentLastPart' = lastPart
    /\ UNCHANGED closeHeader

\* What a client needs to find the end of a response on a connection that
\* stays open.
Delimited ==
    \/ hasLength /\ contentLength = bodySent /\ ~chunkedMode
    \/ chunkedMode /\ terminated

=============================================================================
