--------------------------- MODULE HttpExchangeMC --------------------------
(***************************************************************************)
(* The streams of items that HttpExchange is checked with: texts and       *)
(* bodies of one to three bytes, one or two requests on a connection.      *)
(***************************************************************************)
EXTENDS HttpExchange

Line(kind, text)   == [kind |-> kind, text |-> text, value |-> 11]
Length(n)          == [kind |-> "length", text |-> 1, value |-> n]
Body(n, fields)    == [kind |-> "body", text |-> n, value |-> fields]
Blank              == Line("blank", 0)
Request            == Line("request", 1)
OldRequest         == [kind |-> "request", text |-> 1, value |-> 10]

Get       == <<Request, Line("header", 1), Blank>>
OldGet    == <<OldRequest, Blank>>
LastGet   == <<Request, Line("close", 1), Blank>>
Post      == <<Request, Length(2), Blank, Body(2, 0)>>
Upload(n) == <<Request, Line("multipart", 1), Length(n), Blank, Body(n, 1)>>

\* Two requests in a row, an HTTP/1.0 client, a client that closes, uploads
\* below, at and above the limit, lengths that are negative, too large, and so
\* large that the sum with the headers' size is not an int, a request line that
\* is none, headers that come twice, and headers continued on a second line.
MCWires ==
    <<Get \o Post, Post \o LastGet, OldGet, Upload(3), Upload(20), Upload(21), Upload(22),
     <<Request, Length(-2), Blank>> \o Get,
     <<Request, Length(12), Blank, Body(12, 0)>>,
     <<Request, Length(24), Blank, Body(24, 0)>>,
     <<Line("broken", 2)>> \o Get,
     <<Request, Length(-2), Length(0), Blank>>,
     <<Request, Length(-2), Line("more", 1), Line("close", 1), Line("more", 1), Blank>>,
     <<Line("blank", 0), Request, Line("header", 1), Line("more", 1), Blank>> >>

\* Each of them is a stream of whole requests.
ASSUME StreamsAreWhole == \A c \in 1 .. Len(Wires) : WholeRequests(Wires[c])

=============================================================================
