------------------------- MODULE HttpExchange_proof -------------------------
(***************************************************************************)
(* Proofs about the exchange: that a request which is served fits the       *)
(* limits (ServedFits), that a response on a connection that stays open can *)
(* be told from the next (ResponseDelimited), and that whole requests are   *)
(* answered, one after the other, as they were sent (ServedAsSent,          *)
(* WholeRequestsAnswered).                                                  *)
(*                                                                         *)
(* The first rests on what is counted never being less than what was read   *)
(* of the request: a line counts the whole of what lineBuffer holds each    *)
(* time it grows.  The last two rest on knowing, for each status, which     *)
(* items of the stream the parser has in hand (PartsInv).  The positions of *)
(* the items in the stream are given by a recursive function, whose values  *)
(* are found by least counterexample.                                       *)
(***************************************************************************)
EXTENDS HttpExchange, SequenceTheorems, WellFoundedInduction, TLAPS

USE SizesAssumption

-----------------------------------------------------------------------------
(* Least elements.                                                         *)

\* A set of naturals that is not empty has a least element.
LEMMA LeastOfNaturals ==
    ASSUME NEW S \in SUBSET Nat, S # {}
    PROVE  Least(S) \in S /\ \A n \in S : Least(S) <= n
<1> DEFINE Less == OpToRel(<, Nat)
<1>1. \A x, y \in Nat : y < x => <<y, x>> \in Less
  BY DEF OpToRel
<1>2. IsWellFoundedOn(Less, Nat)
  BY NatLessThanWellFounded
<1> HIDE DEF Less
<1>3. PICK x \in S : \A y \in S : ~(<<y, x>> \in Less)
  BY <1>2, WFMin
<1>4. ASSUME NEW y \in S PROVE x <= y
  <2>1. x \in Nat /\ y \in Nat
    OBVIOUS
  <2>2. ~(y < x)
    BY <1>1, <1>3, <2>1
  <2> QED BY <2>1, <2>2
<1> QED BY <1>4 DEF Least

\* The lesser of two numbers, which may be negative.
LEMMA LeastOfTwo ==
    ASSUME NEW a \in Int, NEW b \in Int
    PROVE  Least({a, b}) \in {a, b} /\ Least({a, b}) <= a /\ Least({a, b}) <= b
<1>1. \E n \in {a, b} : \A m \in {a, b} : n <= m
  BY a <= b \/ b <= a
<1> QED BY <1>1 DEF Least

-----------------------------------------------------------------------------
(* The stream.                                                             *)

\* A sequence of items, from the assumption on the streams.
LEMMA WireFacts ==
    ASSUME NEW c \in 1 .. Len(Wires)
    PROVE  /\ Len(Wires[c]) \in Nat
           /\ \A i \in 1 .. Len(Wires[c]) :
                Wires[c][i].text \in Nat /\ Wires[c][i].value \in Int /\ Size(Wires[c][i]) \in Nat
<1> DEFINE Items == [kind : STRING, text : Nat, value : Int]
<1>1. \A x \in Items : x.text \in Nat /\ x.value \in Int
  OBVIOUS
<1>2. Wires \in Seq(Seq(Items))
  BY WiresAssumption
<1> HIDE DEF Items
<1>3. Wires[c] \in Seq(Items)
  BY <1>2, ElementOfSeq
<1>4. Len(Wires[c]) \in Nat /\ \A i \in 1 .. Len(Wires[c]) : Wires[c][i] \in Items
  BY <1>3, ElementOfSeq
<1> QED BY <1>1, <1>4 DEF Size

\* Sums of the first k items of a stream, as a function.
Sums(c, k, f) ==
    /\ f \in [0 .. k -> Nat] /\ f[0] = 0
    /\ \A i \in 1 .. k : f[i] = f[i - 1] + Size(Wires[c][i])

\* There is such a function for every beginning of the stream.
LEMMA SumsExist ==
    ASSUME NEW c \in 1 .. Len(Wires), NEW k \in 0 .. Len(Wires[c])
    PROVE  \E f : Sums(c, k, f)
<1> DEFINE n == Len(Wires[c])
           Bad == {b \in 0 .. n : ~\E f : Sums(c, b, f)}
<1>1. n \in Nat /\ \A i \in 1 .. n : Size(Wires[c][i]) \in Nat
  BY WireFacts
<1> HIDE DEF n
<1>2. ASSUME Bad # {} PROVE FALSE
  <2> DEFINE b == Least(Bad)
  <2>0. Bad \in SUBSET Nat
    BY <1>1
  <2>1. b \in Bad /\ \A m \in Bad : b <= m
    <3> HIDE DEF Bad
    <3> QED BY <1>2, <2>0, LeastOfNaturals
  <2> HIDE DEF b
  <2>2. b \in 0 .. n
    BY <2>1
  <2>3. b # 0
    <3>1. Sums(c, 0, [i \in 0 .. 0 |-> 0])
      BY DEF Sums
    <3> QED BY <2>1, <3>1
  <2>4. b - 1 \in 0 .. n /\ b - 1 \notin Bad
    BY <1>1, <2>1, <2>2, <2>3
  <2>5. PICK f : Sums(c, b - 1, f)
    BY <2>4
  <2> DEFINE g == [i \in 0 .. b |-> IF i = b THEN f[b - 1] + Size(Wires[c][b]) ELSE f[i]]
  <2>6. f[b - 1] \in Nat /\ Size(Wires[c][b]) \in Nat
    BY <1>1, <2>2, <2>3, <2>5 DEF Sums
  <2>7. g \in [0 .. b -> Nat] /\ g[0] = 0
    BY <1>1, <2>2, <2>3, <2>5, <2>6 DEF Sums
  <2>8. ASSUME NEW i \in 1 .. b PROVE g[i] = g[i - 1] + Size(Wires[c][i])
    <3>1. CASE i = b
      BY <2>2, <2>3, <3>1
    <3>2. CASE i # b
      <4>1. i \in 1 .. b - 1 /\ i - 1 \in 0 .. b /\ i - 1 # b
        BY <1>1, <2>2, <3>2
      <4>2. f[i] = f[i - 1] + Size(Wires[c][i])
        BY <2>5, <4>1 DEF Sums
      <4> QED BY <3>2, <4>1, <4>2
    <3> QED BY <3>1, <3>2
  <2>9. Sums(c, b, g)
    BY <2>7, <2>8 DEF Sums
  <2> QED BY <2>1, <2>9
<1> QED BY <1>2 DEF n

\* The recursive function adds up the sizes.
LEMMA EndsAreSums ==
    ASSUME NEW c \in 1 .. Len(Wires)
    PROVE  Sums(c, Len(Wires[c]), EndsOf[c])
<1> DEFINE n == Len(Wires[c])
           step(f) == [i \in 0 .. n |-> IF i = 0 THEN 0 ELSE f[i - 1] + Size(Wires[c][i])]
           E == EndsOf[c]
<1>1. n \in Nat /\ \A i \in 1 .. n : Size(Wires[c][i]) \in Nat
  BY WireFacts
<1>2. E = CHOOSE f : f = step(f)
  BY DEF EndsOf
<1>3. PICK f : Sums(c, n, f)
  BY <1>1, SumsExist
<1> HIDE DEF n, E
<1>4. f = step(f)
  <2>1. ASSUME NEW i \in 0 .. n PROVE f[i] = step(f)[i]
    BY <1>1, <1>3 DEF Sums
  <2> QED BY <1>3, <2>1 DEF Sums
<1>5. E = step(E)
  BY <1>2, <1>4
<1>6. E[0] = 0 /\ \A i \in 1 .. n : E[i] = E[i - 1] + Size(Wires[c][i])
  <2>1. ASSUME NEW i \in 0 .. n
        PROVE  E[i] = IF i = 0 THEN 0 ELSE E[i - 1] + Size(Wires[c][i])
    BY <1>5
  <2> QED BY <1>1, <2>1
<1>7. ASSUME NEW j \in 0 .. n PROVE E[j] \in Nat
  <2> DEFINE Bad == {b \in 0 .. n : E[b] \notin Nat}
  <2>1. ASSUME Bad # {} PROVE FALSE
    <3>0. Bad \in SUBSET Nat
      BY <1>1
    <3>1. PICK b \in Bad : \A m \in Bad : b <= m
      <4> HIDE DEF Bad
      <4> QED BY <2>1, <3>0, LeastOfNaturals
    <3>2. b \in 1 .. n
      BY <1>1, <1>6
    <3>3. b - 1 \in 0 .. n /\ b - 1 \notin Bad
      BY <1>1, <3>1, <3>2
    <3> QED BY <1>1, <1>6, <3>2, <3>3
  <2> QED BY <2>1
<1>8. E \in [0 .. n -> Nat]
  BY <1>5, <1>7
<1> QED BY <1>6, <1>8 DEF Sums, n, E

\* The last item ends at the last byte, and a byte belongs to an item.
LEMMA StreamFacts ==
    ASSUME client \in 1 .. Len(Wires)
    PROVE  Total \in Nat /\ \A p \in 1 .. Total : Item(p) \in 1 .. Len(wire)
<1> DEFINE n == Len(Wires[client])
<1>1. n \in Nat /\ Sums(client, n, EndsOf[client])
  BY EndsAreSums, WireFacts
<1>2. Total \in Nat
  BY <1>1 DEF Total, Ends, wire, Sums
<1>3. ASSUME NEW p \in 1 .. Total PROVE Item(p) \in 1 .. n
  <2> DEFINE Reached == {i \in 0 .. n : p <= EndsOf[client][i]}
  <2>1. n \in Reached /\ Reached \in SUBSET Nat
    BY <1>1 DEF Total, Ends, wire
  <2>2. PICK i \in Reached : \A m \in Reached : i <= m
    <3> HIDE DEF Reached
    <3> QED BY <2>1, LeastOfNaturals
  <2>3. i \in 1 .. n
    BY <1>1, <1>2, <2>2 DEF Sums
  <2>4. EndsOf[client][i - 1] < p
    <3>1. i - 1 \in 0 .. n /\ ~(i <= i - 1)
      BY <1>1, <2>3
    <3>2. i - 1 \notin Reached /\ EndsOf[client][i - 1] \in Nat
      BY <1>1, <2>2, <3>1 DEF Sums
    <3> QED BY <1>2, <3>1, <3>2
  <2>5. \E k \in 1 .. n : EndsOf[client][k - 1] < p /\ p <= EndsOf[client][k]
    BY <2>3, <2>4
  <2>6. Item(p) = CHOOSE k \in 1 .. n : EndsOf[client][k - 1] < p /\ p <= EndsOf[client][k]
    BY DEF Item, ItemOf, Total, Ends, wire
  <2> QED BY <2>5, <2>6
<1> QED BY <1>2, <1>3 DEF wire

\* A line that is taken as a header names an item of the stream.
LEMMA HeaderItem ==
    ASSUME client \in 1 .. Len(Wires), NEW from \in Nat, NEW to \in Nat, to <= Total,
           LineOf(from, to).kind \in HeaderKinds
    PROVE  LineOf(from, to).item \in 1 .. Len(wire)
<1> DEFINE text == {p \in from + 1 .. to : IsText(p)}
<1>1. CASE text = {}
  BY <1>1 DEF LineOf, HeaderKinds
<1>2. CASE text # {}
  <2>1. text \in SUBSET Nat
    OBVIOUS
  <2>2. Least(text) \in text
    <3> HIDE DEF text
    <3> QED BY <1>2, <2>1, LeastOfNaturals
  <2>3. Least(text) \in 1 .. Total
    BY <2>2, StreamFacts
  <2>4. Item(Least(text)) \in 1 .. Len(wire)
    BY <2>3, StreamFacts
  <2>5. LineOf(from, to).item = Item(Least(text))
    BY <1>2 DEF LineOf
  <2> QED BY <2>4, <2>5
<1> QED BY <1>1, <1>2

\* Of the headers of one kind there is a last one.
LEMMA LastHeaderIsOne ==
    ASSUME TypeOK, NEW kind, HasHeader(kind)
    PROVE  \E i \in 1 .. Len(headers) :
                LastHeader(kind) = headers[i] /\ wire[headers[i]].kind = kind
<1> DEFINE S    == {i \in 1 .. Len(headers) : wire[headers[i]].kind = kind}
           Back == {Len(headers) - i : i \in S}
           m    == Least(Back)
           last == CHOOSE i \in 1 .. Len(headers) : IsLast(kind, i)
<1>1. Len(headers) \in Nat
  BY DEF TypeOK
<1>2. Back \subseteq Nat /\ Back # {}
  BY <1>1 DEF HasHeader
<1>3. m \in Back /\ \A n \in Back : m <= n
  BY <1>2, LeastOfNaturals
<1>4. PICK i \in S : m = Len(headers) - i
  BY <1>3
<1>5. \A k \in i + 1 .. Len(headers) : k \notin S
  <2>1. \A k \in S : Len(headers) - i <= Len(headers) - k
    BY <1>3, <1>4
  <2> QED BY <1>1, <1>4, <2>1
<1>6. IsLast(kind, i)
  BY <1>1, <1>4, <1>5 DEF IsLast
<1>7. last \in 1 .. Len(headers) /\ IsLast(kind, last)
  BY <1>4, <1>6
<1> QED BY <1>7 DEF LastHeader, IsLast

\* The number of a header is an integer.
LEMMA ContentLengthIsInt ==
    ASSUME TypeOK
    PROVE  ContentLength \in Int
<1>1. client \in 1 .. Len(Wires) /\ headers \in Seq(1 .. Len(wire))
  BY DEF TypeOK
<1>2. \A i \in 1 .. Len(headers) : headers[i] \in 1 .. Len(wire)
  BY <1>1, ElementOfSeq
<1>3. \A i \in 1 .. Len(headers) : wire[headers[i]].value \in Int
  BY <1>1, <1>2, WireFacts DEF wire
<1>4. CASE HasHeader("length") /\ ~Continued(LastHeader("length"))
  <2>1. PICK i \in 1 .. Len(headers) : LastHeader("length") = headers[i]
    BY <1>4, LastHeaderIsOne
  <2> QED BY <1>3, <1>4, <2>1 DEF ContentLength
<1>5. CASE ~(HasHeader("length") /\ ~Continued(LastHeader("length")))
  BY <1>5 DEF ContentLength
<1> QED BY <1>4, <1>5

-----------------------------------------------------------------------------
(* What has been counted of a request.                                     *)

\* Until a request is complete it is not over the limit it will be served
\* under; what was read of one without a boundary was counted, some of it more
\* than once.  Between two requests nothing is read.
ReadsLines == {"waitForRequest", "waitForHeader"}

WithinLimits ==
    /\ ~boundary => pos - served <= currentSize /\ currentSize <= MaxSize
    /\ boundary => bodySize < MaxMultiPartSize

FitsInv ==
    /\ status \in ReadsLines => ~boundary /\ bodySize = 0
    /\ status \in ReadsLines \cup {"waitForBody", "complete"} => WithinLimits
    /\ status = "none" => place = "closed" \/ (place = "waiting" /\ pos = served)
    /\ place = "service" => status = "complete"

\* What readLine gives lies ahead, has arrived, and goes no further than the
\* next line end.
LEMMA LineAhead ==
    ASSUME TypeOK, FitsInv, status \in ReadsLines
    PROVE  /\ LineTo \in pos .. arrived
           /\ \A p \in pos + 1 .. arrived : IsLF(p) => LineTo <= p
<1>1. /\ pos \in Nat /\ arrived \in Nat /\ served \in Nat /\ pos <= arrived /\ served <= pos
      /\ currentSize \in Int /\ pos - served <= currentSize /\ currentSize <= MaxSize
  <2>1. client \in 1 .. Len(Wires)
    BY DEF TypeOK
  <2>2. Total \in Nat
    BY <2>1, StreamFacts
  <2> QED BY <2>2 DEF TypeOK, FitsInv, WithinLimits
<1> DEFINE max == MaxSize - currentSize + 1
           ends == {arrived, pos + max} \cup {p \in pos + 1 .. arrived : IsLF(p)}
<1>2. max \in Nat
  BY <1>1
<1> HIDE DEF max
<1>3. /\ ends \in SUBSET Nat /\ ends # {} /\ arrived \in ends /\ \A p \in ends : pos <= p
      /\ \A p \in pos + 1 .. arrived : IsLF(p) => p \in ends
  BY <1>1, <1>2
<1>4. LineTo = Least(ends)
  BY DEF LineTo, ReadLineEnd, max
<1> HIDE DEF ends
<1>5. Least(ends) \in ends /\ \A n \in ends : Least(ends) <= n
  BY <1>3, LeastOfNaturals
<1>6. Least(ends) \in Nat /\ pos <= Least(ends) /\ Least(ends) <= arrived
  BY <1>3, <1>5
<1> QED BY <1>1, <1>3, <1>4, <1>5, <1>6

\* All of the line is counted.
LEMMA LineIsCounted ==
    ASSUME TypeOK, FitsInv, status \in ReadsLines
    PROVE  /\ LineTo \in pos .. arrived
           /\ Counted \in Int /\ LineTo - served <= Counted
<1>1. /\ pos \in Nat /\ arrived \in Nat /\ served \in Nat /\ lineStart \in Nat
      /\ lineStart <= pos /\ currentSize \in Int /\ pos - served <= currentSize
  <2>1. client \in 1 .. Len(Wires)
    BY DEF TypeOK
  <2>2. Total \in Nat
    BY <2>1, StreamFacts
  <2> QED BY <2>2 DEF TypeOK, FitsInv, WithinLimits
<1>2. LineTo \in pos .. arrived
  BY LineAhead
<1> QED BY <1>1, <1>2 DEF Counted

\* How a call of readFromSocket ends: with the status it came to, unless too
\* much was counted.
LEMMA SettlesWithin ==
    ASSUME NEW new, NEW size \in Int, NEW multipart \in BOOLEAN, Settles(new, size, multipart)
    PROVE  /\ status' \in {new, "abort"}
           /\ status' # "abort" /\ ~multipart => size <= MaxSize
  BY DEF Settles

\* What the parser leaves alone while it reads.
Around == <<client, arrived, responseVars, place, writes, answered, served>>

\* A line of the request or of a header, apart from what the line says.
LEMMA LineTaken ==
    ASSUME TypeOK, FitsInv, status \in ReadsLines, TakeLine, UNCHANGED Around
    PROVE  /\ pos' \in 0 .. arrived' /\ lineStart' \in 0 .. pos' /\ served' \in 0 .. pos'
           /\ bodyStart \in 0 .. pos' /\ currentSize' = Counted /\ currentSize' \in Int
           /\ pos' = LineTo /\ pos' - served' <= currentSize' /\ brokenLineEnd' \in BOOLEAN
<1>1. /\ LineTo \in pos .. arrived /\ Counted \in Int /\ LineTo - served <= Counted
  BY LineIsCounted
<1>2. /\ pos \in Nat /\ arrived \in Nat /\ served \in Nat /\ lineStart \in Nat
      /\ bodyStart \in Nat /\ bodyStart <= pos
      /\ pos <= arrived /\ lineStart <= pos /\ served <= pos
  <2>1. client \in 1 .. Len(Wires)
    BY DEF TypeOK
  <2>2. Total \in Nat
    BY <2>1, StreamFacts
  <2> QED BY <2>2 DEF TypeOK
<1>3. brokenLineEnd' \in BOOLEAN
  BY DEF TakeLine, TypeOK, IsCR
<1> QED BY <1>1, <1>2, <1>3 DEF TakeLine, Around

\* One call in a request's first line.
LEMMA ReadRequestFits ==
    ASSUME TypeOK, FitsInv, place = "reading", ReadRequest, UNCHANGED Around
    PROVE  TypeOK' /\ FitsInv'
<1>1. /\ status = "waitForRequest" /\ TakeLine
      /\ UNCHANGED <<expectedBodySize, boundary, headers, bodyStart, bodySize>>
  BY DEF ReadRequest
<1>2. PICK new \in ReadsLines \cup {"abort"} : Settles(new, Counted, boundary)
  <2> DEFINE line == LineOf(lineStart, LineTo).kind
             new == IF Collecting \/ line = "blank" THEN status
                    ELSE IF line = "request" THEN "waitForHeader" ELSE "abort"
  <2>1. Settles(new, Counted, boundary)
    BY DEF ReadRequest
  <2>2. new \in ReadsLines \cup {"abort"}
    BY <1>1 DEF ReadsLines
  <2> HIDE DEF new
  <2> QED BY <2>1, <2>2
<1>3. ~boundary /\ bodySize = 0 /\ status \in ReadsLines
  BY <1>1 DEF FitsInv, ReadsLines
<1>4. /\ pos' \in 0 .. arrived' /\ lineStart' \in 0 .. pos' /\ served' \in 0 .. pos'
      /\ bodyStart \in 0 .. pos' /\ currentSize' = Counted /\ currentSize' \in Int
      /\ pos' = LineTo /\ pos' - served' <= currentSize' /\ brokenLineEnd' \in BOOLEAN
  BY <1>1, <1>3, LineTaken
<1>5. /\ status' \in ReadsLines \cup {"abort"}
      /\ status' # "abort" => currentSize' <= MaxSize
  <2>1. Counted \in Int /\ boundary \in BOOLEAN
    BY <1>4 DEF TypeOK
  <2> QED BY <1>2, <1>3, <1>4, <2>1, SettlesWithin
<1>6. TypeOK'
  BY <1>1, <1>4, <1>5 DEF TypeOK, Around, responseVars, ReadsLines, wire, Total, Ends
<1>7. FitsInv'
  BY <1>1, <1>3, <1>4, <1>5 DEF FitsInv, WithinLimits, ReadsLines, Around
<1> QED BY <1>6, <1>7

\* One call in a request's headers: the line is one, or a part of one, or the
\* empty line, which tells what body is expected and under which limit.
LEMMA ReadHeaderFits ==
    ASSUME TypeOK, FitsInv, place = "reading", ReadHeader, UNCHANGED Around
    PROVE  TypeOK' /\ FitsInv'
<1> DEFINE line == LineOf(lineStart, LineTo)
<1>1. status = "waitForHeader" /\ TakeLine
  BY DEF ReadHeader
<1>2. ~boundary /\ bodySize = 0 /\ status \in ReadsLines
  BY <1>1 DEF FitsInv, ReadsLines
<1>3. /\ pos' \in 0 .. arrived' /\ lineStart' \in 0 .. pos' /\ served' \in 0 .. pos'
      /\ bodyStart \in 0 .. pos' /\ currentSize' = Counted /\ currentSize' \in Int
      /\ pos' = LineTo /\ pos' - served' <= currentSize' /\ brokenLineEnd' \in BOOLEAN
  BY <1>1, <1>2, LineTaken
<1>4. Counted \in Int /\ boundary \in BOOLEAN
  BY <1>3 DEF TypeOK
<1>5. ASSUME UNCHANGED <<expectedBodySize, boundary, bodyStart, bodySize>>,
             headers' \in Seq(1 .. Len(wire)), Settles(status, Counted, boundary)
      PROVE  TypeOK' /\ FitsInv'
  <2>1. /\ status' \in {"waitForHeader", "abort"}
        /\ status' # "abort" => currentSize' <= MaxSize
    BY <1>1, <1>2, <1>3, <1>4, <1>5, SettlesWithin
  <2>2. TypeOK'
    BY <1>3, <1>5, <2>1 DEF TypeOK, Around, responseVars, wire, Total, Ends
  <2>3. FitsInv'
    BY <1>2, <1>3, <1>5, <2>1 DEF FitsInv, WithinLimits, ReadsLines, Around
  <2> QED BY <2>2, <2>3
<1>6. CASE HeaderLine(line)
  <2>1. UNCHANGED <<expectedBodySize, boundary, bodyStart, bodySize>>
        /\ Settles(status, Counted, boundary)
    BY <1>6 DEF HeaderLine
  <2>2. headers \in Seq(1 .. Len(wire)) /\ client \in 1 .. Len(Wires)
    BY DEF TypeOK
  <2>3. CASE line.kind \in HeaderKinds
    <3>1. lineStart \in Nat /\ LineTo \in Nat /\ LineTo <= Total
      <4>1. Total \in Nat
        BY <2>2, StreamFacts
      <4>2. arrived' = arrived
        BY DEF Around
      <4> QED BY <1>3, <4>1, <4>2 DEF TypeOK
    <3>2. line.item \in 1 .. Len(wire)
      BY <2>2, <2>3, <3>1, HeaderItem
    <3>3. headers' = Append(headers, line.item)
      BY <1>6, <2>3 DEF HeaderLine
    <3>4. headers' \in Seq(1 .. Len(wire))
      <4> HIDE DEF line
      <4> QED BY <2>2, <3>2, <3>3, AppendProperties
    <3> QED BY <1>5, <2>1, <3>4
  <2>4. CASE line.kind \notin HeaderKinds
    <3>1. headers' = headers
      BY <1>6, <2>4 DEF HeaderLine
    <3> QED BY <1>5, <2>1, <2>2, <3>1
  <2> QED BY <2>3, <2>4
<1>7. CASE HeadersComplete(line)
  <2> DEFINE size == ContentLength
             multipart == HasHeader("multipart")
             new == IF size = 0 THEN "complete"
                    ELSE IF ~multipart /\ Wrap(size + Counted) > MaxSize THEN "abort"
                    ELSE IF multipart /\ size > MaxMultiPartSize THEN "abort"
                    ELSE "waitForBody"
  <2>1. /\ expectedBodySize' = size /\ boundary' = multipart /\ bodyStart' = LineTo
        /\ UNCHANGED <<headers, bodySize>>
        /\ Settles(new, Counted, multipart)
    BY <1>7 DEF HeadersComplete
  <2>2. size \in Int /\ multipart \in BOOLEAN
    BY ContentLengthIsInt DEF HasHeader
  <2>3. new \in {"complete", "abort", "waitForBody"}
    OBVIOUS
  <2> HIDE DEF size, multipart, new
  <2>4. /\ status' \in {"complete", "abort", "waitForBody"}
        /\ status' # "abort" /\ ~multipart => currentSize' <= MaxSize
    BY <1>3, <1>4, <2>1, <2>2, <2>3, SettlesWithin
  <2>5. TypeOK'
    BY <1>3, <2>1, <2>2, <2>4 DEF TypeOK, Around, responseVars, wire, Total, Ends
  <2>6. FitsInv'
    BY <1>2, <1>3, <2>1, <2>4 DEF FitsInv, WithinLimits, ReadsLines, Around
  <2> QED BY <2>5, <2>6
<1>8. CASE /\ Settles(status, Counted, boundary)
           /\ UNCHANGED <<expectedBodySize, boundary, headers, bodyStart, bodySize>>
  <2>1. headers' \in Seq(1 .. Len(wire))
    BY <1>8 DEF TypeOK
  <2> QED BY <1>5, <1>8, <2>1
<1> QED BY <1>6, <1>7, <1>8 DEF ReadHeader

\* What read(n) gives: no more than asked for and no more than has arrived.
LEMMA ReadIsBounded ==
    ASSUME TypeOK, NEW n \in Int
    PROVE  ReadCount(n) \in Nat /\ pos + ReadCount(n) \in pos .. arrived
<1>1. pos \in Nat /\ arrived \in Nat /\ pos <= arrived
  <2>1. Total \in Nat
    BY StreamFacts DEF TypeOK
  <2> QED BY <2>1 DEF TypeOK
<1>2. Available \in Nat
  BY <1>1 DEF Available
<1>3. ReadCount(n) \in Nat /\ ReadCount(n) <= Available
  <2>1. CASE n < 0
    BY <1>2, <2>1 DEF ReadCount
  <2>2. CASE ~(n < 0)
    <3>1. Least({n, Available}) \in {n, Available} /\ Least({n, Available}) <= Available
      <4>1. Available \in Int
        BY <1>2
      <4> HIDE DEF Available
      <4> QED BY <4>1, LeastOfTwo
    <3> QED BY <1>2, <2>2, <3>1 DEF ReadCount
  <2> QED BY <2>1, <2>2
<1> QED BY <1>1, <1>3 DEF Available

\* One call in a body that is kept in memory: every byte is counted.
LEMMA ReadBodyFits ==
    ASSUME TypeOK, FitsInv, place = "reading", ReadBody, UNCHANGED Around
    PROVE  TypeOK' /\ FitsInv'
<1> DEFINE n == ReadCount(expectedBodySize - bodySize)
           new == IF bodySize + n >= expectedBodySize THEN "complete" ELSE status
<1>1. /\ status = "waitForBody" /\ ~boundary
      /\ pos' = pos + n /\ lineStart' = pos + n /\ currentSize' = currentSize + n
      /\ bodySize' = bodySize + n /\ Settles(new, currentSize + n, boundary)
      /\ UNCHANGED <<expectedBodySize, boundary, headers, bodyStart, brokenLineEnd>>
  BY DEF ReadBody
<1>2. n \in Nat /\ pos + n \in pos .. arrived
  <2>1. expectedBodySize - bodySize \in Int
    BY DEF TypeOK
  <2> QED BY <2>1, ReadIsBounded
<1>3. new \in {"complete", "waitForBody"}
  BY <1>1
<1> HIDE DEF n, new
<1>4. /\ pos \in Nat /\ arrived \in Nat /\ pos <= arrived /\ currentSize \in Int
      /\ served \in Nat /\ served <= pos /\ bodyStart \in Nat /\ bodyStart <= pos
      /\ bodySize \in Nat /\ boundary \in BOOLEAN
  <2>1. Total \in Nat
    BY StreamFacts DEF TypeOK
  <2> QED BY <2>1 DEF TypeOK
<1>5. /\ status' \in {"complete", "waitForBody", "abort"}
      /\ status' # "abort" => currentSize' <= MaxSize
  <2>1. currentSize + n \in Int
    BY <1>2, <1>4
  <2> QED BY <1>1, <1>3, <1>4, <2>1, SettlesWithin
<1>6. pos' - served' <= currentSize'
  BY <1>1, <1>2, <1>4 DEF FitsInv, WithinLimits, Around
<1>7. TypeOK'
  BY <1>1, <1>2, <1>4, <1>5 DEF TypeOK, Around, responseVars, wire, Total, Ends
<1>8. FitsInv'
  BY <1>1, <1>5, <1>6 DEF FitsInv, WithinLimits, ReadsLines, Around
<1> QED BY <1>7, <1>8

\* One call in a multipart body: it is complete only below its limit.
LEMMA ReadMultiPartFits ==
    ASSUME TypeOK, FitsInv, place = "reading", ReadMultiPart, UNCHANGED Around
    PROVE  TypeOK' /\ FitsInv'
<1> DEFINE n == ReadCount(Least({expectedBodySize - bodySize, Block}))
           size == bodySize + n
           done == size < MaxMultiPartSize /\ size >= expectedBodySize
           counted == IF done THEN currentSize + FieldBytes ELSE currentSize
           new == IF size >= MaxMultiPartSize THEN "abort"
                  ELSE IF done THEN "complete" ELSE status
<1>1. /\ status = "waitForBody" /\ boundary /\ Available > 0
      /\ pos' = pos + n /\ lineStart' = pos + n /\ bodySize' = size /\ currentSize' = counted
      /\ Settles(new, counted, boundary)
      /\ UNCHANGED <<expectedBodySize, boundary, headers, bodyStart, brokenLineEnd>>
  BY DEF ReadMultiPart
<1>2. /\ pos \in Nat /\ arrived \in Nat /\ pos <= arrived /\ currentSize \in Int
      /\ served \in Nat /\ served <= pos /\ bodyStart \in Nat /\ bodyStart <= pos
      /\ bodySize \in Nat /\ boundary \in BOOLEAN /\ expectedBodySize \in Int
      /\ arrived <= Total /\ Total \in Nat
  <2>1. Total \in Nat
    BY StreamFacts DEF TypeOK
  <2> QED BY <2>1 DEF TypeOK
<1>3. n \in Nat /\ pos + n \in pos .. arrived
  <2>1. expectedBodySize - bodySize \in Int /\ Block \in Int
    BY <1>2
  <2>2. Least({expectedBodySize - bodySize, Block}) \in {expectedBodySize - bodySize, Block}
    BY <2>1, LeastOfTwo
  <2>3. Least({expectedBodySize - bodySize, Block}) \in Int
    BY <2>1, <2>2
  <2> QED BY <2>3, ReadIsBounded
<1>4. FieldBytes \in Int
  <2>1. bodyStart + 1 \in 1 .. Total
    BY <1>1, <1>2 DEF Available
  <2>2. client \in 1 .. Len(Wires)
    BY DEF TypeOK
  <2>3. Item(bodyStart + 1) \in 1 .. Len(wire)
    BY <2>1, <2>2, StreamFacts
  <2> QED BY <2>2, <2>3, WireFacts DEF FieldBytes, wire
<1>5. counted \in Int
  BY <1>2, <1>4
<1>6. size \in Nat
  BY <1>2, <1>3
<1>7. /\ new \in {"complete", "waitForBody", "abort"}
      /\ new # "abort" => size < MaxMultiPartSize
  BY <1>1, <1>6
<1> HIDE DEF n, size, done, counted, new
<1>8. /\ status' \in {"complete", "waitForBody", "abort"}
      /\ status' # "abort" => size < MaxMultiPartSize
  BY <1>1, <1>2, <1>5, <1>7, SettlesWithin
<1>9. TypeOK'
  BY <1>1, <1>2, <1>3, <1>5, <1>6, <1>8 DEF TypeOK, Around, responseVars, wire, Total, Ends
<1>10. FitsInv'
  BY <1>1, <1>8 DEF FitsInv, WithinLimits, ReadsLines, Around
<1> QED BY <1>9, <1>10

-----------------------------------------------------------------------------
(* The steps of read(), and the theorem about the limits.                  *)

\* A part that is written keeps the types of the response.
LEMMA WriteTypes ==
    ASSUME TypeOK, NEW size \in Nat, NEW lastPart \in BOOLEAN, Write(size, lastPart)
    PROVE  /\ sentHeaders' \in BOOLEAN /\ sentLastPart' \in BOOLEAN /\ chunkedMode' \in BOOLEAN
           /\ hasLength' \in BOOLEAN /\ terminated' \in BOOLEAN /\ closeHeader' = closeHeader
           /\ contentLength' \in Nat /\ bodySent' \in Nat
<1>1. chunkedMode' \in BOOLEAN
  BY DEF Write, UsesChunks, TypeOK
<1>2. contentLength' \in Nat /\ bodySent' \in Nat
  BY DEF Write, TypeOK
<1> QED BY <1>1, <1>2 DEF Write, TypeOK

\* All the variables of the parser but its status.
Parsed == <<pos, lineStart, currentSize, expectedBodySize, boundary, headers, bodyStart,
            bodySize, brokenLineEnd>>

\* Both invariants say of a response no more than its types: what a step that
\* leaves the parser alone has to show.
LEMMA OutsideParser ==
    ASSUME TypeOK, FitsInv, UNCHANGED <<client, arrived, Parsed>>,
           sentHeaders' \in BOOLEAN, sentLastPart' \in BOOLEAN, chunkedMode' \in BOOLEAN,
           hasLength' \in BOOLEAN, terminated' \in BOOLEAN,
           closeHeader' \in {"Connection", "connection", "none"},
           contentLength' \in Nat, bodySent' \in Nat,
           writes' \in 0 .. MaxWrites, answered' \in Nat,
           place' \in Places, status' \in {status, "none"}, served' \in {served, pos},
           status' = status => served' = served /\ (place' = "service" => status = "complete"),
           status' = "none" => place' = "closed" \/ (place' = "waiting" /\ served' = pos')
    PROVE  TypeOK' /\ FitsInv'
<1>1. pos \in Nat /\ served \in 0 .. pos
  <2>1. Total \in Nat
    BY StreamFacts DEF TypeOK
  <2> QED BY <2>1 DEF TypeOK
<1>2. TypeOK'
  BY <1>1 DEF TypeOK, Parsed, wire, Total, Ends
<1>3. ASSUME status' = status PROVE FitsInv'
  <2>1. UNCHANGED <<status, boundary, bodySize, pos, served, currentSize>>
    BY <1>3 DEF Parsed
  <2>2. WithinLimits' <=> WithinLimits
    BY <2>1 DEF WithinLimits
  <2> QED BY <1>3, <2>1, <2>2 DEF FitsInv
<1>4. ASSUME status' = "none" PROVE FitsInv'
  <2>1. status' \notin ReadsLines \cup {"waitForBody", "complete"} /\ place' # "service"
    BY <1>4 DEF ReadsLines
  <2> QED BY <1>4, <2>1 DEF FitsInv
<1> QED BY <1>2, <1>3, <1>4

\* No step of the connection breaks them.
LEMMA StepFits ==
    ASSUME TypeOK, FitsInv, [Next]_vars
    PROVE  TypeOK' /\ FitsInv'
<1>0. /\ pos \in Nat /\ arrived \in Nat /\ Total \in Nat /\ pos <= arrived /\ arrived <= Total
      /\ served \in Nat /\ served <= pos
  <2>1. Total \in Nat
    BY StreamFacts DEF TypeOK
  <2> QED BY <2>1 DEF TypeOK
<1>1. CASE BeginRead
  <2>1. /\ place = "waiting" /\ place' = "reading"
        /\ UNCHANGED <<client, arrived, pos, brokenLineEnd, responseVars, writes, answered, served>>
    BY <1>1 DEF BeginRead
  <2>2. CASE status = "none"
    <3>1. FreshRequest /\ pos = served
      BY <1>1, <2>1, <2>2 DEF BeginRead, FitsInv
    <3>2. headers' \in Seq(1 .. Len(wire))
      BY <3>1 DEF FreshRequest
    <3>3. TypeOK'
      <4>1. pos \in 0 .. pos /\ 0 \in 0 .. pos
        BY <1>0
      <4>2. /\ pos' \in 0 .. arrived' /\ lineStart' \in 0 .. pos' /\ bodyStart' \in 0 .. pos'
            /\ served' \in 0 .. pos' /\ arrived' \in 0 .. Total' /\ client' \in 1 .. Len(Wires)
        BY <2>1, <3>1, <4>1 DEF FreshRequest, TypeOK, Total, Ends, wire
      <4>3. /\ currentSize' \in Int /\ expectedBodySize' \in Int /\ bodySize' \in Nat
            /\ place' \in Places /\ status' = "waitForRequest"
        BY <2>1, <3>1 DEF FreshRequest, Places
      <4>4. boundary' \in BOOLEAN
        BY <3>1 DEF FreshRequest
      <4>5. brokenLineEnd' \in BOOLEAN
        BY <2>1 DEF TypeOK
      <4>6. headers' \in Seq(1 .. Len(wire'))
        BY <2>1, <3>2 DEF wire
      <4> QED BY <2>1, <4>2, <4>3, <4>4, <4>5, <4>6 DEF TypeOK, responseVars
    <3>4. FitsInv'
      BY <1>0, <2>1, <3>1 DEF FitsInv, WithinLimits, ReadsLines, FreshRequest
    <3> QED BY <3>3, <3>4
  <2>3. CASE status # "none"
    <3>1. UNCHANGED requestVars
      BY <1>1, <2>3 DEF BeginRead
    <3>2. TypeOK'
      BY <2>1, <3>1 DEF TypeOK, requestVars, responseVars, Places, wire, Total, Ends
    <3>3. FitsInv'
      BY <2>1, <2>3, <3>1 DEF FitsInv, WithinLimits, ReadsLines, requestVars
    <3> QED BY <3>2, <3>3
  <2> QED BY <2>2, <2>3
<1>2. CASE Collect
  <2>1. place = "reading" /\ ReadFromSocket /\ UNCHANGED Around
    BY <1>2 DEF Collect, Around
  <2>2. CASE ReadRequest
    BY <2>1, <2>2, ReadRequestFits
  <2>3. CASE ReadHeader
    BY <2>1, <2>3, ReadHeaderFits
  <2>4. CASE ReadBody
    BY <2>1, <2>4, ReadBodyFits
  <2>5. CASE ReadMultiPart
    BY <2>1, <2>5, ReadMultiPartFits
  <2> QED BY <2>1, <2>2, <2>3, <2>4, <2>5 DEF ReadFromSocket
<1>3. CASE WaitForMore
  <2>1. status # "none"
    BY <1>3 DEF WaitForMore, FitsInv
  <2> QED BY <1>3, <2>1, OutsideParser
          DEF WaitForMore, TypeOK, parserVars, requestVars, Parsed, responseVars, Places
<1>4. CASE RejectRequest
  <2>1. answered' \in Nat /\ status' # status
    BY <1>4 DEF RejectRequest, TypeOK
  <2> QED BY <1>4, <2>1, OutsideParser DEF RejectRequest, TypeOK, Parsed, responseVars, Places
<1>5. CASE Serve
  <2>1. status = "complete" /\ 0 \in 0 .. MaxWrites
    BY <1>5, MaxWritesAssumption DEF Serve
  <2> QED BY <1>5, <2>1, OutsideParser
          DEF Serve, FreshResponse, TypeOK, parserVars, requestVars, Parsed, Places
<1>6. ASSUME NEW name \in {"Connection", "connection"}, ServiceAsksToClose(name)
      PROVE  TypeOK' /\ FitsInv'
  <2>1. status = "complete"
    BY <1>6 DEF ServiceAsksToClose, FitsInv
  <2> QED BY <1>6, <2>1, OutsideParser
          DEF ServiceAsksToClose, SetCloseHeader, TypeOK, parserVars, requestVars, Parsed, Places
<1>7. ASSUME NEW size \in 0 .. 1, NEW lastPart \in BOOLEAN, ServiceWrites(size, lastPart)
      PROVE  TypeOK' /\ FitsInv'
  <2>1. status = "complete"
    BY <1>7 DEF ServiceWrites, FitsInv
  <2>2. writes' \in 0 .. MaxWrites
    BY <1>7, MaxWritesAssumption DEF ServiceWrites, TypeOK
  <2>3. /\ sentHeaders' \in BOOLEAN /\ sentLastPart' \in BOOLEAN /\ chunkedMode' \in BOOLEAN
        /\ hasLength' \in BOOLEAN /\ terminated' \in BOOLEAN /\ closeHeader' = closeHeader
        /\ contentLength' \in Nat /\ bodySent' \in Nat
    <3>1. size \in Nat /\ Write(size, lastPart)
      BY <1>7 DEF ServiceWrites
    <3> QED BY <3>1, WriteTypes
  <2> QED BY <1>7, <2>1, <2>2, <2>3, OutsideParser
          DEF ServiceWrites, TypeOK, parserVars, requestVars, Parsed, Places
<1>8. CASE Finish
  <2>1. /\ sentHeaders' \in BOOLEAN /\ sentLastPart' \in BOOLEAN /\ chunkedMode' \in BOOLEAN
        /\ hasLength' \in BOOLEAN /\ terminated' \in BOOLEAN /\ closeHeader' = closeHeader
        /\ contentLength' \in Nat /\ bodySent' \in Nat
    <3>1. CASE sentLastPart
      BY <1>8, <3>1 DEF Finish, TypeOK, responseVars
    <3>2. CASE ~sentLastPart
      <4>1. Write(0, TRUE)
        BY <1>8, <3>2 DEF Finish
      <4> QED BY <4>1, WriteTypes
    <3> QED BY <3>1, <3>2
  <2>2. place' \in {"closed", "waiting"} /\ status = "complete"
    BY <1>8 DEF Finish, FitsInv
  <2>3. answered' \in Nat
    BY <1>8 DEF Finish, TypeOK
  <2> QED BY <1>8, <2>1, <2>2, <2>3, OutsideParser DEF Finish, TypeOK, Parsed, Places
<1>9. ASSUME NEW n \in 1 .. Total, Deliver(n) PROVE TypeOK' /\ FitsInv'
  <2>1. arrived' \in 0 .. Total /\ pos' \in 0 .. arrived'
    BY <1>0, <1>9 DEF Deliver, parserVars
  <2>2. TypeOK'
    BY <1>9, <2>1 DEF Deliver, TypeOK, parserVars, requestVars, responseVars, wire, Total, Ends
  <2>3. FitsInv'
    BY <1>9 DEF Deliver, FitsInv, WithinLimits, ReadsLines, parserVars, requestVars
  <2> QED BY <2>2, <2>3
<1>10. CASE UNCHANGED vars
  <2>1. TypeOK'
    BY <1>10 DEF vars, TypeOK, parserVars, requestVars, responseVars, wire, Total, Ends
  <2>2. FitsInv'
    BY <1>10 DEF vars, FitsInv, WithinLimits, ReadsLines, parserVars, requestVars
  <2> QED BY <2>1, <2>2
<1> QED BY <1>1, <1>2, <1>3, <1>4, <1>5, <1>6, <1>7, <1>8, <1>9, <1>10 DEF Next, Read

\* An untouched connection satisfies them.
LEMMA InitFits == Init => TypeOK /\ FitsInv
<1> SUFFICES ASSUME Init PROVE TypeOK /\ FitsInv
  OBVIOUS
<1>1. Total \in Nat
  BY StreamFacts DEF Init
<1>2. headers \in Seq(1 .. Len(wire))
  BY DEF Init
<1>3. 0 \in 0 .. Total /\ 0 \in 0 .. 0 /\ 0 \in 0 .. MaxWrites
  BY <1>1, MaxWritesAssumption
<1>4. TypeOK
  <2>1. /\ arrived \in 0 .. Total /\ pos \in 0 .. arrived /\ lineStart \in 0 .. pos
        /\ bodyStart \in 0 .. pos /\ served \in 0 .. pos /\ writes \in 0 .. MaxWrites
    BY <1>3 DEF Init
  <2>2. /\ client \in 1 .. Len(Wires) /\ status = "none" /\ place \in Places
        /\ currentSize \in Int /\ expectedBodySize \in Int /\ bodySize \in Nat
        /\ contentLength \in Nat /\ bodySent \in Nat /\ answered \in Nat
    BY DEF Init, Places
  <2>3. /\ boundary \in BOOLEAN /\ brokenLineEnd \in BOOLEAN
        /\ sentHeaders \in BOOLEAN /\ sentLastPart \in BOOLEAN /\ chunkedMode \in BOOLEAN
        /\ hasLength \in BOOLEAN /\ terminated \in BOOLEAN /\ closeHeader = "none"
    BY DEF Init
  <2> QED BY <1>2, <2>1, <2>2, <2>3 DEF TypeOK
<1>5. FitsInv
  BY DEF Init, FitsInv, ReadsLines
<1> QED BY <1>4, <1>5

\* Every variable of the exchange keeps its type, for every stream, limit and
\* fragmentation: the parser never overtakes the socket.
THEOREM TypeCorrect == Spec => []TypeOK
<1>1. TypeOK /\ FitsInv /\ [Next]_vars => TypeOK' /\ FitsInv'
  BY StepFits
<1> QED BY InitFits, <1>1, PTL DEF Spec

\* HttpRequest::readFromSocket: a request that is served fits the limits,
\* counted in the bytes it has, whatever the client's stream, its
\* Content-Length included, and however it is cut into deliveries.
THEOREM ServedFitsAlways == Spec => []ServedFits
<1>1. TypeOK /\ FitsInv /\ [Next]_vars => TypeOK' /\ FitsInv'
  BY StepFits
<1>2. TypeOK /\ FitsInv => ServedFits
  <2> SUFFICES ASSUME TypeOK, FitsInv, place = "service" PROVE ServedFits
    BY DEF ServedFits
  <2>1. WithinLimits
    BY DEF FitsInv
  <2>2. pos \in Int /\ served \in Int /\ currentSize \in Int
    BY StreamFacts DEF TypeOK
  <2> QED BY <2>1, <2>2 DEF ServedFits, WithinLimits
<1> QED BY InitFits, <1>1, <1>2, PTL DEF Spec

-----------------------------------------------------------------------------
(* The end of a response.                                                  *)

\* A response has a Content-Length only if its first part was its last, with
\* all of its body; one in chunks ends with the empty chunk.
Written ==
    /\ ~sentHeaders => bodySent = 0 /\ ~hasLength /\ ~chunkedMode /\ ~sentLastPart
    /\ hasLength => sentLastPart /\ contentLength = bodySent /\ ~chunkedMode
    /\ chunkedMode /\ sentLastPart => terminated

DelimitedInv ==
    /\ place = "service" => Written
    /\ place \in {"waiting", "reading"} /\ answered > 0 => Delimited

\* A part of any size, the last or not.
LEMMA WriteKeepsWritten ==
    ASSUME TypeOK, Written, NEW size \in Nat, NEW lastPart \in BOOLEAN, Write(size, lastPart)
    PROVE  Written' /\ sentLastPart' = lastPart
<1>1. CASE ~sentHeaders
  BY <1>1 DEF TypeOK, Write, UsesChunks, Written
<1>2. CASE sentHeaders
  BY <1>2 DEF TypeOK, Write, UsesChunks, Written
<1> QED BY <1>1, <1>2 DEF TypeOK

LEMMA DelimitedStep ==
    ASSUME TypeOK, DelimitedInv, [Next]_vars
    PROVE  DelimitedInv'
<1>1. ASSUME UNCHANGED <<responseVars, answered>>,
             \/ place' = place
             \/ place \in {"waiting", "reading"} /\ place' \in {"waiting", "reading", "closed"}
      PROVE  DelimitedInv'
  BY <1>1 DEF DelimitedInv, Written, Delimited, responseVars
<1>2. CASE BeginRead
  BY <1>1, <1>2 DEF BeginRead
<1>3. CASE Collect
  BY <1>1, <1>3 DEF Collect
<1>4. CASE WaitForMore
  BY <1>1, <1>4 DEF WaitForMore
<1>5. CASE RejectRequest
  BY <1>5 DEF RejectRequest, DelimitedInv
<1>6. CASE Serve
  BY <1>6 DEF Serve, FreshResponse, DelimitedInv, Written
<1>7. ASSUME NEW name \in {"Connection", "connection"}, ServiceAsksToClose(name)
      PROVE  DelimitedInv'
  BY <1>7 DEF ServiceAsksToClose, SetCloseHeader, DelimitedInv, Written
<1>8. ASSUME NEW size \in 0 .. 1, NEW lastPart \in BOOLEAN, ServiceWrites(size, lastPart)
      PROVE  DelimitedInv'
  <2>1. place = "service" /\ place' = "service" /\ Written /\ Write(size, lastPart)
    BY <1>8 DEF ServiceWrites, DelimitedInv
  <2>2. size \in Nat
    OBVIOUS
  <2>3. Written'
    BY <2>1, <2>2, WriteKeepsWritten
  <2> QED BY <2>1, <2>3 DEF DelimitedInv
<1>9. CASE Finish
  <2>1. Written /\ place' \in {"closed", "waiting"}
    BY <1>9 DEF Finish, DelimitedInv
  <2>2. Written' /\ sentLastPart'
    <3>1. CASE sentLastPart
      BY <1>9, <2>1, <3>1 DEF Finish, responseVars, Written
    <3>2. CASE ~sentLastPart
      BY <1>9, <2>1, <3>2, WriteKeepsWritten DEF Finish
    <3> QED BY <3>1, <3>2
  <2>3. place' = "waiting" => hasLength' \/ chunkedMode'
    BY <1>9 DEF Finish, Closes
  <2>4. place' = "waiting" => Delimited'
    BY <2>2, <2>3 DEF Written, Delimited
  <2> QED BY <2>1, <2>4 DEF DelimitedInv
<1>10. ASSUME NEW n \in 1 .. Total, Deliver(n) PROVE DelimitedInv'
  <2>1. UNCHANGED <<responseVars, answered>> /\ place' = place
    BY <1>10 DEF Deliver
  <2> QED BY <1>1, <2>1
<1>11. CASE UNCHANGED vars
  <2>1. UNCHANGED <<responseVars, answered>> /\ place' = place
    BY <1>11 DEF vars
  <2> QED BY <1>1, <2>1
<1> QED BY <1>2, <1>3, <1>4, <1>5, <1>6, <1>7, <1>8, <1>9, <1>10, <1>11 DEF Next, Read

\* HttpResponse::write and the rules of read(): on a connection that stays open
\* the client can tell where the response ended, whatever the request handler
\* wrote, whether or not it finished, and wherever it threw.
THEOREM ResponseDelimitedAlways == Spec => []ResponseDelimited
<1>1. Init => DelimitedInv
  BY DEF Init, DelimitedInv
<1>2. TypeOK /\ DelimitedInv /\ [Next]_vars => DelimitedInv'
  BY DelimitedStep
<1>3. DelimitedInv => ResponseDelimited
  BY DEF DelimitedInv, ResponseDelimited
<1> QED BY TypeCorrect, <1>1, <1>2, <1>3, PTL DEF Spec

-----------------------------------------------------------------------------
(* The parts of a request.                                                 *)

\* A request ends with the stream, or before a line that begins the next.
EndsRequest(i) == i = Len(wire) \/ (i > 1 /\ Followed(wire, i, Starts))

\* The last request ended before item s + 1, and a request begins there.
Between(s) ==
    /\ s \in 0 .. Len(wire) /\ served = Ends[s]
    /\ s = 0 \/ (s > 1 /\ EndsRequest(s))

\* The request line that is due after item s: an empty line may come first.
BeginsAt(s, r) == r = s + 1 \/ (s = 0 /\ r = 2 /\ wire[1].kind = "blank")

\* lineBuffer holds a beginning of item k + 1, without its line end.
InLine(k) == k \in 0 .. Len(wire) /\ lineStart = Ends[k] /\ ~HasBreak(lineStart, pos)

\* The headers are those of the items a to b.
Took(a, b) ==
    {headers[i] : i \in 1 .. Len(headers)} = {j \in a .. b : wire[j].kind \in HeaderKinds}

AwaitsRequest(s) == headers = <<>> /\ \E k \in 0 .. Len(wire) : BeginsAt(s, k + 1) /\ InLine(k)

AwaitsHeader(s) == \E r, k \in 1 .. Len(wire) :
    /\ r <= k /\ BeginsAt(s, r) /\ wire[r].kind = "request"
    /\ \A j \in r + 1 .. k : wire[j].kind \in LineKinds
    /\ InLine(k) /\ Took(r + 1, k)

\* The headers of the request from r to b are read, and some of its body.
HeadRead(s, r, b) ==
    /\ BeginsAt(s, r) /\ IsRequest(wire, r, b) /\ Took(r + 1, b)
    /\ bodyStart = Ends[b] /\ pos = bodyStart + bodySize
    /\ expectedBodySize = ContentLength

AwaitsBody ==
    IF expectedBodySize > 0 THEN bodySize < expectedBodySize
                            ELSE expectedBodySize # 0 /\ bodySize = 0

HasBody == bodySize = IF expectedBodySize > 0 THEN expectedBodySize ELSE 0

\* Where the parser is in the stream: the parts it has of the request that
\* begins after item s.
Parts(s) ==
    /\ status = "waitForRequest" => AwaitsRequest(s)
    /\ status = "waitForHeader" => AwaitsHeader(s)
    /\ status \in {"waitForBody", "complete"} =>
        \E r, b \in 1 .. Len(wire) : HeadRead(s, r, b)
    /\ status = "waitForBody" => AwaitsBody
    /\ status = "complete" => HasBody

PartsInv ==
    /\ place = "waiting" => status \notin {"complete", "abort"}
    /\ WholeRequests(wire) /\ ~brokenLineEnd => \E s \in 0 .. Len(wire) : Between(s) /\ Parts(s)

\* The stream of the connection, and where its items end.
LEMMA ItemFacts ==
    ASSUME client \in 1 .. Len(Wires)
    PROVE  /\ Len(wire) \in Nat /\ Ends \in [0 .. Len(wire) -> Nat] /\ Ends[0] = 0
           /\ Total = Ends[Len(wire)]
           /\ \A i \in 1 .. Len(wire) :
                /\ Ends[i] = Ends[i - 1] + Size(wire[i]) /\ Size(wire[i]) \in Nat
                /\ wire[i].text \in Nat /\ wire[i].value \in Int
<1>1. Sums(client, Len(Wires[client]), EndsOf[client])
  BY EndsAreSums
<1>2. /\ Len(wire) \in Nat
      /\ \A i \in 1 .. Len(wire) :
            wire[i].text \in Nat /\ wire[i].value \in Int /\ Size(wire[i]) \in Nat
  BY WireFacts DEF wire
<1> QED BY <1>1, <1>2 DEF Sums, Ends, Total, wire

\* Every item of a stream of whole requests has a byte, so that the items end
\* one after the other.
LEMMA EndsIncrease ==
    ASSUME client \in 1 .. Len(Wires), WholeRequests(wire),
           NEW i \in 0 .. Len(wire), NEW j \in 0 .. Len(wire), i < j
    PROVE  Ends[i] < Ends[j]
<1> DEFINE n == Len(wire)
           Bad == {b \in i + 1 .. n : ~(Ends[i] < Ends[b])}
<1>1. /\ n \in Nat /\ Ends \in [0 .. n -> Nat]
      /\ \A k \in 1 .. n : Ends[k] = Ends[k - 1] + Size(wire[k]) /\ Size(wire[k]) \in Nat
  BY ItemFacts
<1>2. ASSUME NEW k \in 1 .. n PROVE Size(wire[k]) > 0
  <2>1. wire[k].text \in Nat
    BY ItemFacts
  <2>2. wire[k].kind = "blank" <=> wire[k].text = 0
    BY DEF WholeRequests
  <2> QED BY <2>1, <2>2 DEF Size
<1> HIDE DEF n
<1>3. ASSUME NEW k \in 1 .. n PROVE k - 1 \in 0 .. n /\ Ends[k - 1] < Ends[k]
  <2>1. k - 1 \in 0 .. n /\ Ends[k - 1] \in Nat /\ Ends[k] = Ends[k - 1] + Size(wire[k])
    BY <1>1
  <2>2. Size(wire[k]) \in Nat /\ Size(wire[k]) > 0
    BY <1>1, <1>2
  <2> QED BY <2>1, <2>2
<1>4. ASSUME Bad # {} PROVE FALSE
  <2>1. Bad \in SUBSET Nat
    BY <1>1
  <2>2. PICK b \in Bad : \A m \in Bad : b <= m
    <3> HIDE DEF Bad
    <3> QED BY <1>4, <2>1, LeastOfNaturals
  <2>3. b \in i + 1 .. n /\ ~(Ends[i] < Ends[b])
    BY <2>2
  <2>4. i \in Nat /\ b \in Nat /\ i < b /\ b <= n
    BY <1>1, <2>3
  <2>5. b - 1 \notin Bad
    BY <2>2, <2>4
  <2>6. b - 1 = i \/ Ends[i] < Ends[b - 1]
    BY <1>1, <2>4, <2>5
  <2>7. Ends[b - 1] < Ends[b]
    BY <1>1, <1>3, <2>4
  <2>8. Ends[i] \in Nat /\ Ends[b] \in Nat /\ Ends[b - 1] \in Nat
    BY <1>1, <2>4
  <2> QED BY <2>3, <2>6, <2>7, <2>8
<1>5. j \in i + 1 .. n
  BY <1>1 DEF n
<1> QED BY <1>4, <1>5

\* The bytes between two ends belong to the item that has the second.
LEMMA ItemAt ==
    ASSUME client \in 1 .. Len(Wires), WholeRequests(wire),
           NEW i \in 1 .. Len(wire), NEW p \in Ends[i - 1] + 1 .. Ends[i]
    PROVE  p \in 1 .. Total /\ Item(p) = i
<1> DEFINE n == Len(wire)
<1>1. n \in Nat /\ Ends \in [0 .. n -> Nat] /\ Total = Ends[n]
  BY ItemFacts
<1>2. \A j, k \in 0 .. n : j < k => Ends[j] < Ends[k]
  BY EndsIncrease
<1> HIDE DEF n
<1>3. i \in 1 .. n /\ i - 1 \in 0 .. n /\ i \in 0 .. n /\ n \in 0 .. n
  BY <1>1 DEF n
<1>4. Ends[i - 1] \in Nat /\ Ends[i] \in Nat /\ p \in Nat /\ Ends[i - 1] < p /\ p <= Ends[i]
  BY <1>1, <1>3
<1>5. p \in 1 .. Total
  <2>1. i = n \/ Ends[i] < Ends[n]
    BY <1>1, <1>2, <1>3
  <2>2. Ends[n] \in Nat
    BY <1>1
  <2> QED BY <1>1, <1>4, <2>1, <2>2
<1>6. Item(p) = CHOOSE k \in 1 .. n : Ends[k - 1] < p /\ p <= Ends[k]
  BY <1>5 DEF Item, ItemOf, Total, Ends, wire, n
<1>7. ASSUME NEW k \in 1 .. n, Ends[k - 1] < p, p <= Ends[k] PROVE k = i
  <2>0. k \in 0 .. n /\ k - 1 \in 0 .. n
    BY <1>1
  <2>1. Ends[k - 1] \in Nat /\ Ends[k] \in Nat
    BY <1>1, <2>0
  <2>2. ~(k < i)
    <3>1. SUFFICES ASSUME k < i PROVE FALSE
      OBVIOUS
    <3>2. k = i - 1 \/ Ends[k] < Ends[i - 1]
      BY <1>1, <1>2, <1>3, <2>0, <3>1
    <3> QED BY <1>4, <1>7, <2>1, <3>2
  <2>3. ~(i < k)
    <3>1. SUFFICES ASSUME i < k PROVE FALSE
      OBVIOUS
    <3>2. i = k - 1 \/ Ends[i] < Ends[k - 1]
      BY <1>1, <1>2, <1>3, <2>0, <3>1
    <3> QED BY <1>4, <1>7, <2>1, <3>2
  <2> QED BY <1>1, <1>3, <2>2, <2>3
<1>8. \E k \in 1 .. n : Ends[k - 1] < p /\ p <= Ends[k]
  BY <1>3, <1>4
<1> QED BY <1>5, <1>6, <1>7, <1>8

\* In the bytes of item i, a line, which are text and which its line end.
LEMMA LineBytes ==
    ASSUME client \in 1 .. Len(Wires), WholeRequests(wire),
           NEW i \in 1 .. Len(wire), wire[i].kind # "body"
    PROVE  /\ Ends[i] = Ends[i - 1] + wire[i].text + 2
           /\ \A p \in Ends[i - 1] + 1 .. Ends[i] :
                /\ Item(p) = i
                /\ IsLF(p) <=> p = Ends[i]
                /\ IsCR(p) <=> p = Ends[i] - 1
                /\ IsText(p) <=> p < Ends[i] - 1
<1>1. /\ Ends[i] = Ends[i - 1] + wire[i].text + 2
      /\ Ends[i] \in Nat /\ Ends[i - 1] \in Nat /\ wire[i].text \in Nat
  <2>1. i \in 0 .. Len(wire) /\ i - 1 \in 0 .. Len(wire)
    BY ItemFacts
  <2>2. Size(wire[i]) = wire[i].text + 2
    BY DEF Size
  <2>3. Ends[i] = Ends[i - 1] + Size(wire[i]) /\ wire[i].text \in Nat
    BY ItemFacts
  <2>4. Ends[i] \in Nat /\ Ends[i - 1] \in Nat
    BY <2>1, ItemFacts
  <2> QED BY <2>2, <2>3, <2>4
<1>2. ASSUME NEW p \in Ends[i - 1] + 1 .. Ends[i]
      PROVE  /\ Item(p) = i
             /\ IsLF(p) <=> p = Ends[i]
             /\ IsCR(p) <=> p = Ends[i] - 1
             /\ IsText(p) <=> p < Ends[i] - 1
  <2>1. Item(p) = i
    BY ItemAt
  <2>2. (IsLF(p) <=> p = Ends[i]) /\ (IsCR(p) <=> p = Ends[i] - 1)
    BY <2>1 DEF IsLF, IsCR
  <2>3. p \in Int /\ p <= Ends[i]
    BY <1>1
  <2> QED BY <1>1, <2>1, <2>2, <2>3 DEF IsText
<1> QED BY <1>1, <1>2

\* What the bytes of item i, a line, make.
LEMMA WholeLine ==
    ASSUME client \in 1 .. Len(Wires), WholeRequests(wire),
           NEW i \in 1 .. Len(wire), wire[i].kind # "body"
    PROVE  /\ LineOf(Ends[i - 1], Ends[i]).kind = wire[i].kind
           /\ wire[i].kind # "blank" => LineOf(Ends[i - 1], Ends[i]).item = i
<1> DEFINE a == Ends[i - 1]
           b == Ends[i]
           text == {p \in a + 1 .. b : IsText(p)}
<1>1. a \in Nat /\ b \in Nat /\ b = a + wire[i].text + 2 /\ wire[i].text \in Nat
  <2>1. i \in 0 .. Len(wire) /\ i - 1 \in 0 .. Len(wire)
    BY ItemFacts
  <2> QED BY <2>1, ItemFacts, LineBytes
<1>2. \A p \in a + 1 .. b : Item(p) = i /\ (IsText(p) <=> p < b - 1)
  BY LineBytes
<1>3. wire[i].kind = "blank" <=> wire[i].text = 0
  BY DEF WholeRequests
<1> HIDE DEF a, b
<1>4. CASE wire[i].text = 0
  <2>1. text = {}
    BY <1>1, <1>2, <1>4
  <2> QED BY <1>3, <1>4, <2>1 DEF LineOf, a, b
<1>5. CASE wire[i].text # 0
  <2>1. a + 1 \in text /\ text \in SUBSET Nat
    BY <1>1, <1>2, <1>5
  <2>2. Least(text) \in text
    <3> HIDE DEF text
    <3> QED BY <2>1, LeastOfNaturals
  <2>3. Item(Least(text)) = i
    BY <1>2, <2>2
  <2>4. LineOf(a, b) = [kind |-> wire[i].kind, item |-> i]
    <3>1. text # {} /\ a = Ends[Item(Least(text)) - 1]
      BY <2>1, <2>3 DEF a
    <3> QED BY <2>3, <3>1 DEF LineOf
  <2> QED BY <2>4 DEF a, b
<1> QED BY <1>4, <1>5

\* One call in a line, item k + 1, whose CR and LF are not cut apart: readLine
\* gives more of it, or all the rest of it.
LEMMA LineStep ==
    ASSUME TypeOK, FitsInv, status \in ReadsLines, Available > 0, WholeRequests(wire),
           NEW k \in 0 .. Len(wire), InLine(k),
           k < Len(wire) => wire[k + 1].kind # "body", ~IsCR(LineTo)
    PROVE  /\ k < Len(wire)
           /\ ~Collecting =>
                /\ LineTo = Ends[k + 1]
                /\ LineOf(lineStart, LineTo).kind = wire[k + 1].kind
                /\ wire[k + 1].kind # "blank" => LineOf(lineStart, LineTo).item = k + 1
<1> DEFINE n == Len(wire)
<1>1. client \in 1 .. Len(Wires)
  BY DEF TypeOK
<1>2. n \in Nat /\ Total = Ends[n] /\ Ends \in [0 .. n -> Nat]
  BY <1>1, ItemFacts
<1>3. /\ pos \in Nat /\ arrived \in Nat /\ lineStart \in Nat
      /\ lineStart <= pos /\ pos < arrived /\ arrived <= Total /\ lineStart = Ends[k]
  BY <1>2 DEF TypeOK, Available, InLine
<1>4. k < n
  BY <1>2, <1>3
<1> DEFINE i == k + 1
           a == Ends[k]
           b == Ends[i]
<1>5. i \in 1 .. n /\ i - 1 = k /\ wire[i].kind # "body"
  BY <1>2, <1>4
<1> HIDE DEF n
<1>6. /\ a \in Nat /\ b \in Nat /\ b >= a + 2
      /\ \A p \in a + 1 .. b :
            (IsLF(p) <=> p = b) /\ (IsCR(p) <=> p = b - 1) /\ (IsText(p) <=> p < b - 1)
  <2>1. i \in 1 .. Len(wire)
    BY <1>5 DEF n
  <2>2. /\ b = Ends[i - 1] + wire[i].text + 2
        /\ \A p \in Ends[i - 1] + 1 .. b :
            (IsLF(p) <=> p = b) /\ (IsCR(p) <=> p = b - 1) /\ (IsText(p) <=> p < b - 1)
    BY <1>1, <1>5, <2>1, LineBytes
  <2>3. wire[i].text \in Nat
    BY <1>1, <2>1, ItemFacts
  <2>4. a \in Nat /\ b \in Nat
    BY <1>2, <1>4, <1>5
  <2> QED BY <1>5, <2>2, <2>3, <2>4
<1> HIDE DEF i
<1>7. pos < b - 1
  <2>1. ASSUME pos >= b - 1 PROVE FALSE
    <3>1. b - 1 \in a + 1 .. pos /\ b - 1 \in a + 1 .. b
      BY <1>3, <1>6, <2>1
    <3>2. ~IsText(b - 1)
      BY <1>6, <3>1
    <3> QED BY <1>3, <3>1, <3>2 DEF InLine, HasBreak
  <2> QED BY <1>3, <1>6, <2>1
<1>8. LineTo \in pos .. arrived /\ \A p \in pos + 1 .. arrived : IsLF(p) => LineTo <= p
  BY LineAhead
<1>9. LineTo <= b
  <2>1. CASE b <= arrived
    <3>1. b \in pos + 1 .. arrived /\ b \in a + 1 .. b
      BY <1>3, <1>6, <1>7, <2>1
    <3> QED BY <1>6, <1>8, <3>1
  <2>2. CASE ~(b <= arrived)
    BY <1>3, <1>6, <1>8, <2>2
  <2> QED BY <2>1, <2>2
<1>10. ASSUME ~Collecting PROVE LineTo = b
  <2>1. PICK p \in lineStart + 1 .. LineTo : ~IsText(p)
    BY <1>10 DEF Collecting, HasBreak
  <2>2. p \in a + 1 .. b /\ p <= LineTo
    BY <1>3, <1>6, <1>8, <1>9, <2>1
  <2>3. p >= b - 1
    BY <1>6, <2>1, <2>2
  <2>4. LineTo # b - 1
    <3>1. b - 1 \in a + 1 .. b
      BY <1>6
    <3> QED BY <1>6, <3>1
  <2> QED BY <1>3, <1>6, <1>8, <1>9, <2>2, <2>3, <2>4
<1>11. /\ LineOf(a, b).kind = wire[i].kind
       /\ wire[i].kind # "blank" => LineOf(a, b).item = i
  BY <1>1, <1>5, WholeLine DEF n
<1> QED BY <1>3, <1>4, <1>10, <1>11 DEF i, n

\* A line's beginning in the buffer, after a step in the same stream.
LEMMA InLineNext ==
    ASSUME NEW k \in 0 .. Len(wire), NEW q, client' = client, lineStart' = Ends[k],
           pos' = q, ~HasBreak(Ends[k], q)
    PROVE  InLine(k)'
  BY DEF InLine, HasBreak, IsText, IsLF, IsCR, Item, Ends, wire

\* A line of which nothing is read.
LEMMA InLineFresh ==
    ASSUME client \in 1 .. Len(Wires), NEW k \in 0 .. Len(wire), client' = client,
           lineStart' = Ends[k], pos' = Ends[k]
    PROVE  InLine(k)'
<1>1. Ends[k] \in Nat
  BY ItemFacts
<1>2. ~HasBreak(Ends[k], Ends[k])
  BY <1>1 DEF HasBreak
<1> QED BY <1>2, InLineNext

\* A byte that ends item i ends a request just if item i does.
LEMMA RequestEndsAt ==
    ASSUME client \in 1 .. Len(Wires), WholeRequests(wire), NEW i \in 1 .. Len(wire)
    PROVE  Ends[i] \in RequestEnds <=> EndsRequest(i)
<1> DEFINE n == Len(wire)
           Last == {j \in 1 .. n : j = n \/ (j > 1 /\ wire[j + 1].kind \in Starts)}
<1>1. n \in Nat /\ Ends \in [0 .. n -> Nat]
  BY ItemFacts
<1>2. RequestEnds = {Ends[j] : j \in Last}
  BY DEF RequestEnds, Starts
<1>3. i \in Last <=> EndsRequest(i)
  BY <1>1 DEF EndsRequest, Followed
<1>4. ASSUME NEW j \in Last, Ends[j] = Ends[i] PROVE j = i
  <2>1. j \in 0 .. n /\ i \in 0 .. n /\ j \in Int /\ i \in Int
    BY <1>1
  <2>2. ~(j < i) /\ ~(i < j)
    BY <1>1, <1>4, <2>1, EndsIncrease
  <2> QED BY <2>1, <2>2
<1> HIDE DEF Last
<1> QED BY <1>2, <1>3, <1>4

\* A byte inside an item ends no request.
LEMMA NoEndInside ==
    ASSUME client \in 1 .. Len(Wires), WholeRequests(wire), NEW i \in 1 .. Len(wire),
           NEW p \in Nat, Ends[i - 1] < p, p < Ends[i]
    PROVE  p \notin RequestEnds
<1> DEFINE n == Len(wire)
<1>1. n \in Nat /\ Ends \in [0 .. n -> Nat]
  BY ItemFacts
<1>2. ASSUME NEW j \in 1 .. n, p = Ends[j] PROVE FALSE
  <2>1. j \in 0 .. n /\ i \in 0 .. n /\ i - 1 \in 0 .. n /\ j \in Int /\ i \in Int
    BY <1>1
  <2>2. Ends[j] \in Nat /\ Ends[i] \in Nat /\ Ends[i - 1] \in Nat
    BY <1>1, <2>1
  <2>3. j < i => j = i - 1 \/ Ends[j] < Ends[i - 1]
    BY <1>1, <2>1, EndsIncrease
  <2>4. i < j => Ends[i] < Ends[j]
    BY <2>1, EndsIncrease
  <2> QED BY <1>2, <2>1, <2>2, <2>3, <2>4
<1> QED BY <1>2 DEF RequestEnds

\* The items after the byte where item s ends, up to item t, which ends the next
\* request.
LEMMA ItemsBetween ==
    ASSUME client \in 1 .. Len(Wires), WholeRequests(wire),
           NEW s \in 0 .. Len(wire), NEW t \in 1 .. Len(wire), s < t, EndsRequest(t),
           \A j \in s + 1 .. t - 1 : ~EndsRequest(j)
    PROVE  ItemsAfter(Ends[s]) = s + 1 .. t
<1> DEFINE n == Len(wire)
<1>1. n \in Nat /\ Ends \in [0 .. n -> Nat] /\ s \in Int /\ t \in Int
  BY ItemFacts
<1>2. \A j, k \in 0 .. n : j < k => Ends[j] < Ends[k]
  BY EndsIncrease
<1>3. Ends[t] \in RequestEnds
  BY RequestEndsAt
<1>4. t \in 0 .. n /\ Ends[s] < Ends[t]
  BY <1>1, <1>2
<1>5. ASSUME NEW i \in ItemsAfter(Ends[s]) PROVE i \in s + 1 .. t
  <2>1. i \in 1 .. n /\ Ends[i] > Ends[s] /\ Ends[i] <= Ends[t]
    BY <1>3, <1>4 DEF ItemsAfter
  <2>2. i \in 0 .. n /\ i \in Int /\ Ends[i] \in Nat /\ Ends[s] \in Nat /\ Ends[t] \in Nat
    BY <1>1, <1>4, <2>1
  <2>3. ~(i < s) /\ i # s /\ ~(t < i)
    BY <1>2, <1>4, <2>1, <2>2
  <2> QED BY <1>1, <2>2, <2>3
<1>6. ASSUME NEW i \in s + 1 .. t PROVE i \in ItemsAfter(Ends[s])
  <2>1. i \in 1 .. n /\ i \in 0 .. n /\ s < i /\ i <= t
    BY <1>1, <1>4
  <2>2. Ends[i] > Ends[s]
    BY <1>1, <1>2, <2>1
  <2>3. ASSUME NEW e \in RequestEnds, e > Ends[s] PROVE Ends[i] <= e
    <3>1. PICK j \in 1 .. n : e = Ends[j]
      BY DEF RequestEnds
    <3>2. EndsRequest(j)
      BY <3>1, RequestEndsAt
    <3>3. j \in 0 .. n /\ j \in Int /\ Ends[j] \in Nat /\ Ends[i] \in Nat /\ Ends[s] \in Nat
      BY <1>1, <2>1, <3>1
    <3>4. ~(j < s) /\ j # s
      BY <1>2, <2>3, <3>1, <3>3
    <3>5. j \notin s + 1 .. t - 1
      BY <3>2
    <3>6. i = j \/ i < j
      BY <1>1, <2>1, <3>3, <3>4, <3>5
    <3> QED BY <1>2, <2>1, <3>1, <3>3, <3>6
  <2> QED BY <2>1, <2>2, <2>3 DEF ItemsAfter
<1> QED BY <1>5, <1>6

\* The number the parser takes from the headers of a whole request.
LEMMA LengthTold ==
    ASSUME TypeOK, WholeRequests(wire), NEW r \in 1 .. Len(wire), NEW b \in 1 .. Len(wire),
           IsRequest(wire, r, b), Took(r + 1, b)
    PROVE  /\ IF Followed(wire, b, {"body"}) THEN ContentLength = wire[b + 1].text
                                             ELSE ContentLength <= 0
           /\ ContentLength # 0 =>
                \E j \in r + 1 .. b : wire[j].kind = "length" /\ wire[j].value = ContentLength
<1> DEFINE lengths == {j \in r + 1 .. b - 1 : wire[j].kind = "length"}
<1>1. Len(wire) \in Nat
  BY ItemFacts DEF TypeOK
<1>2. IF Followed(wire, b, {"body"})
      THEN /\ lengths # {}
           /\ \A j \in lengths : wire[j].value = wire[b + 1].text /\ ~Continued(j)
      ELSE \A j \in lengths : wire[j].value <= 0
  BY DEF WholeRequests, TellsLength, Followed, Continued
<1>3. \A j \in r + 1 .. b : wire[j].kind = "length" => j \in lengths
  BY <1>1 DEF IsRequest
<1>4. CASE HasHeader("length")
  <2>1. PICK i \in 1 .. Len(headers) :
            LastHeader("length") = headers[i] /\ wire[headers[i]].kind = "length"
    BY <1>4, LastHeaderIsOne
  <2> DEFINE j == headers[i]
  <2>2. ContentLength = IF Continued(j) THEN 0 ELSE wire[j].value
    BY <1>4, <2>1 DEF ContentLength
  <2>3. j \in r + 1 .. b
    BY <2>1 DEF Took
  <2>4. j \in lengths
    BY <1>3, <2>1, <2>3
  <2> HIDE DEF j
  <2> QED BY <1>2, <2>1, <2>2, <2>3, <2>4 DEF j
<1>5. CASE ~HasHeader("length")
  <2>1. ContentLength = 0
    BY <1>5 DEF ContentLength
  <2>2. ASSUME NEW j \in lengths PROVE FALSE
    <3>1. j \in r + 1 .. b /\ wire[j].kind \in HeaderKinds /\ wire[j].kind = "length"
      BY <1>1 DEF HeaderKinds
    <3>2. PICK i \in 1 .. Len(headers) : headers[i] = j
      BY <3>1 DEF Took
    <3> QED BY <1>5, <3>1, <3>2 DEF HasHeader
  <2> QED BY <1>2, <2>1, <2>2
<1> QED BY <1>4, <1>5

\* In the same stream, with nothing served, the last request ended where it did.
LEMMA BetweenStays ==
    ASSUME NEW s \in 0 .. Len(wire), Between(s), UNCHANGED <<client, served>>
    PROVE  Between(s)'
  BY DEF Between, EndsRequest, Followed, Ends, wire

\* A step that leaves the request alone leaves its parts.
LEMMA PartsStay ==
    ASSUME NEW s \in 0 .. Len(wire), Parts(s),
           UNCHANGED <<client, pos, lineStart, status, expectedBodySize, headers, bodyStart, bodySize>>
    PROVE  Parts(s)'
<1>1. wire' = wire /\ Ends' = Ends
  BY DEF wire, Ends
<1>2. \A k : InLine(k) => InLine(k)'
  BY DEF InLine, HasBreak, IsText, IsLF, IsCR, Item, Ends, wire
<1>3. \A a, b : Took(a, b) => Took(a, b)'
  BY <1>1 DEF Took
<1>4. ContentLength' = ContentLength
  BY <1>1 DEF ContentLength, HasHeader, LastHeader, IsLast, Continued
<1>5. AwaitsRequest(s) => AwaitsRequest(s)'
  BY <1>1, <1>2 DEF AwaitsRequest, BeginsAt
<1>6. AwaitsHeader(s) => AwaitsHeader(s)'
  BY <1>1, <1>2, <1>3 DEF AwaitsHeader, BeginsAt
<1>7. \A r, b : HeadRead(s, r, b) => HeadRead(s, r, b)'
  BY <1>1, <1>3, <1>4 DEF HeadRead, BeginsAt, IsRequest
<1>8. (AwaitsBody => AwaitsBody') /\ (HasBody => HasBody')
  BY DEF AwaitsBody, HasBody
<1> QED BY <1>1, <1>5, <1>6, <1>7, <1>8 DEF Parts

\* One item more, and its header if it is one.
LEMMA TookNext ==
    ASSUME TypeOK, NEW a \in Nat, NEW k \in 1 .. Len(wire), a <= k, Took(a, k - 1),
           headers' = IF wire[k].kind \in HeaderKinds THEN Append(headers, k) ELSE headers,
           client' = client
    PROVE  Took(a, k)'
<1>1. wire' = wire
  BY DEF wire
<1>2. headers \in Seq(1 .. Len(wire)) /\ Len(headers) \in Nat
  BY DEF TypeOK
<1>3. {headers[i] : i \in 1 .. Len(headers)} = {j \in a .. k - 1 : wire[j].kind \in HeaderKinds}
  BY DEF Took
<1>4. CASE wire[k].kind \in HeaderKinds
  <2>1. headers' = Append(headers, k)
    BY <1>4
  <2>2. /\ Len(headers') = Len(headers) + 1 /\ headers'[Len(headers) + 1] = k
        /\ \A i \in 1 .. Len(headers) : headers'[i] = headers[i]
    BY <1>2, <2>1, AppendProperties
  <2>3. {headers'[i] : i \in 1 .. Len(headers')} = {headers[i] : i \in 1 .. Len(headers)} \cup {k}
    BY <1>2, <2>2
  <2>4. {j \in a .. k : wire[j].kind \in HeaderKinds}
            = {j \in a .. k - 1 : wire[j].kind \in HeaderKinds} \cup {k}
    BY <1>4
  <2> QED BY <1>1, <1>3, <2>3, <2>4 DEF Took
<1>5. CASE wire[k].kind \notin HeaderKinds
  <2>1. {j \in a .. k : wire[j].kind \in HeaderKinds}
            = {j \in a .. k - 1 : wire[j].kind \in HeaderKinds}
    BY <1>5
  <2> QED BY <1>1, <1>3, <1>5, <2>1 DEF Took
<1> QED BY <1>4, <1>5

\* One call in the first line of a request.
LEMMA ReadRequestParts ==
    ASSUME TypeOK, FitsInv, WholeRequests(wire), NEW s \in 0 .. Len(wire), Between(s), Parts(s),
           ReadRequest, ~brokenLineEnd', UNCHANGED Around
    PROVE  Parts(s)'
<1>1. /\ status = "waitForRequest" /\ Available > 0 /\ TakeLine /\ UNCHANGED headers
      /\ client' = client /\ client \in 1 .. Len(Wires)
  BY DEF ReadRequest, Around, TypeOK
<1>2. headers = <<>>
  BY <1>1 DEF Parts, AwaitsRequest
<1>3. PICK k \in 0 .. Len(wire) : BeginsAt(s, k + 1) /\ InLine(k)
  BY <1>1 DEF Parts, AwaitsRequest
<1>4. Len(wire) \in Nat /\ wire' = wire /\ Ends' = Ends
  BY <1>1, ItemFacts DEF wire, Ends
<1>5. k < Len(wire) => wire[k + 1].kind \in Starts \cup {"blank"}
                       /\ (wire[k + 1].kind = "blank" => s = 0 /\ k = 0)
  <2>1. SUFFICES ASSUME k < Len(wire)
        PROVE  wire[k + 1].kind \in Starts \/ (wire[k + 1].kind = "blank" /\ s = 0 /\ k = 0)
    BY DEF Starts
  <2>2. 1 \in 1 .. Len(wire)
    BY <1>4, <2>1
  <2>3. wire[1].kind \in Starts \/ (wire[1].kind = "blank" /\ Followed(wire, 1, Starts))
    BY <2>2 DEF WholeRequests
  <2>4. CASE k = s /\ s = 0
    BY <2>3, <2>4
  <2>5. CASE k = s /\ s > 1
    BY <2>1, <2>5 DEF Between, EndsRequest, Followed
  <2>6. CASE s = 0 /\ k = 1 /\ wire[1].kind = "blank"
    BY <2>3, <2>6 DEF Followed, Starts
  <2>7. s = 0 \/ s > 1
    BY DEF Between
  <2> QED BY <1>3, <1>4, <2>4, <2>5, <2>6, <2>7 DEF BeginsAt
<1>6. ~IsCR(LineTo) /\ pos' = LineTo
      /\ lineStart' = IF HasBreak(lineStart, LineTo) THEN LineTo ELSE lineStart
  BY <1>1 DEF TakeLine
<1>7. /\ k < Len(wire)
      /\ ~Collecting => LineTo = Ends[k + 1] /\ LineOf(lineStart, LineTo).kind = wire[k + 1].kind
  <2>1. status \in ReadsLines
    BY <1>1 DEF ReadsLines
  <2>2. k < Len(wire) => wire[k + 1].kind # "body"
    BY <1>5 DEF Starts
  <2> QED BY <1>1, <1>3, <1>6, <2>1, <2>2, LineStep
<1>8. k + 1 \in 1 .. Len(wire) /\ k + 1 \in 0 .. Len(wire)
  BY <1>4, <1>7
<1> DEFINE line == LineOf(lineStart, LineTo).kind
           new == IF Collecting \/ line = "blank" THEN status
                  ELSE IF line = "request" THEN "waitForHeader" ELSE "abort"
<1>9. status' \in {new, "abort"}
  BY DEF ReadRequest, Settles
<1>10. CASE Collecting
  <2>1. status' \in {"waitForRequest", "abort"}
    BY <1>1, <1>9, <1>10
  <2>2. lineStart' = lineStart /\ lineStart = Ends[k] /\ ~HasBreak(Ends[k], LineTo)
    BY <1>3, <1>6, <1>10 DEF Collecting, InLine
  <2>3. InLine(k)'
    BY <1>1, <1>6, <2>2, InLineNext
  <2>4. AwaitsRequest(s)'
    BY <1>1, <1>2, <1>3, <1>4, <2>3 DEF AwaitsRequest, BeginsAt
  <2> QED BY <2>1, <2>4 DEF Parts
<1>11. CASE ~Collecting
  <2>1. lineStart' = Ends[k + 1] /\ pos' = Ends[k + 1] /\ line = wire[k + 1].kind
    BY <1>6, <1>7, <1>11 DEF Collecting
  <2>2. InLine(k + 1)'
    BY <1>1, <1>8, <2>1, InLineFresh
  <2>3. CASE line = "blank"
    <3>1. status' \in {"waitForRequest", "abort"}
      BY <1>1, <1>9, <2>3
    <3>2. s = 0 /\ k = 0 /\ wire[1].kind = "blank"
      <4>1. s = 0 /\ k = 0 /\ wire[k + 1].kind = "blank"
        BY <1>5, <1>7, <2>1, <2>3
      <4>2. k + 1 = 1
        BY <4>1
      <4> QED BY <4>1, <4>2
    <3>3. BeginsAt(s, 2)
      BY <3>2 DEF BeginsAt
    <3>4. AwaitsRequest(s)'
      BY <1>1, <1>2, <1>4, <1>8, <2>2, <3>2, <3>3 DEF AwaitsRequest, BeginsAt
    <3> QED BY <3>1, <3>4 DEF Parts
  <2>4. CASE line = "request"
    <3>1. status' \in {"waitForHeader", "abort"}
      BY <1>9, <1>11, <2>4
    <3>2. Took(k + 2, k + 1)'
      BY <1>1, <1>2, <1>4 DEF Took
    <3>3. BeginsAt(s, k + 1)' /\ wire'[k + 1].kind = "request"
      BY <1>3, <1>4, <2>1, <2>4 DEF BeginsAt
    <3>4. AwaitsHeader(s)'
      BY <1>4, <1>8, <2>2, <3>2, <3>3 DEF AwaitsHeader
    <3> QED BY <3>1, <3>4 DEF Parts
  <2>5. CASE line \notin {"blank", "request"}
    <3>1. status' = "abort"
      BY <1>9, <1>11, <2>5
    <3> QED BY <3>1 DEF Parts
  <2> QED BY <2>3, <2>4, <2>5
<1> QED BY <1>10, <1>11

\* One call in the headers of a request.
LEMMA ReadHeaderParts ==
    ASSUME TypeOK, FitsInv, WholeRequests(wire), NEW s \in 0 .. Len(wire), Parts(s),
           ReadHeader, ~brokenLineEnd', UNCHANGED Around
    PROVE  Parts(s)'
<1>1. /\ status = "waitForHeader" /\ Available > 0 /\ TakeLine
      /\ client' = client /\ client \in 1 .. Len(Wires) /\ bodySize = 0
  BY DEF ReadHeader, Around, TypeOK, FitsInv, ReadsLines
<1>2. PICK r \in 1 .. Len(wire), k \in 1 .. Len(wire) :
        /\ r <= k /\ BeginsAt(s, r) /\ wire[r].kind = "request"
        /\ \A j \in r + 1 .. k : wire[j].kind \in LineKinds
        /\ InLine(k) /\ Took(r + 1, k)
  BY <1>1 DEF Parts, AwaitsHeader
<1>3. Len(wire) \in Nat /\ wire' = wire /\ Ends' = Ends /\ k \in 0 .. Len(wire)
  BY <1>1, ItemFacts DEF wire, Ends
<1>4. k < Len(wire) /\ wire[k + 1].kind \in LineKinds \cup {"blank"}
  <2>1. k = r \/ k \in r + 1 .. k
    BY <1>2, <1>3
  <2>2. wire[k].kind \in LineKinds \cup {"request"}
    BY <1>2, <2>1
  <2> QED BY <2>2 DEF WholeRequests, Followed
<1>5. ~IsCR(LineTo) /\ pos' = LineTo
      /\ lineStart' = IF HasBreak(lineStart, LineTo) THEN LineTo ELSE lineStart
  BY <1>1 DEF TakeLine
<1>6. ~Collecting =>
        /\ LineTo = Ends[k + 1]
        /\ LineOf(lineStart, LineTo).kind = wire[k + 1].kind
        /\ wire[k + 1].kind # "blank" => LineOf(lineStart, LineTo).item = k + 1
  <2>1. status \in ReadsLines
    BY <1>1 DEF ReadsLines
  <2>2. wire[k + 1].kind # "body"
    BY <1>4 DEF LineKinds, HeaderKinds
  <2> QED BY <1>1, <1>2, <1>3, <1>5, <2>1, <2>2, LineStep
<1>7. k + 1 \in 1 .. Len(wire) /\ k + 1 \in 0 .. Len(wire) /\ r + 1 \in Nat /\ r + 1 <= k + 1
      /\ k + 1 - 1 = k
  BY <1>2, <1>3, <1>4
<1>8. BeginsAt(s, r)'
  BY <1>2, <1>3 DEF BeginsAt
<1> DEFINE line == LineOf(lineStart, LineTo)
<1>9. CASE HeaderLine(line)
  <2>1. ~Collecting /\ line.kind # "blank" /\ status' \in {"waitForHeader", "abort"}
        /\ headers' = IF line.kind \in HeaderKinds THEN Append(headers, line.item) ELSE headers
    BY <1>1, <1>9 DEF HeaderLine, Settles
  <2>2. line.kind = wire[k + 1].kind /\ line.item = k + 1
    BY <1>6, <2>1
  <2>3. Took(r + 1, k + 1)'
    <3>1. headers' = IF wire[k + 1].kind \in HeaderKinds THEN Append(headers, k + 1) ELSE headers
      BY <2>1, <2>2
    <3>2. Took(r + 1, k + 1 - 1)
      BY <1>2, <1>7
    <3> QED BY <1>1, <1>7, <3>1, <3>2, TookNext
  <2>4. InLine(k + 1)'
    <3>1. lineStart' = Ends[k + 1] /\ pos' = Ends[k + 1]
      BY <1>5, <1>6, <2>1 DEF Collecting
    <3> QED BY <1>1, <1>7, <3>1, InLineFresh
  <2>5. \A j \in r + 1 .. k + 1 : wire'[j].kind \in LineKinds
    <3>1. wire[k + 1].kind \in LineKinds
      BY <1>4, <2>1, <2>2
    <3>2. \A j \in r + 1 .. k + 1 : j \in r + 1 .. k \/ j = k + 1
      BY <1>3
    <3> QED BY <1>2, <1>3, <3>1, <3>2
  <2>6. AwaitsHeader(s)'
    <3>1. r \in 1 .. Len(wire') /\ k + 1 \in 1 .. Len(wire') /\ r <= k + 1
          /\ wire'[r].kind = "request"
      BY <1>2, <1>3, <1>7
    <3> QED BY <1>8, <2>3, <2>4, <2>5, <3>1 DEF AwaitsHeader
  <2> QED BY <2>1, <2>6 DEF Parts
<1>10. CASE HeadersComplete(line)
  <2>1. /\ ~Collecting /\ line.kind = "blank" /\ bodyStart' = LineTo
        /\ expectedBodySize' = ContentLength /\ UNCHANGED <<headers, bodySize>>
    BY <1>10 DEF HeadersComplete
  <2>2. status' \in {"complete", "waitForBody", "abort"}
        /\ (status' = "complete" => ContentLength = 0)
        /\ (status' = "waitForBody" => ContentLength # 0)
    BY <1>10, <2>1 DEF HeadersComplete, Settles
  <2>3. wire[k + 1].kind = "blank" /\ LineTo = Ends[k + 1]
    BY <1>6, <2>1
  <2>4. IsRequest(wire, r, k + 1)
    <3>1. k + 1 \in r + 1 .. Len(wire)
      BY <1>3, <1>7
    <3> QED BY <1>2, <1>7, <2>3, <3>1 DEF IsRequest
  <2>5. Took(r + 1, k + 1)'
    <3>1. headers' = IF wire[k + 1].kind \in HeaderKinds THEN Append(headers, k + 1) ELSE headers
      BY <2>1, <2>3 DEF HeaderKinds
    <3>2. Took(r + 1, k + 1 - 1)
      BY <1>2, <1>7
    <3> QED BY <1>1, <1>7, <3>1, <3>2, TookNext
  <2>6. ContentLength' = ContentLength
    <3>1. wire' = wire /\ headers' = headers
      BY <1>3, <2>1
    <3> QED BY <3>1 DEF ContentLength, HasHeader, LastHeader, IsLast, Continued
  <2>7. bodyStart' = Ends[k + 1] /\ pos' = bodyStart' + bodySize' /\ bodySize' = 0
    <3>1. Ends[k + 1] \in Nat
      BY <1>1, <1>7, ItemFacts
    <3> QED BY <1>1, <1>5, <2>1, <2>3, <3>1
  <2>8. HeadRead(s, r, k + 1)'
    <3>1. IsRequest(wire', r, k + 1) /\ Ends'[k + 1] = Ends[k + 1]
      BY <1>3, <2>4
    <3> QED BY <1>8, <2>1, <2>5, <2>6, <2>7, <3>1 DEF HeadRead
  <2>9. ContentLength \in Int
    BY ContentLengthIsInt
  <2>10. (status' = "waitForBody" => AwaitsBody') /\ (status' = "complete" => HasBody')
    BY <2>1, <2>2, <2>7, <2>9 DEF AwaitsBody, HasBody
  <2>11. \E a, b \in 1 .. Len(wire') : HeadRead(s, a, b)'
    BY <1>3, <1>7, <2>8
  <2> QED BY <2>2, <2>10, <2>11 DEF Parts
<1>11. CASE Collecting /\ Settles(status, Counted, boundary) /\ UNCHANGED headers
  <2>1. status' \in {"waitForHeader", "abort"}
    BY <1>1, <1>11 DEF Settles
  <2>2. lineStart' = lineStart /\ lineStart = Ends[k] /\ ~HasBreak(Ends[k], LineTo)
    BY <1>2, <1>5, <1>11 DEF Collecting, InLine
  <2>3. InLine(k)'
    BY <1>1, <1>3, <1>5, <2>2, InLineNext
  <2>4. Took(r + 1, k)'
    BY <1>2, <1>3, <1>11 DEF Took
  <2>5. AwaitsHeader(s)'
    BY <1>2, <1>3, <1>8, <2>3, <2>4 DEF AwaitsHeader
  <2> QED BY <2>1, <2>5 DEF Parts
<1> QED BY <1>9, <1>10, <1>11 DEF ReadHeader

\* Some more of a body, or none of one whose length is negative.
LEMMA BodyParts ==
    ASSUME TypeOK, NEW s \in 0 .. Len(wire), Parts(s), status = "waitForBody",
           NEW n \in Nat, pos' = pos + n, bodySize' = bodySize + n,
           expectedBodySize > 0 => n <= expectedBodySize - bodySize,
           expectedBodySize < 0 => n = 0,
           status' \in {"waitForBody", "complete", "abort"},
           status' = "waitForBody" => bodySize' < expectedBodySize,
           status' = "complete" => bodySize' >= expectedBodySize,
           UNCHANGED <<client, headers, bodyStart, expectedBodySize>>
    PROVE  Parts(s)'
<1>1. wire' = wire /\ Ends' = Ends
  BY DEF wire, Ends
<1>2. PICK r, b \in 1 .. Len(wire) : HeadRead(s, r, b)
  BY DEF Parts
<1>3. bodySize \in Nat /\ pos \in Int /\ bodyStart \in Int /\ expectedBodySize \in Int
  BY StreamFacts DEF TypeOK
<1>4. HeadRead(s, r, b)'
  <2>1. ContentLength' = ContentLength
    BY <1>1 DEF ContentLength, HasHeader, LastHeader, IsLast, Continued
  <2>2. BeginsAt(s, r)' /\ Took(r + 1, b)' /\ IsRequest(wire', r, b)
    BY <1>1, <1>2 DEF HeadRead, BeginsAt, Took
  <2>3. bodyStart' = Ends'[b] /\ pos' = bodyStart' + bodySize'
    BY <1>1, <1>2, <1>3 DEF HeadRead
  <2> QED BY <1>2, <2>1, <2>2, <2>3 DEF HeadRead
<1>5. (status' = "waitForBody" => AwaitsBody') /\ (status' = "complete" => HasBody')
  <2>1. AwaitsBody
    BY DEF Parts
  <2> QED BY <1>3, <2>1 DEF AwaitsBody, HasBody
<1>6. \E a, c \in 1 .. Len(wire') : HeadRead(s, a, c)'
  BY <1>1, <1>4
<1> QED BY <1>5, <1>6 DEF Parts

\* QIODevice::read gives no more than is asked for, and nothing for a negative
\* number.
LEMMA ReadCountBounds ==
    ASSUME TypeOK, Available > 0, NEW n \in Int
    PROVE  /\ ReadCount(n) \in Nat /\ (n < 0 => ReadCount(n) = 0)
           /\ (n >= 0 => ReadCount(n) <= n)
<1>1. Available \in Int
  BY StreamFacts DEF TypeOK, Available
<1>2. CASE n < 0
  BY <1>2 DEF ReadCount
<1>3. CASE n >= 0
  <2>1. Least({n, Available}) \in {n, Available} /\ Least({n, Available}) <= n
    BY <1>1, LeastOfTwo
  <2> QED BY <1>1, <1>3, <2>1 DEF ReadCount
<1> QED BY <1>2, <1>3

\* One call in a body without a boundary.
LEMMA ReadBodyParts ==
    ASSUME TypeOK, NEW s \in 0 .. Len(wire), Parts(s), ReadBody, UNCHANGED Around
    PROVE  Parts(s)'
<1> DEFINE n == ReadCount(expectedBodySize - bodySize)
<1>1. /\ status = "waitForBody" /\ Available > 0 /\ client' = client
      /\ pos' = pos + n /\ bodySize' = bodySize + n
      /\ Settles(IF bodySize + n >= expectedBodySize THEN "complete" ELSE status,
                 currentSize + n, boundary)
      /\ UNCHANGED <<headers, bodyStart, expectedBodySize>>
  BY DEF ReadBody, Around
<1>2. bodySize \in Nat /\ expectedBodySize \in Int /\ AwaitsBody
  BY <1>1 DEF TypeOK, Parts
<1>3. n \in Nat /\ (expectedBodySize > 0 => n <= expectedBodySize - bodySize)
      /\ (expectedBodySize < 0 => n = 0)
  <2>1. expectedBodySize - bodySize \in Int
    BY <1>2
  <2>2. /\ n \in Nat /\ (expectedBodySize - bodySize < 0 => n = 0)
        /\ (expectedBodySize - bodySize >= 0 => n <= expectedBodySize - bodySize)
    BY <1>1, <2>1, ReadCountBounds
  <2> HIDE DEF n
  <2> QED BY <1>2, <2>2 DEF AwaitsBody
<1> HIDE DEF n
<1>4. /\ status' \in {"waitForBody", "complete", "abort"}
      /\ status' = "waitForBody" => bodySize' < expectedBodySize
      /\ status' = "complete" => bodySize' >= expectedBodySize
  BY <1>1, <1>2, <1>3 DEF Settles
<1> QED BY <1>1, <1>3, <1>4, BodyParts

\* One call in a body with a boundary.
LEMMA ReadMultiPartParts ==
    ASSUME TypeOK, NEW s \in 0 .. Len(wire), Parts(s), ReadMultiPart, UNCHANGED Around
    PROVE  Parts(s)'
<1> DEFINE asked == Least({expectedBodySize - bodySize, Block})
           n == ReadCount(asked)
           done == bodySize + n < MaxMultiPartSize /\ bodySize + n >= expectedBodySize
           counted == IF done THEN currentSize + FieldBytes ELSE currentSize
<1>1. /\ status = "waitForBody" /\ Available > 0 /\ client' = client
      /\ pos' = pos + n /\ bodySize' = bodySize + n
      /\ Settles(IF bodySize + n >= MaxMultiPartSize THEN "abort"
                 ELSE IF done THEN "complete" ELSE status,
                 counted, boundary)
      /\ UNCHANGED <<headers, bodyStart, expectedBodySize>>
  BY DEF ReadMultiPart, Around
<1>2. bodySize \in Nat /\ expectedBodySize \in Int /\ AwaitsBody
  BY <1>1 DEF TypeOK, Parts
<1>3. n \in Nat /\ (expectedBodySize > 0 => n <= expectedBodySize - bodySize)
      /\ (expectedBodySize < 0 => n = 0)
  <2>1. expectedBodySize - bodySize \in Int /\ Block \in Int /\ Block > 0
    BY <1>2
  <2>2. asked \in {expectedBodySize - bodySize, Block} /\ asked <= expectedBodySize - bodySize
    BY <2>1, LeastOfTwo
  <2> HIDE DEF asked
  <2>3. asked \in Int
    BY <2>1, <2>2
  <2>4. n \in Nat /\ (asked < 0 => n = 0) /\ (asked >= 0 => n <= asked)
    BY <1>1, <2>3, ReadCountBounds
  <2> HIDE DEF n
  <2> QED BY <1>2, <2>1, <2>2, <2>3, <2>4 DEF AwaitsBody
<1> HIDE DEF n
<1>4. /\ status' \in {"waitForBody", "complete", "abort"}
      /\ status' = "waitForBody" => bodySize' < expectedBodySize
      /\ status' = "complete" => bodySize' >= expectedBodySize
  <2>1. status' \in {"abort", IF bodySize + n >= MaxMultiPartSize THEN "abort"
                              ELSE IF done THEN "complete" ELSE status}
    BY <1>1 DEF Settles
  <2> QED BY <1>1, <1>2, <1>3, <2>1
<1> QED BY <1>1, <1>3, <1>4, BodyParts

\* The last item of a request with its blank line at b.
LastItem(b) == IF Followed(wire, b, {"body"}) THEN b + 1 ELSE b

\* A request in a stream of whole ones ends where its body does, and nowhere
\* before.
LEMMA RequestItems ==
    ASSUME client \in 1 .. Len(Wires), WholeRequests(wire),
           NEW s \in 0 .. Len(wire), NEW r \in 1 .. Len(wire), NEW b \in 1 .. Len(wire),
           BeginsAt(s, r), IsRequest(wire, r, b)
    PROVE  /\ LastItem(b) \in 1 .. Len(wire) /\ LastItem(b) > 1 /\ s < LastItem(b)
           /\ EndsRequest(LastItem(b))
           /\ ItemsAfter(Ends[s]) = s + 1 .. LastItem(b)
<1> DEFINE n == Len(wire)
           t == LastItem(b)
<1>1. n \in Nat /\ s \in Nat /\ r \in Nat /\ b \in Nat
  BY ItemFacts
<1>2. s < r /\ r < b /\ b <= n /\ wire[b].kind = "blank"
  BY <1>1 DEF BeginsAt, IsRequest
<1>3. t \in 1 .. n /\ t > 1 /\ s < t
  BY <1>1, <1>2 DEF LastItem, Followed
<1>4. EndsRequest(t)
  <2>1. CASE Followed(wire, b, {"body"})
    <3>1. t = b + 1 /\ wire[t].kind = "body"
      BY <2>1 DEF LastItem, Followed
    <3>2. t = Len(wire) \/ Followed(wire, t, Starts)
      BY <1>3, <3>1 DEF WholeRequests
    <3> QED BY <1>3, <3>2 DEF EndsRequest
  <2>2. CASE ~Followed(wire, b, {"body"})
    <3>1. t = b
      BY <2>2 DEF LastItem
    <3>2. b = Len(wire) \/ Followed(wire, b, Starts \cup {"body"})
      BY <1>2 DEF WholeRequests
    <3>3. b = Len(wire) \/ Followed(wire, b, Starts)
      BY <2>2, <3>2 DEF Followed
    <3> QED BY <1>3, <3>1, <3>3 DEF EndsRequest
  <2> QED BY <2>1, <2>2
<1>5. ASSUME NEW j \in s + 1 .. t - 1 PROVE ~EndsRequest(j)
  <2>1. CASE j < r
    <3>1. j = 1
      BY <1>1, <2>1 DEF BeginsAt
    <3> QED BY <1>1, <1>2, <2>1, <3>1 DEF EndsRequest
  <2>2. CASE r <= j /\ j < b
    <3>1. j \in 1 .. Len(wire) /\ (j = r \/ j \in r + 1 .. b - 1)
      BY <1>1, <1>2, <2>2
    <3>2. wire[j].kind \in LineKinds \cup {"request"}
      BY <3>1 DEF IsRequest
    <3>3. Followed(wire, j, LineKinds \cup {"blank"})
      BY <3>1, <3>2 DEF WholeRequests
    <3> QED BY <1>1, <3>1, <3>3 DEF EndsRequest, Followed, LineKinds, HeaderKinds, Starts
  <2>3. CASE b <= j
    <3>1. j = b /\ Followed(wire, b, {"body"})
      BY <1>1, <2>3 DEF LastItem
    <3> QED BY <1>1, <3>1 DEF EndsRequest, Followed, Starts
  <2> QED BY <1>1, <2>1, <2>2, <2>3
<1>6. ItemsAfter(Ends[s]) = s + 1 .. t
  BY <1>3, <1>4, <1>5, ItemsBetween
<1> QED BY <1>3, <1>4, <1>6

\* A request with its head and all of its body read is read to its last byte.
LEMMA ReadWhole ==
    ASSUME TypeOK, WholeRequests(wire), NEW s \in 0 .. Len(wire),
           NEW r \in 1 .. Len(wire), NEW b \in 1 .. Len(wire), HeadRead(s, r, b), HasBody
    PROVE  pos = Ends[LastItem(b)]
<1>1. client \in 1 .. Len(Wires) /\ IsRequest(wire, r, b) /\ Took(r + 1, b) /\ BeginsAt(s, r)
      /\ pos = Ends[b] + bodySize /\ expectedBodySize = ContentLength
  BY DEF TypeOK, HeadRead
<1>2. Len(wire) \in Nat /\ Ends[b] \in Nat
  BY <1>1, ItemFacts
<1>3. CASE Followed(wire, b, {"body"})
  <2>1. b + 1 \in 1 .. Len(wire) /\ wire[b + 1].kind = "body"
    BY <1>2, <1>3 DEF Followed
  <2>2. wire[b + 1].text \in Nat /\ Ends[b + 1] = Ends[b + 1 - 1] + Size(wire[b + 1])
    BY <1>1, <2>1, ItemFacts
  <2>3. wire[b + 1].text # 0
    BY <2>1 DEF WholeRequests
  <2>4. ContentLength = wire[b + 1].text
    BY <1>1, <1>3, LengthTold
  <2>5. bodySize = wire[b + 1].text
    BY <1>1, <2>2, <2>3, <2>4 DEF HasBody
  <2>6. b + 1 - 1 = b /\ Size(wire[b + 1]) = wire[b + 1].text
    BY <2>1 DEF Size
  <2> QED BY <1>1, <1>3, <2>2, <2>5, <2>6 DEF LastItem
<1>4. CASE ~Followed(wire, b, {"body"})
  <2>1. ContentLength <= 0
    BY <1>1, <1>4, LengthTold
  <2>2. bodySize = 0
    BY <1>1, <2>1, ContentLengthIsInt DEF HasBody
  <2> QED BY <1>1, <1>2, <1>4, <2>2 DEF LastItem
<1> QED BY <1>3, <1>4

\* The invariant holds while a connection does what the parser has no part in.
LEMMA PartsFrame ==
    ASSUME PartsInv, place' = "waiting" => status' \notin {"complete", "abort"},
           UNCHANGED <<client, parserVars, served>>
    PROVE  PartsInv'
<1>1. wire' = wire
  BY DEF wire
<1>2. ASSUME WholeRequests(wire), ~brokenLineEnd
      PROVE  \E s \in 0 .. Len(wire) : Between(s)' /\ Parts(s)'
  <2>1. PICK s \in 0 .. Len(wire) : Between(s) /\ Parts(s)
    BY <1>2 DEF PartsInv
  <2> QED BY <2>1, BetweenStays, PartsStay DEF parserVars, requestVars
<1> QED BY <1>1, <1>2 DEF PartsInv, parserVars

\* Every step keeps the parts of the request in hand.
LEMMA PartsStep ==
    ASSUME TypeOK, FitsInv, PartsInv, [Next]_vars
    PROVE  PartsInv'
<1>1. CASE BeginRead
  <2>1. place = "waiting" /\ place' = "reading" /\ UNCHANGED <<client, pos, served, brokenLineEnd>>
    BY <1>1 DEF BeginRead
  <2>2. CASE status # "none"
    <3>1. UNCHANGED requestVars
      BY <1>1, <2>2 DEF BeginRead
    <3> QED BY <2>1, <3>1, PartsFrame DEF parserVars
  <2>3. CASE status = "none"
    <3>1. FreshRequest /\ pos = served
      BY <1>1, <2>1, <2>3 DEF BeginRead, FitsInv
    <3>2. wire' = wire /\ client \in 1 .. Len(Wires)
      BY <2>1 DEF wire, TypeOK
    <3>3. ASSUME WholeRequests(wire), ~brokenLineEnd
          PROVE  \E s \in 0 .. Len(wire) : Between(s)' /\ Parts(s)'
      <4>1. PICK s \in 0 .. Len(wire) : Between(s)
        BY <3>3 DEF PartsInv
      <4>2. lineStart' = Ends[s] /\ pos' = Ends[s] /\ headers' = <<>> /\ status' = "waitForRequest"
        BY <2>1, <3>1, <4>1 DEF FreshRequest, Between
      <4>3. InLine(s)'
        BY <2>1, <3>2, <4>2, InLineFresh
      <4>4. BeginsAt(s, s + 1)'
        BY DEF BeginsAt
      <4>5. Parts(s)'
        BY <3>2, <4>2, <4>3, <4>4 DEF Parts, AwaitsRequest
      <4> QED BY <2>1, <4>1, <4>5, BetweenStays
    <3> QED BY <2>1, <3>2, <3>3 DEF PartsInv
  <2> QED BY <2>2, <2>3
<1>2. CASE Collect
  <2>1. place = "reading" /\ place' = "reading" /\ ReadFromSocket /\ UNCHANGED Around
        /\ wire' = wire /\ UNCHANGED <<client, served>>
    BY <1>2 DEF Collect, Around, wire
  <2>2. ASSUME WholeRequests(wire), ~brokenLineEnd'
        PROVE  \E s \in 0 .. Len(wire) : Between(s)' /\ Parts(s)'
    <3>1. ~brokenLineEnd
      BY <2>1, <2>2 DEF ReadFromSocket, ReadRequest, ReadHeader, ReadBody, ReadMultiPart, TakeLine
    <3>2. PICK s \in 0 .. Len(wire) : Between(s) /\ Parts(s)
      BY <2>2, <3>1 DEF PartsInv
    <3>3. Parts(s)'
      BY <2>1, <2>2, <3>2, ReadRequestParts, ReadHeaderParts, ReadBodyParts, ReadMultiPartParts
         DEF ReadFromSocket
    <3> QED BY <2>1, <3>2, <3>3, BetweenStays
  <2> QED BY <2>1, <2>2 DEF PartsInv
<1>3. CASE WaitForMore
  BY <1>3, PartsFrame DEF WaitForMore, parserVars, requestVars
<1>4. CASE RejectRequest
  <2>1. place' = "closed" /\ status' = "none" /\ wire' = wire
        /\ UNCHANGED <<client, served, brokenLineEnd>>
    BY <1>4 DEF RejectRequest, wire
  <2>2. ASSUME NEW s \in 0 .. Len(wire) PROVE Parts(s)'
    BY <2>1 DEF Parts
  <2> QED BY <2>1, <2>2, BetweenStays DEF PartsInv
<1>5. CASE Serve
  BY <1>5, PartsFrame DEF Serve
<1>6. ASSUME NEW name \in {"Connection", "connection"}, ServiceAsksToClose(name)
      PROVE  PartsInv'
  BY <1>6, PartsFrame DEF ServiceAsksToClose
<1>7. ASSUME NEW size \in 0 .. 1, NEW lastPart \in BOOLEAN, ServiceWrites(size, lastPart)
      PROVE  PartsInv'
  BY <1>7, PartsFrame DEF ServiceWrites
<1>8. CASE Finish
  <2>1. /\ status = "complete" /\ status' = "none" /\ served' = pos /\ wire' = wire /\ Ends' = Ends
        /\ UNCHANGED <<client, brokenLineEnd>> /\ client \in 1 .. Len(Wires)
    BY <1>8 DEF Finish, FitsInv, TypeOK, wire, Ends
  <2>2. ASSUME WholeRequests(wire), ~brokenLineEnd
        PROVE  \E t \in 0 .. Len(wire) : Between(t)' /\ Parts(t)'
    <3>1. PICK s \in 0 .. Len(wire) : Between(s) /\ Parts(s)
      BY <2>2 DEF PartsInv
    <3>2. PICK r, b \in 1 .. Len(wire) : HeadRead(s, r, b)
      BY <2>1, <3>1 DEF Parts
    <3>3. BeginsAt(s, r) /\ IsRequest(wire, r, b) /\ HasBody
      BY <2>1, <3>1, <3>2 DEF HeadRead, Parts
    <3> DEFINE t == LastItem(b)
    <3>4. pos = Ends[t]
      BY <2>2, <3>2, <3>3, ReadWhole
    <3>5. t \in 1 .. Len(wire) /\ t > 1 /\ EndsRequest(t)
      BY <2>1, <2>2, <3>3, RequestItems
    <3> HIDE DEF t
    <3>6. t \in 0 .. Len(wire)
      BY <2>1, <3>5, ItemFacts
    <3>7. PICK k \in 0 .. Len(wire) : k = t
      BY <3>6
    <3>8. Between(k)'
      <4>1. EndsRequest(k) /\ k > 1 /\ pos = Ends[k]
        BY <3>4, <3>5, <3>7
      <4> QED BY <2>1, <4>1 DEF Between, EndsRequest, Followed
    <3>9. Parts(k)'
      BY <2>1 DEF Parts
    <3> QED BY <3>8, <3>9
  <2> QED BY <2>1, <2>2 DEF PartsInv
<1>9. ASSUME NEW n \in 1 .. Total, Deliver(n) PROVE PartsInv'
  BY <1>9, PartsFrame DEF Deliver, PartsInv, parserVars, requestVars
<1>10. CASE UNCHANGED vars
  BY <1>10, PartsFrame DEF vars, PartsInv, parserVars, requestVars
<1> QED BY <1>1, <1>2, <1>3, <1>4, <1>5, <1>6, <1>7, <1>8, <1>9, <1>10 DEF Next, Read

\* Before the first byte nothing is read.
LEMMA InitParts == Init => PartsInv
<1> SUFFICES ASSUME Init PROVE PartsInv
  OBVIOUS
<1>1. client \in 1 .. Len(Wires) /\ status = "none" /\ served = 0
  BY DEF Init
<1>2. Len(wire) \in Nat /\ Ends[0] = 0
  BY <1>1, ItemFacts
<1>3. Between(0) /\ Parts(0)
  BY <1>1, <1>2 DEF Between, Parts
<1> QED BY <1>1, <1>2, <1>3 DEF PartsInv

\* HttpRequest::readFromSocket: when the client sends whole requests, and no cut
\* falls between a CR and its LF, each request that is served is one the client
\* sent, with all its headers and its whole body, however many requests came
\* before it on the connection and however the bytes are cut into deliveries.
THEOREM ServedAsSentAlways == Spec => [](WholeRequests(wire) => ServedAsSent)
<1>1. TypeOK /\ FitsInv /\ PartsInv => (WholeRequests(wire) => ServedAsSent)
  <2> SUFFICES ASSUME TypeOK, FitsInv, PartsInv, WholeRequests(wire),
                      place = "service", ~brokenLineEnd
               PROVE  ServedAsSent
    BY DEF ServedAsSent
  <2>1. status = "complete" /\ client \in 1 .. Len(Wires)
    BY DEF FitsInv, TypeOK
  <2>2. PICK s \in 0 .. Len(wire) : Between(s) /\ Parts(s)
    BY DEF PartsInv
  <2>3. PICK r, b \in 1 .. Len(wire) : HeadRead(s, r, b)
    BY <2>1, <2>2 DEF Parts
  <2>4. BeginsAt(s, r) /\ IsRequest(wire, r, b) /\ HasBody /\ served = Ends[s]
        /\ Took(r + 1, b) /\ bodyStart = Ends[b]
    BY <2>1, <2>2, <2>3 DEF HeadRead, Parts, Between
  <2> DEFINE t == LastItem(b)
  <2>5. t \in 1 .. Len(wire) /\ EndsRequest(t) /\ ItemsAfter(served) = s + 1 .. t
    BY <2>1, <2>4, RequestItems
  <2>6. pos \in RequestEnds
    <3>1. pos = Ends[t]
      BY <2>3, <2>4, ReadWhole
    <3> QED BY <2>1, <2>5, <3>1, RequestEndsAt
  <2>7. Len(wire) \in Nat /\ s \in Nat /\ r \in Nat /\ b \in Nat /\ s < r /\ r < b /\ b <= t
    <3>1. Len(wire) \in Nat
      BY <2>1, ItemFacts
    <3>2. s < r /\ r < b
      BY <2>4, <3>1 DEF BeginsAt, IsRequest
    <3> QED BY <3>1, <3>2 DEF LastItem
  <2>8. \A i \in s + 1 .. t :
            \/ i \in r + 1 .. b /\ wire[i].kind \in LineKinds \cup {"blank"}
            \/ i \notin r + 1 .. b /\ wire[i].kind \in {"blank", "request"}
            \/ i = b + 1 /\ wire[i].kind = "body"
    <3> TAKE i \in s + 1 .. t
    <3>1. CASE i \in r + 1 .. b
      <4>1. i \in r + 1 .. b - 1 \/ i = b
        BY <2>7, <3>1
      <4> QED BY <2>4, <3>1, <4>1 DEF IsRequest
    <3>2. CASE i = r
      BY <2>4, <2>7, <3>2 DEF IsRequest
    <3>3. CASE i < r
      <4>1. i = 1 /\ wire[1].kind = "blank"
        BY <2>4, <2>7, <3>3 DEF BeginsAt
      <4> QED BY <2>7, <3>3, <4>1
    <3>4. CASE b < i
      <4>1. i = b + 1 /\ wire[b + 1].kind = "body"
        BY <2>7, <3>4 DEF LastItem, Followed
      <4>2. wire[i].kind = "body"
        BY <4>1
      <4> QED BY <4>1, <4>2
    <3> QED BY <2>7, <3>1, <3>2, <3>3, <3>4
  <2>9. {i \in s + 1 .. t : wire[i].kind \in HeaderKinds}
            = {i \in r + 1 .. b : wire[i].kind \in HeaderKinds}
    <3>1. \A i \in r + 1 .. b : i \in s + 1 .. t
      BY <2>5, <2>7
    <3>2. \A i \in s + 1 .. t : wire[i].kind \in HeaderKinds => i \in r + 1 .. b
      BY <2>8 DEF HeaderKinds
    <3> QED BY <3>1, <3>2
  <2>10. ASSUME NEW i \in s + 1 .. t, wire[i].kind = "body" PROVE bodyStart = Ends[i - 1]
    <3>1. i = b + 1
      BY <2>8, <2>10 DEF LineKinds, HeaderKinds
    <3> QED BY <2>4, <2>7, <3>1
  <2> HIDE DEF t
  <2> QED BY <2>4, <2>5, <2>6, <2>9, <2>10 DEF ServedAsSent, Took
<1>2. TypeOK /\ FitsInv /\ PartsInv /\ [Next]_vars => TypeOK' /\ FitsInv' /\ PartsInv'
  BY StepFits, PartsStep
<1> QED BY InitFits, InitParts, <1>1, <1>2, PTL DEF Spec

\* HttpConnectionHandler::read: the handler never waits for more of a request
\* that the client has sent whole, with the length of its body: unless a CR was
\* read apart from its LF, the request was served or rejected.
THEOREM WholeRequestsAnsweredAlways ==
    Spec => [](WholeRequests(wire) => WholeRequestsAnswered)
<1>1. TypeOK /\ FitsInv /\ PartsInv => (WholeRequests(wire) => WholeRequestsAnswered)
  <2> SUFFICES ASSUME TypeOK, FitsInv, PartsInv, WholeRequests(wire), ~brokenLineEnd,
                      place = "waiting", pos \in RequestEnds, pos > served
               PROVE  ~HonestLength
    BY DEF WholeRequestsAnswered
  <2>1. client \in 1 .. Len(Wires) /\ status \notin {"complete", "abort"} /\ pos \in Nat
        /\ served \in Nat
    BY StreamFacts DEF PartsInv, TypeOK
  <2>2. PICK s \in 0 .. Len(wire) : Between(s) /\ Parts(s)
    BY DEF PartsInv
  <2>3. Len(wire) \in Nat /\ Ends \in [0 .. Len(wire) -> Nat]
    BY <2>1, ItemFacts
  \* A byte of a line that is begun ends nothing but the item before.
  <2>4. ASSUME NEW k \in 0 .. Len(wire), InLine(k), k < Len(wire), wire[k + 1].kind # "body"
        PROVE  pos = Ends[k]
    <3>1. k + 1 \in 1 .. Len(wire) /\ k + 1 - 1 = k /\ k + 1 \in 0 .. Len(wire)
      BY <2>3, <2>4
    <3>2. /\ Ends[k + 1] = Ends[k] + wire[k + 1].text + 2
          /\ \A p \in Ends[k] + 1 .. Ends[k + 1] : IsText(p) <=> p < Ends[k + 1] - 1
      BY <2>1, <2>4, <3>1, LineBytes
    <3>3. Ends[k] \in Nat /\ Ends[k + 1] \in Nat /\ wire[k + 1].text \in Nat
      BY <2>1, <2>3, <3>1, ItemFacts
    <3>4. pos < Ends[k + 1]
      <4>1. ASSUME pos >= Ends[k + 1] PROVE FALSE
        <5>0. Ends[k] + 1 <= Ends[k + 1]
          BY <3>2, <3>3
        <5>1. Ends[k + 1] \in Ends[k] + 1 .. Ends[k + 1] /\ Ends[k + 1] \in Ends[k] + 1 .. pos
          BY <2>1, <3>3, <4>1, <5>0
        <5>2. ~IsText(Ends[k + 1])
          BY <3>2, <3>3, <5>1
        <5> QED BY <2>4, <5>1, <5>2 DEF InLine, HasBreak
      <4> QED BY <2>1, <3>3, <4>1
    <3>5. Ends[k] <= pos
      BY <2>4 DEF InLine, TypeOK
    <3>6. ~(Ends[k] < pos)
      BY <2>1, <3>1, <3>4, NoEndInside
    <3> QED BY <2>1, <3>3, <3>5, <3>6
  <2>5. CASE status = "none"
    BY <2>1, <2>5 DEF FitsInv
  <2>6. CASE status = "waitForRequest"
    <3>1. PICK k \in 0 .. Len(wire) : BeginsAt(s, k + 1) /\ InLine(k)
      BY <2>2, <2>6 DEF Parts, AwaitsRequest
    <3>2. CASE k = Len(wire)
      <4>1. pos = Ends[k] /\ k \in 0 .. Len(wire)
        <5>1. pos <= Total /\ Total = Ends[Len(wire)] /\ Ends[k] <= pos
          <6>1. Total \in Nat /\ Total = Ends[Len(wire)]
            BY <2>1, ItemFacts, StreamFacts
          <6>2. pos <= arrived /\ arrived <= Total /\ arrived \in Nat
            BY <6>1 DEF TypeOK
          <6>3. Ends[k] <= pos
            BY <3>1 DEF TypeOK, InLine
          <6> QED BY <2>1, <6>1, <6>2, <6>3
        <5>2. Ends[k] \in Nat
          BY <2>3
        <5> QED BY <2>1, <3>2, <5>1, <5>2
      <4>2. k = s \/ (s = 0 /\ k = 1)
        BY <2>3, <3>1 DEF BeginsAt
      <4>3. ~(s = 0 /\ k = 1)
        <5>1. ASSUME s = 0, k = 1 PROVE FALSE
          <6>1. wire[1].kind = "blank" /\ 1 \in 1 .. Len(wire)
            BY <3>1, <3>2, <5>1 DEF BeginsAt
          <6>2. Followed(wire, 1, Starts)
            BY <6>1 DEF WholeRequests, Starts
          <6> QED BY <2>3, <3>2, <5>1, <6>2 DEF Followed
        <5> QED BY <5>1
      <4>4. pos = served
        BY <2>2, <4>1, <4>2, <4>3 DEF Between
      <4> QED BY <2>1, <4>4
    <3>3. CASE k < Len(wire)
      <4>1. k = s \/ (s = 0 /\ k = 1)
        BY <2>3, <3>1 DEF BeginsAt
      <4>2. wire[k + 1].kind \in Starts \cup {"blank"}
        <5>1. 1 \in 1 .. Len(wire)
          BY <2>3, <3>3
        <5>2. wire[1].kind \in Starts \/ (wire[1].kind = "blank" /\ Followed(wire, 1, Starts))
          BY <5>1 DEF WholeRequests
        <5>3. CASE k = 0
          BY <5>2, <5>3
        <5>4. CASE k = 1 /\ s = 0
          <6>1. wire[1].kind = "blank"
            BY <3>1, <5>4 DEF BeginsAt
          <6> QED BY <5>2, <5>4, <6>1 DEF Followed, Starts
        <5>5. CASE k = s /\ k # 0
          BY <2>2, <3>3, <5>5 DEF Between, EndsRequest, Followed
        <5> QED BY <4>1, <5>3, <5>4, <5>5
      <4>3. pos = Ends[k]
        <5>1. wire[k + 1].kind # "body"
          BY <4>2 DEF Starts
        <5> QED BY <2>4, <3>1, <3>3, <5>1
      <4>4. CASE k = s
        BY <2>1, <2>2, <4>3, <4>4 DEF Between
      <4>5. CASE s = 0 /\ k = 1
        <5>1. EndsRequest(k)
          BY <2>1, <2>3, <3>3, <4>3, <4>5, RequestEndsAt
        <5>2. k = Len(wire) \/ k > 1
          BY <5>1 DEF EndsRequest
        <5> QED BY <2>3, <3>3, <4>5, <5>2
      <4> QED BY <4>1, <4>4, <4>5
    <3> QED BY <2>3, <3>2, <3>3
  <2>7. CASE status = "waitForHeader"
    <3>1. PICK r \in 1 .. Len(wire), k \in 1 .. Len(wire) :
            /\ r <= k /\ wire[r].kind = "request" /\ InLine(k)
            /\ \A j \in r + 1 .. k : wire[j].kind \in LineKinds
      BY <2>2, <2>7 DEF Parts, AwaitsHeader
    <3>2. wire[k].kind \in LineKinds \cup {"request"}
      <4>1. k = r \/ k \in r + 1 .. k
        BY <2>3, <3>1
      <4> QED BY <3>1, <4>1
    <3>3. k < Len(wire) /\ wire[k + 1].kind \in LineKinds \cup {"blank"}
      BY <3>2 DEF WholeRequests, Followed
    <3>4. wire[k + 1].kind # "body" /\ wire[k + 1].kind \notin Starts
      BY <3>3 DEF LineKinds, HeaderKinds, Starts
    <3>5. pos = Ends[k]
      BY <2>3, <2>4, <3>1, <3>3, <3>4
    <3>6. ~EndsRequest(k)
      BY <2>3, <3>3, <3>4 DEF EndsRequest, Followed
    <3> QED BY <2>1, <3>5, <3>6, RequestEndsAt
  <2>8. CASE status = "waitForBody"
    <3>1. PICK r, b \in 1 .. Len(wire) : HeadRead(s, r, b)
      BY <2>2, <2>8 DEF Parts
    <3>2. BeginsAt(s, r) /\ IsRequest(wire, r, b) /\ Took(r + 1, b) /\ AwaitsBody
          /\ pos = Ends[b] + bodySize /\ expectedBodySize = ContentLength /\ served = Ends[s]
      BY <2>2, <2>8, <3>1 DEF HeadRead, Parts, Between
    <3>3. expectedBodySize \in Int /\ bodySize \in Nat /\ Ends[b] \in Nat
      BY <2>3 DEF TypeOK
    <3>4. CASE expectedBodySize > 0
      <4>1. Followed(wire, b, {"body"}) /\ expectedBodySize = wire[b + 1].text
        BY <3>2, <3>3, <3>4, LengthTold
      <4>2. b + 1 \in 1 .. Len(wire) /\ b + 1 - 1 = b /\ wire[b + 1].kind = "body"
        BY <2>3, <4>1 DEF Followed
      <4>3. Ends[b + 1] = Ends[b] + expectedBodySize
        BY <2>1, <4>1, <4>2, ItemFacts DEF Size
      <4>4. pos < Ends[b + 1]
        BY <3>2, <3>3, <3>4, <4>3 DEF AwaitsBody
      <4>5. ~(Ends[b] < pos)
        BY <2>1, <4>2, <4>4, NoEndInside
      <4>6. pos = Ends[b]
        BY <3>2, <3>3, <4>5
      <4>7. ~EndsRequest(b)
        BY <2>3, <4>1 DEF EndsRequest, Followed, Starts
      <4> QED BY <2>1, <4>6, <4>7, RequestEndsAt
    <3>5. CASE ~(expectedBodySize > 0)
      <4>1. ContentLength # 0 /\ ContentLength < 0
        BY <3>2, <3>3, <3>5 DEF AwaitsBody
      <4>2. PICK j \in r + 1 .. b : wire[j].kind = "length" /\ wire[j].value = ContentLength
        BY <3>2, <4>1, LengthTold
      <4>3. j \in ItemsAfter(served)
        <5>1. ItemsAfter(served) = s + 1 .. LastItem(b)
          BY <2>1, <3>2, RequestItems
        <5>2. j \in s + 1 .. LastItem(b)
          BY <2>3, <3>2 DEF BeginsAt, LastItem
        <5> QED BY <5>1, <5>2
      <4>4. \A i \in ItemsAfter(served) : wire[i].text \in Nat
        BY <2>1, ItemFacts DEF ItemsAfter
      <4>5. \A i \in ItemsAfter(served) : wire[i].text # wire[j].value
        BY <4>1, <4>2, <4>4
      <4> QED BY <4>2, <4>3, <4>5 DEF HonestLength
    <3> QED BY <3>4, <3>5
  <2> QED BY <2>1, <2>5, <2>6, <2>7, <2>8 DEF TypeOK
<1>2. TypeOK /\ FitsInv /\ PartsInv /\ [Next]_vars => TypeOK' /\ FitsInv' /\ PartsInv'
  BY StepFits, PartsStep
<1> QED BY InitFits, InitParts, <1>1, <1>2, PTL DEF Spec

\* The request that is finished is the one after the last.
TakesNext ==
    served' # served =>
        /\ served' \in RequestEnds /\ served' > served
        /\ \A e \in RequestEnds : e > served => served' <= e

\* HttpConnectionHandler::read: of a stream of whole requests each is answered
\* once and in its turn; none is skipped, taken together with the next, or
\* answered again, whatever the deliveries and the request handler do.
THEOREM RequestsInTurn ==
    Spec => [][WholeRequests(wire) /\ ~brokenLineEnd => TakesNext]_vars
<1>1. ASSUME TypeOK, FitsInv, PartsInv, [Next]_vars, WholeRequests(wire), ~brokenLineEnd,
             served' # served
      PROVE  TakesNext
  <2>1. Finish
    BY <1>1 DEF Next, Read, BeginRead, Collect, WaitForMore, RejectRequest, Serve,
                ServiceAsksToClose, ServiceWrites, Deliver, vars
  <2>2. status = "complete" /\ served' = pos /\ client \in 1 .. Len(Wires)
    BY <1>1, <2>1 DEF Finish, FitsInv, TypeOK
  <2>3. PICK s \in 0 .. Len(wire) : Between(s) /\ Parts(s)
    BY <1>1 DEF PartsInv
  <2>4. PICK r, b \in 1 .. Len(wire) : HeadRead(s, r, b)
    BY <2>2, <2>3 DEF Parts
  <2>5. BeginsAt(s, r) /\ IsRequest(wire, r, b) /\ HasBody /\ served = Ends[s]
    BY <2>2, <2>3, <2>4 DEF HeadRead, Parts, Between
  <2> DEFINE t == LastItem(b)
  <2>6. t \in 1 .. Len(wire) /\ s < t /\ EndsRequest(t) /\ ItemsAfter(served) = s + 1 .. t
    BY <1>1, <2>2, <2>5, RequestItems
  <2>7. pos = Ends[t]
    BY <1>1, <2>4, <2>5, ReadWhole
  <2>8. Len(wire) \in Nat
    BY <2>2, ItemFacts
  <2> HIDE DEF t
  <2>9. t \in ItemsAfter(served)
    BY <2>6, <2>8
  <2>10. pos > served /\ \A e \in RequestEnds : e > served => pos <= e
    BY <2>7, <2>9 DEF ItemsAfter
  <2>11. pos \in RequestEnds
    BY <1>1, <2>2, <2>6, <2>7, RequestEndsAt
  <2> QED BY <2>2, <2>10, <2>11 DEF TakesNext
<1>2. TypeOK /\ FitsInv /\ PartsInv /\ [Next]_vars => TypeOK' /\ FitsInv' /\ PartsInv'
  BY StepFits, PartsStep
<1>3. TypeOK /\ FitsInv /\ PartsInv /\ [Next]_vars
        => [WholeRequests(wire) /\ ~brokenLineEnd => TakesNext]_vars
  <2>1. served' = served => TakesNext
    BY DEF TakesNext
  <2> QED BY <1>1, <2>1
<1> QED BY InitFits, InitParts, <1>2, <1>3, PTL DEF Spec

=============================================================================
