----------------------------- MODULE HttpFields -----------------------------
(***************************************************************************)
(* The fields of a request: the parameters of its query and its form        *)
(* (HttpRequest::decodeRequestParams), and its cookies (HttpCookie,         *)
(* HttpRequest::extractCookies, HttpResponse::setCookie).                   *)
(*                                                                         *)
(* A text is a sequence of characters.  Only the characters that mean       *)
(* something to the code are told apart; words such as "Max-Age", and the   *)
(* two hexadecimal digits of an encoded character, count as one.  A QMultiMap *)
(* is a function from its keys to their values, the newest first.           *)
(***************************************************************************)
EXTENDS Naturals, Sequences, SequencesExt, TLC

CONSTANTS
    Forms,          \* what clients send: [query, body: fields, coded: BOOLEAN];
                    \* a field is [name, value: texts, bare: BOOLEAN]
    CookieSets,     \* what the server sets: sequences of cookies
    ForeignCookies  \* what clients send besides: functions from names to texts

VARIABLES
    stage,      \* "set", "answered", "arrived", "decoded", "read", or "unused"
    form, set, foreign,     \* chosen at the start
    jar,        \* the server's cookies, as the client read them
    path,       \* HttpRequest::path, the part after the host
    bodyData,
    cookieHeader,
    parameters, \* for every name its values, as values() lists them: newest first
    cookies

fieldVars == <<stage, form, set, foreign, jar, path, bodyData, cookieHeader, parameters, cookies>>

Empty  == <<>>
NoMap  == [n \in {} |-> Empty]

\* Index of the first c of a text, 0 if there is none.
IndexIn(text, c) == SelectInSeq(text, LAMBDA x : x = c)
Before(text, i)  == SubSeq(text, 1, i - 1)
After(text, i)   == SubSeq(text, i + 1, Len(text))

Trimmed(text) ==
    LET seen == {i \in 1 .. Len(text) : text[i] # " "}
    IN  IF seen = {} THEN Empty
        ELSE LET first == CHOOSE i \in seen : \A j \in seen : i <= j
                 last  == CHOOSE i \in seen : \A j \in seen : j <= i
             IN  SubSeq(text, first, last)

Joined(texts, separator) ==
    FlattenSeq([i \in 1 .. Len(texts) |->
        IF i = 1 THEN texts[i] ELSE separator \o texts[i]])

-----------------------------------------------------------------------------
(* application/x-www-form-urlencoded.                                      *)

\* The characters a client must encode, by their hexadecimal digits.
Digits == [d \in {"25", "26", "2B", "3D"} |->
    CASE d = "25" -> "%" [] d = "26" -> "&" [] d = "2B" -> "+" [] d = "3D" -> "="]

EncodedChar(c) ==
    IF c = " " THEN <<"+">>
    ELSE LET d == {x \in DOMAIN Digits : Digits[x] = c}
         IN  IF d = {} THEN <<c>> ELSE <<"%", CHOOSE x \in d : TRUE>>

Encoded(text) == FlattenSeq([i \in 1 .. Len(text) |-> EncodedChar(text[i])])

EncodedFields(fields) ==
    Joined([i \in 1 .. Len(fields) |->
        Encoded(fields[i].name) \o (IF fields[i].bare THEN Empty
                                    ELSE <<"=">> \o Encoded(fields[i].value))], <<"&">>)

\* Replaces every % that is followed by digits, and searches on behind it.
PercentDecoded(buffer) ==
    LET IsCode(i) == buffer[i] = "%" /\ i < Len(buffer) /\ buffer[i + 1] \in DOMAIN Digits
        decoded[i \in 0 .. Len(buffer)] ==
            CASE i = 0 -> Empty
              [] i > 0 /\ IsCode(i) -> Append(decoded[i - 1], Digits[buffer[i + 1]])
              [] i > 1 /\ IsCode(i - 1) -> decoded[i - 1]
              [] OTHER -> Append(decoded[i - 1], buffer[i])
    IN  decoded[Len(buffer)]

\* '+' is replaced first: a coded plus is still a %2B.
UrlDecode(source) == PercentDecoded(ReplaceAll(source, "+", " "))

\* QByteArray::split
Split(text, separator) ==
    FoldLeft(LAMBDA list, c :
                IF c = separator THEN Append(list, Empty)
                ELSE [list EXCEPT ![Len(list)] = Append(@, c)],
             <<Empty>>, text)

\* The name and the value of one part.
Parameter(part) ==
    LET equalsChar == IndexIn(part, "=")
    IN  IF equalsChar > 0
        THEN [name  |-> UrlDecode(Trimmed(Before(part, equalsChar))),
              value |-> UrlDecode(Trimmed(After(part, equalsChar)))]
        ELSE [name |-> UrlDecode(part), value |-> Empty]

RawParameters(query) ==
    IF bodyData # Empty /\ form.coded
    THEN IF query # Empty THEN query \o <<"&">> \o bodyData ELSE bodyData
    ELSE query

\* QMultiMap::insert of named values, in their order.
MultiMap(pairs) ==
    [n \in {pairs[i].name : i \in DOMAIN pairs} |->
        LET own == SelectSeq(pairs, LAMBDA p : p.name = n)
        IN  Reverse([i \in DOMAIN own |-> own[i].value])]

\* Mutant: the parameters are decoded before they are split.
ParametersDecodedFirst(query) ==
    LET parts == SelectSeq(Split(UrlDecode(RawParameters(query)), "&"), LAMBDA p : p # Empty)
    IN  MultiMap([i \in DOMAIN parts |-> Parameter(parts[i])])

Parameters(query) ==
    LET parts == SelectSeq(Split(RawParameters(query), "&"), LAMBDA p : p # Empty)
    IN  MultiMap([i \in DOMAIN parts |-> Parameter(parts[i])])

DecodeRequestParams ==
    /\ stage = "arrived"
    /\ LET questionMark == IndexIn(path, "?") IN
       /\ path' = IF questionMark > 0 THEN Before(path, questionMark) ELSE path
       /\ parameters' = Parameters(IF questionMark > 0 THEN After(path, questionMark) ELSE Empty)
    /\ stage' = "decoded"
    /\ UNCHANGED <<form, set, foreign, jar, bodyData, cookieHeader, cookies>>

-----------------------------------------------------------------------------
(* Cookies.                                                                *)

\* Semicolons separate, except between quotes; quotes are dropped.
SplitCSV(source) ==
    LET Read(s, c) ==
            CASE c = "\"" -> [s EXCEPT !.inString = ~@]
              [] c = ";" /\ ~s.inString ->
                    [s EXCEPT !.list = Append(@, Trimmed(s.buffer)), !.buffer = Empty]
              [] OTHER -> [s EXCEPT !.buffer = Append(@, c)]
        end == FoldLeft(Read, [inString |-> FALSE, list |-> Empty, buffer |-> Empty], source)
    IN  SelectSeq(Append(end.list, Trimmed(end.buffer)), LAMBDA p : p # Empty)

\* posi is -1 without an equals sign, which counts as true: left(-1) is empty
\* and mid(0) is the part.
NameAndValue(part) ==
    LET equals == IndexIn(part, "=") IN
    CASE equals = 1 -> [name |-> Trimmed(part), value |-> Empty]
      [] equals = 0 -> [name |-> Empty, value |-> Trimmed(part)]
      [] OTHER -> [name |-> Trimmed(Before(part, equals)), value |-> Trimmed(After(part, equals))]

Number(text) ==
    LET n == {i \in 0 .. 9 : text = <<ToString(i)>>}
    IN  IF n = {} THEN 0 ELSE CHOOSE i \in n : TRUE

\* HttpCookie(), which leaves httpOnly as it finds the memory.
NewCookie(memory) ==
    [name |-> Empty, value |-> Empty, comment |-> Empty, domain |-> Empty, maxAge |-> 0,
     path |-> Empty, secure |-> FALSE, httpOnly |-> memory, version |-> 1]

\* HttpCookie(source), which does so too.
ReadCookie(source, memory) ==
    LET Set(c, part) ==
            LET p == NameAndValue(part) IN
            CASE p.name = <<"Comment">>  -> [c EXCEPT !.comment = p.value]
              [] p.name = <<"Domain">>   -> [c EXCEPT !.domain = p.value]
              [] p.name = <<"Max-Age">>  -> [c EXCEPT !.maxAge = Number(p.value)]
              [] p.name = <<"Path">>     -> [c EXCEPT !.path = p.value]
              [] p.name = <<"Secure">>   -> [c EXCEPT !.secure = TRUE]
              [] p.name = <<"HttpOnly">> -> [c EXCEPT !.httpOnly = TRUE]
              [] p.name = <<"Version">>  -> [c EXCEPT !.version = Number(p.value)]
              [] OTHER -> IF c.name = Empty
                          THEN [c EXCEPT !.name = p.name, !.value = p.value] ELSE c
    IN  FoldLeft(Set, NewCookie(memory), SplitCSV(source))

ToByteArray(c) ==
    LET Attribute(name, value) == <<";", " ", name, "=">> \o value IN
    c.name \o <<"=">> \o c.value
    \o (IF c.comment # Empty THEN Attribute("Comment", c.comment) ELSE Empty)
    \o (IF c.domain # Empty THEN Attribute("Domain", c.domain) ELSE Empty)
    \o (IF c.maxAge # 0 THEN Attribute("Max-Age", <<ToString(c.maxAge)>>) ELSE Empty)
    \o (IF c.path # Empty THEN Attribute("Path", c.path) ELSE Empty)
    \o (IF c.secure THEN <<";", " ", "Secure">> ELSE Empty)
    \o (IF c.httpOnly THEN <<";", " ", "HttpOnly">> ELSE Empty)
    \o Attribute("Version", <<ToString(c.version)>>)

\* QMap::insert of named things, in their order; nothing without a name here.
ByName(list) ==
    LET named == SelectSeq(list, LAMBDA c : c.name # Empty)
    IN  [n \in {named[i].name : i \in DOMAIN named} |->
            LET i == SelectLastInSeq(named, LAMBDA c : c.name = n) IN named[i]]

\* setCookie, writeHeaders; the client reads what the response says.
SetCookies ==
    /\ stage = "set"
    /\ LET sent == ByName(set) IN
       \E memory \in [DOMAIN sent -> BOOLEAN] :
            jar' = [n \in DOMAIN sent |-> ReadCookie(ToByteArray(sent[n]), memory[n])]
    /\ stage' = "answered"
    /\ UNCHANGED <<form, set, foreign, path, bodyData, cookieHeader, parameters, cookies>>

ExtractCookies ==
    /\ stage = "decoded"
    /\ LET parts == SplitCSV(cookieHeader)
           found == [i \in 1 .. Len(parts) |-> NameAndValue(parts[i])]
       IN  cookies' = [n \in {found[i].name : i \in DOMAIN found} |->
                LET i == SelectLastInSeq(found, LAMBDA c : c.name = n) IN found[i].value]
    /\ cookieHeader' = Empty
    /\ stage' = "read"
    /\ UNCHANGED <<form, set, foreign, jar, path, bodyData, parameters>>

-----------------------------------------------------------------------------
(* The client.                                                             *)

InQuotes(text) == <<"\"">> \o text \o <<"\"">>

\* A cookie without a name is its value; a value with a separator is quoted.
SentCookie(name, value) ==
    IF name = Empty THEN value
    ELSE name \o <<"=">> \o (IF IndexIn(value, ";") > 0 THEN InQuotes(value) ELSE value)

Page == <<"page">>

Send ==
    /\ stage = "answered"
    /\ path' = IF form.query = Empty THEN Page ELSE Page \o <<"?">> \o EncodedFields(form.query)
    /\ bodyData' = EncodedFields(form.body)
    /\ LET own    == SetToSeq({SentCookie(n, jar[n].value) : n \in DOMAIN jar})
           others == SetToSeq({SentCookie(n, foreign[n]) : n \in DOMAIN foreign})
       IN  cookieHeader' = Joined(own \o others, <<";", " ">>)
    /\ stage' = "arrived"
    /\ UNCHANGED <<form, set, foreign, jar, parameters, cookies>>

FieldsInit ==
    /\ stage = "set"
    /\ form \in Forms /\ set \in CookieSets /\ foreign \in ForeignCookies
    /\ jar = NoMap /\ path = Empty /\ bodyData = Empty /\ cookieHeader = Empty
    /\ parameters = NoMap /\ cookies = NoMap

FieldsNext == SetCookies \/ Send \/ DecodeRequestParams \/ ExtractCookies

-----------------------------------------------------------------------------
\* The fields of a list, in its order.
FieldsOf(fields) ==
    [i \in 1 .. Len(fields) |-> [name |-> fields[i].name, value |-> fields[i].value]]

\* What the user filled in: the query, and the body if it says it is a form.
Filled == FieldsOf(form.query) \o (IF form.coded THEN FieldsOf(form.body) ELSE Empty)

\* The cookie, but for its flags: Secure and HttpOnly are parts without an equals
\* sign, so that ReadCookie takes them for values without a name, and ignores
\* them; then HttpOnly is whatever the memory held.
Unflagged(c) == [f \in DOMAIN c \ {"secure", "httpOnly"} |-> c[f]]

(* A controller finds the fields the user filled in, with their characters,  *)
(* whatever they had to be encoded as: those of a name are its values, the   *)
(* last one first, and there are no others.  The cookies the server set are  *)
(* read with their attributes, but for the flags, and come back with their   *)
(* values, whatever other cookies are sent along.                           *)
FieldsAsSent ==
    /\ stage \in {"decoded", "read"} => path = Page /\ parameters = MultiMap(Filled)
    /\ stage \notin {"unused", "set"} =>
        /\ DOMAIN jar = DOMAIN ByName(set)
        /\ \A n \in DOMAIN jar : Unflagged(jar[n]) = Unflagged(ByName(set)[n])
    /\ stage = "read" =>
        /\ \A n \in DOMAIN jar : cookies[n] = jar[n].value
        /\ \A n \in DOMAIN foreign \ DOMAIN jar : cookies[n] = foreign[n]
        /\ DOMAIN cookies \subseteq DOMAIN jar \cup DOMAIN foreign

=============================================================================
