----------------------------- MODULE HttpServer -----------------------------
(***************************************************************************)
(* The web server's threads: HttpListener and HttpConnectionHandlerPool in  *)
(* the main thread, and one thread for each HttpConnectionHandler.          *)
(*                                                                         *)
(* The main thread hands an accepted connection to a handler that looks     *)
(* idle (busy, a flag no lock protects) through the handler's event queue.  *)
(* A handler reads requests, serves them one after the other, and frees     *)
(* itself when its socket reports the end of the connection, which may      *)
(* happen in the middle of a service.  What the requests say is abstracted: *)
(* a client sends parts of a request, ends of a request, and requests the   *)
(* parser aborts.                                                           *)
(***************************************************************************)
EXTENDS Naturals, Sequences, Functions

CONSTANTS
    MaxConnections, \* bound of the model: connections clients open
    MinThreads,     \* setting minThreads: idle handlers the cleanup spares
    MaxThreads,     \* setting maxThreads
    MaxParts        \* bound of the model: pieces of input a client sends

ASSUME ConnectionsAssumption == MaxConnections \in Nat
ASSUME ThreadsAssumption == MinThreads \in Nat /\ MaxThreads \in Nat \ {0}
ASSUME MaxPartsAssumption == MaxParts \in Nat

VARIABLES
    status,     \* what became of each connection
    input,      \* pieces of input that may still arrive from the client
    peer,       \* the client: "talking", "stalled" (reads no more), "gone"
    main,       \* where the main thread is
    incoming,   \* the connection getConnectionHandler looks for a handler for
    scan,       \* position of the foreach loop over the pool
    idleCounter,
    pool,       \* HttpConnectionHandlerPool::pool
    busy,       \* HttpConnectionHandler::busy
    posted,     \* handleConnection events in a handler's queue
    socket,     \* the connection a handler's socket holds
    readTimer,  \* the handler's readTimer runs
    request,    \* the connections whose bytes currentRequest holds; {} is null
    stage,      \* where the handler's thread is
    quit        \* quit() was called on the handler

clientVars  == <<input, peer>>
mainVars    == <<main, incoming, scan, idleCounter, pool>>
handlerVars == <<busy, posted, socket, readTimer, request, stage, quit>>
vars == <<status, clientVars, mainVars, handlerVars>>

\* Connections are numbered as the listener accepts them, handlers are the
\* objects alive at a time.
Connections  == 1 .. MaxConnections
NoConnection == 0
Handlers     == 1 .. MaxThreads
Stages   == {"eventLoop", "service", "closing", "ended"}
Places   == {"eventLoop", "finding", "cleaning", "deleting", "closing", "closed"}
Statuses == {"new", "finding", "given", "rejected", "unready", "closed", "lost"}

Init ==
    /\ status = [c \in Connections |-> "new"]
    /\ input = [c \in Connections |-> MaxParts]
    /\ peer = [c \in Connections |-> "talking"]
    /\ main = "eventLoop" /\ incoming = NoConnection
    /\ scan = 1 /\ idleCounter = 0 /\ pool = <<>>
    /\ busy = [h \in Handlers |-> FALSE]
    /\ posted = [h \in Handlers |-> <<>>]
    /\ socket = [h \in Handlers |-> NoConnection]
    /\ readTimer = [h \in Handlers |-> FALSE]
    /\ request = [h \in Handlers |-> {}]
    /\ stage = [h \in Handlers |-> "ended"]
    /\ quit = [h \in Handlers |-> FALSE]

-----------------------------------------------------------------------------
(* The clients.                                                            *)

\* The client stops reading, or ends the connection.
ChangePeer(c, to) ==
    /\ status[c] = "given" /\ peer[c] \notin {"gone", to}
    /\ peer' = [peer EXCEPT ![c] = to]
    /\ UNCHANGED <<status, input, mainVars, handlerVars>>

Client(c) == ChangePeer(c, "stalled") \/ ChangePeer(c, "gone")

-----------------------------------------------------------------------------
(* The main thread.  isBusy is read handler by handler while the handlers   *)
(* run, so each reading is a step.                                         *)

Becomes(c, s) == status' = [status EXCEPT ![c] = s]

IncomingConnection(c) ==
    /\ main = "eventLoop" /\ status[c] = "new"
    /\ \A d \in 1 .. c - 1 : status[d] # "new"
    /\ Becomes(c, "finding")
    /\ main' = "finding" /\ incoming' = c /\ scan' = 1
    /\ UNCHANGED <<clientVars, idleCounter, pool, handlerVars>>

FoundBusy ==
    /\ main = "finding" /\ scan <= Len(pool) /\ busy[pool[scan]]
    /\ scan' = scan + 1
    /\ UNCHANGED <<status, clientVars, main, incoming, idleCounter, pool, handlerVars>>

\* The connection goes to h through h's event queue.
GivenTo(h) ==
    /\ posted' = [posted EXCEPT ![h] = Append(@, incoming)]
    /\ Becomes(incoming, "given")
    /\ main' = "eventLoop" /\ incoming' = NoConnection /\ scan' = 1
    /\ UNCHANGED <<clientVars, idleCounter>>

\* Mutant: the handler is left to raise busy when it takes the connection.
FoundIdleUnmarked ==
    /\ main = "finding" /\ scan <= Len(pool) /\ ~busy[pool[scan]]
    /\ GivenTo(pool[scan])
    /\ UNCHANGED <<pool, busy, socket, readTimer, request, stage, quit>>

FoundIdle ==
    /\ main = "finding" /\ scan <= Len(pool) /\ ~busy[pool[scan]]
    /\ busy' = [busy EXCEPT ![pool[scan]] = TRUE]
    /\ GivenTo(pool[scan])
    /\ UNCHANGED <<pool, socket, readTimer, request, stage, quit>>

\* The least object that is not in use stands for the new one.
Free(h) == h \notin Range(pool) /\ \A g \in 1 .. h - 1 : g \in Range(pool)

\* The constructor: a new socket, no request, the thread started.
Constructed(h) ==
    /\ stage' = [stage EXCEPT ![h] = "eventLoop"]
    /\ socket' = [socket EXCEPT ![h] = NoConnection]
    /\ request' = [request EXCEPT ![h] = {}]
    /\ UNCHANGED readTimer

\* Mutant: a new handler is not marked.
CreateHandlerUnmarked(h) ==
    /\ main = "finding" /\ scan > Len(pool) /\ Len(pool) < MaxThreads
    /\ Free(h)
    /\ Constructed(h)
    /\ pool' = Append(pool, h)
    /\ GivenTo(h)
    /\ UNCHANGED <<busy, quit>>

CreateHandler(h) ==
    /\ main = "finding" /\ scan > Len(pool) /\ Len(pool) < MaxThreads
    /\ Free(h)
    /\ Constructed(h)
    /\ pool' = Append(pool, h)
    /\ busy' = [busy EXCEPT ![h] = TRUE]
    /\ GivenTo(h)
    /\ UNCHANGED quit

\* 503 too many connections.
Reject ==
    /\ main = "finding" /\ scan > Len(pool) /\ Len(pool) >= MaxThreads
    /\ Becomes(incoming, "rejected")
    /\ main' = "eventLoop" /\ incoming' = NoConnection /\ scan' = 1
    /\ UNCHANGED <<clientVars, idleCounter, pool, handlerVars>>

Cleanup ==
    /\ main = "eventLoop" /\ pool # <<>>
    /\ main' = "cleaning" /\ scan' = 1 /\ idleCounter' = 0
    /\ UNCHANGED <<status, clientVars, incoming, pool, handlerVars>>

Spare ==
    /\ main = "cleaning" /\ scan <= Len(pool)
    /\ busy[pool[scan]] \/ idleCounter < MinThreads
    /\ scan' = scan + 1
    /\ idleCounter' = IF busy[pool[scan]] THEN idleCounter ELSE idleCounter + 1
    /\ UNCHANGED <<status, clientVars, main, incoming, pool, handlerVars>>

CleanupEnds ==
    /\ main = "cleaning" /\ scan > Len(pool)
    /\ main' = "eventLoop" /\ scan' = 1 /\ idleCounter' = 0
    /\ UNCHANGED <<status, clientVars, incoming, pool, handlerVars>>

\* delete handler: quit(), then wait() for its thread, and the main thread
\* does nothing else meanwhile.
QuitAndWait(h) ==
    /\ quit' = [quit EXCEPT ![h] = TRUE]
    /\ UNCHANGED <<status, clientVars, incoming, idleCounter, pool,
                   busy, posted, socket, readTimer, request, stage>>

DeleteIdle ==
    /\ main = "cleaning" /\ scan <= Len(pool)
    /\ ~busy[pool[scan]] /\ idleCounter >= MinThreads
    /\ main' = "deleting" /\ UNCHANGED scan
    /\ QuitAndWait(pool[scan])

\* HttpListener::close deletes the pool, and the pool its handlers in turn.
Close ==
    /\ main = "eventLoop"
    /\ main' = "closing" /\ scan' = 1
    /\ UNCHANGED <<status, clientVars, incoming, idleCounter, pool, handlerVars>>

DeleteNext ==
    /\ main = "closing" /\ scan <= Len(pool) /\ ~quit[pool[scan]]
    /\ UNCHANGED <<main, scan>>
    /\ QuitAndWait(pool[scan])

Without(s, i) ==
    [j \in 1 .. Len(s) - 1 |-> IF j < i THEN s[j] ELSE s[j + 1]]

\* The destructor returns once the thread has ended; its object may be
\* allocated again.
HandlerDeleted ==
    /\ main \in {"deleting", "closing"} /\ scan <= Len(pool)
    /\ LET h == pool[scan] IN
        /\ quit[h] /\ stage[h] = "ended"
        /\ pool' = Without(pool, scan)
        /\ quit' = [quit EXCEPT ![h] = FALSE]
        /\ busy' = [busy EXCEPT ![h] = FALSE]
    /\ main' = IF main = "deleting" THEN "eventLoop" ELSE main
    /\ scan' = 1 /\ idleCounter' = 0
    /\ UNCHANGED <<status, clientVars, incoming, posted, socket, readTimer, request, stage>>

PoolDeleted ==
    /\ main = "closing" /\ pool = <<>>
    /\ main' = "closed"
    /\ UNCHANGED <<status, clientVars, incoming, scan, idleCounter, pool, handlerVars>>

Listen ==
    /\ main = "closed"
    /\ main' = "eventLoop"
    /\ UNCHANGED <<status, clientVars, incoming, scan, idleCounter, pool, handlerVars>>

Main ==
    \/ FoundBusy \/ FoundIdle \/ Reject
    \/ \E h \in Handlers : CreateHandler(h)
    \/ Spare \/ CleanupEnds \/ DeleteIdle \/ HandlerDeleted
    \/ DeleteNext \/ PoolDeleted

-----------------------------------------------------------------------------
(* The thread of handler h.                                                *)

InLoop(h) == stage[h] = "eventLoop"
Open(h)   == socket[h] # NoConnection

\* A closed connection has neither input nor a client.
Forget(c) ==
    /\ input' = [input EXCEPT ![c] = 0]
    /\ peer' = [peer EXCEPT ![c] = "gone"]

\* The slot disconnected(): the socket is closed, the timer stopped, and then
\* the handler is free.  Qt calls it once for each connection.
Disconnected(h) ==
    /\ Becomes(socket[h], "closed")
    /\ Forget(socket[h])
    /\ socket' = [socket EXCEPT ![h] = NoConnection]
    /\ readTimer' = [readTimer EXCEPT ![h] = FALSE]
    /\ busy' = [busy EXCEPT ![h] = FALSE]

\* Mutant: the timer starts with the first input only.
HandleConnectionNoTimer(h) ==
    /\ InLoop(h) /\ posted[h] # <<>>
    /\ busy' = [busy EXCEPT ![h] = TRUE]
    /\ posted' = [posted EXCEPT ![h] = Tail(@)]
    /\ socket' = [socket EXCEPT ![h] = Head(posted[h])]
    /\ request' = [request EXCEPT ![h] = {}]
    /\ UNCHANGED <<status, clientVars, mainVars, readTimer, stage, quit>>

\* Mutant: the request the last connection left half read is kept.
HandleConnectionKeepingRequest(h) ==
    /\ InLoop(h) /\ posted[h] # <<>>
    /\ busy' = [busy EXCEPT ![h] = TRUE]
    /\ posted' = [posted EXCEPT ![h] = Tail(@)]
    /\ socket' = [socket EXCEPT ![h] = Head(posted[h])]
    /\ readTimer' = [readTimer EXCEPT ![h] = TRUE]
    /\ UNCHANGED <<status, clientVars, mainVars, request, stage, quit>>

HandleConnection(h) ==
    /\ InLoop(h) /\ posted[h] # <<>>
    /\ busy' = [busy EXCEPT ![h] = TRUE]
    /\ posted' = [posted EXCEPT ![h] = Tail(@)]
    /\ socket' = [socket EXCEPT ![h] = Head(posted[h])]
    /\ readTimer' = [readTimer EXCEPT ![h] = TRUE]
    /\ request' = [request EXCEPT ![h] = {}]
    /\ UNCHANGED <<status, clientVars, mainVars, stage, quit>>

\* setSocketDescriptor fails: the slot returns with busy raised, and nothing
\* will ever report a disconnection.
SocketUnready(h) ==
    /\ InLoop(h) /\ posted[h] # <<>>
    /\ busy' = [busy EXCEPT ![h] = TRUE]
    /\ posted' = [posted EXCEPT ![h] = Tail(@)]
    /\ Becomes(Head(posted[h]), "unready")
    /\ Forget(Head(posted[h]))
    /\ UNCHANGED <<mainVars, socket, readTimer, request, stage, quit>>

\* read() takes the input piece by piece into currentRequest.
ReadPiece(h) ==
    /\ InLoop(h) /\ Open(h) /\ input[socket[h]] > 0
    /\ input' = [input EXCEPT ![socket[h]] = @ - 1]
    /\ request' = [request EXCEPT ![h] = @ \cup {socket[h]}]
    /\ UNCHANGED <<status, peer, mainVars, busy, posted, socket, quit>>

\* An incomplete request waits for more.
ReadPart(h) ==
    /\ ReadPiece(h)
    /\ UNCHANGED <<readTimer, stage>>

\* A complete one stops the timer and is served.
ReadEnd(h) ==
    /\ ReadPiece(h)
    /\ readTimer' = [readTimer EXCEPT ![h] = FALSE]
    /\ stage' = [stage EXCEPT ![h] = "service"]

\* An aborted one is answered with 413, and the connection is closed.
ReadBad(h) ==
    /\ ReadPiece(h)
    /\ stage' = [stage EXCEPT ![h] = "closing"]
    /\ UNCHANGED readTimer

ReadTimeout(h) ==
    /\ InLoop(h) /\ readTimer[h]
    /\ readTimer' = [readTimer EXCEPT ![h] = FALSE]
    /\ stage' = [stage EXCEPT ![h] = "closing"]
    /\ UNCHANGED <<status, clientVars, mainVars, busy, posted, socket, request, quit>>

\* The client has gone: the event loop sees it, or, in the middle of a service,
\* a write that waits for its output to drain.
PeerGone(h) ==
    /\ stage[h] \in {"eventLoop", "service"} /\ Open(h)
    /\ peer[socket[h]] = "gone"
    /\ Disconnected(h)
    /\ UNCHANGED <<mainVars, posted, request, stage, quit>>

\* The response keeps the connection: the timer runs for the next request.
ServedKeeps(h) ==
    /\ stage[h] = "service"
    /\ stage' = [stage EXCEPT ![h] = "eventLoop"]
    /\ readTimer' = [readTimer EXCEPT ![h] = TRUE]
    /\ request' = [request EXCEPT ![h] = {}]
    /\ UNCHANGED <<status, clientVars, mainVars, busy, posted, socket, quit>>

\* The response or the request asked to close.
ServedCloses(h) ==
    /\ stage[h] = "service"
    /\ stage' = [stage EXCEPT ![h] = "closing"]
    /\ UNCHANGED <<status, clientVars, mainVars, busy, posted, socket, readTimer, request, quit>>

\* while(bytesToWrite()) waitForBytesWritten(), disconnectFromHost(), which
\* calls disconnected() of an open socket, and the request is deleted.
CloseConnection(h) ==
    /\ stage[h] = "closing"
    /\ Open(h) => peer[socket[h]] # "stalled"
    /\ IF Open(h) THEN Disconnected(h)
                  ELSE UNCHANGED <<status, clientVars, socket, readTimer, busy>>
    /\ stage' = [stage EXCEPT ![h] = "eventLoop"]
    /\ request' = [request EXCEPT ![h] = {}]
    /\ UNCHANGED <<mainVars, posted, quit>>

Owned(h) == {socket[h]} \cup Range(posted[h])

\* run() returns from exec(), closes the socket and stops the timer; what is
\* still in its queue is dropped with it.
ThreadEnds(h) ==
    /\ InLoop(h) /\ quit[h]
    /\ status' = [c \in Connections |->
                    IF c = socket[h] THEN "closed"
                    ELSE IF c \in Range(posted[h]) THEN "lost" ELSE status[c]]
    /\ input' = [c \in Connections |-> IF c \in Owned(h) THEN 0 ELSE input[c]]
    /\ peer' = [c \in Connections |-> IF c \in Owned(h) THEN "gone" ELSE peer[c]]
    /\ socket' = [socket EXCEPT ![h] = NoConnection]
    /\ posted' = [posted EXCEPT ![h] = <<>>]
    /\ readTimer' = [readTimer EXCEPT ![h] = FALSE]
    /\ request' = [request EXCEPT ![h] = {}]
    /\ stage' = [stage EXCEPT ![h] = "ended"]
    /\ UNCHANGED <<mainVars, busy, quit>>

Thread(h) ==
    \/ HandleConnection(h) \/ SocketUnready(h)
    \/ ReadPart(h) \/ ReadEnd(h) \/ ReadBad(h)
    \/ ReadTimeout(h) \/ PeerGone(h)
    \/ ServedKeeps(h) \/ ServedCloses(h) \/ CloseConnection(h)
    \/ ThreadEnds(h)

-----------------------------------------------------------------------------

Next ==
    \/ \E c \in Connections : Client(c) \/ IncomingConnection(c)
    \/ Cleanup \/ Close \/ Listen
    \/ Main
    \/ \E h \in Handlers : Thread(h)

Spec == Init /\ [][Next]_vars

\* The scheduler runs every thread; clients, the cleanup interval and whoever
\* closes the server owe nothing.
FairSpec == Spec /\ WF_vars(Main) /\ \A h \in Handlers : WF_vars(Thread(h))

-----------------------------------------------------------------------------

\* Every variable keeps its type.
TypeOK ==
    /\ status \in [Connections -> Statuses]
    /\ input \in [Connections -> 0 .. MaxParts]
    /\ peer \in [Connections -> {"talking", "stalled", "gone"}]
    /\ main \in Places /\ incoming \in Connections \cup {NoConnection}
    /\ scan \in Nat \ {0} /\ idleCounter \in 0 .. MinThreads
    /\ pool \in Seq(Handlers) /\ Len(pool) <= MaxThreads
    /\ busy \in [Handlers -> BOOLEAN]
    /\ posted \in [Handlers -> Seq(Connections)]
    /\ socket \in [Handlers -> Connections \cup {NoConnection}]
    /\ readTimer \in [Handlers -> BOOLEAN]
    /\ request \in [Handlers -> SUBSET Connections]
    /\ stage \in [Handlers -> Stages]
    /\ quit \in [Handlers -> BOOLEAN]

\* The assertion of handleConnection, "if not, then the handler is already
\* busy": a connection only ever waits for a handler whose socket is closed,
\* even when disconnected() frees the handler in the middle of a service.
SocketFreeForNext ==
    \A h \in Handlers : posted[h] # <<>> => ~Open(h) /\ Len(posted[h]) = 1

\* A handler that looks idle has nothing to do for any client, so the cleanup,
\* which trusts the flag, drops no connection.
IdleHasNoClient ==
    \A h \in Handlers : ~busy[h] => ~Open(h) /\ posted[h] = <<>>

\* No request is made of the bytes of two connections, although a handler can
\* lose a connection at any point of a request and keeps currentRequest.
RequestOfOneConnection ==
    \A h \in Handlers : Open(h) => request[h] \subseteq {socket[h]}

\* Nothing but closing the server drops a connection that waits for its handler:
\* the cleanup, which runs beside the handlers, never does.
OnlyCloseLoses ==
    [][\A c \in Connections :
            status[c] = "given" /\ status'[c] = "lost" => main = "closing"]_vars

\* Every connection a handler was given ends: served, timed out or aborted,
\* unless its client has stopped reading and stays.
ConnectionsEnd ==
    \A c \in Connections :
        (status[c] = "given") ~> (status[c] # "given" \/ peer[c] = "stalled")

=============================================================================
