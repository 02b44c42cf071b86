--------------------------- MODULE HttpServer_proof --------------------------
(***************************************************************************)
(* Proofs about HttpServer for every number of connections, of handlers and *)
(* of pieces of input.  The safety properties follow from what the pool may *)
(* believe of its handlers (PoolInv): a handler that can be given a         *)
(* connection has a thread that will take it.                              *)
(***************************************************************************)
EXTENDS HttpServer, SequenceTheorems, TLAPS

-----------------------------------------------------------------------------
(* Sequences without repetition, as the pool is one.                       *)

Distinct(s) == \A i, j \in DOMAIN s : s[i] = s[j] => i = j

\* QList::append of an object that is not in the list.
LEMMA AppendDistinct ==
    ASSUME NEW S, NEW s \in Seq(S), NEW e \in S
    PROVE  /\ Append(s, e) \in Seq(S) /\ Len(Append(s, e)) = Len(s) + 1
           /\ Range(Append(s, e)) = Range(s) \cup {e}
           /\ Distinct(s) /\ e \notin Range(s) => Distinct(Append(s, e))
<1> DEFINE t == Append(s, e)
<1>1. /\ t \in Seq(S) /\ Len(t) = Len(s) + 1 /\ DOMAIN t = 1 .. Len(s) + 1
      /\ DOMAIN s = 1 .. Len(s) /\ Len(s) \in Nat
      /\ \A i \in 1 .. Len(s) : t[i] = s[i]
      /\ t[Len(s) + 1] = e
  OBVIOUS
<1>2. Range(t) = Range(s) \cup {e}
  BY <1>1 DEF Range
<1>3. Distinct(s) /\ e \notin Range(s) => Distinct(t)
  BY <1>1 DEF Distinct, Range
<1> QED
  BY <1>1, <1>2, <1>3

\* The queue of a handler that takes its only connection is empty.
LEMMA TailOfOne ==
    ASSUME NEW S, NEW s \in Seq(S), Len(s) = 1
    PROVE  Tail(s) = <<>>
<1>1. Tail(s) \in Seq(S) /\ Len(Tail(s)) = 0
  OBVIOUS
<1> QED
  BY <1>1, EmptySeq

\* What removing an element leaves (QList::removeOne in cleanup and in the
\* destructor of the pool).
LEMMA WithoutKeeps ==
    ASSUME NEW S, NEW s \in Seq(S), NEW k \in 1 .. Len(s)
    PROVE  /\ Without(s, k) \in Seq(S) /\ Len(Without(s, k)) = Len(s) - 1
           /\ Distinct(s) => /\ Distinct(Without(s, k))
                             /\ Range(Without(s, k)) = Range(s) \ {s[k]}
<1> DEFINE t == Without(s, k)
<1>1. /\ Len(s) \in Nat \ {0} /\ DOMAIN s = 1 .. Len(s)
      /\ \A i \in 1 .. Len(s) : s[i] \in S
  OBVIOUS
<1>2. /\ DOMAIN t = 1 .. Len(s) - 1
      /\ \A j \in 1 .. Len(s) - 1 : t[j] = IF j < k THEN s[j] ELSE s[j + 1]
  BY <1>1 DEF Without
<1>3. t \in Seq(S) /\ Len(t) = Len(s) - 1
  <2>1. t = [j \in 1 .. Len(s) - 1 |-> IF j < k THEN s[j] ELSE s[j + 1]]
    BY DEF Without
  <2>2. \A j \in 1 .. Len(s) - 1 : (IF j < k THEN s[j] ELSE s[j + 1]) \in S
    BY <1>1
  <2> HIDE DEF t
  <2>3. t \in [1 .. Len(s) - 1 -> S] /\ Len(s) - 1 \in Nat
    BY <1>1, <2>1, <2>2
  <2> QED
    BY <2>3
<1>4. ASSUME Distinct(s) PROVE Distinct(t)
  <2> HIDE DEF t
  <2> SUFFICES ASSUME NEW i \in 1 .. Len(s) - 1, NEW j \in 1 .. Len(s) - 1, t[i] = t[j]
               PROVE  i = j
    BY <1>2 DEF Distinct
  <2>1. PICK m \in 1 .. Len(s) : t[i] = s[m] /\ m = IF i < k THEN i ELSE i + 1
    BY <1>1, <1>2
  <2>2. PICK n \in 1 .. Len(s) : t[j] = s[n] /\ n = IF j < k THEN j ELSE j + 1
    BY <1>1, <1>2
  <2>3. m = n
    BY <1>1, <1>4, <2>1, <2>2 DEF Distinct
  <2> QED
    BY <1>1, <2>1, <2>2, <2>3
<1>5. ASSUME Distinct(s) PROVE Range(t) = Range(s) \ {s[k]}
  <2> HIDE DEF t
  <2>1. ASSUME NEW x \in Range(t) PROVE x \in Range(s) /\ x # s[k]
    <3>1. PICK j \in 1 .. Len(s) - 1 : x = t[j]
      BY <1>2 DEF Range
    <3>2. PICK i \in 1 .. Len(s) : i # k /\ x = s[i]
      BY <1>1, <1>2, <3>1
    <3> QED
      BY <1>1, <1>5, <3>2 DEF Range, Distinct
  <2>2. ASSUME NEW x \in Range(s), x # s[k] PROVE x \in Range(t)
    <3>1. PICK i \in 1 .. Len(s) : x = s[i] /\ i # k
      BY <1>1, <2>2 DEF Range
    <3>2. CASE i < k
      BY <1>1, <1>2, <3>1, <3>2 DEF Range
    <3>3. CASE i > k
      <4>1. i - 1 \in 1 .. Len(s) - 1 /\ t[i - 1] = s[i]
        BY <1>1, <1>2, <3>1, <3>3
      <4> QED
        BY <1>2, <3>1, <4>1 DEF Range
    <3> QED
      BY <3>1, <3>2, <3>3
  <2> QED
    BY <2>1, <2>2
<1> QED
  BY <1>3, <1>4, <1>5

-----------------------------------------------------------------------------
(* The invariants.                                                         *)

\* What the pool may believe of a handler: no handler is in it twice, one that
\* is not in it has no thread, one in it has ended only if it was told to quit,
\* and only the handler the main thread is deleting was.
Ended(h) == stage[h] = "ended"

ThreadsOfPool ==
    /\ Distinct(pool)
    /\ \A h \in Handlers :
        /\ h \notin Range(pool) => Ended(h)
        /\ Ended(h) /\ h \in Range(pool) => quit[h]
        /\ quit[h] => /\ main \in {"deleting", "closing"}
                      /\ scan \in DOMAIN pool /\ h = pool[scan]

\* A handler without a thread holds no connection, nor does one the cleanup
\* deletes.
EndedIsEmpty ==
    \A h \in Handlers :
        Ended(h) \/ (quit[h] /\ main = "deleting") => ~Open(h) /\ posted[h] = <<>>

FindsForOne == main = "finding" => incoming \in Connections

PoolInv == TypeOK /\ ThreadsOfPool /\ EndedIsEmpty /\ FindsForOne

HandlerInv == PoolInv /\ SocketFreeForNext /\ IdleHasNoClient

-----------------------------------------------------------------------------
(* Type correctness.                                                       *)

\* Every action keeps the types, and the main thread looks for a handler for a
\* connection only.
LEMMA TypeStep ==
    ASSUME TypeOK, FindsForOne, [Next]_vars
    PROVE  TypeOK' /\ FindsForOne'
<1> USE ConnectionsAssumption, ThreadsAssumption, MaxPartsAssumption
    DEF TypeOK, FindsForOne
<1>1. CASE \E c \in Connections : Client(c)
  BY <1>1 DEF Client, ChangePeer, mainVars, handlerVars
<1>2. CASE \E c \in Connections : IncomingConnection(c)
  BY <1>2 DEF IncomingConnection, Becomes, Statuses, Places, clientVars, handlerVars
<1>3. CASE FoundBusy \/ Spare
  BY <1>3 DEF FoundBusy, Spare, clientVars, handlerVars
<1>4. CASE FoundIdle
  <2>1. pool[scan] \in Handlers
    BY <1>4 DEF FoundIdle
  <2>2. posted[pool[scan]] \in Seq(Connections) /\ incoming \in Connections
    BY <1>4, <2>1 DEF FoundIdle
  <2>3. Append(posted[pool[scan]], incoming) \in Seq(Connections)
    BY <2>2
  <2> QED
    BY <1>4, <2>3 DEF FoundIdle, GivenTo, Becomes, Statuses, Places, clientVars
<1>5. CASE \E h \in Handlers : CreateHandler(h)
  <2>1. PICK h \in Handlers : CreateHandler(h)
    BY <1>5
  <2>2. posted[h] \in Seq(Connections) /\ incoming \in Connections
    BY <2>1 DEF CreateHandler
  <2>3. Append(posted[h], incoming) \in Seq(Connections)
    BY <2>2
  <2>4. pool' \in Seq(Handlers) /\ Len(pool') <= MaxThreads
    BY <2>1, AppendDistinct DEF CreateHandler
  <2> QED
    BY <2>1, <2>3, <2>4 DEF CreateHandler, Constructed, GivenTo, Becomes, Statuses, Places,
       Stages, clientVars
<1>6. CASE Reject
  BY <1>6 DEF Reject, Becomes, Statuses, Places, clientVars, handlerVars
<1>7. CASE Cleanup \/ CleanupEnds \/ Close \/ PoolDeleted \/ Listen
  BY <1>7 DEF Cleanup, CleanupEnds, Close, PoolDeleted, Listen, Places, clientVars, handlerVars
<1>8. CASE DeleteIdle \/ DeleteNext
  BY <1>8 DEF DeleteIdle, DeleteNext, QuitAndWait, Places, clientVars
<1>9. CASE HandlerDeleted
  <2>1. scan \in 1 .. Len(pool)
    BY <1>9 DEF HandlerDeleted
  <2>2. pool' \in Seq(Handlers) /\ Len(pool') = Len(pool) - 1 /\ Len(pool) \in Nat
    BY <1>9, <2>1, WithoutKeeps DEF HandlerDeleted
  <2>3. Len(pool') <= MaxThreads
    BY <2>2
  <2> QED
    BY <1>9, <2>2, <2>3 DEF HandlerDeleted, Places, clientVars
<1>10. CASE \E h \in Handlers : HandleConnection(h) \/ SocketUnready(h)
  <2>1. PICK h \in Handlers : HandleConnection(h) \/ SocketUnready(h)
    BY <1>10
  <2>2. posted[h] \in Seq(Connections) /\ posted[h] # <<>>
    BY <2>1 DEF HandleConnection, SocketUnready
  <2>3. Head(posted[h]) \in Connections /\ Tail(posted[h]) \in Seq(Connections)
    BY <2>2
  <2>4. CASE HandleConnection(h)
    BY <2>3, <2>4 DEF HandleConnection, clientVars, mainVars
  <2>5. CASE SocketUnready(h)
    BY <2>3, <2>5 DEF SocketUnready, Becomes, Forget, Statuses, mainVars
  <2> QED
    BY <2>1, <2>4, <2>5
<1>11. CASE \E h \in Handlers : ReadPart(h) \/ ReadEnd(h) \/ ReadBad(h)
  <2>1. PICK h \in Handlers : ReadPart(h) \/ ReadEnd(h) \/ ReadBad(h)
    BY <1>11
  <2>2. ReadPiece(h) /\ readTimer' \in [Handlers -> BOOLEAN] /\ stage' \in [Handlers -> Stages]
    BY <2>1 DEF ReadPart, ReadEnd, ReadBad, Stages
  <2>3. socket[h] \in Connections
    BY <2>2 DEF ReadPiece, Open
  <2>4. input' \in [Connections -> 0 .. MaxParts] /\ request' \in [Handlers -> SUBSET Connections]
    BY <2>2, <2>3 DEF ReadPiece
  <2> QED
    BY <2>2, <2>4 DEF ReadPiece, mainVars
<1>12. CASE \E h \in Handlers : ReadTimeout(h) \/ ServedKeeps(h) \/ ServedCloses(h)
  BY <1>12 DEF ReadTimeout, ServedKeeps, ServedCloses, Stages, clientVars, mainVars
<1>13. CASE \E h \in Handlers : PeerGone(h) \/ CloseConnection(h)
  <2>1. PICK h \in Handlers : PeerGone(h) \/ CloseConnection(h)
    BY <1>13
  <2>2. CASE Disconnected(h)
    <3>1. /\ status' \in [Connections -> Statuses]
          /\ input' \in [Connections -> 0 .. MaxParts]
          /\ peer' \in [Connections -> {"talking", "stalled", "gone"}]
      <4>1. status' = [status EXCEPT ![socket[h]] = "closed"]
        BY <2>2 DEF Disconnected, Becomes
      <4>2. /\ input' = [input EXCEPT ![socket[h]] = 0]
            /\ peer' = [peer EXCEPT ![socket[h]] = "gone"]
        BY <2>2 DEF Disconnected, Forget
      <4>3. status' \in [Connections -> Statuses]
        BY <4>1 DEF Statuses
      <4>4. 0 \in 0 .. MaxParts
        OBVIOUS
      <4>5. input' \in [Connections -> 0 .. MaxParts]
        BY <4>2, <4>4
      <4> QED
        BY <4>2, <4>3, <4>5
    <3>2. /\ socket' \in [Handlers -> Connections \cup {NoConnection}]
          /\ readTimer' \in [Handlers -> BOOLEAN] /\ busy' \in [Handlers -> BOOLEAN]
      BY <2>2 DEF Disconnected
    <3>3. /\ UNCHANGED <<mainVars, posted, quit>>
          /\ request' \in [Handlers -> SUBSET Connections] /\ stage' \in [Handlers -> Stages]
      BY <2>1 DEF PeerGone, CloseConnection, Stages
    <3> QED
      BY <3>1, <3>2, <3>3 DEF mainVars
  <2>3. CASE ~Disconnected(h)
    BY <2>1, <2>3 DEF PeerGone, CloseConnection, Stages, clientVars, mainVars
  <2> QED
    BY <2>2, <2>3
<1>14. CASE \E h \in Handlers : ThreadEnds(h)
  BY <1>14 DEF ThreadEnds, Statuses, Stages, mainVars
<1>15. CASE UNCHANGED vars
  BY <1>15 DEF vars, clientVars, mainVars, handlerVars
<1> QED
  BY <1>1, <1>2, <1>3, <1>4, <1>5, <1>6, <1>7, <1>8, <1>9, <1>10, <1>11, <1>12, <1>13, <1>14,
     <1>15 DEF Next, Main, Thread

\* The server starts with no handler and no connection, in a well-typed state.
LEMMA InitTypes == Init => TypeOK /\ FindsForOne
<1>1. <<>> \in Seq(Handlers) /\ <<>> \in Seq(Connections) /\ Len(<<>>) = 0
  OBVIOUS
<1> QED
  BY <1>1, ConnectionsAssumption, ThreadsAssumption, MaxPartsAssumption
     DEF Init, TypeOK, FindsForOne, Statuses, Places, Stages

\* Every state of the listener, the pool, the handlers and the connections is
\* well typed; in particular the pool never holds more than MaxThreads handlers.
THEOREM TypeCorrect == Spec => []TypeOK
<1>1. TypeOK /\ FindsForOne /\ [Next]_vars => TypeOK' /\ FindsForOne'
  BY TypeStep
<1> QED
  BY <1>1, InitTypes, PTL DEF Spec

-----------------------------------------------------------------------------
(* The pool and its threads.                                               *)

\* Every action keeps what the pool may believe of its handlers, and with it
\* that only an idle handler is given a connection.
LEMMA HandlerStep ==
    ASSUME HandlerInv, [Next]_vars
    PROVE  ThreadsOfPool' /\ EndedIsEmpty' /\ SocketFreeForNext' /\ IdleHasNoClient'
<1> USE DEF HandlerInv, PoolInv, TypeOK
<1>0. /\ Len(pool) \in Nat /\ DOMAIN pool = 1 .. Len(pool)
      /\ \A i \in DOMAIN pool : pool[i] \in Handlers /\ pool[i] \in Range(pool)
  BY DEF Range
<1>1. CASE \/ \E c \in Connections : Client(c) \/ IncomingConnection(c)
           \/ FoundBusy \/ Reject \/ Cleanup \/ Spare \/ CleanupEnds \/ Close \/ PoolDeleted
           \/ Listen \/ UNCHANGED vars
  <2>1. UNCHANGED <<pool, busy, posted, socket, stage, quit>>
    BY <1>1 DEF Client, ChangePeer, IncomingConnection, FoundBusy, Reject, Cleanup, Spare,
       CleanupEnds, Close, PoolDeleted, Listen, mainVars, handlerVars, vars
  <2>2. main' = "deleting" => main = "deleting"
    BY <1>1 DEF Client, ChangePeer, IncomingConnection, FoundBusy, Reject, Cleanup, Spare,
       CleanupEnds, Close, PoolDeleted, Listen, mainVars, vars
  <2>3. main \in {"deleting", "closing"} /\ scan \in DOMAIN pool => UNCHANGED <<main, scan>>
    BY <1>0, <1>1 DEF Client, ChangePeer, IncomingConnection, FoundBusy, Reject, Cleanup, Spare,
       CleanupEnds, Close, PoolDeleted, Listen, mainVars, vars
  <2> QED
    BY <2>1, <2>2, <2>3 DEF ThreadsOfPool, EndedIsEmpty, SocketFreeForNext, IdleHasNoClient,
       Ended, Open
<1>2. CASE FoundIdle
  <2> DEFINE g == pool[scan]
  <2>1. /\ g \in Handlers /\ g \in Range(pool) /\ ~busy[g]
        /\ main = "finding" /\ main' = "eventLoop" /\ incoming \in Connections
        /\ busy' = [busy EXCEPT ![g] = TRUE]
        /\ posted' = [posted EXCEPT ![g] = Append(@, incoming)]
        /\ UNCHANGED <<pool, socket, stage, quit>>
    <3>1. scan \in DOMAIN pool /\ main = "finding" /\ ~busy[g] /\ GivenTo(g)
      BY <1>0, <1>2 DEF FoundIdle
    <3> QED
      BY <1>0, <1>2, <3>1 DEF FoundIdle, GivenTo, FindsForOne
  <2>2. /\ ~Open(g) /\ posted[g] = <<>>
        /\ \A h \in Handlers : ~quit[h]
    BY <2>1 DEF IdleHasNoClient, ThreadsOfPool
  <2>3. ~Ended(g)
    BY <2>1, <2>2 DEF ThreadsOfPool
  <2>4. posted'[g] = <<incoming>> /\ \A h \in Handlers \ {g} : posted'[h] = posted[h]
    BY <2>1, <2>2
  <2>5. ThreadsOfPool'
    BY <2>1, <2>2 DEF ThreadsOfPool, Ended
  <2>6. EndedIsEmpty'
    BY <2>1, <2>2, <2>3, <2>4 DEF EndedIsEmpty, Ended, Open
  <2>7. SocketFreeForNext'
    BY <2>1, <2>2, <2>4 DEF SocketFreeForNext, Open
  <2>8. IdleHasNoClient'
    BY <2>1, <2>4 DEF IdleHasNoClient, Open
  <2> QED
    BY <2>5, <2>6, <2>7, <2>8
<1>3. CASE \E g \in Handlers : CreateHandler(g)
  <2>1. PICK g \in Handlers : CreateHandler(g)
    BY <1>3
  <2>2. /\ g \notin Range(pool) /\ pool' = Append(pool, g)
        /\ main = "finding" /\ main' = "eventLoop" /\ incoming \in Connections
        /\ busy' = [busy EXCEPT ![g] = TRUE]
        /\ posted' = [posted EXCEPT ![g] = Append(@, incoming)]
        /\ socket' = [socket EXCEPT ![g] = NoConnection]
        /\ stage' = [stage EXCEPT ![g] = "eventLoop"]
        /\ UNCHANGED quit
    BY <2>1 DEF CreateHandler, Free, GivenTo, Constructed, FindsForOne
  <2>3. /\ Distinct(pool') /\ Range(pool') = Range(pool) \cup {g}
    BY <2>2, AppendDistinct DEF ThreadsOfPool
  <2>4. /\ posted[g] = <<>> /\ \A h \in Handlers : ~quit[h]
    BY <2>2 DEF ThreadsOfPool, EndedIsEmpty
  <2>5. posted'[g] = <<incoming>> /\ \A h \in Handlers \ {g} : posted'[h] = posted[h]
    BY <2>2, <2>4
  <2>6. ThreadsOfPool'
    BY <2>2, <2>3, <2>4 DEF ThreadsOfPool, Ended
  <2>7. EndedIsEmpty'
    BY <2>2, <2>4, <2>5 DEF EndedIsEmpty, Ended, Open
  <2>8. SocketFreeForNext'
    BY <2>2, <2>5 DEF SocketFreeForNext, Open
  <2>9. IdleHasNoClient'
    BY <2>2, <2>5 DEF IdleHasNoClient, Open
  <2> QED
    BY <2>6, <2>7, <2>8, <2>9
<1>4. CASE DeleteIdle \/ DeleteNext
  <2> DEFINE g == pool[scan]
  <2>1. /\ scan \in DOMAIN pool /\ scan' = scan /\ g \in Handlers /\ g \in Range(pool)
        /\ quit' = [quit EXCEPT ![g] = TRUE]
        /\ UNCHANGED <<pool, busy, posted, socket, stage>>
    BY <1>0, <1>4 DEF DeleteIdle, DeleteNext, QuitAndWait
  <2>2. main' \in {"deleting", "closing"} /\ \A h \in Handlers : quit[h] => h = g
    BY <1>4 DEF DeleteIdle, DeleteNext, ThreadsOfPool
  <2>3. main' = "deleting" => ~busy[g]
    BY <1>4 DEF DeleteIdle, DeleteNext
  <2>4. ThreadsOfPool'
    BY <2>1, <2>2 DEF ThreadsOfPool, Ended
  <2>5. EndedIsEmpty'
    BY <2>1, <2>2, <2>3 DEF EndedIsEmpty, IdleHasNoClient, Ended, Open
  <2> QED
    BY <2>1, <2>4, <2>5 DEF SocketFreeForNext, IdleHasNoClient, Open
<1>5. CASE HandlerDeleted
  <2> DEFINE g == pool[scan]
  <2>1. /\ scan \in 1 .. Len(pool) /\ g \in Handlers /\ quit[g] /\ Ended(g)
        /\ pool' = Without(pool, scan)
        /\ quit' = [quit EXCEPT ![g] = FALSE]
        /\ busy' = [busy EXCEPT ![g] = FALSE]
        /\ UNCHANGED <<posted, socket, stage>>
    BY <1>0, <1>5 DEF HandlerDeleted, Ended
  <2>2. Distinct(pool') /\ Range(pool') = Range(pool) \ {g}
    BY <2>1, WithoutKeeps DEF ThreadsOfPool
  <2>3. \A h \in Handlers : ~quit'[h]
    BY <2>1 DEF ThreadsOfPool
  <2>4. ~Open(g) /\ posted[g] = <<>>
    BY <2>1 DEF EndedIsEmpty
  <2>5. ThreadsOfPool'
    BY <2>1, <2>2, <2>3 DEF ThreadsOfPool, Ended
  <2>6. EndedIsEmpty'
    BY <2>1, <2>3 DEF EndedIsEmpty, Ended, Open
  <2>7. IdleHasNoClient'
    BY <2>1, <2>4 DEF IdleHasNoClient, Open
  <2> QED
    BY <2>1, <2>5, <2>6, <2>7 DEF SocketFreeForNext, Open
<1>6. CASE \E g \in Handlers : HandleConnection(g) \/ SocketUnready(g)
  <2>1. PICK g \in Handlers : HandleConnection(g) \/ SocketUnready(g)
    BY <1>6
  <2>2. /\ stage[g] = "eventLoop" /\ posted[g] # <<>>
        /\ busy' = [busy EXCEPT ![g] = TRUE]
        /\ posted' = [posted EXCEPT ![g] = Tail(@)]
        /\ \E c : socket' = [socket EXCEPT ![g] = c]
        /\ UNCHANGED <<main, scan, pool, stage, quit>>
    <3>1. CASE SocketUnready(g)
      <4>1. socket' = [socket EXCEPT ![g] = socket[g]]
        BY <3>1 DEF SocketUnready
      <4> QED
        BY <3>1, <4>1 DEF SocketUnready, InLoop, mainVars
    <3> QED
      BY <2>1, <3>1 DEF HandleConnection, InLoop, mainVars
  <2>3. Len(posted[g]) = 1 /\ posted[g] \in Seq(Connections)
    BY <2>2 DEF SocketFreeForNext
  <2>4. posted'[g] = <<>> /\ \A h \in Handlers \ {g} : posted'[h] = posted[h]
    <3>1. Tail(posted[g]) = <<>>
      BY <2>3, TailOfOne
    <3> QED
      BY <2>2, <3>1
  <2>5. \A h \in Handlers \ {g} : socket'[h] = socket[h]
    BY <2>2
  <2>6. ThreadsOfPool'
    BY <2>2 DEF ThreadsOfPool, Ended
  <2>7. EndedIsEmpty'
    BY <2>2, <2>4, <2>5 DEF EndedIsEmpty, Ended, Open
  <2>8. SocketFreeForNext'
    BY <2>4, <2>5 DEF SocketFreeForNext, Open
  <2>9. IdleHasNoClient'
    BY <2>2, <2>4, <2>5 DEF IdleHasNoClient, Open
  <2> QED
    BY <2>6, <2>7, <2>8, <2>9
<1>7. CASE \E g \in Handlers : \/ ReadPart(g) \/ ReadEnd(g) \/ ReadBad(g) \/ ReadTimeout(g)
                               \/ ServedKeeps(g) \/ ServedCloses(g)
  <2>1. PICK g \in Handlers : \/ ReadPart(g) \/ ReadEnd(g) \/ ReadBad(g) \/ ReadTimeout(g)
                              \/ ServedKeeps(g) \/ ServedCloses(g)
    BY <1>7
  <2>2. /\ UNCHANGED <<main, scan, pool, busy, posted, socket, quit>>
        /\ stage[g] # "ended" /\ stage'[g] # "ended"
        /\ \A h \in Handlers \ {g} : stage'[h] = stage[h]
    BY <2>1 DEF ReadPart, ReadEnd, ReadBad, ReadPiece, ReadTimeout, ServedKeeps, ServedCloses,
       InLoop, mainVars
  <2> QED
    BY <2>2 DEF ThreadsOfPool, EndedIsEmpty, SocketFreeForNext, IdleHasNoClient, Ended, Open
<1>8. CASE \E g \in Handlers : PeerGone(g) \/ CloseConnection(g)
  <2>1. PICK g \in Handlers : PeerGone(g) \/ CloseConnection(g)
    BY <1>8
  <2>2. /\ UNCHANGED <<main, scan, pool, posted, quit>>
        /\ stage[g] # "ended" /\ stage'[g] # "ended"
        /\ \A h \in Handlers \ {g} : stage'[h] = stage[h]
    BY <2>1 DEF PeerGone, CloseConnection, mainVars
  <2>3. \/ UNCHANGED <<socket, busy>>
        \/ /\ Open(g) /\ socket' = [socket EXCEPT ![g] = NoConnection]
           /\ busy' = [busy EXCEPT ![g] = FALSE]
    BY <2>1 DEF PeerGone, CloseConnection, Disconnected
  <2>4. Open(g) => posted[g] = <<>>
    BY DEF SocketFreeForNext
  <2>5. ThreadsOfPool'
    BY <2>2 DEF ThreadsOfPool, Ended
  <2> QED
    BY <2>2, <2>3, <2>4, <2>5 DEF EndedIsEmpty, SocketFreeForNext, IdleHasNoClient, Ended, Open
<1>9. CASE \E g \in Handlers : ThreadEnds(g)
  <2>1. PICK g \in Handlers : ThreadEnds(g)
    BY <1>9
  <2>2. /\ quit[g] /\ UNCHANGED <<main, scan, pool, busy, quit>>
        /\ socket' = [socket EXCEPT ![g] = NoConnection]
        /\ posted' = [posted EXCEPT ![g] = <<>>]
        /\ stage' = [stage EXCEPT ![g] = "ended"]
    BY <2>1 DEF ThreadEnds, mainVars
  <2> QED
    BY <2>2 DEF ThreadsOfPool, EndedIsEmpty, SocketFreeForNext, IdleHasNoClient, Ended, Open
<1> QED
  BY <1>1, <1>2, <1>3, <1>4, <1>5, <1>6, <1>7, <1>8, <1>9 DEF Next, Main, Thread

\* HandlerInv holds initially and every step preserves it.
LEMMA HandlerInductive == Spec => []HandlerInv
<1>1. Init => HandlerInv
  <2>1. ASSUME Init PROVE ThreadsOfPool /\ EndedIsEmpty /\ SocketFreeForNext /\ IdleHasNoClient
    <3>1. Distinct(pool) /\ Range(pool) = {}
      BY <2>1 DEF Init, Distinct, Range
    <3> QED
      BY <2>1, <3>1 DEF Init, ThreadsOfPool, EndedIsEmpty, SocketFreeForNext, IdleHasNoClient,
         Ended, Open
  <2> QED
    BY <2>1, InitTypes DEF HandlerInv, PoolInv
<1>2. HandlerInv /\ [Next]_vars => HandlerInv'
  BY HandlerStep, TypeStep DEF HandlerInv, PoolInv
<1> QED
  BY <1>1, <1>2, PTL DEF Spec

\* The assertion of HttpConnectionHandler::handleConnection holds: a connection
\* only ever waits for a handler whose socket is closed and that waits for no
\* other, whatever the pool read of busy while the handlers ran.
THEOREM SocketFreeForNextAlways == Spec => []SocketFreeForNext
  BY HandlerInductive, PTL DEF HandlerInv

\* A handler that looks idle to the pool's cleanup has no client.
THEOREM IdleHasNoClientAlways == Spec => []IdleHasNoClient
  BY HandlerInductive, PTL DEF HandlerInv

\* The cleanup never drops a connection that waits for its handler; only closing
\* the server does (HttpConnectionHandlerPool::cleanup and ::~).
THEOREM OnlyCloseLosesAlways == Spec => OnlyCloseLoses
<1>1. ASSUME HandlerInv, [Next]_vars, NEW c \in Connections,
             status[c] = "given", status'[c] = "lost"
      PROVE  main = "closing"
  <2>0. status \in [Connections -> Statuses]
    BY <1>1 DEF HandlerInv, PoolInv, TypeOK
  <2>1. PICK g \in Handlers : ThreadEnds(g)
    <3>1. CASE \E d \in Connections : Client(d) \/ IncomingConnection(d)
      BY <1>1, <2>0, <3>1 DEF Client, ChangePeer, IncomingConnection, Becomes
    <3>2. CASE Main \/ Cleanup \/ Close \/ Listen
      BY <1>1, <2>0, <3>2 DEF Main, FoundBusy, FoundIdle, Reject, CreateHandler, GivenTo, Becomes,
         Spare, CleanupEnds, DeleteIdle, QuitAndWait, HandlerDeleted, DeleteNext, PoolDeleted,
         Cleanup, Close, Listen
    <3>3. CASE \E g \in Handlers : Thread(g) /\ ~ThreadEnds(g)
      BY <1>1, <2>0, <3>3 DEF Thread, HandleConnection, SocketUnready, ReadPart, ReadEnd, ReadBad,
         ReadPiece, ReadTimeout, PeerGone, ServedKeeps, ServedCloses, CloseConnection,
         Disconnected, Becomes
    <3>4. CASE UNCHANGED vars
      BY <1>1, <3>4 DEF vars
    <3> QED
      BY <1>1, <3>1, <3>2, <3>3, <3>4 DEF Next
  <2>2. quit[g] /\ c \in Range(posted[g])
    BY <1>1, <2>1 DEF ThreadEnds
  <2>3. posted[g] # <<>>
    BY <2>2 DEF Range
  <2> QED
    BY <1>1, <2>2, <2>3 DEF HandlerInv, PoolInv, ThreadsOfPool, EndedIsEmpty
<1>2. HandlerInv /\ [Next]_vars =>
        [\A c \in Connections :
            status[c] = "given" /\ status'[c] = "lost" => main = "closing"]_vars
  BY <1>1
<1> QED
  BY <1>2, HandlerInductive, PTL DEF Spec, OnlyCloseLoses

-----------------------------------------------------------------------------
(* Requests.                                                               *)

\* No request is made of the bytes of two connections: handleConnection deletes
\* what a connection lost in the middle of a request has left.
THEOREM RequestOfOneConnectionAlways == Spec => []RequestOfOneConnection
<1> USE DEF RequestOfOneConnection, Open
<1>1. Init => RequestOfOneConnection
  BY DEF Init
<1>2. ASSUME TypeOK, RequestOfOneConnection, [Next]_vars PROVE RequestOfOneConnection'
  <2> USE <1>2 DEF TypeOK
  <2>1. CASE \E g \in Handlers : HandleConnection(g)
    BY <2>1 DEF HandleConnection
  <2>2. CASE \E g \in Handlers : ReadPart(g) \/ ReadEnd(g) \/ ReadBad(g)
    <3>1. PICK g \in Handlers : ReadPiece(g)
      BY <2>2 DEF ReadPart, ReadEnd, ReadBad
    <3>2. /\ socket' = socket /\ request'[g] = request[g] \cup {socket[g]}
          /\ \A h \in Handlers \ {g} : request'[h] = request[h]
      BY <3>1 DEF ReadPiece
    <3>3. request[g] \subseteq {socket[g]}
      BY <3>1 DEF ReadPiece
    <3> QED
      BY <3>2, <3>3
  <2>3. CASE \E g \in Handlers : \/ CreateHandler(g) \/ PeerGone(g) \/ CloseConnection(g)
                                 \/ ThreadEnds(g)
    <3>1. PICK g \in Handlers : \/ CreateHandler(g) \/ PeerGone(g) \/ CloseConnection(g)
                                \/ ThreadEnds(g)
      BY <2>3
    <3>2. /\ \A h \in Handlers \ {g} : socket'[h] = socket[h] /\ request'[h] = request[h]
          /\ \/ socket'[g] = NoConnection
             \/ socket'[g] = socket[g] /\ request'[g] \subseteq request[g]
      BY <3>1 DEF CreateHandler, Constructed, PeerGone, CloseConnection, ThreadEnds, Disconnected
    <3> QED
      BY <3>2
  <2>4. CASE \/ \E c \in Connections : Client(c) \/ IncomingConnection(c)
             \/ FoundBusy \/ FoundIdle \/ Reject \/ Spare \/ CleanupEnds \/ DeleteIdle
             \/ HandlerDeleted \/ DeleteNext \/ PoolDeleted \/ Cleanup \/ Close \/ Listen
             \/ UNCHANGED vars
    BY <2>4 DEF Client, ChangePeer, IncomingConnection, FoundBusy, FoundIdle, Reject, Spare,
       CleanupEnds, DeleteIdle, QuitAndWait, HandlerDeleted, DeleteNext, PoolDeleted, Cleanup,
       Close, Listen, handlerVars, vars
  <2>5. CASE \E g \in Handlers : \/ SocketUnready(g) \/ ReadTimeout(g) \/ ServedKeeps(g)
                                 \/ ServedCloses(g)
    BY <2>5 DEF SocketUnready, ReadTimeout, ServedKeeps, ServedCloses
  <2> QED
    BY <2>1, <2>2, <2>3, <2>4, <2>5 DEF Next, Main, Thread
<1>3. TypeOK /\ RequestOfOneConnection /\ [Next]_vars => RequestOfOneConnection'
  BY <1>2
<1> QED
  BY <1>1, <1>3, TypeCorrect, PTL DEF Spec

=============================================================================
