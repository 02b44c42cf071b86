---------------------------- MODULE HttpSessions ----------------------------
(***************************************************************************)
(* HttpSessionStore and the handles of HttpSession: a session's data is     *)
(* shared by the store and by the handles the threads hold, counted by      *)
(* refCount, and deleted with the last handle.                              *)
(*                                                                         *)
(* A copy counts up under the data's write lock, a destructor counts down   *)
(* under its read lock only: two threads may do that at once, each loading  *)
(* the counter, storing what it made of it, and unlocking the data before   *)
(* it looks whether it has to delete it.                                    *)
(***************************************************************************)
EXTENDS HandlerThread, SequencesExt

CONSTANTS
    Data,           \* bound of the model: the sessions ever created
    ExpirationTime  \* setting expirationTime

NoSession == "none"

ASSUME SessionsAssumption == ExpirationTime \in Nat /\ NoSession \notin Data

VARIABLES
    storeMutex, \* who holds HttpSessionStore::mutex
    stored,     \* the sessions in HttpSessionStore::sessions
    live,       \* data that is allocated
    deleted,    \* data that was
    refCount, lastAccess,
    wanted,     \* the session id a thread looks for in getSession
    handles,    \* the handles of a thread's scopes, the innermost last
    releasing,  \* the data whose count a thread is lowering
    loaded,     \* the count it loaded for that
    unlocking,  \* the data whose count it has lowered, still read-locked by it
    scan        \* the sessions the timer event has still to visit

sessionVars ==
    <<storeMutex, stored, live, deleted, refCount, lastAccess, wanted, handles,
      releasing, loaded, unlocking, scan>>

NoSessions ==
    /\ storeMutex = Nobody /\ stored = {} /\ live = {} /\ deleted = {}
    /\ refCount = [d \in Data |-> 0] /\ lastAccess = [d \in Data |-> 0]
    /\ wanted = [a \in Actors |-> NoSession]
    /\ handles = [a \in Actors |-> <<>>]
    /\ releasing = [a \in Actors |-> NoSession]
    /\ loaded = [a \in Actors |-> 0]
    /\ unlocking = [a \in Actors |-> NoSession]
    /\ scan = {}

SessionsGone ==
    /\ storeMutex' = Nobody /\ stored' = {} /\ live' = {} /\ deleted' = {}
    /\ refCount' = [d \in Data |-> 0] /\ lastAccess' = [d \in Data |-> 0]
    /\ wanted' = [a \in Actors |-> NoSession]
    /\ handles' = [a \in Actors |-> <<>>]
    /\ releasing' = [a \in Actors |-> NoSession]
    /\ loaded' = [a \in Actors |-> 0]
    /\ unlocking' = [a \in Actors |-> NoSession]
    /\ scan' = {}

-----------------------------------------------------------------------------
(* Handles.                                                                *)

\* Nobody holds the data's read lock to lower its count.
Unread(d) == \A a \in Actors : releasing[a] # d /\ unlocking[a] # d

\* Mutant: the copy constructor too takes the read lock.
CopyUnlocked(a, d) ==
    /\ refCount' = [refCount EXCEPT ![d] = @ + 1]
    /\ handles' = [handles EXCEPT ![a] = Append(@, d)]

\* The copy constructor: its write lock keeps those out who lower the count.
Copy(a, d) ==
    /\ Unread(d)
    /\ refCount' = [refCount EXCEPT ![d] = @ + 1]
    /\ handles' = [handles EXCEPT ![a] = Append(@, d)]

BeginRelease(a, d) ==
    /\ releasing[a] = NoSession /\ unlocking[a] = NoSession
    /\ releasing' = [releasing EXCEPT ![a] = d]
    /\ loaded' = [loaded EXCEPT ![a] = refCount[d]]
    /\ UNCHANGED unlocking

\* The lowered count, whatever others have stored since it was loaded.
StoreCount(a) ==
    /\ releasing[a] # NoSession
    /\ refCount' = [refCount EXCEPT ![releasing[a]] = loaded[a] - 1]
    /\ unlocking' = [unlocking EXCEPT ![a] = releasing[a]]
    /\ releasing' = [releasing EXCEPT ![a] = NoSession]
    /\ UNCHANGED <<threadVars, storeMutex, stored, live, deleted, lastAccess, wanted, handles,
                   loaded, scan>>

\* The value that is compared is the one before the decrement for operator=,
\* the one after it for the destructor.
Deletes(a) == loaded[a] = IF at[a] = "parting" THEN 0 ELSE 1

\* unlock(), of data another thread may have deleted since, and delete.
EndRelease(a) ==
    /\ unlocking[a] # NoSession
    /\ live' = IF Deletes(a) THEN live \ {unlocking[a]} ELSE live
    /\ deleted' = IF Deletes(a) THEN deleted \cup {unlocking[a]} ELSE deleted
    /\ unlocking' = [unlocking EXCEPT ![a] = NoSession]
    /\ UNCHANGED <<refCount, releasing, loaded>>

Leaving == {"leaving", "erasing", "dropping"}

\* ~HttpSession of the innermost handle, which is no more from here on.
BeginDestructor(a) ==
    /\ at[a] \in Leaving /\ handles[a] # <<>>
    /\ BeginRelease(a, Last(handles[a]))
    /\ handles' = [handles EXCEPT ![a] = Front(@)]
    /\ UNCHANGED <<threadVars, storeMutex, stored, live, deleted, refCount, lastAccess,
                   wanted, scan>>

\* The scope goes on to its next handle, or ends: removeSession's lock and the
\* step of the timer event with it.
EndDestructor(a) ==
    /\ at[a] \in Leaving
    /\ EndRelease(a)
    /\ at' = [at EXCEPT ![a] = IF @ = "erasing" THEN "leaving"
                               ELSE IF handles[a] # <<>> THEN @
                               ELSE IF @ = "dropping" THEN "scanning" ELSE "idle"]
    /\ storeMutex' = IF at[a] = "erasing" THEN Nobody ELSE storeMutex
    /\ UNCHANGED <<clock, work, stored, lastAccess, wanted, handles, scan>>

-----------------------------------------------------------------------------
(* The store, called by a request handler in thread t.                     *)

\* getSessionId: the cookie may name any session, or none.
GetSessionId(t, cookie) ==
    /\ Enters(t, "lookup") /\ storeMutex = Nobody
    /\ wanted' = [wanted EXCEPT ![t] = IF cookie \in stored THEN cookie ELSE NoSession]
    /\ UNCHANGED <<storeMutex, stored, live, deleted, refCount, lastAccess, handles,
                   releasing, loaded, unlocking, scan>>

\* getSession takes the mutex again: the session may be gone.
FoundSession(t) ==
    /\ Goes(t, "lookup", "touch") /\ storeMutex = Nobody
    /\ wanted[t] \in stored
    /\ Copy(t, wanted[t])
    /\ wanted' = [wanted EXCEPT ![t] = NoSession]
    /\ UNCHANGED <<storeMutex, stored, live, deleted, lastAccess, releasing,
                   loaded, unlocking, scan>>

\* setLastAccess, after the mutex.
SetLastAccess(t) ==
    /\ Goes(t, "touch", "using")
    /\ lastAccess' = [lastAccess EXCEPT ![Last(handles[t])] = clock]
    /\ UNCHANGED <<storeMutex, stored, live, deleted, refCount, wanted, handles, releasing,
                   loaded, unlocking, scan>>

\* One handle for the caller and one for the store.
CreateSession(t, d) ==
    /\ Goes(t, "lookup", "using") /\ storeMutex = Nobody
    /\ wanted[t] \notin stored /\ d \in Data \ (live \cup deleted)
    /\ live' = live \cup {d} /\ stored' = stored \cup {d}
    /\ refCount' = [refCount EXCEPT ![d] = 2]
    /\ lastAccess' = [lastAccess EXCEPT ![d] = clock]
    /\ handles' = [handles EXCEPT ![t] = <<d>>]
    /\ wanted' = [wanted EXCEPT ![t] = NoSession]
    /\ UNCHANGED <<storeMutex, deleted, releasing, loaded, unlocking, scan>>

NullSession(t) ==
    /\ Goes(t, "lookup", "idle") /\ storeMutex = Nobody
    /\ wanted[t] \notin stored
    /\ wanted' = [wanted EXCEPT ![t] = NoSession]
    /\ UNCHANGED <<storeMutex, stored, live, deleted, refCount, lastAccess, handles,
                   releasing, loaded, unlocking, scan>>

EndOfScope(t) ==
    /\ Goes(t, "using", "leaving")
    /\ UNCHANGED sessionVars

\* session = store.getSession(id), with a temporary handle.
GetSessionById(t, d) ==
    /\ Goes(t, "using", "assign") /\ storeMutex = Nobody
    /\ d \in stored
    /\ Copy(t, d)
    /\ UNCHANGED <<storeMutex, stored, live, deleted, lastAccess, wanted, releasing,
                   loaded, unlocking, scan>>

\* operator= first counts the new data up ...
AssignNew(t) ==
    /\ Goes(t, "assign", "assigned")
    /\ Copy(t, Last(handles[t]))
    /\ lastAccess' = [lastAccess EXCEPT ![Last(handles[t])] = clock]
    /\ UNCHANGED <<storeMutex, stored, live, deleted, wanted, releasing, loaded, unlocking, scan>>

\* ... then the old data down.
AssignOld(t) ==
    /\ Goes(t, "assigned", "parting")
    /\ BeginRelease(t, Head(handles[t]))
    /\ handles' = [handles EXCEPT ![t] = Tail(@)]
    /\ UNCHANGED <<storeMutex, stored, live, deleted, refCount, lastAccess, wanted, scan>>

EndAssign(t) ==
    /\ Goes(t, "parting", "leaving")
    /\ EndRelease(t)
    /\ UNCHANGED <<storeMutex, stored, lastAccess, wanted, handles, scan>>

\* removeSession has a copy of the handle.
RemoveSession(t) ==
    /\ Goes(t, "using", "removing")
    /\ Copy(t, Last(handles[t]))
    /\ UNCHANGED <<storeMutex, stored, live, deleted, lastAccess, wanted, releasing,
                   loaded, unlocking, scan>>

\* The store's handle is destroyed under the mutex.
Erase(t) ==
    /\ Goes(t, "removing", "erasing") /\ storeMutex = Nobody
    /\ Last(handles[t]) \in stored
    /\ storeMutex' = t
    /\ stored' = stored \ {Last(handles[t])}
    /\ handles' = [handles EXCEPT ![t] = Append(@, Last(@))]
    /\ UNCHANGED <<live, deleted, refCount, lastAccess, wanted, releasing, loaded, unlocking, scan>>

EraseNothing(t) ==
    /\ Goes(t, "removing", "leaving") /\ storeMutex = Nobody
    /\ Last(handles[t]) \notin stored
    /\ UNCHANGED sessionVars

-----------------------------------------------------------------------------
(* sessionTimerEvent, in the main thread, holds the mutex all along.       *)

SessionTimerEvent ==
    /\ Enters(Main, "scanning") /\ storeMutex = Nobody
    /\ storeMutex' = Main /\ scan' = stored
    /\ UNCHANGED <<stored, live, deleted, refCount, lastAccess, wanted, handles, releasing,
                   loaded, unlocking>>

ScanSession(d) ==
    /\ Goes(Main, "scanning", "checking")
    /\ d \in scan /\ scan' = scan \ {d}
    /\ Copy(Main, d)
    /\ UNCHANGED <<storeMutex, stored, live, deleted, lastAccess, wanted, releasing,
                   loaded, unlocking>>

Expired(d) == clock - lastAccess[d] > ExpirationTime

ExpireSession ==
    /\ Goes(Main, "checking", "dropping")
    /\ LET d == Last(handles[Main]) IN
        IF Expired(d)
        THEN /\ stored' = stored \ {d}
             /\ handles' = [handles EXCEPT ![Main] = Append(@, d)]
        ELSE UNCHANGED <<stored, handles>>
    /\ UNCHANGED <<storeMutex, live, deleted, refCount, lastAccess, wanted, releasing,
                   loaded, unlocking, scan>>

TimerEventEnds ==
    /\ Goes(Main, "scanning", "idle") /\ scan = {}
    /\ storeMutex' = Nobody
    /\ UNCHANGED <<stored, live, deleted, refCount, lastAccess, wanted, handles, releasing,
                   loaded, unlocking, scan>>

-----------------------------------------------------------------------------

Sessions ==
    \/ \E t \in Threads :
        \/ \E cookie \in Data : GetSessionId(t, cookie) \/ CreateSession(t, cookie)
                                \/ GetSessionById(t, cookie)
        \/ FoundSession(t) \/ SetLastAccess(t) \/ NullSession(t) \/ EndOfScope(t)
        \/ AssignNew(t) \/ AssignOld(t) \/ EndAssign(t)
        \/ RemoveSession(t) \/ Erase(t) \/ EraseNothing(t)
    \/ \E a \in Actors : BeginDestructor(a) \/ StoreCount(a) \/ EndDestructor(a)
    \/ SessionTimerEvent \/ (\E d \in Data : ScanSession(d)) \/ ExpireSession
    \/ TimerEventEnds

\* Nobody holds a handle to data that is deleted, although the counter loses
\* decrements and the store lets go of sessions that are in use: a count that
\* goes wrong only ever keeps data too long.  Not so the data's lock: whoever
\* stored the count may unlock it when another has deleted it.
SessionsAlive ==
    /\ stored \subseteq live
    /\ \A a \in Actors :
        /\ \A i \in 1 .. Len(handles[a]) : handles[a][i] \in live
        /\ releasing[a] # NoSession => releasing[a] \in live

=============================================================================
