---------------------------- MODULE HandlerThread ---------------------------
(***************************************************************************)
(* The threads that use the web library: handler threads, which serve one   *)
(* request at a time, and the main thread, which runs the library's timers. *)
(***************************************************************************)
EXTENDS Naturals, FiniteSets

CONSTANTS
    Threads,    \* the handler threads
    Main,       \* the main thread
    Parts,      \* the parts of the library that are modelled
    MaxWork,    \* bound of the model for each: calls, timer events, changes
    MaxClock    \* bound of the model: the last time of the clock

ASSUME MaxWorkAssumption == MaxWork \in [Parts -> Nat] /\ MaxClock \in Nat

Actors == Threads \cup {Main}
Nobody == "nobody"

\* The pool has a limit; the library's timers run in none of its threads.
ASSUME ThreadsAssumption ==
    IsFiniteSet(Threads) /\ Main \notin Threads /\ Nobody \notin Actors

VARIABLES
    at,     \* where each thread is
    clock,  \* the wall clock
    work    \* what is left of MaxWork

threadVars == <<at, clock, work>>

Work == work > 0 /\ work' = work - 1

\* An idle thread calls the library; a thread in a call goes on.
Enters(a, place) ==
    /\ at[a] = "idle" /\ Work
    /\ at' = [at EXCEPT ![a] = place] /\ UNCHANGED clock

Goes(a, from, to) ==
    /\ at[a] = from
    /\ at' = [at EXCEPT ![a] = to] /\ UNCHANGED <<clock, work>>

=============================================================================
