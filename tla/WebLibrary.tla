----------------------------- MODULE WebLibrary -----------------------------
(***************************************************************************)
(* The library's shared state together: handler threads that use sessions,  *)
(* static files, templates or the log, the timers of the main thread, and   *)
(* the end of the process at any point.                                    *)
(*                                                                         *)
(* The three parts share no variable and no lock, so steps of different     *)
(* parts commute and a property of one depends on its own steps only: a     *)
(* behaviour exercises one part, which is all the others would show of it.  *)
(***************************************************************************)
EXTENDS HttpSessions, FileCaches, Logging

VARIABLE part   \* the part the threads use

vars == <<part, threadVars, sessionVars, fileVars, logVars>>

Init ==
    /\ part \in Parts /\ work = MaxWork[part]
    /\ at = [a \in Actors |-> "idle"] /\ clock = 0
    /\ NoSessions /\ FilesInit /\ LogInit
    /\ part # "caches" => version = [f \in Files |-> 0]
    /\ part # "log" => current = 0

Tick ==
    /\ clock < MaxClock
    /\ clock' = clock + 1
    /\ UNCHANGED <<part, at, work, sessionVars, fileVars, logVars>>

\* The process is killed, or dies of a write to the log that fails: write()
\* then uses the file it has just closed.  Only the files remain.
Restart ==
    /\ Work
    /\ at' = [a \in Actors |-> "idle"]
    /\ SessionsGone /\ CachesGone /\ LoggerGone
    /\ UNCHANGED <<part, clock, version, changed, filesVars>>

Next ==
    \/ part = "sessions" /\ Sessions /\ UNCHANGED <<part, fileVars, logVars>>
    \/ part = "caches" /\ Caches /\ UNCHANGED <<part, sessionVars, logVars>>
    \/ part = "log" /\ Logs /\ UNCHANGED <<part, sessionVars, fileVars>>
    \/ Tick \/ Restart

Spec == Init /\ [][Next]_vars

=============================================================================
