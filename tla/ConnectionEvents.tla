-------------------------- MODULE ConnectionEvents --------------------------
(***************************************************************************)
(* The event queue of the main thread, as far as the broker connection is  *)
(* concerned.  Paho's callbacks emit MQTTClient::connected, disconnected,  *)
(* received and sended in Paho's own threads; the receiving objects live   *)
(* in the main thread, so Qt queues each emission and the main thread      *)
(* takes them one by one, in the order they were emitted.                  *)
(***************************************************************************)
EXTENDS Naturals, Sequences

\* Event e waits in queue q.
Waiting(q, e) == \E i \in 1..Len(q) : q[i] = e

\* Every waiting loss of the connection is followed by a waiting reconnection.
LossCovered(q, lost, connected) ==
    \A i \in 1..Len(q) : q[i] = lost =>
        \E j \in (i + 1)..Len(q) : q[j] = connected

=============================================================================
