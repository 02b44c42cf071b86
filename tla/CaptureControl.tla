--------------------------- MODULE CaptureControl ---------------------------
(***************************************************************************)
(* Remote control of the capture thread.                                   *)
(*                                                                         *)
(* Three actors share the state below.  Paho's threads turn the broker     *)
(* connection and the control messages into Qt signals; their receivers    *)
(* live in the main thread, so each becomes an event of its queue          *)
(* (events).  The main thread runs the slots of WiCamMQTTClient and        *)
(* WiSurveillanceSys.  The capture thread runs WiCaptureSystem::run().     *)
(* The last two communicate through m_doStop and m_alive, two volatile     *)
(* flags no lock protects, so every access to one of them is a step.       *)
(***************************************************************************)
EXTENDS ConnectionEvents

CONSTANTS
    MaxQueue    \* bound of the model: events waiting in the main thread's queue

ASSUME MaxQueueAssumption == MaxQueue \in Nat \ {0}

VARIABLES
    process,            \* "up"; "down" once qFatal aborted it or the power is off
    link,               \* Paho's connection to the broker is up
    subscribed,         \* the broker's session of this client has the control topic
    retained,           \* the retained message of <topic>/state, seen by every client
    events,             \* the event queue of the main thread
    step,               \* where the main thread is inside a control slot
    command,            \* the command that slot executes
    m_connected,        \* WiCamMQTTClient::m_connected
    m_currSystemState,  \* WiCamMQTTClient::m_currSystemState, the state reported
    m_doStop,           \* WiCaptureSystem::m_doStop
    m_alive,            \* WiCaptureSystem::m_alive
    thread,             \* where the capture thread is
    hurried             \* a command arrived before the one before it had settled

brokerVars  == <<link, subscribed, retained>>
clientVars  == <<m_connected, m_currSystemState>>
mainVars    == <<events, step, command>>
captureVars == <<m_doStop, m_alive, thread>>
vars == <<process, brokerVars, clientVars, mainVars, captureVars, hurried>>

-----------------------------------------------------------------------------

Commands   == {"ON", "OFF", "POWER_OFF"}
Events     == Commands \cup {"connected", "lost"}
StopSteps  == {"stopCheck", "stopWrite", "stopPublish"}
Steps      == {"idle", "start", "startPublish", "powerOff"} \cup StopSteps

\* "notRunning": QThread has no thread; "starting": start() was called and run()
\* has not begun; "stopping": run() has read m_doStop and not yet cleared it;
\* "returning": m_alive is down and run() has not returned.
Ended   == {"notRunning", "stopping", "exiting", "returning"}
Aliving == {"opening", "loop", "frame", "stopping", "exiting"}
Threads == Ended \cup Aliving \cup {"starting"}

Up == process = "up"
Queued(e) == Waiting(events, e)

\* Mutant: the words of the control topic published as a state.
ControlWordAsState(running) == IF running THEN "ON" ELSE "OFF"

StateMessage(running) == IF running THEN "RUNNING" ELSE "STOPPED"

\* The constructors: nothing captured, nothing connected, state "stopped".
FreshProcess ==
    /\ link' = FALSE /\ subscribed' = FALSE
    /\ events' = <<>> /\ step' = "idle" /\ command' = "OFF"
    /\ m_connected' = FALSE /\ m_currSystemState' = FALSE
    /\ m_doStop' = FALSE /\ m_alive' = FALSE /\ thread' = "notRunning"
    /\ UNCHANGED hurried

\* The broker may hold a state message of an earlier life of the program.
Init ==
    /\ process = "up"
    /\ link = FALSE /\ subscribed = FALSE
    /\ retained \in {"none", "RUNNING", "STOPPED"}
    /\ events = <<>> /\ step = "idle" /\ command = "OFF"
    /\ m_connected = FALSE /\ m_currSystemState = FALSE
    /\ m_doStop = FALSE /\ m_alive = FALSE /\ thread = "notRunning"
    /\ hurried = FALSE

-----------------------------------------------------------------------------
(* Paho's threads and the broker.                                          *)

Post(e) == Len(events) < MaxQueue /\ events' = Append(events, e)

LinkUp ==
    /\ Up /\ ~link
    /\ link' = TRUE
    /\ Post("connected")
    /\ UNCHANGED <<process, subscribed, retained, step, command, clientVars, captureVars, hurried>>

LinkLost ==
    /\ Up /\ link
    /\ link' = FALSE
    /\ Post("lost")
    /\ UNCHANGED <<process, subscribed, retained, step, command, clientVars, captureVars, hurried>>

\* The thread and the main loop have come to rest after the last command.  No
\* operator sees the thread: the published state may be "stopped" long before.
Settled ==
    /\ step = "idle"
    /\ \A c \in Commands : ~Queued(c)
    /\ thread = "notRunning" \/ (thread \in {"loop", "frame"} /\ ~m_doStop)

\* The subscription has QoS 1: the same command may arrive more than once.
ControlArrives(c) ==
    /\ Up /\ link /\ subscribed
    /\ hurried' = (hurried \/ ~Settled)
    /\ Post(c)
    /\ UNCHANGED <<process, brokerVars, step, command, clientVars, captureVars>>

Paho == LinkUp \/ LinkLost \/ \E c \in Commands : ControlArrives(c)

-----------------------------------------------------------------------------
(* The main thread.                                                        *)

\* WiCamMQTTClient::setSystemState: publish while connected, remember always.
\* sendMessage on a connection Paho has lost fails and is only logged.
SetSystemState(running) ==
    /\ retained' = IF m_connected /\ link THEN StateMessage(running) ELSE retained
    /\ m_currSystemState' = running

Take(e) ==
    /\ Up /\ step = "idle"
    /\ events # <<>> /\ Head(events) = e
    /\ events' = Tail(events)

\* WiCamMQTTClient::onConnected raises m_connected before it publishes the
\* last state, so that publication depends on the link alone.
\* Mutant: the last state is not published again after a reconnection.
ConnectsSilently ==
    /\ Take("connected")
    /\ m_connected' = TRUE
    /\ subscribed' = (subscribed \/ link)
    /\ UNCHANGED <<process, link, retained, step, command, m_currSystemState, captureVars, hurried>>

OnConnected ==
    /\ Take("connected")
    /\ m_connected' = TRUE
    /\ retained' = IF link THEN StateMessage(m_currSystemState) ELSE retained
    /\ subscribed' = (subscribed \/ link)
    /\ UNCHANGED <<process, link, step, command, m_currSystemState, captureVars, hurried>>

OnDisconnected ==
    /\ Take("lost")
    /\ m_connected' = FALSE
    /\ UNCHANGED <<process, brokerVars, step, command, m_currSystemState, captureVars, hurried>>

\* onStartSystemRequested: if(!m_capSys->alive()) ...
OnStartSystemRequested ==
    /\ Take("ON")
    /\ command' = "ON"
    /\ step' = IF m_alive THEN "idle" ELSE "start"
    /\ UNCHANGED <<process, brokerVars, clientVars, captureVars, hurried>>

\* QThread::start() does nothing while the thread is running; the state is
\* reported either way.
StartThread ==
    /\ Up /\ step = "start"
    /\ thread' = IF thread = "notRunning" THEN "starting" ELSE thread
    /\ step' = "startPublish"
    /\ UNCHANGED <<process, brokerVars, clientVars, events, command, m_doStop, m_alive, hurried>>

ReportRunning ==
    /\ Up /\ step = "startPublish"
    /\ SetSystemState(TRUE)
    /\ step' = "idle"
    /\ UNCHANGED <<process, link, subscribed, events, command, m_connected, captureVars, hurried>>

AfterStop(c) == IF c = "POWER_OFF" THEN "powerOff" ELSE "idle"

\* onStopSystemRequested, also called first by onPowerOffSystemRequested.
OnStopSystemRequested ==
    /\ \E c \in {"OFF", "POWER_OFF"} :
          /\ Take(c)
          /\ command' = c
          /\ step' = IF m_alive THEN "stopCheck" ELSE AfterStop(c)
    /\ UNCHANGED <<process, brokerVars, clientVars, captureVars, hurried>>

\* stopThread(): if(m_alive) m_doStop = true, a read and then a write.
StopThreadReadsAlive ==
    /\ Up /\ step = "stopCheck"
    /\ step' = IF m_alive THEN "stopWrite" ELSE "stopPublish"
    /\ UNCHANGED <<process, brokerVars, clientVars, events, command, captureVars, hurried>>

\* Mutant: stopThread() without its assignment.
StopThreadForgets ==
    /\ Up /\ step = "stopWrite"
    /\ step' = "stopPublish"
    /\ UNCHANGED <<process, brokerVars, clientVars, events, command, captureVars, hurried>>

StopThreadRaisesFlag ==
    /\ Up /\ step = "stopWrite"
    /\ m_doStop' = TRUE
    /\ step' = "stopPublish"
    /\ UNCHANGED <<process, brokerVars, clientVars, events, command, m_alive, thread, hurried>>

ReportStopped ==
    /\ Up /\ step = "stopPublish"
    /\ SetSystemState(FALSE)
    /\ step' = AfterStop(command)
    /\ UNCHANGED <<process, link, subscribed, events, command, m_connected, captureVars, hurried>>

\* sync(); reboot(RB_POWER_OFF): the capture thread is not waited for.
PowerOff ==
    /\ Up /\ step = "powerOff"
    /\ process' = "down"
    /\ FreshProcess
    /\ UNCHANGED retained

Main ==
    \/ OnConnected \/ OnDisconnected
    \/ OnStartSystemRequested \/ StartThread \/ ReportRunning
    \/ OnStopSystemRequested \/ StopThreadReadsAlive \/ StopThreadRaisesFlag
    \/ ReportStopped \/ PowerOff

-----------------------------------------------------------------------------
(* The capture thread: the control skeleton of WiCaptureSystem::run().     *)

At(from, to) ==
    /\ Up /\ thread = from
    /\ thread' = to
    /\ UNCHANGED <<process, brokerVars, clientVars, mainVars, hurried>>

RunBegins   == At("starting", "opening") /\ m_alive' = TRUE /\ UNCHANGED m_doStop
CameraOpens == At("opening", "loop") /\ UNCHANGED <<m_doStop, m_alive>>

\* Mutants: the loop never looks at the flag; it clears the flag at the end of
\* each iteration; it leaves without clearing it.
IgnoresStopFlag == At("loop", "frame") /\ UNCHANGED <<m_doStop, m_alive>>
ProcessesFrameClearingFlag == At("frame", "loop") /\ m_doStop' = FALSE /\ UNCHANGED m_alive
LeavesStopFlagUp == At("stopping", "exiting") /\ UNCHANGED <<m_doStop, m_alive>>

ReadsStopFlag ==
    /\ At("loop", IF m_doStop THEN "stopping" ELSE "frame")
    /\ UNCHANGED <<m_doStop, m_alive>>

ProcessesFrame  == At("frame", "loop") /\ UNCHANGED <<m_doStop, m_alive>>
ClearsStopFlag  == At("stopping", "exiting") /\ m_doStop' = FALSE /\ UNCHANGED m_alive
LowersAliveFlag == At("exiting", "returning") /\ m_alive' = FALSE /\ UNCHANGED m_doStop
RunReturns      == At("returning", "notRunning") /\ UNCHANGED <<m_doStop, m_alive>>

Capture ==
    \/ RunBegins \/ CameraOpens \/ ReadsStopFlag \/ ProcessesFrame
    \/ ClearsStopFlag \/ LowersAliveFlag \/ RunReturns

\* The camera cannot be opened, or not reopened for new settings: qFatal
\* aborts the whole program from the capture thread.
CameraFails ==
    /\ Up /\ thread \in {"opening", "frame"}
    /\ process' = "down"
    /\ FreshProcess
    /\ UNCHANGED retained

Restart ==
    /\ process = "down"
    /\ process' = "up"
    /\ UNCHANGED <<brokerVars, clientVars, mainVars, captureVars, hurried>>

-----------------------------------------------------------------------------

Next == Paho \/ Main \/ Capture \/ CameraFails \/ Restart

Spec == Init /\ [][Next]_vars

\* The scheduler runs both threads; the broker, the operator, the camera's
\* faults and whoever restarts the device owe nothing.
FairSpec == Spec /\ WF_vars(Main) /\ WF_vars(Capture)

-----------------------------------------------------------------------------

\* Every variable keeps its type.
QueueOK == events \in Seq(Events) /\ Len(events) <= MaxQueue

TypeOK ==
    /\ process \in {"up", "down"}
    /\ link \in BOOLEAN /\ subscribed \in BOOLEAN
    /\ retained \in {"none", "RUNNING", "STOPPED"}
    /\ QueueOK
    /\ step \in Steps /\ command \in Commands
    /\ m_connected \in BOOLEAN /\ m_currSystemState \in BOOLEAN
    /\ m_doStop \in BOOLEAN /\ m_alive \in BOOLEAN
    /\ thread \in Threads /\ hurried \in BOOLEAN

\* "Stopped" is never a lie: while the client's state is "stopped" the capture
\* thread has passed its last stop check or will be told to stop at the next
\* one, whatever the order of the accesses to m_doStop and m_alive.  (start()
\* precedes the report of "running" by one step.)
StoppedIsHonest ==
    Up /\ ~m_currSystemState /\ step # "startPublish"
        => thread \in Ended \/ m_doStop

\* A state change made while the connection is down, or while its loss still
\* waits in the event queue, is not lost: once the main thread has handled the
\* newest reconnection the broker retains the state the client holds.
RetainedCatchesUp ==
    Up /\ link /\ ~Queued("connected") => retained = StateMessage(m_currSystemState)

\* What setSystemState's comment promises, "Publish the running state of system",
\* read when all has come to rest: the state is "running" exactly when the capture
\* thread is.  It does not hold: an ON that comes between the report "stopped" and
\* the end of run() starts nothing and is reported as "running".
AlwaysAgree == Up /\ Settled => (m_currSystemState <=> thread # "notRunning")

\* What stopThread's comments promise, "if the thread is running / request
\* stopping the thread": a stop request has a thread to stop.  It does not hold: a
\* second OFF may test m_alive before run() lowers it and raise the flag after.
StopFlagAlwaysRead == m_doStop => thread # "notRunning"

\* Where every command came only after the one before it had settled, the capture
\* thread's end included, state and thread do agree: losses, crashes and restarts
\* alone do not separate them.  To have waited for the published state is not
\* enough: that case is AlwaysAgree's.
Agreement == ~hurried => AlwaysAgree

\* In the same case no stop request outlives its thread either, so none ends the
\* next start before it has captured anything.
StopFlagHasReader == ~hurried => StopFlagAlwaysRead

\* A stop request raised while the thread is alive ends run()'s loop.
StopTakesEffect == (Up /\ m_alive /\ m_doStop) ~> (~m_alive \/ ~Up)

\* A system that stays "stopped" ends up with no capture thread at all.
StoppedComesToRest ==
    (Up /\ ~m_currSystemState /\ step # "startPublish")
        ~> (thread = "notRunning" \/ m_currSystemState \/ step = "startPublish" \/ ~Up)

=============================================================================
