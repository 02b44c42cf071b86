------------------------ MODULE CaptureControl_proof ------------------------
(***************************************************************************)
(* Proofs about CaptureControl for every queue bound and every operator.   *)
(* Each invariant needs strengthening: StoppedIsHonest by what the flags   *)
(* say about the capture thread (HonestInv), RetainedCatchesUp by what the *)
(* event queue says about the connection (LinkInv), Agreement and          *)
(* StopFlagHasReader by what each step of a slot knows about the thread    *)
(* when the commands come one at a time (PatientInv).                      *)
(***************************************************************************)
EXTENDS CaptureControl, TLAPS

-----------------------------------------------------------------------------
(* Type correctness.                                                       *)

\* The empty queue, with which every life of the program begins, is one.
LEMMA EmptyQueue == (events = <<>> => QueueOK) /\ (events' = <<>> => QueueOK')
<1>1. <<>> \in Seq(Events) /\ Len(<<>>) <= MaxQueue
  BY MaxQueueAssumption
<1> QED
  BY <1>1 DEF QueueOK

\* Posting an event keeps the queue within its bound (Post).
LEMMA PostKeepsQueue ==
    ASSUME QueueOK, NEW e \in Events, Post(e)
    PROVE  QueueOK'
<1>1. Len(events) \in Nat /\ events' = Append(events, e) /\ Len(events) < MaxQueue
  BY DEF QueueOK, Post
<1>2. events' \in Seq(Events) /\ Len(events') = Len(events) + 1
  BY <1>1 DEF QueueOK
<1> QED
  BY <1>1, <1>2, MaxQueueAssumption DEF QueueOK

\* Taking the first event keeps the queue within its bound (Take).
LEMMA TakeKeepsQueue ==
    ASSUME QueueOK, NEW e, Take(e)
    PROVE  QueueOK'
<1>1. Len(events) \in Nat /\ events' = Tail(events) /\ events # <<>>
  BY DEF QueueOK, Take
<1>2. events' \in Seq(Events) /\ Len(events') = Len(events) - 1
  BY <1>1 DEF QueueOK
<1> QED
  BY <1>1, <1>2, MaxQueueAssumption DEF QueueOK

\* Every step of the program keeps the event queue within its bound.
LEMMA StepKeepsQueue ==
    ASSUME QueueOK, [Next]_vars
    PROVE  QueueOK'
<1>1. CASE LinkUp
  <2>1. Post("connected") /\ "connected" \in Events
    BY <1>1 DEF LinkUp, Events
  <2> QED  BY <2>1, PostKeepsQueue
<1>2. CASE LinkLost
  <2>1. Post("lost") /\ "lost" \in Events
    BY <1>2 DEF LinkLost, Events
  <2> QED  BY <2>1, PostKeepsQueue
<1>3. CASE \E c \in Commands : ControlArrives(c)
  <2>1. PICK c \in Commands : Post(c)
    BY <1>3 DEF ControlArrives
  <2> QED  BY <2>1, PostKeepsQueue DEF Events
<1>4. CASE OnConnected \/ OnDisconnected \/ OnStartSystemRequested \/ OnStopSystemRequested
  <2>1. PICK e : Take(e)
    BY <1>4 DEF OnConnected, OnDisconnected, OnStartSystemRequested, OnStopSystemRequested
  <2> QED  BY <2>1, TakeKeepsQueue
<1>5. CASE PowerOff \/ CameraFails
  <2>1. events' = <<>>
    BY <1>5 DEF PowerOff, CameraFails, FreshProcess
  <2> QED  BY <2>1, EmptyQueue
<1>6. CASE \/ StartThread \/ ReportRunning \/ StopThreadReadsAlive \/ StopThreadRaisesFlag
           \/ ReportStopped \/ Capture \/ Restart \/ UNCHANGED vars
  <2>1. events' = events
    BY <1>6 DEF StartThread, ReportRunning, StopThreadReadsAlive, StopThreadRaisesFlag,
       ReportStopped, Capture, RunBegins, CameraOpens, ReadsStopFlag, ProcessesFrame,
       ClearsStopFlag, LowersAliveFlag, RunReturns, At, Restart, vars, mainVars
  <2> QED  BY <2>1 DEF QueueOK
<1> QED
  BY <1>1, <1>2, <1>3, <1>4, <1>5, <1>6 DEF Next, Paho, Main

\* The program starts in a well-typed state.
LEMMA InitTypes == Init => TypeOK
  BY EmptyQueue DEF Init, TypeOK, Steps, StopSteps, Commands, Threads, Ended

\* Every state of the program and of its event queue is well typed
\* (WiCamMQTTClient, WiSurveillanceSys and WiCaptureSystem together).
THEOREM TypeCorrect == Spec => []TypeOK
<1>1. TypeOK /\ [Next]_vars => TypeOK'
  <2> SUFFICES ASSUME TypeOK, [Next]_vars PROVE TypeOK'
    OBVIOUS
  <2>0. QueueOK'
    BY StepKeepsQueue DEF TypeOK
  <2> USE <2>0 DEF TypeOK
  <2>1. CASE LinkUp \/ LinkLost
    BY <2>1 DEF LinkUp, LinkLost, clientVars, captureVars
  <2>2. CASE \E c \in Commands : ControlArrives(c)
    BY <2>2 DEF ControlArrives, brokerVars, clientVars, captureVars
  <2>3. CASE OnConnected \/ OnDisconnected
    BY <2>3 DEF OnConnected, OnDisconnected, StateMessage, brokerVars, captureVars
  <2>4. CASE OnStartSystemRequested
    BY <2>4 DEF OnStartSystemRequested, Steps, Commands, brokerVars, clientVars, captureVars
  <2>5. CASE StartThread
    BY <2>5 DEF StartThread, Steps, Threads, brokerVars, clientVars
  <2>6. CASE ReportRunning
    BY <2>6 DEF ReportRunning, SetSystemState, StateMessage, Steps, captureVars
  <2>7. CASE OnStopSystemRequested
    BY <2>7 DEF OnStopSystemRequested, AfterStop, Steps, StopSteps, Commands,
       brokerVars, clientVars, captureVars
  <2>8. CASE StopThreadReadsAlive
    BY <2>8 DEF StopThreadReadsAlive, Steps, StopSteps, brokerVars, clientVars, captureVars
  <2>9. CASE StopThreadRaisesFlag
    BY <2>9 DEF StopThreadRaisesFlag, Steps, StopSteps, brokerVars, clientVars
  <2>10. CASE ReportStopped
    BY <2>10 DEF ReportStopped, SetSystemState, StateMessage, AfterStop, Steps, captureVars
  <2>11. CASE PowerOff \/ CameraFails
    BY <2>11 DEF PowerOff, CameraFails, FreshProcess, Steps, Commands, Threads, Ended
  <2>12. CASE Capture
    <3>1. UNCHANGED <<process, link, subscribed, retained, step, command, m_connected,
                      m_currSystemState, hurried>>
      BY <2>12 DEF Capture, RunBegins, CameraOpens, ReadsStopFlag, ProcessesFrame, ClearsStopFlag,
         LowersAliveFlag, RunReturns, At, brokerVars, clientVars, mainVars
    <3>2. thread' \in Threads
      BY <2>12 DEF Capture, RunBegins, CameraOpens, ReadsStopFlag, ProcessesFrame, ClearsStopFlag,
         LowersAliveFlag, RunReturns, At, Threads, Ended, Aliving
    <3>3. m_doStop' \in {FALSE, m_doStop} /\ m_alive' \in {TRUE, FALSE, m_alive}
      BY <2>12 DEF Capture, RunBegins, CameraOpens, ReadsStopFlag, ProcessesFrame, ClearsStopFlag,
         LowersAliveFlag, RunReturns
    <3> QED
      BY <3>1, <3>2, <3>3
  <2>13. CASE Restart \/ UNCHANGED vars
    BY <2>13 DEF Restart, vars, brokerVars, clientVars, mainVars, captureVars
  <2> QED
    BY <2>1, <2>2, <2>3, <2>4, <2>5, <2>6, <2>7, <2>8, <2>9, <2>10, <2>11, <2>12, <2>13
       DEF Next, Paho, Main
<1> QED
  BY <1>1, InitTypes, PTL DEF Spec

-----------------------------------------------------------------------------
(* Stopped is honest.                                                      *)

\* The flags and the thread: m_alive is up exactly while run() is between its
\* two assignments; inside onStopSystemRequested the thread has begun (the slot
\* found it alive, and only the main thread starts it); once the flag is
\* raised, or was not needed, the thread has ended or will be stopped.  A
\* program that is down has no threads.
FlagsAgree ==
    /\ m_alive <=> thread \in Aliving
    /\ step \in StopSteps => thread # "starting"
    /\ step = "stopPublish" => thread \in Ended \/ m_doStop
    /\ ~Up => thread = "notRunning"

HonestInv == TypeOK /\ FlagsAgree /\ StoppedIsHonest

\* HonestInv holds initially and every step preserves it.
LEMMA HonestInductive == Spec => []HonestInv
<1>1. Init => FlagsAgree /\ StoppedIsHonest
  BY DEF Init, FlagsAgree, StoppedIsHonest, Ended, Aliving, StopSteps
<1>2. ASSUME HonestInv, [Next]_vars PROVE FlagsAgree' /\ StoppedIsHonest'
  <2> USE <1>2 DEF HonestInv, FlagsAgree, StoppedIsHonest, Up
  <2>1. CASE Paho
    BY <2>1 DEF Paho, LinkUp, LinkLost, ControlArrives, clientVars, captureVars
  <2>2. CASE OnConnected \/ OnDisconnected
    BY <2>2 DEF OnConnected, OnDisconnected, captureVars
  <2>3. CASE OnStartSystemRequested
    BY <2>3 DEF OnStartSystemRequested, Take, StopSteps, Aliving, clientVars, captureVars
  <2>4. CASE StartThread
    BY <2>4 DEF StartThread, StopSteps, Aliving, clientVars
  <2>5. CASE ReportRunning
    BY <2>5 DEF ReportRunning, SetSystemState, StopSteps, captureVars
  <2>6. CASE OnStopSystemRequested
    BY <2>6 DEF OnStopSystemRequested, Take, AfterStop, StopSteps, Aliving, clientVars, captureVars
  <2>7. CASE StopThreadReadsAlive
    \* Not alive and not "starting": the thread is past m_alive = false.
    <3>1. thread \in Threads
      BY DEF TypeOK
    <3> QED
      BY <2>7, <3>1 DEF StopThreadReadsAlive, StopSteps, Threads, Ended, Aliving, clientVars, captureVars
  <2>8. CASE StopThreadRaisesFlag
    BY <2>8 DEF StopThreadRaisesFlag, StopSteps, clientVars
  <2>9. CASE ReportStopped
    BY <2>9 DEF ReportStopped, SetSystemState, AfterStop, StopSteps, captureVars
  <2>10. CASE PowerOff \/ CameraFails
    BY <2>10 DEF PowerOff, CameraFails, FreshProcess, StopSteps, Ended, Aliving
  <2>11. CASE Capture
    <3> USE DEF At, StopSteps, Ended, Aliving, clientVars, mainVars
    <3>1. CASE RunBegins
      BY <2>11, <3>1 DEF RunBegins
    <3>2. CASE CameraOpens \/ ProcessesFrame
      BY <2>11, <3>2 DEF CameraOpens, ProcessesFrame
    <3>3. CASE ReadsStopFlag
      BY <2>11, <3>3 DEF ReadsStopFlag
    <3>4. CASE ClearsStopFlag \/ LowersAliveFlag \/ RunReturns
      BY <2>11, <3>4 DEF ClearsStopFlag, LowersAliveFlag, RunReturns
    <3> QED
      BY <2>11, <3>1, <3>2, <3>3, <3>4 DEF Capture
  <2>12. CASE Restart
    BY <2>12 DEF Restart, Ended, clientVars, mainVars, captureVars
  <2>13. CASE UNCHANGED vars
    BY <2>13 DEF vars, clientVars, mainVars, captureVars
  <2> QED
    BY <2>1, <2>2, <2>3, <2>4, <2>5, <2>6, <2>7, <2>8, <2>9, <2>10, <2>11, <2>12, <2>13
       DEF Next, Main
<1>3. TypeOK /\ TypeOK' /\ FlagsAgree /\ StoppedIsHonest /\ [Next]_vars
        => FlagsAgree' /\ StoppedIsHonest'
  BY <1>2 DEF HonestInv
<1> QED
  BY <1>1, <1>3, TypeCorrect, PTL DEF Spec, HonestInv

\* While the client's state is "stopped" the capture thread has passed its last
\* stop check or will find m_doStop raised at the next one (onStopSystemRequested
\* racing WiCaptureSystem::run).
THEOREM StoppedIsHonestAlways == Spec => []StoppedIsHonest
  BY HonestInductive, PTL DEF HonestInv

-----------------------------------------------------------------------------
(* What posting an event and taking the first one do to those that wait.   *)

\* Posting event e: it waits, the others still wait and nothing else does.
LEMMA PostWaits ==
    ASSUME NEW S, NEW q \in Seq(S), NEW e \in S, NEW p, p = Append(q, e)
    PROVE  \A x : Waiting(p, x) <=> Waiting(q, x) \/ x = e
<1>1. /\ Len(p) = Len(q) + 1
      /\ Len(q) \in Nat
      /\ \A i \in 1..Len(q) : p[i] = q[i]
      /\ p[Len(q) + 1] = e
  OBVIOUS
<1> QED
  BY <1>1 DEF Waiting

\* Posting a reconnection covers every loss before it, and posting an event
\* that is no loss uncovers none.
LEMMA PostCovers ==
    ASSUME NEW S, NEW q \in Seq(S), NEW e \in S, NEW p, p = Append(q, e),
           NEW lost, NEW connected, lost # connected
    PROVE  /\ e = connected => LossCovered(p, lost, connected)
           /\ e # lost /\ LossCovered(q, lost, connected) => LossCovered(p, lost, connected)
<1>1. /\ Len(p) = Len(q) + 1
      /\ Len(q) \in Nat
      /\ \A i \in 1..Len(q) : p[i] = q[i]
      /\ p[Len(q) + 1] = e
  OBVIOUS
<1>2. e = connected => LossCovered(p, lost, connected)
  <2>1. SUFFICES ASSUME e = connected, NEW i \in 1..Len(p), p[i] = lost
                 PROVE  \E j \in (i + 1)..Len(p) : p[j] = connected
    BY DEF LossCovered
  <2>2. i < Len(p)
    BY <1>1, <2>1
  <2> QED
    BY <1>1, <2>1, <2>2
<1>3. e # lost /\ LossCovered(q, lost, connected) => LossCovered(p, lost, connected)
  <2>1. SUFFICES ASSUME e # lost, LossCovered(q, lost, connected),
                        NEW i \in 1..Len(p), p[i] = lost
                 PROVE  \E j \in (i + 1)..Len(p) : p[j] = connected
    BY DEF LossCovered
  <2>2. i \in 1..Len(q) /\ q[i] = lost
    BY <1>1, <2>1
  <2>3. PICK j \in (i + 1)..Len(q) : q[j] = connected
    BY <2>1, <2>2 DEF LossCovered
  <2> QED
    BY <1>1, <2>3
<1> QED
  BY <1>2, <1>3

\* Taking the first event: the others still wait and nothing new does; losses
\* stay covered, and a loss that is taken leaves its reconnection waiting.
LEMMA TakeWaits ==
    ASSUME NEW S, NEW q \in Seq(S), q # <<>>, NEW p, p = Tail(q),
           NEW lost, NEW connected
    PROVE  /\ \A x : Waiting(p, x) => Waiting(q, x)
           /\ \A x : Waiting(q, x) /\ x # Head(q) => Waiting(p, x)
           /\ LossCovered(q, lost, connected) => LossCovered(p, lost, connected)
           /\ LossCovered(q, lost, connected) /\ Head(q) = lost => Waiting(p, connected)
<1>1. /\ Len(q) \in Nat /\ Len(q) >= 1
      /\ q[1] = Head(q)
      /\ Len(p) = Len(q) - 1
      /\ \A i \in 1..Len(p) : p[i] = q[i + 1]
  OBVIOUS
<1>2. \A x : Waiting(p, x) => Waiting(q, x)
  BY <1>1 DEF Waiting
<1>3. ASSUME NEW k \in 2..Len(q)
      PROVE  k - 1 \in 1..Len(p) /\ p[k - 1] = q[k]
  BY <1>1, <1>3
<1>4. \A x : Waiting(q, x) /\ x # Head(q) => Waiting(p, x)
  <2>1. SUFFICES ASSUME NEW x, x # Head(q), NEW k \in 1..Len(q), q[k] = x
                 PROVE  Waiting(p, x)
    BY DEF Waiting
  <2>2. k \in 2..Len(q)
    BY <1>1, <2>1
  <2> QED
    BY <1>3, <2>1, <2>2 DEF Waiting
<1>5. LossCovered(q, lost, connected) => LossCovered(p, lost, connected)
  <2>1. SUFFICES ASSUME LossCovered(q, lost, connected),
                        NEW i \in 1..Len(p), p[i] = lost
                 PROVE  \E j \in (i + 1)..Len(p) : p[j] = connected
    BY DEF LossCovered
  <2>2. i + 1 \in 1..Len(q) /\ q[i + 1] = lost
    BY <1>1, <2>1
  <2>3. PICK k \in (i + 2)..Len(q) : q[k] = connected
    BY <2>1, <2>2 DEF LossCovered
  <2>4. k \in 2..Len(q) /\ k - 1 \in (i + 1)..Len(p)
    BY <1>1, <2>3
  <2> QED
    BY <1>3, <2>3, <2>4
<1>6. LossCovered(q, lost, connected) /\ Head(q) = lost => Waiting(p, connected)
  <2>1. SUFFICES ASSUME LossCovered(q, lost, connected), Head(q) = lost
                 PROVE  Waiting(p, connected)
    OBVIOUS
  <2>2. PICK k \in 2..Len(q) : q[k] = connected
    BY <1>1, <2>1 DEF LossCovered
  <2> QED
    BY <1>3, <2>2 DEF Waiting
<1> QED
  BY <1>2, <1>4, <1>5, <1>6

-----------------------------------------------------------------------------
(* The retained state catches up.                                          *)

\* The queue tells the connection's history: while the link is up, every loss
\* still waiting is followed by a waiting reconnection, and a client that does
\* not know of the link has one waiting.
Covered == LossCovered(events, "lost", "connected")

LinkInv ==
    /\ link => Covered
    /\ link /\ ~m_connected => Queued("connected")
    /\ ~Up => ~link

\* What posting an event does to the waiting events.
LEMMA PostQueued ==
    ASSUME events \in Seq(Events), NEW e \in Events, Post(e)
    PROVE  /\ Queued("connected")' <=> Queued("connected") \/ e = "connected"
           /\ e = "connected" => Covered'
           /\ e # "lost" /\ Covered => Covered'
<1>1. events' = Append(events, e) /\ "lost" # "connected"
  BY DEF Post
<1>2. Waiting(events', "connected") <=> Waiting(events, "connected") \/ "connected" = e
  BY <1>1, PostWaits
<1>3. /\ e = "connected" => LossCovered(events', "lost", "connected")
      /\ e # "lost" /\ LossCovered(events, "lost", "connected")
            => LossCovered(events', "lost", "connected")
  BY <1>1, PostCovers
<1> QED
  BY <1>2, <1>3 DEF Queued, Covered

\* What taking the first event does to the others.
LEMMA TakeQueued ==
    ASSUME events \in Seq(Events), NEW e, Take(e)
    PROVE  /\ Queued("connected")' => Queued("connected")
           /\ Queued("connected") /\ e # "connected" => Queued("connected")'
           /\ Covered => Covered'
           /\ Covered /\ e = "lost" => Queued("connected")'
<1>1. events # <<>> /\ events' = Tail(events) /\ Head(events) = e
  BY DEF Take
<1> QED
  BY <1>1, TakeWaits DEF Queued, Covered

\* LinkInv and RetainedCatchesUp hold initially and every step preserves them.
LEMMA LinkInductive == Spec => [](LinkInv /\ RetainedCatchesUp)
<1>1. Init => LinkInv /\ RetainedCatchesUp
  BY DEF Init, LinkInv, RetainedCatchesUp, Up
<1>2. ASSUME TypeOK, LinkInv, RetainedCatchesUp, [Next]_vars
      PROVE  LinkInv' /\ RetainedCatchesUp'
  <2> USE <1>2 DEF LinkInv, RetainedCatchesUp
  <2>0. events \in Seq(Events)
    BY DEF TypeOK, QueueOK
  <2>1. CASE LinkUp
    <3>1. Post("connected") /\ "connected" \in Events
      BY <2>1 DEF LinkUp, Events
    <3>2. Queued("connected")' /\ Covered'
      BY <2>0, <3>1, PostQueued
    <3> QED
      BY <2>1, <3>2 DEF LinkUp, Up
  <2>2. CASE LinkLost
    BY <2>2 DEF LinkLost, Up
  <2>3. CASE \E c \in Commands : ControlArrives(c)
    <3>1. PICK c \in Commands : ControlArrives(c)
      BY <2>3
    <3>2. Post(c) /\ c \in Events /\ c # "lost" /\ c # "connected"
      BY <3>1 DEF ControlArrives, Events, Commands
    <3>3. (Queued("connected")' <=> Queued("connected")) /\ (Covered => Covered')
      BY <2>0, <3>2, PostQueued
    <3> QED
      BY <3>1, <3>3 DEF ControlArrives, Up, brokerVars, clientVars
  <2>4. CASE OnConnected
    <3>1. Take("connected")
      BY <2>4 DEF OnConnected
    <3>2. Covered => Covered'
      BY <2>0, <3>1, TakeQueued
    <3> QED
      BY <2>4, <3>1, <3>2 DEF OnConnected, Take, Up, StateMessage
  <2>5. CASE OnDisconnected
    <3>1. Take("lost")
      BY <2>5 DEF OnDisconnected
    <3>2. Covered => Covered' /\ Queued("connected")'
      BY <2>0, <3>1, TakeQueued
    <3> QED
      BY <2>5, <3>1, <3>2 DEF OnDisconnected, Take, Up, brokerVars
  <2>6. CASE OnStartSystemRequested \/ OnStopSystemRequested
    <3>1. PICK c \in Commands : Take(c)
      BY <2>6 DEF OnStartSystemRequested, OnStopSystemRequested, Commands
    <3>2. c # "connected"
      BY DEF Commands
    <3>3. (Queued("connected")' <=> Queued("connected")) /\ (Covered => Covered')
      BY <2>0, <3>1, <3>2, TakeQueued
    <3> QED
      BY <2>6, <3>3 DEF OnStartSystemRequested, OnStopSystemRequested, Take, Up,
         brokerVars, clientVars
  <2>7. CASE ReportRunning \/ ReportStopped
    <3>1. /\ UNCHANGED <<process, link, m_connected, events>>
          /\ m_connected /\ link => retained' = StateMessage(m_currSystemState')
      BY <2>7 DEF ReportRunning, ReportStopped, SetSystemState, StateMessage
    <3> QED
      BY <3>1 DEF Up, Queued, Covered
  <2>8. CASE PowerOff \/ CameraFails
    BY <2>8 DEF PowerOff, CameraFails, FreshProcess, Up
  <2>9. CASE StartThread \/ StopThreadReadsAlive \/ StopThreadRaisesFlag \/ Capture
             \/ UNCHANGED vars
    <3>1. UNCHANGED <<process, brokerVars, clientVars, events>>
      BY <2>9 DEF StartThread, StopThreadReadsAlive, StopThreadRaisesFlag, Capture, RunBegins,
         CameraOpens, ReadsStopFlag, ProcessesFrame, ClearsStopFlag, LowersAliveFlag,
         RunReturns, At, vars, mainVars
    <3> QED
      BY <3>1 DEF Up, Queued, Covered, brokerVars, clientVars
  <2>10. CASE Restart
    BY <2>10 DEF Restart, Up, brokerVars
  <2> QED
    BY <2>1, <2>2, <2>3, <2>4, <2>5, <2>6, <2>7, <2>8, <2>9, <2>10 DEF Next, Paho, Main
<1>3. TypeOK /\ LinkInv /\ RetainedCatchesUp /\ [Next]_vars => LinkInv' /\ RetainedCatchesUp'
  BY <1>2
<1> QED
  BY <1>1, <1>3, TypeCorrect, PTL DEF Spec

\* Once the main thread has handled the newest reconnection, the broker retains
\* the state the client holds, whatever was lost or queued before
\* (WiCamMQTTClient::onConnected, onDisconnected and setSystemState).
THEOREM RetainedCatchesUpAlways == Spec => []RetainedCatchesUp
  BY LinkInductive, PTL

-----------------------------------------------------------------------------
(* The operator who waits.                                                 *)

\* Capturing, or about to, with nobody telling it to stop; and told to stop,
\* or past it.  The flag is up from the request until the thread clears it.
Running == thread \in {"starting", "opening", "loop", "frame"} /\ ~m_doStop

Ending ==
    \/ thread \in {"loop", "frame", "stopping"} /\ m_doStop
    \/ thread \in {"exiting", "returning", "notRunning"} /\ ~m_doStop

Resting == thread \in {"loop", "frame", "notRunning"} /\ ~m_doStop

NoCommand  == \A c \in Commands : ~Queued(c)
OneCommand ==
    \A i, j \in 1 .. Len(events) : events[i] \in Commands /\ events[j] \in Commands => i = j

\* Each command finds the thread at rest and alone in the queue, so the state
\* reported between two slots is that of the thread, and each step of a slot
\* knows which thread it deals with.
SlotsInv ==
    /\ step = "idle" => IF m_currSystemState THEN Running ELSE Ending
    /\ step = "start" => thread = "notRunning" /\ ~m_doStop
    /\ step = "startPublish" => Running
    /\ step \in {"stopCheck", "stopWrite"} => thread \in {"loop", "frame"} /\ ~m_doStop
    /\ step \in {"stopPublish", "powerOff"} => Ending

QueueInv ==
    /\ OneCommand
    /\ ~NoCommand => step = "idle" /\ Resting

PatientInv == ~hurried => SlotsInv /\ QueueInv

\* What posting an event does to the commands that wait.
LEMMA PostCommands ==
    ASSUME events \in Seq(Events), NEW e \in Events, Post(e)
    PROVE  /\ NoCommand => OneCommand'
           /\ e \notin Commands => (NoCommand' <=> NoCommand) /\ (OneCommand => OneCommand')
<1>1. /\ events' = Append(events, e) /\ Len(events') = Len(events) + 1
      /\ Len(events) \in Nat /\ events'[Len(events) + 1] = e
      /\ \A i \in 1 .. Len(events) : events'[i] = events[i]
  BY DEF Post
<1>2. NoCommand => OneCommand'
  <2>1. SUFFICES ASSUME NoCommand, NEW i \in 1 .. Len(events'), events'[i] \in Commands
                 PROVE  i = Len(events) + 1
    BY DEF OneCommand
  <2>2. ~(i \in 1 .. Len(events))
    BY <1>1, <2>1 DEF NoCommand, Queued, Waiting
  <2> QED
    BY <1>1, <2>2
<1>3. ASSUME e \notin Commands
      PROVE  NoCommand' <=> NoCommand
  BY <1>1, <1>3, PostWaits DEF NoCommand, Queued
<1>4. ASSUME e \notin Commands, OneCommand
      PROVE  OneCommand'
  BY <1>1, <1>4 DEF OneCommand
<1> QED
  BY <1>2, <1>3, <1>4

\* What taking the first event does to them.
LEMMA TakeCommands ==
    ASSUME events \in Seq(Events), NEW e, Take(e)
    PROVE  /\ NoCommand => NoCommand'
           /\ OneCommand => OneCommand'
           /\ OneCommand /\ e \in Commands => NoCommand'
<1>1. /\ events # <<>> /\ events' = Tail(events) /\ Head(events) = e
      /\ Len(events) \in Nat /\ Len(events) >= 1 /\ events[1] = e
      /\ Len(events') = Len(events) - 1
      /\ \A i \in 1 .. Len(events') : events'[i] = events[i + 1]
  BY DEF Take
<1>2. \A x : Waiting(events', x) => Waiting(events, x)
  BY <1>1, TakeWaits
<1>3. NoCommand => NoCommand'
  BY <1>2 DEF NoCommand, Queued
<1>4. ASSUME OneCommand
      PROVE  OneCommand'
  BY <1>1, <1>4 DEF OneCommand
<1>5. ASSUME OneCommand, e \in Commands
      PROVE  NoCommand'
  <2>1. SUFFICES ASSUME NEW i \in 1 .. Len(events'), events'[i] \in Commands
                 PROVE  FALSE
    BY DEF NoCommand, Queued, Waiting
  <2>2. i + 1 \in 1 .. Len(events) /\ 1 \in 1 .. Len(events) /\ events[i + 1] \in Commands
    BY <1>1, <2>1
  <2>3. i + 1 = 1
    BY <1>1, <1>5, <2>2 DEF OneCommand
  <2> QED
    BY <2>3
<1> QED
  BY <1>3, <1>4, <1>5

\* PatientInv holds initially and every step preserves it.
LEMMA PatientInductive == Spec => [](TypeOK /\ PatientInv)
<1>1. Init => PatientInv
  <2>1. events = <<>> => NoCommand /\ OneCommand
    BY DEF NoCommand, OneCommand, Queued, Waiting
  <2> QED
    BY <2>1 DEF Init, PatientInv, SlotsInv, QueueInv, Ending
<1>2. ASSUME HonestInv, PatientInv, [Next]_vars, ~hurried'
      PROVE  SlotsInv' /\ QueueInv'
  <2>0. events \in Seq(Events) /\ thread \in Threads
    BY <1>2 DEF HonestInv, TypeOK, QueueOK
  <2>h. ~hurried
    BY <1>2 DEF Next, Paho, LinkUp, LinkLost, ControlArrives, Main, OnConnected, OnDisconnected,
       OnStartSystemRequested, StartThread, ReportRunning, OnStopSystemRequested,
       StopThreadReadsAlive, StopThreadRaisesFlag, ReportStopped, PowerOff, FreshProcess,
       Capture, RunBegins, CameraOpens, ReadsStopFlag, ProcessesFrame, ClearsStopFlag,
       LowersAliveFlag, RunReturns, At, CameraFails, Restart, vars
  <2>i. SlotsInv /\ QueueInv /\ (m_alive <=> thread \in Aliving)
    BY <1>2, <2>h DEF PatientInv, HonestInv, FlagsAgree
  <2>q. /\ NoCommand => NoCommand'
        /\ OneCommand => OneCommand'
        => (UNCHANGED <<step, thread, m_doStop, m_currSystemState>>
                => SlotsInv' /\ QueueInv')
    BY <2>i DEF SlotsInv, QueueInv, Running, Ending, Resting
  <2>e. UNCHANGED events => (NoCommand' <=> NoCommand) /\ (OneCommand' <=> OneCommand)
    BY DEF NoCommand, OneCommand, Queued
  <2>1. CASE LinkUp \/ LinkLost
    <3>1. PICK e \in Events \ Commands : Post(e)
      BY <2>1 DEF LinkUp, LinkLost, Events, Commands
    <3>2. (NoCommand => NoCommand') /\ (OneCommand => OneCommand')
      BY <2>0, <3>1, PostCommands
    <3> QED
      BY <2>1, <2>q, <3>2 DEF LinkUp, LinkLost, clientVars, captureVars
  <2>2. CASE \E c \in Commands : ControlArrives(c)
    <3>1. PICK c \in Commands : ControlArrives(c)
      BY <2>2
    <3>2. Settled /\ Post(c) /\ c \in Events /\ UNCHANGED <<step, clientVars, captureVars>>
      BY <1>2, <3>1 DEF ControlArrives, Events
    <3>3. NoCommand /\ step = "idle"
      BY <3>2 DEF Settled, NoCommand
    <3>4. OneCommand'
      BY <2>0, <3>2, <3>3, PostCommands
    <3>5. Resting
      BY <2>i, <3>2 DEF Settled, SlotsInv, Running, Ending, Resting
    <3> QED
      BY <2>i, <3>2, <3>3, <3>4, <3>5
         DEF SlotsInv, QueueInv, Running, Ending, Resting, clientVars, captureVars
  <2>3. CASE OnConnected \/ OnDisconnected
    <3>1. PICK e : Take(e)
      BY <2>3 DEF OnConnected, OnDisconnected
    <3>2. (NoCommand => NoCommand') /\ (OneCommand => OneCommand')
      BY <2>0, <3>1, TakeCommands
    <3> QED
      BY <2>3, <2>q, <3>2 DEF OnConnected, OnDisconnected, captureVars
  <2>4. CASE OnStartSystemRequested \/ OnStopSystemRequested
    <3>1. PICK c \in Commands : Take(c)
      BY <2>4 DEF OnStartSystemRequested, OnStopSystemRequested, Commands
    <3>2. NoCommand' /\ OneCommand'
      BY <2>0, <2>i, <3>1, TakeCommands DEF QueueInv
    <3>3. Resting /\ step = "idle"
      <4>1. Waiting(events, c)
        BY <2>0, <3>1 DEF Take, Waiting
      <4> QED
        BY <2>i, <4>1 DEF QueueInv, NoCommand, Queued
    <3>4. UNCHANGED <<clientVars, captureVars>>
      BY <2>4 DEF OnStartSystemRequested, OnStopSystemRequested
    <3>5. \/ step' = "idle"
          \/ step' = "start" /\ ~m_alive
          \/ step' = "powerOff" /\ ~m_alive
          \/ step' = "stopCheck" /\ m_alive
      BY <2>4 DEF OnStartSystemRequested, OnStopSystemRequested, AfterStop
    <3>6. m_alive => thread \in {"loop", "frame"}
      BY <2>i, <3>3 DEF Resting, Aliving
    <3>7. ~m_alive => thread = "notRunning"
      BY <2>i, <3>3 DEF Resting, Aliving
    <3>8. SlotsInv'
      BY <2>i, <3>3, <3>4, <3>5, <3>6, <3>7
         DEF SlotsInv, Running, Ending, Resting, clientVars, captureVars
    <3> QED
      BY <3>2, <3>8 DEF QueueInv
  <2>5. CASE \/ StartThread \/ ReportRunning \/ StopThreadReadsAlive \/ StopThreadRaisesFlag
             \/ ReportStopped
    <3>1. UNCHANGED events /\ step # "idle"
      BY <2>5 DEF StartThread, ReportRunning, StopThreadReadsAlive, StopThreadRaisesFlag,
         ReportStopped
    <3>2. NoCommand' /\ OneCommand'
      BY <2>e, <2>i, <3>1 DEF QueueInv
    <3>3. SlotsInv'
      <4> USE <2>i DEF SlotsInv, Running, Ending
      <4>1. CASE StartThread
        BY <4>1 DEF StartThread
      <4>2. CASE ReportRunning
        BY <4>2 DEF ReportRunning, SetSystemState, captureVars
      <4>3. CASE StopThreadReadsAlive
        BY <4>3 DEF StopThreadReadsAlive, Aliving, clientVars, captureVars
      <4>4. CASE StopThreadRaisesFlag
        BY <4>4 DEF StopThreadRaisesFlag
      <4>5. CASE ReportStopped
        BY <4>5 DEF ReportStopped, SetSystemState, AfterStop, captureVars
      <4> QED
        BY <2>5, <4>1, <4>2, <4>3, <4>4, <4>5
    <3> QED
      BY <3>2, <3>3 DEF QueueInv
  <2>6. CASE PowerOff \/ CameraFails
    <3>1. FreshProcess
      BY <2>6 DEF PowerOff, CameraFails
    <3>2. NoCommand' /\ OneCommand'
      BY <3>1 DEF FreshProcess, NoCommand, OneCommand, Queued, Waiting
    <3> QED
      BY <3>1, <3>2 DEF FreshProcess, SlotsInv, QueueInv, Ending
  <2>7. CASE Capture
    <3>1. UNCHANGED <<step, m_currSystemState, events>>
      BY <2>7 DEF Capture, RunBegins, CameraOpens, ReadsStopFlag, ProcessesFrame, ClearsStopFlag,
         LowersAliveFlag, RunReturns, At, clientVars, mainVars
    <3>2. Running => Running'
      BY <2>7 DEF Capture, RunBegins, CameraOpens, ReadsStopFlag, ProcessesFrame, ClearsStopFlag,
         LowersAliveFlag, RunReturns, At, Running
    <3>3. Ending => Ending'
      BY <2>7 DEF Capture, RunBegins, CameraOpens, ReadsStopFlag, ProcessesFrame, ClearsStopFlag,
         LowersAliveFlag, RunReturns, At, Ending
    <3>4. Resting /\ thread # "notRunning" => Resting' /\ thread' # "notRunning"
      BY <2>7 DEF Capture, RunBegins, CameraOpens, ReadsStopFlag, ProcessesFrame, ClearsStopFlag,
         LowersAliveFlag, RunReturns, At, Resting
    <3>5. thread # "notRunning"
      BY <2>7 DEF Capture, RunBegins, CameraOpens, ReadsStopFlag, ProcessesFrame, ClearsStopFlag,
         LowersAliveFlag, RunReturns, At
    <3>6. QueueInv'
      BY <2>e, <2>i, <3>1, <3>4, <3>5 DEF QueueInv
    <3>7. SlotsInv'
      BY <2>i, <3>1, <3>2, <3>3, <3>4, <3>5 DEF SlotsInv, Resting
    <3> QED
      BY <3>6, <3>7
  <2>8. CASE Restart \/ UNCHANGED vars
    <3>1. UNCHANGED <<step, thread, m_doStop, m_currSystemState, events>>
      BY <2>8 DEF Restart, vars, clientVars, mainVars, captureVars
    <3> QED
      BY <2>e, <2>q, <3>1
  <2> QED
    BY <1>2, <2>1, <2>2, <2>3, <2>4, <2>5, <2>6, <2>7, <2>8 DEF Next, Paho, Main
<1>3. HonestInv /\ PatientInv /\ [Next]_vars => PatientInv'
  BY <1>2 DEF PatientInv
<1>4. HonestInv => TypeOK
  BY DEF HonestInv
<1> QED
  BY <1>1, <1>3, <1>4, HonestInductive, PTL DEF Spec

\* Losses, crashes and restarts alone do not separate the state reported from the
\* capture thread: as long as no command came before the main thread and the
\* capture thread had come to rest after the one before it, the state is
\* "running" exactly when the thread is, at rest again (WiSurveillanceSys's slots
\* against WiCaptureSystem::run).  Nothing is said of an operator who waits only
\* for the published state, which comes before the thread's end.
THEOREM AgreementAlways == Spec => []Agreement
<1>1. PatientInv => Agreement
  BY DEF PatientInv, SlotsInv, Running, Ending, Settled, AlwaysAgree, Agreement
<1> QED
  BY <1>1, PatientInductive, PTL

\* As long as no such command came, no stop request outlives the thread it was
\* for (stopThread against the end of run).
THEOREM StopFlagHasReaderAlways == Spec => []StopFlagHasReader
<1>1. TypeOK /\ PatientInv => StopFlagHasReader
  BY DEF TypeOK, Steps, StopSteps, PatientInv, SlotsInv, Running, Ending, StopFlagAlwaysRead, StopFlagHasReader
<1> QED
  BY <1>1, PatientInductive, PTL

=============================================================================
