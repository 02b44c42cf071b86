-------------------------- MODULE SettingsFlow_proof -------------------------
(***************************************************************************)
(* Proofs about SettingsFlow for every set of values and of networks, every *)
(* number of changes and every length of a press.                          *)
(*                                                                         *)
(* OneTruth needs what each step of the handlers says about the copies of   *)
(* the settings (CopiesInv), ClientFollowsSettings what the event queue     *)
(* says about the connection (LinkInv), OneModeAtATime what a switch has     *)
(* done so far (SwitchInv), and OneRequestPerPress what m_wifiRequested      *)
(* remembers (PressInv).                                                   *)
(***************************************************************************)
EXTENDS SettingsFlow, TLAPS

-----------------------------------------------------------------------------
(* The invariants.                                                         *)

\* While incoming settings are applied and not yet saved, the capture thread
\* and the MQTT client have them; all the rest of the time, but after an abort,
\* everybody has those in m_wiCamSettings.
Connecting == {"leaveAccessPoint", "leaveNetwork", "join", "save"}

CopiesInv ==
    /\ task \in Connecting =>
        captureConfig = incoming.capture /\ mqttConfig = incoming.mqtt
    /\ task \notin Connecting \cup {"aborted"} =>
        /\ file = m_wiCamSettings
        /\ captureConfig = m_wiCamSettings.capture
        /\ mqttConfig = m_wiCamSettings.mqtt

\* What the last callback may say: the state of the client in use, if that one
\* made it; and "connected" only if that client is, or one that was replaced and
\* has still to say that it no longer is.
MaySay(connected) ==
    /\ heard => (connected <=> link = "up")
    /\ connected => \/ heard /\ link = "up"
                    \/ replaced.closing > 0 \/ replaced.up > 0

\* The last of the callbacks that wait says that; m_connected does when none
\* waits.
LinkInv ==
    /\ LinkEvents = {} => MaySay(m_connected)
    /\ \A i \in LinkEvents :
        (\A j \in LinkEvents : j <= i) => MaySay(events[i].kind = "connected")

BrokerInv == ~missed => broker = mqttConfig

\* The access point is down before the station joins, and the station is out
\* of its network before the access point comes up.
SwitchInv ==
    /\ task \in {"leaveNetwork", "join"} => ~hostapd
    /\ task \in {"writeFiles", "startHostapd"} => station = NoNetwork

\* A press that has asked for the access point is remembered until its release.
PressInv == ~m_wifiRequested => requests = 0

SettingsInv ==
    /\ TypeOK
    /\ CopiesInv /\ LinkInv /\ BrokerInv
    /\ SwitchInv /\ OneModeAtATime
    /\ PressInv /\ OneRequestPerPress

-----------------------------------------------------------------------------
(* Type correctness.                                                       *)

\* Who leaves the WiFi alone.
LEMMA WifiUnchanged ==
    ASSUME TypeOK, UNCHANGED wifiVars
    PROVE  /\ m_wifiButton' \in BOOLEAN /\ m_wifiRequested' \in BOOLEAN
           /\ age' \in 0 .. PressTime /\ requests' \in 0 .. 2
           /\ driver' \in Drivers /\ station' \in Networks \cup {NoNetwork}
           /\ hostapd' \in BOOLEAN /\ dnsmasq' \in BOOLEAN
  BY DEF TypeOK, wifiVars, buttonVars, deviceVars

\* Posting an event, and taking the first one (QCoreApplication::postEvent and
\* the event loop).
LEMMA PostTypes ==
    ASSUME events \in Seq(Event), NEW e \in Event, Post(e)
    PROVE  events' \in Seq(Event)
  BY DEF Post

LEMMA HandlesTypes ==
    ASSUME events \in Seq(Event), NEW kind, Handles(kind)
    PROVE  /\ events' \in Seq(Event) /\ Len(events') = Len(events) - 1
           /\ Len(events) \in Nat \ {0}
           /\ Head(events) = events[1] /\ events[1] \in Event /\ events[1].kind = kind
           /\ \A i \in 1 .. Len(events) - 1 : events'[i] = events[i + 1]
<1>1. events # <<>> /\ events' = Tail(events) /\ Head(events).kind = kind
  BY DEF Handles
<1>2. Head(events) = events[1] /\ events[1] \in Event /\ Len(events) \in Nat \ {0}
  BY <1>1
<1> QED
  BY <1>1, <1>2

\* The events that carry settings carry some of the right type.
LEMMA EventTypes ==
    /\ \A e \in Event : e.kind = "form" => e.settings \in WiCamSettings
    /\ \A e \in Event : e.kind = "broker" => e.capture \in Values
    /\ \A s \in WiCamSettings : [kind |-> "form", settings |-> s] \in Event
    /\ \A v \in Values : [kind |-> "broker", capture |-> v] \in Event
    /\ [kind |-> "connected"] \in Event /\ [kind |-> "disconnected"] \in Event
<1>1. \A e \in Event : e.kind = "form" => e.settings \in WiCamSettings
  BY DEF Event
<1>2. \A e \in Event : e.kind = "broker" => e.capture \in Values
  BY DEF Event
<1>3. /\ \A s \in WiCamSettings : [kind |-> "form", settings |-> s] \in Event
      /\ \A v \in Values : [kind |-> "broker", capture |-> v] \in Event
  BY DEF Event
<1>4. [kind |-> "connected"] \in Event /\ [kind |-> "disconnected"] \in Event
  BY DEF Event
<1> QED
  BY <1>1, <1>2, <1>3, <1>4

\* A group of settings that is replaced by one of its type.
LEMMA SettingsTypes ==
    /\ Defaults \in WiCamSettings /\ Default \in Values
    /\ \A s \in WiCamSettings :
        s.capture \in Values /\ s.mqtt \in Values /\ s.wifi \in Networks \cup {NoNetwork}
    /\ \A s \in WiCamSettings, v \in Values :
        [s EXCEPT !.capture = v] \in WiCamSettings /\ [s EXCEPT !.mqtt = v] \in WiCamSettings
    /\ \A s \in WiCamSettings, n \in Networks \cup {NoNetwork} :
        [s EXCEPT !.wifi = n] \in WiCamSettings
  BY ValuesAssumption DEF Defaults, WiCamSettings

\* What disconnectFromHost and Paho make of the clients that are replaced.
LEMMA ReplacedTypes ==
    /\ NobodyReplaced \in Replaced
    /\ \A r \in Replaced :
        /\ r.closing \in Nat /\ r.connecting \in Nat /\ r.up \in Nat
        /\ [r EXCEPT !.closing = @ + 1] \in Replaced
        /\ [r EXCEPT !.connecting = @ + 1] \in Replaced
        /\ r.closing > 0 => [r EXCEPT !.closing = @ - 1] \in Replaced
        /\ r.up > 0 => [r EXCEPT !.up = @ - 1] \in Replaced
        /\ r.connecting > 0 =>
            /\ [r EXCEPT !.connecting = @ - 1] \in Replaced
            /\ [closing |-> r.closing, connecting |-> r.connecting - 1,
                up |-> r.up + 1] \in Replaced
<1>1. NobodyReplaced \in Replaced
  BY DEF Replaced, NobodyReplaced
<1>2. SUFFICES ASSUME NEW r \in Replaced
               PROVE  /\ r.closing \in Nat /\ r.connecting \in Nat /\ r.up \in Nat
                      /\ [r EXCEPT !.closing = @ + 1] \in Replaced
                      /\ [r EXCEPT !.connecting = @ + 1] \in Replaced
                      /\ r.closing > 0 => [r EXCEPT !.closing = @ - 1] \in Replaced
                      /\ r.up > 0 => [r EXCEPT !.up = @ - 1] \in Replaced
                      /\ r.connecting > 0 =>
                        /\ [r EXCEPT !.connecting = @ - 1] \in Replaced
                        /\ [closing |-> r.closing, connecting |-> r.connecting - 1,
                            up |-> r.up + 1] \in Replaced
  BY <1>1
<1>3. r.closing \in Nat /\ r.connecting \in Nat /\ r.up \in Nat
  BY DEF Replaced
<1>4. [r EXCEPT !.closing = @ + 1] \in Replaced
  BY DEF Replaced
<1>5. [r EXCEPT !.connecting = @ + 1] \in Replaced
  BY DEF Replaced
<1>6. ASSUME r.closing > 0 PROVE [r EXCEPT !.closing = @ - 1] \in Replaced
  BY <1>6 DEF Replaced
<1>7. ASSUME r.up > 0 PROVE [r EXCEPT !.up = @ - 1] \in Replaced
  BY <1>7 DEF Replaced
<1>8. ASSUME r.connecting > 0 PROVE [r EXCEPT !.connecting = @ - 1] \in Replaced
  BY <1>8 DEF Replaced
<1>9. ASSUME r.connecting > 0
      PROVE  [closing |-> r.closing, connecting |-> r.connecting - 1,
              up |-> r.up + 1] \in Replaced
  <2>1. r.connecting - 1 \in Nat /\ r.up + 1 \in Nat
    BY <1>3, <1>9
  <2> QED
    BY <1>3, <2>1 DEF Replaced
<1> QED
  BY <1>3, <1>4, <1>5, <1>6, <1>7, <1>8, <1>9

\* The program starts in a well-typed state.
LEMMA InitTypes == Init => TypeOK
<1> SUFFICES ASSUME Init PROVE TypeOK
  OBVIOUS
<1>1. <<>> \in Seq(Event) /\ 0 \in 0 .. 3 /\ 0 \in 0 .. 2
  OBVIOUS
<1>2. 0 \in 0 .. MaxChanges /\ 0 \in 0 .. PressTime
  BY ValuesAssumption, PressTimeAssumption
<1>3. PICK pressed \in BOOLEAN : ButtonInit(pressed)
  BY DEF Init
<1>4. /\ task \in Tasks /\ incoming \in WiCamSettings
      /\ m_wiCamSettings \in WiCamSettings /\ file \in WiCamSettings
      /\ captureConfig \in Values /\ mqttConfig \in Values
  BY SettingsTypes DEF Init, Tasks
<1>5. /\ m_connected \in BOOLEAN /\ broker \in Values /\ link \in {"connecting", "up"}
      /\ events \in Seq(Event) /\ page \in WiCamSettings /\ pageParts \in 0 .. 3
      /\ changes \in 0 .. MaxChanges /\ missed \in BOOLEAN
      /\ replaced \in Replaced /\ heard \in BOOLEAN
  BY <1>1, <1>2, SettingsTypes, ReplacedTypes DEF Init
<1>6. /\ m_wifiButton \in BOOLEAN /\ m_wifiRequested \in BOOLEAN
      /\ age \in 0 .. PressTime /\ requests \in 0 .. 2
  BY <1>1, <1>2, <1>3 DEF ButtonInit
<1>7. /\ driver \in Drivers /\ station \in Networks \cup {NoNetwork}
      /\ hostapd \in BOOLEAN /\ dnsmasq \in BOOLEAN
  BY DEF Init, DeviceInit
<1> QED
  BY <1>4, <1>5, <1>6, <1>7 DEF TypeOK

\* Every step keeps the types.
LEMMA TypeStep ==
    ASSUME TypeOK, [Next]_vars
    PROVE  TypeOK'
<1> USE SettingsTypes, ValuesAssumption, PressTimeAssumption
<1>0. events \in Seq(Event)
  BY DEF TypeOK
<1>1. CASE WritePage
  <2>0. /\ m_wiCamSettings \in WiCamSettings /\ page \in WiCamSettings
        /\ pageParts \in 0 .. 3 /\ pageParts < 3 /\ pageParts' = pageParts + 1
    BY <1>1 DEF WritePage, TypeOK
  <2>1. \/ page' = [page EXCEPT !.wifi = m_wiCamSettings.wifi]
        \/ page' = [page EXCEPT !.capture = m_wiCamSettings.capture]
        \/ page' = [page EXCEPT !.mqtt = m_wiCamSettings.mqtt]
    BY <1>1 DEF WritePage
  <2>2. page' \in WiCamSettings
    BY <2>0, <2>1
  <2>3. pageParts' \in 0 .. 3
    BY <2>0
  <2> QED
    BY <1>1, <2>2, <2>3, WifiUnchanged
       DEF WritePage, TypeOK, mainVars, settingsVars, mqttVars, clientVars
<1>2. CASE \E edited \in WiCamSettings : SubmitForm(edited)
  <2>1. events' \in Seq(Event)
    BY <1>0, <1>2, PostTypes, EventTypes DEF SubmitForm
  <2>2. changes' \in 0 .. MaxChanges
    BY <1>2 DEF SubmitForm, Change, TypeOK
  <2> QED
    BY <1>2, <2>1, <2>2, WifiUnchanged
       DEF SubmitForm, TypeOK, mainVars, settingsVars, mqttVars, clientVars
<1>3. CASE LinkUp \/ LinkLost \/ ReplacedEnds \/ ReplacedUp \/ ReplacedFails
           \/ \E v \in Values : MessageArrives(v)
  <2>1. events' \in Seq(Event)
    BY <1>0, <1>3, PostTypes, EventTypes DEF LinkUp, LinkLost, ReplacedEnds, ReplacedUp,
       ReplacedFails, MessageArrives
  <2>2. changes \in 0 .. MaxChanges /\ (UNCHANGED changes \/ Change)
    BY <1>3 DEF LinkUp, LinkLost, ReplacedEnds, ReplacedUp,
       ReplacedFails, MessageArrives, TypeOK
  <2>3. changes' \in 0 .. MaxChanges
    BY <2>2 DEF Change
  <2>5. /\ replaced' \in Replaced
        /\ heard' \in BOOLEAN
    BY <1>3, ReplacedTypes DEF LinkUp, LinkLost, ReplacedEnds, ReplacedUp,
       ReplacedFails, MessageArrives, TypeOK, mqttVars, clientVars
  <2>4. link' \in {"connecting", "up"}
    BY <1>3 DEF LinkUp, LinkLost, ReplacedEnds, ReplacedUp,
       ReplacedFails, MessageArrives, TypeOK, mqttVars, clientVars
  <2> QED
    BY <1>3, <2>1, <2>3, <2>4, <2>5, WifiUnchanged
       DEF LinkUp, LinkLost, ReplacedEnds, ReplacedUp,
       ReplacedFails, MessageArrives, TypeOK, mainVars, settingsVars, mqttVars, clientVars, formVars
<1>4. CASE OnCaptureSettingsReceived
  <2>1. events' \in Seq(Event) /\ Head(events).capture \in Values
    BY <1>0, <1>4, HandlesTypes, EventTypes DEF OnCaptureSettingsReceived
  <2> QED
    BY <1>4, <2>1, WifiUnchanged
       DEF OnCaptureSettingsReceived, TypeOK, mainVars, mqttVars, clientVars, formVars
<1>5. CASE OnConnected \/ OnDisconnected
  <2>1. events' \in Seq(Event)
    BY <1>0, <1>5, HandlesTypes DEF OnConnected, OnDisconnected
  <2> QED
    BY <1>5, <2>1, WifiUnchanged
       DEF OnConnected, OnDisconnected, TypeOK, mainVars, settingsVars, clientVars, formVars
<1>6. CASE OnSettingsChanged
  <2>1. events' \in Seq(Event) /\ Head(events).settings \in WiCamSettings
    BY <1>0, <1>6, HandlesTypes, EventTypes DEF OnSettingsChanged
  <2> QED
    BY <1>6, <2>1, WifiUnchanged
       DEF OnSettingsChanged, Detects, TypeOK, Tasks, settingsVars, mqttVars, clientVars, formVars
<1>7. CASE Apply
  <2>1. /\ replaced' \in Replaced
        /\ heard' \in BOOLEAN
    BY <1>7, ReplacedTypes DEF Apply, SetSettings, DisconnectFromHost, ConnectToHost, TypeOK
  <2>2. incoming.capture \in Values /\ incoming.mqtt \in Values
    BY DEF TypeOK
  <2>3. /\ broker' \in Values /\ link' \in {"connecting", "up"} /\ missed' \in BOOLEAN
        /\ m_connected' \in BOOLEAN /\ mqttConfig' \in Values
    BY <1>7, <2>2 DEF Apply, SetSettings, ConnectToHost, TypeOK
  <2> QED
    BY <1>7, <2>1, <2>2, <2>3, WifiUnchanged
       DEF Apply, FirstInterface, TypeOK, Tasks, formVars
<1>8. CASE Connect \/ AccessPoint
  <2>1. /\ UNCHANGED <<incoming, settingsVars, mqttVars, events, formVars, changes, buttonVars>>
        /\ task' \in Tasks
    BY <1>8 DEF Connect, AccessPoint, DeviceStep, Tasks
  <2>2. /\ driver' \in Drivers /\ station' \in Networks \cup {NoNetwork}
        /\ hostapd' \in BOOLEAN /\ dnsmasq' \in BOOLEAN
    BY <1>8 DEF Connect, AccessPoint, DeviceStep, StopAccessPoint, LeaveNetwork, KillSupplicant,
       CleanConnection, CleanConnection0990, JoinFails, Join, KillStation, StartHostapd,
       RestartDnsmasq, deviceVars, TypeOK, WiCamSettings
  <2> QED
    BY <2>1, <2>2 DEF TypeOK, settingsVars, mqttVars, clientVars, formVars, buttonVars
<1>9. CASE Save
  BY <1>9, WifiUnchanged DEF Save, TypeOK, Tasks, mqttVars, clientVars, formVars
<1>10. CASE \E elapsed \in 1 .. PressTime : ReadButton(elapsed)
  <2>1. PICK elapsed \in 1 .. PressTime : ReadButton(elapsed)
    BY <1>10
  <2>2. age + elapsed \in Nat /\ Older(elapsed) \in 0 .. PressTime
    BY DEF TypeOK, Older, Capped
  <2>3. Capped(requests + 1, 2) \in 0 .. 2
    BY DEF TypeOK, Capped
  <2>4. 0 \in 0 .. PressTime /\ 0 \in 0 .. 2 /\ requests \in 0 .. 2
    BY DEF TypeOK
  <2>6. m_wifiButton' \in BOOLEAN /\ m_wifiRequested' \in BOOLEAN
    BY <2>1, Zenon DEF ReadButton, PressedLong, PressedOn, PressedNow, Released, TypeOK
  <2>7. age' \in 0 .. PressTime /\ requests' \in 0 .. 2
    BY <2>1, <2>2, <2>3, <2>4, Zenon
       DEF ReadButton, PressedLong, PressedOn, PressedNow, Released
  <2>5. task' \in Tasks
    BY <2>1 DEF ReadButton, Detects, FirstInterface, Tasks
  <2> QED
    BY <2>1, <2>5, <2>6, <2>7
       DEF ReadButton, TypeOK, settingsVars, mqttVars, clientVars, formVars, deviceVars
<1>11. CASE Crash
  <2>1. changes' \in 0 .. MaxChanges /\ task' \in Tasks
    BY <1>11 DEF Crash, Change, TypeOK, Tasks
  <2> QED
    BY <1>11, <2>1, WifiUnchanged DEF Crash, TypeOK, settingsVars, mqttVars, clientVars, formVars
<1>12. CASE Restart
  <2>0. PICK pressed \in BOOLEAN : ButtonRestart(pressed)
    BY <1>12 DEF Restart
  <2>3. 0 \in 0 .. PressTime /\ 0 \in 0 .. 2
    OBVIOUS
  <2>1. /\ m_wifiButton' \in BOOLEAN /\ m_wifiRequested' \in BOOLEAN
        /\ age' \in 0 .. PressTime /\ requests' \in 0 .. 2
    BY <2>0, <2>3 DEF ButtonRestart
  <2>2. page' \in WiCamSettings /\ pageParts' \in 0 .. 3 /\ events' \in Seq(Event)
    BY <1>12 DEF Restart, TypeOK, formVars
  <2> QED
    BY <1>12, <2>1, <2>2, ReplacedTypes DEF Restart, TypeOK, Tasks, deviceVars
<1>13. CASE UNCHANGED vars
  BY <1>13, WifiUnchanged DEF vars, TypeOK, mainVars, settingsVars, mqttVars, clientVars, formVars
<1> QED
  BY <1>1, <1>2, <1>3, <1>4, <1>5, <1>6, <1>7, <1>8, <1>9, <1>10, <1>11, <1>12, <1>13
     DEF Next, Main

\* Every state of the settings, the client, the queue, the form, the button and
\* the device is well typed.
THEOREM TypeCorrect == Spec => []TypeOK
<1>1. TypeOK /\ [Next]_vars => TypeOK'
  BY TypeStep
<1> QED
  BY <1>1, InitTypes, PTL DEF Spec

-----------------------------------------------------------------------------
(* The copies of the settings.                                             *)

\* Every step of a handler leaves the copies of the settings as its place in
\* the handler says.
LEMMA CopiesStep ==
    ASSUME TypeOK, CopiesInv, [Next]_vars
    PROVE  CopiesInv'
<1>1. CASE \/ WritePage \/ \E edited \in WiCamSettings : SubmitForm(edited)
           \/ LinkUp \/ LinkLost \/ ReplacedEnds \/ ReplacedUp \/ ReplacedFails
           \/ \E v \in Values : MessageArrives(v)
           \/ OnConnected \/ OnDisconnected \/ UNCHANGED vars
  <2>1. UNCHANGED mainVars /\ UNCHANGED settingsVars /\ UNCHANGED mqttConfig
    BY <1>1 DEF WritePage, SubmitForm, LinkUp, LinkLost, ReplacedEnds, ReplacedUp,
       ReplacedFails, MessageArrives, OnConnected,
       OnDisconnected, mqttVars, clientVars, vars
  <2> QED
    BY <2>1 DEF CopiesInv, Connecting, mainVars, settingsVars
<1>2. CASE OnCaptureSettingsReceived
  <2>1. /\ task = "loop" /\ task' = "loop" /\ UNCHANGED mqttConfig
        /\ file' = [file EXCEPT !.capture = Head(events).capture]
        /\ captureConfig' = Head(events).capture
        /\ m_wiCamSettings' = [m_wiCamSettings EXCEPT !.capture = Head(events).capture]
    BY <1>2 DEF OnCaptureSettingsReceived, Handles, mainVars, mqttVars, clientVars
  <2>2. file = m_wiCamSettings /\ mqttConfig = m_wiCamSettings.mqtt
    BY <2>1 DEF CopiesInv, Connecting
  <2>3. /\ m_wiCamSettings'.capture = Head(events).capture
        /\ m_wiCamSettings'.mqtt = m_wiCamSettings.mqtt
    BY <2>1 DEF TypeOK, WiCamSettings
  <2> QED
    BY <2>1, <2>2, <2>3 DEF CopiesInv, Connecting
<1>3. CASE OnSettingsChanged
  BY <1>3 DEF OnSettingsChanged, Handles, Detects, settingsVars, mqttVars, CopiesInv, Connecting
<1>4. CASE Apply
  BY <1>4 DEF Apply, SetSettings, FirstInterface, CopiesInv, Connecting
<1>5. CASE Connect \/ AccessPoint
  BY <1>5 DEF Connect, AccessPoint, DeviceStep, settingsVars, mqttVars, CopiesInv, Connecting
<1>6. CASE Save
  BY <1>6 DEF Save, mqttVars, clientVars, CopiesInv, Connecting
<1>7. CASE \E elapsed \in 1 .. PressTime : ReadButton(elapsed)
  BY <1>7 DEF ReadButton, Detects, FirstInterface, settingsVars, mqttVars, CopiesInv, Connecting
<1>8. CASE Crash \/ Restart
  BY <1>8 DEF Crash, Restart, CopiesInv, Connecting
<1> QED
  BY <1>1, <1>2, <1>3, <1>4, <1>5, <1>6, <1>7, <1>8 DEF Next, Main

-----------------------------------------------------------------------------
(* The client and its callbacks.                                           *)

LinkKinds == {"connected", "disconnected"}

\* A callback that is posted says what it may after it.
LEMMA PostNotice ==
    ASSUME events \in Seq(Event), NEW e \in Event, Post(e), e.kind \in LinkKinds,
           MaySay(e.kind = "connected")'
    PROVE  LinkInv'
<1>1. /\ events' = Append(events, e) /\ Len(events') = Len(events) + 1
      /\ Len(events) \in Nat /\ events'[Len(events) + 1] = e
  BY DEF Post
<1>2. Len(events) + 1 \in LinkEvents'
  BY <1>1 DEF LinkEvents, LinkKinds
<1>3. ASSUME NEW i \in LinkEvents', \A j \in LinkEvents' : j <= i
      PROVE  MaySay(events[i].kind = "connected")'
  <2>1. i = Len(events) + 1
    BY <1>1, <1>2, <1>3 DEF LinkEvents
  <2>2. events'[i] = e
    BY <1>1, <2>1
  <2> QED
    BY <2>2 DEF MaySay
<1> QED
  BY <1>2, <1>3 DEF LinkInv

\* Any other event that is posted tells nothing of it.
LEMMA PostOther ==
    ASSUME events \in Seq(Event), LinkInv, NEW e \in Event, Post(e), e.kind \notin LinkKinds,
           UNCHANGED <<link, heard, replaced, m_connected>>
    PROVE  LinkInv'
<1>1. /\ events' = Append(events, e) /\ Len(events') = Len(events) + 1
      /\ Len(events) \in Nat /\ events'[Len(events) + 1] = e
      /\ \A i \in 1 .. Len(events) : events'[i] = events[i]
  BY DEF Post
<1>2. LinkEvents' = LinkEvents
  BY <1>1 DEF LinkEvents, LinkKinds
<1>3. \A i \in LinkEvents : events'[i] = events[i]
  BY <1>1 DEF LinkEvents
<1> QED
  BY <1>2, <1>3 DEF LinkInv, MaySay

\* The callbacks that wait, once the first event is taken.
LEMMA TakeShifts ==
    ASSUME events \in Seq(Event), NEW kind, Handles(kind)
    PROVE  /\ \A i \in LinkEvents' : i \in Nat /\ i + 1 \in LinkEvents
           /\ \A i \in LinkEvents' : events'[i] = events[i + 1]
           /\ \A i \in LinkEvents : i \in Nat /\ (i = 1 \/ i - 1 \in LinkEvents')
           /\ 1 \in LinkEvents <=> kind \in LinkKinds
<1>1. /\ events' \in Seq(Event) /\ Len(events') = Len(events) - 1
      /\ Len(events) \in Nat \ {0} /\ events[1].kind = kind
      /\ \A i \in 1 .. Len(events) - 1 : events'[i] = events[i + 1]
  BY HandlesTypes
<1>2. \A i \in LinkEvents' : i \in Nat /\ i + 1 \in LinkEvents /\ events'[i] = events[i + 1]
  BY <1>1 DEF LinkEvents
<1>3. ASSUME NEW i \in LinkEvents, i # 1
      PROVE  i - 1 \in LinkEvents'
  <2>1. i \in 2 .. Len(events) /\ events[i].kind \in LinkKinds
    BY <1>1, <1>3 DEF LinkEvents, LinkKinds
  <2>2. i - 1 \in 1 .. Len(events) - 1 /\ events'[i - 1] = events[i]
    BY <1>1, <2>1
  <2> QED
    BY <1>1, <2>1, <2>2 DEF LinkEvents, LinkKinds
<1>4. 1 \in LinkEvents <=> kind \in LinkKinds
  BY <1>1 DEF LinkEvents, LinkKinds
<1>5. \A i \in LinkEvents : i \in Nat
  BY DEF LinkEvents
<1> QED
  BY <1>2, <1>3, <1>4, <1>5

\* Who takes a callback writes what it says; the later ones go on being right.
LEMMA TakeKeeps ==
    ASSUME events \in Seq(Event), LinkInv, NEW kind, Handles(kind),
           UNCHANGED <<link, heard, replaced>>,
           kind \in LinkKinds => (m_connected' <=> kind = "connected"),
           kind \notin LinkKinds => UNCHANGED m_connected
    PROVE  LinkInv'
<1>1. /\ \A i \in LinkEvents' : i \in Nat /\ i + 1 \in LinkEvents
      /\ \A i \in LinkEvents' : events'[i] = events[i + 1]
      /\ \A i \in LinkEvents : i \in Nat /\ (i = 1 \/ i - 1 \in LinkEvents')
      /\ 1 \in LinkEvents <=> kind \in LinkKinds
      /\ events[1].kind = kind
  BY TakeShifts, HandlesTypes
<1>2. ASSUME LinkEvents' = {}
      PROVE  MaySay(m_connected)'
  <2>1. CASE kind \in LinkKinds
    <3>1. 1 \in LinkEvents /\ \A j \in LinkEvents : j <= 1
      BY <1>1, <1>2, <2>1
    <3> QED
      BY <1>1, <2>1, <3>1 DEF LinkInv, MaySay
  <2>2. CASE kind \notin LinkKinds
    <3>1. LinkEvents = {}
      BY <1>1, <1>2, <2>2
    <3> QED
      BY <2>2, <3>1 DEF LinkInv, MaySay
  <2> QED
    BY <2>1, <2>2
<1>3. ASSUME NEW i \in LinkEvents', \A j \in LinkEvents' : j <= i
      PROVE  MaySay(events[i].kind = "connected")'
  <2>1. i + 1 \in LinkEvents /\ events'[i] = events[i + 1] /\ i \in Nat
    BY <1>1
  <2>2. ASSUME NEW j \in LinkEvents
        PROVE  j <= i + 1
    BY <1>1, <1>3, <2>1
  <2> QED
    BY <2>1, <2>2 DEF LinkInv, MaySay
<1> QED
  BY <1>2, <1>3 DEF LinkInv

\* Who posts nothing and writes no m_connected keeps what the last callback says.
LEMMA SaysStill ==
    ASSUME LinkInv, UNCHANGED <<events, m_connected>>,
           \A connected \in BOOLEAN : MaySay(connected) => MaySay(connected)',
           m_connected \in BOOLEAN
    PROVE  LinkInv'
<1>1. LinkEvents' = LinkEvents
  BY DEF LinkEvents
<1>2. LinkEvents = {} => MaySay(m_connected)'
  <2>1. CASE m_connected = TRUE
    BY <2>1 DEF LinkInv, MaySay
  <2>2. CASE m_connected = FALSE
    BY <2>2 DEF LinkInv, MaySay
  <2> QED
    BY <2>1, <2>2
<1>3. ASSUME NEW i \in LinkEvents, \A j \in LinkEvents : j <= i
      PROVE  MaySay(events[i].kind = "connected")'
  BY <1>3 DEF LinkInv, MaySay
<1> QED
  BY <1>1, <1>2, <1>3 DEF LinkInv

\* Every step keeps the callbacks true to the connection.
LEMMA LinkStep ==
    ASSUME TypeOK, LinkInv, [Next]_vars
    PROVE  LinkInv'
<1>0. events \in Seq(Event)
  BY DEF TypeOK
<1> USE DEF LinkKinds
<1>1. CASE \/ WritePage \/ Connect \/ Save \/ AccessPoint \/ Crash \/ UNCHANGED vars
           \/ \E elapsed \in 1 .. PressTime : ReadButton(elapsed)
  <2>1. UNCHANGED <<events, link, heard, replaced, m_connected>>
    BY <1>1 DEF WritePage, Connect, Save, AccessPoint, DeviceStep, Crash, ReadButton, mqttVars,
       clientVars, vars
  <2> QED
    BY <2>1 DEF LinkInv, LinkEvents, MaySay
<1>2. CASE \E edited \in WiCamSettings : SubmitForm(edited)
  <2>1. PICK edited \in WiCamSettings : SubmitForm(edited)
    BY <1>2
  <2> QED
    BY <1>0, <2>1, EventTypes, PostOther DEF SubmitForm, mqttVars, clientVars
<1>3. CASE LinkUp
  BY <1>0, <1>3, EventTypes, PostNotice DEF LinkUp, MaySay
<1>4. CASE LinkLost
  BY <1>0, <1>4, EventTypes, PostNotice DEF LinkLost, MaySay
<1>5. CASE \E v \in Values : MessageArrives(v)
  <2>1. PICK v \in Values : MessageArrives(v)
    BY <1>5
  <2> QED
    BY <1>0, <2>1, EventTypes, PostOther DEF MessageArrives, mqttVars, clientVars
<1>6. CASE OnCaptureSettingsReceived
  BY <1>0, <1>6, TakeKeeps DEF OnCaptureSettingsReceived, mqttVars, clientVars
<1>7. CASE OnConnected
  BY <1>0, <1>7, TakeKeeps DEF OnConnected, clientVars
<1>8. CASE OnDisconnected
  BY <1>0, <1>8, TakeKeeps DEF OnDisconnected, clientVars
<1>9. CASE OnSettingsChanged
  BY <1>0, <1>9, TakeKeeps DEF OnSettingsChanged, mqttVars, clientVars
<1>10. CASE Apply
  <2>0. /\ replaced \in Replaced
        /\ m_connected \in BOOLEAN /\ heard \in BOOLEAN /\ link \in {"connecting", "up"}
    BY DEF TypeOK
  <2>1. UNCHANGED <<events, m_connected>>
    BY <1>10 DEF Apply, SetSettings
  <2>2. CASE m_connected
    <3>1. heard' = FALSE
      BY <1>10, <2>2 DEF Apply, SetSettings, ConnectToHost
    <3>2. \/ link = "up" /\ replaced'.closing = replaced.closing + 1
          \/ /\ link = "connecting"
             /\ replaced'.closing = replaced.closing /\ replaced'.up = replaced.up
      BY <1>10, <2>0, <2>2 DEF Apply, SetSettings, DisconnectFromHost, Replaced
    <3> QED
      BY <2>0, <2>1, <3>1, <3>2, SaysStill DEF MaySay, Replaced
  <2>3. CASE ~m_connected
    <3>1. UNCHANGED <<link, heard, replaced>>
      BY <1>10, <2>3 DEF Apply, SetSettings
    <3> QED
      BY <2>0, <2>1, <3>1, SaysStill DEF MaySay
  <2> QED
    BY <2>2, <2>3
<1>11. CASE Restart
  <2>1. /\ events' = <<>> /\ m_connected' = FALSE /\ link' = "connecting"
    BY <1>11 DEF Restart
  <2>2. LinkEvents' = {}
    BY <2>1 DEF LinkEvents
  <2> QED
    BY <2>1, <2>2 DEF LinkInv, MaySay
<1>12. CASE ReplacedEnds
  BY <1>0, <1>12, EventTypes, PostNotice DEF ReplacedEnds, MaySay
<1>13. CASE ReplacedUp
  <2>1. replaced'.up > 0 /\ heard' = FALSE /\ Post([kind |-> "connected"])
    BY <1>13 DEF ReplacedUp, TypeOK, Replaced
  <2> QED
    BY <1>0, <2>1, EventTypes, PostNotice DEF MaySay
<1>14. CASE ReplacedFails
  <2>1. /\ UNCHANGED <<events, m_connected, link, heard>>
        /\ replaced'.closing = replaced.closing /\ replaced'.up = replaced.up
    BY <1>14 DEF ReplacedFails, TypeOK, Replaced
  <2>2. m_connected \in BOOLEAN
    BY DEF TypeOK
  <2> QED
    BY <2>1, <2>2, SaysStill DEF MaySay
<1> QED
  BY <1>1, <1>2, <1>3, <1>4, <1>5, <1>6, <1>7, <1>8, <1>9, <1>10, <1>11, <1>12, <1>13, <1>14
     DEF Next, Main

\* Every step keeps the client made for the settings in force, or the history
\* that says it was not.
LEMMA BrokerStep ==
    ASSUME TypeOK, BrokerInv, [Next]_vars
    PROVE  BrokerInv'
<1>1. CASE Apply
  BY <1>1 DEF Apply, SetSettings, ConnectToHost, BrokerInv, TypeOK
<1>2. CASE Restart
  BY <1>2 DEF Restart, BrokerInv
<1>3. CASE ~(Apply \/ Restart)
  <2>1. UNCHANGED <<missed, broker, mqttConfig>>
    BY <1>3 DEF Next, Main, WritePage, SubmitForm, LinkUp, LinkLost, ReplacedEnds, ReplacedUp,
       ReplacedFails, MessageArrives,
       OnCaptureSettingsReceived, OnConnected, OnDisconnected, OnSettingsChanged, Connect,
       AccessPoint, DeviceStep, Save, ReadButton, Crash, mqttVars, clientVars, vars
  <2> QED
    BY <2>1 DEF BrokerInv
<1> QED
  BY <1>1, <1>2, <1>3

-----------------------------------------------------------------------------
(* The device.                                                             *)

\* Every step keeps the order of the switch between access point and client.
LEMMA SwitchStep ==
    ASSUME TypeOK, SwitchInv, OneModeAtATime, [Next]_vars
    PROVE  SwitchInv' /\ OneModeAtATime'
<1> USE DEF SwitchInv, OneModeAtATime
<1>1. CASE Connect \/ AccessPoint
  BY <1>1 DEF Connect, AccessPoint, DeviceStep, StopAccessPoint, LeaveNetwork, KillSupplicant,
     CleanConnection, CleanConnection0990, JoinFails, Join, KillStation, StartHostapd,
     RestartDnsmasq, deviceVars
<1>2. CASE \/ WritePage \/ \E edited \in WiCamSettings : SubmitForm(edited)
           \/ LinkUp \/ LinkLost \/ ReplacedEnds \/ ReplacedUp \/ ReplacedFails
           \/ \E v \in Values : MessageArrives(v)
           \/ OnCaptureSettingsReceived \/ OnConnected \/ OnDisconnected \/ UNCHANGED vars
  <2>1. UNCHANGED <<task, hostapd, station>>
    BY <1>2 DEF WritePage, SubmitForm, LinkUp, LinkLost, ReplacedEnds, ReplacedUp,
       ReplacedFails, MessageArrives,
       OnCaptureSettingsReceived, OnConnected, OnDisconnected, mainVars, wifiVars, deviceVars, vars
  <2> QED
    BY <2>1
<1>3. CASE OnSettingsChanged \/ Apply \/ Save \/ Crash \/ Restart
  <2>1. UNCHANGED <<hostapd, station>> /\ task' \notin {"leaveNetwork", "join", "writeFiles", "startHostapd"}
    BY <1>3 DEF OnSettingsChanged, Detects, Apply, FirstInterface, Save, Crash, Restart,
       wifiVars, deviceVars
  <2> QED
    BY <2>1
<1>4. CASE \E elapsed \in 1 .. PressTime : ReadButton(elapsed)
  <2>1. UNCHANGED <<hostapd, station>> /\ task' \notin {"leaveNetwork", "join", "writeFiles", "startHostapd"}
    BY <1>4 DEF ReadButton, Detects, FirstInterface, deviceVars
  <2> QED
    BY <2>1
<1> QED
  BY <1>1, <1>2, <1>3, <1>4 DEF Next, Main

\* Every step of the button keeps a press that was served from asking again.
LEMMA PressStep ==
    ASSUME TypeOK, PressInv, OneRequestPerPress, [Next]_vars
    PROVE  PressInv' /\ OneRequestPerPress'
<1> USE DEF PressInv, OneRequestPerPress
<1>1. CASE \E elapsed \in 1 .. PressTime : ReadButton(elapsed)
  <2>1. PICK elapsed \in 1 .. PressTime : ReadButton(elapsed)
    BY <1>1
  <2>2. CASE PressedLong(elapsed)
    BY <2>2 DEF PressedLong, Capped
  <2>3. CASE PressedOn(elapsed) \/ PressedNow \/ Released
    BY <2>3 DEF PressedOn, PressedNow, Released
  <2> QED
    BY <2>1, <2>2, <2>3 DEF ReadButton
<1>2. CASE Restart
  BY <1>2 DEF Restart, ButtonRestart
<1>3. CASE ~(Restart \/ \E elapsed \in 1 .. PressTime : ReadButton(elapsed))
  <2>1. UNCHANGED <<m_wifiRequested, requests>>
    BY <1>3 DEF Next, Main, WritePage, SubmitForm, LinkUp, LinkLost, ReplacedEnds, ReplacedUp,
       ReplacedFails, MessageArrives,
       OnCaptureSettingsReceived, OnConnected, OnDisconnected, OnSettingsChanged, Apply, Connect,
       AccessPoint, DeviceStep, Save, Crash, wifiVars, buttonVars, vars
  <2> QED
    BY <2>1
<1> QED
  BY <1>1, <1>2, <1>3

-----------------------------------------------------------------------------
(* The invariant.                                                          *)

\* It holds at first, and every step keeps it.
LEMMA SettingsInductive ==
    /\ Init => SettingsInv
    /\ SettingsInv /\ [Next]_vars => SettingsInv'
<1>1. ASSUME Init PROVE SettingsInv
  <2>1. LinkEvents = {}
    BY <1>1 DEF Init, LinkEvents
  <2>2. LinkInv
    BY <1>1, <2>1 DEF Init, LinkInv, MaySay
  <2>3. CopiesInv /\ BrokerInv /\ SwitchInv /\ OneModeAtATime
    BY <1>1 DEF Init, Defaults, DeviceInit, CopiesInv, Connecting, BrokerInv, SwitchInv,
       OneModeAtATime
  <2>4. PressInv /\ OneRequestPerPress
    BY <1>1 DEF Init, ButtonInit, PressInv, OneRequestPerPress
  <2> QED
    BY <1>1, <2>2, <2>3, <2>4, InitTypes DEF SettingsInv
<1>2. ASSUME SettingsInv, [Next]_vars PROVE SettingsInv'
  BY <1>2, TypeStep, CopiesStep, LinkStep, BrokerStep, SwitchStep, PressStep DEF SettingsInv
<1> QED
  BY <1>1, <1>2

-----------------------------------------------------------------------------

\* Between two events the form, the file, the capture thread and the MQTT
\* client have the same settings, after any number of forms, messages, lost
\* links, crashes and restarts.
THEOREM OneTruthAlways == Spec => []OneTruth
<1>1. SettingsInv => OneTruth
  BY DEF SettingsInv, CopiesInv, Connecting, OneTruth
<1> QED
  BY <1>1, SettingsInductive, PTL DEF Spec

\* m_connected is the state of the client in use while that one was the last to
\* call back, and is never up for a client that is not connected once the
\* replaced ones are silent; the client was made for the settings in force unless
\* they changed while m_connected was down.
THEOREM ClientFollowsSettingsAlways == Spec => []ClientFollowsSettings
<1>1. SettingsInv => ClientFollowsSettings
  BY DEF SettingsInv, LinkInv, MaySay, NobodyReplaced, BrokerInv, ClientFollowsSettings
<1> QED
  BY <1>1, SettingsInductive, PTL DEF Spec

\* The device is never an access point and a client at a time, wherever a
\* handler stops or the program dies.
THEOREM OneModeAtATimeAlways == Spec => []OneModeAtATime
<1>1. SettingsInv => OneModeAtATime
  BY DEF SettingsInv
<1> QED
  BY <1>1, SettingsInductive, PTL DEF Spec

\* One press of the button asks for the access point once, however long a press
\* has to be and however the clock moves.
THEOREM OneRequestPerPressAlways == Spec => []OneRequestPerPress
<1>1. SettingsInv => OneRequestPerPress
  BY DEF SettingsInv
<1> QED
  BY <1>1, SettingsInductive, PTL DEF Spec

=============================================================================
