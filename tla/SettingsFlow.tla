---------------------------- MODULE SettingsFlow ---------------------------
(***************************************************************************)
(* The settings: from the web form and from the broker, through the main    *)
(* thread's event queue, to the capture thread, the MQTT client, the WiFi   *)
(* and the settings file, with restarts of the program at any point.        *)
(*                                                                         *)
(* A group of settings (capture, mqtt, wifi) is one value.  Paho is          *)
(* external: it reconnects the client in use, and tells of a client that was *)
(* replaced at any time, through callbacks that cannot be told from those of *)
(* the client in use.                                                       *)
(***************************************************************************)
EXTENDS WifiControl, Sequences

CONSTANTS
    Values,     \* what a group of capture or MQTT settings may be
    Default,    \* its default
    MaxChanges, \* bound of the model: settings sent, links lost and restarts
    MaxEvents   \* bound of the model: events that wait in the queue

ASSUME ValuesAssumption ==
    Default \in Values /\ MaxChanges \in Nat /\ MaxEvents \in Nat

VARIABLES
    task,           \* where the main thread is; "loop" is its event loop
    incoming,       \* the settings onSettingsChanged was called with, else Defaults
    m_wiCamSettings,
    file,           \* the settings file
    captureConfig,  \* the capture thread's settings
    mqttConfig,     \* the MQTT client's settings
    m_connected,
    broker,         \* the settings the Paho client in use was created with
    link,           \* its connection
    replaced,       \* the clients it replaced that may still call back, by
                    \* what they do
    heard,          \* history: the last callback made is one of the client in use
    events,         \* the main thread's event queue
    page,           \* the form a browser shows, or is being sent
    pageParts,      \* how much of it the HTTP thread has written
    changes,        \* counter for MaxChanges
    missed          \* history: settings changed without a new client

settingsVars == <<m_wiCamSettings, file, captureConfig>>
clientVars   == <<broker, link, replaced, heard, missed>>
mqttVars     == <<mqttConfig, m_connected, clientVars>>
formVars     == <<page, pageParts>>
mainVars     == <<task, incoming>>
vars == <<mainVars, settingsVars, mqttVars, events, formVars, changes, wifiVars>>

WiCamSettings == [capture : Values, mqtt : Values, wifi : Networks \cup {NoNetwork}]
Defaults      == [capture |-> Default, mqtt |-> Default, wifi |-> NoNetwork]

Event ==
    [kind : {"form"}, settings : WiCamSettings]
        \cup [kind : {"broker"}, capture : Values]
        \cup [kind : {"connected", "disconnected"}]

\* A replaced client runs the disconnect it was asked for, or still connects, or
\* came up although nobody uses it.
Replaced       == [closing : Nat, connecting : Nat, up : Nat]
NobodyReplaced == [closing |-> 0, connecting |-> 0, up |-> 0]

Init ==
    /\ task = "loop" /\ incoming = Defaults
    /\ m_wiCamSettings = Defaults /\ file = Defaults
    /\ captureConfig = Default /\ mqttConfig = Default
    /\ m_connected = FALSE /\ broker = Default /\ link = "connecting"
    /\ events = <<>> /\ page = Defaults /\ pageParts = 0 /\ changes = 0
    /\ replaced = NobodyReplaced /\ heard = TRUE /\ missed = FALSE
    /\ \E pressed \in BOOLEAN : ButtonInit(pressed)
    /\ DeviceInit

Post(e) == Len(events) < MaxEvents /\ events' = Append(events, e)
Change  == changes < MaxChanges /\ changes' = changes + 1

-----------------------------------------------------------------------------
(* The web form, in an HTTP thread.                                        *)

\* The page is written group by group from m_wiCamSettings, which the main
\* thread may assign in between.  A page that cannot find a driver stays empty.
WritePage ==
    /\ task # "aborted" /\ pageParts < 3 /\ changes < MaxChanges
    /\ page' = CASE pageParts = 0 -> [page EXCEPT !.wifi = m_wiCamSettings.wifi]
                 [] pageParts = 1 -> [page EXCEPT !.capture = m_wiCamSettings.capture]
                 [] OTHER         -> [page EXCEPT !.mqtt = m_wiCamSettings.mqtt]
    /\ pageParts' = pageParts + 1
    /\ UNCHANGED <<mainVars, settingsVars, mqttVars, events, changes, wifiVars>>

\* The user edits what the page shows and submits all of it.
SubmitForm(edited) ==
    /\ task # "aborted" /\ pageParts = 3 /\ Change
    /\ \/ edited.wifi = page.wifi /\ edited.capture = page.capture
       \/ edited.mqtt = page.mqtt
    /\ Post([kind |-> "form", settings |-> edited])
    /\ page' = Defaults /\ pageParts' = 0
    /\ UNCHANGED <<mainVars, settingsVars, mqttVars, wifiVars>>

-----------------------------------------------------------------------------
(* Paho.                                                                   *)

LinkUp ==
    /\ task # "aborted" /\ link = "connecting"
    /\ link' = "up" /\ heard' = TRUE /\ Post([kind |-> "connected"])
    /\ UNCHANGED <<mainVars, settingsVars, mqttConfig, m_connected, broker, replaced, missed,
                   formVars, changes, wifiVars>>

\* It reconnects by itself.
LinkLost ==
    /\ task # "aborted" /\ link = "up" /\ Change
    /\ link' = "connecting" /\ heard' = TRUE /\ Post([kind |-> "disconnected"])
    /\ UNCHANGED <<mainVars, settingsVars, mqttConfig, m_connected, broker, replaced, missed,
                   formVars, wifiVars>>

\* A replaced client does not reconnect once its connection has ended.
ReplacedEnds ==
    /\ task # "aborted"
    /\ \/ replaced.closing > 0 /\ replaced' = [replaced EXCEPT !.closing = @ - 1]
       \/ replaced.up > 0 /\ replaced' = [replaced EXCEPT !.up = @ - 1]
    /\ heard' = FALSE /\ Post([kind |-> "disconnected"])
    /\ UNCHANGED <<mainVars, settingsVars, mqttConfig, m_connected, broker, link, missed,
                   formVars, changes, wifiVars>>

\* Its connect was under way, which disconnectFromHost does not stop.
ReplacedUp ==
    /\ task # "aborted" /\ replaced.connecting > 0
    /\ replaced' = [closing |-> replaced.closing, connecting |-> replaced.connecting - 1,
                    up |-> replaced.up + 1]
    /\ heard' = FALSE /\ Post([kind |-> "connected"])
    /\ UNCHANGED <<mainVars, settingsVars, mqttConfig, m_connected, broker, link, missed,
                   formVars, changes, wifiVars>>

ReplacedFails ==
    /\ task # "aborted" /\ replaced.connecting > 0
    /\ replaced' = [replaced EXCEPT !.connecting = @ - 1]
    /\ UNCHANGED <<mainVars, settingsVars, mqttConfig, m_connected, broker, link, heard, missed,
                   events, formVars, changes, wifiVars>>

\* A settings message, whose members that are missing are the defaults.
MessageArrives(v) ==
    /\ task # "aborted" /\ Change
    /\ (link = "up" /\ m_connected) \/ replaced.closing > 0
    /\ Post([kind |-> "broker", capture |-> v])
    /\ UNCHANGED <<mainVars, settingsVars, mqttVars, formVars, wifiVars>>

-----------------------------------------------------------------------------
(* The main thread.                                                        *)

Handles(kind) ==
    /\ task = "loop" /\ events # <<>> /\ Head(events).kind = kind
    /\ events' = Tail(events)

\* Mutant: the form goes on showing the settings of before.
OnCaptureSettingsReceivedUnseen ==
    /\ Handles("broker")
    /\ file' = [file EXCEPT !.capture = Head(events).capture]
    /\ captureConfig' = Head(events).capture
    /\ UNCHANGED <<mainVars, m_wiCamSettings, mqttVars, formVars, changes, wifiVars>>

OnCaptureSettingsReceived ==
    /\ Handles("broker")
    /\ file' = [file EXCEPT !.capture = Head(events).capture]
    /\ captureConfig' = Head(events).capture
    /\ m_wiCamSettings' = [m_wiCamSettings EXCEPT !.capture = Head(events).capture]
    /\ UNCHANGED <<mainVars, mqttVars, formVars, changes, wifiVars>>

OnConnected ==
    /\ Handles("connected")
    /\ m_connected' = TRUE
    /\ UNCHANGED <<mainVars, settingsVars, mqttConfig, clientVars, formVars, changes, wifiVars>>

OnDisconnected ==
    /\ Handles("disconnected")
    /\ m_connected' = FALSE
    /\ UNCHANGED <<mainVars, settingsVars, mqttConfig, clientVars, formVars, changes, wifiVars>>

\* Wireless::Wireless: no driver or no interface is an exception nobody catches.
Detects(next) == task' \in {next, "aborted"}

\* interfaces()[0], of a list that is empty if the command times out.
FirstInterface(next) == task' \in {next, "aborted"}

OnSettingsChanged ==
    /\ Handles("form")
    /\ incoming' = Head(events).settings
    /\ Detects("apply")
    /\ UNCHANGED <<settingsVars, mqttVars, formVars, changes, wifiVars>>

\* MQTTClient::disconnectFromHost only asks Paho; of a client that connects
\* it asks in vain.
DisconnectFromHost ==
    replaced' = IF link = "up" THEN [replaced EXCEPT !.closing = @ + 1]
                ELSE [replaced EXCEPT !.connecting = @ + 1]

\* MQTTClient::connectToHost creates another client.
ConnectToHost(mqttSettings) ==
    broker' = mqttSettings /\ link' = "connecting" /\ heard' = FALSE

\* Mutant: the new client is made before it knows its new host.
SetSettingsLate ==
    /\ mqttConfig' = incoming.mqtt
    /\ IF m_connected
       THEN DisconnectFromHost /\ ConnectToHost(mqttConfig) /\ missed' = FALSE
       ELSE /\ missed' = (missed \/ incoming.mqtt # broker)
            /\ UNCHANGED <<broker, link, replaced, heard>>
    /\ UNCHANGED m_connected

\* WiCamMQTTClient::setSettings: a client that is not connected stays as it is.
SetSettings ==
    /\ mqttConfig' = incoming.mqtt
    /\ IF m_connected
       THEN DisconnectFromHost /\ ConnectToHost(incoming.mqtt) /\ missed' = FALSE
       ELSE /\ missed' = (missed \/ incoming.mqtt # broker)
            /\ UNCHANGED <<broker, link, replaced, heard>>
    /\ UNCHANGED m_connected

Apply ==
    /\ task = "apply"
    /\ captureConfig' = incoming.capture
    /\ SetSettings
    /\ FirstInterface("leaveAccessPoint")
    /\ UNCHANGED <<incoming, m_wiCamSettings, file, events, formVars, changes, wifiVars>>

\* A step of the device within a handler.
DeviceStep(from, to, step) ==
    /\ task = from /\ task' = to
    /\ step
    /\ UNCHANGED <<incoming, settingsVars, mqttVars, events, formVars, changes, buttonVars>>

Connect ==
    \/ DeviceStep("leaveAccessPoint", "leaveNetwork", StopAccessPoint)
    \/ DeviceStep("leaveNetwork", "join", LeaveNetwork)
    \/ DeviceStep("join", "save", JoinFails)
    \/ DeviceStep("join", "save", Join(incoming.wifi))

\* saveSettings, and the assignment the form sees.
Save ==
    /\ task = "save" /\ task' = "loop" /\ incoming' = Defaults
    /\ file' = incoming /\ m_wiCamSettings' = incoming
    /\ UNCHANGED <<captureConfig, mqttVars, events, formVars, changes, wifiVars>>

\* The timer event of the button; onWifiAPRequested is called at once.
ReadButton(elapsed) ==
    /\ task = "loop"
    /\ \/ PressedLong(elapsed) /\ (Detects("killStation") \/ FirstInterface("killStation"))
       \/ (PressedOn(elapsed) \/ PressedNow \/ Released) /\ UNCHANGED task
    /\ UNCHANGED <<incoming, settingsVars, mqttVars, events, formVars, changes, deviceVars>>

AccessPoint ==
    \/ DeviceStep("killStation", "writeFiles", KillStation)
    \/ DeviceStep("writeFiles", "startHostapd", UNCHANGED deviceVars)
    \/ DeviceStep("writeFiles", "loop", UNCHANGED deviceVars)   \* a file cannot be opened
    \/ DeviceStep("startHostapd", "startDnsmasq", StartHostapd)
    \/ DeviceStep("startDnsmasq", "loop", RestartDnsmasq)

-----------------------------------------------------------------------------

Crash ==
    /\ task # "aborted" /\ Change
    /\ task' = "aborted"
    /\ UNCHANGED <<incoming, settingsVars, mqttVars, events, formVars, wifiVars>>

\* main() again: the settings are loaded, the device is as it was left, and the
\* browser keeps a page it has whole.
Restart ==
    /\ task = "aborted"
    /\ task' = "loop" /\ incoming' = Defaults /\ events' = <<>>
    /\ m_wiCamSettings' = file /\ captureConfig' = file.capture
    /\ mqttConfig' = file.mqtt /\ broker' = file.mqtt
    /\ m_connected' = FALSE /\ link' = "connecting" /\ missed' = FALSE
    /\ replaced' = NobodyReplaced /\ heard' = TRUE
    /\ IF pageParts = 3 THEN UNCHANGED formVars ELSE page' = Defaults /\ pageParts' = 0
    /\ \E pressed \in BOOLEAN : ButtonRestart(pressed)
    /\ UNCHANGED <<file, changes, deviceVars>>

Main ==
    \/ OnCaptureSettingsReceived \/ OnConnected \/ OnDisconnected
    \/ OnSettingsChanged \/ Apply \/ Connect \/ Save
    \/ AccessPoint

Next ==
    \/ WritePage \/ \E edited \in WiCamSettings : SubmitForm(edited)
    \/ LinkUp \/ LinkLost \/ ReplacedEnds \/ ReplacedUp \/ ReplacedFails
    \/ \E v \in Values : MessageArrives(v)
    \/ Main
    \/ \E elapsed \in 1 .. PressTime : ReadButton(elapsed)
    \/ Crash \/ Restart

Spec == Init /\ [][Next]_vars

-----------------------------------------------------------------------------

Tasks == {"loop", "apply", "leaveAccessPoint", "leaveNetwork", "join", "save",
          "killStation", "writeFiles", "startHostapd", "startDnsmasq", "aborted"}

\* Every variable keeps its type.
TypeOK ==
    /\ task \in Tasks /\ incoming \in WiCamSettings
    /\ m_wiCamSettings \in WiCamSettings /\ file \in WiCamSettings
    /\ captureConfig \in Values /\ mqttConfig \in Values
    /\ m_connected \in BOOLEAN /\ broker \in Values /\ link \in {"connecting", "up"}
    /\ replaced \in Replaced /\ heard \in BOOLEAN
    /\ events \in Seq(Event) /\ page \in WiCamSettings /\ pageParts \in 0 .. 3
    /\ changes \in 0 .. MaxChanges /\ missed \in BOOLEAN
    /\ m_wifiButton \in BOOLEAN /\ m_wifiRequested \in BOOLEAN
    /\ age \in 0 .. PressTime /\ requests \in 0 .. 2
    /\ driver \in Drivers /\ station \in Networks \cup {NoNetwork}
    /\ hostapd \in BOOLEAN /\ dnsmasq \in BOOLEAN

\* Between two events the form, the file, the capture thread and the MQTT
\* client have the same settings, whichever of the form and the broker came
\* last, and wherever the program died.
OneTruth ==
    task = "loop" =>
        /\ file = m_wiCamSettings
        /\ captureConfig = m_wiCamSettings.capture
        /\ mqttConfig = m_wiCamSettings.mqtt

LinkEvents == {i \in 1 .. Len(events) : events[i].kind \in {"connected", "disconnected"}}

\* m_connected is the state of the client in use while that one was the last to
\* call back; once every client it replaced is silent, it may only err by saying
\* "disconnected", never "connected" for one that is not.  The client was made
\* for the settings in force, unless these changed while m_connected was down.
ClientFollowsSettings ==
    /\ LinkEvents = {} /\ heard => (m_connected <=> link = "up")
    /\ LinkEvents = {} /\ replaced = NobodyReplaced => (m_connected => link = "up")
    /\ ~missed => broker = mqttConfig

\* The device is never an access point and a client at a time.
OneModeAtATime == hostapd => station = NoNetwork

\* One press asks for the access point once, however long it is held and
\* however the clock is set.
OneRequestPerPress == requests <= 1

=============================================================================
