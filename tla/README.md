# WiCam in TLA+

WiCam is a surveillance camera on a small Linux board: a C++/Qt program that
captures images, video or sound when it sees motion, sends them to an MQTT
broker, is switched on and off through that broker, and is configured through
the broker or a web form. This directory holds its formal models, the TLC
configurations that check them and the TLAPS proofs about them.

Paths below are relative to `src/`; line numbers are those of the modelled
commit. `PROJECT.json` maps every definition to the lines it models.

## 1. Inventory

### Threads

| thread | runs | touches |
|---|---|---|
| main (Qt event loop) | all slots of `WiSurveillanceSys`, `WiCamMQTTClient`, `WiCamGPIO`, `WifiModeChanger`; `HttpListener` and its pool; timers of sessions and log | everything below |
| capture (`WiCaptureSystem : QThread`) | `run()` | `m_alive`, `m_doStop` (no lock), the settings (`m_captureMutex`) |
| Paho's threads | the callbacks of `MQTTClient` | emit signals, which Qt queues for the main thread |
| one per `HttpConnectionHandler` | request parsing, `FormController`, templates, static files | the web form's settings, caches, sessions, log |

### Components

| component | state | operations | what makes it correct | module |
|---|---|---|---|---|
| Remote control (`wisurveillancesys.cpp` 205-228, `wicapturesystem.cpp` 23-29) | `m_doStop`, `m_alive`, `m_currSystemState`, the retained state message | ON, OFF, POWEROFF; thread start and stop; connect, disconnect | a reported stop happens; the retained state is the current one; state and thread agree | `CaptureControl` |
| Transfer of captures (`wicammqttclient.cpp`, `MqttLib/mqttclient.cpp`) | `m_dataTransActive`, `m_dataTransProcess`, `m_data`, `m_dataLeft`, `m_chunkIndex`; Paho's outbox | `sendImage`, `sendVideo`, `sendSound`, `dataSend`, `sendDataPayload`, `sendDataFinish`, `onSended` | frames do not interleave, chunks cover the capture, transfers end | `MqttTransfer` |
| Motion capture (`wicapturesystem.cpp` 31-380) | settings, `m_motionCaptured`, file names, writer, recorder, time stamps | `setCaptureConfigurations`, an iteration of `run()` | recordings end and are bounded, a clip is emitted once, nothing is left recording | `MotionCapture` |
| Settings flow (`wisurveillancesys.cpp` 57-184, `formcontroller.cpp`), MQTT reconfiguration (`wicammqttclient.cpp` 262-299) | `m_wiCamSettings`, the settings file, the subsystems' copies, the client in use | form and broker settings, `setSettings`, load, save | the copies agree with the file after every change and every restart; `m_connected` follows the client in use | `SettingsFlow` |
| WiFi button (`wicamgpio.cpp`) | `m_wifiButton`, its time stamp, `m_wifiRequested` | the input timer | one request for each long press | `WifiControl` |
| WiFi mode changer, wireless drivers (`wifimodechanger.cpp`, `WirelessLib/`) | the board's services and files | to access point, connect, scan | one of the two modes at a time; it serves | `WifiControl`, `IwScan` |
| Wireless tools (`WirelessLib/iwtools/`) | the buffer and the budget of a scan, the place in the stream of events | the `scan` command, `iw_scan`, `iw_extract_event_stream` | a scan ends and tells the cells found | `IwEvents`, `IwValues`, `IwScan` |
| HTTP listener, pool, connection handler (`httpserver/`) | the pool, `busy`, socket, current request, the read timer, each thread's queue | accept, reject, read, disconnect, time-out, cleanup, end | a handler has one connection, the cleanup drops none, connections end | `HttpServer` |
| HTTP request and response | parser state, size counters; headers sent, chunked mode | `readFromSocket`; `write` | what is served was sent, within the limits; a response ends where the client can see it | `HttpRequest`, `HttpResponse`, `HttpExchange` |
| Parameters and cookies | the texts | `decodeRequestParams`, `extractCookies`, `HttpCookie`, `setCookie` | fields and cookies arrive as sent | `HttpFields` |
| Sessions | the store, reference counts, expiry | get, remove, expire; copies and ends of handles | a session in use is not deleted | `HttpSessions` |
| Static files, template cache | the caches, the files | `service`, `tryFile` | a cached file is not stale beyond its time | `FileCaches` |
| Templates | a page | `setVariable`, `setCondition`, `loop` | a page is filled as meant, filling ends | `Template` |
| Logging | mutex, buffers, file, backups | log, write, refresh, rotate | rotation loses only the oldest log | `Logging` |
| Not built | `MqttLib/fileworker.*`, `qtservice/*` | | `WiCam.pro` compiles neither; `iwtools` is not compiled either, but the drivers run its `iwlist` | |

### How they interact

Control messages reach Paho, are queued as signals, and run the slots of the
remote control, which start the capture thread or ask it to stop by a flag.
The capture thread emits images and clip names, which are queued and start
transfers. Every completed publication, of a state message too, comes back as
`sended` and drives the transfer on. Settings from the broker or the form are
queued too; the main thread hands them to the capture loop under its mutex, to
the MQTT client, which replaces its connection, to the WiFi driver, and writes
the file. The button's timer runs in the same thread and makes the device an
access point. The listener posts each connection to the thread of a handler,
which parses its requests and calls the request mapper in that thread; handlers
share caches, sessions and the log with each other and with the main thread's
timers.

### What is hard

The flags between two threads without a lock; the gap between Paho's view of
the connection and the main thread's; completions that cannot be told apart;
a capture arriving during a transfer; fields that outlive `run()` while its
locals do not; failures half-way through a capture; the callbacks of a client
that was replaced; settings saved after they were applied; `busy`, written by
a handler and read by the pool without a lock; a connection lost in the middle
of a service; requests cut anywhere; caches and reference counts shared by
threads; renames with crashes between them; a kernel that answers "again".
`PROJECT.json` lists the hazards at their lines with the properties that watch
them.

## 2. Modules

| module | models | checked by |
|---|---|---|
| `ConnectionEvents` | the main thread's queue: what waits in it, what follows what | used by the next two |
| `CaptureControl` | remote control of the capture thread | `Capture.cfg`, `StateAgrees.cfg` |
| `Framing` | the packets of a capture and the chunk arithmetic | used by the next two |
| `FramedStream` | abstract: what the transfer promises a subscriber | refined by `MqttTransfer` |
| `MqttTransfer` | the transfer through Paho, with its losses and completions | `Transfer.cfg`, `TransferStuck.cfg` |
| `MotionCapture` | the loop of `run()` | `Motion.cfg`, `MotionFrames.cfg` |
| `WifiControl` | the button, the mode changer, the drivers' `connect()` | composed in the next |
| `SettingsFlow` | the settings' way through the program; `setSettings` | `Settings.cfg` |
| `HttpServer` | listener, pool, handler threads | `Server.cfg` |
| `HttpRequest`, `HttpResponse` | the parser; the writer | composed in the next |
| `HttpExchange` (`MC`) | `read()` over the requests of one connection | `Exchange.cfg` |
| `HandlerThread` | threads, clock and bounds of the next three | |
| `HttpSessions`, `FileCaches`, `Logging` | the state handler threads share | composed in the next |
| `WebLibrary` (`MC`) | the three with the end of the process | `Library.cfg` |
| `HttpFields`, `Template` | parameters and cookies; pages | composed in the next |
| `WebTexts` (`MC`) | one or the other | `Texts.cfg` |
| `IwEvents` | the kernel's event stream and the extraction of an event | used by the next |
| `IwValues` | what the library makes of the values of an event | used by the next |
| `IwScan` (`MC`) | a scan from its request to its list | `Scan.cfg` |
| `*_proof` | the theorems about the module of that name | TLAPS |

Each module holds, before the operator it replaces, the mutants its properties
are tried against: variants of one operator with a plausible bug.

**CaptureControl.** `step` is the main thread's position inside a control slot
and `thread` the capture thread's inside `run()`: every read and write of
`m_alive` and `m_doStop` is a step of its own (`StopThreadReadsAlive`,
`StopThreadRaisesFlag`, `ReadsStopFlag`, `ClearsStopFlag`, `LowersAliveFlag`).
`RunReturns` is apart from `LowersAliveFlag` because `QThread::start()` does
nothing until the thread has ended. `ProcessesFrame` is one iteration, whose
body is `MotionCapture`. `CameraFails` is `qFatal`, which ends the program; the
broker keeps what it retains; `Restart` begins a new life. The subscription's
QoS lets a command arrive more than once, so `ControlArrives` may repeat.
The history variable `hurried` records that a command came before the one
before it had settled, that is, before the slots had run and the capture thread
was in its loop or had ended. No operator can see the latter: "stopped" is
published well before.

**MqttTransfer.** `outbox` holds what Paho accepted, `flown` how much of it the
broker has; a loss of the connection resets `flown`, so packets are sent again.
`events` is the queue of the main thread; `m_connected` follows it, `link` is
Paho's view, and the two differ while an event waits. A packet is its type, its
capture and its range of bytes. `OnConnected` is two steps because it publishes
twice and the link may fail between them. `accepted` and `damaged` are history:
the packets Paho took, and the captures one of which it refused.

**MotionCapture.** An iteration is `TakeSettings`, then `SkipFrame` or
`DetectMotion`, then `Record`; the mutex keeps settings out until its end. A
frame is the sequence of its contours, small or big, which is all that
detection looks at; time stamps are the time since, up to the largest limit.
The writer and the recorder may fail to open, the camera may fail to reopen
(`Abort`), `run()` may be stopped between any two iterations (`Stop`). The
fields survive `Start`, the locals do not. `disturbed` records that a stop hit
a capture or that something failed. Its clips are `MqttTransfer`'s captures
(`MotionDetected`); what becomes of their files afterwards is modelled there.

**SettingsFlow** and **WifiControl.** `task` is the main thread's position in a
handler, `events` its queue. A form is a page written group by group from
`m_wiCamSettings` (`WritePage`, which the main thread may interrupt), edited and
submitted later (`SubmitForm`); `OnSettingsChanged`, `Apply`, `Connect` and `Save`
are the slot of the form, `OnCaptureSettingsReceived` that of the broker. `link` is
Paho's view of the client in use, `m_connected` the program's; `SetSettings`
replaces the client and only asks Paho to disconnect the old one, which is still
there (`replaced`): its "disconnected" comes at any later time, after the new
client's "connected" too (`ReplacedEnds`); one that was still connecting when it was
replaced may come up unused (`ReplacedUp`) and be lost. The callbacks of all clients
carry one context and are the same events. Messages may still come from a client
that is disconnecting. `heard` is history: whether the last callback was one of the
client in use. Assumed of Paho: a client that was told to disconnect, or that came
up and was lost after it was replaced, does not connect again, and the client in use
reconnects by itself. The device is what survives a crash: `station`, `hostapd`,
`dnsmasq`, and the settings `file`. Each command the code waits for is a step
(`DeviceStep`); the three drivers differ in what they stop before they join
(`driver`). A driver that finds no interface ends the program (`FirstInterface`,
`interfaces()[0]` of an empty list), as may anything else (`Crash`). `elapsed` is
what the wall clock did between two readings of the button. `missed` is history:
settings that came while `m_connected` was down.

**HttpServer.** `main` is the main thread's position in the listener and the
pool, `stage` a handler thread's; `busy` is read by the one and written by the
other without a lock, as in the code. `posted` is the handler's event queue.
`Disconnected` is a part of every step in which the socket may report the end
of the connection, within a service too. A handler whose thread has ended is
the same number again when the pool makes a new one. A client sends pieces of
requests (`ReadPart`, `ReadEnd`, `ReadBad`), stalls or goes.

**HttpRequest**, **HttpResponse**, **HttpExchange.** A stream is a sequence of
items (a request line, a header, a blank line, a body) with their sizes in
bytes; `arrived` and `pos` are bytes, so a delivery may end anywhere, between
CR and LF too. `currentSize` and `expectedBodySize` are computed as the code
does, fragments counted twice and integers wrapping at `IntBound`. Of headers
of one name the last counts, as `QMultiMap::value` has it; a length with a
continuation line is no number (`Continued`). The request
handler is any program that writes, asks to close, returns or throws.
`brokenLineEnd` and `served` are history.

**HttpSessions**, **FileCaches**, **Logging** in **WebLibrary.** `at` is where each
thread is. A session's handle is copied and ends as `HttpSession` does: count up in
one step, under the write lock; count down in a load (`BeginDestructor`,
`AssignOld`), a store (`StoreCount`) and the unlock with the deletion
(`EndDestructor`, `EndAssign`), each of which two threads may interleave, since they
share the read lock; the deletion is decided by the value loaded, and a thread may
be about to unlock what another has deleted (`unlocking`). A cache entry has an
address, which is free again once it is deleted (`New`), so a pointer can outlive
the entry and point to another; files change at any time and have versions.
`Logging` keeps who holds each of the three mutexes; a log file is its generation,
and `RemoveBackup`, `RenameBackup` and `RenameLog` are steps between which `Restart`
may come, which also stands for the null pointer `write()` follows after an error.
`part` chooses which of the three a behaviour exercises: they share no variable and
no lock, so nothing is lost.

**HttpFields** and **Template** in **WebTexts.** A text is a sequence of the
characters that mean something to the code. `SetCookies`, `Send` (the browser,
external), `DecodeRequestParams` and `ExtractCookies` are the way of a form and its
cookies. A `QMultiMap` is a function from names to their values, the newest first. A
cookie made by a constructor that does not initialise `httpOnly` has either value of
it (`NewCookie`). A page is a sequence of tokens, and each turn of the search loops
of `setVariable`, `setCondition` and `loop` is a step; a controller's calls come in
any order, except that names inside a loop exist only after it. The value of a
variable holds a tag, its own or another variable's (`values`), which a later call
finds. `part` is as above.

**IwEvents**, **IwValues** and **IwScan.** The kernel's stream is a sequence of events with
lengths in bytes; `Extract` is `iw_extract_event_stream`, for each padding and
version of the Wireless Extensions. `IwValues` has the library's conversions: a
frequency to a channel or a scaled number, a strength of eight bits to dBm, half
dBm or a share of the maximum, as flags or the maximum tell, keys, modes and
bit rates; `ScanTells` reads them back and compares them with what the card
measured. `IwScan` is `print_scanning_info` of
`iwlist scan`, called by a driver or a user, and `iw_scan` of the library; the
kernel refuses, interrupts, asks to come again or finds the buffer too small,
and an `iwlist` that hangs is killed by the driver's time-out.

## 3. Runs

| run | shows | bounds, and why they are enough |
|---|---|---|
| `capture_control` | `StoppedIsHonest`: state "stopped" means the thread has passed its last check or will be told. `RetainedCatchesUp`: the broker's state is the client's once the newest reconnection is handled. `Agreement`, `StopFlagHasReader`: while each command finds the one before it settled, state and thread agree and no stop request is left behind, whatever is lost, crashes or restarts. `StopTakesEffect`, `StoppedComesToRest`: a stop ends the thread. | Three waiting events: two commands and a change of the connection, in any order. The proofs cover every bound. |
| `state_agrees` | `AlwaysAgree` without that condition is violated: ON while `run()` returns is reported as "running" and starts nothing | one waiting event |
| `transfer` | `NoStall`, `ChunkInBounds`, `TransfersEnd`, `DeliveredWhole`: of a capture no packet of which was refused the broker receives nothing but the packets of its frame, each after all that precedes it, whatever is sent twice. `StreamSpec`: it implements `FramedStream`. | Packet length 2, sizes 0, 2 and 3: empty, exactly one packet, one and a partial one. Two captures, so that one meets the other's transfer; one loss, so that it meets every step; `MaxOutbox` messages wait in Paho. The safety part was also run with a queue of three. |
| `transfer_stuck` | an empty capture blocks the client for ever | one capture of no bytes |
| `motion` | `NoOrphanRecording`, `OfferedOnce`, `ClipsAreBounded`, `ClipsEnd` under every disturbance; `FilesAccounted`, `MotionIsRecorded` until the first one | Up to two contours in a frame, triggers 1 and 2 (one contour suffices, or several frames or contours are needed), all limits reached, two clips: one after the other, across settings, stops and aborts. |
| `motion_frames` | one frame with two moving objects meets a trigger of two frames | two contours |
| `settings` | `OneTruth`: between two events form, file, capture thread and MQTT client have the same settings. `ClientFollowsSettings`: once the events are handled `m_connected` is the state of the client in use while that one called back last; once the replaced clients are silent it never says "connected" of one that is not; the client is made for the settings in force unless they came while `m_connected` was down. `OneModeAtATime`, `OneRequestPerPress`. | Two values for a group, one network or none, two changes: any two of a form, a broker's message, a loss and a crash, in either order and at any step, which is what two copies need to differ or a client to be replaced while it connects; three waiting events, so that callbacks of several clients meet. A press is long after three readings, any jump of the clock included. The proofs cover every bound. |
| `server` | `SocketFreeForNext`: the assertion in `handleConnection`. `IdleHasNoClient`: `cleanup` deletes no handler that has a client. `OnlyCloseLoses`: nothing but closing the server drops a connection that waits for its handler. `RequestOfOneConnection`. `ConnectionsEnd`. | Three connections, so that two compete for the second handler while the first is reused; one to two handlers, so that the pool grows, is full and shrinks; two pieces of input each: a request cut by a loss, or two requests. |
| `exchange` | `ServedAsSent`, `WholeRequestsAnswered` for every fragmentation that cuts no CR from its LF; `ServedFits`, `ResponseDelimited` for every one | Fourteen streams: two requests in a row, HTTP/1.0, a client that closes, uploads below, at and above their limit, lengths that are negative, too large, wrap, come twice or are continued on a second line, broken lines. Limits of 17 and 21 bytes, blocks of 2: both limits are met and exceeded by one byte. |
| `library` | `SessionsAlive`: no handle outlives its data. `ServedIsRecent`: no page older than `cacheTime`, nor what lies where a thread looks for the template it asked for, if it is that template's. `BackupsInOrder`: the backups are the newest logs in order. | Two threads and the main thread; two sessions, three cache entries in a cache of three (the third drops one), two backups and five logs, so that a rotation drops and one with a gap follows; seven steps of work for the log, three calls or changes for the rest. |
| `scan` | `ScanTells`: a completed scan tells the cells found. `ScanEnds`. | Seventeen airs: none to five cells, hidden and blank names, one and several rates, strengths of all three encodings with their least, 0 and the maximum (-128 only as a noise marked invalid, which is not printed), frequencies with and without a channel and a channel alone, keys told, untold and off, information elements cut at every length; five layouts of the kernel. A budget of two more waits, three retries, buffers that double past the place where the length wraps (640 for 65536) until memory ends. `KILO` is 10, so that the scales fit TLC's integers of 32 bits. |
| `texts` | `FieldsAsSent`: the values of each name, the newest first, and no others; cookies with their attributes but the flags. `PageFilled`: every search ends on a page whose tags are ended, and if no value holds another variable's tag the page shows what its author meant. | Names and values with every character that is encoded or quoted, one or two fields in query and body; pages with two conditions of a name, conditions and variables in loops, loops in loops, up to two turns; values with their own tags or all with one variable's. |

**Deadlock** is checked in `capture_control`, `transfer`, `motion`, `scan` and
the violations of the first three. The other configurations say
`CHECK_DEADLOCK FALSE` because their bounded clients, calls or texts come to an
end; that nothing stops before is said by `ConnectionsEnd`, `PageFilled` and
`WholeRequestsAnswered`.

**Fairness.** `CaptureControl` and `MqttTransfer` assume weak fairness of the
main loop (Qt takes queued events while there are any) and of the capture
thread. The transfer's liveness also needs Paho to reconnect (the client sets
`automaticReconnect`) and to work through its outbox. `MotionCapture` assumes
that `run()` is scheduled, that time passes, and strongly that frames are not
skipped for ever: the camera delivers, and the fps limit lets a frame pass
whenever its time has come. `HttpServer` assumes that the main thread and each
handler's thread are scheduled, and that the read timer fires, which is a step
of that thread. `IwScan` assumes that the scan's process runs and, when it
hangs, that the driver's time-out does; `WebTexts` that the thread that fills a
page runs. Operators, motion, settings, clients, losses and faults owe nothing.

## 4. What the code does otherwise

With a run that shows it:

- An empty capture leaves `m_dataTransProcess` up for ever
  (`wicammqttclient.cpp:185`; `transfer_stuck`).
- `framesTrigger` counts contours, not frames (`wicapturesystem.cpp:211`;
  `motion_frames`).
- ON while `run()` returns, with `m_alive` lowered, starts nothing and is
  reported as "running" (`wisurveillancesys.cpp:207`; `state_agrees`).

Modelled, and kept out of the properties by a history variable or a condition:

- A second OFF while `run()` is leaving raises a flag nobody reads, and the next
  ON ends at once (`wicapturesystem.cpp:28`; `StopFlagAlwaysRead` does not hold).
  `Agreement` and `StopFlagHasReader` hold while no command hurries (`hurried`);
  waiting for the published state is not enough for that.
- The access point starts `/etc/init.d/dnsmaq`, which is no program: it hands
  out no addresses (`wifimodechanger.cpp:131`; `RestartDnsmasq`).
- The "disconnected" of a replaced client may be handled after the "connected" of
  the new one (`wicammqttclient.cpp:274`, `mqttclient.cpp:70`): `m_connected` stays
  down, the state is no longer published, and the next settings are not followed
  by a reconnection, although "If client was connected then reconnect" (`:296`).
- A clip refused because a transfer is active keeps its file
  (`wicammqttclient.cpp:228`, `:249`).
- A video that could not be opened is emitted as finished
  (`wicapturesystem.cpp:242`; `disturbed`).
- Settings that come while the client is not connected change its fields and
  leave the client as it is (`wicammqttclient.cpp:297`; `missed`).
- A form page from before a broker's settings overwrites them when it is sent.
- A delivery that ends between CR and LF makes a blank line of the LF: the
  headers end there, before they have all been received (`httprequest.cpp:67`,
  `:104`; `brokenLineEnd`).
- Every fragment of a line is counted again (`httprequest.cpp:31`, `:66`), a
  Content-Length may be negative or wrap the sum: such requests are rejected or
  cut, never served beyond the limits.
- A handler whose socket cannot be initialised stays busy for good
  (`httpconnectionhandler.cpp:98`); a client that stops reading keeps its
  handler, since the time-out waits for the bytes to be written.
- A thread that lowered the count of a session may unlock the lock in its data
  after another, which shared that read lock, lowered it to zero and deleted the
  data (`httpsession.cpp:80-88`, `:62-69`; `unlocking`), although "This class is
  thread safe" (`httpsession.h:19`).
- A template is read after its cache entry may be gone (`templatecache.cpp:26`,
  `:35`; `staticfilecontroller.cpp:49` copies it first), and another template's may
  have been made at its address, although "This method is thread safe"
  (`templateloader.h:57`); an entry larger than the cache is gone at once.
- A text inserted for a variable is searched by later calls: a value with another
  variable's tag is replaced there (`template.cpp:41`; `OwnTags`).
- A log file that cannot be opened is warned of through the logger that is
  opening it and holds its mutex (`filelogger.cpp:121`, `:50`;
  `logger.cpp:50-52`): the thread waits for itself, the others for it.
- `httpcookie.cpp` and `httprequest.cpp:274` test `if (posi)` for the place of
  the equals sign, which -1 passes: a part without one becomes a value without
  a name, so `Secure` and `HttpOnly` written by `toByteArray` are not read back
  (`Unflagged`). `httpOnly` is not initialised by two of the constructors
  (`httpcookie.cpp:10`, `:30`) and never lowered. A value with a semicolon is not quoted.
- A condition or loop without its end tag is found for ever
  (`template.cpp:100-104`; `EndMissing`).
- `iwlist` waits although its comment says "But, don't wait !!!"
  (`iwlist.c:743`); results beyond 65535 bytes never fit, since the length of a
  request has 16 bits; an ESSID with a quote is cut by the drivers' parsing.

## 5. Proofs

All constants are arbitrary within the named assumptions: bounds are naturals
(the queue's, the packet length, the size of the pool positive), clips are
captures, triggers do not exceed the counter's bound, the handler threads are
finitely many and the main thread is none of them, the default of a settings
group is one of its values, a stream is a sequence of items with sizes and
numbers, a template is looked for under at least one name. Every property stated
was checked by TLC first, on the run of its module. No theorem has a hypothesis
besides the specification, but for the three about a connection's requests: they are
about streams of whole requests (`WholeRequests`), and `HttpExchangeMC` assumes
that the fourteen streams of the run are such, which TLC evaluates.

- **`CaptureControl_proof`.** `TypeCorrect`; `StoppedIsHonestAlways`, from
  `HonestInv`, which adds what each position of the capture thread says about
  `m_alive` and what each step of the main thread says about a stop still to
  come: alone, `StoppedIsHonest` does not exclude an alive thread whose flag
  was never raised. `RetainedCatchesUpAlways`, from `LinkInv`: every queued loss
  of the connection is followed by a queued reconnection while the link is up
  (`LossCovered`), so `m_connected` can be wrong only while a "connected" waits.
  `AgreementAlways` and `StopFlagHasReaderAlways`, from `PatientInv`: as long as no
  command comes before the slots have run and the capture thread has come to rest
  (its end included, which no operator sees: they say nothing of one who waits for
  "stopped" only) at most one command is on its way (`QueueInv`), and each
  position of a slot fixes what the thread can be (`SlotsInv`): running without
  a flag, leaving because of one, or at rest without one.
- **`FramedStream_proof`.** `StreamOrderedAlways`: packets are accepted in
  frame order, captures in order; the strengthening says that everything in
  the stream lies before the next packet.
- **`MqttTransfer_proof`.** `TypeCorrect` and `ChunkInBoundsAlways` from
  `SenderInv` (bytes sent and left make the size, for as long as a transfer is
  active, and between the last chunk and the finish nothing is left);
  `NoStallAlways` with the same argument on the connection as above and the
  outbox. Captures wait in the order they were made (`OfferInv`), which
  `TransfersAreFramed` needs. It is the refinement: `DataSend` maps to
  `Start`, a chunk to `Chunk`, the finish to `End`, everything else stutters,
  under busy, current and the bytes framed as read from the client's fields.
  `AcceptedInOrder` carries `StreamOrderedAlways` over to the implementation.
  `DeliveredWholeAlways`, from `DeliveryInv`: in the outbox as in what the broker
  received, every packet of an undamaged capture stands after those that precede
  it in its frame (`OutboxInv`), the packets `flown` counts are received
  (`FlownInv`), and those before the next one of the capture in transfer are
  accepted (`NextInv`). A lost connection resets `flown`, which only repeats a
  prefix, and so nothing overtakes.
- **`MotionCapture_proof`.** `TypeCorrect`, `NoOrphanRecordingAlways`,
  `OfferedOnceAlways`, `ClipsAreBoundedAlways` from one invariant: settings are
  taken before a frame is (`Settled`), a motion's clip has a name (`Named`) that
  was not emitted yet (`ClipsInv`), and while anything is recorded the time stamp
  is that of its start (`RecordingInv`); without the last, a stop or a failed
  open could leave a stale stamp that the length limit would trust.
  `FilesAccountedAlways` and `MotionIsRecordedAlways`, from `CapturesInv`, which
  adds that `run()` can only leave a motion behind once it was disturbed
  (`StoppedInv`).
- **`HttpServer_proof`.** `TypeCorrect`; `SocketFreeForNextAlways`,
  `IdleHasNoClientAlways`, `OnlyCloseLosesAlways` and
  `RequestOfOneConnectionAlways`, from `HandlerInv`, which says what the pool may
  believe of a handler whose `busy` it reads without a lock. `PoolInv` is what it
  adds to the checked properties: no handler is in the pool twice, one that is not
  in it has no thread, and one in it has ended only if it was told to quit
  (`ThreadsOfPool`); one that has ended has neither socket nor queue
  (`EndedIsEmpty`). Without it a step of the cleanup could delete a handler that
  another entry still names.
- **`SettingsFlow_proof`.** `TypeCorrect`; `OneTruthAlways`,
  `ClientFollowsSettingsAlways`, `OneModeAtATimeAlways` and
  `OneRequestPerPressAlways`, from `SettingsInv`: for each value of `task`, which
  of the copies already have the new settings (`CopiesInv`, `BrokerInv`), what the
  last callback that waits, or else `m_connected`, may say (`LinkInv`, `MaySay`):
  the state of the link if it is one of the client in use, and "connected" of a
  client that is not only while a replaced one has still to call back; which
  programs each step of a change of mode leaves running (`SwitchInv`), and that a
  request made keeps `m_wifiRequested` up until the release (`PressInv`).
- **`WebLibrary_proof`.** `BackupsInOrderAlways`, from `LogInv`: the files are given
  by the newest generation among the backups, the last number, and one number
  without a file that a rotation moves down (`Rotated`); a restart in the middle
  leaves such a gap, and the next rotation begins at it or above it.
  `SessionsAliveAlways`, from `SessionsInv`: a session's count, and what a thread
  has loaded to lower it, is never below the number of handles that remain
  (`Counted`), a sum over the scopes of all threads, the store and the values in
  passing, hence the lemmas about sets of handles and their cardinalities. Two
  threads that lower the count at once lose a decrement, which keeps data too long
  and never too short. Both theorems speak of the data and its count, not of its
  lock, which may be unlocked too late (section 4). `DeletedOnceAlways` is what a
  count that errs to that side comes to: data that is deleted is not alive, whoever
  lowers a count lowers that of data that is, and of the threads between store and
  unlock only one may go on to delete (`Dooms`), so nothing is deleted twice.
  `ServedIsRecentAlways`, from `PagesInv`: an entry of a cache, and a page that was
  read but is not stored yet, is as old as it says, whatever happens to the file
  meanwhile (`CachesOK`); an entry of the template a thread asked for that lies
  where it looks was made late enough, the one it found or a later one
  (`TemplatesOK`). That it is an entry of that template is not said, nor true.
  `FailedOpenSilencesLog`, from `LocksHeld` (who is in `log()`, rotates or opens the
  file holds the logger's mutex): once `open()` warns, the main thread waits for
  itself, and no step but the end of the process changes that. `TypeCorrect` for all
  variables, from the three invariants.
- **`HttpExchange_proof`.** `TypeCorrect`: among others the parser never overtakes
  the socket. `ServedFitsAlways`, from `FitsInv`: while a request is not complete
  it is within the limit it will be served under, and what was read of one without a
  boundary was counted, some of it twice; so a Content-Length that lies, or that
  wraps the sum, gets a request rejected but never past the limit.
  `ResponseDelimitedAlways`, from `DelimitedInv`: a response has a Content-Length
  only if its first part was its last (`Written`). The items' places in the stream
  are a recursive function; that it adds up their sizes (`EndsAreSums`) is shown by
  least counterexample. `ServedAsSentAlways`, `WholeRequestsAnsweredAlways` and
  `RequestsInTurn`, from `PartsInv`: between two requests the parser is between two
  items (`Between`), and each `status` fixes which items it has in hand (`Parts`): the
  first line, the headers up to a line that is not whole yet (`InLine`, `HeadRead`), a body
  of the size the headers told (`HasBody`). `RequestsInTurn` says that the parser
  completes the next request, at its own end: none is skipped, merged with its
  successor or served twice. `WholeRequests` asks that a request be a line, headers, a
  blank line and the body its length tells. It is needed: a length too short for
  its body makes the next request begin within the body. Lengths beyond the limit
  or the width of an integer are within it. The other condition is in the
  properties: a line end that was cut in two (`brokenLineEnd`).

Only model-checked:

- liveness (`StopTakesEffect`, `StoppedComesToRest`, `TransfersEnd`, `ClipsEnd`,
  `ConnectionsEnd`, `ScanEnds`, `PageFilled`): out of the prover's reach;
- `ScanTells` and `FieldsAsSent`, and the pages of `PageFilled`: they compare
  what recursive definitions compute with what was meant, an induction over data.

## 6. Not modelled

- Image processing, encodings and message texts: data no property looks at.
- That a power off may fail (it needs root, as which the program runs), or
  that `sync()` takes time.
- Time inside an iteration of `run()`, and the arithmetic of the fps limit.
- Capture types outside the enumeration, which a settings message can carry.
- A group of settings read while it is being assigned, a string half old and
  half new; that `WiWebServer::startServer` reads settings between `beginGroup`
  and `endGroup` of another group and so gets defaults (`wiwebserver.cpp` 9-22).
- The temporaries Paho's options point into (`mqttclient.cpp:45`).
- The contents of multipart bodies: duplicate names of uploads, whose file is
  leaked (`httprequest.cpp:480`), and parts without data (`:475`).
- Pages whose reading fails half-way; content types; the values of a session;
  message formats; `DualFileLogger`; TLS.
- That a publication is queued by Paho (`mqttclient.cpp:286`): in `CaptureControl`
  the retained state changes when `publish` is called.
- The end of the sound recorder: `audioRecorder.stop()` is taken as completing the
  file. The waits for it (`wicapturesystem.cpp:301-302`, `:361-363`) are commented
  out in the code.
- A request handler that sets Content-Length or Transfer-Encoding itself; the
  program's handlers set neither, nor Connection.
- Start tags and end tags of conditions and loops in the values of variables.
- The commands of the mode changer that stop services (`killall`, `ifconfig`) are
  taken to succeed with a driver of NetworkManager too.
- `%g` of `iwlib.c:1026` and `:1156`, which prints six digits, is taken as exact; the
  -1 and -2 with which a malformed stream of events ends are left out. An ioctl of a
  user or the library is taken to return; a driver's time-out kills the shell it
  started, in the model `iwlist` with it.
- Machines on which a load or a store of the reference count tears.
- The NWID, modulation and custom tokens of a scan, the commands of `iwlist` besides
  `scan`, and the drivers' `power()`, which nobody calls.
- Conditions nested in a condition of the same name: the first end tag ends the
  outer one.
- `FileWorker`, which the build leaves out and which includes a header the
  repository does not have; the service framework, third-party code that the
  build leaves out.

## 7. Plan

What the code offers to a model is modelled, and every invariant of a run is proved
but those of the wireless tools and the pages. What is left is beyond the provers:

1. `ScanTells`, `FieldsAsSent` and the pages of `PageFilled` compare what recursive
   definitions compute with what was meant; they need induction over data.
2. Liveness: the prover has no rules for fairness.
3. What a thread reads of a template's entry that is gone, the lock of deleted session
   data, a flag of a late callback, and clips that are refused but kept, are faults of
   the code (section 4); a property can be stated once the code promises otherwise.
