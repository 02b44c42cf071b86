------------------------------- MODULE IwScan -------------------------------
(***************************************************************************)
(* The scan for wireless networks.  scan() of a wireless driver runs       *)
(* "iwlist <interface> scan" and picks the ESSIDs out of what it prints    *)
(* (src/WirelessLib/*wireless.cpp); print_scanning_info of iwlist.c asks   *)
(* the card for a scan, waits, reads the results into a buffer it makes    *)
(* larger as long as they do not fit, and prints the events of the         *)
(* results one by one; iw_scan of iwlib.c does the same for a program that *)
(* wants a list.  The card and the kernel are external: they refuse, ask   *)
(* to come again, find the buffer too small, or hang.                      *)
(*                                                                         *)
(* Times are in milliseconds, lengths in bytes.                            *)
(***************************************************************************)
EXTENDS IwEvents, IwValues, SequencesExt

CONSTANTS Airs,           \* the lists of cells the card may find, numbered
          Kernels,        \* <<padding, version of the Wireless Extensions>>
          Budget,         \* timeout of print_scanning_info (15000)
          MaxRetry,       \* retries of iw_process_scan (150)
          ScanMaxData,    \* IW_SCAN_MAX_DATA, the first buffer (4096)
          LengthModulus,  \* the length of a request has 16 bits (65536)
          Memory          \* the largest buffer realloc() hands out

ASSUME ScanAssumption ==
  /\ Kernels \subseteq {0, 4} \X Nat
  /\ \A k \in Kernels : k[1] = 0 \/ k[2] > 18
  /\ Budget \in Nat /\ MaxRetry \in Nat \ {0} /\ ScanMaxData \in Nat \ {0}
  /\ LengthModulus > ScanMaxData /\ Memory \in Nat

VARIABLES kernel,    \* the running kernel
          air,       \* which of Airs the results that were read last are, or 0
          pc,        \* the step of the scan, "idle" when none runs
          who,       \* "driver", "user" (both iwlist) or "iw_scan"
          options,   \* the arguments of iwlist
          wait,      \* tv, or what iw_process_scan returned
          left,      \* timeout of print_scanning_info
          retry,     \* context->retry of iw_scan
          buflen,    \* the size of the buffer
          stream,    \* the position in the results
          val_index, \* state.val_index: the bit rates printed in this list
          shown,     \* what iwlist has printed, a record per cell
          list,      \* the list of struct wireless_scan
          networks,  \* what scan() of the driver returned
          outcome    \* how the last scan ended

environment == <<kernel, air>>
asking == <<wait, left, retry, buflen>>
reading == <<stream, val_index, shown, list>>
vars == <<kernel, air, pc, who, options, wait, left, retry, buflen,
          stream, val_index, shown, list, networks, outcome>>

Init ==
  /\ kernel \in Kernels /\ air = 0
  /\ pc = "idle" /\ who = "driver" /\ options = {} /\ outcome = "none"
  /\ wait = 0 /\ left = 0 /\ retry = 0 /\ buflen = 0
  /\ stream = AtStart /\ val_index = 0 /\ shown = <<>> /\ list = <<>>
  /\ networks = <<>>

-----------------------------------------------------------------------------
(* The results of the card: external.  A cell has an address, an ESSID or     *)
(* none, a protocol, a mode, a frequency, a key or none, a measured quality,  *)
(* bit rates, and information elements.                                       *)

SumOf(lengths) ==
  LET sum[i \in 0 .. Len(lengths)] == IF i = 0 THEN 0 ELSE sum[i - 1] + lengths[i]
  IN  sum[Len(lengths)]

\* The length of the body of an information element with its first parts:
\* 0 the version, 1 the group cipher, 2 the pairwise ciphers, 3 the
\* authentication suites, 4 the capabilities; -1 is an empty element.
BodyLength(ie) ==
  IF ie.parts < 0 THEN 0
  ELSE SumOf(<<IF ie.id = "wpa" THEN 6 ELSE 2,
               IF ie.parts >= 1 THEN 4 ELSE 0,
               IF ie.parts >= 2 THEN 2 + 4 * Len(ie.pairwise) ELSE 0,
               IF ie.parts >= 3 THEN 2 + 4 * Len(ie.auth) ELSE 0,
               IF ie.parts >= 4 THEN 2 ELSE 0>>)

IesLength(ies) == SumOf([i \in DOMAIN ies |-> BodyLength(ies[i]) + 2])

\* A measured quality in bytes: a card tells strengths in dBm, with a flag for it
\* since version 19 of the Wireless Extensions, in RCPI, or relative.
Coded(quality, version) ==
  LET byte(n) == CASE quality.unit = "dBm"  -> n % 256
                   [] quality.unit = "rcpi" -> 2 * (n + 110)
                   [] OTHER -> n
  IN  [qual |-> quality.qual, level |-> byte(quality.level), noise |-> byte(quality.noise),
       flags |-> CASE quality.unit = "dBm" /\ version >= 19 -> {"dbm"}
                   [] quality.unit = "rcpi" -> {"rcpi"}
                   [] OTHER -> {},
       invalid |-> quality.missing]

\* max_qual.level: -104 dBm as a byte, or 100 percent.
MaxLevel(cell) == IF cell.quality.unit = "relative" THEN 100 ELSE 152

CellEvents(cell, version) ==
  <<[cmd |-> "SIOCGIWAP", values |-> <<cell.address>>],
    [cmd |-> "SIOCGIWESSID", length |-> cell.length, flags |-> cell.visible,
     payload |-> cell.essid],
    [cmd |-> "SIOCGIWNAME", values |-> <<cell.name>>],
    [cmd |-> "SIOCGIWMODE", values |-> <<cell.mode>>],
    [cmd |-> "SIOCGIWFREQ", values |-> <<cell.freq>>],
    [cmd |-> "SIOCGIWENCODE", length |-> IF cell.key = "key" THEN 5 ELSE 0,
     flags |-> CASE cell.key = "off" -> {"disabled"} [] cell.key = "on" -> {"noKey"}
                [] OTHER -> {}, payload |-> cell.key],
    [cmd |-> "IWEVQUAL", values |-> <<Coded(cell.quality, version)>>],
    [cmd |-> "SIOCGIWSTATS", length |-> 4]>>
  \o (IF cell.rates = <<>> THEN <<>>
      ELSE <<[cmd |-> "SIOCGIWRATE", values |-> cell.rates]>>)
  \o (IF cell.ies = <<>> THEN <<>>
      ELSE <<[cmd |-> "IWEVGENIE", length |-> IesLength(cell.ies), flags |-> 0,
              payload |-> cell.ies]>>)

StreamOf == [k \in Kernels, a \in DOMAIN Airs |->
               FlattenSeq([i \in DOMAIN Airs[a] |-> CellEvents(Airs[a][i], k[2])])]

\* The length of the results under each kernel.
LengthOf == [k \in Kernels, a \in DOMAIN Airs |->
               SumOf([i \in DOMAIN StreamOf[k, a] |->
                        EventLength(StreamOf[k, a][i], k[1], k[2])])]
Needed(a) == LengthOf[kernel, a]

-----------------------------------------------------------------------------
(* What is printed of the information elements (iw_print_gen_ie). *)

Unknown == [known |-> FALSE]

\* iw_print_ie_wpa: an element is read as far as it reaches, what is missing of
\* the ciphers is TKIP, and a list longer than the element is not shown.
ShownIe(ie, buflength) ==
  LET reach == IF BodyLength(ie) + 2 > buflength THEN buflength
               ELSE BodyLength(ie) + 2
      version == IF ie.id = "wpa" THEN 6 ELSE 2
      group == version + 2
      count == group + 4
      suites == count + 2 + 4 * Len(ie.pairwise)
      capabilities == suites + 2 + 4 * Len(ie.auth)
      readable == \/ ie.id = "wpa2" /\ reach >= 4
                  \/ ie.id = "wpa" /\ reach >= 8 /\ ie.oui
  IN  IF ~readable THEN Unknown
      ELSE [known |-> TRUE,
            group |-> IF reach < group + 4 THEN "TKIP" ELSE ie.group,
            pairwise |-> IF reach < count + 2 THEN <<"TKIP">>
                         ELSE IF reach < suites THEN <<>> ELSE ie.pairwise,
            auth |-> IF reach < suites + 2 \/ reach < capabilities
                     THEN <<>> ELSE ie.auth,
            preauth |-> reach >= capabilities + 1 /\ ie.preauth]

\* Every element of which the header is in the buffer.
ShownIes(ies, buflength) ==
  LET offset(i) == IesLength(SubSeq(ies, 1, i - 1))
      seen == SelectSeq([i \in DOMAIN ies |-> i], LAMBDA i : offset(i) <= buflength - 2)
  IN  [i \in DOMAIN seen |-> ShownIe(ies[seen[i]], buflength)]

EssidOf(token) ==
  IF token.payload = NoPayload \/ token.length = 0 THEN "" ELSE token.payload

\* Of a key that is not told the encryption alone is.
KeyOf(token) ==
  IF "disabled" \in token.flags THEN "off"
  ELSE PrintedKey(token.payload, token.length,
                  token.payload = NoPayload \/ "noKey" \in token.flags)

\* print_scanning_token, with the bit rates in lists that end with their event.
Printed(token) ==
  LET print(field, value) == [shown EXCEPT ![Len(shown)][field] = value]
  IN  CASE token.cmd = "SIOCGIWAP" ->
             Append(shown, [number |-> Len(shown) + 1, address |-> token.value,
                            essid |-> "none", name |-> "none", mode |-> "none",
                            freq |-> <<>>, key |-> "none", stats |-> <<>>,
                            rates |-> <<>>, security |-> <<>>])
        [] token.cmd = "SIOCGIWESSID" ->
             print("essid", IF token.flags = 0 THEN "off/any/hidden" ELSE EssidOf(token))
        [] token.cmd = "SIOCGIWNAME" -> print("name", token.value)
        [] token.cmd = "SIOCGIWMODE" -> print("mode", PrintedMode(token.value))
        [] token.cmd = "SIOCGIWFREQ" ->
             LET freq == Freq2Float(token.value)
             IN  print("freq", <<PrintedFreq(freq, FreqToChannel(freq), token.value.fixed)>>)
        [] token.cmd = "SIOCGIWENCODE" -> print("key", KeyOf(token))
        [] token.cmd = "IWEVQUAL" ->
             print("stats", <<PrintedStats(token.value, MaxLevel(Airs[air][1]))>>)
        [] token.cmd = "SIOCGIWRATE" ->
             LET rates == shown[Len(shown)].rates
                 rate  == PrintedBitrate(token.value)
             IN  print("rates", IF val_index = 0 THEN Append(rates, <<rate>>)
                                ELSE [rates EXCEPT ![Len(rates)] = Append(@, rate)])
        [] token.cmd = "IWEVGENIE" ->
             print("security", shown[Len(shown)].security
                                 \o ShownIes(token.payload, token.length))
        [] OTHER -> shown

ValIndex(token, position) ==
  CASE token.cmd # "SIOCGIWRATE" -> val_index
    [] position.value = 0 -> 0
    [] OTHER -> val_index + 1

\* iw_process_scanning_token: of the bit rates the largest.
Listed(token) ==
  LET save(field, value) == [list EXCEPT ![Len(list)][field] = value]
  IN  CASE token.cmd = "SIOCGIWAP" ->
             Append(list, [address |-> token.value, essid |-> "none", on |-> 0,
                           mode |-> NumOperMode, freq |-> 0, key |-> <<>>,
                           stats |-> <<>>, maxbitrate |-> 0])
        [] token.cmd = "SIOCGIWESSID" ->
             [list EXCEPT ![Len(list)].essid = EssidOf(token), ![Len(list)].on = token.flags]
        [] token.cmd = "SIOCGIWMODE" ->
             IF token.value < NumOperMode THEN save("mode", token.value) ELSE list
        [] token.cmd = "SIOCGIWFREQ" -> save("freq", Freq2Float(token.value))
        [] token.cmd = "SIOCGIWENCODE" ->
             save("key", <<[size |-> token.length,
                          flags |-> token.flags \cup
                                      (IF token.payload = NoPayload THEN {"noKey"} ELSE {})]>>)
        [] token.cmd = "IWEVQUAL" -> save("stats", <<token.value>>)
        [] token.cmd = "SIOCGIWRATE" ->
             [list EXCEPT ![Len(list)].maxbitrate = IF token.value > @ THEN token.value ELSE @]
        [] OTHER -> list

-----------------------------------------------------------------------------
(* The start of a scan. *)

Start(caller, arguments) ==
  /\ pc = "idle"
  /\ who' = caller /\ options' = arguments
  /\ pc' = IF caller = "iw_scan" THEN "set" ELSE "range"
  /\ outcome' = "none" /\ air' = 0
  /\ wait' = 0 /\ left' = Budget /\ retry' = 0 /\ buflen' = ScanMaxData
  /\ stream' = AtStart /\ val_index' = 0 /\ shown' = <<>> /\ list' = <<>>
  /\ networks' = <<>>
  /\ UNCHANGED kernel

\* scan() of a driver: "iwlist %1 scan | grep ESSID".
DriverScan == Start("driver", {})

\* iwlist from the command line; "last" asks for the results of the last scan.
UserScan == \E arguments \in SUBSET {"essid", "last"} : Start("user", arguments)

LibraryScan == Start("iw_scan", {})

\* The local variables of the request are gone.
Return == wait' = 0 /\ left' = 0 /\ retry' = 0 /\ buflen' = 0 /\ options' = {}

\* What a driver's scan() returns: the ESSIDs that stand in quotes.
Quoted == SelectSeq([i \in DOMAIN shown |-> shown[i].essid],
                    LAMBDA essid : essid \notin {"", "none", "off/any/hidden"})

End(how) ==
  /\ pc' = "idle" /\ outcome' = how /\ Return
  /\ networks' = IF who = "driver" /\ how # "killed" THEN Quoted ELSE <<>>

Fail == End("failed") /\ UNCHANGED <<environment, who, reading>>

\* iw_get_range_info: without it, or with an old driver, there is no scan.
GetRange ==
  /\ pc = "range"
  /\ \/ Fail
     \/ IF kernel[2] < 14 THEN Fail
        ELSE pc' = "set" /\ UNCHANGED <<environment, who, options, asking, reading,
                                        networks, outcome>>

-----------------------------------------------------------------------------
(* The request for a scan. *)

Waiting(milliseconds) ==
  /\ pc' = "wait" /\ wait' = milliseconds /\ options' = {}
  /\ UNCHANGED <<environment, who, buflen, reading, networks, outcome>>

\* iwlist: the results of the last scan are read at once, those left over when
\* the program may not ask for a scan too.
SetScan ==
  /\ pc = "set" /\ who # "iw_scan"
  /\ IF options = {"last"} THEN Waiting(0) /\ UNCHANGED <<left, retry>>
     ELSE \/ Waiting(250) /\ left' = left - 250 /\ UNCHANGED retry
          \/ options = {} /\ Waiting(0) /\ UNCHANGED <<left, retry>>
          \/ Fail

\* iw_process_scan, called for the first time.
LibrarySetScan ==
  /\ pc = "set" /\ who = "iw_scan"
  /\ \/ Waiting(250) /\ retry' = retry + 1 /\ UNCHANGED left
     \/ Fail

\* The wait is over: select() timed out, or iw_scan slept and calls
\* iw_process_scan again with a new buffer, which gives up after its last retry.
Wakes ==
  /\ pc = "wait"
  /\ IF who # "iw_scan"
     THEN pc' = "get" /\ UNCHANGED <<retry, buflen>>
     ELSE pc' = "get" /\ retry' = retry + 1 /\ buflen' = ScanMaxData
  /\ retry' <= MaxRetry
  /\ wait' = 0
  /\ UNCHANGED <<environment, who, options, left, reading, networks, outcome>>

SelectFails == pc = "wait" /\ who # "iw_scan" /\ Fail

LibraryGivesUp == pc = "wait" /\ who = "iw_scan" /\ retry + 1 > MaxRetry /\ Fail

\* A signal interrupts select(), which leaves the rest of the time in tv.
Interrupted ==
  /\ pc = "wait" /\ who # "iw_scan" /\ wait > 100
  /\ wait' = 100
  /\ UNCHANGED <<environment, pc, who, options, left, retry, buflen, reading,
                 networks, outcome>>

-----------------------------------------------------------------------------
(* The results are asked for. *)

\* The length that the request for the results tells the kernel.
RequestLength == buflen % LengthModulus

Asks == pc = "get" /\ buflen <= Memory

NoMemory == pc = "get" /\ buflen > Memory /\ Fail

\* The results fit the length of the request.
ResultsRead ==
  /\ Asks
  /\ air' \in {a \in DOMAIN Airs : Needed(a) <= RequestLength}
  /\ pc' = "extract" /\ Return
  /\ UNCHANGED <<kernel, who, reading, networks, outcome>>

\* They do not: the buffer grows to the length the kernel hints at, or twofold.
TooBig ==
  /\ Asks
  /\ \E a \in DOMAIN Airs :
       /\ Needed(a) > RequestLength
       /\ \E hint \in {RequestLength, Needed(a) % LengthModulus} :
            IF kernel[2] <= 16 THEN Fail
            ELSE /\ buflen' = IF hint > buflen THEN hint ELSE 2 * buflen
                 /\ UNCHANGED <<environment, pc, who, options, wait, left, retry,
                                reading, networks, outcome>>

\* Mutant: the time of the new wait is not taken off the budget.
TryLaterForgetting ==
  /\ Asks
  /\ IF who = "iw_scan" THEN Waiting(100) /\ UNCHANGED <<left, retry>>
     ELSE IF left - 100 > 0 THEN Waiting(100) /\ UNCHANGED <<left, retry>>
     ELSE Fail

\* The scan has not ended: iwlist waits for 100 ms more if the budget allows.
TryLater ==
  /\ Asks
  /\ IF who = "iw_scan" THEN Waiting(100) /\ UNCHANGED <<left, retry>>
     ELSE IF left - 100 > 0 THEN Waiting(100) /\ left' = left - 100 /\ UNCHANGED retry
     ELSE Fail

ReadError == Asks /\ Fail

\* The card never answers: only a driver watches the time (waitForFinished).
Hangs ==
  /\ Asks /\ who = "driver"
  /\ pc' = "hung" /\ Return
  /\ UNCHANGED <<environment, who, reading, networks, outcome>>

DriverKills ==
  /\ pc = "hung"
  /\ End("killed")
  /\ UNCHANGED <<environment, who, reading>>

-----------------------------------------------------------------------------
(* The events of the results, one by one. *)

ExtractEvent ==
  LET events == StreamOf[kernel, air] IN
  /\ pc = "extract" /\ stream.event <= Len(events)
  /\ LET one == Extract(events[stream.event], stream, kernel[1], kernel[2])
     IN  /\ stream' = one.position
         /\ IF who = "iw_scan"
            THEN list' = Listed(one.token) /\ UNCHANGED <<shown, val_index>>
            ELSE /\ shown' = Printed(one.token)
                 /\ val_index' = ValIndex(one.token, one.position)
                 /\ UNCHANGED list
  /\ UNCHANGED <<environment, pc, who, options, asking, networks, outcome>>

ScanCompleted ==
  /\ pc = "extract" /\ stream.event > Len(StreamOf[kernel, air])
  /\ End("listed")
  /\ UNCHANGED <<environment, who, reading>>

-----------------------------------------------------------------------------
Starts == DriverScan \/ UserScan \/ LibraryScan

Steps ==
  \/ GetRange \/ SetScan \/ LibrarySetScan \/ Wakes \/ LibraryGivesUp \/ SelectFails
  \/ Interrupted \/ NoMemory \/ ResultsRead \/ TooBig \/ TryLater \/ ReadError \/ Hangs \/ DriverKills
  \/ ExtractEvent \/ ScanCompleted

Next == Starts \/ Steps

\* A program that was started is scheduled, its waits end, and QProcess kills
\* one that hangs; nobody has to scan.
Spec == Init /\ [][Next]_vars /\ WF_vars(Steps)

-----------------------------------------------------------------------------
(* Properties. *)

\* What an information element says by itself.
Advertised(ie) ==
  IF ie.parts < 0 \/ ie.id = "other" \/ (ie.id = "wpa" /\ ~ie.oui) THEN Unknown
  ELSE [known |-> TRUE,
        group |-> IF ie.parts >= 1 THEN ie.group ELSE "TKIP",
        pairwise |-> IF ie.parts >= 2 THEN ie.pairwise ELSE <<"TKIP">>,
        auth |-> IF ie.parts >= 3 THEN ie.auth ELSE <<>>,
        preauth |-> ie.parts >= 4 /\ ie.preauth]

Cells == Airs[air]

\* What a reader makes of a number and its scale, of a mode and of strengths.
Number(text) ==
  (text.number * (CASE text.scale = "G" -> Giga [] text.scale = "M" -> Mega
                    [] text.scale = "k" -> Kilo [] OTHER -> 1)) \div text.per

Read(cell) ==
  [cell EXCEPT !.freq = [k \in DOMAIN @ |-> [@[k] EXCEPT !.value = Number(@)]],
               !.rates = [k \in DOMAIN @ |-> [i \in DOMAIN @[k] |-> Number(@[k][i])]]]

ReadSaved(cell) ==
  [cell EXCEPT !.key = [k \in DOMAIN @ |-> CASE "disabled" \in @[k].flags -> "off"
                                            [] "noKey" \in @[k].flags -> "on"
                                            [] OTHER -> "key"]]

Hertz(cell) == cell.freq.m * 10 ^ cell.freq.e

\* The channel of a frequency, unless it is told as a channel.
ChannelOf(cell) ==
  LET same == {k \in DOMAIN Channels : Channels[k].m * 10 ^ Channels[k].e = Hertz(cell)}
  IN  IF same = {} \/ Hertz(cell) < Kilo THEN -1 ELSE Channels[CHOOSE k \in same : TRUE].channel

Measured(quality) ==
  [field \in {"qual", "level", "noise"} \ quality.missing |->
     IF field = "qual" \/ quality.unit = "relative"
     THEN [value |-> quality[field], unit |-> "relative"]
     ELSE [value |-> 2 * quality[field], unit |-> "dBm/2"]]

ToldByIwlist ==
  [i \in DOMAIN Cells |->
     [number |-> i, address |-> Cells[i].address,
      essid |-> IF Cells[i].visible = 0 THEN "off/any/hidden" ELSE Cells[i].essid,
      name |-> Cells[i].name,
      mode |-> IF Cells[i].mode < 7 THEN OperationModes[Cells[i].mode + 1] ELSE "Unknown/bug",
      freq |-> <<[kind |-> IF Hertz(Cells[i]) < Kilo THEN "Channel" ELSE "Frequency",
                  value |-> Hertz(Cells[i]), channel |-> ChannelOf(Cells[i]),
                  fixed |-> Cells[i].freq.fixed]>>,
      key |-> Cells[i].key,
      stats |-> <<Measured(Cells[i].quality)>>,
      rates |-> IF Cells[i].rates = <<>> THEN <<>> ELSE <<Cells[i].rates>>,
      security |-> [k \in DOMAIN Cells[i].ies |-> Advertised(Cells[i].ies[k])]]]

ToldByLibrary ==
  [i \in DOMAIN Cells |->
     [address |-> Cells[i].address, essid |-> Cells[i].essid, on |-> Cells[i].visible,
      mode |-> IF Cells[i].mode < 7 THEN Cells[i].mode ELSE 7,
      freq |-> Hertz(Cells[i]),
      key |-> <<Cells[i].key>>,
      stats |-> <<Coded(Cells[i].quality, kernel[2])>>,
      maxbitrate |-> FoldLeft(LAMBDA a, b : IF b > a THEN b ELSE a, 0, Cells[i].rates)]]

\* A scan that completes tells the cells the card found and nothing else, each
\* with its own ESSID, mode, frequency, strengths, bit rates and security, whatever the
\* layout of the kernel's events: iwlist prints all of it, a driver's scan()
\* returns the ESSIDs that are not hidden in their order, and the list of
\* iw_scan has the largest bit rate.
ScanTells ==
  outcome = "listed" =>
    /\ who # "iw_scan" => [i \in DOMAIN shown |-> Read(shown[i])] = ToldByIwlist
    /\ who = "driver" =>
         networks = SelectSeq([i \in DOMAIN Cells |-> Cells[i].essid], LAMBDA e : e # "")
    /\ who = "iw_scan" => [i \in DOMAIN list |-> ReadSaved(list[i])] = ToldByLibrary

\* Every scan ends, with its results or without them: the waits are counted
\* against the budget, the retries and the memory, and a driver kills an iwlist
\* that hangs.
ScanEnds == (pc # "idle") ~> (pc = "idle")

=============================================================================
