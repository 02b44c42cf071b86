------------------------------ MODULE IwEvents ------------------------------
(***************************************************************************)
(* The stream of events in which the kernel hands over the results of a    *)
(* wireless scan, and the extraction of one event from it                  *)
(* (iw_extract_event_stream of src/WirelessLib/iwtools/iwlib.c).           *)
(*                                                                         *)
(* An event of the stream is a record: its command, and either the values  *)
(* of a fixed size it carries, one after the other, or a payload with the  *)
(* number of its tokens and its flags.  What the extraction computes with  *)
(* is kept in bytes: the advertised length of an event, the place its      *)
(* values start at, and the padding a 64 bit kernel adds for a 32 bit      *)
(* program.  A place that is not the start of a value reads as Misread.    *)
(***************************************************************************)
EXTENDS Integers, Sequences, FiniteSets

Garbage == "garbage"
Misread == [char |-> Garbage, addr |-> Garbage, uint |-> 0, param |-> 0,
            freq |-> [m |-> 0, e |-> 0, fixed |-> FALSE],
            qual |-> [qual |-> 0, level |-> 0, noise |-> 0, flags |-> {}, invalid |-> {}]]
NoPayload == "no payload"

-----------------------------------------------------------------------------
(* What the library knows of the commands. *)

\* The header type of each command: one set of commands per type.
NullCommands == {"SIOCSIWCOMMIT", "SIOCSIWRANGE", "SIOCSIWPRIV", "SIOCGIWPRIV",
                 "SIOCSIWSTATS", "SIOCGIWSTATS"}
ParamCommands == {"SIOCSIWNWID", "SIOCGIWNWID", "SIOCSIWSENS", "SIOCGIWSENS",
                  "SIOCSIWRATE", "SIOCGIWRATE", "SIOCSIWRTS", "SIOCGIWRTS",
                  "SIOCSIWFRAG", "SIOCGIWFRAG", "SIOCSIWTXPOW", "SIOCGIWTXPOW",
                  "SIOCSIWRETRY", "SIOCGIWRETRY", "SIOCSIWPOWER", "SIOCGIWPOWER",
                  "SIOCSIWMODUL", "SIOCGIWMODUL", "SIOCSIWAUTH", "SIOCGIWAUTH"}
AddressCommands == {"SIOCSIWAP", "SIOCGIWAP",
                    "IWEVTXDROP", "IWEVREGISTERED", "IWEVEXPIRED"}
\* Of the commands with a payload: the fewest and the most tokens of one byte,
\* where a scan may report them.
PointTokens == [SIOCGIWESSID |-> <<0, 33>>, SIOCGIWENCODE |-> <<0, 64>>,
                IWEVCUSTOM |-> <<0, 256>>, IWEVGENIE |-> <<0, 1024>>]

HeaderType(cmd) ==
  CASE cmd = "SIOCGIWNAME" -> "char"
    [] cmd \in {"SIOCSIWMODE", "SIOCGIWMODE"} -> "uint"
    [] cmd \in {"SIOCSIWFREQ", "SIOCGIWFREQ"} -> "freq"
    [] cmd \in ParamCommands -> "param"
    [] cmd \in AddressCommands -> "addr"
    [] cmd = "IWEVQUAL" -> "qual"
    [] cmd \in DOMAIN PointTokens -> "point"
    [] OTHER -> "null"

\* The size of an event's header, and of one value of each type behind it.
Lcp == 4
ValueSize == [char |-> 16, uint |-> 4, freq |-> 8, addr |-> 16,
              point |-> 4, param |-> 8, qual |-> 4]
\* IW_EV_POINT_OFF of a 32 bit program: the pointer that an event with a
\* payload still holds up to version 18 of the Wireless Extensions.
PointOffset == 4

\* event_len without the header: the fixed part of an event.
FixedPart(cmd, version) ==
  ValueSize[HeaderType(cmd)]
    + (IF HeaderType(cmd) = "point" /\ version <= 18 THEN PointOffset ELSE 0)

-----------------------------------------------------------------------------
(* How the kernel lays an event out: external to the library. *)

IsPoint(e) == HeaderType(e.cmd) = "point"

\* A 64 bit kernel aligns what follows the header, and a payload once more.
EventLength(e, pad, version) ==
  CASE IsPoint(e) -> Lcp + FixedPart(e.cmd, version) + 2 * pad + e.length
    [] HeaderType(e.cmd) = "null" -> Lcp + e.length
    [] OTHER -> Lcp + pad + Len(e.values) * ValueSize[HeaderType(e.cmd)]

\* The value of a fixed size that starts at a place of the event.
ValueAt(e, place, pad) ==
  LET size == ValueSize[HeaderType(e.cmd)]
      offset == place - Lcp - pad
  IN  IF offset >= 0 /\ offset % size = 0 /\ offset \div size < Len(e.values)
      THEN e.values[offset \div size + 1]
      ELSE Misread[HeaderType(e.cmd)]

\* The number of tokens and the flags, two words that start at a place; the
\* padding is zero.
PointAt(e, place, pad) ==
  IF place = Lcp + pad
  THEN [length |-> e.length, flags |-> e.flags]
  ELSE [length |-> 0, flags |-> 0]

PayloadAt(e, place, pad, version) ==
  IF place = Lcp + FixedPart(e.cmd, version) + 2 * pad THEN e.payload ELSE Garbage

-----------------------------------------------------------------------------
(* iw_extract_event_stream.  The position in the stream is the number of the  *)
(* event and the place of the next value in it, zero for the first one.       *)

AtStart == [event |-> 1, value |-> 0]
NextEvent(position) == [event |-> position.event + 1, value |-> 0]

\* An event with a payload: when the advertised number of tokens is not what
\* the event carries, and the word behind it is, an alignment of four bytes is
\* skipped before the number and again behind it; a payload that is not there,
\* or not of a length the command allows, is discarded.
PointEvent(e, pad, version) ==
  LET fixed == FixedPart(e.cmd, version)
      extra == EventLength(e, pad, version) - (fixed + Lcp)
      first == PointAt(e, Lcp, pad)
      aligned == PointAt(e, Lcp + fixed, pad).length
      skip == first.length # extra /\ extra >= 4 /\ aligned + 8 = extra
      point == IF skip THEN PointAt(e, Lcp + 4, pad) ELSE first
      place == Lcp + fixed + (IF skip THEN 8 ELSE 0)
      tokens == PointTokens[e.cmd]
      kept == /\ extra > 0
              /\ point.length <= extra
              /\ point.length \in tokens[1] .. tokens[2]
  IN  [cmd |-> e.cmd, length |-> point.length, flags |-> point.flags,
       payload |-> IF kept THEN PayloadAt(e, place, pad, version) ELSE NoPayload]

\* Mutant: the mode and the quality, whose values are as long as the padding,
\* are not looked at.
AlignedByRemainder(e, length) ==
  LET size == ValueSize[HeaderType(e.cmd)] IN (length - Lcp) % size = 4

\* The event is one of a 64 bit kernel: the remainder of its length says so.
Aligned(e, length) ==
  LET size == ValueSize[HeaderType(e.cmd)]
  IN  \/ (length - Lcp) % size = 4
      \/ length = 12 /\ HeaderType(e.cmd) \in {"uint", "qual"}

\* An event of values of a fixed size: one value per call, as long as another
\* one fits.
ValueEvent(e, position, pad, version) ==
  LET size == ValueSize[HeaderType(e.cmd)]
      length == EventLength(e, pad, version)
      place == IF position.value # 0 THEN position.value
               ELSE IF Aligned(e, length) THEN Lcp + 4 ELSE Lcp
  IN  [token |-> [cmd |-> e.cmd, value |-> ValueAt(e, place, pad)],
       position |-> IF place + 2 * size <= length
                    THEN [position EXCEPT !.value = place + size]
                    ELSE NextEvent(position)]

\* An event of an unknown type is returned as its header alone.
Extract(e, position, pad, version) ==
  CASE HeaderType(e.cmd) = "null" ->
         [token |-> [cmd |-> e.cmd], position |-> NextEvent(position)]
    [] HeaderType(e.cmd) = "point" ->
         [token |-> PointEvent(e, pad, version), position |-> NextEvent(position)]
    [] OTHER -> ValueEvent(e, position, pad, version)

=============================================================================
