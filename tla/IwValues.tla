------------------------------ MODULE IwValues ------------------------------
(***************************************************************************)
(* What the library makes of the values an event carries: frequencies, bit *)
(* rates, link statistics, keys and modes (src/WirelessLib/iwtools/iwlib.c). *)
(*                                                                         *)
(* A text with a number and a scale is the number, what it is divided by,  *)
(* and the scale.  Strengths are in half dBm, so that those of IEEE        *)
(* 802.11k are whole.                                                      *)
(***************************************************************************)
EXTENDS Integers, Sequences

CONSTANTS Kilo,     \* KILO (1000)
          Channels  \* freq of struct iw_range: [m, e, channel]

ASSUME KiloAssumption == Kilo \in Nat \ {0}

Mega == Kilo * Kilo
Giga == Kilo * Mega

-----------------------------------------------------------------------------
(* Frequencies and bit rates. *)

Freq2Float(freq) == freq.m * 10 ^ freq.e

Scaled(number) ==
  CASE number >= Giga -> [number |-> number, per |-> Giga, scale |-> "G"]
    [] number \in Mega .. Giga - 1 -> [number |-> number, per |-> Mega, scale |-> "M"]
    [] OTHER -> [number |-> number, per |-> Kilo, scale |-> "k"]

PrintedFreqValue(freq) ==
  IF freq < Kilo THEN [number |-> freq, per |-> 1, scale |-> ""] ELSE Scaled(freq)

\* -1 for what is a channel already, -2 if the card has no such frequency.
FreqToChannel(freq) ==
  LET same == {k \in DOMAIN Channels : Freq2Float(Channels[k]) = freq}
  IN  IF freq < Kilo THEN -1
      ELSE IF same = {} THEN -2
      ELSE Channels[CHOOSE k \in same : \A l \in same : k <= l].channel

PrintedFreq(freq, channel, fixed) ==
  [kind |-> IF freq < Kilo THEN "Channel" ELSE "Frequency",
   value |-> PrintedFreqValue(freq),
   channel |-> IF freq >= Kilo /\ channel >= 0 THEN channel ELSE -1,
   fixed |-> fixed]

PrintedBitrate(bitrate) == Scaled(bitrate)

-----------------------------------------------------------------------------
(* Link statistics: bytes, with the flags of their field "updated". *)

\* The range of a byte in dBm is [-192; 63].
Dbm(byte) == IF byte >= 64 THEN byte - 256 ELSE byte

\* A signal or noise level: in RCPI, in dBm if a flag or the size of the
\* signal level says so, or relative to its maximum.
Level(qual, byte, maxLevel) ==
  CASE "rcpi" \in qual.flags -> [value |-> byte - 220, unit |-> "dBm/2"]
    [] "rcpi" \notin qual.flags /\ ("dbm" \in qual.flags \/ qual.level > maxLevel) ->
         [value |-> 2 * Dbm(byte), unit |-> "dBm/2"]
    [] OTHER -> [value |-> byte, unit |-> "relative"]

\* iw_print_stats, which is only called with the range: what is invalid is left
\* out, but not where the level is 0 and no flag tells what it means.
PrintedStats(qual, maxLevel) ==
  LET relative(byte) == [value |-> byte, unit |-> "relative"]
  IN  IF qual.level # 0 \/ qual.flags # {}
      THEN [field \in {"qual", "level", "noise"} \ qual.invalid |->
              IF field = "qual" THEN relative(qual.qual)
              ELSE Level(qual, qual[field], maxLevel)]
      ELSE [field \in {"qual", "level", "noise"} |-> relative(qual[field])]

-----------------------------------------------------------------------------
(* Keys and modes. *)

\* iw_print_key into a buffer of 128 bytes.
PrintedKey(key, size, noKey) ==
  CASE size * 3 > 128 -> "<too big>"
    [] size * 3 <= 128 /\ noKey -> IF size <= 0 THEN "on" ELSE "**"
    [] OTHER -> key

\* iw_operation_mode, from 0 on; the last one is for what is no mode.
OperationModes ==
  <<"Auto", "Ad-Hoc", "Managed", "Master", "Repeater", "Secondary", "Monitor", "Unknown/bug">>
NumOperMode == Len(OperationModes) - 1

PrintedMode(mode) ==
  OperationModes[(IF mode >= NumOperMode THEN NumOperMode ELSE mode) + 1]

=============================================================================
