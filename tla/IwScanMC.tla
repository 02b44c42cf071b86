------------------------------ MODULE IwScanMC ------------------------------
(* Small airs for IwScan: cells with and without an ESSID, bit rates of one  *)
(* and of several values, and information elements of every length.          *)
EXTENDS IwScan

Ie(kind, oui, parts) ==
  [id |-> kind, oui |-> oui, parts |-> parts, group |-> "CCMP",
   pairwise |-> <<"CCMP", "TKIP">>, auth |-> <<"PSK">>, preauth |-> TRUE]

Quality(unit, level, noise, missing) ==
  [qual |-> 70, unit |-> unit, level |-> level, noise |-> noise, missing |-> missing]

\* With a KILO of 10: 2412 is 2.412 G, 246 * 10 is 2.46 G, 6 is a channel.
MCChannels == <<[m |-> 2412, e |-> 0, channel |-> 1], [m |-> 2460, e |-> 0, channel |-> 11]>>

Cell(address, essid, visible, rates, ies) ==
  [address |-> address, essid |-> essid, length |-> IF essid = "" THEN 0 ELSE 4,
   visible |-> visible, name |-> "IEEE 802.11bg", mode |-> 3,
   freq |-> [m |-> 2412, e |-> 0, fixed |-> FALSE], key |-> "on",
   quality |-> Quality("dBm", -54, -104, {}), rates |-> rates, ies |-> ies]

Home(ies) == Cell("a1", "home", 1, <<110, 540, 24>>, ies)
Quiet == [Cell("a2", "", 0, <<6000>>, <<>>) EXCEPT
            !.freq = [m |-> 246, e |-> 1, fixed |-> TRUE], !.mode = 7, !.key = "off",
            !.quality = Quality("dBm", -1, -128, {"noise"})]
Blank == [Cell("a3", "", 1, <<>>, <<Ie("wpa", TRUE, 4)>>) EXCEPT
            !.freq = [m |-> 6, e |-> 0, fixed |-> FALSE], !.key = "key",
            !.quality = Quality("rcpi", -110, -30, {})]
Dim(level) == [Home(<<>>) EXCEPT !.quality = Quality("relative", level, 3, {}), !.mode = 1,
                                 !.freq = [m |-> 255, e |-> 1, fixed |-> FALSE]]

MCAirs ==
  <<<<>>, <<Dim(0), Dim(100)>>, <<Quiet, Home(<<>>)>>, <<Home(<<>>), Blank, Quiet>>,
    <<Home(<<Ie("wpa2", FALSE, 2), Ie("other", FALSE, 0), Ie("wpa", FALSE, 3)>>)>>,
    <<Blank, Blank, Blank, Home(<<Ie("wpa2", FALSE, 4), Ie("wpa", TRUE, 4)>>), Quiet>>>>
  \o [i \in 1 .. 6 |-> <<Home(<<Ie("wpa2", FALSE, i - 2)>>)>>]
  \o [i \in 1 .. 5 |-> <<Home(<<Ie("wpa", TRUE, i - 1)>>), Quiet>>]

MCKernels == {<<0, 16>>, <<0, 18>>, <<0, 22>>, <<4, 22>>, <<0, 13>>}

=============================================================================
