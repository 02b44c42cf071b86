---------------------------- MODULE WifiControl ----------------------------
(***************************************************************************)
(* The WiFi of the device: the button that asks for the access point        *)
(* (WiCamGPIO), the switch between access point and client                  *)
(* (WifiModeChanger), and the drivers that join a network (WirelessLib).    *)
(*                                                                         *)
(* The device's programs are external: what is kept of them is which of     *)
(* them run and the network the station is in.  Each command line the code  *)
(* waits for is a step of its caller.                                       *)
(***************************************************************************)
EXTENDS Naturals

CONSTANTS
    Networks,   \* the networks settings may name
    PressTime   \* WIFI_BUTTON_PRESS_ACTIVATE_TIME_MS in readings of the button

ASSUME PressTimeAssumption == PressTime \in Nat \ {0}

VARIABLES
    m_wifiButton,
    m_wifiRequested,
    age,        \* readings since m_wifiButtonTimeStamp, on the wall clock; 0
                \* while m_wifiButton is down and nothing looks at it
    requests,   \* history: requests for the access point in this press
    driver,     \* the driver _detectDriver finds
    station,    \* the network the device is in as a client
    hostapd,    \* the access point runs
    dnsmasq     \* the access point's DHCP server runs

buttonVars == <<m_wifiButton, m_wifiRequested, age, requests>>
deviceVars == <<driver, station, hostapd, dnsmasq>>
wifiVars   == <<buttonVars, deviceVars>>

NoNetwork == "none"
Drivers   == {"nmcli", "nmcli0990", "wpa_supplicant"}

\* The constructor sets the time stamp and m_wifiRequested, not m_wifiButton.
ButtonInit(pressed) ==
    /\ m_wifiButton = pressed /\ m_wifiRequested = FALSE
    /\ age = 0 /\ requests = 0

ButtonRestart(pressed) ==
    /\ m_wifiButton' = pressed /\ m_wifiRequested' = FALSE
    /\ age' = 0 /\ requests' = 0

DeviceInit ==
    /\ driver \in Drivers /\ station \in Networks \cup {NoNetwork}
    /\ hostapd = FALSE /\ dnsmasq = FALSE

-----------------------------------------------------------------------------
(* onInputTimerTimeout.  The wall clock advances by elapsed readings, which  *)
(* is 1 unless the clock is set or the main thread was held up.              *)

Capped(n, bound) == IF n > bound THEN bound ELSE n
Older(elapsed)   == Capped(age + elapsed, PressTime)

\* Mutant: the request is remembered in m_wifiButton alone.
PressedLongForgetting(elapsed) ==
    /\ m_wifiButton /\ Older(elapsed) >= PressTime /\ ~m_wifiRequested
    /\ m_wifiButton' = FALSE /\ UNCHANGED m_wifiRequested
    /\ age' = 0
    /\ requests' = Capped(requests + 1, 2)

\* emit wifiHotspotRequested()
PressedLong(elapsed) ==
    /\ m_wifiButton /\ Older(elapsed) >= PressTime /\ ~m_wifiRequested
    /\ m_wifiButton' = FALSE /\ m_wifiRequested' = TRUE
    /\ age' = 0
    /\ requests' = Capped(requests + 1, 2)

PressedOn(elapsed) ==
    /\ m_wifiButton /\ (Older(elapsed) < PressTime \/ m_wifiRequested)
    /\ age' = Older(elapsed)
    /\ UNCHANGED <<m_wifiButton, m_wifiRequested, requests>>

PressedNow ==
    /\ ~m_wifiButton
    /\ m_wifiButton' = TRUE /\ age' = 0
    /\ UNCHANGED <<m_wifiRequested, requests>>

Released ==
    /\ m_wifiButton' = FALSE /\ m_wifiRequested' = FALSE
    /\ age' = 0 /\ requests' = 0

-----------------------------------------------------------------------------
(* changeWifiMode(CLIENT_MODE) and Wireless::connect.                       *)

StopAccessPoint ==
    /\ hostapd' = FALSE /\ dnsmasq' = FALSE
    /\ UNCHANGED <<driver, station>>

\* WpasupplicantWireless: killall wpa_supplicant, ifconfig up
KillSupplicant ==
    /\ driver = "wpa_supplicant"
    /\ station' = NoNetwork

\* NmcliWireless deletes the connection it is in, if no command times out.
CleanConnection ==
    /\ driver = "nmcli"
    /\ station' \in {NoNetwork, station}

\* So does Nmcli0990Wireless, with the commands of the newer nmcli.
CleanConnection0990 ==
    /\ driver = "nmcli0990"
    /\ station' \in {NoNetwork, station}

LeaveNetwork ==
    /\ KillSupplicant \/ CleanConnection \/ CleanConnection0990
    /\ UNCHANGED <<driver, hostapd, dnsmasq>>

\* The file cannot be written, the command times out, or the network refuses.
JoinFails == UNCHANGED deviceVars

Join(ssid) ==
    /\ station' = ssid
    /\ UNCHANGED <<driver, hostapd, dnsmasq>>

-----------------------------------------------------------------------------
(* changeWifiMode(ACCESS_POINT_MODE), between its three configuration files. *)

\* Mutant: the station is left alone.
KillStationNot == UNCHANGED deviceVars

\* killall wpa_supplicant, ifconfig down
KillStation ==
    /\ station' = NoNetwork
    /\ UNCHANGED <<driver, hostapd, dnsmasq>>

StartHostapd ==
    /\ hostapd' = TRUE
    /\ UNCHANGED <<driver, station, dnsmasq>>

\* The command is "/etc/init.d/dnsmaq restart": there is no such program.
RestartDnsmasq == UNCHANGED deviceVars

=============================================================================
