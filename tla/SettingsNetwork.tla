--------------------------- MODULE SettingsNetwork ---------------------------
(***************************************************************************)
(* The network page of archtitan-settings: NetworkManager, which polls nmcli     *)
(* every three seconds and starts nmcli for what the user asks.                    *)
(*                                                                          *)
(* refreshStatus runs nmcli several times and waits for each; the network goes    *)
(* on in between.  What started detached finishes at any time.  Addresses, link    *)
(* speeds, the wired interface and the saved networks are read the same way as      *)
(* the name of the network and are left out.  An nmcli that fails or is late shows    *)
(* as no network and as a radio that is off.                                          *)
(***************************************************************************)
EXTENDS Integers, Sequences

CONSTANTS
  InReach,     \* the networks in reach
  MaxAsks    \* bound on what the user asks for

VARIABLES
  radio,      \* whether the wireless interface is on
  joined,     \* the network it is connected to, or NoNetwork
  detached,   \* the nmcli commands started and not yet run
  polling,    \* where refreshStatus is: "no", "ssid" or "radio"
  panel,      \* [wifi, ssid, ping]: m_wifiEnabled, m_connectedSsid, m_pingMs
  connecting, \* m_connectingSsid, or NoNetwork when m_isConnecting is false
  scan,       \* m_isScanning
  rescan,     \* the timer of setWifiEnabled that will scan
  test,       \* m_isSpeedTestRunning
  ping,       \* m_isCheckingPing, with a ping in flight
  answering,  \* nmcli answers in time from now on
  asks        \* number of requests of the user

netVars == <<radio, joined, detached, polling, panel, connecting, scan, rescan, test, ping,
             answering, asks>>
airVars == <<radio, joined>>
toolVars == <<scan, rescan, test, ping, answering>>

NoNetwork == "none"
Networks == InReach \cup {NoNetwork}

\* What a read shows: the truth, or what an nmcli that fails or is late leaves.
Answers(truth, unread) == IF answering THEN {truth} ELSE {truth, unread}

\* The constructor reads the state and scans.
NetInit ==
  /\ answering = FALSE
  /\ radio \in BOOLEAN /\ joined \in IF radio THEN Networks ELSE {NoNetwork}
  /\ detached = <<>> /\ polling = "no"
  /\ \E ssid \in Answers(joined, NoNetwork), wifi \in Answers(radio, FALSE) :
       panel = [wifi |-> wifi, ssid |-> ssid, ping |-> FALSE]
  /\ connecting = NoNetwork
  /\ scan = TRUE /\ rescan = FALSE /\ test = FALSE /\ ping = FALSE
  /\ asks = 0

\* A handler starts only between handlers.
Asks == polling = "no" /\ asks < MaxAsks /\ asks' = asks + 1

\* The timer, or a handler that ends in refreshStatus.
Refresh == polling' = "ssid"

Poll == polling = "no" /\ Refresh
        /\ UNCHANGED <<airVars, detached, panel, connecting, toolVars, asks>>

ReadsSsid ==
  /\ polling = "ssid" /\ polling' = "radio"
  /\ \E ssid \in Answers(joined, NoNetwork) : panel' = [panel EXCEPT !.ssid = ssid]
  /\ UNCHANGED <<airVars, detached, connecting, toolVars, asks>>

ReadsRadio ==
  /\ polling = "radio" /\ polling' = "no"
  /\ \E wifi \in Answers(radio, FALSE) : panel' = [panel EXCEPT !.wifi = wifi]
  /\ UNCHANGED <<airVars, detached, connecting, toolVars, asks>>

\* setWifiEnabled: shown at once, done by a detached nmcli; a scan follows.
SetWifiEnabled ==
  /\ Asks
  /\ panel' = [panel EXCEPT !.wifi = ~@]
  /\ detached' = Append(detached, IF panel.wifi THEN "off" ELSE "on")
  /\ rescan' = TRUE
  /\ UNCHANGED <<airVars, polling, connecting, scan, test, ping, answering>>

\* connectToNetwork: one at a time.
PageConnects(ssid) ==
  /\ Asks /\ connecting = NoNetwork
  /\ connecting' = ssid
  /\ UNCHANGED <<airVars, detached, polling, panel, toolVars>>

\* Were a failure to leave the page waiting.
ConnectedWaiting ==
  /\ polling = "no" /\ connecting # NoNetwork
  /\ radio /\ joined' = connecting /\ Refresh
  /\ connecting' = NoNetwork
  /\ UNCHANGED <<radio, detached, panel, toolVars, asks>>

\* Its nmcli ends: the network is joined, or not, and only success is followed by a refresh.
Connected ==
  /\ polling = "no" /\ connecting # NoNetwork
  /\ connecting' = NoNetwork
  /\ \/ radio /\ joined' = connecting /\ Refresh
     \/ UNCHANGED <<joined, polling>>
  /\ UNCHANGED <<radio, detached, panel, toolVars, asks>>

\* disconnectNetwork: nmcli is detached and the state read at once, when it may still be old.
PageDisconnects ==
  /\ Asks
  /\ detached' = Append(detached, "disconnect")
  /\ panel' = [panel EXCEPT !.ssid = NoNetwork]
  /\ Refresh
  /\ UNCHANGED <<airVars, connecting, toolVars>>

\* forgetNetwork of the network in use.
ForgetNetwork ==
  /\ Asks
  /\ detached' = Append(detached, "forget")
  /\ UNCHANGED <<airVars, polling, panel, connecting, toolVars>>

\* A command runs, in any order, and the connection drops with the radio.  The end of the
\* one of forgetNetwork is awaited by a handler, which refreshes and scans.
DetachedRuns(i) ==
  /\ detached' = [j \in 1..Len(detached) - 1 |-> detached[IF j < i THEN j ELSE j + 1]]
  /\ radio' = CASE detached[i] = "on" -> TRUE [] detached[i] = "off" -> FALSE
                [] OTHER -> radio
  /\ joined' = IF radio' /\ detached[i] \in {"on", "off"} THEN joined ELSE NoNetwork
  /\ IF detached[i] = "forget" THEN polling = "no" /\ Refresh /\ scan' = TRUE
     ELSE UNCHANGED <<polling, scan>>
  /\ UNCHANGED <<panel, connecting, rescan, test, ping, answering, asks>>

\* scanNetworks, from the timer: one scan at a time.
Rescans ==
  /\ polling = "no" /\ rescan /\ rescan' = FALSE /\ scan' = TRUE
  /\ UNCHANGED <<airVars, detached, polling, panel, connecting, test, ping, answering, asks>>

ScanFinishes ==
  /\ polling = "no" /\ scan /\ scan' = FALSE
  /\ UNCHANGED <<airVars, detached, polling, panel, connecting, rescan, test, ping, answering, asks>>

\* toggleSpeedTest: the values are cleared when the test stops.
ToggleSpeedTest ==
  /\ Asks /\ test' = ~test
  /\ panel' = IF test THEN [panel EXCEPT !.ping = FALSE] ELSE panel
  /\ UNCHANGED <<airVars, detached, polling, connecting, scan, rescan, ping, answering>>

\* updateSpeedAndPing: one ping at a time, and its answer is shown whenever it comes.
PingStarts ==
  /\ polling = "no" /\ test /\ ~ping /\ panel.ssid # NoNetwork /\ ping' = TRUE
  /\ UNCHANGED <<airVars, detached, polling, panel, connecting, scan, rescan, test, answering, asks>>

PingEnds ==
  /\ polling = "no" /\ ping /\ ping' = FALSE
  /\ \E answered \in BOOLEAN : panel' = [panel EXCEPT !.ping = answered]
  /\ UNCHANGED <<airVars, detached, polling, connecting, scan, rescan, test, answering, asks>>

\* NetworkManager is not under load any more.
AnswersFromNow ==
  /\ ~answering /\ answering' = TRUE
  /\ UNCHANGED <<airVars, detached, polling, panel, connecting, scan, rescan, test, ping, asks>>

\* The network goes out of reach.
SignalLost ==
  /\ joined # NoNetwork /\ asks < MaxAsks /\ asks' = asks + 1
  /\ joined' = NoNetwork
  /\ UNCHANGED <<radio, detached, polling, panel, connecting, toolVars>>

NetNext ==
  \/ Poll \/ ReadsSsid \/ ReadsRadio \/ SetWifiEnabled \/ Connected \/ PageDisconnects
  \/ ForgetNetwork \/ Rescans \/ ScanFinishes \/ ToggleSpeedTest \/ PingStarts \/ PingEnds
  \/ SignalLost \/ AnswersFromNow
  \/ \E ssid \in InReach : PageConnects(ssid)
  \/ \E i \in DOMAIN detached : DetachedRuns(i)

\* The timers fire, and every process that was started ends.
NetFairness ==
  /\ WF_netVars(Poll)
  /\ WF_netVars(ReadsSsid \/ ReadsRadio)
  /\ SF_netVars(Connected \/ ScanFinishes \/ \E i \in DOMAIN detached : DetachedRuns(i))

NetSpec == NetInit /\ [][NetNext]_netVars /\ NetFairness

-----------------------------------------------------------------------------
\* Properties

\* When the user stops asking and nmcli answers in time, the page comes to show the radio and
\* the network as they are: a read that failed, an early read of refreshStatus and a switch
\* shown before it is done do not last.  And in any case it waits for no connection and no
\* scan (refreshStatus, setWifiEnabled, connectToNetwork, disconnectNetwork).
NetworkShown ==
  <>[](/\ answering => panel.wifi = radio /\ panel.ssid = joined
       /\ connecting = NoNetwork /\ ~scan)
=============================================================================
