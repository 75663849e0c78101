---------------------------- MODULE QuickRadios ----------------------------
(***************************************************************************)
(* The radios in titan-quicksettings: NetworkController, BluetoothController  *)
(* and the airplane mode of SystemController.                                *)
(*                                                                          *)
(* A switch changes what is shown at once and starts a command nobody waits   *)
(* for; timers read the true state back.  Commands started together run in     *)
(* any order.  The radios, NetworkManager and BlueZ (`air`) are external: a    *)
(* radio is on when rfkill does not block it, and nmcli switches the Wi-Fi     *)
(* radio through rfkill.  A read that does not answer in time leaves the       *)
(* member as it was, one that fails reads off or nothing, and a change between *)
(* two reads of one handler comes to one of these.                            *)
(***************************************************************************)
EXTENDS Integers, SequencesExt

CONSTANTS
  Machines,     \* the sets of radios a machine may have
  SSIDs,        \* the networks in range
  Scans,        \* the outputs of nmcli dev wifi list: sequences of [ssid, signal, inUse]
  MaxInFlight   \* bound on the commands, the scan and the connection started and not ended

VARIABLES
  air,          \* the truth: [hardware, blocked, powered, ssid, device]
  radios,       \* the members of the controllers
  radioCmds,    \* the commands started and not run
  radiosCalm    \* nobody touches the panel or the radios any more

radiosVars == <<air, radios, radioCmds, radiosCalm>>

WifiOn(a) == "wifi" \notin a.blocked
BtOn(a)   == a.powered /\ "bluetooth" \in a.hardware \ a.blocked

\* What rfkill list says is blocked.
SoftBlocked(a) == a.blocked \cap a.hardware

-----------------------------------------------------------------------------
\* NetworkController

\* What a command reads: the truth, or with a disturbance one of the others.
Outcomes(truth, others) == IF radiosCalm THEN {truth} ELSE {truth} \cup others

WifiReads(a) == Outcomes(WifiOn(a), {radios.wifi, FALSE})
NameReads(a) == Outcomes(a.ssid, {""})

\* `on` and `name` are what the reads come to.
QueryStatusKeeping(r, on, name) ==
  IF ~on THEN [r EXCEPT !.wifi = FALSE, !.ssid = "Disabled"]
  ELSE IF name # "" THEN [r EXCEPT !.wifi = TRUE, !.connected = TRUE, !.ssid = name]
  ELSE [r EXCEPT !.wifi = TRUE, !.ssid = "Not connected"]

QueryStatus(r, on, name) ==
  IF ~on THEN [r EXCEPT !.wifi = FALSE, !.connected = FALSE, !.ssid = "Disabled"]
  ELSE IF name # "" THEN [r EXCEPT !.wifi = TRUE, !.connected = TRUE, !.ssid = name]
  ELSE IF r.ssid # "Not connected"
  THEN [r EXCEPT !.wifi = TRUE, !.connected = FALSE, !.ssid = "Not connected"]
  ELSE [r EXCEPT !.wifi = TRUE]

\* One entry for each name: the strongest line, or a later one in use.
ParseWifiList(lines) ==
  LET Keep(entries, line) ==
        LET old == {e \in entries : e.ssid = line.ssid}
        IN IF old = {} \/ line.inUse \/ \E e \in old : line.signal > e.signal
           THEN (entries \ old) \cup {line} ELSE entries
      Before(a, b) == IF a.inUse # b.inUse THEN a.inUse ELSE a.signal > b.signal
  IN SetToSortSeq(FoldLeft(Keep, {}, lines), Before)

ScanNetworks(r) == IF r.scanning \/ ~r.wifi THEN r ELSE [r EXCEPT !.scanning = TRUE]

-----------------------------------------------------------------------------
\* BluetoothController and the airplane mode

QueryBluetooth(r, on, device) ==
  IF ~on THEN [r EXCEPT !.powered = FALSE, !.btConnected = FALSE]
  ELSE [r EXCEPT !.powered = TRUE, !.btConnected = device # ""]

\* Any soft block counts, and no answer is none.
AirplaneReads == Outcomes(SoftBlocked(air) # {}, {radios.airplane, FALSE})

-----------------------------------------------------------------------------
\* Actions

InFlight(r, cmds) == Cardinality(cmds) + Cardinality({p \in {"scanning", "connecting"} : r[p]})

\* Starting a command that is under way already makes no other order possible.
StartProcess(cmd) ==
  /\ radioCmds' = radioCmds \cup {cmd}
  /\ InFlight(radios, radioCmds') <= MaxInFlight

RadiosInit ==
  /\ \E h \in Machines :
       air = [hardware |-> h, blocked |-> {}, powered |-> TRUE, ssid |-> "", device |-> ""]
  /\ radios = [wifi |-> TRUE, connected |-> FALSE, ssid |-> "Not connected",
               scanning |-> FALSE, connecting |-> FALSE, list |-> <<>>, powered |-> TRUE,
               btConnected |-> FALSE, airplane |-> FALSE]
  /\ radioCmds = {} /\ radiosCalm = FALSE

NetworkPoll ==
  /\ \E on \in WifiReads(air), name \in NameReads(air) : radios' = QueryStatus(radios, on, name)
  /\ UNCHANGED <<air, radioCmds, radiosCalm>>

BluetoothPoll ==
  /\ \E on \in Outcomes(BtOn(air), {radios.powered, FALSE}), device \in Outcomes(air.device, {""}) :
       radios' = QueryBluetooth(radios, on, device)
  /\ UNCHANGED <<air, radioCmds, radiosCalm>>

UpdateAirplaneMode ==
  /\ \E blocked \in AirplaneReads : radios' = [radios EXCEPT !.airplane = blocked]
  /\ UNCHANGED <<air, radioCmds, radiosCalm>>

ToggleWifi ==
  /\ ~radiosCalm
  /\ radios' = [radios EXCEPT !.wifi = ~@]
  /\ StartProcess(<<"radio", ~radios.wifi>>)
  /\ UNCHANGED <<air, radiosCalm>>

ToggleBluetooth ==
  /\ ~radiosCalm
  /\ radios' = [radios EXCEPT !.powered = ~@]
  /\ StartProcess(<<"power", ~radios.powered>>)
  /\ UNCHANGED <<air, radiosCalm>>

ToggleAirplaneMode ==
  /\ ~radiosCalm
  /\ radios' = [radios EXCEPT !.airplane = ~@]
  /\ StartProcess(<<"block", ~radios.airplane>>)
  /\ UNCHANGED <<air, radiosCalm>>

\* NetworkController::refresh, when the list is opened, and the one-shot timer of
\* disconnectNetwork, which does the same.
RefreshNetworks ==
  /\ ~radiosCalm
  /\ \E on \in WifiReads(air), name \in NameReads(air) :
       radios' = ScanNetworks(QueryStatus(radios, on, name))
  /\ InFlight(radios', radioCmds) <= MaxInFlight
  /\ UNCHANGED <<air, radioCmds, radiosCalm>>

ScanFinished ==
  /\ radios.scanning
  /\ \/ \E lines \in Scans :
          radios' = [radios EXCEPT !.scanning = FALSE, !.list = ParseWifiList(lines)]
     \/ radios' = [radios EXCEPT !.scanning = FALSE]
  /\ UNCHANGED <<air, radioCmds, radiosCalm>>

ConnectToNetwork ==
  /\ ~radiosCalm /\ ~radios.connecting
  /\ radios' = [radios EXCEPT !.connecting = TRUE]
  /\ InFlight(radios', radioCmds) <= MaxInFlight
  /\ UNCHANGED <<air, radioCmds, radiosCalm>>

\* nmcli ends: connected, or not.
ConnectFinished ==
  /\ radios.connecting
  /\ LET done == [radios EXCEPT !.connecting = FALSE]
     IN \/ \E ssid \in SSIDs :
             /\ "wifi" \in air.hardware \ air.blocked
             /\ air' = [air EXCEPT !.ssid = ssid]
             /\ \E on \in WifiReads(air), name \in Outcomes(ssid, {""}) :
                  radios' = ScanNetworks(QueryStatus(done, on, name))
        \/ radios' = done /\ air' = air
  /\ UNCHANGED <<radioCmds, radiosCalm>>

\* The timer it starts is RefreshNetworks.
DisconnectNetwork ==
  /\ ~radiosCalm
  /\ StartProcess(IF radios.connected THEN <<"down", radios.ssid>> ELSE <<"disconnect", "">>)
  /\ UNCHANGED <<air, radios, radiosCalm>>

\* External: a radio that is off loses its connections.
Settled(a) ==
  [a EXCEPT !.ssid = IF "wifi" \in a.hardware \ a.blocked THEN @ ELSE "",
            !.device = IF BtOn(a) THEN @ ELSE ""]

\* External: a command runs.
CommandRuns(cmd) ==
  /\ radioCmds' = radioCmds \ {cmd}
  /\ air' = Settled(
       CASE cmd[1] = "radio" -> [air EXCEPT !.blocked = IF cmd[2] THEN @ \ {"wifi"} ELSE @ \cup {"wifi"}]
         [] cmd[1] = "power" -> [air EXCEPT !.powered = cmd[2]]
         [] cmd[1] = "block" -> [air EXCEPT !.blocked = IF cmd[2] THEN @ \cup air.hardware ELSE @ \ air.hardware]
         [] cmd[1] = "down"  -> [air EXCEPT !.ssid = IF @ = cmd[2] THEN "" ELSE @]
         [] cmd[1] = "disconnect" -> [air EXCEPT !.ssid = ""])
  /\ UNCHANGED <<radios, radiosCalm>>

\* External: a network or a device comes or goes by itself.
AirChanges ==
  /\ ~radiosCalm
  /\ \/ \E ssid \in SSIDs \cup {""} : air' = Settled([air EXCEPT !.ssid = ssid])
     \/ air' = Settled([air EXCEPT !.device = IF @ = "" THEN "device" ELSE ""])
  /\ UNCHANGED <<radios, radioCmds, radiosCalm>>

RadiosSettle ==
  /\ ~radiosCalm /\ radiosCalm' = TRUE
  /\ UNCHANGED <<air, radios, radioCmds>>

RadiosNext ==
  \/ NetworkPoll \/ BluetoothPoll \/ UpdateAirplaneMode
  \/ ToggleWifi \/ ToggleBluetooth \/ ToggleAirplaneMode
  \/ RefreshNetworks \/ ScanFinished \/ ConnectToNetwork \/ ConnectFinished
  \/ DisconnectNetwork
  \/ \E cmd \in radioCmds : CommandRuns(cmd)
  \/ AirChanges \/ RadiosSettle

\* The timers go off, and the processes that were started end.
RadiosFairness ==
  /\ WF_radiosVars(NetworkPoll) /\ WF_radiosVars(BluetoothPoll)
  /\ WF_radiosVars(UpdateAirplaneMode) /\ WF_radiosVars(ConnectFinished)
  /\ WF_radiosVars(\E cmd \in radioCmds : CommandRuns(cmd))

RadiosSpec == RadiosInit /\ [][RadiosNext]_radiosVars /\ RadiosFairness

-----------------------------------------------------------------------------
\* Properties

ShowsTheTruth ==
  /\ radios.wifi = WifiOn(air)
  /\ radios.connected = (air.ssid # "")
  /\ radios.connected => radios.ssid = air.ssid
  /\ radios.powered = BtOn(air) /\ radios.btConnected = (air.device # "")
  /\ radios.airplane = (SoftBlocked(air) # {})

\* When nobody touches the panel or the radios any more, the panel ends up showing the
\* truth for good, whatever order the commands of its switches ran in (queryStatus,
\* toggleWifi, toggleBluetooth, setAirplaneMode, updateAirplaneMode).
RadiosConverge == <>[](radiosCalm => ShowsTheTruth)
=============================================================================
