---------------------------- MODULE MCSettling ----------------------------
(***************************************************************************)
(* Programs for TLC: what they come to.  One of them runs in each behaviour, *)
(* as in MCPrograms.                                                        *)
(***************************************************************************)
EXTENDS QuickRadios, QuickSession, MediaHud, ThemeState, SettingsPower, SettingsNetwork, Telemetry,
        SettingsAudio, Sysmon, WorkspaceHud

VARIABLE program

settlingVars == <<radiosVars, sessionVars, mediaVars, themeVars, powerVars, netVars,
                  telemetryVars, audioVars, sysmonVars, hudVars, program>>

NoScan == {<<>>}
Cores  == {{1, 2}, {2}}
Hybrid == [cpu |-> 40, amd |-> 60, other |-> 75, zone |-> 45, nvidia |-> 90]
Boards == {Hybrid, [cpu |-> 0, amd |-> 0, other |-> 0, zone |-> 72, nvidia |-> 60]}
Calm   == [avg10 |-> 3, swap |-> 1]
Loads  == {Calm, [avg10 |-> 25, swap |-> 0]}
Songs  == {[title |-> "a", art |-> "x"], [title |-> "b", art |-> "file"]}

Programs == {"radios", "session", "media", "theme", "power", "network", "telemetry", "audio", "sysmon", "hud"}

\* The network page is not made.
NoPage ==
  /\ radio = FALSE /\ joined = NoNetwork /\ detached = <<>> /\ polling = "no"
  /\ panel = [wifi |-> radio, ssid |-> joined, ping |-> FALSE] /\ connecting = NoNetwork
  /\ scan = FALSE /\ rescan = FALSE /\ test = FALSE /\ ping = FALSE
  /\ answering = FALSE /\ asks = 0

SettlingInit ==
  /\ program \in Programs
  /\ RadiosInit /\ SessionInit /\ MediaInit /\ ThemeInit /\ SettingsInit /\ TelemetryInit
  /\ AudioInit /\ SysmonInit /\ HudInit
  /\ IF program = "network" THEN NetInit ELSE NoPage
  /\ box.online = {1, 2} /\ box.sensors = Hybrid /\ box.memory = Calm
  /\ program = "audio" \/ audio.unread = {}
  /\ program = "power" \/ (active = "balanced" /\ panelProfile = active)

Alone(p) ==
  /\ program = p /\ UNCHANGED program
  /\ IF p = "radios" THEN TRUE ELSE UNCHANGED radiosVars
  /\ IF p = "session" THEN TRUE ELSE UNCHANGED sessionVars
  /\ IF p = "media" THEN TRUE ELSE UNCHANGED mediaVars
  /\ IF p = "theme" THEN TRUE ELSE UNCHANGED themeVars
  /\ IF p = "power" THEN TRUE ELSE UNCHANGED powerVars
  /\ IF p = "network" THEN TRUE ELSE UNCHANGED netVars
  /\ IF p = "telemetry" THEN TRUE ELSE UNCHANGED telemetryVars
  /\ IF p = "audio" THEN TRUE ELSE UNCHANGED audioVars
  /\ IF p = "sysmon" THEN TRUE ELSE UNCHANGED sysmonVars
  /\ IF p = "hud" THEN TRUE ELSE UNCHANGED hudVars

SettlingNext ==
  \/ Alone("radios") /\ RadiosNext
  \/ Alone("session") /\ SessionNext
  \/ Alone("media") /\ MediaNext
  \/ Alone("theme") /\ ThemeNext
  \/ Alone("power") /\ SettingsNext
  \/ Alone("network") /\ NetNext
  \/ Alone("telemetry") /\ TelemetryNext
  \/ Alone("audio") /\ AudioNext
  \/ Alone("sysmon") /\ SysmonNext
  \/ Alone("hud") /\ HudNext

\* The fairness of each module, for the program that runs.
Lives(p) == program = p

SettlingFairness ==
  /\ WF_radiosVars(Lives("radios") /\ NetworkPoll)
  /\ WF_radiosVars(Lives("radios") /\ BluetoothPoll)
  /\ WF_radiosVars(Lives("radios") /\ UpdateAirplaneMode)
  /\ WF_radiosVars(Lives("radios") /\ ConnectFinished)
  /\ WF_radiosVars(Lives("radios") /\ \E cmd \in radioCmds : CommandRuns(cmd))
  /\ WF_sessionVars(Lives("session") /\ \E c \in started : DeskRuns(c))
  /\ WF_sessionVars(Lives("session") /\ AudioPoll({"sink", "source"}))
  /\ WF_sessionVars(Lives("session") /\ SystemPoll({"pgrep"}))
  /\ WF_mediaVars(Lives("media") /\ StartPlayerctlProcess)
  /\ WF_mediaVars(Lives("media") /\ OnPlayerctlOutput)
  /\ WF_mediaVars(Lives("media") /\ OpenAnimationFinished)
  /\ WF_mediaVars(Lives("media") /\ CloseAnimationFinished)
  /\ WF_mediaVars(Lives("media") /\ AutoHide)
  /\ WF_themeVars(Lives("theme") /\ \E p \in procs : TitanTheme(p))
  /\ WF_themeVars(Lives("theme") /\ (GraceEnds \/ GlassTruncate \/ GlassWrite))
  /\ WF_themeVars(Lives("theme") /\ UpdateTheme)
  /\ WF_themeVars(Lives("theme") /\ (BackendArms \/ \E e \in tb.events : BackendReads(e)))
  /\ WF_powerVars(Lives("power") /\ (ConfigWritten \/ Spawns))
  /\ WF_powerVars(Lives("power") /\ \E i \in DOMAIN scripts : ScriptStep(i))
  /\ WF_powerVars(Lives("power") /\ \E i \in DOMAIN idlers : ReadsConf(i))
  /\ WF_powerVars(Lives("power") /\ OnDBusPropertiesChanged)
  /\ WF_netVars(Lives("network") /\ Poll)
  /\ WF_netVars(Lives("network") /\ (ReadsSsid \/ ReadsRadio))
  /\ SF_netVars(Lives("network") /\ (Connected \/ ScanFinishes \/ \E i \in DOMAIN detached : DetachedRuns(i)))
  /\ WF_telemetryVars(Lives("telemetry") /\ (WriteTmp \/ Rename \/ FallBack \/ Share \/ Joined))
  /\ WF_telemetryVars(Lives("telemetry") /\ PollReturns)
  /\ WF_telemetryVars(Lives("telemetry") /\ ServeClient)
  /\ \A c \in Clients : WF_telemetryVars(Lives("telemetry") /\ Send(c))
  /\ WF_audioVars(Lives("audio") /\ Sync)
  /\ WF_audioVars(Lives("audio") /\ \E i \in DOMAIN shells : ShellRuns(i))
  /\ WF_sysmonVars(Lives("sysmon") /\ Sample)
  /\ WF_hudVars(Lives("hud") /\ (QueryAnswered \/ Refreshed))
  /\ SF_hudVars(Lives("hud") /\ GrimFinished)

SettlingSpec == SettlingInit /\ [][SettlingNext]_settlingVars /\ SettlingFairness

\* The views that are not asked for again come to fit what they show: the bars and sensors of
\* the system monitor, and the pictures of the workspaces (sample, updateThumbnails).
ViewsConverge == <>[]((Lives("sysmon") => SampleFits) /\ PicturesFit)
=============================================================================
