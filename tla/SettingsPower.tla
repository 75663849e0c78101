---------------------------- MODULE SettingsPower ----------------------------
(***************************************************************************)
(* The power and security pages of archtitan-settings: SettingsBackend, the     *)
(* swayidle it runs through detached scripts, and the power-profiles daemon.      *)
(*                                                                          *)
(* updateSwayidleConfig writes swayidle's file and starts a script that kills     *)
(* swayidle and starts it again, without waiting for it; the scripts of two        *)
(* changes run together.  The content of the file is the number of the change      *)
(* that wrote it.  D-Bus signals queue behind the handler that is running.          *)
(***************************************************************************)
EXTENDS Integers, Sequences

CONSTANTS
  Profiles,     \* the power profiles
  MaxChanges    \* bound on the changes to the timeouts and to the profile

VARIABLES
  applying,     \* where updateSwayidleConfig is: "no", "write" or "spawn"
  asked,        \* what the last change asks for: "run" swayidle, "lose" it, or "either"
  crossed,      \* whether a script that only kills was still to run at the last change
  changes,      \* number of changes, which names the content of the file
  conf,         \* swayidle's file
  scripts,      \* the detached scripts: the steps each has left
  idlers,       \* the swayidle processes: the file each read
  active,       \* the profile of power-profiles-daemon
  panelProfile, \* m_powerProfile, and power/profile in the saved settings
  signals,      \* the PropertiesChanged the application has not handled
  settled,      \* whether a profile was set or announced since the application began
  switches      \* number of changes of the profile

powerVars == <<applying, asked, crossed, changes, conf, scripts, idlers,
               active, panelProfile, signals, settled, switches>>
idleVars == <<applying, asked, crossed, changes, conf, scripts, idlers>>
panelVars == <<active, panelProfile, signals, settled, switches>>

UnreadConf == -1   \* a swayidle the script forked that has not run yet
Partial == -2  \* the file between its truncation and its content

\* The session started a swayidle, and the page shows the profile that was saved last.
SettingsInit ==
  /\ applying = "no" /\ asked = "either" /\ crossed = FALSE /\ changes = 0 /\ conf = 0
  /\ scripts = <<>> /\ idlers = <<0>>
  /\ active \in Profiles /\ panelProfile \in Profiles
  /\ signals = <<>> /\ settled = FALSE /\ switches = 0

-----------------------------------------------------------------------------
\* The idle daemon

\* Were the new swayidle started first.
RestartsEarly == <<"start", "kill">>

\* What a detached script does.
Restarts == <<"kill", "start">>

Kills == <<"kill">>

KillPending == \E i \in DOMAIN scripts : scripts[i] = Kills

\* applyScreenTimeoutNow, applySecurity and applySuspendTimeoutNow but for Never: the file
\* is opened for writing.
SwayidleChange(autolock) ==
  /\ applying = "no" /\ changes + switches < MaxChanges
  /\ changes' = changes + 1 /\ crossed' = KillPending
  /\ asked' = IF autolock THEN "run" ELSE "either"
  /\ applying' = "write" /\ conf' = Partial
  /\ UNCHANGED <<scripts, idlers>> /\ UNCHANGED panelVars

ConfigWritten ==
  /\ applying = "write"
  /\ applying' = "spawn" /\ conf' = changes
  /\ UNCHANGED <<asked, crossed, changes, scripts, idlers>> /\ UNCHANGED panelVars

\* Without the autolock a second script kills what the first one starts, or does not.
Spawns ==
  /\ applying = "spawn"
  /\ applying' = "no"
  /\ scripts' = scripts \o (IF asked = "run" THEN <<Restarts>> ELSE <<Restarts, Kills>>)
  /\ UNCHANGED <<asked, crossed, changes, conf, idlers>> /\ UNCHANGED panelVars

\* applySuspendTimeoutNow with Never only kills, and the file keeps the timeouts it had.
NeverSuspend ==
  /\ applying = "no" /\ changes + switches < MaxChanges
  /\ changes' = changes + 1
  /\ asked' = "lose" /\ crossed' = KillPending
  /\ scripts' = Append(scripts, Kills)
  /\ UNCHANGED <<applying, conf, idlers>> /\ UNCHANGED panelVars

\* A script's next step; pkill finds a swayidle by its name, which a fork does not have yet.
ScriptStep(i) ==
  /\ scripts[i] # <<>>
  /\ scripts' = [scripts EXCEPT ![i] = Tail(@)]
  /\ idlers' = IF Head(scripts[i]) = "kill" THEN SelectSeq(idlers, LAMBDA c : c = UnreadConf)
               ELSE Append(idlers, UnreadConf)
  /\ UNCHANGED <<applying, asked, crossed, changes, conf>> /\ UNCHANGED panelVars

ReadsConf(i) ==
  /\ idlers[i] = UnreadConf
  /\ idlers' = [idlers EXCEPT ![i] = conf]
  /\ UNCHANGED <<applying, asked, crossed, changes, conf, scripts>> /\ UNCHANGED panelVars

-----------------------------------------------------------------------------
\* The power profile

\* The daemon announces a change, on the bus names of both of its versions.
Announced(p) == IF p = active THEN signals ELSE signals \o <<p, p>>

\* applyPowerProfileNow: shown and saved first, then set over D-Bus and, when that fails,
\* through powerprofilesctl, which may fail too.
ApplyPowerProfileNow(p) ==
  /\ changes + switches < MaxChanges /\ switches' = switches + 1
  /\ panelProfile' = p
  /\ \/ active' = p /\ signals' = Announced(p) /\ settled' = TRUE
     \/ UNCHANGED <<active, signals>> /\ settled' = FALSE
  /\ UNCHANGED idleVars

\* Another program sets the profile.
ProfileChanges(p) ==
  /\ changes + switches < MaxChanges /\ p # active /\ switches' = switches + 1
  /\ active' = p /\ signals' = Announced(p) /\ settled' = TRUE
  /\ UNCHANGED panelProfile /\ UNCHANGED idleVars

\* onDBusPropertiesChanged.
OnDBusPropertiesChanged ==
  /\ signals # <<>>
  /\ panelProfile' = Head(signals) /\ signals' = Tail(signals)
  /\ UNCHANGED <<active, settled, switches>> /\ UNCHANGED idleVars

SettingsNext ==
  \/ \E autolock \in BOOLEAN : SwayidleChange(autolock)
  \/ ConfigWritten \/ Spawns \/ NeverSuspend
  \/ \E i \in DOMAIN scripts : ScriptStep(i)
  \/ \E i \in DOMAIN idlers : ReadsConf(i)
  \/ \E p \in Profiles : ApplyPowerProfileNow(p) \/ ProfileChanges(p)
  \/ OnDBusPropertiesChanged

\* The handlers run to their end, and the scripts and the bus go on.
SettingsFairness ==
  /\ WF_powerVars(ConfigWritten \/ Spawns)
  /\ WF_powerVars(\E i \in DOMAIN scripts : ScriptStep(i))
  /\ WF_powerVars(\E i \in DOMAIN idlers : ReadsConf(i))
  /\ WF_powerVars(OnDBusPropertiesChanged)

SettingsSpec == SettingsInit /\ [][SettingsNext]_powerVars /\ SettingsFairness

-----------------------------------------------------------------------------
\* Properties

\* Whatever the scripts of quick changes do to each other, a swayidle with the timeouts set
\* last is what remains of them when the last change wants it and no script that only kills was
\* still to run, and the page shows the profile in force once it was set or announced
\* (updateSwayidleConfig, applyPowerProfileNow, onDBusPropertiesChanged).
SettingsTakeHold ==
  <>[](/\ asked = "run" /\ ~crossed =>
            idlers # <<>> /\ \A i \in DOMAIN idlers : idlers[i] = changes
       /\ settled => panelProfile = active)
=============================================================================
