# Verification of ArchTitan OS

ArchTitan OS is a Linux distribution with programs of its own: the Titan
Hardware Manager (`titan-hwm-v3`), a root daemon that groups every process of the
machine into *workloads* and throttles, freezes or kills those the user has
abandoned, and the programs of a desktop on Hyprland, among them overlays, a
notification server, a settings application, a browser, a pointer daemon and a boot-time
guard.

The daemon is the part that can destroy a user's work, and the larger half of this
project is about it. The other half is about the programs, whose
difficulty is of one kind: they start commands nobody waits for, read the truth
back with timers, share files and sockets, and are closed and started again at any
moment. All of it is modelled in TLA+, checked with TLC on small instances, and the
main safety properties are proved with TLAPS for instances of every size.

## 1. Inventory

PROJECT.json lists every component with its files and its status, and the
hazards of this code at their lines.

### 1.1 The daemon (src/titan-hwm-v3)

| component | state it keeps | operations | what makes it correct |
|---|---|---|---|
| daemon loop (`daemon/daemon.cpp`) | `prev_children`, the tick's `proc_graph`, `next_workload_id` | start, thaw sweep, tick steps (a) to (i), shutdown | observation and action stay consistent across a tick; a stopped process is never lost |
| workload manager | registry of `Workload`, guarded by `mtx_` | add, remove, tick, prune_dead_pids | decay needs age, pressure, idleness and absence from the screen; hysteresis protects a workload just left, and ends |
| policy engine | none | evaluate | protection, then exemption, then execution, then the screen, then pressure: the order is the safety argument |
| enforcement plane, cgroup controller | cgroup membership and freezer (kernel) | apply, signal_tree, move_to_slice, set_freeze | no harm to protected processes; whoever was frozen runs again when wanted |
| reclaim engine | none | reclaim: checks, 2 s, checks, SIGTERM, 3 s, SIGKILL | nobody is killed who is protected or whom the checks before it should have spared |
| protected registry | name sets, `explicit_pids_` | is_protected, is_protected_any, is_collateral_protected_any | asked at the moment of acting |
| ownership graph | `pid_to_wl_` | assign, remove, bootstrap | one process, one workload; families stay together |
| detector, classifier, `resolve_tree_root` | baselines per pid | detect, aggregate, classify | an application always has somebody who founds its workload; evidence counts |
| workspace monitor | workspaces, focused workspace, a listener thread | events, reconnect, compute_governor | loop and listener agree; the governor follows the demand |
| pressure levels | none | compute_pressure | monotone in its inputs |
| command server, telemetry, CLI | the state file, a shared snapshot, a thread | publish, serve, stop | readers never go back or see half a file; stop ends |

The loop calls the others in the order observe, classify, detect, tick,
evaluate, enforce or reclaim, clean up, publish. They share the registry
(mutex) and the protected registry (shared mutex). The listener of the
workspace monitor is the only other thread whose state the decisions read; the
thread of the command server only reads what the loop shares with it. The
kernel is the real second actor: processes fork, exec, exit, are reaped, and
their numbers are recycled between any two instructions of the loop.

**What is hard.** The evidence is old when it is used: one snapshot of `/proc`
decides for every workload of a tick, and a reclaim sleeps five seconds inside
it. All frozen workloads share one freezer. A crash forgets who was stopped.
Pids are reused. Decisions take many ticks (discovered, active, idle, aging,
reclaimable), so a wrong one is the end of a long legal sequence.

### 1.2 The programs of the desktop (src/subsystems, src/titan-ui, src/archtitan-settings, src/titan-browser-source)

| program | state it keeps | what it talks to | what is hard | what makes it correct |
|---|---|---|---|---|
| hot zones and their overlay | the dwell machine, what it believes is shown | Hyprland's events, control clients, the overlay's socket | crossing zones while paused; an overlay that missed messages | one command per touch; the overlay draws what the daemon believes |
| overlays (HUD, menu, spotlight, power menu, system monitor, quick settings) | a window, a socket path | hotkeys that start processes | two processes that both find nobody, both remove the path and both listen | an overlay that was alone can be reached; a direct action is done |
| workspace HUD | workspaces, tiles, pictures | hyprctl, grim | pictures that are finished after the view changed | pictures come to be on their tiles |
| quick settings: radios | switches as shown | rfkill, nmcli, bluetoothctl | commands that run in any order after the switch moved, reads that fail or are late | the panel comes to show the truth |
| quick settings: session | sound, brightness, recorder, caffeine, game mode, night light | wpctl, brightnessctl, pgrep | relative commands from stale members | as above |
| theme file | `theme.json` | titan-theme, quick settings, every Qt program, settings | writers that replace through one temporary name and writers in place, watches that are lost | everybody comes to show the file |
| notification server | groups and ids | D-Bus clients | ids under do not disturb, groups that move | newest first, each id under its application |
| menu, spotlight | tree and levels; index and rows | providers, the clipboard | selection against a list that changed | what Enter runs is what is shown |
| media HUD | the track, the island and its timers | playerctl, socket commands | a follower that ends and is restarted, timers against the user | the track converges, a pop-up goes away |
| system monitor | the last sample | /proc, hwmon, nvidia-smi, the daemon's file | cores that come and go between two samples, sensors of which one stands in for another | what is shown fits the machine |
| settings: power, network, audio, theme | the pages | swayidle scripts, D-Bus, nmcli, pactl, PipeWire's files | scripts and polls that overlap, reads that fail | the last wish holds; nothing is lost at a restart |
| browser | tabs in two widgets, chrome, profiles and bookmarks in files | Qt WebEngine, other browsers | indices into two lists; files every process rewrites | address and page agree; the active profile exists |
| system guard | links and files of systemd | another run of itself | a loss of power between any two steps, calls that fail | what its answer says is so |

### 1.3 The rest

The information tool prints facts, the scripts of the live image and of the build run
once and keep no state; the daemon's test suite and the documents are read as
statements of what the code should do (three findings quote them).

## 2. The modules

| module | models | extends |
|---|---|---|
| `HwmTypes` | the enumerations of `core/types.hpp` | |
| `WorkloadManager` | `WorkloadManager::tick` as a function on workload records | `HwmTypes` |
| `PolicyEngine` | `PolicyEngine::evaluate` | `HwmTypes` |
| `EnforcementPlane` | the process table, the frozen slice, the registry's queries, `apply`, `signal_tree`, `kill_tree` | `HwmTypes` |
| `ReclaimEngine` | `aggregate` and the checks of `reclaim` | `EnforcementPlane` |
| `Daemon` | the composition: main(), its tick, and the machine around it | all of the above |
| `Custody` | the abstract promise to the processes, which `Daemon` implements | |
| `Classifier` | `resolve_tree_root` and `FusionClassifier::classify` over a tree of processes | |
| `Pressure`, `Governor` | `compute_pressure`; `compute_governor` in the tick, over the workload state machine | `WorkloadManager` |
| `WorkspaceMonitor` | the listener thread, the tick thread's view of the screen, Hyprland around them | |
| `Ownership` | `OwnershipGraph::bootstrap` with the scan of `/proc` it makes | |
| `Telemetry` | the state file, the command server's thread, the CLI, the monitor that reads the file | |
| `HotZones`, `Overlays`, `WorkspaceHud`, `QuickRadios`, `QuickSession`, `ThemeState`, `Notifications`, `Menu`, `Spotlight`, `MediaHud`, `Sysmon` | the programs of section 1.2 | |
| `Launchers` | what the menu and Spotlight do with lists: filter and sort | |
| `SettingsPower`, `SettingsNetwork`, `SettingsAudio` | pages of the settings application | |
| `BrowserTabs`, `BrowserProfiles`, `Guard` | the browser's window, its files, the guard | |
| `MCDaemon`, `MCLiveness`, `MCGovernor`, `MCSession`, `MCPrograms`, `MCSettling` | constants and compositions for TLC | |
| `DaemonProofs`, `CustodyProofs` | proofs about `Daemon`, the second extending the first | `Daemon` |
| `SessionProofs` | proofs about the governor and the listener of the workspace monitor | `Governor`, `WorkspaceMonitor` |
| `OwnershipProofs` | proofs about the trees of processes: the bootstrap and the classifier | `Ownership`, `Classifier` |
| `SettlingProofs` | proofs about the snapshots and the audio page | `Telemetry`, `SettingsAudio` |
| `DesktopProofs` | proofs about the pointer daemon, the overlays and the guard | `HotZones`, `Overlays`, `Guard` |
| `PanelProofs` | proofs about lists: the notifications, the browser's profiles and its tabs | `Notifications`, `BrowserProfiles`, `BrowserTabs` |
| `LauncherProofs` | proofs about the menu and Spotlight, and the greedy search against every way to match | `MCPrograms` |

How they meet: `Daemon` lets `onScreen` change in any way, so it covers whatever the
workspace monitor reports, the stale reports of `WorkspaceMonitor` included; it takes any
pressure where `Governor` computes it, any verdict of `classify()` where `Classifier` says
which, and any grouping at the start where `Ownership` says which. `Governor` and
`Daemon` share `WorkloadManager`. `Sysmon` takes the label that `Telemetry` shows how to read,
and `ThemeState` holds all four programs that share the file.

### 2.1 The daemon's state

| variable | in the code |
|---|---|
| `run`, `kind`, `working` | the process table: state letter, executable, and whether `detect()` would call it executing |
| `frozenSlice`, `frozen` | the members of archtitan-frozen.slice and its `cgroup.freeze` |
| `explicit` | `ProtectedRegistry::explicit_pids_` |
| `pc` | where main() is: down, sleep, classify, drive, grace (2 s), term (3 s) |
| `workloads` | `WorkloadManager::registry_`, a function whose domain is the registered ids |
| `owner` | `OwnershipGraph::pid_to_wl_` |
| `prev` | the keys of `prev_children` |
| `snap` | the tick's `proc_graph`, the executing ones in it, `all_workloads`, workspaces, pressure, `observed_count` |
| `todo` | what the running loop of the tick has still to visit |
| `cur` | the workload inside `reclaim()` |
| `onScreen` | the workspaces that are visible or focused |

### 2.2 Its actions

`Start` is main() up to the loop: the thaw sweep, the protected registry's scan,
`bootstrap`, and `setup_slices`. `BeginTick` is steps (a) to (c). `Pass`,
`Reclassify`, `Discover` and `Observe` are the ways one iteration of step (d)
can go. `StartDrive` is step (e) and the copies step (f) makes. `Drive(i)` is one
iteration of step (f): tick, evaluate, then nothing (observed), `apply`, or
`reclaim` up to its first sleep. `Recheck` is reclaim's steps 7 and 8 after that
sleep, `Kill` its step 9. `EndTick` is steps (g) and (h). `Shutdown` is the end of
main(), `Crash` any other end. `Spawn`, `Exit`, `Reap`, `Exec`, `Toggle`,
`Switch` and `Elapse` are the machine: they happen between any two steps of the
daemon at which `Preempt` lets it lose the processor.

**Custody** is what the daemon promises whatever its policy: it holds a process only
in the one group it keeps it in, holds and releases groups as a whole, lets go of
nobody it holds, and kills one group at a time after two announcements. The
refinement mapping of `Daemon` reads `held` as the stopped processes, `keeper` as the
registered workload that lists a process and owns it, `condemned` as `cur` during a
reclaim and `final` as its last sleep. The policy is not part of the promise,
which is why it is shorter than the daemon and survives changes of thresholds.

**Classifier.** `proc` is the process table with parent, session, scope, working
directory and image; a process may be on its way out while it is read, and then only its parent
and uid were. `TreeRoot` is the climb, `Founds` and the votes are the loop's and the
classifier's verdicts. Weights count in twentieths.

**Governor.** `workloads` is the registry, with the fields `compute_governor` and
`tick` read; `shown` and `executing` say of each workload whether its workspace is
on screen and what `aggregate()` would answer; `reading`, `level`, `governor` are the
memory figures, `pressure` and `current_gov`. `LoopTick` is steps (c), (f) and (g):
the governor reads `all_workloads`, which is copied before the loop that ticks the
workloads, so it follows the states of the tick before.

**WorkspaceMonitor.** `listener` and `ticker` say where the two threads are. A step
is one critical section of `ws_mtx_`, one atomic access, or one system call.
`steady` is a history variable. Hyprland's sessions, switches and monitors are
external, modelled from the events and answers the code reads.

**Ownership.** `Collect` and `CollectGone` read one entry of `/proc`, by ascending
numbers, while `Spawn` and `Exit` go on, `ScanEnds` sorts; `Inherit`, `Found` and
`Leave` are the ways one iteration over the sorted entries can go. `std::sort` leaves the
order of siblings open, so any entry with the least parent may be next (`First`).

**Telemetry.** A snapshot is the number of the tick that made it. The tick thread
truncates the temporary file, writes it, renames it, then shares the snapshot with the
server's thread; a crash may come between any two of these, and systemd starts the
daemon again. `publish()` returns early when the temporary file cannot be opened or
written, and writes the state file in place when the rename fails (`FallBack`); the
snapshot is shared whatever became of it. `log` is history: which ticks were published,
which failed, and whether the file was ever written in place. The server takes one client at a time; a client may be killed while
it waits.

### 2.3 The programs' state and actions

In each module an action is one handler of one event loop, or one step of a process
that is not waited for. The truth outside is one variable, marked external
(`air`, `desk`, `player`, `hypr`, `box`, `pipe`, ...), which others change too; what the
program shows is another, and what was started and has not run yet a third
(`radioCmds`, `started`, `shells`, `scripts`, `detached`, `grims`), a set wherever the
code lets commands run in any order.

- **HotZones.** `hz` are the daemon's members with the dwell machine
  (`Idle`, `Armed`, `Locked`), `overlay` is OsdController. Zones are computed from the real
  geometry: `ZoneRect`, `HitTest` and `InInnerRegion` do the code's integer arithmetic.
  `UpdateFrame`, `SetEnabled`, `PublishOsd`, `ShowToast` are the methods; each appends
  what it broadcasts to `out`.
- **Overlays.** `inst` are processes, each at a step of the hand-over: connect and ask
  (`Ask`), remove the path (`RemovesPath`), listen (`Listen`), which fails when another
  made a file there meanwhile, after which the window is made all the same. `path` is who
  listens at it, or the stale file of one who crashed. The power menu's actions wait for a timer,
  which only a process with an event loop has.
- **WorkspaceHud.** A `refresh` is a series of queries (`asking`), each answered at a moment
  of its own. The view is read again right after a command; a tile of a window that Hyprland
  closes later stays until the HUD is used next, and no property says otherwise.
- **QuickRadios, QuickSession.** The polls read the truth. In `QuickRadios` a read
  (`Outcomes`) may also be late, which leaves the member as it was, or fail, which is read
  as off or as no network. `radiosCalm` is the moment from which nobody touches anything
  and reads answer. The commands of the three switches are one set, from which any may run next.
- **ThemeState.** A run of titan-theme reads, opens and truncates the temporary file, writes
  it, and renames it, and every run uses the same temporary name: what one has open may be
  truncated or renamed by another, and two contents may end up in one file (`Over`). `clashed`
  is history: it says that this happened. The glass slider truncates and writes the file
  itself; ThemeBackend's two watches deliver events late and lose the file when it is
  replaced; `tb.missed` is history for a write in place between its read and its new watch.
- **Notifications.** `groups` is the model's list, `owners` the history of whom each id
  was given to.
- **Menu, Spotlight.** `Ranked`, `FuzzyScore` and `UpdateResults` are the searches, exactly;
  texts are sequences of letters in the menu, and records of what the code finds in
  them in Spotlight.
- **MediaHud.** `follow` is `playerctl --follow` with the lines that wait, `island` the
  state machine with its timers.
- **Sysmon.** One action is one sample over cores, memory, sensors and the daemon's label.
  The highest temperature is taken over every chip of hwmon, or the thermal zones when hwmon
  has none, then over an NVIDIA card when hwmon knows no card: beside an AMD card it is not
  looked at.
- **SettingsPower, SettingsNetwork, SettingsAudio.** The detached scripts are sequences of
  steps; the equalizer's gains are the profile's name. A failed or late nmcli empties the
  network and turns the switch off on the page (`Answers`) until the next poll; a failed or
  late wpctl leaves the volume and clears the mute mark (`Synced`, `unread`), and nothing asks
  again before the next change.
- **BrowserTabs.** `bar` and `stack` are the two widgets with an index each; a signal is
  a call inside the action that emits it. `IsHome` is the code's test for the start page, which
  the empty page, about:blank and every `qrc:` address pass as well, and any address that contains
  the start page's name (`LookAlikes`); the comment at browser.cpp:1258 speaks of a "single
  home tab" only. `BrowserProfiles` has two processes that share the
  files, which are truncated and written in place.
- **Guard.** Runs that may overlap share one temporary name per link; `PowerLost` ends all.
  The calls that make links and files may fail. A mask that cannot be linked is passed over, and so is a copy cut short by a
  failing read or close (main.c:336, 293, 297): `missed` is history for what a run passed over.

### 2.4 Abstractions

- **Classification in `Daemon` is data.** `classify()` may return any profile of `Profiles`
  for any process; `detect()` is the free set `working`. The properties hold for
  every answer. `aggregate()` is exact.
- **Age.** `minutes_since(last_active)` is compared with two thresholds only, so
  `age` counts in a unit that tells them apart. No code writes `last_active`
  after registration, and no action of the model resets it.
- **Bootstrap in `Daemon`** is any grouping of the processes alive at the start.
- **Focus.** A new workload gets any workspace or none. The code gives it the
  focused one when the class of the active window matches; that value is read
  apart from the snapshot, so it may be any.
- **Fresh ids.** `next_workload_id` only grows. The model takes an id nothing refers
  to, which is the same to every reader and keeps the instance finite.
- **One freezer.** Slices other than archtitan-frozen.slice carry weights only,
  which decide nothing, and are left out; so are cpu.weight, memory.high and
  oom_score_adj.
- **Writes of the daemon succeed.** A failing cgroup write or signal is not modelled; those of
  `publish()`, titan-theme and the guard may fail.
- **Atomic steps.** A `Drive` is one step: the signals and cgroup writes of one
  `apply` are not interleaved with the machine. `ProtectedUntouched` is therefore
  about the state at the beginning of an `apply`, not between its writes; the
  sleeps of `reclaim`, which are long, are split.
- **Percents.** Every threshold of `compute_pressure` is a whole number of percents
  compared with < or >=, so the integer parts of the readings decide.
- **Age in Governor.** The decayed states are all idle to the governor, so `age` is
  fixed there; and how often a workload is classified anew is left open.
- **Reads.** A `Read` of the listener takes all pending events; window events (class and
  title) are left out. Finding the instance and connecting to it are one step.
- **Handlers.** A handler of a Qt program is one step unless it waits for a process it
  started, in which case the waits are steps (`refreshStatus`, `titan-theme`). What
  such a wait lets in is modelled; a timeout is one of the answers a read may come to.
- **Texts** are tokens: letters in the menu, records in Spotlight, ids elsewhere.
  Geometry other than the hot zones', icons, wording and style sheets are left out.

### 2.5 Bounds

In the daemon's runs `HardAge` bounds `age` in `Elapse`; the code tells no greater ages
apart. `HysteresisTicks = 1` keeps the two cases (open, closed) and their transition.
`MaxObserved = 1` makes the limit reachable with two processes. `Pids` and `Ids`
have one or two members. Ids are at least as many as pids, which the named assumption
`DaemonConfig` requires, so that a new workload can always find one. One process
reaches every decision, state and fault; two are needed for shared ownership, for
the limit, for the freezer that two workloads share and for one workload's turn harming
another's member. The properties about single processes are proved for every size, which is
why the run of two processes leaves out faults, executables and workspaces.

`MCLiveness` has two machines, of which each behaviour has one. In the first a process is
alone and everything of `Daemon` happens to it, with preemption at every step and recycled
numbers. In the second two plain processes, there before the daemon starts, are in classified
workloads of their own, so that the FREEZE of one and the KEEP_FULL of the other write to the
same `cgroup.freeze`; there the machine (work, the screen, age) acts between two ticks, the
pressure is the highest, and bootstrap finds no group. `Home` gives each process one name for
its workloads, which is a symmetry: nothing hangs on an id.

In `session`, two workloads (one to raise and one to spoil what the other raised) have
four demands and five readings: one for each level with PSI or without it, and one on
each side of a loss of PSI. Three workspaces (left, entered, on the other screen), two
monitors, and `MaxEvents = 1` switches unread on a connection, beside those the
listener holds in `lines`; more of them only repeat the same two steps.

In `programs` and `settling` a bound named `Max...` in each module counts what the user
or the world does (launches, edits, touches, changes, ticks); it never counts a step of the
program, so what was begun always finishes. They are as small as the hazard needs: two
processes of an overlay, four notifications of two applications, three tabs, two
browsers and three edits, two guards with two changes of others, three process numbers for
the bootstrap (chain, siblings, reuse, a child numbered below its parent), a session
with a terminal and three processes below it for the climb, two switches or three shifts
for what converges. The menu has a provider, an empty group, a searched hint and a
user file in which a command has children. The radios are one machine with Wi-Fi and Bluetooth,
on which two things are under way at most at a time, of its three switches, a scan and a
connection: every pair of them meets. The browser has its start page, a web page, and the
addresses that pass for the start page. The geometry of the hot zones is one real screen
with a pixel in a zone, one at its edge and one in the middle.

## 3. The runs

| run | instance | asks |
|---|---|---|
| `one_process` | 1 process, all executables, pressures and faults, preemption everywhere | `TypeOK`, `ProtectedUntouched`, `ImmuneUntouched`, `ExecutingUntouched`, `KillJustified` |
| `two_processes` | 2 processes, 2 ids, MODERATE and HIGH pressure, preemption at the sleeps, symmetric | `OwnershipConsistent`, `KeepsCustody` |
| `liveness` | 1 process, DEV and browser, recycled pids, preemption everywhere; or 2 processes that share the freezer; fair | `VisibleRuns` |
| `session` | governor, or workspace monitor with 3 workspaces and 2 monitors, fair | `OneFocus`, `PressureCaps`, `SettlesToPowersave`, `BuildIsBoosted`, `SteadyIsCopied`, `OnScreenSeen`, `HiddenFades`, `StopReturns` |
| `programs` | one of ten programs | `FrameAgrees`, `AloneIsReachable`, `NewestFirst`, `HiddenOnlyAtHome`, `ActiveIsListed`, `AnswerIsSo`, `GroupsConnected`, `FamilyTogether`, `TopmostFounds`, `LaunchersAgree`, `TreesAreWatched`, `OncePerTouch` |
| `settling` | one of ten programs, fair | `AudioSurvives`, `RadiosConverge`, `SessionConverges`, `PopupFades`, `TrackConverges`, `ThemeConverges`, `SettingsTakeHold`, `NetworkShown`, `SnapshotsAdvance`, `ServerAnswers`, `HeardIsShown`, `ViewsConverge` |
| `hysteresis` | the daemon, 1 process, fair | `HysteresisExpires`: violated |
| `restart` | the daemon, 1 process, crashes | `RestartThaws`: violated |
| `resumed_work` | the daemon, 1 process | `AbortsWhenWorkResumes`: violated |
| `selected_tab` | the browser's tabs | `SelectedIsShown`: violated |
| `direct_action` | the overlays, fair | `DirectActionHappens`: violated |
| `equalizer` | the audio page | `ProfileSurvives`: violated |

**One program per behaviour.** The programs of `programs` and `settling`, and the two parts
of `session`, share no state that their modules keep: interleaving them would multiply the
states and add no behaviour. `ProgramsInit` chooses one, whose initial states are all
taken; its actions and what is around it run, and the others stay as they began (in one
of their initial states). Each property then speaks of every behaviour, and is vacuous in
those of the other programs. Where two programs do meet (theme file, state file,
bookmarks, socket paths) they are in one module.

**What the passing runs show.**

- `ProtectedUntouched`: however late a process becomes protected (exec, recycled
  number), no step from then on stops, moves into the frozen slice or kills it.
  This rests on the registry being asked again by `kill_tree` for each process.
  A child *born* in the thawed frozen slice of a frozen parent and frozen with it
  later is outside this statement.
- `ImmuneUntouched`: exemption by type or observation is decided per workload; it
  protects the processes because no process has two workloads.
- `ExecutingUntouched`: the snapshot's verdict EXECUTING holds for the whole tick,
  over all workloads and through the five seconds of a reclaim.
- `KillJustified`: five facts of different ticks (hard age, ownership by an AI
  agent, screen, idleness, membership) still hold together at the SIGKILL. The
  screen and the idleness are those of the tick's snapshot, which is what the
  code knows; `AbortsWhenWorkResumes` is about the difference.
- `KeepsCustody`: the daemon implements `Custody`. In particular a process the daemon
  stopped stays in a registered workload, through reclaim, eviction and shutdown, and
  is never stopped outside one. The run has plain executables, no crash and no number
  reused while it is referred to. With a crash the refinement fails (that is `restart`);
  with a browser among the members of a reclaimed workload it fails too, because
  `kill_tree` passes over browsers and the workload is evicted (in the hazards).
- `VisibleRuns`: for classified workloads, `<>[]` on screen implies `<>[]` running. The
  freezer is shared, so another workload's FREEZE must not catch the window: the KEEP_FULL that
  thaws it also takes it out of the slice. Its mutant, a KEEP_FULL that thaws and continues
  the process but leaves it in the slice, is wrong in the machine of two processes only.
- `PressureCaps`: no demand and no hint already held keeps PERFORMANCE at HIGH or
  CRITICAL, also while workloads come, go and are promoted between the ticks.
- `SettlesToPowersave`, `BuildIsBoosted`: with plentiful memory and everybody off screen and
  idle the governor ends in POWERSAVE although observed workloads execute for ever; a
  build off screen below HIGH ends with PERFORMANCE, through the hysteresis of its own
  state. The premise of the first excludes endless promotions, each of which
  makes another workload count.
- `OneFocus`, `SteadyIsCopied`, `OnScreenSeen`, `HiddenFades`, `StopReturns`: between the
  exchange and the marks, across reconnects and restarts of Hyprland, no workspace stays
  focused that was left; events queued before hyprctl answered cannot hide a workspace
  that stays on screen; such a workspace is reported from some tick on; only the
  focused workspace can stay visible without being on screen; and the join at shutdown
  ends. Focus outlives the session it was reported in until the next one
  switches, which `HiddenFades` allows for.
- `GroupsConnected`, `FamilyTogether`, `TopmostFounds`: the entries of the scan are of
  different moments, but a workload never collects strangers; and when numbers
  ascend from parent to child each process gets the workload of its topmost ancestor
  that tells a type. The premise is needed: the comment at ownership_graph.cpp:199 says
  that sorting by parent puts parents first, which fails once the kernel's numbers
  have wrapped around.
- `TreesAreWatched`: however sessions, scopes and exits cut the tree, an application
  of the user has somebody at or above it who founds a workload, or a protected
  process where the climb ends; and a tool with a vote is heard three generations up. It does
  not say that the application joins that workload, because it does not: the comment at
  daemon.cpp:983 lets "the child" inherit the observed workload "on a later tick", and the loop
  assigns founders only (daemon.cpp:977, 1007).
- `SnapshotsAdvance`: the monitor never goes back to an older snapshot, wherever the daemon
  dies and whatever fails in `publish()`. As long as no rename failed, the state file is always
  whole and the monitor never loses its snapshot; after one, the file is written in place and a
  reader may see half of it. An answer is never ahead of the file but for the ticks
  whose publishing met an error, which are shared all the same.
- `ServerAnswers`: a client is answered or sees its connection end, and a daemon that stops
  ends. A connected client that never sends is assumed away (see Fairness).
- `OncePerTouch`, `FrameAgrees`, `AloneIsReachable`, `NewestFirst`, `HiddenOnlyAtHome`,
  `ActiveIsListed`, `AnswerIsSo`, `LaunchersAgree`: what the programs never do, each across the
  interleavings of section 1.2. `AnswerIsSo` speaks of runs no other run and no other
  program crossed, after whatever a loss of power, a failure or two overlapping runs left behind; it
  promises nothing of the links and files whose failure the code itself passes over (`missed`).
  `AloneIsReachable` speaks of an overlay that was alone since it removed the path. Two that come at
  a time may end with neither at the path: the second removes, the first listens and dies, and its
  file fails the listen of the second, which runs on unreachable.
  `HiddenOnlyAtHome` takes the start page as the code tests for it. `ActiveIsListed` holds at
  every step of a deletion in two processes. Of `LaunchersAgree`, the search of the menu
  (`SearchFinds`) finds a leaf whenever the text occurs in its full title in any way, and none where
  it occurs neither there nor in the hint; an occurrence in the hint counts when its letters are
  worth ten points, so that a single letter in a longer hint is passed over
  (menucontroller.cpp:219), although fuzzy.cpp:58 keeps every genuine match apart from none.
- `RadiosConverge`, `SessionConverges`, `ThemeConverges`, `NetworkShown`, `SettingsTakeHold`,
  `TrackConverges`, `PopupFades`, `HeardIsShown`, `ViewsConverge`: once nobody touches it any
  more, each program comes to show what is, for good. Some carry premises the code needs.
  `RadiosConverge` and `NetworkShown`: reads answer from some moment on (`radiosCalm`,
  `answering`), whatever failed before; that no connection and no scan is waited for holds
  without it. `SettingsTakeHold`: no script that only kills was still to run at the last change,
  and the last profile was not refused (a refusal leaves the page with the profile it asked for).
  `HeardIsShown`: pactl's subscription, which is never restarted, is alive, and the side was
  answered when it was last read; a side that was not stays wrong, and shown as not muted, until the
  next change. `ThemeConverges`: the quick settings and every ThemeBackend come to show the file;
  that the file says something needs that no two runs of titan-theme wrote their shared
  temporary file at a time (`clashed`), which can leave it garbled for good; and a ThemeBackend
  may have missed a write in place between its read and its new watch (`tb.missed`).
  `ViewsConverge`: the bars, the label, and temperatures of the system monitor, whose status is of
  the hottest chip, and the pictures of the HUD.
- `AudioSurvives`: the files that the next start reads always agree with the page.

**Fairness.** In `Daemon`, `FairSpec` adds `WF_vars(DaemonStep)` and nothing else. The loop
never waits for anyone: it sleeps 200 ms, and `reclaim` 2 s and 3 s, and goes on,
so a step of the daemon that stays enabled is taken. Nothing is assumed of users,
processes, the clock, shutdowns or crashes. `Governor` assumes `WF_vars(LoopTick)`
for the same reason. `WorkspaceMonitor` assumes that both threads run: every wait of
the listener has a timeout, and the tick's waits are hyprctl, which is assumed to
answer or fail, and the join. In the programs weak fairness is given to the timers
and handlers of a live event loop and to the processes it started, which the kernel
schedules. Strong fairness is assumed in two places, where a command may be asked for
again before it finishes: nmcli's commands in `SettingsNetwork` and grim in `WorkspaceHud`. Nothing
is assumed of users, players, Hyprland, or of a client of the command server but that the
CLI sends what it connected for, which it does in its next statement. `SettlingSpec` states each module's
fairness for the program that runs.

**Deadlock** is checked in the runs of the daemon and of `session`. The runs of programs
turn it off: a program whose bound of user actions is used up has nothing left to do.

**Mutants.** Most alternatives stand in the modules beside what they replace
("Were ...", "Had ..."): a dropped guard, a swapped order, a missing reset. Each property of a
passing run is violated by one of them under the run's own bounds, which shows that the
bounds let the case happen.

**The violations** are statements of the repository's comments, tests and wiki that
the code does not keep. PROJECT.json quotes each.

- `HysteresisExpires`: the window opened on the way from ACTIVE to IDLE is counted
  down only in BACKGROUND_EXECUTING. An idle workload that the user left with the
  window open is KEEP_BACKGROUND until it works or is shown again.
- `RestartThaws`: the sweep skips processes of other users, and the daemon is root.
  `SweepReaches` is the set of the daemon's own user's processes, empty for a
  desktop user.
- `AbortsWhenWorkResumes`: the second check reads the first check's snapshot.
- `SelectedIsShown`: a dragged tab moves in the bar and its page stays where it was in the
  stack, and everything after that is addressed by index.
- `DirectActionHappens`: the power menu's `--lock` and its like arm a timer and leave main
  before there is an event loop.
- `ProfileSurvives`: the page offers "Bass boost", the code knows "Bass Boost".

## 4. The proofs

Eight modules hold theorems; PROJECT.json lists those a reader should know of.

`DaemonProofs` proves `TypeCorrect == Spec => []TypeOK`. `TypeOK` is inductive as it
stands: it includes the relation of `pc` to `todo` and `cur` (the loop visits
processes, then registered workloads; the reclaimed one is still to be
finished). The lemmas are one per pure function (`Tick` and the groups of the
reclaim checks return records of the right type), one per kernel operation, and
one per action.

The same module proves, from `TypeOK`:

- `OwnershipCorrect == Spec => []OwnershipConsistent`. Inductive with `TypeOK`. The
  step that matters is `EndTick`: a pid leaves `owner` only when it is not in the
  graph, and the same graph prunes the members.
- `ImmuneSafe`, `ProtectedSafe`, `ExecutingSafe`, `KillSafe`: the action properties. The
  argument is shared. A lemma shows that every step but `Drive` and `Kill` harms
  nobody. A second says that a `Drive` harms only unprotected members of its own
  workload, and only when it decides FREEZE; a third that a `Kill` harms only
  unspared members of `cur`. What remains is what FREEZE and the way into
  `grace` imply, which are lemmas about `Evaluate`.
- `KillSafe` and `ExecutingSafe` need a strengthening, because `Kill` happens two
  sleeps after the decision: `ReclaimInv` says that while `pc` is grace or term the
  workload `cur` is RECLAIMABLE, unprotected by type, not an AI agent's, off the
  snapshot's screen, idle in the snapshot (`ReclaimSound`), and that a workload in
  state RECLAIMABLE is past the hard age (`HardDecayOnly`).
- `ObservedLimited == Spec => []ObservedBounded`: the number of observed workloads never
  exceeds the limit. The tick counts by hand, in `snap.observed_count`, while the registry
  changes; `Counted` says that during the classification the count is at least the number of
  observed workloads there are, by cardinality of finite sets.

`CustodyProofs` proves the refinement, `CustodyKept == FaultFree /\ Spec => KeepsCustody`, where
`FaultFree` says that the daemon does not crash, that process numbers are not recycled
while referred to, that nobody executes another program, and that executables are plain.
Each part is needed: a crash forgets who is stopped (`restart`), a recycled number
makes a new process a member of an old workload, and `kill_tree` passes over
browsers. `CustodyInv` strengthens `TypeOK` and `OwnershipConsistent` by: nobody is protected
(`Plain`); a daemon that is down left nobody behind (`Clean`); whoever is stopped has a
keeper (`Tracked`); during a tick a living process of the snapshot was read alive, and who
has an owner is in it (`Seen`); the classification visits the snapshot only (`Queued`); and a
TERMINATED workload, which the tick will evict, has no living member (`Ended`).
`Seen` is why `EndTick` dismisses only the dead, and `Ended` why eviction loses nobody. Each
action is then shown to be one action of `Custody`, or a stutter of it. `StoppedTracked`
states `Tracked` by itself.

`SessionProofs` proves `Capped` and `NeverRelieved` from `LevelInv` (the level is the
pressure of the last reading, and the cap holds), with lemmas about
`ComputePressure`: monotone within one source, and cautious when PSI is lost.
It proves `FocusCorrect` from `FocusInv`, which says where the
focus is at each place of the listener: between `Exchange` and `Mark` on `prev`, else
on `focusedWs`, if anywhere. `SteadyCorrect` needs `SteadyInv`: what is on screen since
hyprctl answered is in its answer before `Publish` and in `visible` after it, which
no step of the listener reduces.

`OwnershipProofs` proves five theorems.

- `OwnershipTypeCorrect`, `FamiliesStay` and `GroupsAreFamilies`.
  `FamilyTogether` needs `Sorted`: what was decided has parents no greater than what is
  still to be decided. A process decided after its child would then have a parent
  no less than its own number, against the ascending numbers.
- `FoundersAreTopmost`, the invariant `TopmostFounds`: what bootstrap made is compared with the
  reference, the line of ancestors of a process. `RootInv` says what a decided process
  without an owned parent came to: it founded a workload if it is hinted and has none
  otherwise. With `GroupsConnected` an induction up the numbers then gives, for each
  process that was read, that its workload is the one of the lowest number in its line
  that is hinted.
- `AppsAreWatched`, the invariant `TreesAreWatched` of `Classifier` (somebody at or above founds; who is
  below the founder joins nothing). `TreesInv` says that a parent is
  there or is the session's manager, and that the processes descend from each other in finitely
  many generations (`Generations`: a rank below a bound that rises from parent to child).
  A fork adds a generation, and what dies leaves its children to process 1, which no climb
  enters. The ranks carry an induction down the trees (`DownTheTrees`): the line above
  an application begins with it, and the first process up the line whose parent is no
  application of the user is the root of its own climb, however the climbs below it
  were cut. The second half follows from the sum of the votes, which is no less than each
  of them (`SumBounds`), and from the fact that who is second, third or fourth in a line
  is in the three generations that `Heard` collects (`BelowIsHeard`).

`SettlingProofs` proves `NeverBack`, the property `SnapshotsAdvance`, from `Published`: no reader is
ahead of the state file, what is renamed is the whole snapshot of the last tick, and what is
shared was published or failed; as long as nothing was written in place the file has no torn
moment, whichever of `publish()`'s calls fail. And
`AudioKept`, the invariant `AudioSurvives`, from `AudioInv`: the records keep their fields, and each handler
that touches the profile, the switch or the width also runs `ApplyEqProfile` or the
widener, whose lemmas say what they write (`ApplyWrites`).

`DesktopProofs` proves four things. `FiresOnce`, the property `OncePerTouch`, for
every geometry and every dwell: since a firing that was not followed by a look inside
the box the machine is locked (`DwellInv`), and none of the methods that broadcast
touches it (`Keeps`, one lemma per method). `AloneReached`, the invariant `AloneIsReachable`, for every
number of processes: two that have removed the path and not ended have met (`Met`), and who is alone on
the way from removing to listening finds no file there (`FindsFree`), so its listen succeeds and
nobody takes the path away later. `GuardKeepsItsWord`, the invariant `AnswerIsSo`, for every number of
guards: `GuardInv` says where each run is in its list (`Placed`), that a run that is alone
has no other running beside it, and what such a run may rely on at each place
(`Relies`): the links it has passed, the temporary name it has just removed or made,
the backup it has just checked. What a call that fails unnoticed leaves behind is in `missed`,
which the answer says nothing of. `FrameKept`, the invariant `FrameAgrees`: an overlay that applies what a
handler broadcasts ends at the frame the daemon believes in. `FrameInv` is the state between
two handlers, where nothing is left to send; within a handler `Carries` follows the
messages it appends, one lemma per method that appends some (`SendTells` and its like), over the
fold that applies them (`FoldAppend`).

`PanelProofs` proves three theorems about lists.

- `ReadsNewestFirst`, the invariant `NewestFirst`. `NotifyInv` adds that ids were given up to `nextId`, that
  none in the list is above it, and that `owners` has one entry for each.
- `ActiveKept`, the invariant `ActiveIsListed`. `ProfilesInv` adds that the profiles of a list differ and have
  been created, in each process and in the file, and that the profile that is being
  deleted is listed and is not the active one: so its removal leaves the active one in
  the list (`ProfilesLess`).
- `HiddenAtHome`, the invariant `HiddenOnlyAtHome`, with the start page as `IsHome` tests for it. `TabsInv` adds that between two handlers the bar has as many
  tabs as the stack has pages and that one of them is shown. One lemma per slot of the
  window shows that it leaves the window so (`Rests`), given only that it stands
  (`Stands`); closing many tabs is an induction over the positions that are visited.

`LauncherProofs` proves `LaunchersActOnWhatIsShown`, the invariant `LaunchersAgree` of the programs, which
relates three conjuncts of the menu and one of Spotlight. It is stated for `ProgramsSpec`, whose
steps are steps of at most one program (`LaunchersStep`), and rests on two invariants.

- `MenuInv`: the tree and the members have their types; the levels are a walk down the tree
  (`Walks`); and what is listed is what `Rebuild` would list now (`Shows`). The type of the
  lists goes through their construction: what is not available and empty groups are left out level
  by level (`ExpandType`), and leaves are collected with their crumbs (`LeavesType`). `SearchFinds`
  compares an algorithm with a reference: `fuzzyScore`, which takes each letter at the first place it is
  found, scores a text exactly when there is any way at all to find the letters of the query in
  it in their order. `MatchFinds` is an induction over
  the letters of the query (`GreedyStep`): what the loop has reached is where an increasing
  choice of places ends (`LettersGrow`). A match scores
  at least what its letters are worth, whatever places the loop takes (`MatchScores`,
  `WorthScores`), which is why a hint whose letters are worth ten is found. The best of the scores of
  title, path and hint decides (`BestFinds`), and a sort loses nothing of what scored (`RankedFinds`).
- `SpotInv`: `Fits`, which is `RowsFit` of the members, and the types of the lists. Each kind of row
  has a lemma that says what is in it (`ClipRowsAre` and its like), `UpdateFits` joins them for
  whatever was typed, and each step either ends in `updateResults()` or touches only what no row
  depends on (`SetAlone`). The selection is on a row because `SetSelectedIndex` clamps, wherever the
  arrows lead (`ArrowsLead`).

Both use lemmas about the operators of `Launchers`: what passes a filter is in both sets
(`OnlyIn`), and what is sorted is a list of the same elements (`SortedIsList`).

Inductions are done on sets of numbers: a set that has 0 and with each number the next one has all
(`EveryNat`, from the well-founded order of the naturals). A recursive function or a fold is first
shown to exist, as the function that the definition chooses (`LineageExists`, `SumExists`,
`FoldExists`), and then satisfies its own equation.

The assumptions are the named ones of the modules (`DecayConfig`, `ProcessKinds`,
`ReclaimConfig`, `DaemonConfig`, `GovernorConfig`, `MonitorConfig`, `PidNumbers`, `ProcNumbers`,
`MenuTrees`, `MenuTexts`, `SpotLists`, `SpotQueries`), which TLC
evaluates on every run that uses them. They say that the constants have their types, the soft
threshold is not above the hard one, process numbers and ids are finite, there are
at least as many ids as pids, a process of `Classifier` other than the first is not number 0
or 1, the children of a menu's node are nodes of it, titles and phrases are texts, and desktop files, actions and the clipboard
history are lists. `SettlingProofs`, `DesktopProofs` and `PanelProofs` need none. `FamiliesStay` and `FoundersAreTopmost` are
about machines whose numbers ascend from parent to child, which the properties say themselves.

**Only model-checked:** the liveness properties, which are out of the prover's reach
(`VisibleRuns`, `SettlesToPowersave`, `BuildIsBoosted`, `OnScreenSeen`, `HiddenFades`,
`StopReturns`, `ServerAnswers`, and all that converges or takes hold in `settling`). Every
invariant and every action property of the passing runs is stated by a theorem. The violations are
counterexamples of TLC.

## 5. Order of the work, and what could follow

The daemon came first (types, ownership, who may be harmed), then the threads and algorithms it
reads (monitor, governor, bootstrap, classifier), its promise (`Custody`), and the programs in
the order of their hazards. What could follow:

1. `Daemon` with the birth of each process number, to say that no step harms a process
   the tick did not read; statements about protected children born in the frozen slice.
2. Failing writes of the cgroup controller, and a `Drive` split at its system calls.
3. The browser's downloads, and the rendering of a theme into other programs' files.

## 6. Not modelled

- **Data and I/O.** Parsing of `/proc`, `/proc/meminfo`, D-Bus and JSON formats, the token
  lists of the classifier beyond one of each kind, the readings of `detect()`, cgroup weights
  (they decide nothing), and failing system calls of the daemon other than those of `publish()`.
- **Code that nothing runs.** `titan-media-hud/src/systemcontroller.cpp` is compiled into no
  target; `newtabwidget.cpp` and `settingswidget.cpp` of the browser are instantiated
  nowhere; the custom gains of the equalizer are reached from no page; the guard's
  `main.rs` is not built; `has_live_children` of the ownership graph has no caller.
- **Display only.** `audioprofilecontroller.cpp` shows a file (it connects to `fileChanged` alone,
  so that the creation of the file goes unnoticed until the next start); battery, uptime,
  displays, wallpapers and system information are forms over tools or read facts.
- **Programs that keep no state.** The information tool, the scripts of the live image and the
  build scripts.
- **Seen while modelling, and in no run.** A process that was frozen has its SIGTERM pending
  until the SIGKILL; the two bands of the governor's hysteresis are the levels below
  HIGH, so a build at the boundary alternates between PERFORMANCE and SCHEDUTIL; and focus outlives
  the session it was reported in. No document of the repository says otherwise of the
  last two, and they are noted here, at the hazards, or in the properties' premises. Two
  overlays that start at a time may leave one that nobody reaches, and two runs of titan-theme may
  leave a file that does not parse; the properties except exactly these.
