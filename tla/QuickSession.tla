---------------------------- MODULE QuickSession ----------------------------
(***************************************************************************)
(* The other switches of titan-quicksettings: AudioController, brightness,     *)
(* screen recording, caffeine and game mode of SystemController, and            *)
(* NightLightController.                                                       *)
(*                                                                          *)
(* A switch changes what is shown and starts a command; timers read back the    *)
(* sound, the brightness and the recorder, and nothing reads back caffeine, game *)
(* mode or the night light.  The machine (`desk`) is external.  Volumes are in   *)
(* percent.                                                                    *)
(***************************************************************************)
EXTENDS Integers, FiniteSets

CONSTANTS
  Volumes,     \* what the sliders ask for
  MaxTaps      \* bound on how often the panel is touched

VARIABLES
  desk,        \* the truth
  shown,       \* the members of the controllers
  started,     \* the commands started and not run: [no, cmd, arg]
  taps         \* how often the panel was touched

sessionVars == <<desk, shown, started, taps>>

Clamp(lo, v, hi) == IF v < lo THEN lo ELSE IF v > hi THEN hi ELSE v

-----------------------------------------------------------------------------

SessionInit ==
  /\ desk = [muted |-> FALSE, volume |-> 50, mic |-> FALSE, bright |-> 50,
             recorders |-> 0, inhibitors |-> 0, plain |-> FALSE, filter |-> FALSE]
  /\ shown = [muted |-> FALSE, volume |-> 50, mic |-> FALSE, bright |-> 50,
              recording |-> FALSE, caffeine |-> FALSE, game |-> FALSE, night |-> FALSE]
  /\ started = {} /\ taps = 0

Tap == taps < MaxTaps /\ taps' = taps + 1

StartCmd(cmd, arg) == started' = started \cup {[no |-> taps, cmd |-> cmd, arg |-> arg]}

\* A relative command: it inverts what it finds.
ToggleSinkMute ==
  /\ Tap /\ StartCmd("mute", TRUE)
  /\ shown' = [shown EXCEPT !.muted = ~@]
  /\ UNCHANGED desk

ToggleSourceMute ==
  /\ Tap /\ StartCmd("mic", TRUE)
  /\ shown' = [shown EXCEPT !.mic = ~@]
  /\ UNCHANGED desk

\* The slider shows unmuted, and sends the volume only.
SetVolume(v) ==
  /\ Tap /\ StartCmd("volume", Clamp(0, v, 150))
  /\ shown' = [shown EXCEPT !.volume = Clamp(0, v, 150), !.muted = FALSE]
  /\ UNCHANGED desk

SetBrightness(v) ==
  /\ Tap /\ StartCmd("bright", Clamp(0, v, 100))
  /\ shown' = [shown EXCEPT !.bright = Clamp(0, v, 100)]
  /\ UNCHANGED desk

\* startDetached returns when the program runs: the inhibitor is there at once.
SetCaffeineActive(active) ==
  /\ Tap
  /\ shown' = [shown EXCEPT !.caffeine = active]
  /\ IF active THEN desk' = [desk EXCEPT !.inhibitors = @ + 1] /\ UNCHANGED started
     ELSE StartCmd("pkill", TRUE) /\ UNCHANGED desk

\* So is wf-recorder.
ToggleScreenRecording ==
  /\ Tap
  /\ shown' = [shown EXCEPT !.recording = ~@]
  /\ IF shown.recording THEN StartCmd("killall", TRUE) /\ UNCHANGED desk
     ELSE desk' = [desk EXCEPT !.recorders = @ + 1] /\ UNCHANGED started

SetGameModeActive(active) ==
  /\ Tap /\ StartCmd("game", active)
  /\ shown' = [shown EXCEPT !.game = active]
  /\ UNCHANGED desk

\* The script that should start a filter is refused by the shell: `& ||` is no syntax.
ToggleNightLight ==
  /\ Tap
  /\ shown' = [shown EXCEPT !.night = ~@]
  /\ IF shown.night THEN StartCmd("unfilter", TRUE) ELSE UNCHANGED started
  /\ UNCHANGED desk

QueryAudioUnmuting(s, answers) ==
  IF "sink" \in answers THEN [s EXCEPT !.volume = desk.volume, !.muted = @ /\ desk.muted] ELSE s

\* AudioController::queryStatus, each read on time or not.
QueryAudio(s, answers) ==
  LET sink == IF "sink" \in answers
              THEN [s EXCEPT !.muted = desk.muted, !.volume = desk.volume] ELSE s
  IN IF "source" \in answers THEN [sink EXCEPT !.mic = desk.mic] ELSE sink

UpdateScreenRecording(s, answers) ==
  IF "pgrep" \in answers THEN [s EXCEPT !.recording = desk.recorders > 0] ELSE s

\* The timer of SystemController and `refresh` read files, then ask pgrep.
UpdateBrightness(s) == [s EXCEPT !.bright = desk.bright]

AudioPoll(answers) ==
  /\ shown' = QueryAudio(shown, answers)
  /\ UNCHANGED <<desk, started, taps>>

SystemPoll(answers) ==
  /\ shown' = UpdateScreenRecording(UpdateBrightness(shown), answers)
  /\ UNCHANGED <<desk, started, taps>>

\* External: a command runs.
DeskRuns(c) ==
  /\ started' = started \ {c}
  /\ desk' = CASE c.cmd = "mute"     -> [desk EXCEPT !.muted = ~@]
               [] c.cmd = "mic"      -> [desk EXCEPT !.mic = ~@]
               [] c.cmd = "volume"   -> [desk EXCEPT !.volume = c.arg]
               [] c.cmd = "bright"   -> [desk EXCEPT !.bright = c.arg]
               [] c.cmd = "pkill"    -> [desk EXCEPT !.inhibitors = 0]
               [] c.cmd = "killall"  -> [desk EXCEPT !.recorders = 0]
               [] c.cmd = "game"     -> [desk EXCEPT !.plain = c.arg]
               [] c.cmd = "unfilter" -> [desk EXCEPT !.filter = FALSE]
  /\ UNCHANGED <<shown, taps>>

\* External: the volume keys, or another program.
DeskChanges ==
  /\ Tap
  /\ \/ desk' = [desk EXCEPT !.muted = ~@]
     \/ \E v \in Volumes : desk' = [desk EXCEPT !.volume = Clamp(0, v, 150)]
     \/ desk' = [desk EXCEPT !.recorders = 1 - Clamp(0, @, 1)]
  /\ UNCHANGED <<shown, started>>

\* The panel starts again: constructors read the truth, and what nobody reads is off.
PanelRestarts ==
  /\ Tap
  /\ shown' = [UpdateScreenRecording(UpdateBrightness(QueryAudio(shown, {"sink", "source"})), {"pgrep"})
                 EXCEPT !.caffeine = FALSE, !.game = FALSE, !.night = desk.filter]
  /\ UNCHANGED <<desk, started>>

SessionNext ==
  \/ ToggleSinkMute \/ ToggleSourceMute
  \/ \E v \in Volumes : SetVolume(v) \/ SetBrightness(v)
  \/ SetCaffeineActive(~shown.caffeine) \/ SetGameModeActive(~shown.game)
  \/ ToggleScreenRecording \/ ToggleNightLight
  \/ \E answers \in SUBSET {"sink", "source"} : AudioPoll(answers)
  \/ \E answers \in SUBSET {"pgrep"} : SystemPoll(answers)
  \/ \E c \in started : DeskRuns(c)
  \/ DeskChanges \/ PanelRestarts

\* Commands run, and the timers' reads answer again and again.
SessionFairness ==
  /\ WF_sessionVars(\E c \in started : DeskRuns(c))
  /\ WF_sessionVars(AudioPoll({"sink", "source"}))
  /\ WF_sessionVars(SystemPoll({"pgrep"}))

SessionSpec == SessionInit /\ [][SessionNext]_sessionVars /\ SessionFairness

-----------------------------------------------------------------------------
\* Properties

\* When the panel is no longer touched, the sound, the brightness and the recorder it
\* shows are the machine's, although relative commands were sent from stale members and
\* ran in any order (toggleSinkMute, setVolume, queryStatus, updateScreenRecording).
SessionConverges ==
  <>[](/\ shown.muted = desk.muted /\ shown.volume = desk.volume /\ shown.mic = desk.mic
       /\ shown.bright = desk.bright /\ shown.recording = (desk.recorders > 0))
=============================================================================
