--------------------------- MODULE SettingsAudio ---------------------------
(***************************************************************************)
(* archtitan-settings: AudioBackend, the audio page's view of PipeWire, its   *)
(* equalizer and its spatial widening.                                      *)
(*                                                                          *)
(* The ten gains of a profile are the profile's name, "Flat" for none; the    *)
(* custom ones are loaded and no page changes them.  PipeWire (`pipe`) is     *)
(* external, as is the pactl subscription that reports each of its changes.    *)
(***************************************************************************)
EXTENDS Integers, Sequences

CONSTANTS
  PageProfiles,   \* the profiles AudioPage.qml offers
  Widths,         \* the widths that are chosen
  Levels,         \* the volumes that are chosen or set elsewhere
  MaxAudio        \* bound on changes

VARIABLES
  audio,        \* m_activeEqProfile, m_spatialAudio, m_spatialWidth, the volumes and mutes as
                \* shown, and (history) unread, the sides whose last wpctl did not answer
  audioFiles,   \* QSettings (spatial, width), archtitan-eq.conf and archtitan-spatial.conf
  pipe,         \* the volumes, the gains and the width that are loaded, where streams play
  shells,       \* the detached commands and scripts, with where they are
  listening,    \* pactl subscribe runs, m_monitorProcess
  debounce,     \* m_debounceTimer
  audioTouches

audioVars == <<audio, audioFiles, pipe, shells, listening, debounce, audioTouches>>

\* The names the code knows.
KnownProfiles == {"Flat", "Bass Boost", "Vocal", "Electronic", "Acoustic", "Custom"}
NoConf        == [profile |-> "none", gains |-> "none"]

Without(seq, i) == SubSeq(seq, 1, i - 1) \o SubSeq(seq, i + 1, Len(seq))

\* wpctl prints v/100, and (int)(toDouble() * 100) truncates.
Percent(v) == IF v \in {29, 57, 58} THEN v - 1 ELSE v

Sides == {"out", "mic"}

\* sync(): a wpctl that fails or is late leaves the volume as it was, and the side not muted.
Synced(a, answers) ==
  [a EXCEPT !.volume = [s \in Sides |-> IF s \in answers THEN Percent(pipe.volume[s]) ELSE a.volume[s]],
            !.muted = [s \in Sides |-> s \in answers /\ pipe.muted[s]],
            !.unread = Sides \ answers]

-----------------------------------------------------------------------------
\* What a handler leaves behind

Gains(a) == IF a.spatial THEN "Flat" ELSE a.profile

EqScript(a) == [what |-> "eq", gains |-> Gains(a), to |-> IF a.spatial THEN "spatial" ELSE "eq", at |-> "start"]

SpatialScript(a) == IF a.spatial THEN [what |-> "on", width |-> a.width, to |-> "spatial", at |-> "start"]
                    ELSE [what |-> "off", to |-> "eq", at |-> "start"]

\* applyEqProfile: with spatial audio any name is written, else the known ones.
Applies(a) == a.spatial \/ a.profile \in KnownProfiles

ApplyEqProfile(a, files) ==
  IF Applies(a) THEN [files EXCEPT !.eq = [profile |-> a.profile, gains |-> Gains(a)]] ELSE files

EqShells(a) == IF Applies(a) THEN <<EqScript(a)>> ELSE <<>>

ApplySpatialAudio(a, files) ==
  [files EXCEPT !.widener = IF a.spatial THEN a.width ELSE -1]

\* The members as the constructor reads them.
Loaded(files) ==
  [profile |-> IF files.eq.profile \in KnownProfiles THEN files.eq.profile ELSE "Flat",
   spatial |-> files.spatial, width |-> files.width,
   volume |-> [s \in Sides |-> IF s = "out" THEN 70 ELSE 80],
   muted  |-> [s \in Sides |-> FALSE], unread |-> {}]

\* The application starts: the settings, the profile of the file, applied again, and sync.
StartAudio(files) ==
  /\ \E answers \in SUBSET Sides : audio' = Synced(Loaded(files), answers)
  /\ audioFiles' = ApplyEqProfile(Loaded(files), files)
  /\ shells' = shells \o EqShells(Loaded(files))
  /\ listening' = TRUE /\ debounce' = FALSE

-----------------------------------------------------------------------------
\* Actions

AudioInit ==
  /\ pipe = [volume |-> [s \in Sides |-> 70], muted |-> [s \in Sides |-> FALSE],
             eq |-> "none", widener |-> -1, streams |-> "default"]
  /\ \E answers \in SUBSET Sides :
       audio = Synced(Loaded([eq |-> NoConf, spatial |-> FALSE, width |-> 80]), answers)
  /\ audioFiles = [eq |-> [profile |-> "Flat", gains |-> "Flat"], spatial |-> FALSE, width |-> 80, widener |-> -1]
  /\ shells = EqShells(audio) /\ listening = TRUE /\ debounce = FALSE /\ audioTouches = 0

Touched == audioTouches < MaxAudio /\ audioTouches' = audioTouches + 1

\* The members come before the command that carries them out.
SetLevel(s, v) ==
  /\ Touched /\ v # audio.volume[s]
  /\ audio' = [audio EXCEPT !.volume[s] = v]
  /\ shells' = Append(shells, [what |-> "volume", of |-> s, volume |-> v, at |-> "start"])
  /\ UNCHANGED <<audioFiles, pipe, listening, debounce>>

SetMuted(s) ==
  /\ Touched
  /\ audio' = [audio EXCEPT !.muted[s] = ~@]
  /\ shells' = Append(shells, [what |-> "mute", of |-> s, muted |-> ~audio.muted[s], at |-> "start"])
  /\ UNCHANGED <<audioFiles, pipe, listening, debounce>>

SetActiveEqProfile(p) ==
  /\ Touched /\ p # audio.profile
  /\ LET a == [audio EXCEPT !.profile = p]
     IN audio' = a /\ audioFiles' = ApplyEqProfile(a, audioFiles) /\ shells' = shells \o EqShells(a)
  /\ UNCHANGED <<pipe, listening, debounce>>

\* Toggling with the equalizer left as it is.
SetSpatialOnly ==
  /\ Touched
  /\ LET a == [audio EXCEPT !.spatial = ~@]
     IN /\ audio' = a
        /\ audioFiles' = ApplySpatialAudio(a, [audioFiles EXCEPT !.spatial = a.spatial])
        /\ shells' = Append(shells, SpatialScript(a))
  /\ UNCHANGED <<pipe, listening, debounce>>

SetSpatialAudio ==
  /\ Touched
  /\ LET a == [audio EXCEPT !.spatial = ~@]
         saved == [audioFiles EXCEPT !.spatial = a.spatial]
     IN /\ audio' = a
        /\ audioFiles' = ApplySpatialAudio(a, ApplyEqProfile(a, saved))
        /\ shells' = shells \o EqShells(a) \o <<SpatialScript(a)>>
  /\ UNCHANGED <<pipe, listening, debounce>>

SetSpatialWidth(w) ==
  /\ Touched /\ w # audio.width
  /\ LET a == [audio EXCEPT !.width = w]
         saved == [audioFiles EXCEPT !.width = w]
     IN /\ audio' = a
        /\ audioFiles' = IF a.spatial THEN ApplySpatialAudio(a, saved) ELSE saved
        /\ shells' = IF a.spatial THEN Append(shells, SpatialScript(a)) ELSE shells
  /\ UNCHANGED <<pipe, listening, debounce>>

\* The application is closed and opened; the shells it left go on.
Reopen == Touched /\ StartAudio(audioFiles) /\ UNCHANGED pipe

\* What is reported while a command of one's own runs is taken for its echo.
PactlReportsUnlessBusy == debounce' = (debounce \/ (listening /\ shells = <<>>))

\* A line of pactl starts the timer again.
PactlReports == debounce' = (debounce \/ listening)

Sync ==
  /\ debounce /\ debounce' = FALSE
  /\ \E answers \in SUBSET Sides : audio' = Synced(audio, answers)
  /\ UNCHANGED <<audioFiles, pipe, shells, listening, audioTouches>>

\* A start of the filter chain loads what the files say.
LoadChain == [pipe EXCEPT !.eq = audioFiles.eq.gains, !.widener = audioFiles.widener, !.streams = "default"]

\* move-sink-input to a sink that is not there fails.
MoveStreams(p, to) ==
  IF (to = "eq" /\ p.eq # "none") \/ (to = "spatial" /\ p.widener # -1)
  THEN [p EXCEPT !.streams = to] ELSE p

\* A restart of pipewire-pulse ends pactl, and nothing starts it again.
RestartsPipe(c) == c.at = "start" /\ (c.what = "off" \/ (c.what = "on" /\ pipe.widener = -1))

\* wpctl, or a step of a script: the nodes that are loaded are set as they run, else they
\* are loaded, and the streams moved after a while.
ShellRuns(i) ==
  LET c == shells[i]
      Ends == shells' = Without(shells, i)
      Goes == shells' = [shells EXCEPT ![i].at = "move"]
  IN /\ CASE c.what = "volume" -> pipe' = [pipe EXCEPT !.volume[c.of] = c.volume] /\ Ends
          [] c.what = "mute"   -> pipe' = [pipe EXCEPT !.muted[c.of] = c.muted] /\ Ends
          [] c.at = "move"     -> pipe' = MoveStreams(pipe, c.to) /\ Ends
          [] c.what = "eq" /\ pipe.eq # "none" ->
               pipe' = MoveStreams([pipe EXCEPT !.eq = c.gains], c.to) /\ Ends
          [] c.what = "on" /\ pipe.widener # -1 -> pipe' = [pipe EXCEPT !.widener = c.width] /\ Ends
          [] OTHER -> pipe' = LoadChain /\ Goes
     /\ listening' = (listening /\ ~RestartsPipe(c))
     /\ PactlReports
  /\ UNCHANGED <<audio, audioFiles, audioTouches>>

\* External: a key, the bar or another program.
VolumeElsewhere ==
  /\ Touched /\ PactlReports
  /\ \E s \in Sides, v \in Levels : pipe' = [pipe EXCEPT !.volume[s] = v]
  /\ UNCHANGED <<audio, audioFiles, shells, listening>>

AudioNext ==
  \/ Sync \/ Reopen \/ VolumeElsewhere \/ SetSpatialAudio
  \/ \E s \in Sides : SetMuted(s) \/ \E v \in Levels : SetLevel(s, v)
  \/ \E p \in PageProfiles : SetActiveEqProfile(p)
  \/ \E w \in Widths : SetSpatialWidth(w)
  \/ \E i \in DOMAIN shells : ShellRuns(i)

\* Detached processes run, and the event loop fires its timers.
AudioFairness == WF_audioVars(Sync) /\ WF_audioVars(\E i \in DOMAIN shells : ShellRuns(i))

AudioSpec == AudioInit /\ [][AudioNext]_audioVars /\ AudioFairness

-----------------------------------------------------------------------------
\* Properties

\* Closing the application, or a restart of PipeWire, loses nothing of what the page shows:
\* the files hold its switch, its width and, for a profile the code knows, the profile with
\* the gains that go with the switch (the setters of AudioBackend against what they write).
AudioSurvives ==
  /\ audioFiles.spatial = audio.spatial /\ audioFiles.width = audio.width
  /\ audioFiles.widener = IF audio.spatial THEN audio.width ELSE -1
  /\ audio.profile \in KnownProfiles => audioFiles.eq = [profile |-> audio.profile, gains |-> Gains(audio)]

\* The profile that is shown is the one the next start shows (wiki/Audio-System.md, "The
\* active profile name is stored ... for persistence across reboots").
ProfileSurvives == Loaded(audioFiles).profile = audio.profile

\* The page shows the volume and the mute PipeWire has, but for the percent that the
\* conversion loses.
PageFits(s) ==
  /\ audio.muted[s] = pipe.muted[s]
  /\ audio.volume[s] \in {pipe.volume[s], pipe.volume[s] - 1}

\* Whoever sets it, in whatever order the commands run, a side of the page comes to fit for
\* as long as the page hears of changes and wpctl answered when it last asked.  Nothing asks
\* again before the next change, so a side that was not answered stays wrong, and shown as
\* not muted (setMasterVolume against sync).
HeardIsShown == <>[](listening => \A s \in Sides \ audio.unread : PageFits(s))
=============================================================================
