--------------------------- MODULE SettlingProofs ---------------------------
(***************************************************************************)
(* Machine-checked proofs that nobody who watches the daemon goes back in time, *)
(* for every number of clients and any length of life, and that the audio page   *)
(* survives its application, for every profile and width.                       *)
(***************************************************************************)
EXTENDS Telemetry, SettingsAudio, TLAPS

\* What a reader has was published before it was shared, but for the ticks at which publish met
\* an error; a whole state file is of no older tick than what the monitor showed last; and it
\* is torn only after a rename that failed.
Told == log.published \cup log.failed

Published ==
  /\ ticks \in Nat
  /\ log.published \subseteq Nat /\ log.failed \subseteq Nat
  /\ DOMAIN log = {"published", "failed", "inPlace"}
  /\ stateFile \in 0..ticks \cup {Torn} /\ (stateFile = Torn => log.inPlace)
  /\ DOMAIN sysmon = {"shows", "last"} /\ sysmon.last \in 0..ticks
  /\ sysmon.shows \in {Absent, sysmon.last}
  /\ stateFile # Torn => sysmon.last <= stateFile
  /\ shared \in Told \cup {Absent}
  /\ client \in [Clients -> [pc : {"off", "connected", "sent", "gone"}, answer : Told \cup {Absent}]]
  /\ daemon = "rename" => tmp = ticks
  /\ daemon = "fallback" => log.inPlace
  /\ daemon = "share" => ticks \in Told

LEMMA PublishedInit == TelemetryInit => Published
BY DEF TelemetryInit, Published, Told, Absent, Torn, Quiet

\* What a step of publish does to the log: nothing, or the tick is added to one of its sets.
Logs ==
  /\ DOMAIN log' = DOMAIN log
  /\ log'.published \subseteq Nat /\ log'.failed \subseteq Nat
  /\ Told \subseteq Told'
  /\ log.inPlace => log'.inPlace

LEMMA LogSteps ==
  ASSUME Published
  PROVE  /\ UNCHANGED log => Logs /\ Told' = Told /\ log'.inPlace = log.inPlace
         /\ Succeeds => Logs /\ ticks \in Told' /\ log'.inPlace = log.inPlace
         /\ Fails => Logs /\ ticks \in Told' /\ log'.inPlace = log.inPlace
         /\ log' = [log EXCEPT !.inPlace = TRUE] => Logs /\ log'.inPlace
<1>1. UNCHANGED log => Logs /\ Told' = Told /\ log'.inPlace = log.inPlace
  BY DEF Published, Logs, Told
<1>2. Succeeds => Logs /\ ticks \in Told' /\ log'.inPlace = log.inPlace
  BY DEF Published, Logs, Told, Succeeds
<1>3. Fails => Logs /\ ticks \in Told' /\ log'.inPlace = log.inPlace
  BY DEF Published, Logs, Told, Fails
<1>4. ASSUME NEW yes, log' = [log EXCEPT !.inPlace = yes]
      PROVE  /\ DOMAIN log' = DOMAIN log /\ log'.inPlace = yes
             /\ log'.published = log.published /\ log'.failed = log.failed
  BY <1>4 DEF Published
<1>5. log' = [log EXCEPT !.inPlace = TRUE] => Logs /\ log'.inPlace
  BY <1>4 DEF Published, Logs, Told
<1> QED BY <1>1, <1>2, <1>3, <1>5

\* The readers keep what they have while the log grows.
LEMMA ReadersKeep ==
  ASSUME Published, Logs, shared' = shared, client' = client
  PROVE  /\ shared' \in Told' \cup {Absent}
         /\ client' \in [Clients -> [pc : {"off", "connected", "sent", "gone"}, answer : Told' \cup {Absent}]]
BY DEF Published, Logs

\* What a step does to the file, for the monitor: nothing, the last tick, or it is torn.
Advances ==
  \/ stateFile' = stateFile
  \/ stateFile' = ticks
  \/ stateFile' = Torn /\ log'.inPlace

LEMMA Publishes ==
  ASSUME Published, WriteTmp \/ Rename \/ FallBack
  PROVE  Published' /\ Advances /\ sysmon' = sysmon /\ Logs
<1>0. /\ ticks' = ticks /\ sysmon' = sysmon /\ shared' = shared /\ client' = client
  BY DEF WriteTmp, Rename, FallBack, serverVars
<1>1. CASE WriteTmp
  <2>1. Logs /\ log'.inPlace = log.inPlace /\ (daemon' = "share" => ticks \in Told')
    BY <1>1, LogSteps DEF WriteTmp, Published
  <2>2. stateFile' = stateFile /\ (daemon' = "rename" => tmp' = ticks) /\ daemon' # "fallback"
    BY <1>1 DEF WriteTmp
  <2> QED BY <1>0, <2>1, <2>2, ReadersKeep DEF Published, Advances, Logs
<1>2. CASE Rename
  <2>1. CASE daemon' = "share"
    <3>1. stateFile' = ticks /\ Succeeds
      BY <1>2, <2>1 DEF Rename, Published
    <3>2. Logs /\ ticks \in Told' /\ log'.inPlace = log.inPlace
      BY <3>1, LogSteps
    <3> QED BY <1>0, <2>1, <3>1, <3>2, ReadersKeep DEF Published, Advances, Logs, Torn
  <2>2. CASE daemon' = "fallback"
    <3>1. stateFile' = stateFile /\ log' = [log EXCEPT !.inPlace = TRUE]
      BY <1>2, <2>2 DEF Rename
    <3>2. Logs /\ log'.inPlace
      BY <3>1, LogSteps
    <3> QED BY <1>0, <2>2, <3>1, <3>2, ReadersKeep DEF Published, Advances, Logs
  <2> QED BY <1>2, <2>1, <2>2 DEF Rename
<1>3. CASE FallBack
  <2>1. /\ Logs /\ log.inPlace /\ log'.inPlace = log.inPlace
        /\ daemon' \in {"fallback", "share"} /\ (daemon' = "share" => ticks \in Told')
    BY <1>3, LogSteps DEF FallBack, Published
  <2>2. stateFile' \in {stateFile, ticks, Torn}
    BY <1>3 DEF FallBack
  <2> QED BY <1>0, <2>1, <2>2, ReadersKeep DEF Published, Advances, Logs, Torn
<1> QED BY <1>1, <1>2, <1>3

\* The steps that leave the file, its log and the monitor alone.
Leaves == stateFile' = stateFile /\ sysmon' = sysmon /\ log' = log /\ Told' = Told

LEMMA DaemonTicks ==
  ASSUME Published, StartServer \/ BuildSnapshot \/ Share
  PROVE  Published' /\ Leaves
BY DEF StartServer, BuildSnapshot, Share, Published, Leaves, Told, fileVars, serverVars, Absent

\* The end of a connection keeps the answer.
LEMMA ClosedKeeps ==
  ASSUME Published, NEW who
  PROVE  Closed(who) \in [Clients -> [pc : {"off", "connected", "sent", "gone"}, answer : Told \cup {Absent}]]
BY DEF Published, Closed

LEMMA DaemonEnds ==
  ASSUME Published, Stop \/ Joined \/ DaemonCrash \/ PollReturns
  PROVE  Published' /\ Leaves
BY ClosedKeeps DEF Stop, Joined, DaemonCrash, PollReturns, Published, Leaves, Told, fileVars

LEMMA Answered ==
  ASSUME Published, ServeClient
  PROVE  Published' /\ Leaves
<1>1. client' \in [Clients -> [pc : {"off", "connected", "sent", "gone"}, answer : Told \cup {Absent}]]
  <2>1. CASE client[server].pc = "gone"
    BY <2>1 DEF ServeClient, Published, Quiet
  <2>2. CASE client[server].pc # "gone"
    BY <2>2 DEF ServeClient, Published
  <2> QED BY <2>1, <2>2
<1> QED BY <1>1 DEF ServeClient, Published, Leaves, Told, fileVars

LEMMA ClientSteps ==
  ASSUME Published, NEW c \in Clients, Connect(c) \/ Send(c) \/ ClientKilled(c)
  PROVE  Published' /\ Leaves
<1>1. CASE Connect(c)
  BY <1>1 DEF Connect, Published, Leaves, Told, fileVars
<1>2. CASE Send(c)
  BY <1>2 DEF Send, Published, Leaves, Told, fileVars, serverVars
<1>3. CASE ClientKilled(c)
  BY <1>3 DEF ClientKilled, Published, Leaves, Told, fileVars, serverVars
<1> QED BY <1>1, <1>2, <1>3

LEMMA Samples ==
  ASSUME Published, SampleThm
  PROVE  /\ Published' /\ stateFile' = stateFile /\ log' = log
         /\ sysmon'.last >= sysmon.last
         /\ ~log.inPlace => sysmon'.shows >= sysmon.shows
<1>1. /\ stateFile' = stateFile /\ log' = log /\ ticks' = ticks /\ daemon' = daemon /\ tmp' = tmp
      /\ shared' = shared /\ client' = client
  BY DEF SampleThm, fileVars, serverVars
<1>2. DOMAIN sysmon' = {"shows", "last"} /\ sysmon'.last >= sysmon.last
  BY DEF SampleThm, Published
<1>3. /\ sysmon'.last \in 0..ticks /\ sysmon'.shows \in {Absent, sysmon'.last}
      /\ stateFile # Torn => sysmon'.last = stateFile /\ sysmon'.shows = stateFile
      /\ stateFile = Torn => sysmon'.last = sysmon.last
  BY DEF SampleThm, Published
<1>4. Published'
  BY <1>1, <1>2, <1>3 DEF Published, Told
<1>5. ~log.inPlace => sysmon'.shows >= sysmon.shows
  BY <1>3 DEF Published, Absent
<1> QED BY <1>1, <1>2, <1>4, <1>5

\* The monitor never goes back to an older snapshot, loses none as long as no rename failed,
\* and no answer is ahead of the file but for the ticks whose publishing met an error, wherever
\* the daemon crashes, is stopped or started again (publish, ThmReader::read, the handler).
THEOREM NeverBack == TelemetrySpec => SnapshotsAdvance
<1> DEFINE Step == /\ sysmon'.last >= sysmon.last
                   /\ ~log'.inPlace => stateFile' >= stateFile /\ sysmon'.shows >= sysmon.shows
                   /\ \A c \in Clients :
                        client'[c].answer \in log'.published \cup log'.failed \cup {Absent}
<1>1. Published /\ [TelemetryNext]_telemetryVars => Published' /\ [Step]_telemetryVars
  <2> SUFFICES ASSUME Published, [TelemetryNext]_telemetryVars
               PROVE  Published' /\ [Step]_telemetryVars
    OBVIOUS
  <2>1. CASE UNCHANGED telemetryVars
    BY <2>1 DEF telemetryVars, Published, Told
  <2>2. CASE TelemetryNext
    <3>1. /\ Published'
          /\ \/ Advances /\ sysmon' = sysmon /\ Logs
             \/ Leaves
             \/ SampleThm
      BY <2>2, Publishes, DaemonTicks, DaemonEnds, Answered, ClientSteps, Samples DEF TelemetryNext
    <3>2. \A c \in Clients : client'[c].answer \in log'.published \cup log'.failed \cup {Absent}
      BY <3>1 DEF Published, Told
    <3>3. sysmon'.last >= sysmon.last /\ (~log'.inPlace => sysmon'.shows >= sysmon.shows)
      <4>1. CASE SampleThm
        BY <4>1, Samples
      <4>2. CASE sysmon' = sysmon
        BY <4>2 DEF Published, Absent
      <4> QED BY <3>1, <4>1, <4>2 DEF Leaves
    <3>4. ~log'.inPlace => stateFile' >= stateFile
      <4>1. CASE Advances /\ Logs
        <5>1. ~log'.inPlace => stateFile' \in {stateFile, ticks} /\ stateFile # Torn
          BY <4>1 DEF Advances, Logs, Published
        <5> QED BY <5>1 DEF Published
      <4>2. CASE stateFile' = stateFile
        BY <4>2 DEF Published, Torn
      <4> QED BY <3>1, <4>1, <4>2, Samples DEF Leaves
    <3> QED BY <3>1, <3>2, <3>3, <3>4
  <2> QED BY <2>1, <2>2
<1> QED BY <1>1, PublishedInit, PTL DEF TelemetrySpec, SnapshotsAdvance

-----------------------------------------------------------------------------
\* The audio page.  Its members and its files keep their fields, and the files what the page
\* shows.
AudioInv ==
  /\ DOMAIN audio = {"profile", "spatial", "width", "volume", "muted", "unread"}
  /\ DOMAIN audioFiles = {"eq", "spatial", "width", "widener"}
  /\ audio.spatial \in BOOLEAN
  /\ AudioSurvives

\* A handler that applies the equalizer writes what it shows, or shows a profile the code
\* does not know.
LEMMA ApplyWrites ==
  ASSUME NEW a, NEW files, DOMAIN files = {"eq", "spatial", "width", "widener"}
  PROVE  LET now == ApplyEqProfile(a, files)
         IN /\ DOMAIN now = DOMAIN files
            /\ now.spatial = files.spatial /\ now.width = files.width /\ now.widener = files.widener
            /\ a.profile \in KnownProfiles => now.eq = [profile |-> a.profile, gains |-> Gains(a)]
BY DEF ApplyEqProfile, Applies

LEMMA WidenerWrites ==
  ASSUME NEW a, NEW files, DOMAIN files = {"eq", "spatial", "width", "widener"}
  PROVE  LET now == ApplySpatialAudio(a, files)
         IN /\ DOMAIN now = DOMAIN files
            /\ now.spatial = files.spatial /\ now.width = files.width /\ now.eq = files.eq
            /\ now.widener = IF a.spatial THEN a.width ELSE -1
BY DEF ApplySpatialAudio

LEMMA AudioStart == AudioInit => AudioInv
<1> SUFFICES ASSUME AudioInit PROVE AudioInv
  OBVIOUS
<1> DEFINE files == [eq |-> NoConf, spatial |-> FALSE, width |-> 80]
           a == Loaded(files)
<1>1. files.eq.profile = "none" /\ ~files.spatial /\ files.spatial \in BOOLEAN /\ files.width = 80
  BY DEF NoConf
<1> HIDE DEF files
<1>2. /\ DOMAIN a = {"profile", "spatial", "width", "volume", "muted", "unread"}
      /\ a.profile = "Flat" /\ a.spatial = files.spatial /\ a.width = 80
  BY <1>1 DEF Loaded, KnownProfiles
<1>3. PICK answers \in SUBSET Sides : audio = Synced(a, answers)
  BY DEF AudioInit, files
<1> HIDE DEF a
<1>4. /\ DOMAIN audio = DOMAIN a /\ audio.profile = "Flat"
      /\ audio.spatial = files.spatial /\ audio.width = 80
  BY <1>2, <1>3 DEF Synced
<1>5. Gains(audio) = "Flat"
  BY <1>1, <1>4 DEF Gains
<1> QED BY <1>1, <1>2, <1>4, <1>5 DEF AudioInit, AudioInv, AudioSurvives

\* What moves the volumes and the mutes only.
LEMMA LevelSteps ==
  ASSUME AudioInv,
         \/ Sync \/ VolumeElsewhere \/ UNCHANGED audioVars
         \/ \E s \in Sides : SetMuted(s) \/ \E v \in Levels : SetLevel(s, v)
         \/ \E i \in DOMAIN shells : ShellRuns(i)
  PROVE  AudioInv'
<1> DEFINE Same == /\ DOMAIN audio' = DOMAIN audio /\ audio'.profile = audio.profile
                   /\ audio'.spatial = audio.spatial /\ audio'.width = audio.width
                   /\ audioFiles' = audioFiles
<1>1. Sync => Same
  BY DEF AudioInv, Sync, Synced
<1>2. VolumeElsewhere \/ UNCHANGED audioVars \/ (\E i \in DOMAIN shells : ShellRuns(i)) => Same
  BY DEF VolumeElsewhere, ShellRuns, audioVars
<1>3. ASSUME NEW s \in Sides, SetMuted(s) \/ \E v \in Levels : SetLevel(s, v)
      PROVE  Same
  <2>1. CASE SetMuted(s)
    BY <2>1 DEF AudioInv, SetMuted
  <2>2. ASSUME NEW v \in Levels, SetLevel(s, v) PROVE Same
    BY <2>2 DEF AudioInv, SetLevel
  <2> QED BY <1>3, <2>1, <2>2
<1>4. Same
  BY <1>1, <1>2, <1>3
<1> QED BY <1>4 DEF AudioInv, AudioSurvives, Gains

LEMMA EqSteps ==
  ASSUME AudioInv, NEW p \in PageProfiles, SetActiveEqProfile(p)
  PROVE  AudioInv'
<1> DEFINE a == [audio EXCEPT !.profile = p]
<1>1. /\ DOMAIN a = DOMAIN audio /\ a.profile = p
      /\ a.spatial = audio.spatial /\ a.width = audio.width
  BY DEF AudioInv
<1>2. audio' = a /\ audioFiles' = ApplyEqProfile(a, audioFiles)
  BY DEF SetActiveEqProfile
<1> HIDE DEF a
<1> QED BY <1>1, <1>2, ApplyWrites DEF AudioInv, AudioSurvives

LEMMA SpatialSteps == ASSUME AudioInv, SetSpatialAudio PROVE AudioInv'
<1> DEFINE a == [audio EXCEPT !.spatial = ~@]
           saved == [audioFiles EXCEPT !.spatial = a.spatial]
<1>1. /\ DOMAIN a = DOMAIN audio /\ a.profile = audio.profile
      /\ a.spatial = ~audio.spatial /\ a.width = audio.width
  BY DEF AudioInv
<1>2. DOMAIN saved = DOMAIN audioFiles /\ saved.spatial = a.spatial /\ saved.width = audioFiles.width
  BY DEF AudioInv
<1>3. audio' = a /\ audioFiles' = ApplySpatialAudio(a, ApplyEqProfile(a, saved))
  BY DEF SetSpatialAudio
<1> HIDE DEF a, saved
<1>4. LET now == ApplyEqProfile(a, saved)
      IN /\ DOMAIN now = DOMAIN audioFiles
         /\ now.spatial = a.spatial /\ now.width = audioFiles.width
         /\ a.profile \in KnownProfiles => now.eq = [profile |-> a.profile, gains |-> Gains(a)]
  BY <1>2, ApplyWrites DEF AudioInv
<1> DEFINE now == ApplyEqProfile(a, saved)
<1>5. LET last == ApplySpatialAudio(a, now)
      IN /\ DOMAIN last = DOMAIN now
         /\ last.spatial = now.spatial /\ last.width = now.width /\ last.eq = now.eq
         /\ last.widener = IF a.spatial THEN a.width ELSE -1
  BY <1>4, WidenerWrites DEF AudioInv
<1>6. a.profile \in KnownProfiles => audioFiles'.eq = [profile |-> a.profile, gains |-> Gains(a)]
  BY <1>3, <1>4, <1>5
<1> QED BY <1>1, <1>3, <1>4, <1>5, <1>6 DEF AudioInv, AudioSurvives

LEMMA WidthSteps ==
  ASSUME AudioInv, NEW w \in Widths, SetSpatialWidth(w)
  PROVE  AudioInv'
<1> DEFINE a == [audio EXCEPT !.width = w]
           saved == [audioFiles EXCEPT !.width = w]
<1>1. /\ DOMAIN a = DOMAIN audio /\ a.profile = audio.profile
      /\ a.spatial = audio.spatial /\ a.width = w
  BY DEF AudioInv
<1>2. /\ DOMAIN saved = DOMAIN audioFiles /\ saved.spatial = audioFiles.spatial
      /\ saved.width = w /\ saved.eq = audioFiles.eq /\ saved.widener = audioFiles.widener
  BY DEF AudioInv
<1>3. /\ audio' = a
      /\ audioFiles' = IF a.spatial THEN ApplySpatialAudio(a, saved) ELSE saved
  BY DEF SetSpatialWidth
<1> HIDE DEF a, saved
<1>4. Gains(a) = Gains(audio)
  BY <1>1 DEF Gains
<1> QED BY <1>1, <1>2, <1>3, <1>4, WidenerWrites DEF AudioInv, AudioSurvives

\* The application reads its files, and writes the profile again.
LEMMA ReopenSteps == ASSUME AudioInv, Reopen PROVE AudioInv'
<1> DEFINE a == Loaded(audioFiles)
<1>1. /\ DOMAIN a = DOMAIN audio /\ a.profile \in KnownProfiles
      /\ a.spatial = audioFiles.spatial /\ a.width = audioFiles.width
  BY DEF AudioInv, Loaded, KnownProfiles
<1>2. /\ \E answers \in SUBSET Sides : audio' = Synced(a, answers)
      /\ audioFiles' = ApplyEqProfile(a, audioFiles)
  BY DEF Reopen, StartAudio
<1> HIDE DEF a
<1>3. /\ DOMAIN audio' = DOMAIN audio /\ audio'.profile = a.profile
      /\ audio'.spatial = a.spatial /\ audio'.width = a.width
  BY <1>1, <1>2 DEF Synced, AudioInv
<1>4. Gains(audio') = Gains(a)
  BY <1>3 DEF Gains
<1> QED BY <1>1, <1>2, <1>3, <1>4, ApplyWrites DEF AudioInv, AudioSurvives

\* For every set of profiles and widths, and whatever PipeWire and the scripts do: the files
\* hold what the page shows.
THEOREM AudioKept == AudioSpec => []AudioSurvives
<1>1. AudioInv /\ [AudioNext]_audioVars => AudioInv'
  BY LevelSteps, EqSteps, SpatialSteps, WidthSteps, ReopenSteps DEF AudioNext
<1>2. AudioInv => AudioSurvives
  BY DEF AudioInv
<1> QED BY <1>1, <1>2, AudioStart, PTL DEF AudioSpec
=============================================================================
