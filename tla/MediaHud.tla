------------------------------ MODULE MediaHud ------------------------------
(***************************************************************************)
(* titan-media-hud: MprisController, MediaIslandController and the island of  *)
(* MediaIsland.qml.                                                           *)
(*                                                                          *)
(* One event loop.  `playerctl --follow` writes a line whenever the player     *)
(* changes; a line with a new track makes the island pop up for four seconds.  *)
(* The user and the commands of the socket open, expand and dismiss it.  The    *)
(* player and playerctl are external.  Position, volume, shuffle and loop are    *)
(* values read for display and are left out.                                    *)
(***************************************************************************)
EXTENDS Integers, Sequences, FiniteSets

CONSTANTS
  Tracks,        \* what may play: [title, art], art "" or "file" or the name of a remote picture
  MaxMedia       \* bound on how often somebody acts or the player changes

VARIABLES
  island,        \* MediaIslandController: [state, hide, bounce]
  popped,        \* history: it came up by itself and nobody touched it since
  player,        \* the truth: [status, track], status "none" without a player
  follow,        \* m_process: [alive, lines]
  mpris,         \* MprisController
  art,           \* remote pictures: [asked, cached]
  mediaActs      \* how often somebody acted

mediaVars == <<island, popped, player, follow, mpris, art, mediaActs>>

NoTrack == [title |-> "", art |-> ""]

-----------------------------------------------------------------------------
\* MediaIslandController

\* Presses during an animation are ignored.
Toggled(i) ==
  CASE i.state = "Hidden" -> [i EXCEPT !.state = "Opening", !.hide = FALSE]
    [] i.state \in {"Compact", "Expanded"} -> [i EXCEPT !.state = "Closing", !.hide = FALSE]
    [] OTHER -> i

Dismissed(i) ==
  IF i.state \in {"Compact", "Expanded"} THEN [i EXCEPT !.state = "Closing", !.hide = FALSE] ELSE i

\* The window answers requestExpand and requestCollapse at once.
Expanded(i)  == IF i.state = "Compact" THEN [i EXCEPT !.state = "Expanded", !.hide = FALSE] ELSE i
Collapsed(i) == IF i.state = "Expanded" THEN [i EXCEPT !.state = "Compact"] ELSE i

AutoPopupLater(i) ==
  IF i.state # "Hidden" \/ i.bounce THEN i
  ELSE [i EXCEPT !.state = "Opening", !.bounce = TRUE]

AutoPopup(i) ==
  IF i.state # "Hidden" \/ i.bounce THEN i
  ELSE [state |-> "Opening", hide |-> TRUE, bounce |-> TRUE]

-----------------------------------------------------------------------------
\* MprisController::parseMetadataLine

\* A picture that is cached or local is shown at once, another is asked for, and the old
\* one stays meanwhile.
ArtShown(m, url) ==
  IF url = m.raw THEN m.shown
  ELSE IF url \in {"", "file"} \cup art.cached THEN url ELSE m.shown

ArtAsked(m, url) ==
  IF url \in {m.raw, "", "file"} \cup art.cached THEN art
  ELSE [art EXCEPT !.asked = @ \cup {url}]

Parse(line) ==
  LET t   == line.track
      new == t.title # "" /\ t.title # mpris.last
  IN /\ mpris' = [hasMedia |-> t.title # "" /\ line.status \in {"Playing", "Paused"},
                  status |-> line.status, title |-> t.title,
                  last |-> IF new THEN t.title ELSE mpris.last,
                  raw |-> t.art, shown |-> ArtShown(mpris, t.art)]
     /\ art' = ArtAsked(mpris, t.art)
     /\ island' = IF new THEN AutoPopup(island) ELSE island
     /\ popped' = (popped \/ (new /\ island.state = "Hidden" /\ ~island.bounce))

-----------------------------------------------------------------------------
\* Actions

Acts == mediaActs < MaxMedia /\ mediaActs' = mediaActs + 1

MediaInit ==
  /\ island = [state |-> "Hidden", hide |-> FALSE, bounce |-> FALSE]
  /\ popped = FALSE /\ mediaActs = 0
  /\ player = [status |-> "none", track |-> NoTrack]
  /\ follow = [alive |-> TRUE, lines |-> <<>>]
  /\ mpris = [hasMedia |-> FALSE, status |-> "Stopped", title |-> "", last |-> "",
              raw |-> "", shown |-> ""]
  /\ art = [asked |-> {}, cached |-> {}]

\* External: playerctl reports the player as it is when it starts, and every change.  Of no
\* player it has nothing to say.
Reported(lines, p) == IF p.status = "none" THEN lines ELSE Append(lines, p)

PlayerChanges ==
  /\ Acts
  /\ \E p \in [status : {"Playing", "Paused", "Stopped"}, track : Tracks]
              \cup {[status |-> "none", track |-> NoTrack]} :
       /\ p # player /\ player' = p
       /\ follow' = IF follow.alive THEN [follow EXCEPT !.lines = Reported(@, p)] ELSE follow
  /\ UNCHANGED <<island, popped, mpris, art>>

FollowDies ==
  /\ Acts /\ follow.alive
  /\ follow' = [follow EXCEPT !.alive = FALSE]
  /\ UNCHANGED <<island, popped, player, mpris, art>>

StartPlayerctlOnce ==
  /\ ~follow.alive /\ player.status = "none"
  /\ follow' = [alive |-> TRUE, lines |-> Reported(follow.lines, player)]
  /\ UNCHANGED <<island, popped, player, mpris, art, mediaActs>>

\* Two seconds after it ended.
StartPlayerctlProcess ==
  /\ ~follow.alive
  /\ follow' = [alive |-> TRUE, lines |-> Reported(follow.lines, player)]
  /\ UNCHANGED <<island, popped, player, mpris, art, mediaActs>>

OnPlayerctlOutput ==
  /\ follow.lines # <<>>
  /\ Parse(Head(follow.lines))
  /\ follow' = [follow EXCEPT !.lines = Tail(@)]
  /\ UNCHANGED <<player, mediaActs>>

\* A button starts playerctl and asks for `refresh` 200 ms later; the change it makes is
\* PlayerChanges.  `refresh` asks the player itself.
MediaRefresh ==
  /\ Acts
  /\ IF player.status # "none" THEN Parse(player)
     ELSE /\ mpris' = IF mpris.hasMedia THEN [mpris EXCEPT !.hasMedia = FALSE, !.status = "Stopped"]
                      ELSE mpris
          /\ UNCHANGED <<island, popped, art>>
  /\ UNCHANGED <<player, follow>>

\* onArtworkDownloaded shows whatever arrives.
ArtworkArrives(url) ==
  /\ art' = [art EXCEPT !.asked = @ \ {url}, !.cached = @ \cup {url}]
  /\ mpris' = [mpris EXCEPT !.shown = url]
  /\ UNCHANGED <<island, popped, player, follow, mediaActs>>

ArtworkFails(url) ==
  /\ art' = [art EXCEPT !.asked = @ \ {url}]
  /\ UNCHANGED <<island, popped, player, follow, mpris, mediaActs>>

IslandTouched(i) ==
  /\ Acts
  /\ island' = i /\ popped' = FALSE
  /\ UNCHANGED <<player, follow, mpris, art>>

\* "show" counts an island that is closing as shown.
IslandCommand ==
  \/ IslandTouched(Toggled(island))
  \/ IslandTouched(IF island.state = "Hidden" THEN Toggled(island) ELSE island)
  \/ IslandTouched(Dismissed(island))
  \/ IslandTouched(Expanded(island))
  \/ IslandTouched(Collapsed(island))

IslandStep(i) ==
  /\ island' = i
  /\ popped' = (popped /\ i.state # "Hidden")
  /\ UNCHANGED <<player, follow, mpris, art, mediaActs>>

OpenAnimationFinished  == island.state = "Opening" /\ IslandStep([island EXCEPT !.state = "Compact"])
CloseAnimationFinished == island.state = "Closing" /\ IslandStep([island EXCEPT !.state = "Hidden"])

\* Four seconds: the opening it was started with has ended.
AutoHide ==
  /\ island.hide /\ island.state # "Opening"
  /\ IslandStep([Dismissed(island) EXCEPT !.hide = FALSE])

DebounceEnds == island.bounce /\ IslandStep([island EXCEPT !.bounce = FALSE])

MediaNext ==
  \/ PlayerChanges \/ FollowDies \/ StartPlayerctlProcess \/ OnPlayerctlOutput \/ MediaRefresh
  \/ \E url \in art.asked : ArtworkArrives(url) \/ ArtworkFails(url)
  \/ IslandCommand \/ OpenAnimationFinished \/ CloseAnimationFinished \/ AutoHide \/ DebounceEnds

\* Animations end, timers go off, lines are read.
MediaFairness ==
  /\ WF_mediaVars(StartPlayerctlProcess) /\ WF_mediaVars(OnPlayerctlOutput)
  /\ WF_mediaVars(OpenAnimationFinished) /\ WF_mediaVars(CloseAnimationFinished)
  /\ WF_mediaVars(AutoHide)

MediaSpec == MediaInit /\ [][MediaNext]_mediaVars /\ MediaFairness

-----------------------------------------------------------------------------
\* Properties

\* An island that popped up by itself and that nobody touches goes away, whatever tracks
\* follow while it is up (autoPopup, its timer, dismiss, the animations of the window).
PopupFades == []<>(~popped \/ island.state = "Hidden")

\* A player that stays is shown in the end, with the track that plays, although playerctl
\* may end at any time and `refresh` reads past lines that wait (startPlayerctlProcess,
\* parseMetadataLine, refresh).
TrackConverges ==
  <>[](player.status # "none" => /\ mpris.title = player.track.title
                                 /\ mpris.status = player.status)
=============================================================================
