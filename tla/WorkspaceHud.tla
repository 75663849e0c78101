---------------------------- MODULE WorkspaceHud ----------------------------
(***************************************************************************)
(* titan-workspace-hud: HyprlandController, its view of the workspaces and the *)
(* pictures of their windows.                                               *)
(*                                                                          *)
(* A view is made when the HUD is shown, toggled or used, never on an event.   *)
(* Geometry, icons, titles and audio marks are left out.  Hyprland (`hypr`) is   *)
(* external.                                                                *)
(***************************************************************************)
EXTENDS Integers, Sequences, FiniteSets, TLC

CONSTANTS
  Frames,       \* the addresses of windows
  Desks,        \* the workspaces that are used, some of 1..10
  MaxDeskMoves  \* bound on changes of the session and uses of the HUD

VARIABLES
  hypr,       \* the active workspace, where each window is (0 for none), the focused one
  ws,         \* m_workspaces, m_activeWorkspace, and whether the HUD is open
  asking,     \* a refresh that waits for its answers: the queries left and what it has
  pictures,   \* the files of /tmp/titan-thumbs
  grims,      \* the grim processes that run
  captured,   \* lastCaptureMs is not 1200 ms ago
  deskMoves

hudVars == <<hypr, ws, asking, pictures, grims, captured, deskMoves>>

Nobody    == "nobody"
MaxTiles  == 4
Queries   == <<"monitors", "clients", "activewindow">>
NotAsking == [left |-> <<>>]

\* A tile per window of a workspace, at most four, with its picture if there is one.
TilesOf(a, here) == {[address |-> f, picture |-> f \in pictures, focused |-> f = a.focused] : f \in here}

HereIn(a, n) == {f \in Frames : a.place[f] = n}

\* The four that are drawn are the first of the clients, in no order the code knows.
ViewsOf(a) ==
  {[active |-> a.active, tiles |-> [n \in Desks |-> TilesOf(a, drawn[n])],
    count |-> [n \in Desks |-> Cardinality(HereIn(a, n))]] :
     drawn \in {d \in [Desks -> SUBSET Frames] :
                  \A n \in Desks : d[n] \subseteq HereIn(a, n)
                                   /\ Cardinality(d[n]) = IF Cardinality(HereIn(a, n)) > MaxTiles
                                                          THEN MaxTiles ELSE Cardinality(HereIn(a, n))}}

-----------------------------------------------------------------------------
\* Actions

\* The constructor's refresh, with nothing open.
HudInit ==
  /\ hypr = [active |-> CHOOSE n \in Desks : TRUE, place |-> [f \in Frames |-> 0], focused |-> Nobody]
  /\ ws = [active |-> hypr.active, tiles |-> [n \in Desks |-> {}], count |-> [n \in Desks |-> 0], open |-> FALSE]
  /\ asking = NotAsking /\ pictures = {} /\ grims = {} /\ captured = TRUE /\ deskMoves = 0

Idle == asking = NotAsking
Moved == deskMoves < MaxDeskMoves /\ deskMoves' = deskMoves + 1

\* refresh(): the event loop waits for the answers, the session does not.
RefreshHud(open) == asking' = [left |-> Queries, got |-> hypr, open |-> open]

ShowHud ==
  /\ Idle /\ Moved /\ RefreshHud(TRUE)
  /\ UNCHANGED <<hypr, ws, pictures, grims, captured>>

\* A toggle of an open HUD refreshes it and closes it.
ToggleHud ==
  /\ Idle /\ Moved /\ RefreshHud(~ws.open)
  /\ UNCHANGED <<hypr, ws, pictures, grims, captured>>

HideHud ==
  /\ Idle /\ Moved /\ ws.open /\ ws' = [ws EXCEPT !.open = FALSE]
  /\ UNCHANGED <<hypr, asking, pictures, grims, captured>>

\* dispatch is carried out at once.
SwitchToWorkspace(n) ==
  /\ Idle /\ Moved /\ ws.open /\ hypr' = [hypr EXCEPT !.active = n]
  /\ UNCHANGED <<ws, asking, pictures, grims, captured>>

FocusWindow(t) ==
  /\ Idle /\ Moved /\ ws.open
  /\ hypr' = IF hypr.place[t.address] = 0 THEN hypr
             ELSE [hypr EXCEPT !.active = hypr.place[t.address], !.focused = t.address]
  /\ UNCHANGED <<ws, asking, pictures, grims, captured>>

\* The client goes when it likes; the refresh does not wait for it.
CloseWindow(t) ==
  /\ Idle /\ Moved /\ ws.open /\ RefreshHud(TRUE)
  /\ UNCHANGED <<hypr, ws, pictures, grims, captured>>

MoveWindowToWorkspace(t, n) ==
  /\ Idle /\ Moved /\ ws.open
  /\ LET moved == IF hypr.place[t.address] = 0 THEN hypr ELSE [hypr EXCEPT !.place[t.address] = n]
     IN hypr' = moved /\ asking' = [left |-> Queries, got |-> moved, open |-> TRUE]
  /\ UNCHANGED <<ws, pictures, grims, captured>>

\* Each query is answered with what is there by then.
QueryAnswered ==
  /\ ~Idle /\ asking.left # <<>>
  /\ asking' = [asking EXCEPT !.left = Tail(@),
                              !.got = CASE Head(asking.left) = "monitors" -> [@ EXCEPT !.active = hypr.active]
                                        [] Head(asking.left) = "clients"  -> [@ EXCEPT !.place = hypr.place]
                                        [] OTHER                          -> [@ EXCEPT !.focused = hypr.focused]]
  /\ UNCHANGED <<hypr, ws, pictures, grims, captured, deskMoves>>

\* captureActiveThumbnails: a grim for every window of the active workspace.
Capture(active) ==
  IF captured THEN UNCHANGED <<grims, captured>>
  ELSE captured' = TRUE /\ grims' = grims \cup active

Refreshed ==
  /\ ~Idle /\ asking.left = <<>> /\ asking' = NotAsking
  /\ \E view \in ViewsOf(asking.got) : ws' = view @@ [open |-> asking.open]
  /\ Capture(HereIn(asking.got, asking.got.active))
  /\ UNCHANGED <<hypr, pictures, deskMoves>>

\* updateThumbnails for the workspace that is shown as active.
WithPicturesHere(files) ==
  [ws EXCEPT !.tiles[ws.active] = {[t EXCEPT !.picture = @ \/ t.address \in files] : t \in @}]

\* updateThumbnails
WithPictures(files) ==
  [ws EXCEPT !.tiles = [n \in Desks |-> {[t EXCEPT !.picture = @ \/ t.address \in files] : t \in ws.tiles[n]}]]

\* grim writes its file, or fails, and its end is heard in the event loop.
GrimWrites ==
  /\ \E f \in grims : pictures' = pictures \cup {f} /\ f \notin pictures
  /\ UNCHANGED <<hypr, ws, asking, grims, captured, deskMoves>>

GrimFinished ==
  /\ Idle
  /\ \E f \in grims : grims' = grims \ {f} /\ ws' = WithPictures(pictures)
  /\ UNCHANGED <<hypr, asking, pictures, captured, deskMoves>>

SecondsPass ==
  /\ captured /\ captured' = FALSE
  /\ UNCHANGED <<hypr, ws, asking, pictures, grims, deskMoves>>

\* External: a window opens or goes, or another workspace or window is chosen.
SessionChanges ==
  /\ Moved
  /\ \/ \E f \in Frames, n \in Desks \cup {0} : hypr' = [hypr EXCEPT !.place[f] = n]
     \/ \E n \in Desks : hypr' = [hypr EXCEPT !.active = n]
     \/ \E f \in {g \in Frames : hypr.place[g] = hypr.active} : hypr' = [hypr EXCEPT !.focused = f]
  /\ hypr' # hypr
  /\ UNCHANGED <<ws, asking, pictures, grims, captured>>

HudNext ==
  \/ ShowHud \/ ToggleHud \/ HideHud \/ QueryAnswered \/ Refreshed
  \/ GrimWrites \/ GrimFinished \/ SecondsPass \/ SessionChanges
  \/ \E n \in Desks : SwitchToWorkspace(n)
  \/ \E t \in UNION {ws.tiles[n] : n \in Desks} :
       FocusWindow(t) \/ CloseWindow(t) \/ \E n \in Desks : MoveWindowToWorkspace(t, n)

\* The answers come, and grim ends.
HudFairness ==
  /\ WF_hudVars(QueryAnswered \/ Refreshed)
  /\ SF_hudVars(GrimFinished)

HudSpec == HudInit /\ [][HudNext]_hudVars /\ HudFairness

-----------------------------------------------------------------------------
\* Properties

\* A picture that was taken is on its tile, on whichever workspace that is by now (refresh,
\* captureActiveThumbnails and updateThumbnails against each other).
PicturesFit == \A n \in Desks : \A t \in ws.tiles[n] : t.picture = (t.address \in pictures)
=============================================================================
