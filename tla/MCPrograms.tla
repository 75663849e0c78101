---------------------------- MODULE MCPrograms ----------------------------
(***************************************************************************)
(* Programs for TLC: what they never do.  They share no state that their    *)
(* modules keep, so one of them runs in each behaviour, with what is around *)
(* it, and the others stay as they began.                                   *)
(***************************************************************************)
EXTENDS HotZones, Overlays, Notifications, BrowserTabs, BrowserProfiles, Guard, Ownership, Menu, Spotlight, Classifier

VARIABLE program

programVars == <<hzVars, overlayVars, notifyVars, tabVars, profileVars, guardVars, vars,
                 menuVars, spotVars, treeVars, program>>

OneScreen  == <<[x |-> 0, y |-> 0, w |-> 1920, h |-> 1080]>>
At(x0, y0) == [x |-> x0, y |-> y0]
Edge       == {At(1919, 540), At(960, 540), At(0, 0)}
Settings   == {[corner |-> 4, thickness |-> 0, length |-> 140, dwell |-> 1, cooldown |-> 1,
                exclusion |-> 64, frame |-> TRUE]}

\* A menu with a provider, an empty group, a hint that is searched, and a file of the user's
\* in which a command has children.
Leaf(t, needs)        == [title |-> t, hint |-> <<>>, kids |-> <<>>, exec |-> TRUE, provider |-> "", requires |-> needs]
Group(t, kids, names) == [title |-> t, hint |-> <<>>, kids |-> kids, exec |-> FALSE, provider |-> names, requires |-> ""]
SmallMenu ==
  [root   |-> Group(<<"m">>, <<"apps", "theme", "system">>, ""),
   apps   |-> Leaf(<<"a", "b">>, ""),
   theme  |-> Group(<<"b", "a">>, <<"next">>, "@themes"),
   next   |-> Leaf(<<"n", "-", "a">>, "titan-theme"),
   system |-> Group(<<"s">>, <<"power", "lock">>, ""),
   power  |-> Group(<<"p">>, <<"off">>, ""),
   off    |-> [Leaf(<<"o">>, "") EXCEPT !.hint = <<"x", "a", "x", "b">>],
   lock   |-> Leaf(<<"b", " ", "b">>, ""),
   latte  |-> Leaf(<<"l", "a">>, "titan-theme")]
OwnMenus  == {<<>>, [SmallMenu EXCEPT !["lock"].kids = <<"off">>]}
OneTheme  == <<"latte">>
Typed     == {<<>>, <<" ">>, <<"a">>, <<"b", "a">>, <<"a", "b">>}

\* Files of one id or one name, one that is hidden, and each kind of query.
File(i, n, seen, kinds, found) == [id |-> i, name |-> n, shown |-> seen, words |-> kinds, hits |-> found]
SmallIndex ==
  <<File("a", 3, FALSE, {}, {}), File("a", 2, TRUE, {"DEV", "terminal"}, {<<"fi", "start">>}),
    File("b", 1, TRUE, {"WEB", "browser"}, {<<"fi", "whole">>, <<"2+2", "comment">>}),
    File("c", 2, TRUE, {}, {<<"fi", "word">>}), File("d", 4, TRUE, {}, {})>>
SmallActions == <<[what |-> "settings", hits |-> {"fi"}], [what |-> "lock", hits |-> {}]>>
Searched ==
  {[text |-> "fi", clip |-> FALSE, filter |-> "", command |-> FALSE, calc |-> FALSE, sum |-> FALSE],
   [text |-> ">ls", clip |-> FALSE, filter |-> "", command |-> TRUE, calc |-> FALSE, sum |-> FALSE],
   [text |-> "2+2", clip |-> FALSE, filter |-> "", command |-> FALSE, calc |-> TRUE, sum |-> TRUE],
   [text |-> "@clip fi", clip |-> TRUE, filter |-> "fi", command |-> FALSE, calc |-> FALSE, sum |-> FALSE]}
Copied == {<<>>, <<[text |-> "x", hits |-> {"fi"}], [text |-> "y", hits |-> {}]>>}

\* A terminal's program, an LSP server, one that lies, a build without a vote, what ends a
\* climb and a protected program.
Image(c, file, mine, kept) == [comm |-> c, exe |-> file, user |-> mine, guarded |-> kept]
SmallImages ==
  {Image("kitty", "", TRUE, FALSE), Image("clangd", "clangd", TRUE, FALSE),
   Image("clangd", "/tmp", TRUE, FALSE), Image("aapt2", "", TRUE, FALSE),
   Image("qs", "", TRUE, FALSE), Image("mpv", "", TRUE, TRUE)}
OneTitle == {[type |-> "WEB_DEV", specific |-> TRUE]}

Programs == {"zones", "overlays", "notifications", "tabs", "profiles", "guard", "bootstrap", "menu", "spotlight", "trees"}

ProgramsInit ==
  /\ program \in Programs
  /\ HzInit /\ (program = "zones" \/ pointer = At(0, 0))
  /\ OverlayInit /\ (program = "overlays" \/ which = "hud")
  /\ MenuInit /\ (program = "menu" \/ tree = SmallMenu)
  /\ SpotInit /\ (program = "spotlight" \/ clips = <<>>)
  /\ NotifyInit /\ TabsInit /\ ProfilesInit /\ Init /\ TreesInit
  /\ GuardInit
  /\ \/ program = "guard"
     \/ /\ \A l \in DOMAIN links : links[l] = "good"
        /\ \A f \in DOMAIN files : files[f] = "good" /\ backups[f] = "good"

Alone(p) ==
  /\ program = p /\ UNCHANGED program
  /\ IF p = "zones" THEN TRUE ELSE UNCHANGED hzVars
  /\ IF p = "overlays" THEN TRUE ELSE UNCHANGED overlayVars
  /\ IF p = "notifications" THEN TRUE ELSE UNCHANGED notifyVars
  /\ IF p = "tabs" THEN TRUE ELSE UNCHANGED tabVars
  /\ IF p = "profiles" THEN TRUE ELSE UNCHANGED profileVars
  /\ IF p = "guard" THEN TRUE ELSE UNCHANGED guardVars
  /\ IF p = "bootstrap" THEN TRUE ELSE UNCHANGED vars
  /\ IF p = "menu" THEN TRUE ELSE UNCHANGED menuVars
  /\ IF p = "spotlight" THEN TRUE ELSE UNCHANGED spotVars
  /\ IF p = "trees" THEN TRUE ELSE UNCHANGED treeVars

ProgramsNext ==
  \/ Alone("zones") /\ HzNext
  \/ Alone("overlays") /\ OverlayNext
  \/ Alone("notifications") /\ NotifyNext
  \/ Alone("tabs") /\ TabsNext
  \/ Alone("profiles") /\ ProfilesNext
  \/ Alone("guard") /\ GuardNext
  \/ Alone("bootstrap") /\ Next
  \/ Alone("menu") /\ MenuNext
  \/ Alone("spotlight") /\ SpotNext
  \/ Alone("trees") /\ TreesNext

ProgramsSpec == ProgramsInit /\ [][ProgramsNext]_programVars

\* What either launcher acts on is what it shows: the levels of the menu are a walk down its
\* tree and a search of it finds commands, and the rows of Spotlight fit its query.
LaunchersAgree ==
  program \in {"menu", "spotlight"} => LevelsAreAWalk /\ SearchFinds /\ LevelIsShown /\ RowsFit
=============================================================================
