------------------------------- MODULE Menu -------------------------------
(***************************************************************************)
(* titan-menu: the tree of the menu file, the levels the user walks down, the *)
(* search over all leaves, and the selection of the window.                 *)
(*                                                                          *)
(* A text is a sequence of letters.  What is installed, and whether titan-    *)
(* theme list answers in time, is external (`installed`, `listed`); one       *)
(* handler gets one answer.                                                  *)
(***************************************************************************)
EXTENDS Launchers

CONSTANTS
  Builtin,      \* the built-in menu: node -> [title, hint, kids, exec, provider, requires]
  UserMenus,    \* what the user's menu file may hold: such trees, or <<>> for no file
  Themes,       \* the nodes titan-theme list comes to, in its order
  Phrases,      \* what the user types
  MaxMenuRuns   \* bound on the commands chosen and not started

\* What a menu file comes to: texts, and lists of the nodes it has; the themes are among them.
IsText(s) == s \in Seq(Range(s))

IsTree(t) ==
  /\ "root" \in DOMAIN t
  /\ \A n \in DOMAIN t : /\ IsText(t[n].title) /\ IsText(t[n].hint)
                         /\ t[n].kids \in Seq(DOMAIN t) /\ t[n].exec \in BOOLEAN
  /\ Themes \in Seq(DOMAIN t)

ASSUME MenuTrees == \A t \in {Builtin} \cup (UserMenus \ {<<>>}) : IsTree(t)
ASSUME MenuTexts == \A q \in Phrases : IsText(q)

VARIABLES
  tree,         \* m_root and below
  menu,         \* m_stack, m_query, m_flatCache (or NoCache) and m_visible
  menuWindow,   \* menuOpen, viewMode and selectedIndex (counted from 0) of the window
  installed,    \* external: the executables on PATH
  chosen        \* the commands whose timer runs

menuVars == <<tree, menu, menuWindow, installed, chosen>>

MaxDepth == 6
NoCache  == <<"none">>
Blank    == " "
CrumbSep == <<Blank, ">", Blank>>
GridCols == 3

-----------------------------------------------------------------------------
\* fuzzy.cpp

IsWordBoundary(text, i) == i = 1 \/ text[i - 1] \in {Blank, "-", "_", ">"}

\* A letter takes the first place after the last one; the score is -1 when it has none.
Takes(text, s, c) ==
  IF s.score < 0 \/ c = Blank THEN s
  ELSE IF \A i \in s.at + 1..Len(text) : text[i] # c THEN [s EXCEPT !.score = -1]
  ELSE CHOOSE t \in {[at |-> at,
                      score |-> s.score + 10 + (IF at > 1 /\ at = s.at + 1 THEN 15 ELSE 0)
                                + (IF IsWordBoundary(text, at) THEN 20 ELSE 0)
                                + (IF at = 1 THEN 40 ELSE 0)] : at \in s.at + 1..Len(text)} :
         text[t.at] = c /\ \A i \in s.at + 1..t.at - 1 : text[i] # c

Matched(q, text) == FoldLeft(LAMBDA s, c : Takes(text, s, c), [at |-> 0, score |-> 0], q)

Shortened(score, text) == IF score < 0 THEN -1 ELSE score - Min({score - 1, Len(text) \div 4})

FuzzyScore(q, text) == IF q = <<>> THEN 0 ELSE Shortened(Matched(q, text).score, text)

-----------------------------------------------------------------------------
\* menutree.cpp

IsGroup(n) == ~tree[n].exec

\* parseNode, with the limit on the nesting.
ParseMenu(t) ==
  LET below[d \in Nat] == IF d = 0 THEN {"root"} ELSE UNION {Range(t[n].kids) : n \in below[d - 1]}
  IN /\ t # <<>> /\ below[MaxDepth + 1] = {}
     /\ \A n \in DOMAIN t :
          /\ t[n].title # <<>>
          /\ t[n].exec <=> (t[n].kids = <<>> /\ t[n].provider = "")

IsAvailable(n) == tree[n].requires = "" \/ tree[n].requires \in installed

-----------------------------------------------------------------------------
\* MenuController

\* The user's menu if it is one, else the built-in one.
LoadDefault(user) == IF ParseMenu(user) THEN user ELSE Builtin

ResolveProvider(g, listed) ==
  IF tree[g].provider = "@themes" /\ "titan-theme" \in installed /\ listed THEN Themes ELSE <<>>

\* Every group with what it holds here, where `below` is what the groups in it hold: what is
\* not available and groups that would be empty are left out.
Held(below, listed) ==
  [g \in DOMAIN tree |->
     Only(tree[g].kids, {n \in Range(tree[g].kids) : IsAvailable(n) /\ (IsGroup(n) => below[n] # <<>>)})
       \o ResolveProvider(g, listed)]

Expand(listed) ==
  LET at[d \in 0..MaxDepth + 1] ==
        IF d = 0 THEN [g \in DOMAIN tree |-> <<>>] ELSE Held(at[d - 1], listed)
  IN at[MaxDepth + 1]

\* What is found below the group n, with its title.
Under(n, found) ==
  [i \in DOMAIN found |->
     [node  |-> found[i].node,
      crumb |-> IF found[i].crumb = <<>> THEN tree[n].title ELSE tree[n].title \o CrumbSep \o found[i].crumb]]

LevelLeaves(expanded, below) ==
  [g \in DOMAIN tree |->
     FlattenSeq([i \in DOMAIN expanded[g] |->
       LET n == expanded[g][i]
       IN IF IsGroup(n) THEN Under(n, below[n]) ELSE <<[node |-> n, crumb |-> <<>>]>>])]

\* As CollectLeaves, but the groups are found as well.
CollectNodes(expanded) ==
  LET at[d \in 0..MaxDepth + 1] ==
        [g \in DOMAIN tree |->
           IF d = 0 THEN <<>>
           ELSE FlattenSeq([i \in DOMAIN expanded[g] |->
                  LET n == expanded[g][i]
                  IN <<[node |-> n, crumb |-> <<>>]>>
                     \o (IF IsGroup(n) THEN Under(n, at[d - 1][n]) ELSE <<>>)])]
  IN at[MaxDepth + 1]["root"]

\* The leaves with the titles of the groups above them.
CollectLeaves(expanded) ==
  LET at[d \in 0..MaxDepth + 1] ==
        IF d = 0 THEN [g \in DOMAIN tree |-> <<>>] ELSE LevelLeaves(expanded, at[d - 1])
  IN at[MaxDepth + 1]["root"]

FullTitle(f) == IF f.crumb = <<>> THEN tree[f.node].title
                ELSE f.crumb \o CrumbSep \o tree[f.node].title

\* A hit in the title counts more, one in the hint less.
Plus(score, points, least) == IF score >= 0 THEN score + points ELSE least

Best(q, f) ==
  Max({Plus(FuzzyScore(q, tree[f.node].title), 30, -1), FuzzyScore(q, FullTitle(f)),
       Plus(FuzzyScore(q, tree[f.node].hint), -10, -1)})

Trimmed(q) == IF Range(q) \subseteq {Blank} THEN <<>> ELSE q

\* What matches, the best first and then as it was collected.
Ranked(flat, score) ==
  LET hits == {i \in DOMAIN flat : score[i] >= 0}
  IN Sorted([i \in DOMAIN flat |-> flat[i].node],
            [j \in hits |-> {i \in hits : score[i] > score[j] \/ (score[i] = score[j] /\ i < j)}])

\* The flat list is collected by the first search after a reset.
ShowHits(m, q, flat) ==
  [m EXCEPT !.flat = flat, !.visible = Ranked(flat, [i \in DOMAIN flat |-> Best(q, flat[i])])]

Rebuild(m, listed) ==
  IF Trimmed(m.query) = <<>> THEN [m EXCEPT !.visible = Last(m.stack).kids]
  ELSE ShowHits(m, Trimmed(m.query), IF m.flat = NoCache THEN CollectLeaves(Expand(listed)) ELSE m.flat)

Reset(listed) ==
  Rebuild([query |-> <<>>, flat |-> NoCache, visible |-> <<>>,
           stack |-> <<[node |-> "root", kids |-> Expand(listed)["root"]]>>], listed)

\* The window selects the first entry whenever the entries change.
Shown(m) ==
  /\ menu' = m
  /\ menuWindow' = [menuWindow EXCEPT !.selected = IF m.visible = <<>> THEN -1 ELSE 0]

-----------------------------------------------------------------------------
\* Actions

MenuInit ==
  /\ \E user \in UserMenus : tree = LoadDefault(user)
  /\ installed = {"titan-theme"}
  /\ menu = Reset(TRUE)
  /\ menuWindow = [open |-> FALSE, grid |-> TRUE, selected |-> 0]
  /\ chosen = {}

OpenMenu ==
  /\ ~menuWindow.open
  /\ \E listed \in BOOLEAN : menu' = Reset(listed)
  /\ menuWindow' = [menuWindow EXCEPT !.open = TRUE, !.selected = 0]
  /\ UNCHANGED <<tree, installed, chosen>>

CloseMenu ==
  /\ menuWindow.open /\ menuWindow' = [menuWindow EXCEPT !.open = FALSE]
  /\ UNCHANGED <<tree, menu, installed, chosen>>

SetQuery(q) ==
  /\ menuWindow.open /\ q # menu.query
  /\ \E listed \in BOOLEAN : Shown(Rebuild([menu EXCEPT !.query = q], listed))
  /\ UNCHANGED <<tree, installed, chosen>>

\* Rows are counted from 0; the selection may be on none.
RowIsThere(row) == row \in 0..Len(menu.visible) - 1

EnterGroup(row) ==
  /\ menuWindow.open /\ RowIsThere(row) /\ IsGroup(menu.visible[row + 1])
  /\ \E listed \in BOOLEAN :
       LET g == menu.visible[row + 1]
       IN Shown(Rebuild([menu EXCEPT !.stack = Append(@, [node |-> g, kids |-> Expand(listed)[g]]),
                                     !.query = <<>>], listed))
  /\ UNCHANGED <<tree, installed, chosen>>

\* The menu closes at once, the command starts when its timer fires.
RunLeaf(row) ==
  /\ menuWindow.open /\ RowIsThere(row) /\ ~IsGroup(menu.visible[row + 1])
  /\ Cardinality(chosen) < MaxMenuRuns
  /\ chosen' = chosen \cup {menu.visible[row + 1]}
  /\ menuWindow' = [menuWindow EXCEPT !.open = FALSE]
  /\ UNCHANGED <<tree, menu, installed>>

Back ==
  /\ menuWindow.open
  /\ IF menu.query # <<>> THEN Shown(Rebuild([menu EXCEPT !.query = <<>>], TRUE))
     ELSE IF Len(menu.stack) > 1 THEN Shown(Rebuild([menu EXCEPT !.stack = Front(@)], TRUE))
     ELSE menuWindow' = [menuWindow EXCEPT !.open = FALSE] /\ UNCHANGED menu
  /\ UNCHANGED <<tree, installed, chosen>>

\* The remainder of the window's script has the sign of the dividend.
Rem(a, n) == IF a >= 0 THEN a % n ELSE -((-a) % n)

MoveSelection(delta) ==
  /\ menuWindow.open /\ menu.visible # <<>>
  /\ LET n == Len(menu.visible)
     IN menuWindow' = [menuWindow EXCEPT !.selected = Rem(@ + delta + n, n)]
  /\ UNCHANGED <<tree, menu, installed, chosen>>

HoverRow(row) ==
  /\ menuWindow.open /\ RowIsThere(row)
  /\ menuWindow' = [menuWindow EXCEPT !.selected = row]
  /\ UNCHANGED <<tree, menu, installed, chosen>>

ToggleLayout ==
  /\ menuWindow.open /\ menuWindow' = [menuWindow EXCEPT !.grid = ~@]
  /\ UNCHANGED <<tree, menu, installed, chosen>>

Starts(n) ==
  /\ chosen' = chosen \ {n}
  /\ UNCHANGED <<tree, menu, menuWindow, installed>>

\* External: a package comes or goes.
Installs ==
  /\ installed' = IF installed = {} THEN {"titan-theme"} ELSE {}
  /\ UNCHANGED <<tree, menu, menuWindow, chosen>>

MenuNext ==
  \/ OpenMenu \/ CloseMenu \/ Back \/ ToggleLayout \/ Installs
  \/ \E q \in Phrases : SetQuery(q)
  \/ EnterGroup(menuWindow.selected) \/ RunLeaf(menuWindow.selected)
  \/ \E d \in {IF menuWindow.grid THEN GridCols ELSE 1} : MoveSelection(d) \/ MoveSelection(-d)
  \/ menuWindow.grid /\ menu.query = <<>> /\ (MoveSelection(1) \/ MoveSelection(-1))
  \/ \E row \in 0..Len(menu.visible) - 1 : HoverRow(row)
  \/ \E n \in chosen : Starts(n)

MenuSpec == MenuInit /\ [][MenuNext]_menuVars

-----------------------------------------------------------------------------
\* Properties

\* The levels are a walk down the tree: each one is an entry of the level above it, and
\* Back leads to what was seen (enter, back and the search, whose results are pushed on
\* the level that was open).
LevelsAreAWalk ==
  /\ menu.stack[1].node = "root"
  /\ \A i \in 2..Len(menu.stack) : menu.stack[i].node \in Range(menu.stack[i - 1].kids)

\* q, without spaces, is part of the text in this order.
Occurs(q, text) ==
  LET letters == {i \in DOMAIN q : q[i] # Blank}
  IN \E at \in [letters -> DOMAIN text] :
       /\ \A i \in letters : text[at[i]] = q[i]
       /\ \A i, j \in letters : i < j => at[i] < at[j]

\* Every letter of the query is worth 10, of which a long text takes some.
Worth(q, text) == 10 * Cardinality({i \in DOMAIN q : q[i] # Blank}) - (Len(text) \div 4)

\* A search finds every leaf in whose full title the query occurs in any way, and none in
\* which it occurs neither there nor in the hint.  What occurs in the hint is found when its
\* letters are worth what a hint is put back by: a single letter inside a longer hint is
\* passed over like no match (menucontroller.cpp:219), although fuzzyScore keeps each "genuine
\* match" apart from none (fuzzy.cpp:58) (rebuild, collectLeaves and the greedy fuzzyScore).
SearchFinds ==
  Trimmed(menu.query) # <<>> =>
    LET q == menu.query
        Hint(f) == tree[f.node].hint
        In(f)   == Occurs(q, FullTitle(f))
    IN /\ Range(menu.visible) \subseteq {f.node : f \in {f \in Range(menu.flat) : In(f) \/ Occurs(q, Hint(f))}}
       /\ \A f \in Range(menu.flat) :
            In(f) \/ (Occurs(q, Hint(f)) /\ Worth(q, Hint(f)) >= 10) => f.node \in Range(menu.visible)

\* Without a search the window shows the level that is open.
LevelIsShown == Trimmed(menu.query) = <<>> => menu.visible = Last(menu.stack).kids
=============================================================================
