----------------------------- MODULE Spotlight -----------------------------
(***************************************************************************)
(* titan-spotlight: the index of applications, the rows a query comes to, and *)
(* the selection among them.                                                *)
(*                                                                          *)
(* A query is a record of what the code finds in it; where it matches an      *)
(* application or a system action is part of their records.  The clipboard     *)
(* history (`clips`) is external.                                            *)
(***************************************************************************)
EXTENDS Launchers

CONSTANTS
  Desktops,   \* the .desktop files in the order they are read:
              \* [id, name, shown, words, hits]; a name is its place in the alphabet
  Actions,    \* the system actions: [what, hits]
  Queries,    \* [text, clip, filter, command, calc, sum]; the empty query is NoQuery
  Clips       \* the outputs of cliphist list: sequences of [text, hits]

ASSUME SpotLists == /\ Desktops \in Seq(Range(Desktops)) /\ Actions \in Seq(Range(Actions))
                    /\ \A recent \in Clips : recent \in Seq(Range(recent))
ASSUME SpotQueries == \A q \in Queries : {q.clip, q.command, q.calc} \subseteq BOOLEAN

VARIABLES
  apps,       \* m_apps
  spot,       \* m_query, m_results, m_selectedIndex, m_calcResult, ... and whether it is open
  spotFile,   \* spotlight.json: the view, or "bad"
  clips,
  ran         \* the last thing that was started

spotVars == <<apps, spot, spotFile, clips, ran>>

NoQuery == [text |-> "", clip |-> FALSE, filter |-> "", command |-> FALSE, calc |-> FALSE, sum |-> FALSE]
Nothing == [type |-> "none", of |-> 0, group |-> "none"]

SearchLimit == 80
ClipLimit   == 30
Views       == {"grid", "bento", "list"}
Categories  == <<"ALL", "APPS", "DEV", "SYSTEM", "WEB", "MEDIA">>

-----------------------------------------------------------------------------
\* AppIndexer

\* The first of two files with one id or one name stays.
ParseDesktopFile(found, f) ==
  IF ~f.shown \/ \E a \in Range(found) : a.id = f.id \/ a.name = f.name
  THEN found ELSE Append(found, f)

\* The first kind of application that fits.
AppPriority(a) ==
  LET kinds == <<"titan", "terminal", "editor", "browser", "files", "monitor">>
      fits == {i \in DOMAIN kinds : kinds[i] \in a.words}
  IN IF fits = {} THEN 10 ELSE Min(fits) - 1

ScanApps ==
  LET found == FoldLeft(ParseDesktopFile, <<>>, Desktops)
      Before(a, b) == \/ AppPriority(a) < AppPriority(b)
                      \/ AppPriority(a) = AppPriority(b) /\ a.name < b.name
  IN Sorted(found, [j \in DOMAIN found |-> {i \in DOMAIN found : Before(found[i], found[j])}])

\* By where the text is found, in the order the code looks.
Score(a, text) ==
  LET kinds  == <<"whole", "start", "word", "inside", "generic start", "generic", "keyword",
                  "exec", "comment">>
      scores == <<2000, 1200, 900, 650, 500, 400, 350, 300, 200>>
      found  == {i \in DOMAIN kinds : <<text, kinds[i]>> \in a.hits}
  IN IF found = {} THEN 0 ELSE scores[Min(found)]

Search(text) ==
  LET hits == {i \in DOMAIN apps : Score(apps[i], text) > 0}
      Before(a, b) == \/ Score(a, text) > Score(b, text)
                      \/ Score(a, text) = Score(b, text) /\ a.name < b.name
      all == IF text = "" THEN apps
             ELSE Sorted(apps, [j \in hits |-> {i \in hits : Before(apps[i], apps[j])}])
  IN SubSeq(all, 1, Min({SearchLimit, Len(all)}))

-----------------------------------------------------------------------------
\* SpotlightController

ClassifyAppGroup(a) ==
  LET groups == <<"DEV", "WEB", "MEDIA", "SYSTEM">>
      fits == {i \in DOMAIN groups : groups[i] \in a.words}
  IN IF fits = {} THEN "APPS" ELSE groups[Min(fits)]

GridColumns(s) == IF s.clipboard THEN 1
                  ELSE IF s.view = "grid" THEN 4 ELSE IF s.view = "bento" THEN 2 ELSE 1

InClipboard(s) == s.clipboard \/ s.query.clip

ClipRows(s, recent) ==
  LET filter == IF s.query.clip THEN s.query.filter ELSE s.query.text
      kept == Only(SubSeq(recent, 1, Min({ClipLimit, Len(recent)})),
                   {c \in Range(recent) : filter = "" \/ filter \in c.hits})
  IN [i \in DOMAIN kept |-> [type |-> "clipboard", of |-> kept[i].text, group |-> "CLIPBOARD"]]

CommandRows(s) ==
  IF s.query.command THEN <<[type |-> "command", of |-> s.query.text, group |-> "COMMAND"]>> ELSE <<>>

AppRows(s) ==
  LET found == IF s.category = "SYSTEM" /\ s.query.text = "" THEN <<>> ELSE Search(s.query.text)
      kept == Only(found, {a \in Range(found) : s.category \in {"ALL", "APPS", ClassifyAppGroup(a)}})
  IN [i \in DOMAIN kept |-> [type |-> "app", of |-> kept[i].name, group |-> ClassifyAppGroup(kept[i])]]

\* The first six actions without a query, all of them in their own category.
ActionRows(s) ==
  LET kept == IF s.category \notin {"ALL", "SYSTEM"} THEN <<>>
              ELSE IF s.query.text # "" THEN Only(Actions, {a \in Range(Actions) : s.query.text \in a.hits})
              ELSE IF s.category = "SYSTEM" THEN Actions
              ELSE SubSeq(Actions, 1, Min({6, Len(Actions)}))
  IN [i \in DOMAIN kept |-> [type |-> "system", of |-> kept[i].what, group |-> "SYSTEM"]]

WebRows(s) ==
  IF s.query.text # "" /\ ~s.query.calc
  THEN <<[type |-> "web", of |-> s.query.text, group |-> "WEB"]>> ELSE <<>>

\* `recent` is what cliphist answers in time.
UpdateResults(s, recent) ==
  [s EXCEPT !.calc = s.query.calc, !.selected = 0,
            !.rows = IF InClipboard(s) THEN ClipRows(s, recent)
                     ELSE CommandRows(s) \o AppRows(s) \o ActionRows(s) \o WebRows(s)]

SetSelectedIndex(s, i) ==
  [s EXCEPT !.selected = IF i < 0 THEN 0
                         ELSE IF i >= Len(s.rows) /\ s.rows # <<>> THEN Len(s.rows) - 1 ELSE i]

\* The arrows, for n rows in cols columns.
RightOf(i, n) == (i + 1) % n
LeftOf(i, n)  == (i - 1 + n) % n

Below(i, n, cols) ==
  IF cols <= 1 THEN RightOf(i, n)
  ELSE IF i + cols >= n THEN i % cols ELSE i + cols

\* To the last row of the column, which may be the last but one of the grid.
Above(i, n, cols) ==
  IF cols <= 1 THEN LeftOf(i, n)
  ELSE IF i - cols >= 0 THEN i - cols
  ELSE LET last == (((n - 1) \div cols) * cols) + (i % cols)
           prev == IF last >= n THEN last - cols ELSE last
       IN IF prev < 0 THEN 0 ELSE prev

-----------------------------------------------------------------------------
\* Actions

\* loadPreferences, the index, and the first updateResults.
Started(view) ==
  /\ apps' = ScanApps
  /\ spot' = UpdateResults([query |-> NoQuery, rows |-> <<>>, selected |-> 0, calc |-> FALSE,
                            clipboard |-> FALSE, view |-> view, category |-> "ALL", open |-> FALSE],
                           <<>>)

SpotInit ==
  /\ apps = ScanApps
  /\ spot = UpdateResults([query |-> NoQuery, rows |-> <<>>, selected |-> 0, calc |-> FALSE,
                           clipboard |-> FALSE, view |-> "grid", category |-> "ALL", open |-> FALSE],
                          <<>>)
  /\ spotFile = "bad" /\ clips \in Clips /\ ran = Nothing

\* The process ends at any moment and is started again.
Restart ==
  /\ Started(IF spotFile \in Views THEN spotFile ELSE "grid")
  /\ UNCHANGED <<spotFile, clips, ran>>

\* cliphist answers, or not in 400 ms.
Updated(s) == \E recent \in {clips, <<>>} : spot' = UpdateResults(s, recent)

\* Opening with updateResults called before the members are cleared.
OpenWindowEarly(clipboard) ==
  /\ \E recent \in {clips, <<>>} :
       spot' = [UpdateResults(spot, recent) EXCEPT !.query = NoQuery, !.category = "ALL",
                                                   !.clipboard = clipboard, !.open = TRUE]
  /\ UNCHANGED <<apps, spotFile, clips, ran>>

\* reset(), then the clipboard if that was asked for.
OpenWindow(clipboard) ==
  /\ Updated([spot EXCEPT !.query = NoQuery, !.category = "ALL", !.clipboard = clipboard, !.open = TRUE])
  /\ UNCHANGED <<apps, spotFile, clips, ran>>

CloseWindow ==
  /\ spot.open /\ spot' = [spot EXCEPT !.open = FALSE]
  /\ UNCHANGED <<apps, spotFile, clips, ran>>

Type(q) ==
  /\ spot.open /\ q # spot.query /\ Updated([spot EXCEPT !.query = q])
  /\ UNCHANGED <<apps, spotFile, clips, ran>>

SetActiveCategory(c) ==
  /\ spot.open /\ c # spot.category /\ Updated([spot EXCEPT !.category = c])
  /\ UNCHANGED <<apps, spotFile, clips, ran>>

CycleCategory ==
  LET at == CHOOSE i \in DOMAIN Categories : Categories[i] = spot.category
  IN SetActiveCategory(Categories[(at % Len(Categories)) + 1])

\* The button that leaves the clipboard; the text is cleared after it.
LeaveClipboard ==
  /\ spot.open /\ spot.clipboard
  /\ Updated([spot EXCEPT !.clipboard = FALSE])
  /\ UNCHANGED <<apps, spotFile, clips, ran>>

\* The file is truncated before it is written.
SetViewMode(view) ==
  /\ spot.open /\ view # spot.view
  /\ spot' = [spot EXCEPT !.view = view] /\ spotFile' = "bad"
  /\ UNCHANGED <<apps, clips, ran>>

CycleViewMode ==
  SetViewMode(CASE spot.view = "grid" -> "bento" [] spot.view = "bento" -> "list" [] OTHER -> "grid")

SavePreferences ==
  /\ spotFile # spot.view /\ spotFile' = spot.view
  /\ UNCHANGED <<apps, spot, clips, ran>>

Select(i) ==
  /\ spot.open /\ spot.rows # <<>> /\ spot' = SetSelectedIndex(spot, i)
  /\ UNCHANGED <<apps, spotFile, clips, ran>>

\* Enter copies a result when nothing else is listed, or the query is a plain sum.
ActivateCurrent ==
  /\ spot.open
  /\ IF spot.calc /\ spot.selected = 0 /\ (spot.rows = <<>> \/ spot.query.sum)
     THEN ran' = [type |-> "copy", of |-> spot.query.text, group |-> "none"] /\ spot' = [spot EXCEPT !.open = FALSE]
     ELSE /\ spot.selected < Len(spot.rows)
          /\ ran' = spot.rows[spot.selected + 1]
          /\ spot' = [spot EXCEPT !.open = FALSE]
  /\ UNCHANGED <<apps, spotFile, clips>>

CopyCalcResult ==
  /\ spot.open /\ spot.calc
  /\ ran' = [type |-> "copy", of |-> spot.query.text, group |-> "none"] /\ spot' = [spot EXCEPT !.open = FALSE]
  /\ UNCHANGED <<apps, spotFile, clips>>

\* External: something is copied.
CopiesText ==
  /\ \E now \in Clips \ {clips} : clips' = now
  /\ UNCHANGED <<apps, spot, spotFile, ran>>

SpotNext ==
  \/ Restart \/ CloseWindow \/ LeaveClipboard \/ CycleCategory \/ CycleViewMode
  \/ SavePreferences \/ ActivateCurrent \/ CopyCalcResult \/ CopiesText
  \/ \E clipboard \in BOOLEAN : OpenWindow(clipboard)
  \/ \E q \in Queries \cup {NoQuery} : Type(q)
  \/ \E c \in Range(Categories) : SetActiveCategory(c)
  \/ \E view \in Views : SetViewMode(view)
  \/ LET n == Len(spot.rows)
         cols == GridColumns(spot)
     IN spot.rows # <<>> /\ \E i \in {Below(spot.selected, n, cols), Above(spot.selected, n, cols),
                                     RightOf(spot.selected, n), LeftOf(spot.selected, n)} : Select(i)

SpotSpec == SpotInit /\ [][SpotNext]_spotVars

-----------------------------------------------------------------------------
\* Properties

\* What Enter acts on is what is shown: the rows belong to the query, the category and
\* the mode that are shown, and the selection is on one of them (updateResults against
\* every member it reads).
RowsFit ==
  LET types == {r.type : r \in Range(spot.rows)}
  IN /\ spot.rows # <<>> => spot.selected \in 0..Len(spot.rows) - 1
     /\ IF InClipboard(spot) THEN types \subseteq {"clipboard"}
        ELSE /\ "clipboard" \notin types
             /\ "web" \in types <=> (spot.query.text # "" /\ ~spot.calc)
             /\ \A r \in Range(spot.rows) :
                  /\ r.type \in {"web", "command"} => r.of = spot.query.text
                  /\ r.type = "app" => spot.category \in {"ALL", "APPS", r.group}
                  /\ r.type = "system" => spot.category \in {"ALL", "SYSTEM"}
             /\ spot.calc = spot.query.calc
=============================================================================
