----------------------------- MODULE BrowserTabs -----------------------------
(***************************************************************************)
(* The window of titan-browser: its tabs, its chrome and its profiles'         *)
(* reloads (TabWidget, AddressBar and the slots of Browser).                    *)
(*                                                                          *)
(* Two widgets hold the tabs: a QTabBar with their titles and a QStackedWidget   *)
(* with their pages.  Both are addressed by index, each has its own current        *)
(* index, and only the signal currentChanged of the bar ties the second to the     *)
(* first.  Pages load in the background and report to whoever is connected.        *)
(* Titles, icons, menus, style sheets, zoom and the search inside a page are left  *)
(* out.                                                                           *)
(***************************************************************************)
EXTENDS Integers, Sequences, SequencesExt

CONSTANTS
  Pages,      \* the pages besides Home and SettingsPage
  LookAlikes, \* the pages of the web with homepage.html in their address
  MaxTabs,    \* bound on the tabs that are open together
  MaxLoads    \* bound on the loads, profile changes and moves of a behaviour

VARIABLES
  bar,        \* the tab bar: the tabs by position, each named by the view it was added with
  selected,   \* the current position of the bar
  stack,      \* the pages by position: [name, url, next, links]
  shown,      \* the current position of the stack
  address,    \* AddressBar: the page it names, which its star bookmarks
  loading,    \* m_isLoading: the button stops instead of reloading, the progress is shown
  chrome,     \* the bars over the page: "shown", "hidden", or "by hand" (hidden by a key)
  visits,     \* m_history, its newest first
  used        \* number of bounded steps

tabVars == <<bar, selected, stack, shown, address, loading, chrome, visits, used>>

Home == "home"
SettingsPage == "settings"
BlankPage == "about:blank"
NoAddress == "no address"                 \* of a view that has loaded nothing
Urls == Pages \cup {Home, SettingsPage}
Done == "done"                        \* nothing is being loaded

View(name, url) == [name |-> name, url |-> NoAddress, next |-> url, links |-> 1]

\* What the code takes for the start page: isHome of updateChromeVisibility also holds of
\* whatever is part of the program (qrc:), of what is blank and of what has the page's name in
\* its address.
IsHome(url) == url \in {Home, SettingsPage, BlankPage, NoAddress} \cup LookAlikes

-----------------------------------------------------------------------------
\* What one handler leaves behind: the window as a record, which signals transform

Window == [bar |-> bar, selected |-> selected, stack |-> stack, shown |-> shown,
           address |-> address, chrome |-> chrome]

Becomes(w) ==
  /\ bar' = w.bar /\ selected' = w.selected /\ stack' = w.stack /\ shown' = w.shown
  /\ address' = w.address /\ chrome' = w.chrome

\* tabUrl, to which a look-alike is the start page.
Url(w, i) == IF w.stack[i].url \in LookAlikes THEN Home ELSE w.stack[i].url

\* updateChromeVisibility.
Chrome(w) ==
  [w EXCEPT !.chrome = IF IsHome(w.stack[w.shown].url) /\ Len(w.bar) <= 1 THEN "hidden"
                       ELSE "shown"]

\* onUrlChanged of the browser: the address is cleared for the start page and what it takes
\* for it, but not for the settings.
Named(w, url) ==
  Chrome([w EXCEPT !.address = IF IsHome(url) /\ url # SettingsPage THEN Home ELSE url])

\* currentChanged of the bar: onCurrentTabChanged, and the chrome.
TabChanged(w, i) ==
  LET there == [w EXCEPT !.selected = i]
  IN IF i \in DOMAIN w.stack
     THEN Named([there EXCEPT !.shown = i], Url(w, i))
     ELSE Chrome(there)

SelectIn(w, i) == IF i = w.selected THEN w ELSE TabChanged(w, i)

\* QTabBar::removeTab: the selection stays on its tab, or passes to the one that takes the
\* position of the removed one.
BarRemoves(w, i) ==
  LET left == [w EXCEPT !.bar = RemoveAt(@, i)]
  IN IF i = w.selected THEN TabChanged(left, IF i > Len(left.bar) THEN i - 1 ELSE i)
     ELSE IF i < w.selected THEN TabChanged(left, w.selected - 1) ELSE left

\* QStackedWidget::removeWidget.
StackRemoves(w, i) ==
  LET left == RemoveAt(w.stack, i)
  IN [w EXCEPT !.stack = left,
               !.shown = IF i < @ \/ (i = @ /\ i > Len(left)) THEN @ - 1 ELSE @]

\* The same without the signal tabCountChanged.
CloseSilently(w, i) ==
  IF Len(w.bar) <= 1 \/ i \notin DOMAIN w.stack THEN w
  ELSE StackRemoves(BarRemoves(w, i), i)

\* The bar lets go of the tab first, then the stack, then the chrome is told.
OnTabCloseRequested(w, i) ==
  IF Len(w.bar) <= 1 \/ i \notin DOMAIN w.stack THEN w
  ELSE Chrome(StackRemoves(BarRemoves(w, i), i))

-----------------------------------------------------------------------------
\* Handlers

TabsInit ==
  /\ bar = <<1>> /\ selected = 1 /\ shown = 1
  /\ stack = <<View(1, Home)>>
  /\ address = Home /\ loading = FALSE /\ chrome = "hidden"
  /\ visits = <<>> /\ used = 0

Uses == used < MaxLoads /\ used' = used + 1

FreeName == CHOOSE n \in 1..MaxTabs : \A i \in DOMAIN stack : stack[i].name # n

\* newTab: the browser names the address once more.
NewTab(url) ==
  /\ Len(stack) < MaxTabs /\ Uses
  /\ LET w == [Window EXCEPT !.stack = Append(@, View(FreeName, url)), !.bar = Append(@, FreeName)]
         there == SelectIn(w, Len(w.bar))
     IN Becomes(Named([there EXCEPT !.shown = Len(w.stack)], url))
  /\ UNCHANGED <<loading, visits>>

DuplicateTab(i) ==
  i \in DOMAIN stack /\ NewTab(IF Url(Window, i) = NoAddress THEN Home ELSE Url(Window, i))

\* loadInCurrentTab goes by the position in the bar.
LoadUrl(url) ==
  /\ selected \in DOMAIN stack /\ Uses
  /\ Becomes(Named([Window EXCEPT !.stack[selected].next = url, !.shown = selected], url))
  /\ UNCHANGED <<loading, visits>>

\* reloadOrStop: what is stopped has finished.
ReloadOrStop ==
  /\ Uses
  /\ stack' = [stack EXCEPT ![shown].next = IF loading THEN Done ELSE stack[shown].url]
  /\ loading' = (loading /\ stack[shown].next = Done)
  /\ UNCHANGED <<bar, selected, shown, address, chrome, visits>>

SetCurrentIndex(i) ==
  /\ i \in DOMAIN bar \ {selected}
  /\ Becomes(SelectIn(Window, i))
  /\ UNCHANGED <<loading, visits, used>>

Close(i) ==
  /\ i \in DOMAIN bar /\ Len(bar) > 1
  /\ Becomes(OnTabCloseRequested(Window, i))
  /\ UNCHANGED <<loading, visits, used>>

\* closeOtherTabs and closeTabsToRight: from the last position down.
CloseMany(keep) ==
  /\ \E i \in DOMAIN bar \ keep : TRUE
  /\ LET from[i \in 0..Len(bar)] ==
           \* the window after the positions from Len(bar) down to i + 1
           IF i = Len(bar) THEN Window
           ELSE IF i + 1 \in keep THEN from[i + 1] ELSE OnTabCloseRequested(from[i + 1], i + 1)
     IN Becomes(from[0])
  /\ UNCHANGED <<loading, visits, used>>

CloseOtherTabs(i) == i \in DOMAIN bar /\ CloseMany({i})
CloseTabsToRight(i) == i \in DOMAIN bar /\ CloseMany(1..i)

\* The bar is movable: two tabs change places and the selection follows its tab.
DragTab(i) ==
  /\ {i, i + 1} \subseteq DOMAIN bar /\ Uses
  /\ LET w == [Window EXCEPT !.bar[i] = bar[i + 1], !.bar[i + 1] = bar[i]]
     IN Becomes(CASE selected = i     -> TabChanged(w, i + 1)
                  [] selected = i + 1 -> TabChanged(w, i)
                  [] OTHER            -> w)
  /\ UNCHANGED <<loading, visits>>

\* A key hides the bars or shows them.
ToggleChrome ==
  /\ chrome' = IF chrome = "shown" THEN "by hand" ELSE "shown"
  /\ UNCHANGED <<bar, selected, stack, shown, address, loading, visits, used>>

\* The pointer reaches the upper edge, and leaves the bars.
Hover ==
  /\ chrome' \in {"shown", Chrome(Window).chrome} \ {chrome}
  /\ UNCHANGED <<bar, selected, stack, shown, address, loading, visits, used>>

\* loadProgress of the page that is shown.
LoadProgress(i) ==
  /\ i = shown /\ stack[i].next # Done /\ ~loading
  /\ loading' = TRUE
  /\ UNCHANGED <<bar, selected, stack, shown, address, chrome, visits, used>>

\* urlChanged of a view: only the page that is shown names the address.
Commit(i) ==
  /\ stack[i].next \notin {Done, stack[i].url}
  /\ LET w == [Window EXCEPT !.stack[i].url = stack[i].next]
     IN Becomes(IF i = shown THEN Named(w, stack[i].next) ELSE w)
  /\ UNCHANGED <<loading, visits, used>>

\* loadFinished of a view, once for each time it was connected; the page that is shown is
\* recorded each time, unless it is part of the program, or gives way to a page that tells of
\* the error.
LoadFinished(i, ok) ==
  LET web == stack[i].url \notin {Home, SettingsPage, NoAddress} IN
  /\ stack[i].next = stack[i].url
  /\ stack' = IF ~ok /\ i = shown /\ web /\ stack[i].url # BlankPage THEN stack
              ELSE [stack EXCEPT ![i].next = Done]
  /\ IF i = shown
     THEN /\ loading' = FALSE
          /\ visits' = IF ok /\ web THEN [n \in 1..stack[i].links |-> stack[i].url] \o visits
                       ELSE visits
     ELSE UNCHANGED <<loading, visits>>
  /\ UNCHANGED <<bar, selected, shown, address, chrome, used>>

\* reloadAllTabsForProfile: every view gets a page of the new profile, with the address its tab
\* has, and is connected once more.
ReloadAllTabsForProfile ==
  /\ Uses
  /\ Becomes(Named([Window EXCEPT !.stack =
                [i \in DOMAIN stack |->
                  [stack[i] EXCEPT !.next = Url(Window, i), !.links = @ + 1]]],
              Url(Window, shown)))
  /\ UNCHANGED <<loading, visits>>

TabsNext ==
  \/ \E url \in Urls : NewTab(url) \/ LoadUrl(url)
  \/ ReloadOrStop \/ ToggleChrome \/ Hover \/ ReloadAllTabsForProfile
  \/ \E i \in 1..MaxTabs :
       \/ DuplicateTab(i) \/ SetCurrentIndex(i) \/ Close(i)
       \/ CloseOtherTabs(i) \/ CloseTabsToRight(i)
       \/ DragTab(i)
  \/ \E i \in DOMAIN stack :
       \/ LoadProgress(i) \/ Commit(i)
       \/ \E ok \in BOOLEAN : LoadFinished(i, ok)

TabsSpec == TabsInit /\ [][TabsNext]_tabVars

-----------------------------------------------------------------------------
\* Properties

\* The address and the tabs go away by themselves only while one tab is open and shows what
\* the code takes for the start page: whichever tab is closed, selected, moved or loaded in the
\* background, no other page is left without its address (updateChromeVisibility).  IsHome
\* takes in more than the start page, against the comment of browser.cpp:1258, which knows a
\* "single home tab" only.
HiddenOnlyAtHome ==
  chrome = "hidden" => Len(bar) = 1 /\ Len(stack) = 1 /\ IsHome(stack[shown].url)

\* The tab that is selected is the tab of the page that is shown.
SelectedIsShown == stack[shown].name = bar[selected]
=============================================================================
