--------------------------- MODULE BrowserProfiles ---------------------------
(***************************************************************************)
(* What titan-browser keeps: the profiles of its ProfileManager and the         *)
(* bookmarks of Browser, in memory, in profiles.json and bookmarks.json, and     *)
(* the directories of the profiles.                                               *)
(*                                                                          *)
(* Every browser is a process of its own: main asks for no other, so each reads   *)
(* the files once and then writes the whole of them.  A file is truncated and    *)
(* written in place, so a process that dies meanwhile leaves it empty.  Names,    *)
(* colours, cookies and the settings of the engine are left out.                  *)
(***************************************************************************)
EXTENDS Integers, Sequences, SequencesExt

CONSTANTS
  Browsers,      \* the processes
  Sites,        \* what can be bookmarked
  MaxEdits      \* bound on the edits of a behaviour

VARIABLES
  browser,      \* each process: [pc, list, active, marks, dead]; list is a sequence of
                \* profiles, pc is "off", "on" or the step of deleteProfile it is at
  profilesFile, \* profiles.json: [list, active]
  marksFile,    \* bookmarks.json
  dirs,         \* the profiles that have a directory
  edits         \* number of edits, which also names the profiles created

profileVars == <<browser, profilesFile, marksFile, dirs, edits>>

DefaultProfile == 0
DefaultMarks == {"default"}
Off == [pc |-> "off", list |-> <<>>, active |-> DefaultProfile, marks |-> {}, dead |-> DefaultProfile]
Empty == [list |-> <<>>, active |-> DefaultProfile]

Lists(list, p) == \E i \in DOMAIN list : list[i] = p

\* targetIdx of deleteProfile: every profile has an id of its own.
Target(list, p) == CHOOSE i \in DOMAIN list : list[i] = p

ProfilesInit ==
  /\ browser = [w \in Browsers |-> Off]
  /\ profilesFile = Empty /\ marksFile = {} /\ dirs = {} /\ edits = 0

Put(w, state) == browser' = [browser EXCEPT ![w] = state]

\* saveToDisk.
Save(state) == profilesFile' = [list |-> state.list, active |-> state.active]

\* loadFromDisk, initialize and loadPersistentUserData: without a profile there is the
\* default one, and an active profile that is not listed gives way to the first.
StartBrowser(w) ==
  /\ browser[w].pc = "off"
  /\ LET list == IF profilesFile.list = <<>> THEN <<DefaultProfile>> ELSE profilesFile.list
         active == IF Lists(list, profilesFile.active) THEN profilesFile.active ELSE list[1]
     IN /\ Put(w, [pc |-> "on", list |-> list, active |-> active, dead |-> DefaultProfile,
                   marks |-> IF marksFile = {} THEN DefaultMarks ELSE marksFile])
        /\ profilesFile' = IF profilesFile.list = <<>> THEN [list |-> list, active |-> active] ELSE profilesFile
        /\ dirs' = dirs \cup {active}
  /\ UNCHANGED <<marksFile, edits>>

Edits(w) == browser[w].pc = "on" /\ edits < MaxEdits /\ edits' = edits + 1

\* setActiveProfile: a profile this process does not list is refused.
SetActive(state, p) == IF Lists(state.list, p) THEN [state EXCEPT !.active = p] ELSE state

\* showAddProfileDialog: createProfile, then switchProfile.
CreateProfile(w) ==
  /\ Edits(w)
  /\ LET state == SetActive([browser[w] EXCEPT !.list = Append(@, edits')], edits')
     IN Put(w, state) /\ Save(state)
  /\ dirs' = dirs \cup {edits'}
  /\ UNCHANGED marksFile

\* switchProfile: the tabs load again, in the engine of the profile.
SwitchProfile(w, p) ==
  /\ Edits(w) /\ Lists(browser[w].list, p) /\ p # browser[w].active
  /\ Put(w, SetActive(browser[w], p)) /\ Save(SetActive(browser[w], p))
  /\ dirs' = dirs \cup {p}
  /\ UNCHANGED marksFile

\* Had the profile been taken from the list before another became active.
DeleteBeginsLate(w) ==
  /\ Edits(w) /\ Len(browser[w].list) > 1
  /\ Put(w, [browser[w] EXCEPT !.pc = "delete", !.dead = browser[w].active])
  /\ UNCHANGED <<profilesFile, marksFile, dirs>>

\* deleteProfile of the active profile, which must not be the only one: another becomes
\* active, and is saved with the old one still listed.
DeleteBegins(w) ==
  /\ Edits(w) /\ Len(browser[w].list) > 1
  /\ LET next == IF Target(browser[w].list, browser[w].active) = 1 THEN 2 ELSE 1
         state == SetActive(browser[w], browser[w].list[next])
     IN /\ Put(w, [state EXCEPT !.pc = "delete", !.dead = browser[w].active])
        /\ Save(state)
  /\ UNCHANGED <<marksFile, dirs>>

\* It is taken from the list, and its directory removed.
DeleteDirectory(w) ==
  /\ browser[w].pc = "delete"
  /\ Put(w, [browser[w] EXCEPT !.pc = "unlist", !.list = RemoveAt(@, Target(@, browser[w].dead))])
  /\ dirs' = dirs \ {browser[w].dead}
  /\ UNCHANGED <<profilesFile, marksFile, edits>>

\* The list is saved, and the tabs load again.
DeleteEnds(w) ==
  /\ browser[w].pc = "unlist"
  /\ Put(w, [browser[w] EXCEPT !.pc = "on", !.dead = DefaultProfile])
  /\ Save(browser[w])
  /\ dirs' = dirs \cup {browser[w].active}
  /\ UNCHANGED <<marksFile, edits>>

\* onBookmarkClicked adds or removes, and savePersistentUserData writes them all.
BookmarkClicked(w, site) ==
  /\ Edits(w)
  /\ LET marks == IF site \in browser[w].marks THEN browser[w].marks \ {site}
                  ELSE browser[w].marks \cup {site}
     IN Put(w, [browser[w] EXCEPT !.marks = marks]) /\ marksFile' = marks
  /\ UNCHANGED <<profilesFile, dirs>>

\* A process ends, at once or while it writes a file.
Dies(w) ==
  /\ browser[w].pc # "off"
  /\ Put(w, Off)
  /\ \/ UNCHANGED <<profilesFile, marksFile>>
     \/ profilesFile' = Empty /\ UNCHANGED marksFile
     \/ marksFile' = {} /\ UNCHANGED profilesFile
  /\ UNCHANGED <<dirs, edits>>

ProfilesNext ==
  \E w \in Browsers :
    \/ StartBrowser(w) \/ CreateProfile(w) \/ DeleteBegins(w) \/ DeleteDirectory(w) \/ DeleteEnds(w)
    \/ Dies(w)
    \/ \E p \in 0..MaxEdits : SwitchProfile(w, p)
    \/ \E site \in Sites : BookmarkClicked(w, site)

ProfilesSpec == ProfilesInit /\ [][ProfilesNext]_profileVars

-----------------------------------------------------------------------------
\* Properties

\* The active profile is one of the profiles, in every process and on the disk, at every
\* step of a deletion, with two processes that overwrite each other and after a process died
\* at any moment (activeProfile, deleteProfile, initialize).
ActiveIsListed ==
  /\ \A w \in Browsers : browser[w].pc # "off" => Lists(browser[w].list, browser[w].active)
  /\ profilesFile.list # <<>> => Lists(profilesFile.list, profilesFile.active)
=============================================================================
