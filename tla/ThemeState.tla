----------------------------- MODULE ThemeState -----------------------------
(***************************************************************************)
(* ~/.config/archtitan/theme.json and the programs that share it.             *)
(*                                                                          *)
(* titan-theme writes a temporary file and renames it, and every run of it       *)
(* takes the same temporary name.  titan-quicksettings reads the file, and        *)
(* rewrites it in place when the glass slider moves.  ThemeBackend, in every      *)
(* Qt program, follows it with a watch on the file and one on its directory.      *)
(* archtitan-settings starts titan-theme and mirrors the file.                    *)
(*                                                                          *)
(* A theme is its id and its glass opacity in percent.  "torn" is a file that    *)
(* is truncated and not written yet, "garbled" one with the rest of a longer one  *)
(* behind what was written, "none" one without an id.                            *)
(***************************************************************************)
EXTENDS Integers, FiniteSets

CONSTANTS
  Glasses,       \* the values of the glass slider
  MaxTouches     \* bound on how often somebody touches a switch

VARIABLES
  theme,         \* the file: [id, glass], glass 0 when the key is missing
  draft,         \* theme.json.tmp, or NoDraft
  clashed,       \* history: a titan-theme opened the draft while another was writing one
  procs,         \* titan-theme processes: [no, cmd, arg, at, fd, got, next]
  qs,            \* SystemController: [dark, glass, switching, grace, pc, buf, orphan]
  tb,            \* a ThemeBackend: [id, glass, pc], [watch, listed, events], and (history)
                 \* missed: a write in place between the last read and the watch
  page,          \* SettingsBackend: the theme it shows as current
  touches        \* how often a switch was touched

fileState == <<theme, draft, clashed>>
themeVars == <<fileState, procs, qs, tb, page, touches>>

Default == [id |-> "archtitan", glass |-> 35]
Latte   == [id |-> "latte", glass |-> 35]
Theme(id) == IF id = "latte" THEN Latte ELSE Default
IsDark(id) == id # "latte"
Empty   == [id |-> "torn", glass |-> 0]
Garbled == [id |-> "garbled", glass |-> 0]
NoDraft == [id |-> "missing", glass |-> 0]
Parses(file) == file.id \notin {"torn", "garbled"}

\* What a file holds when another content is written from its start.
Over(old, new) == IF old \in {Empty, new} THEN {new} ELSE {new, Garbled}

-----------------------------------------------------------------------------
\* Changes of the file, and what the kernel tells the watches of ThemeBackend

\* os.replace: the watch on the old inode sees no more changes of the path.
Replace(file) ==
  /\ theme' = file
  /\ tb' = [tb EXCEPT !.watch = FALSE,
                      !.events = @ \cup {"dir"} \cup (IF tb.watch THEN {"gone"} ELSE {})]
  /\ qs' = [qs EXCEPT !.orphan = @ \/ qs.pc = "write"]

Rewrite(file) ==
  /\ theme' = file
  /\ tb' = [tb EXCEPT !.events = @ \cup (IF tb.watch THEN {"file"} ELSE {}),
                      !.missed = @ \/ (tb.pc = "arm" /\ ~tb.listed)]

-----------------------------------------------------------------------------
\* titan-theme

Touch == touches < MaxTouches /\ touches' = touches + 1

Run(cmd, arg, next) ==
  procs' = procs \cup {[no |-> touches, cmd |-> cmd, arg |-> arg, at |-> "read",
                       fd |-> "closed", got |-> Default, next |-> next]}

\* A shell runs `mode`, then `accent`, whatever became of `mode`.
After(p) == IF p.next = "" THEN {}
            ELSE {[p EXCEPT !.cmd = p.next, !.at = "read", !.fd = "closed", !.got = Default, !.next = ""]}

\* read_state: a file without a palette counts as the default theme.
ReadState == IF ~Parses(theme) \/ theme.id = "none" THEN Default ELSE theme

\* cmd_mode decides by what it read; cmd_accent writes what it read back.
ProcessReads(p) ==
  /\ p.at = "read"
  /\ LET done == p.cmd = "mode" /\ IsDark(ReadState.id) = p.arg
         write == IF p.cmd = "mode" THEN Theme(IF p.arg THEN "archtitan" ELSE "latte")
                  ELSE IF p.cmd = "set" THEN Theme(p.arg) ELSE ReadState
     IN procs' = (procs \ {p}) \cup (IF done THEN After(p) ELSE {[p EXCEPT !.at = "open", !.got = write]})
  /\ UNCHANGED <<fileState, qs, tb, page, touches>>

\* write_state: the temporary file is opened and truncated, whoever else has it open,
ProcessOpens(p) ==
  /\ p.at = "open"
  /\ procs' = (procs \ {p}) \cup {[p EXCEPT !.at = "write", !.fd = "draft"]}
  /\ draft' = Empty
  /\ clashed' = (clashed \/ \E o \in procs \ {p} : o.at \in {"write", "replace"})
  /\ UNCHANGED <<theme, qs, tb, page, touches>>

\* written, under whatever name it has by then,
ProcessWrites(p) ==
  /\ p.at = "write"
  /\ procs' = (procs \ {p}) \cup {[p EXCEPT !.at = "replace", !.fd = "closed"]}
  /\ CASE p.fd = "draft" -> draft' \in Over(draft, p.got) /\ UNCHANGED <<theme, tb>>
       [] p.fd = "theme" -> (\E file \in Over(theme, p.got) : Rewrite(file)) /\ UNCHANGED draft
       [] p.fd = "gone"  -> UNCHANGED <<theme, draft, tb>>
  /\ UNCHANGED <<clashed, qs, page, touches>>

\* and renamed: without a temporary file chmod fails and the process ends.
ProcessReplaces(p) ==
  LET Renamed(o) == [o EXCEPT !.fd = CASE @ = "draft" -> "theme" [] @ = "theme" -> "gone" [] OTHER -> @]
  IN /\ p.at = "replace"
     /\ IF draft = NoDraft
        THEN procs' = (procs \ {p}) \cup After(p) /\ UNCHANGED <<theme, draft, qs, tb>>
        ELSE /\ Replace(draft) /\ draft' = NoDraft
             /\ procs' = {Renamed(o) : o \in procs \ {p}} \cup After(p)
     /\ UNCHANGED <<clashed, page, touches>>

TitanTheme(p) == ProcessReads(p) \/ ProcessOpens(p) \/ ProcessWrites(p) \/ ProcessReplaces(p)

-----------------------------------------------------------------------------
\* titan-quicksettings

ThemeInit ==
  /\ theme = Default /\ draft = NoDraft /\ clashed = FALSE /\ procs = {} /\ touches = 0
  /\ qs = [dark |-> TRUE, glass |-> 35, switching |-> FALSE, grace |-> FALSE,
           pc |-> "idle", buf |-> Default, orphan |-> FALSE]
  /\ tb = [id |-> "archtitan", glass |-> 35, pc |-> "idle",
           watch |-> TRUE, listed |-> TRUE, events |-> {}, missed |-> FALSE]
  /\ page = "archtitan"

\* setThemeDark
SetThemeDark(dark) ==
  /\ Touch /\ qs.pc = "idle"
  /\ qs' = [qs EXCEPT !.dark = dark, !.switching = TRUE, !.grace = TRUE]
  /\ Run("mode", dark, "")
  /\ UNCHANGED <<fileState, tb, page>>

\* Four seconds since the last switch.
GraceEnds ==
  /\ qs.grace /\ qs' = [qs EXCEPT !.grace = FALSE]
  /\ UNCHANGED <<fileState, procs, tb, page, touches>>

UpdateThemeUntilVerified ==
  /\ qs.pc = "idle"
  /\ LET glass == IF Parses(theme) /\ theme.glass # 0 THEN theme.glass ELSE qs.glass
     IN IF qs.switching
        THEN qs' = [qs EXCEPT !.glass = glass,
                              !.switching = ~(Parses(theme) /\ IsDark(theme.id) = qs.dark)]
        ELSE \E dark \in IF Parses(theme) THEN {IsDark(theme.id)} ELSE BOOLEAN :
               qs' = [qs EXCEPT !.glass = glass, !.dark = dark]
  /\ UNCHANGED <<fileState, procs, tb, page, touches>>

\* updateTheme, from the timer, the watcher or a refresh.  gsettings answers for a file
\* that does not parse.
UpdateTheme ==
  /\ qs.pc = "idle"
  /\ LET glass == IF Parses(theme) /\ theme.glass # 0 THEN theme.glass ELSE qs.glass
         waits == qs.switching /\ qs.grace
     IN IF waits
        THEN qs' = [qs EXCEPT !.glass = glass,
                              !.switching = ~(Parses(theme) /\ IsDark(theme.id) = qs.dark)]
        ELSE \E dark \in IF Parses(theme) THEN {IsDark(theme.id)} ELSE BOOLEAN :
               qs' = [qs EXCEPT !.glass = glass, !.dark = dark, !.switching = FALSE]
  /\ UNCHANGED <<fileState, procs, tb, page, touches>>

\* setGlassOpacity: read, open and truncate, write.
GlassRead(value) ==
  /\ Touch /\ qs.pc = "idle" /\ value # qs.glass
  /\ qs' = [qs EXCEPT !.glass = value, !.pc = "open",
                      !.buf = IF Parses(theme) THEN theme ELSE [id |-> "none", glass |-> 0]]
  /\ UNCHANGED <<fileState, procs, tb, page>>

GlassTruncate ==
  /\ qs.pc = "open"
  /\ qs' = [qs EXCEPT !.pc = "write", !.orphan = FALSE]
  /\ Rewrite(Empty)
  /\ UNCHANGED <<draft, clashed, procs, page, touches>>

\* A file replaced meanwhile is not the one that is open.
GlassWrite ==
  /\ qs.pc = "write"
  /\ qs' = [qs EXCEPT !.pc = "idle", !.buf = Default, !.orphan = FALSE]
  /\ IF qs.orphan THEN UNCHANGED <<theme, tb>>
     ELSE \E file \in Over(theme, [id |-> qs.buf.id, glass |-> qs.glass]) : Rewrite(file)
  /\ UNCHANGED <<draft, clashed, procs, page, touches>>

-----------------------------------------------------------------------------
\* ThemeBackend::reload: read, then watch the path again if it is not on the list

\* What reload() makes of the file.
Shown == [id    |-> IF Parses(theme) /\ theme.id # "none" THEN theme.id ELSE "mocha",
          glass |-> IF theme.glass # 0 THEN theme.glass ELSE 35]

BackendReads(e) ==
  /\ tb.pc = "idle" /\ e \in tb.events
  /\ tb' = [tb EXCEPT !.pc = "arm", !.events = @ \ {e}, !.listed = @ /\ e # "gone",
                      !.id = Shown.id, !.glass = Shown.glass, !.missed = FALSE]
  /\ UNCHANGED <<fileState, procs, qs, page, touches>>

\* Were the watch not set again.
BackendRests ==
  /\ tb.pc = "arm" /\ tb' = [tb EXCEPT !.pc = "idle"]
  /\ UNCHANGED <<fileState, procs, qs, page, touches>>

BackendArms ==
  /\ tb.pc = "arm"
  /\ tb' = [tb EXCEPT !.pc = "idle", !.listed = TRUE, !.watch = @ \/ ~tb.listed]
  /\ UNCHANGED <<fileState, procs, qs, page, touches>>

-----------------------------------------------------------------------------
\* archtitan-settings

LoadThemeState(p) ==
  IF ~Parses(theme) THEN p ELSE IF theme.id = "none" THEN "archtitan" ELSE theme.id

\* The state is read back while the process it started may not have run.
ApplyThemeTemplate(id) ==
  /\ Touch
  /\ Run("set", id, "")
  /\ page' = LoadThemeState(id)
  /\ UNCHANGED <<fileState, qs, tb>>

ApplyAppearance(dark) ==
  /\ Touch
  /\ Run("mode", dark, "accent")
  /\ UNCHANGED <<fileState, qs, tb, page>>

ThemeNext ==
  \/ \E p \in procs : TitanTheme(p)
  \/ \E dark \in BOOLEAN : SetThemeDark(dark) \/ ApplyAppearance(dark)
  \/ GraceEnds \/ UpdateTheme
  \/ \E value \in Glasses : GlassRead(value)
  \/ GlassTruncate \/ GlassWrite
  \/ \E e \in tb.events : BackendReads(e)
  \/ BackendArms
  \/ \E id \in {"archtitan", "latte"} : ApplyThemeTemplate(id)

\* Processes and handlers end, the three-second timer goes off, watches are read.
ThemeFairness ==
  /\ WF_themeVars(\E p \in procs : TitanTheme(p))
  /\ WF_themeVars(GraceEnds \/ GlassTruncate \/ GlassWrite)
  /\ WF_themeVars(UpdateTheme)
  /\ WF_themeVars(BackendArms \/ \E e \in tb.events : BackendReads(e))

ThemeSpec == ThemeInit /\ [][ThemeNext]_themeVars /\ ThemeFairness

-----------------------------------------------------------------------------
\* Properties

\* When the last switch was touched, the quick settings and every ThemeBackend end up
\* showing what the file says, in whatever order the writers ran and whatever a read found
\* half written; and the file says something, unless two runs of titan-theme wrote their
\* shared temporary file at a time.  What ThemeBackend does not hear of is a write in place
\* between its read and its new watch, until the next change (updateTheme, reload,
\* write_state).
ThemeConverges ==
  <>[](/\ clashed \/ Parses(theme)
       /\ Parses(theme) => qs.dark = IsDark(theme.id)
       /\ theme.glass # 0 => qs.glass = theme.glass
       /\ tb.missed \/ (tb.id = Shown.id /\ tb.glass = Shown.glass))
=============================================================================
