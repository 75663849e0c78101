---------------------------- MODULE DesktopProofs ----------------------------
(***************************************************************************)
(* Machine-checked proofs about programs beside the daemon: the pointer         *)
(* daemon, for every geometry, the overlays, for every number of processes, and  *)
(* the guard, for every number of runs.                                           *)
(***************************************************************************)
EXTENDS HotZones, Overlays, Guard, SequenceTheorems, WellFoundedInduction, TLAPS

-----------------------------------------------------------------------------
\* The pointer daemon.  What a handler appends to its broadcast moves neither the dwell
\* machine nor the record of the command.

Dwells == {"zstate", "launched"}

Keeps(d, e) == DOMAIN e = DOMAIN d /\ e.zstate = d.zstate /\ e.launched = d.launched

LEMMA SendKeeps ==
  ASSUME NEW d, Dwells \subseteq DOMAIN d, NEW msg
  PROVE  Keeps(d, Send(d, msg))
BY DEF Dwells, Keeps, Send

LEMMA UpdateFrameKeeps ==
  ASSUME NEW d, Dwells \subseteq DOMAIN d, NEW force, NEW aw, NEW cfg
  PROVE  Keeps(d, UpdateFrame(d, force, aw, cfg))
BY DEF Dwells, Keeps, UpdateFrame, Send

LEMMA SetEnabledKeeps ==
  ASSUME NEW d, Dwells \subseteq DOMAIN d, NEW on, NEW aw, NEW cfg
  PROVE  Keeps(d, SetEnabled(d, on, aw, cfg))
<1> DEFINE set == [d EXCEPT !.enabled = on]
           off == HideOsd(set)
<1>1. Keeps(d, set)
  BY DEF Dwells, Keeps
<1>2. Keeps(d, off)
  BY <1>1 DEF Dwells, Keeps, HideOsd, Send
<1> HIDE DEF set, off
<1>3. ASSUME NEW e, Keeps(d, e) PROVE Keeps(d, UpdateFrame(e, FALSE, aw, cfg))
  <2>1. Keeps(e, UpdateFrame(e, FALSE, aw, cfg))
    <3>1. Dwells \subseteq DOMAIN e
      BY <1>3 DEF Keeps
    <3> QED BY <3>1, UpdateFrameKeeps
  <2> QED BY <1>3, <2>1 DEF Keeps
<1>4. SetEnabled(d, on, aw, cfg) = UpdateFrame(IF on THEN set ELSE off, FALSE, aw, cfg)
  BY DEF SetEnabled, set, off
<1> QED BY <1>1, <1>2, <1>3, <1>4

LEMMA ToastKeeps ==
  ASSUME NEW d, Dwells \subseteq DOMAIN d, NEW label
  PROVE  Keeps(d, ShowToast(d, label)) /\ Keeps(d, HideToast(d))
BY DEF Dwells, Keeps, ShowToast, HideToast, Send

LEMMA PublishKeeps ==
  ASSUME NEW d, Dwells \subseteq DOMAIN d, NEW hit, NEW fired, NEW cfg
  PROVE  Keeps(d, PublishOsd(d, hit, fired, cfg))
<1> DEFINE shown(z, r) == [d EXCEPT !.osdVisible = TRUE, !.sentZone = z, !.sentProgress = r]
           gone == [d EXCEPT !.osdVisible = FALSE, !.sentZone = "", !.sentProgress = -1]
<1>1. Keeps(d, gone) /\ \A z, r : Keeps(d, shown(z, r))
  BY DEF Dwells, Keeps
<1> HIDE DEF shown, gone
<1>2. ASSUME NEW e, Keeps(d, e), NEW msg PROVE Keeps(d, Send(e, msg))
  BY <1>2 DEF Dwells, Keeps, Send
<1>3. \/ PublishOsd(d, hit, fired, cfg) = d
      \/ \E z, r : PublishOsd(d, hit, fired, cfg) = Send(shown(z, r), [cmd |-> "show", kind |-> "zone"])
      \/ PublishOsd(d, hit, fired, cfg) = Send(gone, Hide)
  BY DEF PublishOsd, shown, gone
<1>4. Keeps(d, d)
  BY DEF Keeps
<1> QED BY <1>1, <1>2, <1>3, <1>4

-----------------------------------------------------------------------------
\* The machine cannot fire again before it has been idle, and becomes idle after a firing only
\* when it sees the pointer inside the box.

DwellInv ==
  /\ Dwells \subseteq DOMAIN hz
  /\ stayed => hz.zstate = "Locked"

LEMMA StartKeeps ==
  ASSUME NEW force, NEW aw, NEW cfg
  PROVE  /\ Dwells \subseteq DOMAIN [UpdateFrame(FreshDaemon, force, aw, cfg) EXCEPT !.out = <<>>]
         /\ ~[UpdateFrame(FreshDaemon, force, aw, cfg) EXCEPT !.out = <<>>].launched
<1>1. Dwells \subseteq DOMAIN FreshDaemon /\ ~FreshDaemon.launched
  BY DEF FreshDaemon, Dwells
<1>2. Keeps(FreshDaemon, UpdateFrame(FreshDaemon, force, aw, cfg))
  BY <1>1, UpdateFrameKeeps
<1> QED BY <1>1, <1>2 DEF Keeps, Dwells

LEMMA DwellInit == HzInit => DwellInv
<1> SUFFICES ASSUME HzInit PROVE DwellInv
  OBVIOUS
<1>1. hz = [UpdateFrame(FreshDaemon, TRUE, window, config) EXCEPT !.out = <<>>] /\ ~stayed
  BY DEF HzInit
<1> QED BY <1>1, StartKeeps DEF DwellInv

\* A step that only broadcasts.
LEMMA BroadcastKeeps ==
  ASSUME DwellInv, stayed' = stayed, NEW d, Keeps(hz, d), Broadcast(d)
  PROVE  DwellInv' /\ hz'.launched = hz.launched
BY DEF DwellInv, Keeps, Broadcast, Dwells

LEMMA TickDwells ==
  ASSUME DwellInv, NEW p \in Positions, OnTick(p)
  PROVE  DwellInv' /\ (~hz.launched /\ hz'.launched => ~stayed)
<1> DEFINE hit == Sample[<<p, config>>].hit
           inner == Sample[<<p, config>>].inner
           d == Update(hz, hit, inner, config)
           fired == hz.enabled /\ hz.zstate = "Armed" /\ d.zstate = "Locked"
<1>1. PICK aw \in Answers :
        Broadcast(PublishOsd([d EXCEPT !.launched = fired /\ hit.id \in Bindings /\ ~Inhibited(aw)],
                             hit, fired, config))
  BY DEF OnTick
<1>2. stayed' = (fired \/ (stayed /\ ~inner))
  BY DEF OnTick
<1>3. DOMAIN d = DOMAIN hz /\ (hz.zstate = "Locked" /\ ~inner => d.zstate = "Locked")
  BY DEF Update, Dwells, DwellInv
<1> DEFINE e == [d EXCEPT !.launched = fired /\ hit.id \in Bindings /\ ~Inhibited(aw)]
<1>4. /\ DOMAIN e = DOMAIN hz /\ e.zstate = d.zstate
      /\ e.launched => fired
  BY <1>3 DEF DwellInv, Dwells
<1>5. Keeps(e, PublishOsd(e, hit, fired, config))
  <2> HIDE DEF e, fired, hit
  <2> QED BY <1>4, PublishKeeps DEF DwellInv
<1>6. /\ DOMAIN hz' = DOMAIN hz /\ hz'.zstate = d.zstate
      /\ hz'.launched => fired
  <2> HIDE DEF e, d, fired, hit
  <2>1. Broadcast(PublishOsd(e, hit, fired, config))
    BY <1>1 DEF e
  <2> QED BY <2>1, <1>4, <1>5 DEF Broadcast, Keeps, DwellInv, Dwells
<1>7. fired => d.zstate = "Locked" /\ ~stayed
  BY DEF DwellInv
<1>8. stayed' => d.zstate = "Locked"
  <2> HIDE DEF d, inner
  <2> QED BY <1>2, <1>3, <1>7 DEF DwellInv
<1> HIDE DEF d, inner, fired
<1> QED BY <1>6, <1>7, <1>8 DEF DwellInv

\* Every handler but the tick.
LEMMA HandlerDwells ==
  ASSUME DwellInv, HzNext, ~\E p \in Positions : OnTick(p)
  PROVE  DwellInv' /\ (~hz.launched /\ hz'.launched => ~stayed)
<1>1. Dwells \subseteq DOMAIN hz
  BY DEF DwellInv
<1>2. CASE WindowChanges
  BY <1>2 DEF WindowChanges, DwellInv, Dwells
<1>3. ASSUME NEW l \in Toasts, WorkspaceLine(l) PROVE DwellInv' /\ hz'.launched = hz.launched
  <2>1. Keeps(hz, [ShowToast(hz, l) EXCEPT !.frameTimer = TRUE])
    BY <1>1, ToastKeeps DEF Keeps, Dwells
  <2> QED BY <2>1, <1>3, BroadcastKeeps DEF WorkspaceLine
<1>4. CASE SpecialCloses
  <2>1. Keeps(hz, [HideToast(hz) EXCEPT !.frameTimer = TRUE])
    BY <1>1, ToastKeeps DEF Keeps, Dwells
  <2> QED BY <2>1, <1>4, BroadcastKeeps DEF SpecialCloses
<1>5. CASE ToastTimeout
  BY <1>1, <1>5, ToastKeeps, BroadcastKeeps DEF ToastTimeout
<1>6. CASE FrameTimeout
  <2> DEFINE d == [hz EXCEPT !.frameTimer = FALSE]
  <2>1. Keeps(hz, d)
    BY <1>1 DEF Keeps, Dwells
  <2>2. PICK aw \in Answers : Broadcast(UpdateFrame(d, FALSE, aw, config))
    BY <1>6 DEF FrameTimeout
  <2> HIDE DEF d
  <2>3. Keeps(d, UpdateFrame(d, FALSE, aw, config))
    <3>1. Dwells \subseteq DOMAIN d
      BY <1>1, <2>1 DEF Keeps
    <3> QED BY <3>1, UpdateFrameKeeps
  <2>4. Keeps(hz, UpdateFrame(d, FALSE, aw, config))
    BY <2>1, <2>3 DEF Keeps
  <2> QED BY <1>6, <2>2, <2>4, BroadcastKeeps DEF FrameTimeout
<1>7. ASSUME NEW on \in BOOLEAN, Control(on) PROVE DwellInv' /\ hz'.launched = hz.launched
  <2>1. PICK aw \in Answers :
          Broadcast(SetEnabled(UpdateFrame(hz, TRUE, aw, config), on, aw, config))
    BY <1>7 DEF Control
  <2> DEFINE d == UpdateFrame(hz, TRUE, aw, config)
  <2>2. Keeps(hz, d)
    BY <1>1, UpdateFrameKeeps
  <2> HIDE DEF d
  <2>3. Dwells \subseteq DOMAIN d
    BY <1>1, <2>2 DEF Keeps
  <2>4. Keeps(d, SetEnabled(d, on, aw, config))
    BY <2>3, SetEnabledKeeps
  <2>5. Keeps(hz, SetEnabled(d, on, aw, config)) /\ Broadcast(SetEnabled(d, on, aw, config))
    BY <2>1, <2>2, <2>4 DEF Keeps, d
  <2> QED BY <1>7, <2>5, BroadcastKeeps DEF Control
<1>8. CASE OsdConnects
  <2>1. PICK aw \in Answers : hz' = [UpdateFrame(hz, TRUE, aw, config) EXCEPT !.out = <<>>]
    BY <1>8 DEF OsdConnects
  <2>2. Keeps(hz, UpdateFrame(hz, TRUE, aw, config))
    BY <1>1, UpdateFrameKeeps
  <2> QED BY <1>8, <2>1, <2>2 DEF OsdConnects, Keeps, DwellInv, Dwells
<1>9. CASE OsdRestarts
  BY <1>9 DEF OsdRestarts, DwellInv
<1>10. CASE DaemonRestarts
  <2>1. PICK aw \in Answers :
          hz' = [UpdateFrame(FreshDaemon, TRUE, aw, config) EXCEPT !.out = <<>>] /\ stayed' = FALSE
    BY <1>10 DEF DaemonRestarts
  <2> QED BY <2>1, StartKeeps DEF DwellInv
<1> QED BY <1>2, <1>3, <1>4, <1>5, <1>6, <1>7, <1>8, <1>9, <1>10 DEF HzNext

\* A command fires once per touch, for every arrangement of screens, zones and exclusion box,
\* every dwell and cooldown, and whatever switches, toasts and restarts come in between.
THEOREM FiresOnce == HzSpec => OncePerTouch
<1>1. DwellInv /\ [HzNext]_hzVars => DwellInv' /\ [~hz.launched /\ hz'.launched => ~stayed]_hzVars
  <2> SUFFICES ASSUME DwellInv, [HzNext]_hzVars
               PROVE  DwellInv' /\ [~hz.launched /\ hz'.launched => ~stayed]_hzVars
    OBVIOUS
  <2>1. CASE \E p \in Positions : OnTick(p)
    BY <2>1, TickDwells
  <2>2. CASE HzNext /\ ~\E p \in Positions : OnTick(p)
    BY <2>2, HandlerDwells
  <2>3. CASE UNCHANGED hzVars
    BY <2>3 DEF hzVars, DwellInv
  <2> QED BY <2>1, <2>2, <2>3
<1> QED BY <1>1, DwellInit, PTL DEF HzSpec, OncePerTouch

-----------------------------------------------------------------------------
\* The frame of the pointer daemon.  Induction over a set of numbers.
LEMMA EveryNat ==
  ASSUME NEW P, 0 \in P, \A k \in Nat : k \in P => k + 1 \in P
  PROVE  Nat \subseteq P
<1> DEFINE T == Nat \ P
<1> SUFFICES ASSUME T # {} PROVE FALSE
  OBVIOUS
<1>1. PICK x \in T : \A y \in T : ~(<<y, x>> \in OpToRel(<, Nat))
  BY NatLessThanWellFounded, WFMin, Zenon
<1>2. \A y \in T : ~(y < x)
  BY <1>1 DEF OpToRel
<1>3. x - 1 \in Nat /\ x - 1 < x
  OBVIOUS
<1> QED BY <1>2, <1>3

\* What an overlay in state o is in after the messages s: the fold is a recursion over the
\* sets of their positions, which takes the last position away.
FoldStep(f, o, s, S) == IF S = {} THEN o ELSE Apply(f[S \ {Max(S)}], s[Max(S)])
PartialFolds(f, o, s) == [S \in SUBSET DOMAIN s |-> FoldStep(f, o, s, S)]
Fold(o, s) == FoldLeft(Apply, o, s)

Listing(s) == \E T : s \in Seq(T)

LEMMA LastIs ==
  ASSUME NEW k \in Nat, NEW S \in SUBSET (1..(k + 1)), k + 1 \in S
  PROVE  Max(S) = k + 1
<1>1. \A x \in S : k + 1 >= x
  OBVIOUS
<1>2. ASSUME NEW x \in S, \A y \in S : x >= y PROVE x = k + 1
  BY <1>2
<1> QED BY <1>1, <1>2 DEF Max

LEMMA FoldExists ==
  ASSUME NEW o, NEW s, NEW n \in Nat, DOMAIN s = 1..n
  PROVE  \E f : f = PartialFolds(f, o, s)
<1> DEFINE Has(k) == \E f : f = [S \in SUBSET (1..k) |-> FoldStep(f, o, s, S)]
           P == {k \in Nat : Has(k)}
<1>1. 0 \in P
  <2> DEFINE f == [S \in SUBSET (1..0) |-> o]
  <2>1. \A S \in SUBSET (1..0) : S = {}
    OBVIOUS
  <2>2. f = [S \in SUBSET (1..0) |-> FoldStep(f, o, s, S)]
    BY <2>1 DEF FoldStep
  <2> QED BY <2>2
<1>2. ASSUME NEW k \in Nat, k \in P PROVE k + 1 \in P
  <2>1. PICK f : f = [S \in SUBSET (1..k) |-> FoldStep(f, o, s, S)]
    BY <1>2
  <2> DEFINE Low == SUBSET (1..k)
             High == SUBSET (1..(k + 1))
             g == [S \in High |-> IF S \in Low THEN f[S] ELSE FoldStep(f, o, s, S)]
  <2>2. \A S \in High : g[S] = FoldStep(f, o, s, S)
    BY <2>1
  <2>3. \A S \in Low : S \in High /\ g[S] = f[S]
    OBVIOUS
  <2>4. \A S \in High : S \ {Max(S)} \in Low
    <3> SUFFICES ASSUME NEW S \in High PROVE S \ {Max(S)} \in Low
      OBVIOUS
    <3>1. CASE k + 1 \in S
      <4>1. Max(S) = k + 1
        BY <3>1, LastIs
      <4>2. (1..(k + 1)) \ {k + 1} = 1..k
        OBVIOUS
      <4>3. S \ {k + 1} \subseteq 1..k
        BY <4>2
      <4> QED BY <4>1, <4>3
    <3>2. CASE k + 1 \notin S
      <4>1. (1..(k + 1)) \ {k + 1} = 1..k
        OBVIOUS
      <4>2. S \subseteq 1..k
        BY <3>2, <4>1
      <4> QED BY <4>2
    <3> QED BY <3>1, <3>2
  <2>5. g = [S \in High |-> g[S]]
    OBVIOUS
  <2> HIDE DEF g, Low, High
  <2>6. \A S \in High : FoldStep(f, o, s, S) = FoldStep(g, o, s, S)
    BY <2>3, <2>4 DEF FoldStep
  <2>7. g = [S \in High |-> FoldStep(g, o, s, S)]
    BY <2>2, <2>5, <2>6
  <2>8. Has(k + 1)
    BY <2>7 DEF High
  <2> HIDE DEF Has
  <2> QED BY <2>8
<1>3. n \in P
  <2> HIDE DEF P
  <2> QED BY <1>1, <1>2, EveryNat
<1>4. PICK f : f = [S \in SUBSET (1..n) |-> FoldStep(f, o, s, S)]
  BY <1>3
<1>5. f = PartialFolds(f, o, s)
  BY <1>4 DEF PartialFolds
<1> QED BY <1>5

IsFold(f, o, s) ==
  /\ Fold(o, s) = f[1..Len(s)] /\ f[{}] = o
  /\ \A i \in 1..Len(s) : f[1..i] = Apply(f[1..(i - 1)], s[i])

LEMMA FoldIs ==
  ASSUME NEW o, NEW s, Listing(s)
  PROVE  \E f : IsFold(f, o, s)
<1> DEFINE f == CHOOSE f : f = PartialFolds(f, o, s)
<1>1. DOMAIN s = 1..Len(s) /\ Len(s) \in Nat
  BY LenProperties DEF Listing
<1>2. f = PartialFolds(f, o, s)
  BY <1>1, FoldExists
<1>3. Fold(o, s) = f[DOMAIN s]
  BY DEF Fold, FoldLeft, MapThenFoldSet, PartialFolds, FoldStep
<1> HIDE DEF f
<1>4. \A S \in SUBSET (1..Len(s)) : f[S] = FoldStep(f, o, s, S)
  BY <1>1, <1>2 DEF PartialFolds
<1>5. f[{}] = o
  BY <1>4 DEF FoldStep
<1>6. ASSUME NEW i \in 1..Len(s) PROVE f[1..i] = Apply(f[1..(i - 1)], s[i])
  <2>1. 1..i \in SUBSET (1..Len(s)) /\ i \in 1..i
    BY <1>1
  <2>2. Max(1..i) = i
    <3>1. i - 1 \in Nat /\ (i - 1) + 1 = i
      BY <1>1
    <3>2. \A k \in Nat : Max(1..(k + 1)) = k + 1
      BY LastIs
    <3> QED BY <3>1, <3>2
  <2>3. (1..i) \ {i} = 1..(i - 1)
    BY <1>1
  <2> QED BY <1>4, <2>1, <2>2, <2>3 DEF FoldStep
<1> QED BY <1>1, <1>3, <1>5, <1>6 DEF IsFold

LEMMA FoldEmpty ==
  ASSUME NEW o
  PROVE  Fold(o, <<>>) = o /\ Listing(<<>>)
<1>1. <<>> \in Seq({}) /\ Len(<<>>) = 0
  OBVIOUS
<1>2. Listing(<<>>)
  BY <1>1 DEF Listing
<1>3. 1..0 = {}
  OBVIOUS
<1> QED BY <1>1, <1>2, <1>3, FoldIs DEF IsFold

\* The overlay reads the messages in their order: one more is applied last.
LEMMA FoldAppend ==
  ASSUME NEW o, NEW s, Listing(s), NEW m
  PROVE  Fold(o, Append(s, m)) = Apply(Fold(o, s), m) /\ Listing(Append(s, m))
<1> DEFINE t == Append(s, m)
           n == Len(s)
<1>1. PICK T : s \in Seq(T) /\ m \in T
  <2>1. PICK T : s \in Seq(T)
    BY DEF Listing
  <2> DEFINE U == T \cup {m}
  <2>2. s \in Seq(U) /\ m \in U
    BY <2>1, SeqMonotonic
  <2> QED BY <2>2
<1>2. /\ t \in Seq(T) /\ Len(t) = n + 1 /\ n \in Nat /\ t[n + 1] = m
      /\ \A i \in 1..n : t[i] = s[i]
  BY <1>1, AppendProperties, LenProperties
<1> HIDE DEF t
<1>3. Listing(t)
  BY <1>2 DEF Listing
<1>4. PICK f : IsFold(f, o, s)
  BY FoldIs
<1>5. PICK g : IsFold(g, o, t)
  BY <1>3, FoldIs
<1>6. /\ Fold(o, s) = f[1..n] /\ f[{}] = o
       /\ \A i \in 1..n : f[1..i] = Apply(f[1..(i - 1)], s[i])
  BY <1>4 DEF IsFold
<1>7. /\ Fold(o, t) = g[1..(n + 1)] /\ g[{}] = o
       /\ \A i \in 1..(n + 1) : g[1..i] = Apply(g[1..(i - 1)], t[i])
  BY <1>2, <1>5 DEF IsFold
<1> HIDE DEF n
<1> DEFINE P == {k \in Nat : k <= n => f[1..k] = g[1..k]}
<1>8. 0 \in P
  <2>1. 1..0 = {}
    OBVIOUS
  <2> QED BY <1>6, <1>7, <2>1
<1>9. ASSUME NEW k \in Nat, k \in P PROVE k + 1 \in P
  <2> SUFFICES ASSUME k + 1 <= n PROVE f[1..(k + 1)] = g[1..(k + 1)]
    OBVIOUS
  <2>1. k + 1 \in 1..n /\ k + 1 \in 1..(n + 1) /\ (k + 1) - 1 = k /\ k <= n
    BY <1>2
  <2>2. f[1..k] = g[1..k]
    BY <1>9, <2>1
  <2>3. f[1..(k + 1)] = Apply(f[1..k], s[k + 1])
    BY <1>6, <2>1
  <2>4. g[1..(k + 1)] = Apply(g[1..k], t[k + 1])
    BY <1>7, <2>1
  <2> QED BY <1>2, <2>1, <2>2, <2>3, <2>4
<1>10. n \in P
  <2> HIDE DEF P
  <2> QED BY <1>2, <1>8, <1>9, EveryNat
<1>11. g[1..(n + 1)] = Apply(g[1..n], t[n + 1])
  <2>1. n + 1 \in 1..(n + 1) /\ (n + 1) - 1 = n
    BY <1>2
  <2> QED BY <1>7, <2>1
<1>12. f[1..n] = g[1..n]
  BY <1>10
<1> QED BY <1>2, <1>3, <1>6, <1>7, <1>11, <1>12 DEF t

\* A message to an overlay.
LEMMA ApplyFrame ==
  ASSUME NEW o, "frame" \in DOMAIN o, NEW msg, msg.cmd \in {"hide", "show", "frame"}
  PROVE  /\ "frame" \in DOMAIN Apply(o, msg)
         /\ Apply(o, msg).frame = IF msg.cmd = "frame" THEN msg.show ELSE o.frame
BY DEF Apply

\* A handler in the middle, for an overlay that was in state o before it: once what it has
\* appended so far is read, the overlay has a frame, and in step, the one that is believed.
Carries(d, o) ==
  /\ {"out", "frameShown"} \subseteq DOMAIN d
  /\ Listing(d.out) /\ "frame" \in DOMAIN Fold(o, d.out)

InStep(d, o) == Carries(d, o) /\ Fold(o, d.out).frame = d.frameShown

\* Broadcasts reach an overlay that is connected.
Tells(d) == Carries(d, overlay) /\ (link => InStep(d, overlay))

LEMMA OthersTell ==
  ASSUME NEW d, Tells(d), NEW e, DOMAIN e = DOMAIN d, e.out = d.out, e.frameShown = d.frameShown
  PROVE  Tells(e)
BY DEF Tells, InStep, Carries

LEMMA SendTells ==
  ASSUME NEW d, Tells(d), NEW msg, msg.cmd \in {"hide", "show"}
  PROVE  Tells(Send(d, msg))
<1> DEFINE e == Send(d, msg)
<1>1. DOMAIN e = DOMAIN d /\ e.out = Append(d.out, msg) /\ e.frameShown = d.frameShown
  BY DEF Send, Tells, Carries
<1> HIDE DEF e
<1>2. Fold(overlay, e.out) = Apply(Fold(overlay, d.out), msg) /\ Listing(e.out)
  BY <1>1, FoldAppend DEF Tells, Carries
<1>3. /\ "frame" \in DOMAIN Fold(overlay, e.out)
      /\ Fold(overlay, e.out).frame = Fold(overlay, d.out).frame
  BY <1>2, ApplyFrame DEF Tells, Carries
<1> QED BY <1>1, <1>2, <1>3 DEF Tells, InStep, Carries, e

\* updateFrame, forced, brings any overlay in step.
LEMMA UpdateFrameSteps ==
  ASSUME NEW d, NEW o, Carries(d, o), NEW force, force \/ InStep(d, o), NEW aw, NEW cfg
  PROVE  InStep(UpdateFrame(d, force, aw, cfg), o)
<1> DEFINE want == d.enabled /\ cfg.frame /\ aw # "fullscreen"
           msg == [cmd |-> "frame", show |-> want]
           e == [[d EXCEPT !.frameShown = want] EXCEPT !.out = Append(@, msg)]
<1>1. UpdateFrame(d, force, aw, cfg) = IF ~force /\ want = d.frameShown THEN d ELSE e
  BY DEF UpdateFrame, Send
<1>2. msg.cmd = "frame" /\ msg.show = want
  OBVIOUS
<1> HIDE DEF want, msg
<1>3. DOMAIN e = DOMAIN d /\ e.out = Append(d.out, msg) /\ e.frameShown = want
  BY DEF Carries
<1> HIDE DEF e
<1>4. Fold(o, e.out) = Apply(Fold(o, d.out), msg) /\ Listing(e.out)
  BY <1>3, FoldAppend DEF Carries
<1>5. InStep(e, o)
  BY <1>2, <1>3, <1>4, ApplyFrame DEF InStep, Carries
<1> QED BY <1>1, <1>5

LEMMA UpdateFrameTells ==
  ASSUME NEW d, Tells(d), NEW force \in BOOLEAN, NEW aw, NEW cfg
  PROVE  Tells(UpdateFrame(d, force, aw, cfg))
<1>1. CASE link
  BY <1>1, UpdateFrameSteps DEF Tells, InStep
<1>2. CASE ~link
  <2>1. Carries(d, overlay)
    BY DEF Tells
  <2>2. InStep(UpdateFrame(d, TRUE, aw, cfg), overlay)
    BY <2>1, UpdateFrameSteps
  <2>3. UpdateFrame(d, force, aw, cfg) \in {d, UpdateFrame(d, TRUE, aw, cfg)}
    BY DEF UpdateFrame
  <2> QED BY <1>2, <2>1, <2>2, <2>3 DEF Tells, InStep
<1> QED BY <1>1, <1>2

LEMMA SetEnabledTells ==
  ASSUME NEW d, Tells(d), NEW on, NEW aw, NEW cfg
  PROVE  Tells(SetEnabled(d, on, aw, cfg))
<1> DEFINE set == [d EXCEPT !.enabled = on]
           gone == [set EXCEPT !.osdVisible = FALSE, !.sentZone = "", !.sentProgress = -1]
           off == Send(gone, Hide)
<1>1. SetEnabled(d, on, aw, cfg) = UpdateFrame(IF on THEN set ELSE off, FALSE, aw, cfg)
  BY DEF SetEnabled, HideOsd
<1>2. Tells(set) /\ Tells(gone)
  <2>1. /\ DOMAIN set = DOMAIN d /\ set.out = d.out /\ set.frameShown = d.frameShown
        /\ DOMAIN gone = DOMAIN d /\ gone.out = d.out /\ gone.frameShown = d.frameShown
    OBVIOUS
  <2> HIDE DEF set, gone
  <2> QED BY <2>1, OthersTell
<1> HIDE DEF set, gone
<1>3. Tells(off)
  BY <1>2, SendTells DEF Hide
<1> HIDE DEF off
<1>4. Tells(UpdateFrame(set, FALSE, aw, cfg)) /\ Tells(UpdateFrame(off, FALSE, aw, cfg))
  BY <1>2, <1>3, UpdateFrameTells
<1> QED BY <1>1, <1>4

LEMMA ToastTells ==
  ASSUME NEW d, Tells(d), NEW label
  PROVE  Tells(ShowToast(d, label)) /\ Tells(HideToast(d))
<1> DEFINE now(l) == [d EXCEPT !.toast = l]
           msg == [cmd |-> "show", kind |-> "workspace"]
<1>1. \A l : Tells(now(l))
  <2> SUFFICES ASSUME NEW l PROVE Tells(now(l))
    OBVIOUS
  <2>1. DOMAIN now(l) = DOMAIN d /\ now(l).out = d.out /\ now(l).frameShown = d.frameShown
    OBVIOUS
  <2> HIDE DEF now
  <2> QED BY <2>1, OthersTell
<1>2. ShowToast(d, label) \in {d, Send(now(label), msg)}
  BY DEF ShowToast
<1>3. HideToast(d) \in {now(""), Send(now(""), Hide)}
  BY DEF HideToast
<1>4. msg.cmd = "show" /\ Hide.cmd = "hide"
  BY DEF Hide
<1> HIDE DEF now, msg
<1>5. \A l : Tells(Send(now(l), msg)) /\ Tells(Send(now(l), Hide))
  <2> SUFFICES ASSUME NEW l PROVE Tells(Send(now(l), msg)) /\ Tells(Send(now(l), Hide))
    OBVIOUS
  <2>1. Tells(now(l))
    BY <1>1
  <2> QED BY <1>4, <2>1, SendTells
<1>6. Tells(ShowToast(d, label))
  BY <1>2, <1>5
<1>7. Tells(HideToast(d))
  BY <1>1, <1>3, <1>5
<1> QED BY <1>6, <1>7

LEMMA PublishTells ==
  ASSUME NEW d, Tells(d), NEW hit, NEW fired, NEW cfg
  PROVE  Tells(PublishOsd(d, hit, fired, cfg))
<1> DEFINE now(v, z, r) == [d EXCEPT !.osdVisible = v, !.sentZone = z, !.sentProgress = r]
           msg == [cmd |-> "show", kind |-> "zone"]
<1>1. \A v, z, r : Tells(now(v, z, r))
  <2> SUFFICES ASSUME NEW v, NEW z, NEW r PROVE Tells(now(v, z, r))
    OBVIOUS
  <2>1. /\ DOMAIN now(v, z, r) = DOMAIN d /\ now(v, z, r).out = d.out
        /\ now(v, z, r).frameShown = d.frameShown
    OBVIOUS
  <2> HIDE DEF now
  <2> QED BY <2>1, OthersTell
<1>2. \/ PublishOsd(d, hit, fired, cfg) = d
      \/ \E z, r : PublishOsd(d, hit, fired, cfg) = Send(now(TRUE, z, r), msg)
      \/ PublishOsd(d, hit, fired, cfg) = Send(now(FALSE, "", -1), Hide)
  BY DEF PublishOsd
<1>3. msg.cmd = "show" /\ Hide.cmd = "hide"
  BY DEF Hide
<1> HIDE DEF now, msg
<1>4. \A v, z, r : Tells(Send(now(v, z, r), msg)) /\ Tells(Send(now(v, z, r), Hide))
  <2> SUFFICES ASSUME NEW v, NEW z, NEW r
               PROVE  Tells(Send(now(v, z, r), msg)) /\ Tells(Send(now(v, z, r), Hide))
    OBVIOUS
  <2>1. Tells(now(v, z, r))
    BY <1>1
  <2> QED BY <1>3, <2>1, SendTells
<1> QED BY <1>2, <1>4

-----------------------------------------------------------------------------
\* Between two handlers.
FrameInv ==
  /\ {"out", "frameShown"} \subseteq DOMAIN hz /\ hz.out = <<>>
  /\ "frame" \in DOMAIN overlay
  /\ FrameAgrees

LEMMA RestTells == FrameInv => Tells(hz) /\ Carries(hz, overlay)
BY FoldEmpty DEF FrameInv, FrameAgrees, Tells, InStep, Carries

LEMMA BroadcastAgrees ==
  ASSUME FrameInv, NEW d, Tells(d), Broadcast(d), UNCHANGED link
  PROVE  FrameInv'
<1>1. {"out", "frameShown"} \subseteq DOMAIN hz' /\ hz'.out = <<>> /\ hz'.frameShown = d.frameShown
  BY DEF Broadcast, Tells, Carries
<1>2. overlay' = IF link THEN Fold(overlay, d.out) ELSE overlay
  BY DEF Broadcast, Fold
<1> QED BY <1>1, <1>2 DEF FrameInv, FrameAgrees, Tells, InStep, Carries

\* Two fields that no message depends on.
LEMMA FieldsTell ==
  ASSUME NEW d, Tells(d), NEW v
  PROVE  Tells([d EXCEPT !.frameTimer = v]) /\ Tells([d EXCEPT !.launched = v])
<1> DEFINE a == [d EXCEPT !.frameTimer = v]
           b == [d EXCEPT !.launched = v]
<1>1. /\ DOMAIN a = DOMAIN d /\ a.out = d.out /\ a.frameShown = d.frameShown
      /\ DOMAIN b = DOMAIN d /\ b.out = d.out /\ b.frameShown = d.frameShown
  OBVIOUS
<1> HIDE DEF a, b
<1>2. Tells(a) /\ Tells(b)
  BY <1>1, OthersTell
<1> QED BY <1>2 DEF a, b

LEMMA TickAgrees ==
  ASSUME FrameInv, NEW p, OnTick(p)
  PROVE  FrameInv'
<1> DEFINE hit == Sample[<<p, config>>].hit
           inner == Sample[<<p, config>>].inner
           d == Update(hz, hit, inner, config)
           fired == hz.enabled /\ hz.zstate = "Armed" /\ d.zstate = "Locked"
           e(aw) == [d EXCEPT !.launched = fired /\ hit.id \in Bindings /\ ~Inhibited(aw)]
<1>1. PICK aw \in Answers : Broadcast(PublishOsd(e(aw), hit, fired, config))
  BY DEF OnTick
<1>2. UNCHANGED link
  BY DEF OnTick
<1>3. DOMAIN d = DOMAIN hz /\ d.out = hz.out /\ d.frameShown = hz.frameShown
  <2> HIDE DEF hit, inner
  <2> QED BY DEF Update
<1>4. Tells(d)
  <2> HIDE DEF d
  <2> QED BY <1>3, RestTells, OthersTell
<1>5. Tells(e(aw))
  <2> DEFINE v == fired /\ hit.id \in Bindings /\ ~Inhibited(aw)
  <2>1. e(aw) = [d EXCEPT !.launched = v]
    OBVIOUS
  <2> HIDE DEF d, v, e
  <2>2. Tells([d EXCEPT !.launched = v])
    BY <1>4, FieldsTell
  <2> QED BY <2>1, <2>2
<1> DEFINE x == PublishOsd(e(aw), hit, fired, config)
<1>6. Tells(x) /\ Broadcast(x)
  <2> HIDE DEF e, hit, fired
  <2> QED BY <1>1, <1>5, PublishTells
<1> HIDE DEF x
<1> QED BY <1>2, <1>6, BroadcastAgrees

LEMMA LineAgrees ==
  ASSUME FrameInv, \/ \E l \in Toasts : WorkspaceLine(l)
                   \/ SpecialCloses \/ ToastTimeout
  PROVE  FrameInv'
<1>1. Tells(hz) /\ UNCHANGED link
  BY RestTells DEF WorkspaceLine, SpecialCloses, ToastTimeout
<1>2. ASSUME NEW l \in Toasts, WorkspaceLine(l) PROVE FrameInv'
  <2> DEFINE d == ShowToast(hz, l)
             e == [d EXCEPT !.frameTimer = TRUE]
  <2>1. Tells(d) /\ Broadcast(e)
    BY <1>1, <1>2, ToastTells DEF WorkspaceLine
  <2> HIDE DEF d
  <2>2. Tells(e)
    BY <2>1, FieldsTell
  <2> HIDE DEF e
  <2> QED BY <1>1, <2>1, <2>2, BroadcastAgrees
<1>3. CASE SpecialCloses
  <2> DEFINE d == HideToast(hz)
             e == [d EXCEPT !.frameTimer = TRUE]
  <2>1. Tells(d) /\ Broadcast(e)
    BY <1>1, <1>3, ToastTells DEF SpecialCloses
  <2> HIDE DEF d
  <2>2. Tells(e)
    BY <2>1, FieldsTell
  <2> HIDE DEF e
  <2> QED BY <1>1, <2>1, <2>2, BroadcastAgrees
<1>4. CASE ToastTimeout
  <2>1. Tells(HideToast(hz)) /\ Broadcast(HideToast(hz))
    BY <1>1, <1>4, ToastTells DEF ToastTimeout
  <2> QED BY <1>1, <2>1, BroadcastAgrees
<1> QED BY <1>2, <1>3, <1>4

LEMMA SwitchAgrees ==
  ASSUME FrameInv, FrameTimeout \/ \E on \in BOOLEAN : Control(on)
  PROVE  FrameInv'
<1>1. Tells(hz) /\ UNCHANGED link
  BY RestTells DEF FrameTimeout, Control
<1>2. CASE FrameTimeout
  <2> DEFINE d == [hz EXCEPT !.frameTimer = FALSE]
  <2>1. PICK aw \in Answers : Broadcast(UpdateFrame(d, FALSE, aw, config))
    BY <1>2 DEF FrameTimeout
  <2>2. Tells(d)
    BY <1>1, FieldsTell
  <2> HIDE DEF d
  <2>3. Tells(UpdateFrame(d, FALSE, aw, config))
    BY <2>2, UpdateFrameTells
  <2> QED BY <1>1, <2>1, <2>3, BroadcastAgrees
<1>3. ASSUME NEW on \in BOOLEAN, Control(on) PROVE FrameInv'
  <2>1. PICK aw \in Answers :
          Broadcast(SetEnabled(UpdateFrame(hz, TRUE, aw, config), on, aw, config))
    BY <1>3 DEF Control
  <2> DEFINE d == UpdateFrame(hz, TRUE, aw, config)
             e == SetEnabled(d, on, aw, config)
  <2>2. Tells(d)
    BY <1>1, UpdateFrameTells
  <2> HIDE DEF d
  <2>3. Tells(e)
    BY <2>2, SetEnabledTells
  <2>4. Broadcast(e)
    BY <2>1 DEF d
  <2> HIDE DEF e
  <2> QED BY <1>1, <2>3, <2>4, BroadcastAgrees
<1> QED BY <1>2, <1>3

\* An overlay that connects is told again what it may have missed.
LEMMA ConnectsAgrees ==
  ASSUME FrameInv, OsdConnects
  PROVE  FrameInv'
<1>1. PICK aw \in Answers :
        LET d == UpdateFrame(hz, TRUE, aw, config)
        IN hz' = [d EXCEPT !.out = <<>>] /\ overlay' = Fold(overlay, d.out)
  BY DEF OsdConnects, Fold
<1> DEFINE d == UpdateFrame(hz, TRUE, aw, config)
<1>2. InStep(d, overlay)
  BY RestTells, UpdateFrameSteps
<1>3. hz' = [d EXCEPT !.out = <<>>] /\ overlay' = Fold(overlay, d.out)
  BY <1>1
<1> HIDE DEF d
<1> QED BY <1>2, <1>3 DEF FrameInv, FrameAgrees, InStep, Carries

\* A daemon that starts has told no overlay.
LEMMA FreshAgrees ==
  ASSUME NEW aw, NEW cfg
  PROVE  LET h == [UpdateFrame(FreshDaemon, TRUE, aw, cfg) EXCEPT !.out = <<>>]
         IN {"out", "frameShown"} \subseteq DOMAIN h /\ h.out = <<>>
<1> DEFINE d == UpdateFrame(FreshDaemon, TRUE, aw, cfg)
<1>1. "frame" \in DOMAIN FreshOverlay
  BY DEF FreshOverlay
<1>2. {"out", "frameShown"} \subseteq DOMAIN FreshDaemon /\ FreshDaemon.out = <<>>
  BY DEF FreshDaemon
<1>3. Carries(FreshDaemon, FreshOverlay)
  BY <1>1, <1>2, FoldEmpty DEF Carries
<1>4. InStep(d, FreshOverlay)
  BY <1>3, UpdateFrameSteps
<1> HIDE DEF d
<1>5. {"out", "frameShown"} \subseteq DOMAIN d
  BY <1>4 DEF InStep, Carries
<1> QED BY <1>5 DEF d

LEMMA RestartsAgree ==
  ASSUME FrameInv, OsdRestarts \/ DaemonRestarts \/ WindowChanges
  PROVE  FrameInv'
<1>1. CASE OsdRestarts
  BY <1>1 DEF OsdRestarts, FrameInv, FrameAgrees, FreshOverlay
<1>2. CASE DaemonRestarts
  BY <1>2, FreshAgrees DEF DaemonRestarts, FrameInv, FrameAgrees
<1>3. CASE WindowChanges
  <2> DEFINE d == [hz EXCEPT !.frameTimer = TRUE]
  <2>1. DOMAIN d = DOMAIN hz /\ d.out = hz.out /\ d.frameShown = hz.frameShown
    OBVIOUS
  <2>2. hz' \in {hz, d} /\ UNCHANGED <<link, overlay>>
    BY <1>3 DEF WindowChanges
  <2> HIDE DEF d
  <2> QED BY <2>1, <2>2 DEF FrameInv, FrameAgrees
<1> QED BY <1>1, <1>2, <1>3

\* For every geometry, window and toast: whichever of the two was restarted, and whatever was
\* broadcast while no overlay was connected, a connected overlay draws the frame that the
\* daemon believes it draws.
THEOREM FrameKept == HzSpec => []FrameAgrees
<1>1. HzInit => FrameInv
  <2>1. HzInit => /\ {"out", "frameShown"} \subseteq DOMAIN hz /\ hz.out = <<>>
                  /\ link = FALSE /\ "frame" \in DOMAIN overlay
    BY FreshAgrees DEF HzInit, FreshOverlay
  <2> QED BY <2>1 DEF FrameInv, FrameAgrees
<1>2. FrameInv /\ [HzNext]_hzVars => FrameInv'
  <2> SUFFICES ASSUME FrameInv, [HzNext]_hzVars PROVE FrameInv'
    OBVIOUS
  <2>1. CASE UNCHANGED hzVars
    BY <2>1 DEF hzVars, FrameInv, FrameAgrees
  <2> QED BY <2>1, TickAgrees, LineAgrees, SwitchAgrees, ConnectsAgrees, RestartsAgree DEF HzNext
<1>3. FrameInv => FrameAgrees
  BY DEF FrameInv
<1> QED BY <1>1, <1>2, <1>3, PTL DEF HzSpec

-----------------------------------------------------------------------------
\* The overlays.  Two that come to the path or run have met; one that has not is at the path,
\* or finds it free.

Commands == {"toggle", "show", "clipboard", "hide", "hold", "release"} \cup Direct
Process ==
  [pc : {"ask", "start", "bind", "listen", "run", "gone"}, arg : Commands \cup {"plain", "daemon"},
   inbox : SUBSET (Nat \X Commands), open : BOOLEAN, confirm : {"", "reboot"}, drag : BOOLEAN,
   late : BOOLEAN, timers : SUBSET ({"hold"} \cup Direct), listens : BOOLEAN,
   met : BOOLEAN]

OverlayTypeOK ==
  /\ inst \in Seq(Process)
  /\ \A i \in DOMAIN inst : inst[i].pc = "ask" => inst[i].arg \in Commands

Met == \A i, k \in DOMAIN inst : Active(inst[i]) /\ Active(inst[k]) /\ i # k => inst[i].met

\* Who is alone on the way listens where no file is.
FindsFree == \A i \in DOMAIN inst : inst[i].pc = "listen" /\ ~inst[i].met => path = NoFile

OverlayInv == OverlayTypeOK /\ Met /\ FindsFree /\ AloneIsReachable

\* What a process does to its window leaves it where it is.
Stays(p, q) == q \in Process /\ q.pc = p.pc /\ q.met = p.met /\ q.arg = p.arg

LEMMA WindowStays ==
  ASSUME NEW p \in Process
  PROVE  /\ Stays(p, Opened(p)) /\ Stays(p, Closed(p)) /\ Stays(p, Toggle(p))
         /\ \A deed \in Direct : Stays(p, RunsLater(p, deed))
<1>1. Stays(p, Opened(p))
  BY DEF Process, Stays, Opened
<1>2. Stays(p, Closed(p))
  BY DEF Process, Stays, Closed
<1>3. Stays(p, Toggle(p))
  BY <1>1, <1>2 DEF Toggle
<1>4. ASSUME NEW deed \in Direct PROVE Stays(p, RunsLater(p, deed))
  <2>1. ASSUME NEW q, Stays(p, q) PROVE Stays(p, [q EXCEPT !.timers = @ \cup {deed}])
    BY <2>1 DEF Stays, Process
  <2> QED BY <2>1, <1>2 DEF RunsLater
<1> QED BY <1>1, <1>2, <1>3, <1>4

LEMMA AnswerStays ==
  ASSUME NEW p \in Process, NEW cmd \in Commands
  PROVE  Stays(p, Answer(p, cmd))
<1>1. ASSUME NEW q, Stays(p, q), NEW t
      PROVE  /\ Stays(p, [q EXCEPT !.timers = @ \ {t}])
             /\ t = "hold" => Stays(p, [q EXCEPT !.timers = @ \cup {t}])
  BY <1>1 DEF Stays, Process
<1>2. Stays(p, p)
  BY DEF Stays
<1>3. CASE cmd = "toggle"
  BY <1>3, WindowStays DEF Answer
<1>4. CASE cmd \in {"show", "clipboard"}
  BY <1>4, WindowStays DEF Answer
<1>5. CASE cmd = "hide"
  BY <1>1, <1>5, WindowStays DEF Answer
<1>6. CASE cmd = "hold"
  <2>1. Stays(p, [p EXCEPT !.timers = @ \cup {"hold"}])
    BY DEF Stays, Process
  <2>2. Answer(p, cmd) = [p EXCEPT !.timers = @ \cup {"hold"}]
    BY ONLY <1>6 DEF Answer, Direct
  <2> QED BY <2>1, <2>2
<1>7. CASE cmd = "release"
  BY <1>1, <1>2, <1>7, WindowStays DEF Answer
<1>8. CASE cmd \in Direct
  BY <1>8, WindowStays DEF Answer, Direct
<1> QED BY <1>3, <1>4, <1>5, <1>6, <1>7, <1>8 DEF Commands

\* A step of one process that leaves it where it is.
LEMMA StayingSteps ==
  ASSUME OverlayInv, NEW i \in DOMAIN inst,
         inst' = [inst EXCEPT ![i] = inst'[i]], Stays(inst[i], inst'[i]), UNCHANGED path
  PROVE  OverlayInv'
<1>1. inst' \in Seq(Process) /\ DOMAIN inst' = DOMAIN inst
  BY DEF OverlayInv, OverlayTypeOK, Stays
<1>2. \A k \in DOMAIN inst : inst'[k].pc = inst[k].pc /\ inst'[k].met = inst[k].met
                              /\ inst'[k].arg = inst[k].arg
  BY DEF Stays
<1> QED BY <1>1, <1>2 DEF OverlayInv, OverlayTypeOK, Met, FindsFree, Active, AloneIsReachable

\* A step of one process that ends before it runs, or comes nearer to it.
LEMMA WaitingSteps ==
  ASSUME OverlayInv, NEW i \in DOMAIN inst, UNCHANGED path,
         inst' \in Seq(Process), DOMAIN inst' = DOMAIN inst,
         inst'[i].pc \notin {"listen", "run", "ask"},
         \A k \in DOMAIN inst \ {i} :
           inst'[k].pc = inst[k].pc /\ inst'[k].met = inst[k].met /\ inst'[k].arg = inst[k].arg
  PROVE  OverlayInv'
BY DEF OverlayInv, OverlayTypeOK, Met, FindsFree, Active, AloneIsReachable

LEMMA LaunchSteps ==
  ASSUME OverlayInv, NEW arg \in Arguments(which), Launch(arg)
  PROVE  OverlayInv'
<1> DEFINE p == [pc |-> IF arg \in {"plain", "daemon"} THEN "start" ELSE "ask",
                 arg |-> arg, inbox |-> {}, open |-> FALSE, confirm |-> "",
                 drag |-> FALSE, late |-> FALSE, timers |-> {}, listens |-> FALSE,
                 met |-> FALSE]
<1>1. arg \in Commands \cup {"plain", "daemon"}
  BY DEF Arguments, Commands, Direct
<1>2. p \in Process /\ p.pc \in {"ask", "start"} /\ (p.pc = "ask" => p.arg \in Commands)
  BY <1>1 DEF Process
<1> HIDE DEF p
<1>3. inst' = Append(inst, p) /\ inst \in Seq(Process)
  BY DEF Launch, p, OverlayInv, OverlayTypeOK
<1>4. /\ inst' \in Seq(Process) /\ DOMAIN inst' = DOMAIN inst \cup {Len(inst) + 1}
      /\ \A k \in DOMAIN inst : inst'[k] = inst[k]
      /\ inst'[Len(inst) + 1] = p
  BY <1>2, <1>3
<1>5. path' = path
  BY DEF Launch
<1> QED BY <1>2, <1>4, <1>5 DEF OverlayInv, OverlayTypeOK, Met, FindsFree, Active, AloneIsReachable

\* A command that is left with the listener.
LEMMA DeliveredSteps ==
  ASSUME OverlayInv, NEW i \in DOMAIN inst, inst[i].pc \in {"ask", "start"},
         inst[i].arg \in Commands, path \in DOMAIN inst, Delivered(i), UNCHANGED path
  PROVE  OverlayInv'
<1>1. inst \in Seq(Process) /\ i \in Nat
  BY DEF OverlayInv, OverlayTypeOK
<1> DEFINE p == [inst[path] EXCEPT !.inbox = @ \cup {<<i, inst[i].arg>>}]
           mid == [inst EXCEPT ![path] = p]
           q == [mid[i] EXCEPT !.pc = "gone"]
<1>2. inst' = [mid EXCEPT ![i] = q]
  BY DEF Delivered
<1>3. p \in Process /\ p.pc = inst[path].pc /\ p.met = inst[path].met /\ p.arg = inst[path].arg
  <2>1. inst[path] \in Process /\ <<i, inst[i].arg>> \in Nat \X Commands
    BY <1>1
  <2>2. ASSUME NEW r \in Process, NEW m \in Nat \X Commands
        PROVE  LET e == [r EXCEPT !.inbox = @ \cup {m}]
               IN e \in Process /\ e.pc = r.pc /\ e.met = r.met /\ e.arg = r.arg
    BY DEF Process
  <2> QED BY <2>1, <2>2
<1> HIDE DEF p
<1>4. mid \in Seq(Process) /\ DOMAIN mid = DOMAIN inst
  BY <1>1, <1>3
<1>5. \A k \in DOMAIN inst :
        mid[k].pc = inst[k].pc /\ mid[k].met = inst[k].met /\ mid[k].arg = inst[k].arg
  BY <1>1, <1>3
<1> HIDE DEF mid
<1>6. q \in Process /\ q.pc = "gone"
  <2>1. mid[i] \in Process
    BY <1>4
  <2>2. ASSUME NEW r \in Process
        PROVE  [r EXCEPT !.pc = "gone"] \in Process /\ [r EXCEPT !.pc = "gone"].pc = "gone"
    BY DEF Process
  <2> QED BY <2>1, <2>2
<1> HIDE DEF q
<1>7. /\ inst' \in Seq(Process) /\ DOMAIN inst' = DOMAIN inst /\ inst'[i].pc = "gone"
      /\ \A k \in DOMAIN inst \ {i} : inst'[k] = mid[k]
  BY <1>2, <1>4, <1>6
<1> QED BY <1>5, <1>7, WaitingSteps

\* A process asks, or goes on to bind.
LEMMA AskSteps ==
  ASSUME OverlayInv, NEW i \in DOMAIN inst, Ask(i) \/ Start(i)
  PROVE  OverlayInv'
<1>1. inst \in Seq(Process) /\ UNCHANGED path /\ inst[i].pc \in {"ask", "start"}
  BY DEF OverlayInv, OverlayTypeOK, Ask, Start
<1>2. CASE path \in DOMAIN inst /\ Delivered(i) /\ inst[i].arg \in Commands
  BY <1>1, <1>2, DeliveredSteps
<1>3. ASSUME NEW to \in {"start", "gone", "bind"}, Set(i, [inst[i] EXCEPT !.pc = to])
      PROVE  OverlayInv'
  <2>1. inst[i] \in Process
    BY <1>1
  <2>2. [inst[i] EXCEPT !.pc = to] \in Process /\ [inst[i] EXCEPT !.pc = to].pc = to
    BY <2>1 DEF Process
  <2>3. inst' = [inst EXCEPT ![i] = [inst[i] EXCEPT !.pc = to]]
    BY <1>3 DEF Set
  <2>4. ASSUME NEW q \in Process, q.pc = to, inst' = [inst EXCEPT ![i] = q]
        PROVE  /\ inst' \in Seq(Process) /\ DOMAIN inst' = DOMAIN inst /\ inst'[i].pc = to
               /\ \A k \in DOMAIN inst \ {i} : inst'[k] = inst[k]
    BY <1>1, <2>4
  <2>5. /\ inst' \in Seq(Process) /\ DOMAIN inst' = DOMAIN inst /\ inst'[i].pc = to
        /\ \A k \in DOMAIN inst \ {i} : inst'[k] = inst[k]
    BY <2>2, <2>3, <2>4
  <2> QED BY <1>1, <2>5, WaitingSteps
<1>4. CASE Ask(i)
  <2>1. inst[i].arg \in Commands
    BY <1>4 DEF Ask, OverlayInv, OverlayTypeOK
  <2> QED BY <1>2, <1>3, <1>4, <2>1 DEF Ask
<1>5. CASE Start(i)
  <2>1. inst[i].arg \in Commands \cup {"plain", "daemon"}
    <3>1. inst[i] \in Process
      BY <1>1
    <3> QED BY <3>1 DEF Process
  <2> QED BY <1>2, <1>3, <1>5, <2>1 DEF Start
<1> QED BY <1>4, <1>5

\* Whoever comes to the path has met those that are active, and they it.
LEMMA RemoveSteps ==
  ASSUME OverlayInv, NEW i \in DOMAIN inst, RemovesPath(i)
  PROVE  OverlayInv'
<1> DEFINE others == {k \in DOMAIN inst \ {i} : Active(inst[k])}
           after(k) == IF k = i THEN [inst[i] EXCEPT !.pc = "listen", !.met = others # {}]
                       ELSE [inst[k] EXCEPT !.met = @ \/ k \in others]
<1>0. \A k \in DOMAIN inst : inst[k] \in Process
  BY DEF OverlayInv, OverlayTypeOK
<1>1. inst \in Seq(Process) /\ inst' = [k \in DOMAIN inst |-> after(k)] /\ path' = NoFile
  BY DEF OverlayInv, OverlayTypeOK, RemovesPath, Comes
<1>2. /\ after(i) \in Process /\ after(i).pc = "listen"
      /\ others # {} => after(i).met
  <2>1. inst[i] \in Process
    BY <1>0
  <2>2. (others # {}) \in BOOLEAN
    OBVIOUS
  <2>3. ASSUME NEW p \in Process, NEW m \in BOOLEAN
        PROVE  LET e == [p EXCEPT !.pc = "listen", !.met = m]
               IN e \in Process /\ e.pc = "listen" /\ e.met = m
    BY DEF Process
  <2> HIDE DEF others
  <2> QED BY <2>1, <2>2, <2>3
<1>3. ASSUME NEW k \in DOMAIN inst \ {i}
      PROVE  /\ after(k) \in Process /\ after(k).pc = inst[k].pc /\ after(k).arg = inst[k].arg
             /\ Active(inst[k]) => after(k).met
  <2>1. inst[k] \in Process
    BY <1>0
  <2>2. ASSUME NEW p \in Process, NEW m \in BOOLEAN
        PROVE  LET e == [p EXCEPT !.met = m]
               IN e \in Process /\ e.pc = p.pc /\ e.arg = p.arg /\ e.met = m
    BY DEF Process
  <2>3. Active(inst[k]) => k \in others
    OBVIOUS
  <2> HIDE DEF others
  <2>5. (inst[k].met \/ k \in others) \in BOOLEAN
    OBVIOUS
  <2> QED BY <2>1, <2>2, <2>3, <2>5
<1>4. \A k \in DOMAIN inst \ {i} : Active(inst[k]) => others # {}
  OBVIOUS
<1> HIDE DEF after, others
<1>5. /\ DOMAIN inst' = DOMAIN inst /\ inst' \in Seq(Process)
      /\ \A k \in DOMAIN inst : inst'[k] = after(k)
  BY <1>1, <1>2, <1>3
<1>6. OverlayTypeOK'
  BY <1>2, <1>3, <1>5 DEF OverlayInv, OverlayTypeOK
<1>7. Met'
  BY <1>2, <1>3, <1>4, <1>5 DEF Met, Active
<1>8. FindsFree'
  BY <1>1 DEF FindsFree
<1>9. AloneIsReachable'
  BY <1>2, <1>3, <1>5 DEF AloneIsReachable, Active
<1> QED BY <1>6, <1>7, <1>8, <1>9 DEF OverlayInv

\* Whoever is alone listens.  A file that is made is made where none was, so nobody who runs
\* alone had one.
LEMMA ListenSteps ==
  ASSUME OverlayInv, NEW i \in DOMAIN inst, Listen(i)
  PROVE  OverlayInv'
<1> DEFINE p == [inst[i] EXCEPT !.pc = "run", !.open = StartsOpen(which, inst[i].arg),
                                !.listens = path = NoFile]
<1>1. inst \in Seq(Process) /\ inst[i] \in Process /\ inst[i].pc = "listen"
  BY DEF OverlayInv, OverlayTypeOK, Listen
<1>2. p \in Process /\ p.pc = "run" /\ p.met = inst[i].met
  <2>1. StartsOpen(which, inst[i].arg) \in BOOLEAN /\ (path = NoFile) \in BOOLEAN
    BY DEF StartsOpen
  <2>2. ASSUME NEW o \in BOOLEAN, NEW l \in BOOLEAN
        PROVE  LET e == [inst[i] EXCEPT !.pc = "run", !.open = o, !.listens = l]
               IN e \in Process /\ e.pc = "run" /\ e.met = inst[i].met
    BY <1>1 DEF Process
  <2> QED BY <2>1, <2>2
<1>3. inst' = [inst EXCEPT ![i] = p]
  BY DEF Listen, Set
<1> HIDE DEF p
<1>4. /\ inst' \in Seq(Process) /\ DOMAIN inst' = DOMAIN inst
      /\ inst'[i].pc = "run" /\ inst'[i].met = inst[i].met
      /\ \A k \in DOMAIN inst \ {i} : inst'[k] = inst[k]
  BY <1>1, <1>2, <1>3
<1>5. \A k \in DOMAIN inst \ {i} : Active(inst[k]) => inst[k].met
  BY <1>1 DEF OverlayInv, Met, Active
<1>6. ~inst[i].met => path' = i
  BY <1>1 DEF OverlayInv, FindsFree, Listen
<1>7. OverlayTypeOK' /\ Met'
  BY <1>1, <1>4 DEF OverlayInv, OverlayTypeOK, Met, Active
<1>8. FindsFree' /\ AloneIsReachable'
  BY <1>4, <1>5, <1>6 DEF FindsFree, AloneIsReachable, Active
<1> QED BY <1>7, <1>8 DEF OverlayInv

\* What happens to a window, a timer or a message.
LEMMA RunningSteps ==
  ASSUME OverlayInv, NEW i \in DOMAIN inst,
         \/ HoldTimeout(i) \/ DeedRuns(i) \/ Dismiss(i) \/ Drag(i) \/ PowerKey(i)
         \/ \E msg \in inst[i].inbox : Receive(i, msg)
  PROVE  OverlayInv'
<1>0. inst \in Seq(Process) /\ inst[i] \in Process
  BY DEF OverlayInv, OverlayTypeOK
<1>1. inst \in Seq(Process) /\ inst[i] \in Process /\ UNCHANGED path
  BY <1>0 DEF HoldTimeout, DeedRuns, Dismiss, Drag, PowerKey, Receive
<1>2. ASSUME NEW q, Stays(inst[i], q), Set(i, q) PROVE OverlayInv'
  BY <1>1, <1>2, StayingSteps DEF Set
<1>3. ASSUME NEW p, Stays(inst[i], p), NEW q, Stays(p, q) PROVE Stays(inst[i], q)
  BY <1>3 DEF Stays
<1>4. CASE HoldTimeout(i)
  <2> DEFINE p == [inst[i] EXCEPT !.timers = @ \ {"hold"}]
  <2>1. Stays(inst[i], p)
    BY <1>1 DEF Stays, Process
  <2>2. Set(i, Opened(p))
    BY <1>4 DEF HoldTimeout
  <2> HIDE DEF p
  <2>3. Stays(p, Opened(p))
    BY <2>1, WindowStays DEF Stays
  <2> QED BY <1>2, <1>3, <2>1, <2>2, <2>3
<1>5. CASE DeedRuns(i)
  <2>1. PICK deed : Set(i, [inst[i] EXCEPT !.timers = @ \ {deed}])
    BY <1>5 DEF DeedRuns
  <2>2. Stays(inst[i], [inst[i] EXCEPT !.timers = @ \ {deed}])
    BY <1>1 DEF Stays, Process
  <2> QED BY <1>2, <2>1, <2>2
<1>6. CASE Dismiss(i)
  <2>1. Stays(inst[i], [inst[i] EXCEPT !.confirm = ""])
    BY <1>1 DEF Stays, Process
  <2>2. Stays(inst[i], Closed(inst[i]))
    BY <1>1, WindowStays
  <2> QED BY <1>2, <1>6, <2>1, <2>2 DEF Dismiss
<1>7. CASE Drag(i)
  <2> DEFINE p == [inst[i] EXCEPT !.drag = ~@]
  <2>1. Stays(inst[i], p)
    BY <1>1 DEF Stays, Process
  <2>2. Set(i, Closed(p)) \/ Set(i, p)
    BY <1>7 DEF Drag
  <2> HIDE DEF p
  <2>3. Stays(p, Closed(p))
    BY <2>1, WindowStays DEF Stays
  <2> QED BY <1>2, <1>3, <2>1, <2>2, <2>3
<1>8. CASE PowerKey(i)
  <2>1. Stays(inst[i], [inst[i] EXCEPT !.confirm = "reboot"])
    BY <1>1 DEF Stays, Process
  <2>2. inst[i].confirm # "" => inst[i].confirm \in Direct
    BY <1>1 DEF Process, Direct
  <2>3. \A deed \in Direct : Stays(inst[i], RunsLater(inst[i], deed))
    BY <1>1, WindowStays
  <2>4. "lock" \in Direct
    BY DEF Direct
  <2> QED BY <1>2, <1>8, <2>1, <2>2, <2>3, <2>4 DEF PowerKey
<1>9. ASSUME NEW msg \in inst[i].inbox, Receive(i, msg) PROVE OverlayInv'
  <2> DEFINE p == [inst[i] EXCEPT !.inbox = @ \ {msg}]
  <2>1. Stays(inst[i], p) /\ msg[2] \in Commands
    BY <1>1 DEF Stays, Process
  <2>2. Set(i, Answer(p, msg[2]))
    BY <1>9 DEF Receive
  <2> HIDE DEF p
  <2>3. Stays(p, Answer(p, msg[2]))
    BY <2>1, AnswerStays DEF Stays
  <2> QED BY <1>2, <1>3, <2>1, <2>2, <2>3
<1> QED BY <1>4, <1>5, <1>6, <1>7, <1>8, <1>9

\* The end of a process: whoever was at the path is gone, or had met it.
LEMMA EndSteps ==
  ASSUME OverlayInv, NEW i \in DOMAIN inst, Quit(i) \/ Crash(i)
  PROVE  OverlayInv'
<1> DEFINE p == EndOf(inst[i])
<1>1. inst \in Seq(Process) /\ inst[i] \in Process
  BY DEF OverlayInv, OverlayTypeOK
<1>2. p \in Process /\ p.pc = "gone"
  BY <1>1 DEF Process, EndOf
<1>3. inst' = [inst EXCEPT ![i] = p]
  BY DEF Quit, Crash, Set
<1> HIDE DEF p
<1>4. /\ inst' \in Seq(Process) /\ DOMAIN inst' = DOMAIN inst /\ inst'[i].pc = "gone"
      /\ \A k \in DOMAIN inst \ {i} : inst'[k] = inst[k]
  BY <1>1, <1>2, <1>3
<1>5. ASSUME NEW k \in DOMAIN inst \ {i}, Active(inst[k]), ~inst[k].met PROVE path' = path
  <2>1. inst[i].pc # "run" /\ Crash(i)
    BY <1>5 DEF OverlayInv, Met, Active, Quit
  <2>2. path # i
    BY <1>1, <1>5 DEF OverlayInv, FindsFree, AloneIsReachable, Active, NoFile
  <2> QED BY <2>1, <2>2 DEF Crash
<1> QED BY <1>4, <1>5 DEF OverlayInv, OverlayTypeOK, Met, FindsFree, Active, AloneIsReachable

\* An overlay that was alone since it removed the path can be reached, for every program,
\* every number of processes and every interleaving of their connecting, removing, listening,
\* their ends and their crashes.
THEOREM AloneReached == OverlaySpec => []AloneIsReachable
<1>1. OverlayInit => OverlayInv
  BY DEF OverlayInit, OverlayInv, OverlayTypeOK, Met, FindsFree, Active, AloneIsReachable
<1>2. OverlayInv /\ [OverlayNext]_overlayVars => OverlayInv'
  <2> SUFFICES ASSUME OverlayInv, [OverlayNext]_overlayVars PROVE OverlayInv'
    OBVIOUS
  <2>1. CASE UNCHANGED overlayVars
    BY <2>1 DEF overlayVars, OverlayInv, OverlayTypeOK, Met, FindsFree, Active, AloneIsReachable
  <2> QED BY <2>1, LaunchSteps, AskSteps, RemoveSteps, ListenSteps, RunningSteps, EndSteps DEF OverlayNext, OverlayStep
<1>3. OverlayInv => AloneIsReachable
  BY DEF OverlayInv
<1> QED BY <1>1, <1>2, <1>3, PTL DEF OverlaySpec

-----------------------------------------------------------------------------
\* The guard.  A run that is alone finds everything before its todo as it left it; the
\* strengthening says where a run is and what it may rely on there.

\* What is left when the display manager is seen to, and when the masks are.
Two == <<Mask, Hook>>
One == <<Hook>>

Places == {"off", "see", "unlink", "symlink", "rename", "copy"}
Rests == {<<>>, Everything, Two, One}
Runs ==
  [pc : Places, todo : Rests, answer : {-1, 0, 2, 3}, alone : BOOLEAN,
   missed : SUBSET (Links \cup Files)]

GuardTypeOK ==
  /\ links \in [Links -> {"good", "other", "absent"}]
  /\ tmpNames \subseteq Links
  /\ files \in [Files -> {"good", "bad", "partial"}]
  /\ backups \in [Files -> {"good", "bad"}]
  /\ guard \in [Guards -> Runs]

\* Where a run is says what it sees to.
Placed(run) ==
  /\ run.pc = "off" => run.todo = <<>>
  /\ run.pc = "see" => run.todo # <<>>
  /\ run.pc \in {"unlink", "symlink", "rename"} => run.todo \in {Everything, Two}
  /\ run.pc = "copy" => run.todo = One
  /\ run.pc # "off" => run.answer = -1

\* What a run that is alone may rely on.
Relies(run) ==
  /\ DM \notin run.missed
  /\ run.todo \in {Two, One} \/ run.answer = 0 => links[DM] = "good"
  /\ run.todo = One \/ run.answer = 0 => links[Mask] = "good" \/ Mask \in run.missed
  /\ run.answer = 0 => files[Hook] = "good" \/ Hook \in run.missed
  /\ run.pc = "copy" => backups[Hook] = "good"

GuardInv ==
  /\ GuardTypeOK
  /\ links[DM] # "absent"
  /\ \A r \in Guards : Placed(guard[r])
  /\ \A r, q \in Guards : guard[r].alone /\ q # r => guard[q].pc = "off"
  /\ \A r \in Guards : guard[r].alone => Relies(guard[r])

LEMMA Sequence ==
  /\ Len(Everything) = 3 /\ Head(Everything) = DM /\ Tail(Everything) = Two
  /\ Len(Two) = 2 /\ Head(Two) = Mask /\ Tail(Two) = One
  /\ Len(One) = 1 /\ Head(One) = Hook
  /\ DM # Mask /\ DM # Hook /\ Mask # Hook
  /\ Everything # Two /\ Everything # One /\ Two # One
  /\ Everything # <<>> /\ Two # <<>> /\ One # <<>>
<1>1. DM # Mask /\ DM # Hook /\ Mask # Hook
  BY DEF DM, Mask, Hook
<1>2. ASSUME NEW a, NEW b, NEW c
      PROVE  /\ Len(<<a, b, c>>) = 3 /\ Len(<<a, b>>) = 2 /\ Len(<<a>>) = 1
             /\ Head(<<a, b, c>>) = a /\ Head(<<a, b>>) = a /\ Head(<<a>>) = a
             /\ Tail(<<a, b, c>>) = <<b, c>> /\ Tail(<<a, b>>) = <<b>>
  OBVIOUS
<1>3. Len(Everything) = 3 /\ Len(Two) = 2 /\ Len(One) = 1
  BY <1>2 DEF Everything, Two, One
<1>4. Everything # <<>> /\ Two # <<>> /\ One # <<>>
  BY DEF Everything, Two, One
<1>5. Head(Everything) = DM /\ Head(Two) = Mask /\ Head(One) = Hook
  BY <1>2 DEF Everything, Two, One
<1>6. Tail(Everything) = Two /\ Tail(Two) = One
  BY <1>2 DEF Everything, Two, One
<1> QED BY <1>1, <1>3, <1>4, <1>5, <1>6

LEMMA GuardStart == GuardInit => GuardInv
<1> SUFFICES ASSUME GuardInit PROVE GuardInv
  OBVIOUS
<1>1. GuardTypeOK
  BY DEF GuardInit, GuardTypeOK, Resting, Places, Rests, Runs
<1> QED BY <1>1 DEF GuardInit, GuardInv, Placed, Relies, Resting, Links, Files

\* What a run is after it saw to the first of its todo.
LEMMA GoOnPlaced ==
  ASSUME NEW run \in Runs, run.todo # <<>>, run.answer = -1
  PROVE  /\ GoOn(run) \in Runs
         /\ Placed(GoOn(run))
         /\ GoOn(run).alone = run.alone /\ GoOn(run).missed = run.missed
         /\ GoOn(run).pc \in {"off", "see"}
         /\ run.todo = Everything => GoOn(run).todo = Two /\ GoOn(run).answer = -1
         /\ run.todo = Two => GoOn(run).todo = One /\ GoOn(run).answer = -1
         /\ run.todo = One => GoOn(run).todo = <<>> /\ GoOn(run).answer = 0
<1>1. CASE run.todo = One
  BY <1>1, Sequence DEF GoOn, GuardEnds, Placed, Places, Rests, Runs
<1>2. CASE run.todo \in {Everything, Two}
  <2> DEFINE rest == Tail(run.todo)
  <2>1. GoOn(run) = [run EXCEPT !.pc = "see", !.todo = rest]
    BY <1>2, Sequence DEF GoOn
  <2>2. /\ rest \in {Two, One} /\ Everything # Two /\ Everything # One /\ Two # One
        /\ run.todo = Everything => rest = Two
        /\ run.todo = Two => rest = One
    BY <1>2, Sequence
  <2> HIDE DEF rest
  <2>3. rest \in Rests /\ rest # <<>>
    BY <2>2, Sequence DEF Rests
  <2>4. /\ GoOn(run) \in Runs
        /\ GoOn(run).pc = "see" /\ GoOn(run).todo = rest /\ GoOn(run).answer = -1
        /\ GoOn(run).alone = run.alone /\ GoOn(run).missed = run.missed
    BY <2>1, <2>3 DEF Places, Runs
  <2>5. Placed(GoOn(run))
    BY <2>3, <2>4 DEF Placed
  <2> QED BY <1>2, <2>2, <2>4, <2>5
<1> QED BY <1>1, <1>2, Sequence DEF Rests, Runs

\* The same for a run that passes it over.
LEMMA MissesPlaced ==
  ASSUME NEW run \in Runs, run.todo # <<>>, run.answer = -1
  PROVE  /\ Misses(run) \in Runs
         /\ Placed(Misses(run))
         /\ Misses(run).alone = run.alone
         /\ Misses(run).missed = run.missed \cup {Head(run.todo)}
         /\ Misses(run).pc \in {"off", "see"}
         /\ run.todo = Everything => Misses(run).todo = Two /\ Misses(run).answer = -1
         /\ run.todo = Two => Misses(run).todo = One /\ Misses(run).answer = -1
         /\ run.todo = One => Misses(run).todo = <<>> /\ Misses(run).answer = 0
<1> DEFINE m == [run EXCEPT !.missed = @ \cup {Head(run.todo)}]
<1>1. Head(run.todo) \in Links \cup Files
  BY Sequence DEF Runs, Rests, Links, Files
<1>2. /\ m \in Runs /\ m.todo = run.todo /\ m.answer = run.answer /\ m.alone = run.alone
      /\ m.missed = run.missed \cup {Head(run.todo)}
  BY <1>1 DEF Runs
<1>3. Misses(run) = GoOn(m)
  BY DEF Misses
<1> HIDE DEF m
<1> QED BY <1>2, <1>3, GoOnPlaced

\* A run that takes a step: no other can be alone.
LEMMA RunSteps ==
  ASSUME GuardInv, NEW r \in Guards, guard[r].pc # "off",
         GuardTypeOK', links'[DM] # "absent",
         \A q \in Guards \ {r} : guard'[q] = guard[q],
         guard'[r].alone = guard[r].alone, Placed(guard[r])',
         guard[r].alone => Relies(guard[r])'
  PROVE  GuardInv'
<1>1. \A q \in Guards : Placed(guard[q])'
  BY DEF GuardInv, Placed
<1>2. \A q \in Guards \ {r} : ~guard[q].alone
  BY DEF GuardInv
<1>3. \A q \in Guards : guard'[q].alone => Relies(guard[q])'
  BY <1>2
<1>4. \A p, q \in Guards : guard'[p].alone /\ q # p => guard'[q].pc = "off"
  BY <1>2 DEF GuardInv
<1> QED BY <1>1, <1>3, <1>4 DEF GuardInv

\* A run on its way, whose first thing is a link or a file.
LEMMA OnTheWay ==
  ASSUME GuardInv, NEW r \in Guards, guard[r].pc # "off"
  PROVE  /\ guard[r] \in Runs /\ guard[r].answer = -1 /\ guard[r].todo # <<>>
         /\ guard[r].todo \in {Everything, Two, One}
         /\ Head(guard[r].todo) \in Links => guard[r].todo \in {Everything, Two}
         /\ Head(guard[r].todo) \in Files => guard[r].todo = One
         /\ guard[r].pc \in {"unlink", "symlink", "rename"} => Head(guard[r].todo) \in Links
         /\ guard[r].pc = "copy" => Head(guard[r].todo) \in Files
<1>1. guard[r] \in Runs /\ Placed(guard[r])
  BY DEF GuardInv, GuardTypeOK
<1>2. /\ guard[r].answer = -1 /\ guard[r].todo # <<>>
      /\ guard[r].todo \in {Everything, Two, One}
  BY <1>1, Sequence DEF Placed, Runs, Places, Rests
<1> QED BY <1>1, <1>2, Sequence DEF Placed, Links, Files

\* A run that looks, or comes nearer to what it makes.
LEMMA NearerSteps ==
  ASSUME GuardInv, NEW r \in Guards, guard[r].pc # "off",
         NEW to \in {"unlink", "symlink", "rename"}, Head(guard[r].todo) \in Links,
         Sets(r, [guard[r] EXCEPT !.pc = to]), tmpNames' \subseteq Links,
         UNCHANGED <<links, files, backups>>
  PROVE  GuardInv'
<1> DEFINE run == [guard[r] EXCEPT !.pc = to]
<1>1. /\ run \in Runs /\ run.pc = to /\ run.todo = guard[r].todo /\ run.answer = guard[r].answer
      /\ run.alone = guard[r].alone /\ run.missed = guard[r].missed
  BY OnTheWay DEF Runs, Places
<1>2. guard' = [guard EXCEPT ![r] = run]
  BY DEF Sets
<1> HIDE DEF run
<1>3. guard'[r] = run /\ GuardTypeOK' /\ \A q \in Guards \ {r} : guard'[q] = guard[q]
  BY <1>1, <1>2 DEF GuardInv, GuardTypeOK
<1>4. Placed(guard[r])'
  BY <1>1, <1>3, OnTheWay DEF Placed
<1>5. guard[r].alone => Relies(guard[r])'
  BY <1>1, <1>3 DEF GuardInv, Relies
<1> QED BY <1>1, <1>3, <1>4, <1>5, RunSteps DEF GuardInv

\* A run that ends with an answer other than 0.
LEMMA EndsSteps ==
  ASSUME GuardInv, NEW r \in Guards, guard[r].pc # "off", NEW answer \in {2, 3},
         Sets(r, GuardEnds(guard[r], answer)), tmpNames' \subseteq Links,
         files' \in [Files -> {"good", "bad", "partial"}], UNCHANGED <<links, backups>>
  PROVE  GuardInv'
<1> DEFINE run == GuardEnds(guard[r], answer)
<1>1. /\ run \in Runs /\ run.pc = "off" /\ run.todo = <<>> /\ run.answer = answer
      /\ run.alone = guard[r].alone /\ run.missed = guard[r].missed
  BY OnTheWay DEF Runs, Places, Rests, GuardEnds
<1>2. guard' = [guard EXCEPT ![r] = run]
  BY DEF Sets
<1> HIDE DEF run
<1>3. guard'[r] = run /\ GuardTypeOK' /\ \A q \in Guards \ {r} : guard'[q] = guard[q]
  BY <1>1, <1>2 DEF GuardInv, GuardTypeOK
<1>4. Placed(guard[r])'
  BY <1>1, <1>3 DEF Placed
<1>5. guard[r].alone => Relies(guard[r])'
  BY <1>1, <1>3, Sequence DEF GuardInv, Relies
<1> QED BY <1>1, <1>3, <1>4, <1>5, RunSteps DEF GuardInv

\* A run that goes on: what it saw to is good, or it passed it over.
LEMMA OnwardSteps ==
  ASSUME GuardInv, NEW r \in Guards, guard[r].pc # "off",
         NEW run, Sets(r, run),
         \/ /\ run = GoOn(guard[r])
            /\ guard[r].alone =>
                 /\ Head(guard[r].todo) \in Links => links'[Head(guard[r].todo)] = "good"
                 /\ Head(guard[r].todo) \in Files => files'[Head(guard[r].todo)] = "good"
         \/ run = Misses(guard[r]) /\ Head(guard[r].todo) # DM,
         tmpNames' \subseteq Links, UNCHANGED backups,
         links' \in [Links -> {"good", "other", "absent"}], links'[DM] # "absent",
         files' \in [Files -> {"good", "bad", "partial"}],
         \A l \in Links : links[l] = "good" => links'[l] = "good"
  PROVE  GuardInv'
<1> DEFINE old == guard[r]
           head == Head(old.todo)
           Sound == old.alone => /\ head \in Links => links'[head] = "good"
                                 /\ head \in Files => files'[head] = "good"
<1>1. /\ old \in Runs /\ old.answer = -1 /\ old.todo # <<>>
      /\ old.todo \in {Everything, Two, One}
  BY OnTheWay
<1>2. /\ run \in Runs /\ Placed(run) /\ run.alone = old.alone /\ run.pc \in {"off", "see"}
      /\ old.todo = Everything => run.todo = Two /\ run.answer = -1
      /\ old.todo = Two => run.todo = One /\ run.answer = -1
      /\ old.todo = One => run.todo = <<>> /\ run.answer = 0
      /\ \/ run.missed = old.missed /\ Sound
         \/ run.missed = old.missed \cup {head} /\ head # DM
  <2>1. CASE run = GoOn(old) /\ Sound
    <3> HIDE DEF old, Sound
    <3> QED BY <1>1, <2>1, GoOnPlaced
  <2>2. CASE run = Misses(old) /\ head # DM
    <3> HIDE DEF Sound
    <3> QED BY <1>1, <2>2, MissesPlaced
  <2> QED BY <2>1, <2>2
<1>3. head \in run.missed \/ Sound
  BY <1>2
<1>5. guard'[r] = run /\ GuardTypeOK' /\ \A q \in Guards \ {r} : guard'[q] = guard[q]
  BY <1>2 DEF GuardInv, GuardTypeOK, Sets
<1>6. Placed(guard[r])'
  BY <1>2, <1>5 DEF Placed
<1>7. ASSUME old.alone PROVE Relies(guard[r])'
  <2> USE <1>7
  <2>1. /\ DM \notin old.missed
        /\ old.todo \in {Two, One} => links[DM] = "good"
        /\ old.todo = One => links[Mask] = "good" \/ Mask \in old.missed
    BY DEF GuardInv, Relies
  <2>2. DM \notin run.missed /\ old.missed \subseteq run.missed
    BY <1>2, <2>1
  <2>3. DM \in Links /\ Mask \in Links /\ Hook \in Files
    BY DEF Links, Files
  <2>4. /\ head \in Links => links'[head] = "good" \/ head \in run.missed
        /\ head \in Files => files'[head] = "good" \/ head \in run.missed
    BY <1>3
  <2> HIDE DEF old, Sound
  <2>5. CASE old.todo = Everything
    <3>1. links'[DM] = "good"
      BY <2>2, <2>3, <2>4, <2>5, Sequence
    <3> QED BY <1>2, <1>5, <2>2, <2>5, <3>1, Sequence DEF Relies
  <2>6. CASE old.todo = Two
    <3>1. links'[Mask] = "good" \/ Mask \in run.missed
      BY <2>3, <2>4, <2>6, Sequence
    <3>2. links'[DM] = "good"
      BY <2>1, <2>3, <2>6
    <3> QED BY <1>2, <1>5, <2>2, <2>6, <3>1, <3>2, Sequence DEF Relies
  <2>7. CASE old.todo = One
    <3>1. files'[Hook] = "good" \/ Hook \in run.missed
      BY <2>3, <2>4, <2>7, Sequence
    <3>2. links'[DM] = "good" /\ (links'[Mask] = "good" \/ Mask \in run.missed)
      BY <2>1, <2>2, <2>3, <2>7
    <3> QED BY <1>2, <1>5, <2>2, <2>7, <3>1, <3>2, Sequence DEF Relies
  <2> QED BY <1>1, <2>5, <2>6, <2>7
<1> QED BY <1>2, <1>5, <1>6, <1>7, RunSteps

LEMMA SeesLinkSteps == ASSUME GuardInv, NEW r \in Guards, SeesLink(r) PROVE GuardInv'
<1> USE DEF GuardInv, GuardTypeOK
<1>1. CASE links[Head(guard[r].todo)] = "good" /\ Sets(r, GoOn(guard[r]))
  <2>1. guard[r].pc = "see" /\ Head(guard[r].todo) \in Links /\ Head(guard[r].todo) \notin Files
    BY Sequence DEF SeesLink, Links, Files
  <2> QED BY <1>1, <2>1, OnwardSteps DEF SeesLink
<1>2. CASE Sets(r, [guard[r] EXCEPT !.pc = "unlink"])
  BY <1>2, NearerSteps DEF SeesLink
<1> QED BY <1>1, <1>2 DEF SeesLink

LEMMA UnlinksSteps == ASSUME GuardInv, NEW r \in Guards, Unlinks(r) PROVE GuardInv'
<1>1. tmpNames' \subseteq Links
  BY DEF Unlinks, GuardInv, GuardTypeOK
<1> QED BY <1>1, OnTheWay, NearerSteps DEF Unlinks

\* A link that could not be made ends a run, or is passed over.
LEMMA FailedSteps ==
  ASSUME GuardInv, NEW r \in Guards, guard[r].pc \in {"symlink", "rename"},
         Sets(r, Failed(guard[r])), tmpNames' \subseteq Links, UNCHANGED <<links, files, backups>>
  PROVE  GuardInv'
<1>1. CASE Head(guard[r].todo) = DM
  <2>1. Sets(r, GuardEnds(guard[r], 2))
    BY <1>1 DEF Failed
  <2> QED BY <2>1, EndsSteps DEF GuardInv, GuardTypeOK
<1>2. CASE Head(guard[r].todo) # DM
  <2>1. Sets(r, Misses(guard[r]))
    BY <1>2 DEF Failed
  <2> QED BY <1>2, <2>1, OnwardSteps DEF GuardInv, GuardTypeOK
<1> QED BY <1>1, <1>2

LEMMA SymlinksSteps == ASSUME GuardInv, NEW r \in Guards, Symlinks(r) PROVE GuardInv'
<1>1. tmpNames' \subseteq Links
  BY OnTheWay DEF Symlinks, GuardInv, GuardTypeOK
<1>2. CASE Sets(r, Failed(guard[r]))
  BY <1>1, <1>2, FailedSteps DEF Symlinks
<1>3. CASE Sets(r, [guard[r] EXCEPT !.pc = "rename"])
  BY <1>1, <1>3, OnTheWay, NearerSteps DEF Symlinks
<1> QED BY <1>2, <1>3 DEF Symlinks

LEMMA RenamesSteps == ASSUME GuardInv, NEW r \in Guards, Renames(r) PROVE GuardInv'
<1>1. tmpNames' \subseteq Links
  BY DEF Renames, GuardInv, GuardTypeOK
<1>2. CASE Sets(r, Failed(guard[r])) /\ UNCHANGED links
  BY <1>1, <1>2, FailedSteps DEF Renames
<1>3. CASE links' = [links EXCEPT ![Head(guard[r].todo)] = "good"] /\ Sets(r, GoOn(guard[r]))
  <2>1. guard[r].pc = "rename" /\ Head(guard[r].todo) \in Links /\ Head(guard[r].todo) \notin Files
    BY OnTheWay, Sequence DEF Renames, Links, Files
  <2>2. /\ links' \in [Links -> {"good", "other", "absent"}] /\ links'[DM] # "absent"
        /\ links'[Head(guard[r].todo)] = "good"
        /\ \A l \in Links : links[l] = "good" => links'[l] = "good"
    BY <1>3, <2>1 DEF GuardInv, GuardTypeOK, Links
  <2> QED BY <1>1, <1>3, <2>1, <2>2, OnwardSteps DEF Renames, GuardInv, GuardTypeOK
<1> QED BY <1>2, <1>3 DEF Renames

LEMMA VerifiesSteps == ASSUME GuardInv, NEW r \in Guards, VerifiesFile(r) PROVE GuardInv'
<1> USE DEF GuardInv, GuardTypeOK
<1>1. /\ guard[r].pc = "see" /\ guard[r].todo = One
      /\ Head(guard[r].todo) = Hook /\ Hook \in Files /\ Hook \notin Links /\ Hook # DM
  BY OnTheWay, Sequence DEF VerifiesFile, Files, Links
<1>2. CASE files[Hook] = "good" /\ Sets(r, GoOn(guard[r])) /\ UNCHANGED files
  BY <1>1, <1>2, OnwardSteps DEF VerifiesFile
<1>3. CASE Sets(r, GuardEnds(guard[r], 3)) /\ UNCHANGED files
  BY <1>1, <1>3, EndsSteps DEF VerifiesFile
<1>4. CASE /\ backups[Hook] = "good" /\ Sets(r, [guard[r] EXCEPT !.pc = "copy"])
           /\ files' = [files EXCEPT ![Hook] = "partial"]
  <2> DEFINE run == [guard[r] EXCEPT !.pc = "copy"]
  <2>1. /\ run \in Runs /\ run.pc = "copy" /\ run.todo = One /\ run.answer = -1
        /\ run.alone = guard[r].alone /\ run.missed = guard[r].missed
    BY <1>1, OnTheWay DEF Runs, Places
  <2>2. guard' = [guard EXCEPT ![r] = run]
    BY <1>4 DEF Sets
  <2> HIDE DEF run
  <2>3. guard'[r] = run /\ GuardTypeOK' /\ \A q \in Guards \ {r} : guard'[q] = guard[q]
    BY <1>4, <2>1, <2>2 DEF VerifiesFile
  <2>4. Placed(guard[r])'
    BY <2>1, <2>3, Sequence DEF Placed
  <2>5. guard[r].alone => Relies(guard[r])'
    BY <1>1, <1>4, <2>1, <2>3, Sequence DEF Relies, VerifiesFile
  <2> QED BY <1>1, <2>1, <2>3, <2>4, <2>5, RunSteps DEF VerifiesFile
<1> QED BY <1>1, <1>2, <1>3, <1>4 DEF VerifiesFile

LEMMA CopiesSteps == ASSUME GuardInv, NEW r \in Guards, Copies(r) PROVE GuardInv'
<1> USE DEF GuardInv, GuardTypeOK
<1>1. /\ guard[r].pc = "copy" /\ guard[r].todo = One
      /\ Head(guard[r].todo) = Hook /\ Hook \in Files /\ Hook \notin Links /\ Hook # DM
  BY OnTheWay, Sequence DEF Copies, Files, Links
<1>2. CASE files' = [files EXCEPT ![Hook] = backups[Hook]] /\ Sets(r, GoOn(guard[r]))
  <2>1. /\ files' \in [Files -> {"good", "bad", "partial"}]
        /\ guard[r].alone => files'[Hook] = "good"
    BY <1>1, <1>2 DEF Relies
  <2> QED BY <1>1, <1>2, <2>1, OnwardSteps DEF Copies
<1>3. CASE files' = [files EXCEPT ![Hook] = "partial"] /\ Sets(r, GuardEnds(guard[r], 3))
  BY <1>1, <1>3, EndsSteps DEF Copies
<1>4. CASE files' = [files EXCEPT ![Hook] = "partial"] /\ Sets(r, Misses(guard[r]))
  <2>1. files' \in [Files -> {"good", "bad", "partial"}]
    BY <1>4
  <2> QED BY <1>1, <1>4, <2>1, OnwardSteps DEF Copies
<1> QED BY <1>1, <1>2, <1>3, <1>4 DEF Copies

\* A run that has been crossed.
LEMMA CrossedRuns ==
  ASSUME NEW run \in Runs
  PROVE  [run EXCEPT !.alone = FALSE] \in Runs
<1>1. ASSUME NEW a \in BOOLEAN PROVE [run EXCEPT !.alone = a] \in Runs
  BY DEF Runs
<1> QED BY <1>1, Zenon

\* A run that begins is alone only if no other runs, and ends the solitude of every other.
LEMMA BeginSteps == ASSUME GuardInv, NEW r \in Guards, BeginGuard(r) PROVE GuardInv'
<1> DEFINE fresh == [pc |-> "see", todo |-> Everything, answer |-> -1, alone |-> Running = {},
                     missed |-> {}]
<1>0. fresh \in Runs
  <2>1. (Running = {}) \in BOOLEAN /\ {} \in SUBSET (Links \cup Files)
    OBVIOUS
  <2>2. ASSUME NEW a \in BOOLEAN, NEW m \in SUBSET (Links \cup Files)
        PROVE  [pc |-> "see", todo |-> Everything, answer |-> -1, alone |-> a, missed |-> m] \in Runs
    BY DEF Runs, Places, Rests
  <2> QED BY <2>1, <2>2
<1>1. /\ GuardTypeOK' /\ links'[DM] # "absent"
      /\ guard'[r] = fresh
      /\ \A q \in Guards \ {r} : guard'[q] = [guard[q] EXCEPT !.alone = FALSE]
  <2>1. guard' = [q \in Guards |-> IF q = r THEN fresh ELSE [guard[q] EXCEPT !.alone = FALSE]]
    BY DEF BeginGuard
  <2> HIDE DEF fresh
  <2>2. \A q \in Guards : [guard[q] EXCEPT !.alone = FALSE] \in Runs
    BY CrossedRuns DEF GuardInv, GuardTypeOK
  <2>3. guard' \in [Guards -> Runs]
    BY <1>0, <2>1, <2>2
  <2> QED BY <2>1, <2>3 DEF GuardInv, GuardTypeOK, BeginGuard
<1>2. /\ guard'[r].pc = "see" /\ guard'[r].todo = Everything /\ guard'[r].answer = -1
      /\ guard'[r].missed = {}
      /\ guard'[r].alone => Running = {}
  <2>1. guard'[r].alone = (Running = {})
    BY <1>1
  <2>2. guard'[r].alone => Running = {}
    BY ONLY <2>1
  <2>3. /\ guard'[r].pc = "see" /\ guard'[r].todo = Everything /\ guard'[r].answer = -1
        /\ guard'[r].missed = {}
    BY <1>1
  <2> QED BY <2>2, <2>3
<1>3. \A q \in Guards \ {r} :
        /\ guard'[q].pc = guard[q].pc /\ guard'[q].todo = guard[q].todo
        /\ guard'[q].answer = guard[q].answer /\ ~guard'[q].alone
  BY <1>1 DEF GuardInv, GuardTypeOK, Runs
<1>4. \A q \in Guards : Placed(guard[q])'
  <2>1. Placed(guard[r])'
    BY <1>2, Sequence DEF Placed
  <2>2. ASSUME NEW q \in Guards \ {r} PROVE Placed(guard[q])'
    <3>1. Placed(guard[q])
      BY DEF GuardInv
    <3> QED BY <1>3, <3>1 DEF Placed
  <2> QED BY <2>1, <2>2
<1>5. \A p, q \in Guards : guard'[p].alone /\ q # p => guard'[q].pc = "off"
  BY <1>2, <1>3 DEF Running
<1>6. \A q \in Guards : guard'[q].alone => Relies(guard[q])'
  BY <1>2, <1>3, Sequence DEF Relies
<1> QED BY <1>1, <1>4, <1>5, <1>6 DEF GuardInv

LEMMA OthersSteps == ASSUME GuardInv, Meddle \/ PowerLost PROVE GuardInv'
<1>1. CASE Meddle
  <2>1. \A r \in Guards : guard'[r] = [guard[r] EXCEPT !.alone = FALSE]
    BY <1>1 DEF Meddle
  <2>2. \A r \in Guards :
          /\ guard'[r].pc = guard[r].pc /\ guard'[r].todo = guard[r].todo
          /\ guard'[r].answer = guard[r].answer /\ ~guard'[r].alone
    <3> SUFFICES ASSUME NEW r \in Guards
                 PROVE  /\ guard'[r].pc = guard[r].pc /\ guard'[r].todo = guard[r].todo
                        /\ guard'[r].answer = guard[r].answer /\ ~guard'[r].alone
      OBVIOUS
    <3>1. guard[r] \in Runs
      BY DEF GuardInv, GuardTypeOK
    <3> QED BY <2>1, <3>1 DEF Runs
  <2>3. guard' \in [Guards -> Runs]
    <3>1. \A r \in Guards : [guard[r] EXCEPT !.alone = FALSE] \in Runs
      BY CrossedRuns DEF GuardInv, GuardTypeOK
    <3> QED BY <1>1, <3>1 DEF Meddle
  <2>4. GuardTypeOK' /\ links'[DM] # "absent"
    BY <1>1, <2>3 DEF Meddle, GuardInv, GuardTypeOK, Links
  <2>5. ASSUME NEW r \in Guards PROVE Placed(guard[r])'
    <3>1. Placed(guard[r])
      BY DEF GuardInv
    <3> QED BY <2>2, <3>1 DEF Placed
  <2> QED BY <2>2, <2>4, <2>5 DEF GuardInv
<1>2. CASE PowerLost
  BY <1>2, Sequence DEF PowerLost, Resting, Places, Rests, Runs, Placed, Relies, GuardInv, GuardTypeOK
<1> QED BY <1>1, <1>2

\* What the guard's answer is worth, and that there is always a display manager, for every
\* number of runs that overlap, every refused operation and every change of others.
THEOREM GuardKeepsItsWord == GuardSpec => []AnswerIsSo
<1>1. GuardInv /\ [GuardNext]_guardVars => GuardInv'
  <2> SUFFICES ASSUME GuardInv, [GuardNext]_guardVars PROVE GuardInv'
    OBVIOUS
  <2>1. CASE UNCHANGED guardVars
    BY <2>1 DEF guardVars, GuardInv, GuardTypeOK, Placed, Relies
  <2> QED BY <2>1, BeginSteps, SeesLinkSteps, UnlinksSteps, SymlinksSteps, RenamesSteps,
             VerifiesSteps, CopiesSteps, OthersSteps DEF GuardNext
<1>2. GuardInv => AnswerIsSo
  BY DEF GuardInv, AnswerIsSo, Relies, Links, Files
<1> QED BY <1>1, <1>2, GuardStart, PTL DEF GuardSpec

=============================================================================
