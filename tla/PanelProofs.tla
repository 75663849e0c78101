---------------------------- MODULE PanelProofs ----------------------------
(***************************************************************************)
(* Machine-checked proofs about the lists of the panel and the browser: the    *)
(* notifications, the profiles and the tabs, for every number of them.          *)
(***************************************************************************)
EXTENDS Notifications, BrowserProfiles, BrowserTabs, SequenceTheorems, WellFoundedInduction, TLAPS

-----------------------------------------------------------------------------
\* A sequence with one element taken out.
LEMMA RemoveAtSeq ==
  ASSUME NEW S, NEW s \in Seq(S), NEW i \in 1..Len(s)
  PROVE  /\ RemoveAt(s, i) \in Seq(S)
         /\ Len(RemoveAt(s, i)) = Len(s) - 1
         /\ \A j \in 1..Len(s) - 1 : RemoveAt(s, i)[j] = s[IF j < i THEN j ELSE j + 1]
<1> DEFINE l == SubSeq(s, 1, i - 1)
           r == SubSeq(s, i + 1, Len(s))
<1>1. /\ l \in Seq(S) /\ Len(l) = i - 1
      /\ \A j \in 1..i - 1 : l[j] = s[j]
  BY SubSeqProperties, LenProperties
<1>2. /\ r \in Seq(S) /\ Len(r) = Len(s) - i
      /\ \A j \in 1..Len(s) - i : r[j] = s[j + i]
  BY SubSeqProperties, LenProperties
<1> HIDE DEF l, r
<1>3. RemoveAt(s, i) = l \o r
  BY DEF RemoveAt, l, r
<1>4. /\ l \o r \in Seq(S) /\ Len(l \o r) = Len(l) + Len(r)
      /\ \A j \in 1..Len(l) + Len(r) : (l \o r)[j] = IF j <= Len(l) THEN l[j] ELSE r[j - Len(l)]
  BY <1>1, <1>2, ConcatProperties
<1>5. ASSUME NEW j \in 1..Len(s) - 1 PROVE (l \o r)[j] = s[IF j < i THEN j ELSE j + 1]
  <2>1. Len(s) \in Nat
    BY LenProperties
  <2> QED BY <1>1, <1>2, <1>4, <2>1
<1> QED BY <1>1, <1>2, <1>3, <1>4, <1>5, LenProperties

\* Where an element was before.
Old(i, j) == IF j < i THEN j ELSE j + 1

LEMMA RemovedType ==
  ASSUME NEW S, NEW s \in Seq(S), NEW i \in DOMAIN s
  PROVE  /\ RemoveAt(s, i) \in Seq(S) /\ Len(RemoveAt(s, i)) = Len(s) - 1
         /\ DOMAIN RemoveAt(s, i) = 1..Len(s) - 1
<1>1. i \in 1..Len(s)
  BY LenProperties
<1> QED BY <1>1, RemoveAtSeq, LenProperties

LEMMA RemovedOld ==
  ASSUME NEW S, NEW s \in Seq(S), NEW i \in DOMAIN s
  PROVE  \A j \in DOMAIN RemoveAt(s, i) :
           Old(i, j) \in DOMAIN s \ {i} /\ RemoveAt(s, i)[j] = s[Old(i, j)]
<1>1. DOMAIN s = 1..Len(s) /\ Len(s) \in Nat /\ i \in 1..Len(s)
  BY LenProperties
<1>2. \A j \in 1..Len(s) - 1 : RemoveAt(s, i)[j] = s[IF j < i THEN j ELSE j + 1]
  BY <1>1, RemoveAtSeq
<1>3. DOMAIN RemoveAt(s, i) = 1..Len(s) - 1
  BY RemovedType
<1> QED BY <1>1, <1>2, <1>3 DEF Old

LEMMA RemovedOrder ==
  ASSUME NEW S, NEW s \in Seq(S), NEW i \in DOMAIN s
  PROVE  \A j, k \in DOMAIN RemoveAt(s, i) : j < k => Old(i, j) < Old(i, k)
<1>1. DOMAIN s = 1..Len(s) /\ Len(s) \in Nat /\ DOMAIN RemoveAt(s, i) = 1..Len(s) - 1
  BY RemovedType, LenProperties
<1> QED BY <1>1 DEF Old

LEMMA RemovedOthers ==
  ASSUME NEW S, NEW s \in Seq(S), NEW i \in DOMAIN s, NEW k \in DOMAIN s, k # i
  PROVE  \E j \in DOMAIN RemoveAt(s, i) : Old(i, j) = k
<1>1. DOMAIN s = 1..Len(s) /\ Len(s) \in Nat /\ DOMAIN RemoveAt(s, i) = 1..Len(s) - 1
  BY RemovedType, LenProperties
<1> DEFINE j == IF k < i THEN k ELSE k - 1
<1>2. j \in DOMAIN RemoveAt(s, i) /\ Old(i, j) = k
  BY <1>1 DEF Old
<1> QED BY <1>2

-----------------------------------------------------------------------------
\* The notification list.

Ids == Nat \ {0}
Group == [app : Apps, items : Seq(Ids), latest : Ids, expanded : BOOLEAN]

\* A group with its ids falling, all of its application's.
Falls(g, own) ==
  /\ g.items # <<>> /\ g.latest = g.items[1]
  /\ \A m, n \in DOMAIN g.items : m < n => g.items[m] > g.items[n]
  /\ \A m \in DOMAIN g.items : own[g.items[m]] = g.app

\* A list of groups as it is when n ids were given.
Listed(gs, own, n) ==
  /\ gs \in Seq(Group)
  /\ \A i, j \in DOMAIN gs : i < j => gs[i].app # gs[j].app /\ gs[i].latest > gs[j].latest
  /\ \A i \in DOMAIN gs : Falls(gs[i], own) /\ gs[i].latest <= n

NotifyInv ==
  /\ nextId \in Nat /\ owners \in Seq(Apps) /\ Len(owners) = nextId
  /\ Listed(groups, owners, nextId)

LEMMA ListedLess ==
  ASSUME NEW own, NEW n, NEW gs, Listed(gs, own, n), NEW i \in DOMAIN gs
  PROVE  /\ Listed(RemoveAt(gs, i), own, n)
         /\ \A j \in DOMAIN RemoveAt(gs, i) : RemoveAt(gs, i)[j].app # gs[i].app
<1> DEFINE less == RemoveAt(gs, i)
<1>1. gs \in Seq(Group) /\ DOMAIN gs = 1..Len(gs)
  BY LenProperties DEF Listed
<1>2. /\ less \in Seq(Group) /\ DOMAIN less = 1..Len(gs) - 1
      /\ \A j \in DOMAIN less : Old(i, j) \in DOMAIN gs \ {i} /\ less[j] = gs[Old(i, j)]
      /\ \A j, k \in DOMAIN less : j < k => Old(i, j) < Old(i, k)
  <2>1. less \in Seq(Group) /\ DOMAIN less = 1..Len(gs) - 1
    BY <1>1, RemovedType
  <2>2. \A j \in DOMAIN less : Old(i, j) \in DOMAIN gs \ {i} /\ less[j] = gs[Old(i, j)]
    BY <1>1, RemovedOld
  <2>3. \A j, k \in DOMAIN less : j < k => Old(i, j) < Old(i, k)
    BY <1>1, RemovedOrder
  <2> HIDE DEF less
  <2> QED BY <2>1, <2>2, <2>3
<1> HIDE DEF less
<1>3. \A j \in DOMAIN less : Falls(less[j], own) /\ less[j].latest <= n
  BY <1>2 DEF Listed
<1>4. \A j, k \in DOMAIN less :
        j < k => less[j].app # less[k].app /\ less[j].latest > less[k].latest
  BY <1>2 DEF Listed
<1>5. ASSUME NEW j \in DOMAIN less PROVE less[j].app # gs[i].app
  <2>1. Old(i, j) < i \/ i < Old(i, j)
    BY <1>1, <1>2
  <2> QED BY <1>2, <2>1 DEF Listed
<1> QED BY <1>2, <1>3, <1>4, <1>5 DEF Listed, less

\* The next id on top.
LEMMA ListedMore ==
  ASSUME NEW own, NEW n \in Nat, NEW gs, Listed(gs, own, n),
         NEW g \in Group, Falls(g, own), g.latest = n + 1,
         \A i \in DOMAIN gs : gs[i].app # g.app
  PROVE  Listed(<<g>> \o gs, own, n + 1)
<1> DEFINE more == <<g>> \o gs
<1>1. gs \in Seq(Group) /\ DOMAIN gs = 1..Len(gs) /\ Len(gs) \in Nat
  BY LenProperties DEF Listed
<1>2. <<g>> \in Seq(Group) /\ Len(<<g>>) = 1 /\ <<g>>[1] = g
  OBVIOUS
<1>3. /\ more \in Seq(Group) /\ Len(more) = Len(gs) + 1
      /\ \A i \in 1..Len(gs) + 1 : more[i] = IF i = 1 THEN g ELSE gs[i - 1]
  <2>1. /\ more \in Seq(Group) /\ Len(more) = 1 + Len(gs)
        /\ \A i \in 1..1 + Len(gs) : more[i] = IF i <= 1 THEN <<g>>[i] ELSE gs[i - 1]
    BY <1>1, <1>2, ConcatProperties
  <2> QED BY <1>1, <1>2, <2>1
<1>4. DOMAIN more = 1..Len(gs) + 1
  BY <1>3, LenProperties
<1> HIDE DEF more
<1>5. \A i \in DOMAIN gs : gs[i].latest \in Ids /\ gs[i].latest <= n
  <2> TAKE i \in DOMAIN gs
  <2>1. gs[i] \in Group
    BY <1>1, ElementOfSeq
  <2> QED BY <2>1 DEF Group, Listed
<1>6. \A i \in DOMAIN more : Falls(more[i], own) /\ more[i].latest <= n + 1
  <2> TAKE i \in DOMAIN more
  <2>1. CASE i = 1
    <3>1. more[i] = g
      BY <1>1, <1>3, <1>4, <2>1
    <3> QED BY <3>1 DEF Ids
  <2>2. CASE i # 1
    <3>1. i - 1 \in DOMAIN gs /\ more[i] = gs[i - 1]
      BY <1>1, <1>3, <1>4, <2>2
    <3>2. Falls(gs[i - 1], own) /\ gs[i - 1].latest <= n /\ gs[i - 1].latest \in Ids
      BY <1>5, <3>1 DEF Listed
    <3> QED BY <3>1, <3>2 DEF Ids
  <2> QED BY <2>1, <2>2
<1>7. ASSUME NEW i \in DOMAIN more, NEW j \in DOMAIN more, i < j
      PROVE  more[i].app # more[j].app /\ more[i].latest > more[j].latest
  <2>1. j - 1 \in DOMAIN gs /\ more[j] = gs[j - 1]
    BY <1>1, <1>3, <1>4, <1>7
  <2>2. CASE i = 1
    <3>1. more[i] = g
      BY <1>1, <1>3, <1>4, <2>2
    <3> QED BY <1>5, <2>1, <3>1 DEF Ids
  <2>3. CASE i # 1
    <3>1. i - 1 \in DOMAIN gs /\ more[i] = gs[i - 1] /\ i - 1 < j - 1
      BY <1>1, <1>3, <1>4, <1>7, <2>3
    <3> QED BY <2>1, <3>1 DEF Listed
  <2> QED BY <2>2, <2>3
<1> QED BY <1>3, <1>6, <1>7 DEF Listed, more

\* What was given stays given.
LEMMA ListedOn ==
  ASSUME NEW own \in Seq(Apps), NEW app \in Apps, NEW gs, Listed(gs, own, Len(own))
  PROVE  Listed(gs, Append(own, app), Len(own))
<1>1. \A i \in 1..Len(own) : Append(own, app)[i] = own[i]
  OBVIOUS
<1>2. ASSUME NEW i \in DOMAIN gs PROVE Falls(gs[i], Append(own, app))
  <2>1. Falls(gs[i], own) /\ gs[i].latest <= Len(own)
    BY DEF Listed
  <2>2. gs[i] \in Group
    <3>1. gs \in Seq(Group) /\ i \in 1..Len(gs)
      BY LenProperties DEF Listed
    <3> QED BY <3>1, ElementOfSeq
  <2>3. \A m \in DOMAIN gs[i].items : gs[i].items[m] \in Ids /\ gs[i].items[m] <= gs[i].items[1]
    <3>1. gs[i].items \in Seq(Ids)
      BY <2>2 DEF Group
    <3> TAKE m \in DOMAIN gs[i].items
    <3>2. 1 \in DOMAIN gs[i].items /\ m \in Nat \ {0}
      BY <3>1, LenProperties
    <3>3. gs[i].items[m] \in Ids /\ gs[i].items[1] \in Ids
      BY <3>1, <3>2, ElementOfSeq, LenProperties
    <3>4. m = 1 \/ gs[i].items[1] > gs[i].items[m]
      BY <2>1, <3>2 DEF Falls
    <3> QED BY <3>3, <3>4 DEF Ids
  <2>4. \A m \in DOMAIN gs[i].items : gs[i].items[m] \in 1..Len(own)
    <3>1. Len(own) \in Nat /\ gs[i].items[1] <= Len(own)
      BY <2>1, LenProperties DEF Falls
    <3> TAKE m \in DOMAIN gs[i].items
    <3>2. gs[i].items[m] \in Ids /\ gs[i].items[m] <= gs[i].items[1]
      BY <2>3
    <3>3. gs[i].items[1] \in Ids
      BY <2>2, ElementOfSeq, LenProperties DEF Group, Falls
    <3> QED BY <3>1, <3>2, <3>3 DEF Ids
  <2> QED BY <1>1, <2>1, <2>4 DEF Falls
<1> QED BY <1>2 DEF Listed

\* The ids of a group go down from its newest, and a new one goes above them.
LEMMA FallsFrom ==
  ASSUME NEW own, NEW g \in Group, Falls(g, own), NEW m \in DOMAIN g.items
  PROVE  g.items[m] \in Ids /\ g.items[m] <= g.latest
<1>1. g.items \in Seq(Ids) /\ DOMAIN g.items = 1..Len(g.items) /\ Len(g.items) \in Nat
  BY LenProperties DEF Group
<1>2. 1 \in DOMAIN g.items /\ g.items[m] \in Ids /\ g.items[1] \in Ids
  BY <1>1, ElementOfSeq
<1>3. m = 1 \/ g.items[1] > g.items[m]
  BY <1>1, <1>2 DEF Falls
<1> QED BY <1>2, <1>3 DEF Falls, Ids

LEMMA FallsMore ==
  ASSUME NEW own, NEW id \in Ids, NEW g \in Group, Falls(g, own), g.latest < id,
         own[id] = g.app,
         NEW new, new.items = <<id>> \o g.items, new.latest = id, new.app = g.app
  PROVE  Falls(new, own) /\ new.items \in Seq(Ids)
<1> DEFINE ids == <<id>> \o g.items
<1>1. id \in Ids /\ g.latest \in Ids
  BY DEF Ids, Group
<1>2. <<id>> \in Seq(Ids) /\ Len(<<id>>) = 1 /\ <<id>>[1] = id
  BY <1>1
<1>3. g.items \in Seq(Ids) /\ DOMAIN g.items = 1..Len(g.items) /\ Len(g.items) \in Nat
  BY LenProperties DEF Group
<1>4. /\ ids \in Seq(Ids) /\ Len(ids) = 1 + Len(g.items)
      /\ \A m \in 1..1 + Len(g.items) : ids[m] = IF m <= 1 THEN <<id>>[m] ELSE g.items[m - 1]
  BY <1>2, <1>3, ConcatProperties
<1>5. DOMAIN ids = 1..1 + Len(g.items)
  BY <1>4, LenProperties
<1>6. new.items = ids
  OBVIOUS
<1> HIDE DEF ids
<1>7. 1 \in DOMAIN ids /\ ids[1] = id /\ ids # <<>>
  <2>1. ids[1] = id /\ Len(ids) # 0
    BY <1>2, <1>3, <1>4
  <2> QED BY <1>3, <1>5, <2>1
<1>8. \A m \in DOMAIN ids : m = 1 \/ (m - 1 \in DOMAIN g.items /\ ids[m] = g.items[m - 1])
  BY <1>3, <1>4, <1>5
<1>9. \A k, m \in DOMAIN ids : k < m => ids[k] > ids[m]
  <2> SUFFICES ASSUME NEW k \in DOMAIN ids, NEW m \in DOMAIN ids, k < m PROVE ids[k] > ids[m]
    OBVIOUS
  <2>1. m - 1 \in DOMAIN g.items /\ ids[m] = g.items[m - 1]
    BY <1>3, <1>5, <1>8
  <2>2. g.items[m - 1] \in Ids /\ g.items[m - 1] <= g.latest
    BY <2>1, FallsFrom
  <2>3. CASE k = 1
    BY <1>1, <1>7, <2>1, <2>2, <2>3 DEF Ids
  <2>4. CASE k # 1
    <3>1. k - 1 \in DOMAIN g.items /\ ids[k] = g.items[k - 1]
      BY <1>8, <2>4
    <3>2. k - 1 < m - 1
      BY <1>3, <1>5
    <3> QED BY <2>1, <3>1, <3>2 DEF Falls
  <2> QED BY <2>3, <2>4
<1>10. \A m \in DOMAIN ids : own[ids[m]] = g.app
  BY <1>7, <1>8 DEF Falls
<1> QED BY <1>4, <1>6, <1>7, <1>9, <1>10 DEF Falls

\* addNotification: the list with the new id on top.
LEMMA AddSteps ==
  ASSUME NotifyInv, NEW app \in Apps, nextId' = nextId + 1,
         owners' = Append(owners, app), groups' = WithNotification(nextId', app)
  PROVE  NotifyInv'
<1> DEFINE at == {i \in DOMAIN groups : groups[i].app = app}
           first == CHOOSE i \in at : \A j \in at : i <= j
           id == nextId + 1
<1>1. /\ nextId \in Nat /\ owners \in Seq(Apps) /\ Len(owners) = nextId
      /\ groups \in Seq(Group) /\ DOMAIN groups = 1..Len(groups)
  BY LenProperties DEF NotifyInv, Listed
<1>2. /\ owners' \in Seq(Apps) /\ Len(owners') = id /\ id \in Nat
      /\ owners'[id] = app /\ id \in Ids
  BY <1>1 DEF Ids
<1>3. Listed(groups, owners', nextId)
  BY <1>1, ListedOn DEF NotifyInv
<1>4. CASE at = {}
  <2> DEFINE new == [app |-> app, items |-> <<id>>, latest |-> id, expanded |-> FALSE]
  <2>1. groups' = <<new>> \o groups
    BY <1>4 DEF WithNotification
  <2>2. new \in Group /\ new.app = app /\ new.items = <<id>> /\ new.latest = id
    BY <1>2 DEF Group
  <2> HIDE DEF new
  <2>3. DOMAIN <<id>> = {1} /\ <<id>>[1] = id /\ <<id>> # <<>>
    <3> HIDE DEF id
    <3>1. <<id>> \in Seq(Ids) /\ Len(<<id>>) = 1 /\ <<id>>[1] = id
      BY <1>2
    <3> QED BY <3>1, LenProperties
  <2>4. Falls(new, owners')
    BY <1>2, <2>2, <2>3 DEF Falls
  <2>5. Listed(<<new>> \o groups, owners', nextId + 1)
    BY <1>1, <1>3, <1>4, <2>2, <2>4, ListedMore
  <2> QED BY <1>2, <2>1, <2>5 DEF NotifyInv
<1>5. CASE at # {}
  <2>1. \A i, j \in at : i = j
    BY <1>1 DEF NotifyInv, Listed
  <2>2. first \in at
    <3>1. PICK i \in at : \A j \in at : i <= j
      BY <1>1, <1>5, <2>1
    <3> QED BY <3>1
  <2> DEFINE old == groups[first]
             new == [old EXCEPT !.items = <<id>> \o @, !.latest = id]
             rest == RemoveAt(groups, first)
  <2>3. groups' = <<new>> \o rest
    BY <1>5 DEF WithNotification
  <2> HIDE DEF first
  <2>4. first \in DOMAIN groups /\ old.app = app
    BY <2>2
  <2>5. Falls(old, owners') /\ old.latest <= nextId
    BY <1>3, <2>4 DEF Listed
  <2>6. old \in Group
    BY <1>1, <2>4, ElementOfSeq
  <2>7. Listed(rest, owners', nextId)
    BY <1>3, <2>4, ListedLess
  <2>8. \A j \in DOMAIN rest : rest[j].app # app
    BY <1>3, <2>4, ListedLess
  <2> HIDE DEF old, rest
  <2>9. new \in Group /\ Falls(new, owners') /\ new.latest = id /\ new.app = app
    <3>1. owners'[id] = old.app /\ old.latest < id
      BY <1>1, <1>2, <2>4, <2>5, <2>6 DEF Group, Ids
    <3>2. new.items = <<id>> \o old.items /\ new.latest = id /\ new.app = old.app
      BY <2>6 DEF Group
    <3>3. Falls(new, owners') /\ new.items \in Seq(Ids)
      <4> HIDE DEF new, id
      <4> QED BY <1>2, <2>5, <2>6, <3>1, <3>2, FallsMore
    <3>4. new \in Group
      <4> DEFINE ids == <<id>> \o old.items
      <4>1. ids \in Seq(Ids)
        BY <3>2, <3>3
      <4> HIDE DEF ids
      <4>2. new = [old EXCEPT !.items = ids, !.latest = id]
        BY DEF ids
      <4> QED BY <1>2, <2>6, <4>1, <4>2 DEF Group
    <3> QED BY <2>4, <3>2, <3>3, <3>4
  <2> HIDE DEF new
  <2>10. Listed(<<new>> \o rest, owners', nextId + 1)
    BY <1>1, <2>7, <2>8, <2>9, ListedMore
  <2> QED BY <1>2, <2>3, <2>10 DEF NotifyInv
<1> QED BY <1>4, <1>5

\* toggleExpanded
LEMMA ToggleSteps ==
  ASSUME NotifyInv, ToggleExpanded
  PROVE  NotifyInv'
<1>1. PICK i \in DOMAIN groups : groups' = [groups EXCEPT ![i].expanded = ~@]
  BY DEF ToggleExpanded
<1>2. groups \in Seq(Group) /\ DOMAIN groups = 1..Len(groups)
  BY LenProperties DEF NotifyInv, Listed
<1> DEFINE g == [groups[i] EXCEPT !.expanded = ~@]
<1>3. groups[i] \in Group
  BY <1>2, ElementOfSeq
<1>4. /\ g \in Group /\ g.app = groups[i].app /\ g.items = groups[i].items
      /\ g.latest = groups[i].latest
  BY <1>3 DEF Group
<1>5. groups' = [groups EXCEPT ![i] = g]
  BY <1>1
<1> HIDE DEF g
<1>6. /\ groups' \in Seq(Group) /\ DOMAIN groups' = DOMAIN groups
      /\ \A j \in DOMAIN groups : groups'[j] = IF j = i THEN g ELSE groups[j]
  BY <1>2, <1>4, <1>5, ExceptSeq
<1>7. \A j \in DOMAIN groups :
        /\ groups'[j].app = groups[j].app /\ groups'[j].items = groups[j].items
        /\ groups'[j].latest = groups[j].latest
  BY <1>4, <1>6
<1> QED BY <1>6, <1>7 DEF ToggleExpanded, NotifyInv, Listed, Falls

\* For every set of applications and however many notifications: the list reads newest first.
THEOREM ReadsNewestFirst == NotifySpec => []NewestFirst
<1>1. NotifyInit => NotifyInv
  BY DEF NotifyInit, NotifyInv, Listed
<1>2. NotifyInv /\ [NotifyNext]_notifyVars => NotifyInv'
  <2> SUFFICES ASSUME NotifyInv, [NotifyNext]_notifyVars PROVE NotifyInv'
    OBVIOUS
  <2>1. ASSUME NEW app \in Apps, Notify(app) PROVE NotifyInv'
    <3>1. CASE dnd
      BY <2>1, <3>1 DEF Notify, NotifyInv
    <3>2. CASE ~dnd
      BY <2>1, <3>2, AddSteps DEF Notify
    <3> QED BY <3>1, <3>2
  <2>2. CASE ClearAll
    BY <2>2 DEF ClearAll, NotifyInv, Listed
  <2>3. CASE DismissGroup
    BY <2>3, ListedLess DEF DismissGroup, NotifyInv
  <2>4. CASE ToggleDnd \/ UNCHANGED notifyVars
    BY <2>4 DEF ToggleDnd, notifyVars, NotifyInv
  <2> QED BY <2>1, <2>2, <2>3, <2>4, ToggleSteps DEF NotifyNext
<1>3. NotifyInv => NewestFirst
  BY DEF NotifyInv, Listed, Falls, NewestFirst
<1> QED BY <1>1, <1>2, <1>3, PTL DEF NotifySpec

-----------------------------------------------------------------------------
\* The browser's profiles.

\* A list of profiles after n edits, each with an id of its own.
Profiles(list, n) ==
  /\ list \in Seq(Nat)
  /\ \A i, j \in DOMAIN list : list[i] = list[j] => i = j
  /\ \A i \in DOMAIN list : list[i] <= n

Steps == {"off", "on", "delete", "unlist"}
Marks == Sites \cup {"default"}
Process == [pc : Steps, list : Seq(Nat), active : Nat, marks : SUBSET Marks, dead : Nat]

\* A process that runs lists its active profile, and the one it is about to delete as well.
Holds(b, n) ==
  /\ b \in Process /\ Profiles(b.list, n)
  /\ b.pc # "off" => Lists(b.list, b.active)
  /\ b.pc = "delete" => Lists(b.list, b.dead) /\ b.dead # b.active

FileHolds(f, n) ==
  /\ f \in [list : Seq(Nat), active : Nat] /\ Profiles(f.list, n)
  /\ f.list # <<>> => Lists(f.list, f.active)

ProfilesInv ==
  /\ edits \in Nat /\ marksFile \in SUBSET Marks
  /\ DOMAIN browser = Browsers /\ \A w \in Browsers : Holds(browser[w], edits)
  /\ FileHolds(profilesFile, edits)

\* A deletion takes out the profile and no other.
LEMMA ProfilesLess ==
  ASSUME NEW n, NEW list, Profiles(list, n), NEW i \in DOMAIN list
  PROVE  /\ Profiles(RemoveAt(list, i), n)
         /\ \A p : Lists(list, p) /\ p # list[i] => Lists(RemoveAt(list, i), p)
<1> DEFINE less == RemoveAt(list, i)
<1>1. list \in Seq(Nat) /\ DOMAIN list = 1..Len(list) /\ Len(list) \in Nat
  BY LenProperties DEF Profiles
<1>2. /\ less \in Seq(Nat) /\ DOMAIN less = 1..Len(list) - 1
      /\ \A j \in DOMAIN less : Old(i, j) \in DOMAIN list \ {i} /\ less[j] = list[Old(i, j)]
      /\ \A j, k \in DOMAIN less : j < k => Old(i, j) < Old(i, k)
      /\ \A k \in DOMAIN list \ {i} : \E j \in DOMAIN less : Old(i, j) = k
  <2>1. less \in Seq(Nat) /\ DOMAIN less = 1..Len(list) - 1
    BY <1>1, RemovedType
  <2>2. \A j \in DOMAIN less : Old(i, j) \in DOMAIN list \ {i} /\ less[j] = list[Old(i, j)]
    BY <1>1, RemovedOld
  <2>3. \A j, k \in DOMAIN less : j < k => Old(i, j) < Old(i, k)
    BY <1>1, RemovedOrder
  <2>4. \A k \in DOMAIN list \ {i} : \E j \in DOMAIN less : Old(i, j) = k
    BY <1>1, RemovedOthers
  <2> HIDE DEF less
  <2> QED BY <2>1, <2>2, <2>3, <2>4
<1> HIDE DEF less
<1>3. ASSUME NEW j \in DOMAIN less, NEW k \in DOMAIN less, less[j] = less[k] PROVE j = k
  <2>1. Old(i, j) = Old(i, k)
    BY <1>2, <1>3 DEF Profiles
  <2>2. ~(j < k) /\ ~(k < j)
    <3>1. Old(i, j) \in 1..Len(list)
      BY <1>1, <1>2
    <3>2. ~(Old(i, j) < Old(i, k)) /\ ~(Old(i, k) < Old(i, j))
      BY <1>1, <2>1, <3>1
    <3> QED BY <1>2, <3>2
  <2>3. j \in 1..Len(list) - 1 /\ k \in 1..Len(list) - 1
    BY <1>2
  <2> QED BY <1>1, <2>2, <2>3
<1>4. Profiles(less, n)
  BY <1>2, <1>3 DEF Profiles
<1>5. ASSUME NEW p, Lists(list, p), p # list[i] PROVE Lists(less, p)
  BY <1>2, <1>5 DEF Lists
<1> QED BY <1>4, <1>5 DEF less

\* createProfile gives the next id.
LEMMA ProfilesMore ==
  ASSUME NEW n \in Nat, NEW list, Profiles(list, n), NEW id \in Nat, n < id
  PROVE  Profiles(Append(list, id), id) /\ Lists(Append(list, id), id)
<1> DEFINE more == Append(list, id)
<1>1. list \in Seq(Nat) /\ DOMAIN list = 1..Len(list) /\ Len(list) \in Nat
  BY LenProperties DEF Profiles
<1>2. /\ more \in Seq(Nat) /\ Len(more) = Len(list) + 1
      /\ \A i \in 1..Len(list) : more[i] = list[i]
      /\ more[Len(list) + 1] = id
  BY <1>1, AppendProperties
<1>3. DOMAIN more = 1..Len(list) + 1
  BY <1>2, LenProperties
<1> HIDE DEF more
<1>4. \A i \in 1..Len(list) : list[i] \in Nat /\ list[i] <= n
  BY <1>1, ElementOfSeq DEF Profiles
<1>5. \A i \in DOMAIN more : more[i] <= id
  <2> SUFFICES ASSUME NEW i \in DOMAIN more PROVE more[i] <= id
    OBVIOUS
  <2>1. CASE i \in 1..Len(list)
    <3>1. more[i] \in Nat /\ more[i] <= n
      BY <1>2, <1>4, <2>1
    <3> QED BY <3>1
  <2>2. i \in 1..Len(list) \/ i = Len(list) + 1
    BY <1>1, <1>3
  <2> QED BY <1>2, <2>1, <2>2
<1>6. \A i, j \in DOMAIN more : more[i] = more[j] => i = j
  <2> SUFFICES ASSUME NEW i \in DOMAIN more, NEW j \in DOMAIN more, more[i] = more[j] PROVE i = j
    OBVIOUS
  <2>1. CASE i \in 1..Len(list) /\ j \in 1..Len(list)
    BY <1>1, <1>2, <2>1 DEF Profiles
  <2>2. i \in 1..Len(list) \/ i = Len(list) + 1
    BY <1>1, <1>3
  <2>3. j \in 1..Len(list) \/ j = Len(list) + 1
    BY <1>1, <1>3
  <2> QED BY <1>1, <1>2, <1>4, <2>1, <2>2, <2>3
<1>7. Len(list) + 1 \in DOMAIN more
  BY <1>1, <1>3
<1>8. Profiles(more, id)
  BY <1>2, <1>5, <1>6 DEF Profiles
<1> QED BY <1>2, <1>7, <1>8 DEF Lists, more

LEMMA TargetIs ==
  ASSUME NEW list, NEW p, Lists(list, p)
  PROVE  Target(list, p) \in DOMAIN list /\ list[Target(list, p)] = p
BY DEF Lists, Target

\* What holds goes on to hold after further edits.
LEMMA ProfilesOn ==
  ASSUME NEW n \in Nat, NEW m \in Nat, n <= m
  PROVE  /\ \A b : Holds(b, n) => Holds(b, m)
         /\ \A f : FileHolds(f, n) => FileHolds(f, m)
<1>1. ASSUME NEW list, Profiles(list, n) PROVE Profiles(list, m)
  <2>1. \A i \in DOMAIN list : list[i] \in Nat /\ list[i] <= n
    BY <1>1, ElementOfSeq, LenProperties DEF Profiles
  <2>2. \A i \in DOMAIN list : list[i] <= m
    BY <2>1
  <2> QED BY <1>1, <2>2 DEF Profiles
<1> QED BY <1>1 DEF Holds, FileHolds

LEMMA ProfilesStart == ProfilesInit => ProfilesInv
<1> SUFFICES ASSUME ProfilesInit PROVE ProfilesInv
  OBVIOUS
<1>1. Profiles(<<>>, 0)
  BY DEF Profiles
<1>2. Holds(Off, 0)
  BY <1>1 DEF Holds, Off, Process, Steps, DefaultProfile
<1>3. FileHolds(Empty, 0)
  BY <1>1 DEF FileHolds, Empty, DefaultProfile
<1> QED BY <1>2, <1>3 DEF ProfilesInit, ProfilesInv

\* A step of one process, after which it and the file hold what they must.
LEMMA ProcessSteps ==
  ASSUME ProfilesInv, edits' = edits \/ edits' = edits + 1, marksFile' \in SUBSET Marks,
         NEW w \in Browsers, NEW b, Put(w, b), Holds(b, edits'), FileHolds(profilesFile', edits')
  PROVE  ProfilesInv'
<1>1. edits \in Nat /\ edits' \in Nat /\ edits <= edits'
  BY DEF ProfilesInv
<1>2. browser' = [browser EXCEPT ![w] = b] /\ DOMAIN browser = Browsers
  BY DEF Put, ProfilesInv
<1>3. DOMAIN browser' = Browsers
  BY <1>2
<1>4. ASSUME NEW v \in Browsers PROVE Holds(browser'[v], edits')
  <2>1. Holds(browser[v], edits')
    BY <1>1, ProfilesOn DEF ProfilesInv
  <2>2. browser'[v] = IF v = w THEN b ELSE browser[v]
    BY <1>2
  <2> QED BY <2>1, <2>2
<1> QED BY <1>1, <1>3, <1>4 DEF ProfilesInv

\* A process starts on what the file lists, or on the default profile.
LEMMA StartSteps ==
  ASSUME ProfilesInv, NEW w \in Browsers, StartBrowser(w)
  PROVE  ProfilesInv'
<1> DEFINE list == IF profilesFile.list = <<>> THEN <<DefaultProfile>> ELSE profilesFile.list
           active == IF Lists(list, profilesFile.active) THEN profilesFile.active ELSE list[1]
           marks == IF marksFile = {} THEN DefaultMarks ELSE marksFile
           b == [pc |-> "on", list |-> list, active |-> active, dead |-> DefaultProfile, marks |-> marks]
           f == IF profilesFile.list = <<>> THEN [list |-> list, active |-> active] ELSE profilesFile
<1>1. /\ Put(w, b) /\ profilesFile' = f /\ edits' = edits /\ marksFile' = marksFile
      /\ edits \in Nat /\ FileHolds(profilesFile, edits)
  BY DEF StartBrowser, ProfilesInv
<1>2. Profiles(list, edits) /\ list # <<>>
  <2>1. Profiles(<<0>>, edits)
    BY <1>1 DEF Profiles
  <2>2. <<0>> # <<>>
    OBVIOUS
  <2> QED BY <1>1, <2>1, <2>2 DEF FileHolds, DefaultProfile
<1> HIDE DEF list
<1>3. 1 \in DOMAIN list /\ list \in Seq(Nat)
  BY <1>2, LenProperties, EmptySeq DEF Profiles
<1>4. Lists(list, active) /\ active \in Nat
  BY <1>1, <1>3, ElementOfSeq, LenProperties DEF Lists, FileHolds
<1> HIDE DEF active
<1>5. marks \in SUBSET Marks
  BY DEF ProfilesInv, DefaultMarks, Marks
<1> HIDE DEF marks
<1>6. Holds(b, edits)
  BY <1>2, <1>3, <1>4, <1>5 DEF Holds, Process, Steps, DefaultProfile
<1>7. FileHolds(f, edits)
  BY <1>1, <1>2, <1>3, <1>4 DEF FileHolds
<1> HIDE DEF b, f
<1> QED BY <1>1, <1>6, <1>7, ProcessSteps DEF ProfilesInv

\* What the process w is, and that it lists a profile means it is a number.
LEMMA ProcessIs ==
  ASSUME ProfilesInv, NEW w \in Browsers
  PROVE  /\ browser[w] \in Process /\ Profiles(browser[w].list, edits) /\ Holds(browser[w], edits)
         /\ edits \in Nat /\ marksFile \in SUBSET Marks /\ FileHolds(profilesFile, edits)
         /\ \A p : Lists(browser[w].list, p) => p \in Nat
<1>1. browser[w] \in Process /\ Profiles(browser[w].list, edits) /\ Holds(browser[w], edits)
  BY DEF ProfilesInv, Holds
<1>2. ASSUME NEW p, Lists(browser[w].list, p) PROVE p \in Nat
  <2>1. PICK i \in DOMAIN browser[w].list : browser[w].list[i] = p
    BY <1>2 DEF Lists
  <2>2. browser[w].list \in Seq(Nat)
    BY <1>1 DEF Profiles
  <2> QED BY <2>1, <2>2, ElementOfSeq, LenProperties
<1> QED BY <1>1, <1>2 DEF ProfilesInv

\* Another profile becomes active, and is saved.
LEMMA SwitchHolds ==
  ASSUME NEW n, NEW b, Holds(b, n), NEW p \in Nat, Lists(b.list, p),
         NEW pc \in Steps \ {"off"}, NEW dead \in Nat,
         pc = "delete" => Lists(b.list, dead) /\ dead # p
  PROVE  /\ Holds([b EXCEPT !.active = p, !.pc = pc, !.dead = dead], n)
         /\ FileHolds([list |-> b.list, active |-> p], n)
<1> DEFINE c == [b EXCEPT !.active = p, !.pc = pc, !.dead = dead]
<1>1. b \in Process /\ Profiles(b.list, n)
  BY DEF Holds
<1>2. /\ c \in Process /\ c.list = b.list /\ c.active = p /\ c.pc = pc /\ c.dead = dead
  BY <1>1 DEF Process, Steps
<1>3. Holds(c, n)
  BY <1>1, <1>2 DEF Holds
<1>4. b.list \in Seq(Nat)
  BY <1>1 DEF Process
<1>5. FileHolds([list |-> b.list, active |-> p], n)
  BY <1>1, <1>4 DEF FileHolds
<1> QED BY <1>3, <1>5

LEMMA SwitchSteps ==
  ASSUME ProfilesInv, NEW w \in Browsers, NEW p, SwitchProfile(w, p)
  PROVE  ProfilesInv'
<1> DEFINE old == browser[w]
           b == [old EXCEPT !.active = p, !.pc = old.pc, !.dead = old.dead]
<1>1. /\ old \in Process /\ Holds(old, edits) /\ edits \in Nat /\ marksFile \in SUBSET Marks
      /\ old.pc = "on" /\ Lists(old.list, p) /\ p \in Nat
      /\ edits' = edits + 1 /\ marksFile' = marksFile
  BY ProcessIs DEF SwitchProfile, Edits
<1>2. SetActive(old, p) = b /\ b.list = old.list /\ b.active = p
  BY <1>1 DEF SetActive, Process
<1>3. Put(w, b) /\ profilesFile' = [list |-> old.list, active |-> p]
  BY <1>2 DEF SwitchProfile, Save
<1>4. Holds(b, edits) /\ FileHolds(profilesFile', edits)
  <2>1. old.pc \in Steps \ {"off"} /\ old.dead \in Nat /\ old.pc # "delete"
    BY <1>1 DEF Process
  <2> QED BY <1>1, <1>3, <2>1, SwitchHolds DEF Steps
<1> HIDE DEF b
<1>5. Holds(b, edits') /\ FileHolds(profilesFile', edits')
  BY <1>1, <1>4, ProfilesOn
<1> QED BY <1>1, <1>3, <1>5, ProcessSteps

\* A new profile is listed and becomes active.
LEMMA CreateSteps ==
  ASSUME ProfilesInv, NEW w \in Browsers, CreateProfile(w)
  PROVE  ProfilesInv'
<1> DEFINE old == browser[w]
           more == Append(old.list, edits')
           b == [old EXCEPT !.list = more, !.active = edits']
<1>1. /\ old \in Process /\ Profiles(old.list, edits) /\ edits \in Nat /\ marksFile \in SUBSET Marks
      /\ old.pc = "on" /\ edits' = edits + 1 /\ marksFile' = marksFile
  BY ProcessIs DEF CreateProfile, Edits
<1>2. Profiles(more, edits') /\ Lists(more, edits')
  <2>1. edits' \in Nat /\ edits < edits'
    BY <1>1
  <2> QED BY <1>1, <2>1, ProfilesMore
<1> HIDE DEF more
<1>3. SetActive([old EXCEPT !.list = more], edits') = b /\ b.list = more /\ b.active = edits'
  BY <1>1, <1>2 DEF SetActive, Process
<1>4. Put(w, b) /\ profilesFile' = [list |-> more, active |-> edits']
  <2>1. [old EXCEPT !.list = Append(@, edits')] = [old EXCEPT !.list = more]
    BY DEF more
  <2> QED BY <1>3, <2>1 DEF CreateProfile, Save
<1>5. more \in Seq(Nat) /\ edits' \in Nat
  BY <1>1, <1>2 DEF Profiles
<1>6. b \in Process /\ b.pc = "on"
  BY <1>1, <1>5 DEF Process
<1>7. Holds(b, edits')
  BY <1>2, <1>3, <1>6 DEF Holds
<1>8. FileHolds(profilesFile', edits')
  BY <1>2, <1>4, <1>5 DEF FileHolds
<1> HIDE DEF b
<1> QED BY <1>1, <1>4, <1>7, <1>8, ProcessSteps

\* deleteProfile, up to the moment the profile is taken from the list: another is active.
LEMMA DeleteBeginsSteps ==
  ASSUME ProfilesInv, NEW w \in Browsers, DeleteBegins(w)
  PROVE  ProfilesInv'
<1> DEFINE old == browser[w]
           at == Target(old.list, old.active)
           next == IF at = 1 THEN 2 ELSE 1
           p == old.list[next]
           b == [old EXCEPT !.active = p, !.pc = "delete", !.dead = old.active]
<1>1. /\ old \in Process /\ Holds(old, edits) /\ Profiles(old.list, edits)
      /\ edits \in Nat /\ marksFile \in SUBSET Marks
      /\ old.pc = "on" /\ Len(old.list) > 1 /\ edits' = edits + 1 /\ marksFile' = marksFile
  BY ProcessIs DEF DeleteBegins, Edits
<1>2. old.list \in Seq(Nat) /\ DOMAIN old.list = 1..Len(old.list) /\ Len(old.list) \in Nat
  BY <1>1, LenProperties DEF Profiles
<1>3. Lists(old.list, old.active) /\ old.active \in Nat
  BY <1>1 DEF Holds, Process
<1>4. at \in DOMAIN old.list /\ old.list[at] = old.active
  BY <1>3, TargetIs
<1> HIDE DEF at
<1>5. next \in DOMAIN old.list /\ next # at
  BY <1>1, <1>2
<1> HIDE DEF next
<1>6. p \in Nat /\ Lists(old.list, p) /\ p # old.active
  BY <1>1, <1>2, <1>4, <1>5, ElementOfSeq DEF Profiles, Lists
<1>7. /\ SetActive(old, p) = [old EXCEPT !.active = p]
      /\ [SetActive(old, p) EXCEPT !.pc = "delete", !.dead = old.active] = b
      /\ SetActive(old, p).list = old.list /\ SetActive(old, p).active = p
  BY <1>1, <1>6 DEF SetActive, Process
<1>8. Put(w, b) /\ profilesFile' = [list |-> old.list, active |-> p]
  BY <1>7 DEF DeleteBegins, Save, next, at
<1>9. Holds(b, edits) /\ FileHolds(profilesFile', edits)
  <2>1. "delete" \in Steps \ {"off"}
    BY DEF Steps
  <2> HIDE DEF p
  <2> QED BY <1>1, <1>3, <1>6, <1>8, <2>1, SwitchHolds
<1> HIDE DEF b
<1>10. Holds(b, edits') /\ FileHolds(profilesFile', edits')
  BY <1>1, <1>9, ProfilesOn
<1> QED BY <1>1, <1>8, <1>10, ProcessSteps

\* It is taken from the list, which holds the active one on.
LEMMA DeleteDirectorySteps ==
  ASSUME ProfilesInv, NEW w \in Browsers, DeleteDirectory(w)
  PROVE  ProfilesInv'
<1> DEFINE old == browser[w]
           at == Target(old.list, old.dead)
           less == RemoveAt(old.list, at)
           b == [old EXCEPT !.pc = "unlist", !.list = less]
<1>1. /\ old \in Process /\ Holds(old, edits) /\ Profiles(old.list, edits)
      /\ edits \in Nat /\ marksFile \in SUBSET Marks /\ FileHolds(profilesFile, edits)
      /\ old.pc = "delete"
      /\ edits' = edits /\ marksFile' = marksFile /\ profilesFile' = profilesFile
  BY ProcessIs DEF DeleteDirectory
<1>2. Lists(old.list, old.active) /\ Lists(old.list, old.dead) /\ old.dead # old.active
  BY <1>1 DEF Holds
<1>3. Put(w, b)
  BY DEF DeleteDirectory
<1>4. at \in DOMAIN old.list /\ old.list[at] = old.dead
  BY <1>2, TargetIs
<1> HIDE DEF at
<1>5. Profiles(less, edits) /\ Lists(less, old.active)
  BY <1>1, <1>2, <1>4, ProfilesLess
<1> HIDE DEF less
<1>6. less \in Seq(Nat)
  BY <1>5 DEF Profiles
<1>7. b \in Process /\ b.pc = "unlist" /\ b.list = less /\ b.active = old.active
  BY <1>1, <1>6 DEF Process, Steps
<1>8. Holds(b, edits)
  BY <1>5, <1>7 DEF Holds
<1> HIDE DEF b
<1> QED BY <1>1, <1>3, <1>8, ProcessSteps

\* The list is saved.
LEMMA DeleteEndsSteps ==
  ASSUME ProfilesInv, NEW w \in Browsers, DeleteEnds(w)
  PROVE  ProfilesInv'
<1> DEFINE old == browser[w]
           b == [old EXCEPT !.active = old.active, !.pc = "on", !.dead = DefaultProfile]
<1>1. /\ old \in Process /\ Holds(old, edits)
      /\ edits \in Nat /\ marksFile \in SUBSET Marks
      /\ old.pc = "unlist" /\ edits' = edits /\ marksFile' = marksFile
      /\ profilesFile' = [list |-> old.list, active |-> old.active]
  BY ProcessIs DEF DeleteEnds, Save
<1>2. Lists(old.list, old.active) /\ old.active \in Nat
  BY <1>1 DEF Holds, Process
<1>3. Put(w, b)
  <2>1. [old EXCEPT !.pc = "on", !.dead = DefaultProfile] = b
    BY <1>1 DEF Process
  <2> QED BY <2>1 DEF DeleteEnds
<1>4. Holds(b, edits) /\ FileHolds(profilesFile', edits)
  <2>1. DefaultProfile \in Nat /\ "on" \in Steps \ {"off"}
    BY DEF DefaultProfile, Steps
  <2> QED BY <1>1, <1>2, <2>1, SwitchHolds
<1> HIDE DEF b
<1> QED BY <1>1, <1>3, <1>4, ProcessSteps

\* Bookmarks, and the end of a process.
LEMMA OtherProfileSteps ==
  ASSUME ProfilesInv, NEW w \in Browsers,
         Dies(w) \/ \E site \in Sites : BookmarkClicked(w, site)
  PROVE  ProfilesInv'
<1>1. /\ browser[w] \in Process /\ Holds(browser[w], edits)
      /\ edits \in Nat /\ marksFile \in SUBSET Marks /\ FileHolds(profilesFile, edits)
  BY ProcessIs
<1>2. CASE Dies(w)
  <2>1. Profiles(<<>>, edits)
    BY DEF Profiles
  <2>2. Holds(Off, edits) /\ FileHolds(Empty, edits)
    BY <2>1 DEF Holds, Off, Process, Steps, FileHolds, Empty, DefaultProfile
  <2>3. Put(w, Off) /\ edits' = edits /\ marksFile' \in {marksFile, {}}
        /\ profilesFile' \in {profilesFile, Empty}
    BY <1>2 DEF Dies
  <2>4. FileHolds(profilesFile', edits') /\ marksFile' \in SUBSET Marks /\ Holds(Off, edits')
    BY <1>1, <2>2, <2>3
  <2> QED BY <2>3, <2>4, ProcessSteps
<1>3. ASSUME NEW site \in Sites, BookmarkClicked(w, site) PROVE ProfilesInv'
  <2> DEFINE marks == IF site \in browser[w].marks THEN browser[w].marks \ {site}
                      ELSE browser[w].marks \cup {site}
             b == [browser[w] EXCEPT !.marks = marks]
  <2>1. /\ Put(w, b) /\ marksFile' = marks /\ edits' = edits + 1 /\ profilesFile' = profilesFile
    BY <1>3 DEF BookmarkClicked, Edits
  <2>2. marks \in SUBSET Marks
    BY <1>1 DEF Process, Marks
  <2> HIDE DEF marks
  <2>3. /\ b \in Process /\ b.pc = browser[w].pc /\ b.list = browser[w].list
        /\ b.active = browser[w].active /\ b.dead = browser[w].dead
    BY <1>1, <2>2 DEF Process
  <2> HIDE DEF b
  <2>4. Holds(b, edits)
    BY <1>1, <2>3 DEF Holds
  <2>5. Holds(b, edits') /\ FileHolds(profilesFile', edits')
    BY <1>1, <2>1, <2>4, ProfilesOn
  <2> QED BY <2>1, <2>2, <2>5, ProcessSteps
<1> QED BY <1>2, <1>3

\* For every number of browsers, profiles and edits, and whatever process ends at whatever
\* moment: the active profile is listed, in every process and on the disk.
THEOREM ActiveKept == ProfilesSpec => []ActiveIsListed
<1>1. ProfilesInv /\ [ProfilesNext]_profileVars => ProfilesInv'
  <2> SUFFICES ASSUME ProfilesInv, [ProfilesNext]_profileVars PROVE ProfilesInv'
    OBVIOUS
  <2>1. CASE UNCHANGED profileVars
    BY <2>1 DEF profileVars, ProfilesInv
  <2> QED BY <2>1, StartSteps, CreateSteps, SwitchSteps, DeleteBeginsSteps, DeleteDirectorySteps,
             DeleteEndsSteps, OtherProfileSteps DEF ProfilesNext
<1>2. ProfilesInv => ActiveIsListed
  BY DEF ProfilesInv, Holds, FileHolds, ActiveIsListed
<1> QED BY <1>1, <1>2, ProfilesStart, PTL DEF ProfilesSpec

-----------------------------------------------------------------------------
\* The browser's window.  Induction over a set of numbers.
LEMMA EveryNat ==
  ASSUME NEW P, 0 \in P, \A k \in Nat : k \in P => k + 1 \in P
  PROVE  Nat \subseteq P
<1> DEFINE T == Nat \ P
<1> SUFFICES ASSUME T # {} PROVE FALSE
  OBVIOUS
<1>1. PICK x \in T : \A y \in T : ~(<<y, x>> \in OpToRel(<, Nat))
  BY NatLessThanWellFounded, WFMin, Zenon
<1>2. \A y \in T : ~(y < x)
  BY <1>1 DEF OpToRel
<1>3. x - 1 \in Nat /\ x - 1 < x
  OBVIOUS
<1> QED BY <1>2, <1>3

Fields == {"bar", "selected", "stack", "shown", "address", "chrome"}

IsSeq(s) == \E S : s \in Seq(S)
Views(s) == \E S : s \in Seq(S) /\ \A v \in S : "url" \in DOMAIN v

\* A window in the middle of a handler: the page that is shown is one of the pages.
Stands(w) ==
  /\ DOMAIN w = Fields /\ IsSeq(w.bar) /\ Views(w.stack) /\ w.shown \in DOMAIN w.stack

\* Its chrome is hidden at home only.
AtHome(w) ==
  w.chrome = "hidden" => Len(w.bar) = 1 /\ Len(w.stack) = 1 /\ IsHome(w.stack[w.shown].url)

\* A window between two handlers.
Rests(w) == Stands(w) /\ Len(w.bar) = Len(w.stack) /\ AtHome(w)

TabsInv == Rests(Window)

LEMMA ViewsAre ==
  ASSUME NEW s, IsSeq(s) \/ Views(s)
  PROVE  IsSeq(s) /\ DOMAIN s = 1..Len(s) /\ Len(s) \in Nat
BY LenProperties DEF IsSeq, Views

\* updateChromeVisibility, and what ends with it.
LEMMA ChromeRests ==
  ASSUME NEW w, Stands(w)
  PROVE  /\ Stands(Chrome(w)) /\ Chrome(w).bar = w.bar /\ Chrome(w).stack = w.stack
         /\ Chrome(w).shown = w.shown
         /\ Len(w.bar) = Len(w.stack) => Rests(Chrome(w))
<1> DEFINE c == Chrome(w)
<1>1. /\ DOMAIN c = Fields /\ c.bar = w.bar /\ c.stack = w.stack /\ c.shown = w.shown
      /\ c.chrome = IF IsHome(w.stack[w.shown].url) /\ Len(w.bar) <= 1 THEN "hidden" ELSE "shown"
  BY DEF Chrome, Stands, Fields
<1> HIDE DEF c
<1>2. Stands(c)
  BY <1>1 DEF Stands
<1>3. ASSUME Len(w.bar) = Len(w.stack) PROVE AtHome(c)
  <2>1. Len(w.stack) \in Nat /\ w.shown \in 1..Len(w.stack)
    BY ViewsAre DEF Stands
  <2>2. c.chrome = "hidden" => IsHome(w.stack[w.shown].url) /\ Len(w.bar) <= 1
    BY <1>1
  <2>3. Len(w.bar) <= 1 => Len(w.bar) = 1
    <3> DEFINE n == Len(w.stack)
    <3>1. n \in Nat /\ w.shown \in 1..n
      BY <2>1
    <3> HIDE DEF n
    <3>2. n <= 1 => n = 1
      BY <3>1
    <3> QED BY <1>3, <3>2 DEF n
  <2> QED BY <1>1, <1>3, <2>2, <2>3 DEF AtHome
<1> QED BY <1>1, <1>2, <1>3 DEF Rests, c

LEMMA NamedRests ==
  ASSUME NEW w, Stands(w), NEW url
  PROVE  /\ Stands(Named(w, url)) /\ Named(w, url).bar = w.bar /\ Named(w, url).stack = w.stack
         /\ Named(w, url).shown = w.shown
         /\ Len(w.bar) = Len(w.stack) => Rests(Named(w, url))
<1> DEFINE c == [w EXCEPT !.address = IF IsHome(url) /\ url # SettingsPage THEN Home ELSE url]
<1>1. DOMAIN c = Fields /\ c.bar = w.bar /\ c.stack = w.stack /\ c.shown = w.shown
  BY DEF Stands, Fields
<1>2. Named(w, url) = Chrome(c)
  BY DEF Named
<1> HIDE DEF c
<1>3. Stands(c)
  BY <1>1 DEF Stands
<1> QED BY <1>1, <1>2, <1>3, ChromeRests

\* A signal currentChanged shows a page that is there, or none other.
LEMMA TabChangedRests ==
  ASSUME NEW w, Stands(w), NEW i
  PROVE  LET t == TabChanged(w, i)
         IN /\ Stands(t) /\ t.bar = w.bar /\ t.stack = w.stack
            /\ Len(w.bar) = Len(w.stack) => Rests(t)
<1> DEFINE there == [w EXCEPT !.selected = i]
           moved == [there EXCEPT !.shown = i]
<1>1. /\ DOMAIN there = Fields /\ there.bar = w.bar /\ there.stack = w.stack
      /\ there.shown = w.shown
  BY DEF Stands, Fields
<1>2. TabChanged(w, i) = IF i \in DOMAIN w.stack THEN Named(moved, Url(w, i)) ELSE Chrome(there)
  BY DEF TabChanged
<1> HIDE DEF there
<1>3. Stands(there)
  BY <1>1 DEF Stands
<1>4. /\ DOMAIN moved = Fields /\ moved.bar = w.bar /\ moved.stack = w.stack /\ moved.shown = i
  BY <1>1 DEF Fields
<1> HIDE DEF moved
<1>5. CASE i \in DOMAIN w.stack
  <2>1. Stands(moved)
    BY <1>3, <1>4, <1>5 DEF Stands
  <2> DEFINE t == Named(moved, Url(w, i))
  <2>2. /\ Stands(t) /\ t.bar = w.bar /\ t.stack = w.stack
        /\ Len(w.bar) = Len(w.stack) => Rests(t)
    <3>1. \A url : /\ Stands(Named(moved, url)) /\ Named(moved, url).bar = moved.bar
                    /\ Named(moved, url).stack = moved.stack
      BY <2>1, NamedRests
    <3>2. \A url : Len(moved.bar) = Len(moved.stack) => Rests(Named(moved, url))
      BY <2>1, NamedRests
    <3> QED BY <1>4, <3>1, <3>2
  <2> QED BY <1>2, <1>5, <2>2
<1>6. CASE i \notin DOMAIN w.stack
  BY <1>1, <1>2, <1>3, <1>6, ChromeRests
<1> QED BY <1>5, <1>6

LEMMA SelectRests ==
  ASSUME NEW w, Stands(w), NEW i
  PROVE  LET t == SelectIn(w, i)
         IN /\ Stands(t) /\ t.bar = w.bar /\ t.stack = w.stack
            /\ Rests(w) => Rests(t)
BY TabChangedRests DEF SelectIn, Rests

\* A tab that goes away leaves a window that stands.
LEMMA SeqLess ==
  ASSUME NEW s, IsSeq(s), NEW i \in DOMAIN s
  PROVE  /\ IsSeq(RemoveAt(s, i)) /\ Len(RemoveAt(s, i)) = Len(s) - 1
         /\ DOMAIN RemoveAt(s, i) = 1..Len(s) - 1
         /\ Views(s) => Views(RemoveAt(s, i))
<1>1. ASSUME NEW S, s \in Seq(S)
      PROVE  /\ RemoveAt(s, i) \in Seq(S) /\ Len(RemoveAt(s, i)) = Len(s) - 1
             /\ DOMAIN RemoveAt(s, i) = 1..Len(s) - 1
  BY <1>1, RemovedType
<1>2. IsSeq(RemoveAt(s, i)) /\ Len(RemoveAt(s, i)) = Len(s) - 1 /\ DOMAIN RemoveAt(s, i) = 1..Len(s) - 1
  BY <1>1 DEF IsSeq
<1>3. ASSUME Views(s) PROVE Views(RemoveAt(s, i))
  <2>1. PICK S : s \in Seq(S) /\ \A v \in S : "url" \in DOMAIN v
    BY <1>3 DEF Views
  <2> QED BY <1>1, <2>1 DEF Views
<1> QED BY <1>2, <1>3

LEMMA BarRemovesStands ==
  ASSUME NEW w, Stands(w), NEW i \in DOMAIN w.bar
  PROVE  LET t == BarRemoves(w, i)
         IN Stands(t) /\ Len(t.bar) = Len(w.bar) - 1 /\ t.stack = w.stack
<1> DEFINE left == [w EXCEPT !.bar = RemoveAt(@, i)]
<1>1. IsSeq(RemoveAt(w.bar, i)) /\ Len(RemoveAt(w.bar, i)) = Len(w.bar) - 1
  BY SeqLess DEF Stands
<1>2. /\ DOMAIN left = Fields /\ left.bar = RemoveAt(w.bar, i) /\ left.stack = w.stack
      /\ left.shown = w.shown
  BY DEF Stands, Fields
<1>3. \/ BarRemoves(w, i) = left
      \/ \E n : BarRemoves(w, i) = TabChanged(left, n)
  BY DEF BarRemoves
<1> HIDE DEF left
<1>4. Stands(left)
  BY <1>1, <1>2 DEF Stands
<1>5. \A n : /\ Stands(TabChanged(left, n)) /\ TabChanged(left, n).bar = left.bar
             /\ TabChanged(left, n).stack = left.stack
  BY <1>4, TabChangedRests
<1> QED BY <1>1, <1>2, <1>3, <1>4, <1>5

LEMMA StackRemovesStands ==
  ASSUME NEW w, Stands(w), NEW i \in DOMAIN w.stack, Len(w.stack) > 1
  PROVE  LET t == StackRemoves(w, i)
         IN Stands(t) /\ t.bar = w.bar /\ Len(t.stack) = Len(w.stack) - 1
<1> DEFINE left == RemoveAt(w.stack, i)
           shows == IF i < w.shown \/ (i = w.shown /\ i > Len(left)) THEN w.shown - 1 ELSE w.shown
           t == StackRemoves(w, i)
<1>1. /\ Views(left) /\ Len(left) = Len(w.stack) - 1 /\ DOMAIN left = 1..Len(w.stack) - 1
      /\ Len(w.stack) \in Nat /\ i \in 1..Len(w.stack) /\ w.shown \in 1..Len(w.stack)
  BY SeqLess, ViewsAre DEF Stands
<1>2. /\ DOMAIN t = Fields /\ t.bar = w.bar /\ t.stack = left /\ t.shown = shows
  BY DEF StackRemoves, Stands, Fields
<1> HIDE DEF left, t
<1>3. shows \in DOMAIN left
  BY <1>1
<1> HIDE DEF shows
<1> QED BY <1>1, <1>2, <1>3 DEF Stands, t

\* onTabCloseRequested, in whichever order the two widgets and the chrome hear of it.
LEMMA CloseRests ==
  ASSUME NEW w, Rests(w), NEW i
  PROVE  Rests(OnTabCloseRequested(w, i))
<1>1. CASE Len(w.bar) <= 1 \/ i \notin DOMAIN w.stack
  BY <1>1 DEF OnTabCloseRequested
<1>2. CASE ~(Len(w.bar) <= 1) /\ i \in DOMAIN w.stack
  <2> DEFINE b == BarRemoves(w, i)
             t == StackRemoves(b, i)
  <2>1. /\ Stands(w) /\ Len(w.bar) = Len(w.stack) /\ Len(w.bar) \in Nat /\ Len(w.bar) > 1
        /\ i \in DOMAIN w.bar
    BY <1>2, ViewsAre DEF Rests, Stands
  <2>2. Stands(b) /\ Len(b.bar) = Len(w.bar) - 1 /\ b.stack = w.stack
    BY <2>1, BarRemovesStands
  <2> HIDE DEF b
  <2>3. Stands(t) /\ t.bar = b.bar /\ Len(t.stack) = Len(w.stack) - 1
    BY <1>2, <2>1, <2>2, StackRemovesStands
  <2>4. OnTabCloseRequested(w, i) = Chrome(t)
    BY <1>2 DEF OnTabCloseRequested, b
  <2> HIDE DEF t
  <2> QED BY <2>1, <2>2, <2>3, <2>4, ChromeRests
<1> QED BY <1>1, <1>2

\* closeOtherTabs and closeTabsToRight.  The window after each position is the result of a
\* recursion that has a solution, and rests at every position.
Down(f, keep) ==
  [i \in 0..Len(bar) |->
     IF i = Len(bar) THEN Window
     ELSE IF i + 1 \in keep THEN f[i + 1] ELSE OnTabCloseRequested(f[i + 1], i + 1)]

LEMMA DownExists ==
  ASSUME NEW keep, Len(bar) \in Nat
  PROVE  \E f : f = Down(f, keep)
<1> DEFINE N == Len(bar)
           Rec(f, i) == IF i = N THEN Window
                        ELSE IF i + 1 \in keep THEN f[i + 1] ELSE OnTabCloseRequested(f[i + 1], i + 1)
           From(k) == {i \in 0..N : i >= N - k}
           Has(k) == \E f : f = [i \in From(k) |-> Rec(f, i)]
           P == {k \in Nat : Has(k)}
<1>1. 0 \in P
  <2> DEFINE f == [i \in From(0) |-> Window]
  <2>1. \A i \in From(0) : i = N
    OBVIOUS
  <2>2. [i \in From(0) |-> Rec(f, i)] = f
    BY <2>1
  <2> QED BY <2>2
<1>2. ASSUME NEW k \in Nat, k \in P PROVE k + 1 \in P
  <2>1. PICK f : f = [i \in From(k) |-> Rec(f, i)]
    BY <1>2
  <2> DEFINE g == [i \in From(k + 1) |-> IF i \in From(k) THEN f[i] ELSE Rec(f, i)]
  <2>2. g = [i \in From(k + 1) |-> g[i]]
    OBVIOUS
  <2>3. ASSUME NEW i \in From(k + 1) PROVE g[i] = Rec(f, i)
    BY <2>1
  <2>4. ASSUME NEW i \in From(k + 1), i # N PROVE g[i + 1] = f[i + 1]
    <3>1. i + 1 \in From(k) /\ i + 1 \in From(k + 1)
      BY <2>4
    <3> QED BY <3>1
  <2> HIDE DEF g
  <2>5. \A i \in From(k + 1) : g[i] = Rec(g, i)
    BY <2>3, <2>4
  <2>6. g = [i \in From(k + 1) |-> Rec(g, i)]
    <3> HIDE DEF Rec, From
    <3> QED BY <2>2, <2>5
  <2>7. Has(k + 1)
    BY <2>6
  <2> HIDE DEF Has
  <2> QED BY <2>7
<1>3. N \in P
  <2> HIDE DEF P
  <2> QED BY <1>1, <1>2, EveryNat
<1>4. From(N) = 0..N
  OBVIOUS
<1> HIDE DEF From
<1>5. PICK f : f = [i \in From(N) |-> Rec(f, i)]
  BY <1>3
<1>6. f = Down(f, keep)
  BY <1>4, <1>5 DEF Down
<1> QED BY <1>6

LEMMA DownRests ==
  ASSUME TabsInv, NEW keep, NEW f, f = Down(f, keep)
  PROVE  Rests(f[0])
<1> DEFINE N == Len(bar)
           P == {k \in Nat : k <= N => Rests(f[N - k])}
<1>1. N \in Nat
  <2>1. Window.bar = bar
    BY DEF Window
  <2> QED BY <2>1, ViewsAre DEF TabsInv, Rests, Stands
<1>2. \A i \in 0..N : f[i] = IF i = N THEN Window
                             ELSE IF i + 1 \in keep THEN f[i + 1]
                                  ELSE OnTabCloseRequested(f[i + 1], i + 1)
  BY DEF Down
<1>3. 0 \in P
  <2>1. f[N] = Window
    BY <1>1, <1>2
  <2> QED BY <1>1, <2>1 DEF TabsInv
<1>4. ASSUME NEW k \in Nat, k \in P PROVE k + 1 \in P
  <2> SUFFICES ASSUME k + 1 <= N PROVE Rests(f[N - (k + 1)])
    OBVIOUS
  <2> DEFINE i == N - (k + 1)
  <2>1. i \in 0..N /\ i # N /\ i + 1 = N - k
    BY <1>1
  <2>2. Rests(f[i + 1])
    <3>1. k <= N
      BY <1>1
    <3>2. Rests(f[N - k])
      BY <1>4, <3>1
    <3> HIDE DEF i
    <3> QED BY <2>1, <3>2
  <2> HIDE DEF i
  <2>3. f[i] = f[i + 1] \/ f[i] = OnTabCloseRequested(f[i + 1], i + 1)
    BY <1>2, <2>1
  <2>4. Rests(f[i])
    BY <2>2, <2>3, CloseRests
  <2> QED BY <2>4 DEF i
<1>5. N \in P
  <2> HIDE DEF P
  <2> QED BY <1>1, <1>3, <1>4, EveryNat
<1> QED BY <1>1, <1>5

-----------------------------------------------------------------------------
\* The handlers.

LEMMA WindowIs ==
  /\ DOMAIN Window = Fields /\ Window.bar = bar /\ Window.selected = selected
  /\ Window.stack = stack /\ Window.shown = shown /\ Window.chrome = chrome
BY DEF Window, Fields

LEMMA BecomesRests ==
  ASSUME NEW w, Rests(w), Becomes(w)
  PROVE  TabsInv'
<1>1. /\ DOMAIN Window' = Fields /\ Window'.bar = w.bar /\ Window'.stack = w.stack
      /\ Window'.shown = w.shown /\ Window'.chrome = w.chrome
  BY DEF Window, Becomes, Fields
<1> QED BY <1>1 DEF TabsInv, Rests, Stands, AtHome

\* Only the pages change, and none its address.
LEMMA PagesRest ==
  ASSUME TabsInv, Views(stack'), Len(stack') = Len(stack), DOMAIN stack' = DOMAIN stack,
         \A i \in DOMAIN stack : stack'[i].url = stack[i].url,
         UNCHANGED <<bar, shown>>, chrome' = "hidden" => chrome = "hidden"
  PROVE  TabsInv'
<1>1. /\ DOMAIN Window' = Fields /\ Window'.bar = bar' /\ Window'.stack = stack'
      /\ Window'.shown = shown' /\ Window'.chrome = chrome'
  BY DEF Window, Fields
<1> QED BY <1>1, WindowIs DEF TabsInv, Rests, Stands, AtHome

\* A page of the stack is given a new record.
LEMMA ViewsExcept ==
  ASSUME NEW s, Views(s), NEW i \in DOMAIN s, NEW v, "url" \in DOMAIN v
  PROVE  LET t == [s EXCEPT ![i] = v]
         IN /\ Views(t) /\ Len(t) = Len(s) /\ DOMAIN t = DOMAIN s
            /\ \A j \in DOMAIN s : t[j] = IF j = i THEN v ELSE s[j]
<1>1. PICK S : s \in Seq(S) /\ \A x \in S : "url" \in DOMAIN x
  BY DEF Views
<1> DEFINE T == S \cup {v}
           t == [s EXCEPT ![i] = v]
<1>2. s \in Seq(T) /\ v \in T /\ i \in 1..Len(s) /\ \A x \in T : "url" \in DOMAIN x
  BY <1>1, SeqMonotonic, LenProperties
<1> HIDE DEF T
<1>3. t \in Seq(T) /\ Len(t) = Len(s)
  BY <1>2, ExceptSeq
<1>4. Views(t)
  BY <1>2, <1>3 DEF Views
<1> QED BY <1>3, <1>4

LEMMA ViewHas ==
  ASSUME NEW s, Views(s), NEW i \in DOMAIN s
  PROVE  "url" \in DOMAIN s[i]
BY ElementOfSeq, LenProperties DEF Views

LEMMA NewTabSteps ==
  ASSUME TabsInv, NEW url, NewTab(url)
  PROVE  TabsInv'
<1> DEFINE v == View(FreeName, url)
           w == [Window EXCEPT !.stack = Append(@, v), !.bar = Append(@, FreeName)]
           there == SelectIn(w, Len(w.bar))
           last == [there EXCEPT !.shown = Len(w.stack)]
<1>1. /\ DOMAIN w = Fields /\ w.stack = Append(stack, v) /\ w.bar = Append(bar, FreeName)
      /\ w.shown = shown
  BY WindowIs DEF Fields
<1>2. IsSeq(bar) /\ Views(stack) /\ shown \in DOMAIN stack /\ Len(bar) = Len(stack)
  BY WindowIs DEF TabsInv, Rests, Stands
<1>3. /\ Views(w.stack) /\ Len(w.stack) = Len(stack) + 1
      /\ DOMAIN w.stack = 1..Len(stack) + 1 /\ Len(stack) \in Nat
  <2>1. PICK S : stack \in Seq(S) /\ \A x \in S : "url" \in DOMAIN x
    BY <1>2 DEF Views
  <2> DEFINE T == S \cup {v}
  <2>2. "url" \in DOMAIN v
    BY DEF View
  <2>3. stack \in Seq(T) /\ v \in T /\ \A x \in T : "url" \in DOMAIN x
    BY <2>1, <2>2, SeqMonotonic
  <2> HIDE DEF T, v
  <2>4. /\ Append(stack, v) \in Seq(T) /\ Len(Append(stack, v)) = Len(stack) + 1
        /\ Len(stack) \in Nat
    BY <2>3, AppendProperties, LenProperties
  <2>5. DOMAIN Append(stack, v) = 1..Len(stack) + 1
    BY <2>4, LenProperties
  <2> QED BY <1>1, <2>3, <2>4, <2>5 DEF Views
<1>4. IsSeq(w.bar) /\ Len(w.bar) = Len(bar) + 1
  <2>1. PICK S : bar \in Seq(S)
    BY <1>2 DEF IsSeq
  <2> DEFINE T == S \cup {FreeName}
  <2>2. bar \in Seq(T) /\ FreeName \in T
    BY <2>1, SeqMonotonic
  <2> HIDE DEF T
  <2>3. Append(bar, FreeName) \in Seq(T) /\ Len(Append(bar, FreeName)) = Len(bar) + 1
    BY <2>2, AppendProperties
  <2> QED BY <1>1, <2>3 DEF IsSeq
<1> HIDE DEF v, w
<1>5. Stands(w)
  <2>1. w.shown \in DOMAIN w.stack
    BY <1>1, <1>2, <1>3, ViewsAre
  <2> QED BY <1>1, <1>3, <1>4, <2>1 DEF Stands
<1>6. Stands(there) /\ there.bar = w.bar /\ there.stack = w.stack
  BY <1>5, SelectRests
<1> HIDE DEF there
<1>7. /\ DOMAIN last = Fields /\ last.bar = w.bar /\ last.stack = w.stack
      /\ last.shown = Len(w.stack)
  BY <1>6 DEF Stands, Fields
<1>8. Becomes(Named(last, url))
  BY DEF NewTab, last, there, w, v
<1> HIDE DEF last
<1>9. Stands(last) /\ Len(last.bar) = Len(last.stack)
  BY <1>2, <1>3, <1>4, <1>6, <1>7 DEF Stands
<1> QED BY <1>8, <1>9, NamedRests, BecomesRests

LEMMA LoadUrlSteps ==
  ASSUME TabsInv, NEW url, LoadUrl(url)
  PROVE  TabsInv'
<1> DEFINE v == [stack[selected] EXCEPT !.next = url]
           pages == [stack EXCEPT ![selected] = v]
           w == [Window EXCEPT !.stack[selected].next = url, !.shown = selected]
<1>1. IsSeq(bar) /\ Views(stack) /\ Len(bar) = Len(stack) /\ selected \in DOMAIN stack
  BY WindowIs DEF TabsInv, Rests, Stands, LoadUrl
<1>2. "url" \in DOMAIN v
  BY <1>1, ViewHas
<1>3. DOMAIN w = Fields /\ w.stack = pages /\ w.bar = bar /\ w.shown = selected
  BY WindowIs DEF Fields
<1> HIDE DEF v
<1>4. Views(pages) /\ Len(pages) = Len(stack) /\ DOMAIN pages = DOMAIN stack
  BY <1>1, <1>2, ViewsExcept
<1> HIDE DEF pages
<1>5. Becomes(Named(w, url))
  BY DEF LoadUrl
<1> HIDE DEF w
<1>6. Stands(w) /\ Len(w.bar) = Len(w.stack)
  BY <1>1, <1>3, <1>4 DEF Stands
<1> QED BY <1>5, <1>6, NamedRests, BecomesRests

LEMMA SetCurrentIndexSteps ==
  ASSUME TabsInv, NEW i, SetCurrentIndex(i)
  PROVE  TabsInv'
BY SelectRests, BecomesRests DEF TabsInv, Rests, SetCurrentIndex

LEMMA CloseSteps ==
  ASSUME TabsInv, NEW i, Close(i)
  PROVE  TabsInv'
BY CloseRests, BecomesRests DEF TabsInv, Close

LEMMA CloseManySteps ==
  ASSUME TabsInv, NEW keep, CloseMany(keep)
  PROVE  TabsInv'
<1> DEFINE from == CHOOSE f : f = Down(f, keep)
<1>1. Len(bar) \in Nat
  BY WindowIs, ViewsAre DEF TabsInv, Rests, Stands
<1>2. from = Down(from, keep)
  BY <1>1, DownExists
<1>3. Becomes(from[0])
  BY DEF CloseMany, Down
<1> HIDE DEF from
<1>4. Rests(from[0])
  BY <1>2, DownRests
<1> QED BY <1>3, <1>4, BecomesRests

\* A drag changes the bar alone, and shows the page at the new position.
LEMMA DragTabSteps ==
  ASSUME TabsInv, NEW i, DragTab(i)
  PROVE  TabsInv'
<1> DEFINE moved == [bar EXCEPT ![i] = bar[i + 1], ![i + 1] = bar[i]]
           w == [Window EXCEPT !.bar[i] = bar[i + 1], !.bar[i + 1] = bar[i]]
<1>1. /\ IsSeq(bar) /\ Views(stack) /\ Len(bar) = Len(stack) /\ shown \in DOMAIN stack
      /\ i \in DOMAIN bar /\ i + 1 \in DOMAIN bar
  BY WindowIs DEF TabsInv, Rests, Stands, DragTab
<1>2. PICK S : bar \in Seq(S)
  BY <1>1 DEF IsSeq
<1>3. bar[i] \in S /\ bar[i + 1] \in S /\ i \in 1..Len(bar) /\ i + 1 \in 1..Len(bar)
  BY <1>1, <1>2, ElementOfSeq, LenProperties
<1>4. moved \in Seq(S) /\ Len(moved) = Len(bar)
  <2>1. [bar EXCEPT ![i] = bar[i + 1]] \in Seq(S) /\ Len([bar EXCEPT ![i] = bar[i + 1]]) = Len(bar)
    BY <1>2, <1>3, ExceptSeq
  <2> QED BY <1>2, <1>3, <2>1, ExceptSeq
<1>5. /\ DOMAIN w = Fields /\ w.bar = moved /\ w.stack = stack /\ w.shown = shown
      /\ w.chrome = chrome
  BY WindowIs DEF Fields
<1>6. Becomes(w) \/ \E n : Becomes(TabChanged(w, n))
  BY DEF DragTab
<1> HIDE DEF moved, w
<1>7. Stands(w) /\ Len(w.bar) = Len(w.stack)
  BY <1>1, <1>4, <1>5 DEF Stands, IsSeq
<1>8. Rests(w)
  BY <1>1, <1>4, <1>5, <1>7, WindowIs DEF TabsInv, Rests, AtHome
<1>9. \A n : Rests(TabChanged(w, n))
  BY <1>7, TabChangedRests
<1> QED BY <1>6, <1>8, <1>9, BecomesRests

LEMMA ChromeSteps ==
  ASSUME TabsInv, ToggleChrome \/ Hover \/ \E i : LoadProgress(i)
  PROVE  TabsInv'
<1>1. UNCHANGED <<bar, stack, shown>>
  BY DEF ToggleChrome, Hover, LoadProgress
<1>2. chrome' = "hidden" => (AtHome(Window) /\ chrome = "hidden") \/ chrome' = Chrome(Window).chrome
  BY WindowIs DEF ToggleChrome, Hover, LoadProgress, TabsInv, Rests
<1>3. Rests(Chrome(Window)) /\ Chrome(Window).bar = bar /\ Chrome(Window).stack = stack
      /\ Chrome(Window).shown = shown
  BY WindowIs, ChromeRests DEF TabsInv, Rests
<1>4. /\ DOMAIN Window' = Fields /\ Window'.bar = bar' /\ Window'.stack = stack'
      /\ Window'.shown = shown' /\ Window'.chrome = chrome'
  BY DEF Window, Fields
<1> QED BY <1>1, <1>2, <1>3, <1>4, WindowIs DEF TabsInv, Rests, Stands, AtHome

LEMMA ReloadOrStopSteps ==
  ASSUME TabsInv, ReloadOrStop
  PROVE  TabsInv'
<1> DEFINE to == IF loading THEN Done ELSE stack[shown].url
           v == [stack[shown] EXCEPT !.next = to]
<1>1. Views(stack) /\ shown \in DOMAIN stack
  BY WindowIs DEF TabsInv, Rests, Stands
<1>2. "url" \in DOMAIN v /\ v.url = stack[shown].url
  BY <1>1, ViewHas
<1>3. stack' = [stack EXCEPT ![shown] = v] /\ UNCHANGED <<bar, shown, chrome>>
  BY DEF ReloadOrStop
<1> HIDE DEF v
<1> QED BY <1>1, <1>2, <1>3, ViewsExcept, PagesRest

LEMMA LoadFinishedSteps ==
  ASSUME TabsInv, NEW i \in DOMAIN stack, NEW ok, LoadFinished(i, ok)
  PROVE  TabsInv'
<1> DEFINE v == [stack[i] EXCEPT !.next = Done]
<1>1. Views(stack)
  BY WindowIs DEF TabsInv, Rests, Stands
<1>2. "url" \in DOMAIN v /\ v.url = stack[i].url
  BY <1>1, ViewHas
<1>3. stack' \in {stack, [stack EXCEPT ![i] = v]} /\ UNCHANGED <<bar, shown, chrome>>
  BY DEF LoadFinished
<1> HIDE DEF v
<1>4. CASE stack' = stack
  BY <1>1, <1>3, <1>4, PagesRest
<1>5. CASE stack' = [stack EXCEPT ![i] = v]
  BY <1>1, <1>2, <1>3, <1>5, ViewsExcept, PagesRest
<1> QED BY <1>3, <1>4, <1>5

LEMMA ReloadAllTabsSteps ==
  ASSUME TabsInv, ReloadAllTabsForProfile
  PROVE  TabsInv'
<1> DEFINE v(i) == [stack[i] EXCEPT !.next = Url(Window, i), !.links = @ + 1]
           T == {v(i) : i \in DOMAIN stack}
           pages == [i \in DOMAIN stack |-> v(i)]
           w == [Window EXCEPT !.stack = pages]
           named == Url(Window, shown)
<1>1. /\ Views(stack) /\ DOMAIN stack = 1..Len(stack) /\ Len(stack) \in Nat
      /\ IsSeq(bar) /\ Len(bar) = Len(stack) /\ shown \in DOMAIN stack
  BY WindowIs, ViewsAre DEF TabsInv, Rests, Stands
<1>2. \A i \in DOMAIN stack : "url" \in DOMAIN v(i)
  BY <1>1, ViewHas
<1>3. Becomes(Named(w, named))
  BY DEF ReloadAllTabsForProfile
<1>4. DOMAIN w = Fields /\ w.stack = pages /\ w.bar = bar /\ w.shown = shown
  BY WindowIs DEF Fields
<1> HIDE DEF v, w, named
<1>5. \A i \in DOMAIN stack : pages[i] \in T
  OBVIOUS
<1>6. \A x \in T : "url" \in DOMAIN x
  BY <1>2
<1> HIDE DEF T
<1>7. pages \in Seq(T) /\ Len(pages) = Len(stack) /\ DOMAIN pages = DOMAIN stack
  <2>1. pages \in [1..Len(stack) -> T]
    BY <1>1, <1>5
  <2> QED BY <1>1, <2>1
<1> HIDE DEF pages
<1>8. Views(pages)
  BY <1>6, <1>7 DEF Views
<1>9. Stands(w) /\ Len(w.bar) = Len(w.stack)
  BY <1>1, <1>4, <1>7, <1>8 DEF Stands
<1>10. Rests(Named(w, named))
  <2>1. \A url : Rests(Named(w, url))
    BY <1>9, NamedRests
  <2> QED BY <2>1
<1> QED BY <1>3, <1>10, BecomesRests

\* A page that arrives in the background leaves the chrome as it is.
LEMMA CommitSteps ==
  ASSUME TabsInv, NEW i \in DOMAIN stack, Commit(i)
  PROVE  TabsInv'
<1> DEFINE next == stack[i].next
           v == [stack[i] EXCEPT !.url = next]
           pages == [stack EXCEPT ![i] = v]
           w == [Window EXCEPT !.stack[i].url = next]
<1>1. IsSeq(bar) /\ Views(stack) /\ Len(bar) = Len(stack) /\ shown \in DOMAIN stack
  BY WindowIs DEF TabsInv, Rests, Stands
<1>2. "url" \in DOMAIN v
  BY <1>1, ViewHas
<1>3. /\ DOMAIN w = Fields /\ w.stack = pages /\ w.bar = bar /\ w.shown = shown
      /\ w.chrome = chrome
  BY WindowIs DEF Fields
<1>4. Becomes(IF i = shown THEN Named(w, next) ELSE w)
  BY DEF Commit
<1> HIDE DEF v
<1>5. /\ Views(pages) /\ Len(pages) = Len(stack) /\ DOMAIN pages = DOMAIN stack
      /\ i # shown => pages[shown] = stack[shown]
  BY <1>1, <1>2, ViewsExcept
<1> HIDE DEF pages, w, next
<1>6. Stands(w) /\ Len(w.bar) = Len(w.stack)
  BY <1>1, <1>3, <1>5 DEF Stands
<1>7. CASE i = shown
  BY <1>4, <1>6, <1>7, NamedRests, BecomesRests
<1>8. CASE i # shown
  <2>1. Rests(w)
    BY <1>3, <1>5, <1>6, <1>8, WindowIs DEF TabsInv, Rests, AtHome
  <2> QED BY <1>4, <1>8, <2>1, BecomesRests
<1> QED BY <1>7, <1>8

LEMMA TabsStart == TabsInit => TabsInv
<1> SUFFICES ASSUME TabsInit PROVE TabsInv
  OBVIOUS
<1> DEFINE v == View(1, Home)
<1>1. bar = <<1>> /\ stack = <<v>> /\ shown = 1
  BY DEF TabsInit
<1>2. "url" \in DOMAIN v /\ IsHome(v.url)
  BY DEF View, IsHome
<1> HIDE DEF v
<1>3. bar \in Seq({1}) /\ Len(bar) = 1 /\ stack \in Seq({v}) /\ Len(stack) = 1
      /\ DOMAIN stack = {1} /\ stack[1] = v
  BY <1>1
<1>4. IsSeq(bar) /\ Views(stack)
  BY <1>2, <1>3 DEF IsSeq, Views
<1> QED BY <1>1, <1>2, <1>3, <1>4, WindowIs DEF TabsInv, Rests, Stands, AtHome

\* For every number of tabs, pages and loads: whichever tab is closed, selected, dragged,
\* reloaded or loaded in the background, the address and the tabs are hidden by themselves
\* only over a single tab that shows what the code takes for the start page.
THEOREM HiddenAtHome == TabsSpec => []HiddenOnlyAtHome
<1>1. TabsInv /\ [TabsNext]_tabVars => TabsInv'
  <2> SUFFICES ASSUME TabsInv, [TabsNext]_tabVars PROVE TabsInv'
    OBVIOUS
  <2>1. CASE UNCHANGED tabVars
    BY <2>1 DEF tabVars, TabsInv, Window, Rests, Stands, AtHome
  <2>2. ASSUME NEW url, NewTab(url) \/ LoadUrl(url) PROVE TabsInv'
    BY <2>2, NewTabSteps, LoadUrlSteps
  <2>3. ASSUME NEW i, \/ DuplicateTab(i) \/ SetCurrentIndex(i) \/ Close(i) \/ CloseOtherTabs(i)
                      \/ CloseTabsToRight(i) \/ DragTab(i)
        PROVE  TabsInv'
    BY <2>3, NewTabSteps, SetCurrentIndexSteps, CloseSteps, CloseManySteps, DragTabSteps
       DEF DuplicateTab, CloseOtherTabs, CloseTabsToRight
  <2>4. ASSUME NEW i \in DOMAIN stack,
               LoadProgress(i) \/ Commit(i) \/ \E ok \in BOOLEAN : LoadFinished(i, ok)
        PROVE  TabsInv'
    BY <2>4, ChromeSteps, CommitSteps, LoadFinishedSteps
  <2>5. ASSUME ReloadOrStop \/ ToggleChrome \/ Hover \/ ReloadAllTabsForProfile
        PROVE  TabsInv'
    BY <2>5, ChromeSteps, ReloadOrStopSteps, ReloadAllTabsSteps
  <2> QED BY <2>1, <2>2, <2>3, <2>4, <2>5 DEF TabsNext
<1>2. TabsInv => HiddenOnlyAtHome
  BY WindowIs DEF TabsInv, Rests, AtHome, HiddenOnlyAtHome
<1> QED BY <1>1, <1>2, TabsStart, PTL DEF TabsSpec
=============================================================================
