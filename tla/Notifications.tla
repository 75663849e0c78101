---------------------------- MODULE Notifications ----------------------------
(***************************************************************************)
(* The notification server of titan-quicksettings: NotificationServer, the      *)
(* org.freedesktop.Notifications service, over NotificationModel, the list the   *)
(* panel shows, grouped by application.                                           *)
(*                                                                          *)
(* An application is its name trimmed and without case.  Summaries, bodies,      *)
(* icons and times are left out; a notification is its id.                        *)
(***************************************************************************)
EXTENDS Integers, Sequences, SequencesExt

CONSTANTS
  Apps,             \* the applications
  MaxNotifications  \* bound on the ids given

VARIABLES
  groups,     \* m_groups, the first on top: [app, items, latest, expanded], where
              \* items are ids and latest is the last one added
  nextId,     \* m_nextId
  dnd,        \* m_dndActive
  reply,      \* the last answer of Notify: [app, id]
  owners      \* who each id was given to

notifyVars == <<groups, nextId, dnd, reply, owners>>

NobodysReply == [app |-> "none", id |-> 0]

NotifyInit ==
  /\ groups = <<>> /\ nextId = 0 /\ dnd = FALSE
  /\ reply = NobodysReply /\ owners = <<>>

\* Were the updated group left where it is.
WithNotificationInPlace(id, app) ==
  IF \E i \in DOMAIN groups : groups[i].app = app
  THEN [i \in DOMAIN groups |->
          IF groups[i].app = app
          THEN [groups[i] EXCEPT !.items = <<id>> \o @, !.latest = id] ELSE groups[i]]
  ELSE <<[app |-> app, items |-> <<id>>, latest |-> id, expanded |-> FALSE]>> \o groups

\* NotificationModel::addNotification: the first group of the application is taken out and
\* put on top with the new one, or a new group is.
WithNotification(id, app) ==
  LET at == {i \in DOMAIN groups : groups[i].app = app}
      first == CHOOSE i \in at : \A j \in at : i <= j
      new == IF at = {} THEN [app |-> app, items |-> <<id>>, latest |-> id, expanded |-> FALSE]
             ELSE [groups[first] EXCEPT !.items = <<id>> \o @, !.latest = id]
  IN <<new>> \o (IF at = {} THEN groups ELSE RemoveAt(groups, first))

\* Notify: do not disturb drops the notification, and the answer is then the last id given.
Notify(app) ==
  /\ IF dnd THEN UNCHANGED <<groups, nextId, owners>>
     ELSE /\ nextId < MaxNotifications
          /\ nextId' = nextId + 1
          /\ owners' = Append(owners, app)
          /\ groups' = WithNotification(nextId', app)
  /\ reply' = [app |-> app, id |-> nextId']
  /\ UNCHANGED dnd

\* clearAll, dismissGroup and toggleExpanded of the model.
ClearAll == groups # <<>> /\ groups' = <<>> /\ UNCHANGED <<nextId, dnd, reply, owners>>

DismissGroup ==
  /\ \E i \in DOMAIN groups : groups' = RemoveAt(groups, i)
  /\ UNCHANGED <<nextId, dnd, reply, owners>>

ToggleExpanded ==
  /\ \E i \in DOMAIN groups : groups' = [groups EXCEPT ![i].expanded = ~@]
  /\ UNCHANGED <<nextId, dnd, reply, owners>>

ToggleDnd == dnd' = ~dnd /\ UNCHANGED <<groups, nextId, reply, owners>>

NotifyNext ==
  \/ \E app \in Apps : Notify(app)
  \/ ClearAll \/ DismissGroup \/ ToggleExpanded \/ ToggleDnd

NotifySpec == NotifyInit /\ [][NotifyNext]_notifyVars

-----------------------------------------------------------------------------
\* Properties

\* The list reads newest first: one group for each application, none empty, the ids of a
\* group falling, the group that was added to last on top, and every id in it given to the
\* application it stands under (addNotification, whatever was dismissed before).
NewestFirst ==
  /\ \A i, j \in DOMAIN groups :
       i < j => groups[i].app # groups[j].app /\ groups[i].latest > groups[j].latest
  /\ \A i \in DOMAIN groups :
       /\ groups[i].items # <<>> /\ groups[i].latest = groups[i].items[1]
       /\ \A m, n \in DOMAIN groups[i].items :
            m < n => groups[i].items[m] > groups[i].items[n]
       /\ \A m \in DOMAIN groups[i].items : owners[groups[i].items[m]] = groups[i].app
=============================================================================
