---------------------------- MODULE EventStream ----------------------------
(***************************************************************************)
(* What a dashboard shows of the server's workflows and executions: the    *)
(* snapshot its WebSocket session sends first, and the events that follow. *)
(* Handlers announce a change after they have made it, in a channel that   *)
(* keeps a bounded number of events for a session that does not keep up.   *)
(***************************************************************************)
EXTENDS Order

CONSTANTS
  Workflow, Execution,   \* ids
  Capacity,              \* events the broadcast channel keeps
  MaxChanges             \* bound: changes on the server

VARIABLES
  held,      \* the server: the last change of each entry, 0 for none
  used,      \* ids given out; none is given out again
  unsent,    \* events of handlers that have made their change
  queue,     \* events the session has not received
  session,   \* "off", "collecting" the snapshot, or "live"
  collected, \* the part of the snapshot that was read
  clients,   \* connected_clients
  view,      \* the rows of the dashboard
  changes,
  lagged,    \* history: events were lost since the snapshot was begun
  jumbled,   \* history: entries with events that overtook each other
  silent     \* history: entries with a change that has no event

vars == <<held, used, unsent, queue, session, collected, clients, view, changes, lagged,
          jumbled, silent>>

Item == Workflow \cup Execution

Row(i, c) == [id |-> i, change |-> c]
RowsOf(i) == {k \in DOMAIN view : view[k].id = i}
First(i) == CHOOSE k \in RowsOf(i) : \A l \in RowsOf(i) : k <= l

Init ==
  /\ held = [i \in Item |-> 0] /\ used = {}
  /\ unsent = {}
  /\ queue = <<>>
  /\ session = "off"
  /\ collected = <<>>
  /\ clients = 0
  /\ view = <<>>
  /\ changes = 0
  /\ lagged = FALSE /\ jumbled = {} /\ silent = {}

-----------------------------------------------------------------------------
(* The server.                                                             *)

SessionUnchanged == UNCHANGED <<queue, session, collected, clients, view, lagged>>

\* A handler makes a change and is to announce it by an event of this type.
Make(i, type, c) ==
  /\ changes' = changes + 1
  /\ held' = [held EXCEPT ![i] = c] /\ used' = used \cup {i}
  /\ unsent' = unsent \cup {[type |-> type, id |-> i, change |-> changes']}

\* create, update and delete of a workflow; start and end of an execution.
Announced(i) ==
  /\ changes < MaxChanges
  /\ \/ i \notin used /\ Make(i, IF i \in Workflow THEN "created" ELSE "started", changes + 1)
     \/ held[i] # 0 /\ Make(i, IF i \in Workflow THEN "updated" ELSE "ended", changes + 1)
     \/ held[i] # 0 /\ i \in Workflow /\ Make(i, "deleted", 0)
  /\ UNCHANGED <<jumbled, silent>>
  /\ SessionUnchanged

\* Pausing, resuming and deleting an execution are not announced.
Silent(i) ==
  /\ changes < MaxChanges /\ i \in Execution /\ held[i] # 0
  /\ changes' = changes + 1
  /\ held' \in {[held EXCEPT ![i] = c] : c \in {0, changes'}}
  /\ silent' = silent \cup {i}
  /\ UNCHANGED <<used, unsent, jumbled>> /\ SessionUnchanged

\* MUTANT of Queued: a session subscribes once it has sent its snapshot.
QueuedWhenLive(e) == IF session # "live" THEN <<>> ELSE Append(queue, e)

Queued(e) == IF session = "off" THEN <<>> ELSE Append(queue, e)

\* event_tx.send: a full channel drops its oldest event.
Send(e) ==
  /\ unsent' = unsent \ {e}
  /\ queue' = IF Len(Queued(e)) > Capacity THEN Tail(Queued(e)) ELSE Queued(e)
  /\ lagged' = (lagged \/ Len(Queued(e)) > Capacity)
  /\ jumbled' = IF \E f \in unsent : f.id = e.id /\ f.change < e.change
                  THEN jumbled \cup {e.id} ELSE jumbled
  /\ UNCHANGED <<held, used, session, collected, clients, view, changes, silent>>

ServerUnchanged == UNCHANGED <<held, used, unsent, changes, jumbled, silent>>

-----------------------------------------------------------------------------
(* The session.                                                            *)

\* The session subscribes, counts itself and begins its snapshot.
Connect ==
  /\ session = "off"
  /\ session' = "collecting" /\ collected' = <<>>
  /\ clients' = clients + 1
  /\ queue' = <<>> /\ lagged' = FALSE
  /\ UNCHANGED view /\ ServerUnchanged

\* A client asks for everything again.
Refresh ==
  /\ session = "live"
  /\ session' = "collecting" /\ collected' = <<>>
  /\ lagged' = FALSE
  /\ UNCHANGED <<queue, clients, view>> /\ ServerUnchanged

\* The maps are walked entry by entry, between changes.
Collect(i) ==
  /\ session = "collecting" /\ i \notin DOMAIN collected
  /\ collected' = [j \in DOMAIN collected \cup {i} |-> IF j = i THEN held[i] ELSE collected[j]]
  /\ UNCHANGED <<queue, session, clients, view, lagged>> /\ ServerUnchanged

\* initial_data and refresh_data replace all rows, in any order.
SendSnapshot ==
  /\ session = "collecting" /\ DOMAIN collected = Item
  /\ LET there == {i \in Item : collected[i] # 0} IN
     \E order \in [1..Cardinality(there) -> there] :
       /\ \A i \in there : \E k \in DOMAIN order : order[k] = i
       /\ view' = [k \in DOMAIN order |-> Row(order[k], collected[order[k]])]
  /\ session' = "live" /\ collected' = <<>>
  /\ UNCHANGED <<queue, clients, lagged>> /\ ServerUnchanged

\* The first row with the id; none, no change.
Replace(e) ==
  IF RowsOf(e.id) = {} THEN view ELSE [view EXCEPT ![First(e.id)] = Row(e.id, e.change)]

\* handleServerEvent of the dashboard.
Shown(e) ==
  CASE e.type = "created" -> Append(view, Row(e.id, e.change))
    [] e.type = "started" -> IF RowsOf(e.id) # {} THEN Replace(e)
                                                  ELSE <<Row(e.id, e.change)>> \o view
    [] e.type \in {"updated", "ended"} -> Replace(e)
    [] e.type = "deleted" -> Kept(view, DOMAIN view \ RowsOf(e.id))

Receive ==
  /\ session = "live" /\ queue # <<>>
  /\ queue' = Tail(queue)
  /\ view' = Shown(Head(queue))
  /\ UNCHANGED <<session, collected, clients, lagged>> /\ ServerUnchanged

\* The client closes, or cannot be sent to; its rows stay until it connects again.
Disconnect ==
  /\ session = "live"
  /\ session' = "off" /\ queue' = <<>>
  /\ clients' = IF clients > 0 THEN clients - 1 ELSE 0
  /\ UNCHANGED <<collected, view, lagged>> /\ ServerUnchanged

Next ==
  \/ \E i \in Item : Announced(i) \/ Silent(i) \/ Collect(i)
  \/ \E e \in unsent : Send(e)
  \/ Connect \/ Refresh \/ SendSnapshot \/ Receive \/ Disconnect

Spec == Init /\ [][Next]_vars

-----------------------------------------------------------------------------
(* Properties.                                                             *)

TypeOK ==
  /\ held \in [Item -> 0..MaxChanges] /\ used \subseteq Item
  /\ \A e \in unsent : e.id \in Item /\ e.change \in 1..MaxChanges
  /\ Len(queue) <= Capacity
  /\ session \in {"off", "collecting", "live"}
  /\ clients = IF session = "off" THEN 0 ELSE 1
  /\ \A k \in DOMAIN view : view[k].id \in Item /\ view[k].change \in 1..MaxChanges

Settled == session = "live" /\ queue = <<>> /\ unsent = {} /\ ~lagged

\* Once everything announced has arrived, the first row of an entry shows its last
\* change and there is no row of an entry that is gone, however changes fell before,
\* into or after the snapshot; unless events were lost to a full channel, the entry's
\* events overtook each other, or a change of it is never announced.  (A workflow
\* created while the snapshot is taken has a second row.)
DashboardCatchesUp ==
  Settled =>
    \A i \in Item \ (jumbled \cup silent) :
      IF RowsOf(i) = {} THEN held[i] = 0 ELSE view[First(i)].change = held[i]
=============================================================================
