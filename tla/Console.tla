------------------------------ MODULE Console ------------------------------
(***************************************************************************)
(* The terminal client: one loop that draws what the application holds,    *)
(* waits for a key, acts on it and refreshes.  Rows are selected by their  *)
(* place in a list that every refresh may reorder, dialogs by the id of    *)
(* what they are about.  Requests and refreshes hold the loop up while the *)
(* server goes on.                                                         *)
(***************************************************************************)
EXTENDS Naturals, Sequences, FiniteSets

CONSTANTS
  Workflow, Execution,   \* ids
  Absent,                \* no id, nothing selected
  MaxLogs                \* bound: log lines of the executions

VARIABLES
  server,    \* the workflows of the server, and the status of its executions
  at,        \* where the loop is
  tab,       \* current_tab
  list,      \* workflows and executions as last fetched, and the number of logs
  sel,       \* the selected place in either list, 0 for none
  scroll,    \* log_scroll
  dialog,    \* dialog_type and the id it is about
  screen,    \* history: what the screen shows that a key is read from
  sent       \* history: the request sent since the last draw, and that dialog

vars == <<server, at, tab, list, sel, scroll, dialog, screen, sent>>

Tabs == <<"dashboard", "workflows", "executions", "logs", "help">>
Kinds == {"workflows", "executions"}

NoDialog == [type |-> "none", about |-> Absent]
Blank == [dialog |-> NoDialog, named |-> Absent, row |-> Absent, lines |-> 0]
NotSent == [type |-> "none", about |-> Absent, screen |-> Blank]

Orders(S) ==
  {s \in [1..Cardinality(S) -> S] : \A i, j \in DOMAIN s : s[i] = s[j] => i = j}

Init ==
  /\ server = [w |-> Workflow, x |-> [e \in Execution |-> "none"]]
  /\ at = "fetchWorkflows"
  /\ tab = "dashboard"
  /\ list = [workflows |-> <<>>, executions |-> <<>>, running |-> {}, logs |-> 0]
  /\ sel = [k \in Kinds |-> 0]
  /\ scroll = 0
  /\ dialog = NoDialog
  /\ screen = Blank
  /\ sent = NotSent

-----------------------------------------------------------------------------
(* Drawing.                                                                *)

\* The list widget takes a selection that is past the end to the last row, and drops
\* that of an empty list.
Clamped(k) ==
  IF tab = k /\ sel[k] > Len(list[k]) THEN [sel EXCEPT ![k] = Len(list[k])] ELSE sel

\* The details beside a list are those of the highlighted row, if there is one.
Highlighted(k, selected) ==
  IF k \in Kinds /\ selected[k] \in DOMAIN list[k] THEN list[k][selected[k]] ELSE Absent

\* The log lines from the scroll position on.
Lines == IF tab = "logs" /\ scroll < list.logs THEN list.logs - scroll ELSE 0

\* The name in a dialog is looked up by id in what was fetched last.
Named(d) ==
  IF \E k \in Kinds : \E i \in DOMAIN list[k] : list[k][i] = d.about THEN d.about ELSE Absent

Draw ==
  /\ at = "draw"
  /\ sel' = IF tab \in Kinds THEN Clamped(tab) ELSE sel
  /\ screen' = [dialog |-> dialog, named |-> Named(dialog), row |-> Highlighted(tab, sel'),
                lines |-> Lines]
  /\ at' = "input"
  /\ sent' = NotSent
  /\ UNCHANGED <<server, tab, list, scroll, dialog>>

-----------------------------------------------------------------------------
(* Keys, of a screen without a dialog.                                     *)

Key == at = "input" /\ dialog = NoDialog

Browse == UNCHANGED <<server, list, screen, sent>>

Index(t) == CHOOSE i \in 1..Len(Tabs) : Tabs[i] = t

\* Tab, with shift or without, the digits, "?" and Esc.
SwitchTab ==
  /\ Key
  /\ \/ \E step \in {1, Len(Tabs) - 1} : tab' = Tabs[((Index(tab) - 1 + step) % Len(Tabs)) + 1]
     \/ \E i \in DOMAIN Tabs : tab' = Tabs[i]
     \/ tab = "help" /\ tab' = "dashboard"
  /\ at' = "tick"
  /\ UNCHANGED <<sel, scroll, dialog>> /\ Browse

\* next_item and prev_item, around the ends of a list.
MoveSelection ==
  /\ Key /\ tab \in Kinds /\ list[tab] # <<>>
  /\ \E step \in {1, Len(list[tab]) - 1} :
       sel' = [sel EXCEPT ![tab] = IF @ = 0 THEN 1 ELSE ((@ - 1 + step) % Len(list[tab])) + 1]
  /\ at' = "tick"
  /\ UNCHANGED <<tab, scroll, dialog>> /\ Browse

ScrollLogs ==
  /\ Key /\ tab = "logs"
  /\ \/ scroll + 1 < list.logs /\ scroll' = scroll + 1
     \/ scroll > 0 /\ scroll' = scroll - 1
  /\ at' = "tick"
  /\ UNCHANGED <<tab, sel, dialog>> /\ Browse

Selected(k) == Highlighted(k, sel)

\* select_item, show_delete_dialog and show_cancel_dialog.
OpenDialog ==
  /\ Key
  /\ \/ /\ tab = "workflows" /\ Selected(tab) # Absent
        /\ \E type \in {"execute", "delete"} : dialog' = [type |-> type, about |-> Selected(tab)]
     \/ /\ tab = "executions" /\ Selected(tab) \in list.running
        /\ dialog' = [type |-> "cancel", about |-> Selected(tab)]
  /\ at' = "tick"
  /\ UNCHANGED <<tab, sel, scroll>> /\ Browse

RefreshKey ==
  /\ Key
  /\ at' = "fetchWorkflows"
  /\ UNCHANGED <<tab, sel, scroll, dialog>> /\ Browse

Quit ==
  /\ Key
  /\ at' = "over"
  /\ UNCHANGED <<tab, sel, scroll, dialog>> /\ Browse

\* A key that does nothing, or none within the tick.
NoKey ==
  /\ Key
  /\ at' = "tick"
  /\ UNCHANGED <<tab, sel, scroll, dialog>> /\ Browse

-----------------------------------------------------------------------------
(* Keys, of a dialog.                                                      *)

InDialog == at = "input" /\ dialog # NoDialog

Dismiss ==
  /\ InDialog
  /\ dialog' = NoDialog
  /\ at' = "draw"
  /\ UNCHANGED <<tab, sel, scroll>> /\ Browse

\* No key within the tick: the loop goes on to its refresh, with the dialog open.
Wait ==
  /\ InDialog
  /\ at' = "tick"
  /\ UNCHANGED <<tab, sel, scroll, dialog>> /\ Browse

\* MUTANT of Target: what is selected when Enter is read.
TargetSelected == Selected(IF dialog.type = "cancel" THEN "executions" ELSE "workflows")

Target == dialog.about

\* What the server makes of a request that it does not refuse: the handlers behind the
\* three routes.  Which ones it refuses is its own business, see Confirm.
Executed(id) ==
  {[server EXCEPT !.x[e] = "running"] :
     e \in {e \in Execution : id \in server.w /\ server.x[e] = "none"}}
Deleted(id) == {[server EXCEPT !.w = @ \ {w}] : w \in server.w \cap {id}}
Cancelled(id) ==
  {[server EXCEPT !.x[e] = "over"] :
     e \in {e \in Execution : e = id /\ server.x[e] = "running"}}

Served(type, id) ==
  CASE type = "execute" -> Executed(id)
    [] type = "delete"  -> Deleted(id)
    [] type = "cancel"  -> Cancelled(id)

Drop(s, id) == SelectSeq(s, LAMBDA i : i # id)

\* execute_selected_workflow, delete_selected_workflow, cancel_selected_execution: the
\* server may refuse, and its answer may not arrive whatever it did.
Confirm ==
  /\ InDialog
  /\ sent' = [type |-> dialog.type, about |-> Target, screen |-> screen]
  /\ \/ server' = server /\ list' = list
     \/ /\ server' \in Served(dialog.type, Target)
        /\ list' \in {list, IF dialog.type = "delete"
                              THEN [list EXCEPT !.workflows = Drop(@, Target)] ELSE list}
  /\ dialog' = NoDialog
  /\ at' = "draw"
  /\ screen' = Blank
  /\ UNCHANGED <<tab, sel, scroll>>

-----------------------------------------------------------------------------
(* Refreshing: three requests, each of which may fail.                     *)

Tick ==
  /\ at = "tick"
  /\ at' \in {"draw", "fetchWorkflows"}
  /\ UNCHANGED <<tab, sel, scroll, dialog>> /\ Browse

FetchWorkflows ==
  /\ at = "fetchWorkflows"
  /\ \/ \E s \in Orders(server.w) : list' = [list EXCEPT !.workflows = s]
     \/ list' = list
  /\ at' = "fetchExecutions"
  /\ UNCHANGED <<server, tab, sel, scroll, dialog, screen, sent>>

FetchExecutions ==
  /\ at = "fetchExecutions"
  /\ \/ \E s \in Orders({e \in Execution : server.x[e] # "none"}), n \in 0..MaxLogs :
          list' = [list EXCEPT !.executions = s, !.logs = n,
                               !.running = {e \in Execution : server.x[e] = "running"}]
     \/ list' = list
  /\ at' = "draw"
  /\ UNCHANGED <<server, tab, sel, scroll, dialog, screen, sent>>

\* Other clients of the server, and its own executions.
Others ==
  /\ at # "over"
  /\ \/ \E w \in Workflow : server' = [server EXCEPT !.w = IF w \in @ THEN @ \ {w} ELSE @ \cup {w}]
     \/ \E e \in Execution :
          /\ server.x[e] # "over"
          /\ server' = [server EXCEPT !.x[e] = IF @ = "none" THEN "running" ELSE "over"]
  /\ UNCHANGED <<at, tab, list, sel, scroll, dialog, screen, sent>>

Next ==
  \/ Draw \/ SwitchTab \/ MoveSelection \/ ScrollLogs \/ OpenDialog \/ RefreshKey \/ Quit
  \/ NoKey \/ Dismiss \/ Wait \/ Confirm \/ Tick \/ FetchWorkflows \/ FetchExecutions
  \/ Others

Spec == Init /\ [][Next]_vars

-----------------------------------------------------------------------------
(* Properties.                                                             *)

TypeOK ==
  /\ at \in {"draw", "input", "tick", "fetchWorkflows", "fetchExecutions", "over"}
  /\ tab \in {Tabs[i] : i \in DOMAIN Tabs}
  /\ sel \in [Kinds -> Nat] /\ scroll \in 0..MaxLogs /\ screen.lines \in 0..MaxLogs
  /\ dialog.type \in {"none", "execute", "delete", "cancel"}
  /\ dialog.about \in CASE dialog.type = "none" -> {Absent}
                        [] dialog.type = "cancel" -> Execution
                        [] OTHER -> Workflow

\* What a confirmation executes, deletes or cancels is what the dialog on the screen
\* was about when the key was read, however the lists were reordered or cut since the
\* dialog was opened; no request is sent from a screen without a dialog.  And a dialog
\* is opened about the row that the screen highlights.
ConfirmsWhatIsShown ==
  /\ sent # NotSent =>
       /\ sent.screen.dialog.type = sent.type
       /\ sent.about = sent.screen.dialog.about
       /\ sent.screen.named \in {sent.about, Absent}
  /\ at = "tick" /\ dialog # NoDialog /\ screen.dialog = NoDialog => dialog.about = screen.row
=============================================================================
