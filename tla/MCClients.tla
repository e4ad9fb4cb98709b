----------------------------- MODULE MCClients -----------------------------
(***************************************************************************)
(* The clients of the web server, each by itself: a behaviour is one of    *)
(* the terminal client, of a dashboard on the event stream, of Gate's      *)
(* requests at the authorization layer, or of a walk through a list.  The  *)
(* clients that a behaviour is not about rest.                             *)
(***************************************************************************)
EXTENDS Gate

CONSTANTS
  Workflow, Execution, Absent, MaxLogs,                \* Console
  Watched, Capacity, MaxChanges,                       \* EventStream
  Entry, Status, MaxLimit, MaxTime                     \* Listing

\* A broadcast channel is made for some number of events.
ASSUME CapacityAssumption == Capacity \in Nat \ {0}

ASSUME EntriesAssumption ==
  IsFiniteSet(Watched) /\ IsFiniteSet(Execution) /\ IsFiniteSet(Entry)

ASSUME MaxLimitAssumption == MaxLimit \in Nat

VARIABLES
  client,                                                        \* what the behaviour is about
  server, at, tab, list, sel, scroll, dialog, screen, sent,      \* Console
  held, used, unsent, queue, session, collected, clients, view, changes, lagged, jumbled,
  silent,                                                        \* EventStream
  entries, time, query, page, got, phase, touched, shrunk        \* Listing

consoleVars == <<server, at, tab, list, sel, scroll, dialog, screen, sent>>
streamVars ==
  <<held, used, unsent, queue, session, collected, clients, view, changes, lagged, jumbled,
    silent>>
gateVars == vars
listVars == <<entries, time, query, page, got, phase, touched, shrunk>>
clientsVars == <<client, consoleVars, streamVars, gateVars, listVars>>

Tui == INSTANCE Console

\* Watched: the workflows whose events, with those of the executions, fill the channel.
Dash == INSTANCE EventStream WITH Workflow <- Watched

Lists == INSTANCE Listing

ClientsInit ==
  /\ client \in {"console", "stream", "gate", "list"}
  /\ Tui!Init /\ Dash!Init
  /\ Init /\ (client = "gate" \/ secret = "")
  /\ Lists!Init
  /\ client = "list" \/ query = [status |-> "any", order |-> "asc", limit |-> 0]

ClientsNext ==
  \/ client = "console" /\ Tui!Next /\ UNCHANGED <<client, streamVars, gateVars, listVars>>
  \/ client = "stream" /\ Dash!Next /\ UNCHANGED <<client, consoleVars, gateVars, listVars>>
  \/ client = "gate" /\ Next /\ UNCHANGED <<client, consoleVars, streamVars, listVars>>
  \/ client = "list" /\ Lists!Next /\ UNCHANGED <<client, consoleVars, streamVars, gateVars>>

ClientsSpec == ClientsInit /\ [][ClientsNext]_clientsVars

\* Console: a confirmed request is about what the dialog on the screen was about.
ConfirmsWhatIsShown == Tui!ConfirmsWhatIsShown

\* EventStream: a dashboard that has received everything shows what the server holds.
DashboardCatchesUp == Dash!DashboardCatchesUp

\* Listing: a walk through the pages has every entry it must have.
WalkMissesNothing == Lists!WalkMissesNothing
=============================================================================
