-------------------------------- MODULE Dag --------------------------------
(***************************************************************************)
(* The data both execution engines of gaussflow-runtime traverse: the      *)
(* workflow graph, the per-node outputs, and the rule that decides which   *)
(* nodes are activated.  An output is a JSON value in the code; of it the  *)
(* engines read three things only, which are the fields kept here:         *)
(*   error    the object has an "error" field,                             *)
(*   skipped  its "skipped" field is true,                                 *)
(*   tag      the labels its "branch" and "route" fields name.             *)
(***************************************************************************)
EXTENDS Naturals, Sequences

CONSTANTS
  Node,      \* the node ids workflows may use
  InputKey,  \* "input", the key the run input is filed under
  Label,     \* the edge labels other than "success" and "failure"
  Absent     \* no entry under a key

Key == Node \cup {InputKey}

On == {"success", "failure"} \cup Label

Edge == [src : Node, dst : Node, on : On]

Output == [error : BOOLEAN, skipped : BOOLEAN, tag : SUBSET Label]

ASSUME AbsentAssumption == Absent \notin Output \cup Node

\* A JSON map from key to output; a key without an entry holds Absent.
Results == [Key -> Output \cup {Absent}]

\* What the engines file for a node they do not activate: {"skipped": true}.
SkipMarker == [error |-> FALSE, skipped |-> TRUE, tag |-> {}]

Recorded(res) == {k \in Key : res[k] # Absent}

-----------------------------------------------------------------------------
\* A parsed workflow.  order is the sequence petgraph's Topo iterator yields
\* for the graph, retries the max_attempts of a node's retry policy (0: none),
\* gpu the nodes that ask for a gpu, concurrency the setting of that name.
Workflow ==
  [node : SUBSET Node, edge : SUBSET Edge, order : Seq(Node),
   failFast : BOOLEAN, retries : [Node -> Nat], gpu : SUBSET Node, concurrency : Nat]

Incoming(w, n) == {x \in w.edge : x.dst = n}

Preds(w, n) == {x.src : x \in Incoming(w, n)}

Ordered(w) == {w.order[i] : i \in 1..Len(w.order)}

\* Topo yields a node once, after all its predecessors, and stops when every
\* node left has a predecessor left: the nodes on and behind a cycle.
IsTopo(w) ==
  /\ \A i, j \in 1..Len(w.order) : w.order[i] = w.order[j] => i = j
  /\ \A i \in 1..Len(w.order) :
       \A p \in Preds(w, w.order[i]) : \E j \in 1..(i - 1) : w.order[j] = p
  /\ Ordered(w) \subseteq w.node
  /\ \A n \in w.node : Preds(w, n) \subseteq Ordered(w) => n \in Ordered(w)

IsWorkflow(w) ==
  /\ w \in Workflow
  /\ \A x \in w.edge : x.src \in w.node /\ x.dst \in w.node
  /\ IsTopo(w)

-----------------------------------------------------------------------------
\* Whether an edge labelled on is taken, given the output of its source.
EdgeTaken(on, o) ==
  /\ o # Absent
  /\ \/ on = "success" /\ ~o.error
     \/ on = "failure" /\ o.error
     \/ on \in Label /\ on \in o.tag

\* MUTANT of IsActive: the label is consulted but not whether the source ran.
IsActiveAnySource(w, n, act, res) ==
  \/ Incoming(w, n) = {}
  \/ \E x \in Incoming(w, n) : EdgeTaken(x.on, res[x.src])

\* A source node is always active; any other node is active when an incoming
\* edge is taken from a predecessor that itself ran.
IsActive(w, n, act, res) ==
  \/ Incoming(w, n) = {}
  \/ \E x \in Incoming(w, n) : x.src \in act /\ EdgeTaken(x.on, res[x.src])

\* MUTANT of SeedActive: skip markers are not told apart from results.
SeedActiveWithSkipped(res) == Recorded(res) \ {InputKey}

\* The nodes that ran, read back from recorded results on resume: every key
\* but "input" whose output is not a skip marker.
SeedActive(res) ==
  {k \in Recorded(res) \ {InputKey} : ~res[k].skipped}
=============================================================================
