----------------------------- MODULE CoreEngine -----------------------------
(***************************************************************************)
(* The core's execution engine: callers run workflows node by node, each   *)
(* node with resources of a manager that they share.  A workflow is a      *)
(* sequence of nodes and the edges that its validator looks at; a node     *)
(* says what it depends on and which resources it needs.                   *)
(***************************************************************************)
EXTENDS Resources, Order, SequencesExt

CONSTANTS
  Workflow,  \* the workflows that are run
  MaxRuns    \* bound: executions begun

VARIABLES
  flow,      \* the workflow of each caller
  todo,      \* its nodes in the order of execution, those that are done left out
  results,   \* the nodes that have a result
  outcome,   \* "none", "running", "ok" or an error
  runs       \* executions begun

vars == <<resourceVars, flow, todo, results, outcome, runs>>

NodeIds(w) == {w.nodes[i].id : i \in DOMAIN w.nodes}

\* Of nodes with one id the map of nodes keeps the last.
NodeOf(w, id) ==
  LET places == {i \in DOMAIN w.nodes : w.nodes[i].id = id}
  IN w.nodes[CHOOSE i \in places : \A j \in places : j <= i]

Init ==
  /\ ResourcesInit
  /\ flow = [c \in Caller |-> [nodes |-> <<>>, edges |-> {}]]
  /\ todo = [c \in Caller |-> <<>>]
  /\ results = [c \in Caller |-> {}]
  /\ outcome = [c \in Caller |-> "none"]
  /\ runs = 0

-----------------------------------------------------------------------------
(* Validation.                                                             *)

\* detect_cycle, by what it finds: a node that can be reached from itself.
HasCycle(w) ==
  \E S \in SUBSET NodeIds(w) \ {{}} : \A a \in S : \E b \in S : <<a, b>> \in w.edges

\* DefaultDagValidator: cycles are looked for along edges, not along dependencies.
Valid(w) ==
  /\ ~HasCycle(w)
  /\ \A i \in DOMAIN w.nodes : w.nodes[i].named /\ ToSet(w.nodes[i].deps) \subseteq NodeIds(w)

\* What the visits so far have marked, and the nodes that they have put in order.
Visits(w) == [visited : SUBSET NodeIds(w), order : Seq(NodeIds(w))]

\* visit_node: the dependencies that were not visited yet, one after the other, then the node.
VisitNode(w, visit) ==
  [id \in NodeIds(w) |-> [s \in Visits(w) |->
     IF id \in s.visited THEN s
     ELSE LET deps == NodeOf(w, id).deps
              after == Iterate(Len(deps), [s EXCEPT !.visited = @ \cup {id}],
                               [k \in DOMAIN deps |-> visit[deps[k]]])
          IN [after EXCEPT !.order = Append(@, id)]]]

\* A visit within a visit marks one more node: none is deeper than there are nodes.
Visit(w) ==
  LET visit[depth \in 0..Cardinality(NodeIds(w))] ==
        IF depth = 0 THEN [id \in NodeIds(w) |-> [s \in Visits(w) |-> s]]
        ELSE VisitNode(w, visit[depth - 1])
  IN visit[Cardinality(NodeIds(w))]

Visited(w) ==
  Iterate(Len(w.nodes), [visited |-> {}, order |-> <<>>],
          [k \in DOMAIN w.nodes |-> Visit(w)[w.nodes[k].id]]).order

\* determine_execution_order turns around what was visited.
ExecutionOrder(w) == Reverse(Visited(w))

-----------------------------------------------------------------------------
(* Execution.                                                              *)

Begin(c) ==
  /\ outcome[c] # "running" /\ runs < MaxRuns
  /\ runs' = runs + 1
  /\ results' = [results EXCEPT ![c] = {}]
  /\ \E w \in Workflow :
       /\ flow' = [flow EXCEPT ![c] = w]
       /\ todo' = [todo EXCEPT ![c] = IF Valid(w) THEN ExecutionOrder(w) ELSE <<>>]
       /\ outcome' = [outcome EXCEPT ![c] = IF Valid(w) THEN "running" ELSE "invalid"]
  /\ UNCHANGED resourceVars

\* The node at hand.
At(c) == NodeOf(flow[c], Head(todo[c]))

Fail(c, error) ==
  /\ outcome' = [outcome EXCEPT ![c] = error]
  /\ UNCHANGED <<flow, todo, results, runs>>

\* The results that the node depends on have to be there.
MissDependency(c) ==
  /\ outcome[c] = "running" /\ todo[c] # <<>> /\ phase[c] = "idle"
  /\ ~(ToSet(At(c).deps) \subseteq results[c])
  /\ Fail(c, "dependency")
  /\ UNCHANGED resourceVars

AskForNode(c) ==
  /\ outcome[c] = "running" /\ todo[c] # <<>> /\ phase[c] = "idle"
  /\ ToSet(At(c).deps) \subseteq results[c]
  /\ \/ Ask(c, At(c).need) /\ UNCHANGED <<flow, todo, results, outcome, runs>>
     \/ ~Possible(At(c).need) /\ Fail(c, "resource") /\ UNCHANGED resourceVars

WaitOver(c) ==
  /\ TimeUp(c)
  /\ Fail(c, "resource")

Collect(c) == (Take(c) \/ Grant(c)) /\ UNCHANGED <<flow, todo, results, outcome, runs>>

\* The node ran; or it failed, or its own time was up.  The guard is dropped either way.
NodeDone(c) ==
  /\ Release(c)
  /\ results' = [results EXCEPT ![c] = @ \cup {Head(todo[c])}]
  /\ todo' = [todo EXCEPT ![c] = Tail(@)]
  /\ UNCHANGED <<flow, outcome, runs>>

NodeFailed(c) == Release(c) /\ \E error \in {"node", "timeout"} : Fail(c, error)

Finish(c) ==
  /\ outcome[c] = "running" /\ todo[c] = <<>>
  /\ outcome' = [outcome EXCEPT ![c] = "ok"]
  /\ UNCHANGED <<resourceVars, flow, todo, results, runs>>

Proceed(c) ==
  MissDependency(c) \/ AskForNode(c) \/ WaitOver(c) \/ Collect(c) \/ NodeDone(c)
    \/ NodeFailed(c) \/ Finish(c)

Next == \E c \in Caller : Begin(c) \/ Proceed(c)

Spec == Init /\ [][Next]_vars

\* Time-outs go off, for the permits as for the node, and the runtime polls what is ready.
Fairness == \A c \in Caller : WF_vars(Proceed(c))

-----------------------------------------------------------------------------
(* Properties.                                                             *)

TypeOK ==
  /\ free \in [Kinds -> Nat] /\ held \in [Caller -> [Kinds -> Nat]]
  /\ \A c \in Caller :
       /\ phase[c] \in {"idle", "waiting", "granted"}
       /\ phase[c] # "idle" => outcome[c] = "running"
       /\ results[c] \subseteq NodeIds(flow[c])

\* A node that can be reached from itself along dependencies.
DependsOnItself(w) ==
  \E S \in SUBSET NodeIds(w) \ {{}} :
    \A a \in S : \E b \in S : b \in ToSet(NodeOf(w, a).deps)

\* "Deleted core::engine (the duplicate execute/execute_workflow with the
\* dependency-ordering and node-id/index bugs)": no execution fails for want of the result
\* of a dependency, unless a node depends on itself.
DependenciesFirst ==
  \A c \in Caller : outcome[c] = "dependency" => DependsOnItself(flow[c])

\* Callers that wait keep what they have, and two can wait for what the other has; still,
\* every execution ends.
ExecutionsEnd == \A c \in Caller : outcome[c] = "running" ~> outcome[c] # "running"

\* Not what the engine is for, but what it comes to: it completes no workflow in which a
\* node depends on another, since it comes to what depends before what is depended on, or
\* needs more memory than the one permit.  Of nodes with one id this is about the one
\* that is run.
OnlyLooseNodesComplete ==
  \A c \in Caller : outcome[c] = "ok" =>
    /\ results[c] = NodeIds(flow[c])
    /\ \A id \in NodeIds(flow[c]) :
         /\ NodeOf(flow[c], id).deps = <<>>
         /\ NodeOf(flow[c], id).need.memory <= 1
=============================================================================
