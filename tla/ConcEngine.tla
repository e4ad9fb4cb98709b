----------------------------- MODULE ConcEngine -----------------------------
(***************************************************************************)
(* The bounded-concurrency engine, gaussflow-runtime's                     *)
(* execute_concurrent_with: one call.  The call fills the free slots with  *)
(* ready nodes, a tokio task each, and awaits whichever task ends first;   *)
(* a node is ready when its last incoming edge is resolved.  Tasks run on  *)
(* other threads and step between any two steps of the call.  A handler    *)
(* may spawn tasks of its own, the branches of a parallel node or the node *)
(* at work inside a subgraph: stopping the handler only detaches them.     *)
(***************************************************************************)
EXTENDS Dag, FiniteSets

CONSTANTS
  Workflows,      \* the workflows the call may be given
  HandlerOutput,  \* the outputs handlers return
  RunInputs,      \* the inputs the call may be given
  Branch,         \* the names of the tasks a handler spawns
  BranchesOf      \* those the handler of a node spawns

ASSUME WorkflowsAssumption == \A w \in Workflows : IsWorkflow(w)
ASSUME FiniteAssumption == IsFiniteSet(Node) /\ IsFiniteSet(Edge)
ASSUME OutputsAssumption ==
  HandlerOutput \subseteq Output /\ RunInputs \subseteq Output
ASSUME BranchesAssumption == BranchesOf \in [Node -> SUBSET Branch]

VARIABLES
  wf,       \* the workflow
  input,    \* the run input
  pc,       \* where the call is
  out,      \* outputs
  act,      \* active: the nodes whose task was spawned
  last,     \* last_active: the node that completed last
  pending,  \* unresolved in-edges per node
  ready,    \* the queue of ready nodes
  task,     \* the task of each node
  try,      \* attempt: handler errors per task
  val,      \* what a task that ended well returns
  work,     \* the tasks spawned by handlers that have not ended
  record,   \* status of the run record in the run store
  starts    \* history: tasks spawned per node

call == <<pc, out, act, last, pending, ready>>
tasks == <<task, try, val, work>>
vars == <<wf, input, call, tasks, record, starts>>

NoNode == Absent

PC == {"start", "fill", "await", "failRun", "shutdown", "dropped", "finish", "done", "failed"}

\* "ended" is a result in the JoinSet that the call has not taken.
TaskState == {"none", "running", "backoff", "ok", "err", "panic", "gone"}

Live(n) == task[n] \in {"running", "backoff"}
InFlight == {n \in Node : task[n] \in {"running", "backoff", "ok", "err", "panic"}}

\* The tasks the handler of n spawns in its attempt t.
Spawned(n, t) == [node : {n}, branch : BranchesOf[n], attempt : {t}]

Slots == IF wf.concurrency = 0 THEN 1 ELSE wf.concurrency

\* The sequences that list the elements of a set once each.
Listings(S) ==
  {q \in [1..Cardinality(S) -> S] : \A i, j \in DOMAIN q : q[i] = q[j] => i = j}

InDegree(n) == Cardinality(Incoming(wf, n))

\* MUTANT of EdgesBetween: parallel edges count once.
EdgesBetweenOnce(m, n) == IF m \in Preds(wf, n) THEN 1 ELSE 0

EdgesBetween(m, n) == Cardinality({x \in wf.edge : x.src = m /\ x.dst = n})

-----------------------------------------------------------------------------
Init ==
  /\ wf \in Workflows
  /\ input \in RunInputs
  /\ pc = "start"
  /\ out = [k \in Key |-> Absent]
  /\ act = {}
  /\ last = NoNode
  /\ pending = [n \in Node |-> 0]
  /\ ready = <<>>
  /\ task = [n \in Node |-> "none"]
  /\ try = [n \in Node |-> 0]
  /\ val = [n \in Node |-> Absent]
  /\ work = {}
  /\ record = "none"
  /\ starts = [n \in Node |-> 0]

\* The run is recorded, the nodes without an in-edge are queued in the order
\* the workflow lists them.
Start ==
  /\ pc = "start"
  /\ record' = "running"
  /\ out' = [out EXCEPT ![InputKey] = input]
  /\ pending' = [n \in Node |-> InDegree(n)]
  /\ ready' \in Listings({n \in wf.node : InDegree(n) = 0})
  /\ pc' = "fill"
  /\ UNCHANGED <<wf, input, act, last, tasks, starts>>

\* resolve_node: every edge out of n counts down its target, which is queued
\* behind q when it reaches zero.
Resolve(n, q) ==
  /\ pending' = [s \in Node |-> IF pending[s] > EdgesBetween(n, s)
                                THEN pending[s] - EdgesBetween(n, s)
                                ELSE 0]
  /\ \E l \in Listings({s \in wf.node : EdgesBetween(n, s) > 0 /\ pending'[s] = 0}) :
       ready' = q \o l

\* MUTANT of SlotFree: one slot too many.
SlotFreeOffByOne == Cardinality(InFlight) <= Slots

SlotFree == Cardinality(InFlight) < Slots

\* MUTANT of FillSkip: the skipped node joins the active set.
FillSkipActive ==
  /\ pc = "fill" /\ SlotFree /\ ready # <<>>
  /\ LET n == Head(ready) IN
       /\ ~IsActive(wf, n, act, out)
       /\ out' = [out EXCEPT ![n] = SkipMarker]
       /\ act' = act \cup {n}
       /\ Resolve(n, Tail(ready))
  /\ UNCHANGED <<wf, input, pc, last, tasks, record, starts>>

\* The next ready node is inactive: it is filed as skipped and resolved.
FillSkip ==
  /\ pc = "fill" /\ SlotFree /\ ready # <<>>
  /\ LET n == Head(ready) IN
       /\ ~IsActive(wf, n, act, out)
       /\ out' = [out EXCEPT ![n] = SkipMarker]
       /\ Resolve(n, Tail(ready))
  /\ UNCHANGED <<wf, input, pc, act, last, tasks, record, starts>>

\* The next ready node is active: its task is spawned, and its handler's are.
FillSpawn ==
  /\ pc = "fill" /\ SlotFree /\ ready # <<>>
  /\ LET n == Head(ready) IN
       /\ IsActive(wf, n, act, out)
       /\ act' = act \cup {n}
       /\ task' = [task EXCEPT ![n] = "running"]
       /\ starts' = [starts EXCEPT ![n] = @ + 1]
       /\ work' = work \cup Spawned(n, try[n])
  /\ ready' = Tail(ready)
  /\ UNCHANGED <<wf, input, pc, out, last, pending, try, val, record>>

\* MUTANT of FillOver: the run ends when nothing is ready.
FillOverNothingReady ==
  /\ pc = "fill"
  /\ ~SlotFree \/ ready = <<>>
  /\ pc' = IF ready = <<>> THEN "finish" ELSE "await"
  /\ UNCHANGED <<wf, input, out, act, last, pending, ready, tasks, record, starts>>

FillOver ==
  /\ pc = "fill"
  /\ ~SlotFree \/ ready = <<>>
  /\ pc' = IF InFlight = {} THEN "finish" ELSE "await"
  /\ UNCHANGED <<wf, input, out, act, last, pending, ready, tasks, record, starts>>

-----------------------------------------------------------------------------
\* join_next returns a task that ended well: its result is filed.
JoinOk(n) ==
  /\ pc = "await" /\ task[n] = "ok"
  /\ out' = [out EXCEPT ![n] = val[n]]
  /\ last' = n
  /\ Resolve(n, ready)
  /\ task' = [task EXCEPT ![n] = "gone"]
  /\ pc' = "fill"
  /\ UNCHANGED <<wf, input, act, try, val, work, record, starts>>

\* It returns a task whose handler failed for good.
JoinErr(n) ==
  /\ pc = "await" /\ task[n] = "err"
  /\ task' = [task EXCEPT ![n] = "gone"]
  /\ pc' = "failRun"
  /\ UNCHANGED <<wf, input, out, act, last, pending, ready, try, val, work, record, starts>>

\* The run store is told while the other tasks go on ...
FailRun ==
  /\ pc = "failRun"
  /\ record' = "failed"
  /\ pc' = "shutdown"
  /\ UNCHANGED <<wf, input, out, act, last, pending, ready, tasks, starts>>

\* ... and the call returns once all of them are aborted and gone, though not
\* what their handlers spawned.
Shutdown ==
  /\ pc = "shutdown"
  /\ task' = [n \in Node |-> IF n \in InFlight THEN "gone" ELSE task[n]]
  /\ pc' = "failed"
  /\ UNCHANGED <<wf, input, out, act, last, pending, ready, try, val, work, record, starts>>

\* It returns a task that panicked: the run store is told and the call returns,
\* which drops the JoinSet: its tasks are told to stop, and not waited for.
JoinPanic(n) ==
  /\ pc = "await" /\ task[n] = "panic"
  /\ task' = [task EXCEPT ![n] = "gone"]
  /\ record' = "failed"
  /\ pc' = "dropped"
  /\ UNCHANGED <<wf, input, out, act, last, pending, ready, try, val, work, starts>>

Finish ==
  /\ pc = "finish"
  /\ record' = "finished"
  /\ pc' = "done"
  /\ UNCHANGED <<wf, input, out, act, last, pending, ready, tasks, starts>>

-----------------------------------------------------------------------------
\* run_node, in the task of node n.
\* MUTANT of HandlerOk: the first branch to end answers for all.
HandlerOkFirst(n) ==
  /\ task[n] = "running"
  /\ Spawned(n, try[n]) = {} \/ Spawned(n, try[n]) \ work # {}
  /\ \E o \in HandlerOutput : val' = [val EXCEPT ![n] = o]
  /\ task' = [task EXCEPT ![n] = "ok"]
  /\ UNCHANGED <<wf, input, call, try, work, record, starts>>

\* The handler awaits everything it spawned before it returns a result ...
HandlerOk(n) ==
  /\ task[n] = "running"
  /\ Spawned(n, try[n]) \cap work = {}
  /\ \E o \in HandlerOutput : val' = [val EXCEPT ![n] = o]
  /\ task' = [task EXCEPT ![n] = "ok"]
  /\ UNCHANGED <<wf, input, call, try, work, record, starts>>

\* MUTANT of HandlerErr: the attempts are not counted.
HandlerErrForever(n) ==
  /\ task[n] = "running"
  /\ task' = [task EXCEPT ![n] = "backoff"]
  /\ UNCHANGED <<wf, input, call, try, val, work, record, starts>>

\* ... and returns an error once one of them has failed, whatever the others do.
HandlerErr(n) ==
  /\ task[n] = "running"
  /\ Spawned(n, try[n]) = {} \/ Spawned(n, try[n]) \ work # {}
  /\ try' = [try EXCEPT ![n] = @ + 1]
  /\ task' = [task EXCEPT ![n] = IF try[n] + 1 <= wf.retries[n] THEN "backoff" ELSE "err"]
  /\ UNCHANGED <<wf, input, call, val, work, record, starts>>

\* The next attempt spawns its own branches next to those that linger.
BackoffOver(n) ==
  /\ task[n] = "backoff"
  /\ task' = [task EXCEPT ![n] = "running"]
  /\ work' = work \cup Spawned(n, try[n])
  /\ UNCHANGED <<wf, input, call, try, val, record, starts>>

HandlerTimeout(n) ==
  /\ task[n] = "running"
  /\ task' = [task EXCEPT ![n] = "err"]
  /\ UNCHANGED <<wf, input, call, try, val, work, record, starts>>

HandlerPanic(n) ==
  /\ task[n] = "running"
  /\ task' = [task EXCEPT ![n] = "panic"]
  /\ UNCHANGED <<wf, input, call, try, val, work, record, starts>>

\* The abort reaches a task of a dropped JoinSet at its next await.
Aborted(n) ==
  /\ pc = "dropped" /\ n \in InFlight
  /\ task' = [task EXCEPT ![n] = "gone"]
  /\ UNCHANGED <<wf, input, call, try, val, work, record, starts>>

\* A task a handler spawned ends, also when nobody awaits it any more.
BranchOver(b) ==
  /\ b \in work
  /\ work' = work \ {b}
  /\ UNCHANGED <<wf, input, call, task, try, val, record, starts>>

-----------------------------------------------------------------------------
CallStep ==
  \/ Start \/ FillSkip \/ FillSpawn \/ FillOver
  \/ \E n \in Node : JoinOk(n) \/ JoinErr(n) \/ JoinPanic(n)
  \/ FailRun \/ Shutdown \/ Finish

TaskStep(n) ==
  \/ HandlerOk(n) \/ HandlerErr(n) \/ BackoffOver(n) \/ HandlerTimeout(n)
  \/ HandlerPanic(n) \/ Aborted(n)

Next == CallStep \/ (\E n \in Node : TaskStep(n)) \/ \E b \in work : BranchOver(b)

Spec == Init /\ [][Next]_vars

\* tokio polls the call and every task again; a handler call ends, by its
\* timeout at the latest.  What a handler spawned may go on for ever.
FairSpec == Spec /\ WF_vars(CallStep) /\ \A n \in Node : WF_vars(TaskStep(n))

-----------------------------------------------------------------------------
TypeOK ==
  /\ wf \in Workflows
  /\ input \in RunInputs
  /\ pc \in PC
  /\ out \in Results
  /\ act \in SUBSET Node
  /\ last \in Node \cup {NoNode}
  /\ pending \in [Node -> Nat]
  /\ ready \in Seq(Node)
  /\ task \in [Node -> TaskState]
  /\ try \in [Node -> Nat]
  /\ val \in [Node -> Output \cup {Absent}]
  /\ work \in SUBSET [node : Node, branch : Branch, attempt : Nat]
  /\ record \in {"none", "running", "failed", "finished"}
  /\ starts \in [Node -> Nat]

Resolved == Recorded(out) \ {InputKey}

Queued == {ready[i] : i \in DOMAIN ready}

\* At most settings.concurrency node tasks are in flight, whatever is ready
\* and however the call ends (the fill loop's bound; "at most N node tasks in
\* flight" in the roadmap).  What handlers spawn is not counted.
InFlightBounded == Cardinality(InFlight) <= Slots

\* A node is queued, in flight or resolved, never two of these and never queued twice:
\* its task is spawned at most once, also where several of its predecessors are resolved
\* in one pass, and not before all of them are (resolve_node's countdown).
EachNodeOnce ==
  /\ \A n \in Node : starts[n] <= 1
  /\ \A i, j \in DOMAIN ready : ready[i] = ready[j] => i = j
  /\ Queued \cap (InFlight \cup Resolved) = {}
  /\ pc # "dropped" => InFlight \cap Resolved = {}
  /\ \A n \in InFlight : Preds(wf, n) \subseteq Resolved

\* The countdown is exact: it is the number of in-edges not yet resolved, so that no node
\* waits for ever, and each is started once and in its turn.
CountdownExact ==
  /\ EachNodeOnce
  /\ pc \notin {"start", "dropped", "failed"} =>
       \A n \in wf.node :
         /\ pending[n] = Cardinality({x \in Incoming(wf, n) : x.src \notin Resolved})
         /\ pending[n] = 0 => n \in Queued \cup act \cup Resolved

\* The nodes the sequential engine would run, given the same outputs.
SequentialActive(w, o) ==
  LET f[i \in 0..Len(w.order)] ==
        IF i = 0 THEN {}
        ELSE f[i - 1] \cup {n \in {w.order[i]} : IsActive(w, n, f[i - 1], o)}
  IN  f[Len(w.order)]

\* In whatever order tasks end, a run that finishes has run and skipped the
\* nodes the sequential engine would have with the same outputs, and resolved
\* all the nodes that one reaches ("dependencies and conditional edge-skipping
\* are honored exactly as in the sequential engine").
AgreesWithSequential ==
  pc = "finish" =>
    /\ act = SequentialActive(wf, out)
    /\ Resolved = Ordered(wf)

\* A result on record is that of an attempt all of whose branches have ended: branches
\* outlive the attempt that failed, timed out or was aborted, the retry that runs beside
\* them and the call itself, and none of them is one a filed result stands for
\* (ParallelHandler awaits every branch; run_node retries without stopping any).
ResultsAreWhole == \A b \in work : b.node \in Resolved => b.attempt < try[b.node]

\* The call returns, and a node that became ready is resolved, unless the run fails.
CallReturns ==
  /\ <>(pc \in {"done", "failed", "dropped"})
  /\ \A n \in Node : n \in Queued ~> (n \in Resolved \/ record = "failed")

-----------------------------------------------------------------------------
\* The run, as the run store and the results show it, implements the abstract
\* run; fail_fast is not acted on.
Run ==
  INSTANCE DagRun
    WITH ran <- act \cap Recorded(out),
         res <- [out EXCEPT ![InputKey] = Absent],
         status <- CASE record = "failed" -> "failed"
                     [] record = "finished" -> "completed"
                     [] OTHER -> "running",
         StopsOnError <- FALSE

ImplementsDagRun == Run!Spec
=============================================================================
