----------------------------- MODULE SeqEngine -----------------------------
(***************************************************************************)
(* The sequential engine, gaussflow-runtime's execute_core: one run id,    *)
(* executed and resumed by the processes in Executor against a durable     *)
(* checkpoint store (FileCheckpointStore) and an in-memory run store.      *)
(*                                                                         *)
(* An executor walks the workflow in topological order.  Every await at    *)
(* which other executors or a crash can come in between ends an action: a  *)
(* checkpoint is saved by the action that filed the result, a handler's    *)
(* result exists before it is filed, the run store is told of an end       *)
(* before the last checkpoint says so.                                     *)
(***************************************************************************)
EXTENDS Dag

CONSTANTS
  Executor,       \* the tasks that execute or resume the run
  Workflows,      \* the workflows the run may be of
  HandlerOutput,  \* the outputs handlers return
  RunInputs,      \* the inputs the run may be given
  MaxBegins,      \* bound: calls of execute_core
  MaxCrashes,     \* bound: process crashes
  MaxSaveErrors   \* bound: failing checkpoint saves

ASSUME WorkflowsAssumption == \A w \in Workflows : IsWorkflow(w)
ASSUME OutputsAssumption ==
  HandlerOutput \subseteq Output /\ RunInputs \subseteq Output

VARIABLES
  wf,          \* the workflow
  input,       \* the run input
  pc,          \* where each executor is
  out,         \* outputs: what each executor has on record
  act,         \* active_set: the nodes it knows to have run
  last,        \* last_node_id
  pos,         \* how many nodes its Topo iterator has yielded, plus one
  try,         \* attempt: handler errors at the current node
  val,         \* the handler result that is not filed yet
  cp,          \* the saved checkpoint
  record,      \* status of the run record in the run store
  begins, crashes, saveErrors,  \* the bounded events so far
  completions  \* history: handler calls per node that returned Ok

local == <<pc, out, act, last, pos, try, val>>
counters == <<begins, crashes, saveErrors>>
vars == <<wf, input, local, cp, record, counters, completions>>

NoNode == Absent
NoResults == [k \in Key |-> Absent]
NoCheckpoint == [status |-> "none", last |-> NoNode, res |-> NoResults]

PC == {"idle", "loop", "acquire", "handler", "backoff", "file",
       "fail", "failSave", "finish", "finishSave"}

\* The call of executor e is over: its locals are gone.
Return(e) ==
  /\ pc' = [pc EXCEPT ![e] = "idle"]
  /\ out' = [out EXCEPT ![e] = NoResults]
  /\ act' = [act EXCEPT ![e] = {}]
  /\ last' = [last EXCEPT ![e] = NoNode]
  /\ pos' = [pos EXCEPT ![e] = 1]
  /\ try' = [try EXCEPT ![e] = 0]
  /\ val' = [val EXCEPT ![e] = Absent]

Goto(e, label) == pc' = [pc EXCEPT ![e] = label]

-----------------------------------------------------------------------------
Init ==
  /\ wf \in Workflows
  /\ input \in RunInputs
  /\ pc = [e \in Executor |-> "idle"]
  /\ out = [e \in Executor |-> NoResults]
  /\ act = [e \in Executor |-> {}]
  /\ last = [e \in Executor |-> NoNode]
  /\ pos = [e \in Executor |-> 1]
  /\ try = [e \in Executor |-> 0]
  /\ val = [e \in Executor |-> Absent]
  /\ cp = NoCheckpoint
  /\ record = "none"
  /\ begins = 0 /\ crashes = 0 /\ saveErrors = 0
  /\ completions = [n \in Node |-> 0]

\* The node the iterator yields next, while there is one.
More(e) == pos[e] <= Len(wf.order)

\* MUTANT of Current: the order is walked from its end.
CurrentFromEnd(e) == wf.order[Len(wf.order) + 1 - pos[e]]

Current(e) == wf.order[pos[e]]

\* MUTANT of BeginFresh: a failed run starts over.
BeginFreshAfterFailure(e) ==
  /\ cp.status \in {"none", "failed"}
  /\ record' = "running"
  /\ out' = [out EXCEPT ![e] = [NoResults EXCEPT ![InputKey] = input]]
  /\ Goto(e, "loop")
  /\ UNCHANGED <<act, last>>

\* No checkpoint under the run id: the run starts, on record and from the input.
BeginFresh(e) ==
  /\ cp.status = "none"
  /\ record' = "running"
  /\ out' = [out EXCEPT ![e] = [NoResults EXCEPT ![InputKey] = input]]
  /\ Goto(e, "loop")
  /\ UNCHANGED <<act, last>>

\* A checkpoint of an unfinished run: results, active set and last node are
\* seeded from it; the run store is not told.
BeginResume(e) ==
  /\ cp.status \in {"running", "failed"}
  /\ out' = [out EXCEPT ![e] = cp.res]
  /\ act' = [act EXCEPT ![e] = SeedActive(cp.res)]
  /\ last' = [last EXCEPT ![e] = cp.last]
  /\ Goto(e, "loop")
  /\ UNCHANGED record

\* A checkpoint of a completed run: its recorded result is returned.
BeginCompleted(e) ==
  /\ cp.status = "completed"
  /\ UNCHANGED <<pc, out, act, last, record>>

Begin(e) ==
  /\ pc[e] = "idle"
  /\ begins < MaxBegins
  /\ begins' = begins + 1
  /\ BeginFresh(e) \/ BeginResume(e) \/ BeginCompleted(e)
  /\ UNCHANGED <<wf, input, pos, try, val, cp, crashes, saveErrors, completions>>

-----------------------------------------------------------------------------
\* Saving a checkpoint for the outputs o, and its failure.
SaveAs(status, o, n) ==
  /\ cp' = [status |-> status, last |-> n, res |-> o]
  /\ UNCHANGED saveErrors

SaveError ==
  /\ saveErrors < MaxSaveErrors
  /\ saveErrors' = saveErrors + 1
  /\ UNCHANGED cp

ErrorOnRecord(e) == \E k \in Recorded(out[e]) : out[e][k].error

FailFast(e) == wf.failFast /\ ErrorOnRecord(e)

\* MUTANT of Break: the setting is not asked.
BreakOnAnyError(e) ==
  /\ pc[e] = "loop"
  /\ More(e) => ErrorOnRecord(e)
  /\ Goto(e, "finish")
  /\ UNCHANGED <<wf, input, out, act, last, pos, try, val, cp, record, counters, completions>>

\* The walk ends when the iterator is exhausted, or at the next node once
\* fail_fast finds an error output on record (the run input included).
Break(e) ==
  /\ pc[e] = "loop"
  /\ More(e) => FailFast(e)
  /\ Goto(e, "finish")
  /\ UNCHANGED <<wf, input, out, act, last, pos, try, val, cp, record, counters, completions>>

\* A node on record already is passed over.
PassRecorded(e) ==
  /\ pc[e] = "loop" /\ More(e) /\ ~FailFast(e)
  /\ out[e][Current(e)] # Absent
  /\ last' = IF Current(e) \in act[e] THEN [last EXCEPT ![e] = Current(e)] ELSE last
  /\ pos' = [pos EXCEPT ![e] = @ + 1]
  /\ UNCHANGED <<wf, input, pc, out, act, try, val, cp, record, counters, completions>>

AtNewNode(e) ==
  /\ pc[e] = "loop" /\ More(e) /\ ~FailFast(e)
  /\ out[e][Current(e)] = Absent

\* An inactive node is filed as skipped and checkpointed; a failing save ends
\* the call there and then.
SkipInactive(e) ==
  /\ AtNewNode(e)
  /\ ~IsActive(wf, Current(e), act[e], out[e])
  /\ LET o == [out[e] EXCEPT ![Current(e)] = SkipMarker] IN
       \/ /\ SaveAs("running", o, Current(e))
          /\ out' = [out EXCEPT ![e] = o]
          /\ pos' = [pos EXCEPT ![e] = @ + 1]
          /\ UNCHANGED <<pc, act, last, try, val>>
       \/ SaveError /\ Return(e)
  /\ UNCHANGED <<wf, input, record, begins, crashes, completions>>

\* An active node joins the active set and its task is spawned ...
StartNode(e) ==
  /\ AtNewNode(e)
  /\ IsActive(wf, Current(e), act[e], out[e])
  /\ act' = [act EXCEPT ![e] = @ \cup {Current(e)}]
  /\ Goto(e, "acquire")
  /\ UNCHANGED <<wf, input, out, last, pos, try, val, cp, record, counters, completions>>

\* ... which first takes a permit of the call's own gpu or cpu semaphore:
\* nobody competes for it, but a concurrency of 0 leaves no cpu permit.
Acquire(e) ==
  /\ pc[e] = "acquire"
  /\ Current(e) \in wf.gpu \/ wf.concurrency > 0
  /\ Goto(e, "handler")
  /\ UNCHANGED <<wf, input, out, act, last, pos, try, val, cp, record, counters, completions>>

-----------------------------------------------------------------------------
HandlerOk(e) ==
  /\ pc[e] = "handler"
  /\ \E o \in HandlerOutput : val' = [val EXCEPT ![e] = o]
  /\ completions' = [completions EXCEPT ![Current(e)] = @ + 1]
  /\ Goto(e, "file")
  /\ UNCHANGED <<wf, input, out, act, last, pos, try, cp, record, counters>>

\* MUTANT of HandlerErr: the attempts left are counted down, below zero.
HandlerErrCountsDown(e) ==
  /\ pc[e] = "handler"
  /\ try' = [try EXCEPT ![e] = @ - 1]
  /\ Goto(e, IF try[e] - 1 > 0 THEN "backoff" ELSE "fail")
  /\ UNCHANGED <<wf, input, out, act, last, pos, val, cp, record, counters, completions>>

\* MUTANT of HandlerErr: the attempts are not counted.
HandlerErrForever(e) ==
  /\ pc[e] = "handler"
  /\ Goto(e, "backoff")
  /\ UNCHANGED <<wf, input, out, act, last, pos, try, val, cp, record, counters, completions>>

\* An error is retried after a backoff while attempts are left.
HandlerErr(e) ==
  /\ pc[e] = "handler"
  /\ try' = [try EXCEPT ![e] = @ + 1]
  /\ Goto(e, IF try[e] + 1 <= wf.retries[Current(e)] THEN "backoff" ELSE "fail")
  /\ UNCHANGED <<wf, input, out, act, last, pos, val, cp, record, counters, completions>>

BackoffOver(e) ==
  /\ pc[e] = "backoff"
  /\ Goto(e, "handler")
  /\ UNCHANGED <<wf, input, out, act, last, pos, try, val, cp, record, counters, completions>>

\* A timeout or a panic is final: neither is retried.
HandlerTimeout(e) ==
  /\ pc[e] = "handler"
  /\ Goto(e, "fail")
  /\ UNCHANGED <<wf, input, out, act, last, pos, try, val, cp, record, counters, completions>>

\* MUTANT of FileResult: the checkpoint is saved before the result is filed.
FileResultLate(e) ==
  /\ pc[e] = "file"
  /\ \/ /\ SaveAs("running", out[e], Current(e))
        /\ out' = [out EXCEPT ![e] = [@ EXCEPT ![Current(e)] = val[e]]]
        /\ last' = [last EXCEPT ![e] = Current(e)]
        /\ pos' = [pos EXCEPT ![e] = @ + 1]
        /\ try' = [try EXCEPT ![e] = 0]
        /\ val' = [val EXCEPT ![e] = Absent]
        /\ Goto(e, "loop")
        /\ UNCHANGED act
     \/ SaveError /\ Return(e)
  /\ UNCHANGED <<wf, input, record, begins, crashes, completions>>

\* The result is filed and checkpointed; a failing save ends the call, the
\* run record left as it is.
FileResult(e) ==
  /\ pc[e] = "file"
  /\ LET o == [out[e] EXCEPT ![Current(e)] = val[e]] IN
       \/ /\ SaveAs("running", o, Current(e))
          /\ out' = [out EXCEPT ![e] = o]
          /\ last' = [last EXCEPT ![e] = Current(e)]
          /\ pos' = [pos EXCEPT ![e] = @ + 1]
          /\ try' = [try EXCEPT ![e] = 0]
          /\ val' = [val EXCEPT ![e] = Absent]
          /\ Goto(e, "loop")
          /\ UNCHANGED act
       \/ SaveError /\ Return(e)
  /\ UNCHANGED <<wf, input, record, begins, crashes, completions>>

-----------------------------------------------------------------------------
\* A failed node: the run store is told first (its error is ignored) ...
FailRun(e) ==
  /\ pc[e] = "fail"
  /\ record' = IF record = "none" THEN "none" ELSE "failed"
  /\ Goto(e, "failSave")
  /\ UNCHANGED <<wf, input, out, act, last, pos, try, val, cp, counters, completions>>

\* MUTANT of FailSave: the failed run is checkpointed as Completed.
FailSaveCompleted(e) ==
  /\ pc[e] = "failSave"
  /\ SaveAs("completed", out[e], last[e]) \/ SaveError
  /\ Return(e)
  /\ UNCHANGED <<wf, input, record, begins, crashes, completions>>

\* ... then a Failed checkpoint without the node is saved (its error is
\* ignored too) and the call returns.
FailSave(e) ==
  /\ pc[e] = "failSave"
  /\ SaveAs("failed", out[e], last[e]) \/ SaveError
  /\ Return(e)
  /\ UNCHANGED <<wf, input, record, begins, crashes, completions>>

FinishRun(e) ==
  /\ pc[e] = "finish"
  /\ record' = IF record = "none" THEN "none" ELSE "finished"
  /\ Goto(e, "finishSave")
  /\ UNCHANGED <<wf, input, out, act, last, pos, try, val, cp, counters, completions>>

FinishSave(e) ==
  /\ pc[e] = "finishSave"
  /\ SaveAs("completed", out[e], last[e]) \/ SaveError
  /\ Return(e)
  /\ UNCHANGED <<wf, input, record, begins, crashes, completions>>

\* The process dies: every executor's state and the in-memory run store are
\* gone, the checkpoint file stays.
Crash ==
  /\ crashes < MaxCrashes
  /\ \E e \in Executor : pc[e] # "idle"
  /\ crashes' = crashes + 1
  /\ pc' = [e \in Executor |-> "idle"]
  /\ out' = [e \in Executor |-> NoResults]
  /\ act' = [e \in Executor |-> {}]
  /\ last' = [e \in Executor |-> NoNode]
  /\ pos' = [e \in Executor |-> 1]
  /\ try' = [e \in Executor |-> 0]
  /\ val' = [e \in Executor |-> Absent]
  /\ record' = "none"
  /\ UNCHANGED <<wf, input, cp, begins, saveErrors, completions>>

-----------------------------------------------------------------------------
Walk(e) == Break(e) \/ PassRecorded(e) \/ SkipInactive(e) \/ StartNode(e) \/ Acquire(e)

Handler(e) == HandlerOk(e) \/ HandlerErr(e) \/ BackoffOver(e) \/ HandlerTimeout(e)

Settle(e) == FileResult(e) \/ FailRun(e) \/ FailSave(e) \/ FinishRun(e) \/ FinishSave(e)

Step(e) == Walk(e) \/ Handler(e) \/ Settle(e)

Next ==
  \/ \E e \in Executor : Begin(e) \/ Step(e)
  \/ Crash

Spec == Init /\ [][Next]_vars

\* tokio polls a ready task again and a handler call ends, by its timeout at
\* the latest; nothing obliges a caller to begin or the process to crash.
FairSpec == Spec /\ \A e \in Executor : WF_vars(Step(e))

-----------------------------------------------------------------------------
TypeOK ==
  /\ wf \in Workflows
  /\ input \in RunInputs
  /\ pc \in [Executor -> PC]
  /\ out \in [Executor -> Results]
  /\ act \in [Executor -> SUBSET Key]
  /\ last \in [Executor -> Key \cup {NoNode}]
  /\ pos \in [Executor -> Nat \ {0}]
  /\ try \in [Executor -> Nat]
  /\ val \in [Executor -> Output \cup {Absent}]
  /\ cp \in [status : {"none", "running", "failed", "completed"},
             last : Key \cup {NoNode}, res : Results]
  /\ record \in {"none", "running", "failed", "finished"}
  /\ begins \in Nat /\ crashes \in Nat /\ saveErrors \in Nat
  /\ completions \in [Node -> Nat]

\* The executor has a node's task in hand.
Busy(e) == pc[e] \in {"acquire", "handler", "backoff", "file"}

\* Results closed under predecessors.
Closed(res) ==
  \A n \in wf.node \ {InputKey} : res[n] # Absent =>
    \A p \in Preds(wf, n) : res[p] # Absent

\* No node before its dependencies: what is in the checkpoint is closed under
\* predecessors, and a task is in hand only for a node whose predecessors are
\* all on its executor's record.  Crashes, resumption from another executor's
\* checkpoint and overlapping executors included (execute_core's traversal).
PredecessorsFirst ==
  /\ Closed(cp.res)
  /\ \A e \in Executor : Busy(e) =>
       \A p \in Preds(wf, Current(e)) : out[e][p] # Absent

RanOnRecord(n) == cp.res[n] # Absent /\ ~cp.res[n].skipped

\* The branches a checkpoint shows as run and as skipped are the ones its own
\* outputs select, however many times the run was interrupted on the way: the
\* active set a resume reconstructs from the results (SeedActive) selects as
\* the one that was lost would have.
BranchesHonoured ==
  \A n \in wf.node \ {InputKey} : cp.res[n] # Absent =>
    (RanOnRecord(n) <=>
       \/ Preds(wf, n) = {}
       \/ \E x \in Incoming(wf, n) : RanOnRecord(x.src) /\ EdgeTaken(x.on, cp.res[x.src]))

NothingLeft(res) ==
  \/ \A n \in Ordered(wf) : res[n] # Absent
  \/ wf.failFast /\ \E k \in Recorded(res) : res[k].error

\* A checkpoint says Completed only when every node the iterator reaches has a
\* result or a skip marker, or fail_fast stopped the run at an error.
CompletedIsComplete == cp.status = "completed" => NothingLeft(cp.res)

\* The inductive strengthening of the two: the part of the order an executor
\* has walked is on its record, which is closed and complete at the end.
Walked(e) ==
  /\ \A j \in 1..(pos[e] - 1) : out[e][wf.order[j]] # Absent
  /\ Closed(out[e])
  /\ pc[e] = "idle" => pos[e] = 1
  /\ pc[e] = "file" => val[e] # Absent
  /\ pc[e] \in {"finish", "finishSave"} => NothingLeft(out[e])

WalkInv ==
  /\ \A e \in Executor : Walked(e)
  /\ Closed(cp.res)
  /\ CompletedIsComplete

\* Of a run that is executed by one executor at a time: a node with a result in the
\* checkpoint is never run again, after whatever sequence of crashes and resumptions,
\* and a handler returns Ok for one node at most once more than there were crashes and
\* lost checkpoints.
ReworkBounded ==
  /\ \A e \in Executor : Busy(e) => cp.res[Current(e)] = Absent
  /\ \A n \in Node : completions[n] <= 1 + crashes + saveErrors

\* Once the run store says finished, the checkpoint (with the run input, which
\* the caller still has) holds everything: a crash or a lost save before the
\* Completed checkpoint makes no node run again.
FinishedIsDurable ==
  record = "finished" => NothingLeft([cp.res EXCEPT ![InputKey] = input])

\* "lets a run survive an interruption and be driven to the correct final
\* state": whatever interrupted a completed run, the nodes that ran are the
\* sources and those with a taken edge from a node that ran, and the output that is
\* reported is that of the last of them, also when the process that ran it is long gone
\* or the checkpoint named a skipped node.  (No handler is assumed to return an output
\* that looks like a skip marker.)
CorrectFinalState ==
  cp.status = "completed" =>
    /\ \A n \in wf.node : cp.res[n] # Absent =>
         (completions[n] > 0 <=>
            \/ Preds(wf, n) = {}
            \/ \E x \in Incoming(wf, n) :
                 completions[x.src] > 0 /\ EdgeTaken(x.on, cp.res[x.src]))
    /\ \A i \in 1..Len(wf.order) :
         (/\ RanOnRecord(wf.order[i])
          /\ \A j \in (i + 1)..Len(wf.order) : ~RanOnRecord(wf.order[j])) =>
           cp.last = wf.order[i]

\* Every call of execute_core returns or dies with the process.
EveryCallReturns == \A e \in Executor : (pc[e] # "idle" ~> pc[e] = "idle")

-----------------------------------------------------------------------------
\* What the code's comments say and a run shows otherwise.

\* "already-completed nodes are not re-run (idempotent / exactly-once)":
\* every handler returns Ok at most once, whatever interrupts the run.
ExactlyOnce == \A n \in Node : completions[n] <= 1

\* "A source node (no incoming edges) is always active and receives the run
\* input": a run that completes without fail_fast has run its source nodes.
SourcesRun ==
  cp.status = "completed" /\ ~wf.failFast =>
    \A n \in wf.node : Preds(wf, n) = {} => completions[n] > 0

-----------------------------------------------------------------------------
\* The checkpoint of one run, through crashes and resumptions, implements the
\* abstract run.
Run ==
  INSTANCE DagRun
    WITH ran <- SeedActive(cp.res),
         res <- [cp.res EXCEPT ![InputKey] = Absent],
         status <- IF cp.status = "none" THEN "running" ELSE cp.status,
         StopsOnError <- TRUE

ImplementsDagRun == Run!Spec
=============================================================================
