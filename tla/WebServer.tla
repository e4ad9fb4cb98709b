----------------------------- MODULE WebServer -----------------------------
(***************************************************************************)
(* The web server of gaussflow-web: two sharded maps, of workflows and of  *)
(* executions, that API calls and the background task of each execution    *)
(* read and write on the threads of one runtime, and the events they       *)
(* broadcast.  A call is its handler: one action per access to a map or to *)
(* the broadcast channel, so that any other call or task may step between  *)
(* two of them.  What a handler does to an entry it holds is one action.   *)
(***************************************************************************)
EXTENDS Naturals, Sequences, FiniteSets

CONSTANTS
  Calls,      \* API calls, each made once at any time: the bound on a run's length
  Api,        \* the operations that clients call
  WfId,       \* workflow ids: those of Samples, and those a new workflow may get
  Samples,    \* the workflows loaded at startup
  ExecId,     \* ids that a new execution may get
  Name,       \* workflow names
  Node,       \* nodes of workflows
  Document,   \* the specifications that clients send
  Input,      \* the key of the run input among the outputs of a run
  ShardOf,    \* the shard of a map that an id hashes to
  Shards      \* the number of shards: 1..Shards

ASSUME ShardsAssumption ==
  Shards \in Nat \ {0} /\ ShardOf \in [WfId \cup ExecId -> 1..Shards]
ASSUME IdsAssumption == Samples \subseteq WfId /\ WfId \cap ExecId = {}
ASSUME DocumentAssumption ==
  /\ Document \subseteq [parses : BOOLEAN, nodes : SUBSET Node]
  /\ IsFiniteSet(Node)

VARIABLES
  workflows,   \* the map of workflows
  executions,  \* the map of executions
  task,        \* run_execution, per execution
  call,        \* the handler of each API call
  held,        \* the entries that each call keeps a reference to across its steps
  told,        \* the events broadcast so far about each workflow and execution
  steady       \* history: executions Running ever since a delete_workflow began

vars == <<workflows, executions, task, call, held, told, steady>>

Ids == WfId \cup ExecId

WorkflowStatus == {"draft", "active", "paused", "archived"}
ExecutionStatus == {"running", "completed", "failed", "cancelled", "paused"}
Terminal == {"completed", "failed", "cancelled"}

\* The entry of a key written or overwritten, and removed.
Put(map, k, v) == [x \in DOMAIN map \cup {k} |-> IF x = k THEN v ELSE map[x]]
Drop(map, k) == [x \in DOMAIN map \ {k} |-> map[x]]

NewWorkflow(name, spec, status) ==
  [name |-> name, spec |-> spec, status |-> status, version |-> 1]

NewExecution(w) ==
  [workflow |-> w, status |-> "running", done |-> <<>>, progress |-> 0,
   finished |-> FALSE, error |-> FALSE]

Event(kind, what) == [kind |-> kind, what |-> what]

Tell(id, e) == told' = [told EXCEPT ![id] = Append(@, e)]

-----------------------------------------------------------------------------
(* A dashmap entry is locked with its shard.  An access that ends within one *)
(* action leaves nothing locked; two handlers keep a reference while they    *)
(* ask for a write lock, and never get it if the shard is the same.          *)

SameLock(i, j) == ShardOf[i] = ShardOf[j] /\ (i \in WfId <=> j \in WfId)

\* dashmap: the write lock of id's shard waits for the references into it, those
\* of the call itself included.
Writable(id) == ~\E c \in Calls : \E r \in held[c] : SameLock(r, id)

Busy == {c \in Calls : call[c].pc \notin {"new", "answered"}}

\* Ids that nothing in the server knows: Uuid::new_v4.
Fresh(id) ==
  /\ id \notin DOMAIN workflows \cup DOMAIN executions \cup Samples
  /\ told[id] = <<>>
  /\ id \notin {call[c].id : c \in Busy}

Answer(c) == call' = [call EXCEPT ![c] = [pc |-> "answered"]]

New(c, op) == call[c].pc = "new" /\ op \in Api

RunningOf(w, execs) ==
  {e \in DOMAIN execs : execs[e].workflow = w /\ execs[e].status = "running"}

\* The executions of a workflow that have been Running since its deletion began.
Observe ==
  steady' = [c \in Calls |->
    IF call'[c].pc \notin {"scan", "remove"} THEN {}
    ELSE IF call[c].pc = "new" THEN RunningOf(call'[c].id, executions)
    ELSE steady[c] \cap RunningOf(call[c].id, executions')]

-----------------------------------------------------------------------------
Init ==
  /\ workflows \in [Samples -> {NewWorkflow(name, doc, "active") :
                                 name \in Name, doc \in {d \in Document : d.parses}}]
  /\ executions = <<>>
  /\ task = [e \in ExecId |-> [pc |-> "none"]]
  /\ call = [c \in Calls |-> [pc |-> "new"]]
  /\ held = [c \in Calls |-> {}]
  /\ told = [id \in Ids |-> <<>>]
  /\ steady = [c \in Calls |-> {}]

(* The handlers of workflows. *)

\* create_workflow, up to the insert.
CreateWorkflow(c) ==
  /\ New(c, "create")
  /\ \E name \in Name, doc \in Document, id \in WfId :
       IF doc.parses
         THEN /\ Fresh(id)
              /\ call' = [call EXCEPT ![c] =
                   [pc |-> "insert", id |-> id, rec |-> NewWorkflow(name, doc, "active")]]
         ELSE Answer(c)
  /\ UNCHANGED <<workflows, executions, task, told, held>>
  /\ Observe

\* The insert of create_workflow and of duplicate_workflow.
InsertWorkflow(c) ==
  /\ call[c].pc = "insert" /\ call[c].id \in WfId
  /\ Writable(call[c].id)
  /\ workflows' = Put(workflows, call[c].id, call[c].rec)
  /\ call' = [call EXCEPT ![c] =
       [pc |-> "tell", id |-> call[c].id, event |-> Event("created", call[c].rec)]]
  /\ UNCHANGED <<executions, task, told, held>>
  /\ Observe

\* The record that an accepted update leaves.
Revised(w, name, doc, status) ==
  [w EXCEPT !.name = name, !.spec = doc, !.status = status, !.version = @ + 1]

\* MUTANT of Refused: the specification is assigned before it is validated.
RefusedLate(w, name, doc) == [w EXCEPT !.name = name, !.spec = doc]

\* The record left by an update whose specification is refused: the name was
\* assigned before the specification was looked at.
Refused(w, name, doc) == [w EXCEPT !.name = name]

\* update_workflow holds the entry until the record is complete.  An unknown
\* workflow and an empty name are refused without a change.
UpdateWorkflow(c) ==
  /\ New(c, "update")
  /\ \E w \in WfId :
       /\ Writable(w)
       /\ \/ Answer(c) /\ UNCHANGED workflows
          \/ \E name \in Name, doc \in Document, status \in WorkflowStatus :
               LET rec == IF doc.parses THEN Revised(workflows[w], name, doc, status)
                                        ELSE Refused(workflows[w], name, doc)
               IN /\ w \in DOMAIN workflows
                  /\ workflows' = Put(workflows, w, rec)
                  /\ IF doc.parses
                       THEN call' = [call EXCEPT ![c] =
                              [pc |-> "tell", id |-> w, event |-> Event("updated", rec)]]
                       ELSE Answer(c)
  /\ UNCHANGED <<executions, task, told, held>>
  /\ Observe

\* duplicate_workflow, up to the insert: its reference to the original stays until
\* the copy is inserted and announced.
DuplicateWorkflow(c) ==
  /\ New(c, "duplicate")
  /\ \E w \in WfId :
       \/ w \notin DOMAIN workflows /\ Answer(c) /\ UNCHANGED held
       \/ /\ w \in DOMAIN workflows
          /\ held' = [held EXCEPT ![c] = {w}]
          /\ \E id \in WfId :
               /\ Fresh(id)
               /\ call' = [call EXCEPT ![c] =
                    [pc |-> "insert", id |-> id,
                     rec |-> NewWorkflow(workflows[w].name, workflows[w].spec, "draft")]]
  /\ UNCHANGED <<workflows, executions, task, told>>
  /\ Observe

BeginDelete(c) ==
  /\ New(c, "delete")
  /\ \E w \in WfId : call' = [call EXCEPT ![c] = [pc |-> "scan", id |-> w, shard |-> 1]]
  /\ UNCHANGED <<workflows, executions, task, told, held>>
  /\ Observe

\* MUTANT of LastShard: the last shard is not visited.
LastShardOffByOne(c) == call[c].shard + 1 >= Shards

LastShard(c) == call[c].shard = Shards

\* has_running: the iterator locks one shard of the executions at a time.
ScanShard(c) ==
  /\ call[c].pc = "scan"
  /\ LET here == {e \in RunningOf(call[c].id, executions) : ShardOf[e] = call[c].shard} IN
     IF here # {}
       THEN Answer(c)
       ELSE call' = [call EXCEPT ![c] =
              IF LastShard(c) THEN [pc |-> "remove", id |-> call[c].id]
                              ELSE [call[c] EXCEPT !.shard = @ + 1]]
  /\ UNCHANGED <<workflows, executions, task, told, held>>
  /\ Observe

\* MUTANT of RemoveWorkflow: a workflow already gone is announced as deleted again.
RemoveWorkflowAnyway(c) ==
  /\ call[c].pc = "remove" /\ Writable(call[c].id)
  /\ workflows' = Drop(workflows, call[c].id)
  /\ call' = [call EXCEPT ![c] =
       [pc |-> "tell", id |-> call[c].id, event |-> Event("deleted", call[c].id)]]
  /\ UNCHANGED <<executions, task, told, held>>
  /\ Observe

RemoveWorkflow(c) ==
  /\ call[c].pc = "remove" /\ Writable(call[c].id)
  /\ IF call[c].id \in DOMAIN workflows
       THEN /\ workflows' = Drop(workflows, call[c].id)
            /\ call' = [call EXCEPT ![c] =
                 [pc |-> "tell", id |-> call[c].id, event |-> Event("deleted", call[c].id)]]
       ELSE Answer(c) /\ UNCHANGED workflows
  /\ UNCHANGED <<executions, task, told, held>>
  /\ Observe

(* The handlers of executions. *)

\* execute_workflow reads the workflow first; what it runs is this copy.
LookUp(c) ==
  /\ New(c, "execute")
  /\ \E w \in WfId :
       IF w \in DOMAIN workflows /\ workflows[w].status = "active"
         THEN \E e \in ExecId :
                /\ Fresh(e)
                /\ call' = [call EXCEPT ![c] = [pc |-> "insert", id |-> e,
                              rec |-> NewExecution(w), spec |-> workflows[w].spec]]
         ELSE Answer(c)
  /\ UNCHANGED <<workflows, executions, task, told, held>>
  /\ Observe

InsertExecution(c) ==
  /\ call[c].pc = "insert" /\ call[c].id \in ExecId
  /\ Writable(call[c].id)
  /\ executions' = Put(executions, call[c].id, call[c].rec)
  /\ call' = [call EXCEPT ![c] = [@ EXCEPT !.pc = "start"]]
  /\ UNCHANGED <<workflows, task, told, held>>
  /\ Observe

\* The start is announced, the task spawned, the call answered.
StartExecution(c) ==
  /\ call[c].pc = "start"
  /\ Tell(call[c].id, Event("started", call[c].rec))
  /\ task' = [task EXCEPT ![call[c].id] = [pc |-> "engine", spec |-> call[c].spec]]
  /\ Answer(c)
  /\ UNCHANGED <<workflows, executions, held>>
  /\ Observe

MayCancel(x) == x.status \in {"running", "paused"}

CancelExecution(c) ==
  /\ New(c, "cancel")
  /\ \E e \in ExecId :
       /\ Writable(e)
       /\ IF e \in DOMAIN executions /\ MayCancel(executions[e])
            THEN /\ executions' = [executions EXCEPT ![e].status = "cancelled",
                                                     ![e].finished = TRUE]
                 /\ call' = [call EXCEPT ![c] =
                      [pc |-> "tell", id |-> e, event |-> Event("cancelled", e)]]
            ELSE Answer(c) /\ UNCHANGED executions
  /\ UNCHANGED <<workflows, task, told, held>>
  /\ Observe

PauseExecution(c) ==
  /\ New(c, "pause")
  /\ \E e \in ExecId :
       /\ Writable(e)
       /\ IF e \in DOMAIN executions /\ executions[e].status = "running"
            THEN executions' = [executions EXCEPT ![e].status = "paused"]
            ELSE UNCHANGED executions
  /\ Answer(c)
  /\ UNCHANGED <<workflows, task, told, held>>
  /\ Observe

\* MUTANT of MayResume: whatever is not running can be resumed.
MayResumeAny(x) == x.status # "running"

MayResume(x) == x.status = "paused"

ResumeExecution(c) ==
  /\ New(c, "resume")
  /\ \E e \in ExecId :
       /\ Writable(e)
       /\ IF e \in DOMAIN executions /\ MayResume(executions[e])
            THEN executions' = [executions EXCEPT ![e].status = "running"]
            ELSE UNCHANGED executions
  /\ Answer(c)
  /\ UNCHANGED <<workflows, task, told, held>>
  /\ Observe

\* delete_execution: the reference that the match is on lives to its end, so the
\* remove inside it waits for the very lock its own call holds, for good.
DeleteExecution(c) ==
  /\ New(c, "deleteExecution")
  /\ \E e \in ExecId :
       IF e \in DOMAIN executions /\ executions[e].status # "running"
         THEN /\ call' = [call EXCEPT ![c] = [pc |-> "stuck", id |-> e]]
              /\ held' = [held EXCEPT ![c] = {e}]
         ELSE Answer(c) /\ UNCHANGED held
  /\ UNCHANGED <<workflows, executions, task, told>>
  /\ Observe

\* The event goes out, after the entry that was changed is released; nobody listening
\* is no error.  The call returns and keeps nothing.
TellOutcome(c) ==
  /\ call[c].pc = "tell"
  /\ Tell(call[c].id, call[c].event)
  /\ Answer(c)
  /\ held' = [held EXCEPT ![c] = {}]
  /\ UNCHANGED <<workflows, executions, task>>
  /\ Observe

-----------------------------------------------------------------------------
(* run_execution, the background task of execution e.  Its entry is never   *)
(* gone: no delete_execution gets as far as removing it.                    *)

\* The outputs that count as nodes.
Reported(outputs) == outputs \ {Input}

\* The engine returns outputs, of some of the nodes and of the run input.
EngineOk(e) ==
  /\ task[e].pc = "engine"
  /\ \E ran \in SUBSET task[e].spec.nodes :
       task' = [task EXCEPT ![e] = [pc |-> "report", outputs |-> ran \cup {Input},
                                    todo |-> Reported(ran \cup {Input})]]
  /\ UNCHANGED <<workflows, executions, call, told, held>>
  /\ Observe

AtLeast1(n) == IF n = 0 THEN 1 ELSE n

Percent(done, total) == (done * 100) \div total

\* MUTANT of ReportNode: the task stops at an execution that is paused.
ReportNodeUnlessPaused(e) ==
  /\ task[e].pc = "report" /\ Writable(e)
  /\ executions[e].status # "paused"
  /\ \E n \in task[e].todo :
       /\ executions' = [executions EXCEPT ![e].done = Append(@, n)]
       /\ task' = [task EXCEPT ![e] = [pc |-> "tellNode", outputs |-> @.outputs,
                                       todo |-> @.todo \ {n}, node |-> n]]
  /\ UNCHANGED <<workflows, call, told, held>>
  /\ Observe

\* One output is copied into the record, with the progress that makes.
ReportNode(e) ==
  /\ task[e].pc = "report" /\ Writable(e)
  /\ \E n \in task[e].todo :
       LET done == Append(executions[e].done, n)
           total == AtLeast1(Cardinality(task[e].outputs \ {Input}))
       IN /\ executions' = [executions EXCEPT ![e].done = done,
                                              ![e].progress = Percent(Len(done), total)]
          /\ task' = [task EXCEPT ![e] = [pc |-> "tellNode", outputs |-> @.outputs,
                                          todo |-> @.todo \ {n}, node |-> n]]
  /\ UNCHANGED <<workflows, call, told, held>>
  /\ Observe

TellNode(e) ==
  /\ task[e].pc = "tellNode"
  /\ Tell(e, Event("nodeCompleted", task[e].node))
  /\ task' = [task EXCEPT ![e] = [pc |-> "report", outputs |-> @.outputs, todo |-> @.todo]]
  /\ UNCHANGED <<workflows, executions, call, held>>
  /\ Observe

\* MUTANT of Completed: the time of the end is left to a later step.
CompletedUnfinished(x) == [x EXCEPT !.status = "completed", !.progress = 100]

\* The final records of a run that ended well and of one that failed.
Completed(x) == [x EXCEPT !.status = "completed", !.finished = TRUE, !.progress = 100]
Failed(x) == [x EXCEPT !.status = "failed", !.finished = TRUE, !.error = TRUE]

\* The final record is announced before its entry is released.
Finish(e, rec) ==
  /\ Writable(e)
  /\ executions' = [executions EXCEPT ![e] = rec]
  /\ Tell(e, Event(rec.status, rec))
  /\ task' = [task EXCEPT ![e] = [pc |-> "ended", outputs |->
                IF task[e].pc = "report" THEN task[e].outputs ELSE {}]]
  /\ UNCHANGED <<workflows, call, held>>
  /\ Observe

FinishOk(e) ==
  /\ task[e].pc = "report" /\ task[e].todo = {}
  /\ Finish(e, Completed(executions[e]))

EngineErr(e) ==
  /\ task[e].pc = "engine"
  /\ Finish(e, Failed(executions[e]))

-----------------------------------------------------------------------------
CallStep(c) ==
  \/ CreateWorkflow(c) \/ InsertWorkflow(c) \/ UpdateWorkflow(c) \/ DuplicateWorkflow(c)
  \/ BeginDelete(c) \/ ScanShard(c) \/ RemoveWorkflow(c)
  \/ LookUp(c) \/ InsertExecution(c) \/ StartExecution(c)
  \/ CancelExecution(c) \/ PauseExecution(c) \/ ResumeExecution(c) \/ DeleteExecution(c)
  \/ TellOutcome(c)

TaskStep(e) == EngineOk(e) \/ ReportNode(e) \/ TellNode(e) \/ FinishOk(e) \/ EngineErr(e)

Next ==
  \/ \E c \in Calls : CallStep(c)
  \/ \E e \in ExecId : TaskStep(e)

Spec == Init /\ [][Next]_vars

\* A handler's thread goes on, and the engine ends every run.  A client need
\* not make another call.
Fairness ==
  /\ \A c \in Calls : WF_vars(call[c].pc # "new" /\ CallStep(c))
  /\ \A e \in ExecId : WF_vars(TaskStep(e))

FairSpec == Spec /\ Fairness

-----------------------------------------------------------------------------
(* Properties.                                                             *)

Workflow == [name : Name, spec : {d \in Document : d.parses}, status : WorkflowStatus,
             version : Nat]
Execution == [workflow : WfId, status : ExecutionStatus, done : Seq(Node \cup {Input}),
              progress : Nat, finished : BOOLEAN, error : BOOLEAN]

TellCall(kinds, ids, whats) ==
  [pc : {"tell"}, id : ids, event : [kind : kinds, what : whats]]

Call ==
  [pc : {"new", "answered"}] \cup [pc : {"stuck", "remove"}, id : Ids]
  \cup [pc : {"scan"}, id : WfId, shard : 1..Shards]
  \cup [pc : {"insert"}, id : WfId, rec : Workflow]
  \cup [pc : {"insert", "start"}, id : ExecId, rec : Execution,
        spec : {d \in Document : d.parses}]
  \cup TellCall({"created", "updated"}, WfId, Workflow)
  \cup TellCall({"deleted"}, WfId, WfId) \cup TellCall({"cancelled"}, ExecId, ExecId)

Outputs == SUBSET (Node \cup {Input})

Task ==
  [pc : {"none"}] \cup [pc : {"engine"}, spec : {d \in Document : d.parses}]
  \cup [pc : {"report"}, outputs : Outputs, todo : Outputs]
  \cup [pc : {"tellNode"}, outputs : Outputs, todo : Outputs, node : Node \cup {Input}]
  \cup [pc : {"ended"}, outputs : Outputs]

\* Types.  A workflow in the map has a specification that the engine's parser
\* accepts: a refused update does not leave one that run_execution would choke on.
TypeOK ==
  /\ DOMAIN workflows \subseteq WfId
  /\ \A w \in DOMAIN workflows : workflows[w] \in Workflow
  /\ DOMAIN executions \subseteq ExecId
  /\ \A e \in DOMAIN executions : executions[e] \in Execution
  /\ task \in [ExecId -> Task]
  /\ call \in [Calls -> Call]
  /\ held \in [Calls -> SUBSET Ids]
  /\ DOMAIN told = Ids
  /\ steady \in [Calls -> SUBSET ExecId]

Kinds(id) == {told[id][i].kind : i \in DOMAIN told[id]}

\* An execution has the time of its end exactly while it is completed, failed or
\* cancelled: no order of cancel, pause, resume and the engine's end leaves a
\* finished one running or an ended one without its time.  The record of a completed one
\* lists every node of which the engine gave an output, once each, and nothing else.
FinishedIffTerminal ==
  \A e \in DOMAIN executions :
    /\ executions[e].finished <=> executions[e].status \in Terminal
    /\ executions[e].status = "completed" =>
         LET done == executions[e].done IN
         /\ {done[i] : i \in DOMAIN done} = task[e].outputs \ {Input}
         /\ Len(done) = Cardinality(task[e].outputs \ {Input})

\* What the engine reported at its end stands: no later call changes the record
\* of an execution that completed or failed.  Until then progress never goes back.
EngineVerdictStands ==
  [][\A e \in DOMAIN executions :
       /\ executions[e].status \in {"completed", "failed"} => executions'[e] = executions[e]
       /\ executions'[e].progress \in executions[e].progress..100
       /\ executions'[e].status = "completed" => executions'[e].progress = 100]_vars

\* A client that was told the end of an execution was told the record as it is:
\* the completed or failed event carries what the map holds ever after.
ToldIsTrue ==
  \A e \in ExecId : \A i \in DOMAIN told[e] :
    told[e][i].kind \in {"completed", "failed"} =>
      e \in DOMAIN executions /\ executions[e] = told[e][i].what

\* No event of a run reaches the clients before the start of its execution, which
\* is what makes the dashboard list it.
StartToldFirst ==
  \A e \in ExecId : \A i \in DOMAIN told[e] :
    told[e][i].kind \in {"nodeCompleted", "completed", "failed"} =>
      \E j \in 1..i - 1 : told[e][j].kind = "started"

\* What is broadcast is true, begins with the start, and is said once about the same
\* workflow or execution: a version of a workflow, a deletion, a node, an end.
NothingToldTwice ==
  /\ ToldIsTrue /\ StartToldFirst
  /\ \A id \in Ids : \A i, j \in DOMAIN told[id] :
       told[id][i].kind = told[id][j].kind /\ told[id][i].what = told[id][j].what => i = j

\* A workflow is not deleted while an execution of it has been Running all the
\* time since the deletion was asked for.
DeleteHonoursRunning ==
  \A c \in Calls : call[c].pc = "remove" => steady[c] = {}

\* Every execution ends in the engine's verdict, paused or cancelled as it may be, unless
\* a deletion that waits for itself keeps the lock of its shard: then run_execution waits
\* for its own record for ever.  Executions in other shards are not held up.
ExecutionsEndUnlessHeld ==
  \A e \in ExecId :
    e \in DOMAIN executions ~>
      \/ e \in DOMAIN executions /\ executions[e].status \in {"completed", "failed"}
      \/ \E c \in Calls : call[c].pc = "stuck" /\ SameLock(call[c].id, e)

\* Every call is answered: no handler waits for ever for another or for itself.
\* That holds without deletions of executions and duplications; the message
\* "Cannot delete a running execution. Cancel it first." promises it with them.
EveryCallAnswered ==
  \A c \in Calls : call[c].pc # "new" ~> call[c].pc = "answered"

-----------------------------------------------------------------------------
(* What the code's own messages say, and its steps do not keep.             *)

\* "Execution cancelled by user": a cancelled execution is not reported as
\* completed or failed later.
CancelledStays ==
  [][\A e \in DOMAIN executions :
       executions[e].status = "cancelled" => executions'[e].status = "cancelled"]_vars
=============================================================================
