-------------------------- MODULE WebServer_proofs --------------------------
(***************************************************************************)
(* The web server's records and events, for any number of calls, clients,  *)
(* workflows, executions and shards, and every interleaving of handlers    *)
(* and background tasks.                                                   *)
(***************************************************************************)
EXTENDS WebServer, FiniteSetTheorems, TLAPS

-----------------------------------------------------------------------------
(* The inductive invariant.                                                 *)

WorkflowEvents ==
  [kind : {"created", "updated"}, what : Workflow] \cup [kind : {"deleted"}, what : WfId]

ExecutionEvents ==
  [kind : {"started", "completed", "failed"}, what : Execution]
  \cup [kind : {"nodeCompleted"}, what : Node \cup {Input}]
  \cup [kind : {"cancelled"}, what : ExecId]

ToldType ==
  /\ told \in [Ids -> Seq(WorkflowEvents \cup ExecutionEvents)]
  /\ \A w \in WfId : told[w] \in Seq(WorkflowEvents)
  /\ \A e \in ExecId : told[e] \in Seq(ExecutionEvents)

\* An id about to be inserted is new to the maps and to the clients, and of no other
\* call but deletions; an execution about to be started has no task.
IdInv ==
  /\ \A c \in Calls : call[c].pc = "insert" =>
       /\ call[c].id \notin DOMAIN workflows \cup DOMAIN executions
       /\ told[call[c].id] = <<>>
  /\ \A c, d \in Calls :
       c # d /\ call[c].pc = "insert" /\ call[d].pc \in {"insert", "start", "tell", "stuck"}
         => call[c].id # call[d].id
  /\ \A c \in Calls : call[c].pc = "insert" /\ call[c].id \in ExecId =>
       \E w \in WfId : call[c].rec = NewExecution(w)
  /\ \A c \in Calls : call[c].pc = "start" =>
       call[c].id \in DOMAIN executions /\ task[call[c].id].pc = "none"
  /\ \A c, d \in Calls : c # d /\ call[c].pc = "start" /\ call[d].pc = "start"
       => call[c].id # call[d].id

\* An event is broadcast, or waits in one call to be, once.
OnceInv ==
  /\ \A id \in Ids : \A i, j \in DOMAIN told[id] : told[id][i] = told[id][j] => i = j
  /\ \A c \in Calls : call[c].pc = "tell" =>
       \A i \in DOMAIN told[call[c].id] : told[call[c].id][i] # call[c].event
  /\ \A c, d \in Calls :
       c # d /\ call[c].pc = "tell" /\ call[d].pc = "tell" /\ call[c].id = call[d].id
         => call[c].event # call[d].event

\* What was or is about to be said of a workflow in the map: versions it has had.
Past(event, w) == event.kind # "deleted" /\ event.what.version <= w.version

VersionInv ==
  \A w \in DOMAIN workflows :
    /\ \A i \in DOMAIN told[w] : Past(told[w][i], workflows[w])
    /\ \A c \in Calls : call[c].pc = "tell" /\ call[c].id = w => Past(call[c].event, workflows[w])

\* An execution whose cancellation was or is about to be announced never runs again.
IsOver(e) == e \in DOMAIN executions /\ executions[e].status \in Terminal

CancelInv ==
  /\ \A e \in ExecId : \A i \in DOMAIN told[e] : told[e][i].kind = "cancelled" => IsOver(e)
  /\ \A c \in Calls : call[c].pc = "tell" /\ call[c].id \in ExecId => IsOver(call[c].id)

RecordInv ==
  \A e \in DOMAIN executions :
    /\ executions[e].finished <=> executions[e].status \in Terminal
    /\ executions[e].status \in {"completed", "failed"} <=> task[e].pc = "ended"
    /\ executions[e].progress <= 100
    /\ executions[e].status = "completed" => executions[e].progress = 100

KindsIn(s, kinds) == \A i \in DOMAIN s : s[i].kind \in kinds

\* The record lists exactly these nodes, once each.
Lists(done, nodes) ==
  {done[i] : i \in DOMAIN done} = nodes /\ Len(done) = Cardinality(nodes)

NothingDone(x) == x.done = <<>> /\ x.progress = 0

\* Of the engine's outputs, all but those still to do are in the record; those told
\* are, the one about to be told is not told yet.
Reporting(x, t, s) ==
  /\ t.todo \subseteq Reported(t.outputs)
  /\ Lists(x.done, Reported(t.outputs) \ t.todo)
  /\ x.progress = Percent(Len(x.done), AtLeast1(Cardinality(Reported(t.outputs))))
  /\ \A i \in DOMAIN s : s[i].kind = "nodeCompleted" => s[i].what \notin t.todo

TaskInv(e) ==
  LET x == executions[e]
      t == task[e]
  IN /\ t.pc = "none" => /\ e \in DOMAIN executions => NothingDone(x)
                         /\ KindsIn(told[e], {"cancelled"})
     /\ t.pc # "none" => /\ e \in DOMAIN executions
                         /\ \E i \in DOMAIN told[e] : told[e][i].kind = "started"
     /\ t.pc = "engine" => NothingDone(x) /\ KindsIn(told[e], {"cancelled", "started"})
     /\ t.pc \in {"report", "tellNode"} =>
          /\ Reporting(x, t, told[e])
          /\ KindsIn(told[e], {"cancelled", "started", "nodeCompleted"})
     /\ t.pc = "tellNode" =>
          /\ t.node \notin t.todo
          /\ \A i \in DOMAIN told[e] : told[e][i].kind = "nodeCompleted" => told[e][i].what # t.node
     /\ t.pc = "ended" /\ x.status = "completed" => Lists(x.done, Reported(t.outputs))

\* The running executions that a deletion has not come across are in shards ahead.
SteadyInv ==
  \A c \in Calls :
    /\ call[c].pc = "scan" => \A e \in steady[c] : ShardOf[e] >= call[c].shard
    /\ call[c].pc = "remove" => steady[c] = {}

Inv ==
  /\ TypeOK /\ ToldType /\ IdInv /\ OnceInv /\ VersionInv /\ CancelInv /\ RecordInv
  /\ ToldIsTrue /\ StartToldFirst /\ SteadyInv
  /\ \A e \in ExecId : TaskInv(e)

-----------------------------------------------------------------------------
(* Helpers.                                                                 *)

LEMMA AppendFacts ==
  ASSUME NEW S, NEW s \in Seq(S), NEW x \in S
  PROVE  /\ Append(s, x) \in Seq(S)
         /\ Len(Append(s, x)) = Len(s) + 1
         /\ Len(s) \in Nat
         /\ DOMAIN s = 1..Len(s)
         /\ DOMAIN Append(s, x) = 1..(Len(s) + 1)
         /\ \A i \in 1..Len(s) : Append(s, x)[i] = s[i]
         /\ Append(s, x)[Len(s) + 1] = x
  OBVIOUS

LEMMA CallFacts ==
  ASSUME TypeOK, NEW c \in Calls
  PROVE  /\ call[c].pc \in {"new", "answered", "stuck", "remove", "scan", "insert", "start", "tell"}
         /\ call[c].pc \in {"stuck", "remove"} => call[c] \in [pc : {"stuck", "remove"}, id : Ids]
         /\ call[c].pc = "scan" => call[c] \in [pc : {"scan"}, id : WfId, shard : 1..Shards]
         /\ call[c].pc = "insert" =>
              \/ call[c] \in [pc : {"insert"}, id : WfId, rec : Workflow]
              \/ call[c] \in [pc : {"insert"}, id : ExecId, rec : Execution,
                               spec : {d \in Document : d.parses}]
         /\ call[c].pc = "start" =>
              call[c] \in [pc : {"start"}, id : ExecId, rec : Execution,
                           spec : {d \in Document : d.parses}]
         /\ call[c].pc = "tell" =>
              \/ call[c] \in [pc : {"tell"}, id : WfId, event : WorkflowEvents]
              \/ call[c] \in [pc : {"tell"}, id : ExecId,
                               event : [kind : {"cancelled"}, what : ExecId]]
<1>1. call[c] \in Call
  BY DEF TypeOK
<1> QED
  BY <1>1 DEF Call, TellCall, WorkflowEvents

LEMMA TaskFacts ==
  ASSUME TypeOK, NEW e \in ExecId
  PROVE  /\ task[e].pc \in {"none", "engine", "report", "tellNode", "ended"}
         /\ task[e].pc = "engine" => task[e].spec \in {d \in Document : d.parses}
         /\ task[e].pc \in {"report", "tellNode"} => task[e].outputs \in Outputs /\ task[e].todo \in Outputs
         /\ task[e].pc = "tellNode" => task[e].node \in Node \cup {Input}
         /\ task[e].pc = "ended" => task[e].outputs \in Outputs
<1>1. task[e] \in Task
  BY DEF TypeOK
<1> QED
  BY <1>1 DEF Task

LEMMA TimesGrows ==
  ASSUME NEW m \in Nat, NEW p \in Nat, NEW q \in Nat, p > q
  PROVE  m * p >= m * q + m
<1>1. p = q + 1 + (p - q - 1) /\ p - q - 1 \in Nat
  OBVIOUS
<1>2. \A d \in Nat : m * (q + 1 + d) = m * q + m + m * d /\ m * d >= 0
  OBVIOUS
<1>3. m * p = m * q + m + m * (p - q - 1) /\ m * (p - q - 1) >= 0
  BY <1>1, <1>2
<1>4. m * q \in Nat /\ m * (p - q - 1) \in Nat
  BY <1>1
<1> QED
  BY <1>3, <1>4

LEMMA QuotientsGrow ==
  ASSUME NEW a \in Nat, NEW b \in Nat, a <= b, NEW m \in Nat, m >= 1
  PROVE  /\ a \div m \in Nat
         /\ a \div m <= b \div m
         /\ a <= m * 100 => a \div m <= 100
         /\ 0 \div m = 0
<1> DEFINE p == a \div m
           q == b \div m
<1>1. /\ p \in Nat /\ a = m * p + (a % m) /\ a % m \in 0..(m - 1)
      /\ q \in Nat /\ b = m * q + (b % m) /\ b % m \in 0..(m - 1)
  OBVIOUS
<1> HIDE DEF p, q
<1>2. m * p \in Nat /\ m * q \in Nat /\ m * 100 \in Nat
  BY <1>1
<1>3. ~(p > q)
  <2>1. p > q => m * p >= m * q + m
    BY <1>1, TimesGrows
  <2> QED
    BY <1>1, <1>2, <2>1
<1>4. a <= m * 100 => ~(p > 100)
  <2>1. p > 100 => m * p >= m * 100 + m
    BY <1>1, TimesGrows
  <2> QED
    BY <1>1, <1>2, <2>1
<1>5. 0 \div m = 0
  OBVIOUS
<1>6. p \in Nat /\ p <= q /\ (a <= m * 100 => p <= 100)
  BY <1>1, <1>3, <1>4
<1> QED
  BY <1>5, <1>6 DEF p, q

\* Shares of a total, in percent.
LEMMA PercentFacts ==
  ASSUME NEW k \in Nat, NEW n \in Nat
  PROVE  /\ Percent(k, AtLeast1(n)) \in Nat
         /\ k <= n => Percent(k, AtLeast1(n)) <= 100
         /\ Percent(0, AtLeast1(n)) = 0
         /\ Percent(k, AtLeast1(n)) <= Percent(k + 1, AtLeast1(n))
<1> DEFINE m == AtLeast1(n)
<1>1. m \in Nat /\ m >= 1 /\ n <= m
  BY DEF AtLeast1
<1> HIDE DEF m
<1>2. /\ k * 100 \in Nat /\ (k + 1) * 100 \in Nat /\ k * 100 <= (k + 1) * 100
      /\ k <= n => k * 100 <= m * 100
      /\ 0 * 100 = 0
  BY <1>1
<1>3. /\ (k * 100) \div m \in Nat
      /\ (k * 100) \div m <= ((k + 1) * 100) \div m
      /\ k <= n => (k * 100) \div m <= 100
      /\ 0 \div m = 0
  BY <1>1, <1>2, QuotientsGrow
<1> QED
  BY <1>2, <1>3 DEF Percent, m

LEMMA FiniteNodes ==
  ASSUME NEW outputs \in Outputs
  PROVE  IsFiniteSet(outputs) /\ IsFiniteSet(Reported(outputs))
<1>1. IsFiniteSet(Node \cup {Input})
  BY FS_AddElement, DocumentAssumption
<1>2. outputs \subseteq Node \cup {Input} /\ Reported(outputs) \subseteq Node \cup {Input}
  BY DEF Outputs, Reported
<1> QED
  BY <1>1, <1>2, FS_Subset

LEMMA IdsApart == WfId \cap ExecId = {} /\ Samples \subseteq WfId
  BY IdsAssumption

LEMMA ObservedType ==
  ASSUME TypeOK, Observe
  PROVE  steady' \in [Calls -> SUBSET ExecId]
<1>1. \A w : RunningOf(w, executions) \subseteq ExecId
  BY DEF TypeOK, RunningOf
<1>2. \A c \in Calls : steady[c] \subseteq ExecId
  BY DEF TypeOK
<1> QED
  BY <1>1, <1>2 DEF Observe

\* A step of a call changes no other call and no task but the one it starts.
LEMMA OtherCalls ==
  ASSUME TypeOK, NEW c \in Calls, CallStep(c)
  PROVE  /\ Observe
         /\ \E r : call' = [call EXCEPT ![c] = r]
         /\ DOMAIN call' = Calls
         /\ \A d \in Calls : d # c => call'[d] = call[d]
<1>1. DOMAIN call = Calls
  BY DEF TypeOK
<1>2. Observe /\ \E r : call' = [call EXCEPT ![c] = r]
  BY DEF CallStep, CreateWorkflow, InsertWorkflow, UpdateWorkflow, DuplicateWorkflow,
     BeginDelete, ScanShard, RemoveWorkflow, LookUp, InsertExecution, StartExecution,
     CancelExecution, PauseExecution, ResumeExecution, DeleteExecution, TellOutcome, Answer
<1> QED
  BY <1>1, <1>2

-----------------------------------------------------------------------------
(* What a step of a call does to the records, whichever handler makes it.   *)

Turns(c, r) == call' = [call EXCEPT ![c] = r]

\* Nothing, but that the call goes on, is stuck or is answered.
QuietAs(c, r) ==
  /\ Turns(c, r) /\ r.pc \in {"answered", "scan", "remove", "stuck"}
  /\ r.pc = "stuck" => r.id \in DOMAIN workflows \cup DOMAIN executions

Quiet(c) == UNCHANGED <<workflows, executions, task, told>> /\ \E r : QuietAs(c, r)

\* It chooses the id of a workflow or of an execution that it will insert.
ReserveAs(c, r) ==
  /\ Turns(c, r) /\ r.pc = "insert" /\ r.id \in Ids /\ Fresh(r.id)
  /\ r.id \in ExecId => \E w \in WfId : r.rec = NewExecution(w)

Reserve(c) == UNCHANGED <<workflows, executions, task, told>> /\ \E r : ReserveAs(c, r)

\* It writes a workflow of the map, as a new version if the call is to say so.
Rewrite(c) ==
  /\ UNCHANGED <<executions, task, told>>
  /\ \E w \in DOMAIN workflows, rec \in Workflow :
       /\ workflows' = Put(workflows, w, rec)
       /\ \/ rec.version = workflows[w].version /\ Turns(c, [pc |-> "answered"])
          \/ /\ rec.version = workflows[w].version + 1
             /\ Turns(c, [pc |-> "tell", id |-> w, event |-> Event("updated", rec)])

Removes(c) ==
  /\ UNCHANGED <<executions, task, told>>
  /\ \E w \in DOMAIN workflows :
       /\ workflows' = Drop(workflows, w)
       /\ Turns(c, [pc |-> "tell", id |-> w, event |-> Event("deleted", w)])

\* It cancels, pauses or resumes an execution that is running or paused.
Steer(c) ==
  /\ UNCHANGED <<workflows, task, told>>
  /\ \E e \in DOMAIN executions, status \in ExecutionStatus, finished \in BOOLEAN :
       /\ executions[e].status \in {"running", "paused"}
       /\ executions' = [executions EXCEPT ![e] =
             [@ EXCEPT !.status = status, !.finished = finished]]
       /\ \/ /\ status \in {"running", "paused"} /\ finished = executions[e].finished
             /\ Turns(c, [pc |-> "answered"])
          \/ /\ status = "cancelled" /\ finished = TRUE
             /\ Turns(c, [pc |-> "tell", id |-> e, event |-> Event("cancelled", e)])

LEMMA RevisedType ==
  ASSUME TypeOK, NEW w \in DOMAIN workflows, NEW name \in Name, NEW doc \in Document,
         NEW status \in WorkflowStatus
  PROVE  /\ doc.parses => /\ Revised(workflows[w], name, doc, status) \in Workflow
                          /\ Revised(workflows[w], name, doc, status).version
                               = workflows[w].version + 1
         /\ Refused(workflows[w], name, doc) \in Workflow
         /\ Refused(workflows[w], name, doc).version = workflows[w].version
<1>1. workflows[w] \in Workflow
  BY DEF TypeOK
<1>2. workflows[w].version \in Nat /\ workflows[w].version + 1 \in Nat
  BY <1>1 DEF Workflow
<1>3. doc.parses => Revised(workflows[w], name, doc, status) \in Workflow
  BY <1>1, <1>2 DEF Workflow, Revised
<1>4. Refused(workflows[w], name, doc) \in Workflow
  BY <1>1 DEF Workflow, Refused
<1>5. Refused(workflows[w], name, doc).version = workflows[w].version
  BY <1>1 DEF Workflow, Refused
<1>6. Revised(workflows[w], name, doc, status).version = workflows[w].version + 1
  BY <1>1 DEF Workflow, Revised
<1> QED
  BY <1>3, <1>4, <1>5, <1>6

LEMMA NewType ==
  /\ \A name \in Name, doc \in Document, status \in WorkflowStatus :
       doc.parses => NewWorkflow(name, doc, status) \in Workflow
  /\ \A w \in WfId : NewExecution(w) \in Execution
BY DEF NewWorkflow, NewExecution, Workflow, Execution, WorkflowStatus, ExecutionStatus

LEMMA AnswerIsQuiet ==
  ASSUME NEW c, Answer(c), UNCHANGED <<workflows, executions, task, told>>
  PROVE  Quiet(c)
<1> DEFINE r == [pc |-> "answered"]
<1>1. Turns(c, r) /\ r.pc = "answered"
  BY DEF Answer, Turns
<1> HIDE DEF r
<1> QED
  BY <1>1 DEF Quiet, QuietAs

LEMMA TurnIsQuiet ==
  ASSUME NEW c, NEW r, QuietAs(c, r), UNCHANGED <<workflows, executions, task, told>>
  PROVE  Quiet(c)
BY DEF Quiet

LEMMA CallEffects ==
  ASSUME TypeOK, NEW c \in Calls, CallStep(c)
  PROVE  \/ Quiet(c) \/ Reserve(c) \/ InsertWorkflow(c) \/ Rewrite(c) \/ Removes(c)
         \/ InsertExecution(c) \/ StartExecution(c) \/ Steer(c)
         \/ TellOutcome(c)
<1>1. CASE CreateWorkflow(c)
  <2>1. PICK name \in Name, doc \in Document, id \in WfId :
          IF doc.parses
            THEN /\ Fresh(id)
                 /\ Turns(c, [pc |-> "insert", id |-> id, rec |-> NewWorkflow(name, doc, "active")])
            ELSE Answer(c)
    BY <1>1 DEF CreateWorkflow, Turns
  <2>2. UNCHANGED <<workflows, executions, task, told>>
    BY <1>1 DEF CreateWorkflow
  <2>3. CASE doc.parses
    BY <2>1, <2>2, <2>3, IdsApart DEF Reserve, ReserveAs, Ids
  <2>4. CASE ~doc.parses
    BY <2>1, <2>2, <2>4, AnswerIsQuiet
  <2> QED
    BY <2>3, <2>4
<1>2. CASE UpdateWorkflow(c)
  <2>1. PICK w \in WfId :
          \/ Answer(c) /\ UNCHANGED workflows
          \/ \E name \in Name, doc \in Document, status \in WorkflowStatus :
               LET rec == IF doc.parses THEN Revised(workflows[w], name, doc, status)
                                        ELSE Refused(workflows[w], name, doc)
               IN /\ w \in DOMAIN workflows
                  /\ workflows' = Put(workflows, w, rec)
                  /\ IF doc.parses
                       THEN Turns(c, [pc |-> "tell", id |-> w, event |-> Event("updated", rec)])
                       ELSE Answer(c)
    BY <1>2 DEF UpdateWorkflow, Turns
  <2>2. UNCHANGED <<executions, task, told>>
    BY <1>2 DEF UpdateWorkflow
  <2>3. CASE Answer(c) /\ UNCHANGED workflows
    BY <2>2, <2>3, AnswerIsQuiet
  <2>4. ASSUME NEW name \in Name, NEW doc \in Document, NEW status \in WorkflowStatus,
               w \in DOMAIN workflows, doc.parses,
               workflows' = Put(workflows, w, Revised(workflows[w], name, doc, status)),
               Turns(c, [pc |-> "tell", id |-> w,
                         event |-> Event("updated", Revised(workflows[w], name, doc, status))])
        PROVE  Rewrite(c)
    BY <2>2, <2>4, RevisedType DEF Rewrite
  <2>5. ASSUME NEW name \in Name, NEW doc \in Document, NEW status \in WorkflowStatus,
               w \in DOMAIN workflows,
               workflows' = Put(workflows, w, Refused(workflows[w], name, doc)), Answer(c)
        PROVE  Rewrite(c)
    BY <2>2, <2>5, RevisedType DEF Rewrite, Answer, Turns
  <2> QED
    BY <2>1, <2>3, <2>4, <2>5
<1>3. CASE DuplicateWorkflow(c)
  <2>1. PICK w \in WfId :
          \/ Answer(c)
          \/ \E id \in WfId :
               /\ Fresh(id)
               /\ Turns(c, [pc |-> "insert", id |-> id,
                            rec |-> NewWorkflow(workflows[w].name, workflows[w].spec, "draft")])
    BY <1>3 DEF DuplicateWorkflow, Turns
  <2>2. UNCHANGED <<workflows, executions, task, told>>
    BY <1>3 DEF DuplicateWorkflow
  <2>3. CASE Answer(c)
    BY <2>2, <2>3, AnswerIsQuiet
  <2>4. ASSUME NEW id \in WfId, Fresh(id),
               Turns(c, [pc |-> "insert", id |-> id,
                         rec |-> NewWorkflow(workflows[w].name, workflows[w].spec, "draft")])
        PROVE  Reserve(c)
    BY <2>2, <2>4, IdsApart DEF Reserve, ReserveAs, Ids
  <2> QED
    BY <2>1, <2>3, <2>4
<1>4. CASE BeginDelete(c) \/ ScanShard(c)
  <2>1. UNCHANGED <<workflows, executions, task, told>>
    BY <1>4 DEF BeginDelete, ScanShard
  <2>2. CASE BeginDelete(c)
    <3>1. PICK w \in WfId : Turns(c, [pc |-> "scan", id |-> w, shard |-> 1])
      BY <2>2 DEF BeginDelete, Turns
    <3>2. QuietAs(c, [pc |-> "scan", id |-> w, shard |-> 1])
      BY <3>1 DEF QuietAs
    <3> QED
      BY <2>1, <3>2, TurnIsQuiet
  <2>3. CASE ScanShard(c)
    <3>1. call[c].pc = "scan" /\ call[c] \in [pc : {"scan"}, id : WfId, shard : 1..Shards]
      BY <2>3, CallFacts DEF ScanShard
    <3>2. \/ Answer(c)
          \/ Turns(c, [pc |-> "remove", id |-> call[c].id])
          \/ Turns(c, [call[c] EXCEPT !.shard = @ + 1])
      <4>1. \/ Answer(c)
            \/ call' = [call EXCEPT ![c] = IF LastShard(c) THEN [pc |-> "remove", id |-> call[c].id]
                                            ELSE [call[c] EXCEPT !.shard = @ + 1]]
        BY <2>3 DEF ScanShard
      <4>2. DOMAIN call = Calls
        BY DEF TypeOK
      <4>3. CASE LastShard(c)
        BY <4>1, <4>3 DEF Turns
      <4>4. CASE ~LastShard(c)
        BY <4>1, <4>2, <4>4 DEF Turns
      <4> QED
        BY <4>3, <4>4
    <3>3. [call[c] EXCEPT !.shard = @ + 1].pc = "scan"
      BY <3>1
    <3> QED
      BY <2>1, <3>2, <3>3 DEF Quiet, QuietAs, Answer, Turns
  <2> QED
    BY <1>4, <2>2, <2>3
<1>5. CASE RemoveWorkflow(c)
  BY <1>5 DEF RemoveWorkflow, Removes, Quiet, QuietAs, Answer, Turns
<1>6. CASE LookUp(c)
  <2>1. PICK w \in WfId :
          \/ Answer(c)
          \/ \E e \in ExecId :
               /\ Fresh(e)
               /\ Turns(c, [pc |-> "insert", id |-> e, rec |-> NewExecution(w),
                            spec |-> workflows[w].spec])
    BY <1>6 DEF LookUp, Turns
  <2>2. UNCHANGED <<workflows, executions, task, told>>
    BY <1>6 DEF LookUp
  <2>3. CASE Answer(c)
    BY <2>2, <2>3, AnswerIsQuiet
  <2>4. ASSUME NEW e \in ExecId, Fresh(e),
               Turns(c, [pc |-> "insert", id |-> e, rec |-> NewExecution(w),
                         spec |-> workflows[w].spec])
        PROVE  Reserve(c)
    BY <2>2, <2>4 DEF Reserve, ReserveAs, Ids
  <2> QED
    BY <2>1, <2>3, <2>4
<1>7. CASE CancelExecution(c)
  <2>1. PICK e \in ExecId :
          \/ Answer(c) /\ UNCHANGED executions
          \/ /\ e \in DOMAIN executions /\ MayCancel(executions[e])
             /\ executions' = [executions EXCEPT ![e].status = "cancelled", ![e].finished = TRUE]
             /\ Turns(c, [pc |-> "tell", id |-> e, event |-> Event("cancelled", e)])
    BY <1>7 DEF CancelExecution, Turns
  <2>2. UNCHANGED <<workflows, task, told>>
    BY <1>7 DEF CancelExecution
  <2>3. CASE Answer(c) /\ UNCHANGED executions
    BY <2>2, <2>3, AnswerIsQuiet
  <2>4. ASSUME e \in DOMAIN executions, MayCancel(executions[e]),
               executions' = [executions EXCEPT ![e].status = "cancelled", ![e].finished = TRUE],
               Turns(c, [pc |-> "tell", id |-> e, event |-> Event("cancelled", e)])
        PROVE  Steer(c)
    <3>1. executions' = [executions EXCEPT ![e] =
             [@ EXCEPT !.status = "cancelled", !.finished = TRUE]]
      BY <2>4
    <3> QED
      BY <2>2, <2>4, <3>1 DEF Steer, MayCancel, ExecutionStatus
  <2> QED
    BY <2>1, <2>3, <2>4
<1>8. CASE PauseExecution(c) \/ ResumeExecution(c)
  <2>1. UNCHANGED <<workflows, task, told>> /\ Turns(c, [pc |-> "answered"])
    BY <1>8 DEF PauseExecution, ResumeExecution, Answer, Turns
  <2>2. \/ UNCHANGED executions
        \/ \E e \in DOMAIN executions, status \in {"running", "paused"} :
             /\ executions[e].status \in {"running", "paused"}
             /\ executions' = [executions EXCEPT ![e].status = status]
    BY <1>8 DEF PauseExecution, ResumeExecution, MayResume
  <2>3. CASE UNCHANGED executions
    BY <2>1, <2>3 DEF Quiet, QuietAs
  <2>4. ASSUME NEW e \in DOMAIN executions, NEW status \in {"running", "paused"},
               executions[e].status \in {"running", "paused"},
               executions' = [executions EXCEPT ![e].status = status]
        PROVE  Steer(c)
    <3>1. executions[e] \in Execution
      BY DEF TypeOK
    <3>2. [executions[e] EXCEPT !.status = status]
            = [executions[e] EXCEPT !.status = status, !.finished = executions[e].finished]
      BY <3>1 DEF Execution
    <3>3. executions[e].finished \in BOOLEAN
      BY <3>1 DEF Execution
    <3> QED
      BY <2>1, <2>4, <3>2, <3>3 DEF Steer, ExecutionStatus
  <2> QED
    BY <2>2, <2>3, <2>4
<1>9. CASE DeleteExecution(c)
  <2>1. UNCHANGED <<workflows, executions, task, told>>
    BY <1>9 DEF DeleteExecution
  <2>2. \/ Answer(c)
        \/ \E e \in DOMAIN executions : QuietAs(c, [pc |-> "stuck", id |-> e])
    BY <1>9 DEF DeleteExecution, QuietAs, Turns
  <2> QED
    BY <2>1, <2>2, AnswerIsQuiet, TurnIsQuiet
<1> QED
  BY <1>1, <1>2, <1>3, <1>4, <1>5, <1>6, <1>7, <1>8, <1>9 DEF CallStep

-----------------------------------------------------------------------------
(* Types.                                                                   *)

LEMMA CallTyped ==
  ASSUME TypeOK, NEW c \in Calls, CallStep(c)
  PROVE  call' \in [Calls -> Call]
<1> SUFFICES call'[c] \in Call
  BY OtherCalls DEF TypeOK
<1>1. DOMAIN call = Calls
  BY DEF TypeOK
<1>2. CASE Answer(c)
  BY <1>1, <1>2 DEF Answer, Call
<1>3. ASSUME NEW w \in WfId, NEW rec \in Workflow, NEW kind \in {"created", "updated"},
             Turns(c, [pc |-> "tell", id |-> w, event |-> Event(kind, rec)])
      PROVE  call'[c] \in Call
  BY <1>1, <1>3 DEF Turns, Call, TellCall, Event
<1>6. CASE Removes(c)
  BY <1>1, <1>6 DEF TypeOK, Removes, Turns, Call, TellCall, Event
<1>8. CASE CreateWorkflow(c)
  <2>1. PICK name \in Name, doc \in Document, id \in WfId :
          \/ Answer(c)
          \/ doc.parses /\
             call' = [call EXCEPT ![c] =
               [pc |-> "insert", id |-> id, rec |-> NewWorkflow(name, doc, "active")]]
    BY <1>8 DEF CreateWorkflow
  <2>2. doc.parses => NewWorkflow(name, doc, "active") \in Workflow
    BY NewType DEF WorkflowStatus
  <2> QED
    BY <1>1, <1>2, <2>1, <2>2 DEF Call
<1>9. CASE InsertWorkflow(c)
  <2>1. call[c].pc = "insert" /\ call[c].id \in WfId /\ call[c].id \notin ExecId
    BY <1>9, IdsApart DEF InsertWorkflow
  <2>2. call[c].rec \in Workflow
    BY <2>1, CallFacts
  <2> QED
    BY <1>3, <1>9, <2>1, <2>2 DEF InsertWorkflow, Turns
<1>10. CASE DuplicateWorkflow(c)
  <2>1. PICK w \in WfId :
          \/ Answer(c)
          \/ /\ w \in DOMAIN workflows
             /\ \E id \in WfId : Turns(c, [pc |-> "insert", id |-> id, rec |->
                  NewWorkflow(workflows[w].name, workflows[w].spec, "draft")])
    BY <1>10 DEF DuplicateWorkflow, Turns
  <2>2. w \in DOMAIN workflows =>
          NewWorkflow(workflows[w].name, workflows[w].spec, "draft") \in Workflow
    BY NewType DEF TypeOK, Workflow, WorkflowStatus
  <2> QED
    BY <1>1, <1>2, <2>1, <2>2 DEF Turns, Call
<1>11. CASE BeginDelete(c)
  BY <1>1, <1>11, ShardsAssumption DEF BeginDelete, Call
<1>12. CASE ScanShard(c)
  <2>1. call[c] \in [pc : {"scan"}, id : WfId, shard : 1..Shards]
    BY <1>12, CallFacts DEF ScanShard
  <2>2. \/ Answer(c)
        \/ call' = [call EXCEPT ![c] = IF LastShard(c) THEN [pc |-> "remove", id |-> call[c].id]
                                        ELSE [call[c] EXCEPT !.shard = @ + 1]]
    BY <1>12 DEF ScanShard
  <2>3. ~LastShard(c) => [call[c] EXCEPT !.shard = @ + 1] \in [pc : {"scan"}, id : WfId, shard : 1..Shards]
    BY <2>1, ShardsAssumption DEF LastShard
  <2>4. LastShard(c) => [pc |-> "remove", id |-> call[c].id] \in [pc : {"stuck", "remove"}, id : Ids]
    BY <2>1 DEF Ids
  <2>5. CASE ~Answer(c) /\ LastShard(c)
    BY <1>1, <2>2, <2>4, <2>5 DEF Call
  <2>6. CASE ~Answer(c) /\ ~LastShard(c)
    BY <1>1, <2>2, <2>3, <2>6 DEF Call
  <2> QED
    BY <1>2, <2>5, <2>6
<1>13. CASE RemoveWorkflow(c)
  <2>1. CASE Removes(c)
    BY <1>6, <2>1
  <2>2. CASE Answer(c)
    BY <1>2, <2>2
  <2> QED
    BY <1>13, <2>1, <2>2 DEF RemoveWorkflow, Removes, Turns
<1>14. CASE LookUp(c)
  <2>1. PICK w \in WfId :
          \/ Answer(c)
          \/ /\ w \in DOMAIN workflows
             /\ \E e \in ExecId : Turns(c, [pc |-> "insert", id |-> e, rec |-> NewExecution(w),
                                           spec |-> workflows[w].spec])
    BY <1>14 DEF LookUp, Turns
  <2>2. w \in DOMAIN workflows => workflows[w].spec \in {d \in Document : d.parses}
    BY DEF TypeOK, Workflow
  <2>3. NewExecution(w) \in Execution
    BY NewType
  <2>4. ASSUME NEW e \in ExecId, w \in DOMAIN workflows,
               Turns(c, [pc |-> "insert", id |-> e, rec |-> NewExecution(w),
                         spec |-> workflows[w].spec])
        PROVE  call'[c] \in Call
    BY <1>1, <2>2, <2>3, <2>4 DEF Call, Turns
  <2> QED
    BY <1>2, <2>1, <2>4
<1>15. CASE InsertExecution(c)
  <2>1. call[c].pc = "insert" /\ call[c].id \in ExecId /\ call[c].id \notin WfId
    BY <1>15, IdsApart DEF InsertExecution
  <2>2. call[c] \in [pc : {"insert"}, id : ExecId, rec : Execution,
                     spec : {d \in Document : d.parses}]
    BY <2>1, CallFacts
  <2>3. call'[c] = [call[c] EXCEPT !.pc = "start"]
    BY <1>1, <1>15 DEF InsertExecution
  <2>4. call'[c] \in [pc : {"insert", "start"}, id : ExecId, rec : Execution,
                      spec : {d \in Document : d.parses}]
    BY <2>2, <2>3
  <2> QED
    BY <2>4 DEF Call
<1>16. CASE StartExecution(c) \/ TellOutcome(c) \/ PauseExecution(c) \/ ResumeExecution(c)
  BY <1>2, <1>16 DEF StartExecution, TellOutcome, PauseExecution, ResumeExecution
<1>17. CASE UpdateWorkflow(c) \/ CancelExecution(c)
  <2>1. CASE UpdateWorkflow(c)
    <3>1. PICK w \in WfId :
            \/ Answer(c)
            \/ \E name \in Name, doc \in Document, status \in WorkflowStatus :
                 /\ w \in DOMAIN workflows /\ doc.parses
                 /\ Turns(c, [pc |-> "tell", id |-> w,
                              event |-> Event("updated", Revised(workflows[w], name, doc, status))])
      BY <2>1 DEF UpdateWorkflow, Turns
    <3> QED
      BY <1>2, <1>3, <3>1, RevisedType
  <2>2. CASE CancelExecution(c)
    <3>1. PICK e \in ExecId :
            \/ Answer(c)
            \/ Turns(c, [pc |-> "tell", id |-> e, event |-> Event("cancelled", e)])
      BY <2>2 DEF CancelExecution, Turns
    <3> QED
      BY <1>1, <1>2, <3>1 DEF Turns, Call, TellCall, Event
  <2> QED
    BY <1>17, <2>1, <2>2
<1>18. CASE DeleteExecution(c)
  BY <1>1, <1>2, <1>18 DEF DeleteExecution, Call, Ids
<1> QED
  BY <1>8, <1>9, <1>10, <1>11, <1>12, <1>13, <1>14, <1>15, <1>16, <1>17, <1>18 DEF CallStep

\* The events that may be told about an id.
EventsOf(id) == IF id \in WfId THEN WorkflowEvents ELSE ExecutionEvents

\* An event is added to those of an id, at this place.
AddedAt(id, event, k) ==
  /\ DOMAIN told'[id] = DOMAIN told[id] \cup {k}
  /\ told'[id][k] = event
  /\ \A i \in DOMAIN told[id] : i \in Nat /\ i >= 1 /\ i < k /\ told'[id][i] = told[id][i]

LEMMA TellFacts ==
  ASSUME ToldType, NEW id \in Ids, NEW event \in EventsOf(id), Tell(id, event)
  PROVE  /\ ToldType'
         /\ \A o \in Ids : o # id => told'[o] = told[o]
         /\ \E k \in Nat : AddedAt(id, event, k)
<1> DEFINE s == told[id]
           k == Len(s) + 1
<1>1. id \in WfId => id \notin ExecId
  BY IdsApart
<1>2. s \in Seq(EventsOf(id)) /\ DOMAIN told = Ids
  BY <1>1 DEF ToldType, EventsOf, Ids
<1>3. told'[id] = Append(s, event) /\ \A o \in Ids : o # id => told'[o] = told[o]
  BY <1>2 DEF Tell
<1>4. /\ Append(s, event) \in Seq(EventsOf(id))
      /\ Len(s) \in Nat /\ DOMAIN s = 1..Len(s)
      /\ DOMAIN Append(s, event) = 1..(Len(s) + 1)
      /\ \A i \in 1..Len(s) : Append(s, event)[i] = s[i]
      /\ Append(s, event)[Len(s) + 1] = event
  <2> HIDE DEF s
  <2> QED
    BY <1>2, AppendFacts
<1>5. told' = [o \in Ids |-> told'[o]]
  BY <1>2 DEF Tell
<1>6. ToldType'
  <2>1. \A w \in WfId : told'[w] \in Seq(WorkflowEvents)
    BY <1>1, <1>3, <1>4 DEF ToldType, EventsOf, Ids
  <2>2. \A e \in ExecId : told'[e] \in Seq(ExecutionEvents)
    BY <1>1, <1>3, <1>4, IdsApart DEF ToldType, EventsOf, Ids
  <2>3. \A o \in Ids : told'[o] \in Seq(WorkflowEvents \cup ExecutionEvents)
    <3>1. Append(s, event) \in Seq(WorkflowEvents \cup ExecutionEvents)
      <4>1. s \in Seq(WorkflowEvents \cup ExecutionEvents)
            /\ event \in WorkflowEvents \cup ExecutionEvents
        BY DEF ToldType, EventsOf
      <4> HIDE DEF s
      <4> QED
        BY <4>1, AppendFacts
    <3> QED
      BY <1>3, <3>1 DEF ToldType
  <2> QED
    BY <1>5, <2>1, <2>2, <2>3 DEF ToldType
<1>7. /\ k \in Nat /\ DOMAIN told'[id] = DOMAIN told[id] \cup {k}
      /\ told'[id][k] = event
      /\ \A i \in DOMAIN told[id] : i \in Nat /\ i >= 1 /\ i < k /\ told'[id][i] = told[id][i]
  BY <1>3, <1>4
<1> HIDE DEF k
<1> QED
  BY <1>3, <1>6, <1>7 DEF AddedAt

\* The tasks' steps, and what each needs of the record it writes.
LEMMA TaskAlone ==
  ASSUME TypeOK, NEW e \in ExecId, TaskStep(e)
  PROVE  /\ Observe /\ UNCHANGED <<workflows, call, held>>
         /\ \E t : task' = [task EXCEPT ![e] = t]
         /\ \A d \in ExecId : d # e => task'[d] = task[d]
         /\ DOMAIN executions' = DOMAIN executions
         /\ \A d \in DOMAIN executions : d # e => executions'[d] = executions[d]
<1>1. DOMAIN task = ExecId
  BY DEF TypeOK
<1>2. /\ Observe /\ UNCHANGED <<workflows, call, held>>
      /\ \E t : task' = [task EXCEPT ![e] = t]
      /\ UNCHANGED executions \/ \E x : executions' = [executions EXCEPT ![e] = x]
  <2>1. CASE EngineOk(e) \/ TellNode(e)
    BY <2>1 DEF EngineOk, TellNode
  <2>2. CASE ReportNode(e)
    <3>1. \E done, progress :
            executions' = [executions EXCEPT ![e].done = done, ![e].progress = progress]
      BY <2>2 DEF ReportNode
    <3>2. \E x : executions' = [executions EXCEPT ![e] = x]
      BY <3>1
    <3> QED
      BY <2>2, <3>2 DEF ReportNode
  <2>3. CASE FinishOk(e) \/ EngineErr(e)
    BY <2>3 DEF FinishOk, EngineErr, Finish
  <2> QED
    BY <2>1, <2>2, <2>3 DEF TaskStep
<1> QED
  BY <1>1, <1>2

Reports(e, n) ==
  /\ task[e].pc = "report" /\ e \in DOMAIN executions /\ UNCHANGED told
  /\ DOMAIN executions' = DOMAIN executions
  /\ task'[e] = [pc |-> "tellNode", outputs |-> task[e].outputs,
                 todo |-> task[e].todo \ {n}, node |-> n]
  /\ executions'[e] \in Execution
  /\ executions'[e].status = executions[e].status
  /\ executions'[e].finished = executions[e].finished
  /\ executions'[e].done = Append(executions[e].done, n)
  /\ executions'[e].progress = Percent(Len(executions[e].done) + 1,
        AtLeast1(Cardinality(Reported(task[e].outputs))))

LEMMA ReportNodeFacts ==
  ASSUME TypeOK, NEW e \in ExecId, TaskInv(e), ReportNode(e)
  PROVE  \E n \in task[e].todo : Reports(e, n)
<1>1. /\ task[e].pc = "report" /\ e \in DOMAIN executions
      /\ DOMAIN task = ExecId /\ executions[e] \in Execution
      /\ task[e].outputs \in Outputs /\ task[e].todo \in Outputs
  BY TaskFacts DEF ReportNode, TaskInv, TypeOK
<1> DEFINE total == Cardinality(Reported(task[e].outputs))
<1>2. PICK n \in task[e].todo :
         /\ executions' = [executions EXCEPT
               ![e].done = Append(executions[e].done, n),
               ![e].progress = Percent(Len(Append(executions[e].done, n)), AtLeast1(total))]
         /\ task' = [task EXCEPT ![e] = [pc |-> "tellNode", outputs |-> task[e].outputs,
                                         todo |-> task[e].todo \ {n}, node |-> n]]
         /\ UNCHANGED told
  BY DEF ReportNode, Reported
<1>3. total \in Nat
  BY <1>1, FiniteNodes, FS_CardinalityType
<1>4. /\ executions[e].done \in Seq(Node \cup {Input}) /\ n \in Node \cup {Input}
  BY <1>1 DEF Execution, Outputs
<1>5. /\ Append(executions[e].done, n) \in Seq(Node \cup {Input})
      /\ Len(Append(executions[e].done, n)) = Len(executions[e].done) + 1
      /\ Len(executions[e].done) + 1 \in Nat
  BY <1>4, AppendFacts
<1> DEFINE p == Percent(Len(executions[e].done) + 1, AtLeast1(total))
<1>6. p \in Nat
  BY <1>3, <1>5, PercentFacts
<1>7. /\ executions'[e].status = executions[e].status
      /\ executions'[e].finished = executions[e].finished
      /\ executions'[e].done = Append(executions[e].done, n)
      /\ executions'[e].progress = p
      /\ executions'[e] \in Execution
  <2> DEFINE d == Append(executions[e].done, n)
  <2>1. executions'[e] = [executions[e] EXCEPT !.done = d, !.progress = p]
    BY <1>1, <1>2, <1>5
  <2>2. d \in Seq(Node \cup {Input})
    BY <1>5
  <2> HIDE DEF p, d
  <2>3. executions'[e] \in Execution
    BY <1>1, <1>6, <2>1, <2>2 DEF Execution
  <2>4. /\ executions'[e].status = executions[e].status
        /\ executions'[e].finished = executions[e].finished
        /\ executions'[e].done = d /\ executions'[e].progress = p
    BY <1>1, <2>1 DEF Execution
  <2> QED
    BY <2>3, <2>4 DEF d
<1>8. task'[e] = [pc |-> "tellNode", outputs |-> task[e].outputs,
                 todo |-> task[e].todo \ {n}, node |-> n]
  BY <1>1, <1>2
<1> QED
  BY <1>1, <1>2, <1>7, <1>8 DEF Reports

\* The engine's verdict, written and told.
Verdict(e) ==
  LET x == executions'[e] IN
  /\ e \in DOMAIN executions /\ x \in Execution
  /\ x.done = executions[e].done /\ x.finished = TRUE
  /\ \/ /\ task[e].pc = "report" /\ task[e].todo = {}
        /\ x.status = "completed" /\ x.progress = 100
        /\ task'[e] = [pc |-> "ended", outputs |-> task[e].outputs]
     \/ /\ task[e].pc = "engine"
        /\ x.status = "failed" /\ x.progress = executions[e].progress
        /\ task'[e] = [pc |-> "ended", outputs |-> {}]
  /\ Event(x.status, x) \in ExecutionEvents
  /\ Tell(e, Event(x.status, x))

LEMMA VerdictFacts ==
  ASSUME TypeOK, NEW e \in ExecId, TaskInv(e), FinishOk(e) \/ EngineErr(e)
  PROVE  Verdict(e)
<1>1. e \in DOMAIN executions /\ executions[e] \in Execution /\ DOMAIN task = ExecId
  BY DEF FinishOk, EngineErr, TaskInv, TypeOK
<1>2. /\ Completed(executions[e]) \in Execution
      /\ Completed(executions[e]).status = "completed"
      /\ Completed(executions[e]).finished = TRUE
      /\ Completed(executions[e]).progress = 100
      /\ Completed(executions[e]).done = executions[e].done
  BY <1>1 DEF Completed, Execution, ExecutionStatus
<1>3. /\ Failed(executions[e]) \in Execution
      /\ Failed(executions[e]).status = "failed"
      /\ Failed(executions[e]).finished = TRUE
      /\ Failed(executions[e]).progress = executions[e].progress
      /\ Failed(executions[e]).done = executions[e].done
  BY <1>1 DEF Failed, Execution, ExecutionStatus
<1>4. \A rec : Finish(e, rec) =>
        executions'[e] = rec /\ Tell(e, Event(rec.status, rec))
  BY <1>1 DEF Finish
<1>5. \A x \in Execution : x.status \in {"completed", "failed"} =>
        Event(x.status, x) \in ExecutionEvents
  BY DEF Event, ExecutionEvents
<1>6. CASE FinishOk(e)
  <2>1. task[e].pc = "report" /\ task[e].todo = {} /\ Finish(e, Completed(executions[e]))
    BY <1>6 DEF FinishOk
  <2>2. task'[e] = [pc |-> "ended", outputs |-> task[e].outputs]
    BY <1>1, <2>1 DEF Finish
  <2> HIDE DEF Completed
  <2> QED
    BY <1>1, <1>2, <1>4, <1>5, <2>1, <2>2 DEF Verdict
<1>7. CASE EngineErr(e)
  <2>1. task[e].pc = "engine" /\ Finish(e, Failed(executions[e]))
    BY <1>7 DEF EngineErr
  <2>2. task'[e] = [pc |-> "ended", outputs |-> {}]
    BY <1>1, <2>1 DEF Finish
  <2> QED
    BY <1>1, <1>3, <1>4, <1>5, <2>1, <2>2 DEF Verdict
<1> QED
  BY <1>6, <1>7

\* What each step that tells something tells.
LEMMA TellsFacts ==
  /\ \A c \in Calls : TypeOK /\ TellOutcome(c) =>
       call[c].id \in Ids /\ call[c].event \in EventsOf(call[c].id)
  /\ \A c \in Calls : TypeOK /\ StartExecution(c) =>
       call[c].id \in ExecId /\ Event("started", call[c].rec) \in EventsOf(call[c].id)
  /\ \A e \in ExecId : TypeOK /\ TellNode(e) =>
       Event("nodeCompleted", task[e].node) \in EventsOf(e)
  /\ \A e \in ExecId : EventsOf(e) = ExecutionEvents
<1>1. \A e \in ExecId : EventsOf(e) = ExecutionEvents
  BY IdsApart DEF EventsOf
<1>2. ASSUME NEW c \in Calls, TypeOK, TellOutcome(c)
      PROVE  call[c].id \in Ids /\ call[c].event \in EventsOf(call[c].id)
  <2>1. call[c].pc = "tell"
    BY <1>2 DEF TellOutcome
  <2>2. CASE call[c] \in [pc : {"tell"}, id : WfId, event : WorkflowEvents]
    BY <2>2 DEF EventsOf, Ids
  <2>3. CASE call[c] \in [pc : {"tell"}, id : ExecId,
                          event : [kind : {"cancelled"}, what : ExecId]]
    BY <1>1, <2>3 DEF ExecutionEvents, Ids
  <2> QED
    BY <1>2, <2>1, <2>2, <2>3, CallFacts
<1>3. ASSUME NEW c \in Calls, TypeOK, StartExecution(c)
      PROVE  call[c].id \in ExecId /\ Event("started", call[c].rec) \in ExecutionEvents
  <2>1. call[c] \in [pc : {"start"}, id : ExecId, rec : Execution,
                     spec : {d \in Document : d.parses}]
    BY <1>3, CallFacts DEF StartExecution
  <2> QED
    BY <2>1 DEF Event, ExecutionEvents
<1>4. ASSUME NEW e \in ExecId, TypeOK, TellNode(e)
      PROVE  Event("nodeCompleted", task[e].node) \in ExecutionEvents
  BY <1>4, TaskFacts DEF TellNode, Event, ExecutionEvents
<1> QED
  BY <1>1, <1>2, <1>3, <1>4

LEMMA ToldStep ==
  ASSUME Inv, Next
  PROVE  ToldType'
<1> USE DEF Inv
<1>1. ASSUME NEW c \in Calls, CallStep(c)  PROVE ToldType'
  <2>1. CASE UNCHANGED told
    BY <2>1 DEF ToldType
  <2>2. CASE StartExecution(c)
    BY <2>2, TellsFacts, TellFacts DEF StartExecution, Ids
  <2>3. CASE TellOutcome(c)
    BY <2>3, TellsFacts, TellFacts DEF TellOutcome
  <2> QED
    BY <1>1, <2>1, <2>2, <2>3, CallEffects
       DEF Quiet, QuietAs, Reserve, InsertWorkflow, Rewrite, Removes, InsertExecution, Steer
<1>2. ASSUME NEW e \in ExecId, TaskStep(e)  PROVE ToldType'
  <2>1. CASE UNCHANGED told
    BY <2>1 DEF ToldType
  <2>2. CASE TellNode(e)
    BY <2>2, TellsFacts, TellFacts DEF TellNode, Ids
  <2>3. CASE FinishOk(e) \/ EngineErr(e)
    BY <2>3, VerdictFacts, TellsFacts, TellFacts DEF Verdict, Ids
  <2> QED
    BY <1>2, <2>1, <2>2, <2>3 DEF TaskStep, EngineOk, ReportNode
<1> QED
  BY <1>1, <1>2 DEF Next

\* A step of a call on the executions: what was there stays, but for the status of one.
Steered(x, y) ==
  /\ y \in Execution /\ y.workflow = x.workflow /\ y.done = x.done /\ y.progress = x.progress
  /\ x.status \in {"running", "paused"}
  /\ \/ y.status \in {"running", "paused"} /\ y.finished = x.finished
     \/ y.status = "cancelled" /\ y.finished = TRUE

SteeredBy(c, e) ==
  /\ Steered(executions[e], executions'[e])
  /\ DOMAIN executions' = DOMAIN executions
  /\ \A d \in DOMAIN executions : d # e => executions'[d] = executions[d]
  /\ \/ call'[c].pc = "answered"
     \/ /\ call'[c] = [pc |-> "tell", id |-> e, event |-> Event("cancelled", e)]
        /\ executions'[e].status = "cancelled"

LEMMA SteerFacts ==
  ASSUME TypeOK, NEW c \in Calls, Steer(c)
  PROVE  \E e \in DOMAIN executions : SteeredBy(c, e)
<1>1. PICK e \in DOMAIN executions, status \in ExecutionStatus, finished \in BOOLEAN :
       /\ executions[e].status \in {"running", "paused"}
       /\ executions' = [executions EXCEPT ![e] =
             [executions[e] EXCEPT !.status = status, !.finished = finished]]
       /\ \/ /\ status \in {"running", "paused"} /\ finished = executions[e].finished
             /\ Turns(c, [pc |-> "answered"])
          \/ /\ status = "cancelled" /\ finished = TRUE
             /\ Turns(c, [pc |-> "tell", id |-> e, event |-> Event("cancelled", e)])
  BY DEF Steer
<1> DEFINE x == executions[e]
           y == [executions[e] EXCEPT !.status = status, !.finished = finished]
<1>2. x \in Execution /\ DOMAIN call = Calls
  BY DEF TypeOK
<1>3. /\ y \in Execution /\ y.workflow = x.workflow /\ y.done = x.done
      /\ y.progress = x.progress /\ y.status = status /\ y.finished = finished
  BY <1>2 DEF Execution
<1>4. /\ executions'[e] = y /\ DOMAIN executions' = DOMAIN executions
      /\ \A d \in DOMAIN executions : d # e => executions'[d] = executions[d]
  BY <1>1
<1> HIDE DEF y
<1>5. Steered(x, executions'[e])
  BY <1>1, <1>3, <1>4 DEF Steered
<1>6. \A r : Turns(c, r) => call'[c] = r
  BY <1>2 DEF Turns
<1> QED
  BY <1>1, <1>3, <1>4, <1>5, <1>6 DEF SteeredBy

LEMMA HeldTyped ==
  ASSUME TypeOK, NEW c \in Calls, CallStep(c)
  PROVE  held' \in [Calls -> SUBSET Ids]
<1>1. held \in [Calls -> SUBSET Ids]
  BY DEF TypeOK
<1>2. CASE UNCHANGED held
  BY <1>1, <1>2
<1>3. CASE DuplicateWorkflow(c) \/ DeleteExecution(c) \/ TellOutcome(c)
  BY <1>1, <1>3 DEF DuplicateWorkflow, DeleteExecution, TellOutcome, Ids
<1> QED
  BY <1>2, <1>3
  DEF CallStep, CreateWorkflow, InsertWorkflow, UpdateWorkflow, BeginDelete, ScanShard,
      RemoveWorkflow, LookUp, InsertExecution, StartExecution, CancelExecution, PauseExecution,
      ResumeExecution

LEMMA TypeStep ==
  ASSUME Inv, Next
  PROVE  TypeOK'
<1> USE DEF Inv
<1>1. ASSUME NEW c \in Calls, CallStep(c)  PROVE TypeOK'
  <2>1. steady' \in [Calls -> SUBSET ExecId]
    BY <1>1, OtherCalls, ObservedType
  <2>2. call' \in [Calls -> Call] /\ held' \in [Calls -> SUBSET Ids]
    BY <1>1, CallTyped, HeldTyped
  <2>3. DOMAIN told' = Ids
    BY ToldStep DEF ToldType
  <2>4. DOMAIN workflows' \subseteq WfId /\ \A w \in DOMAIN workflows' : workflows'[w] \in Workflow
    <3>1. ASSUME NEW w \in WfId, NEW rec \in Workflow, workflows' = Put(workflows, w, rec)
          PROVE  DOMAIN workflows' \subseteq WfId /\ \A v \in DOMAIN workflows' : workflows'[v] \in Workflow
      <4>1. /\ DOMAIN workflows' = DOMAIN workflows \cup {w} /\ workflows'[w] = rec
            /\ \A v \in DOMAIN workflows : v # w => workflows'[v] = workflows[v]
        BY <3>1 DEF Put
      <4> QED
        BY <4>1 DEF TypeOK
    <3>2. CASE UNCHANGED workflows
      BY <3>2 DEF TypeOK
    <3>3. CASE InsertWorkflow(c)
      <4>1. call[c].pc = "insert" /\ call[c].id \in WfId /\ call[c].id \notin ExecId
        BY <3>3, IdsApart DEF InsertWorkflow
      <4>2. call[c].rec \in Workflow
        BY <4>1, CallFacts
      <4> QED
        BY <3>1, <3>3, <4>1, <4>2 DEF InsertWorkflow
    <3>4. CASE Rewrite(c)
      <4>1. DOMAIN workflows \subseteq WfId
        BY DEF TypeOK
      <4> QED
        BY <3>1, <3>4, <4>1 DEF Rewrite
    <3>5. CASE Removes(c)
      <4>1. PICK w : /\ DOMAIN workflows' = DOMAIN workflows \ {w}
                     /\ \A v \in DOMAIN workflows \ {w} : workflows'[v] = workflows[v]
        BY <3>5 DEF Removes, Drop
      <4> QED
        BY <4>1 DEF TypeOK
    <3> QED
      BY <1>1, <3>2, <3>3, <3>4, <3>5, CallEffects
         DEF Quiet, QuietAs, Reserve, InsertExecution, StartExecution, Steer, TellOutcome
  <2>5. DOMAIN executions' \subseteq ExecId /\ \A e \in DOMAIN executions' : executions'[e] \in Execution
    <3>1. CASE UNCHANGED executions
      BY <3>1 DEF TypeOK
    <3>2. CASE InsertExecution(c)
      <4>1. call[c].pc = "insert" /\ call[c].id \in ExecId /\ call[c].id \notin WfId
        BY <3>2, IdsApart DEF InsertExecution
      <4>2. call[c].rec \in Execution
        BY <4>1, CallFacts
      <4>3. /\ DOMAIN executions' = DOMAIN executions \cup {call[c].id}
            /\ executions'[call[c].id] = call[c].rec
            /\ \A e \in DOMAIN executions : e # call[c].id => executions'[e] = executions[e]
        BY <3>2 DEF InsertExecution, Put
      <4> QED
        BY <4>1, <4>2, <4>3 DEF TypeOK
    <3>3. CASE Steer(c)
      <4>1. PICK e \in DOMAIN executions : SteeredBy(c, e)
        BY <3>3, SteerFacts
      <4> QED
        BY <4>1 DEF TypeOK, SteeredBy, Steered
    <3> QED
      BY <1>1, <3>1, <3>2, <3>3, CallEffects
         DEF Quiet, QuietAs, Reserve, InsertWorkflow, Rewrite, Removes, StartExecution, TellOutcome
  <2>6. task' \in [ExecId -> Task]
    <3>1. CASE UNCHANGED task
      BY <3>1 DEF TypeOK
    <3>2. CASE StartExecution(c)
      <4>1. call[c].id \in ExecId /\ call[c].spec \in {d \in Document : d.parses}
        BY <3>2, CallFacts DEF StartExecution
      <4>2. [pc |-> "engine", spec |-> call[c].spec] \in Task
        BY <4>1 DEF Task
      <4> QED
        BY <3>2, <4>1, <4>2 DEF StartExecution, TypeOK
    <3> QED
      BY <1>1, <3>1, <3>2, CallEffects
         DEF Quiet, QuietAs, Reserve, InsertWorkflow, Rewrite, Removes, InsertExecution, Steer, TellOutcome
  <2> QED
    BY <2>1, <2>2, <2>3, <2>4, <2>5, <2>6 DEF TypeOK
<1>2. ASSUME NEW e \in ExecId, TaskStep(e)  PROVE TypeOK'
  <2>1. steady' \in [Calls -> SUBSET ExecId]
    BY <1>2, TaskAlone, ObservedType
  <2>2. DOMAIN told' = Ids
    BY ToldStep DEF ToldType
  <2>3. /\ DOMAIN workflows' \subseteq WfId /\ \A w \in DOMAIN workflows' : workflows'[w] \in Workflow
        /\ call' \in [Calls -> Call] /\ held' \in [Calls -> SUBSET Ids]
    BY <1>2, TaskAlone DEF TypeOK
  <2>4. TaskInv(e) /\ DOMAIN task = ExecId
    BY DEF TypeOK
  <2>5. (e \in DOMAIN executions => executions'[e] \in Execution) /\ task'[e] \in Task
    <3>1. CASE EngineOk(e)
      <4>1. task[e].spec \in Document /\ task[e].spec.nodes \subseteq Node
        BY <3>1, TaskFacts, DocumentAssumption DEF EngineOk
      <4>2. PICK ran \in SUBSET task[e].spec.nodes :
              task' = [task EXCEPT ![e] = [pc |-> "report", outputs |-> ran \cup {Input},
                                           todo |-> Reported(ran \cup {Input})]]
        BY <3>1 DEF EngineOk
      <4>3. ran \cup {Input} \in Outputs /\ Reported(ran \cup {Input}) \in Outputs
        BY <4>1 DEF Outputs, Reported
      <4>4. task'[e] \in Task
        BY <2>4, <4>2, <4>3 DEF Task
      <4> QED
        BY <3>1, <4>4 DEF EngineOk, TypeOK
    <3>2. CASE ReportNode(e)
      <4>1. PICK n \in task[e].todo : Reports(e, n)
        BY <2>4, <3>2, ReportNodeFacts
      <4>2. task[e].outputs \in Outputs /\ task[e].todo \in Outputs
        BY <3>2, TaskFacts DEF ReportNode
      <4>3. n \in Node \cup {Input} /\ task[e].todo \ {n} \in Outputs
        BY <4>2 DEF Outputs
      <4> QED
        BY <4>1, <4>2, <4>3 DEF Task, Reports
    <3>3. CASE TellNode(e)
      <4>1. task[e].outputs \in Outputs /\ task[e].todo \in Outputs
        BY <3>3, TaskFacts DEF TellNode
      <4>2. task'[e] = [pc |-> "report", outputs |-> task[e].outputs, todo |-> task[e].todo]
        BY <2>4, <3>3 DEF TellNode
      <4> QED
        BY <3>3, <4>1, <4>2 DEF Task, TypeOK, TellNode
    <3>4. CASE FinishOk(e) \/ EngineErr(e)
      <4>1. Verdict(e)
        BY <2>4, <3>4, VerdictFacts
      <4>2. {} \in Outputs /\ (task[e].pc = "report" => task[e].outputs \in Outputs)
        BY TaskFacts DEF Outputs
      <4> QED
        BY <4>1, <4>2 DEF Verdict, Task
    <3> QED
      BY <1>2, <3>1, <3>2, <3>3, <3>4 DEF TaskStep
  <2>6. DOMAIN executions' \subseteq ExecId /\ \A d \in DOMAIN executions' : executions'[d] \in Execution
    BY <1>2, <2>5, TaskAlone DEF TypeOK
  <2>7. task' \in [ExecId -> Task]
    BY <1>2, <2>4, <2>5, TaskAlone DEF TypeOK
  <2> QED
    BY <2>1, <2>2, <2>3, <2>6, <2>7 DEF TypeOK
<1> QED
  BY <1>1, <1>2 DEF Next

-----------------------------------------------------------------------------
(* The effects of a call's step, entry by entry.                            *)

\* Nothing is known of this id, but to the calls that delete it.
Unheard(c, id) ==
  /\ told[id] = <<>>
  /\ \A d \in Calls : d # c /\ call[d].pc \in {"insert", "start", "tell", "stuck"} => call[d].id # id

LEMMA TurnsFacts ==
  ASSUME TypeOK, NEW c \in Calls, NEW r, Turns(c, r)
  PROVE  call'[c] = r /\ \A d \in Calls : d # c => call'[d] = call[d]
BY DEF Turns, TypeOK

LEMMA FreshFacts ==
  ASSUME TypeOK, NEW c, NEW id, Fresh(id)
  PROVE  id \notin DOMAIN workflows \cup DOMAIN executions /\ Unheard(c, id)
BY DEF Fresh, Unheard, Busy

Added(c, w, rec) ==
  /\ UNCHANGED <<executions, task, told>>
  /\ w \notin DOMAIN workflows /\ Unheard(c, w)
  /\ DOMAIN workflows' = DOMAIN workflows \cup {w} /\ workflows'[w] = rec
  /\ \A v \in DOMAIN workflows : workflows'[v] = workflows[v]
  /\ call'[c] = [pc |-> "tell", id |-> w, event |-> Event("created", rec)]

LEMMA AddsFacts ==
  ASSUME Inv, NEW c \in Calls, InsertWorkflow(c)
  PROVE  \E w \in WfId, rec \in Workflow : Added(c, w, rec)
<1>1. ASSUME NEW w \in WfId, NEW rec \in Workflow, w \notin DOMAIN workflows,
             workflows' = Put(workflows, w, rec)
      PROVE  /\ DOMAIN workflows' = DOMAIN workflows \cup {w} /\ workflows'[w] = rec
             /\ \A v \in DOMAIN workflows : workflows'[v] = workflows[v]
  BY <1>1 DEF Put
<1> DEFINE w == call[c].id
           rec == call[c].rec
<1>2. call[c].pc = "insert" /\ w \in WfId /\ w \notin ExecId
  BY IdsApart DEF InsertWorkflow
<1>3. rec \in Workflow
  BY <1>2, CallFacts DEF Inv
<1>4. w \notin DOMAIN workflows /\ Unheard(c, w)
  BY <1>2 DEF Inv, IdInv, Unheard
<1>5. /\ workflows' = Put(workflows, w, rec)
      /\ Turns(c, [pc |-> "tell", id |-> w, event |-> Event("created", rec)])
      /\ UNCHANGED <<executions, task, told>>
  BY DEF InsertWorkflow, Turns
<1>6. call'[c] = [pc |-> "tell", id |-> w, event |-> Event("created", rec)]
  BY <1>5, TurnsFacts DEF Inv
<1> HIDE DEF w, rec
<1> QED
  BY <1>1, <1>2, <1>3, <1>4, <1>5, <1>6 DEF Added

Rewritten(c, w) ==
  /\ w \in WfId /\ UNCHANGED <<executions, task, told>>
  /\ DOMAIN workflows' = DOMAIN workflows
  /\ \A v \in DOMAIN workflows : v # w => workflows'[v] = workflows[v]
  /\ \/ workflows'[w].version = workflows[w].version /\ call'[c] = [pc |-> "answered"]
     \/ /\ workflows'[w].version = workflows[w].version + 1
        /\ call'[c] = [pc |-> "tell", id |-> w, event |-> Event("updated", workflows'[w])]

LEMMA RewriteFacts ==
  ASSUME TypeOK, NEW c \in Calls, Rewrite(c)
  PROVE  \E w \in DOMAIN workflows : Rewritten(c, w)
<1>1. PICK w \in DOMAIN workflows, rec \in Workflow :
       /\ workflows' = Put(workflows, w, rec)
       /\ \/ rec.version = workflows[w].version /\ Turns(c, [pc |-> "answered"])
          \/ /\ rec.version = workflows[w].version + 1
             /\ Turns(c, [pc |-> "tell", id |-> w, event |-> Event("updated", rec)])
  BY DEF Rewrite
<1>2. /\ w \in WfId /\ DOMAIN workflows' = DOMAIN workflows /\ workflows'[w] = rec
      /\ \A v \in DOMAIN workflows : v # w => workflows'[v] = workflows[v]
  BY <1>1 DEF Put, TypeOK
<1>3. UNCHANGED <<executions, task, told>>
  BY DEF Rewrite
<1> QED
  BY <1>1, <1>2, <1>3, TurnsFacts DEF Rewritten

Removed(c, w) ==
  /\ w \in WfId /\ UNCHANGED <<executions, task, told>>
  /\ DOMAIN workflows' = DOMAIN workflows \ {w}
  /\ \A v \in DOMAIN workflows' : workflows'[v] = workflows[v]
  /\ call'[c] = [pc |-> "tell", id |-> w, event |-> Event("deleted", w)]

LEMMA RemovesFacts ==
  ASSUME TypeOK, NEW c \in Calls, Removes(c)
  PROVE  \E w \in DOMAIN workflows : Removed(c, w)
<1>1. PICK w \in DOMAIN workflows :
       /\ workflows' = Drop(workflows, w)
       /\ Turns(c, [pc |-> "tell", id |-> w, event |-> Event("deleted", w)])
  BY DEF Removes
<1>2. /\ w \in WfId /\ DOMAIN workflows' = DOMAIN workflows \ {w}
      /\ \A v \in DOMAIN workflows' : workflows'[v] = workflows[v]
  BY <1>1 DEF Drop, TypeOK
<1> QED
  BY <1>1, <1>2, TurnsFacts DEF Removes, Removed

Entered(c, e, w) ==
  /\ UNCHANGED <<workflows, task, told>>
  /\ call[c].pc = "insert" /\ call[c].id = e
  /\ e \notin DOMAIN executions /\ Unheard(c, e) /\ task[e].pc = "none"
  /\ DOMAIN executions' = DOMAIN executions \cup {e}
  /\ executions'[e] = NewExecution(w)
  /\ \A d \in DOMAIN executions : executions'[d] = executions[d]
  /\ call'[c].pc = "start" /\ call'[c].id = e

LEMMA InsertExecutionFacts ==
  ASSUME Inv, NEW c \in Calls, InsertExecution(c)
  PROVE  \E e \in ExecId, w \in WfId : Entered(c, e, w)
<1> DEFINE e == call[c].id
<1>1. call[c].pc = "insert" /\ e \in ExecId /\ e \notin WfId
  BY IdsApart DEF InsertExecution
<1>2. PICK w \in WfId : call[c].rec = NewExecution(w)
  BY <1>1 DEF Inv, IdInv
<1>3. e \notin DOMAIN executions /\ Unheard(c, e)
  BY <1>1 DEF Inv, IdInv, Unheard
<1>4. task[e].pc = "none"
  BY <1>1, <1>3 DEF Inv, TaskInv
<1>5. /\ DOMAIN executions' = DOMAIN executions \cup {e}
      /\ executions'[e] = NewExecution(w)
      /\ \A d \in DOMAIN executions : executions'[d] = executions[d]
  BY <1>2, <1>3 DEF InsertExecution, Put
<1>6. call'[c].pc = "start" /\ call'[c].id = e
  <2>1. call[c] \in [pc : {"insert"}, id : ExecId, rec : Execution,
                     spec : {d \in Document : d.parses}]
    BY <1>1, CallFacts DEF Inv
  <2>2. call'[c] = [call[c] EXCEPT !.pc = "start"]
    BY DEF Inv, TypeOK, InsertExecution
  <2> QED
    BY <2>1, <2>2
<1>7. UNCHANGED <<workflows, task, told>>
  BY DEF InsertExecution
<1> QED
  BY <1>1, <1>2, <1>3, <1>4, <1>5, <1>6, <1>7 DEF Entered

Started(c, e) ==
  /\ UNCHANGED <<workflows, executions>>
  /\ call[c].pc = "start" /\ call[c].id = e /\ call[c].rec \in Execution
  /\ e \in DOMAIN executions /\ task[e].pc = "none"
  /\ task'[e] = [pc |-> "engine", spec |-> call[c].spec]
  /\ \A d \in ExecId : d # e => task'[d] = task[d]
  /\ Tell(e, Event("started", call[c].rec))
  /\ call'[c] = [pc |-> "answered"]

LEMMA StartExecutionFacts ==
  ASSUME Inv, NEW c \in Calls, StartExecution(c)
  PROVE  \E e \in ExecId : Started(c, e)
<1>1. call[c].pc = "start" /\ call[c].id \in ExecId /\ call[c].rec \in Execution
  BY CallFacts DEF StartExecution, Inv
<1>2. call[c].id \in DOMAIN executions /\ task[call[c].id].pc = "none"
  BY <1>1 DEF Inv, IdInv
<1>3. DOMAIN task = ExecId /\ DOMAIN call = Calls
  BY DEF Inv, TypeOK
<1> QED
  BY <1>1, <1>2, <1>3 DEF StartExecution, Answer, Started

LEMMA QuietFacts ==
  ASSUME TypeOK, NEW c \in Calls, Quiet(c)
  PROVE  /\ call'[c].pc \in {"answered", "scan", "remove", "stuck"}
         /\ call'[c].pc = "stuck" => call'[c].id \in DOMAIN workflows \cup DOMAIN executions
<1>1. PICK r : QuietAs(c, r)
  BY DEF Quiet
<1>2. call'[c] = r
  BY <1>1, TurnsFacts DEF QuietAs
<1> QED
  BY <1>1, <1>2 DEF QuietAs

LEMMA ReserveFacts ==
  ASSUME TypeOK, NEW c \in Calls, Reserve(c)
  PROVE  /\ call'[c].pc = "insert" /\ call'[c].id \in Ids
         /\ call'[c].id \notin DOMAIN workflows \cup DOMAIN executions
         /\ Unheard(c, call'[c].id)
         /\ call'[c].id \in ExecId => \E w \in WfId : call'[c].rec = NewExecution(w)
<1>1. PICK r : ReserveAs(c, r)
  BY DEF Reserve
<1>2. call'[c] = r
  BY <1>1, TurnsFacts DEF ReserveAs
<1>3. r.id \notin DOMAIN workflows \cup DOMAIN executions /\ Unheard(c, r.id)
  BY <1>1, FreshFacts DEF ReserveAs
<1> QED
  BY <1>1, <1>2, <1>3 DEF ReserveAs

LEMMA TellOutcomeFacts ==
  ASSUME TypeOK, NEW c \in Calls, TellOutcome(c)
  PROVE  /\ UNCHANGED <<workflows, executions, task>>
         /\ call[c].pc = "tell" /\ Tell(call[c].id, call[c].event)
         /\ call'[c] = [pc |-> "answered"]
BY DEF TellOutcome, Answer, TypeOK

-----------------------------------------------------------------------------
(* The ids.                                                                 *)

LEMMA IdStep ==
  ASSUME Inv, Next
  PROVE  IdInv'
<1> USE DEF Inv
<1>1. ASSUME NEW c \in Calls, CallStep(c)  PROVE IdInv'
  <2>1. \A d \in Calls : d # c => call'[d] = call[d]
    BY <1>1, OtherCalls
  <2>2. CASE Quiet(c)
    BY <2>1, <2>2, QuietFacts DEF Quiet, QuietAs, IdInv
  <2>3. CASE Reserve(c)
    BY <2>1, <2>3, ReserveFacts DEF Reserve, IdInv, Unheard
  <2>4. CASE InsertWorkflow(c)
    <3>1. PICK w \in WfId, rec \in Workflow : Added(c, w, rec)
      BY <2>4, AddsFacts
    <3> QED
      BY <2>1, <3>1 DEF Added, IdInv, Unheard
  <2>5. CASE Rewrite(c)
    <3>1. PICK w \in DOMAIN workflows : Rewritten(c, w)
      BY <2>5, RewriteFacts
    <3> QED
      BY <2>1, <3>1 DEF Rewritten, IdInv
  <2>6. CASE Removes(c)
    <3>1. PICK w \in DOMAIN workflows : Removed(c, w)
      BY <2>6, RemovesFacts
    <3> QED
      BY <2>1, <3>1 DEF Removed, IdInv
  <2>7. CASE InsertExecution(c)
    <3>1. PICK e \in ExecId, w \in WfId : Entered(c, e, w)
      BY <2>7, InsertExecutionFacts
    <3> QED
      BY <2>1, <3>1 DEF Entered, IdInv, Unheard
  <2>8. CASE StartExecution(c)
    <3>1. PICK e \in ExecId : Started(c, e)
      BY <2>8, StartExecutionFacts
    <3>2. \A o \in Ids : o # e => told'[o] = told[o]
      BY <2>8, <3>1, TellsFacts, TellFacts DEF Started, Ids
    <3>3. \A d \in Calls : call[d].pc \in {"insert", "start"} =>
            /\ call[d].id \in Ids
            /\ call[d].pc = "start" => call[d].id \in ExecId
      BY CallFacts DEF Ids
    <3> QED
      BY <2>1, <3>1, <3>2, <3>3 DEF Started, IdInv
  <2>9. CASE Steer(c)
    <3>1. PICK e \in DOMAIN executions : SteeredBy(c, e)
      BY <2>9, SteerFacts
    <3>2. UNCHANGED <<workflows, task, told>>
      BY <2>9 DEF Steer
    <3> QED
      BY <2>1, <3>1, <3>2 DEF SteeredBy, IdInv
  <2>10. CASE TellOutcome(c)
    <3>1. /\ UNCHANGED <<workflows, executions, task>>
          /\ call[c].pc = "tell" /\ Tell(call[c].id, call[c].event)
          /\ call'[c].pc = "answered"
      BY <2>10, TellOutcomeFacts
    <3>2. \A o \in Ids : o # call[c].id => told'[o] = told[o]
      BY <2>10, <3>1, TellsFacts, TellFacts
    <3>3. \A d \in Calls : call[d].pc = "insert" => call[d].id \in Ids /\ call[d].id # call[c].id
      BY <3>1, CallFacts DEF Ids, IdInv
    <3> QED
      BY <2>1, <3>1, <3>2, <3>3 DEF IdInv
  <2> QED
    BY <1>1, <2>2, <2>3, <2>4, <2>5, <2>6, <2>7, <2>8, <2>9, <2>10, CallEffects
<1>2. ASSUME NEW e \in ExecId, TaskStep(e)  PROVE IdInv'
  <2>1. /\ UNCHANGED <<workflows, call>> /\ DOMAIN executions' = DOMAIN executions
        /\ \A d \in ExecId : d # e => task'[d] = task[d]
    BY <1>2, TaskAlone
  <2>2. task[e].pc # "none" /\ e \in DOMAIN executions
    BY <1>2 DEF TaskStep, EngineOk, ReportNode, TellNode, FinishOk, EngineErr, TaskInv
  <2>3. \A o \in Ids : o # e => told'[o] = told[o]
    <3>1. CASE UNCHANGED told
      BY <3>1
    <3>2. CASE TellNode(e)
      <4>1. Event("nodeCompleted", task[e].node) \in EventsOf(e)
            /\ Tell(e, Event("nodeCompleted", task[e].node))
        BY <3>2, TellsFacts DEF TellNode
      <4> QED
        BY <4>1, TellFacts DEF Ids
    <3>3. CASE FinishOk(e) \/ EngineErr(e)
      <4>1. Event(executions'[e].status, executions'[e]) \in EventsOf(e)
            /\ Tell(e, Event(executions'[e].status, executions'[e]))
        BY <3>3, VerdictFacts, TellsFacts DEF Verdict
      <4> QED
        BY <4>1, TellFacts DEF Ids
    <3> QED
      BY <1>2, <3>1, <3>2, <3>3 DEF TaskStep, EngineOk, ReportNode
  <2>4. \A d \in Calls : call[d].pc \in {"insert", "start"} => call[d].id # e /\ call[d].id \in Ids
    BY <2>2, CallFacts DEF IdInv, Ids
  <2>5. \A d \in Calls : call[d].pc = "start" => call[d].id \in ExecId
    BY CallFacts
  <2> QED
    BY <2>1, <2>3, <2>4, <2>5 DEF IdInv
<1> QED
  BY <1>1, <1>2 DEF Next

-----------------------------------------------------------------------------
(* Each event once.                                                         *)

LEMMA EventFacts ==
  ASSUME Inv
  PROVE  /\ \A w \in WfId : \A i \in DOMAIN told[w] : told[w][i] \in WorkflowEvents
         /\ \A e \in ExecId : \A i \in DOMAIN told[e] : told[e][i] \in ExecutionEvents
         /\ \A c \in Calls : call[c].pc = "tell" =>
              /\ call[c].id \in Ids
              /\ call[c].id \in WfId => call[c].event \in WorkflowEvents
              /\ call[c].id \in ExecId => call[c].event.kind = "cancelled"
<1>1. ASSUME NEW S, NEW s \in Seq(S), NEW i \in DOMAIN s  PROVE s[i] \in S
  BY <1>1
<1>2. /\ \A w \in WfId : told[w] \in Seq(WorkflowEvents)
      /\ \A e \in ExecId : told[e] \in Seq(ExecutionEvents)
  BY DEF Inv, ToldType
<1>3. \A c \in Calls : call[c].pc = "tell" =>
              /\ call[c].id \in Ids
              /\ call[c].id \in WfId => call[c].event \in WorkflowEvents
              /\ call[c].id \in ExecId => call[c].event.kind = "cancelled"
  BY CallFacts, IdsApart DEF Inv, Ids
<1> QED
  BY <1>1, <1>2, <1>3

\* A call gets an event to tell that was not told and that no other call waits to tell.
LEMMA WaitOnce ==
  ASSUME Inv, NEW c \in Calls, UNCHANGED told,
         \A d \in Calls : d # c => call'[d] = call[d],
         call'[c].pc = "tell" =>
           /\ \A i \in DOMAIN told[call'[c].id] : told[call'[c].id][i] # call'[c].event
           /\ \A d \in Calls : d # c /\ call[d].pc = "tell" /\ call[d].id = call'[c].id
                => call[d].event # call'[c].event
  PROVE  OnceInv'
BY DEF Inv, OnceInv

\* An event is told that was not told and that no other call waits to tell.
LEMMA TellOnce ==
  ASSUME Inv, NEW id \in Ids, NEW event, NEW k \in Nat, AddedAt(id, event, k),
         \A o \in Ids : o # id => told'[o] = told[o],
         \A i \in DOMAIN told[id] : told[id][i] # event,
         \A d \in Calls : call'[d].pc = "tell" =>
           call'[d] = call[d] /\ (call[d].id = id => call[d].event # event)
  PROVE  OnceInv'
<1>1. ASSUME NEW o \in Ids, NEW i \in DOMAIN told'[o], NEW j \in DOMAIN told'[o],
             told'[o][i] = told'[o][j]
      PROVE  i = j
  <2>1. CASE o = id
    BY <1>1, <2>1 DEF Inv, OnceInv, AddedAt
  <2>2. CASE o # id
    BY <1>1, <2>2 DEF Inv, OnceInv
  <2> QED
    BY <2>1, <2>2
<1>2. ASSUME NEW d \in Calls, call'[d].pc = "tell", NEW i \in DOMAIN told'[call'[d].id]
      PROVE  told'[call'[d].id][i] # call'[d].event
  <2>1. call'[d] = call[d] /\ call[d].id \in Ids
    BY <1>2, EventFacts
  <2>2. CASE call[d].id = id
    BY <1>2, <2>1, <2>2 DEF Inv, OnceInv, AddedAt
  <2>3. CASE call[d].id # id
    BY <1>2, <2>1, <2>3 DEF Inv, OnceInv
  <2> QED
    BY <2>2, <2>3
<1>3. \A c, d \in Calls :
        c # d /\ call'[c].pc = "tell" /\ call'[d].pc = "tell" /\ call'[c].id = call'[d].id
          => call'[c].event # call'[d].event
  BY DEF Inv, OnceInv
<1> QED
  BY <1>1, <1>2, <1>3 DEF OnceInv

LEMMA OnceStep ==
  ASSUME Inv, Next
  PROVE  OnceInv'
<1> USE DEF Inv
<1>1. ASSUME NEW c \in Calls, CallStep(c)  PROVE OnceInv'
  <2>1. \A d \in Calls : d # c => call'[d] = call[d]
    BY <1>1, OtherCalls
  <2>2. CASE Quiet(c) \/ Reserve(c) \/ InsertExecution(c)
    <3>1. call'[c].pc # "tell"
      BY <2>2, QuietFacts, ReserveFacts, InsertExecutionFacts DEF Entered
    <3> QED
      BY <2>1, <2>2, <3>1, WaitOnce DEF Quiet, Reserve, InsertExecution
  <2>3. CASE InsertWorkflow(c)
    <3>1. PICK w \in WfId, rec \in Workflow : Added(c, w, rec)
      BY <2>3, AddsFacts
    <3> QED
      BY <2>1, <3>1, WaitOnce DEF Added, Unheard
  <2>4. CASE Rewrite(c)
    <3>1. PICK w \in DOMAIN workflows : Rewritten(c, w)
      BY <2>4, RewriteFacts
    <3>2. CASE call'[c] = [pc |-> "answered"]
      BY <2>1, <3>1, <3>2, WaitOnce DEF Rewritten
    <3>3. CASE /\ workflows'[w].version = workflows[w].version + 1
               /\ call'[c] = [pc |-> "tell", id |-> w, event |-> Event("updated", workflows'[w])]
      <4> DEFINE event == Event("updated", workflows'[w])
      <4>1. event.what.version = workflows[w].version + 1 /\ workflows[w].version \in Nat
        BY <3>3 DEF Event, TypeOK, Workflow
      <4>2. ASSUME NEW x \in WorkflowEvents, Past(x, workflows[w])  PROVE x # event
        <5>1. x.what.version <= workflows[w].version
          BY <4>2 DEF Past
        <5> QED
          BY <4>1, <5>1
      <4>3. \A i \in DOMAIN told[w] : told[w][i] # event
        BY <3>1, <4>2, EventFacts DEF Rewritten, VersionInv
      <4>4. \A d \in Calls : call[d].pc = "tell" /\ call[d].id = w => call[d].event # event
        BY <3>1, <4>2, EventFacts DEF Rewritten, VersionInv
      <4> QED
        BY <2>1, <3>1, <3>3, <4>3, <4>4, WaitOnce DEF Rewritten
    <3> QED
      BY <3>1, <3>2, <3>3 DEF Rewritten
  <2>5. CASE Removes(c)
    <3>1. PICK w \in DOMAIN workflows : Removed(c, w)
      BY <2>5, RemovesFacts
    <3>2. Event("deleted", w).kind = "deleted"
      BY DEF Event
    <3>3. \A i \in DOMAIN told[w] : told[w][i] # Event("deleted", w)
      BY <3>2 DEF VersionInv, Past
    <3>4. \A d \in Calls : call[d].pc = "tell" /\ call[d].id = w => call[d].event # Event("deleted", w)
      BY <3>2 DEF VersionInv, Past
    <3> QED
      BY <2>1, <3>1, <3>3, <3>4, WaitOnce DEF Removed
  <2>6. CASE Steer(c)
    <3>1. PICK e \in DOMAIN executions : SteeredBy(c, e)
      BY <2>6, SteerFacts
    <3>2. e \in ExecId /\ ~IsOver(e)
      BY <3>1 DEF SteeredBy, Steered, IsOver, Terminal, TypeOK
    <3>3. Event("cancelled", e).kind = "cancelled"
      BY DEF Event
    <3>4. \A i \in DOMAIN told[e] : told[e][i] # Event("cancelled", e)
      BY <3>2, <3>3 DEF CancelInv
    <3>5. \A d \in Calls : ~(call[d].pc = "tell" /\ call[d].id = e)
      BY <3>2 DEF CancelInv
    <3> QED
      BY <2>1, <2>6, <3>1, <3>4, <3>5, WaitOnce DEF SteeredBy, Steer
  <2>7. CASE StartExecution(c)
    <3>1. PICK e \in ExecId : Started(c, e)
      BY <2>7, StartExecutionFacts
    <3> DEFINE event == Event("started", call[c].rec)
    <3>2. event \in EventsOf(e) /\ e \in Ids /\ event.kind = "started"
      BY <2>7, <3>1, TellsFacts DEF Started, Ids, Event
    <3>3. /\ \A o \in Ids : o # e => told'[o] = told[o]
          /\ \E k \in Nat : AddedAt(e, event, k)
      BY <3>1, <3>2, TellFacts DEF Started
    <3>4. \A i \in DOMAIN told[e] : told[e][i] # event
      BY <3>1, <3>2 DEF Started, TaskInv, KindsIn
    <3>5. \A d \in Calls : call[d].pc = "tell" /\ call[d].id = e => call[d].event # event
      BY <3>2, EventFacts
    <3> QED
      BY <2>1, <3>1, <3>2, <3>3, <3>4, <3>5, TellOnce DEF Started
  <2>8. CASE TellOutcome(c)
    <3>1. /\ call[c].pc = "tell" /\ Tell(call[c].id, call[c].event)
          /\ call'[c] = [pc |-> "answered"]
      BY <2>8, TellOutcomeFacts
    <3>2. /\ call[c].id \in Ids /\ \A o \in Ids : o # call[c].id => told'[o] = told[o]
          /\ \E k \in Nat : AddedAt(call[c].id, call[c].event, k)
      BY <2>8, <3>1, TellsFacts, TellFacts
    <3>3. \A i \in DOMAIN told[call[c].id] : told[call[c].id][i] # call[c].event
      BY <3>1 DEF OnceInv
    <3>4. \A d \in Calls : d # c /\ call[d].pc = "tell" /\ call[d].id = call[c].id
            => call[d].event # call[c].event
      BY <3>1 DEF OnceInv
    <3> QED
      BY <2>1, <3>1, <3>2, <3>3, <3>4, TellOnce
  <2> QED
    BY <1>1, <2>2, <2>3, <2>4, <2>5, <2>6, <2>7, <2>8, CallEffects
<1>2. ASSUME NEW e \in ExecId, TaskStep(e)  PROVE OnceInv'
  <2>1. UNCHANGED call /\ e \in Ids
    BY <1>2, TaskAlone DEF Ids
  <2>2. CASE UNCHANGED told
    BY <2>1, <2>2 DEF OnceInv
  <2>3. ASSUME NEW event \in ExecutionEvents, Tell(e, event), event.kind # "cancelled",
               \A i \in DOMAIN told[e] : told[e][i] # event
        PROVE  OnceInv'
    <3>1. /\ \A o \in Ids : o # e => told'[o] = told[o]
          /\ \E k \in Nat : AddedAt(e, event, k)
      BY <2>1, <2>3, TellsFacts, TellFacts
    <3>2. \A d \in Calls : call[d].pc = "tell" /\ call[d].id = e => call[d].event # event
      BY <2>3, EventFacts
    <3> QED
      BY <2>1, <2>3, <3>1, <3>2, TellOnce
  <2>4. CASE TellNode(e)
    <3> DEFINE event == Event("nodeCompleted", task[e].node)
    <3>1. event \in ExecutionEvents /\ event.kind = "nodeCompleted" /\ event.what = task[e].node
      BY <2>4, TellsFacts DEF Event
    <3>2. \A i \in DOMAIN told[e] : told[e][i] # event
      BY <2>4, <3>1 DEF TellNode, TaskInv
    <3> QED
      BY <2>3, <2>4, <3>1, <3>2 DEF TellNode
  <2>5. CASE FinishOk(e) \/ EngineErr(e)
    <3> DEFINE event == Event(executions'[e].status, executions'[e])
    <3>1. Verdict(e)
      BY <2>5, VerdictFacts
    <3>2. event \in ExecutionEvents /\ event.kind \in {"completed", "failed"} /\ Tell(e, event)
      BY <3>1 DEF Verdict, Event
    <3>3. \A i \in DOMAIN told[e] : told[e][i].kind \notin {"completed", "failed"}
      BY <3>1 DEF Verdict, TaskInv, KindsIn
    <3> QED
      BY <2>3, <3>2, <3>3
  <2> QED
    BY <1>2, <2>2, <2>4, <2>5 DEF TaskStep, EngineOk, ReportNode
<1> QED
  BY <1>1, <1>2 DEF Next

-----------------------------------------------------------------------------
(* Versions of workflows, cancellations, and the records of executions.     *)

\* A task's step tells at most of its own execution; a call's of its id.
LEMMA TaskTells ==
  ASSUME Inv, NEW e \in ExecId, TaskStep(e)
  PROVE  /\ e \in Ids /\ e \notin WfId
         /\ \A o \in Ids : o # e => told'[o] = told[o]
         /\ \/ UNCHANGED told
            \/ /\ TellNode(e)
               /\ \E k \in Nat : AddedAt(e, Event("nodeCompleted", task[e].node), k)
            \/ /\ FinishOk(e) \/ EngineErr(e)
               /\ \E k \in Nat :
                    AddedAt(e, Event(executions'[e].status, executions'[e]), k)
<1> USE DEF Inv
<1>1. e \in Ids /\ e \notin WfId
  BY IdsApart DEF Ids
<1>2. CASE UNCHANGED told
  BY <1>1, <1>2
<1>3. CASE TellNode(e)
  <2>1. Event("nodeCompleted", task[e].node) \in EventsOf(e)
        /\ Tell(e, Event("nodeCompleted", task[e].node))
    BY <1>3, TellsFacts DEF TellNode
  <2> QED
    BY <1>1, <1>3, <2>1, TellFacts
<1>4. CASE FinishOk(e) \/ EngineErr(e)
  <2>1. Event(executions'[e].status, executions'[e]) \in EventsOf(e)
        /\ Tell(e, Event(executions'[e].status, executions'[e]))
    BY <1>4, VerdictFacts, TellsFacts DEF Verdict
  <2> QED
    BY <1>1, <1>4, <2>1, TellFacts
<1> QED
  BY <1>2, <1>3, <1>4 DEF TaskStep, EngineOk, ReportNode

LEMMA StartTells ==
  ASSUME Inv, NEW c \in Calls, NEW e \in ExecId, StartExecution(c), Started(c, e)
  PROVE  /\ e \in Ids /\ e \notin WfId
         /\ \A o \in Ids : o # e => told'[o] = told[o]
         /\ \E k \in Nat : AddedAt(e, Event("started", call[c].rec), k)
<1>1. e \in Ids /\ e \notin WfId
  BY IdsApart DEF Ids
<1>2. Event("started", call[c].rec) \in EventsOf(e) /\ Tell(e, Event("started", call[c].rec))
  BY TellsFacts DEF Started, Inv
<1> QED
  BY <1>1, <1>2, TellFacts DEF Inv

LEMMA OutcomeTells ==
  ASSUME Inv, NEW c \in Calls, TellOutcome(c)
  PROVE  /\ UNCHANGED <<workflows, executions, task>>
         /\ call[c].pc = "tell" /\ call[c].id \in Ids /\ call'[c] = [pc |-> "answered"]
         /\ \A o \in Ids : o # call[c].id => told'[o] = told[o]
         /\ \E k \in Nat : AddedAt(call[c].id, call[c].event, k)
<1>1. /\ call[c].pc = "tell" /\ Tell(call[c].id, call[c].event)
      /\ call[c].id \in Ids /\ call[c].event \in EventsOf(call[c].id)
  BY TellOutcomeFacts, TellsFacts DEF Inv
<1> QED
  BY <1>1, TellOutcomeFacts, TellFacts DEF Inv

LEMMA VersionStep ==
  ASSUME Inv, Next
  PROVE  VersionInv'
<1> USE DEF Inv
<1>0. DOMAIN workflows \subseteq WfId /\ WfId \subseteq Ids
  BY DEF TypeOK, Ids
<1>1. ASSUME NEW c \in Calls, CallStep(c)  PROVE VersionInv'
  <2>1. \A d \in Calls : d # c => call'[d] = call[d]
    BY <1>1, OtherCalls
  <2>2. CASE Quiet(c) \/ Reserve(c) \/ InsertExecution(c)
    <3>1. call'[c].pc # "tell" /\ UNCHANGED <<workflows, told>>
      BY <2>2, QuietFacts, ReserveFacts, InsertExecutionFacts DEF Entered, Quiet, Reserve
    <3> QED
      BY <2>1, <3>1 DEF VersionInv
  <2>3. CASE InsertWorkflow(c)
    <3>1. PICK w \in WfId, rec \in Workflow : Added(c, w, rec)
      BY <2>3, AddsFacts
    <3>2. Past(Event("created", rec), workflows'[w])
      <4>1. rec.version \in Nat /\ workflows'[w] = rec
        BY <3>1 DEF Added, Workflow
      <4> QED
        BY <4>1 DEF Past, Event
    <3>3. DOMAIN told[w] = {}
      BY <3>1 DEF Added, Unheard
    <3>4. \A d \in Calls : call'[d].pc = "tell" /\ call'[d].id = w => Past(call'[d].event, workflows'[w])
      BY <2>1, <3>1, <3>2 DEF Added, Unheard
    <3> QED
      BY <2>1, <3>1, <3>3, <3>4 DEF Added, VersionInv
  <2>4. CASE Rewrite(c)
    <3>1. PICK w \in DOMAIN workflows : Rewritten(c, w)
      BY <2>4, RewriteFacts
    <3>2. /\ workflows[w].version \in Nat
          /\ workflows'[w].version \in {workflows[w].version, workflows[w].version + 1}
      BY <3>1 DEF Rewritten, TypeOK, Workflow
    <3>3. ASSUME NEW x \in WorkflowEvents, Past(x, workflows[w])  PROVE Past(x, workflows'[w])
      <4>1. x.kind # "deleted" /\ x.what.version <= workflows[w].version
        BY <3>3 DEF Past
      <4>2. x.what.version \in Nat
        BY <4>1 DEF WorkflowEvents, Workflow
      <4> QED
        BY <3>2, <4>1, <4>2 DEF Past
    <3>4. \A i \in DOMAIN told[w] : Past(told[w][i], workflows'[w])
      BY <3>1, <3>3, EventFacts DEF VersionInv, Rewritten
    <3>5. \A d \in Calls : call[d].pc = "tell" /\ call[d].id = w => Past(call[d].event, workflows'[w])
      BY <3>1, <3>3, EventFacts DEF VersionInv, Rewritten
    <3>6. call'[c].pc = "tell" => call'[c].id = w /\ Past(call'[c].event, workflows'[w])
      <4>1. workflows'[w].version <= workflows'[w].version
        BY <3>2
      <4> QED
        BY <3>1, <4>1 DEF Rewritten, Past, Event
    <3> QED
      BY <2>1, <3>1, <3>4, <3>5, <3>6 DEF Rewritten, VersionInv
  <2>5. CASE Removes(c)
    <3>1. PICK w \in DOMAIN workflows : Removed(c, w)
      BY <2>5, RemovesFacts
    <3> QED
      BY <2>1, <3>1 DEF Removed, VersionInv
  <2>6. CASE Steer(c)
    <3>1. PICK e \in DOMAIN executions : SteeredBy(c, e)
      BY <2>6, SteerFacts
    <3>2. e \notin WfId
      BY IdsApart DEF TypeOK
    <3> QED
      BY <1>0, <2>1, <2>6, <3>1, <3>2 DEF SteeredBy, Steer, VersionInv
  <2>7. CASE StartExecution(c)
    <3>1. PICK e \in ExecId : Started(c, e)
      BY <2>7, StartExecutionFacts
    <3> QED
      BY <1>0, <2>1, <2>7, <3>1, StartTells DEF Started, VersionInv
  <2>8. CASE TellOutcome(c)
    <3>1. PICK k \in Nat : AddedAt(call[c].id, call[c].event, k)
      BY <2>8, OutcomeTells
    <3>2. /\ UNCHANGED <<workflows, executions, task>>
          /\ call[c].pc = "tell" /\ call[c].id \in Ids /\ call'[c] = [pc |-> "answered"]
          /\ \A o \in Ids : o # call[c].id => told'[o] = told[o]
      BY <2>8, OutcomeTells
    <3>3. ASSUME NEW w \in DOMAIN workflows, NEW i \in DOMAIN told'[w]
          PROVE  Past(told'[w][i], workflows[w])
      <4>1. CASE w = call[c].id
        BY <3>1, <3>2, <3>3, <4>1 DEF AddedAt, VersionInv
      <4>2. CASE w # call[c].id
        BY <1>0, <3>2, <3>3, <4>2 DEF VersionInv
      <4> QED
        BY <4>1, <4>2
    <3> QED
      BY <2>1, <3>2, <3>3 DEF VersionInv
  <2> QED
    BY <1>1, <2>2, <2>3, <2>4, <2>5, <2>6, <2>7, <2>8, CallEffects
<1>2. ASSUME NEW e \in ExecId, TaskStep(e)  PROVE VersionInv'
  BY <1>0, <1>2, TaskTells, TaskAlone DEF VersionInv
<1> QED
  BY <1>1, <1>2 DEF Next

LEMMA CancelStep ==
  ASSUME Inv, Next
  PROVE  CancelInv'
<1> USE DEF Inv
<1>0. ExecId \subseteq Ids /\ DOMAIN executions \subseteq ExecId /\ DOMAIN workflows \subseteq WfId
  BY DEF TypeOK, Ids
<1>1. ASSUME NEW c \in Calls, CallStep(c)  PROVE CancelInv'
  <2>1. \A d \in Calls : d # c => call'[d] = call[d]
    BY <1>1, OtherCalls
  <2>2. CASE UNCHANGED <<executions, told>> /\ (call'[c].pc = "tell" => call'[c].id \in WfId)
    BY <2>1, <2>2, IdsApart DEF CancelInv, IsOver
  <2>3. CASE InsertExecution(c)
    <3>1. PICK e \in ExecId, w \in WfId : Entered(c, e, w)
      BY <2>3, InsertExecutionFacts
    <3>2. \A d \in ExecId : IsOver(d) => IsOver(d)'
      BY <3>1 DEF Entered, IsOver
    <3> QED
      BY <2>1, <3>1, <3>2 DEF Entered, CancelInv
  <2>4. CASE Steer(c)
    <3>1. PICK e \in DOMAIN executions : SteeredBy(c, e)
      BY <2>4, SteerFacts
    <3>2. \A d \in ExecId : IsOver(d) => IsOver(d)'
      BY <3>1 DEF SteeredBy, Steered, IsOver, Terminal
    <3>3. call'[c].pc = "tell" => call'[c].id = e /\ IsOver(e)'
      BY <3>1 DEF SteeredBy, Steered, IsOver, Terminal
    <3>4. UNCHANGED told
      BY <2>4 DEF Steer
    <3> QED
      BY <2>1, <3>2, <3>3, <3>4 DEF CancelInv
  <2>5. CASE StartExecution(c)
    <3>1. PICK e \in ExecId : Started(c, e)
      BY <2>5, StartExecutionFacts
    <3>2. /\ \A o \in Ids : o # e => told'[o] = told[o]
          /\ \E k \in Nat : AddedAt(e, Event("started", call[c].rec), k)
      BY <2>5, <3>1, StartTells
    <3>3. \A d \in ExecId : IsOver(d)' <=> IsOver(d)
      BY <3>1 DEF Started, IsOver
    <3>4. Event("started", call[c].rec).kind = "started"
      BY DEF Event
    <3>5. ASSUME NEW d \in ExecId, NEW i \in DOMAIN told'[d], told'[d][i].kind = "cancelled"
          PROVE  IsOver(d)
      <4>1. CASE d = e
        BY <3>2, <3>4, <3>5, <4>1 DEF AddedAt, CancelInv
      <4>2. CASE d # e
        BY <1>0, <3>2, <3>5, <4>2 DEF CancelInv
      <4> QED
        BY <4>1, <4>2
    <3> QED
      BY <2>1, <3>1, <3>3, <3>5 DEF CancelInv, Started
  <2>6. CASE TellOutcome(c)
    <3>1. PICK k \in Nat : AddedAt(call[c].id, call[c].event, k)
      BY <2>6, OutcomeTells
    <3>2. /\ UNCHANGED <<workflows, executions, task>>
          /\ call[c].pc = "tell" /\ call[c].id \in Ids /\ call'[c] = [pc |-> "answered"]
          /\ \A o \in Ids : o # call[c].id => told'[o] = told[o]
      BY <2>6, OutcomeTells
    <3>3. ASSUME NEW d \in ExecId, NEW i \in DOMAIN told'[d], told'[d][i].kind = "cancelled"
          PROVE  IsOver(d)
      <4>1. CASE d = call[c].id
        BY <3>1, <3>2, <3>3, <4>1 DEF AddedAt, CancelInv
      <4>2. CASE d # call[c].id
        BY <1>0, <3>2, <3>3, <4>2 DEF CancelInv
      <4> QED
        BY <4>1, <4>2
    <3>4. \A d \in ExecId : IsOver(d)' <=> IsOver(d)
      BY <3>2 DEF IsOver
    <3> QED
      BY <2>1, <3>2, <3>3, <3>4 DEF CancelInv
  <2>7. CASE Quiet(c) \/ Reserve(c)
    BY <2>2, <2>7, QuietFacts, ReserveFacts DEF Quiet, Reserve
  <2>8. CASE InsertWorkflow(c)
    <3>1. PICK w \in WfId, rec \in Workflow : Added(c, w, rec)
      BY <2>8, AddsFacts
    <3> QED
      BY <2>2, <3>1 DEF Added
  <2>9. CASE Rewrite(c)
    <3>1. PICK w \in DOMAIN workflows : Rewritten(c, w)
      BY <2>9, RewriteFacts
    <3> QED
      BY <2>2, <3>1 DEF Rewritten
  <2>10. CASE Removes(c)
    <3>1. PICK w \in DOMAIN workflows : Removed(c, w)
      BY <2>10, RemovesFacts
    <3> QED
      BY <2>2, <3>1 DEF Removed
  <2> QED
    BY <1>1, <2>3, <2>4, <2>5, <2>6, <2>7, <2>8, <2>9, <2>10, CallEffects
<1>2. ASSUME NEW e \in ExecId, TaskStep(e)  PROVE CancelInv'
  <2>1. /\ UNCHANGED call /\ DOMAIN executions' = DOMAIN executions
        /\ \A d \in DOMAIN executions : d # e => executions'[d] = executions[d]
    BY <1>2, TaskAlone
  <2>2. e \in DOMAIN executions => \/ executions'[e].status = executions[e].status
                                   \/ executions'[e].status \in {"completed", "failed"}
    <3>1. CASE ReportNode(e)
      BY <3>1, ReportNodeFacts DEF Reports
    <3>2. CASE FinishOk(e) \/ EngineErr(e)
      BY <3>2, VerdictFacts DEF Verdict
    <3> QED
      BY <1>2, <3>1, <3>2 DEF TaskStep, EngineOk, TellNode
  <2>3. \A d \in ExecId : IsOver(d) => IsOver(d)'
    BY <2>1, <2>2 DEF IsOver, Terminal
  <2>4. /\ \A o \in Ids : o # e => told'[o] = told[o]
        /\ \/ UNCHANGED told
           \/ \E event, k : event.kind # "cancelled" /\ AddedAt(e, event, k)
    <3>1. Event("nodeCompleted", task[e].node).kind = "nodeCompleted"
      BY DEF Event
    <3>2. FinishOk(e) \/ EngineErr(e) =>
            Event(executions'[e].status, executions'[e]).kind \in {"completed", "failed"}
      BY VerdictFacts DEF Verdict, Event
    <3> QED
      BY <1>2, <3>1, <3>2, TaskTells
  <2>5. ASSUME NEW d \in ExecId, NEW i \in DOMAIN told'[d], told'[d][i].kind = "cancelled"
        PROVE  IsOver(d)
    <3>1. CASE d = e
      BY <2>4, <2>5, <3>1 DEF AddedAt, CancelInv
    <3>2. CASE d # e
      BY <1>0, <2>4, <2>5, <3>2 DEF CancelInv
    <3> QED
      BY <3>1, <3>2
  <2> QED
    BY <2>1, <2>3, <2>5 DEF CancelInv
<1> QED
  BY <1>1, <1>2 DEF Next

-----------------------------------------------------------------------------
(* The background task and its execution's record.                          *)

\* What other steps leave of an execution and its task.
Undisturbed(e) ==
  /\ task'[e] = task[e]
  /\ e \in DOMAIN executions' <=> e \in DOMAIN executions
  /\ e \in DOMAIN executions =>
       /\ executions'[e].done = executions[e].done
       /\ executions'[e].progress = executions[e].progress
       /\ executions'[e].status = "completed" => executions[e].status = "completed"
  /\ \/ told'[e] = told[e]
     \/ \E event : event.kind = "cancelled" /\ \E k \in Nat : AddedAt(e, event, k)

LEMMA TaskUndisturbed ==
  ASSUME NEW e \in ExecId, TaskInv(e), Undisturbed(e)
  PROVE  TaskInv(e)'
<1> DEFINE t == task[e]
           x == executions[e]
<1>1. \A kinds : "cancelled" \in kinds /\ KindsIn(told[e], kinds) => KindsIn(told'[e], kinds)
  BY DEF Undisturbed, AddedAt, KindsIn
<1>2. \A i \in DOMAIN told[e] : i \in DOMAIN told'[e] /\ told'[e][i] = told[e][i]
  BY DEF Undisturbed, AddedAt
<1>3. \A i \in DOMAIN told'[e] : told'[e][i].kind = "nodeCompleted" =>
        i \in DOMAIN told[e] /\ told'[e][i] = told[e][i]
  BY DEF Undisturbed, AddedAt
<1>4. /\ task'[e] = t
      /\ e \in DOMAIN executions' <=> e \in DOMAIN executions
      /\ e \in DOMAIN executions =>
           /\ executions'[e].done = x.done /\ executions'[e].progress = x.progress
           /\ executions'[e].status = "completed" => x.status = "completed"
  BY DEF Undisturbed
<1>5. t.pc = "none" => /\ e \in DOMAIN executions' => NothingDone(executions'[e])
                       /\ KindsIn(told'[e], {"cancelled"})
  BY <1>1, <1>4 DEF TaskInv, NothingDone
<1>6. t.pc # "none" => /\ e \in DOMAIN executions'
                       /\ \E i \in DOMAIN told'[e] : told'[e][i].kind = "started"
  BY <1>2, <1>4 DEF TaskInv
<1>7. t.pc = "engine" => NothingDone(executions'[e]) /\ KindsIn(told'[e], {"cancelled", "started"})
  BY <1>1, <1>4 DEF TaskInv, NothingDone
<1>8. t.pc \in {"report", "tellNode"} =>
        /\ Reporting(executions'[e], t, told'[e])
        /\ KindsIn(told'[e], {"cancelled", "started", "nodeCompleted"})
  BY <1>1, <1>3, <1>4 DEF TaskInv, Reporting
<1>9. t.pc = "tellNode" =>
        /\ t.node \notin t.todo
        /\ \A i \in DOMAIN told'[e] : told'[e][i].kind = "nodeCompleted" => told'[e][i].what # t.node
  BY <1>3 DEF TaskInv
<1>10. t.pc = "ended" /\ executions'[e].status = "completed" =>
         Lists(executions'[e].done, Reported(t.outputs))
  BY <1>4 DEF TaskInv
<1> QED
  BY <1>4, <1>5, <1>6, <1>7, <1>8, <1>9, <1>10 DEF TaskInv

LEMMA ReportMore ==
  ASSUME TypeOK, NEW e \in ExecId, TaskInv(e), NEW n \in task[e].todo, Reports(e, n)
  PROVE  TaskInv(e)'
<1> DEFINE t == task[e]
           x == executions[e]
           y == executions'[e]
           R == Reported(t.outputs)
           S == R \ t.todo
<1>1. /\ t.pc = "report" /\ e \in DOMAIN executions /\ UNCHANGED told
      /\ task'[e] = [pc |-> "tellNode", outputs |-> t.outputs, todo |-> t.todo \ {n}, node |-> n]
      /\ y.done = Append(x.done, n)
      /\ y.progress = Percent(Len(x.done) + 1, AtLeast1(Cardinality(R)))
      /\ x.done \in Seq(Node \cup {Input}) /\ n \in Node \cup {Input}
      /\ t.outputs \in Outputs /\ t.todo \in Outputs
  <2>1. task[e].pc = "report" /\ e \in DOMAIN executions
    BY DEF Reports
  <2>2. t.outputs \in Outputs /\ t.todo \in Outputs
    BY <2>1, TaskFacts
  <2>3. x.done \in Seq(Node \cup {Input}) /\ n \in Node \cup {Input}
    BY <2>1, <2>2 DEF TypeOK, Execution, Outputs
  <2> QED
    BY <2>2, <2>3 DEF Reports
<1>2. /\ t.todo \subseteq R
      /\ {x.done[i] : i \in DOMAIN x.done} = S
      /\ Len(x.done) = Cardinality(S)
      /\ \A i \in DOMAIN told[e] : told[e][i].kind = "nodeCompleted" => told[e][i].what \notin t.todo
      /\ KindsIn(told[e], {"cancelled", "started", "nodeCompleted"})
      /\ \E i \in DOMAIN told[e] : told[e][i].kind = "started"
  BY <1>1 DEF TaskInv, Reporting, Lists
<1>3. IsFiniteSet(S) /\ Cardinality(S) \in Nat
  <2>1. IsFiniteSet(R) /\ S \subseteq R
    BY <1>1, FiniteNodes
  <2> QED
    BY <2>1, FS_Subset, FS_CardinalityType
<1>4. R \ (t.todo \ {n}) = S \cup {n} /\ n \notin S
  BY <1>2
<1>5. Cardinality(S \cup {n}) = Cardinality(S) + 1
  BY <1>3, <1>4, FS_AddElement
<1>6. /\ Len(y.done) = Len(x.done) + 1
      /\ DOMAIN x.done = 1..Len(x.done) /\ DOMAIN y.done = 1..(Len(x.done) + 1)
      /\ \A i \in 1..Len(x.done) : y.done[i] = x.done[i]
      /\ y.done[Len(x.done) + 1] = n
      /\ Len(x.done) \in Nat
  BY <1>1, AppendFacts
<1>7. {y.done[i] : i \in DOMAIN y.done} = S \cup {n}
  <2>1. 1..(Len(x.done) + 1) = 1..Len(x.done) \cup {Len(x.done) + 1}
    BY <1>6
  <2>2. \A v \in S : \E i \in 1..Len(x.done) : x.done[i] = v
    <3> HIDE DEF S
    <3> QED
      BY <1>2, <1>6
  <2>3. \A i \in 1..Len(x.done) : x.done[i] \in S
    <3> HIDE DEF S
    <3> QED
      BY <1>2, <1>6
  <2> HIDE DEF S, x, y
  <2>4. ASSUME NEW i \in DOMAIN y.done  PROVE y.done[i] \in S \cup {n}
    BY <1>6, <2>1, <2>3
  <2>5. ASSUME NEW v \in S \cup {n}  PROVE \E i \in DOMAIN y.done : y.done[i] = v
    BY <1>6, <2>1, <2>2
  <2> QED
    BY <2>4, <2>5
<1>8. Lists(y.done, R \ (t.todo \ {n}))
  <2> HIDE DEF S
  <2> QED
    BY <1>2, <1>4, <1>5, <1>6, <1>7 DEF Lists
<1>9. y.progress = Percent(Len(y.done), AtLeast1(Cardinality(R)))
  BY <1>1, <1>6
<1>10. \A i \in DOMAIN told[e] : told[e][i].kind = "nodeCompleted" =>
         told[e][i].what \notin t.todo \ {n} /\ told[e][i].what # n
  BY <1>2
<1>11. Reporting(y, task'[e], told'[e])
  BY <1>1, <1>2, <1>8, <1>9, <1>10 DEF Reporting
<1>12. e \in DOMAIN executions'
  BY <1>1 DEF Reports
<1> QED
  BY <1>1, <1>2, <1>10, <1>11, <1>12 DEF TaskInv

LEMMA ReportingStarts ==
  ASSUME TypeOK, NEW e \in ExecId, TaskInv(e), EngineOk(e)
  PROVE  TaskInv(e)'
<1>1. /\ task[e].pc = "engine" /\ UNCHANGED <<executions, told>>
      /\ e \in DOMAIN executions /\ DOMAIN task = ExecId
      /\ executions[e].done = <<>> /\ executions[e].progress = 0
      /\ KindsIn(told[e], {"cancelled", "started"})
      /\ \E i \in DOMAIN told[e] : told[e][i].kind = "started"
  BY DEF EngineOk, TaskInv, NothingDone, TypeOK
<1>2. PICK ran \in SUBSET task[e].spec.nodes :
        task' = [task EXCEPT ![e] = [pc |-> "report", outputs |-> ran \cup {Input},
                                     todo |-> Reported(ran \cup {Input})]]
  BY DEF EngineOk
<1> DEFINE outputs == ran \cup {Input}
<1>3. task'[e] = [pc |-> "report", outputs |-> outputs, todo |-> Reported(outputs)]
  BY <1>1, <1>2
<1>4. Cardinality(Reported(outputs)) \in Nat
  <2>1. task[e].spec.nodes \subseteq Node
    BY <1>1, TaskFacts, DocumentAssumption
  <2>2. outputs \in Outputs
    BY <2>1 DEF Outputs
  <2> QED
    BY <2>2, FiniteNodes, FS_CardinalityType
<1> HIDE DEF outputs
<1>5. Lists(<<>>, Reported(outputs) \ Reported(outputs))
  BY FS_EmptySet DEF Lists
<1>6. Percent(Len(<<>>), AtLeast1(Cardinality(Reported(outputs)))) = 0
  BY <1>4, PercentFacts
<1>7. Reporting(executions[e], task'[e], told[e])
  BY <1>1, <1>3, <1>5, <1>6 DEF Reporting, KindsIn
<1>8. KindsIn(told[e], {"cancelled", "started", "nodeCompleted"})
  BY <1>1 DEF KindsIn
<1> QED
  BY <1>1, <1>3, <1>7, <1>8 DEF TaskInv

LEMMA NodeTold ==
  ASSUME TypeOK, NEW e \in ExecId, TaskInv(e), TellNode(e), NEW k \in Nat,
         AddedAt(e, Event("nodeCompleted", task[e].node), k)
  PROVE  TaskInv(e)'
<1> DEFINE t == task[e]
<1>1. /\ t.pc = "tellNode" /\ UNCHANGED executions /\ e \in DOMAIN executions
      /\ task'[e] = [pc |-> "report", outputs |-> t.outputs, todo |-> t.todo]
      /\ Reporting(executions[e], t, told[e])
      /\ KindsIn(told[e], {"cancelled", "started", "nodeCompleted"})
      /\ t.node \notin t.todo
      /\ \E i \in DOMAIN told[e] : told[e][i].kind = "started"
  BY DEF TellNode, TaskInv, TypeOK
<1>2. /\ DOMAIN told'[e] = DOMAIN told[e] \cup {k}
      /\ told'[e][k].kind = "nodeCompleted" /\ told'[e][k].what = t.node
      /\ \A i \in DOMAIN told[e] : told'[e][i] = told[e][i]
  BY DEF AddedAt, Event
<1>3. KindsIn(told'[e], {"cancelled", "started", "nodeCompleted"})
  BY <1>1, <1>2 DEF KindsIn
<1>4. \A i \in DOMAIN told'[e] : told'[e][i].kind = "nodeCompleted" => told'[e][i].what \notin t.todo
  BY <1>1, <1>2 DEF Reporting
<1>5. Reporting(executions[e], task'[e], told'[e])
  BY <1>1, <1>4 DEF Reporting
<1>6. \E i \in DOMAIN told'[e] : told'[e][i].kind = "started"
  BY <1>1, <1>2
<1> QED
  BY <1>1, <1>3, <1>5, <1>6 DEF TaskInv

LEMMA VerdictGiven ==
  ASSUME TypeOK, NEW e \in ExecId, TaskInv(e), Verdict(e), NEW k \in Nat,
         AddedAt(e, Event(executions'[e].status, executions'[e]), k),
         DOMAIN executions' = DOMAIN executions
  PROVE  TaskInv(e)'
<1>1. /\ task'[e].pc = "ended" /\ e \in DOMAIN executions'
      /\ \E i \in DOMAIN told[e] : told[e][i].kind = "started"
  BY DEF Verdict, TaskInv
<1>2. \E i \in DOMAIN told'[e] : told'[e][i].kind = "started"
  BY <1>1 DEF AddedAt
<1>3. executions'[e].status = "completed" => Lists(executions'[e].done, Reported(task'[e].outputs))
  <2>1. executions'[e].status = "completed" =>
          /\ task[e].pc = "report" /\ task[e].todo = {}
          /\ executions'[e].done = executions[e].done
          /\ task'[e].outputs = task[e].outputs
    BY DEF Verdict
  <2>2. task[e].pc = "report" => Lists(executions[e].done, Reported(task[e].outputs) \ task[e].todo)
    BY DEF TaskInv, Reporting
  <2>3. Reported(task[e].outputs) \ {} = Reported(task[e].outputs)
    OBVIOUS
  <2> QED
    BY <2>1, <2>2, <2>3
<1> QED
  BY <1>1, <1>2, <1>3 DEF TaskInv

LEMMA TaskStarted ==
  ASSUME TypeOK, NEW c \in Calls, NEW e \in ExecId, TaskInv(e), Started(c, e), NEW k \in Nat,
         AddedAt(e, Event("started", call[c].rec), k)
  PROVE  TaskInv(e)'
<1>1. /\ UNCHANGED executions /\ e \in DOMAIN executions /\ task'[e].pc = "engine"
      /\ NothingDone(executions[e]) /\ KindsIn(told[e], {"cancelled"})
  BY DEF Started, TaskInv
<1>2. /\ DOMAIN told'[e] = DOMAIN told[e] \cup {k} /\ told'[e][k].kind = "started"
      /\ \A i \in DOMAIN told[e] : told'[e][i] = told[e][i]
  BY DEF AddedAt, Event
<1>3. KindsIn(told'[e], {"cancelled", "started"})
  BY <1>1, <1>2 DEF KindsIn
<1>4. \E i \in DOMAIN told'[e] : told'[e][i].kind = "started"
  BY <1>2
<1> QED
  BY <1>1, <1>3, <1>4 DEF TaskInv

LEMMA TaskInvStep ==
  ASSUME Inv, Next, NEW o \in ExecId
  PROVE  TaskInv(o)'
<1> USE DEF Inv
<1>0. TypeOK /\ TaskInv(o) /\ o \in Ids /\ o \notin WfId /\ DOMAIN executions \subseteq ExecId
  BY IdsApart DEF Ids, TypeOK
<1>1. ASSUME NEW c \in Calls, CallStep(c)  PROVE TaskInv(o)'
  <2>1. CASE UNCHANGED <<executions, task, told>>
    BY <1>0, <2>1, TaskUndisturbed DEF Undisturbed
  <2>2. CASE InsertExecution(c)
    <3>1. PICK e \in ExecId, w \in WfId : Entered(c, e, w)
      BY <2>2, InsertExecutionFacts
    <3>2. CASE o = e
      <4>1. /\ task'[o].pc = "none" /\ told'[o] = told[o]
            /\ KindsIn(told[o], {"cancelled"}) /\ executions'[o] = NewExecution(w)
        BY <1>0, <3>1, <3>2 DEF Entered, TaskInv
      <4>2. NothingDone(NewExecution(w))
        BY DEF NothingDone, NewExecution
      <4> QED
        BY <4>1, <4>2 DEF TaskInv
    <3>3. CASE o # e
      BY <1>0, <3>1, <3>3, TaskUndisturbed DEF Entered, Undisturbed
    <3> QED
      BY <3>2, <3>3
  <2>3. CASE StartExecution(c)
    <3>1. PICK e \in ExecId : Started(c, e)
      BY <2>3, StartExecutionFacts
    <3>2. /\ \A d \in Ids : d # e => told'[d] = told[d]
          /\ \E k \in Nat : AddedAt(e, Event("started", call[c].rec), k)
      BY <2>3, <3>1, StartTells
    <3>3. CASE o = e
      BY <1>0, <3>1, <3>2, <3>3, TaskStarted
    <3>4. CASE o # e
      BY <1>0, <3>1, <3>2, <3>4, TaskUndisturbed DEF Started, Undisturbed
    <3> QED
      BY <3>3, <3>4
  <2>4. CASE Steer(c)
    <3>1. PICK e \in DOMAIN executions : SteeredBy(c, e)
      BY <2>4, SteerFacts
    <3>2. Undisturbed(o)
      BY <2>4, <3>1 DEF Steer, SteeredBy, Steered, Undisturbed
    <3> QED
      BY <1>0, <3>2, TaskUndisturbed
  <2>5. CASE TellOutcome(c)
    <3>1. /\ UNCHANGED <<workflows, executions, task>>
          /\ call[c].pc = "tell" /\ call[c].id \in Ids
          /\ \A d \in Ids : d # call[c].id => told'[d] = told[d]
          /\ \E k \in Nat : AddedAt(call[c].id, call[c].event, k)
      BY <2>5, OutcomeTells
    <3>2. o = call[c].id => call[c].event.kind = "cancelled"
      BY <3>1, EventFacts
    <3>3. Undisturbed(o)
      BY <1>0, <3>1, <3>2 DEF Undisturbed
    <3> QED
      BY <1>0, <3>3, TaskUndisturbed
  <2>6. CASE InsertWorkflow(c)
    <3>1. PICK w \in WfId, rec \in Workflow : Added(c, w, rec)
      BY <2>6, AddsFacts
    <3> QED
      BY <2>1, <3>1 DEF Added
  <2> QED
    BY <1>1, <2>1, <2>2, <2>3, <2>4, <2>5, <2>6, CallEffects DEF Quiet, Reserve, Rewrite, Removes
<1>2. ASSUME NEW e \in ExecId, TaskStep(e)  PROVE TaskInv(o)'
  <2>0. TaskInv(e)
    OBVIOUS
  <2>1. CASE o # e
    <3>1. Undisturbed(o)
      BY <1>0, <1>2, <2>1, TaskAlone, TaskTells DEF Undisturbed
    <3> QED
      BY <1>0, <3>1, TaskUndisturbed
  <2>2. CASE o = e /\ EngineOk(e)
    BY <1>0, <2>2, ReportingStarts
  <2>3. CASE o = e /\ ReportNode(e)
    <3>1. PICK n \in task[e].todo : Reports(e, n)
      BY <1>0, <2>0, <2>3, ReportNodeFacts
    <3> QED
      BY <1>0, <2>3, <3>1, ReportMore
  <2>4. CASE o = e /\ TellNode(e)
    <3>1. PICK k \in Nat : AddedAt(e, Event("nodeCompleted", task[e].node), k)
      <4>1. Event("nodeCompleted", task[e].node) \in EventsOf(e)
            /\ Tell(e, Event("nodeCompleted", task[e].node))
        BY <2>4, TellsFacts DEF TellNode
      <4> QED
        BY <1>0, <2>4, <4>1, TellFacts
    <3> QED
      BY <1>0, <2>4, <3>1, NodeTold
  <2>5. CASE o = e /\ (FinishOk(e) \/ EngineErr(e))
    <3>1. Verdict(e)
      BY <1>0, <2>0, <2>5, VerdictFacts
    <3>2. PICK k \in Nat : AddedAt(e, Event(executions'[e].status, executions'[e]), k)
      <4>1. Event(executions'[e].status, executions'[e]) \in EventsOf(e)
            /\ Tell(e, Event(executions'[e].status, executions'[e]))
        BY <3>1, TellsFacts DEF Verdict
      <4> QED
        BY <1>0, <2>5, <4>1, TellFacts
    <3>3. DOMAIN executions' = DOMAIN executions
      BY <1>2, TaskAlone
    <3> QED
      BY <1>0, <2>5, <3>1, <3>2, <3>3, VerdictGiven
  <2> QED
    BY <1>2, <2>1, <2>2, <2>3, <2>4, <2>5 DEF TaskStep
<1> QED
  BY <1>1, <1>2 DEF Next

-----------------------------------------------------------------------------
(* The engine's verdict, and what was told of it.                           *)

LEMMA ReportingBounds ==
  ASSUME NEW x, NEW t, NEW s, t.outputs \in Outputs, Reporting(x, t, s)
  PROVE  /\ Len(x.done) \in Nat
         /\ Cardinality(Reported(t.outputs)) \in Nat
         /\ x.progress = Percent(Len(x.done), AtLeast1(Cardinality(Reported(t.outputs))))
         /\ x.progress <= 100
<1> DEFINE R == Reported(t.outputs)
<1>1. IsFiniteSet(R)
  BY FiniteNodes
<1>2. /\ Cardinality(R) \in Nat
      /\ Cardinality(R \ t.todo) \in Nat
      /\ Cardinality(R \ t.todo) <= Cardinality(R)
  <2>1. R \ t.todo \subseteq R
    OBVIOUS
  <2> HIDE DEF R
  <2>2. IsFiniteSet(R \ t.todo) /\ Cardinality(R \ t.todo) <= Cardinality(R)
    BY <1>1, <2>1, FS_Subset
  <2> QED
    BY <1>1, <2>2, FS_CardinalityType
<1>3. Len(x.done) = Cardinality(R \ t.todo) /\ x.progress = Percent(Len(x.done), AtLeast1(Cardinality(R)))
  BY DEF Reporting, Lists
<1> HIDE DEF R
<1>4. Percent(Cardinality(R \ t.todo), AtLeast1(Cardinality(R))) <= 100
  BY <1>2, PercentFacts
<1> QED
  BY <1>2, <1>3, <1>4 DEF R

LEMMA RecordStep ==
  ASSUME Inv, Next
  PROVE  RecordInv'
<1> USE DEF Inv
<1>0. DOMAIN executions \subseteq ExecId
  BY DEF TypeOK
<1>1. ASSUME NEW c \in Calls, CallStep(c)  PROVE RecordInv'
  <2>1. CASE UNCHANGED <<executions, task>>
    BY <2>1 DEF RecordInv
  <2>2. CASE InsertExecution(c)
    <3>1. PICK e \in ExecId, w \in WfId : Entered(c, e, w)
      BY <2>2, InsertExecutionFacts
    <3> QED
      BY <3>1 DEF Entered, RecordInv, NewExecution, Terminal
  <2>3. CASE StartExecution(c)
    <3>1. PICK e \in ExecId : Started(c, e)
      BY <2>3, StartExecutionFacts
    <3>2. /\ UNCHANGED executions /\ task[e].pc # "ended" /\ task'[e].pc # "ended"
          /\ \A d \in ExecId : d # e => task'[d] = task[d]
      BY <3>1 DEF Started
    <3>3. \A d \in DOMAIN executions : task'[d].pc = "ended" <=> task[d].pc = "ended"
      BY <1>0, <3>2
    <3> QED
      BY <3>2, <3>3 DEF RecordInv
  <2>4. CASE Steer(c)
    <3>1. PICK e \in DOMAIN executions : SteeredBy(c, e)
      BY <2>4, SteerFacts
    <3>2. UNCHANGED task
      BY <2>4 DEF Steer
    <3> QED
      BY <3>1, <3>2 DEF SteeredBy, Steered, RecordInv, Terminal
  <2>5. CASE InsertWorkflow(c)
    <3>1. PICK w \in WfId, rec \in Workflow : Added(c, w, rec)
      BY <2>5, AddsFacts
    <3> QED
      BY <2>1, <3>1 DEF Added
  <2> QED
    BY <1>1, <2>1, <2>2, <2>3, <2>4, <2>5, CallEffects
       DEF Quiet, Reserve, Rewrite, Removes, TellOutcome
<1>2. ASSUME NEW e \in ExecId, TaskStep(e)  PROVE RecordInv'
  <2>1. /\ DOMAIN executions' = DOMAIN executions
        /\ \A d \in DOMAIN executions : d # e => executions'[d] = executions[d]
        /\ \A d \in ExecId : d # e => task'[d] = task[d]
    BY <1>2, TaskAlone
  <2>2. TypeOK /\ TaskInv(e) /\ e \in DOMAIN executions /\ DOMAIN task = ExecId
    BY <1>2 DEF TaskStep, EngineOk, ReportNode, TellNode, FinishOk, EngineErr, TaskInv, TypeOK
  <2> DEFINE y == executions'[e]
  <2>3. /\ y.finished <=> y.status \in Terminal
        /\ y.status \in {"completed", "failed"} <=> task'[e].pc = "ended"
        /\ y.progress <= 100
        /\ y.status = "completed" => y.progress = 100
    <3>1. CASE EngineOk(e) \/ TellNode(e)
      <4>1. UNCHANGED executions /\ task[e].pc # "ended" /\ task'[e].pc # "ended"
        <5>1. CASE EngineOk(e)
          <6>1. PICK ran : task' = [task EXCEPT ![e] = [pc |-> "report", outputs |-> ran \cup {Input},
                                                        todo |-> Reported(ran \cup {Input})]]
            BY <5>1 DEF EngineOk
          <6> QED
            BY <2>2, <5>1, <6>1 DEF EngineOk
        <5>2. CASE TellNode(e)
          BY <2>2, <5>2 DEF TellNode
        <5> QED
          BY <3>1, <5>1, <5>2
      <4> QED
        BY <2>2, <4>1 DEF RecordInv
    <3>2. CASE ReportNode(e)
      <4>1. PICK n \in task[e].todo : Reports(e, n)
        BY <2>2, <3>2, ReportNodeFacts
      <4>2. y.status = executions[e].status /\ y.finished = executions[e].finished
            /\ task[e].pc = "report" /\ task'[e].pc = "tellNode"
        BY <4>1 DEF Reports
      <4>3. y.progress <= 100
        <5>1. TaskInv(e)'
          BY <2>2, <4>1, ReportMore
        <5>2. Reporting(y, task'[e], told'[e])
          BY <4>2, <5>1 DEF TaskInv
        <5>3. task'[e].outputs \in Outputs
          BY <2>2, <4>1, TaskFacts DEF Reports
        <5> QED
          BY <5>2, <5>3, ReportingBounds
      <4> QED
        BY <2>2, <4>2, <4>3 DEF RecordInv
    <3>3. CASE FinishOk(e) \/ EngineErr(e)
      <4>1. Verdict(e)
        BY <2>2, <3>3, VerdictFacts
      <4>2. executions[e].progress <= 100
        BY <2>2 DEF RecordInv
      <4>3. y.finished = TRUE /\ y.status \in {"completed", "failed"} /\ task'[e].pc = "ended"
        BY <4>1 DEF Verdict
      <4>4. y.progress <= 100 /\ (y.status = "completed" => y.progress = 100)
        BY <4>1, <4>2 DEF Verdict
      <4> QED
        BY <4>3, <4>4 DEF Terminal
    <3> QED
      BY <1>2, <3>1, <3>2, <3>3 DEF TaskStep
  <2> QED
    BY <1>0, <2>1, <2>3 DEF RecordInv
<1> QED
  BY <1>1, <1>2 DEF Next

\* The record of an execution that the engine ended does not change.
LEMMA EndedStays ==
  ASSUME Inv, Next, NEW e \in ExecId, task[e].pc = "ended"
  PROVE  e \in DOMAIN executions /\ e \in DOMAIN executions' /\ executions'[e] = executions[e]
<1> USE DEF Inv
<1>1. e \in DOMAIN executions /\ executions[e].status \in {"completed", "failed"}
  BY DEF TaskInv, RecordInv
<1>2. ASSUME NEW c \in Calls, CallStep(c)
      PROVE  e \in DOMAIN executions' /\ executions'[e] = executions[e]
  <2>1. CASE UNCHANGED executions
    BY <1>1, <2>1
  <2>2. CASE InsertExecution(c)
    <3>1. PICK d \in ExecId, w \in WfId : Entered(c, d, w)
      BY <2>2, InsertExecutionFacts
    <3> QED
      BY <1>1, <3>1 DEF Entered
  <2>3. CASE Steer(c)
    <3>1. PICK d \in DOMAIN executions : SteeredBy(c, d)
      BY <2>3, SteerFacts
    <3> QED
      BY <1>1, <3>1 DEF SteeredBy, Steered
  <2>4. CASE InsertWorkflow(c)
    <3>1. PICK w \in WfId, rec \in Workflow : Added(c, w, rec)
      BY <2>4, AddsFacts
    <3> QED
      BY <2>1, <3>1 DEF Added
  <2> QED
    BY <1>2, <2>1, <2>2, <2>3, <2>4, CallEffects
       DEF Quiet, Reserve, Rewrite, Removes, StartExecution, TellOutcome
<1>3. ASSUME NEW d \in ExecId, TaskStep(d)
      PROVE  e \in DOMAIN executions' /\ executions'[e] = executions[e]
  <2>1. d # e
    BY <1>3 DEF TaskStep, EngineOk, ReportNode, TellNode, FinishOk, EngineErr
  <2> QED
    BY <1>1, <1>3, <2>1, TaskAlone
<1> QED
  BY <1>1, <1>2, <1>3 DEF Next

\* An execution's events are those it had, or one more; a verdict is the record's.
LEMMA ToldGrows ==
  ASSUME Inv, Next, NEW e \in ExecId
  PROVE  \/ told'[e] = told[e]
         \/ \E event : \E k \in Nat :
              /\ AddedAt(e, event, k)
              /\ event.kind \in {"nodeCompleted", "completed", "failed"} => task[e].pc # "none"
              /\ event.kind \in {"completed", "failed"} =>
                   event.what = executions'[e] /\ e \in DOMAIN executions'
<1> USE DEF Inv
<1>0. e \in Ids /\ e \notin WfId
  BY IdsApart DEF Ids
<1>1. ASSUME NEW c \in Calls, StartExecution(c), told'[e] # told[e]
      PROVE  \E event : \E k \in Nat : AddedAt(e, event, k) /\ event.kind = "started"
  <2>1. PICK d \in ExecId : Started(c, d)
    BY <1>1, StartExecutionFacts
  <2>2. Event("started", call[c].rec).kind = "started"
    BY DEF Event
  <2> QED
    BY <1>0, <1>1, <2>1, <2>2, StartTells
<1>2. ASSUME NEW c \in Calls, TellOutcome(c), told'[e] # told[e]
      PROVE  \E event : \E k \in Nat : AddedAt(e, event, k) /\ event.kind = "cancelled"
  <2>1. /\ call[c].pc = "tell" /\ call[c].id = e
        /\ \E k \in Nat : AddedAt(call[c].id, call[c].event, k)
    BY <1>0, <1>2, OutcomeTells
  <2>2. call[c].event.kind = "cancelled"
    BY <2>1, EventFacts
  <2> QED
    BY <2>1, <2>2
<1>3. ASSUME NEW c \in Calls, CallStep(c), told'[e] # told[e]
      PROVE  StartExecution(c) \/ TellOutcome(c)
  <2>1. ASSUME InsertWorkflow(c)  PROVE UNCHANGED told
    BY <2>1 DEF InsertWorkflow
  <2> QED
    BY <1>3, <2>1, CallEffects DEF Quiet, Reserve, Rewrite, Removes, InsertExecution, Steer
<1>4. ASSUME NEW d \in ExecId, TaskStep(d), told'[e] # told[e]
      PROVE  \E event : \E k \in Nat :
               /\ AddedAt(e, event, k) /\ task[e].pc # "none"
               /\ event.kind \in {"completed", "failed"} =>
                    event.what = executions'[e] /\ e \in DOMAIN executions'
  <2>1. d = e /\ task[e].pc # "none"
    BY <1>0, <1>4, TaskTells DEF TaskStep, EngineOk, ReportNode, TellNode, FinishOk, EngineErr
  <2>2. e \in DOMAIN executions'
    BY <1>4, <2>1, TaskAlone DEF TaskInv
  <2>3. /\ Event("nodeCompleted", task[e].node).kind = "nodeCompleted"
        /\ Event(executions'[e].status, executions'[e]).what = executions'[e]
    BY DEF Event
  <2>4. \/ \E k \in Nat : AddedAt(e, Event("nodeCompleted", task[e].node), k)
        \/ \E k \in Nat : AddedAt(e, Event(executions'[e].status, executions'[e]), k)
    BY <1>4, <2>1, TaskTells
  <2> QED
    BY <2>1, <2>2, <2>3, <2>4
<1>5. CASE \E c \in Calls : CallStep(c)
  BY <1>1, <1>2, <1>3, <1>5
<1>6. CASE \E d \in ExecId : TaskStep(d)
  BY <1>4, <1>6
<1> QED
  BY <1>5, <1>6 DEF Next

LEMMA ToldTrueStep ==
  ASSUME Inv, Next
  PROVE  ToldIsTrue' /\ StartToldFirst'
<1> USE DEF Inv
<1>1. ASSUME NEW e \in ExecId, NEW i \in DOMAIN told[e], told[e][i].kind \in {"completed", "failed"}
      PROVE  e \in DOMAIN executions' /\ executions'[e] = told[e][i].what
  <2>1. task[e].pc = "ended"
    <3>1. task[e].pc \in {"none", "engine", "report", "tellNode", "ended"}
      BY TaskFacts
    <3> QED
      BY <1>1, <3>1 DEF TaskInv, KindsIn
  <2>2. executions[e] = told[e][i].what
    BY <1>1 DEF ToldIsTrue
  <2> QED
    BY <2>1, <2>2, EndedStays
<1>2. ToldIsTrue'
  <2> SUFFICES ASSUME NEW e \in ExecId, NEW i \in DOMAIN told'[e],
                      told'[e][i].kind \in {"completed", "failed"}
               PROVE  e \in DOMAIN executions' /\ executions'[e] = told'[e][i].what
    BY DEF ToldIsTrue
  <2>1. CASE told'[e] = told[e]
    BY <1>1, <2>1
  <2>2. CASE told'[e] # told[e]
    BY <1>1, <2>2, ToldGrows DEF AddedAt
  <2> QED
    BY <2>1, <2>2
<1>3. StartToldFirst'
  <2> SUFFICES ASSUME NEW e \in ExecId, NEW i \in DOMAIN told'[e],
                      told'[e][i].kind \in {"nodeCompleted", "completed", "failed"}
               PROVE  \E j \in 1..i - 1 : told'[e][j].kind = "started"
    BY DEF StartToldFirst
  <2>1. CASE told'[e] = told[e]
    BY <2>1 DEF StartToldFirst
  <2>2. ASSUME NEW event, NEW k \in Nat, AddedAt(e, event, k),
               event.kind \in {"nodeCompleted", "completed", "failed"} => task[e].pc # "none"
        PROVE  \E j \in 1..i - 1 : told'[e][j].kind = "started"
    <3>1. CASE i \in DOMAIN told[e]
      <4>1. told'[e][i] = told[e][i] /\ i \in Nat
        BY <2>2, <3>1 DEF AddedAt
      <4>2. PICK j \in 1..i - 1 : told[e][j].kind = "started"
        BY <3>1, <4>1 DEF StartToldFirst
      <4>3. told[e] \in Seq(ExecutionEvents)
        BY DEF ToldType
      <4>4. j \in DOMAIN told[e]
        BY <3>1, <4>2, <4>3
      <4> QED
        BY <2>2, <4>2, <4>4 DEF AddedAt
    <3>2. CASE i \notin DOMAIN told[e]
      <4>1. i = k /\ told'[e][i] = event
        BY <2>2, <3>2 DEF AddedAt
      <4>2. PICK j \in DOMAIN told[e] : told[e][j].kind = "started"
        BY <2>2, <4>1 DEF TaskInv
      <4>3. j \in Nat /\ j >= 1 /\ j < k /\ told'[e][j] = told[e][j]
        BY <2>2, <4>2 DEF AddedAt
      <4>4. j \in 1..i - 1
        BY <4>1, <4>3
      <4> QED
        BY <4>2, <4>3, <4>4
    <3> QED
      BY <3>1, <3>2
  <2> QED
    BY <2>1, <2>2, ToldGrows
<1> QED
  BY <1>2, <1>3

-----------------------------------------------------------------------------
(* Deletions.                                                               *)

LEMMA SteadyStep ==
  ASSUME Inv, Next
  PROVE  SteadyInv'
<1> USE DEF Inv
<1>1. /\ \A d \in Calls : steady[d] \subseteq ExecId
      /\ \A e \in ExecId : ShardOf[e] \in 1..Shards
      /\ Shards \in Nat
  BY ShardsAssumption DEF TypeOK
<1>2. Observe
  BY OtherCalls, TaskAlone DEF Next
<1>3. ASSUME NEW d \in Calls, call[d].pc # "new"
      PROVE  steady'[d] \subseteq steady[d]
  BY <1>2, <1>3 DEF Observe
<1>4. ASSUME NEW d \in Calls, call'[d] = call[d]
      PROVE  /\ call'[d].pc = "scan" => \A e \in steady'[d] : ShardOf[e] >= call'[d].shard
             /\ call'[d].pc = "remove" => steady'[d] = {}
  <2>1. CASE call[d].pc = "scan"
    BY <1>3, <1>4, <2>1 DEF SteadyInv
  <2>2. CASE call[d].pc = "remove"
    BY <1>3, <1>4, <2>2 DEF SteadyInv
  <2> QED
    BY <1>4, <2>1, <2>2
<1>5. ASSUME NEW c \in Calls, CallStep(c)
      PROVE  /\ call'[c].pc = "scan" => \A e \in steady'[c] : ShardOf[e] >= call'[c].shard
             /\ call'[c].pc = "remove" => steady'[c] = {}
  <2>1. CASE BeginDelete(c)
    <3>1. call'[c].pc = "scan" /\ call'[c].shard = 1 /\ call[c].pc = "new"
      BY <2>1 DEF BeginDelete, New, TypeOK
    <3>2. steady'[c] \subseteq ExecId
      BY <1>2, ObservedType
    <3> QED
      BY <1>1, <3>1, <3>2
  <2>2. CASE ScanShard(c)
    <3>1. call[c] \in [pc : {"scan"}, id : WfId, shard : 1..Shards]
      BY <2>2, CallFacts DEF ScanShard
    <3> DEFINE here == {e \in RunningOf(call[c].id, executions) : ShardOf[e] = call[c].shard}
    <3>2. /\ UNCHANGED executions
          /\ \/ Answer(c)
             \/ /\ here = {}
                /\ call' = [call EXCEPT ![c] = IF LastShard(c) THEN [pc |-> "remove", id |-> call[c].id]
                                               ELSE [call[c] EXCEPT !.shard = @ + 1]]
      BY <2>2 DEF ScanShard
    <3>3. steady'[c] \subseteq RunningOf(call[c].id, executions) /\ steady'[c] \subseteq steady[c]
      <4>1. call[c].pc # "new"
        BY <3>1
      <4> QED
        BY <1>2, <3>2, <4>1 DEF Observe
    <3>4. \A e \in steady'[c] : ShardOf[e] \in 1..Shards /\ ShardOf[e] >= call[c].shard
      BY <1>1, <3>1, <3>3 DEF SteadyInv
    <3>5. CASE here = {} /\ LastShard(c)
      <4>1. steady'[c] = {}
        BY <1>1, <3>1, <3>3, <3>4, <3>5 DEF LastShard
      <4>2. call'[c].pc # "scan"
        BY <3>2, <3>5 DEF Answer, TypeOK
      <4> QED
        BY <4>1, <4>2
    <3>6. CASE here = {} /\ ~LastShard(c) /\ ~Answer(c)
      <4>1. call'[c] = [call[c] EXCEPT !.shard = @ + 1]
        BY <3>2, <3>6 DEF TypeOK
      <4>2. call'[c].pc = "scan" /\ call'[c].shard = call[c].shard + 1 /\ call[c].shard \in Nat
        BY <3>1, <4>1
      <4>3. \A e \in steady'[c] : ShardOf[e] # call[c].shard
        BY <3>3, <3>6
      <4>4. \A m, n \in Nat : m >= n /\ m # n => m >= n + 1
        OBVIOUS
      <4>5. \A e \in steady'[c] : ShardOf[e] >= call[c].shard + 1
        BY <1>1, <3>4, <4>2, <4>3, <4>4
      <4> QED
        BY <4>2, <4>5
    <3>7. CASE Answer(c)
      BY <3>7 DEF Answer, TypeOK
    <3> QED
      BY <3>2, <3>5, <3>6, <3>7
  <2>3. CASE call'[c].pc \notin {"scan", "remove"}
    BY <2>3
  <2>4. DOMAIN call = Calls
    BY DEF TypeOK
  <2>5. ~BeginDelete(c) /\ ~ScanShard(c) => call'[c].pc \notin {"scan", "remove"}
    <3>2. CASE InsertWorkflow(c)
      <4>1. PICK w \in WfId, rec \in Workflow : Added(c, w, rec)
        BY <3>2, AddsFacts
      <4> QED
        BY <4>1 DEF Added
    <3>4. CASE InsertExecution(c)
      <4>1. PICK e \in ExecId, w \in WfId : Entered(c, e, w)
        BY <3>4, InsertExecutionFacts
      <4> QED
        BY <4>1 DEF Entered
    <3>5. ASSUME NEW r, r.pc \notin {"scan", "remove"}, call' = [call EXCEPT ![c] = r]
          PROVE  call'[c].pc \notin {"scan", "remove"}
      BY <2>4, <3>5
    <3> DEFINE Out == \E r : r.pc \notin {"scan", "remove"} /\ call' = [call EXCEPT ![c] = r]
    <3>6. Answer(c) => Out
      BY DEF Answer
    <3>7. CreateWorkflow(c) \/ UpdateWorkflow(c) \/ RemoveWorkflow(c) => Out
      BY <3>6 DEF CreateWorkflow, UpdateWorkflow, RemoveWorkflow
    <3>8. DuplicateWorkflow(c) \/ LookUp(c) => Out
      BY <3>6 DEF DuplicateWorkflow, LookUp
    <3>9. StartExecution(c) \/ PauseExecution(c) \/ ResumeExecution(c) \/ TellOutcome(c) => Out
      BY <3>6 DEF StartExecution, PauseExecution, ResumeExecution, TellOutcome
    <3>10. CancelExecution(c) \/ DeleteExecution(c) => Out
      BY <3>6 DEF CancelExecution, DeleteExecution
    <3>11. Out => call'[c].pc \notin {"scan", "remove"}
      BY <3>5
    <3> HIDE DEF Out
    <3> QED
      BY <1>5, <3>2, <3>4, <3>7, <3>8, <3>9, <3>10, <3>11 DEF CallStep
  <2> QED
    BY <2>1, <2>2, <2>3, <2>5
<1>6. CASE \E c \in Calls : CallStep(c)
  BY <1>4, <1>5, <1>6, OtherCalls DEF SteadyInv
<1>7. CASE \E e \in ExecId : TaskStep(e)
  <2>1. UNCHANGED call
    BY <1>7, TaskAlone
  <2> QED
    BY <1>4, <2>1 DEF SteadyInv
<1> QED
  BY <1>6, <1>7 DEF Next

-----------------------------------------------------------------------------
(* The theorems.                                                            *)

LEMMA InvInit ==
  ASSUME Init
  PROVE  Inv
<1>1. /\ executions = <<>> /\ DOMAIN executions = {}
      /\ \A e \in ExecId : task[e].pc = "none"
      /\ \A c \in Calls : call[c].pc = "new"
      /\ \A id \in Ids : told[id] = <<>> /\ DOMAIN told[id] = {}
  BY DEF Init
<1>2. DOMAIN workflows \subseteq WfId /\ \A w \in DOMAIN workflows : workflows[w] \in Workflow
  BY IdsApart, NewType DEF Init, WorkflowStatus
<1>3. task \in [ExecId -> Task] /\ call \in [Calls -> Call] /\ steady \in [Calls -> SUBSET ExecId]
  BY DEF Init, Task, Call
<1>4. TypeOK
  BY <1>1, <1>2, <1>3 DEF TypeOK, Init
<1>5. ToldType
  <2>1. \A S : <<>> \in Seq(S)
    OBVIOUS
  <2> QED
    BY <1>1, <2>1 DEF ToldType, Init, Ids
<1>6. ExecId \subseteq Ids /\ WfId \subseteq Ids
  BY DEF Ids
<1>7. IdInv /\ OnceInv /\ VersionInv /\ CancelInv /\ RecordInv /\ SteadyInv
  BY <1>1, <1>2, <1>6 DEF IdInv, OnceInv, VersionInv, CancelInv, RecordInv, SteadyInv
<1>8. ToldIsTrue /\ StartToldFirst
  BY <1>1, <1>6 DEF ToldIsTrue, StartToldFirst
<1>9. \A e \in ExecId : TaskInv(e)
  BY <1>1, <1>6 DEF TaskInv, KindsIn
<1> QED
  BY <1>4, <1>5, <1>7, <1>8, <1>9 DEF Inv

LEMMA InvStutter ==
  ASSUME Inv, UNCHANGED vars
  PROVE  Inv'
BY DEF Inv, vars, TypeOK, ToldType, IdInv, OnceInv, VersionInv, CancelInv, IsOver, RecordInv,
   ToldIsTrue, StartToldFirst, SteadyInv, TaskInv

LEMMA Invariance == Spec => []Inv
<1>1. Init => Inv
  BY InvInit
<1>2. Inv /\ [Next]_vars => Inv'
  <2>1. Inv /\ Next => Inv'
    BY TypeStep, ToldStep, IdStep, OnceStep, VersionStep, CancelStep, RecordStep,
       ToldTrueStep, SteadyStep, TaskInvStep DEF Inv
  <2> QED
    BY <2>1, InvStutter
<1> QED
  BY <1>1, <1>2, PTL DEF Spec

\* Every record, call and task is of its type; a workflow in the map has a specification
\* that the parser accepts, whatever updates were refused.
THEOREM TypeCorrect == Spec => []TypeOK
<1>1. Inv => TypeOK
  BY DEF Inv
<1> QED
  BY <1>1, Invariance, PTL

\* In whatever order calls cancel, pause and resume an execution while its task reports,
\* it has the time of its end exactly when it ended, and a completed one lists each of
\* the engine's outputs once.
THEOREM RecordsAgree == Spec => []FinishedIffTerminal
<1>1. Inv => FinishedIffTerminal
  <2> SUFFICES ASSUME Inv  PROVE FinishedIffTerminal
    OBVIOUS
  <2> SUFFICES ASSUME NEW e \in DOMAIN executions
               PROVE  /\ executions[e].finished <=> executions[e].status \in Terminal
                      /\ executions[e].status = "completed" =>
                           Lists(executions[e].done, task[e].outputs \ {Input})
    BY DEF FinishedIffTerminal, Lists
  <2>1. e \in ExecId
    BY DEF Inv, TypeOK
  <2> QED
    BY <2>1 DEF Inv, RecordInv, TaskInv, Reported
<1> QED
  BY <1>1, Invariance, PTL

\* What is broadcast is true of the record, begins with the start and is said once, for
\* all the calls and tasks that broadcast between each other's writes and events.
THEOREM NewsIsTrueAndOnce == Spec => []NothingToldTwice
<1>1. Inv => NothingToldTwice
  <2> SUFFICES ASSUME Inv  PROVE NothingToldTwice
    OBVIOUS
  <2>1. \A x, y \in WorkflowEvents \cup ExecutionEvents :
          x.kind = y.kind /\ x.what = y.what => x = y
    BY DEF WorkflowEvents, ExecutionEvents
  <2>2. \A id \in Ids : \A i \in DOMAIN told[id] : told[id][i] \in WorkflowEvents \cup ExecutionEvents
    BY EventFacts DEF Ids
  <2> QED
    BY <2>1, <2>2 DEF Inv, OnceInv, NothingToldTwice
<1> QED
  BY <1>1, Invariance, PTL

\* A deletion that looks at one shard at a time misses no execution of the workflow that
\* runs all the while, for any number of shards.
THEOREM DeletionSeesRunning == Spec => []DeleteHonoursRunning
<1>1. Inv => DeleteHonoursRunning
  BY DEF Inv, SteadyInv, DeleteHonoursRunning
<1> QED
  BY <1>1, Invariance, PTL

\* What EngineVerdictStands says of one step.
VerdictKept ==
  \A e \in DOMAIN executions :
    /\ executions[e].status \in {"completed", "failed"} => executions'[e] = executions[e]
    /\ executions'[e].progress \in executions[e].progress..100
    /\ executions'[e].status = "completed" => executions'[e].progress = 100

LEMMA ProgressGrows ==
  ASSUME Inv, Next, NEW e \in DOMAIN executions
  PROVE  executions[e].progress <= executions'[e].progress
<1> USE DEF Inv
<1>1. /\ executions[e].progress \in Nat /\ executions[e].progress <= 100
      /\ e \in ExecId /\ TaskInv(e) /\ TypeOK
  BY DEF TypeOK, Execution, RecordInv
<1>2. ASSUME executions'[e].progress = executions[e].progress
      PROVE  executions[e].progress <= executions'[e].progress
  BY <1>1, <1>2
<1>3. ASSUME NEW c \in Calls, CallStep(c)
      PROVE  executions'[e].progress = executions[e].progress
  <2>1. CASE UNCHANGED executions
    BY <2>1
  <2>2. CASE InsertExecution(c)
    <3>1. PICK d \in ExecId, w \in WfId : Entered(c, d, w)
      BY <2>2, InsertExecutionFacts
    <3> QED
      BY <3>1 DEF Entered
  <2>3. CASE Steer(c)
    <3>1. PICK d \in DOMAIN executions : SteeredBy(c, d)
      BY <2>3, SteerFacts
    <3> QED
      BY <3>1 DEF SteeredBy, Steered
  <2>4. CASE InsertWorkflow(c)
    <3>1. PICK w \in WfId, rec \in Workflow : Added(c, w, rec)
      BY <2>4, AddsFacts
    <3> QED
      BY <2>1, <3>1 DEF Added
  <2> QED
    BY <1>3, <2>1, <2>2, <2>3, <2>4, CallEffects
       DEF Quiet, Reserve, Rewrite, Removes, StartExecution, TellOutcome
<1>4. ASSUME NEW d \in ExecId, TaskStep(d)
      PROVE  executions[e].progress <= executions'[e].progress
  <2>1. CASE d # e \/ UNCHANGED executions
    BY <1>2, <1>4, <2>1, TaskAlone
  <2>2. CASE ReportNode(e)
    <3>1. PICK n \in task[e].todo : Reports(e, n)
      BY <1>1, <2>2, ReportNodeFacts
    <3> DEFINE R == Reported(task[e].outputs)
               m == Len(executions[e].done)
    <3>2. /\ executions'[e].progress = Percent(m + 1, AtLeast1(Cardinality(R)))
          /\ Reporting(executions[e], task[e], told[e])
          /\ task[e].outputs \in Outputs
      BY <1>1, <3>1, TaskFacts DEF Reports, TaskInv
    <3>3. /\ m \in Nat /\ Cardinality(R) \in Nat
          /\ executions[e].progress = Percent(m, AtLeast1(Cardinality(R)))
      BY <3>2, ReportingBounds
    <3>4. Percent(m, AtLeast1(Cardinality(R))) <= Percent(m + 1, AtLeast1(Cardinality(R)))
      <4> HIDE DEF m, R
      <4> QED
        BY <3>3, PercentFacts
    <3> QED
      BY <3>2, <3>3, <3>4
  <2>3. CASE FinishOk(e) \/ EngineErr(e)
    <3>1. executions'[e].progress \in {100, executions[e].progress}
      BY <1>1, <2>3, VerdictFacts DEF Verdict
    <3> QED
      BY <1>1, <3>1
  <2> QED
    BY <1>4, <2>1, <2>2, <2>3 DEF TaskStep, EngineOk, TellNode
<1> QED
  BY <1>2, <1>3, <1>4 DEF Next

LEMMA VerdictStep ==
  ASSUME Inv, Inv', Next
  PROVE  VerdictKept
<1> SUFFICES ASSUME NEW e \in DOMAIN executions
             PROVE  /\ executions[e].status \in {"completed", "failed"} => executions'[e] = executions[e]
                    /\ executions'[e].progress \in executions[e].progress..100
                    /\ executions'[e].status = "completed" => executions'[e].progress = 100
  BY DEF VerdictKept
<1>1. e \in ExecId /\ e \in DOMAIN executions'
  <2>1. e \in ExecId
    BY DEF Inv, TypeOK
  <2>2. ASSUME NEW c \in Calls, CallStep(c)  PROVE e \in DOMAIN executions'
    <3>1. CASE UNCHANGED executions
      BY <3>1
    <3>2. CASE InsertExecution(c)
      BY <3>2 DEF InsertExecution, Put
    <3>3. CASE Steer(c)
      BY <3>3 DEF Steer
    <3>4. CASE InsertWorkflow(c)
      BY <3>1, <3>4 DEF InsertWorkflow
    <3> QED
      BY <2>2, <3>1, <3>2, <3>3, <3>4, CallEffects
         DEF Inv, Quiet, Reserve, Rewrite, Removes, StartExecution, TellOutcome
  <2>3. ASSUME NEW d \in ExecId, TaskStep(d)  PROVE e \in DOMAIN executions'
    BY <2>3, TaskAlone DEF Inv
  <2> QED
    BY <2>1, <2>2, <2>3 DEF Next
<1>2. executions[e].status \in {"completed", "failed"} => executions'[e] = executions[e]
  BY <1>1, EndedStays DEF Inv, RecordInv
<1>3. /\ executions'[e].progress <= 100 /\ executions'[e].progress \in Nat
      /\ executions'[e].status = "completed" => executions'[e].progress = 100
      /\ executions[e].progress \in Nat
  BY <1>1 DEF Inv, RecordInv, TypeOK, Execution
<1>4. executions[e].progress <= executions'[e].progress
  BY ProgressGrows
<1>5. \A a, b \in Nat : a <= b /\ b <= 100 => b \in a..100
  OBVIOUS
<1> QED
  BY <1>2, <1>3, <1>4, <1>5

\* No call made at any time undoes what the engine reported, and until then the
\* percentage only grows and stays one.
THEOREM VerdictIsFinal == Spec => EngineVerdictStands
<1>1. Inv /\ Inv' /\ [Next]_vars => [VerdictKept]_vars
  BY VerdictStep
<1>2. [][VerdictKept]_vars => EngineVerdictStands
  BY PTL DEF VerdictKept, EngineVerdictStands
<1> QED
  BY <1>1, <1>2, Invariance, PTL DEF Spec
=============================================================================
