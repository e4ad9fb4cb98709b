------------------------- MODULE SeqEngine_proofs -------------------------
(***************************************************************************)
(* The sequential engine, for every set of workflows, handlers, executors  *)
(* and bounds.  First, with any number of executors: its types, that no    *)
(* node precedes its dependencies, that a Completed checkpoint is          *)
(* complete, that the branches on record are the ones the record selects.  *)
(* Then with one executor at a time, however often it is interrupted: the  *)
(* record it works on is the checkpoint, so that rework is bounded, a      *)
(* finished run is durable, the final state is the right one, and the run  *)
(* implements DagRun.                                                      *)
(***************************************************************************)
EXTENDS SeqEngine, TLAPS

\* The facts about workflows the steps use.
LEMMA WorkflowFacts ==
  ASSUME NEW w \in Workflows
  PROVE  /\ \A n : Preds(w, n) \subseteq Node
         /\ w.order \in Seq(Node)
         /\ Ordered(w) \subseteq w.node
         /\ \A i \in 1..Len(w.order) :
              /\ w.order[i] \in Node
              /\ \A p \in Preds(w, w.order[i]) :
                   \E j \in 1..(i - 1) : w.order[j] = p
<1>1. IsWorkflow(w)
  BY WorkflowsAssumption
<1>2. w \in Workflow /\ IsTopo(w)
  BY <1>1 DEF IsWorkflow
<1>3. w.order \in Seq(Node) /\ w.edge \subseteq Edge
  BY <1>2 DEF Workflow
<1>4. \A n : Preds(w, n) \subseteq Node
  BY <1>3 DEF Preds, Incoming, Edge
<1>5. \A i \in 1..Len(w.order) : w.order[i] \in Node
  BY <1>3
<1>6. /\ Ordered(w) \subseteq w.node
      /\ \A i \in 1..Len(w.order) : \A p \in Preds(w, w.order[i]) :
           \E j \in 1..(i - 1) : w.order[j] = p
  BY <1>2 DEF IsTopo
<1> QED
  BY <1>3, <1>4, <1>5, <1>6

-----------------------------------------------------------------------------
(* Type correctness.  A step files a result under Current(e), so the type   *)
(* invariant needs Current(e) to be a node: an executor with a task in hand *)
(* still has a node before it.                                              *)

InHand == \A e \in Executor : Busy(e) => More(e)

TypeInv == TypeOK /\ InHand

LEMMA NoResultsType == NoResults \in Results
BY DEF NoResults, Results

LEMMA SkipMarkerType == SkipMarker \in Output
BY DEF SkipMarker, Output

LEMMA CurrentType ==
  ASSUME TypeOK, NEW e \in Executor, More(e)
  PROVE  Current(e) \in Node /\ Current(e) \in Key
<1>1. wf \in Workflows /\ pos[e] \in Nat \ {0}
  BY DEF TypeOK
<1>2. wf.order \in Seq(Node)
  BY <1>1, WorkflowFacts
<1>3. pos[e] \in 1..Len(wf.order)
  BY <1>1, <1>2 DEF More
<1> QED
  BY <1>2, <1>3 DEF Current, Key

LEMMA ReturnType ==
  ASSUME TypeInv, NEW e \in Executor, Return(e)
  PROVE  /\ pc' \in [Executor -> PC]
         /\ out' \in [Executor -> Results]
         /\ act' \in [Executor -> SUBSET Key]
         /\ last' \in [Executor -> Key \cup {NoNode}]
         /\ pos' \in [Executor -> Nat \ {0}]
         /\ try' \in [Executor -> Nat]
         /\ val' \in [Executor -> Output \cup {Absent}]
         /\ \A f \in Executor : Busy(f)' => f # e /\ Busy(f) /\ pos'[f] = pos[f]
BY NoResultsType DEF TypeInv, TypeOK, Return, PC, Busy

LEMMA InitType == Init => TypeInv
BY NoResultsType DEF Init, TypeInv, TypeOK, InHand, Busy, PC, NoCheckpoint

LEMMA BeginType ==
  ASSUME TypeInv, NEW e \in Executor, Begin(e)
  PROVE  TypeInv'
<1>1. /\ pc[e] = "idle" /\ wf' = wf /\ pos' = pos
      /\ pc' \in [Executor -> PC]
      /\ \A f \in Executor : f # e => pc'[f] = pc[f]
      /\ pc'[e] \in {"idle", "loop"}
  BY DEF TypeInv, TypeOK, Begin, BeginFresh, BeginResume, BeginCompleted, Goto, PC
<1>2. InHand'
  BY <1>1 DEF TypeInv, InHand, Busy, More
<1>3. SeedActive(cp.res) \subseteq Key
  BY DEF SeedActive, Recorded
<1>4. CASE BeginFresh(e)
  <2>1. [NoResults EXCEPT ![InputKey] = input] \in Results
    BY OutputsAssumption, NoResultsType DEF TypeInv, TypeOK, Results
  <2> QED
    BY <1>1, <1>2, <1>4, <2>1 DEF TypeInv, TypeOK, Begin, BeginFresh
<1>5. CASE BeginResume(e)
  BY <1>1, <1>2, <1>3, <1>5 DEF TypeInv, TypeOK, Begin, BeginResume
<1>6. CASE BeginCompleted(e)
  BY <1>1, <1>2, <1>6 DEF TypeInv, TypeOK, Begin, BeginCompleted
<1> QED
  BY <1>4, <1>5, <1>6 DEF Begin

LEMMA WalkType ==
  ASSUME TypeInv, NEW e \in Executor, Walk(e)
  PROVE  TypeInv'
<1>1. CASE Break(e)
  BY <1>1 DEF TypeInv, TypeOK, InHand, Busy, More, Break, Goto, PC, counters
<1>2. CASE PassRecorded(e)
  <2>1. Current(e) \in Key
    BY <1>2, CurrentType DEF TypeInv, PassRecorded
  <2> QED
    BY <1>2, <2>1 DEF TypeInv, TypeOK, InHand, Busy, More, PassRecorded, counters
<1>3. CASE SkipInactive(e)
  <2>1. Current(e) \in Key
    BY <1>3, CurrentType DEF TypeInv, SkipInactive, AtNewNode
  <2> DEFINE o == [out[e] EXCEPT ![Current(e)] = SkipMarker]
  <2>2. o \in Results
    BY <2>1, SkipMarkerType DEF TypeInv, TypeOK, Results
  <2>3. CASE SaveError /\ Return(e)
    BY <1>3, <2>3, ReturnType
    DEF TypeInv, TypeOK, InHand, More, SkipInactive, SaveError
  <2>4. CASE /\ SaveAs("running", o, Current(e))
             /\ out' = [out EXCEPT ![e] = o]
             /\ pos' = [pos EXCEPT ![e] = @ + 1]
             /\ UNCHANGED <<pc, act, last, try, val>>
    <3>1. pc[e] = "loop"
      BY <1>3 DEF SkipInactive, AtNewNode
    <3>2. InHand'
      BY <1>3, <2>4, <3>1 DEF TypeInv, TypeOK, InHand, Busy, More, SkipInactive
    <3> QED
      BY <1>3, <2>1, <2>2, <2>4, <3>2 DEF TypeInv, TypeOK, SkipInactive, SaveAs
  <2> QED
    BY <1>3, <2>3, <2>4 DEF SkipInactive
<1>4. CASE StartNode(e)
  <2>1. Current(e) \in Key /\ More(e)
    BY <1>4, CurrentType DEF TypeInv, StartNode, AtNewNode
  <2> QED
    BY <1>4, <2>1 DEF TypeInv, TypeOK, InHand, Busy, More, StartNode, Goto, PC, counters
<1>5. CASE Acquire(e)
  BY <1>5 DEF TypeInv, TypeOK, InHand, Busy, More, Acquire, Goto, PC, counters
<1> QED
  BY <1>1, <1>2, <1>3, <1>4, <1>5 DEF Walk

LEMMA HandlerType ==
  ASSUME TypeInv, NEW e \in Executor, Handler(e)
  PROVE  TypeInv'
<1>1. CASE HandlerOk(e)
  <2>1. HandlerOutput \subseteq Output
    BY OutputsAssumption
  <2>2. Current(e) \in Node
    BY <1>1, CurrentType DEF TypeInv, InHand, Busy, HandlerOk
  <2>3. val' \in [Executor -> Output \cup {Absent}] /\ completions' \in [Node -> Nat]
    BY <1>1, <2>1, <2>2 DEF TypeInv, TypeOK, HandlerOk
  <2> QED
    BY <1>1, <2>3 DEF TypeInv, TypeOK, InHand, Busy, More, HandlerOk, Goto, PC, counters
<1>2. CASE HandlerErr(e)
  <2>1. pc' \in [Executor -> PC] /\ \A f \in Executor : Busy(f)' => Busy(f)
    BY <1>2 DEF TypeInv, TypeOK, Busy, HandlerErr, Goto, PC
  <2>2. InHand'
    BY <1>2, <2>1 DEF TypeInv, InHand, More, HandlerErr
  <2>3. try' \in [Executor -> Nat]
    BY <1>2 DEF TypeInv, TypeOK, HandlerErr
  <2> QED
    BY <1>2, <2>1, <2>2, <2>3 DEF TypeInv, TypeOK, HandlerErr, counters
<1>3. CASE BackoffOver(e)
  BY <1>3 DEF TypeInv, TypeOK, InHand, Busy, More, BackoffOver, Goto, PC, counters
<1>4. CASE HandlerTimeout(e)
  BY <1>4 DEF TypeInv, TypeOK, InHand, Busy, More, HandlerTimeout, Goto, PC, counters
<1> QED
  BY <1>1, <1>2, <1>3, <1>4 DEF Handler

LEMMA SettleType ==
  ASSUME TypeInv, NEW e \in Executor, Settle(e)
  PROVE  TypeInv'
<1>1. CASE FileResult(e)
  <2>1. Current(e) \in Key
    BY <1>1, CurrentType DEF TypeInv, InHand, Busy, FileResult
  <2> DEFINE o == [out[e] EXCEPT ![Current(e)] = val[e]]
  <2>2. o \in Results
    BY <2>1 DEF TypeInv, TypeOK, Results
  <2>3. CASE SaveError /\ Return(e)
    BY <1>1, <2>3, ReturnType
    DEF TypeInv, TypeOK, InHand, More, FileResult, SaveError
  <2>4. CASE /\ SaveAs("running", o, Current(e))
             /\ out' = [out EXCEPT ![e] = o]
             /\ last' = [last EXCEPT ![e] = Current(e)]
             /\ pos' = [pos EXCEPT ![e] = @ + 1]
             /\ try' = [try EXCEPT ![e] = 0]
             /\ val' = [val EXCEPT ![e] = Absent]
             /\ Goto(e, "loop")
             /\ UNCHANGED act
    <3>1. InHand' /\ pc' \in [Executor -> PC]
      BY <1>1, <2>4 DEF TypeInv, TypeOK, InHand, Busy, More, FileResult, Goto, PC
    <3>2. /\ out' \in [Executor -> Results]
          /\ last' \in [Executor -> Key \cup {NoNode}]
          /\ pos' \in [Executor -> Nat \ {0}]
          /\ try' \in [Executor -> Nat]
          /\ val' \in [Executor -> Output \cup {Absent}]
      BY <2>1, <2>2, <2>4 DEF TypeInv, TypeOK
    <3>3. cp' = [status |-> "running", last |-> Current(e), res |-> o]
      BY <2>4 DEF SaveAs
    <3> QED
      BY <1>1, <2>1, <2>2, <2>4, <3>1, <3>2, <3>3 DEF TypeInv, TypeOK, FileResult, SaveAs
  <2> QED
    BY <1>1, <2>3, <2>4 DEF FileResult
<1>2. CASE FailRun(e)
  BY <1>2 DEF TypeInv, TypeOK, InHand, Busy, More, FailRun, Goto, PC, counters
<1>3. CASE FailSave(e)
  BY <1>3, ReturnType
  DEF TypeInv, TypeOK, InHand, More, FailSave, SaveAs, SaveError
<1>4. CASE FinishRun(e)
  BY <1>4 DEF TypeInv, TypeOK, InHand, Busy, More, FinishRun, Goto, PC, counters
<1>5. CASE FinishSave(e)
  BY <1>5, ReturnType
  DEF TypeInv, TypeOK, InHand, More, FinishSave, SaveAs, SaveError
<1> QED
  BY <1>1, <1>2, <1>3, <1>4, <1>5 DEF Settle

LEMMA CrashType ==
  ASSUME TypeInv, Crash
  PROVE  TypeInv'
BY NoResultsType DEF TypeInv, TypeOK, InHand, Busy, PC, Crash

LEMMA NextType == TypeInv /\ [Next]_vars => TypeInv'
<1>1. ASSUME TypeInv, UNCHANGED vars
      PROVE  TypeInv'
  BY <1>1 DEF vars, local, counters, TypeInv, TypeOK, InHand, Busy, More
<1> QED
  BY <1>1, BeginType, WalkType, HandlerType, SettleType, CrashType DEF Next, Step

\* The variables keep their types, and an executor with a task in hand has a
\* node to file its result under.
THEOREM TypeCorrect == Spec => []TypeOK
<1>1. TypeInv => TypeOK
  BY DEF TypeInv
<1> QED
  BY <1>1, InitType, NextType, PTL DEF Spec

-----------------------------------------------------------------------------
(* No node before its dependencies, and completeness.  The inductive        *)
(* invariant says what each executor has walked; the checkpoint is only     *)
(* ever overwritten by an executor's record.                                *)

IInv == TypeInv /\ WalkInv

\* Nothing of executor f is touched.
Same(f) ==
  /\ wf' = wf /\ pc'[f] = pc[f] /\ out'[f] = out[f]
  /\ pos'[f] = pos[f] /\ val'[f] = val[f]

LEMMA SameWalked ==
  ASSUME NEW f, Walked(f), Same(f)
  PROVE  Walked(f)'
BY DEF Same, Walked, Closed, NothingLeft, Ordered, Recorded

LEMMA CheckpointSame ==
  ASSUME WalkInv, wf' = wf, cp' = cp
  PROVE  Closed(cp.res)' /\ CompletedIsComplete'
BY DEF WalkInv, Closed, CompletedIsComplete, NothingLeft, Ordered, Recorded

\* The predecessors of the node an executor has come to are on its record.
LEMMA PredsWalked ==
  ASSUME IInv, NEW e \in Executor, More(e)
  PROVE  \A p \in Preds(wf, Current(e)) : out[e][p] # Absent
<1>1. wf \in Workflows /\ pos[e] \in Nat \ {0}
  BY DEF IInv, TypeInv, TypeOK
<1>2. wf.order \in Seq(Node)
  BY <1>1, WorkflowFacts
<1>3. pos[e] \in 1..Len(wf.order)
  BY <1>1, <1>2 DEF More
<1>4. \A p \in Preds(wf, wf.order[pos[e]]) : \E j \in 1..(pos[e] - 1) : wf.order[j] = p
  BY <1>1, <1>3, WorkflowFacts
<1> QED
  BY <1>4 DEF IInv, WalkInv, Walked, Current

\* Filing a value for a node whose predecessors have one keeps results closed.
LEMMA FilingCloses ==
  ASSUME TypeOK, NEW res \in Results, Closed(res),
         NEW n \in Node, NEW v, v # Absent,
         \A p \in Preds(wf, n) : res[p] # Absent
  PROVE  Closed([res EXCEPT ![n] = v])
<1>1. \A m : Preds(wf, m) \subseteq Key
  BY WorkflowFacts DEF TypeOK, Key
<1>2. \A k \in Key : [res EXCEPT ![n] = v][k] = IF k = n THEN v ELSE res[k]
  BY DEF Results
<1>3. wf.node \subseteq Key
  BY WorkflowsAssumption DEF TypeOK, IsWorkflow, Workflow, Key
<1> QED
  BY <1>1, <1>2, <1>3 DEF Closed

\* Filing a value for the current node and moving on extends what is walked.
LEMMA FilingWalks ==
  ASSUME IInv, NEW e \in Executor, More(e), NEW v, v # Absent,
         wf' = wf,
         out' = [out EXCEPT ![e] = [out[e] EXCEPT ![Current(e)] = v]],
         pos' = [pos EXCEPT ![e] = @ + 1],
         pc'[e] = "loop"
  PROVE  Walked(e)' /\ Closed(out'[e])
<1>1. out[e] \in Results /\ pos[e] \in Nat \ {0} /\ wf \in Workflows
  BY DEF IInv, TypeInv, TypeOK
<1>2. Current(e) \in Node
  BY CurrentType DEF IInv, TypeInv
<1>3. out'[e] = [out[e] EXCEPT ![Current(e)] = v] /\ pos'[e] = pos[e] + 1
  BY DEF IInv, TypeInv, TypeOK
<1>4. Closed(out'[e])
  <2>1. TypeOK /\ Closed(out[e])
    BY DEF IInv, TypeInv, WalkInv, Walked
  <2>2. \A p \in Preds(wf, Current(e)) : out[e][p] # Absent
    BY PredsWalked
  <2>3. Closed([out[e] EXCEPT ![Current(e)] = v])
    BY <1>1, <1>2, <2>1, <2>2, FilingCloses
  <2> QED
    BY <1>3, <2>3
<1>5. Closed(out[e])'
  BY <1>4 DEF Closed
<1>6. \A j \in 1..(pos'[e] - 1) : out'[e][wf.order[j]] # Absent
  <2>1. wf.order \in Seq(Node) /\ pos[e] \in 1..Len(wf.order)
    BY <1>1, WorkflowFacts DEF More
  <2> SUFFICES ASSUME NEW j \in 1..pos[e]
               PROVE  out'[e][wf.order[j]] # Absent
    BY <1>1, <1>3
  <2>2. wf.order[j] \in Key
    BY <2>1 DEF Key
  <2>3. CASE j = pos[e]
    BY <1>1, <1>3, <2>2, <2>3 DEF Current, Results
  <2>4. CASE j # pos[e]
    <3>1. j \in 1..(pos[e] - 1)
      BY <1>1, <2>4
    <3>2. out[e][wf.order[j]] # Absent
      BY <3>1 DEF IInv, WalkInv, Walked
    <3> QED
      BY <1>1, <1>3, <2>2, <3>2 DEF Results
  <2> QED
    BY <2>3, <2>4
<1> QED
  BY <1>4, <1>5, <1>6 DEF Walked

\* An executor without a call has walked nothing.
LEMMA IdleWalked ==
  ASSUME wf \in Workflows, wf' = wf, NEW e,
         out'[e] = NoResults, pc'[e] = "idle", pos'[e] = 1
  PROVE  Walked(e)'
<1>1. wf.node \subseteq Key
  BY WorkflowsAssumption DEF IsWorkflow, Workflow, Key
<1>2. \A k \in Key : out'[e][k] = Absent
  BY DEF NoResults
<1>3. Closed(out[e])'
  BY <1>1, <1>2 DEF Closed
<1>4. 1..(pos'[e] - 1) = {}
  OBVIOUS
<1> QED
  BY <1>3, <1>4 DEF Walked

LEMMA ReturnWalked ==
  ASSUME IInv, NEW e \in Executor, Return(e), wf' = wf
  PROVE  \A f \in Executor : Walked(f)'
<1>1. Walked(e)'
  <2>1. out'[e] = NoResults /\ pc'[e] = "idle" /\ pos'[e] = 1
    BY DEF IInv, TypeInv, TypeOK, Return
  <2> QED
    BY <2>1, IdleWalked DEF IInv, TypeInv, TypeOK
<1>2. \A f \in Executor \ {e} : Same(f)
  BY DEF IInv, TypeInv, TypeOK, Return, Same
<1> QED
  BY <1>1, <1>2, SameWalked DEF IInv, WalkInv

\* A Completed checkpoint is saved from a record on which nothing is left.
LEMMA SavedComplete ==
  ASSUME NEW o, wf' = wf, cp'.res = o, Closed(o),
         cp'.status = "completed" => NothingLeft(o)
  PROVE  Closed(cp.res)' /\ CompletedIsComplete'
BY DEF Closed, CompletedIsComplete, NothingLeft, Ordered, Recorded

LEMMA InitWalk == Init => WalkInv
<1> SUFFICES ASSUME Init PROVE WalkInv
  OBVIOUS
<1>1. wf.node \subseteq Key
  BY WorkflowsAssumption DEF Init, IsWorkflow, Workflow, Key
<1>2. Closed(NoResults)
  BY <1>1 DEF Closed, NoResults
<1>3. \A e \in Executor : 1..(pos[e] - 1) = {}
  BY DEF Init
<1> QED
  BY <1>2, <1>3 DEF Init, WalkInv, Walked, CompletedIsComplete, NoCheckpoint

LEMMA BeginWalk ==
  ASSUME IInv, NEW e \in Executor, Begin(e)
  PROVE  WalkInv'
<1>1. /\ pc[e] = "idle" /\ wf' = wf /\ pos' = pos /\ cp' = cp /\ val' = val
      /\ \A f \in Executor : f # e => pc'[f] = pc[f] /\ out'[f] = out[f]
  BY DEF IInv, TypeInv, TypeOK, Begin, BeginFresh, BeginResume, BeginCompleted, Goto
<1>2. \A f \in Executor \ {e} : Walked(f)'
  BY <1>1, SameWalked DEF Same, IInv, WalkInv
<1>3. Closed(cp.res)' /\ CompletedIsComplete'
  BY <1>1, CheckpointSame DEF IInv
<1>4. ASSUME pc'[e] = "loop", Closed(out'[e])
      PROVE  Walked(e)'
  <2>1. pos'[e] = 1
    BY <1>1 DEF IInv, WalkInv, Walked
  <2>2. Closed(out[e])'
    BY <1>1, <1>4 DEF Closed
  <2> QED
    BY <1>4, <2>1, <2>2 DEF Walked
<1>5. CASE BeginFresh(e)
  <2> DEFINE o == [NoResults EXCEPT ![InputKey] = input]
  <2>1. pc'[e] = "loop" /\ out'[e] = o
    BY <1>5 DEF BeginFresh, Goto, IInv, TypeInv, TypeOK
  <2>2. wf.node \subseteq Key
    BY WorkflowsAssumption DEF IInv, TypeInv, TypeOK, IsWorkflow, Workflow, Key
  <2>3. \A n \in wf.node \ {InputKey} : o[n] = Absent
    BY <2>2 DEF NoResults
  <2>4. Closed(o)
    BY <2>3 DEF Closed
  <2> QED
    BY <1>2, <1>3, <1>4, <2>1, <2>4 DEF WalkInv
<1>6. CASE BeginResume(e)
  <2>1. pc'[e] = "loop" /\ out'[e] = cp.res
    BY <1>6 DEF BeginResume, Goto, IInv, TypeInv, TypeOK
  <2> QED
    BY <1>2, <1>3, <1>4, <2>1 DEF WalkInv, IInv
<1>7. CASE BeginCompleted(e)
  <2>1. Same(e)
    BY <1>1, <1>7 DEF BeginCompleted, Same
  <2> QED
    BY <1>2, <1>3, <2>1, SameWalked DEF WalkInv, IInv
<1> QED
  BY <1>5, <1>6, <1>7 DEF Begin

LEMMA WalkWalk ==
  ASSUME IInv, NEW e \in Executor, Walk(e)
  PROVE  WalkInv'
<1>1. wf' = wf /\ \A f \in Executor \ {e} : Same(f)
  BY DEF IInv, TypeInv, TypeOK, Walk, Break, PassRecorded, SkipInactive,
         StartNode, Acquire, Goto, Return, Same
<1>2. \A f \in Executor \ {e} : Walked(f)'
  BY <1>1, SameWalked DEF IInv, WalkInv
<1>3. ASSUME cp' = cp
      PROVE  Closed(cp.res)' /\ CompletedIsComplete'
  BY <1>1, <1>3, CheckpointSame DEF IInv
<1>4. wf \in Workflows /\ wf.order \in Seq(Node) /\ pos[e] \in Nat \ {0}
  BY WorkflowFacts DEF IInv, TypeInv, TypeOK
<1>5. ASSUME out' = out, pos' = pos, pc'[e] \in {"acquire", "handler"}
      PROVE  Walked(e)'
  BY <1>1, <1>5 DEF IInv, WalkInv, Walked, Closed
<1>6. CASE Break(e)
  <2>1. NothingLeft(out[e])
    <3>1. CASE More(e)
      BY <1>6, <3>1 DEF Break, FailFast, ErrorOnRecord, NothingLeft
    <3>2. CASE ~More(e)
      <4>1. Len(wf.order) \in Nat /\ \A i \in 1..Len(wf.order) : i \in 1..(pos[e] - 1)
        BY <1>4, <3>2 DEF More
      <4> QED
        BY <4>1 DEF IInv, WalkInv, Walked, NothingLeft, Ordered
    <3> QED
      BY <3>1, <3>2
  <2>2. out' = out /\ pos' = pos /\ pc'[e] = "finish"
    BY <1>6 DEF Break, Goto, IInv, TypeInv, TypeOK
  <2>3. Walked(e)'
    BY <1>1, <2>1, <2>2 DEF IInv, WalkInv, Walked, Closed, NothingLeft, Ordered, Recorded
  <2> QED
    BY <1>2, <1>3, <1>6, <2>3 DEF Break, WalkInv
<1>7. CASE PassRecorded(e)
  <2>1. /\ out' = out /\ pc'[e] = "loop" /\ pos'[e] = pos[e] + 1
        /\ out[e][wf.order[pos[e]]] # Absent
    BY <1>7 DEF PassRecorded, Current, IInv, TypeInv, TypeOK
  <2>2. \A j \in 1..(pos'[e] - 1) : j = pos[e] \/ j \in 1..(pos[e] - 1)
    BY <1>4, <2>1
  <2>3. Walked(e)'
    BY <1>1, <2>1, <2>2 DEF IInv, WalkInv, Walked, Closed
  <2> QED
    BY <1>2, <1>3, <1>7, <2>3 DEF PassRecorded, WalkInv
<1>8. CASE SkipInactive(e)
  <2> DEFINE o == [out[e] EXCEPT ![Current(e)] = SkipMarker]
  <2>1. CASE SaveError /\ Return(e)
    BY <1>1, <1>3, <2>1, ReturnWalked DEF SaveError, WalkInv
  <2>2. CASE /\ SaveAs("running", o, Current(e))
             /\ out' = [out EXCEPT ![e] = o]
             /\ pos' = [pos EXCEPT ![e] = @ + 1]
             /\ UNCHANGED <<pc, act, last, try, val>>
    <3>1. More(e) /\ pc'[e] = "loop"
      BY <1>8, <2>2 DEF SkipInactive, AtNewNode
    <3>2. SkipMarker # Absent
      BY SkipMarkerType, AbsentAssumption
    <3>3. Walked(e)' /\ Closed(out'[e])
      BY <1>1, <2>2, <3>1, <3>2, FilingWalks
    <3>4. cp'.res = out'[e] /\ cp'.status = "running"
      BY <2>2 DEF SaveAs, IInv, TypeInv, TypeOK
    <3>5. Closed(cp.res)' /\ CompletedIsComplete'
      BY <1>1, <3>3, <3>4, SavedComplete
    <3> QED
      BY <1>2, <3>3, <3>5 DEF WalkInv
  <2> QED
    BY <1>8, <2>1, <2>2 DEF SkipInactive
<1>9. CASE StartNode(e)
  <2>1. out' = out /\ pos' = pos /\ pc'[e] = "acquire" /\ cp' = cp
    BY <1>9 DEF StartNode, Goto, IInv, TypeInv, TypeOK
  <2> QED
    BY <1>2, <1>3, <1>5, <2>1 DEF WalkInv
<1>10. CASE Acquire(e)
  <2>1. out' = out /\ pos' = pos /\ pc'[e] = "handler" /\ cp' = cp
    BY <1>10 DEF Acquire, Goto, IInv, TypeInv, TypeOK
  <2> QED
    BY <1>2, <1>3, <1>5, <2>1 DEF WalkInv
<1> QED
  BY <1>6, <1>7, <1>8, <1>9, <1>10 DEF Walk

LEMMA HandlerWalk ==
  ASSUME IInv, NEW e \in Executor, Handler(e)
  PROVE  WalkInv'
<1>1. /\ wf' = wf /\ cp' = cp /\ out' = out /\ pos' = pos
      /\ \A f \in Executor \ {e} : Same(f)
      /\ pc'[e] \in {"file", "backoff", "handler", "fail"}
  BY DEF IInv, TypeInv, TypeOK, Handler, HandlerOk, HandlerErr, BackoffOver,
         HandlerTimeout, Goto, Same
<1>2. pc'[e] = "file" => val'[e] # Absent
  BY OutputsAssumption, AbsentAssumption
  DEF IInv, TypeInv, TypeOK, Handler, HandlerOk, HandlerErr, BackoffOver,
      HandlerTimeout, Goto
<1>3. Walked(e)'
  BY <1>1, <1>2 DEF IInv, WalkInv, Walked, Closed
<1>4. \A f \in Executor \ {e} : Walked(f)'
  BY <1>1, SameWalked DEF IInv, WalkInv
<1>5. Closed(cp.res)' /\ CompletedIsComplete'
  BY <1>1, CheckpointSame DEF IInv
<1> QED
  BY <1>3, <1>4, <1>5 DEF WalkInv

LEMMA SettleWalk ==
  ASSUME IInv, NEW e \in Executor, Settle(e)
  PROVE  WalkInv'
<1>1. wf' = wf /\ \A f \in Executor \ {e} : Same(f)
  BY DEF IInv, TypeInv, TypeOK, Settle, FileResult, FailRun, FailSave,
         FinishRun, FinishSave, Goto, Return, Same
<1>2. \A f \in Executor \ {e} : Walked(f)'
  BY <1>1, SameWalked DEF IInv, WalkInv
<1>3. ASSUME cp' = cp
      PROVE  Closed(cp.res)' /\ CompletedIsComplete'
  BY <1>1, <1>3, CheckpointSame DEF IInv
<1>4. Closed(out[e])
  BY DEF IInv, WalkInv, Walked
<1>5. CASE FileResult(e)
  <2> DEFINE o == [out[e] EXCEPT ![Current(e)] = val[e]]
  <2>1. CASE SaveError /\ Return(e)
    BY <1>1, <1>3, <2>1, ReturnWalked DEF SaveError, WalkInv
  <2>2. CASE /\ SaveAs("running", o, Current(e))
             /\ out' = [out EXCEPT ![e] = o]
             /\ last' = [last EXCEPT ![e] = Current(e)]
             /\ pos' = [pos EXCEPT ![e] = @ + 1]
             /\ try' = [try EXCEPT ![e] = 0]
             /\ val' = [val EXCEPT ![e] = Absent]
             /\ Goto(e, "loop")
             /\ UNCHANGED act
    <3>1. More(e) /\ pc'[e] = "loop" /\ val[e] # Absent
      BY <1>5, <2>2 DEF FileResult, Goto, Busy, InHand, IInv, TypeInv, TypeOK, WalkInv, Walked
    <3>2. Walked(e)' /\ Closed(out'[e])
      BY <1>1, <2>2, <3>1, FilingWalks
    <3>3. cp'.res = out'[e] /\ cp'.status = "running"
      BY <2>2 DEF SaveAs, IInv, TypeInv, TypeOK
    <3>4. Closed(cp.res)' /\ CompletedIsComplete'
      BY <1>1, <3>2, <3>3, SavedComplete
    <3> QED
      BY <1>2, <3>2, <3>4 DEF WalkInv
  <2> QED
    BY <1>5, <2>1, <2>2 DEF FileResult
<1>6. ASSUME FailSave(e) \/ FinishSave(e)
      PROVE  WalkInv'
  <2>1. \A f \in Executor : Walked(f)'
    BY <1>1, <1>6, ReturnWalked DEF FailSave, FinishSave
  <2>2. CASE SaveError
    BY <1>3, <2>1, <2>2 DEF SaveError, WalkInv
  <2>3. CASE FailSave(e) /\ SaveAs("failed", out[e], last[e])
    BY <1>1, <1>4, <2>1, <2>3, SavedComplete DEF SaveAs, WalkInv
  <2>4. CASE FinishSave(e) /\ SaveAs("completed", out[e], last[e])
    <3>1. NothingLeft(out[e])
      BY <2>4 DEF FinishSave, IInv, WalkInv, Walked
    <3> QED
      BY <1>1, <1>4, <2>1, <2>4, <3>1, SavedComplete DEF SaveAs, WalkInv
  <2> QED
    BY <1>6, <2>2, <2>3, <2>4 DEF FailSave, FinishSave
<1>7. CASE FailRun(e)
  <2>1. out' = out /\ pos' = pos /\ pc'[e] = "failSave" /\ cp' = cp
    BY <1>7 DEF FailRun, Goto, IInv, TypeInv, TypeOK
  <2>2. Walked(e)'
    BY <1>1, <2>1 DEF IInv, WalkInv, Walked, Closed
  <2> QED
    BY <1>2, <1>3, <2>1, <2>2 DEF WalkInv
<1>8. CASE FinishRun(e)
  <2>1. /\ out' = out /\ pos' = pos /\ cp' = cp
        /\ pc[e] = "finish" /\ pc'[e] = "finishSave"
    BY <1>8 DEF FinishRun, Goto, IInv, TypeInv, TypeOK
  <2>2. Walked(e)'
    BY <1>1, <2>1 DEF IInv, WalkInv, Walked, Closed, NothingLeft, Ordered, Recorded
  <2> QED
    BY <1>2, <1>3, <2>1, <2>2 DEF WalkInv
<1> QED
  BY <1>5, <1>6, <1>7, <1>8 DEF Settle

LEMMA CrashWalk ==
  ASSUME IInv, Crash
  PROVE  WalkInv'
<1>1. wf \in Workflows /\ wf' = wf /\ cp' = cp
  BY DEF IInv, TypeInv, TypeOK, Crash
<1>2. \A e \in Executor : out'[e] = NoResults /\ pc'[e] = "idle" /\ pos'[e] = 1
  BY DEF Crash
<1>3. \A e \in Executor : Walked(e)'
  BY <1>1, <1>2, IdleWalked
<1> QED
  BY <1>1, <1>3, CheckpointSame DEF WalkInv, IInv

LEMMA NextWalk == IInv /\ [Next]_vars => IInv'
<1>1. ASSUME IInv, UNCHANGED vars
      PROVE  WalkInv'
  <2>1. wf' = wf /\ cp' = cp /\ \A f \in Executor : Same(f)
    BY <1>1 DEF vars, local, Same
  <2> QED
    BY <1>1, <2>1, SameWalked, CheckpointSame DEF IInv, WalkInv
<1>2. IInv /\ [Next]_vars => WalkInv'
  BY <1>1, BeginWalk, WalkWalk, HandlerWalk, SettleWalk, CrashWalk DEF Next, Step
<1> QED
  BY <1>2, NextType DEF IInv

LEMMA InvariantHolds == Spec => []IInv
<1>1. Init => IInv
  BY InitType, InitWalk DEF IInv
<1> QED
  BY <1>1, NextWalk, PTL DEF Spec

\* However calls overlap, crash and resume: a node's task is in hand, and a
\* result is in the checkpoint, only after all the node's predecessors' results.
THEOREM DependenciesFirst == Spec => []PredecessorsFirst
<1>1. ASSUME IInv
      PROVE  PredecessorsFirst
  <2>1. Closed(cp.res)
    BY <1>1 DEF IInv, WalkInv
  <2>2. ASSUME NEW e \in Executor, Busy(e)
        PROVE  \A p \in Preds(wf, Current(e)) : out[e][p] # Absent
    <3>1. More(e)
      BY <1>1, <2>2 DEF IInv, TypeInv, InHand
    <3> QED
      BY <1>1, <3>1, PredsWalked
  <2> QED
    BY <2>1, <2>2 DEF PredecessorsFirst
<1> QED
  BY <1>1, InvariantHolds, PTL

\* No interruption makes a checkpoint say Completed while the iterator still
\* had a node to yield, unless fail_fast stopped the run at an error.
THEOREM CompletionIsComplete == Spec => []CompletedIsComplete
<1>1. IInv => CompletedIsComplete
  BY DEF IInv, WalkInv
<1> QED
  BY <1>1, InvariantHolds, PTL

-----------------------------------------------------------------------------
(* Interruption and recovery.                                               *)

\* What the theorems assume where they say so.  No node is called like the run
\* input (run SeqInputNode shows a workflow with one: its sources do not run); no
\* handler returns an output that reads as a skip marker; the calls for a run id
\* do not overlap.
NamesApart == InputKey \notin Node
NoSkippedOutputs == \A o \in HandlerOutput : ~o.skipped
OneAtATime == \A e, f \in Executor : e = f

-----------------------------------------------------------------------------
(* Branches.  An executor's active set agrees with what is on its record,   *)
(* so that the record alone decides which nodes are active: SeedActive      *)
(* loses nothing.                                                           *)

RanIn(res, k) == res[k] # Absent /\ ~res[k].skipped

Selects(res, n) ==
  \/ Preds(wf, n) = {}
  \/ \E x \in Incoming(wf, n) : RanIn(res, x.src) /\ EdgeTaken(x.on, res[x.src])

Branched(res) ==
  \A n \in wf.node : res[n] # Absent => (RanIn(res, n) <=> Selects(res, n))

KnowsItsBranch(e) ==
  /\ Branched(out[e])
  /\ \A n \in Node : out[e][n] # Absent => (n \in act[e] <=> ~out[e][n].skipped)
  /\ Busy(e) => /\ out[e][Current(e)] = Absent
                /\ Current(e) \in act[e]
                /\ Selects(out[e], Current(e))
  /\ pc[e] = "file" => val[e] \in HandlerOutput /\ ~val[e].skipped
  /\ pc[e] = "idle" => act[e] = {}
  /\ pc[e] = "loop" => \A n \in Node : n \in act[e] => out[e][n] # Absent
  /\ Busy(e) => \A n \in Node : n \in act[e] => out[e][n] # Absent \/ n = Current(e)

BranchInv ==
  /\ \A e \in Executor : KnowsItsBranch(e)
  /\ Branched(cp.res)

LEMMA PredsOfNode ==
  ASSUME TypeOK, NEW n
  PROVE  /\ Preds(wf, n) \subseteq Node
         /\ \A x \in Incoming(wf, n) : x.src \in Preds(wf, n) /\ x.src \in Node
         /\ Incoming(wf, n) = {} <=> Preds(wf, n) = {}
         /\ wf.node \subseteq Node
         /\ Node \subseteq Key
<1>1. wf \in Workflows /\ IsWorkflow(wf)
  BY WorkflowsAssumption DEF TypeOK
<1>2. wf.node \subseteq Node
  BY <1>1 DEF IsWorkflow, Workflow
<1>3. /\ Preds(wf, n) \subseteq Node
      /\ \A x \in Incoming(wf, n) : x.src \in Preds(wf, n)
      /\ Incoming(wf, n) = {} <=> Preds(wf, n) = {}
  BY <1>1, WorkflowFacts DEF Preds
<1> QED
  BY <1>2, <1>3 DEF Key

\* What a record selects depends on the results of the predecessors only.
LEMMA SelectsSame ==
  ASSUME TypeOK, NEW res, NEW other, NEW n,
         \A p \in Preds(wf, n) : other[p] = res[p]
  PROVE  Selects(other, n) <=> Selects(res, n)
BY PredsOfNode DEF Selects, RanIn

\* An executor that knows its branch decides by its active set as the record does.
LEMMA ActiveIffSelected ==
  ASSUME TypeOK, NEW e, NEW n \in Node,
         \A m \in Node : out[e][m] # Absent => (m \in act[e] <=> ~out[e][m].skipped)
  PROVE  IsActive(wf, n, act[e], out[e]) <=> Selects(out[e], n)
BY PredsOfNode DEF IsActive, Selects, RanIn, EdgeTaken

\* Filing a node's value by what the record selects keeps the branches right.
LEMMA FilingBranches ==
  ASSUME TypeOK, NEW res \in Results, Closed(res), Branched(res), NamesApart,
         NEW n \in Node, res[n] = Absent, NEW v, v # Absent,
         \A p \in Preds(wf, n) : res[p] # Absent,
         ~v.skipped <=> Selects(res, n)
  PROVE  Branched([res EXCEPT ![n] = v])
<1> DEFINE o == [res EXCEPT ![n] = v]
<1>1. \A k \in Node : o[k] = IF k = n THEN v ELSE res[k]
  BY DEF Results, Key
<1>2. ASSUME NEW m \in wf.node, o[m] # Absent
      PROVE  RanIn(o, m) <=> Selects(o, m)
  <2>1. m \in Node /\ m # InputKey
    BY PredsOfNode DEF NamesApart
  <2>2. \A p \in Preds(wf, m) : res[p] # Absent
    <3>1. CASE m = n
      BY <3>1
    <3>2. CASE m # n
      BY <1>1, <1>2, <2>1, <3>2 DEF Closed
    <3> QED
      BY <3>1, <3>2
  <2>3. \A p \in Preds(wf, m) : o[p] = res[p]
    BY <1>1, <2>2, PredsOfNode
  <2>4. Selects(o, m) <=> Selects(res, m)
    BY <2>3, SelectsSame
  <2>5. CASE m = n
    BY <1>1, <2>1, <2>4, <2>5 DEF RanIn
  <2>6. CASE m # n
    BY <1>1, <1>2, <2>1, <2>4, <2>6 DEF RanIn, Branched
  <2> QED
    BY <2>5, <2>6
<1> QED
  BY <1>2 DEF Branched

\* Nothing of executor f is touched, its active set included.
SameBranch(f) == Same(f) /\ act'[f] = act[f]

LEMMA SameKnows ==
  ASSUME NEW f, KnowsItsBranch(f), SameBranch(f)
  PROVE  KnowsItsBranch(f)'
BY DEF SameBranch, Same, KnowsItsBranch, Branched, RanIn, Selects, Busy, Current

LEMMA CheckpointBranched ==
  ASSUME Branched(cp.res), wf' = wf, cp' = cp
  PROVE  Branched(cp.res)'
BY DEF Branched, RanIn, Selects

\* An executor without a call has nothing on record.
LEMMA IdleKnows ==
  ASSUME TypeOK, wf' = wf, NEW e, out'[e] = NoResults, pc'[e] = "idle", act'[e] = {}
  PROVE  KnowsItsBranch(e)'
<1>1. \A k \in Node : out'[e][k] = Absent
  BY DEF NoResults, Key
<1>2. wf'.node \subseteq Node
  BY PredsOfNode
<1>3. ~Busy(e)'
  BY DEF Busy
<1> QED
  BY <1>1, <1>2, <1>3 DEF KnowsItsBranch, Branched

LEMMA ReturnKnows ==
  ASSUME TypeOK, NEW e \in Executor, Return(e), wf' = wf
  PROVE  KnowsItsBranch(e)'
<1>1. out'[e] = NoResults /\ pc'[e] = "idle" /\ act'[e] = {}
  BY DEF TypeOK, Return
<1> QED
  BY <1>1, IdleKnows

LEMMA InitBranch == Init => BranchInv
<1> SUFFICES ASSUME Init PROVE BranchInv
  OBVIOUS
<1>1. TypeOK
  BY InitType DEF TypeInv
<1>2. wf.node \subseteq Node /\ \A k \in Node : NoResults[k] = Absent
  BY <1>1, PredsOfNode DEF NoResults, Key
<1>3. Branched(NoResults)
  BY <1>2 DEF Branched
<1> QED
  BY <1>2, <1>3 DEF Init, BranchInv, KnowsItsBranch, Busy, NoCheckpoint

LEMMA BeginBranch ==
  ASSUME IInv, BranchInv, NamesApart, NEW e \in Executor, Begin(e)
  PROVE  BranchInv'
<1>1. TypeOK /\ wf' = wf /\ cp' = cp /\ pos' = pos /\ val' = val
  BY DEF IInv, TypeInv, Begin
<1>2. \A f \in Executor \ {e} : SameBranch(f)
  BY <1>1 DEF TypeOK, Begin, BeginFresh, BeginResume, BeginCompleted, Goto, SameBranch, Same
<1>3. \A f \in Executor \ {e} : KnowsItsBranch(f)'
  BY <1>2, SameKnows DEF BranchInv
<1>4. Branched(cp.res)'
  BY <1>1, CheckpointBranched DEF BranchInv
<1>5. KnowsItsBranch(e)'
  <2>1. CASE BeginFresh(e)
    <3>1. /\ out'[e] = [NoResults EXCEPT ![InputKey] = input] /\ pc'[e] = "loop"
          /\ act'[e] = {}
      BY <1>1, <2>1 DEF TypeOK, Begin, BeginFresh, Goto, BranchInv, KnowsItsBranch
    <3>2. \A k \in Node : out'[e][k] = Absent
      BY <3>1 DEF NoResults, Key, NamesApart
    <3>3. wf'.node \subseteq Node
      BY <1>1, PredsOfNode
    <3> QED
      BY <3>1, <3>2, <3>3 DEF KnowsItsBranch, Branched, Busy
  <2>2. CASE BeginResume(e)
    <3>1. out'[e] = cp.res /\ act'[e] = SeedActive(cp.res) /\ pc'[e] = "loop"
      BY <1>1, <2>2 DEF TypeOK, BeginResume, Goto
    <3>2. \A n \in Node : cp.res[n] # Absent => (n \in SeedActive(cp.res) <=> ~cp.res[n].skipped)
      BY DEF SeedActive, Recorded, NamesApart, Key
    <3>3. Branched(out[e])'
      BY <1>1, <3>1 DEF BranchInv, Branched, RanIn, Selects
    <3>4. \A n \in Node : n \in act'[e] => out'[e][n] # Absent
      BY <3>1 DEF SeedActive, Recorded
    <3> QED
      BY <3>1, <3>2, <3>3, <3>4 DEF KnowsItsBranch, Busy
  <2>3. CASE BeginCompleted(e)
    BY <1>1, <2>3, SameKnows DEF BeginCompleted, SameBranch, Same, BranchInv
  <2> QED
    BY <2>1, <2>2, <2>3 DEF Begin
<1> QED
  BY <1>3, <1>4, <1>5 DEF BranchInv

LEMMA WalkBranch ==
  ASSUME IInv, BranchInv, NamesApart, NEW e \in Executor, Walk(e)
  PROVE  BranchInv'
<1>1. TypeOK /\ wf' = wf /\ KnowsItsBranch(e) /\ out[e] \in Results
  BY DEF IInv, TypeInv, TypeOK, BranchInv, Walk, Break, PassRecorded, SkipInactive, StartNode, Acquire
<1>2. \A f \in Executor \ {e} : SameBranch(f)
  BY DEF IInv, TypeInv, TypeOK, Walk, Break, PassRecorded, SkipInactive,
         StartNode, Acquire, Goto, Return, Same, SameBranch
<1>3. \A f \in Executor \ {e} : KnowsItsBranch(f)'
  BY <1>2, SameKnows DEF BranchInv
<1>4. ASSUME cp' = cp
      PROVE  Branched(cp.res)'
  BY <1>1, <1>4, CheckpointBranched DEF BranchInv
<1>5. ASSUME out' = out, act' = act, pc[e] = "loop", pc'[e] \in {"loop", "finish"}
      PROVE  KnowsItsBranch(e)'
  BY <1>1, <1>5 DEF KnowsItsBranch, Branched, RanIn, Selects, Busy
<1>6. CASE Break(e)
  BY <1>1, <1>3, <1>4, <1>5, <1>6 DEF Break, Goto, TypeOK, BranchInv
<1>7. CASE PassRecorded(e)
  BY <1>1, <1>3, <1>4, <1>5, <1>7 DEF PassRecorded, TypeOK, BranchInv
<1>8. CASE SkipInactive(e)
  <2> DEFINE o == [out[e] EXCEPT ![Current(e)] = SkipMarker]
  <2>1. CASE SaveError /\ Return(e)
    BY <1>1, <1>3, <1>4, <2>1, ReturnKnows DEF SaveError, BranchInv
  <2>2. CASE /\ SaveAs("running", o, Current(e))
             /\ out' = [out EXCEPT ![e] = o]
             /\ pos' = [pos EXCEPT ![e] = @ + 1]
             /\ UNCHANGED <<pc, act, last, try, val>>
    <3>1. /\ More(e) /\ out[e][Current(e)] = Absent /\ pc[e] = "loop"
          /\ ~IsActive(wf, Current(e), act[e], out[e])
      BY <1>8 DEF SkipInactive, AtNewNode
    <3>2. Current(e) \in Node
      BY <1>1, <3>1, CurrentType
    <3>3. ~Selects(out[e], Current(e))
      BY <1>1, <3>1, <3>2, ActiveIffSelected DEF KnowsItsBranch
    <3>4. Branched(o)
      <4>1. Closed(out[e]) /\ \A p \in Preds(wf, Current(e)) : out[e][p] # Absent
        BY <3>1, PredsWalked DEF IInv, WalkInv, Walked
      <4>2. SkipMarker # Absent /\ SkipMarker.skipped
        BY SkipMarkerType, AbsentAssumption DEF SkipMarker
      <4> QED
        BY <1>1, <3>1, <3>2, <3>3, <4>1, <4>2, FilingBranches DEF KnowsItsBranch
    <3>5. out'[e] = o /\ cp'.res = o /\ pc'[e] = "loop" /\ act'[e] = act[e]
      BY <1>1, <2>2, <3>1 DEF TypeOK, SaveAs
    <3>6. Branched(cp.res)' /\ Branched(out[e])'
      BY <1>1, <3>4, <3>5 DEF Branched, RanIn, Selects
    <3>7. Current(e) \notin act[e]
      BY <1>1, <3>1, <3>2 DEF KnowsItsBranch
    <3>8. \A n \in Node : out'[e][n] = IF n = Current(e) THEN SkipMarker ELSE out[e][n]
      BY <1>1, <3>2, <3>5 DEF Results, Key
    <3>9. SkipMarker.skipped /\ SkipMarker # Absent
      BY SkipMarkerType, AbsentAssumption DEF SkipMarker
    <3>10. KnowsItsBranch(e)'
      BY <1>1, <3>1, <3>5, <3>6, <3>7, <3>8, <3>9 DEF KnowsItsBranch, Busy
    <3> QED
      BY <1>3, <3>6, <3>10 DEF BranchInv
  <2> QED
    BY <1>8, <2>1, <2>2 DEF SkipInactive
<1>9. CASE StartNode(e)
  <2>1. /\ More(e) /\ out[e][Current(e)] = Absent
        /\ IsActive(wf, Current(e), act[e], out[e])
        /\ cp' = cp /\ out' = out /\ pos' = pos
        /\ act'[e] = act[e] \cup {Current(e)}
        /\ pc[e] = "loop" /\ pc'[e] = "acquire"
    BY <1>1, <1>9 DEF StartNode, AtNewNode, Goto, TypeOK
  <2>2. Selects(out[e], Current(e))
    BY <1>1, <2>1, CurrentType, ActiveIffSelected DEF KnowsItsBranch
  <2>3. Branched(out[e])' /\ Selects(out[e], Current(e))' /\ Current(e)' = Current(e)
    BY <1>1, <2>1, <2>2 DEF KnowsItsBranch, Branched, RanIn, Selects, Current
  <2>4. KnowsItsBranch(e)'
    BY <1>1, <2>1, <2>3 DEF KnowsItsBranch, Busy
  <2> QED
    BY <1>3, <1>4, <2>1, <2>4 DEF BranchInv
<1>10. CASE Acquire(e)
  <2>1. /\ cp' = cp /\ out' = out /\ pos' = pos /\ act' = act
        /\ Busy(e) /\ pc'[e] = "handler"
    BY <1>1, <1>10 DEF Acquire, Goto, TypeOK, Busy
  <2>2. KnowsItsBranch(e)'
    BY <1>1, <2>1 DEF KnowsItsBranch, Branched, RanIn, Selects, Current
  <2> QED
    BY <1>3, <1>4, <2>1, <2>2 DEF BranchInv
<1> QED
  BY <1>6, <1>7, <1>8, <1>9, <1>10 DEF Walk

LEMMA HandlerBranch ==
  ASSUME IInv, BranchInv, NoSkippedOutputs, NEW e \in Executor, Handler(e)
  PROVE  BranchInv'
<1>1. /\ TypeOK /\ KnowsItsBranch(e) /\ Busy(e)
      /\ wf' = wf /\ cp' = cp /\ out' = out /\ pos' = pos /\ act' = act
      /\ \A f \in Executor \ {e} : SameBranch(f)
  BY DEF IInv, TypeInv, TypeOK, BranchInv, Handler, HandlerOk, HandlerErr, BackoffOver,
         HandlerTimeout, Goto, Busy, Same, SameBranch
<1>2. pc'[e] \in {"file", "backoff", "handler", "fail"}
  BY <1>1 DEF TypeOK, Handler, HandlerOk, HandlerErr, BackoffOver, HandlerTimeout, Goto
<1>3. pc'[e] = "file" => val'[e] \in HandlerOutput /\ ~val'[e].skipped
  BY <1>1 DEF TypeOK, Handler, HandlerOk, HandlerErr, BackoffOver, HandlerTimeout,
              Goto, NoSkippedOutputs
<1>4. KnowsItsBranch(e)'
  BY <1>1, <1>2, <1>3 DEF KnowsItsBranch, Branched, RanIn, Selects, Busy, Current
<1> QED
  BY <1>1, <1>4, SameKnows, CheckpointBranched DEF BranchInv

LEMMA SettleBranch ==
  ASSUME IInv, BranchInv, NamesApart, NEW e \in Executor, Settle(e)
  PROVE  BranchInv'
<1>1. TypeOK /\ wf' = wf /\ KnowsItsBranch(e) /\ out[e] \in Results
  BY DEF IInv, TypeInv, TypeOK, BranchInv, Settle, FileResult, FailRun, FailSave,
         FinishRun, FinishSave
<1>2. \A f \in Executor \ {e} : SameBranch(f)
  BY DEF IInv, TypeInv, TypeOK, Settle, FileResult, FailRun, FailSave,
         FinishRun, FinishSave, Goto, Return, Same, SameBranch
<1>3. \A f \in Executor \ {e} : KnowsItsBranch(f)'
  BY <1>2, SameKnows DEF BranchInv
<1>4. ASSUME cp' = cp
      PROVE  Branched(cp.res)'
  BY <1>1, <1>4, CheckpointBranched DEF BranchInv
<1>5. CASE FileResult(e)
  <2> DEFINE o == [out[e] EXCEPT ![Current(e)] = val[e]]
  <2>1. CASE SaveError /\ Return(e)
    BY <1>1, <1>3, <1>4, <2>1, ReturnKnows DEF SaveError, BranchInv
  <2>2. CASE /\ SaveAs("running", o, Current(e))
             /\ out' = [out EXCEPT ![e] = o]
             /\ last' = [last EXCEPT ![e] = Current(e)]
             /\ pos' = [pos EXCEPT ![e] = @ + 1]
             /\ try' = [try EXCEPT ![e] = 0]
             /\ val' = [val EXCEPT ![e] = Absent]
             /\ Goto(e, "loop")
             /\ UNCHANGED act
    <3>1. Busy(e) /\ pc[e] = "file" /\ More(e) /\ val[e] # Absent
      BY <1>5 DEF FileResult, Busy, InHand, IInv, TypeInv, WalkInv, Walked
    <3>2. Current(e) \in Node
      BY <1>1, <3>1, CurrentType
    <3>3. Branched(o)
      <4>1. Closed(out[e]) /\ \A p \in Preds(wf, Current(e)) : out[e][p] # Absent
        BY <3>1, PredsWalked DEF IInv, WalkInv, Walked
      <4> QED
        BY <1>1, <3>1, <3>2, <4>1, FilingBranches DEF KnowsItsBranch
    <3>4. out'[e] = o /\ cp'.res = o /\ pc'[e] = "loop" /\ act'[e] = act[e]
      BY <1>1, <2>2 DEF TypeOK, SaveAs, Goto
    <3>5. Branched(cp.res)' /\ Branched(out[e])'
      BY <1>1, <3>3, <3>4 DEF Branched, RanIn, Selects
    <3>6. /\ \A n \in Node : out'[e][n] # Absent => (n \in act'[e] <=> ~out'[e][n].skipped)
          /\ \A n \in Node : n \in act'[e] => out'[e][n] # Absent
      BY <1>1, <3>1, <3>2, <3>4 DEF KnowsItsBranch, Results, Key
    <3> QED
      BY <1>3, <3>4, <3>5, <3>6 DEF BranchInv, KnowsItsBranch, Busy
  <2> QED
    BY <1>5, <2>1, <2>2 DEF FileResult
<1>6. CASE FailRun(e) \/ FinishRun(e)
  <2>1. /\ cp' = cp /\ out' = out /\ act' = act
        /\ pc'[e] \in {"failSave", "finishSave"}
    BY <1>1, <1>6 DEF FailRun, FinishRun, Goto, TypeOK
  <2>2. KnowsItsBranch(e)'
    BY <1>1, <2>1 DEF KnowsItsBranch, Branched, RanIn, Selects, Busy
  <2> QED
    BY <1>3, <1>4, <2>1, <2>2 DEF BranchInv
<1>7. CASE FailSave(e) \/ FinishSave(e)
  <2>1. KnowsItsBranch(e)'
    BY <1>1, <1>7, ReturnKnows DEF FailSave, FinishSave
  <2>2. cp' = cp \/ cp'.res = out[e]
    BY <1>7 DEF FailSave, FinishSave, SaveAs, SaveError
  <2>3. Branched(cp.res)'
    BY <1>1, <1>4, <2>2 DEF KnowsItsBranch, Branched, RanIn, Selects
  <2> QED
    BY <1>3, <2>1, <2>3 DEF BranchInv
<1> QED
  BY <1>5, <1>6, <1>7 DEF Settle

LEMMA CrashBranch ==
  ASSUME IInv, BranchInv, Crash
  PROVE  BranchInv'
<1>1. TypeOK /\ wf' = wf /\ cp' = cp
  BY DEF IInv, TypeInv, Crash
<1>2. \A e \in Executor : out'[e] = NoResults /\ pc'[e] = "idle" /\ act'[e] = {}
  BY DEF Crash
<1> QED
  BY <1>1, <1>2, IdleKnows, CheckpointBranched DEF BranchInv

LEMMA NextBranch ==
  ASSUME IInv, BranchInv, NamesApart, NoSkippedOutputs, [Next]_vars
  PROVE  BranchInv'
<1>1. CASE UNCHANGED vars
  <2>1. wf' = wf /\ cp' = cp /\ \A e \in Executor : SameBranch(e)
    BY <1>1 DEF vars, local, Same, SameBranch
  <2> QED
    BY <2>1, SameKnows, CheckpointBranched DEF BranchInv
<1> QED
  BY <1>1, BeginBranch, WalkBranch, HandlerBranch, SettleBranch, CrashBranch DEF Next, Step

\* Whatever was interrupted, whoever resumed and however executors overlapped: the
\* nodes on record that ran are the ones the record itself selects.
THEOREM BranchesFollowTheRecord ==
  ASSUME NamesApart, NoSkippedOutputs
  PROVE  Spec => []BranchesHonoured
<1>1. Init => BranchInv
  BY InitBranch
<1>2. IInv /\ BranchInv /\ [Next]_vars => BranchInv'
  BY NextBranch
<1>3. BranchInv => BranchesHonoured
  BY DEF BranchInv, Branched, BranchesHonoured, RanIn, RanOnRecord, Selects
<1> QED
  BY <1>1, <1>2, <1>3, InvariantHolds, PTL DEF Spec

-----------------------------------------------------------------------------
(* One executor at a time.                                                  *)

WithInput(res) == [res EXCEPT ![InputKey] = input]

\* The nodes on record are a beginning of the order.
Prefix(res) ==
  /\ \A n \in Node : res[n] # Absent => n \in Ordered(wf)
  /\ \A i, j \in 1..Len(wf.order) :
       i < j /\ res[wf.order[j]] # Absent => res[wf.order[i]] # Absent

\* n is the last node that ran, of those up to a position of the order.
LastUpTo(res, n, m) ==
  \A i \in 1..Len(wf.order) :
    (/\ i <= m /\ RanIn(res, wf.order[i])
     /\ \A j \in (i + 1)..Len(wf.order) : j <= m => ~RanIn(res, wf.order[j])) =>
      n = wf.order[i]

ErrorIn(res) == wf.failFast /\ \E k \in Recorded(res) : res[k].error

\* The checkpoint.
CheckpointInv ==
  /\ cp.status = "none" => cp.res = NoResults
  /\ cp.status # "none" => cp.res[InputKey] = input
  /\ Prefix(cp.res)
  /\ ErrorIn(cp.res) => LastUpTo(cp.res, cp.last, Len(wf.order))
  /\ cp.status = "completed" => LastUpTo(cp.res, cp.last, Len(wf.order))

\* The executor that has a call works on the checkpoint's results.
SyncInv(e) ==
  pc[e] # "idle" =>
    /\ cp.status # "completed"
    /\ out[e] = WithInput(cp.res)
    /\ LastUpTo(out[e], last[e], pos[e] - 1)
    /\ ErrorIn(out[e]) => LastUpTo(out[e], last[e], Len(wf.order))
    /\ pc[e] \in {"acquire", "handler", "backoff", "file", "fail", "failSave"} => ~ErrorIn(out[e])
    /\ pc[e] \in {"finish", "finishSave"} => LastUpTo(out[e], last[e], Len(wf.order))

\* Handler calls that ended well: of what is on record or about to be, and, of what
\* was lost, one per crash or failing save; all of nodes the record selects.
Filing(n) == \E e \in Executor : pc[e] = "file" /\ Current(e) = n

Kept(n) == IF cp.res[n] # Absent \/ Filing(n) THEN 1 ELSE 0

WorkInv ==
  /\ \A n \in Node : completions[n] <= Kept(n) + crashes + saveErrors
  /\ \A n \in Node : Filing(n) \/ RanIn(cp.res, n) => completions[n] > 0
  /\ \A n \in Node : completions[n] > 0 =>
       Selects(cp.res, n) /\ \A p \in Preds(wf, n) : cp.res[p] # Absent
  /\ record = "finished" => NothingLeft(WithInput(cp.res))

RecoveryInv ==
  /\ CheckpointInv
  /\ \A e \in Executor : SyncInv(e)
  /\ WorkInv

LEMMA OrderFacts ==
  ASSUME TypeOK
  PROVE  /\ wf.order \in Seq(Node) /\ Len(wf.order) \in Nat
         /\ \A i \in 1..Len(wf.order) : wf.order[i] \in Ordered(wf) /\ wf.order[i] \in Node
         /\ \A i, j \in 1..Len(wf.order) : wf.order[i] = wf.order[j] => i = j
<1>1. wf \in Workflows /\ IsTopo(wf) /\ wf.order \in Seq(Node)
  BY WorkflowsAssumption, WorkflowFacts DEF TypeOK, IsWorkflow
<1>2. Len(wf.order) \in Nat
  BY <1>1
<1> QED
  BY <1>1, <1>2 DEF IsTopo, Ordered

\* The input is filed beside the nodes.
LEMMA InputApart ==
  ASSUME TypeOK, NamesApart
  PROVE  /\ WithInput(cp.res) \in Results
         /\ WithInput(cp.res)[InputKey] = input
         /\ \A n \in Node : WithInput(cp.res)[n] = cp.res[n]
         /\ cp.res[InputKey] = input => WithInput(cp.res) = cp.res
<1>1. cp.res \in [Key -> Output \cup {Absent}] /\ input \in Output
  BY OutputsAssumption DEF TypeOK, Results
<1> QED
  BY <1>1 DEF WithInput, Results, Key, NamesApart

\* More on record leaves no more to do.
LEMMA NothingLeftGrows ==
  ASSUME TypeOK, NEW res, NEW more, NothingLeft(res),
         \A k \in Key : res[k] # Absent => more[k] = res[k]
  PROVE  NothingLeft(more)
<1>1. \A n \in Ordered(wf) : n \in Key
  BY OrderFacts DEF Ordered, Key
<1> QED
  BY <1>1 DEF NothingLeft, Recorded

LEMMA CheckpointStays ==
  ASSUME CheckpointInv, cp' = cp, wf' = wf, input' = input
  PROVE  CheckpointInv'
BY DEF CheckpointInv, Prefix, ErrorIn, LastUpTo, RanIn, Recorded, Ordered

\* A step that saves nothing and ends no handler call.
LEMMA QuietWork ==
  ASSUME WorkInv, cp' = cp, wf' = wf, input' = input, completions' = completions,
         crashes' = crashes, saveErrors' = saveErrors,
         \A n \in Node : Filing(n)' <=> Filing(n),
         record' = "finished" => NothingLeft(WithInput(cp.res))
  PROVE  WorkInv'
<1>1. \A n \in Node : Kept(n)' = Kept(n) /\ (RanIn(cp.res, n)' <=> RanIn(cp.res, n))
                      /\ (Selects(cp.res, n)' <=> Selects(cp.res, n)) /\ Preds(wf, n)' = Preds(wf, n)
  BY DEF Kept, RanIn, Selects
<1>2. NothingLeft(WithInput(cp.res)) => NothingLeft(WithInput(cp.res))'
  BY DEF NothingLeft, WithInput, Ordered, Recorded
<1> QED
  BY <1>1, <1>2 DEF WorkInv

LEMMA KeepingCounts ==
  ASSUME NEW m \in Nat, NEW a \in Nat, NEW b \in Nat, NEW k \in 0..1, NEW l \in 0..1,
         m <= k + a + b, k <= l
  PROVE  m <= l + a + b
OBVIOUS

LEMMA LossCounts ==
  ASSUME NEW m \in Nat, NEW a \in Nat, NEW b \in Nat, NEW c \in Nat, NEW d \in Nat,
         NEW k \in 0..1, NEW l \in 0..1,
         m <= k + a + b, k <= l + 1, c + d = a + b + 1
  PROVE  m <= l + c + d
OBVIOUS

\* A step that loses what executors have in hand, and saves nothing.
LEMMA LostRecovers ==
  ASSUME TypeOK, RecoveryInv, cp' = cp, wf' = wf, input' = input, completions' = completions,
         crashes' \in Nat, saveErrors' \in Nat,
         crashes' + saveErrors' = crashes + saveErrors + 1,
         \A e \in Executor : pc'[e] = "idle", record' \in {record, "none"}
  PROVE  RecoveryInv'
<1>1. CheckpointInv'
  BY CheckpointStays DEF RecoveryInv
<1>2. \A e \in Executor : SyncInv(e)'
  BY DEF SyncInv
<1>3. \A n \in Node : /\ ~Filing(n)' /\ Kept(n) <= Kept(n)' + 1
                      /\ Kept(n) \in 0..1 /\ Kept(n)' \in 0..1
  BY DEF Filing, Kept
<1>4. \A n \in Node : completions'[n] <= Kept(n)' + crashes' + saveErrors'
  <2> SUFFICES ASSUME NEW n \in Node
               PROVE  completions[n] <= Kept(n)' + crashes' + saveErrors'
    OBVIOUS
  <2>1. completions[n] \in Nat /\ crashes \in Nat /\ saveErrors \in Nat
    BY DEF TypeOK
  <2>2. completions[n] <= Kept(n) + crashes + saveErrors
    BY DEF RecoveryInv, WorkInv
  <2>3. Kept(n) <= Kept(n)' + 1 /\ Kept(n) \in 0..1 /\ Kept(n)' \in 0..1
    BY <1>3
  <2> QED
    BY <2>1, <2>2, <2>3, LossCounts
<1>5. \A n \in Node : /\ RanIn(cp.res, n)' <=> RanIn(cp.res, n)
                      /\ Selects(cp.res, n)' <=> Selects(cp.res, n)
                      /\ Preds(wf, n)' = Preds(wf, n)
  BY DEF RanIn, Selects
<1>6. NothingLeft(WithInput(cp.res)) => NothingLeft(WithInput(cp.res))'
  BY DEF NothingLeft, WithInput, Ordered, Recorded
<1>7. WorkInv'
  BY <1>3, <1>4, <1>5, <1>6 DEF RecoveryInv, WorkInv
<1> QED
  BY <1>1, <1>2, <1>7 DEF RecoveryInv

\* A step that saves the executor's record as it is and ends the call.
LEMMA ClosingRecovers ==
  ASSUME IInv, RecoveryInv, NamesApart, OneAtATime,
         NEW e \in Executor, pc[e] \notin {"idle", "file"}, pc'[e] = "idle",
         NEW s \in {"failed", "completed"},
         cp' = [status |-> s, last |-> last[e], res |-> out[e]],
         s = "completed" => LastUpTo(out[e], last[e], Len(wf.order)),
         wf' = wf, input' = input, completions' = completions, record' = record,
         crashes' = crashes, saveErrors' = saveErrors
  PROVE  RecoveryInv'
<1>1. TypeOK /\ out[e] = WithInput(cp.res) /\ cp'.res = out[e]
  BY DEF IInv, TypeInv, RecoveryInv, SyncInv
<1>2. \A f \in Executor : f = e
  BY DEF OneAtATime
<1>3. \A n \in Node : cp'.res[n] = cp.res[n]
  BY <1>1, InputApart
<1>4. CheckpointInv'
  <2>1. cp'.status = s /\ cp'.last = last[e] /\ cp'.res[InputKey] = input
    BY <1>1, InputApart
  <2>2. Prefix(cp.res)'
    BY <1>1, <1>3, OrderFacts DEF RecoveryInv, CheckpointInv, Prefix, Ordered
  <2>3. ErrorIn(out[e]) => LastUpTo(out[e], last[e], Len(wf.order))
    BY DEF RecoveryInv, SyncInv
  <2>4. /\ ErrorIn(cp.res)' <=> ErrorIn(out[e])
        /\ LastUpTo(cp.res, cp.last, Len(wf.order))' <=> LastUpTo(out[e], last[e], Len(wf.order))
    BY <1>1, <2>1 DEF ErrorIn, LastUpTo, RanIn, Recorded
  <2> QED
    BY <2>1, <2>2, <2>3, <2>4 DEF CheckpointInv
<1>5. \A f \in Executor : SyncInv(f)'
  BY <1>2 DEF SyncInv
<1>6. WorkInv'
  <2>1. \A n \in Node : ~Filing(n) /\ ~Filing(n)'
    BY <1>2 DEF Filing
  <2>2. \A n \in Node : Kept(n)' = Kept(n)
    BY <1>3, <2>1 DEF Kept
  <2>3. \A n \in Node : RanIn(cp.res, n)' <=> RanIn(cp.res, n)
    BY <1>3 DEF RanIn
  <2>4. \A n : Preds(wf, n)' = Preds(wf, n) /\ Preds(wf, n) \subseteq Node
    BY <1>1, PredsOfNode
  <2>5. \A n \in Node : Selects(cp.res, n)' <=> Selects(cp.res, n)
    <3>1. \A n \in Node : Selects(cp'.res, n) <=> Selects(cp.res, n)
      BY <1>1, <1>3, <2>4, SelectsSame
    <3> QED
      BY <3>1 DEF Selects, RanIn
  <2>6. NothingLeft(WithInput(cp.res)) => NothingLeft(WithInput(cp.res))'
    <3>1. WithInput(out[e]) = out[e]
      BY <1>1, InputApart DEF WithInput, Results
    <3> QED
      BY <1>1, <3>1 DEF NothingLeft, WithInput, Ordered, Recorded
  <2> QED
    BY <1>3, <2>1, <2>2, <2>3, <2>4, <2>5, <2>6 DEF RecoveryInv, WorkInv
<1> QED
  BY <1>4, <1>5, <1>6 DEF RecoveryInv

\* A step that files a value for the current node and checkpoints it.
LEMMA FilingRecovers ==
  ASSUME IInv, RecoveryInv, NamesApart, OneAtATime,
         NEW e \in Executor, More(e), pc[e] # "idle", pc'[e] = "loop",
         out[e][Current(e)] = Absent, ~ErrorIn(out[e]),
         NEW v \in Output, v.skipped => ~v.error,
         ~v.skipped => completions[Current(e)] > 0,
         NEW o, o = [out[e] EXCEPT ![Current(e)] = v],
         cp' = [status |-> "running", last |-> Current(e), res |-> o],
         out'[e] = o, pos'[e] = pos[e] + 1,
         last'[e] = IF v.skipped THEN last[e] ELSE Current(e),
         wf' = wf, input' = input, completions' = completions, record' = record,
         crashes' = crashes, saveErrors' = saveErrors
  PROVE  RecoveryInv'
<1> DEFINE c == Current(e)
<1>1. TypeOK /\ out[e] = WithInput(cp.res) /\ pos[e] \in 1..Len(wf.order) /\ c = wf.order[pos[e]]
  BY DEF IInv, TypeInv, TypeOK, RecoveryInv, SyncInv, More, Current
<1>2. c \in Node /\ c # InputKey /\ c \in Ordered(wf)
  BY <1>1, OrderFacts DEF NamesApart
<1>3. v # Absent
  BY AbsentAssumption
<1>4. /\ \A n \in Node : o[n] = IF n = c THEN v ELSE cp.res[n]
      /\ o[InputKey] = input
      /\ \A k \in Key : o[k] = IF k = c THEN v ELSE out[e][k]
  BY <1>1, <1>2, InputApart DEF Results, Key
<1>5. cp.res[c] = Absent
  BY <1>1, <1>2, InputApart
<1>6. \A f \in Executor : f = e
  BY DEF OneAtATime
<1>7. \A i \in 1..Len(wf.order) :
        /\ wf.order[i] \in Node
        /\ wf.order[i] = c <=> i = pos[e]
        /\ o[wf.order[i]] # Absent <=> i <= pos[e]
  <2> SUFFICES ASSUME NEW i \in 1..Len(wf.order)
               PROVE  /\ wf.order[i] \in Node
                      /\ wf.order[i] = c <=> i = pos[e]
                      /\ o[wf.order[i]] # Absent <=> i <= pos[e]
    OBVIOUS
  <2>1. wf.order[i] \in Node /\ (wf.order[i] = c <=> i = pos[e])
    BY <1>1, OrderFacts
  <2>2. i < pos[e] => out[e][wf.order[i]] # Absent
    <3>1. i < pos[e] => i \in 1..(pos[e] - 1)
      BY <1>1
    <3> QED
      BY <3>1 DEF IInv, WalkInv, Walked
  <2>3. i > pos[e] => cp.res[wf.order[i]] = Absent
    BY <1>1, <1>5 DEF RecoveryInv, CheckpointInv, Prefix
  <2>4. out[e][wf.order[i]] = cp.res[wf.order[i]]
    BY <1>1, <2>1, InputApart
  <2>5. i \in Nat /\ pos[e] \in Nat
    BY <1>1
  <2> QED
    BY <1>3, <1>4, <2>1, <2>2, <2>3, <2>4, <2>5
<1>8. Prefix(o)
  <2>1. \A n \in Node : o[n] # Absent => n \in Ordered(wf)
    BY <1>2, <1>4 DEF RecoveryInv, CheckpointInv, Prefix
  <2>2. \A i, j \in 1..Len(wf.order) :
          i < j /\ o[wf.order[j]] # Absent => o[wf.order[i]] # Absent
    BY <1>1, <1>7
  <2> QED
    BY <2>1, <2>2 DEF Prefix
<1>9. ~v.skipped => LastUpTo(o, c, Len(wf.order)) /\ LastUpTo(o, c, pos[e])
  <2> SUFFICES ASSUME ~v.skipped
               PROVE  LastUpTo(o, c, Len(wf.order)) /\ LastUpTo(o, c, pos[e])
    OBVIOUS
  <2>1. RanIn(o, wf.order[pos[e]])
    BY <1>1, <1>2, <1>3, <1>4 DEF RanIn
  <2>2. \A i \in 1..Len(wf.order) : RanIn(o, wf.order[i]) /\ i # pos[e] => pos[e] \in (i + 1)..Len(wf.order)
    BY <1>1, <1>7 DEF RanIn
  <2>3. pos[e] <= Len(wf.order) /\ pos[e] <= pos[e]
    BY <1>1
  <2> QED
    BY <1>1, <2>1, <2>2, <2>3 DEF LastUpTo
<1>10. v.skipped => LastUpTo(o, last[e], pos[e])
  <2> SUFFICES ASSUME v.skipped,
                      NEW i \in 1..Len(wf.order), i <= pos[e], RanIn(o, wf.order[i]),
                      \A j \in (i + 1)..Len(wf.order) : j <= pos[e] => ~RanIn(o, wf.order[j])
               PROVE  last[e] = wf.order[i]
    BY DEF LastUpTo
  <2>1. i # pos[e] /\ \A j \in 1..Len(wf.order) : j # pos[e] => o[wf.order[j]] = out[e][wf.order[j]]
    BY <1>1, <1>2, <1>4, <1>7, InputApart DEF RanIn
  <2>2. i <= pos[e] - 1 /\ RanIn(out[e], wf.order[i])
    BY <1>1, <2>1 DEF RanIn
  <2>3. ASSUME NEW j \in (i + 1)..Len(wf.order), j <= pos[e] - 1
        PROVE  ~RanIn(out[e], wf.order[j])
    <3>1. j \in 1..Len(wf.order) /\ j # pos[e] /\ j <= pos[e]
      BY <1>1, <2>3
    <3>2. ~RanIn(o, wf.order[j]) /\ o[wf.order[j]] = out[e][wf.order[j]]
      BY <2>1, <3>1
    <3> QED
      BY <3>2 DEF RanIn
  <2> QED
    BY <2>2, <2>3 DEF RecoveryInv, SyncInv, LastUpTo
<1>11. ErrorIn(o) => ~v.skipped
  BY <1>2, <1>4 DEF ErrorIn, Recorded
<1>12. CheckpointInv'
  <2>1. cp'.status = "running" /\ cp'.last = c /\ cp'.res = o
    OBVIOUS
  <2>2. Prefix(cp.res)'
    BY <1>8, <2>1 DEF Prefix, Ordered
  <2>3. ErrorIn(cp.res)' => LastUpTo(cp.res, cp.last, Len(wf.order))'
    BY <1>9, <1>11, <2>1 DEF ErrorIn, LastUpTo, RanIn, Recorded
  <2> QED
    BY <1>4, <2>1, <2>2, <2>3 DEF CheckpointInv
<1>13. SyncInv(e)'
  <2>1. o = [o EXCEPT ![InputKey] = input] /\ cp'.res = o /\ cp'.status = "running"
    BY <1>1, <1>4, InputApart DEF Results
  <2>2. out'[e] = WithInput(cp.res)'
    BY <2>1 DEF WithInput
  <2>3. pos'[e] - 1 = pos[e]
    BY <1>1
  <2>4. LastUpTo(o, last'[e], pos'[e] - 1)
    BY <1>9, <1>10, <2>3
  <2>5. ErrorIn(o) => LastUpTo(o, last'[e], Len(wf.order))
    BY <1>9, <1>11
  <2>6. LastUpTo(out[e], last[e], pos[e] - 1)'
    BY <2>4 DEF LastUpTo, RanIn
  <2>7. ErrorIn(out[e])' => LastUpTo(out[e], last[e], Len(wf.order))'
    BY <2>5 DEF ErrorIn, LastUpTo, RanIn, Recorded
  <2> QED
    BY <2>1, <2>2, <2>6, <2>7 DEF SyncInv
<1>14. WorkInv'
  <2>1. \A n \in Node : ~Filing(n)' /\ (Filing(n) => n = c)
    BY <1>6 DEF Filing
  <2>2. \A n \in Node : Kept(n) <= Kept(n)' /\ Kept(n) \in 0..1 /\ Kept(n)' \in 0..1
    BY <1>3, <1>4, <2>1 DEF Kept
  <2>3. \A n \in Node : completions'[n] <= Kept(n)' + crashes' + saveErrors'
    <3> SUFFICES ASSUME NEW n \in Node
                 PROVE  completions[n] <= Kept(n)' + crashes + saveErrors
      OBVIOUS
    <3>1. completions[n] \in Nat /\ crashes \in Nat /\ saveErrors \in Nat
      BY <1>1 DEF TypeOK
    <3>2. completions[n] <= Kept(n) + crashes + saveErrors
      BY DEF RecoveryInv, WorkInv
    <3> QED
      BY <2>2, <3>1, <3>2, KeepingCounts
  <2>4. \A n \in Node : RanIn(cp.res, n)' => completions'[n] > 0
    BY <1>4 DEF RanIn, RecoveryInv, WorkInv
  <2>5. ASSUME NEW n \in Node, completions[n] > 0
        PROVE  Selects(cp.res, n)' /\ \A p \in Preds(wf, n)' : cp'.res[p] # Absent
    <3>1. Preds(wf, n) \subseteq Node /\ Preds(wf, n)' = Preds(wf, n)
      BY <1>1, PredsOfNode
    <3>2. Selects(cp.res, n) /\ \A p \in Preds(wf, n) : cp.res[p] # Absent
      BY <2>5 DEF RecoveryInv, WorkInv
    <3>3. \A p \in Preds(wf, n) : o[p] = cp.res[p]
      BY <1>4, <1>5, <3>1, <3>2
    <3>4. Selects(o, n)
      BY <1>1, <3>2, <3>3, SelectsSame
    <3> QED
      BY <3>1, <3>2, <3>3, <3>4 DEF Selects, RanIn
  <2>6. record' = "finished" => NothingLeft(WithInput(cp.res))'
    <3> SUFFICES ASSUME record = "finished"
                 PROVE  NothingLeft(WithInput(cp.res))'
      OBVIOUS
    <3>1. NothingLeft(out[e])
      BY <1>1 DEF RecoveryInv, WorkInv
    <3>2. NothingLeft(o)
      BY <1>1, <1>4, <3>1, NothingLeftGrows
    <3>3. WithInput(cp.res)' = o
      BY <1>1, <1>4, InputApart DEF Results, WithInput
    <3> QED
      BY <3>2, <3>3 DEF NothingLeft, Ordered, Recorded
  <2> QED
    BY <2>1, <2>3, <2>4, <2>5, <2>6 DEF WorkInv
<1> QED
  BY <1>6, <1>12, <1>13, <1>14 DEF RecoveryInv

\* A step of a call that saves nothing, files nothing and ends no handler call.
LEMMA QuietRecovers ==
  ASSUME RecoveryInv, OneAtATime, NEW e \in Executor, pc[e] \notin {"idle", "file"},
         pc'[e] # "file", cp' = cp, wf' = wf, input' = input, completions' = completions,
         crashes' = crashes, saveErrors' = saveErrors, out'[e] = out[e],
         LastUpTo(out[e], last'[e], pos'[e] - 1),
         ErrorIn(out[e]) => LastUpTo(out[e], last'[e], Len(wf.order)),
         pc'[e] \in {"acquire", "handler", "backoff", "file", "fail", "failSave"} => ~ErrorIn(out[e]),
         pc'[e] \in {"finish", "finishSave"} => LastUpTo(out[e], last'[e], Len(wf.order)),
         record' = "finished" => NothingLeft(WithInput(cp.res))
  PROVE  RecoveryInv'
<1>1. \A f \in Executor : f = e
  BY DEF OneAtATime
<1>2. CheckpointInv'
  BY CheckpointStays DEF RecoveryInv
<1>3. \A n \in Node : Filing(n)' <=> Filing(n)
  BY <1>1 DEF Filing
<1>4. WorkInv'
  BY <1>3, QuietWork DEF RecoveryInv
<1>5. SyncInv(e)'
  <2>1. out[e] = WithInput(cp.res) /\ cp.status # "completed"
    BY DEF RecoveryInv, SyncInv
  <2>2. out'[e] = WithInput(cp.res)'
    BY <2>1 DEF WithInput
  <2>3. /\ LastUpTo(out[e], last[e], pos[e] - 1)' <=> LastUpTo(out[e], last'[e], pos'[e] - 1)
        /\ LastUpTo(out[e], last[e], Len(wf.order))' <=> LastUpTo(out[e], last'[e], Len(wf.order))
        /\ ErrorIn(out[e])' <=> ErrorIn(out[e])
    BY DEF LastUpTo, RanIn, ErrorIn, Recorded
  <2> QED
    BY <2>1, <2>2, <2>3 DEF SyncInv
<1> QED
  BY <1>1, <1>2, <1>4, <1>5 DEF RecoveryInv

LEMMA InitRecovery ==
  ASSUME Init, NamesApart
  PROVE  RecoveryInv
<1>1. TypeOK
  BY InitType DEF TypeInv
<1>2. cp = NoCheckpoint /\ cp.res = NoResults /\ \A k \in Key : NoResults[k] = Absent
  BY DEF Init, NoCheckpoint, NoResults
<1>3. \A i \in 1..Len(wf.order) : cp.res[wf.order[i]] = Absent
  BY <1>1, <1>2, OrderFacts DEF Key
<1>4. CheckpointInv
  BY <1>2, <1>3 DEF CheckpointInv, NoCheckpoint, Prefix, LastUpTo, RanIn, Key
<1>5. \A n \in Node : ~Filing(n) /\ ~RanIn(cp.res, n) /\ completions[n] = 0
  BY <1>2 DEF Init, Filing, RanIn, Key
<1>6. \A n \in Node : completions[n] <= Kept(n) + crashes + saveErrors
  <2>1. \A n \in Node : Kept(n) \in 0..1
    BY DEF Kept
  <2>2. crashes = 0 /\ saveErrors = 0
    BY DEF Init
  <2>3. \A k \in 0..1 : 0 <= k + 0 + 0
    OBVIOUS
  <2> QED
    BY <1>5, <2>1, <2>2, <2>3
<1> QED
  BY <1>4, <1>5, <1>6 DEF Init, RecoveryInv, SyncInv, WorkInv

LEMMA BeginRecovery ==
  ASSUME IInv, RecoveryInv, NamesApart, OneAtATime, NEW e \in Executor, Begin(e)
  PROVE  RecoveryInv'
<1>1. /\ TypeOK /\ pc[e] = "idle" /\ pos[e] = 1
      /\ wf' = wf /\ input' = input /\ cp' = cp /\ pos' = pos
      /\ completions' = completions /\ crashes' = crashes /\ saveErrors' = saveErrors
  BY DEF IInv, TypeInv, WalkInv, Walked, Begin
<1>2. \A f \in Executor : f = e
  BY DEF OneAtATime
<1>3. CheckpointInv'
  BY <1>1, CheckpointStays DEF RecoveryInv
<1>4. pc'[e] \in {"idle", "loop"} /\ (record' = "finished" => record = "finished")
  BY <1>1 DEF TypeOK, Begin, BeginFresh, BeginResume, BeginCompleted, Goto
<1>5. WorkInv'
  <2>1. \A n \in Node : Filing(n)' <=> Filing(n)
    BY <1>1, <1>2, <1>4 DEF Filing
  <2> QED
    BY <1>1, <1>4, <2>1, QuietWork DEF RecoveryInv, WorkInv
<1>6. ASSUME pc'[e] = "loop", cp.status # "completed", out'[e] = WithInput(cp.res),
             ErrorIn(out'[e]) => LastUpTo(out'[e], last'[e], Len(wf.order))
      PROVE  SyncInv(e)'
  <2>1. out'[e] = WithInput(cp.res)'
    BY <1>1, <1>6 DEF WithInput
  <2>2. LastUpTo(out[e], last[e], pos[e] - 1)'
    BY <1>1 DEF LastUpTo
  <2>3. ErrorIn(out[e])' => LastUpTo(out[e], last[e], Len(wf.order))'
    BY <1>1, <1>6 DEF ErrorIn, LastUpTo, RanIn, Recorded
  <2> QED
    BY <1>1, <1>6, <2>1, <2>2, <2>3 DEF SyncInv
<1>7. SyncInv(e)'
  <2>1. CASE BeginFresh(e)
    <3>1. /\ pc'[e] = "loop" /\ cp.status = "none"
          /\ out'[e] = [NoResults EXCEPT ![InputKey] = input]
      BY <1>1, <2>1 DEF TypeOK, BeginFresh, Goto
    <3>2. cp.res = NoResults
      BY <3>1 DEF RecoveryInv, CheckpointInv
    <3>3. \A i \in 1..Len(wf.order) : out'[e][wf.order[i]] = Absent
      BY <1>1, <3>1, OrderFacts DEF NoResults, Key, NamesApart
    <3>4. LastUpTo(out'[e], last'[e], Len(wf.order))
      BY <3>3 DEF LastUpTo, RanIn
    <3> QED
      BY <1>6, <3>1, <3>2, <3>4 DEF WithInput
  <2>2. CASE BeginResume(e)
    <3>1. /\ pc'[e] = "loop" /\ cp.status \in {"running", "failed"}
          /\ out'[e] = cp.res /\ last'[e] = cp.last
      BY <1>1, <2>2 DEF TypeOK, BeginResume, Goto
    <3>2. WithInput(cp.res) = cp.res
      BY <1>1, <3>1, InputApart DEF RecoveryInv, CheckpointInv
    <3> QED
      BY <1>6, <3>1, <3>2 DEF RecoveryInv, CheckpointInv
  <2>3. CASE BeginCompleted(e)
    BY <1>1, <2>3 DEF BeginCompleted, SyncInv
  <2> QED
    BY <2>1, <2>2, <2>3 DEF Begin
<1> QED
  BY <1>2, <1>3, <1>5, <1>7 DEF RecoveryInv

LEMMA FailFastIsError ==
  ASSUME NEW e
  PROVE  FailFast(e) <=> ErrorIn(out[e])
BY DEF FailFast, ErrorOnRecord, ErrorIn

LEMMA LosingASave ==
  ASSUME IInv, RecoveryInv, OneAtATime, NEW e \in Executor, SaveError, Return(e),
         wf' = wf, input' = input, record' = record, crashes' = crashes,
         completions' = completions
  PROVE  RecoveryInv'
<1>1. TypeOK
  BY DEF IInv, TypeInv
<1>2. \A f \in Executor : f = e
  BY DEF OneAtATime
<1>3. cp' = cp /\ saveErrors' = saveErrors + 1 /\ \A f \in Executor : pc'[f] = "idle"
  BY <1>1, <1>2 DEF SaveError, Return, TypeOK
<1>4. /\ crashes' \in Nat /\ saveErrors' \in Nat
      /\ crashes' + saveErrors' = crashes + saveErrors + 1
  BY <1>1, <1>3 DEF TypeOK
<1> QED
  BY <1>1, <1>3, <1>4, LostRecovers

LEMMA WalkRecovery ==
  ASSUME IInv, BranchInv, RecoveryInv, NamesApart, OneAtATime, NEW e \in Executor, Walk(e)
  PROVE  RecoveryInv'
<1>1. /\ TypeOK /\ wf' = wf /\ input' = input /\ record' = record
      /\ completions' = completions /\ crashes' = crashes
      /\ out[e] \in Results /\ pos[e] \in Nat \ {0}
  BY DEF IInv, TypeInv, TypeOK, Walk, Break, PassRecorded, SkipInactive, StartNode, Acquire, counters
<1>2. /\ pc[e] \in {"loop", "acquire"}
      /\ SyncInv(e) /\ KnowsItsBranch(e)
  BY DEF Walk, Break, PassRecorded, SkipInactive, AtNewNode, StartNode, Acquire,
         RecoveryInv, BranchInv
<1>3. record = "finished" => NothingLeft(WithInput(cp.res))
  BY DEF RecoveryInv, WorkInv
<1>4. CASE Break(e)
  <2>1. /\ cp' = cp /\ saveErrors' = saveErrors /\ out' = out /\ last' = last /\ pos' = pos
        /\ pc'[e] = "finish"
    BY <1>1, <1>4 DEF Break, Goto, TypeOK, counters
  <2>2. LastUpTo(out[e], last[e], Len(wf.order))
    <3>1. CASE More(e)
      BY <1>2, <1>4, <3>1, FailFastIsError DEF Break, SyncInv
    <3>2. CASE ~More(e)
      <4>1. \A i \in 1..Len(wf.order) :
              i <= pos[e] - 1 /\ \A j \in (i + 1)..Len(wf.order) : j <= Len(wf.order)
        BY <1>1, <3>2, OrderFacts DEF More
      <4>2. LastUpTo(out[e], last[e], pos[e] - 1)
        BY <1>2 DEF SyncInv
      <4> QED
        BY <4>1, <4>2 DEF LastUpTo
    <3> QED
      BY <3>1, <3>2
  <2> QED
    BY <1>1, <1>2, <1>3, <2>1, <2>2, QuietRecovers DEF SyncInv
<1>5. CASE PassRecorded(e)
  <2> DEFINE c == Current(e)
  <2>1. /\ cp' = cp /\ saveErrors' = saveErrors /\ out' = out /\ pc' = pc /\ pc[e] = "loop"
        /\ pos'[e] = pos[e] + 1 /\ last'[e] = IF c \in act[e] THEN c ELSE last[e]
        /\ ~ErrorIn(out[e]) /\ More(e) /\ out[e][c] # Absent
    BY <1>1, <1>5, FailFastIsError DEF PassRecorded, TypeOK, counters
  <2>2. c = wf.order[pos[e]] /\ pos[e] \in 1..Len(wf.order) /\ c \in Node
    BY <1>1, <2>1, CurrentType DEF Current, More
  <2>3. c \in act[e] <=> RanIn(out[e], c)
    BY <1>2, <2>1, <2>2 DEF KnowsItsBranch, RanIn
  <2>4. LastUpTo(out[e], last[e], pos[e] - 1)
    BY <1>2, <2>1 DEF SyncInv
  <2>5. LastUpTo(out[e], last'[e], pos[e])
    <3>1. CASE c \in act[e]
      BY <2>1, <2>2, <2>3, <3>1 DEF LastUpTo
    <3>2. CASE c \notin act[e]
      BY <2>1, <2>2, <2>3, <2>4, <3>2 DEF LastUpTo
    <3> QED
      BY <3>1, <3>2
  <2>6. pos'[e] - 1 = pos[e]
    BY <1>1, <2>1
  <2> QED
    BY <1>1, <1>2, <1>3, <2>1, <2>5, <2>6, QuietRecovers
<1>6. CASE SkipInactive(e)
  <2> DEFINE o == [out[e] EXCEPT ![Current(e)] = SkipMarker]
  <2>1. CASE SaveError /\ Return(e)
    BY <1>1, <2>1, LosingASave
  <2>2. CASE /\ SaveAs("running", o, Current(e))
             /\ out' = [out EXCEPT ![e] = o]
             /\ pos' = [pos EXCEPT ![e] = @ + 1]
             /\ UNCHANGED <<pc, act, last, try, val>>
    <3>1. /\ More(e) /\ pc[e] = "loop" /\ pc'[e] = "loop"
          /\ out[e][Current(e)] = Absent /\ ~ErrorIn(out[e])
      BY <1>6, <2>2, FailFastIsError DEF SkipInactive, AtNewNode
    <3>2. SkipMarker \in Output /\ SkipMarker.skipped /\ ~SkipMarker.error
      BY SkipMarkerType DEF SkipMarker
    <3>3. /\ cp' = [status |-> "running", last |-> Current(e), res |-> o]
          /\ saveErrors' = saveErrors /\ out'[e] = o /\ pos'[e] = pos[e] + 1
          /\ last'[e] = last[e]
      BY <1>1, <2>2 DEF SaveAs, TypeOK
    <3> QED
      BY <1>1, <3>1, <3>2, <3>3, FilingRecovers
  <2> QED
    BY <1>6, <2>1, <2>2 DEF SkipInactive
<1>7. CASE StartNode(e)
  <2>1. /\ cp' = cp /\ saveErrors' = saveErrors /\ out' = out /\ last' = last /\ pos' = pos
        /\ pc'[e] = "acquire" /\ ~ErrorIn(out[e])
    BY <1>1, <1>7, FailFastIsError DEF StartNode, AtNewNode, Goto, TypeOK, counters
  <2> QED
    BY <1>1, <1>2, <1>3, <2>1, QuietRecovers DEF SyncInv
<1>8. CASE Acquire(e)
  <2>1. /\ cp' = cp /\ saveErrors' = saveErrors /\ out' = out /\ last' = last /\ pos' = pos
        /\ pc'[e] = "handler" /\ pc[e] = "acquire"
    BY <1>1, <1>8 DEF Acquire, Goto, TypeOK, counters
  <2> QED
    BY <1>1, <1>2, <1>3, <2>1, QuietRecovers DEF SyncInv
<1> QED
  BY <1>4, <1>5, <1>6, <1>7, <1>8 DEF Walk

LEMMA OneMoreCounts ==
  ASSUME NEW m \in Nat, NEW a \in Nat, NEW b \in Nat, m <= 0 + a + b
  PROVE  m + 1 <= 1 + a + b /\ m + 1 > 0
OBVIOUS

LEMMA HandlerRecovery ==
  ASSUME IInv, BranchInv, RecoveryInv, NamesApart, OneAtATime, NEW e \in Executor, Handler(e)
  PROVE  RecoveryInv'
<1> DEFINE c == Current(e)
<1>1. /\ TypeOK /\ Busy(e) /\ pc[e] \in {"handler", "backoff"}
      /\ SyncInv(e) /\ KnowsItsBranch(e)
      /\ wf' = wf /\ input' = input /\ cp' = cp /\ record' = record
      /\ out' = out /\ last' = last /\ pos' = pos
      /\ crashes' = crashes /\ saveErrors' = saveErrors
  BY DEF IInv, TypeInv, RecoveryInv, BranchInv, Handler, HandlerOk, HandlerErr, BackoffOver,
         HandlerTimeout, Busy, counters
<1>2. \A f \in Executor : f = e
  BY DEF OneAtATime
<1>3. record = "finished" => NothingLeft(WithInput(cp.res))
  BY DEF RecoveryInv, WorkInv
<1>4. CASE ~HandlerOk(e)
  <2>1. completions' = completions /\ pc'[e] \in {"backoff", "handler", "fail"}
    BY <1>1, <1>4 DEF Handler, HandlerErr, BackoffOver, HandlerTimeout, Goto, TypeOK
  <2> QED
    BY <1>1, <1>3, <2>1, QuietRecovers DEF SyncInv
<1>5. CASE HandlerOk(e)
  <2>1. /\ completions' = [completions EXCEPT ![c] = @ + 1]
        /\ pc[e] = "handler" /\ pc'[e] = "file"
    BY <1>1, <1>5 DEF HandlerOk, Goto, TypeOK
  <2>2. c \in Node
    BY <1>1, CurrentType DEF IInv, TypeInv, InHand
  <2>3. cp.res[c] = Absent
    BY <1>1, <2>2, InputApart DEF SyncInv, KnowsItsBranch
  <2>4. \A n \in Node : ~Filing(n) /\ (Filing(n)' <=> n = c)
    BY <1>1, <1>2, <2>1 DEF Filing, Current
  <2>5. \A n \in Node : completions'[n] = IF n = c THEN completions[c] + 1 ELSE completions[n]
    BY <1>1, <2>1 DEF TypeOK
  <2>6. Selects(cp.res, c) /\ \A p \in Preds(wf, c) : cp.res[p] # Absent
    <3>1. \A p \in Preds(wf, c) : out[e][p] = cp.res[p]
      BY <1>1, PredsOfNode, InputApart DEF SyncInv
    <3>2. \A p \in Preds(wf, c) : out[e][p] # Absent
      BY <1>1, PredsWalked DEF IInv, TypeInv, InHand
    <3> QED
      BY <1>1, <3>1, <3>2, SelectsSame DEF KnowsItsBranch
  <2>7. CheckpointInv'
    BY <1>1, CheckpointStays DEF RecoveryInv
  <2>8. SyncInv(e)'
    <3>1. WithInput(cp.res)' = WithInput(cp.res)
      BY <1>1 DEF WithInput
    <3>2. /\ LastUpTo(out[e], last[e], pos[e] - 1)' <=> LastUpTo(out[e], last[e], pos[e] - 1)
          /\ LastUpTo(out[e], last[e], Len(wf.order))' <=> LastUpTo(out[e], last[e], Len(wf.order))
          /\ ErrorIn(out[e])' <=> ErrorIn(out[e])
      BY <1>1 DEF LastUpTo, RanIn, ErrorIn, Recorded
    <3> QED
      BY <1>1, <2>1, <3>1, <3>2 DEF SyncInv
  <2>9. WorkInv'
    <3>1. \A n \in Node : completions'[n] <= Kept(n)' + crashes + saveErrors
      <4> SUFFICES ASSUME NEW n \in Node
                   PROVE  completions'[n] <= Kept(n)' + crashes + saveErrors
        OBVIOUS
      <4>1. completions[n] \in Nat /\ crashes \in Nat /\ saveErrors \in Nat
        BY <1>1 DEF TypeOK
      <4>2. completions[n] <= Kept(n) + crashes + saveErrors
        BY DEF RecoveryInv, WorkInv
      <4>3. CASE n = c
        <5>1. Kept(n) = 0 /\ Kept(n)' = 1
          BY <2>3, <2>4, <4>3 DEF Kept
        <5>2. completions[n] + 1 <= 1 + crashes + saveErrors
          BY <4>1, <4>2, <5>1, OneMoreCounts
        <5> QED
          BY <2>5, <4>3, <5>1, <5>2
      <4>4. CASE n # c
        <5>1. Kept(n)' = Kept(n)
          BY <1>1, <2>4, <4>4 DEF Kept
        <5> QED
          BY <2>5, <4>2, <4>4, <5>1
      <4> QED
        BY <4>3, <4>4
    <3>2. completions[c] \in Nat /\ completions[c] + 1 > 0
      BY <1>1, <2>2 DEF TypeOK
    <3>3. \A n \in Node : Filing(n)' \/ RanIn(cp.res, n)' => completions'[n] > 0
      BY <1>1, <2>4, <2>5, <3>2 DEF RanIn, RecoveryInv, WorkInv
    <3>4. \A n \in Node : completions'[n] > 0 =>
            Selects(cp.res, n) /\ \A p \in Preds(wf, n) : cp.res[p] # Absent
      BY <2>5, <2>6 DEF RecoveryInv, WorkInv
    <3>5. \A n \in Node : (Selects(cp.res, n)' <=> Selects(cp.res, n)) /\ Preds(wf, n)' = Preds(wf, n)
      BY <1>1 DEF Selects, RanIn
    <3>6. record' = "finished" => NothingLeft(WithInput(cp.res))'
      BY <1>1, <1>3 DEF NothingLeft, WithInput, Ordered, Recorded
    <3> QED
      BY <1>1, <3>1, <3>3, <3>4, <3>5, <3>6 DEF WorkInv
  <2> QED
    BY <1>2, <2>7, <2>8, <2>9 DEF RecoveryInv
<1> QED
  BY <1>4, <1>5

LEMMA SettleRecovery ==
  ASSUME IInv, BranchInv, RecoveryInv, NamesApart, OneAtATime, NEW e \in Executor, Settle(e)
  PROVE  RecoveryInv'
<1> DEFINE c == Current(e)
<1>1. /\ TypeOK /\ SyncInv(e) /\ KnowsItsBranch(e) /\ Walked(e)
      /\ pc[e] \in {"file", "fail", "failSave", "finish", "finishSave"}
      /\ wf' = wf /\ input' = input /\ completions' = completions /\ crashes' = crashes
  BY DEF IInv, TypeInv, WalkInv, RecoveryInv, BranchInv, Settle, FileResult, FailRun, FailSave,
         FinishRun, FinishSave, counters
<1>2. record = "finished" => NothingLeft(WithInput(cp.res))
  BY DEF RecoveryInv, WorkInv
<1>3. CASE FileResult(e)
  <2> DEFINE o == [out[e] EXCEPT ![c] = val[e]]
  <2>1. CASE SaveError /\ Return(e)
    BY <1>1, <1>3, <2>1, LosingASave DEF FileResult
  <2>2. CASE /\ SaveAs("running", o, c)
             /\ out' = [out EXCEPT ![e] = o]
             /\ last' = [last EXCEPT ![e] = c]
             /\ pos' = [pos EXCEPT ![e] = @ + 1]
             /\ try' = [try EXCEPT ![e] = 0]
             /\ val' = [val EXCEPT ![e] = Absent]
             /\ Goto(e, "loop")
             /\ UNCHANGED act
    <3>1. pc[e] = "file" /\ Busy(e) /\ More(e) /\ record' = record
      BY <1>3 DEF FileResult, Busy, IInv, TypeInv, InHand
    <3>2. val[e] \in Output /\ ~val[e].skipped
      BY <1>1, <3>1 DEF TypeOK, Walked, KnowsItsBranch
    <3>3. completions[c] > 0
      BY <1>1, <3>1, CurrentType DEF RecoveryInv, WorkInv, Filing
    <3>4. out[e][c] = Absent /\ ~ErrorIn(out[e])
      BY <1>1, <3>1 DEF KnowsItsBranch, SyncInv
    <3>5. /\ cp' = [status |-> "running", last |-> c, res |-> o]
          /\ saveErrors' = saveErrors /\ out'[e] = o /\ pos'[e] = pos[e] + 1
          /\ last'[e] = c /\ pc'[e] = "loop"
      BY <1>1, <2>2 DEF SaveAs, TypeOK, Goto
    <3> QED
      BY <1>1, <3>1, <3>2, <3>3, <3>4, <3>5, FilingRecovers
  <2> QED
    BY <1>3, <2>1, <2>2 DEF FileResult
<1>4. CASE FailRun(e) \/ FinishRun(e)
  <2>1. /\ cp' = cp /\ saveErrors' = saveErrors /\ out' = out /\ last' = last /\ pos' = pos
        /\ pc[e] # "file" /\ pc'[e] \in {"failSave", "finishSave"}
        /\ pc'[e] = "failSave" => pc[e] = "fail"
        /\ pc'[e] = "finishSave" => pc[e] = "finish"
    BY <1>1, <1>4 DEF FailRun, FinishRun, Goto, TypeOK, counters
  <2>2. record' = "finished" => NothingLeft(WithInput(cp.res))
    BY <1>1, <1>2, <1>4 DEF FailRun, FinishRun, Walked, SyncInv
  <2> QED
    BY <1>1, <2>1, <2>2, QuietRecovers DEF SyncInv
<1>5. CASE FailSave(e)
  <2>1. record' = record /\ Return(e) /\ pc[e] = "failSave" /\ pc'[e] = "idle"
    BY <1>1, <1>5 DEF FailSave, Return, TypeOK
  <2>2. CASE SaveError
    BY <1>1, <2>1, <2>2, LosingASave
  <2>3. CASE SaveAs("failed", out[e], last[e])
    BY <1>1, <2>1, <2>3, ClosingRecovers DEF SaveAs
  <2> QED
    BY <1>5, <2>2, <2>3 DEF FailSave
<1>6. CASE FinishSave(e)
  <2>1. record' = record /\ Return(e) /\ pc[e] = "finishSave" /\ pc'[e] = "idle"
    BY <1>1, <1>6 DEF FinishSave, Return, TypeOK
  <2>2. CASE SaveError
    BY <1>1, <2>1, <2>2, LosingASave
  <2>3. CASE SaveAs("completed", out[e], last[e])
    <3>1. LastUpTo(out[e], last[e], Len(wf.order))
      BY <1>1, <2>1 DEF SyncInv
    <3> QED
      BY <1>1, <2>1, <2>3, <3>1, ClosingRecovers DEF SaveAs
  <2> QED
    BY <1>6, <2>2, <2>3 DEF FinishSave
<1> QED
  BY <1>3, <1>4, <1>5, <1>6 DEF Settle

LEMMA CrashRecovery ==
  ASSUME IInv, RecoveryInv, Crash
  PROVE  RecoveryInv'
<1>1. TypeOK
  BY DEF IInv, TypeInv
<1>2. /\ cp' = cp /\ wf' = wf /\ input' = input /\ completions' = completions
      /\ saveErrors' = saveErrors /\ crashes' = crashes + 1
      /\ record' = "none" /\ \A f \in Executor : pc'[f] = "idle"
  BY DEF Crash
<1>3. /\ crashes' \in Nat /\ saveErrors' \in Nat
      /\ crashes' + saveErrors' = crashes + saveErrors + 1
  BY <1>1, <1>2 DEF TypeOK
<1> QED
  BY <1>1, <1>2, <1>3, LostRecovers

LEMMA NextRecovery ==
  ASSUME IInv, BranchInv, RecoveryInv, NamesApart, OneAtATime, [Next]_vars
  PROVE  RecoveryInv'
<1>1. CASE UNCHANGED vars
  <2>1. /\ wf' = wf /\ input' = input /\ cp' = cp /\ record' = record
        /\ pc' = pc /\ out' = out /\ last' = last /\ pos' = pos
        /\ crashes' = crashes /\ saveErrors' = saveErrors /\ completions' = completions
    BY <1>1 DEF vars, local, counters
  <2>2. CheckpointInv'
    BY <2>1, CheckpointStays DEF RecoveryInv
  <2>3. \A e \in Executor : SyncInv(e)'
    BY <2>1 DEF RecoveryInv, SyncInv, WithInput, LastUpTo, RanIn, ErrorIn, Recorded
  <2>4. \A n \in Node : Filing(n)' <=> Filing(n)
    BY <2>1 DEF Filing, Current
  <2>5. WorkInv'
    BY <2>1, <2>4, QuietWork DEF RecoveryInv, WorkInv
  <2> QED
    BY <2>2, <2>3, <2>5 DEF RecoveryInv
<1> QED
  BY <1>1, BeginRecovery, WalkRecovery, HandlerRecovery, SettleRecovery, CrashRecovery
  DEF Next, Step

LEMMA RecoveryHolds ==
  ASSUME NamesApart, NoSkippedOutputs, OneAtATime
  PROVE  Spec => [](IInv /\ BranchInv /\ RecoveryInv)
<1>1. Init => BranchInv /\ RecoveryInv
  BY InitBranch, InitRecovery
<1>2. IInv /\ BranchInv /\ RecoveryInv /\ [Next]_vars => (BranchInv /\ RecoveryInv)'
  BY NextBranch, NextRecovery
<1> QED
  BY <1>1, <1>2, InvariantHolds, PTL DEF Spec

\* However often one executor at a time is interrupted: it never has a node in hand
\* that is in the checkpoint, and a handler returns Ok at most once more than there
\* were crashes and lost saves.
THEOREM ReworkIsBounded ==
  ASSUME NamesApart, NoSkippedOutputs, OneAtATime
  PROVE  Spec => []ReworkBounded
<1>1. ASSUME IInv, BranchInv, RecoveryInv
      PROVE  ReworkBounded
  <2>1. TypeOK
    BY <1>1 DEF IInv, TypeInv
  <2>2. ASSUME NEW e \in Executor, Busy(e)
        PROVE  cp.res[Current(e)] = Absent
    <3>1. Current(e) \in Node
      BY <1>1, <2>1, <2>2, CurrentType DEF IInv, TypeInv, InHand
    <3>2. pc[e] # "idle"
      BY <2>2 DEF Busy
    <3> QED
      BY <1>1, <2>1, <2>2, <3>1, <3>2, InputApart DEF BranchInv, KnowsItsBranch, RecoveryInv, SyncInv
  <2>3. ASSUME NEW n \in Node
        PROVE  completions[n] <= 1 + crashes + saveErrors
    <3>1. completions[n] \in Nat /\ crashes \in Nat /\ saveErrors \in Nat
      BY <2>1 DEF TypeOK
    <3>2. Kept(n) \in 0..1 /\ Kept(n) <= 1 /\ 1 \in 0..1
      BY DEF Kept
    <3>3. completions[n] <= Kept(n) + crashes + saveErrors
      BY <1>1 DEF RecoveryInv, WorkInv
    <3> QED
      BY <3>1, <3>2, <3>3, KeepingCounts
  <2> QED
    BY <2>2, <2>3 DEF ReworkBounded
<1> QED
  BY <1>1, RecoveryHolds, PTL

\* The run store says finished of no run that a crash could send back to work.
THEOREM FinishedHoldsOnDisk ==
  ASSUME NamesApart, NoSkippedOutputs, OneAtATime
  PROVE  Spec => []FinishedIsDurable
<1>1. RecoveryInv => FinishedIsDurable
  BY DEF RecoveryInv, WorkInv, FinishedIsDurable, WithInput
<1> QED
  BY <1>1, RecoveryHolds, PTL

\* "driven to the correct final state": whatever interrupted it, a completed run has
\* run the nodes its outputs select and reports the output of the last of them.
THEOREM FinalStateIsCorrect ==
  ASSUME NamesApart, NoSkippedOutputs, OneAtATime
  PROVE  Spec => []CorrectFinalState
<1>1. ASSUME IInv, BranchInv, RecoveryInv, cp.status = "completed"
      PROVE  CorrectFinalState
  <2>1. TypeOK
    BY <1>1 DEF IInv, TypeInv
  <2>2. ASSUME NEW n \in wf.node, cp.res[n] # Absent
        PROVE  completions[n] > 0 <=>
                 \/ Preds(wf, n) = {}
                 \/ \E x \in Incoming(wf, n) :
                      completions[x.src] > 0 /\ EdgeTaken(x.on, cp.res[x.src])
    <3>1. n \in Node /\ \A x \in Incoming(wf, n) : x.src \in Node /\ x.src \in wf.node
      <4>1. IsWorkflow(wf)
        BY <2>1, WorkflowsAssumption DEF TypeOK
      <4> QED
        BY <2>1, <4>1, PredsOfNode DEF IsWorkflow, Incoming
    <3>2. \A m \in wf.node : m \in Node /\ cp.res[m] # Absent =>
            (completions[m] > 0 <=> RanIn(cp.res, m))
      BY <1>1 DEF BranchInv, Branched, RecoveryInv, WorkInv
    <3>3. \A x \in Incoming(wf, n) : EdgeTaken(x.on, cp.res[x.src]) =>
            (completions[x.src] > 0 <=> RanIn(cp.res, x.src))
      BY <3>1, <3>2 DEF EdgeTaken
    <3>4. completions[n] > 0 <=> Selects(cp.res, n)
      BY <1>1, <2>2, <3>1, <3>2 DEF BranchInv, Branched
    <3> QED
      BY <3>3, <3>4 DEF Selects
  <2>3. ASSUME NEW i \in 1..Len(wf.order), RanOnRecord(wf.order[i]),
               \A j \in (i + 1)..Len(wf.order) : ~RanOnRecord(wf.order[j])
        PROVE  cp.last = wf.order[i]
    <3>1. LastUpTo(cp.res, cp.last, Len(wf.order)) /\ i <= Len(wf.order)
      BY <1>1 DEF RecoveryInv, CheckpointInv
    <3> QED
      BY <2>3, <3>1 DEF LastUpTo, RanIn, RanOnRecord
  <2> QED
    BY <2>2, <2>3 DEF CorrectFinalState
<1>2. IInv /\ BranchInv /\ RecoveryInv => CorrectFinalState
  BY <1>1 DEF CorrectFinalState
<1> QED
  BY <1>2, RecoveryHolds, PTL

-----------------------------------------------------------------------------
(* The sequential engine implements DagRun.  The abstract run is read off  *)
(* the checkpoint: it moves when a checkpoint is saved and stutters in      *)
(* every other step, a handler call or a crash included.                    *)

\* The results the abstract run has on record.
NodeResults == [cp.res EXCEPT ![InputKey] = Absent]

\* The abstract run reads workflows and results as the engine does.
LEMMA SameGraph ==
  /\ \A r : Run!Recorded(r) = Recorded(r)
  /\ \A w, n : Run!Preds(w, n) = Preds(w, n)
  /\ \A w, n, a, r : Run!IsActive(w, n, a, r) <=> IsActive(w, n, a, r)
  /\ Run!SkipMarker = SkipMarker
BY DEF Run!Recorded, Recorded, Run!Key, Key, Run!Preds, Preds, Run!Incoming, Incoming,
       Run!IsActive, IsActive, Run!EdgeTaken, EdgeTaken, Run!SkipMarker, SkipMarker

LEMMA NodeResultsFacts ==
  ASSUME TypeOK, NamesApart
  PROVE  /\ NodeResults \in Results
         /\ \A k \in Key : NodeResults[k] = IF k = InputKey THEN Absent ELSE cp.res[k]
         /\ \A n \in Node : NodeResults[n] = cp.res[n]
         /\ Run!Resolved = {n \in Node : cp.res[n] # Absent}
         /\ SeedActive(cp.res) = {n \in Node : RanIn(cp.res, n)}
<1>1. cp.res \in [Key -> Output \cup {Absent}]
  BY DEF TypeOK, Results
<1>2. /\ NodeResults \in Results
      /\ \A k \in Key : NodeResults[k] = IF k = InputKey THEN Absent ELSE cp.res[k]
  BY <1>1 DEF NodeResults, Results
<1>3. Run!Resolved = {n \in Node : cp.res[n] # Absent}
  BY <1>2, SameGraph DEF Run!Resolved, NodeResults, Recorded, Key, NamesApart
<1>4. SeedActive(cp.res) = {n \in Node : RanIn(cp.res, n)}
  BY DEF SeedActive, Recorded, RanIn, Key, NamesApart
<1> QED
  BY <1>2, <1>3, <1>4 DEF Key, NamesApart

\* The abstract run is halted when an executor that walks would break.
LEMMA HaltedIsError ==
  ASSUME TypeOK, NamesApart
  PROVE  Run!Halted <=> ErrorIn(WithInput(cp.res))
<1> DEFINE res == WithInput(cp.res)
<1>1. input # Absent
  BY OutputsAssumption, AbsentAssumption DEF TypeOK
<1>2. Recorded(res) = Run!Resolved \cup {InputKey}
  BY <1>1, InputApart, NodeResultsFacts DEF Recorded, Key
<1>3. res[InputKey] = input /\ \A n \in Run!Resolved : res[n] = NodeResults[n]
  BY InputApart, NodeResultsFacts
<1>4. Run!ErrorSeen <=> input.error \/ \E n \in Run!Resolved : NodeResults[n].error
  BY DEF Run!ErrorSeen, NodeResults
<1>5. (\E k \in Recorded(res) : res[k].error) <=> Run!ErrorSeen
  BY <1>2, <1>3, <1>4
<1> QED
  BY <1>5 DEF Run!Halted, ErrorIn

\* A node the walk has come to may be resolved, and is active if its edges select it.
LEMMA CurrentIsReady ==
  ASSUME IInv, NamesApart, NEW e \in Executor, More(e),
         out[e] = WithInput(cp.res), out[e][Current(e)] = Absent
  PROVE  /\ Current(e) \in Node
         /\ Run!Ready(Current(e))
         /\ IsActive(wf, Current(e), SeedActive(cp.res), NodeResults) <=> Selects(out[e], Current(e))
<1> DEFINE c == Current(e)
<1>1. TypeOK /\ c \in Node
  BY CurrentType DEF IInv, TypeInv
<1>2. c \in wf.node
  <2>1. wf \in Workflows /\ pos[e] \in 1..Len(wf.order)
    BY <1>1, OrderFacts DEF TypeOK, More
  <2> QED
    BY <2>1, WorkflowFacts DEF Current, Ordered
<1>3. cp.res[c] = Absent
  BY <1>1, InputApart
<1>4. /\ Preds(wf, c) \subseteq Node
      /\ \A p \in Preds(wf, c) : out[e][p] = cp.res[p] /\ cp.res[p] = NodeResults[p]
      /\ \A p \in Preds(wf, c) : cp.res[p] # Absent
  BY <1>1, PredsOfNode, PredsWalked, InputApart, NodeResultsFacts
<1>5. Run!Ready(c)
  BY <1>1, <1>2, <1>3, <1>4, NodeResultsFacts, SameGraph DEF Run!Ready
<1>6. IsActive(wf, c, SeedActive(cp.res), NodeResults) <=> Selects(out[e], c)
  <2>1. /\ \A x \in Incoming(wf, c) : x.src \in Preds(wf, c) /\ x.src \in Node
        /\ Incoming(wf, c) = {} <=> Preds(wf, c) = {}
    BY <1>1, PredsOfNode
  <2>2. \A x \in Incoming(wf, c) :
          /\ x.src \in SeedActive(cp.res) <=> RanIn(out[e], x.src)
          /\ NodeResults[x.src] = out[e][x.src]
    BY <1>1, <1>4, <2>1, NodeResultsFacts DEF RanIn
  <2> QED
    BY <2>1, <2>2 DEF IsActive, Selects
<1> QED
  BY <1>1, <1>5, <1>6

LEMMA StaysAbstract ==
  ASSUME cp' = cp, wf' = wf, input' = input
  PROVE  UNCHANGED Run!absVars
BY DEF Run!absVars, SeedActive, Recorded

\* What the abstract run sees of the checkpoint saved when v is filed for node c.
LEMMA SavedResults ==
  ASSUME TypeOK, NamesApart, NEW c \in Node, cp.res[c] = Absent,
         NEW v \in Output,
         NEW o, o = [WithInput(cp.res) EXCEPT ![c] = v], cp'.res = o
  PROVE  /\ NodeResults' = [NodeResults EXCEPT ![c] = v]
         /\ SeedActive(cp'.res) =
              IF v.skipped THEN SeedActive(cp.res) ELSE SeedActive(cp.res) \cup {c}
<1>1. WithInput(cp.res) \in Results /\ \A n \in Node : WithInput(cp.res)[n] = cp.res[n]
  BY InputApart
<1>2. c \in Key /\ c # InputKey /\ v # Absent
  BY AbsentAssumption DEF Key, NamesApart
<1>3. o \in Results /\ \A n \in Node : o[n] = IF n = c THEN v ELSE cp.res[n]
  BY <1>1, <1>2 DEF Results, Key
<1>4. NodeResults' = [o EXCEPT ![InputKey] = Absent]
  BY DEF NodeResults
<1>5. \A k \in Key : [o EXCEPT ![InputKey] = Absent][k] = [NodeResults EXCEPT ![c] = v][k]
  BY <1>2, <1>3, NodeResultsFacts DEF Results, Key
<1>6. /\ [o EXCEPT ![InputKey] = Absent] \in [Key -> Output \cup {Absent}]
      /\ [NodeResults EXCEPT ![c] = v] \in [Key -> Output \cup {Absent}]
  BY <1>2, <1>3, NodeResultsFacts DEF Results, Key
<1>7. NodeResults' = [NodeResults EXCEPT ![c] = v]
  BY <1>4, <1>5, <1>6
<1>8. SeedActive(o) = {n \in Node : RanIn(o, n)}
  BY DEF SeedActive, Recorded, RanIn, Key, NamesApart
<1>9. \A n \in Node : RanIn(o, n) <=> RanIn(cp.res, n) \/ (n = c /\ ~v.skipped)
  BY <1>2, <1>3 DEF RanIn
<1> QED
  BY <1>7, <1>8, <1>9, NodeResultsFacts

\* The record is saved as it is: the abstract run's results stay.
LEMMA ResavedResults ==
  ASSUME TypeOK, NamesApart, cp'.res = WithInput(cp.res)
  PROVE  NodeResults' = NodeResults /\ SeedActive(cp'.res) = SeedActive(cp.res)
<1>1. \A n \in Node : cp'.res[n] = cp.res[n]
  BY InputApart
<1>2. cp'.res \in Results
  BY InputApart
<1>3. NodeResults' = [cp'.res EXCEPT ![InputKey] = Absent]
  BY DEF NodeResults
<1>4. [cp'.res EXCEPT ![InputKey] = Absent] = NodeResults
  BY <1>1, <1>2, NodeResultsFacts DEF Results, Key
<1>5. SeedActive(cp'.res) = {n \in Node : RanIn(cp'.res, n)}
  BY DEF SeedActive, Recorded, RanIn, Key, NamesApart
<1> QED
  BY <1>1, <1>3, <1>4, <1>5, NodeResultsFacts DEF RanIn

\* A result or a skip marker is filed and checkpointed.
LEMMA FilingStep ==
  ASSUME IInv, RecoveryInv, NamesApart, NEW e \in Executor, More(e), pc[e] # "idle",
         out[e][Current(e)] = Absent, ~ErrorIn(out[e]),
         NEW v \in Output,
         \/ v = SkipMarker /\ ~Selects(out[e], Current(e))
         \/ v \in HandlerOutput /\ ~v.skipped /\ Selects(out[e], Current(e)),
         cp' = [status |-> "running", last |-> Current(e),
                res |-> [out[e] EXCEPT ![Current(e)] = v]],
         wf' = wf, input' = input
  PROVE  Run!Next
<1> DEFINE c == Current(e)
<1>1. TypeOK /\ cp.status # "completed" /\ out[e] = WithInput(cp.res)
  BY DEF IInv, TypeInv, RecoveryInv, SyncInv
<1>2. /\ c \in Node /\ Run!Ready(c) /\ ~Run!Halted
      /\ Run!IsActive(wf, c, SeedActive(cp.res), NodeResults) <=> Selects(out[e], c)
  BY <1>1, CurrentIsReady, HaltedIsError, SameGraph
<1>3. cp.res[c] = Absent
  BY <1>1, <1>2, InputApart
<1>4. /\ NodeResults' = [NodeResults EXCEPT ![c] = v]
      /\ SeedActive(cp'.res) =
           IF v.skipped THEN SeedActive(cp.res) ELSE SeedActive(cp.res) \cup {c}
  <2>1. cp'.res = [WithInput(cp.res) EXCEPT ![c] = v]
    BY <1>1
  <2> QED
    BY <1>1, <1>2, <1>3, <2>1, SavedResults
<1>5. SeedActive(cp.res)' = SeedActive(cp'.res)
  BY DEF SeedActive, Recorded
<1>6. SkipMarker.skipped
  BY DEF SkipMarker
<1>7. CASE v = SkipMarker /\ ~Selects(out[e], c)
  <2>1. Run!Skip(c)
    BY <1>1, <1>2, <1>4, <1>5, <1>6, <1>7, SameGraph DEF Run!Skip, NodeResults
  <2> QED
    BY <1>2, <2>1 DEF Run!Next
<1>8. CASE v \in HandlerOutput /\ ~v.skipped /\ Selects(out[e], c)
  <2>1. Run!Run(c)
    BY <1>1, <1>2, <1>4, <1>5, <1>8, SameGraph DEF Run!Run, NodeResults
  <2> QED
    BY <1>2, <2>1 DEF Run!Next
<1> QED
  BY <1>7, <1>8

\* Where nothing is left of the walk, nothing is left of the abstract run: what Topo
\* does not reach waits behind a cycle.
LEMMA NothingLeftToRun ==
  ASSUME TypeOK, RecoveryInv, NamesApart, NothingLeft(WithInput(cp.res))
  PROVE  Run!Halted \/ \A n \in wf.node : ~Run!Ready(n)
<1>1. CASE ErrorIn(WithInput(cp.res))
  BY <1>1, HaltedIsError
<1>2. CASE \A n \in Ordered(wf) : WithInput(cp.res)[n] # Absent
  <2> SUFFICES ASSUME NEW n \in wf.node, Run!Ready(n)
               PROVE  FALSE
    OBVIOUS
  <2>1. n \in Node /\ cp.res[n] = Absent /\ \A p \in Preds(wf, n) : p \in Node /\ cp.res[p] # Absent
    BY PredsOfNode, NodeResultsFacts, SameGraph DEF Run!Ready
  <2>2. Preds(wf, n) \subseteq Ordered(wf)
    BY <2>1 DEF RecoveryInv, CheckpointInv, Prefix
  <2>3. n \in Ordered(wf)
    <3>1. IsTopo(wf)
      BY WorkflowsAssumption DEF TypeOK, IsWorkflow
    <3> QED
      BY <2>2, <3>1 DEF IsTopo
  <2> QED
    BY <1>2, <2>1, <2>3, InputApart
<1> QED
  BY <1>1, <1>2 DEF NothingLeft, ErrorIn

LEMMA InitRefines == Init => Run!Init
<1> SUFFICES ASSUME Init PROVE Run!Init
  OBVIOUS
<1>1. cp = NoCheckpoint
  BY DEF Init
<1>2. SeedActive(cp.res) = {}
  BY <1>1 DEF NoCheckpoint, SeedActive, Recorded, NoResults
<1>3. [cp.res EXCEPT ![InputKey] = Absent] = [k \in Key |-> Absent]
  BY <1>1 DEF NoCheckpoint, NoResults
<1> QED
  BY <1>1, <1>2, <1>3 DEF Init, NoCheckpoint, Run!Init, Run!Key, Key

LEMMA StepRefines ==
  ASSUME IInv, BranchInv, RecoveryInv, NamesApart, NEW e \in Executor, Step(e)
  PROVE  [Run!Next]_(Run!absVars)
<1>1. /\ TypeOK /\ SyncInv(e) /\ KnowsItsBranch(e) /\ Walked(e)
      /\ wf' = wf /\ input' = input
  BY DEF IInv, TypeInv, WalkInv, RecoveryInv, BranchInv, Step, Walk, Break, PassRecorded, SkipInactive,
         StartNode, Acquire, Handler, HandlerOk, HandlerErr, BackoffOver, HandlerTimeout,
         Settle, FileResult, FailRun, FailSave, FinishRun, FinishSave
<1>2. ASSUME cp' = cp
      PROVE  [Run!Next]_(Run!absVars)
  BY <1>1, <1>2, StaysAbstract
<1>3. CASE SkipInactive(e)
  <2>1. CASE SaveError
    BY <1>2, <2>1 DEF SaveError
  <2>2. CASE ~SaveError
    <3>1. cp' = [status |-> "running", last |-> Current(e),
                 res |-> [out[e] EXCEPT ![Current(e)] = SkipMarker]]
      BY <1>3, <2>2 DEF SkipInactive, SaveAs
    <3>2. /\ More(e) /\ pc[e] # "idle" /\ out[e][Current(e)] = Absent /\ ~ErrorIn(out[e])
          /\ ~IsActive(wf, Current(e), act[e], out[e])
      BY <1>3, FailFastIsError DEF SkipInactive, AtNewNode
    <3>3. ~Selects(out[e], Current(e))
      BY <1>1, <3>2, CurrentType, ActiveIffSelected DEF KnowsItsBranch
    <3> QED
      BY <1>1, <3>1, <3>2, <3>3, SkipMarkerType, FilingStep
  <2> QED
    BY <2>1, <2>2
<1>4. CASE FileResult(e)
  <2>1. CASE SaveError
    BY <1>2, <2>1 DEF SaveError
  <2>2. CASE ~SaveError
    <3>1. cp' = [status |-> "running", last |-> Current(e),
                 res |-> [out[e] EXCEPT ![Current(e)] = val[e]]]
      BY <1>4, <2>2 DEF FileResult, SaveAs
    <3>2. Busy(e) /\ More(e) /\ pc[e] = "file"
      BY <1>4 DEF FileResult, Busy, IInv, TypeInv, InHand
    <3>3. /\ out[e][Current(e)] = Absent /\ ~ErrorIn(out[e]) /\ Selects(out[e], Current(e))
          /\ val[e] \in HandlerOutput /\ ~val[e].skipped
      BY <1>1, <3>2 DEF KnowsItsBranch, SyncInv
    <3> QED
      BY <1>1, <3>1, <3>2, <3>3, OutputsAssumption, FilingStep
  <2> QED
    BY <2>1, <2>2
<1>5. CASE FailSave(e) /\ ~SaveError
  <2>1. pc[e] = "failSave" /\ cp' = [status |-> "failed", last |-> last[e], res |-> out[e]]
    BY <1>5 DEF FailSave, SaveAs
  <2>2. cp'.status = "failed" /\ cp'.res = WithInput(cp.res) /\ cp.status # "completed"
    BY <1>1, <2>1 DEF SyncInv
  <2>3. NodeResults' = NodeResults /\ SeedActive(cp.res)' = SeedActive(cp.res)
    <3>1. SeedActive(cp.res)' = SeedActive(cp'.res)
      BY DEF SeedActive, Recorded
    <3> QED
      BY <1>1, <2>2, <3>1, ResavedResults
  <2>4. CASE cp.status = "failed"
    BY <1>1, <2>2, <2>3, <2>4 DEF Run!absVars, NodeResults
  <2>5. CASE cp.status # "failed"
    <3>1. cp.status \in {"none", "running"}
      BY <1>1, <2>2, <2>5 DEF TypeOK
    <3>2. Run!Fail
      BY <1>1, <2>2, <2>3, <3>1 DEF Run!Fail, NodeResults
    <3> QED
      BY <3>2 DEF Run!Next
  <2> QED
    BY <2>4, <2>5
<1>6. CASE FinishSave(e) /\ ~SaveError
  <2>1. pc[e] = "finishSave" /\ cp' = [status |-> "completed", last |-> last[e], res |-> out[e]]
    BY <1>6 DEF FinishSave, SaveAs
  <2>2. cp'.status = "completed" /\ cp'.res = WithInput(cp.res) /\ cp.status # "completed"
    BY <1>1, <2>1 DEF SyncInv
  <2>3. NodeResults' = NodeResults /\ SeedActive(cp.res)' = SeedActive(cp.res)
    <3>1. SeedActive(cp.res)' = SeedActive(cp'.res)
      BY DEF SeedActive, Recorded
    <3> QED
      BY <1>1, <2>2, <3>1, ResavedResults
  <2>4. Run!Halted \/ \A n \in wf.node : ~Run!Ready(n)
    BY <1>1, <2>1, NothingLeftToRun DEF Walked, SyncInv
  <2>5. Run!Complete
    BY <1>1, <2>2, <2>3, <2>4 DEF Run!Complete, NodeResults
  <2> QED
    BY <2>5 DEF Run!Next
<1>7. ASSUME cp' # cp
      PROVE  SkipInactive(e) \/ FileResult(e) \/ (FailSave(e) /\ ~SaveError) \/ (FinishSave(e) /\ ~SaveError)
  BY <1>7 DEF Step, Walk, Break, PassRecorded, StartNode, Acquire, Handler, HandlerOk, HandlerErr,
              BackoffOver, HandlerTimeout, Settle, FailRun, FinishRun, FailSave, FinishSave, SaveError
<1> QED
  BY <1>2, <1>3, <1>4, <1>5, <1>6, <1>7

\* Each step of the engine is a step of the abstract run, or none of its business:
\* through crashes, lost saves and resumptions the checkpoint tells of one run in
\* which every node is resolved once and for good, after its predecessors, run or
\* skipped as its edges say, until nothing is left (execute_core).
THEOREM CheckpointTellsOneRun ==
  ASSUME NamesApart, NoSkippedOutputs, OneAtATime
  PROVE  Spec => ImplementsDagRun
<1>1. Init => Run!Init
  BY InitRefines
<1>2. IInv /\ BranchInv /\ RecoveryInv /\ [Next]_vars => [Run!Next]_(Run!absVars)
  <2>1. ASSUME IInv, BranchInv, RecoveryInv, [Next]_vars
        PROVE  [Run!Next]_(Run!absVars)
    <3>1. CASE UNCHANGED vars \/ Crash \/ \E e \in Executor : Begin(e)
      <4>1. cp' = cp /\ wf' = wf /\ input' = input
        BY <3>1 DEF vars, Crash, Begin
      <4> QED
        BY <4>1, StaysAbstract
    <3>2. CASE \E e \in Executor : Step(e)
      BY <2>1, <3>2, StepRefines
    <3> QED
      BY <2>1, <3>1, <3>2 DEF Next
  <2> QED
    BY <2>1
<1> QED
  BY <1>1, <1>2, RecoveryHolds, PTL DEF Spec, ImplementsDagRun, Run!Spec
=============================================================================
