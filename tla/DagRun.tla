------------------------------- MODULE DagRun -------------------------------
(***************************************************************************)
(* What a run of a workflow promises, whichever engine performs it: nodes  *)
(* are resolved one at a time, each once and for good, after all their     *)
(* predecessors; an active node is resolved by running its handler, an     *)
(* inactive one by skipping it; the run completes when nothing is left to  *)
(* resolve (an engine that acts on fail_fast resolves nothing more once an *)
(* error output is on record), and a failed run may be picked up again     *)
(* where it stopped.                                                       *)
(***************************************************************************)
EXTENDS Dag

CONSTANTS
  Workflows,      \* the workflows runs may be asked for
  HandlerOutput,  \* the outputs handlers return
  RunInputs,      \* the inputs runs are given
  StopsOnError    \* whether the engine acts on settings.fail_fast

VARIABLES
  wf,      \* the workflow of this run
  input,   \* its input
  ran,     \* the nodes whose handler result is on record
  res,     \* the results on record, the skip markers included
  status   \* "running", "failed" or "completed"

absVars == <<wf, input, ran, res, status>>

Resolved == Recorded(res) \ {InputKey}

Ready(n) ==
  /\ n \in wf.node \ Resolved
  /\ Preds(wf, n) \subseteq Resolved

ErrorSeen == input.error \/ \E n \in Resolved : res[n].error

Halted == StopsOnError /\ wf.failFast /\ ErrorSeen

Init ==
  /\ wf \in Workflows
  /\ input \in RunInputs
  /\ ran = {}
  /\ res = [k \in Key |-> Absent]
  /\ status = "running"

Skip(n) ==
  /\ status # "completed" /\ ~Halted
  /\ Ready(n)
  /\ ~IsActive(wf, n, ran, res)
  /\ res' = [res EXCEPT ![n] = SkipMarker]
  /\ status' = "running"
  /\ UNCHANGED <<wf, input, ran>>

Run(n) ==
  /\ status # "completed" /\ ~Halted
  /\ Ready(n)
  /\ IsActive(wf, n, ran, res)
  /\ \E o \in HandlerOutput : res' = [res EXCEPT ![n] = o]
  /\ ran' = ran \cup {n}
  /\ status' = "running"
  /\ UNCHANGED <<wf, input>>

Fail ==
  /\ status = "running"
  /\ status' = "failed"
  /\ UNCHANGED <<wf, input, ran, res>>

Complete ==
  /\ status # "completed"
  /\ Halted \/ \A n \in wf.node : ~Ready(n)
  /\ status' = "completed"
  /\ UNCHANGED <<wf, input, ran, res>>

Next ==
  \/ \E n \in Node : Skip(n) \/ Run(n)
  \/ Fail
  \/ Complete

Spec == Init /\ [][Next]_absVars
=============================================================================
