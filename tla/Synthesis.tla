----------------------------- MODULE Synthesis -----------------------------
(***************************************************************************)
(* From a prompt to a plan that a user may deploy: the planner, a model,   *)
(* is asked for a plan, told why one is refused and asked again a bounded  *)
(* number of times; the user may edit what was accepted, have it validated *)
(* again, or ask for another one with a remark.                            *)
(***************************************************************************)
EXTENDS Plans

CONSTANTS
  Plan,         \* what the planner may answer
  Steps,        \* steps a user may add
  Allowed,      \* sets of capabilities a request may be restricted to
  MaxRepairs,   \* max_repairs
  MaxEdits      \* bound: edits and remarks of the user

VARIABLES
  allowed,      \* the constraint of the request
  at,           \* "asking", "accepted", "edited", "failed" or "panicked"
  attempt,      \* plans asked for
  feedback,     \* whether the planner is told of an earlier plan, or of a remark
  plan,         \* the plan at hand
  error,        \* the kind of the last error
  edits,
  scrubbed      \* history: the plan was accepted, and steps were only removed since

vars == <<allowed, at, attempt, feedback, plan, error, edits, scrubbed>>

Init ==
  /\ allowed \in Allowed
  /\ at = "asking" /\ attempt = 0 /\ feedback = FALSE
  /\ plan = <<>> /\ error = None
  /\ edits = 0 /\ scrubbed = FALSE

\* No attempt is left after this one.
OutOfRepairs == attempt + 1 > MaxRepairs

\* The model fails, or its answer has no plan in it: neither is repaired.
PlannerFails ==
  /\ at = "asking"
  /\ at' = "failed" /\ error' \in {"Provider", "PlanParse"}
  /\ attempt' = attempt + 1
  /\ UNCHANGED <<allowed, feedback, plan, edits, scrubbed>>

\* What becomes of a plan that is validated.
Validated(p, verdict) ==
  CASE verdict = "ok" -> at' = "accepted" /\ error' = None
    [] verdict = "panic" -> at' = "panicked" /\ error' = None
    [] verdict = "invalid" -> at' = "failed" /\ error' = "InvalidPlan"

PlannerAnswers ==
  /\ at = "asking"
  /\ attempt' = attempt + 1
  /\ \E p \in Plan :
       LET verdict == ValidatePlan(p, allowed) IN
       /\ plan' = p
       /\ IF verdict # "invalid" THEN Validated(p, verdict) /\ feedback' = feedback
          ELSE /\ feedback' = TRUE
               /\ at' = IF OutOfRepairs THEN "failed" ELSE "asking"
               /\ error' = IF OutOfRepairs THEN "Unconverged" ELSE "InvalidPlan"
       /\ scrubbed' = (verdict = "ok")
  /\ UNCHANGED <<allowed, edits>>

\* PlanIR: remove_step, add_step, set_param.
Edit ==
  /\ at \in {"accepted", "edited"} /\ edits < MaxEdits
  /\ \/ \E id \in Ids(plan) : plan' = RemoveStep(plan, id) /\ scrubbed' = scrubbed
     \/ \E step \in Steps : plan' = AddStep(plan, step) /\ scrubbed' = FALSE
     \/ \E id \in Ids(plan), model \in {"mock", None} :
          plan' = SetModel(plan, id, model) /\ scrubbed' = scrubbed
  /\ at' = "edited"
  /\ edits' = edits + 1
  /\ UNCHANGED <<allowed, attempt, feedback, error>>

Revalidate ==
  /\ at = "edited"
  /\ Validated(plan, ValidatePlan(plan, allowed))
  /\ UNCHANGED <<allowed, attempt, feedback, plan, edits, scrubbed>>

\* A remark starts over, with all repairs.
Regenerate ==
  /\ at \in {"accepted", "edited", "failed"} /\ edits < MaxEdits
  /\ at' = "asking" /\ attempt' = 0 /\ feedback' = TRUE /\ error' = None
  /\ edits' = edits + 1
  /\ plan' = <<>> /\ scrubbed' = FALSE
  /\ UNCHANGED allowed

Next == PlannerFails \/ PlannerAnswers \/ Edit \/ Revalidate \/ Regenerate

Spec == Init /\ [][Next]_vars

-----------------------------------------------------------------------------
(* Properties.                                                             *)

TypeOK ==
  /\ at \in {"asking", "accepted", "edited", "failed", "panicked"}
  /\ attempt \in 0..MaxRepairs + 1 /\ edits \in 0..MaxEdits
  /\ error \in {None, "Provider", "PlanParse", "InvalidPlan", "Unconverged"}

\* Removing steps from a plan that was accepted, in any order and whatever else refers
\* to them, leaves a plan that is accepted again, unless nothing is left of it.
RemovalKeepsPlansValid ==
  scrubbed /\ at \in {"failed", "panicked"} => plan = <<>>

\* What validate_plan says it refuses: a plan that is accepted has an order of its steps
\* and no edge that leads nowhere, and no plan makes validation panic.
AcceptedIsWellFormed ==
  /\ at = "accepted" => WellFormed(plan)
  /\ at # "panicked"
=============================================================================
