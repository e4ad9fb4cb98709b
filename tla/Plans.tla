------------------------------- MODULE Plans -------------------------------
(***************************************************************************)
(* Plans of the synthesis layer as data: what is checked of a plan, the    *)
(* workflow it is lowered to, what it is estimated to cost, the provider   *)
(* of a model, and the edits a user may make.                              *)
(*                                                                         *)
(* A plan is a sequence of steps.  A step has an id, a capability, the     *)
(* steps it depends on, the labels of its outgoing edges by the step they  *)
(* lead to, and of its params the model, the step budget of an agent, and  *)
(* the inline workflows of a subgraph or a parallel node.                  *)
(***************************************************************************)
EXTENDS Order, SequencesExt

CONSTANT None   \* what is not given

Supported ==
  {"llm_call", "agent", "ensemble", "router", "subgraph", "data_processor", "conditional",
   "parallel"}

\* What a model call of a step without a model falls back to.
DefaultModel == "gpt-3.5-turbo"
DefaultSteps == 5

Ids(plan) == {plan[i].id : i \in DOMAIN plan}

-----------------------------------------------------------------------------
(* Lowering and validation.                                                *)

\* A constraint that names capabilities narrows the catalog; none leaves it as it is.
EffectiveCatalog(allowed) == IF allowed = {} THEN Supported ELSE allowed \cap Supported

\* The label of an edge is kept by its source; of two steps with one id, by the last.
Label(plan, dep, target) ==
  LET sources == {i \in DOMAIN plan : plan[i].id = dep}
      src == plan[CHOOSE i \in sources : \A j \in sources : j <= i]
  IN IF sources # {} /\ target \in DOMAIN src.edges THEN src.edges[target] ELSE "success"

Lower(plan) ==
  [nodes |-> plan,
   connections |->
     UNION {{[from |-> dep, to |-> plan[i].id, on |-> Label(plan, dep, plan[i].id)] :
               dep \in plan[i].deps} : i \in DOMAIN plan}]

\* TypeSafeDag::from_json looks both ends of an edge up in the map of nodes, which
\* panics where there is no such node.  It does not look for cycles.
FromJson(spec) ==
  IF \A c \in spec.connections : {c.from, c.to} \subseteq Ids(spec.nodes) THEN "ok" ELSE "panic"

ValidatePlan(plan, allowed) ==
  IF plan = <<>> THEN "invalid"
  ELSE IF \E i \in DOMAIN plan : plan[i].capability \notin EffectiveCatalog(allowed)
         THEN "invalid" ELSE FromJson(Lower(plan))

\* Validation as it is documented: a graph with an order of its steps, and no edge to
\* or from a step that is not there.
WellFormed(plan) ==
  /\ \A i \in DOMAIN plan : plan[i].deps \subseteq Ids(plan)
  /\ \A S \in SUBSET Ids(plan) \ {{}} :
       \E id \in S : \A i \in DOMAIN plan : plan[i].id = id => plan[i].deps \cap S = {}

-----------------------------------------------------------------------------
(* Estimate, quota and models.                                             *)

Budget(step) == IF step.steps = None THEN DefaultSteps ELSE step.steps

\* The model calls of one step; those of nested workflows are not counted.
Invocations(step) ==
  CASE step.capability = "llm_call" -> 1
    [] step.capability = "agent" -> Budget(step)
    [] OTHER -> 0

Estimate(plan) ==
  [nodes |-> Len(plan),
   calls |-> Iterate(Len(plan), 0, [i \in DOMAIN plan |-> [n \in Nat |-> n + Invocations(plan[i])]]),
   external |-> \E i \in DOMAIN plan : plan[i].capability \in {"llm_call", "agent"}]

\* A limit of None is no limit.
WithinQuota(estimate, quota) ==
  /\ quota.nodes # None => estimate.nodes <= quota.nodes
  /\ quota.calls # None => estimate.calls <= quota.calls
  /\ estimate.external => quota.external

Model(step) == IF step.model = None THEN DefaultModel ELSE step.model

\* The provider of a model, when the environment names none.
ProviderFor(model) ==
  CASE model \in {"mock", "ollama"} -> model
    [] model = "claude" -> "anthropic"
    [] OTHER -> "openai"

\* The keys that a provider refuses to work without.
KeyOf(provider) ==
  CASE provider = "openai" -> {"OPENAI_API_KEY"}
    [] provider = "anthropic" -> {"ANTHROPIC_API_KEY"}
    [] OTHER -> {}

-----------------------------------------------------------------------------
(* Edits.                                                                  *)

\* MUTANT of RemoveStep: what depends on the step is left as it is.
RemoveStepOnly(plan, id) == Kept(plan, {i \in DOMAIN plan : plan[i].id # id})

\* The step goes, and every reference to it.
RemoveStep(plan, id) ==
  LET rest == Kept(plan, {i \in DOMAIN plan : plan[i].id # id}) IN
  [i \in DOMAIN rest |->
     [rest[i] EXCEPT !.deps = @ \ {id},
                     !.edges = [t \in DOMAIN @ \ {id} |-> @[t]]]]

AddStep(plan, step) == Append(plan, step)

\* The first step with the id.
SetModel(plan, id, model) ==
  LET at == {i \in DOMAIN plan : plan[i].id = id} IN
  IF at = {} THEN plan ELSE [plan EXCEPT ![CHOOSE i \in at : \A j \in at : i <= j].model = model]
=============================================================================
