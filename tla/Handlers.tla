------------------------------ MODULE Handlers ------------------------------
(***************************************************************************)
(* The execution of one node by the handler of its type: a model call      *)
(* through the provider of the model, an agent's loop of model calls and   *)
(* tools, an inline workflow, several at a time, or a decision about the   *)
(* input.  The input is the value of the field that the node looks at and  *)
(* the values of the members of an ensemble.                               *)
(***************************************************************************)
EXTENDS Plans, Integers

CONSTANTS
  Node,        \* nodes: steps of a plan with further params
  Value,       \* what a field may hold: Absent, a [num |-> n] or a [str |-> s]
  Absent,
  MaxMembers,  \* bound: predecessors of an ensemble
  MaxNesting   \* bound: how deep inline workflows are in one another

VARIABLES
  node,        \* the node
  keys,        \* secrets of the environment
  override,    \* GAUSSFLOW_LLM_PROVIDER
  field,       \* the value of the field
  members,     \* the values of an ensemble's members, in edge order
  at,          \* "running", "done" or "failed"
  calls,       \* model calls made
  taken,       \* steps taken by an agent
  branch,      \* the branches of a parallel or subgraph node: running, ok, or an error
  results,     \* the branches whose output was collected, in that order
  out          \* the label, the winner or the error

vars == <<node, keys, override, field, members, at, calls, taken, branch, results, out>>

-----------------------------------------------------------------------------
(* What a node holds and needs.                                            *)

\* MUTANT of SecretForModel: every model but the local ones has OpenAI's.
SecretForModelOpenAI(model) == IF model \in {"mock", "ollama"} THEN {} ELSE {"OPENAI_API_KEY"}

SecretForModel(model) ==
  CASE model \in {"mock", "ollama"} -> {}
    [] model = "claude" -> {"ANTHROPIC_API_KEY"}
    [] OTHER -> {"OPENAI_API_KEY"}

\* The inline workflow of a subgraph, or the branches of a parallel node.
NestedOf(step) == IF step.capability \in {"subgraph", "parallel"} THEN step.nested ELSE <<>>

CallsModel(step) == step.capability \in {"llm_call", "agent"}

\* The steps of a plan and of what is inline in it, so deep at most.
StepsWithin(plan, nesting) ==
  LET steps[depth \in 0..nesting] ==
        IF depth = 0 THEN ToSet(plan)
        ELSE UNION {UNION {ToSet(p) : p \in ToSet(NestedOf(s))} : s \in steps[depth - 1]}
  IN UNION Range(steps)

RequiredSecrets(plan) ==
  UNION {SecretForModel(Model(s)) : s \in {t \in StepsWithin(plan, MaxNesting) : CallsModel(t)}}

Init ==
  /\ node \in Node   \* param says whether it has the param that its type cannot do without
  /\ keys \in SUBSET {"OPENAI_API_KEY", "ANTHROPIC_API_KEY"}
  /\ override \in {None, "mock", "openai"}
  /\ field \in IF node.capability \in {"router", "conditional", "data_processor"}
                 THEN Value ELSE {Absent}
  /\ members \in IF node.capability = "ensemble"
                   THEN UNION {[1..n -> Value] : n \in 0..MaxMembers} ELSE {<<>>}
  /\ at = "running" /\ calls = 0 /\ taken = 0
  /\ branch = [i \in IF node.param THEN DOMAIN NestedOf(node) ELSE {} |-> "running"]
  /\ results = <<>> /\ out = [error |-> None, value |-> None]

Done(value) == at' = "done" /\ out' = [error |-> None, value |-> value]
Failed(error) == at' = "failed" /\ out' = [error |-> error, value |-> None]

GivenUnchanged == UNCHANGED <<node, keys, override, field, members>>

-----------------------------------------------------------------------------
(* Model calls.                                                            *)

\* A model that the node is configured with comes before one of its params.
ModelOf(n) == IF n.config # None THEN n.config ELSE Model(n)

Provider(model) == IF override # None THEN override ELSE ProviderFor(model)

HasKey(model) == KeyOf(Provider(model)) \subseteq keys

\* The mock provider answers without a network.
Unreachable(model) == Provider(model) # "mock" /\ Failed("network")

\* The mock's answer is no directive, which makes it the final answer.
Chatty == node.script \/ Provider(Model(node)) # "mock"

\* LlmCallHandler: without the key of its provider nothing is sent.
LlmCall ==
  /\ at = "running" /\ node.capability = "llm_call"
  /\ IF HasKey(ModelOf(node))
       THEN calls' = calls + 1 /\ (Done("answer") \/ Unreachable(ModelOf(node)))
       ELSE calls' = calls /\ Failed("key")
  /\ UNCHANGED <<taken, branch, results>> /\ GivenUnchanged

\* AgentHandler, one directive: from the script, which ends in a final answer, or from
\* the model.  A tool is run and the loop goes on; an unknown tool is an error.
AgentStep ==
  /\ at = "running" /\ node.capability = "agent" /\ taken < Budget(node)
  /\ IF ~node.script /\ ~HasKey(Model(node))
       THEN Failed("key") /\ UNCHANGED <<calls, taken>>
       ELSE /\ calls' = IF node.script THEN calls ELSE calls + 1
            /\ taken' = taken + 1
            /\ \/ Chatty /\ UNCHANGED <<at, out>>
               \/ Chatty /\ Failed("tool")
               \/ Done("final")
               \/ ~node.script /\ Unreachable(Model(node))
  /\ UNCHANGED <<branch, results>> /\ GivenUnchanged

AgentGivesUp ==
  /\ at = "running" /\ node.capability = "agent" /\ taken = Budget(node)
  /\ Done("exhausted")
  /\ UNCHANGED <<calls, taken, branch, results>> /\ GivenUnchanged

-----------------------------------------------------------------------------
(* Inline workflows.                                                       *)

\* A branch runs on an engine of its own; one of its nodes may lack a key or fail, or
\* the branch may be no workflow at all.
BranchEnds(i) ==
  /\ i \in DOMAIN branch /\ branch[i] = "running"
  /\ LET inline == NestedOf(node)[i]
         keyless == \E s \in StepsWithin(inline, MaxNesting - 1) :
                      CallsModel(s) /\ ~HasKey(Model(s))
     IN \E end \in {"ok", "failed"} \cup (IF keyless THEN {"key"} ELSE {}) :
          branch' = [branch EXCEPT ![i] = end]
  /\ UNCHANGED <<at, calls, taken, results, out>> /\ GivenUnchanged

\* The handles are awaited in the order of the branches.
NextBranch == {i \in DOMAIN branch : i = Len(results) + 1 /\ branch[i] # "running"}

\* SubgraphHandler and ParallelHandler: the first error returns, and the branches after
\* it go on by themselves.
Collect ==
  /\ at = "running"
  /\ \E i \in NextBranch :
       IF branch[i] = "ok" THEN results' = Append(results, i) /\ UNCHANGED <<at, out>>
       ELSE Failed(branch[i]) /\ results' = results
  /\ UNCHANGED <<calls, taken, branch>> /\ GivenUnchanged

AllCollected ==
  /\ at = "running" /\ node.capability \in {"subgraph", "parallel"} /\ node.param
  /\ Len(results) = Len(node.nested)
  /\ Done("results")
  /\ UNCHANGED <<calls, taken, branch, results>> /\ GivenUnchanged

-----------------------------------------------------------------------------
(* Decisions.                                                              *)

IsNum(v) == v # Absent /\ "num" \in DOMAIN v

\* Numbers are ordered, anything can be equal or not.
Compare(op, a, e) ==
  CASE op = "eq" -> a = e
    [] op = "ne" -> a # e
    [] op = "gt" -> IsNum(a) /\ IsNum(e) /\ a.num > e.num
    [] op = "lt" -> IsNum(a) /\ IsNum(e) /\ a.num < e.num
    [] op = "ge" -> IsNum(a) /\ IsNum(e) /\ a.num >= e.num
    [] op = "le" -> IsNum(a) /\ IsNum(e) /\ a.num <= e.num

Ops == {"eq", "ne", "gt", "lt", "ge", "le"}

\* A field that is absent is looked up as the empty key; a key without a route takes
\* the default.
Route(n, v) == IF v \in DOMAIN n.routes THEN n.routes[v] ELSE n.default

Count(v) == Cardinality({i \in DOMAIN members : members[i] = v})
Cast == {members[i] : i \in DOMAIN members} \ {Absent}

\* As texts, numbers sort before words.
TextBefore(v, w) ==
  CASE IsNum(v) /\ IsNum(w) -> v.num < w.num
    [] IsNum(v) # IsNum(w) -> IsNum(v)
    [] OTHER -> v.str = "a" /\ w.str # "a"

\* The most frequent value, and of several the last in the order of their texts; a
\* member without the field does not vote.
Winner ==
  IF Cast = {} THEN Absent
  ELSE CHOOSE v \in Cast :
         \A w \in Cast \ {v} :
           Count(w) < Count(v) \/ (Count(w) = Count(v) /\ TextBefore(w, v))

Decide ==
  /\ at = "running"
  /\ \/ node.capability = "router" /\ ~node.param /\ Failed("param")
     \/ node.capability = "router" /\ node.param /\ Done(Route(node, field))
     \/ node.capability = "conditional" /\ (~node.param \/ node.op \notin Ops) /\ Failed("param")
     \/ /\ node.capability = "conditional" /\ node.param /\ node.op \in Ops
        /\ Done(IF Compare(node.op, field, node.value) THEN "true" ELSE "false")
     \/ node.capability = "data_processor" /\ node.op = "extract" /\ ~node.param /\ Failed("param")
     \/ /\ node.capability = "data_processor" /\ ~(node.op = "extract" /\ ~node.param)
        /\ Done([op |-> node.op, result |-> IF node.op = "set" THEN node.value ELSE field])
     \/ node.capability = "ensemble" /\ node.op = "vote" /\ ~node.param /\ Failed("param")
     \/ /\ node.capability = "ensemble" /\ node.op = "vote" /\ node.param
        /\ Done(Winner)
     \/ /\ node.capability = "ensemble" /\ node.op # "vote"
        /\ Done(IF node.op = "first" /\ members # <<>> THEN <<Head(members)>> ELSE members)
  /\ UNCHANGED <<calls, taken, branch, results>> /\ GivenUnchanged

Next ==
  \/ LlmCall \/ AgentStep \/ AgentGivesUp \/ Collect \/ AllCollected \/ Decide
  \/ \E i \in DOMAIN branch : BranchEnds(i)

Spec == Init /\ [][Next]_vars

-----------------------------------------------------------------------------
(* Properties.                                                             *)

TypeOK ==
  /\ at \in {"running", "done", "failed"}
  /\ calls \in 0..5 /\ taken \in 0..5
  /\ \A i \in DOMAIN branch : branch[i] \in {"running", "ok", "failed", "key"}

\* The estimate that a quota was checked against covers what a node without inline
\* workflows calls, and the secrets that a deployment names are all that its nodes
\* need, inline ones included; unless the environment or the node's configuration picks
\* another model or provider.
EstimateAndSecretsSuffice ==
  /\ node.capability \notin {"subgraph", "parallel"} => calls <= Estimate(<<node>>).calls
  /\ override = None /\ node.config = None /\ RequiredSecrets(<<node>>) \subseteq keys =>
       out.error # "key"

\* The results of the branches are in the order of the branches, whatever order they
\* ended in, and a node that is done has them all.
ResultsInOrder ==
  /\ \A k \in DOMAIN results : results[k] = k
  /\ at = "done" => \A i \in DOMAIN branch : branch[i] = "ok"

\* A vote does not depend on the order of the members.
VoteIgnoresOrder ==
  at = "done" /\ node.capability = "ensemble" /\ node.op = "vote" =>
    LET winner == out.value IN
    \A v \in Cast \ {winner} :
      \/ Count(v) < Count(winner)
      \/ Count(v) = Count(winner) /\ TextBefore(v, winner)
=============================================================================
