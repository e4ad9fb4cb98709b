----------------------------- MODULE MCServices -----------------------------
(***************************************************************************)
(* What is around the engines, each by itself: a behaviour is about the    *)
(* synthesis of a plan, the deployments of a name, the execution of one    *)
(* node, the core's engine, the core's scheduler, the planner of the       *)
(* runtime, the configuration of the command line, or its commands.  The   *)
(* services that a behaviour is not about rest.                            *)
(***************************************************************************)
EXTENDS Deployments

CONSTANTS
  Absent, Garbage,
  Plan, Steps, Allowed, MaxRepairs, MaxEdits,           \* Synthesis
  Node, Value, MaxMembers, MaxNesting,                  \* Handlers
  Workflow, Limit, MaxExecutions,                       \* CoreEngine
  Task, Need, MaxCalls,                                 \* Scheduler
  Needs, Capacity,                                      \* Planner, and Task
  Config, Default, MaxSaves, MaxUpdates                 \* HotReload

VARIABLES
  service,                                                        \* what the behaviour is about
  allowed, draft, attempt, feedback, plan, error, edits, scrubbed,          \* Synthesis
  node, keys, override, field, members, at, calls, taken, branch, results, out,   \* Handlers
  free, held, want, phase, listed, flow, todo, finished, outcome, tries,    \* CoreEngine
  first, queue, running, asked,                                             \* Scheduler
  executors, need, place, told, spare, gauge, seen, overlap,                \* Planner
  file, stage, watched, events, settings, env, loader, fresh, updater, missed, updated, jumbled,
  saves, updates,                                                           \* HotReload
  command, spec, agenda, done, text, exit, counts, saved                     \* CliRun

synthesisVars == <<allowed, draft, attempt, feedback, plan, error, edits, scrubbed>>
deploymentsVars == vars
handlersVars == <<node, keys, override, field, members, at, calls, taken, branch, results, out>>
engineVars == <<free, held, want, phase, listed, flow, todo, finished, outcome, tries>>
schedulerVars == <<first, queue, running, asked>>
plannerVars == <<executors, need, place, told, spare, gauge, seen, overlap>>
configVars ==
  <<file, stage, watched, events, settings, env, loader, fresh, updater, missed, updated, jumbled,
    saves, updates>>
cliVars == <<command, spec, agenda, done, text, exit, counts, saved>>
servicesVars ==
  <<service, synthesisVars, deploymentsVars, handlersVars, engineVars, schedulerVars,
    plannerVars, configVars, cliVars>>

-----------------------------------------------------------------------------
(* Plans and nodes.                                                        *)

Blank ==
  [id |-> "n", capability |-> "llm_call", deps |-> {}, edges |-> <<>>, model |-> None,
   steps |-> None, nested |-> <<>>, config |-> None, script |-> FALSE, param |-> TRUE,
   op |-> "eq", value |-> [num |-> 1], routes |-> [v \in {[str |-> "a"]} |-> "left"],
   default |-> "default"]

StepOf(id, capability, deps) ==
  [Blank EXCEPT !.id = id, !.capability = capability, !.deps = deps]

\* Plans of up to three steps: with dependencies on what is not there, on themselves and on
\* each other, with labels, with an id twice, with a capability that is unknown.
Firsts ==
  {[StepOf("a", capability, deps) EXCEPT !.edges = edges] :
     capability \in {"llm_call", "bogus"}, deps \in SUBSET {"b"},
     edges \in {<<>>, [t \in {"b"} |-> "left"], [t \in {"b", "c"} |-> "left"]}}
MCSteps == {StepOf("b", "router", deps) : deps \in SUBSET {"a", "b", "z"}}
Chains ==
  {<<StepOf("a", "llm_call", {}), StepOf("b", "llm_call", {"a"}), StepOf(id, "llm_call", deps)>> :
     id \in {"b", "c"}, deps \in SUBSET {"a", "b"}}
MCPlan == {<<>>} \cup {<<s>> : s \in Firsts} \cup {<<s, t>> : s \in Firsts, t \in MCSteps}
            \cup Chains
MCAllowed == {{}, {"llm_call"}}

\* Two specs, one within the second quota and one beyond it.
MCDeployable == {<<StepOf("a", "router", {})>>, <<[StepOf("a", "agent", {}) EXCEPT !.steps = 2]>>}
MCQuotas ==
  {[nodes |-> None, calls |-> None, external |-> TRUE], [nodes |-> 1, calls |-> 1, external |-> TRUE]}

Models == {None, "mock", "claude", "ollama"}
Inline == {<<[Blank EXCEPT !.model = model]>> : model \in {None, "claude"}}
Typed(capability) == [Blank EXCEPT !.capability = capability]
MCNode ==
  {[Blank EXCEPT !.model = model, !.config = config] : model \in Models, config \in {None, "claude"}}
  \cup {[Typed("agent") EXCEPT !.model = model, !.steps = steps, !.script = script] :
          model \in Models, steps \in {None, 0, 2}, script \in BOOLEAN}
  \cup {[Typed(capability) EXCEPT !.op = op, !.param = param] :
          capability \in {"router", "conditional"}, param \in BOOLEAN,
          op \in {"eq", "ne", "gt", "lt", "ge", "le", "bogus"}}
  \cup {[Typed("data_processor") EXCEPT !.op = op, !.param = param] :
          op \in {"extract", "set", "passthrough"}, param \in BOOLEAN}
  \cup {[Typed("ensemble") EXCEPT !.op = op, !.param = param] :
          op \in {"vote", "first", "all"}, param \in BOOLEAN}
  \cup {[Typed(capability) EXCEPT !.nested = nested, !.param = param] :
          capability \in {"subgraph", "parallel"}, param \in BOOLEAN,
          nested \in {<<i>> : i \in Inline}}
  \cup {[Typed("parallel") EXCEPT !.nested = <<i, j>>] : i \in Inline, j \in Inline}
  \cup {[Typed("subgraph") EXCEPT !.nested = <<<<[Typed("parallel") EXCEPT !.nested = <<i, j>>]>>>>] :
          i \in Inline, j \in Inline}

-----------------------------------------------------------------------------
(* Workflows and needs.                                                    *)

CoreNode(id, deps, cpu, gpu, memory) ==
  [id |-> id, deps |-> deps, named |-> TRUE,
   need |-> [cpu |-> cpu, gpu |-> gpu, memory |-> memory]]

\* Two nodes that need what the other holds, related or not, by dependencies, by edges or
\* by both; more memory than there are permits; more CPU than there is.
MCWorkflow ==
  {[nodes |-> <<CoreNode(1, <<>>, 2, 0, 1), CoreNode(2, deps, 1, 1, 0)>>, edges |-> edges] :
     deps \in {<<>>, <<1>>, <<2>>, <<3>>}, edges \in {{}, {<<1, 2>>}, {<<1, 2>>, <<2, 1>>}}}
  \cup {[nodes |-> nodes, edges |-> {}] :
          nodes \in {<<CoreNode(1, <<2>>, 1, 0, 1), CoreNode(2, <<>>, 1, 0, 0)>>,
                     <<CoreNode(1, <<2>>, 1, 0, 0), CoreNode(2, <<3, 1>>, 1, 0, 0),
                       CoreNode(3, <<2>>, 1, 0, 0)>>,
                     <<CoreNode(1, <<1>>, 1, 0, 0), CoreNode(1, <<>>, 1, 0, 0)>>,
                     <<CoreNode(1, <<>>, 1, 0, 2)>>, <<CoreNode(1, <<>>, 3, 0, 1)>>, <<>>}}

\* Of 32 gigabytes, 64 and 256, and the end of the scale.
MCNeed ==
  [cpu : {1, 700}, gpu : {0, 8}, memory : {32768, 65536, 262143, 262144}]

MCNeeds ==
  {[t \in Task |-> "cpu"], [t \in Task |-> "gpu"],
   [t \in Task |-> CASE t = "t1" -> "remote" [] t = "t2" -> "named" [] OTHER -> "cpu"]}

MCLimit == [cpu |-> 2, gpu |-> 1, memory |-> 2]
MCCapacity == [cpu |-> 2, gpu |-> 1, remote |-> 2]

\* What a field holds, and what the file of the configuration may say of its key.
MCValue == {Absent, [num |-> 1], [num |-> 2], [str |-> "a"], [str |-> "b"]}
MCConfig == [url : {"u1", "u2"}, key : {None, "k1"}]
MCDefault == [url |-> "u1", key |-> None]

-----------------------------------------------------------------------------
(* The services.                                                           *)

Make == INSTANCE Synthesis WITH at <- draft
Handle == INSTANCE Handlers
Core == INSTANCE CoreEngine WITH results <- finished, runs <- tries, MaxRuns <- MaxExecutions
Queue == INSTANCE Scheduler WITH calls <- asked
Gauges == INSTANCE Planner WITH at <- place, free <- spare
Reloads == INSTANCE HotReload WITH phase <- stage, config <- settings, raced <- jumbled
Commands == INSTANCE CliRun WITH todo <- agenda

\* The marks of a version that is not there and of a file that cannot be read are no deployments.
ASSUME MarksApart ==
  /\ None # Torn /\ MaxVersion \in Nat
  /\ \A v \in Version, s \in Deployable : [version |-> v, spec |-> s] \notin {None, Torn}

\* There are three semaphores, and a node asks for one of four things.
ASSUME KindsKnown ==
  /\ Capacity \in [{"cpu", "gpu", "remote"} -> Nat]
  /\ Needs \subseteq [Task -> {"cpu", "gpu", "remote", "named"}]

\* The defaults are a configuration; no file and no configuration are none.
ASSUME ConfigKnown == Default \in Config /\ Absent \notin Config /\ None \notin Config

\* A need is three numbers, and no number is none.
ASSUME NeedKnown ==
  /\ Need \subseteq [cpu : Nat, gpu : Nat, memory : Nat]
  /\ Absent \notin Need /\ Absent \notin Nat

\* What is not given is no number and no error.
ASSUME NoneIsNoNumber == None \notin Nat /\ None # "key"

\* The step budget of a node is a number or not given, and what is inline in a node is within
\* the bound.
ASSUME NodesKnown == MaxNesting \in Nat \ {0} /\ \A n \in Node : n.steps \in Nat \cup {None}

\* The nodes of a workflow and what a node depends on are sequences, and a need is three numbers.
IsWorkflow(w) ==
  /\ w.nodes \in Seq(ToSet(w.nodes))
  /\ \A i \in DOMAIN w.nodes :
       /\ w.nodes[i].deps \in Seq(ToSet(w.nodes[i].deps))
       /\ w.nodes[i].need \in [{"cpu", "gpu", "memory"} -> Nat]

ASSUME WorkflowsKnown ==
  /\ \A w \in Workflow : IsWorkflow(w)
  /\ Limit \in [{"cpu", "gpu", "memory"} -> Nat]

\* A plan is a sequence, and a step of one has what steps have.
IsPlan(p) ==
  /\ p \in Seq(ToSet(p))
  /\ \A i \in DOMAIN p : {"id", "capability", "deps", "edges", "model"} \subseteq DOMAIN p[i]

ASSUME PlansKnown == \A p \in Plan : IsPlan(p)

\* There are finitely many callers.
ASSUME CallersKnown == IsFiniteSet(Caller)

ServicesInit ==
  /\ service \in {"synthesis", "deployments", "handlers", "engine", "scheduler", "planner",
                 "config", "cli"}
  /\ Make!Init /\ (service = "synthesis" \/ allowed = {})
  /\ Init /\ (service = "deployments" \/ backend = "memory")
  /\ Handle!Init
  /\ service = "handlers" \/ (node = Blank /\ keys = {} /\ override = None)
  /\ Core!Init /\ Queue!Init
  /\ Gauges!Init
  /\ service = "planner" \/ (~executors /\ need = [t \in Task |-> "cpu"])
  /\ Reloads!Init /\ (service = "config" \/ file = Absent)
  /\ Commands!Init /\ (service = "cli" \/ (command = [name |-> "token"] /\ spec = "absent"))

Rest(vs) == UNCHANGED <<service, vs>>

ServicesNext ==
  \/ /\ service = "synthesis" /\ Make!Next
     /\ Rest(<<deploymentsVars, handlersVars, engineVars, schedulerVars,
               plannerVars, configVars, cliVars>>)
  \/ /\ service = "deployments" /\ Next
     /\ Rest(<<synthesisVars, handlersVars, engineVars, schedulerVars,
               plannerVars, configVars, cliVars>>)
  \/ /\ service = "handlers" /\ Handle!Next
     /\ Rest(<<synthesisVars, deploymentsVars, engineVars, schedulerVars,
               plannerVars, configVars, cliVars>>)
  \/ /\ service = "engine" /\ Core!Next
     /\ Rest(<<synthesisVars, deploymentsVars, handlersVars, schedulerVars,
               plannerVars, configVars, cliVars>>)
  \/ /\ service = "scheduler" /\ Queue!Next
     /\ Rest(<<synthesisVars, deploymentsVars, handlersVars, engineVars,
               plannerVars, configVars, cliVars>>)
  \/ /\ service = "planner" /\ Gauges!Next
     /\ Rest(<<synthesisVars, deploymentsVars, handlersVars, engineVars,
               schedulerVars, configVars, cliVars>>)
  \/ /\ service = "config" /\ Reloads!Next
     /\ Rest(<<synthesisVars, deploymentsVars, handlersVars, engineVars,
               schedulerVars, plannerVars, cliVars>>)
  \/ /\ service = "cli" /\ Commands!Next
     /\ Rest(<<synthesisVars, deploymentsVars, handlersVars, engineVars,
               schedulerVars, plannerVars, configVars>>)

ServicesSpec == ServicesInit /\ [][ServicesNext]_servicesVars

\* Only the core's engine has callers that wait for each other; its steps are taken.
FairServicesSpec == ServicesSpec /\ Core!Fairness

-----------------------------------------------------------------------------
(* Properties.                                                             *)

\* Synthesis: removing steps never makes an accepted plan invalid.
RemovalKeepsPlansValid == Make!RemovalKeepsPlansValid

\* Synthesis, as validate_plan is documented: nothing that has a cycle or a dangling edge is
\* accepted, or makes validation panic.
AcceptedIsWellFormed == Make!AcceptedIsWellFormed

\* Handlers: the estimate and the listed secrets cover what a node calls and needs.
EstimateAndSecretsSuffice == Handle!EstimateAndSecretsSuffice

\* CoreEngine: dependencies come before what depends on them.
DependenciesFirst == Core!DependenciesFirst

\* Resources: nobody waits for what nobody else holds.
WaitsForOthers == Core!WaitsForOthers

\* CoreEngine: every execution ends, whatever callers wait for.
ExecutionsEnd == Core!ExecutionsEnd

\* CoreEngine: no workflow with a dependency completes, or with more memory than a megabyte.
OnlyLooseNodesComplete == Core!OnlyLooseNodesComplete

\* Scheduler: what needs more comes no later, below 256 GB.
MoreNeedsMoreFirst == Queue!MoreNeedsMoreFirst

\* Planner: a gauge that no two tasks updated at a time is right, and no more tasks run than
\* there are permits.
GaugeRightUnlessRaced == Gauges!GaugeRightUnlessRaced

\* HotReload: the manager catches up with the file.
ReloadCatchesUp == Reloads!ReloadCatchesUp

\* HotReload: the environment says what the manager does, unless an update overlapped a reload.
EnvironmentFollows == Reloads!EnvironmentFollows

\* CliRun: a command that exits as misused has started nothing.
MisuseStartsNothing == Commands!MisuseStartsNothing
=============================================================================
