------------------------------ MODULE Planner ------------------------------
(***************************************************************************)
(* The runtime's planner: a node runs in a task of its own that holds one  *)
(* permit, of the CPU, of the GPU or of the remote executors, and gauges   *)
(* say how many are free.  The caller gives up when its time is up, but    *)
(* its task goes on.  The gauges are read and written beside the           *)
(* semaphores, by any of the tasks.                                        *)
(***************************************************************************)
EXTENDS Naturals, FiniteSets

CONSTANTS
  Task,        \* nodes that are run, each once
  Needs,       \* what the nodes may ask for: functions to "cpu", "gpu", "remote" or "named",
               \* which is a remote executor that is not configured
  Capacity     \* permits of each kind

VARIABLES
  executors,   \* whether a remote executor is configured
  need,        \* what the node of each task asks for
  at,          \* where each task is
  told,        \* what its caller was told
  free,        \* permits of each semaphore
  gauge,       \* what the gauge of each says is free, and of how many
  seen,        \* the number that a task read and has not written yet
  overlap      \* history: the kinds whose gauge two tasks were updating at a time

vars == <<executors, need, at, told, free, gauge, seen, overlap>>

Kinds == DOMAIN Capacity

Init ==
  /\ executors \in BOOLEAN
  /\ need \in Needs
  /\ at = [t \in Task |-> "new"] /\ told = [t \in Task |-> "nothing"]
  /\ free = Capacity
  /\ gauge = [k \in Kinds |-> [free |-> Capacity[k], total |-> Capacity[k]]]
  /\ seen = [t \in Task |-> 0]
  /\ overlap = {}

\* Where there are remote executors, nodes that do not ask for a GPU go to them.
Kind(t) ==
  CASE need[t] = "cpu" /\ executors -> "remote"
    [] need[t] = "named" -> "cpu"
    [] OTHER -> need[t]

\* Between a look at the semaphore, or a change of it, and what the gauge is told.
Updating(t) == at[t] \in {"looked", "taken", "dropping", "written"}

Step(t, from, to) ==
  /\ at[t] = from
  /\ at' = [at EXCEPT ![t] = to]
  /\ overlap' = overlap \cup
       {k \in Kinds : Cardinality({u \in Task : Kind(u) = k /\ Updating(u)'}) > 1}
  /\ UNCHANGED <<executors, need>>

Write(t, n, total) == gauge' = [gauge EXCEPT ![Kind(t)] = [free |-> n, total |-> total]]

-----------------------------------------------------------------------------
(* acquire_resources.                                                      *)

Look(t) ==
  /\ Step(t, "new", "looked")
  /\ seen' = [seen EXCEPT ![t] = free[Kind(t)]]
  /\ UNCHANGED <<told, free, gauge>>

\* What is free is also written as the total.
WriteBefore(t) ==
  /\ Step(t, "looked", "waiting")
  /\ Write(t, seen[t], seen[t])
  /\ UNCHANGED <<told, free, seen>>

Take(t) ==
  /\ free[Kind(t)] > 0
  /\ Step(t, "waiting", "taken")
  /\ free' = [free EXCEPT ![Kind(t)] = @ - 1]
  /\ UNCHANGED <<told, gauge, seen>>

WaitedTooLong(t) ==
  /\ Step(t, "waiting", "over")
  /\ told' = [told EXCEPT ![t] = "timeout"]
  /\ UNCHANGED <<free, gauge, seen>>

\* The totals of the GPU and of the remote executors are written out in the code; that
\* of the CPU is what is free and one more.
TotalAfter(t) == IF Kind(t) = "cpu" THEN free["cpu"] + 1 ELSE Capacity[Kind(t)]

WriteAfter(t) ==
  /\ Step(t, "taken", "running")
  /\ Write(t, free[Kind(t)], TotalAfter(t))
  /\ UNCHANGED <<told, free, seen>>

-----------------------------------------------------------------------------
(* execute_with_resources.                                                 *)

\* The caller's time is up: the handle is dropped, which leaves the task alone.
GiveUp(t) ==
  /\ at[t] \in {"running", "dropping", "written"} /\ told[t] = "nothing"
  /\ told' = [told EXCEPT ![t] = "timeout"]
  /\ UNCHANGED <<executors, need, at, free, gauge, seen, overlap>>

\* The task is over, with a result, an error or a panic, and drops its permit: the gauge
\* is read, one more is written, and then the permit goes back.
DropLook(t) ==
  /\ Step(t, "running", "dropping")
  /\ seen' = [seen EXCEPT ![t] = gauge[Kind(t)].free]
  /\ UNCHANGED <<told, free, gauge>>

\* MUTANT of OneMore: the number is written back.
OneMoreForgotten(t) == seen[t]

OneMore(t) == seen[t] + 1

DropWrite(t) ==
  /\ at[t] = "dropping"
  /\ Step(t, "dropping", "written")
  /\ Write(t, OneMore(t), gauge[Kind(t)].total)
  /\ UNCHANGED <<told, free, seen>>

DropPermit(t) ==
  /\ Step(t, "written", "over")
  /\ free' = [free EXCEPT ![Kind(t)] = @ + 1]
  /\ told' = [told EXCEPT ![t] = IF @ = "nothing" THEN "result" ELSE @]
  /\ UNCHANGED <<gauge, seen>>

Next == \E t \in Task :
  Look(t) \/ WriteBefore(t) \/ Take(t) \/ WaitedTooLong(t) \/ WriteAfter(t) \/ GiveUp(t)
    \/ DropLook(t) \/ DropWrite(t) \/ DropPermit(t)

Spec == Init /\ [][Next]_vars

-----------------------------------------------------------------------------
(* Properties.                                                             *)

TypeOK ==
  /\ at \in [Task -> {"new", "looked", "waiting", "taken", "running", "dropping", "written", "over"}]
  /\ told \in [Task -> {"nothing", "result", "timeout"}]
  /\ \A k \in Kinds : free[k] \in 0..Capacity[k] /\ gauge[k].free \in Nat

\* However many callers gave up, the tasks that run are as many as there are permits at
\* most, the ones that nobody waits for included.
NeverOversubscribed ==
  \A k \in Kinds :
    Cardinality({t \in Task : Kind(t) = k /\ at[t] \in {"taken", "running", "dropping", "written"}})
      <= Capacity[k]

\* When no update of a gauge is under way and no two ever were at a time, the gauge is
\* right: what goes wrong with it needs two tasks at once, and then stays wrong until
\* the next one asks.  Whatever the gauges say, the permits bound the tasks.
GaugeRightUnlessRaced ==
  /\ NeverOversubscribed
  /\ \A k \in Kinds \ overlap :
       (\A t \in Task : Kind(t) = k => ~Updating(t)) => gauge[k].free = free[k]
=============================================================================
