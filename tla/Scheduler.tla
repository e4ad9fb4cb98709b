----------------------------- MODULE Scheduler -----------------------------
(***************************************************************************)
(* The core's scheduler: a queue of nodes by priority, and one permit for  *)
(* each node, so that a node is run once at a time.  Nothing is ever taken *)
(* from the queue: a node keeps the priority that it came with first.      *)
(***************************************************************************)
EXTENDS Naturals

CONSTANTS
  Task,      \* nodes
  Need,      \* what may be asked for: [cpu, gpu |-> number, memory |-> megabytes]
  Absent,
  MaxCalls   \* bound: calls of schedule_task

VARIABLES
  first,     \* history: the need that each node was queued with, or Absent
  queue,     \* the priority of each node that is queued, or Absent
  running,   \* the nodes whose permit is out
  calls

vars == <<first, queue, running, calls>>

Init ==
  /\ first = [t \in Task |-> Absent] /\ queue = [t \in Task |-> Absent]
  /\ running = {} /\ calls = 0

\* A float that becomes a byte stops at 255.
Byte(n) == IF n > 255 THEN 255 ELSE n

\* MUTANT of MemoryFactor: the megabytes are cut to 16 bits before they are divided.
MemoryFactorShort(need) == (need.memory % 65536) \div 1024

\* Gigabytes, cut to 8 bits.
MemoryFactor(need) == (need.memory \div 1024) % 256

\* 2, and three tenths of each factor, as a whole number between 1 and 100.
Priority(need) ==
  LET sum == (20 + 3 * Byte((need.cpu + need.gpu) \div 2) + 3 * MemoryFactor(need)) \div 10
  IN IF sum > 100 THEN 100 ELSE sum

\* The node is queued when the future is made; the future takes the permit of the node
\* if nobody has it, or fails, or is dropped before it looks.
ScheduleTask(t, need) ==
  /\ calls < MaxCalls /\ calls' = calls + 1
  /\ queue' = [queue EXCEPT ![t] = IF @ = Absent THEN Priority(need) ELSE @]
  /\ first' = [first EXCEPT ![t] = IF @ = Absent THEN need ELSE @]
  /\ running' \in {running, running \cup {t}}

Release(t) == t \in running /\ running' = running \ {t} /\ UNCHANGED <<first, queue, calls>>

Next == \E t \in Task : Release(t) \/ \E need \in Need : ScheduleTask(t, need)

Spec == Init /\ [][Next]_vars

-----------------------------------------------------------------------------
(* Properties.                                                             *)

TypeOK ==
  /\ \A t \in Task : queue[t] # Absent => queue[t] \in 1..100
  /\ running \subseteq {t \in Task : queue[t] # Absent}

\* Of two nodes below 256 GB, the one that needs at least as much of everything comes
\* no later; beyond that the bytes of the gigabytes begin again.
MoreNeedsMoreFirst ==
  \A t, u \in Task :
    /\ first[t] # Absent /\ first[u] # Absent
    /\ \A k \in {"cpu", "gpu", "memory"} : first[t][k] <= first[u][k]
    /\ first[u].memory < 262144
    => queue[t] <= queue[u]
=============================================================================
