------------------------- MODULE ConcEngine_proofs -------------------------
(***************************************************************************)
(* The concurrent engine, for every set of workflows, handlers and         *)
(* interleavings of tasks: no node runs twice or before its turn, the      *)
(* countdown of in-edges is exact, no more tasks than slots, none that     *)
(* outlives an error, the sequential engine's choice of branches, and the  *)
(* refinement of DagRun.                                                   *)
(***************************************************************************)
EXTENDS ConcEngine, FiniteSetTheorems, TLAPS

\* What the theorems assume where they say so: no node is called like the run input.
NamesApart == InputKey \notin Node

LEMMA SmallestOf ==
  ASSUME NEW T \in SUBSET Nat, T # {}
  PROVE  \E m \in T : \A k \in T : m <= k
<1>1. PICK m \in T : \A k \in T : <<k, m>> \notin OpToRel(<, Nat)
  BY WFMin, NatLessThanWellFounded
<1>2. \A k \in T : ~(k < m)
  BY <1>1, Zenon DEF OpToRel
<1>3. m \in T
  BY <1>1, Zenon
<1>4. \A k \in T : m <= k
  BY <1>2, <1>3, SMT
<1> QED
  BY <1>3, <1>4

-----------------------------------------------------------------------------
(* Workflows, listings and counts.                                          *)

LEMMA WorkflowFacts ==
  ASSUME TypeOK
  PROVE  /\ wf.node \subseteq Node /\ wf.edge \subseteq Edge
         /\ \A n : Preds(wf, n) \subseteq Node
         /\ \A n : Incoming(wf, n) \subseteq wf.edge
         /\ \A n : \A x \in Incoming(wf, n) : x.src \in Preds(wf, n)
         /\ \A n : Incoming(wf, n) = {} <=> Preds(wf, n) = {}
         /\ \A x \in wf.edge : x.src \in wf.node /\ x.dst \in wf.node
         /\ \A n \in wf.node : Preds(wf, n) \subseteq Ordered(wf) => n \in Ordered(wf)
         /\ Ordered(wf) \subseteq wf.node
         /\ wf.concurrency \in Nat
<1>1. IsWorkflow(wf)
  BY WorkflowsAssumption DEF TypeOK
<1>2. wf \in Workflow /\ IsTopo(wf)
  BY <1>1 DEF IsWorkflow
<1>3. wf.node \subseteq Node /\ wf.edge \subseteq Edge /\ wf.concurrency \in Nat
  BY <1>2 DEF Workflow
<1>4. \A n : Preds(wf, n) \subseteq Node
  BY <1>3 DEF Preds, Incoming, Edge
<1>5. /\ \A n : Incoming(wf, n) \subseteq wf.edge
      /\ \A n : \A x \in Incoming(wf, n) : x.src \in Preds(wf, n)
      /\ \A n : Incoming(wf, n) = {} <=> Preds(wf, n) = {}
  BY DEF Preds, Incoming
<1> QED
  BY <1>1, <1>2, <1>3, <1>4, <1>5 DEF IsWorkflow, IsTopo

\* The elements of a sequence.
Elements(q) == {q[i] : i \in DOMAIN q}

LEMMA ListingFacts ==
  ASSUME NEW S \in SUBSET Node, NEW l \in Listings(S)
  PROVE  /\ l \in Seq(Node) /\ Elements(l) = S
         /\ \A i, j \in DOMAIN l : l[i] = l[j] => i = j
<1>1. IsFiniteSet(S)
  BY FiniteAssumption, FS_Subset
<1>2. Cardinality(S) \in Nat
  BY <1>1, FS_CardinalityType
<1> DEFINE D == 1..Cardinality(S)
<1>3. l \in [D -> S] /\ \A i, j \in D : l[i] = l[j] => i = j
  BY DEF Listings
<1>4. IsFiniteSet(D) /\ Cardinality(D) = Cardinality(S)
  BY <1>2, FS_Interval
<1>5. l \in Injection(D, S)
  BY <1>3 DEF Injection, IsInjective
<1>6. l \in Surjection(D, S)
  BY <1>1, <1>4, <1>5, FS_Injection
<1>7. Elements(l) = S
  BY <1>3, <1>6 DEF Surjection, Elements
<1> QED
  BY <1>2, <1>3, <1>7

LEMMA ConcatFacts ==
  ASSUME NEW q \in Seq(Node), NEW l \in Seq(Node),
         \A i, j \in DOMAIN q : q[i] = q[j] => i = j,
         \A i, j \in DOMAIN l : l[i] = l[j] => i = j,
         Elements(q) \cap Elements(l) = {}
  PROVE  /\ q \o l \in Seq(Node) /\ Elements(q \o l) = Elements(q) \cup Elements(l)
         /\ \A i, j \in DOMAIN (q \o l) : (q \o l)[i] = (q \o l)[j] => i = j
<1> DEFINE c == q \o l
<1>1. /\ c \in Seq(Node) /\ Len(c) = Len(q) + Len(l)
      /\ \A i \in 1..Len(c) : c[i] = IF i <= Len(q) THEN q[i] ELSE l[i - Len(q)]
      /\ DOMAIN c = 1..Len(c) /\ DOMAIN q = 1..Len(q) /\ DOMAIN l = 1..Len(l)
      /\ Len(q) \in Nat /\ Len(l) \in Nat
  OBVIOUS
<1> HIDE DEF c
<1>2. \A i \in 1..Len(c) : \/ i \in DOMAIN q /\ c[i] = q[i]
                           \/ (i - Len(q)) \in DOMAIN l /\ c[i] = l[i - Len(q)]
  BY <1>1
<1>3. Elements(c) \subseteq Elements(q) \cup Elements(l)
  <2> SUFFICES ASSUME NEW i \in 1..Len(c)
               PROVE  c[i] \in Elements(q) \cup Elements(l)
    BY <1>1 DEF Elements
  <2> QED
    BY <1>2 DEF Elements
<1>4. Elements(q) \subseteq Elements(c)
  <2>1. \A i \in DOMAIN q : i \in 1..Len(c) /\ c[i] = q[i]
    BY <1>1
  <2> QED
    BY <1>1, <2>1 DEF Elements
<1>5. Elements(l) \subseteq Elements(c)
  <2>1. \A i \in DOMAIN l : (i + Len(q)) \in 1..Len(c) /\ c[i + Len(q)] = l[i]
    BY <1>1
  <2> QED
    BY <1>1, <2>1 DEF Elements
<1>6. ASSUME NEW i \in DOMAIN c, NEW j \in DOMAIN c, c[i] = c[j]
      PROVE  i = j
  <2>1. CASE i <= Len(q) /\ j <= Len(q)
    BY <1>1, <1>6, <2>1
  <2>2. CASE i > Len(q) /\ j > Len(q)
    <3>1. i - Len(q) \in DOMAIN l /\ j - Len(q) \in DOMAIN l
      BY <1>1, <1>6, <2>2
    <3>2. l[i - Len(q)] = l[j - Len(q)]
      BY <1>1, <1>6, <2>2
    <3>3. i - Len(q) = j - Len(q)
      BY <3>1, <3>2
    <3> QED
      BY <1>1, <3>3
  <2>3. ASSUME NEW a \in DOMAIN c, NEW b \in DOMAIN c, a <= Len(q), b > Len(q)
        PROVE  c[a] # c[b]
    <3>1. a \in DOMAIN q /\ c[a] = q[a] /\ (b - Len(q)) \in DOMAIN l /\ c[b] = l[b - Len(q)]
      BY <1>1, <2>3
    <3> QED
      BY <3>1 DEF Elements
  <2> QED
    BY <1>1, <1>6, <2>1, <2>2, <2>3
<1> QED
  BY <1>1, <1>3, <1>4, <1>5, <1>6 DEF c

LEMMA TailFacts ==
  ASSUME NEW q \in Seq(Node), q # <<>>,
         \A i, j \in DOMAIN q : q[i] = q[j] => i = j
  PROVE  /\ Head(q) \in Elements(q) /\ Head(q) \in Node
         /\ Tail(q) \in Seq(Node)
         /\ Elements(Tail(q)) = Elements(q) \ {Head(q)}
         /\ \A i, j \in DOMAIN Tail(q) : Tail(q)[i] = Tail(q)[j] => i = j
<1> DEFINE t == Tail(q)
<1>1. /\ t \in Seq(Node) /\ Len(q) \in Nat \ {0} /\ Len(t) = Len(q) - 1
      /\ DOMAIN q = 1..Len(q) /\ DOMAIN t = 1..(Len(q) - 1)
      /\ \A i \in DOMAIN t : t[i] = q[i + 1]
      /\ Head(q) = q[1] /\ Head(q) \in Node
  OBVIOUS
<1> HIDE DEF t
<1>2. Elements(t) = Elements(q) \ {Head(q)}
  <2>1. \A i \in DOMAIN t : (i + 1) \in DOMAIN q /\ i + 1 # 1
    BY <1>1
  <2>2. \A i \in DOMAIN q : i # 1 => (i - 1) \in DOMAIN t /\ t[i - 1] = q[i]
    BY <1>1
  <2>3. 1 \in DOMAIN q
    BY <1>1
  <2>4. Elements(t) \subseteq Elements(q) \ {Head(q)}
    BY <1>1, <2>1, <2>3 DEF Elements
  <2>5. Elements(q) \ {Head(q)} \subseteq Elements(t)
    BY <1>1, <2>2 DEF Elements
  <2> QED
    BY <2>4, <2>5
<1>3. \A i, j \in DOMAIN t : t[i] = t[j] => i = j
  <2> SUFFICES ASSUME NEW i \in DOMAIN t, NEW j \in DOMAIN t, t[i] = t[j]
               PROVE  i = j
    OBVIOUS
  <2>1. (i + 1) \in DOMAIN q /\ (j + 1) \in DOMAIN q /\ q[i + 1] = q[j + 1]
    BY <1>1
  <2>2. i + 1 = j + 1
    BY <2>1
  <2> QED
    BY <1>1, <2>2
<1>4. Head(q) \in Elements(q)
  BY <1>1 DEF Elements
<1> QED
  BY <1>1, <1>2, <1>3, <1>4 DEF t

\* The in-edges of a node whose source is not resolved.
Waiting(n) == {x \in Incoming(wf, n) : x.src \notin Resolved}

LEMMA CountFacts ==
  ASSUME TypeOK, NEW n, NEW m
  PROVE  /\ IsFiniteSet(Incoming(wf, n)) /\ IsFiniteSet(Waiting(n))
         /\ InDegree(n) \in Nat /\ EdgesBetween(m, n) \in Nat /\ Cardinality(Waiting(n)) \in Nat
         /\ InDegree(n) = 0 <=> Incoming(wf, n) = {}
         /\ Cardinality(Waiting(n)) = 0 <=> Waiting(n) = {}
         /\ EdgesBetween(m, n) = 0 <=> m \notin Preds(wf, n)
<1>1. IsFiniteSet(wf.edge)
  BY WorkflowFacts, FiniteAssumption, FS_Subset
<1> DEFINE between == {x \in wf.edge : x.src = m /\ x.dst = n}
<1>2. IsFiniteSet(Incoming(wf, n)) /\ IsFiniteSet(Waiting(n)) /\ IsFiniteSet(between)
  <2>1. Incoming(wf, n) \in SUBSET wf.edge /\ Waiting(n) \in SUBSET wf.edge /\ between \in SUBSET wf.edge
    BY DEF Incoming, Waiting
  <2> QED
    BY <1>1, <2>1, FS_Subset
<1>3. between = {} <=> m \notin Preds(wf, n)
  BY DEF Preds, Incoming
<1> QED
  BY <1>2, <1>3, FS_CardinalityType, FS_EmptySet DEF InDegree, EdgesBetween

\* Resolving m takes as many in-edges from n as there are edges between them.
LEMMA CountsDown ==
  ASSUME TypeOK, NEW m, m \notin Resolved, NEW n, NEW rest,
         rest = {x \in Incoming(wf, n) : x.src \notin Resolved \cup {m}}
  PROVE  Cardinality(rest) = Cardinality(Waiting(n)) - EdgesBetween(m, n)
<1> DEFINE between == {x \in wf.edge : x.src = m /\ x.dst = n}
<1>1. IsFiniteSet(Waiting(n))
  BY CountFacts
<1>2. rest = Waiting(n) \ between /\ Waiting(n) \cap between = between
  BY DEF Waiting, Incoming
<1> QED
  BY <1>1, <1>2, FS_Difference DEF EdgesBetween

LEMMA InFlightFinite == InFlight \in SUBSET Node /\ IsFiniteSet(InFlight) /\ Cardinality(InFlight) \in Nat
<1>1. InFlight \in SUBSET Node
  BY DEF InFlight
<1> QED
  BY <1>1, FiniteAssumption, FS_Subset, FS_CardinalityType

LEMMA SlotsType ==
  ASSUME TypeOK
  PROVE  Slots \in Nat /\ Slots > 0
BY WorkflowFacts DEF Slots

\* A node's activity depends on its predecessors only.
LEMMA ActiveSame ==
  ASSUME TypeOK, NEW n, NEW a, NEW o, NEW b, NEW p,
         \A k \in Preds(wf, n) : (k \in a <=> k \in b) /\ o[k] = p[k]
  PROVE  IsActive(wf, n, a, o) <=> IsActive(wf, n, b, p)
BY WorkflowFacts DEF IsActive

-----------------------------------------------------------------------------
(* The inductive invariant.                                                 *)

\* The nodes the traversal has come to.
Reached == Queued \cup act \cup Resolved

QueueInv ==
  /\ Reached \subseteq Ordered(wf)
  /\ \A n \in Reached : Preds(wf, n) \subseteq Resolved
  /\ \A i, j \in DOMAIN ready : ready[i] = ready[j] => i = j
  /\ Queued \cap (act \cup Resolved) = {}

CountInv ==
  pc # "start" => \A n \in wf.node :
    /\ pending[n] = Cardinality(Waiting(n))
    /\ pending[n] = 0 => n \in Reached

TaskInv ==
  /\ \A n \in Node : starts[n] = IF n \in act THEN 1 ELSE 0
  /\ \A n \in Node : task[n] = "none" <=> n \notin act
  /\ InFlight \cap Resolved = {}
  /\ \A n \in Node : task[n] = "ok" => val[n] \in HandlerOutput
  /\ pc \in {"fill", "await", "finish", "done"} => act \subseteq InFlight \cup Resolved

\* A node that has been reached is active as its predecessors' results say.
BranchInv ==
  \A n \in act \cup Resolved : n \in act <=> IsActive(wf, n, act, out)

\* What handlers spawned and is at work: of this attempt of a node whose task has not
\* answered, or of an earlier one.
WorkInv ==
  \A b \in work :
    /\ b \in Spawned(b.node, b.attempt) /\ b.node \in act
    /\ b.attempt <= try[b.node]
    /\ b.attempt = try[b.node] => b.node \notin Resolved /\ task[b.node] \notin {"ok", "backoff"}

CallInv ==
  /\ pc = "start" => Resolved = {} /\ act = {} /\ ready = <<>> /\ record = "none"
  /\ pc \in {"fill", "await", "failRun", "finish"} => record = "running"
  /\ pc \in {"shutdown", "failed", "dropped"} => record = "failed"
  /\ pc = "done" => record = "finished"
  /\ pc \in {"finish", "done"} => ready = <<>> /\ InFlight = {}
  /\ pc = "failed" => InFlight = {}
  /\ Cardinality(InFlight) <= Slots

Inv ==
  /\ TypeOK
  /\ QueueInv /\ CountInv /\ TaskInv /\ BranchInv /\ CallInv /\ WorkInv

\* A step that leaves the results, the active set and the queue alone.
LEMMA QueueStays ==
  ASSUME Inv, wf' = wf, act' = act, out' = out, ready' = ready, pending' = pending,
         pc = "start" => pc' = "start"
  PROVE  QueueInv' /\ CountInv' /\ BranchInv' /\ Resolved' = Resolved /\ Queued' = Queued
<1>1. Resolved' = Resolved /\ Queued' = Queued
  BY DEF Resolved, Queued, Recorded
<1>2. Reached' = Reached /\ \A n \in Node : Waiting(n)' = Waiting(n)
  BY <1>1 DEF Reached, Waiting
<1>3. QueueInv'
  BY <1>1, <1>2 DEF Inv, QueueInv, Ordered
<1>4. wf.node \subseteq Node
  BY WorkflowFacts DEF Inv
<1>5. CountInv'
  BY <1>2, <1>4 DEF Inv, CountInv
<1>6. BranchInv'
  BY <1>1 DEF Inv, BranchInv
<1> QED
  BY <1>1, <1>3, <1>5, <1>6

\* A step that starts no task.
LEMMA FewerInFlight ==
  ASSUME Inv, wf' = wf, InFlight' \subseteq InFlight
  PROVE  Cardinality(InFlight)' <= Slots'
<1>1. Cardinality(InFlight') <= Cardinality(InFlight)
  BY InFlightFinite, FS_Subset
<1>2. Cardinality(InFlight') \in Nat
  <2>1. IsFiniteSet(InFlight')
    BY InFlightFinite, FS_Subset
  <2> QED
    BY <2>1, FS_CardinalityType
<1>3. Slots' = Slots
  BY DEF Slots
<1> QED
  BY <1>1, <1>2, <1>3, InFlightFinite, SlotsType DEF Inv, CallInv

LEMMA CountedDown ==
  ASSUME NEW a \in Nat, NEW b \in Nat, a - b \in Nat
  PROVE  (IF a > b THEN a - b ELSE 0) = a - b
OBVIOUS

\* A node that was reached gets its result: the nodes that waited for it alone are
\* queued.
LEMMA Resolving ==
  ASSUME Inv, NamesApart, pc # "start",
         NEW n \in Reached \ Resolved, n \in act <=> IsActive(wf, n, act, out),
         NEW q \in Seq(Node), \A i, j \in DOMAIN q : q[i] = q[j] => i = j,
         Elements(q) = Queued \ {n},
         Resolve(n, q), wf' = wf, act' = act,
         NEW v \in Output, out' = [out EXCEPT ![n] = v]
  PROVE  /\ Resolved' = Resolved \cup {n}
         /\ QueueInv' /\ CountInv' /\ BranchInv'
         /\ pending' \in [Node -> Nat] /\ ready' \in Seq(Node) /\ out' \in Results
<1>1. TypeOK /\ n \in Node /\ n \in wf.node /\ n \in Key /\ n # InputKey /\ v # Absent
  BY WorkflowFacts, AbsentAssumption DEF Inv, QueueInv, NamesApart, Key
<1>2. /\ \A k \in Key : out'[k] = IF k = n THEN v ELSE out[k]
      /\ out' \in Results
  BY <1>1 DEF TypeOK, Results
<1>3. Resolved' = Resolved \cup {n}
  BY <1>1, <1>2 DEF Resolved, Recorded
<1>4. \A s \in Node : EdgesBetween(n, s) \in Nat /\ pending[s] \in Nat
  BY <1>1, CountFacts DEF TypeOK
<1>5. /\ pending' \in [Node -> Nat]
      /\ \A s \in Node : pending'[s] =
           IF pending[s] > EdgesBetween(n, s) THEN pending[s] - EdgesBetween(n, s) ELSE 0
  BY <1>4 DEF Resolve
<1>6. \A s : Waiting(s)' = {x \in Incoming(wf, s) : x.src \notin Resolved \cup {n}}
  BY <1>3 DEF Waiting
<1>7. ASSUME NEW s \in wf.node
      PROVE  /\ pending'[s] = Cardinality(Waiting(s)')
             /\ pending'[s] = pending[s] - EdgesBetween(n, s)
             /\ pending'[s] = 0 <=> Waiting(s)' = {}
  <2>1. s \in Node
    BY <1>1, WorkflowFacts
  <2>2. Cardinality(Waiting(s)') = Cardinality(Waiting(s)) - EdgesBetween(n, s)
    BY <1>1, <1>6, CountsDown
  <2>3. pending[s] = Cardinality(Waiting(s))
    BY DEF Inv, CountInv
  <2>4. IsFiniteSet(Waiting(s)')
    <3>1. Waiting(s)' \in SUBSET Incoming(wf, s)
      BY <1>6
    <3> QED
      BY <1>1, <3>1, CountFacts, FS_Subset
  <2>5. Cardinality(Waiting(s)') \in Nat /\ (Cardinality(Waiting(s)') = 0 <=> Waiting(s)' = {})
    BY <2>4, FS_CardinalityType, FS_EmptySet
  <2>6. pending[s] - EdgesBetween(n, s) \in Nat
    BY <2>2, <2>3, <2>5
  <2>7. pending'[s] = pending[s] - EdgesBetween(n, s)
    BY <1>4, <1>5, <2>1, <2>6, CountedDown
  <2> QED
    BY <2>2, <2>3, <2>5, <2>7
<1> DEFINE new == {s \in wf.node : EdgesBetween(n, s) > 0 /\ pending'[s] = 0}
<1>8. PICK l \in Listings(new) : ready' = q \o l
  BY DEF Resolve
<1>9. new \in SUBSET Node
  BY <1>1, WorkflowFacts
<1>10. /\ l \in Seq(Node) /\ Elements(l) = new
       /\ \A i, j \in DOMAIN l : l[i] = l[j] => i = j
  BY <1>9, ListingFacts
<1>11. \A s \in new : s \notin Reached \cup {n} /\ Preds(wf, s) \subseteq Resolved \cup {n}
  <2> SUFFICES ASSUME NEW s \in new
               PROVE  s \notin Reached \cup {n} /\ Preds(wf, s) \subseteq Resolved \cup {n}
    OBVIOUS
  <2>1. s \in Node /\ EdgesBetween(n, s) # 0
    BY <1>4, <1>9
  <2>2. n \in Preds(wf, s)
    BY <1>1, <2>1, CountFacts
  <2>3. s \notin Reached
    BY <2>2 DEF Inv, QueueInv
  <2>4. Waiting(s)' = {}
    BY <1>7
  <2>5. Preds(wf, s) \subseteq Resolved \cup {n}
    BY <1>6, <2>4 DEF Preds
  <2> QED
    BY <2>3, <2>5
<1>12. Elements(q) \cap Elements(l) = {}
  BY <1>10, <1>11 DEF Reached
<1>13. /\ q \o l \in Seq(Node) /\ Elements(q \o l) = Elements(q) \cup Elements(l)
       /\ \A i, j \in DOMAIN (q \o l) : (q \o l)[i] = (q \o l)[j] => i = j
  BY <1>10, <1>12, ConcatFacts
<1>14. Queued' = (Queued \ {n}) \cup new
  <2>1. Queued' = Elements(q \o l)
    BY <1>8 DEF Queued, Elements
  <2> QED
    BY <1>10, <1>13, <2>1
<1>15. Reached' = Reached \cup new
  BY <1>3, <1>14 DEF Reached
<1>16. QueueInv'
  <2>1. Reached' \subseteq Ordered(wf)
    <3>1. ASSUME NEW s \in new
          PROVE  s \in Ordered(wf)
      <4>1. Preds(wf, s) \subseteq Ordered(wf)
        BY <1>11 DEF Inv, QueueInv, Reached
      <4> QED
        BY <1>1, <4>1, WorkflowFacts
    <3> QED
      BY <1>15, <3>1 DEF Inv, QueueInv
  <2>2. \A m \in Reached' : Preds(wf, m) \subseteq Resolved'
    BY <1>3, <1>11, <1>15 DEF Inv, QueueInv
  <2>3. \A i, j \in DOMAIN ready' : ready'[i] = ready'[j] => i = j
    BY <1>8, <1>13
  <2>4. Queued' \cap (act' \cup Resolved') = {}
    BY <1>3, <1>11, <1>14 DEF Inv, QueueInv, Reached
  <2>5. Ordered(wf)' = Ordered(wf) /\ \A m : Preds(wf, m)' = Preds(wf, m)
    OBVIOUS
  <2> QED
    BY <2>1, <2>2, <2>3, <2>4, <2>5 DEF QueueInv
<1>17. CountInv'
  <2>1. ASSUME NEW s \in wf.node, pending'[s] = 0
        PROVE  s \in Reached'
    <3>1. CASE EdgesBetween(n, s) > 0
      BY <1>15, <2>1, <3>1
    <3>2. CASE ~(EdgesBetween(n, s) > 0)
      <4>1. s \in Node /\ EdgesBetween(n, s) = 0
        BY <1>1, <1>4, <3>2, WorkflowFacts
      <4>2. pending[s] - 0 = 0 /\ pending[s] \in Nat
        BY <1>4, <1>7, <2>1, <4>1
      <4>3. pending[s] = 0
        BY <4>2
      <4> QED
        BY <1>15, <4>3 DEF Inv, CountInv
    <3> QED
      BY <3>1, <3>2
  <2>2. \A s \in wf.node : pending'[s] = Cardinality(Waiting(s))'
    BY <1>7
  <2> QED
    BY <2>1, <2>2 DEF CountInv
<1>18. BranchInv'
  <2>1. ASSUME NEW m \in act \cup Resolved \cup {n}
        PROVE  m \in act <=> IsActive(wf, m, act, out')
    <3>1. m \in Reached /\ Preds(wf, m) \subseteq Resolved
      BY <2>1 DEF Inv, QueueInv, Reached
    <3>2. \A p \in Preds(wf, m) : (p \in act <=> p \in act) /\ out'[p] = out[p]
      BY <1>2, <3>1 DEF Resolved, Recorded
    <3>3. IsActive(wf, m, act, out') <=> IsActive(wf, m, act, out)
      BY <1>1, <3>2, ActiveSame
    <3> QED
      BY <2>1, <3>3 DEF Inv, BranchInv
  <2> QED
    BY <1>3, <2>1 DEF BranchInv, IsActive
<1> QED
  BY <1>2, <1>3, <1>5, <1>8, <1>13, <1>16, <1>17, <1>18

LEMMA InitInv == Init => Inv
<1> SUFFICES ASSUME Init PROVE Inv
  OBVIOUS
<1>1. TypeOK
  BY DEF Init, TypeOK, PC, TaskState, Results
<1>2. Resolved = {} /\ Queued = {} /\ InFlight = {} /\ DOMAIN ready = {}
  BY DEF Init, Resolved, Recorded, Queued, InFlight
<1>3. Cardinality(InFlight) <= Slots
  BY <1>1, <1>2, SlotsType, FS_EmptySet
<1> QED
  BY <1>1, <1>2, <1>3
  DEF Init, Inv, QueueInv, CountInv, TaskInv, BranchInv, CallInv, WorkInv, Reached

WorkType == work \in SUBSET [node : Node, branch : Branch, attempt : Nat]

LEMMA SpawnedFacts ==
  ASSUME NEW n \in Node, NEW t \in Nat
  PROVE  /\ Spawned(n, t) \in SUBSET [node : Node, branch : Branch, attempt : Nat]
         /\ \A b \in Spawned(n, t) : b.node = n /\ b.attempt = t
BY BranchesAssumption DEF Spawned

\* A step that spawns nothing and counts no attempt.
LEMMA WorkStays ==
  ASSUME Inv, work' \subseteq work, act \subseteq act', try' = try,
         \A n \in act : n \in Resolved' => n \in Resolved \/ task[n] = "ok",
         \A n \in act : task'[n] \in {"ok", "backoff"} => task[n] \in {"ok", "backoff"}
  PROVE  WorkType' /\ WorkInv'
<1>1. WorkType
  BY DEF Inv, TypeOK, WorkType
<1>2. ASSUME NEW b \in work'
      PROVE  /\ b \in Spawned(b.node, b.attempt)' /\ b.node \in act'
             /\ b.attempt <= try'[b.node]
             /\ b.attempt = try'[b.node] =>
                  b.node \notin Resolved' /\ task'[b.node] \notin {"ok", "backoff"}
  BY <1>2 DEF Inv, WorkInv, Spawned
<1> QED
  BY <1>1, <1>2 DEF WorkType, WorkInv

\* A task is set running and its handler spawns branches.
LEMMA WorkSpawned ==
  ASSUME Inv, NEW n \in Node,
         work' = work \cup Spawned(n, try[n]), try' = try, out' = out, act' = act \cup {n},
         n \notin Resolved, task' = [task EXCEPT ![n] = "running"]
  PROVE  WorkType' /\ WorkInv'
<1>1. /\ WorkType /\ Spawned(n, try[n]) \in SUBSET [node : Node, branch : Branch, attempt : Nat]
      /\ \A b \in Spawned(n, try[n]) : b.node = n /\ b.attempt = try[n]
  BY SpawnedFacts DEF Inv, TypeOK, WorkType
<1>2. Resolved' = Resolved
  BY DEF Resolved, Recorded
<1>3. \A m \in Node : task'[m] = IF m = n THEN "running" ELSE task[m]
  BY DEF Inv, TypeOK
<1>4. ASSUME NEW b \in work'
      PROVE  /\ b \in Spawned(b.node, b.attempt)' /\ b.node \in act'
             /\ b.attempt <= try'[b.node]
             /\ b.attempt = try'[b.node] =>
                  b.node \notin Resolved' /\ task'[b.node] \notin {"ok", "backoff"}
  <2>1. CASE b \in Spawned(n, try[n])
    <3>1. b.node = n /\ b.attempt = try[n] /\ try[n] \in Nat /\ task'[n] = "running"
      BY <1>1, <1>3, <2>1 DEF Inv, TypeOK
    <3> QED
      BY <1>2, <2>1, <3>1 DEF Spawned
  <2>2. CASE b \in work
    <3>1. b.node \in Node
      BY <1>1, <2>2 DEF WorkType
    <3> QED
      BY <1>2, <1>3, <2>2, <3>1 DEF Inv, WorkInv, Spawned
  <2> QED
    BY <2>1, <2>2
<1> QED
  BY <1>1, <1>4 DEF WorkType, WorkInv

LEMMA WorkCallStep ==
  ASSUME Inv, CallStep
  PROVE  WorkType' /\ WorkInv'
<1>1. TypeOK
  BY DEF Inv
<1>2. CASE FillSpawn
  <2> DEFINE n == Head(ready)
  <2>1. ready \in Seq(Node) /\ ready # <<>>
    BY <1>1, <1>2 DEF FillSpawn, TypeOK
  <2>2. n \in Node /\ n \in Queued
    BY <2>1, TailFacts DEF Queued, Elements
  <2>3. n \notin Resolved
    BY <2>2 DEF Inv, QueueInv
  <2> QED
    BY <1>2, <2>2, <2>3, WorkSpawned DEF FillSpawn
<1>3. CASE FillSkip
  <2> DEFINE n == Head(ready)
  <2>1. ready \in Seq(Node) /\ ready # <<>>
    BY <1>1, <1>3 DEF FillSkip, TypeOK
  <2>2. n \in Node /\ n \in Queued
    BY <2>1, TailFacts DEF Queued, Elements
  <2>3. n \notin act /\ Resolved' \subseteq Resolved \cup {n}
    BY <1>1, <1>3, <2>2 DEF Inv, QueueInv, FillSkip, Resolved, Recorded, TypeOK, Results
  <2>4. work' = work /\ act' = act /\ try' = try /\ task' = task
    BY <1>3 DEF FillSkip, tasks
  <2> QED
    BY <2>3, <2>4, WorkStays
<1>4. CASE Start
  <2>1. Resolved' \subseteq Resolved
    BY <1>1, <1>4 DEF Start, Resolved, Recorded, TypeOK, Results
  <2>2. work' = work /\ act' = act /\ try' = try /\ task' = task
    BY <1>4 DEF Start, tasks
  <2> QED
    BY <2>1, <2>2, WorkStays
<1>5. ASSUME NEW n \in Node, JoinOk(n)
      PROVE  WorkType' /\ WorkInv'
  <2>1. /\ work' = work /\ act' = act /\ try' = try /\ task[n] = "ok"
        /\ task' = [task EXCEPT ![n] = "gone"]
    BY <1>5 DEF JoinOk
  <2>2. Resolved' \subseteq Resolved \cup {n}
    BY <1>1, <1>5 DEF JoinOk, Resolved, Recorded, TypeOK, Results
  <2>3. \A m \in Node : task'[m] \in {"gone", task[m]}
    BY <1>1, <2>1 DEF TypeOK
  <2>4. act \subseteq Node
    BY <1>1 DEF TypeOK
  <2> QED
    BY <2>1, <2>2, <2>3, <2>4, WorkStays
<1>6. CASE FillOver \/ FailRun \/ Shutdown \/ Finish \/ \E n \in Node : JoinErr(n) \/ JoinPanic(n)
  <2>1. work' = work /\ act' = act /\ try' = try /\ out' = out
    BY <1>6 DEF FillOver, FailRun, Shutdown, Finish, JoinErr, JoinPanic, tasks
  <2>2. \A m \in Node : task'[m] \in {"gone", task[m]}
    BY <1>1, <1>6
    DEF TypeOK, FillOver, FailRun, Shutdown, Finish, JoinErr, JoinPanic, tasks
  <2>3. Resolved' = Resolved /\ act \subseteq Node
    BY <1>1, <2>1 DEF Resolved, Recorded, TypeOK
  <2> QED
    BY <2>1, <2>2, <2>3, WorkStays
<1> QED
  BY <1>2, <1>3, <1>4, <1>5, <1>6 DEF CallStep

LEMMA WorkTaskStep ==
  ASSUME Inv, NEW n \in Node, TaskStep(n)
  PROVE  WorkType' /\ WorkInv'
<1>1. TypeOK /\ act \subseteq Node /\ act' = act /\ out' = out /\ Resolved' = Resolved
  BY DEF Inv, TypeOK, TaskStep, HandlerOk, HandlerErr, BackoffOver, HandlerTimeout, HandlerPanic,
         Aborted, call, Resolved, Recorded
<1>2. n \in act /\ (pc # "dropped" => n \notin Resolved) /\ n \notin Resolved
  BY <1>1 DEF TaskStep, HandlerOk, HandlerErr, BackoffOver, HandlerTimeout, HandlerPanic,
         Aborted, InFlight, Inv, TaskInv
<1>3. CASE HandlerOk(n)
  <2>1. /\ work' = work /\ try' = try /\ task' = [task EXCEPT ![n] = "ok"]
        /\ Spawned(n, try[n]) \cap work = {}
    BY <1>3 DEF HandlerOk
  <2>2. \A m \in Node : task'[m] = IF m = n THEN "ok" ELSE task[m]
    BY <1>1, <2>1 DEF TypeOK
  <2>3. ASSUME NEW b \in work
        PROVE  /\ b \in Spawned(b.node, b.attempt)' /\ b.node \in act'
               /\ b.attempt <= try'[b.node]
               /\ b.attempt = try'[b.node] =>
                    b.node \notin Resolved' /\ task'[b.node] \notin {"ok", "backoff"}
    <3>1. b.node \in Node /\ ~(b.node = n /\ b.attempt = try[n])
      BY <1>1, <2>1 DEF Inv, WorkInv, TypeOK
    <3> QED
      BY <1>1, <2>1, <2>2, <3>1 DEF Inv, WorkInv, Spawned
  <2> QED
    BY <1>1, <2>1, <2>3 DEF WorkType, WorkInv, TypeOK
<1>4. CASE HandlerErr(n)
  <2>1. /\ work' = work /\ try' = [try EXCEPT ![n] = @ + 1]
        /\ \A m \in Node : m # n => task'[m] = task[m]
    BY <1>1, <1>4 DEF HandlerErr, TypeOK
  <2>2. \A m \in Node : try'[m] = (IF m = n THEN try[n] + 1 ELSE try[m]) /\ try[m] \in Nat
    BY <1>1, <2>1 DEF TypeOK
  <2>3. ASSUME NEW b \in work
        PROVE  /\ b \in Spawned(b.node, b.attempt)' /\ b.node \in act'
               /\ b.attempt <= try'[b.node]
               /\ b.attempt = try'[b.node] =>
                    b.node \notin Resolved' /\ task'[b.node] \notin {"ok", "backoff"}
    <3>1. b.node \in Node /\ b.attempt \in Nat
      BY <1>1 DEF TypeOK
    <3>2. b.node = n => b.attempt <= try[n] /\ b.attempt < try'[n]
      BY <2>2, <3>1 DEF Inv, WorkInv
    <3> QED
      BY <1>1, <2>1, <2>2, <3>1, <3>2 DEF Inv, WorkInv, Spawned
  <2> QED
    BY <1>1, <2>1, <2>3 DEF WorkType, WorkInv, TypeOK
<1>5. CASE BackoffOver(n)
  BY <1>1, <1>2, <1>5, WorkSpawned DEF BackoffOver
<1>6. CASE HandlerTimeout(n) \/ HandlerPanic(n) \/ Aborted(n)
  <2>1. work' = work /\ try' = try
    BY <1>6 DEF HandlerTimeout, HandlerPanic, Aborted
  <2>2. \A m \in Node : task'[m] \in {"err", "panic", "gone", task[m]}
    BY <1>1, <1>6 DEF TypeOK, HandlerTimeout, HandlerPanic, Aborted
  <2> QED
    BY <1>1, <2>1, <2>2, WorkStays
<1> QED
  BY <1>3, <1>4, <1>5, <1>6 DEF TaskStep

LEMMA StartInv ==
  ASSUME Inv, NamesApart, Start
  PROVE  Inv'
<1>0. WorkType' /\ WorkInv'
  BY WorkCallStep DEF CallStep
<1> DEFINE sources == {n \in wf.node : InDegree(n) = 0}
<1>1. /\ TypeOK /\ pc = "start" /\ pc' = "fill" /\ record' = "running"
      /\ wf' = wf /\ input' = input /\ act' = act /\ last' = last
      /\ task' = task /\ try' = try /\ val' = val /\ starts' = starts
      /\ Resolved = {} /\ act = {}
  BY DEF Inv, CallInv, Start, tasks
<1>2. sources \in SUBSET Node
  BY <1>1, WorkflowFacts
<1>3. /\ ready' \in Seq(Node) /\ Queued' = sources
      /\ \A i, j \in DOMAIN ready' : ready'[i] = ready'[j] => i = j
  <2>1. ready' \in Listings(sources)
    BY DEF Start
  <2> QED
    BY <1>2, <2>1, ListingFacts DEF Queued, Elements
<1>4. out' \in Results /\ \A k \in Key : k # InputKey => out'[k] = out[k]
  BY <1>1, OutputsAssumption DEF Start, TypeOK, Results
<1>5. Resolved' = {}
  BY <1>1, <1>4 DEF Resolved, Recorded
<1>6. pending' = [n \in Node |-> InDegree(n)] /\ pending' \in [Node -> Nat]
  BY <1>1, CountFacts DEF Start
<1>7. TypeOK'
  BY <1>0, <1>1, <1>3, <1>4, <1>6 DEF WorkType, TypeOK, PC
<1>8. Reached' = sources
  BY <1>1, <1>3, <1>5 DEF Reached
<1>9. \A n \in sources : Preds(wf, n) = {}
  BY <1>1, CountFacts, WorkflowFacts
<1>10. QueueInv'
  <2>1. sources \subseteq Ordered(wf)
    BY <1>1, <1>9, WorkflowFacts
  <2> QED
    BY <1>1, <1>3, <1>5, <1>8, <1>9, <2>1 DEF QueueInv, Ordered
<1>11. CountInv'
  <2>1. \A n \in wf.node : Waiting(n)' = Incoming(wf, n)
    BY <1>1, <1>5 DEF Waiting
  <2>2. \A n \in wf.node : pending'[n] = InDegree(n)
    BY <1>1, <1>6, WorkflowFacts
  <2> QED
    BY <1>1, <1>8, <2>1, <2>2 DEF CountInv, InDegree
<1>12. InFlight' = InFlight
  BY <1>1 DEF InFlight
<1>13. TaskInv' /\ BranchInv'
  BY <1>1, <1>5, <1>12 DEF Inv, TaskInv, BranchInv
<1>14. CallInv'
  BY <1>1, <1>12, FewerInFlight DEF CallInv
<1> QED
  BY <1>0, <1>7, <1>10, <1>11, <1>13, <1>14 DEF Inv

LEMMA FillSkipInv ==
  ASSUME Inv, NamesApart, FillSkip
  PROVE  Inv'
<1>0. WorkType' /\ WorkInv'
  BY WorkCallStep DEF CallStep
<1> DEFINE n == Head(ready)
<1>1. /\ TypeOK /\ pc = "fill" /\ pc' = pc /\ ready \in Seq(Node) /\ ready # <<>>
      /\ wf' = wf /\ input' = input /\ act' = act /\ last' = last /\ record' = record
      /\ task' = task /\ try' = try /\ val' = val /\ starts' = starts
      /\ ~IsActive(wf, n, act, out) /\ out' = [out EXCEPT ![n] = SkipMarker]
      /\ Resolve(n, Tail(ready))
  BY DEF Inv, TypeOK, FillSkip, tasks
<1>2. /\ n \in Queued /\ n \in Node /\ Tail(ready) \in Seq(Node)
      /\ Elements(Tail(ready)) = Queued \ {n}
      /\ \A i, j \in DOMAIN Tail(ready) : Tail(ready)[i] = Tail(ready)[j] => i = j
  <2>1. Queued = Elements(ready)
    BY DEF Queued, Elements
  <2> QED
    BY <1>1, <2>1, TailFacts DEF Inv, QueueInv
<1>3. n \notin act /\ n \notin Resolved /\ n \in Reached
  BY <1>2 DEF Inv, QueueInv, Reached
<1>4. SkipMarker \in Output
  BY DEF SkipMarker, Output
<1>5. /\ Resolved' = Resolved \cup {n}
      /\ QueueInv' /\ CountInv' /\ BranchInv'
      /\ pending' \in [Node -> Nat] /\ ready' \in Seq(Node) /\ out' \in Results
  BY <1>1, <1>2, <1>3, <1>4, Resolving
<1>6. InFlight' = InFlight /\ n \notin InFlight
  BY <1>1, <1>2, <1>3 DEF InFlight, Inv, TaskInv
<1>7. TaskInv'
  BY <1>1, <1>5, <1>6 DEF Inv, TaskInv
<1>8. CallInv'
  BY <1>1, <1>6, FewerInFlight DEF Inv, CallInv
<1>9. TypeOK'
  BY <1>0, <1>1, <1>5 DEF WorkType, TypeOK
<1> QED
  BY <1>0, <1>5, <1>7, <1>8, <1>9 DEF Inv

LEMMA FillSpawnInv ==
  ASSUME Inv, FillSpawn
  PROVE  Inv'
<1>0. WorkType' /\ WorkInv'
  BY WorkCallStep DEF CallStep
<1> DEFINE n == Head(ready)
<1>1. /\ TypeOK /\ pc = "fill" /\ pc' = pc /\ ready \in Seq(Node) /\ ready # <<>>
      /\ wf' = wf /\ input' = input /\ out' = out /\ last' = last /\ record' = record
      /\ pending' = pending /\ try' = try /\ val' = val
      /\ IsActive(wf, n, act, out) /\ act' = act \cup {n}
      /\ task' = [task EXCEPT ![n] = "running"]
      /\ starts' = [starts EXCEPT ![n] = @ + 1]
      /\ ready' = Tail(ready) /\ SlotFree
  BY DEF Inv, TypeOK, FillSpawn
<1>2. /\ n \in Queued /\ n \in Node /\ ready' \in Seq(Node) /\ Queued' = Queued \ {n}
      /\ \A i, j \in DOMAIN ready' : ready'[i] = ready'[j] => i = j
  <2>1. Queued = Elements(ready) /\ Queued' = Elements(ready')
    BY DEF Queued, Elements
  <2> QED
    BY <1>1, <2>1, TailFacts DEF Inv, QueueInv
<1>3. n \notin act /\ n \notin Resolved /\ n \in Reached
  BY <1>2 DEF Inv, QueueInv, Reached
<1>4. Resolved' = Resolved
  BY <1>1 DEF Resolved, Recorded
<1>5. Reached' = Reached
  BY <1>1, <1>2, <1>4 DEF Reached
<1>6. QueueInv'
  BY <1>1, <1>2, <1>3, <1>4, <1>5 DEF Inv, QueueInv, Ordered
<1>7. CountInv'
  BY <1>1, <1>4, <1>5 DEF Inv, CountInv, Waiting
<1>8. /\ \A m \in Node : task'[m] = IF m = n THEN "running" ELSE task[m]
      /\ \A m \in Node : starts'[m] = IF m = n THEN starts[n] + 1 ELSE starts[m]
      /\ task' \in [Node -> TaskState]
  BY <1>1, <1>2 DEF TypeOK, TaskState
<1>9. InFlight' = InFlight \cup {n}
  BY <1>2, <1>8 DEF InFlight
<1>10. TaskInv'
  <2>1. starts[n] = 0 /\ 0 + 1 = 1
    BY <1>2, <1>3 DEF Inv, TaskInv
  <2>2. \A m \in Node : starts'[m] = IF m \in act' THEN 1 ELSE 0
    BY <1>1, <1>8, <2>1 DEF Inv, TaskInv
  <2> QED
    BY <1>1, <1>2, <1>3, <1>4, <1>8, <1>9, <2>2 DEF Inv, TaskInv
<1>11. CallInv'
  <2>1. Cardinality(InFlight') <= Slots
    <3>1. Cardinality(InFlight \cup {n}) \in {Cardinality(InFlight), Cardinality(InFlight) + 1}
      BY InFlightFinite, FS_AddElement
    <3>2. Cardinality(InFlight) < Slots /\ Cardinality(InFlight) \in Nat /\ Slots \in Nat
      BY <1>1, InFlightFinite, SlotsType DEF SlotFree
    <3>3. Cardinality(InFlight \cup {n}) <= Slots
      BY <3>1, <3>2
    <3> QED
      BY <1>9, <3>3
  <2>2. Slots' = Slots
    BY <1>1 DEF Slots
  <2> QED
    BY <1>1, <2>1, <2>2 DEF Inv, CallInv
<1>12. BranchInv'
  <2>1. ASSUME NEW m \in act \cup Resolved \cup {n}
        PROVE  m \in act \cup {n} <=> IsActive(wf, m, act \cup {n}, out)
    <3>1. Preds(wf, m) \subseteq Resolved
      BY <1>3, <2>1 DEF Inv, QueueInv, Reached
    <3>2. \A p \in Preds(wf, m) : (p \in act \cup {n} <=> p \in act) /\ out[p] = out[p]
      BY <1>3, <3>1
    <3>3. IsActive(wf, m, act \cup {n}, out) <=> IsActive(wf, m, act, out)
      BY <1>1, <3>2, ActiveSame
    <3> QED
      BY <1>1, <2>1, <3>3 DEF Inv, BranchInv
  <2> QED
    BY <1>1, <1>4, <2>1 DEF BranchInv, IsActive
<1>13. TypeOK'
  <2>1. starts' \in [Node -> Nat]
    BY <1>1, <1>2 DEF TypeOK
  <2> QED
    BY <1>0, <1>1, <1>2, <1>8, <2>1 DEF WorkType, TypeOK
<1> QED
  BY <1>0, <1>6, <1>7, <1>10, <1>11, <1>12, <1>13 DEF Inv

LEMMA JoinOkInv ==
  ASSUME Inv, NamesApart, NEW n \in Node, JoinOk(n)
  PROVE  Inv'
<1>0. WorkType' /\ WorkInv'
  BY WorkCallStep DEF CallStep
<1>1. /\ TypeOK /\ pc = "await" /\ pc' = "fill" /\ task[n] = "ok" /\ ready \in Seq(Node)
      /\ wf' = wf /\ input' = input /\ act' = act /\ last' = n /\ record' = record
      /\ task' = [task EXCEPT ![n] = "gone"] /\ try' = try /\ val' = val /\ starts' = starts
      /\ out' = [out EXCEPT ![n] = val[n]]
      /\ Resolve(n, ready)
  BY DEF Inv, TypeOK, JoinOk
<1>2. n \in InFlight /\ n \in act /\ n \notin Resolved /\ n \in Reached /\ n \notin Queued
  BY <1>1 DEF InFlight, Inv, TaskInv, QueueInv, Reached
<1>3. val[n] \in Output /\ (n \in act <=> IsActive(wf, n, act, out))
  BY <1>1, <1>2, OutputsAssumption DEF Inv, TaskInv, BranchInv
<1>4. /\ Elements(ready) = Queued \ {n}
      /\ \A i, j \in DOMAIN ready : ready[i] = ready[j] => i = j
  BY <1>2 DEF Elements, Queued, Inv, QueueInv
<1>5. /\ Resolved' = Resolved \cup {n}
      /\ QueueInv' /\ CountInv' /\ BranchInv'
      /\ pending' \in [Node -> Nat] /\ ready' \in Seq(Node) /\ out' \in Results
  BY <1>1, <1>2, <1>3, <1>4, Resolving
<1>6. /\ \A m \in Node : task'[m] = IF m = n THEN "gone" ELSE task[m]
      /\ task' \in [Node -> TaskState]
  BY <1>1 DEF TypeOK, TaskState
<1>7. InFlight' = InFlight \ {n}
  BY <1>6 DEF InFlight
<1>8. TaskInv'
  BY <1>1, <1>2, <1>5, <1>6, <1>7 DEF Inv, TaskInv
<1>9. CallInv'
  BY <1>1, <1>7, FewerInFlight DEF Inv, CallInv
<1>10. TypeOK'
  BY <1>0, <1>1, <1>5, <1>6 DEF WorkType, TypeOK, PC
<1> QED
  BY <1>0, <1>5, <1>8, <1>9, <1>10 DEF Inv

\* The steps of the call that leave results, active set and queue alone.
LEMMA CallEndsInv ==
  ASSUME Inv,
         FillOver \/ FailRun \/ Shutdown \/ Finish \/ \E n \in Node : JoinErr(n) \/ JoinPanic(n)
  PROVE  Inv'
<1>0. WorkType' /\ WorkInv'
  BY WorkCallStep DEF CallStep
<1>1. /\ TypeOK /\ pc # "start"
      /\ wf' = wf /\ input' = input /\ act' = act /\ out' = out /\ last' = last
      /\ ready' = ready /\ pending' = pending
      /\ try' = try /\ val' = val /\ starts' = starts
  BY DEF Inv, FillOver, FailRun, Shutdown, Finish, JoinErr, JoinPanic, tasks
<1>2. QueueInv' /\ CountInv' /\ BranchInv' /\ Resolved' = Resolved
  BY <1>1, QueueStays
<1>3. CASE FillOver
  <2>1. /\ task' = task /\ record' = record /\ pc = "fill"
        /\ pc' = IF InFlight = {} THEN "finish" ELSE "await"
        /\ InFlight' = InFlight
    BY <1>3 DEF FillOver, tasks, InFlight
  <2>2. InFlight = {} => ready = <<>>
    <3>1. InFlight = {} => SlotFree
      BY <1>1, FS_EmptySet, SlotsType DEF SlotFree
    <3> QED
      BY <1>3, <3>1 DEF FillOver
  <2>3. TaskInv'
    BY <1>1, <1>2, <2>1 DEF Inv, TaskInv
  <2>4. CallInv'
    BY <1>1, <2>1, <2>2, FewerInFlight DEF Inv, CallInv
  <2> QED
    BY <1>0, <1>1, <1>2, <2>1, <2>3, <2>4 DEF Inv, TypeOK, WorkType, PC
<1>4. CASE FailRun \/ Finish
  <2>1. /\ task' = task /\ InFlight' = InFlight
        /\ \/ pc = "failRun" /\ pc' = "shutdown" /\ record' = "failed"
           \/ pc = "finish" /\ pc' = "done" /\ record' = "finished"
    BY <1>4 DEF FailRun, Finish, tasks, InFlight
  <2>2. TaskInv'
    BY <1>1, <1>2, <2>1 DEF Inv, TaskInv
  <2>3. CallInv'
    BY <1>1, <2>1, FewerInFlight DEF Inv, CallInv
  <2> QED
    BY <1>0, <1>1, <1>2, <2>1, <2>2, <2>3 DEF Inv, TypeOK, WorkType, PC
<1>5. CASE Shutdown
  <2>1. /\ pc = "shutdown" /\ pc' = "failed" /\ record' = record
        /\ task' = [m \in Node |-> IF m \in InFlight THEN "gone" ELSE task[m]]
    BY <1>5 DEF Shutdown
  <2>2. InFlight' = {} /\ task' \in [Node -> TaskState]
    BY <1>1, <2>1 DEF InFlight, TypeOK, TaskState
  <2>3. TaskInv'
    BY <1>1, <1>2, <2>1, <2>2 DEF Inv, TaskInv, InFlight
  <2>4. CallInv'
    BY <1>1, <2>1, <2>2, FewerInFlight DEF Inv, CallInv
  <2> QED
    BY <1>0, <1>1, <1>2, <2>1, <2>2, <2>3, <2>4 DEF Inv, TypeOK, WorkType, PC
<1>6. ASSUME NEW n \in Node, JoinErr(n) \/ JoinPanic(n)
      PROVE  Inv'
  <2>1. /\ task[n] \in {"err", "panic"} /\ task' = [task EXCEPT ![n] = "gone"]
        /\ \/ pc = "await" /\ pc' = "failRun" /\ record' = record
           \/ pc = "await" /\ pc' = "dropped" /\ record' = "failed"
    BY <1>6 DEF JoinErr, JoinPanic
  <2>2. /\ \A m \in Node : task'[m] = IF m = n THEN "gone" ELSE task[m]
        /\ task' \in [Node -> TaskState]
    BY <1>1, <2>1 DEF TypeOK, TaskState
  <2>3. InFlight' \subseteq InFlight
    BY <2>2 DEF InFlight
  <2>4. TaskInv'
    BY <1>1, <1>2, <2>1, <2>2, <2>3 DEF Inv, TaskInv
  <2>5. CallInv'
    BY <1>1, <2>1, <2>3, FewerInFlight DEF Inv, CallInv
  <2> QED
    BY <1>0, <1>1, <1>2, <2>1, <2>2, <2>4, <2>5 DEF Inv, TypeOK, WorkType, PC
<1> QED
  BY <1>3, <1>4, <1>5, <1>6

LEMMA TaskStepInv ==
  ASSUME Inv, NEW n \in Node, TaskStep(n)
  PROVE  Inv'
<1>0. WorkType' /\ WorkInv'
  BY WorkTaskStep
<1>1. /\ TypeOK /\ wf' = wf /\ input' = input /\ record' = record /\ starts' = starts
      /\ pc' = pc /\ act' = act /\ out' = out /\ last' = last
      /\ ready' = ready /\ pending' = pending
  BY DEF Inv, TaskStep, HandlerOk, HandlerErr, BackoffOver, HandlerTimeout, HandlerPanic,
         Aborted, call
<1>2. QueueInv' /\ CountInv' /\ BranchInv' /\ Resolved' = Resolved
  BY <1>1, QueueStays
<1>3. /\ n \in InFlight
      /\ task' \in [Node -> TaskState]
      /\ \A m \in Node : m # n => task'[m] = task[m]
      /\ \/ task'[n] \in {"running", "backoff", "ok", "err", "panic"}
         \/ pc = "dropped" /\ task'[n] = "gone"
  BY <1>1 DEF TypeOK, TaskState, InFlight, TaskStep, HandlerOk, HandlerErr, BackoffOver,
              HandlerTimeout, HandlerPanic, Aborted
<1>4. val' \in [Node -> Output \cup {Absent}] /\ try' \in [Node -> Nat]
  <2>1. CASE HandlerOk(n)
    BY <1>1, <2>1, OutputsAssumption DEF TypeOK, HandlerOk
  <2>2. CASE ~HandlerOk(n)
    BY <1>1, <2>2
    DEF TypeOK, TaskStep, HandlerErr, BackoffOver, HandlerTimeout, HandlerPanic, Aborted
  <2> QED
    BY <2>1, <2>2
<1>5. \A m \in Node : task'[m] = "ok" => val'[m] \in HandlerOutput
  BY <1>1 DEF TypeOK, Inv, TaskInv, TaskStep, HandlerOk, HandlerErr, BackoffOver, HandlerTimeout,
              HandlerPanic, Aborted
<1>6. InFlight' \subseteq InFlight /\ (pc # "dropped" => InFlight' = InFlight)
  BY <1>3 DEF InFlight
<1>7. TaskInv'
  <2>1. \A m \in Node : task'[m] = "none" <=> task[m] = "none"
    BY <1>3 DEF InFlight
  <2> QED
    BY <1>1, <1>2, <1>5, <1>6, <2>1 DEF Inv, TaskInv
<1>8. CallInv'
  BY <1>1, <1>2, <1>6, FewerInFlight DEF Inv, CallInv
<1> QED
  BY <1>0, <1>1, <1>2, <1>3, <1>4, <1>7, <1>8 DEF Inv, TypeOK, WorkType

LEMMA BranchOverInv ==
  ASSUME Inv, NEW b \in work, BranchOver(b)
  PROVE  Inv'
<1>1. /\ wf' = wf /\ input' = input /\ record' = record /\ starts' = starts
      /\ pc' = pc /\ act' = act /\ out' = out /\ last' = last
      /\ ready' = ready /\ pending' = pending
      /\ task' = task /\ val' = val /\ try' = try /\ work' \subseteq work
  BY DEF BranchOver, call
<1>2. QueueInv' /\ CountInv' /\ BranchInv' /\ Resolved' = Resolved
  BY <1>1, QueueStays
<1>3. InFlight' = InFlight /\ Slots' = Slots
  BY <1>1 DEF InFlight, Slots
<1>4. WorkType' /\ WorkInv'
  BY <1>1, <1>2, WorkStays
<1> QED
  BY <1>1, <1>2, <1>3, <1>4 DEF Inv, TypeOK, TaskInv, CallInv, WorkType

LEMMA NextInv == NamesApart /\ Inv /\ [Next]_vars => Inv'
<1>1. ASSUME Inv, UNCHANGED vars
      PROVE  Inv'
  <2>1. /\ wf' = wf /\ input' = input /\ record' = record /\ starts' = starts
        /\ pc' = pc /\ act' = act /\ out' = out /\ last' = last
        /\ ready' = ready /\ pending' = pending
        /\ task' = task /\ val' = val /\ try' = try /\ work' = work
    BY <1>1 DEF vars, call, tasks
  <2>2. QueueInv' /\ CountInv' /\ BranchInv' /\ Resolved' = Resolved
    BY <1>1, <2>1, QueueStays
  <2>3. InFlight' = InFlight /\ Slots' = Slots
    BY <2>1 DEF InFlight, Slots
  <2> QED
    BY <1>1, <2>1, <2>2, <2>3 DEF Inv, TypeOK, TaskInv, CallInv, WorkInv, Spawned
<1> QED
  BY <1>1, StartInv, FillSkipInv, FillSpawnInv, JoinOkInv, CallEndsInv, TaskStepInv,
     BranchOverInv
  DEF Next, CallStep

LEMMA InvHolds ==
  ASSUME NamesApart
  PROVE  Spec => []Inv
BY InitInv, NextInv, PTL DEF Spec

\* The variables keep their types.
THEOREM TypeCorrect ==
  ASSUME NamesApart
  PROVE  Spec => []TypeOK
<1>1. Inv => TypeOK
  BY DEF Inv
<1> QED
  BY <1>1, InvHolds, PTL

\* However tasks end, no more of them are in flight than the setting allows.
THEOREM SlotsAreEnough ==
  ASSUME NamesApart
  PROVE  Spec => []InFlightBounded
<1>1. Inv => InFlightBounded
  BY DEF Inv, CallInv, InFlightBounded
<1> QED
  BY <1>1, InvHolds, PTL

\* In whatever order tasks end, the countdown of a node counts its unresolved
\* in-edges, and a node is queued, in flight or resolved once, after its predecessors.
THEOREM CountdownIsExact ==
  ASSUME NamesApart
  PROVE  Spec => []CountdownExact
<1>1. ASSUME Inv
      PROVE  CountdownExact
  <2>1. \A n \in Node : starts[n] <= 1
    <3>1. \A n \in Node : starts[n] \in {0, 1}
      BY <1>1 DEF Inv, TaskInv
    <3>2. \A k \in {0, 1} : k <= 1
      OBVIOUS
    <3> QED
      BY <3>1, <3>2
  <2>2. InFlight \subseteq act
    BY <1>1 DEF Inv, TaskInv, InFlight
  <2>3. EachNodeOnce
    BY <1>1, <2>1, <2>2 DEF Inv, QueueInv, TaskInv, EachNodeOnce, Reached
  <2> QED
    BY <1>1, <2>3 DEF Inv, CountInv, CountdownExact, Waiting, Reached
<1> QED
  BY <1>1, InvHolds, PTL

\* Whatever outlives a failed attempt, a retry or the call, a result on record is that
\* of an attempt whose branches have all ended.
THEOREM WholeResults ==
  ASSUME NamesApart
  PROVE  Spec => []ResultsAreWhole
<1>1. ASSUME Inv, NEW b \in work, b.node \in Resolved
      PROVE  b.attempt < try[b.node]
  <2>1. b.attempt <= try[b.node] /\ b.attempt # try[b.node]
    BY <1>1 DEF Inv, WorkInv
  <2>2. b.attempt \in Nat /\ try[b.node] \in Nat
    BY <1>1 DEF Inv, TypeOK
  <2> QED
    BY <2>1, <2>2
<1>2. Inv => ResultsAreWhole
  BY <1>1 DEF ResultsAreWhole
<1> QED
  BY <1>2, InvHolds, PTL

-----------------------------------------------------------------------------
(* The sequential engine's choice of branches.                              *)

\* What the sequential engine has activated after i nodes of the order, of a.
Walk(a) == [i \in 0..Len(wf.order) |-> a \cap {wf.order[j] : j \in 1..i}]

\* One more node of the walk.
Walked(f) ==
  [i \in 0..Len(wf.order) |->
     IF i = 0 THEN {}
     ELSE f[i - 1] \cup {n \in {wf.order[i]} : IsActive(wf, n, f[i - 1], out)}]

LEMMA SequentialIsWalk ==
  SequentialActive(wf, out) = (CHOOSE f : f = Walked(f))[Len(wf.order)]
BY DEF SequentialActive, Walked

LEMMA OrderFacts ==
  ASSUME TypeOK
  PROVE  /\ Len(wf.order) \in Nat
         /\ \A i \in 1..Len(wf.order) :
              /\ wf.order[i] \in Node /\ wf.order[i] \in Ordered(wf)
              /\ \A p \in Preds(wf, wf.order[i]) : \E j \in 1..(i - 1) : wf.order[j] = p
         /\ \A n \in Ordered(wf) : \E j \in 1..Len(wf.order) : wf.order[j] = n
<1>1. IsTopo(wf) /\ wf.order \in Seq(Node)
  BY WorkflowsAssumption DEF TypeOK, IsWorkflow, Workflow
<1>2. Len(wf.order) \in Nat /\ \A i \in 1..Len(wf.order) : wf.order[i] \in Node
  BY <1>1
<1>3. \A i \in 1..Len(wf.order) :
        \A p \in Preds(wf, wf.order[i]) : \E j \in 1..(i - 1) : wf.order[j] = p
  BY <1>1 DEF IsTopo
<1> QED
  BY <1>2, <1>3 DEF Ordered

\* When the call finishes, everything the iterator of the sequential engine yields is
\* resolved: the first node that were not would have nothing to wait for.
LEMMA AllResolved ==
  ASSUME Inv, pc = "finish"
  PROVE  Resolved = Ordered(wf)
<1>1. TypeOK /\ Reached = Resolved /\ act \subseteq Resolved /\ pc # "start"
  BY DEF Inv, CallInv, TaskInv, Reached, Queued
<1>2. Resolved \subseteq Ordered(wf)
  BY <1>1 DEF Inv, QueueInv
<1> DEFINE left == {i \in 1..Len(wf.order) : wf.order[i] \notin Resolved}
<1>3. ASSUME left # {}
      PROVE  FALSE
  <2>1. left \in SUBSET Nat
    BY <1>1, OrderFacts
  <2>2. PICK i \in left : \A j \in left : i <= j
    BY <1>3, <2>1, SmallestOf
  <2>3. i \in 1..Len(wf.order) /\ wf.order[i] \notin Resolved
    BY <2>2
  <2>4. \A j \in 1..(i - 1) : wf.order[j] \in Resolved
    <3>1. \A j \in 1..(i - 1) : j \in 1..Len(wf.order) /\ ~(i <= j)
      BY <1>1, <2>3, OrderFacts
    <3> QED
      BY <2>2, <3>1
  <2>5. Preds(wf, wf.order[i]) \subseteq Resolved
    <3>1. \A p \in Preds(wf, wf.order[i]) : \E j \in 1..(i - 1) : wf.order[j] = p
      BY <1>1, <2>3, OrderFacts
    <3> QED
      BY <2>4, <3>1
  <2>6. wf.order[i] \in wf.node
    BY <1>1, <2>3, OrderFacts, WorkflowFacts
  <2>7. Waiting(wf.order[i]) = {}
    BY <1>1, <2>5, WorkflowFacts DEF Waiting
  <2>8. pending[wf.order[i]] = 0
    BY <1>1, <2>6, <2>7, FS_EmptySet DEF Inv, CountInv
  <2> QED
    BY <1>1, <2>3, <2>6, <2>8 DEF Inv, CountInv
<1> QED
  BY <1>1, <1>2, <1>3, OrderFacts

\* The active set of a call that finishes is a walk ...
LEMMA ActiveWalks ==
  ASSUME Inv, pc = "finish"
  PROVE  Walk(act) = Walked(Walk(act)) /\ Walk(act)[Len(wf.order)] = act
<1>1. TypeOK /\ Resolved = Ordered(wf) /\ act \subseteq Resolved
  BY AllResolved DEF Inv, CallInv, TaskInv
<1> DEFINE N == Len(wf.order)
           g == Walk(act)
<1>2. N \in Nat /\ \A i \in 0..N : g[i] = act \cap {wf.order[j] : j \in 1..i}
  BY <1>1, OrderFacts DEF Walk
<1>3. ASSUME NEW i \in 1..N
      PROVE  g[i] = g[i - 1] \cup {n \in {wf.order[i]} : IsActive(wf, n, g[i - 1], out)}
  <2> DEFINE n == wf.order[i]
  <2>1. i - 1 \in 0..N /\ i \in 0..N
    BY <1>2
  <2>2. {wf.order[j] : j \in 1..i} = {wf.order[j] : j \in 1..(i - 1)} \cup {n}
    <3>1. \A j \in 1..i : j = i \/ j \in 1..(i - 1)
      BY <1>2
    <3>2. i \in 1..i /\ \A j \in 1..(i - 1) : j \in 1..i
      BY <1>2
    <3> QED
      BY <3>1, <3>2
  <2>3. g[i] = g[i - 1] \cup (act \cap {n})
    BY <1>2, <2>1, <2>2
  <2>4. \A p \in Preds(wf, n) : (p \in g[i - 1] <=> p \in act) /\ out[p] = out[p]
    <3>1. \A p \in Preds(wf, n) : \E j \in 1..(i - 1) : wf.order[j] = p
      BY <1>1, OrderFacts
    <3>2. g[i - 1] = act \cap {wf.order[j] : j \in 1..(i - 1)}
      BY <1>2, <2>1
    <3> QED
      BY <3>1, <3>2
  <2>5. IsActive(wf, n, g[i - 1], out) <=> IsActive(wf, n, act, out)
    BY <1>1, <2>4, ActiveSame
  <2>6. n \in act <=> IsActive(wf, n, act, out)
    BY <1>1, OrderFacts DEF Inv, BranchInv
  <2> QED
    BY <2>3, <2>5, <2>6
<1>4. g[0] = {}
  BY <1>2
<1>5. g = Walked(g)
  <2>1. \A i \in 0..N : g[i] = Walked(g)[i]
    <3>1. Walked(g)[0] = {}
      BY <1>2 DEF Walked
    <3>2. \A i \in 1..N : Walked(g)[i] =
            g[i - 1] \cup {n \in {wf.order[i]} : IsActive(wf, n, g[i - 1], out)}
      BY <1>2 DEF Walked
    <3>3. \A i \in 0..N : i = 0 \/ i \in 1..N
      BY <1>2
    <3> QED
      BY <1>3, <1>4, <3>1, <3>2, <3>3
  <2>2. g = [i \in 0..N |-> g[i]] /\ Walked(g) = [i \in 0..N |-> Walked(g)[i]]
    BY DEF Walk, Walked
  <2> QED
    BY <2>1, <2>2
<1>6. g[N] = act
  <2>1. N \in 0..N /\ g[N] = act \cap {wf.order[j] : j \in 1..N}
    BY <1>2
  <2> QED
    BY <1>1, <2>1 DEF Ordered
<1> QED
  BY <1>5, <1>6

\* ... and there is one walk only.
LEMMA OneWalk ==
  ASSUME TypeOK, NEW f, f = Walked(f), NEW g, g = Walked(g)
  PROVE  f[Len(wf.order)] = g[Len(wf.order)]
<1> DEFINE N == Len(wf.order)
           apart == {i \in 0..N : f[i] # g[i]}
<1>1. N \in Nat
  BY OrderFacts
<1>2. f[0] = {} /\ g[0] = {}
  <2>1. \A k : Walked(k)[0] = {}
    BY <1>1 DEF Walked
  <2> QED
    BY <2>1
<1>3. \A i \in 1..N :
        /\ f[i] = f[i - 1] \cup {n \in {wf.order[i]} : IsActive(wf, n, f[i - 1], out)}
        /\ g[i] = g[i - 1] \cup {n \in {wf.order[i]} : IsActive(wf, n, g[i - 1], out)}
  <2>1. \A k : \A i \in 1..N :
          Walked(k)[i] = k[i - 1] \cup {n \in {wf.order[i]} : IsActive(wf, n, k[i - 1], out)}
    BY <1>1 DEF Walked
  <2> QED
    BY <2>1
<1>4. ASSUME apart # {}
      PROVE  FALSE
  <2>1. apart \in SUBSET Nat
    BY <1>1
  <2>2. PICK i \in apart : \A j \in apart : i <= j
    BY <1>4, <2>1, SmallestOf
  <2>3. i \in 0..N /\ f[i] # g[i]
    BY <2>2
  <2>4. i \in 1..N /\ i - 1 \in 0..N /\ ~(i <= i - 1)
    <3>1. i # 0
      BY <1>2, <2>3, Zenon
    <3>2. i \in 0..N
      BY <2>3
    <3> HIDE DEF apart
    <3> QED
      BY <1>1, <3>1, <3>2
  <2>5. f[i - 1] = g[i - 1]
    BY <2>2, <2>4
  <2> QED
    BY <1>3, <2>3, <2>4, <2>5
<1> QED
  BY <1>1, <1>4

\* "dependencies and conditional edge-skipping are honored exactly as in the sequential
\* engine": a call that finishes has resolved what that engine reaches and run what it
\* would have run with the same outputs.
THEOREM SameAsSequential ==
  ASSUME NamesApart
  PROVE  Spec => []AgreesWithSequential
<1>1. ASSUME Inv, pc = "finish"
      PROVE  act = SequentialActive(wf, out) /\ Resolved = Ordered(wf)
  <2> DEFINE g == Walk(act)
             h == CHOOSE f : f = Walked(f)
  <2>1. g = Walked(g) /\ g[Len(wf.order)] = act
    BY <1>1, ActiveWalks
  <2>2. h = Walked(h)
    BY <2>1
  <2>3. h[Len(wf.order)] = g[Len(wf.order)]
    BY <1>1, <2>1, <2>2, OneWalk DEF Inv
  <2> QED
    BY <1>1, <2>1, <2>3, SequentialIsWalk, AllResolved
<1>2. Inv => AgreesWithSequential
  BY <1>1 DEF AgreesWithSequential
<1> QED
  BY <1>2, InvHolds, PTL

-----------------------------------------------------------------------------
(* The refinement of DagRun.  The abstract run moves when a result or a skip *)
(* marker is filed and when the run store is told of the end.               *)

\* What the abstract run sees.
Ran == act \cap Recorded(out)
NodeResults == [out EXCEPT ![InputKey] = Absent]
Status == CASE record = "failed" -> "failed"
            [] record = "finished" -> "completed"
            [] OTHER -> "running"

\* The abstract run reads workflows and results as the engine does.
LEMMA SameGraph ==
  /\ \A r : Run!Recorded(r) = Recorded(r)
  /\ \A w, n : Run!Preds(w, n) = Preds(w, n)
  /\ \A w, n, a, r : Run!IsActive(w, n, a, r) <=> IsActive(w, n, a, r)
  /\ Run!SkipMarker = SkipMarker
BY DEF Run!Recorded, Recorded, Run!Key, Key, Run!Preds, Preds, Run!Incoming, Incoming,
       Run!IsActive, IsActive, Run!EdgeTaken, EdgeTaken, Run!SkipMarker, SkipMarker

LEMMA NodeResultsFacts ==
  ASSUME TypeOK, NamesApart
  PROVE  /\ NodeResults \in Results
         /\ \A k \in Key : NodeResults[k] = IF k = InputKey THEN Absent ELSE out[k]
         /\ Run!Resolved = Resolved
         /\ Resolved \subseteq Node
         /\ Ran = act \cap Resolved
         /\ ~Run!Halted
<1>1. /\ NodeResults \in Results
      /\ \A k \in Key : NodeResults[k] = IF k = InputKey THEN Absent ELSE out[k]
  BY DEF NodeResults, TypeOK, Results
<1>2. Run!Resolved = Resolved
  BY <1>1, SameGraph DEF Run!Resolved, NodeResults, Resolved, Recorded
<1>3. Resolved \subseteq Node /\ act \subseteq Node
  BY DEF Resolved, Recorded, Key, TypeOK
<1>4. Ran = act \cap Resolved
  BY <1>3 DEF Ran, Resolved, NamesApart
<1> QED
  BY <1>1, <1>2, <1>3, <1>4 DEF Run!Halted

\* A reached node without a result is ready, and active as the abstract run sees it.
LEMMA ReachedIsReady ==
  ASSUME Inv, NamesApart, NEW n \in Reached \ Resolved
  PROVE  /\ n \in Node /\ Run!Ready(n)
         /\ Run!IsActive(wf, n, Ran, NodeResults) <=> IsActive(wf, n, act, out)
<1>1. TypeOK /\ n \in Node /\ n \in wf.node /\ Preds(wf, n) \subseteq Resolved
  BY WorkflowFacts DEF Inv, QueueInv
<1>2. Run!Ready(n)
  BY <1>1, NodeResultsFacts, SameGraph DEF Run!Ready
<1>3. \A p \in Preds(wf, n) : (p \in Ran <=> p \in act) /\ NodeResults[p] = out[p]
  BY <1>1, NodeResultsFacts DEF Resolved, Recorded
<1> QED
  BY <1>1, <1>2, <1>3, ActiveSame, SameGraph

LEMMA FiledResults ==
  ASSUME TypeOK, NamesApart, NEW n \in Node, n \notin Resolved, NEW v \in Output,
         out' = [out EXCEPT ![n] = v], act' = act
  PROVE  /\ NodeResults' = [NodeResults EXCEPT ![n] = v]
         /\ Ran' = IF n \in act THEN Ran \cup {n} ELSE Ran
<1>1. n \in Key /\ n # InputKey /\ v # Absent
  BY AbsentAssumption DEF Key, NamesApart
<1>2. /\ out \in [Key -> Output \cup {Absent}] /\ out' \in [Key -> Output \cup {Absent}]
      /\ \A k \in Key : out'[k] = IF k = n THEN v ELSE out[k]
  BY <1>1 DEF TypeOK, Results
<1>3. NodeResults' = [out' EXCEPT ![InputKey] = Absent]
  BY DEF NodeResults
<1>4. \A k \in Key : [out' EXCEPT ![InputKey] = Absent][k] = [NodeResults EXCEPT ![n] = v][k]
  BY <1>1, <1>2, NodeResultsFacts DEF Results
<1>5. /\ [out' EXCEPT ![InputKey] = Absent] \in [Key -> Output \cup {Absent}]
      /\ [NodeResults EXCEPT ![n] = v] \in [Key -> Output \cup {Absent}]
  BY <1>1, <1>2, NodeResultsFacts DEF Results
<1>6. Recorded(out') = Recorded(out) \cup {n}
  BY <1>1, <1>2 DEF Recorded
<1>7. Recorded(out)' = Recorded(out')
  BY DEF Recorded
<1> QED
  BY <1>3, <1>4, <1>5, <1>6, <1>7 DEF Ran

LEMMA StaysAbstract ==
  ASSUME wf' = wf, input' = input, Ran' = Ran, NodeResults' = NodeResults, Status' = Status
  PROVE  UNCHANGED Run!absVars
BY DEF Run!absVars, Ran, NodeResults, Status

LEMMA InitRefines == Init => Run!Init
<1> SUFFICES ASSUME Init PROVE Run!Init
  OBVIOUS
<1>1. act \cap Recorded(out) = {}
  BY DEF Init
<1>2. [out EXCEPT ![InputKey] = Absent] = [k \in Key |-> Absent]
  BY DEF Init
<1> QED
  BY <1>1, <1>2 DEF Init, Run!Init, Run!Key, Key

LEMMA CallRefines ==
  ASSUME Inv, NamesApart, CallStep
  PROVE  [Run!Next]_(Run!absVars)
<1>1. TypeOK /\ wf' = wf /\ input' = input
  BY DEF Inv, CallStep, Start, FillSkip, FillSpawn, FillOver, JoinOk, JoinErr, JoinPanic,
         FailRun, Shutdown, Finish
<1>2. CASE Start
  <2>1. act = {} /\ act' = {} /\ record = "none" /\ record' = "running"
        /\ out' = [out EXCEPT ![InputKey] = input]
    BY <1>2 DEF Start, Inv, CallInv
  <2>2. NodeResults' = NodeResults
    BY <1>1, <2>1 DEF NodeResults, TypeOK, Results
  <2> QED
    BY <1>1, <2>1, <2>2, StaysAbstract DEF Ran, Status
<1>3. CASE FillSkip
  <2> DEFINE n == Head(ready)
  <2>1. /\ record = "running" /\ record' = record /\ act' = act
        /\ ~IsActive(wf, n, act, out) /\ out' = [out EXCEPT ![n] = SkipMarker]
    BY <1>3 DEF FillSkip, Inv, CallInv
  <2>2. n \in Node /\ n \in Queued
    BY <1>1, <1>3, TailFacts DEF FillSkip, Inv, QueueInv, TypeOK, Queued, Elements
  <2>3. n \notin act /\ n \in Reached \ Resolved
    BY <2>2 DEF Inv, QueueInv, Reached
  <2>4. SkipMarker \in Output
    BY DEF SkipMarker, Output
  <2>5. Run!Ready(n) /\ ~Run!IsActive(wf, n, Ran, NodeResults)
    BY <2>1, <2>3, ReachedIsReady
  <2>6. NodeResults' = [NodeResults EXCEPT ![n] = SkipMarker] /\ Ran' = Ran
    BY <1>1, <2>1, <2>2, <2>3, <2>4, FiledResults
  <2>7. Status = "running" /\ Status' = "running"
    BY <2>1 DEF Status
  <2>8. Run!Skip(n)
    BY <1>1, <2>5, <2>6, <2>7, NodeResultsFacts, SameGraph
    DEF Run!Skip, Ran, NodeResults, Status
  <2> QED
    BY <2>2, <2>8 DEF Run!Next
<1>4. ASSUME NEW n \in Node, JoinOk(n)
      PROVE  [Run!Next]_(Run!absVars)
  <2>1. /\ record = "running" /\ record' = record /\ act' = act
        /\ task[n] = "ok" /\ out' = [out EXCEPT ![n] = val[n]]
    BY <1>4 DEF JoinOk, Inv, CallInv
  <2>2. n \in act /\ n \in Reached \ Resolved
    BY <2>1 DEF Inv, TaskInv, InFlight, Reached
  <2>3. val[n] \in HandlerOutput /\ val[n] \in Output /\ IsActive(wf, n, act, out)
    BY <2>1, <2>2, OutputsAssumption DEF Inv, TaskInv, BranchInv
  <2>4. Run!Ready(n) /\ Run!IsActive(wf, n, Ran, NodeResults)
    BY <2>2, <2>3, ReachedIsReady
  <2>5. NodeResults' = [NodeResults EXCEPT ![n] = val[n]] /\ Ran' = Ran \cup {n}
    BY <1>1, <2>1, <2>2, <2>3, FiledResults
  <2>6. Status = "running" /\ Status' = "running"
    BY <2>1 DEF Status
  <2>7. Run!Run(n)
    BY <1>1, <2>3, <2>4, <2>5, <2>6, NodeResultsFacts
    DEF Run!Run, Ran, NodeResults, Status
  <2> QED
    BY <2>7 DEF Run!Next
<1>5. ASSUME act' = act, out' = out, record' = record
      PROVE  [Run!Next]_(Run!absVars)
  BY <1>1, <1>5, StaysAbstract DEF Ran, NodeResults, Status
<1>6. CASE FillSpawn
  <2>1. /\ ready \in Seq(Node) /\ ready # <<>> /\ act' = act \cup {Head(ready)}
        /\ out' = out /\ record' = record
    BY <1>1, <1>6 DEF FillSpawn, TypeOK
  <2>2. Head(ready) \notin Resolved /\ Head(ready) \in Node
    BY <2>1, TailFacts DEF Inv, QueueInv, Queued, Elements
  <2>3. Head(ready) \notin Recorded(out)
    BY <2>2 DEF Resolved, NamesApart
  <2>4. Ran' = Ran
    BY <2>1, <2>3 DEF Ran, Recorded
  <2> QED
    BY <1>1, <2>1, <2>4, StaysAbstract DEF NodeResults, Status
<1>7. CASE FailRun \/ \E n \in Node : JoinPanic(n)
  <2>1. record = "running" /\ record' = "failed" /\ act' = act /\ out' = out
    BY <1>7 DEF FailRun, JoinPanic, Inv, CallInv
  <2>2. Run!Fail
    BY <1>1, <2>1 DEF Run!Fail, Recorded
  <2> QED
    BY <2>2 DEF Run!Next
<1>8. CASE Finish
  <2>1. /\ record = "running" /\ record' = "finished" /\ act' = act /\ out' = out
        /\ pc = "finish"
    BY <1>8 DEF Finish, Inv, CallInv
  <2>2. ASSUME NEW n \in wf.node, Run!Ready(n)
        PROVE  FALSE
    <3>1. n \notin Resolved /\ Preds(wf, n) \subseteq Resolved
      BY <1>1, <2>2, NodeResultsFacts, SameGraph DEF Run!Ready
    <3>2. Resolved = Ordered(wf)
      BY <2>1, AllResolved
    <3> QED
      BY <1>1, <3>1, <3>2, WorkflowFacts
  <2>3. Run!Complete
    BY <1>1, <2>1, <2>2 DEF Run!Complete, Recorded
  <2> QED
    BY <2>3 DEF Run!Next
<1> QED
  BY <1>2, <1>3, <1>4, <1>5, <1>6, <1>7, <1>8
  DEF CallStep, FillOver, JoinErr, Shutdown

\* In whatever order tasks end and however the call returns, the results on record
\* and the run store tell of one abstract run, which does not act on fail_fast.
THEOREM CallTellsOneRun ==
  ASSUME NamesApart
  PROVE  Spec => ImplementsDagRun
<1>1. Init => Run!Init
  BY InitRefines
<1>2. Inv /\ [Next]_vars => [Run!Next]_(Run!absVars)
  <2>1. ASSUME Inv, [Next]_vars
        PROVE  [Run!Next]_(Run!absVars)
    <3>1. CASE \/ UNCHANGED vars
               \/ \E n \in Node : TaskStep(n)
               \/ \E b \in work : BranchOver(b)
      <4>1. wf' = wf /\ input' = input /\ act' = act /\ out' = out /\ record' = record
        BY <3>1 DEF vars, call, TaskStep, HandlerOk, HandlerErr, BackoffOver, HandlerTimeout,
                    HandlerPanic, Aborted, BranchOver
      <4> QED
        BY <4>1, StaysAbstract DEF Ran, NodeResults, Status, Recorded
    <3>2. CASE CallStep
      BY <2>1, <3>2, CallRefines
    <3> QED
      BY <2>1, <3>1, <3>2 DEF Next
  <2> QED
    BY <2>1
<1> QED
  BY <1>1, <1>2, InvHolds, PTL DEF Spec, ImplementsDagRun, Run!Spec
=============================================================================
