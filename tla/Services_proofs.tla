--------------------------- MODULE Services_proofs ---------------------------
(***************************************************************************)
(* The services around the engines, each for every value of its constants: *)
(* the deployments of a name, the planner of the runtime, the synthesis of *)
(* a plan, the core's scheduler, the configuration that is reloaded, the   *)
(* commands, the handlers of a node, and the core's engine.  In MCServices *)
(* a behaviour is about one service and the others rest, so that each has  *)
(* an invariant of its own; that of one that rests is kept because its     *)
(* variables are.                                                          *)
(***************************************************************************)
EXTENDS MCServices, Order_proofs, WellFoundedInduction, TLAPS

-----------------------------------------------------------------------------
(* Deployments: the marks.                                                  *)

Deployment == [version : Version, spec : Deployable]
Request == [version : {0}, spec : Deployable]

LEMMA MarksAreNone == \A a \in Deployment : a \notin {None, Torn}
BY MarksApart DEF Deployment

-----------------------------------------------------------------------------
(* Deployments: the inductive invariant.                                    *)

AtFile(c) == pc[c] \in {"create", "write"}
Putting(c) == pc[c] = "put" \/ AtFile(c)

StoreTypes ==
  /\ stored \in [Version -> {None, Torn} \cup Deployment]
  /\ \A v \in Version : Readable(v) => stored[v] \in Deployment /\ stored[v].version = v
  /\ runs \in [Version -> Seq(Deployable)]
  /\ pc \in [Caller -> {"idle", "list", "put", "create", "write", "deployed", "ran"}]
  /\ mine \in [Caller -> {None} \cup Request \cup Deployment]
  /\ \A c \in Caller : pc[c] = "list" => mine[c] \in Request
  /\ \A c \in Caller : pc[c] \notin {"idle", "list"} => mine[c] \in Deployment
  /\ acked \subseteq Deployment
  /\ raced \subseteq Version

\* Where nobody's writing met another's, a process that is writing a file is alone with
\* it, and the file is as that process left it.
FileInv ==
  /\ \A c \in Caller : AtFile(c) => backend = "files"
  /\ \A c, d \in Caller :
       c # d /\ AtFile(c) /\ AtFile(d) /\ mine[c].version = mine[d].version
         => mine[c].version \in raced
  /\ \A c \in Caller : AtFile(c) /\ mine[c].version \notin raced =>
       stored[mine[c].version] = IF pc[c] = "create" THEN None ELSE Torn

Below(v) == \A u \in Version : u < v => Readable(u) \/ u \in raced

\* Nothing is put above a version that is missing or torn.
OrderInv ==
  /\ \A v \in Version : stored[v] # None => Below(v)
  /\ \A c \in Caller : Putting(c) => Below(mine[c].version)

Stands(a) == a.version \notin raced => stored[a.version] = a

AckInv ==
  /\ \A a \in acked : Stands(a)
  /\ \A c \in Caller : pc[c] \in {"deployed", "ran"} => mine[c] \in acked
  /\ \A v \in Version \ raced : \A k \in DOMAIN runs[v] :
       Readable(v) /\ runs[v][k] = stored[v].spec

StoreInv == StoreTypes /\ FileInv /\ OrderInv /\ AckInv

-----------------------------------------------------------------------------
(* The next version.                                                        *)

LEMMA GreatestOf ==
  ASSUME NEW N \in Nat, NEW S \in SUBSET (0..N), S # {}
  PROVE  \E m \in S : \A k \in S : k <= m
<1> DEFINE T == {N - k : k \in S}
<1>1. T \subseteq Nat /\ T # {}
  <2>1. \A k \in S : k \in 0..N /\ N - k \in Nat
    OBVIOUS
  <2> QED
    BY <2>1
<1>2. PICK m \in T : \A k \in T : <<k, m>> \notin OpToRel(<, Nat)
  BY <1>1, WFMin, NatLessThanWellFounded
<1>3. \A k \in T : ~(k < m)
  BY <1>1, <1>2, Zenon DEF OpToRel
<1>4. PICK x \in S : m = N - x
  BY <1>2
<1>5. \A k \in S : k <= x
  <2> TAKE k \in S
  <2>1. N - k \in T
    OBVIOUS
  <2>2. ~(N - k < N - x)
    BY <1>3, <1>4, <2>1
  <2> QED
    BY <2>2
<1> QED
  BY <1>5

LEMMA NextVersionFacts ==
  ASSUME StoreInv, NextVersion \in Version
  PROVE  Below(NextVersion)
<1> DEFINE S == {v \in Version : Readable(v)} \cup {0}
<1>1. S \in SUBSET (0..MaxVersion) /\ S # {} /\ MaxVersion \in Nat
  BY MarksApart DEF Version
<1>2. Max(S) \in S /\ \A k \in S : k <= Max(S)
  <2>1. PICK m \in S : \A k \in S : k <= m
    BY <1>1, GreatestOf
  <2> HIDE DEF S
  <2>2. \A k \in S : m >= k
    BY <1>1, <2>1
  <2>3. Max(S) \in S /\ \A k \in S : Max(S) >= k
    BY <2>1, <2>2 DEF Max
  <2> QED
    BY <1>1, <2>3
<1>3. NextVersion = Max(S) + 1
  BY DEF NextVersion
<1> HIDE DEF S
<1>4. ASSUME NEW u \in Version, u < NextVersion
      PROVE  Readable(u) \/ u \in raced
  <2>0. Max(S) \in 0..MaxVersion
    BY <1>1, <1>2
  <2>1. u <= Max(S) /\ u \in Nat /\ u # 0 /\ Max(S) \in Nat
    BY <1>1, <2>0, <1>3, <1>4 DEF Version
  <2>2. Max(S) # 0
    BY <2>1
  <2>3. Max(S) \in Version /\ Readable(Max(S))
    BY <1>2, <2>2 DEF S
  <2>4. CASE u = Max(S)
    BY <2>3, <2>4
  <2>5. CASE u < Max(S)
    BY <2>3, <2>5 DEF StoreInv, OrderInv, Below, Readable
  <2> QED
    BY <2>1, <2>4, <2>5
<1> QED
  BY <1>4 DEF Below

-----------------------------------------------------------------------------
(* Every step keeps the invariant.                                          *)

\* Only the one that writes a version changes what is stored of it.
Writes(c) ==
  /\ stored[mine[c].version] \in {None, Torn} \/ mine[c].version \in raced
  /\ Putting(c) /\ mine[c] \in Deployment
  /\ \A v \in Version : v # mine[c].version => stored'[v] = stored[v]

\* What is readable, and was not raced, stays as it is.
LEMMA ReadableStays ==
  ASSUME StoreInv, NEW c \in Caller, UNCHANGED stored \/ Writes(c), raced \subseteq raced'
  PROVE  /\ \A v \in Version \ raced' :
              Readable(v) => Readable(v)' /\ stored'[v] = stored[v]
         /\ \A v \in Version : Below(v) => Below(v)'
<1>1. ASSUME NEW v \in Version \ raced', Readable(v)
      PROVE  Readable(v)' /\ stored'[v] = stored[v]
  BY <1>1 DEF Writes, Readable
<1>2. Version' = Version
  BY DEF Version
<1> QED
  BY <1>1, <1>2 DEF Below

StoreActs(c) ==
  \/ Ask(c) \/ List(c) \/ PutAgain(c) \/ PutMemory(c) \/ PutLook(c) \/ PutCreate(c) \/ PutWrite(c)
  \/ Crash(c) \/ Run(c) \/ RecordRun(c)

\* What the writing steps store.
LEMMA Storing ==
  ASSUME StoreInv, NEW c \in Caller, PutMemory(c) \/ PutCreate(c) \/ PutWrite(c)
  PROVE  /\ mine[c] \in Deployment /\ mine[c].version \in Version /\ mine[c].spec \in Deployable
         /\ mine[c] = [version |-> mine[c].version, spec |-> mine[c].spec]
         /\ mine[c] \notin {None, Torn}
         /\ Writes(c)
         /\ stored' \in [Version -> {None, Torn} \cup Deployment]
         /\ PutMemory(c) => stored'[mine[c].version] = mine[c]
         /\ PutCreate(c) => stored'[mine[c].version] = Torn
         /\ PutWrite(c) => \/ stored'[mine[c].version] = mine[c]
                           \/ stored[mine[c].version] # Torn /\ stored'[mine[c].version] = Torn
<1>1. Putting(c) /\ mine[c] \in Deployment
  BY DEF PutMemory, PutCreate, PutWrite, Putting, AtFile, StoreInv, StoreTypes
<1>2. /\ mine[c].version \in Version /\ mine[c].spec \in Deployable
      /\ mine[c] = [version |-> mine[c].version, spec |-> mine[c].spec]
  BY <1>1 DEF Deployment
<1>3. mine[c] \notin {None, Torn}
  BY <1>1, MarksAreNone
<1>4. PICK written \in {mine[c], Torn} :
        /\ stored' = [stored EXCEPT ![mine[c].version] = written]
        /\ PutMemory(c) => written = mine[c]
        /\ PutCreate(c) => written = Torn
        /\ PutWrite(c) => written = mine[c] \/ stored[mine[c].version] # Torn
  BY <1>1 DEF PutMemory, PutCreate, PutWrite
<1>5. stored \in [Version -> {None, Torn} \cup Deployment]
  BY DEF StoreInv, StoreTypes
<1>6. stored[mine[c].version] \in {None, Torn} \/ mine[c].version \in raced
  BY DEF PutMemory, PutCreate, PutWrite, StoreInv, FileInv, AtFile
<1> QED
  BY <1>1, <1>2, <1>3, <1>4, <1>5, <1>6 DEF Writes

LEMMA StoreEffect ==
  ASSUME StoreInv, NEW c \in Caller, StoreActs(c)
  PROVE  /\ UNCHANGED stored \/ Writes(c)
         /\ PutMemory(c) \/ PutCreate(c) \/ PutWrite(c) \/ UNCHANGED stored
         /\ raced \subseteq raced' /\ backend' = backend
         /\ \A d \in Caller : d # c => pc'[d] = pc[d] /\ mine'[d] = mine[d]
<1>1. PutMemory(c) \/ PutCreate(c) \/ PutWrite(c) \/ UNCHANGED stored
  BY DEF StoreActs, Ask, List, PutAgain, PutLook, Crash, Run, RecordRun
<1>2. raced \subseteq raced' /\ backend' = backend
  BY DEF StoreActs, Ask, List, PutAgain, PutMemory, PutLook, PutCreate, PutWrite, Crash, Run,
         RecordRun
<1>3. \A d \in Caller : d # c => pc'[d] = pc[d] /\ mine'[d] = mine[d]
  BY DEF StoreActs, Ask, List, PutAgain, PutMemory, PutLook, PutCreate, PutWrite, Crash, Run,
         RecordRun, Goto, Leave, Acknowledge, StoreInv, StoreTypes
<1> QED
  BY <1>1, <1>2, <1>3, Storing

LEMMA StoreNextTypes ==
  ASSUME StoreInv, NEW c \in Caller, StoreActs(c)
  PROVE  StoreTypes'
<1> DEFINE Points == {"idle", "list", "put", "create", "write", "deployed", "ran"}
           Mine == {None} \cup Request \cup Deployment
           Fits(where, m) ==
             /\ where \in Points /\ m \in Mine
             /\ where = "list" => m \in Request
             /\ where \notin {"idle", "list"} => m \in Deployment
<1>0. StoreTypes
  BY DEF StoreInv
<1>1. Version' = Version /\ Deployment' = Deployment /\ Request' = Request
  BY DEF Version, Deployment, Request
<1>2. stored' \in [Version -> {None, Torn} \cup Deployment]
  BY <1>0, StoreEffect, Storing DEF StoreTypes
<1>3. ASSUME NEW v \in Version, Readable(v)'
      PROVE  stored'[v] \in Deployment /\ stored'[v].version = v
  <2>1. CASE stored'[v] = stored[v]
    BY <1>0, <1>3, <2>1 DEF StoreTypes, Readable
  <2>2. CASE stored'[v] # stored[v]
    <3>1. PutMemory(c) \/ PutCreate(c) \/ PutWrite(c)
      BY <2>2, StoreEffect
    <3>2. v = mine[c].version /\ stored'[v] \in {Torn, mine[c]} /\ mine[c] \in Deployment
      BY <2>2, <3>1, Storing DEF Writes
    <3> QED
      BY <1>3, <3>2 DEF Readable
  <2> QED
    BY <2>1, <2>2
<1>4. runs' \in [Version -> Seq(Deployable)]
  <2>1. CASE RecordRun(c)
    <3>1. mine[c] \in Deployment
      BY <1>0, <2>1 DEF RecordRun, StoreTypes
    <3>2. mine[c].version \in Version /\ mine[c].spec \in Deployable
      BY <3>1 DEF Deployment
    <3>3. Append(runs[mine[c].version], mine[c].spec) \in Seq(Deployable)
      BY <1>0, <3>2 DEF StoreTypes
    <3> QED
      BY <1>0, <2>1, <3>2, <3>3 DEF RecordRun, StoreTypes
  <2>2. CASE ~RecordRun(c)
    BY <1>0, <2>2 DEF StoreTypes, StoreActs, Ask, List, PutAgain, PutMemory, PutLook, PutCreate,
                      PutWrite, Crash, Run
  <2> QED
    BY <2>1, <2>2
<1>5. ASSUME Fits(pc'[c], mine'[c]), pc' \in [Caller -> Points], mine' \in [Caller -> Mine]
      PROVE  /\ \A d \in Caller : pc'[d] = "list" => mine'[d] \in Request
             /\ \A d \in Caller : pc'[d] \notin {"idle", "list"} => mine'[d] \in Deployment
  BY <1>0, <1>5, StoreEffect DEF StoreTypes
<1>6. /\ pc' \in [Caller -> Points] /\ mine' \in [Caller -> Mine] /\ Fits(pc'[c], mine'[c])
  <2>1. ASSUME NEW where \in Points, pc' = [pc EXCEPT ![c] = where],
               mine' = mine \/ mine' = [mine EXCEPT ![c] = None], Fits(where, mine'[c])
        PROVE  /\ pc' \in [Caller -> Points] /\ mine' \in [Caller -> Mine]
               /\ Fits(pc'[c], mine'[c])
    BY <1>0, <2>1 DEF StoreTypes
  <2>2. CASE Ask(c)
    <3>1. PICK what \in Deployable : mine' = [mine EXCEPT ![c] = [version |-> 0, spec |-> what]]
      BY <2>2 DEF Ask
    <3>2. [version |-> 0, spec |-> what] \in Request
      BY DEF Request
    <3>3. pc' = [pc EXCEPT ![c] = "list"]
      BY <2>2 DEF Ask, Goto
    <3> QED
      BY <1>0, <3>1, <3>2, <3>3 DEF StoreTypes
  <2>3. CASE List(c)
    <3>1. mine[c] \in Request /\ NextVersion \in Version
      BY <1>0, <2>3 DEF List, StoreTypes
    <3>2. [mine[c] EXCEPT !.version = NextVersion] \in Deployment
      BY <3>1 DEF Request, Deployment
    <3>3. mine' = [mine EXCEPT ![c] = [mine[c] EXCEPT !.version = NextVersion]]
          /\ pc' = [pc EXCEPT ![c] = "put"]
      BY <2>3 DEF List, Goto
    <3> QED
      BY <1>0, <3>2, <3>3 DEF StoreTypes
  <2>4. CASE /\ pc[c] \notin {"idle", "list"} /\ mine' = mine
             /\ \E where \in Points \ {"list"} : Goto(c, where)
    BY <1>0, <2>1, <2>4 DEF Goto, StoreTypes
  <2>5. CASE Leave(c)
    <3>1. mine' = [mine EXCEPT ![c] = None] /\ pc' = [pc EXCEPT ![c] = "idle"]
      BY <2>5 DEF Leave, Goto
    <3>2. mine'[c] = None
      BY <1>0, <3>1 DEF StoreTypes
    <3> QED
      BY <2>1, <3>1, <3>2
  <2> QED
    BY <2>2, <2>3, <2>4, <2>5 DEF StoreActs, PutAgain, PutMemory, PutLook, PutCreate, PutWrite,
                                  Crash, Run, RecordRun, Acknowledge
<1>7. acked' \subseteq Deployment
  <2>1. acked' = acked \/ (pc[c] \in {"put", "write"} /\ acked' = acked \cup {mine[c]})
    BY DEF StoreActs, Ask, List, PutAgain, PutMemory, PutLook, PutCreate, PutWrite, Crash, Run,
           RecordRun, Acknowledge
  <2> QED
    BY <1>0, <2>1 DEF StoreTypes
<1>8. raced' \subseteq Version
  <2>1. raced' = raced \/ (pc[c] = "put" /\ raced' = raced \cup {mine[c].version})
    BY DEF StoreActs, Ask, List, PutAgain, PutMemory, PutLook, PutCreate, PutWrite, Crash, Run,
           RecordRun
  <2> QED
    BY <1>0, <2>1 DEF StoreTypes, Deployment
<1> QED
  BY <1>1, <1>2, <1>3, <1>4, <1>5, <1>6, <1>7, <1>8 DEF StoreTypes
\* A process comes to its file by looking for it.
LEMMA ComesToFile ==
  ASSUME StoreInv, NEW c \in Caller, StoreActs(c), AtFile(c)'
  PROVE  /\ mine'[c] = mine[c]
         /\ \/ PutLook(c) /\ pc'[c] = "create" /\ UNCHANGED stored
            \/ PutCreate(c) /\ pc'[c] = "write"
<1>1. pc'[c] \in {"create", "write"} /\ DOMAIN pc = Caller
  BY DEF AtFile, StoreInv, StoreTypes
<1>2. PutLook(c) \/ PutCreate(c)
  BY <1>1 DEF StoreActs, Ask, List, PutAgain, PutMemory, PutWrite, Crash, Run, RecordRun, Goto,
              Leave, Acknowledge
<1> QED
  BY <1>1, <1>2 DEF PutLook, PutCreate, Goto

LEMMA NextFiles ==
  ASSUME StoreInv, NEW c \in Caller, StoreActs(c)
  PROVE  FileInv'
<1>1. /\ raced \subseteq raced' /\ backend' = backend
      /\ \A d \in Caller : d # c => pc'[d] = pc[d] /\ mine'[d] = mine[d]
      /\ PutMemory(c) \/ PutCreate(c) \/ PutWrite(c) \/ UNCHANGED stored
  BY StoreEffect
<1>2. \A d \in Caller : d # c => (AtFile(d)' <=> AtFile(d))
  BY <1>1 DEF AtFile
<1>3. ASSUME NEW d \in Caller, AtFile(d)'
      PROVE  backend' = "files"
  <2>1. CASE d # c
    BY <1>1, <1>2, <1>3, <2>1 DEF StoreInv, FileInv
  <2>2. CASE d = c
    BY <1>1, <1>3, <2>2, ComesToFile DEF PutLook, PutCreate, StoreInv, FileInv, AtFile
  <2> QED
    BY <2>1, <2>2
<1>4. ASSUME NEW d \in Caller, d # c, AtFile(c)', AtFile(d), mine'[c].version = mine[d].version
      PROVE  mine[d].version \in raced'
  <2>1. mine'[c] = mine[c] /\ (PutLook(c) \/ PutCreate(c))
    BY <1>4, ComesToFile
  <2>2. CASE PutLook(c)
    BY <1>4, <2>1, <2>2 DEF PutLook, AtFile
  <2>3. CASE PutCreate(c)
    BY <1>1, <1>4, <2>1, <2>3 DEF PutCreate, AtFile, StoreInv, FileInv
  <2> QED
    BY <2>1, <2>2, <2>3
<1>5. ASSUME NEW d \in Caller, NEW e \in Caller, d # e, AtFile(d)', AtFile(e)',
             mine'[d].version = mine'[e].version
      PROVE  mine'[d].version \in raced'
  <2>1. CASE d # c /\ e # c
    BY <1>1, <1>2, <1>5, <2>1 DEF StoreInv, FileInv
  <2>2. CASE d = c
    BY <1>1, <1>2, <1>4, <1>5, <2>2
  <2>3. CASE e = c
    BY <1>1, <1>2, <1>4, <1>5, <2>3
  <2> QED
    BY <2>1, <2>2, <2>3
<1>6. ASSUME NEW d \in Caller, AtFile(d)', mine'[d].version \notin raced'
      PROVE  stored'[mine'[d].version] = IF pc'[d] = "create" THEN None ELSE Torn
  <2>1. CASE d = c
    <3>1. mine'[c] = mine[c]
      BY <1>6, <2>1, ComesToFile
    <3>2. CASE PutLook(c) /\ pc'[c] = "create" /\ UNCHANGED stored
      BY <2>1, <3>1, <3>2 DEF PutLook
    <3>3. CASE PutCreate(c) /\ pc'[c] = "write"
      BY <2>1, <3>1, <3>3, Storing
    <3> QED
      BY <1>6, <2>1, <3>2, <3>3, ComesToFile
  <2>2. CASE d # c
    <3>1. /\ AtFile(d) /\ mine'[d] = mine[d] /\ pc'[d] = pc[d]
          /\ mine[d].version \notin raced /\ backend = "files"
          /\ stored[mine[d].version] = IF pc[d] = "create" THEN None ELSE Torn
          /\ mine[d].version \in Version
      BY <1>1, <1>2, <1>6, <2>2 DEF StoreInv, FileInv, StoreTypes, Deployment, AtFile
    <3>2. CASE PutCreate(c) \/ PutWrite(c)
      <4>1. AtFile(c) /\ Writes(c)
        BY <3>2, Storing DEF PutCreate, PutWrite, AtFile
      <4>2. mine[c].version # mine[d].version
        BY <2>2, <3>1, <4>1 DEF StoreInv, FileInv
      <4> QED
        BY <3>1, <4>1, <4>2 DEF Writes
    <3> QED
      BY <1>1, <3>1, <3>2 DEF PutMemory
  <2> QED
    BY <2>1, <2>2
<1> QED
  BY <1>3, <1>5, <1>6 DEF FileInv

LEMMA NextOrder ==
  ASSUME StoreInv, NEW c \in Caller, StoreActs(c)
  PROVE  OrderInv'
<1>1. /\ \A v \in Version : Below(v) => Below(v)'
      /\ \A d \in Caller : d # c => pc'[d] = pc[d] /\ mine'[d] = mine[d]
      /\ UNCHANGED stored \/ Writes(c)
      /\ Version' = Version
  BY StoreEffect, ReadableStays DEF Version
<1>2. ASSUME NEW v \in Version, stored'[v] # None
      PROVE  Below(v)'
  <2>1. CASE stored'[v] = stored[v]
    BY <1>1, <1>2, <2>1 DEF StoreInv, OrderInv
  <2>2. CASE stored'[v] # stored[v]
    <3>1. Writes(c) /\ v = mine[c].version
      BY <1>1, <2>2 DEF Writes
    <3> QED
      BY <1>1, <3>1 DEF Writes, StoreInv, OrderInv
  <2> QED
    BY <2>1, <2>2
<1>3. ASSUME NEW d \in Caller, Putting(d)'
      PROVE  Below(mine[d].version)'
  <2>0. StoreTypes' /\ StoreTypes
    BY StoreNextTypes DEF StoreInv
  <2>1. CASE Putting(d) /\ mine'[d] = mine[d]
    <3>1. mine[d].version \in Version
      BY <2>0, <2>1 DEF StoreTypes, Putting, AtFile, Deployment
    <3> QED
      BY <1>1, <2>1, <3>1 DEF StoreInv, OrderInv
  <2>2. CASE d = c /\ List(c)
    <3>1. mine'[c].version = NextVersion /\ NextVersion \in Version /\ UNCHANGED <<stored, raced>>
      BY <2>0, <2>2 DEF List, StoreTypes, Request
    <3>2. Below(NextVersion)
      BY <3>1, NextVersionFacts
    <3>3. Below(mine[c].version)'
      BY <3>1, <3>2, <1>1 DEF Below, Readable
    <3> QED
      BY <2>2, <3>3
  <2>3. CASE d = c /\ ~List(c)
    <3>1. pc'[c] \in {"put", "create", "write"} /\ DOMAIN pc = Caller
      BY <1>3, <2>0, <2>3 DEF Putting, AtFile, StoreTypes
    <3>2. PutLook(c) \/ PutCreate(c)
      BY <2>3, <3>1 DEF StoreActs, Ask, PutAgain, PutMemory, PutWrite, Crash, Run, RecordRun,
                        Goto, Leave, Acknowledge
    <3>3. Putting(c) /\ mine'[c] = mine[c]
      BY <3>2 DEF PutLook, PutCreate, Putting, AtFile
    <3> QED
      BY <2>1, <2>3, <3>3
  <2>4. CASE d # c
    BY <1>1, <1>3, <2>1, <2>4 DEF Putting, AtFile
  <2> QED
    BY <2>2, <2>3, <2>4
<1> QED
  BY <1>1, <1>2, <1>3 DEF OrderInv

LEMMA NextAcks ==
  ASSUME StoreInv, NEW c \in Caller, StoreActs(c)
  PROVE  AckInv'
<1>1. /\ \A v \in Version \ raced' : Readable(v) => Readable(v)' /\ stored'[v] = stored[v]
      /\ \A d \in Caller : d # c => pc'[d] = pc[d] /\ mine'[d] = mine[d]
      /\ raced \subseteq raced' /\ Version' = Version
  BY StoreEffect, ReadableStays DEF Version
<1>2. \A a \in Deployment : a.version \in Version /\ a \notin {None, Torn}
  BY MarksAreNone DEF Deployment
<1>3. StoreTypes /\ AckInv
  BY DEF StoreInv
<1>4. ASSUME NEW a \in Deployment, Stands(a)
      PROVE  Stands(a)'
  <2> SUFFICES ASSUME a.version \notin raced'
               PROVE  stored'[a.version] = a
    BY DEF Stands
  <2>1. stored[a.version] = a
    BY <1>1, <1>4 DEF Stands
  <2> QED
    BY <1>1, <1>2, <2>1 DEF Readable
<1>5. ASSUME NEW a \in acked'
      PROVE  Stands(a)'
  <2>1. CASE a \in acked
    BY <1>3, <1>4, <2>1 DEF AckInv, StoreTypes
  <2>2. CASE a \notin acked
    <3>1. /\ a = mine[c] /\ raced' = raced
          /\ \/ PutAgain(c) /\ Readable(a.version) /\ SameContent(stored[a.version], a)
             \/ PutMemory(c)
             \/ PutWrite(c)
      BY <1>5, <2>2 DEF StoreActs, Ask, List, PutAgain, PutMemory, PutLook, PutCreate, PutWrite,
                        Crash, Run, RecordRun, Acknowledge
    <3>2. CASE PutAgain(c) /\ Readable(a.version) /\ SameContent(stored[a.version], a)
      <4>1. a \in Deployment /\ a.version \in Version
        BY <1>2, <1>3, <3>1, <3>2 DEF PutAgain, StoreTypes
      <4>2. /\ stored[a.version] \in Deployment
            /\ stored[a.version].version = a.version /\ stored[a.version].spec = a.spec
        BY <1>3, <3>2, <4>1 DEF StoreTypes, SameContent
      <4>3. stored[a.version] = a
        BY <4>1, <4>2 DEF Deployment
      <4> QED
        BY <3>2, <4>3 DEF Stands, PutAgain
    <3>3. CASE PutMemory(c)
      BY <3>1, <3>3, Storing DEF Stands
    <3>4. CASE PutWrite(c)
      <4>1. a.version \notin raced => stored[a.version] = Torn
        BY <3>1, <3>4 DEF PutWrite, StoreInv, FileInv, AtFile
      <4> QED
        BY <3>1, <3>4, <4>1, Storing DEF Stands
    <3> QED
      BY <3>1, <3>2, <3>3, <3>4
  <2> QED
    BY <2>1, <2>2
<1>6. ASSUME NEW d \in Caller, pc'[d] \in {"deployed", "ran"}
      PROVE  mine'[d] \in acked'
  <2>0. acked \subseteq acked' /\ DOMAIN pc = Caller
    BY <1>3 DEF StoreTypes, StoreActs, Ask, List, PutAgain, PutMemory, PutLook, PutCreate,
                PutWrite, Crash, Run, RecordRun, Acknowledge
  <2>1. CASE d # c
    BY <1>1, <1>3, <1>6, <2>0, <2>1 DEF AckInv
  <2>2. CASE d = c
    <3>1. \/ Acknowledge(c) /\ mine' = mine
          \/ Run(c) /\ mine' = mine /\ pc[c] = "deployed" /\ acked' = acked
      BY <1>6, <2>0, <2>2 DEF StoreActs, Ask, List, PutAgain, PutMemory, PutLook, PutCreate,
                              PutWrite, Crash, Run, RecordRun, Goto, Leave
    <3> QED
      BY <1>3, <2>2, <3>1 DEF Acknowledge, AckInv
  <2> QED
    BY <2>1, <2>2
<1>7. ASSUME NEW v \in Version \ raced', NEW k \in DOMAIN runs'[v]
      PROVE  Readable(v)' /\ runs'[v][k] = stored'[v].spec
  <2>1. CASE k \in DOMAIN runs[v] /\ runs'[v][k] = runs[v][k]
    BY <1>1, <1>3, <1>7, <2>1 DEF AckInv
  <2>2. CASE ~(k \in DOMAIN runs[v] /\ runs'[v][k] = runs[v][k])
    <3>1. RecordRun(c)
      BY <1>7, <2>2 DEF StoreActs, Ask, List, PutAgain, PutMemory, PutLook, PutCreate, PutWrite,
                        Crash, Run
    <3>2. /\ mine[c] \in acked /\ mine[c] \in Deployment /\ mine[c].version \in Version
          /\ runs[v] \in Seq(Deployable)
          /\ runs' = [runs EXCEPT ![mine[c].version] =
                        Append(runs[mine[c].version], mine[c].spec)]
      BY <1>2, <1>3, <3>1 DEF RecordRun, AckInv, StoreTypes
    <3>3. \A i \in DOMAIN Append(runs[v], mine[c].spec) :
            \/ i \in DOMAIN runs[v] /\ Append(runs[v], mine[c].spec)[i] = runs[v][i]
            \/ Append(runs[v], mine[c].spec)[i] = mine[c].spec
      BY <3>2
    <3>4. v = mine[c].version /\ runs'[v][k] = mine[c].spec
      BY <1>3, <1>7, <2>2, <3>2, <3>3 DEF StoreTypes
    <3>5. stored[v] = mine[c] /\ Readable(v)
      BY <1>1, <1>2, <1>3, <3>2, <3>4 DEF AckInv, Stands, Readable
    <3> QED
      BY <1>1, <3>4, <3>5
  <2> QED
    BY <2>1, <2>2
<1> QED
  BY <1>1, <1>5, <1>6, <1>7 DEF AckInv

LEMMA StoreInitInv == Init => StoreInv
<1> SUFFICES ASSUME Init PROVE StoreInv
  OBVIOUS
<1>1. <<>> \in Seq(Deployable) /\ DOMAIN <<>> = {}
  OBVIOUS
<1>2. StoreTypes
  BY <1>1 DEF Init, StoreTypes, Readable
<1>3. FileInv /\ OrderInv
  BY DEF Init, FileInv, OrderInv, AtFile, Putting
<1>4. AckInv
  BY <1>1 DEF Init, AckInv
<1> QED
  BY <1>2, <1>3, <1>4 DEF StoreInv

LEMMA StoreNextInv == StoreInv /\ [Next]_vars => StoreInv'
<1> SUFFICES ASSUME StoreInv, [Next]_vars PROVE StoreInv'
  OBVIOUS
<1>1. CASE UNCHANGED vars
  BY <1>1 DEF vars, StoreInv, StoreTypes, FileInv, OrderInv, AckInv, AtFile, Putting, Below,
              Stands, Readable, Version, Deployment, Request
<1>2. CASE Next
  <2>1. PICK c \in Caller : StoreActs(c)
    BY <1>2 DEF Next, StoreActs
  <2> QED
    BY <2>1, StoreNextTypes, NextFiles, NextOrder, NextAcks DEF StoreInv
<1> QED
  BY <1>1, <1>2

\* A deployment that a caller was told of stays what it was, the runs recorded for it ran
\* its spec, and only the newest version may be unreadable (deploy_with and both stores,
\* deploy.rs), except where two processes were writing one version's file at a time.
THEOREM AcknowledgedStays == ServicesSpec => []DeployedStays
<1>1. ServicesInit => StoreInv
  BY StoreInitInv DEF ServicesInit
<1>2. StoreInv /\ [ServicesNext]_servicesVars => StoreInv'
  BY StoreNextInv DEF ServicesNext, Rest, servicesVars, deploymentsVars
<1>3. ASSUME StoreInv
      PROVE  DeployedStays
  <2>1. ASSUME NEW a \in acked, a.version \notin raced
        PROVE  Readable(a.version) /\ stored[a.version].spec = a.spec
    <3>1. a \in Deployment /\ stored[a.version] = a
      BY <1>3, <2>1 DEF StoreInv, StoreTypes, AckInv, Stands
    <3>2. a \notin {None, Torn}
      BY <3>1, MarksAreNone
    <3> QED
      BY <3>1, <3>2 DEF Readable
  <2>2. OnlyNewestTears
    <3> SUFFICES ASSUME NEW v \in Version, stored[v] # None, NEW u \in 1..v - 1
                 PROVE  Readable(u) \/ u \in raced
      BY DEF OnlyNewestTears
    <3>1. Below(v)
      BY <1>3 DEF StoreInv, OrderInv
    <3>2. u \in Version /\ u < v
      BY MarksApart DEF Version
    <3> QED
      BY <3>1, <3>2 DEF Below
  <2> QED
    BY <1>3, <2>1, <2>2 DEF DeployedStays, StoreInv, AckInv
<1> QED
  BY <1>1, <1>2, <1>3, PTL DEF ServicesSpec

-----------------------------------------------------------------------------
(* Planner: the inductive invariant.                                        *)

Points == {"new", "looked", "waiting", "taken", "running", "dropping", "written", "over"}

PlannerTypes ==
  /\ \A t \in Task : Gauges!Kind(t) \in Gauges!Kinds
  /\ place \in [Task -> Points]
  /\ told \in [Task -> {"nothing", "result", "timeout"}]
  /\ spare \in [Gauges!Kinds -> Nat]
  /\ gauge \in [Gauges!Kinds -> [free : Nat, total : Nat]]
  /\ seen \in [Task -> Nat]

\* Who holds a permit, timed out or not.
Holding(t) == place[t] \in {"taken", "running", "dropping", "written"}
Holders(k) == {t \in Task : Gauges!Kind(t) = k /\ Holding(t)}

Updaters(k) == {t \in Task : Gauges!Kind(t) = k /\ Gauges!Updating(t)}

\* A permit is free or a task has it.
Permits(k) == IsFiniteSet(Holders(k)) /\ spare[k] + Cardinality(Holders(k)) = Capacity[k]

\* What the one task that is updating a gauge has read is still so, and what is left to
\* do makes the gauge right again.
HalfWay(t, k) ==
  /\ place[t] = "looked" => seen[t] = spare[k] /\ gauge[k].free = spare[k]
  /\ place[t] = "dropping" => seen[t] = spare[k] /\ gauge[k].free = spare[k]
  /\ place[t] = "written" => gauge[k].free = spare[k] + 1

Alone(k) == \A t, u \in Updaters(k) : t = u

Undisturbed(k) ==
  /\ Alone(k)
  /\ \A t \in Updaters(k) : HalfWay(t, k)
  /\ Updaters(k) = {} => gauge[k].free = spare[k]

PlannerInv ==
  /\ PlannerTypes
  /\ \A k \in Gauges!Kinds : Permits(k)
  /\ \A k \in Gauges!Kinds : IsFiniteSet(Updaters(k))
  /\ \A k \in Gauges!Kinds \ overlap : Undisturbed(k)

-----------------------------------------------------------------------------
(* Counting.                                                                *)

LEMMA GaugesCount == \A S : Gauges!Cardinality(S) = Cardinality(S)
BY DEF Gauges!Cardinality, Cardinality

LEMMA AtMostOne ==
  ASSUME NEW S, IsFiniteSet(S), ~(Cardinality(S) > 1), NEW x \in S, NEW y \in S
  PROVE  x = y
<1> SUFFICES ASSUME x # y PROVE FALSE
  OBVIOUS
<1>1. {x, y} \subseteq S
  OBVIOUS
<1>2. IsFiniteSet({x, y}) /\ Cardinality({x, y}) = 2
  <2>1. IsFiniteSet({x}) /\ Cardinality({x}) = 1
    BY FS_Singleton
  <2>2. {x} \cup {y} = {x, y} /\ y \notin {x}
    OBVIOUS
  <2> QED
    BY <2>1, <2>2, FS_AddElement
<1>3. Cardinality({x, y}) <= Cardinality(S)
  BY <1>1, FS_Subset
<1> QED
  BY <1>2, <1>3, FS_CardinalityType

-----------------------------------------------------------------------------
(* What a step does to the sets of tasks.                                   *)

UpdatePoints == {"looked", "taken", "dropping", "written"}
HoldPoints == {"taken", "running", "dropping", "written"}

Moved(S, t, k, in) == IF Gauges!Kind(t) # k THEN S ELSE IF in THEN S \cup {t} ELSE S \ {t}

LEMMA StepMoves ==
  ASSUME PlannerTypes, NEW t \in Task, NEW from \in Points, NEW to \in Points,
         Gauges!Step(t, from, to)
  PROVE  /\ Gauges!Kinds' = Gauges!Kinds
         /\ \A u : Gauges!Kind(u)' = Gauges!Kind(u)
         /\ place' \in [Task -> Points] /\ place[t] = from /\ place'[t] = to
         /\ \A u \in Task : u # t => place'[u] = place[u]
         /\ \A k \in Gauges!Kinds : Updaters(k)' = Moved(Updaters(k), t, k, to \in UpdatePoints)
         /\ \A k \in Gauges!Kinds : Holders(k)' = Moved(Holders(k), t, k, to \in HoldPoints)
         /\ \A k \in Gauges!Kinds : k \notin overlap' =>
              k \notin overlap /\ ~(Cardinality(Updaters(k)') > 1)
<1>1. /\ Gauges!Kinds' = Gauges!Kinds
      /\ \A u : Gauges!Kind(u)' = Gauges!Kind(u)
  BY DEF Gauges!Step, Gauges!Kinds, Gauges!Kind
<1>2. /\ place' \in [Task -> Points] /\ place[t] = from /\ place'[t] = to
      /\ \A u \in Task : u # t => place'[u] = place[u]
  BY DEF Gauges!Step, PlannerTypes
<1>3. \A u \in Task :
        Gauges!Updating(u)' <=> IF u = t THEN to \in UpdatePoints ELSE Gauges!Updating(u)
  BY <1>2 DEF Gauges!Updating, UpdatePoints
<1>4. \A u \in Task : Holding(u)' <=> IF u = t THEN to \in HoldPoints ELSE Holding(u)
  BY <1>2 DEF Holding, HoldPoints
<1>5. ASSUME NEW k \in Gauges!Kinds
      PROVE  Updaters(k)' = Moved(Updaters(k), t, k, to \in UpdatePoints)
  BY <1>1, <1>3 DEF Updaters, Moved
<1>6. ASSUME NEW k \in Gauges!Kinds
      PROVE  Holders(k)' = Moved(Holders(k), t, k, to \in HoldPoints)
  BY <1>1, <1>4 DEF Holders, Moved
<1>7. ASSUME NEW k \in Gauges!Kinds, k \notin overlap'
      PROVE  k \notin overlap /\ ~(Cardinality(Updaters(k)') > 1)
  <2>1. {u \in Task : Gauges!Kind(u) = k /\ Gauges!Updating(u)'} = Updaters(k)'
    BY <1>1 DEF Updaters
  <2> QED
    BY <1>7, <2>1, GaugesCount DEF Gauges!Step
<1> QED
  BY <1>1, <1>2, <1>5, <1>6, <1>7

\* One more or one less task leaves a finite set finite; outside the kinds whose gauge was
\* raced, nobody else is updating it.
LEMMA StepUpdaters ==
  ASSUME PlannerInv, NEW t \in Task, NEW from \in Points, NEW to \in Points,
         Gauges!Step(t, from, to)
  PROVE  /\ \A k \in Gauges!Kinds : IsFiniteSet(Updaters(k)')
         /\ \A k \in Gauges!Kinds : k \notin overlap' => k \notin overlap /\ Alone(k)'
<1>1. PlannerTypes
  BY DEF PlannerInv
<1>2. \A k \in Gauges!Kinds : Updaters(k)' = Moved(Updaters(k), t, k, to \in UpdatePoints)
  BY <1>1, StepMoves
<1>3. ASSUME NEW k \in Gauges!Kinds
      PROVE  IsFiniteSet(Updaters(k)')
  <2>1. IsFiniteSet(Updaters(k))
    BY DEF PlannerInv
  <2>2. IsFiniteSet(Updaters(k) \cup {t}) /\ IsFiniteSet(Updaters(k) \ {t})
    BY <2>1, FS_AddElement, FS_RemoveElement
  <2> QED
    BY <1>2, <2>1, <2>2 DEF Moved
<1>4. ASSUME NEW k \in Gauges!Kinds, k \notin overlap'
      PROVE  k \notin overlap /\ Alone(k)'
  <2>1. k \notin overlap /\ ~(Cardinality(Updaters(k)') > 1)
    BY <1>1, <1>4, StepMoves
  <2>2. \A x, y \in Updaters(k)' : x = y
    BY <2>1, <1>3, AtMostOne
  <2> QED
    BY <2>1, <2>2 DEF Alone
<1> QED
  BY <1>3, <1>4

\* A step that neither takes nor drops a permit leaves the account alone.
LEMMA PermitsStay ==
  ASSUME PlannerInv, NEW t \in Task, NEW from \in Points, NEW to \in Points,
         Gauges!Step(t, from, to),
         from \in HoldPoints <=> to \in HoldPoints, UNCHANGED spare
  PROVE  \A k \in Gauges!Kinds : Permits(k)'
<1> TAKE k \in Gauges!Kinds
<1>1. Permits(k) /\ PlannerTypes
  BY DEF PlannerInv
<1>2. Holders(k)' = Moved(Holders(k), t, k, to \in HoldPoints) /\ place[t] = from
  BY <1>1, StepMoves
<1>3. t \in Holders(k) <=> Gauges!Kind(t) = k /\ from \in HoldPoints
  BY <1>2 DEF Holders, Holding, HoldPoints
<1>4. Holders(k)' = Holders(k)
  BY <1>2, <1>3 DEF Moved
<1> QED
  BY <1>1, <1>4 DEF Permits

\* A step of a task of another kind, or one that no update is part of, disturbs no gauge.
LEMMA GaugesStay ==
  ASSUME PlannerInv, NEW t \in Task, NEW from \in Points, NEW to \in Points,
         Gauges!Step(t, from, to),
         NEW k \in Gauges!Kinds, k \notin overlap',
         gauge'[k] = gauge[k], spare'[k] = spare[k],
         \A u \in Task : Gauges!Kind(u) = k => seen'[u] = seen[u],
         Gauges!Kind(t) # k \/ (from \notin UpdatePoints /\ to \notin UpdatePoints)
  PROVE  Undisturbed(k)'
<1>1. PlannerTypes
  BY DEF PlannerInv
<1>2. k \notin overlap /\ Alone(k)'
  BY StepUpdaters
<1>3. Undisturbed(k)
  BY <1>2 DEF PlannerInv
<1>4. /\ \A u \in Task : u # t => place'[u] = place[u]
      /\ place[t] = from
      /\ Updaters(k)' = Moved(Updaters(k), t, k, to \in UpdatePoints)
  BY <1>1, StepMoves
<1>5. Updaters(k)' = Updaters(k) /\ t \notin Updaters(k)
  BY <1>4 DEF Moved, Updaters, Gauges!Updating, UpdatePoints
<1>6. ASSUME NEW u \in Updaters(k)
      PROVE  HalfWay(u, k)'
  <2>1. u \in Task /\ Gauges!Kind(u) = k /\ u # t /\ HalfWay(u, k)
    BY <1>3, <1>5 DEF Undisturbed, Updaters
  <2> QED
    BY <1>4, <2>1 DEF HalfWay
<1> QED
  BY <1>2, <1>3, <1>5, <1>6 DEF Undisturbed

\* The step that begins an update: nobody else is at one.
LEMMA Begins ==
  ASSUME PlannerInv, NEW t \in Task, NEW from \in Points, NEW to \in Points,
         Gauges!Step(t, from, to),
         from \notin UpdatePoints, to \in UpdatePoints,
         NEW k \in Gauges!Kinds, k = Gauges!Kind(t), k \notin overlap'
  PROVE  gauge[k].free = spare[k] /\ Updaters(k)' = {t} /\ Alone(k)'
<1>1. PlannerTypes
  BY DEF PlannerInv
<1>2. k \notin overlap /\ Alone(k)'
  BY <1>1, StepUpdaters
<1>3. Updaters(k)' = Updaters(k) \cup {t} /\ place[t] = from
  BY <1>1, StepMoves DEF Moved
<1>4. t \notin Updaters(k)
  BY <1>3 DEF Updaters, Gauges!Updating, UpdatePoints
<1>5. Updaters(k) = {}
  BY <1>2, <1>3, <1>4 DEF Alone
<1> QED
  BY <1>1, <1>2, <1>3, <1>5 DEF PlannerInv, Undisturbed

\* A step within an update, or the one that ends it.
LEMMA GoesOn ==
  ASSUME PlannerInv, NEW t \in Task, NEW from \in Points, NEW to \in Points,
         Gauges!Step(t, from, to),
         from \in UpdatePoints,
         NEW k \in Gauges!Kinds, k = Gauges!Kind(t), k \notin overlap'
  PROVE  /\ HalfWay(t, k)
         /\ Updaters(k)' = IF to \in UpdatePoints THEN {t} ELSE {}
         /\ Alone(k)'
<1>1. PlannerTypes
  BY DEF PlannerInv
<1>2. k \notin overlap /\ Alone(k)'
  BY <1>1, StepUpdaters
<1>3. Updaters(k)' = Moved(Updaters(k), t, k, to \in UpdatePoints) /\ place[t] = from
  BY <1>1, StepMoves
<1>4. t \in Updaters(k)
  BY <1>3 DEF Updaters, Gauges!Updating, UpdatePoints
<1>5. Undisturbed(k)
  BY <1>1, <1>2 DEF PlannerInv
<1>6. Updaters(k) = {t}
  BY <1>4, <1>5 DEF Undisturbed, Alone
<1> QED
  BY <1>1, <1>2, <1>3, <1>4, <1>5, <1>6 DEF Undisturbed, Moved
-----------------------------------------------------------------------------
(* Every step keeps the invariant.                                          *)

PlannerActs(t) ==
  \/ Gauges!Look(t) \/ Gauges!WriteBefore(t) \/ Gauges!Take(t) \/ Gauges!WaitedTooLong(t)
  \/ Gauges!WriteAfter(t) \/ Gauges!GiveUp(t)
  \/ Gauges!DropLook(t) \/ Gauges!DropWrite(t) \/ Gauges!DropPermit(t)

LEMMA CapacityTyped ==
  /\ Gauges!Kinds = {"cpu", "gpu", "remote"}
         /\ Capacity \in [Gauges!Kinds -> Nat]
BY KindsKnown DEF Gauges!Kinds

LEMMA PlannerNextTypes ==
  ASSUME PlannerTypes, \A k \in Gauges!Kinds : Permits(k), NEW t \in Task, PlannerActs(t)
  PROVE  PlannerTypes'
<1>1. /\ Gauges!Kinds = {"cpu", "gpu", "remote"}
      /\ Capacity \in [Gauges!Kinds -> Nat] /\ Gauges!Kind(t) \in Gauges!Kinds
  BY CapacityTyped DEF PlannerTypes
<1>2. (\A u : Gauges!Kind(u)' = Gauges!Kind(u)) /\ Gauges!Kinds' = Gauges!Kinds
  BY DEF PlannerActs, Gauges!Look, Gauges!WriteBefore, Gauges!Take, Gauges!WaitedTooLong,
         Gauges!WriteAfter, Gauges!GiveUp, Gauges!DropLook, Gauges!DropWrite, Gauges!DropPermit,
         Gauges!Step, Gauges!Kind, Gauges!Kinds
<1>3. place' \in [Task -> Points]
  BY DEF PlannerActs, Gauges!Look, Gauges!WriteBefore, Gauges!Take, Gauges!WaitedTooLong,
         Gauges!WriteAfter, Gauges!GiveUp, Gauges!DropLook, Gauges!DropWrite, Gauges!DropPermit,
         Gauges!Step, PlannerTypes, Points
<1>4. told' \in [Task -> {"nothing", "result", "timeout"}]
  BY DEF PlannerActs, Gauges!Look, Gauges!WriteBefore, Gauges!Take, Gauges!WaitedTooLong,
         Gauges!WriteAfter, Gauges!GiveUp, Gauges!DropLook, Gauges!DropWrite, Gauges!DropPermit,
         PlannerTypes
<1>5. spare' \in [Gauges!Kinds -> Nat] /\ seen' \in [Task -> Nat]
  BY <1>1 DEF PlannerActs, Gauges!Look, Gauges!WriteBefore, Gauges!Take, Gauges!WaitedTooLong,
              Gauges!WriteAfter, Gauges!GiveUp, Gauges!DropLook, Gauges!DropWrite,
              Gauges!DropPermit, PlannerTypes
<1>6. Gauges!TotalAfter(t) \in Nat /\ Gauges!OneMore(t) \in Nat
  BY <1>1 DEF Gauges!TotalAfter, Gauges!OneMore, PlannerTypes
<1>7. gauge' \in [Gauges!Kinds -> [free : Nat, total : Nat]]
  <2>1. ASSUME NEW n \in Nat, NEW total \in Nat, Gauges!Write(t, n, total)
        PROVE  gauge' \in [Gauges!Kinds -> [free : Nat, total : Nat]]
    BY <1>1, <2>1 DEF Gauges!Write, PlannerTypes
  <2>2. spare[Gauges!Kind(t)] \in Nat /\ seen[t] \in Nat /\ gauge[Gauges!Kind(t)].total \in Nat
    BY <1>1 DEF PlannerTypes
  <2>3. \/ UNCHANGED gauge
        \/ Gauges!Write(t, seen[t], seen[t])
        \/ Gauges!Write(t, spare[Gauges!Kind(t)], Gauges!TotalAfter(t))
        \/ Gauges!Write(t, Gauges!OneMore(t), gauge[Gauges!Kind(t)].total)
    BY DEF PlannerActs, Gauges!Look, Gauges!WriteBefore, Gauges!Take, Gauges!WaitedTooLong,
           Gauges!WriteAfter, Gauges!GiveUp, Gauges!DropLook, Gauges!DropWrite, Gauges!DropPermit
  <2> QED
    BY <1>6, <2>1, <2>2, <2>3 DEF PlannerTypes
<1> QED
  BY <1>2, <1>3, <1>4, <1>5, <1>7 DEF PlannerTypes

\* Taking and dropping a permit moves it between the semaphore and the task.
LEMMA TakeCounts ==
  ASSUME PlannerInv, NEW t \in Task, Gauges!Take(t)
  PROVE  \A k \in Gauges!Kinds : Permits(k)'
<1> TAKE k \in Gauges!Kinds
<1>1. Permits(k) /\ PlannerTypes /\ Gauges!Step(t, "waiting", "taken")
  BY DEF PlannerInv, Gauges!Take
<1>2. Holders(k)' = Moved(Holders(k), t, k, TRUE) /\ place[t] = "waiting"
  BY <1>1, StepMoves DEF Points, HoldPoints
<1>3. t \notin Holders(k)
  BY <1>2 DEF Holders, Holding
<1>4. /\ IsFiniteSet(Holders(k) \cup {t})
      /\ Cardinality(Holders(k) \cup {t}) = Cardinality(Holders(k)) + 1
      /\ Cardinality(Holders(k)) \in Nat
  BY <1>1, <1>3, FS_AddElement, FS_CardinalityType DEF Permits
<1>5. /\ Gauges!Kind(t) \in Gauges!Kinds
      /\ spare \in [Gauges!Kinds -> Nat] /\ spare[Gauges!Kind(t)] > 0
      /\ spare' = [spare EXCEPT ![Gauges!Kind(t)] = @ - 1] /\ Capacity' = Capacity
  BY <1>1 DEF PlannerTypes, Gauges!Take
<1>6. CASE Gauges!Kind(t) = k
  BY <1>1, <1>2, <1>4, <1>5, <1>6 DEF Permits, Moved
<1>7. CASE Gauges!Kind(t) # k
  BY <1>1, <1>2, <1>5, <1>7 DEF Permits, Moved
<1> QED
  BY <1>6, <1>7

LEMMA DropCounts ==
  ASSUME PlannerInv, NEW t \in Task, Gauges!DropPermit(t)
  PROVE  \A k \in Gauges!Kinds : Permits(k)'
<1> TAKE k \in Gauges!Kinds
<1>1. Permits(k) /\ PlannerTypes /\ Gauges!Step(t, "written", "over")
  BY DEF PlannerInv, Gauges!DropPermit
<1>2. /\ place[t] = "written"
      /\ Holders(k)' = IF Gauges!Kind(t) = k THEN Holders(k) \ {t} ELSE Holders(k)
  BY <1>1, StepMoves DEF Points, HoldPoints, Moved
<1>3. Gauges!Kind(t) = k => t \in Holders(k)
  BY <1>2 DEF Holders, Holding
<1>4. Gauges!Kind(t) = k => /\ IsFiniteSet(Holders(k) \ {t})
                     /\ Cardinality(Holders(k) \ {t}) = Cardinality(Holders(k)) - 1
                     /\ Cardinality(Holders(k)) \in Nat
  BY <1>1, <1>3, FS_RemoveElement, FS_CardinalityType DEF Permits
<1>5. /\ Gauges!Kind(t) \in Gauges!Kinds
      /\ spare \in [Gauges!Kinds -> Nat] /\ Capacity' = Capacity
      /\ spare' = [spare EXCEPT ![Gauges!Kind(t)] = @ + 1]
  BY <1>1 DEF PlannerTypes, Gauges!DropPermit
<1>6. CASE Gauges!Kind(t) = k
  BY <1>1, <1>2, <1>4, <1>5, <1>6 DEF Permits
<1>7. CASE Gauges!Kind(t) # k
  BY <1>1, <1>2, <1>5, <1>7 DEF Permits
<1> QED
  BY <1>6, <1>7

LEMMA NextPermits ==
  ASSUME PlannerInv, NEW t \in Task, PlannerActs(t)
  PROVE  \A k \in Gauges!Kinds : Permits(k)'
<1>1. CASE Gauges!Take(t)
  BY <1>1, TakeCounts
<1>2. CASE Gauges!DropPermit(t)
  BY <1>2, DropCounts
<1>3. CASE Gauges!GiveUp(t)
  <2>1. \A k \in Gauges!Kinds : Holders(k)' = Holders(k)
    BY <1>3 DEF Gauges!GiveUp, Holders, Holding, Gauges!Kind
  <2> QED
    BY <1>3, <2>1 DEF Gauges!GiveUp, PlannerInv, Permits, Gauges!Kinds
<1>4. CASE Gauges!Look(t)
  BY <1>4, PermitsStay DEF Gauges!Look, Points, HoldPoints, Gauges!Kinds
<1>5. CASE Gauges!WriteBefore(t)
  BY <1>5, PermitsStay DEF Gauges!WriteBefore, Points, HoldPoints
<1>6. CASE Gauges!WaitedTooLong(t)
  BY <1>6, PermitsStay DEF Gauges!WaitedTooLong, Points, HoldPoints
<1>7. CASE Gauges!WriteAfter(t)
  BY <1>7, PermitsStay DEF Gauges!WriteAfter, Points, HoldPoints
<1>8. CASE Gauges!DropLook(t)
  BY <1>8, PermitsStay DEF Gauges!DropLook, Points, HoldPoints
<1>9. CASE Gauges!DropWrite(t)
  BY <1>9, PermitsStay DEF Gauges!DropWrite, Points, HoldPoints
<1> QED
  BY <1>1, <1>2, <1>3, <1>4, <1>5, <1>6, <1>7, <1>8, <1>9 DEF PlannerActs

\* The gauge of the kind of the task that moves.
LEMMA OwnGauge ==
  ASSUME PlannerInv, NEW t \in Task, PlannerActs(t), ~Gauges!GiveUp(t),
         NEW k \in Gauges!Kinds, k = Gauges!Kind(t), k \notin overlap'
  PROVE  Undisturbed(k)'
<1>0. /\ spare \in [Gauges!Kinds -> Nat] /\ seen \in [Task -> Nat]
      /\ gauge \in [Gauges!Kinds -> [free : Nat, total : Nat]]
  BY DEF PlannerInv, PlannerTypes
<1>1. CASE Gauges!Look(t)
  <2>1. gauge[k].free = spare[k] /\ Updaters(k)' = {t} /\ Alone(k)'
    BY <1>1, Begins DEF Gauges!Look, Points, UpdatePoints
  <2>2. place'[t] = "looked" /\ seen'[t] = spare[k] /\ UNCHANGED <<spare, gauge>>
    BY <1>0, <1>1, StepMoves DEF Gauges!Look, Points, PlannerInv
  <2> QED
    BY <2>1, <2>2 DEF Undisturbed, HalfWay
<1>2. CASE Gauges!WriteBefore(t)
  <2>1. HalfWay(t, k) /\ Updaters(k)' = {} /\ Alone(k)'
    BY <1>2, GoesOn DEF Gauges!WriteBefore, Points, UpdatePoints
  <2>2. seen[t] = spare[k]
    BY <1>2, <2>1 DEF Gauges!WriteBefore, Gauges!Step, HalfWay
  <2> QED
    BY <1>0, <1>2, <2>1, <2>2 DEF Gauges!WriteBefore, Gauges!Write, Undisturbed
<1>3. CASE Gauges!Take(t)
  <2>1. Updaters(k)' = {t} /\ Alone(k)'
    BY <1>3, Begins DEF Gauges!Take, Points, UpdatePoints
  <2>2. place'[t] = "taken"
    BY <1>3, StepMoves DEF Gauges!Take, Points, PlannerInv
  <2> QED
    BY <2>1, <2>2 DEF Undisturbed, HalfWay
<1>4. CASE Gauges!WaitedTooLong(t)
  BY <1>4, GaugesStay DEF Gauges!WaitedTooLong, Points, UpdatePoints
<1>5. CASE Gauges!WriteAfter(t)
  <2>1. Updaters(k)' = {} /\ Alone(k)'
    BY <1>5, GoesOn DEF Gauges!WriteAfter, Points, UpdatePoints
  <2> QED
    BY <1>0, <1>5, <2>1 DEF Gauges!WriteAfter, Gauges!Write, Undisturbed
<1>6. CASE Gauges!DropLook(t)
  <2>1. gauge[k].free = spare[k] /\ Updaters(k)' = {t} /\ Alone(k)'
    BY <1>6, Begins DEF Gauges!DropLook, Points, UpdatePoints
  <2>2. place'[t] = "dropping" /\ seen'[t] = gauge[k].free /\ UNCHANGED <<spare, gauge>>
    BY <1>0, <1>6, StepMoves DEF Gauges!DropLook, Points, PlannerInv
  <2> QED
    BY <2>1, <2>2 DEF Undisturbed, HalfWay
<1>7. CASE Gauges!DropWrite(t)
  <2>1. HalfWay(t, k) /\ Updaters(k)' = {t} /\ Alone(k)'
    BY <1>7, GoesOn DEF Gauges!DropWrite, Points, UpdatePoints
  <2>2. seen[t] = spare[k]
    BY <1>7, <2>1 DEF Gauges!DropWrite, HalfWay
  <2>3. place'[t] = "written" /\ gauge'[k].free = spare[k] + 1 /\ UNCHANGED spare
    BY <1>0, <1>7, <2>2, StepMoves DEF Gauges!DropWrite, Gauges!Write, Gauges!OneMore, Points,
                                       PlannerInv
  <2> QED
    BY <2>1, <2>3 DEF Undisturbed, HalfWay
<1>8. CASE Gauges!DropPermit(t)
  <2>1. HalfWay(t, k) /\ Updaters(k)' = {} /\ Alone(k)'
    BY <1>8, GoesOn DEF Gauges!DropPermit, Points, UpdatePoints
  <2>2. gauge[k].free = spare[k] + 1
    BY <1>8, <2>1 DEF Gauges!DropPermit, Gauges!Step, HalfWay
  <2> QED
    BY <1>0, <1>8, <2>1, <2>2 DEF Gauges!DropPermit, Undisturbed
<1> QED
  BY <1>1, <1>2, <1>3, <1>4, <1>5, <1>6, <1>7, <1>8 DEF PlannerActs

\* The gauges of the other kinds.
LEMMA OtherGauges ==
  ASSUME PlannerInv, NEW t \in Task, PlannerActs(t), ~Gauges!GiveUp(t),
         NEW k \in Gauges!Kinds, k # Gauges!Kind(t), k \notin overlap'
  PROVE  Undisturbed(k)'
<1>1. \E from, to \in Points : Gauges!Step(t, from, to)
  BY DEF PlannerActs, Gauges!Look, Gauges!WriteBefore, Gauges!Take, Gauges!WaitedTooLong,
         Gauges!WriteAfter, Gauges!DropLook, Gauges!DropWrite, Gauges!DropPermit, Points
<1>2. gauge'[k] = gauge[k] /\ spare'[k] = spare[k]
  BY DEF PlannerActs, Gauges!Look, Gauges!WriteBefore, Gauges!Take, Gauges!WaitedTooLong,
         Gauges!WriteAfter, Gauges!DropLook, Gauges!DropWrite, Gauges!DropPermit, Gauges!Write,
         PlannerInv, PlannerTypes
<1>3. \A u \in Task : Gauges!Kind(u) = k => seen'[u] = seen[u]
  BY DEF PlannerActs, Gauges!Look, Gauges!WriteBefore, Gauges!Take, Gauges!WaitedTooLong,
         Gauges!WriteAfter, Gauges!DropLook, Gauges!DropWrite, Gauges!DropPermit, PlannerInv,
         PlannerTypes
<1> QED
  BY <1>1, <1>2, <1>3, GaugesStay

LEMMA PlannerInitInv == Gauges!Init => PlannerInv
<1> SUFFICES ASSUME Gauges!Init PROVE PlannerInv
  OBVIOUS
<1>1. Gauges!Kinds = {"cpu", "gpu", "remote"} /\ Capacity \in [Gauges!Kinds -> Nat]
  BY CapacityTyped
<1>2. need \in [Task -> {"cpu", "gpu", "remote", "named"}]
  BY KindsKnown DEF Gauges!Init
<1>3. \A t \in Task : Gauges!Kind(t) \in Gauges!Kinds
  BY <1>1, <1>2 DEF Gauges!Kind
<1>4. PlannerTypes
  BY <1>1, <1>3 DEF PlannerTypes, Gauges!Init, Points
<1>5. \A k \in Gauges!Kinds : Holders(k) = {} /\ Updaters(k) = {}
  BY DEF Gauges!Init, Holders, Holding, Updaters, Gauges!Updating
<1>6. IsFiniteSet({}) /\ Cardinality({}) = 0
  BY FS_EmptySet
<1>7. \A k \in Gauges!Kinds : Permits(k)
  <2> TAKE k \in Gauges!Kinds
  <2>1. Capacity[k] \in Nat /\ spare[k] = Capacity[k]
    BY <1>1 DEF Gauges!Init
  <2> QED
    BY <1>5, <1>6, <2>1 DEF Permits
<1>8. \A k \in Gauges!Kinds : Undisturbed(k)
  BY <1>5 DEF Undisturbed, Alone, Gauges!Init
<1> QED
  BY <1>4, <1>5, <1>6, <1>7, <1>8 DEF PlannerInv

LEMMA PlannerNextInv == PlannerInv /\ [Gauges!Next]_plannerVars => PlannerInv'
<1> SUFFICES ASSUME PlannerInv, [Gauges!Next]_plannerVars PROVE PlannerInv'
  OBVIOUS
<1>1. CASE UNCHANGED plannerVars
  <2>1. UNCHANGED <<executors, need, place, told, spare, gauge, seen, overlap>>
    BY <1>1 DEF plannerVars
  <2>2. Gauges!Kinds' = Gauges!Kinds /\ \A t : Gauges!Kind(t)' = Gauges!Kind(t)
    BY <2>1 DEF Gauges!Kinds, Gauges!Kind
  <2>3. \A k : Holders(k)' = Holders(k) /\ Updaters(k)' = Updaters(k)
    BY <2>1, <2>2 DEF Holders, Holding, Updaters, Gauges!Updating
  <2>4. PlannerTypes'
    BY <2>1, <2>2 DEF PlannerInv, PlannerTypes
  <2>5. \A k : (Permits(k) => Permits(k)') /\ (Undisturbed(k) => Undisturbed(k)')
    BY <2>1, <2>3 DEF Permits, Undisturbed, Alone, HalfWay
  <2> QED
    BY <2>1, <2>2, <2>3, <2>4, <2>5 DEF PlannerInv
<1>2. CASE Gauges!Next
  <2>1. PICK t \in Task : PlannerActs(t)
    BY <1>2 DEF Gauges!Next, PlannerActs
  <2>2. PlannerTypes' /\ \A k \in Gauges!Kinds : Permits(k)'
    BY <2>1, PlannerNextTypes, NextPermits DEF PlannerInv
  <2>3. Gauges!Kinds' = Gauges!Kinds
    BY DEF Gauges!Kinds
  <2>4. CASE Gauges!GiveUp(t)
    <3>1. \A k \in Gauges!Kinds : Updaters(k)' = Updaters(k)
      BY <2>4 DEF Gauges!GiveUp, Updaters, Gauges!Updating, Gauges!Kind
    <3>2. \A k \in Gauges!Kinds \ overlap : Undisturbed(k)'
      BY <2>4, <3>1 DEF Gauges!GiveUp, Undisturbed, Alone, HalfWay, PlannerInv
    <3> QED
      BY <2>2, <2>3, <2>4, <3>1, <3>2 DEF PlannerInv, Gauges!GiveUp
  <2>5. CASE ~Gauges!GiveUp(t)
    <3>1. PICK from \in Points, to \in Points : Gauges!Step(t, from, to)
      BY <2>1, <2>5 DEF PlannerActs, Gauges!Look, Gauges!WriteBefore, Gauges!Take,
                        Gauges!WaitedTooLong, Gauges!WriteAfter, Gauges!DropLook,
                        Gauges!DropWrite, Gauges!DropPermit, Points
    <3>2. \A k \in Gauges!Kinds : IsFiniteSet(Updaters(k)')
      BY <3>1, StepUpdaters
    <3>3. \A k \in Gauges!Kinds : k \notin overlap' => Undisturbed(k)'
      BY <2>1, <2>5, OwnGauge, OtherGauges
    <3> QED
      BY <2>2, <2>3, <3>2, <3>3 DEF PlannerInv
  <2> QED
    BY <2>4, <2>5
<1> QED
  BY <1>1, <1>2

LEMMA PlannerInvariance == ServicesSpec => []PlannerInv
<1>1. ServicesInit => PlannerInv
  BY PlannerInitInv DEF ServicesInit
<1>2. PlannerInv /\ [ServicesNext]_servicesVars => PlannerInv'
  BY PlannerNextInv DEF ServicesNext, Rest, servicesVars, plannerVars
<1> QED
  BY <1>1, <1>2, PTL DEF ServicesSpec

\* The types, and that no semaphore holds more permits than it was made with.
THEOREM PlannerTypeCorrect == ServicesSpec => []Gauges!TypeOK
<1>1. ASSUME PlannerInv
      PROVE  Gauges!TypeOK
  <2>1. /\ Gauges!Kinds = {"cpu", "gpu", "remote"}
        /\ Capacity \in [Gauges!Kinds -> Nat] /\ PlannerTypes
    BY <1>1, CapacityTyped DEF PlannerInv
  <2>2. ASSUME NEW k \in Gauges!Kinds
        PROVE  spare[k] \in 0..Capacity[k] /\ gauge[k].free \in Nat
    <3>1. Permits(k) /\ Cardinality(Holders(k)) \in Nat
      BY <1>1, FS_CardinalityType DEF PlannerInv, Permits
    <3> QED
      BY <2>1, <3>1 DEF Permits, PlannerTypes
  <2> QED
    BY <2>1, <2>2 DEF Gauges!TypeOK, PlannerTypes, Points
<1> QED
  BY <1>1, PlannerInvariance, PTL

\* However many callers gave up on their tasks, no more tasks run than there are permits;
\* a gauge whose updates never met says what is free whenever no update is under way
\* (acquire_resources, execute_with_resources and the drop of a permit, planner.rs).
THEOREM GaugesTellPermits == ServicesSpec => []GaugeRightUnlessRaced
<1>1. ASSUME PlannerInv
      PROVE  GaugeRightUnlessRaced
  <2>1. /\ Gauges!Kinds = {"cpu", "gpu", "remote"}
        /\ Capacity \in [Gauges!Kinds -> Nat] /\ PlannerTypes
    BY <1>1, CapacityTyped DEF PlannerInv
  <2>2. ASSUME NEW k \in Gauges!Kinds
        PROVE  Cardinality({t \in Task :
                 Gauges!Kind(t) = k /\ place[t] \in {"taken", "running", "dropping", "written"}}) <= Capacity[k]
    <3>1. Permits(k) /\ Cardinality(Holders(k)) \in Nat
      BY <1>1, FS_CardinalityType DEF PlannerInv, Permits
    <3>2. Cardinality(Holders(k)) <= Capacity[k]
      BY <2>1, <3>1 DEF Permits, PlannerTypes
    <3> QED
      BY <3>2 DEF Holders, Holding
  <2>3. ASSUME NEW k \in Gauges!Kinds \ overlap,
               \A t \in Task : Gauges!Kind(t) = k => ~Gauges!Updating(t)
        PROVE  gauge[k].free = spare[k]
    BY <1>1, <2>3 DEF PlannerInv, Undisturbed, Updaters
  <2> QED
    BY <2>2, <2>3, GaugesCount DEF GaugeRightUnlessRaced, Gauges!GaugeRightUnlessRaced,
                      Gauges!NeverOversubscribed
<1> QED
  BY <1>1, PlannerInvariance, PTL

-----------------------------------------------------------------------------
(* Synthesis.                                                               *)

\* What validation accepts: known capabilities, and dependencies on steps that are there.
Sound(p, a) ==
  /\ IsPlan(p)
  /\ \A i \in DOMAIN p : /\ p[i].capability \in Make!EffectiveCatalog(a)
                         /\ p[i].deps \subseteq Make!Ids(p)

LEMMA MakesKept == \A s, K : Make!Kept(s, K) = Kept(s, K)
BY DEF Make!Kept, Make!InOrder, Make!Rank, Make!LessThan, Make!Cardinality,
       Kept, InOrder, Rank, LessThan, Cardinality

LEMMA IsItsSeq ==
  ASSUME NEW n \in Nat, NEW s, s = [i \in 1..n |-> s[i]]
  PROVE  s \in Seq(ToSet(s))
<1>1. DOMAIN s = 1..n
  OBVIOUS
<1>2. \A i \in 1..n : s[i] \in ToSet(s)
  BY <1>1 DEF ToSet
<1>3. s \in [1..n -> ToSet(s)]
  BY <1>2
<1> QED
  BY <1>3

LEMMA SoundIsValid ==
  ASSUME NEW p, NEW a, IsPlan(p)
  PROVE  /\ p # <<>> => (Make!ValidatePlan(p, a) = "ok" <=> Sound(p, a))
         /\ p = <<>> => Make!ValidatePlan(p, a) = "invalid"
<1> DEFINE w == Make!Lower(p)
<1>1. /\ w.nodes = p
      /\ w.connections =
           UNION {{[from |-> dep, to |-> p[i].id, on |-> Make!Label(p, dep, p[i].id)] :
                     dep \in p[i].deps} : i \in DOMAIN p}
  BY DEF Make!Lower
<1>2. \A i \in DOMAIN p : p[i].id \in Make!Ids(p)
  BY DEF Make!Ids
<1>3. (\A c \in w.connections : {c.from, c.to} \subseteq Make!Ids(p)) <=>
      \A i \in DOMAIN p : p[i].deps \subseteq Make!Ids(p)
  <2>1. ASSUME \A i \in DOMAIN p : p[i].deps \subseteq Make!Ids(p), NEW c \in w.connections
        PROVE  {c.from, c.to} \subseteq Make!Ids(p)
    <3>1. PICK i \in DOMAIN p : \E dep \in p[i].deps :
            c = [from |-> dep, to |-> p[i].id, on |-> Make!Label(p, dep, p[i].id)]
      BY <1>1, <2>1
    <3> QED
      BY <1>2, <2>1, <3>1
  <2>2. ASSUME \A c \in w.connections : {c.from, c.to} \subseteq Make!Ids(p),
               NEW i \in DOMAIN p, NEW dep \in p[i].deps
        PROVE  dep \in Make!Ids(p)
    <3> DEFINE c == [from |-> dep, to |-> p[i].id, on |-> Make!Label(p, dep, p[i].id)]
    <3>1. c \in w.connections /\ c.from = dep
      BY <1>1
    <3> QED
      BY <2>2, <3>1
  <2> QED
    BY <2>1, <2>2
<1>4. Make!FromJson(w) = "ok" <=> \A i \in DOMAIN p : p[i].deps \subseteq Make!Ids(p)
  BY <1>1, <1>3 DEF Make!FromJson
<1> QED
  BY <1>4 DEF Make!ValidatePlan, Sound

\* Taking steps away: no step that is left depends on one that went.
LEMMA RemovedIsSound ==
  ASSUME NEW p, NEW a, Sound(p, a), NEW id
  PROVE  Sound(Make!RemoveStep(p, id), a)
<1> DEFINE K == {i \in DOMAIN p : p[i].id # id}
           rest == Kept(p, K)
           q == Make!RemoveStep(p, id)
<1>1. p \in Seq(ToSet(p)) /\ K \in SUBSET DOMAIN p
  BY DEF Sound, IsPlan
<1>2. /\ rest \in Seq(ToSet(p))
      /\ \E from \in [DOMAIN rest -> K] :
           /\ \A i \in DOMAIN rest : rest[i] = p[from[i]]
           /\ \A k \in K : \E i \in DOMAIN rest : from[i] = k
           /\ \A i, j \in DOMAIN rest : i < j <=> from[i] < from[j]
  <2> HIDE DEF K
  <2> DEFINE T == ToSet(p)
  <2>1. p \in Seq(T)
    BY <1>1
  <2> HIDE DEF T
  <2>2. /\ Kept(p, K) \in Seq(T)
        /\ \E from \in [DOMAIN Kept(p, K) -> K] :
              /\ \A i \in DOMAIN Kept(p, K) : Kept(p, K)[i] = p[from[i]]
              /\ \A k \in K : \E i \in DOMAIN Kept(p, K) : from[i] = k
              /\ \A i, j \in DOMAIN Kept(p, K) : i < j <=> from[i] < from[j]
    BY <1>1, <2>1, KeptFacts
  <2> QED
    BY <2>2 DEF T
<1>3. q = [i \in DOMAIN rest |-> [rest[i] EXCEPT !.deps = @ \ {id},
                                              !.edges = [t \in DOMAIN @ \ {id} |-> @[t]]]]
  BY MakesKept DEF Make!RemoveStep
<1> HIDE DEF rest, q
<1>4. PICK from \in [DOMAIN rest -> K] :
        /\ \A i \in DOMAIN rest : rest[i] = p[from[i]]
        /\ \A k \in K : \E i \in DOMAIN rest : from[i] = k
  BY <1>2
<1>5. \A i \in DOMAIN rest :
        {"id", "capability", "deps", "edges", "model"} \subseteq DOMAIN rest[i]
  BY <1>4 DEF Sound, IsPlan
<1>6. \A i \in DOMAIN rest :
        /\ DOMAIN q[i] = DOMAIN rest[i] /\ q[i].id = rest[i].id
        /\ q[i].capability = rest[i].capability /\ q[i].deps = rest[i].deps \ {id}
  BY <1>3, <1>5
<1>7. IsPlan(q)
  <2>1. Len(rest) \in Nat /\ DOMAIN rest = 1..Len(rest)
    BY <1>2
  <2>2. DOMAIN q = 1..Len(rest) /\ q = [i \in 1..Len(rest) |-> q[i]]
    BY <1>3, <2>1
  <2>3. q \in Seq(ToSet(q))
    BY <2>1, <2>2, IsItsSeq
  <2> QED
    BY <1>3, <1>5, <1>6, <2>2, <2>3 DEF IsPlan
<1>8. ASSUME NEW i \in DOMAIN q
      PROVE  q[i].capability \in Make!EffectiveCatalog(a) /\ q[i].deps \subseteq Make!Ids(q)
  <2>1. i \in DOMAIN rest /\ from[i] \in DOMAIN p
    BY <1>3, <1>4
  <2>2. q[i].capability = p[from[i]].capability /\ q[i].deps = p[from[i]].deps \ {id}
    BY <1>4, <1>6, <2>1
  <2>3. ASSUME NEW dep \in q[i].deps
        PROVE  dep \in Make!Ids(q)
    <3>1. dep # id /\ dep \in Make!Ids(p)
      BY <2>1, <2>2, <2>3 DEF Sound
    <3>2. PICK k \in K : p[k].id = dep
      BY <3>1 DEF Make!Ids
    <3>3. PICK j \in DOMAIN rest : from[j] = k
      BY <1>4
    <3>4. j \in DOMAIN q /\ q[j].id = dep
      BY <1>3, <1>4, <1>6, <3>2, <3>3
    <3> QED
      BY <3>4 DEF Make!Ids
  <2> QED
    BY <2>1, <2>2, <2>3 DEF Sound
<1> QED
  BY <1>7, <1>8 DEF Sound, q

LEMMA ModelledIsSound ==
  ASSUME NEW p, NEW a, Sound(p, a), NEW id, NEW model
  PROVE  Sound(Make!SetModel(p, id, model), a)
<1> DEFINE q == Make!SetModel(p, id, model)
<1>1. PICK k : q = p \/ q = [p EXCEPT ![k].model = model]
  BY DEF Make!SetModel
<1>2. p \in Seq(ToSet(p)) /\ \A i \in DOMAIN p :
        {"id", "capability", "deps", "edges", "model"} \subseteq DOMAIN p[i]
  BY DEF Sound, IsPlan
<1> HIDE DEF q
<1>3. CASE q = [p EXCEPT ![k].model = model]
  <2>1. DOMAIN q = DOMAIN p
    BY <1>3
  <2>2. \A i \in DOMAIN p : DOMAIN q[i] = DOMAIN p[i] /\ q[i].id = p[i].id
          /\ q[i].capability = p[i].capability /\ q[i].deps = p[i].deps
    BY <1>2, <1>3
  <2>3. q \in Seq(ToSet(q))
    <3>1. Len(p) \in Nat /\ DOMAIN p = 1..Len(p)
      BY <1>2
    <3>2. q = [i \in 1..Len(p) |-> q[i]]
      BY <1>2, <1>3, <2>1, <3>1
    <3> QED
      BY <3>1, <3>2, IsItsSeq
  <2>4. IsPlan(q)
    BY <1>2, <2>1, <2>2, <2>3 DEF IsPlan
  <2>5. Make!Ids(q) = Make!Ids(p)
    BY <2>1, <2>2 DEF Make!Ids
  <2> QED
    BY <2>1, <2>2, <2>4, <2>5 DEF Sound, q
<1> QED
  BY <1>1, <1>3 DEF q

SynthesisInv ==
  scrubbed =>
    /\ draft # "asking" /\ Sound(plan, allowed)
    /\ draft \in {"failed", "panicked"} => plan = <<>>

LEMMA SynthesisNext ==
  ASSUME SynthesisInv, Make!Next \/ UNCHANGED synthesisVars
  PROVE  SynthesisInv'
<1>1. CASE UNCHANGED <<allowed, draft, plan, scrubbed>>
  BY <1>1 DEF SynthesisInv, Sound, Make!EffectiveCatalog, Make!Ids, Make!Supported
<1>2. CASE Make!PlannerFails
  BY <1>2 DEF Make!PlannerFails, SynthesisInv
<1>3. CASE Make!PlannerAnswers
  <2>1. PICK p \in Plan :
          /\ plan' = p /\ allowed' = allowed
          /\ scrubbed' = (Make!ValidatePlan(p, allowed) = "ok")
          /\ Make!ValidatePlan(p, allowed) = "ok" => draft' = "accepted"
    BY <1>3 DEF Make!PlannerAnswers, Make!Validated
  <2>2. CASE Make!ValidatePlan(p, allowed) = "ok"
    <3>1. Sound(p, allowed)
      BY <2>2, PlansKnown, SoundIsValid
    <3> QED
      BY <2>1, <2>2, <3>1 DEF SynthesisInv
  <2>3. CASE Make!ValidatePlan(p, allowed) # "ok"
    BY <2>1, <2>3 DEF SynthesisInv
  <2> QED
    BY <2>2, <2>3
<1>4. CASE Make!Edit
  <2>1. draft' = "edited" /\ allowed' = allowed
    BY <1>4 DEF Make!Edit
  <2>2. ASSUME scrubbed'
        PROVE  Sound(plan', allowed)
    <3>1. scrubbed
      BY <1>4, <2>2 DEF Make!Edit
    <3>2. \/ \E id : plan' = Make!RemoveStep(plan, id)
          \/ \E id, model : plan' = Make!SetModel(plan, id, model)
      BY <1>4, <2>2 DEF Make!Edit
    <3> QED
      BY <3>1, <3>2, RemovedIsSound, ModelledIsSound DEF SynthesisInv
  <2> QED
    BY <2>1, <2>2 DEF SynthesisInv
<1>5. CASE Make!Revalidate
  <2>1. UNCHANGED <<allowed, plan, scrubbed>>
        /\ Make!Validated(plan, Make!ValidatePlan(plan, allowed))
    BY <1>5 DEF Make!Revalidate
  <2>2. ASSUME scrubbed
        PROVE  draft' = "accepted" \/ (draft' = "failed" /\ plan = <<>>)
    <3>1. IF plan = <<>> THEN Make!ValidatePlan(plan, allowed) = "invalid"
                         ELSE Make!ValidatePlan(plan, allowed) = "ok"
      BY <2>2, SoundIsValid DEF SynthesisInv, Sound
    <3> QED
      BY <2>1, <3>1 DEF Make!Validated
  <2> QED
    BY <2>1, <2>2 DEF SynthesisInv
<1>6. CASE Make!Regenerate
  BY <1>6 DEF Make!Regenerate, SynthesisInv
<1> QED
  BY <1>1, <1>2, <1>3, <1>4, <1>5, <1>6 DEF Make!Next, synthesisVars

\* For any plan that was accepted and any number of steps taken out of it, the plan is accepted
\* again or empty (remove_step of plan.rs, validate_plan of lib.rs): validation neither refuses
\* it nor panics.
THEOREM RemovalKeepsPlans == ServicesSpec => []RemovalKeepsPlansValid
<1>1. ServicesInit => SynthesisInv
  BY DEF ServicesInit, Make!Init, SynthesisInv
<1>2. SynthesisInv /\ [ServicesNext]_servicesVars => SynthesisInv'
  BY SynthesisNext DEF ServicesNext, Rest, servicesVars
<1>3. SynthesisInv => RemovalKeepsPlansValid
  BY DEF SynthesisInv, RemovalKeepsPlansValid, Make!RemovalKeepsPlansValid
<1> QED
  BY <1>1, <1>2, <1>3, PTL DEF ServicesSpec

-----------------------------------------------------------------------------
(* Scheduler.                                                               *)

Numbers == [cpu : Nat, gpu : Nat, memory : Nat]

\* Dividing keeps the order.
LEMMA Divided ==
  ASSUME NEW a \in Nat, NEW b \in Nat, a <= b
  PROVE  /\ a \div 2 \in Nat /\ b \div 2 \in Nat /\ a \div 2 <= b \div 2
         /\ a \div 10 \in Nat /\ b \div 10 \in Nat /\ a \div 10 <= b \div 10
         /\ a \div 1024 \in Nat /\ b \div 1024 \in Nat /\ a \div 1024 <= b \div 1024
OBVIOUS

\* Below 256 gigabytes nothing is cut.
LEMMA MemoryFits ==
  ASSUME NEW m \in Nat, m < 262144
  PROVE  (m \div 1024) % 256 = m \div 1024
<1>1. m \div 1024 \in Nat /\ m \div 1024 < 256
  OBVIOUS
<1> QED
  BY <1>1

LEMMA PriorityIsNumber == \A n \in Numbers : Queue!Priority(n) \in Nat
<1> SUFFICES ASSUME NEW n \in Numbers PROVE Queue!Priority(n) \in Nat
  OBVIOUS
<1> DEFINE byte == Queue!Byte((n.cpu + n.gpu) \div 2)
           factor == Queue!MemoryFactor(n)
<1>1. n.cpu \in Nat /\ n.gpu \in Nat /\ n.memory \in Nat
  BY DEF Numbers
<1>2. byte \in Nat
  BY <1>1 DEF Queue!Byte
<1>3. factor \in Nat
  <2>1. n.memory \div 1024 \in Nat
    BY <1>1
  <2> QED
    BY <2>1 DEF Queue!MemoryFactor
<1> DEFINE sum == 20 + 3 * byte + 3 * factor
<1>4. Queue!Priority(n) = IF sum \div 10 > 100 THEN 100 ELSE sum \div 10
  BY DEF Queue!Priority
<1> HIDE DEF byte, factor
<1>5. sum \in Nat
  BY <1>2, <1>3
<1> HIDE DEF sum
<1> QED
  BY <1>4, <1>5

\* What needs at least as much of everything comes no later.
LEMMA PriorityGrows ==
  ASSUME NEW m \in Numbers, NEW n \in Numbers,
         m.cpu <= n.cpu, m.gpu <= n.gpu, m.memory <= n.memory, n.memory < 262144
  PROVE  Queue!Priority(m) <= Queue!Priority(n)
<1>1. /\ m.cpu \in Nat /\ m.gpu \in Nat /\ m.memory \in Nat
      /\ n.cpu \in Nat /\ n.gpu \in Nat /\ n.memory \in Nat
  BY DEF Numbers
<1> DEFINE byte(x) == Queue!Byte((x.cpu + x.gpu) \div 2)
           factor(x) == Queue!MemoryFactor(x)
           sum(x) == 20 + 3 * byte(x) + 3 * factor(x)
<1>2. byte(m) \in Nat /\ byte(n) \in Nat /\ byte(m) <= byte(n)
  <2>1. /\ (m.cpu + m.gpu) \div 2 \in Nat /\ (n.cpu + n.gpu) \div 2 \in Nat
        /\ (m.cpu + m.gpu) \div 2 <= (n.cpu + n.gpu) \div 2
    BY <1>1, Divided
  <2> QED
    BY <2>1 DEF Queue!Byte
<1>3. factor(m) \in Nat /\ factor(n) \in Nat /\ factor(m) <= factor(n)
  <2>1. m.memory < 262144
    BY <1>1
  <2>2. factor(m) = m.memory \div 1024 /\ factor(n) = n.memory \div 1024
    BY <1>1, <2>1, MemoryFits DEF Queue!MemoryFactor
  <2> QED
    BY <1>1, <2>2, Divided
<1>4. \A x : Queue!Priority(x) = IF sum(x) \div 10 > 100 THEN 100 ELSE sum(x) \div 10
  BY DEF Queue!Priority
<1> HIDE DEF byte, factor
<1>5. sum(m) \in Nat /\ sum(n) \in Nat /\ sum(m) <= sum(n)
  BY <1>2, <1>3
<1> HIDE DEF sum
<1>6. sum(m) \div 10 \in Nat /\ sum(n) \div 10 \in Nat /\ sum(m) \div 10 <= sum(n) \div 10
  BY <1>5, Divided
<1> QED
  BY <1>4, <1>6

\* A node keeps the priority of the need that it was queued with.
QueueInv ==
  /\ DOMAIN first = Task /\ DOMAIN queue = Task
  /\ \A t \in Task : \/ first[t] = Absent /\ queue[t] = Absent
                     \/ first[t] \in Need /\ queue[t] = Queue!Priority(first[t])

LEMMA QueueNext ==
  ASSUME QueueInv, Queue!Next \/ UNCHANGED schedulerVars
  PROVE  QueueInv'
<1>1. CASE UNCHANGED <<first, queue>>
  BY <1>1 DEF QueueInv, Queue!Priority, Queue!Byte, Queue!MemoryFactor
<1>2. ASSUME NEW t \in Task, NEW n \in Need, Queue!ScheduleTask(t, n)
      PROVE  QueueInv'
  <2>1. /\ queue' = [queue EXCEPT ![t] = IF @ = Absent THEN Queue!Priority(n) ELSE @]
        /\ first' = [first EXCEPT ![t] = IF @ = Absent THEN n ELSE @]
    BY <1>2 DEF Queue!ScheduleTask
  <2>2. first[t] # Absent => queue[t] # Absent
    BY NeedKnown, PriorityIsNumber DEF QueueInv, Numbers
  <2>3. DOMAIN first' = Task /\ DOMAIN queue' = Task
    BY <2>1 DEF QueueInv
  <2>4. \A u \in Task : u # t => first'[u] = first[u] /\ queue'[u] = queue[u]
    BY <2>1 DEF QueueInv
  <2>5. CASE first[t] = Absent
    <3>1. first'[t] = n /\ queue'[t] = Queue!Priority(n)
      BY <2>1, <2>5, NeedKnown DEF QueueInv
    <3> QED
      BY <2>3, <2>4, <3>1, NeedKnown DEF QueueInv
  <2>6. CASE first[t] # Absent
    <3>1. first'[t] = first[t] /\ queue'[t] = queue[t]
      BY <2>1, <2>2, <2>6 DEF QueueInv
    <3> QED
      BY <2>3, <2>4, <3>1 DEF QueueInv
  <2> QED
    BY <2>5, <2>6
<1> QED
  BY <1>1, <1>2 DEF Queue!Next, Queue!Release, schedulerVars

\* For any needs and any number of nodes, of two that need less than 256 gigabytes the one that
\* needs at least as much of everything is queued with at least the priority of the other
\* (schedule_task and calculate_priority, scheduler.rs).
THEOREM MoreNeedsComeFirst == ServicesSpec => []MoreNeedsMoreFirst
<1>1. ServicesInit => QueueInv
  BY DEF ServicesInit, Queue!Init, QueueInv
<1>2. QueueInv /\ [ServicesNext]_servicesVars => QueueInv'
  BY QueueNext DEF ServicesNext, Rest, servicesVars
<1>3. QueueInv => MoreNeedsMoreFirst
  <2> SUFFICES ASSUME QueueInv, NEW t \in Task, NEW u \in Task,
                      first[t] # Absent, first[u] # Absent,
                      \A k \in {"cpu", "gpu", "memory"} : first[t][k] <= first[u][k],
                      first[u].memory < 262144
               PROVE  queue[t] <= queue[u]
    BY DEF MoreNeedsMoreFirst, Queue!MoreNeedsMoreFirst
  <2>1. /\ first[t] \in Numbers /\ queue[t] = Queue!Priority(first[t])
        /\ first[u] \in Numbers /\ queue[u] = Queue!Priority(first[u])
    BY NeedKnown DEF QueueInv, Numbers
  <2>2. /\ first[t].cpu <= first[u].cpu /\ first[t].gpu <= first[u].gpu
        /\ first[t].memory <= first[u].memory
    OBVIOUS
  <2> QED
    BY <2>1, <2>2, PriorityGrows
<1> QED
  BY <1>1, <1>2, <1>3, PTL DEF ServicesSpec

-----------------------------------------------------------------------------
(* HotReload: the inductive invariant.                                      *)

\* What a load of the file as it is comes to.
Target == IF file = Absent THEN Default ELSE file

\* The environment says what a configuration says.
Says(e, c) == e.url = c.url /\ c.key \in {None, e.key}

ReloadTypes ==
  /\ file \in Config \cup {Absent, Garbage} /\ events \in Nat
  /\ stage \in {"new", "watching", "running", "failed"} /\ watched \in BOOLEAN
  /\ loader \in {"idle", "read", "export", "install"}
  /\ stage \in {"new", "watching"} => updater = None

\* No change of the file is waiting to be handled or went by unseen.
UpToDate == ~missed /\ events = 0 /\ file # Garbage /\ stage # "failed"

\* Wherever a load has come to, it is that of the file as it is.
LoadInv ==
  UpToDate =>
    /\ loader = "read" => file # Absent
    /\ loader \in {"export", "install"} => fresh = Target
    /\ loader = "idle" /\ stage # "new" /\ ~updated => settings = Target

\* Between the export and the exchange the environment says what is to be installed, and
\* otherwise what is, or what an update is about to export.
EnvInv ==
  ~jumbled =>
    /\ loader = "install" => updater = None /\ Says(env, fresh)
    /\ loader # "install" /\ stage \notin {"new", "failed"} =>
         IF updater = None THEN Says(env, settings) ELSE settings = updater

ReloadInv == ReloadTypes /\ LoadInv /\ EnvInv

LEMMA ExportedSays == \A c : Says(Reloads!Exported(c), c)
BY DEF Says, Reloads!Exported

LEMMA ReloadInit ==
  ASSUME Reloads!Init
  PROVE  ReloadInv
BY DEF Reloads!Init, Reloads!Contents, ReloadInv, ReloadTypes, LoadInv, EnvInv

\* A change of the file sends an event, or is missed.
LEMMA FileChanges ==
  ASSUME ReloadInv, Reloads!Truncate \/ Reloads!Write \/ Reloads!Replace
  PROVE  ReloadInv'
<1>1. Reloads!Changed(watched) /\ watched' \in BOOLEAN
  BY DEF Reloads!Truncate, Reloads!Write, Reloads!Replace, ReloadInv, ReloadTypes
<1>2. file' \in Config \cup {Absent, Garbage}
  BY ConfigKnown
    DEF Reloads!Truncate, Reloads!Write, Reloads!Replace, Reloads!Contents
<1>3. events' \in Nat /\ (missed' \/ events' # 0)
  <2>1. events \in Nat /\ watched \in BOOLEAN
    BY DEF ReloadInv, ReloadTypes
  <2>2. CASE watched = TRUE
    BY <1>1, <2>1, <2>2 DEF Reloads!Changed
  <2>3. CASE watched = FALSE
    <3>1. missed' = TRUE /\ events' = events
      BY <1>1, <2>3 DEF Reloads!Changed
    <3> QED
      BY <2>1, <3>1
  <2> QED
    BY <2>1, <2>2, <2>3
<1>4. UNCHANGED <<stage, settings, env, loader, fresh, updater, updated, jumbled>>
  BY <1>1 DEF Reloads!Changed
<1> QED
  BY <1>1, <1>2, <1>3, <1>4 DEF ReloadInv, ReloadTypes, LoadInv, UpToDate, EnvInv

\* The steps of a load.
LEMMA LoadSteps ==
  ASSUME ReloadInv,
         \/ Reloads!New \/ Reloads!Reload \/ Reloads!Read \/ Reloads!Export
         \/ Reloads!Loaded \/ Reloads!Watch \/ Reloads!Install
  PROVE  ReloadInv'
<1>1. CASE Reloads!New
  BY <1>1 DEF Reloads!New, Reloads!Look, ReloadInv, ReloadTypes, LoadInv, UpToDate, EnvInv, Target
<1>2. CASE Reloads!Reload
  BY <1>2
    DEF Reloads!Reload, Reloads!Look, ReloadInv, ReloadTypes, LoadInv, UpToDate, EnvInv, Target
<1>3. CASE Reloads!Read
  BY <1>3, ConfigKnown
    DEF Reloads!Read, Reloads!GiveUp, ReloadInv, ReloadTypes, LoadInv, UpToDate, EnvInv, Target
<1>4. CASE Reloads!Export
  BY <1>4, ExportedSays
    DEF Reloads!Export, ReloadInv, ReloadTypes, LoadInv, UpToDate, EnvInv, Target
<1>5. CASE Reloads!Loaded
  BY <1>5 DEF Reloads!Loaded, ReloadInv, ReloadTypes, LoadInv, UpToDate, EnvInv, Target
<1>6. CASE Reloads!Watch
  BY <1>6 DEF Reloads!Watch, ReloadInv, ReloadTypes, LoadInv, UpToDate, EnvInv, Target
<1>7. CASE Reloads!Install
  BY <1>7
    DEF Reloads!Install, Reloads!StillQueued, ReloadInv, ReloadTypes, LoadInv, UpToDate, EnvInv,
        Target
<1> QED
  BY <1>1, <1>2, <1>3, <1>4, <1>5, <1>6, <1>7

LEMMA UpdateSteps ==
  ASSUME ReloadInv, Reloads!Update \/ Reloads!UpdateExport
  PROVE  ReloadInv'
<1>1. CASE Reloads!Update
  <2>1. /\ UNCHANGED <<stage, file, watched, events, env, loader, fresh, missed>>
        /\ stage = "running" /\ updater' = settings' /\ updated' = TRUE
        /\ jumbled' = (loader = "install")
    BY <1>1 DEF Reloads!Update
  <2>2. ReloadTypes' /\ LoadInv'
    BY <2>1 DEF ReloadInv, ReloadTypes, LoadInv, UpToDate, Target
  <2>3. EnvInv'
    <3>1. CASE loader = "install"
      BY <2>1, <3>1 DEF EnvInv
    <3>2. CASE loader # "install"
      <4>1. updater' # None
        BY <1>1, ConfigKnown DEF Reloads!Update
      <4> QED
        BY <2>1, <3>2, <4>1 DEF EnvInv
    <3> QED
      BY <3>1, <3>2
  <2> QED
    BY <2>2, <2>3 DEF ReloadInv
<1>2. CASE Reloads!UpdateExport
  BY <1>2, ExportedSays
    DEF Reloads!UpdateExport, ReloadInv, ReloadTypes, LoadInv, UpToDate, EnvInv, Target
<1> QED
  BY <1>1, <1>2

LEMMA ReloadRests ==
  ASSUME ReloadInv, UNCHANGED configVars
  PROVE  ReloadInv'
BY DEF configVars, ReloadInv, ReloadTypes, LoadInv, UpToDate, EnvInv, Target

LEMMA ReloadInvariance == ServicesSpec => []ReloadInv
<1>1. ServicesInit => ReloadInv
  BY ReloadInit DEF ServicesInit
<1>2. ReloadInv /\ [ServicesNext]_servicesVars => ReloadInv'
  <2> SUFFICES ASSUME ReloadInv, [ServicesNext]_servicesVars PROVE ReloadInv'
    OBVIOUS
  <2>1. Reloads!Next \/ UNCHANGED configVars
    BY DEF ServicesNext, Rest, servicesVars
  <2> QED
    BY <2>1, FileChanges, LoadSteps, UpdateSteps, ReloadRests DEF Reloads!Next
<1> QED
  BY <1>1, <1>2, PTL DEF ServicesSpec

\* Once every event of a watched file was handled, the manager has what the file says, for any
\* configurations and any number of changes, reloads and updates (load_config, setup_watcher
\* and update of config.rs), unless the last change sent no event, is not valid, or an update
\* came later.
THEOREM ManagerFollowsTheFile == ServicesSpec => []ReloadCatchesUp
<1>1. ReloadInv => ReloadCatchesUp
  BY DEF ReloadInv, LoadInv, UpToDate, Target, ReloadCatchesUp, Reloads!ReloadCatchesUp,
         Reloads!Settled
<1> QED
  BY <1>1, ReloadInvariance, PTL

\* The environment says what the configuration says whenever nothing is under way, unless an
\* update met a reload between its export and its exchange.
THEOREM EnvironmentFollowsTheManager == ServicesSpec => []EnvironmentFollows
<1>1. ReloadInv => EnvironmentFollows
  BY DEF ReloadInv, EnvInv, Says, EnvironmentFollows, Reloads!EnvironmentFollows,
         Reloads!Settled
<1> QED
  BY <1>1, ReloadInvariance, PTL

-----------------------------------------------------------------------------
(* CliRun.                                                                  *)

StepName ==
  {"init", "read", "parse", "strict", "print", "input", "start", "execute", "complete", "save",
   "synthesize", "write", "open", "deploy", "inputOption", "executeSpec", "record", "secret",
   "mint"}

\* The steps that may fail with a text that reads as misuse, and the ones that leave a trace.
Refusing ==
  {"parse", "input", "synthesize", "open", "deploy", "executeSpec", "record", "mint"}
Marking == {"start", "save", "mint"}

\* No step that may refuse comes after one that leaves a trace.
RefusesFirst(s) ==
  \A i, j \in DOMAIN s : i < j /\ s[i] \in Marking => s[j] \notin Refusing

Untouched == counts.total = 0 /\ ~saved /\ "mint" \notin Commands!Range(done)

CliInv ==
  /\ agenda \in Seq(StepName) /\ done \in Seq(StepName)
  /\ DOMAIN counts = {"total", "running", "completed", "failed"}
  /\ counts.total \in Int /\ counts.running \in Int /\ counts.completed \in Int
  /\ counts.total = counts.running + counts.completed
  /\ command.name # "synth" =>
       /\ RefusesFirst(agenda)
       /\ (\E i \in DOMAIN agenda : agenda[i] \in Refusing) => Untouched
       /\ exit = 128 => Untouched

Unmarking(s) == \A i \in DOMAIN s : s[i] \notin Marking
Unrefusing(s) == \A i \in DOMAIN s : s[i] \notin Refusing

LEMMA OptTyped ==
  ASSUME NEW b, NEW s \in Seq(StepName)
  PROVE  Commands!Opt(b, s) \in Seq(StepName)
BY DEF Commands!Opt

LEMMA Joined == \A s, t \in Seq(StepName) : s \o t \in Seq(StepName)
OBVIOUS

LEMMA StepsTyped == \A c \in Commands!Command : Commands!StepsOf(c) \in Seq(StepName)
<1> SUFFICES ASSUME NEW c \in Commands!Command PROVE Commands!StepsOf(c) \in Seq(StepName)
  OBVIOUS
<1>1. /\ <<"init">> \in Seq(StepName) /\ <<"print">> \in Seq(StepName)
      /\ <<"read", "parse">> \in Seq(StepName) /\ <<"strict">> \in Seq(StepName)
      /\ <<"read", "parse", "input", "start", "execute", "complete">> \in Seq(StepName)
      /\ <<"save">> \in Seq(StepName) /\ <<"synthesize">> \in Seq(StepName)
      /\ <<"write">> \in Seq(StepName) /\ <<"open", "deploy">> \in Seq(StepName)
      /\ <<"inputOption", "executeSpec">> \in Seq(StepName) /\ <<"record">> \in Seq(StepName)
      /\ <<"secret", "mint">> \in Seq(StepName)
  BY DEF StepName
<1>2. c.name \in {"validate", "run", "synth", "token"}
  BY DEF Commands!Command
<1>3. Commands!ValidateSteps(c) \in Seq(StepName)
  BY <1>1, OptTyped, Joined DEF Commands!ValidateSteps
<1>4. Commands!RunSteps(c) \in Seq(StepName)
  BY <1>1, OptTyped, Joined DEF Commands!RunSteps
<1>5. Commands!SynthSteps(c) \in Seq(StepName)
  BY <1>1, OptTyped, Joined DEF Commands!SynthSteps
<1> QED
  BY <1>1, <1>2, <1>3, <1>4, <1>5, Joined DEF Commands!StepsOf, Commands!TokenSteps

LEMMA InOrderJoined ==
  ASSUME NEW s \in Seq(StepName), NEW t \in Seq(StepName),
         \/ Unmarking(s) /\ RefusesFirst(t)
         \/ RefusesFirst(s) /\ Unrefusing(t)
  PROVE  RefusesFirst(s \o t)
<1>1. /\ DOMAIN s = 1..Len(s) /\ DOMAIN t = 1..Len(t) /\ Len(s) \in Nat /\ Len(t) \in Nat
      /\ DOMAIN (s \o t) = 1..Len(s) + Len(t)
      /\ \A i \in 1..Len(s) + Len(t) : (s \o t)[i] = IF i <= Len(s) THEN s[i] ELSE t[i - Len(s)]
  OBVIOUS
<1> SUFFICES ASSUME NEW i \in DOMAIN (s \o t), NEW j \in DOMAIN (s \o t), i < j,
                    (s \o t)[i] \in Marking
             PROVE  (s \o t)[j] \notin Refusing
  BY DEF RefusesFirst
<1>2. CASE i <= Len(s) /\ j <= Len(s)
  BY <1>1, <1>2 DEF RefusesFirst, Unmarking
<1>3. CASE i <= Len(s) /\ j > Len(s)
  <2>1. j - Len(s) \in DOMAIN t /\ (s \o t)[j] = t[j - Len(s)]
    BY <1>1, <1>3
  <2> QED
    BY <1>1, <1>3, <2>1 DEF Unmarking, Unrefusing
<1>4. CASE i > Len(s)
  <2>1. /\ i - Len(s) \in DOMAIN t /\ (s \o t)[i] = t[i - Len(s)]
        /\ j - Len(s) \in DOMAIN t /\ (s \o t)[j] = t[j - Len(s)]
        /\ i - Len(s) < j - Len(s)
    BY <1>1, <1>4
  <2> QED
    BY <2>1 DEF RefusesFirst, Unrefusing
<1> QED
  BY <1>1, <1>2, <1>3, <1>4

LEMMA StepsInOrder ==
  \A c \in Commands!Command : c.name # "synth" => RefusesFirst(Commands!StepsOf(c))
<1> SUFFICES ASSUME NEW c \in Commands!Command, c.name # "synth"
             PROVE  RefusesFirst(Commands!StepsOf(c))
  OBVIOUS
<1> DEFINE begin == <<"init">>
           load == <<"read", "parse">>
           go == <<"read", "parse", "input", "start", "execute", "complete">>
           print == <<"print">>
           mint == <<"secret", "mint">>
           strict == Commands!Opt(c.strict, <<"strict">>)
           save == Commands!Opt(c.save, <<"save">>)
<1>1. /\ begin \in Seq(StepName) /\ load \in Seq(StepName) /\ go \in Seq(StepName)
      /\ print \in Seq(StepName) /\ mint \in Seq(StepName)
      /\ <<"strict">> \in Seq(StepName) /\ <<"save">> \in Seq(StepName)
  BY DEF StepName
<1>2. strict \in Seq(StepName) /\ save \in Seq(StepName)
  BY <1>1, OptTyped
<1>3. /\ Unmarking(begin) /\ RefusesFirst(load) /\ RefusesFirst(mint)
      /\ Unrefusing(print) /\ Unrefusing(strict) /\ Unrefusing(save)
  BY DEF Unmarking, Unrefusing, RefusesFirst, Marking, Refusing, Commands!Opt
<1>4. RefusesFirst(go)
  BY DEF RefusesFirst, Marking, Refusing
<1> HIDE DEF begin, load, go, print, mint, strict, save
<1>5. CASE c.name = "validate"
  <2>1. load \o strict \in Seq(StepName) /\ RefusesFirst(load \o strict)
    BY <1>1, <1>2, <1>3, Joined, InOrderJoined
  <2>2. /\ (load \o strict) \o print \in Seq(StepName)
        /\ RefusesFirst((load \o strict) \o print)
    BY <1>1, <1>3, <2>1, Joined, InOrderJoined
  <2>3. RefusesFirst(begin \o ((load \o strict) \o print))
    BY <1>1, <1>3, <2>2, InOrderJoined
  <2> QED
    BY <1>5, <2>3 DEF Commands!StepsOf, Commands!ValidateSteps, begin, load, strict, print
<1>6. CASE c.name = "run"
  <2>1. go \o save \in Seq(StepName) /\ RefusesFirst(go \o save)
    BY <1>1, <1>2, <1>3, <1>4, Joined, InOrderJoined
  <2>2. (go \o save) \o print \in Seq(StepName) /\ RefusesFirst((go \o save) \o print)
    BY <1>1, <1>3, <2>1, Joined, InOrderJoined
  <2>3. RefusesFirst(begin \o ((go \o save) \o print))
    BY <1>1, <1>3, <2>2, InOrderJoined
  <2> QED
    BY <1>6, <2>3 DEF Commands!StepsOf, Commands!RunSteps, begin, go, save, print
<1>7. CASE c.name = "token"
  <2>1. RefusesFirst(begin \o mint)
    BY <1>1, <1>3, InOrderJoined
  <2> QED
    BY <1>7, <2>1 DEF Commands!StepsOf, Commands!TokenSteps, begin, mint
<1> QED
  BY <1>5, <1>6, <1>7 DEF Commands!Command

LEMMA CliInit ==
  ASSUME Commands!Init
  PROVE  CliInv
<1>1. command \in Commands!Command /\ agenda = Commands!StepsOf(command) /\ done = <<>>
      /\ exit = None /\ ~saved
      /\ counts = [total |-> 0, running |-> 0, completed |-> 0, failed |-> 0]
  BY DEF Commands!Init
<1>2. agenda \in Seq(StepName) /\ (command.name # "synth" => RefusesFirst(agenda))
  BY <1>1, StepsTyped, StepsInOrder
<1>3. done \in Seq(StepName) /\ "mint" \notin Commands!Range(done)
  BY <1>1 DEF Commands!Range
<1> QED
  BY <1>1, <1>2, <1>3 DEF CliInv, Untouched

LEMMA RangeOfAppend ==
  ASSUME NEW T, NEW s \in Seq(T), NEW x \in T
  PROVE  /\ Append(s, x) \in Seq(T)
         /\ Commands!Range(Append(s, x)) \subseteq Commands!Range(s) \cup {x}
BY DEF Commands!Range

\* What is left of the steps.
LEMMA RestOfSteps ==
  ASSUME NEW s \in Seq(StepName), s # <<>>
  PROVE  /\ Tail(s) \in Seq(StepName) /\ Head(s) \in StepName /\ 1 \in DOMAIN s /\ Head(s) = s[1]
         /\ \A i \in DOMAIN Tail(s) :
               i + 1 \in DOMAIN s /\ Tail(s)[i] = s[i + 1] /\ i \in Nat /\ i >= 1
OBVIOUS

LEMMA CliStep ==
  ASSUME CliInv, Commands!Step
  PROVE  CliInv'
<1>1. /\ agenda # <<>> /\ agenda' = Tail(agenda) /\ done' = Append(done, Head(agenda))
      /\ counts' = Commands!Counted(Head(agenda)) /\ saved' = (saved \/ Head(agenda) = "save")
      /\ exit = None /\ UNCHANGED <<command, exit>>
  BY DEF Commands!Step
<1>2. /\ agenda \in Seq(StepName) /\ done \in Seq(StepName)
      /\ DOMAIN counts = {"total", "running", "completed", "failed"}
      /\ counts.total \in Int /\ counts.running \in Int /\ counts.completed \in Int
      /\ counts.total = counts.running + counts.completed
  BY DEF CliInv
<1>3. /\ agenda' \in Seq(StepName) /\ Head(agenda) \in StepName
      /\ 1 \in DOMAIN agenda /\ Head(agenda) = agenda[1]
      /\ \A i \in DOMAIN agenda' :
           i + 1 \in DOMAIN agenda /\ agenda'[i] = agenda[i + 1] /\ i \in Nat /\ i >= 1
  BY <1>1, <1>2, RestOfSteps
<1>4. done' \in Seq(StepName)
  BY <1>1, <1>2, <1>3
<1>5. /\ DOMAIN counts' = {"total", "running", "completed", "failed"}
      /\ counts'.total \in Int /\ counts'.running \in Int /\ counts'.completed \in Int
      /\ counts'.total = counts'.running + counts'.completed
      /\ Head(agenda) # "start" => counts'.total = counts.total
  <2>1. CASE Head(agenda) = "start"
    <3>1. counts' = [counts EXCEPT !.total = @ + 1, !.running = @ + 1]
      BY <1>1, <2>1 DEF Commands!Counted
    <3>2. /\ counts'.total = counts.total + 1 /\ counts'.running = counts.running + 1
          /\ counts'.completed = counts.completed
      BY <1>2, <3>1
    <3>3. DOMAIN counts' = DOMAIN counts
      BY <3>1
    <3> QED
      BY <1>2, <2>1, <3>2, <3>3
  <2>2. CASE Head(agenda) = "complete"
    <3>1. counts' = [counts EXCEPT !.running = @ - 1, !.completed = @ + 1]
      BY <1>1, <2>2 DEF Commands!Counted
    <3>2. /\ counts'.total = counts.total /\ counts'.running = counts.running - 1
          /\ counts'.completed = counts.completed + 1
      BY <1>2, <3>1
    <3>3. DOMAIN counts' = DOMAIN counts
      BY <3>1
    <3> QED
      BY <1>2, <3>2, <3>3
  <2>3. CASE Head(agenda) \notin {"start", "complete"}
    <3>1. counts' = counts
      BY <1>1, <2>3 DEF Commands!Counted
    <3> QED
      BY <1>2, <3>1
  <2> QED
    BY <2>1, <2>2, <2>3
<1>6. ASSUME command.name # "synth"
      PROVE  RefusesFirst(agenda')
  BY <1>3, <1>6 DEF CliInv, RefusesFirst
<1>7. ASSUME command.name # "synth", NEW i \in DOMAIN agenda', agenda'[i] \in Refusing
      PROVE  Untouched'
  <2>1. i + 1 \in DOMAIN agenda /\ agenda[i + 1] \in Refusing /\ 1 < i + 1
    BY <1>3, <1>7
  <2>2. Untouched
    BY <1>7, <2>1 DEF CliInv
  <2>3. Head(agenda) \notin Marking
    BY <1>3, <1>7, <2>1 DEF CliInv, RefusesFirst
  <2>4. "mint" \notin Commands!Range(done')
    BY <1>1, <1>2, <1>3, <2>2, <2>3, RangeOfAppend DEF Untouched, Marking
  <2>5. ~saved'
    BY <1>1, <2>2, <2>3 DEF Untouched, Marking
  <2>6. counts'.total = 0
    BY <1>5, <2>2, <2>3 DEF Untouched, Marking
  <2> QED
    BY <2>4, <2>5, <2>6 DEF Untouched
<1>8. exit' # 128
  BY <1>1, NoneIsNoNumber
<1> QED
  BY <1>1, <1>3, <1>4, <1>5, <1>6, <1>7, <1>8 DEF CliInv

LEMMA CliEnds ==
  ASSUME CliInv,
         Commands!InitFails \/ Commands!Fail \/ Commands!Panic \/ Commands!Finish
  PROVE  CliInv'
<1>1. UNCHANGED <<command, agenda, done, counts, saved>>
  BY DEF Commands!InitFails, Commands!Fail, Commands!Panic, Commands!Finish
<1>2. ASSUME exit' = 128
      PROVE  \E i \in DOMAIN agenda : agenda[i] \in Refusing
  <2>1. Commands!Fail
    BY <1>2 DEF Commands!InitFails, Commands!Panic, Commands!Finish
  <2>2. PICK words \in Commands!Texts(Head(agenda)) : Commands!ExitCode(words) = 128
    BY <1>2, <2>1 DEF Commands!Fail
  <2>3. "invalid" \in words
    <3>1. "invalid" \notin words => Commands!ExitCode(words) \in {124, 126, 127, 130, 1}
      BY DEF Commands!ExitCode
    <3> QED
      BY <2>2, <3>1
  <2>4. Head(agenda) \in Refusing
    BY <2>2, <2>3 DEF Commands!Texts, Refusing
  <2>5. 1 \in DOMAIN agenda /\ Head(agenda) = agenda[1]
    BY <2>1, RestOfSteps DEF Commands!Fail, CliInv
  <2> QED
    BY <2>4, <2>5
<1>3. CliInv' <=>
        /\ CliInv
        /\ command.name # "synth" /\ exit' = 128 => Untouched
  BY <1>1 DEF CliInv, Untouched, RefusesFirst
<1> QED
  BY <1>2, <1>3 DEF CliInv

LEMMA CliAgain ==
  ASSUME CliInv, Commands!Again
  PROVE  CliInv'
<1>1. command' \in Commands!Command /\ agenda' = Commands!StepsOf(command') /\ done' = <<>>
      /\ exit' = None /\ saved' = FALSE
      /\ counts' = [total |-> 0, running |-> 0, completed |-> 0, failed |-> 0]
  BY DEF Commands!Again
<1>2. agenda' \in Seq(StepName) /\ (command'.name # "synth" => RefusesFirst(agenda'))
  BY <1>1, StepsTyped, StepsInOrder
<1>3. done' \in Seq(StepName) /\ "mint" \notin Commands!Range(done')
  BY <1>1 DEF Commands!Range
<1> QED
  BY <1>1, <1>2, <1>3 DEF CliInv, Untouched

\* Of all the words that a step may fail with and whatever is in the file: a command that ends
\* as misused has started no run, saved none and minted no token, and the runs that the
\* metrics count add up (execute_command, handle_cli_error, main.rs; run_workflow, commands.rs).
THEOREM MisuseLeavesNoTrace == ServicesSpec => []MisuseStartsNothing
<1>1. ServicesInit => CliInv
  BY CliInit DEF ServicesInit
<1>2. CliInv /\ [ServicesNext]_servicesVars => CliInv'
  <2> SUFFICES ASSUME CliInv, [ServicesNext]_servicesVars PROVE CliInv'
    OBVIOUS
  <2>1. CASE Commands!Next
    BY <2>1, CliStep, CliEnds, CliAgain DEF Commands!Next
  <2>2. CASE UNCHANGED cliVars
    BY <2>2 DEF cliVars, CliInv, Untouched, RefusesFirst
  <2> QED
    BY <2>1, <2>2 DEF ServicesNext, Rest, servicesVars
<1>3. CliInv => MisuseStartsNothing
  BY DEF CliInv, Untouched, MisuseStartsNothing, Commands!MisuseStartsNothing
<1> QED
  BY <1>1, <1>2, <1>3, PTL DEF ServicesSpec

-----------------------------------------------------------------------------
(* Handlers: estimates.                                                     *)

LEMMA Iterates ==
  \A n, start, step : /\ Handle!Iterate(n, start, step) = Iterate(n, start, step)
                      /\ Core!Iterate(n, start, step) = Iterate(n, start, step)
BY DEF Handle!Iterate, Core!Iterate, Iterate

\* Of a plan of one step the calls are those of the step.
LEMMA EstimateOfOne ==
  ASSUME NEW n, Handle!Invocations(n) \in Nat
  PROVE  Handle!Estimate(<<n>>).calls = Handle!Invocations(n)
<1> DEFINE p == <<n>>
           steps == [i \in DOMAIN p |-> [k \in Nat |-> k + Handle!Invocations(p[i])]]
<1>1. Len(p) = 1 /\ DOMAIN p = 1..1 /\ p[1] = n
  OBVIOUS
<1>2. steps \in [1..1 -> [Nat -> Nat]] /\ \A k \in Nat : steps[1][k] = k + Handle!Invocations(n)
  BY <1>1
<1>3. Handle!Estimate(p).calls = Iterate(1, 0, steps)
  BY <1>1, Iterates DEF Handle!Estimate
<1> HIDE DEF steps
<1>4. PICK h \in [0..1 -> Nat] :
        h[0] = 0 /\ (\A k \in 1..1 : h[k] = steps[k][h[k - 1]]) /\ h[1] = Iterate(1, 0, steps)
  <2> DEFINE S == Nat
             last == 1
             zero == 0
  <2>1. zero \in S /\ last \in Nat /\ steps \in [1..last -> [S -> S]]
    BY <1>2
  <2> HIDE DEF S, last, zero
  <2>2. PICK h : IsHistory(h, S, last, zero, steps) /\ h[last] = Iterate(last, zero, steps)
    BY <2>1, IterateFacts
  <2> QED
    BY <2>2 DEF S, last, zero, IsHistory
<1>5. 1 \in 1..1 /\ h[1] = steps[1][h[0]]
  BY <1>4
<1> QED
  BY <1>2, <1>3, <1>4, <1>5

-----------------------------------------------------------------------------
(* Handlers: what is inline.                                                *)

\* The steps that are inline in those of a set.
Inner(S) == UNION {UNION {Handle!ToSet(p) : p \in Handle!ToSet(Handle!NestedOf(s))} : s \in S}

\* The steps of a plan, then what is inline in them, and so on.
IsUnfolding(f, p, n) == f = [d \in 0..n |-> IF d = 0 THEN Handle!ToSet(p) ELSE Inner(f[d - 1])]

LEMMA UnfoldingExists ==
  ASSUME NEW p, NEW n \in Nat
  PROVE  \E f : IsUnfolding(f, p, n)
<1> DEFINE Good(m) == \E f : IsUnfolding(f, p, m)
           G == {m \in 0..n : Good(m)}
<1>1. Good(0)
  <2> DEFINE f == [d \in 0..0 |-> Handle!ToSet(p)]
  <2>1. \A d \in 0..0 : d = 0
    OBVIOUS
  <2>2. f = [d \in 0..0 |-> IF d = 0 THEN Handle!ToSet(p) ELSE Inner(f[d - 1])]
    BY <2>1
  <2> QED
    BY <2>2 DEF IsUnfolding
<1>2. ASSUME NEW k \in 1..n, Good(k - 1)
      PROVE  Good(k)
  <2>1. PICK f : IsUnfolding(f, p, k - 1)
    BY <1>2
  <2> DEFINE g == [d \in 0..k |-> IF d = k THEN Inner(f[k - 1]) ELSE f[d]]
  <2>2. \A d \in 0..k - 1 : f[d] = IF d = 0 THEN Handle!ToSet(p) ELSE Inner(f[d - 1])
    BY <2>1 DEF IsUnfolding
  <2>3. \A d \in 0..k : g[d] = IF d = 0 THEN Handle!ToSet(p) ELSE Inner(g[d - 1])
    <3> TAKE d \in 0..k
    <3>1. CASE d = 0
      <4>1. g[0] = f[0] /\ 0 \in 0..k - 1
        OBVIOUS
      <4> QED
        BY <2>2, <3>1, <4>1
    <3>2. CASE d = k
      <4>1. g[k - 1] = f[k - 1]
        OBVIOUS
      <4> QED
        BY <3>2, <4>1
    <3>3. CASE d # 0 /\ d # k
      <4>1. d \in 0..k - 1 /\ g[d] = f[d] /\ g[d - 1] = f[d - 1]
        BY <3>3
      <4> QED
        BY <2>2, <3>3, <4>1
    <3> QED
      BY <3>1, <3>2, <3>3
  <2>4. DOMAIN g = 0..k /\ g = [d \in 0..k |-> g[d]]
    OBVIOUS
  <2> HIDE DEF g
  <2>5. g = [d \in 0..k |-> IF d = 0 THEN Handle!ToSet(p) ELSE Inner(g[d - 1])]
    BY <2>3, <2>4
  <2> QED
    BY <2>5 DEF IsUnfolding
<1> HIDE DEF Good
<1>3. 0 \in G /\ \A k \in 1..n : k - 1 \in G => k \in G
  BY <1>1, <1>2
<1> HIDE DEF G
<1>4. 0..n \subseteq G
  BY <1>3, Upwards
<1>5. n \in G
  BY <1>4
<1> QED
  BY <1>5 DEF Good, G

LEMMA StepsWithinFacts ==
  ASSUME NEW p, NEW n \in Nat
  PROVE  \E f : /\ \A d \in 0..n : f[d] = IF d = 0 THEN Handle!ToSet(p) ELSE Inner(f[d - 1])
                /\ Handle!StepsWithin(p, n) = UNION {f[d] : d \in 0..n}
<1> DEFINE f == CHOOSE f : IsUnfolding(f, p, n)
<1>1. IsUnfolding(f, p, n)
  BY UnfoldingExists
<1>2. Handle!StepsWithin(p, n) = UNION Handle!Range(f)
  BY DEF Handle!StepsWithin, IsUnfolding, Inner
<1> HIDE DEF f
<1>3. /\ DOMAIN f = 0..n
      /\ \A d \in 0..n : f[d] = IF d = 0 THEN Handle!ToSet(p) ELSE Inner(f[d - 1])
  BY <1>1 DEF IsUnfolding
<1> QED
  BY <1>2, <1>3 DEF Handle!Range

\* What is within a workflow that is inline in a node is within the node, one level deeper.
LEMMA InlineIsWithin ==
  ASSUME NEW n, NEW i \in DOMAIN Handle!NestedOf(n), NEW depth \in Nat \ {0}
  PROVE  /\ n \in Handle!StepsWithin(<<n>>, depth)
         /\ Handle!StepsWithin(Handle!NestedOf(n)[i], depth - 1)
              \subseteq Handle!StepsWithin(<<n>>, depth)
<1> DEFINE inline == Handle!NestedOf(n)[i]
           one == <<n>>
<1>1. PICK f : /\ \A d \in 0..depth - 1 :
                    f[d] = IF d = 0 THEN Handle!ToSet(inline) ELSE Inner(f[d - 1])
               /\ Handle!StepsWithin(inline, depth - 1) = UNION {f[d] : d \in 0..depth - 1}
  <2>1. depth - 1 \in Nat
    OBVIOUS
  <2> HIDE DEF inline
  <2> QED
    BY <2>1, StepsWithinFacts
<1>2. PICK g : /\ \A d \in 0..depth : g[d] = IF d = 0 THEN Handle!ToSet(one) ELSE Inner(g[d - 1])
               /\ Handle!StepsWithin(one, depth) = UNION {g[d] : d \in 0..depth}
  <2> HIDE DEF one
  <2> QED
    BY StepsWithinFacts
<1>3. Handle!ToSet(one) = {n}
  BY DEF Handle!ToSet
<1>4. g[0] = {n} /\ 0 \in 0..depth
  BY <1>2, <1>3
<1>5. n \in Handle!StepsWithin(one, depth)
  BY <1>2, <1>4
<1>6. \A S, T : S \subseteq T => Inner(S) \subseteq Inner(T)
  BY DEF Inner
<1> DEFINE G == {d \in 0..depth - 1 : f[d] \subseteq g[d + 1]}
<1>7. 0 \in G
  <2>1. inline \in Handle!ToSet(Handle!NestedOf(n))
    BY DEF Handle!ToSet
  <2>2. Handle!ToSet(inline) \subseteq Inner({n})
    BY <2>1 DEF Inner
  <2>3. 1 \in 0..depth /\ 0 \in 0..depth - 1 /\ 1 # 0 /\ 1 - 1 = 0 /\ 0 + 1 = 1
    OBVIOUS
  <2>4. f[0] = Handle!ToSet(inline) /\ g[1] = Inner(g[0])
    BY <1>1, <1>2, <2>3
  <2> QED
    BY <1>4, <2>2, <2>3, <2>4
<1>8. ASSUME NEW k \in 1..depth - 1, k - 1 \in G
      PROVE  k \in G
  <2>1. /\ k \in 0..depth - 1 /\ k # 0 /\ k + 1 \in 0..depth /\ k + 1 # 0
        /\ (k + 1) - 1 = k /\ (k - 1) + 1 = k
    OBVIOUS
  <2>2. f[k] = Inner(f[k - 1]) /\ g[k + 1] = Inner(g[k])
    BY <1>1, <1>2, <2>1
  <2>3. f[k - 1] \subseteq g[k]
    BY <1>8, <2>1
  <2> QED
    BY <1>6, <2>1, <2>2, <2>3
<1> HIDE DEF G
<1>9. 0..depth - 1 \subseteq G
  <2>1. depth - 1 \in Nat
    OBVIOUS
  <2> QED
    BY <1>7, <1>8, <2>1, Upwards
<1>10. \A d \in 0..depth - 1 : f[d] \subseteq g[d + 1] /\ d + 1 \in 0..depth
  BY <1>9 DEF G
<1>11. Handle!StepsWithin(inline, depth - 1) \subseteq Handle!StepsWithin(one, depth)
  BY <1>1, <1>2, <1>10
<1> QED
  BY <1>5, <1>11

-----------------------------------------------------------------------------
(* Handlers: the inductive invariant.                                       *)

\* The secrets that are listed are there, and neither the environment nor the node's
\* configuration picks another model or provider.
Served ==
  override = None /\ node.config = None /\ Handle!RequiredSecrets(<<node>>) \subseteq keys

HandlersInv ==
  /\ node \in Node
  /\ calls \in Nat /\ taken \in Nat
  /\ node.capability = "llm_call" => calls <= 1 /\ (at = "running" => calls = 0)
  /\ node.capability = "agent" => calls <= taken /\ taken <= Handle!Budget(node)
  /\ node.capability \notin {"llm_call", "agent"} => calls = 0
  /\ DOMAIN branch \subseteq DOMAIN Handle!NestedOf(node)
  /\ Served => out.error # "key" /\ \A i \in DOMAIN branch : branch[i] # "key"

LEMMA BudgetKnown == \A n \in Node : Handle!Budget(n) \in Nat
BY NodesKnown DEF Handle!Budget, Handle!DefaultSteps

\* The secret that is listed for a model is the key that its provider wants.
LEMMA SecretIsKey == \A model : Handle!KeyOf(Handle!ProviderFor(model)) = Handle!SecretForModel(model)
BY DEF Handle!KeyOf, Handle!ProviderFor, Handle!SecretForModel

LEMMA ServedHasKeys ==
  ASSUME Served
  PROVE  /\ Handle!ModelOf(node) = Handle!Model(node)
         /\ Handle!CallsModel(node) => Handle!HasKey(Handle!Model(node))
         /\ \A i \in DOMAIN Handle!NestedOf(node) :
              \A s \in Handle!StepsWithin(Handle!NestedOf(node)[i], MaxNesting - 1) :
                Handle!CallsModel(s) => Handle!HasKey(Handle!Model(s))
<1>1. \A s \in Handle!StepsWithin(<<node>>, MaxNesting) :
        Handle!CallsModel(s) => Handle!HasKey(Handle!Model(s))
  BY SecretIsKey DEF Served, Handle!RequiredSecrets, Handle!HasKey, Handle!Provider
<1>2. node \in Handle!StepsWithin(<<node>>, MaxNesting)
  <2>1. PICK f : /\ \A d \in 0..MaxNesting :
                      f[d] = IF d = 0 THEN Handle!ToSet(<<node>>) ELSE Inner(f[d - 1])
                 /\ Handle!StepsWithin(<<node>>, MaxNesting) = UNION {f[d] : d \in 0..MaxNesting}
    BY NodesKnown, StepsWithinFacts
  <2>2. 0 \in 0..MaxNesting /\ node \in Handle!ToSet(<<node>>)
    BY NodesKnown DEF Handle!ToSet
  <2> QED
    BY <2>1, <2>2
<1>3. \A i \in DOMAIN Handle!NestedOf(node) :
        Handle!StepsWithin(Handle!NestedOf(node)[i], MaxNesting - 1)
          \subseteq Handle!StepsWithin(<<node>>, MaxNesting)
  BY NodesKnown, InlineIsWithin
<1> QED
  BY <1>1, <1>2, <1>3 DEF Served, Handle!ModelOf

LEMMA ServedRemains ==
  ASSUME Handle!GivenUnchanged
  PROVE  Served' = Served
BY DEF Handle!GivenUnchanged, Served, Handle!RequiredSecrets

LEMMA HandlersInit ==
  ASSUME Handle!Init
  PROVE  HandlersInv
<1> DEFINE places == IF node.param THEN DOMAIN Handle!NestedOf(node) ELSE {}
<1>1. node \in Node /\ calls = 0 /\ taken = 0 /\ out = [error |-> None, value |-> None]
  BY DEF Handle!Init
<1>2. branch = [i \in places |-> "running"]
  BY DEF Handle!Init
<1>3. places \subseteq DOMAIN Handle!NestedOf(node)
  OBVIOUS
<1> HIDE DEF places
<1>4. DOMAIN branch \subseteq DOMAIN Handle!NestedOf(node) /\ \A i \in DOMAIN branch : branch[i] # "key"
  BY <1>2, <1>3
<1>5. calls \in Nat /\ taken \in Nat /\ taken <= Handle!Budget(node) /\ calls <= taken /\ calls <= 1
  BY <1>1, BudgetKnown
<1>6. out.error # "key"
  BY <1>1, NoneIsNoNumber
<1> QED
  BY <1>1, <1>4, <1>5, <1>6 DEF HandlersInv

LEMMA HandlersNext ==
  ASSUME HandlersInv, Handle!Next \/ UNCHANGED handlersVars
  PROVE  HandlersInv'
<1>1. CASE UNCHANGED <<node, keys, override, at, calls, taken, branch, out>>
  BY <1>1 DEF HandlersInv, Served, Handle!RequiredSecrets
<1>2. CASE Handle!LlmCall
  <2>1. /\ at = "running" /\ node.capability = "llm_call" /\ UNCHANGED <<node, taken, branch>>
        /\ Served' = Served
    BY <1>2, ServedRemains DEF Handle!LlmCall, Handle!GivenUnchanged
  <2>2. /\ at' # "running" /\ calls' \in {calls, calls + 1}
        /\ out'.error \in {None, "network", "key"}
        /\ Handle!HasKey(Handle!ModelOf(node)) => out'.error # "key"
    BY <1>2, NoneIsNoNumber
      DEF Handle!LlmCall, Handle!Done, Handle!Failed, Handle!Unreachable
  <2>3. Served => out'.error # "key"
    BY <2>1, <2>2, ServedHasKeys DEF Handle!CallsModel
  <2> QED
    BY <2>1, <2>2, <2>3 DEF HandlersInv
<1>3. CASE Handle!AgentStep
  <2>1. /\ node.capability = "agent" /\ UNCHANGED <<node, branch>> /\ Served' = Served
        /\ taken < Handle!Budget(node)
    BY <1>3, ServedRemains DEF Handle!AgentStep, Handle!GivenUnchanged
  <2>2. \/ UNCHANGED <<calls, taken>>
        \/ taken' = taken + 1 /\ calls' \in {calls, calls + 1}
    BY <1>3 DEF Handle!AgentStep
  <2>3. Served /\ out.error # "key" => out'.error # "key"
    <3>1. Served => Handle!HasKey(Handle!Model(node))
      BY <2>1, ServedHasKeys DEF Handle!CallsModel
    <3> QED
      BY <1>3, <3>1, NoneIsNoNumber
        DEF Handle!AgentStep, Handle!Done, Handle!Failed, Handle!Unreachable
  <2>4. calls' \in Nat /\ taken' \in Nat /\ calls' <= taken' /\ taken' <= Handle!Budget(node)
    BY <2>1, <2>2, BudgetKnown DEF HandlersInv
  <2> QED
    BY <2>1, <2>3, <2>4 DEF HandlersInv
<1>4. CASE Handle!AgentGivesUp \/ Handle!AllCollected \/ Handle!Decide
  <2>1. /\ UNCHANGED <<node, calls, taken, branch>> /\ Served' = Served /\ at = "running"
        /\ at' # "running"
    BY <1>4, ServedRemains
      DEF Handle!AgentGivesUp, Handle!AllCollected, Handle!Decide, Handle!GivenUnchanged,
          Handle!Done, Handle!Failed
  <2>2. out'.error \in {None, "param"}
    BY <1>4 DEF Handle!AgentGivesUp, Handle!AllCollected, Handle!Decide, Handle!Done, Handle!Failed
  <2> QED
    BY <2>1, <2>2, NoneIsNoNumber DEF HandlersInv
<1>5. CASE Handle!Collect
  <2>1. /\ UNCHANGED <<node, calls, taken, branch>> /\ Served' = Served /\ at = "running"
    BY <1>5, ServedRemains DEF Handle!Collect, Handle!GivenUnchanged
  <2>2. \/ UNCHANGED <<at, out>>
        \/ at' = "failed" /\ \E i \in DOMAIN branch : out'.error = branch[i]
    BY <1>5 DEF Handle!Collect, Handle!NextBranch, Handle!Failed
  <2> QED
    BY <2>1, <2>2 DEF HandlersInv
<1>6. ASSUME NEW i \in DOMAIN branch, Handle!BranchEnds(i)
      PROVE  HandlersInv'
  <2>1. UNCHANGED <<node, at, calls, taken, out>> /\ Served' = Served
    BY <1>6, ServedRemains DEF Handle!BranchEnds, Handle!GivenUnchanged
  <2> DEFINE keyless == \E s \in Handle!StepsWithin(Handle!NestedOf(node)[i], MaxNesting - 1) :
                          Handle!CallsModel(s) /\ ~Handle!HasKey(Handle!Model(s))
  <2>2. PICK end \in {"ok", "failed"} \cup (IF keyless THEN {"key"} ELSE {}) :
          branch' = [branch EXCEPT ![i] = end]
    BY <1>6 DEF Handle!BranchEnds
  <2>3. Served => ~keyless
    BY ServedHasKeys DEF HandlersInv
  <2>4. Served => end # "key"
    BY <2>2, <2>3
  <2>5. /\ DOMAIN branch' = DOMAIN branch
        /\ \A j \in DOMAIN branch : branch'[j] \in {branch[j], end}
    BY <2>2
  <2> QED
    BY <2>1, <2>4, <2>5 DEF HandlersInv
<1> QED
  BY <1>1, <1>2, <1>3, <1>4, <1>5, <1>6 DEF Handle!Next, handlersVars

\* For any nodes, a handler makes no more model calls than the estimate says that a quota was
\* checked against, and never lacks a key when the listed secrets are there, however deep the
\* workflow is that wants it (estimate and required_secrets of the synthesis layer; handlers.rs).
THEOREM EstimateAndSecretsCover == ServicesSpec => []EstimateAndSecretsSuffice
<1>1. ServicesInit => HandlersInv
  BY HandlersInit DEF ServicesInit
<1>2. HandlersInv /\ [ServicesNext]_servicesVars => HandlersInv'
  BY HandlersNext DEF ServicesNext, Rest, servicesVars
<1>3. HandlersInv => EstimateAndSecretsSuffice
  <2> SUFFICES ASSUME HandlersInv PROVE EstimateAndSecretsSuffice
    OBVIOUS
  <2>1. ASSUME node.capability \notin {"subgraph", "parallel"}
        PROVE  calls <= Handle!Estimate(<<node>>).calls
    <3>1. Handle!Invocations(node) \in Nat /\ calls <= Handle!Invocations(node)
      BY BudgetKnown DEF HandlersInv, Handle!Invocations
    <3> QED
      BY <3>1, EstimateOfOne
  <2> QED
    BY <2>1
      DEF HandlersInv, Served, EstimateAndSecretsSuffice, Handle!EstimateAndSecretsSuffice
<1> QED
  BY <1>1, <1>2, <1>3, PTL DEF ServicesSpec

-----------------------------------------------------------------------------
(* CoreEngine: visits.                                                      *)

\* What DefaultDagValidator makes sure of, and what a workflow is made of.
Proper(w) ==
  /\ IsWorkflow(w)
  /\ \A i \in DOMAIN w.nodes : Core!ToSet(w.nodes[i].deps) \subseteq Core!NodeIds(w)

Deps(w, id) == Core!NodeOf(w, id).deps

LEMMA IdsAreFinite ==
  ASSUME NEW w, Proper(w)
  PROVE  /\ Len(w.nodes) \in Nat /\ DOMAIN w.nodes = 1..Len(w.nodes)
         /\ IsFiniteSet(Core!NodeIds(w)) /\ Cardinality(Core!NodeIds(w)) \in Nat
<1> DEFINE n == Len(w.nodes)
           f == [i \in 1..n |-> w.nodes[i].id]
<1>1. n \in Nat /\ DOMAIN w.nodes = 1..n
  BY DEF Proper, IsWorkflow
<1>2. IsFiniteSet(1..n)
  BY <1>1, FS_Interval
<1>3. Core!NodeIds(w) = {f[i] : i \in 1..n}
  BY <1>1 DEF Core!NodeIds
<1>4. f \in Surjection(1..n, Core!NodeIds(w))
  BY <1>3 DEF Surjection
<1> HIDE DEF n, f
<1>5. IsFiniteSet(Core!NodeIds(w))
  BY <1>2, <1>4, FS_Surjection DEF ExistsSurjection
<1> QED
  BY <1>1, <1>5, FS_CardinalityType DEF n

LEMMA NodeFacts ==
  ASSUME NEW w, Proper(w), NEW id \in Core!NodeIds(w)
  PROVE  /\ \E i \in DOMAIN w.nodes : w.nodes[i].id = id /\ Core!NodeOf(w, id) = w.nodes[i]
         /\ Deps(w, id) \in Seq(Core!NodeIds(w))
         /\ Core!NodeOf(w, id).need \in [{"cpu", "gpu", "memory"} -> Nat]
<1> DEFINE places == {i \in DOMAIN w.nodes : w.nodes[i].id = id}
           last == CHOOSE i \in places : \A j \in places : j <= i
<1>1. Len(w.nodes) \in Nat /\ DOMAIN w.nodes = 1..Len(w.nodes)
  BY IdsAreFinite
<1>2. places # {} /\ places \subseteq 0..Len(w.nodes)
  BY <1>1 DEF Core!NodeIds
<1>3. \E i \in places : \A j \in places : j <= i
  <2> HIDE DEF places
  <2> QED
    BY <1>1, <1>2, GreatestOf
<1>4. last \in places
  BY <1>3
<1>5. Core!NodeOf(w, id) = w.nodes[last]
  BY DEF Core!NodeOf
<1> HIDE DEF last
<1>6. last \in DOMAIN w.nodes /\ w.nodes[last].id = id
  BY <1>4
<1>7. w.nodes[last].deps \in Seq(Core!NodeIds(w))
  <2> DEFINE deps == w.nodes[last].deps
  <2>1. deps \in Seq(ToSet(deps)) /\ ToSet(deps) \subseteq Core!NodeIds(w)
    BY <1>6 DEF Proper, IsWorkflow, Core!ToSet, ToSet
  <2> HIDE DEF deps
  <2>2. deps \in Seq(Core!NodeIds(w))
    BY <2>1
  <2> QED
    BY <2>2 DEF deps
<1> QED
  BY <1>5, <1>6, <1>7 DEF Deps, Proper, IsWorkflow

\* No node is in an order twice, and what is in order is marked.
Neat(s) ==
  /\ Core!ToSet(s.order) \subseteq s.visited
  /\ \A i, j \in DOMAIN s.order : s.order[i] = s.order[j] => i = j

\* From s on nodes were only marked, and those that were are in order after what was.
Continues(s, r) ==
  /\ s.visited \subseteq r.visited
  /\ Len(s.order) <= Len(r.order) /\ \A i \in DOMAIN s.order : r.order[i] = s.order[i]
  /\ r.visited \ s.visited \subseteq Core!ToSet(r.order)
  /\ Core!ToSet(r.order) \subseteq Core!ToSet(s.order) \cup (r.visited \ s.visited)
  /\ Neat(s) => Neat(r)

LEMMA VisitsTyped ==
  ASSUME NEW w, NEW s \in Core!Visits(w)
  PROVE  /\ s.visited \subseteq Core!NodeIds(w) /\ s.order \in Seq(Core!NodeIds(w))
         /\ Len(s.order) \in Nat /\ DOMAIN s.order = 1..Len(s.order)
         /\ s = [visited |-> s.visited, order |-> s.order]
BY DEF Core!Visits

LEMMA ContinuesSelf ==
  ASSUME NEW w, NEW s \in Core!Visits(w)
  PROVE  Continues(s, s)
<1>1. Len(s.order) \in Nat
  BY VisitsTyped
<1> QED
  BY <1>1 DEF Continues

LEMMA ContinuesChain ==
  ASSUME NEW w, NEW s \in Core!Visits(w), NEW r \in Core!Visits(w), NEW q \in Core!Visits(w),
         Continues(s, r), Continues(r, q)
  PROVE  Continues(s, q)
<1>1. /\ Len(s.order) \in Nat /\ Len(r.order) \in Nat /\ Len(q.order) \in Nat
      /\ DOMAIN s.order = 1..Len(s.order) /\ DOMAIN r.order = 1..Len(r.order)
      /\ DOMAIN q.order = 1..Len(q.order)
  BY VisitsTyped
<1>2. Len(s.order) <= Len(q.order) /\ \A i \in DOMAIN s.order : q.order[i] = s.order[i]
  BY <1>1 DEF Continues
<1>3. Core!ToSet(r.order) \subseteq Core!ToSet(q.order)
  <2> SUFFICES ASSUME NEW i \in DOMAIN r.order
               PROVE  \E j \in DOMAIN q.order : q.order[j] = r.order[i]
    BY DEF Core!ToSet
  <2>1. i \in DOMAIN q.order /\ q.order[i] = r.order[i]
    BY <1>1 DEF Continues
  <2> QED
    BY <2>1
<1>4. q.visited \ s.visited \subseteq Core!ToSet(q.order)
  BY <1>3 DEF Continues
<1> QED
  BY <1>2, <1>4 DEF Continues

\* Of visits one after the other, what comes later continues what comes earlier.
LEMMA HistoryContinues ==
  ASSUME NEW w, NEW n \in Nat, NEW step, NEW start, NEW h,
         IsHistory(h, Core!Visits(w), n, start, step),
         \A k \in 1..n : \A s \in Core!Visits(w) : Continues(s, step[k][s]),
         NEW j \in 0..n
  PROVE  \A k \in j..n : Continues(h[j], h[k])
<1> DEFINE V == Core!Visits(w)
           G == {k \in 0..n : j <= k => Continues(h[j], h[k])}
<1>1. h \in [0..n -> V] /\ \A k \in 1..n : h[k] = step[k][h[k - 1]]
  BY DEF IsHistory
<1>2. h[j] \in V
  BY <1>1
<1>3. Continues(h[j], h[j])
  BY <1>2, ContinuesSelf
<1>4. 0 \in G
  BY <1>3
<1>5. ASSUME NEW k \in 1..n, k - 1 \in G
      PROVE  k \in G
  <2>1. CASE j <= k - 1
    <3>1. Continues(h[j], h[k - 1])
      BY <1>5, <2>1
    <3>2. h[k - 1] \in V /\ h[k] \in V /\ h[k] = step[k][h[k - 1]]
      BY <1>1
    <3>3. Continues(h[k - 1], h[k])
      BY <3>2
    <3>4. Continues(h[j], h[k])
      BY <1>2, <3>1, <3>2, <3>3, ContinuesChain
    <3> QED
      BY <3>4
  <2>2. CASE j = k
    BY <1>3, <2>2
  <2>3. CASE j > k
    BY <2>3
  <2> QED
    BY <2>1, <2>2, <2>3
<1> HIDE DEF G
<1>6. 0..n \subseteq G
  BY <1>4, <1>5, Upwards
<1>7. \A k \in j..n : k \in 0..n /\ j <= k
  OBVIOUS
<1> QED
  BY <1>6, <1>7 DEF G

\* What a visit is: from every node and every mark it continues.
Visiting(w, f) ==
  /\ f \in [Core!NodeIds(w) -> [Core!Visits(w) -> Core!Visits(w)]]
  /\ \A id \in Core!NodeIds(w), s \in Core!Visits(w) : Continues(s, f[id][s])

\* The node is marked, and last in order.
EndsIn(r, id) ==
  id \in r.visited /\ Len(r.order) \in DOMAIN r.order /\ r.order[Len(r.order)] = id

Marked(s, id) == [s EXCEPT !.visited = @ \cup {id}]

\* The visits of the dependencies of a node.
IsLoop(h, w, f, id, s) ==
  /\ h \in [0..Len(Deps(w, id)) -> Core!Visits(w)] /\ h[0] = Marked(s, id)
  /\ \A k \in 1..Len(Deps(w, id)) : h[k] = f[Deps(w, id)[k]][h[k - 1]]
  /\ \A j \in 0..Len(Deps(w, id)) :
       \A k \in j..Len(Deps(w, id)) : Continues(h[j], h[k])
  /\ Core!VisitNode(w, f)[id][s] = [h[Len(Deps(w, id))] EXCEPT !.order = Append(@, id)]

LEMMA LoopExists ==
  ASSUME NEW w, Proper(w), NEW f, Visiting(w, f),
         NEW id \in Core!NodeIds(w), NEW s \in Core!Visits(w), id \notin s.visited
  PROVE  \E h : IsLoop(h, w, f, id, s)
<1> DEFINE N == Core!NodeIds(w)
           V == Core!Visits(w)
           deps == Deps(w, id)
           n == Len(deps)
           start == Marked(s, id)
           step == [k \in DOMAIN deps |-> f[deps[k]]]
<1>1. deps \in Seq(N) /\ n \in Nat /\ DOMAIN deps = 1..n /\ \A k \in 1..n : deps[k] \in N
  BY NodeFacts
<1>2. start \in V
  BY DEF Marked, Core!Visits
<1>3. step \in [1..n -> [V -> V]]
  BY <1>1 DEF Visiting
<1>4. \A k \in 1..n : step[k] = f[deps[k]]
  BY <1>1
<1>5. Core!VisitNode(w, f)[id][s] = [Iterate(n, start, step) EXCEPT !.order = Append(@, id)]
  BY Iterates DEF Core!VisitNode, Deps, Marked
<1>6. \A k \in 1..n : \A t \in V : Continues(t, step[k][t])
  BY <1>1, <1>4 DEF Visiting
<1> HIDE DEF step, start, n, deps
<1>7. PICK h : IsHistory(h, V, n, start, step) /\ h[n] = Iterate(n, start, step)
  <2> HIDE DEF V, N
  <2>1. n \in Nat
    BY <1>1
  <2> QED
    BY <1>2, <1>3, <2>1, IterateFacts
<1>8. \A j \in 0..n : \A k \in j..n : Continues(h[j], h[k])
  BY <1>1, <1>6, <1>7, HistoryContinues
<1>9. h \in [0..n -> V] /\ h[0] = start /\ \A k \in 1..n : h[k] = f[deps[k]][h[k - 1]]
  BY <1>4, <1>7 DEF IsHistory
<1>10. Core!VisitNode(w, f)[id][s] = [h[n] EXCEPT !.order = Append(@, id)]
  BY <1>5, <1>7
<1> QED
  BY <1>8, <1>9, <1>10 DEF IsLoop, n, deps, start

LEMMA VisitNodeFacts ==
  ASSUME NEW w, Proper(w), NEW f, Visiting(w, f)
  PROVE  /\ Visiting(w, Core!VisitNode(w, f))
         /\ \A id \in Core!NodeIds(w), s \in Core!Visits(w) :
              IF id \in s.visited THEN Core!VisitNode(w, f)[id][s] = s
                                  ELSE EndsIn(Core!VisitNode(w, f)[id][s], id)
<1> DEFINE N == Core!NodeIds(w)
           V == Core!Visits(w)
           g == Core!VisitNode(w, f)
<1>1. ASSUME NEW id \in N, NEW s \in V, id \in s.visited
      PROVE  g[id][s] = s
  BY <1>1 DEF Core!VisitNode
<1>2. ASSUME NEW id \in N, NEW s \in V, id \notin s.visited
      PROVE  g[id][s] \in V /\ Continues(s, g[id][s]) /\ EndsIn(g[id][s], id)
  <2> DEFINE r == g[id][s]
             n == Len(Deps(w, id))
  <2>1. PICK h : IsLoop(h, w, f, id, s)
    BY <1>2, LoopExists
  <2>2. n \in Nat
    BY NodeFacts
  <2> DEFINE a == h[n]
             m == h[0]
  <2>3. /\ a \in V /\ m \in V /\ m = Marked(s, id) /\ Continues(m, a)
        /\ r = [a EXCEPT !.order = Append(@, id)]
    BY <2>1, <2>2 DEF IsLoop
  <2> HIDE DEF r, n, a, m, g
  <2>4. m.visited = s.visited \cup {id} /\ m.order = s.order
    BY <2>3, VisitsTyped DEF Marked
  <2>5. r.visited = a.visited /\ r.order = Append(a.order, id) /\ r \in V
    <3>1. /\ a = [visited |-> a.visited, order |-> a.order]
          /\ a.visited \subseteq N /\ a.order \in Seq(N)
      BY <2>3, VisitsTyped
    <3> DEFINE o == Append(a.order, id)
    <3>2. r = [visited |-> a.visited, order |-> o]
      BY <2>3, <3>1
    <3>3. o \in Seq(N)
      BY <3>1
    <3> HIDE DEF o
    <3>4. r.visited = a.visited /\ r.order = o /\ r \in V
      BY <3>1, <3>2, <3>3 DEF Core!Visits
    <3> QED
      BY <3>4 DEF o
  <2>6. /\ Len(a.order) \in Nat /\ DOMAIN a.order = 1..Len(a.order)
        /\ Len(s.order) \in Nat /\ DOMAIN s.order = 1..Len(s.order)
        /\ a.order \in Seq(N)
    BY <2>3, VisitsTyped
  <2>7. /\ Len(r.order) = Len(a.order) + 1 /\ DOMAIN r.order = 1..Len(a.order) + 1
        /\ \A i \in DOMAIN a.order : r.order[i] = a.order[i]
        /\ r.order[Len(a.order) + 1] = id
    BY <2>5, <2>6
  <2>8. Core!ToSet(r.order) = Core!ToSet(a.order) \cup {id}
    BY <2>6, <2>7 DEF Core!ToSet
  <2>9. EndsIn(r, id)
    BY <2>3, <2>4, <2>5, <2>6, <2>7 DEF EndsIn, Continues
  <2>10. Len(s.order) <= Len(r.order) /\ \A i \in DOMAIN s.order : r.order[i] = s.order[i]
    BY <2>3, <2>4, <2>6, <2>7 DEF Continues
  <2>11. /\ s.visited \subseteq r.visited /\ r.visited \ s.visited \subseteq Core!ToSet(r.order)
         /\ Core!ToSet(r.order) \subseteq Core!ToSet(s.order) \cup (r.visited \ s.visited)
    BY <1>2, <2>3, <2>4, <2>5, <2>8 DEF Continues
  <2>12. ASSUME Neat(s)
         PROVE  Neat(r)
    <3>1. Neat(m)
      BY <2>4, <2>12 DEF Neat
    <3>2. Neat(a)
      BY <2>3, <3>1 DEF Continues
    <3>3. id \notin Core!ToSet(a.order) /\ id \in a.visited
      BY <1>2, <2>3, <2>4, <2>12 DEF Continues, Neat
    <3>4. \A i \in DOMAIN a.order : a.order[i] # id
      BY <3>3 DEF Core!ToSet
    <3>5. \A i, j \in DOMAIN r.order : r.order[i] = r.order[j] => i = j
      BY <2>6, <2>7, <3>2, <3>4 DEF Neat
    <3> QED
      BY <2>5, <2>8, <3>2, <3>3, <3>5 DEF Neat
  <2> QED
    BY <2>5, <2>9, <2>10, <2>11, <2>12 DEF Continues, r
<1>3. \A id \in N, s \in V : g[id][s] \in V /\ Continues(s, g[id][s])
  BY <1>1, <1>2, ContinuesSelf
<1>4. g = [id \in N |-> [s \in V |-> g[id][s]]]
  BY DEF Core!VisitNode
<1> HIDE DEF g
<1>5. g \in [N -> [V -> V]]
  BY <1>3, <1>4
<1> QED
  BY <1>1, <1>2, <1>3, <1>5 DEF Visiting, g

\* How deep a visit may go.
Depth(w) == Core!Cardinality(Core!NodeIds(w))

LEMMA DepthIsNumber ==
  ASSUME NEW w, Proper(w)
  PROVE  /\ Depth(w) = Cardinality(Core!NodeIds(w)) /\ Depth(w) \in Nat
         /\ \A x, y \in Core!NodeIds(w) : x # y => Depth(w) >= 2
         /\ \A x \in Core!NodeIds(w) : Depth(w) >= 1
<1> DEFINE N == Core!NodeIds(w)
<1>1. Depth(w) = Cardinality(N)
  BY DEF Depth, Core!Cardinality, Cardinality
<1>2. IsFiniteSet(N) /\ Cardinality(N) \in Nat
  BY IdsAreFinite
<1> HIDE DEF N
<1>3. ASSUME NEW x \in N, NEW y \in N, x # y
      PROVE  Cardinality(N) >= 2
  <2>1. IsFiniteSet({x}) /\ Cardinality({x}) = 1
    BY FS_Singleton
  <2>2. Cardinality({x} \cup {y}) = 2
    BY <1>3, <2>1, FS_AddElement
  <2>3. Cardinality({x} \cup {y}) <= Cardinality(N)
    BY <1>2, FS_Subset
  <2> QED
    BY <1>2, <2>2, <2>3
<1>4. ASSUME NEW x \in N
      PROVE  Cardinality(N) >= 1
  <2>1. Cardinality({x}) = 1
    BY FS_Singleton
  <2>2. Cardinality({x}) <= Cardinality(N)
    BY <1>2, FS_Subset
  <2> QED
    BY <1>2, <2>1, <2>2
<1> QED
  BY <1>1, <1>2, <1>3, <1>4 DEF N

\* The visits, by how many visits they may be deep.
IsDepths(v, w) ==
  v = [d \in 0..Depth(w) |->
         IF d = 0 THEN [id \in Core!NodeIds(w) |-> [s \in Core!Visits(w) |-> s]]
         ELSE Core!VisitNode(w, v[d - 1])]

LEMMA NoVisitVisits ==
  ASSUME NEW w
  PROVE  Visiting(w, [id \in Core!NodeIds(w) |-> [s \in Core!Visits(w) |-> s]])
BY ContinuesSelf DEF Visiting

LEMMA DepthsExist ==
  ASSUME NEW w, Proper(w)
  PROVE  \E v : IsDepths(v, w)
<1> DEFINE n == Depth(w)
           N == Core!NodeIds(w)
           V == Core!Visits(w)
           all == [N -> [V -> V]]
           S == {f \in all : Visiting(w, f)}
           start == [id \in N |-> [s \in V |-> s]]
           step == [d \in 1..n |-> [f \in S |-> Core!VisitNode(w, f)]]
<1>1. n \in Nat
  BY DepthIsNumber
<1>2. start \in S
  BY NoVisitVisits
<1>3. \A f \in S : Core!VisitNode(w, f) \in S
  <2> SUFFICES ASSUME NEW f \in S
               PROVE  Core!VisitNode(w, f) \in S
    OBVIOUS
  <2>1. Visiting(w, Core!VisitNode(w, f))
    BY VisitNodeFacts
  <2> QED
    BY <2>1 DEF Visiting
<1> HIDE DEF S, start, n
<1>4. step \in [1..n -> [S -> S]]
  BY <1>3
<1>5. \A d \in 1..n : \A f \in S : step[d][f] = Core!VisitNode(w, f)
  OBVIOUS
<1> HIDE DEF step
<1>6. PICK h : IsHistory(h, S, n, start, step)
  BY <1>1, <1>2, <1>4, IterateFacts
<1>7. h \in [0..n -> S] /\ h[0] = start /\ \A d \in 1..n : h[d] = step[d][h[d - 1]]
  BY <1>6 DEF IsHistory
<1>8. \A d \in 0..n : d # 0 => d \in 1..n /\ d - 1 \in 0..n
  BY <1>1
<1>9. \A d \in 0..n : h[d] = IF d = 0 THEN start ELSE Core!VisitNode(w, h[d - 1])
  BY <1>5, <1>7, <1>8
<1>10. h = [d \in 0..n |-> h[d]]
  BY <1>7
<1>11. h = [d \in 0..n |-> IF d = 0 THEN start ELSE Core!VisitNode(w, h[d - 1])]
  BY <1>9, <1>10
<1> QED
  BY <1>11 DEF IsDepths, n, start

LEMMA VisitDepths ==
  ASSUME NEW w, Proper(w)
  PROVE  \E v : /\ \A d \in 0..Depth(w) : Visiting(w, v[d])
                /\ \A d \in 1..Depth(w) : v[d] = Core!VisitNode(w, v[d - 1])
                /\ Core!Visit(w) = v[Depth(w)]
<1> DEFINE n == Depth(w)
           v == CHOOSE v : IsDepths(v, w)
<1>1. IsDepths(v, w)
  BY DepthsExist
<1>2. Core!Visit(w) = v[n]
  BY DEF Core!Visit, IsDepths, Depth
<1> HIDE DEF v
<1>3. n \in Nat
  BY DepthIsNumber
<1>4. /\ v[0] = [id \in Core!NodeIds(w) |-> [s \in Core!Visits(w) |-> s]]
      /\ \A d \in 1..n : v[d] = Core!VisitNode(w, v[d - 1])
  BY <1>1, <1>3 DEF IsDepths
<1> DEFINE G == {d \in 0..n : Visiting(w, v[d])}
<1>5. 0 \in G
  BY <1>3, <1>4, NoVisitVisits
<1>6. ASSUME NEW k \in 1..n, k - 1 \in G
      PROVE  k \in G
  <2>1. Visiting(w, Core!VisitNode(w, v[k - 1]))
    BY <1>6, VisitNodeFacts
  <2> QED
    BY <1>4, <2>1
<1> HIDE DEF G
<1>7. 0..n \subseteq G
  BY <1>3, <1>5, <1>6, Upwards
<1> QED
  BY <1>2, <1>4, <1>7 DEF G

\* In an order, a node does not come before something that it depends on.
Backward(w, o) ==
  \E j \in DOMAIN o : \E i \in 1..j : o[i] \in Core!ToSet(Deps(w, o[j]))

LEMMA OrderGrows ==
  ASSUME NEW w, NEW s \in Core!Visits(w), NEW r \in Core!Visits(w), Continues(s, r)
  PROVE  /\ Core!ToSet(s.order) \subseteq Core!ToSet(r.order)
         /\ Backward(w, s.order) => Backward(w, r.order)
<1>1. /\ Len(s.order) \in Nat /\ Len(r.order) \in Nat
      /\ DOMAIN s.order = 1..Len(s.order) /\ DOMAIN r.order = 1..Len(r.order)
  BY VisitsTyped
<1>2. \A i \in DOMAIN s.order : i \in DOMAIN r.order /\ r.order[i] = s.order[i]
  BY <1>1 DEF Continues
<1>3. Core!ToSet(s.order) \subseteq Core!ToSet(r.order)
  <2> SUFFICES ASSUME NEW i \in DOMAIN s.order
               PROVE  \E j \in DOMAIN r.order : r.order[j] = s.order[i]
    BY DEF Core!ToSet
  <2> QED
    BY <1>2
<1>4. ASSUME Backward(w, s.order)
      PROVE  Backward(w, r.order)
  <2>1. PICK j \in DOMAIN s.order : \E i \in 1..j : s.order[i] \in Core!ToSet(Deps(w, s.order[j]))
    BY <1>4 DEF Backward
  <2>2. PICK i \in 1..j : s.order[i] \in Core!ToSet(Deps(w, s.order[j]))
    BY <2>1
  <2>3. i \in DOMAIN s.order
    BY <1>1
  <2>4. r.order[i] \in Core!ToSet(Deps(w, r.order[j])) /\ j \in DOMAIN r.order
    BY <1>2, <2>2, <2>3
  <2> QED
    BY <2>4 DEF Backward
<1> QED
  BY <1>3, <1>4

LEMMA VisitTyped ==
  ASSUME NEW w, Proper(w)
  PROVE  /\ Visiting(w, Core!Visit(w))
         /\ \A id \in Core!NodeIds(w), s \in Core!Visits(w) :
              IF id \in s.visited THEN Core!Visit(w)[id][s] = s
                                  ELSE EndsIn(Core!Visit(w)[id][s], id)
<1>1. PICK v : /\ \A d \in 0..Depth(w) : Visiting(w, v[d])
               /\ \A d \in 1..Depth(w) : v[d] = Core!VisitNode(w, v[d - 1])
               /\ Core!Visit(w) = v[Depth(w)]
  BY VisitDepths
<1>2. Depth(w) \in Nat /\ \A x \in Core!NodeIds(w) : Depth(w) >= 1
  BY DepthIsNumber
<1>3. Visiting(w, Core!Visit(w))
  BY <1>1, <1>2
<1>4. ASSUME NEW id \in Core!NodeIds(w)
      PROVE  \A s \in Core!Visits(w) :
               IF id \in s.visited THEN Core!Visit(w)[id][s] = s
                                   ELSE EndsIn(Core!Visit(w)[id][s], id)
  <2>1. Depth(w) \in 1..Depth(w) /\ Depth(w) - 1 \in 0..Depth(w)
    BY <1>2
  <2>2. Core!Visit(w) = Core!VisitNode(w, v[Depth(w) - 1]) /\ Visiting(w, v[Depth(w) - 1])
    BY <1>1, <2>1
  <2> QED
    BY <2>2, VisitNodeFacts
<1> QED
  BY <1>3, <1>4

\* What depends on nothing is marked alone; what depends on something comes after it.
LEMMA VisitOfDependent ==
  ASSUME NEW w, Proper(w), NEW id \in Core!NodeIds(w), NEW s \in Core!Visits(w),
         id \notin s.visited
  PROVE  /\ Deps(w, id) = <<>> => Core!Visit(w)[id][s].visited = s.visited \cup {id}
         /\ Deps(w, id) # <<>> /\ s.visited \subseteq Core!ToSet(s.order)
              => Backward(w, Core!Visit(w)[id][s].order)
<1> DEFINE N == Core!NodeIds(w)
           V == Core!Visits(w)
           n == Depth(w)
           deps == Deps(w, id)
           last == Len(deps)
           r == Core!Visit(w)[id][s]
<1>1. PICK v : /\ \A d \in 0..n : Visiting(w, v[d])
               /\ \A d \in 1..n : v[d] = Core!VisitNode(w, v[d - 1])
               /\ Core!Visit(w) = v[n]
  BY VisitDepths
<1>2. /\ n \in Nat /\ n >= 1 /\ \A x, y \in N : x # y => n >= 2
  BY DepthIsNumber
<1> DEFINE f == v[n - 1]
<1>3. Visiting(w, f) /\ Core!Visit(w) = Core!VisitNode(w, f)
  <2>1. n \in 1..n /\ n - 1 \in 0..n
    BY <1>2
  <2> QED
    BY <1>1, <2>1
<1>4. PICK h : IsLoop(h, w, f, id, s)
  <2> HIDE DEF f
  <2> QED
    BY <1>3, LoopExists
<1>5. deps \in Seq(N) /\ last \in Nat /\ DOMAIN deps = 1..last /\ \A k \in 1..last : deps[k] \in N
  BY NodeFacts
<1>6. /\ h \in [0..last -> V] /\ h[0] = Marked(s, id)
      /\ \A k \in 1..last : h[k] = f[deps[k]][h[k - 1]]
      /\ \A j \in 0..last : \A k \in j..last : Continues(h[j], h[k])
      /\ r = [h[last] EXCEPT !.order = Append(@, id)]
  BY <1>3, <1>4 DEF IsLoop
<1>7. h[0].visited = s.visited \cup {id} /\ h[0].order = s.order
  BY <1>6, VisitsTyped DEF Marked
<1> DEFINE a == h[last]
<1>8. a \in V /\ h[0] \in V
  BY <1>5, <1>6
<1>9. r.visited = a.visited /\ r.order = Append(a.order, id)
  BY <1>6, <1>8, VisitsTyped
<1>10. ASSUME deps = <<>>
       PROVE  r.visited = s.visited \cup {id}
  <2>1. last = 0
    BY <1>10
  <2> QED
    BY <1>7, <1>9, <2>1
<1>11. ASSUME deps # <<>>, s.visited \subseteq Core!ToSet(s.order)
       PROVE  Backward(w, r.order)
  <2> DEFINE y == deps[1]
  <2>1. 1 \in 1..last /\ y \in N /\ y \in Core!ToSet(deps)
    BY <1>5, <1>11 DEF Core!ToSet
  <2> HIDE DEF y
  <2>2. Len(a.order) \in Nat /\ DOMAIN a.order = 1..Len(a.order) /\ a.order \in Seq(N)
    BY <1>8, VisitsTyped
  <2> DEFINE m == Len(a.order) + 1
  <2>3. /\ DOMAIN r.order = 1..m /\ m \in 1..m /\ r.order[m] = id
        /\ \A i \in DOMAIN a.order : r.order[i] = a.order[i] /\ i \in 1..m
    BY <1>9, <2>2
  <2>4. y = id \/ y \in Core!ToSet(a.order)
    <3>1. CASE y = id
      BY <3>1
    <3>2. CASE y # id /\ y \in s.visited
      <4>1. Continues(h[0], a)
        BY <1>5, <1>6
      <4>2. Core!ToSet(h[0].order) \subseteq Core!ToSet(a.order)
        <5> HIDE DEF a
        <5> QED
          BY <1>8, <4>1, OrderGrows
      <4> QED
        BY <1>7, <1>11, <3>2, <4>2
    <3>3. CASE y # id /\ y \notin s.visited
      <4>1. n >= 2 /\ n - 1 \in 1..n /\ n - 2 \in 0..n /\ (n - 1) - 1 = n - 2
        BY <1>2, <2>1, <3>3
      <4>2. f = Core!VisitNode(w, v[n - 2]) /\ Visiting(w, v[n - 2])
        BY <1>1, <4>1
      <4>3. h[1] = f[y][h[0]] /\ h[1] \in V /\ 1 \in 0..last
        BY <1>6, <2>1 DEF y
      <4>4. y \notin h[0].visited
        BY <1>7, <3>3
      <4>5. EndsIn(h[1], y)
        <5> HIDE DEF f
        <5> QED
          BY <1>8, <2>1, <4>2, <4>3, <4>4, VisitNodeFacts
      <4>6. y \in Core!ToSet(h[1].order)
        BY <4>5 DEF EndsIn, Core!ToSet
      <4>7. Continues(h[1], a)
        BY <1>6, <2>1
      <4>8. Core!ToSet(h[1].order) \subseteq Core!ToSet(a.order)
        <5> HIDE DEF a
        <5> QED
          BY <1>8, <4>3, <4>7, OrderGrows
      <4> QED
        BY <4>6, <4>8
    <3> QED
      BY <3>1, <3>2, <3>3
  <2> HIDE DEF m, a, r, deps, last
  <2>5. \E i \in 1..m : r.order[i] = y
    BY <2>3, <2>4 DEF Core!ToSet
  <2>6. \E i \in 1..m : r.order[i] \in Core!ToSet(Deps(w, r.order[m]))
    BY <2>1, <2>3, <2>5 DEF deps
  <2> QED
    BY <2>3, <2>6 DEF Backward
<1> QED
  BY <1>10, <1>11

\* The visits one after the other: all nodes are in order once, and one comes no later
\* than something that it depends on if there is a dependency at all.
LEMMA VisitedFacts ==
  ASSUME NEW w, Proper(w)
  PROVE  /\ Core!Visited(w) \in Seq(Core!NodeIds(w))
         /\ Core!ToSet(Core!Visited(w)) = Core!NodeIds(w)
         /\ \A i, j \in DOMAIN Core!Visited(w) : Core!Visited(w)[i] = Core!Visited(w)[j] => i = j
         /\ Backward(w, Core!Visited(w)) \/ \A id \in Core!NodeIds(w) : Deps(w, id) = <<>>
<1> DEFINE N == Core!NodeIds(w)
           V == Core!Visits(w)
           n == Len(w.nodes)
           start == [visited |-> {}, order |-> <<>>]
           step == [k \in DOMAIN w.nodes |-> Core!Visit(w)[w.nodes[k].id]]
           all == Iterate(n, start, step)
<1>1. n \in Nat /\ DOMAIN w.nodes = 1..n
  BY IdsAreFinite
<1>2. \A k \in 1..n : w.nodes[k].id \in N
  BY <1>1 DEF Core!NodeIds
<1>3. start \in V /\ start.visited = {} /\ start.order = <<>>
  BY DEF Core!Visits
<1>4. Visiting(w, Core!Visit(w))
  BY VisitTyped
<1>5. step \in [1..n -> [V -> V]]
  BY <1>1, <1>2, <1>4 DEF Visiting
<1>6. \A k \in 1..n : step[k] = Core!Visit(w)[w.nodes[k].id]
  BY <1>1
<1>7. Core!Visited(w) = all.order
  BY Iterates DEF Core!Visited
<1>8. \A k \in 1..n : \A s \in V : Continues(s, step[k][s])
  BY <1>2, <1>4, <1>6 DEF Visiting
<1> HIDE DEF start, step, n
<1>9. PICK h : IsHistory(h, V, n, start, step) /\ h[n] = all
  <2> HIDE DEF V
  <2> QED
    BY <1>1, <1>3, <1>5, IterateFacts
<1>10. /\ h \in [0..n -> V] /\ h[0] = start
       /\ \A k \in 1..n : h[k] = Core!Visit(w)[w.nodes[k].id][h[k - 1]]
  BY <1>6, <1>9 DEF IsHistory
<1>11. \A j \in 0..n : \A k \in j..n : Continues(h[j], h[k])
  BY <1>1, <1>8, <1>9, HistoryContinues
<1> HIDE DEF all
<1>12. all \in V /\ all = h[n] /\ n \in 0..n /\ 0 \in 0..n
  BY <1>1, <1>9, <1>10
<1>13. \A k \in 0..n : h[k] \in V /\ Continues(start, h[k]) /\ Continues(h[k], all)
  BY <1>1, <1>10, <1>11, <1>12
<1>14. \A k \in 0..n : h[k].visited = Core!ToSet(h[k].order)
  <2> TAKE k \in 0..n
  <2>1. Core!ToSet(start.order) = {}
    BY <1>3 DEF Core!ToSet
  <2> QED
    BY <1>3, <1>13, <2>1 DEF Continues
<1>15. N \subseteq all.visited
  <2> SUFFICES ASSUME NEW k \in 1..n
               PROVE  w.nodes[k].id \in all.visited
    BY <1>1 DEF Core!NodeIds
  <2> DEFINE id == w.nodes[k].id
  <2>1. k - 1 \in 0..n /\ k \in 0..n /\ h[k - 1] \in V /\ id \in N
    BY <1>1, <1>2, <1>13
  <2>2. h[k] = Core!Visit(w)[id][h[k - 1]]
    BY <1>10
  <2> HIDE DEF id
  <2>3. id \in h[k].visited
    BY <2>1, <2>2, VisitTyped DEF EndsIn
  <2>4. Continues(h[k], all)
    BY <1>13, <2>1
  <2>5. id \in all.visited
    BY <2>3, <2>4 DEF Continues
  <2> QED
    BY <2>5 DEF id
<1>16. all.visited = N /\ all.order \in Seq(N) /\ Core!ToSet(all.order) = N
  <2>1. all.visited \subseteq N /\ all.order \in Seq(N)
    BY <1>12, VisitsTyped
  <2>2. all.visited = Core!ToSet(all.order)
    BY <1>12, <1>14
  <2> QED
    BY <1>15, <2>1, <2>2
<1>17. Neat(all)
  <2>1. Neat(start)
    BY <1>3 DEF Neat, Core!ToSet
  <2>2. Continues(start, all)
    BY <1>12, <1>13
  <2> QED
    BY <2>1, <2>2 DEF Continues
<1>18. ASSUME ~Backward(w, all.order)
       PROVE  \A id \in N : Deps(w, id) = <<>>
  <2> DEFINE G == {k \in 0..n : \A id \in h[k].visited : Deps(w, id) = <<>>}
  <2>1. 0 \in G
    BY <1>3, <1>10, <1>12
  <2>2. ASSUME NEW k \in 1..n, k - 1 \in G
        PROVE  k \in G
    <3> DEFINE id == w.nodes[k].id
               s == h[k - 1]
               r == h[k]
    <3>1. k - 1 \in 0..n /\ k \in 0..n /\ s \in V /\ r \in V /\ id \in N
      BY <1>1, <1>2, <1>13
    <3>2. r = Core!Visit(w)[id][s] /\ s.visited \subseteq Core!ToSet(s.order)
      BY <1>10, <1>14, <3>1
    <3>3. Continues(r, all)
      BY <1>13, <3>1
    <3>4. \A x \in s.visited : Deps(w, x) = <<>>
      BY <2>2
    <3>5. \A x \in r.visited : Deps(w, x) = <<>>
      <4> HIDE DEF id, s, r
      <4>1. CASE id \in s.visited
        <5>1. r = s
          BY <3>1, <3>2, <4>1, VisitTyped
        <5> QED
          BY <3>4, <5>1
      <4>2. CASE id \notin s.visited
        <5>1. ~Backward(w, r.order)
          BY <1>12, <1>18, <3>1, <3>3, OrderGrows
        <5>2. Deps(w, id) = <<>>
          BY <3>1, <3>2, <4>2, <5>1, VisitOfDependent
        <5>3. r.visited = s.visited \cup {id}
          BY <3>1, <3>2, <4>2, <5>2, VisitOfDependent
        <5> QED
          BY <3>4, <5>2, <5>3
      <4> QED
        BY <4>1, <4>2
    <3> QED
      BY <3>1, <3>5
  <2> HIDE DEF G
  <2>3. 0..n \subseteq G
    BY <1>1, <2>1, <2>2, Upwards
  <2>4. \A id \in all.visited : Deps(w, id) = <<>>
    BY <1>12, <2>3 DEF G
  <2> QED
    BY <1>16, <2>4
<1> QED
  BY <1>7, <1>16, <1>17, <1>18 DEF Neat

\* In an order, everything that a node depends on comes before it.
Forward(w, e) ==
  \A i \in DOMAIN e : Core!ToSet(Deps(w, e[i])) \subseteq {e[j] : j \in 1..i - 1}

\* The execution order has all nodes, each once, and what depends comes before what is
\* depended on.
LEMMA ExecutionOrderFacts ==
  ASSUME NEW w, Proper(w)
  PROVE  /\ Core!ExecutionOrder(w) \in Seq(Core!NodeIds(w))
         /\ Core!ToSet(Core!ExecutionOrder(w)) = Core!NodeIds(w)
         /\ Forward(w, Core!ExecutionOrder(w)) => \A id \in Core!NodeIds(w) : Deps(w, id) = <<>>
<1> DEFINE N == Core!NodeIds(w)
           o == Core!Visited(w)
           e == Core!ExecutionOrder(w)
           n == Len(o)
<1>1. /\ o \in Seq(N) /\ Core!ToSet(o) = N /\ \A i, j \in DOMAIN o : o[i] = o[j] => i = j
      /\ Backward(w, o) \/ \A id \in N : Deps(w, id) = <<>>
  BY VisitedFacts
<1>2. e = [i \in 1..n |-> o[(n - i) + 1]]
  BY DEF Core!ExecutionOrder, Core!Reverse
<1>3. n \in Nat /\ DOMAIN o = 1..n /\ \A i \in 1..n : o[i] \in N
  BY <1>1
<1> HIDE DEF o, e, N, n
<1>4. \A i \in 1..n : (n - i) + 1 \in 1..n /\ (n - ((n - i) + 1)) + 1 = i
  BY <1>3
<1>5. e \in Seq(N) /\ DOMAIN e = 1..n /\ \A i \in 1..n : e[i] = o[(n - i) + 1]
  <2>1. \A i \in 1..n : e[i] = o[(n - i) + 1] /\ e[i] \in N
    BY <1>2, <1>3, <1>4
  <2>2. e = [i \in 1..n |-> e[i]]
    BY <1>2
  <2>3. e \in [1..n -> N]
    BY <2>1, <2>2
  <2> QED
    BY <1>3, <2>1, <2>3
<1>6. \A i \in 1..n : o[i] = e[(n - i) + 1]
  BY <1>4, <1>5
<1>7. Core!ToSet(e) = Core!ToSet(o)
  BY <1>3, <1>4, <1>5, <1>6 DEF Core!ToSet
<1>8. ASSUME Forward(w, e)
      PROVE  ~Backward(w, o)
  <2> SUFFICES ASSUME NEW j \in 1..n, NEW i \in 1..j, o[i] \in Core!ToSet(Deps(w, o[j]))
               PROVE  FALSE
    BY <1>3 DEF Backward
  <2> DEFINE k == (n - j) + 1
  <2>1. k \in 1..n /\ e[k] = o[j]
    BY <1>4, <1>6
  <2>2. o[i] \in {e[m] : m \in 1..k - 1}
    BY <1>5, <1>8, <2>1 DEF Forward
  <2>3. PICK m \in 1..k - 1 : o[i] = e[m]
    BY <2>2
  <2>4. m \in 1..n /\ i \in 1..n /\ (n - m) + 1 \in 1..n /\ (n - m) + 1 > i
    BY <1>3
  <2>5. o[i] = o[(n - m) + 1]
    BY <1>5, <2>3, <2>4
  <2>6. i = (n - m) + 1
    BY <1>1, <1>3, <2>4, <2>5
  <2> QED
    BY <2>4, <2>6
<1> QED
  BY <1>1, <1>5, <1>7, <1>8 DEF o, e, N

-----------------------------------------------------------------------------
(* CoreEngine: executions.                                                  *)

\* The first k nodes of the order are done, the others are to do.  None of those that are
\* done needed more memory than there are permits, or something that was not done yet.
RunUpTo(w, left, ready, k) ==
  LET e == Core!ExecutionOrder(w) IN
  /\ left = [i \in 1..Len(e) - k |-> e[k + i]]
  /\ ready = {e[i] : i \in 1..k}
  /\ \A i \in 1..k : /\ Core!ToSet(Deps(w, e[i])) \subseteq {e[j] : j \in 1..i - 1}
                     /\ Core!NodeOf(w, e[i]).need["memory"] <= 1

IsRun(w, left, ready) ==
  /\ w \in Workflow /\ Core!Valid(w)
  /\ \E k \in 0..Len(Core!ExecutionOrder(w)) : RunUpTo(w, left, ready, k)

LEMMA ValidIsProper == \A w \in Workflow : Core!Valid(w) => Proper(w)
BY WorkflowsKnown DEF Core!Valid, Proper

LEMMA RunBegins ==
  ASSUME NEW w \in Workflow, Core!Valid(w)
  PROVE  IsRun(w, Core!ExecutionOrder(w), {})
<1> DEFINE e == Core!ExecutionOrder(w)
           N == Core!NodeIds(w)
<1>1. e \in Seq(N)
  BY ValidIsProper, ExecutionOrderFacts
<1> HIDE DEF e, N
<1>2. Len(e) \in Nat /\ e = [i \in 1..Len(e) |-> e[i]] /\ 0 \in 0..Len(e)
  BY <1>1
<1>3. e = [i \in 1..Len(e) - 0 |-> e[0 + i]] /\ {} = {e[i] : i \in 1..0}
  <2>1. \A i \in 1..Len(e) - 0 : e[0 + i] = e[i]
    BY <1>2
  <2>2. Len(e) - 0 = Len(e) /\ 1..0 = {}
    BY <1>2
  <2>3. e = [i \in 1..Len(e) - 0 |-> e[0 + i]]
    BY <1>2, <2>1, <2>2
  <2> QED
    BY <2>2, <2>3
<1>4. RunUpTo(w, e, {}, 0)
  BY <1>3 DEF RunUpTo, e
<1> QED
  BY <1>2, <1>4 DEF IsRun, e

LEMMA TailIsFunction ==
  ASSUME NEW S, NEW s \in Seq(S), s # <<>>
  PROVE  Tail(s) = [i \in 1..Len(s) - 1 |-> s[i + 1]]
<1> DEFINE t == Tail(s)
<1>1. t \in Seq(S) /\ Len(t) = Len(s) - 1 /\ \A i \in 1..Len(t) : t[i] = s[i + 1]
  OBVIOUS
<1> HIDE DEF t
<1>2. t = [i \in 1..Len(t) |-> t[i]]
  BY <1>1
<1>3. t = [i \in 1..Len(s) - 1 |-> s[i + 1]]
  BY <1>1, <1>2
<1> QED
  BY <1>3 DEF t

LEMMA RunGoesOn ==
  ASSUME NEW w, NEW left, NEW ready, IsRun(w, left, ready), left # <<>>,
         Core!ToSet(Core!NodeOf(w, Head(left)).deps) \subseteq ready,
         Core!NodeOf(w, Head(left)).need["memory"] <= 1
  PROVE  IsRun(w, Tail(left), ready \cup {Head(left)})
<1> DEFINE e == Core!ExecutionOrder(w)
           N == Core!NodeIds(w)
           n == Len(e)
<1>1. w \in Workflow /\ Core!Valid(w) /\ Proper(w)
  BY ValidIsProper DEF IsRun
<1>2. e \in Seq(N)
  BY <1>1, ExecutionOrderFacts
<1>3. PICK k \in 0..n : RunUpTo(w, left, ready, k)
  BY DEF IsRun
<1> HIDE DEF e, N
<1>4. /\ left = [i \in 1..n - k |-> e[k + i]] /\ ready = {e[i] : i \in 1..k}
      /\ \A i \in 1..k : /\ Core!ToSet(Deps(w, e[i])) \subseteq {e[j] : j \in 1..i - 1}
                         /\ Core!NodeOf(w, e[i]).need["memory"] <= 1
  BY <1>3 DEF RunUpTo, e
<1>5. n \in Nat /\ DOMAIN e = 1..n /\ \A i \in 1..n : e[i] \in N
  BY <1>2
<1> HIDE DEF n
<1>6. left \in Seq(N) /\ Len(left) = n - k
  <2>1. \A i \in 1..n - k : k + i \in 1..n
    BY <1>5
  <2>2. left \in [1..n - k -> N]
    BY <1>4, <1>5, <2>1
  <2>3. n - k \in Nat
    BY <1>5
  <2> DEFINE m == n - k
  <2> HIDE DEF m
  <2>4. left \in [1..m -> N] /\ m \in Nat
    BY <2>2, <2>3 DEF m
  <2>5. left \in Seq(N) /\ Len(left) = m
    BY <2>4
  <2> QED
    BY <2>5 DEF m
<1>7. k < n /\ k + 1 \in 1..n /\ k + 1 \in 0..n
  BY <1>5, <1>6
<1>8. Head(left) = e[k + 1]
  <2>1. Head(left) = left[1]
    BY <1>6
  <2>2. 1 \in 1..n - k
    BY <1>5, <1>7
  <2> QED
    BY <1>4, <2>1, <2>2
<1>9. Tail(left) = [i \in 1..n - (k + 1) |-> e[(k + 1) + i]]
  <2>1. Tail(left) = [i \in 1..Len(left) - 1 |-> left[i + 1]]
    BY <1>6, TailIsFunction
  <2>2. Len(left) - 1 = n - (k + 1)
    BY <1>5, <1>6
  <2>3. \A i \in 1..n - (k + 1) : left[i + 1] = e[(k + 1) + i]
    <3> TAKE i \in 1..n - (k + 1)
    <3>1. i + 1 \in 1..n - k /\ k + (i + 1) = (k + 1) + i
      BY <1>5
    <3> QED
      BY <1>4, <3>1
  <2> QED
    BY <2>1, <2>2, <2>3
<1>10. ready \cup {Head(left)} = {e[i] : i \in 1..k + 1}
  <2>1. 1..k + 1 = 1..k \cup {k + 1}
    OBVIOUS
  <2> QED
    BY <1>4, <1>8, <2>1
<1>11. ASSUME NEW i \in 1..k + 1
       PROVE  /\ Core!ToSet(Deps(w, e[i])) \subseteq {e[j] : j \in 1..i - 1}
              /\ Core!NodeOf(w, e[i]).need["memory"] <= 1
  <2>1. CASE i \in 1..k
    BY <1>4, <2>1
  <2>2. CASE i = k + 1
    <3>1. 1..i - 1 = 1..k
      BY <2>2
    <3> QED
      BY <1>4, <1>8, <2>2, <3>1 DEF Deps
  <2> QED
    BY <2>1, <2>2
<1>12. RunUpTo(w, Tail(left), ready \cup {Head(left)}, k + 1)
  BY <1>9, <1>10, <1>11 DEF RunUpTo, e, n
<1> QED
  BY <1>1, <1>7, <1>12 DEF IsRun, e, n

LEMMA RunEnds ==
  ASSUME NEW w, NEW ready, IsRun(w, <<>>, ready)
  PROVE  /\ ready = Core!NodeIds(w)
         /\ \A id \in Core!NodeIds(w) :
              Deps(w, id) = <<>> /\ Core!NodeOf(w, id).need["memory"] <= 1
<1> DEFINE e == Core!ExecutionOrder(w)
           N == Core!NodeIds(w)
           n == Len(e)
<1>1. w \in Workflow /\ Core!Valid(w) /\ Proper(w)
  BY ValidIsProper DEF IsRun
<1>2. /\ e \in Seq(N) /\ Core!ToSet(e) = N
      /\ Forward(w, e) => \A id \in N : Deps(w, id) = <<>>
  BY <1>1, ExecutionOrderFacts
<1>3. PICK k \in 0..n : RunUpTo(w, <<>>, ready, k)
  BY DEF IsRun
<1> HIDE DEF e, N
<1>4. /\ <<>> = [i \in 1..n - k |-> e[k + i]] /\ ready = {e[i] : i \in 1..k}
      /\ \A i \in 1..k : /\ Core!ToSet(Deps(w, e[i])) \subseteq {e[j] : j \in 1..i - 1}
                         /\ Core!NodeOf(w, e[i]).need["memory"] <= 1
  BY <1>3 DEF RunUpTo, e
<1>5. n \in Nat /\ DOMAIN e = 1..n
  BY <1>2
<1> HIDE DEF n
<1>6. k = n
  <2>1. DOMAIN <<>> = 1..n - k /\ DOMAIN <<>> = {}
    BY <1>4
  <2>2. k < n => 1 \in 1..n - k
    BY <1>5
  <2> QED
    BY <1>5, <2>1, <2>2
<1>7. Forward(w, e)
  BY <1>4, <1>5, <1>6 DEF Forward
<1>8. ready = N
  BY <1>2, <1>4, <1>5, <1>6 DEF Core!ToSet
<1>9. \A id \in N : Core!NodeOf(w, id).need["memory"] <= 1
  BY <1>4, <1>6, <1>8
<1> QED
  BY <1>2, <1>7, <1>8, <1>9 DEF N

LEMMA RunHead ==
  ASSUME NEW w, NEW left, NEW ready, IsRun(w, left, ready), left # <<>>
  PROVE  Proper(w) /\ Head(left) \in Core!NodeIds(w)
<1> DEFINE e == Core!ExecutionOrder(w)
           N == Core!NodeIds(w)
           n == Len(e)
<1>1. Proper(w)
  BY ValidIsProper DEF IsRun
<1>2. e \in Seq(N)
  BY <1>1, ExecutionOrderFacts
<1>3. PICK k \in 0..n : left = [i \in 1..n - k |-> e[k + i]]
  BY DEF IsRun, RunUpTo
<1> HIDE DEF e, N
<1>4. n \in Nat /\ \A i \in 1..n : e[i] \in N
  BY <1>2
<1> DEFINE m == n - k
<1>5. m \in Nat /\ \A i \in 1..m : k + i \in 1..n
  BY <1>4
<1>6. left \in [1..m -> N]
  BY <1>3, <1>4, <1>5
<1> HIDE DEF m, n
<1>7. left \in Seq(N)
  BY <1>5, <1>6
<1> QED
  BY <1>1, <1>7 DEF N

-----------------------------------------------------------------------------
(* CoreEngine: the inductive invariant.                                     *)

EngineTypes ==
  /\ free \in [Core!Kinds -> Nat]
  /\ held \in [Caller -> [Core!Kinds -> Nat]] /\ want \in [Caller -> [Core!Kinds -> Nat]]
  /\ DOMAIN phase = Caller /\ DOMAIN flow = Caller /\ DOMAIN todo = Caller
  /\ DOMAIN finished = Caller /\ DOMAIN outcome = Caller

\* The permit of memory is free or somebody's.
MemoryOnce ==
  /\ free["memory"] <= 1
  /\ \A c \in Caller : held[c]["memory"] > 0 =>
       /\ held[c]["memory"] = 1 /\ free["memory"] = 0
       /\ \A d \in Caller \ {c} : held[d]["memory"] = 0

\* A caller has done the first nodes of a valid workflow, in order, and what it has or waits
\* for is what the next one needs.
CallerRight(c) ==
  /\ phase[c] # "idle" =>
       /\ outcome[c] = "running" /\ todo[c] # <<>>
       /\ Core!ToSet(Core!At(c).deps) \subseteq finished[c]
       /\ want[c] = Core!At(c).need
  /\ phase[c] = "granted" => \A k \in Core!Kinds : want[c][k] <= held[c][k]
  /\ outcome[c] \in {"running", "ok"} => IsRun(flow[c], todo[c], finished[c])
  /\ outcome[c] = "ok" => todo[c] = <<>>

EngineInv == EngineTypes /\ MemoryOnce /\ \A c \in Caller : CallerRight(c)

LEMMA EngineInit == Core!Init => EngineInv
<1> SUFFICES ASSUME Core!Init
             PROVE  EngineInv
  OBVIOUS
<1>1. Core!Nothing \in [Core!Kinds -> Nat] /\ Core!Nothing["memory"] = 0
  BY DEF Core!Nothing, Core!Kinds
<1>2. Core!Pool \in [Core!Kinds -> Nat] /\ Core!Pool["memory"] = 1
  BY WorkflowsKnown DEF Core!Pool, Core!Kinds
<1>3. EngineTypes
  BY <1>1, <1>2 DEF Core!Init, Core!ResourcesInit, EngineTypes
<1>4. MemoryOnce
  BY <1>1, <1>2 DEF Core!Init, Core!ResourcesInit, MemoryOnce
<1>5. \A c \in Caller : CallerRight(c)
  BY DEF Core!Init, Core!ResourcesInit, CallerRight
<1> QED
  BY <1>3, <1>4, <1>5 DEF EngineInv

LEMMA TakeStep ==
  ASSUME EngineTypes, MemoryOnce, NEW c \in Caller, Core!Take(c)
  PROVE  /\ free' \in [Core!Kinds -> Nat] /\ held' \in [Caller -> [Core!Kinds -> Nat]]
         /\ MemoryOnce' /\ \A d \in Caller \ {c} : held'[d] = held[d]
<1> DEFINE k == Core!NextKind(c)
<1>1. k \in Core!Kinds
  <2>1. \E j \in Core!Kinds : Core!Lacks(c, j)
    BY DEF Core!Take
  <2>2. \E j \in Core!Kinds :
          /\ Core!Lacks(c, j)
          /\ j = "gpu" => ~Core!Lacks(c, "cpu")
          /\ j = "memory" => ~Core!Lacks(c, "cpu") /\ ~Core!Lacks(c, "gpu")
    BY <2>1 DEF Core!Kinds
  <2> QED
    BY <2>2 DEF Core!NextKind
<1>2. /\ free[k] > 0 /\ free' = [free EXCEPT ![k] = @ - 1]
      /\ held' = [held EXCEPT ![c][k] = @ + 1]
  BY DEF Core!Take
<1> HIDE DEF k
<1>3. /\ free \in [Core!Kinds -> Nat] /\ held \in [Caller -> [Core!Kinds -> Nat]]
  BY DEF EngineTypes
<1>4. free' \in [Core!Kinds -> Nat] /\ held' \in [Caller -> [Core!Kinds -> Nat]]
  BY <1>1, <1>2, <1>3
<1>5. \A d \in Caller \ {c} : held'[d] = held[d]
  BY <1>2, <1>3
<1>6. "memory" \in Core!Kinds
  BY DEF Core!Kinds
<1>7. MemoryOnce'
  <2>1. CASE k = "memory"
    <3>1. free["memory"] = 1 /\ free'["memory"] = 0
      BY <1>1, <1>2, <1>3, <2>1 DEF MemoryOnce
    <3>2. \A d \in Caller : held[d]["memory"] = 0
      BY <1>3, <1>6, <3>1 DEF MemoryOnce
    <3>3. held'[c]["memory"] = 1
      BY <1>2, <1>3, <1>6, <2>1, <3>2
    <3> QED
      BY <1>5, <3>1, <3>2, <3>3 DEF MemoryOnce
  <2>2. CASE k # "memory"
    <3>1. /\ free'["memory"] = free["memory"]
          /\ \A d \in Caller : held'[d]["memory"] = held[d]["memory"]
      BY <1>1, <1>2, <1>3, <1>6, <2>2
    <3> QED
      BY <3>1 DEF MemoryOnce
  <2> QED
    BY <2>1, <2>2
<1> QED
  BY <1>4, <1>5, <1>7

LEMMA LeaveStep ==
  ASSUME EngineTypes, MemoryOnce, NEW c \in Caller, Core!Leave(c)
  PROVE  /\ free' \in [Core!Kinds -> Nat] /\ held' \in [Caller -> [Core!Kinds -> Nat]]
         /\ want' \in [Caller -> [Core!Kinds -> Nat]] /\ DOMAIN phase' = Caller
         /\ phase'[c] = "idle" /\ MemoryOnce'
         /\ \A d \in Caller \ {c} :
              held'[d] = held[d] /\ want'[d] = want[d] /\ phase'[d] = phase[d]
<1>1. Core!Nothing \in [Core!Kinds -> Nat] /\ Core!Nothing["memory"] = 0
  BY DEF Core!Nothing, Core!Kinds
<1>2. /\ free' = [k \in Core!Kinds |-> free[k] + held[c][k]]
      /\ held' = [held EXCEPT ![c] = Core!Nothing] /\ want' = [want EXCEPT ![c] = Core!Nothing]
      /\ phase' = [phase EXCEPT ![c] = "idle"]
  BY DEF Core!Leave, Core!GiveBack
<1>3. /\ free \in [Core!Kinds -> Nat] /\ held \in [Caller -> [Core!Kinds -> Nat]]
      /\ want \in [Caller -> [Core!Kinds -> Nat]] /\ DOMAIN phase = Caller
  BY DEF EngineTypes
<1>4. /\ free' \in [Core!Kinds -> Nat] /\ held' \in [Caller -> [Core!Kinds -> Nat]]
      /\ want' \in [Caller -> [Core!Kinds -> Nat]] /\ DOMAIN phase' = Caller
  BY <1>1, <1>2, <1>3
<1>5. \A d \in Caller \ {c} :
        held'[d] = held[d] /\ want'[d] = want[d] /\ phase'[d] = phase[d]
  BY <1>2, <1>3
<1>6. phase'[c] = "idle" /\ held'[c]["memory"] = 0
  BY <1>1, <1>2, <1>3
<1>7. "memory" \in Core!Kinds
  BY DEF Core!Kinds
<1>8. MemoryOnce'
  <2>1. free'["memory"] = free["memory"] + held[c]["memory"]
    BY <1>2, <1>7
  <2>2. free["memory"] \in Nat /\ \A d \in Caller : held[d]["memory"] \in Nat
    BY <1>3, <1>7
  <2>3. CASE held[c]["memory"] = 0
    BY <1>5, <1>6, <2>1, <2>2, <2>3 DEF MemoryOnce
  <2>4. CASE held[c]["memory"] > 0
    <3>1. free'["memory"] = 1 /\ \A d \in Caller \ {c} : held'[d]["memory"] = 0
      BY <1>5, <2>1, <2>4 DEF MemoryOnce
    <3> QED
      BY <1>6, <3>1 DEF MemoryOnce
  <2> QED
    BY <2>2, <2>3, <2>4
<1> QED
  BY <1>4, <1>5, <1>6, <1>8

LEMMA CallerRests ==
  ASSUME NEW d \in Caller, CallerRight(d),
         phase'[d] = phase[d], held'[d] = held[d], want'[d] = want[d],
         flow'[d] = flow[d], todo'[d] = todo[d], finished'[d] = finished[d],
         outcome'[d] = outcome[d]
  PROVE  CallerRight(d)'
BY DEF CallerRight, Core!At

\* A caller fails while it holds nothing and waits for nothing.
LEMMA CallerFails ==
  ASSUME EngineInv, NEW c \in Caller, NEW why,
         why \notin {"running", "ok"}, Core!Fail(c, why),
         DOMAIN phase' = Caller, phase'[c] = "idle",
         \A d \in Caller \ {c} :
           held'[d] = held[d] /\ want'[d] = want[d] /\ phase'[d] = phase[d]
  PROVE  /\ DOMAIN flow' = Caller /\ DOMAIN todo' = Caller
         /\ DOMAIN finished' = Caller /\ DOMAIN outcome' = Caller
         /\ \A d \in Caller : CallerRight(d)'
<1>1. /\ DOMAIN flow' = Caller /\ DOMAIN todo' = Caller
      /\ DOMAIN finished' = Caller /\ DOMAIN outcome' = Caller
  BY DEF Core!Fail, EngineInv, EngineTypes
<1>2. outcome'[c] = why
  BY DEF Core!Fail, EngineInv, EngineTypes
<1>3. CallerRight(c)'
  BY <1>2 DEF CallerRight
<1>4. ASSUME NEW d \in Caller \ {c}
      PROVE  CallerRight(d)'
  <2>1. flow'[d] = flow[d] /\ todo'[d] = todo[d] /\ finished'[d] = finished[d]
    BY DEF Core!Fail
  <2>2. outcome'[d] = outcome[d]
    BY DEF Core!Fail, EngineInv, EngineTypes
  <2>3. CallerRight(d)
    BY DEF EngineInv
  <2> QED
    BY <2>1, <2>2, <2>3, CallerRests
<1> QED
  BY <1>1, <1>3, <1>4

LEMMA BeginStep ==
  ASSUME EngineInv, NEW c \in Caller, Core!Begin(c)
  PROVE  EngineInv'
<1>1. PICK w \in Workflow :
        /\ flow' = [flow EXCEPT ![c] = w]
        /\ todo' = [todo EXCEPT ![c] =
                      IF Core!Valid(w) THEN Core!ExecutionOrder(w) ELSE <<>>]
        /\ outcome' = [outcome EXCEPT ![c] = IF Core!Valid(w) THEN "running" ELSE "invalid"]
  BY DEF Core!Begin
<1>2. /\ finished' = [finished EXCEPT ![c] = {}] /\ outcome[c] # "running"
      /\ free' = free /\ held' = held /\ want' = want /\ phase' = phase
  BY DEF Core!Begin, Core!resourceVars
<1>3. EngineTypes
  BY DEF EngineInv
<1>4. EngineTypes' /\ MemoryOnce'
  BY <1>1, <1>2, <1>3 DEF EngineInv, EngineTypes, MemoryOnce
<1>5. phase'[c] = "idle"
  BY <1>2 DEF EngineInv, CallerRight
<1>6. CallerRight(c)'
  <2>1. CASE Core!Valid(w)
    <3>1. /\ flow'[c] = w /\ todo'[c] = Core!ExecutionOrder(w) /\ outcome'[c] = "running"
          /\ finished'[c] = {}
      BY <1>1, <1>2, <1>3, <2>1 DEF EngineTypes
    <3>2. IsRun(w, Core!ExecutionOrder(w), {})
      BY <2>1, RunBegins
    <3> QED
      BY <1>5, <3>1, <3>2 DEF CallerRight
  <2>2. CASE ~Core!Valid(w)
    <3>1. outcome'[c] = "invalid"
      BY <1>1, <1>3, <2>2 DEF EngineTypes
    <3> QED
      BY <1>5, <3>1 DEF CallerRight
  <2> QED
    BY <2>1, <2>2
<1>7. ASSUME NEW d \in Caller \ {c}
      PROVE  CallerRight(d)'
  <2>1. /\ flow'[d] = flow[d] /\ todo'[d] = todo[d] /\ finished'[d] = finished[d]
        /\ outcome'[d] = outcome[d]
    BY <1>1, <1>2, <1>3 DEF EngineTypes
  <2>2. CallerRight(d)
    BY DEF EngineInv
  <2> QED
    BY <1>2, <2>1, <2>2, CallerRests
<1> QED
  BY <1>4, <1>6, <1>7 DEF EngineInv

LEMMA AskStep ==
  ASSUME EngineInv, NEW c \in Caller, Core!MissDependency(c) \/ Core!AskForNode(c)
  PROVE  EngineInv'
<1>1. EngineTypes /\ MemoryOnce /\ outcome[c] = "running" /\ todo[c] # <<>> /\ phase[c] = "idle"
  BY DEF EngineInv, Core!MissDependency, Core!AskForNode
<1>2. ASSUME NEW why \in {"dependency", "resource"}, Core!Fail(c, why),
             UNCHANGED Core!resourceVars
      PROVE  EngineInv'
  <2>1. free' = free /\ held' = held /\ want' = want /\ phase' = phase
    BY <1>2 DEF Core!resourceVars
  <2>2. /\ DOMAIN flow' = Caller /\ DOMAIN todo' = Caller
        /\ DOMAIN finished' = Caller /\ DOMAIN outcome' = Caller
        /\ \A d \in Caller : CallerRight(d)'
    <3>1. why \notin {"running", "ok"} /\ DOMAIN phase' = Caller
      BY <1>1, <1>2, <2>1 DEF EngineTypes
    <3> QED
      BY <1>1, <1>2, <2>1, <3>1, CallerFails
  <2>3. EngineTypes' /\ MemoryOnce'
    BY <1>1, <2>1, <2>2 DEF EngineTypes, MemoryOnce
  <2> QED
    BY <2>2, <2>3 DEF EngineInv
<1>3. ASSUME Core!ToSet(Core!At(c).deps) \subseteq finished[c], Core!Ask(c, Core!At(c).need),
             UNCHANGED <<flow, todo, finished, outcome, tries>>
      PROVE  EngineInv'
  <2>1. /\ want' = [want EXCEPT ![c] = Core!At(c).need]
        /\ phase' = [phase EXCEPT ![c] = "waiting"] /\ free' = free /\ held' = held
    BY <1>3 DEF Core!Ask
  <2>2. IsRun(flow[c], todo[c], finished[c])
    BY <1>1 DEF EngineInv, CallerRight
  <2>3. Core!At(c).need \in [Core!Kinds -> Nat]
    <3>1. Proper(flow[c]) /\ Head(todo[c]) \in Core!NodeIds(flow[c])
      BY <1>1, <2>2, RunHead
    <3> QED
      BY <3>1, NodeFacts DEF Core!At, Core!Kinds
  <2>4. EngineTypes' /\ MemoryOnce'
    BY <1>1, <1>3, <2>1, <2>3 DEF EngineTypes, MemoryOnce
  <2>5. CallerRight(c)'
    <3>1. phase'[c] = "waiting" /\ want'[c] = Core!At(c).need /\ Core!At(c)' = Core!At(c)
      BY <1>1, <1>3, <2>1 DEF EngineTypes, Core!At
    <3> QED
      BY <1>1, <1>3, <2>2, <3>1 DEF CallerRight
  <2>6. ASSUME NEW d \in Caller \ {c}
        PROVE  CallerRight(d)'
    <3>1. phase'[d] = phase[d] /\ held'[d] = held[d] /\ want'[d] = want[d]
      BY <1>1, <2>1 DEF EngineTypes
    <3>2. CallerRight(d)
      BY DEF EngineInv
    <3> QED
      BY <1>3, <3>1, <3>2, CallerRests
  <2> QED
    BY <2>4, <2>5, <2>6 DEF EngineInv
<1> QED
  BY <1>2, <1>3 DEF Core!MissDependency, Core!AskForNode

LEMMA CollectStep ==
  ASSUME EngineInv, NEW c \in Caller, Core!Collect(c)
  PROVE  EngineInv'
<1>1. EngineTypes /\ MemoryOnce /\ UNCHANGED <<flow, todo, finished, outcome>>
  BY DEF EngineInv, Core!Collect
<1>2. CallerRight(c) /\ phase[c] = "waiting"
  BY DEF EngineInv, Core!Collect, Core!Take, Core!Grant
<1>3. Core!At(c)' = Core!At(c)
  BY <1>1 DEF Core!At
<1>4. CASE Core!Take(c)
  <2>1. /\ free' \in [Core!Kinds -> Nat] /\ held' \in [Caller -> [Core!Kinds -> Nat]]
        /\ MemoryOnce' /\ \A d \in Caller \ {c} : held'[d] = held[d]
    BY <1>1, <1>4, TakeStep
  <2>2. want' = want /\ phase' = phase
    BY <1>4 DEF Core!Take
  <2>3. EngineTypes'
    BY <1>1, <2>1, <2>2 DEF EngineTypes
  <2>4. CallerRight(c)'
    BY <1>1, <1>2, <1>3, <2>2 DEF CallerRight
  <2>5. ASSUME NEW d \in Caller \ {c}
        PROVE  CallerRight(d)'
    <3>1. CallerRight(d)
      BY DEF EngineInv
    <3> QED
      BY <1>1, <2>1, <2>2, <3>1, CallerRests
  <2> QED
    BY <2>1, <2>3, <2>4, <2>5 DEF EngineInv
<1>5. CASE Core!Grant(c)
  <2>1. /\ \A k \in Core!Kinds : ~Core!Lacks(c, k)
        /\ phase' = [phase EXCEPT ![c] = "granted"]
        /\ free' = free /\ held' = held /\ want' = want
    BY <1>5 DEF Core!Grant
  <2>2. EngineTypes' /\ MemoryOnce'
    BY <1>1, <2>1 DEF EngineTypes, MemoryOnce
  <2>3. \A k \in Core!Kinds : want'[c][k] <= held'[c][k]
    BY <1>1, <2>1 DEF Core!Lacks, EngineTypes
  <2>4. CallerRight(c)'
    BY <1>1, <1>2, <1>3, <2>1, <2>3 DEF CallerRight
  <2>5. ASSUME NEW d \in Caller \ {c}
        PROVE  CallerRight(d)'
    <3>1. CallerRight(d) /\ phase'[d] = phase[d]
      BY <1>1, <2>1 DEF EngineInv, EngineTypes
    <3> QED
      BY <1>1, <2>1, <3>1, CallerRests
  <2> QED
    BY <2>2, <2>4, <2>5 DEF EngineInv
<1> QED
  BY <1>4, <1>5 DEF Core!Collect

\* A wait that is over and a node that failed.
LEMMA GiveUpStep ==
  ASSUME EngineInv, NEW c \in Caller, Core!WaitOver(c) \/ Core!NodeFailed(c)
  PROVE  EngineInv'
<1>1. EngineTypes /\ MemoryOnce
  BY DEF EngineInv
<1>2. Core!Leave(c)
  BY DEF Core!WaitOver, Core!NodeFailed, Core!TimeUp, Core!Release
<1>3. PICK why \in {"resource", "node", "timeout"} : Core!Fail(c, why)
  BY DEF Core!WaitOver, Core!NodeFailed
<1>4. /\ free' \in [Core!Kinds -> Nat] /\ held' \in [Caller -> [Core!Kinds -> Nat]]
      /\ want' \in [Caller -> [Core!Kinds -> Nat]] /\ DOMAIN phase' = Caller
      /\ phase'[c] = "idle" /\ MemoryOnce'
      /\ \A d \in Caller \ {c} :
           held'[d] = held[d] /\ want'[d] = want[d] /\ phase'[d] = phase[d]
  BY <1>1, <1>2, LeaveStep
<1>5. /\ DOMAIN flow' = Caller /\ DOMAIN todo' = Caller
      /\ DOMAIN finished' = Caller /\ DOMAIN outcome' = Caller
      /\ \A d \in Caller : CallerRight(d)'
  <2>1. why \notin {"running", "ok"}
    OBVIOUS
  <2> QED
    BY <1>3, <1>4, <2>1, CallerFails
<1>6. EngineTypes'
  BY <1>4, <1>5 DEF EngineTypes
<1> QED
  BY <1>4, <1>5, <1>6 DEF EngineInv

LEMMA NodeDoneStep ==
  ASSUME EngineInv, NEW c \in Caller, Core!NodeDone(c)
  PROVE  EngineInv'
<1>1. EngineTypes /\ MemoryOnce /\ CallerRight(c) /\ phase[c] = "granted"
  BY DEF EngineInv, Core!NodeDone, Core!Release
<1>2. Core!Leave(c)
  BY DEF Core!NodeDone, Core!Release
<1>3. /\ free' \in [Core!Kinds -> Nat] /\ held' \in [Caller -> [Core!Kinds -> Nat]]
      /\ want' \in [Caller -> [Core!Kinds -> Nat]] /\ DOMAIN phase' = Caller
      /\ phase'[c] = "idle" /\ MemoryOnce'
      /\ \A d \in Caller \ {c} :
           held'[d] = held[d] /\ want'[d] = want[d] /\ phase'[d] = phase[d]
  BY <1>1, <1>2, LeaveStep
<1>4. /\ finished' = [finished EXCEPT ![c] = @ \cup {Head(todo[c])}]
      /\ todo' = [todo EXCEPT ![c] = Tail(@)] /\ flow' = flow /\ outcome' = outcome
  BY DEF Core!NodeDone
<1>5. EngineTypes'
  BY <1>1, <1>3, <1>4 DEF EngineTypes
<1>6. /\ outcome[c] = "running" /\ todo[c] # <<>> /\ IsRun(flow[c], todo[c], finished[c])
      /\ Core!ToSet(Core!At(c).deps) \subseteq finished[c]
      /\ want[c] = Core!At(c).need /\ \A k \in Core!Kinds : want[c][k] <= held[c][k]
  BY <1>1 DEF CallerRight
<1>7. Core!At(c).need["memory"] <= 1
  <2>1. "memory" \in Core!Kinds
    BY DEF Core!Kinds
  <2>2. held[c]["memory"] <= 1 /\ held[c]["memory"] \in Nat /\ want[c]["memory"] \in Nat
    BY <1>1, <2>1 DEF MemoryOnce, EngineTypes
  <2>3. want[c]["memory"] <= held[c]["memory"]
    BY <1>6, <2>1
  <2> QED
    BY <1>6, <2>2, <2>3
<1>8. IsRun(flow[c], Tail(todo[c]), finished[c] \cup {Head(todo[c])})
  BY <1>6, <1>7, RunGoesOn DEF Core!At
<1>9. CallerRight(c)'
  <2>1. /\ flow'[c] = flow[c] /\ todo'[c] = Tail(todo[c]) /\ outcome'[c] = "running"
        /\ finished'[c] = finished[c] \cup {Head(todo[c])}
    BY <1>1, <1>4, <1>6 DEF EngineTypes
  <2> QED
    BY <1>3, <1>8, <2>1 DEF CallerRight
<1>10. ASSUME NEW d \in Caller \ {c}
       PROVE  CallerRight(d)'
  <2>1. /\ flow'[d] = flow[d] /\ todo'[d] = todo[d] /\ finished'[d] = finished[d]
        /\ outcome'[d] = outcome[d]
    BY <1>1, <1>4 DEF EngineTypes
  <2>2. CallerRight(d)
    BY DEF EngineInv
  <2> QED
    BY <1>3, <2>1, <2>2, CallerRests
<1> QED
  BY <1>3, <1>5, <1>9, <1>10 DEF EngineInv

LEMMA FinishStep ==
  ASSUME EngineInv, NEW c \in Caller, Core!Finish(c)
  PROVE  EngineInv'
<1>1. EngineTypes /\ MemoryOnce /\ CallerRight(c)
  BY DEF EngineInv
<1>2. /\ outcome[c] = "running" /\ todo[c] = <<>> /\ outcome' = [outcome EXCEPT ![c] = "ok"]
      /\ UNCHANGED <<free, held, want, phase, flow, todo, finished>>
  BY DEF Core!Finish, Core!resourceVars
<1>3. EngineTypes' /\ MemoryOnce'
  BY <1>1, <1>2 DEF EngineTypes, MemoryOnce
<1>4. CallerRight(c)'
  <2>1. phase[c] = "idle" /\ IsRun(flow[c], todo[c], finished[c])
    BY <1>1, <1>2 DEF CallerRight
  <2> QED
    BY <1>2, <2>1 DEF CallerRight
<1>5. ASSUME NEW d \in Caller \ {c}
      PROVE  CallerRight(d)'
  <2>1. CallerRight(d) /\ outcome'[d] = outcome[d]
    BY <1>1, <1>2 DEF EngineInv, EngineTypes
  <2> QED
    BY <1>2, <2>1, CallerRests
<1> QED
  BY <1>3, <1>4, <1>5 DEF EngineInv

LEMMA EngineNext == EngineInv /\ [Core!Next]_engineVars => EngineInv'
<1>1. ASSUME EngineInv, Core!Next
      PROVE  EngineInv'
  BY <1>1, BeginStep, AskStep, CollectStep, GiveUpStep, NodeDoneStep, FinishStep DEF Core!Next, Core!Proceed
<1>2. ASSUME EngineInv, UNCHANGED engineVars
      PROVE  EngineInv'
  BY <1>2
     DEF engineVars, EngineInv, EngineTypes, MemoryOnce, CallerRight, Core!At
<1> QED
  BY <1>1, <1>2

\* How far the two defects of the core's engine go that TLC finds in it, for any workflows,
\* limits and callers: what completes is a workflow no node of which depends on another or needs
\* more memory than the one permit there is (visit_node and determine_execution_order turn the
\* order around; execute asks for the results of the dependencies, executor.rs).
THEOREM NothingDependentCompletes == ServicesSpec => []OnlyLooseNodesComplete
<1>1. ServicesInit => EngineInv
  BY EngineInit DEF ServicesInit
<1>2. EngineInv /\ [ServicesNext]_servicesVars => EngineInv'
  BY EngineNext DEF ServicesNext, Rest, servicesVars, engineVars
<1>3. EngineInv => OnlyLooseNodesComplete
  <2> SUFFICES ASSUME EngineInv, NEW c \in Caller, outcome[c] = "ok"
               PROVE  /\ finished[c] = Core!NodeIds(flow[c])
                      /\ \A id \in Core!NodeIds(flow[c]) :
                           /\ Core!NodeOf(flow[c], id).deps = <<>>
                           /\ Core!NodeOf(flow[c], id).need.memory <= 1
    BY DEF OnlyLooseNodesComplete, Core!OnlyLooseNodesComplete
  <2>1. IsRun(flow[c], <<>>, finished[c])
    BY DEF EngineInv, CallerRight
  <2> QED
    BY <2>1, RunEnds DEF Deps
<1> QED
  BY <1>1, <1>2, <1>3, PTL DEF ServicesSpec
-----------------------------------------------------------------------------
(* CoreEngine: the account of the permits.                                  *)

\* What each caller holds of a kind.
Amount(k) == [c \in Caller |-> held[c][k]]
Account(k) == free[k] + Total(Amount(k), Caller) = Core!Pool[k]

LEMMA HeldIsTotal ==
  \A k \in Core!Kinds : EngineTypes => Core!HeldOf(k, Caller) = Total(Amount(k), Caller)
<1> SUFFICES ASSUME NEW k \in Core!Kinds, EngineTypes
             PROVE  Core!HeldOf(k, Caller) = Total(Amount(k), Caller)
  OBVIOUS
<1> DEFINE weight == Amount(k)
           Sum(s) == s = [S \in SUBSET Caller |->
                            IF S = {} THEN 0
                            ELSE LET c == CHOOSE c \in S : TRUE IN held[c][k] + s[S \ {c}]]
           t == CHOOSE t : Sum(t)
<1>1. weight \in [Caller -> Nat]
  BY DEF EngineTypes, Amount
<1>2. \A s : Sum(s) <=> IsSum(s, weight, Caller)
  <2> TAKE s
  <2>1. \A S \in SUBSET Caller : S # {} => weight[OneOf(S)] = held[OneOf(S)][k]
    BY DEF OneOf, Amount
  <2> HIDE DEF weight
  <2> QED
    BY <2>1 DEF IsSum, OneOf
<1>3. Core!HeldOf(k, Caller) = t[Caller]
  BY DEF Core!HeldOf
<1>4. \E s : IsSum(s, weight, Caller)
  BY <1>1, CallersKnown, SumExists
<1> HIDE DEF weight, Sum
<1>5. (CHOOSE s : Sum(s)) = CHOOSE s : IsSum(s, weight, Caller)
  BY <1>2
<1>6. Total(weight, Caller) = t[Caller]
  BY <1>5 DEF Total
<1> QED
  BY <1>3, <1>6 DEF weight

LEMMA AccountInit == Core!Init => \A k \in Core!Kinds : Account(k)
<1> SUFFICES ASSUME Core!Init, NEW k \in Core!Kinds
             PROVE  Account(k)
  OBVIOUS
<1>1. Amount(k) = [c \in Caller |-> 0] /\ free[k] = Core!Pool[k] /\ Core!Pool[k] \in Nat
  BY WorkflowsKnown
     DEF Core!Init, Core!ResourcesInit, Core!Nothing, Core!Pool, Core!Kinds, Amount
<1>2. Total(Amount(k), Caller) = 0
  BY <1>1, CallersKnown, TotalOfNothing
<1> QED
  BY <1>1, <1>2 DEF Account

\* Permits move between the pools and one caller.
LEMMA AccountMoves ==
  ASSUME EngineTypes, EngineTypes', NEW c \in Caller,
         \A d \in Caller \ {c} : held'[d] = held[d],
         NEW k \in Core!Kinds, Account(k), free'[k] + held'[c][k] = free[k] + held[c][k]
  PROVE  Account(k)'
<1> DEFINE v == Amount(k)
           w == Amount(k)'
<1>1. v \in [Caller -> Nat] /\ w \in [Caller -> Nat] /\ free[k] \in Nat /\ free'[k] \in Nat
  BY DEF EngineTypes, Amount
<1>2. /\ \A d \in Caller \ {c} : w[d] = v[d]
      /\ v[c] = held[c][k] /\ w[c] = held'[c][k]
  BY DEF Amount
<1>3. free[k] + Total(v, Caller) = Core!Pool[k]
  BY DEF Account
<1> HIDE DEF v, w
<1>4. /\ Total(v, Caller) \in Nat /\ Total(w, Caller) \in Nat
      /\ Total(w, Caller) + v[c] = Total(v, Caller) + w[c]
  BY <1>1, <1>2, CallersKnown, TotalChanges
<1>5. v[c] \in Nat /\ w[c] \in Nat
  BY <1>1
<1>6. free'[k] + w[c] = free[k] + v[c]
  BY <1>2
<1>7. free'[k] + Total(w, Caller) = Core!Pool[k]
  BY <1>1, <1>3, <1>4, <1>5, <1>6
<1> QED
  BY <1>7 DEF Account, w

LEMMA CallerMoves ==
  ASSUME EngineInv, NEW c \in Caller,
         Core!Begin(c) \/ Core!MissDependency(c) \/ Core!AskForNode(c) \/ Core!WaitOver(c)
           \/ Core!Collect(c) \/ Core!NodeDone(c) \/ Core!NodeFailed(c) \/ Core!Finish(c)
  PROVE  /\ \A d \in Caller \ {c} : held'[d] = held[d]
         /\ \A k \in Core!Kinds : free'[k] + held'[c][k] = free[k] + held[c][k]
<1>1. EngineTypes
  BY DEF EngineInv
<1>2. free \in [Core!Kinds -> Nat] /\ held \in [Caller -> [Core!Kinds -> Nat]]
  BY <1>1 DEF EngineTypes
<1>3. CASE UNCHANGED <<free, held>>
  BY <1>3
<1>4. CASE Core!Take(c)
  <2> DEFINE j == Core!NextKind(c)
  <2>1. /\ free[j] > 0 /\ free' = [free EXCEPT ![j] = @ - 1]
        /\ held' = [held EXCEPT ![c][j] = @ + 1]
    BY <1>4 DEF Core!Take
  <2> HIDE DEF j
  <2>2. ASSUME NEW k \in Core!Kinds
        PROVE  free'[k] + held'[c][k] = free[k] + held[c][k]
    <3>1. free[k] \in Nat /\ held[c][k] \in Nat
      BY <1>2
    <3>2. CASE k = j
      <4>1. free'[k] = free[k] - 1 /\ held'[c][k] = held[c][k] + 1
        BY <1>2, <2>1, <3>2
      <4> QED
        BY <3>1, <4>1
    <3>3. CASE k # j
      <4>1. free'[k] = free[k] /\ held'[c][k] = held[c][k]
        BY <1>2, <2>1, <3>3
      <4> QED
        BY <4>1
    <3> QED
      BY <3>2, <3>3
  <2> QED
    BY <1>2, <2>1, <2>2
<1>5. CASE Core!Leave(c)
  <2>1. /\ free' = [k \in Core!Kinds |-> free[k] + held[c][k]]
        /\ held' = [held EXCEPT ![c] = Core!Nothing]
        /\ \A k \in Core!Kinds : Core!Nothing[k] = 0
    BY <1>5 DEF Core!Leave, Core!GiveBack, Core!Nothing
  <2>2. ASSUME NEW k \in Core!Kinds
        PROVE  free'[k] + held'[c][k] = free[k] + held[c][k]
    <3>1. free[k] \in Nat /\ held[c][k] \in Nat
      BY <1>2
    <3>2. free'[k] = free[k] + held[c][k] /\ held'[c][k] = 0
      BY <1>2, <2>1
    <3> QED
      BY <3>1, <3>2
  <2> QED
    BY <1>2, <2>1, <2>2
<1>6. UNCHANGED <<free, held>> \/ Core!Take(c) \/ Core!Leave(c)
  BY DEF Core!Begin, Core!MissDependency, Core!AskForNode, Core!Ask, Core!WaitOver, Core!TimeUp,
         Core!Collect, Core!Grant, Core!NodeDone, Core!NodeFailed, Core!Release, Core!Finish,
         Core!resourceVars
<1> QED
  BY <1>3, <1>4, <1>5, <1>6

LEMMA AccountNext ==
  ASSUME EngineInv, [Core!Next]_engineVars, NEW k \in Core!Kinds, Account(k)
  PROVE  Account(k)'
<1>1. EngineTypes /\ EngineTypes'
  BY EngineNext DEF EngineInv
<1>2. ASSUME NEW c \in Caller,
             Core!Begin(c) \/ Core!MissDependency(c) \/ Core!AskForNode(c) \/ Core!WaitOver(c)
               \/ Core!Collect(c) \/ Core!NodeDone(c) \/ Core!NodeFailed(c) \/ Core!Finish(c)
      PROVE  Account(k)'
  <2>1. /\ \A d \in Caller \ {c} : held'[d] = held[d]
        /\ free'[k] + held'[c][k] = free[k] + held[c][k]
    BY <1>2, CallerMoves
  <2> QED
    BY <1>1, <2>1, AccountMoves
<1>3. CASE UNCHANGED engineVars
  BY <1>3 DEF engineVars, Account, Amount, Core!Pool
<1> QED
  BY <1>2, <1>3 DEF Core!Next, Core!Proceed

\* For any limits, workflows and finitely many callers: what is free of a kind and what the
\* callers hold of it are the whole pool, also when one gives up while it waits with what it
\* has taken (acquire_resources and acquire_with_timeout, resource.rs: the permits are dropped
\* with the guard or with the future).
THEOREM PermitsAreKept == ServicesSpec => []Core!PermitsKept
<1> DEFINE Right == EngineInv /\ \A k \in Core!Kinds : Account(k)
<1>1. ServicesInit => Right
  BY EngineInit, AccountInit DEF ServicesInit
<1>2. Right /\ [ServicesNext]_servicesVars => Right'
  <2> SUFFICES ASSUME Right, [ServicesNext]_servicesVars
               PROVE  Right'
    OBVIOUS
  <2>1. [Core!Next]_engineVars
    BY DEF ServicesNext, Rest, servicesVars, engineVars
  <2>2. EngineInv'
    BY <2>1, EngineNext
  <2>3. \A k \in Core!Kinds : Account(k)'
    BY <2>1, AccountNext
  <2>4. Core!Kinds' = Core!Kinds
    BY DEF Core!Kinds
  <2> QED
    BY <2>2, <2>3, <2>4
<1>3. Right => Core!PermitsKept
  BY HeldIsTotal DEF Core!PermitsKept, Account, EngineInv
<1> QED
  BY <1>1, <1>2, <1>3, PTL DEF ServicesSpec
=============================================================================
