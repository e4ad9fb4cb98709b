---------------------------- MODULE Deployments ----------------------------
(***************************************************************************)
(* Deployments of the plans of one workflow name: each gets the next       *)
(* version and is never changed, and the runs of a deployment are recorded *)
(* with it.  The callers share a store in memory, or are processes that    *)
(* share a directory, where each version is a file that is written in      *)
(* place and a process may die between any two of its steps.               *)
(***************************************************************************)
EXTENDS Plans

CONSTANTS
  Caller,
  Torn,          \* a file that is empty or cut off, or holds the end of another text
  Deployable,    \* the plans that are deployed
  QuotaOf,       \* the quotas a deploy may be given
  MaxVersion,    \* bound: versions
  MaxRuns,       \* bound: recorded runs of a version, and versions with any
  MaxCrashes     \* bound: crashes

VARIABLES
  backend,       \* "memory" or "files"
  stored,        \* by version: None, Torn or a deployment
  runs,          \* what is recorded for each version: the specs that ran
  pc,            \* where each caller is
  mine,          \* the deployment that each caller is making or running
  acked,         \* history: the deployments that callers were told of
  raced,         \* history: the versions that two callers wrote at a time
  crashes

vars == <<backend, stored, runs, pc, mine, acked, raced, crashes>>

Version == 1..MaxVersion

Readable(v) == stored[v] \notin {None, Torn}

Init ==
  /\ backend \in {"memory", "files"}
  /\ stored = [v \in Version |-> None]
  /\ runs = [v \in Version |-> <<>>]
  /\ pc = [c \in Caller |-> "idle"] /\ mine = [c \in Caller |-> None]
  /\ acked = {} /\ raced = {} /\ crashes = 0

Goto(c, where) == pc' = [pc EXCEPT ![c] = where]

Leave(c) == Goto(c, "idle") /\ mine' = [mine EXCEPT ![c] = None]

-----------------------------------------------------------------------------
(* Deploying.                                                              *)

\* deploy_with refuses what is beyond the quota, before it looks at the store.
Ask(c) ==
  /\ pc[c] = "idle"
  /\ \E spec \in Deployable, quota \in QuotaOf :
       /\ WithinQuota(Estimate(spec), quota)
       /\ mine' = [mine EXCEPT ![c] = [version |-> 0, spec |-> spec]]
  /\ Goto(c, "list")
  /\ UNCHANGED <<backend, stored, runs, acked, raced, crashes>>

\* One more than the greatest version that list can read.
NextVersion == Max({v \in Version : Readable(v)} \cup {0}) + 1

List(c) ==
  /\ pc[c] = "list" /\ NextVersion \in Version
  /\ mine' = [mine EXCEPT ![c].version = NextVersion]
  /\ Goto(c, "put")
  /\ UNCHANGED <<backend, stored, runs, acked, raced, crashes>>

\* MUTANT of SameContent: nothing is compared.
SameContentAny(existing, deployment) == TRUE

\* The hashes of the specs are compared, not the prompts that they came from.
SameContent(existing, deployment) == existing.spec = deployment.spec

Acknowledge(c) == acked' = acked \cup {mine[c]} /\ Goto(c, "deployed")

\* put, on what is there: the same again is accepted and left as it is, anything else
\* is refused, and a file that cannot be read is an error.
PutAgain(c) ==
  /\ pc[c] = "put" /\ stored[mine[c].version] # None
  /\ IF Readable(mine[c].version) /\ SameContent(stored[mine[c].version], mine[c])
       THEN Acknowledge(c) /\ mine' = mine
       ELSE Leave(c) /\ acked' = acked
  /\ UNCHANGED <<backend, stored, runs, raced, crashes>>

\* put, in memory: under the lock.
PutMemory(c) ==
  /\ backend = "memory" /\ pc[c] = "put" /\ stored[mine[c].version] = None
  /\ stored' = [stored EXCEPT ![mine[c].version] = mine[c]]
  /\ Acknowledge(c)
  /\ UNCHANGED <<backend, runs, mine, raced, crashes>>

\* put, in files: the file was not there when it was looked for, is created or emptied,
\* and written.
PutLook(c) ==
  /\ backend = "files" /\ pc[c] = "put" /\ stored[mine[c].version] = None
  /\ Goto(c, "create")
  /\ raced' = IF \E d \in Caller \ {c} :
                   pc[d] \in {"create", "write"} /\ mine[d].version = mine[c].version
                THEN raced \cup {mine[c].version} ELSE raced
  /\ UNCHANGED <<backend, stored, runs, mine, acked, crashes>>

PutCreate(c) ==
  /\ pc[c] = "create"
  /\ stored' = [stored EXCEPT ![mine[c].version] = Torn]
  /\ Goto(c, "write")
  /\ UNCHANGED <<backend, runs, mine, acked, raced, crashes>>

\* A shorter text over a longer one leaves the end of that one.
PutWrite(c) ==
  /\ pc[c] = "write"
  /\ \E text \in {mine[c]} \cup (IF stored[mine[c].version] = Torn THEN {} ELSE {Torn}) :
       stored' = [stored EXCEPT ![mine[c].version] = text]
  /\ Acknowledge(c)
  /\ UNCHANGED <<backend, runs, mine, raced, crashes>>

Crash(c) ==
  /\ backend = "files" /\ pc[c] # "idle" /\ crashes < MaxCrashes
  /\ Leave(c)
  /\ crashes' = crashes + 1
  /\ UNCHANGED <<backend, stored, runs, acked, raced>>

-----------------------------------------------------------------------------
(* Running.                                                                *)

\* The caller runs the deployment it was told of, or leaves it at that; a run that
\* fails is not recorded.
Run(c) ==
  /\ pc[c] = "deployed"
  /\ \/ Leave(c)
     \/ Goto(c, "ran") /\ mine' = mine
  /\ UNCHANGED <<backend, stored, runs, acked, raced, crashes>>

RecordRun(c) ==
  /\ pc[c] = "ran" /\ Len(runs[mine[c].version]) < MaxRuns
  /\ Cardinality({v \in Version : runs[v] # <<>>} \cup {mine[c].version}) <= MaxRuns
  /\ runs' = [runs EXCEPT ![mine[c].version] = Append(@, mine[c].spec)]
  /\ Leave(c)
  /\ UNCHANGED <<backend, stored, acked, raced, crashes>>

Next == \E c \in Caller :
  Ask(c) \/ List(c) \/ PutAgain(c) \/ PutMemory(c) \/ PutLook(c) \/ PutCreate(c) \/ PutWrite(c)
    \/ Crash(c) \/ Run(c) \/ RecordRun(c)

Spec == Init /\ [][Next]_vars

-----------------------------------------------------------------------------
(* Properties.                                                             *)

TypeOK ==
  /\ \A v \in Version : Readable(v) => stored[v].version = v /\ stored[v].spec \in Deployable
  /\ \A c \in Caller : pc[c] \in {"idle", "list", "put", "create", "write", "deployed", "ran"}
  /\ raced \subseteq Version /\ crashes \in 0..MaxCrashes

\* A caller that died leaves at most the newest version unreadable: then it is in the way of
\* every deployment to come.
OnlyNewestTears ==
  \A v \in Version : stored[v] # None =>
    \A u \in 1..v - 1 : Readable(u) \/ u \in raced

\* A deployment that a caller was told of stays what it was, and what is recorded for it
\* ran its spec, unless two callers wrote its file at a time; only the newest version may
\* be unreadable.
DeployedStays ==
  /\ \A a \in acked : a.version \notin raced =>
       Readable(a.version) /\ stored[a.version].spec = a.spec
  /\ \A v \in Version \ raced : \A k \in DOMAIN runs[v] :
       Readable(v) /\ runs[v][k] = stored[v].spec
  /\ OnlyNewestTears
=============================================================================
