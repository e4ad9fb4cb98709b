----------------------------- MODULE Versions -----------------------------
(***************************************************************************)
(* InMemoryVersionManager of gaussflow-core: the versions of each workflow *)
(* in a concurrent map.  The map is cut into shards with a lock each, and  *)
(* a call holds the lock of the shard it looks into.  delete_version asks  *)
(* for the lock it holds itself when it removes an entry.                  *)
(***************************************************************************)
EXTENDS Order

CONSTANTS
  Id,          \* workflows
  ShardOf,     \* the shard of the map each workflow falls into
  Number,      \* version numbers, compared as semver does
  Client,      \* callers
  Absent,      \* no version
  MaxVersions, \* bound: calls that save
  MaxGets      \* bound: calls that read

VARIABLES
  kept,      \* the versions of each workflow, in the order saved; <<>> also
             \* stands for an entry that is not there
  waiting,   \* the workflow each caller waits to get at, Absent if it runs
  held,      \* shards whose lock a call never gives back
  answer,    \* the answer of each caller's last get_latest_matching_version
  saves, gets

vars == <<kept, waiting, held, answer, saves, gets>>

NoAnswer == [id |-> Absent, upTo |-> 0, got |-> Absent, among |-> {}]

Init ==
  /\ kept = [i \in Id |-> <<>>]
  /\ waiting = [c \in Client |-> Absent]
  /\ held = {}
  /\ answer = [c \in Client |-> NoAnswer]
  /\ saves = 0 /\ gets = 0

Runs(c) == waiting[c] = Absent
Numbers(i) == {kept[i][k] : k \in DOMAIN kept[i]}

\* The lock of the shard of a workflow is free for a call to take.
Open(i) == ShardOf[i] \notin held

\* A call for a workflow, any one of a shard that somebody holds for ever, waits for ever.
Hang(c, i) ==
  /\ Runs(c) /\ ~Open(i)
  /\ waiting' = [waiting EXCEPT ![c] = i]
  /\ UNCHANGED <<kept, held, answer, saves, gets>>

Conflict(i, n) == n \in Numbers(i)

\* save_version; a version that is there already is refused.
Save(c, i, n) ==
  /\ Runs(c) /\ Open(i) /\ saves < MaxVersions
  /\ saves' = saves + 1
  /\ kept' = [kept EXCEPT ![i] = IF Conflict(i, n) THEN @ ELSE Append(@, n)]
  /\ UNCHANGED <<waiting, held, answer, gets>>

\* delete_version.  If that leaves none, remove waits for the shard of the entry that
\* delete_version itself refers to: neither the call nor the lock comes back.
Delete(c, i, n) ==
  /\ Runs(c) /\ Open(i) /\ n \in Numbers(i)
  /\ kept' = [kept EXCEPT ![i] = Kept(@, {k \in DOMAIN @ : @[k] # n})]
  /\ IF kept'[i] = <<>>
       THEN held' = held \cup {ShardOf[i]} /\ waiting' = [waiting EXCEPT ![c] = i]
       ELSE UNCHANGED <<held, waiting>>
  /\ UNCHANGED <<answer, saves, gets>>

\* MUTANT of Better: every match replaces the one before.
BetterLast(best, n) == TRUE

Better(best, n) == best = Absent \/ n > best

\* The loop of get_latest_matching_version over the list it took, for a requirement
\* of the form <= upTo.
LatestMatching(list, upTo) ==
  Iterate(Len(list), Absent, [k \in DOMAIN list |-> [best \in Number \cup {Absent} |->
    IF list[k] <= upTo /\ Better(best, list[k]) THEN list[k] ELSE best]])

GetLatest(c, i, upTo) ==
  /\ Runs(c) /\ Open(i) /\ gets < MaxGets
  /\ gets' = gets + 1
  /\ answer' = [answer EXCEPT ![c] =
       [id |-> i, upTo |-> upTo, got |-> LatestMatching(kept[i], upTo), among |-> Numbers(i)]]
  /\ UNCHANGED <<kept, waiting, held, saves>>

Next == \E c \in Client, i \in Id :
  \/ Hang(c, i)
  \/ \E n \in Number : Save(c, i, n) \/ Delete(c, i, n) \/ GetLatest(c, i, n)

Spec == Init /\ [][Next]_vars

-----------------------------------------------------------------------------
(* Properties.                                                             *)

TypeOK ==
  /\ \A i \in Id : kept[i] \in Seq(Number)
  /\ waiting \in [Client -> Id \cup {Absent}]
  /\ held \subseteq {ShardOf[i] : i \in Id}
  /\ \A c \in Client : answer[c].got \in Number \cup {Absent}

\* A version is kept once, and what get_latest_matching_version answers is the
\* greatest of those that match, in whatever order they were saved and deleted.
LatestIsGreatest ==
  /\ \A i \in Id : \A j, k \in DOMAIN kept[i] : kept[i][j] = kept[i][k] => j = k
  /\ \A c \in Client :
       LET fit == {n \in answer[c].among : n <= answer[c].upTo} IN
       IF fit = {} THEN answer[c].got = Absent
                   ELSE answer[c].got \in fit /\ \A n \in fit : n <= answer[c].got

\* "Gets the latest version of a workflow that matches the version requirement": a call
\* for a workflow that has a version is not held up for ever, whatever others deleted.
KeptIsServed == \A c \in Client : ~Runs(c) => kept[waiting[c]] = <<>>
=============================================================================
