------------------------------ MODULE MCStores ------------------------------
(***************************************************************************)
(* The stores of the four crates, each by itself: a behaviour is one of    *)
(* the published files of FileStore, or of the tiered cache, the core's    *)
(* checkpoints or the versions; the stores a behaviour is not about rest.  *)
(***************************************************************************)
EXTENDS FileStore, Sequences

CONSTANTS
  Key, Caller, Capacity, MaxCalls, MaxStarts,          \* TieredCache
  Checkpoint, Workflow, Hardwired, MaxClock,           \* CheckpointLog
  Id, ShardOf, Number, MaxVersions, MaxGets            \* Versions

VARIABLES
  store,                                               \* what the behaviour is about
  l1, l2, l3, file, call, calls, starts, known,        \* TieredCache
  owner, clock, stamp, saved, current, saving, whole, cuts,      \* CheckpointLog
  kept, waiting, held, answer, saves, gets             \* Versions

fileVars == vars
cacheVars == <<l1, l2, l3, file, call, calls, starts, known>>
logVars == <<owner, clock, stamp, saved, current, saving, whole, cuts>>
versionVars == <<kept, waiting, held, answer, saves, gets>>
storesVars == <<store, fileVars, cacheVars, logVars, versionVars>>

\* One writer of checkpoints, or two processes that put the same artifact.
Checkpoints ==
  [kind |-> "checkpoint", writers |-> {"p1"}, values |-> {"v1", "v2"},
   tmp |-> [p \in Writer |-> "tmp"]]
Artifact ==
  [kind |-> "content", writers |-> Writer, values |-> {"v1"}, tmp |-> [p \in Writer |-> p]]

MCSetup == {Checkpoints, Artifact}

\* Two workflows in one shard of the versions, the others in another.
MCShardOf == [i \in Id |-> IF i \in {"i", "j"} THEN 1 ELSE 2]

Cache == INSTANCE TieredCache

Log == INSTANCE CheckpointLog WITH acked <- whole, aborts <- cuts

Vers == INSTANCE Versions WITH Client <- Caller

StoresInit ==
  /\ store \in {"files", "cache", "log", "versions"}
  /\ Init /\ (store = "files" \/ setup = Artifact)
  /\ Cache!Init /\ Log!Init /\ (store = "log" \/ owner = CHOOSE w \in Workflow : TRUE) /\ Vers!Init

StoresNext ==
  \/ store = "files" /\ Next /\ UNCHANGED <<store, cacheVars, logVars, versionVars>>
  \/ store = "cache" /\ Cache!Next /\ UNCHANGED <<store, fileVars, logVars, versionVars>>
  \/ store = "log" /\ Log!Next /\ UNCHANGED <<store, fileVars, cacheVars, versionVars>>
  \/ store = "versions" /\ Vers!Next /\ UNCHANGED <<store, fileVars, cacheVars, logVars>>

StoresSpec == StoresInit /\ [][StoresNext]_storesVars

\* TieredCache: undisturbed calls leave what they wrote.
ServesWhatWasLeft == Cache!ServesWhatWasLeft

\* CheckpointLog: a manager resumes from nothing older than what was acknowledged.
ResumesNoOlder == Log!ResumesNoOlder

\* TieredCache: the file hands them on to the next process.
PersistsWhatWasLeft == Cache!PersistsWhatWasLeft

\* Versions: each is kept once, and the greatest that matches is the one found.
LatestIsGreatest == Vers!LatestIsGreatest

\* Versions: a call for a workflow that has one comes back.
KeptIsServed == Vers!KeptIsServed
=============================================================================
