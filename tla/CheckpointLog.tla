--------------------------- MODULE CheckpointLog ---------------------------
(***************************************************************************)
(* The checkpoints of gaussflow-core: a CheckpointManager creates them,    *)
(* each in a file of its own, written in place, and goes on from the one   *)
(* with the largest timestamp.  Checkpoints are saved in the directory     *)
(* named "workflow_id" whatever the workflow, and looked for in that of    *)
(* the manager's workflow.                                                 *)
(***************************************************************************)
EXTENDS Naturals, FiniteSets

CONSTANTS
  Checkpoint,   \* the checkpoints that may be created, by id
  Workflow,     \* workflows
  Hardwired,    \* the one directory checkpoints are saved in
  Absent,       \* no checkpoint
  MaxClock,     \* bound: milliseconds
  MaxAborts     \* bound: saves cut off or refused

VARIABLES
  owner,     \* the workflow of the manager
  clock,     \* milliseconds since the epoch
  stamp,     \* the timestamp of each checkpoint created
  saved,     \* the files: "whole" or "torn"
  current,   \* current_checkpoint of the manager
  saving,    \* the checkpoint whose file is being written, and for which call
  acked,     \* history: checkpoints whose save returned Ok, less those deleted
             \* and those whose file was cut off by a later save
  aborts

vars == <<owner, clock, stamp, saved, current, saving, acked, aborts>>

NotSaving == [cp |-> Absent, by |-> "none"]

Init ==
  /\ owner \in Workflow
  /\ clock = 1
  /\ stamp = <<>> /\ saved = <<>>
  /\ current = Absent
  /\ saving = NotSaving
  /\ acked = {}
  /\ aborts = 0

\* The clock is the system's, which may be set back.
Tick ==
  /\ clock' \in 1..MaxClock
  /\ UNCHANGED <<owner, stamp, saved, current, saving, acked, aborts>>

Quiet == saving = NotSaving

Without(f, c) == [x \in DOMAIN f \ {c} |-> f[x]]
With(f, c, v) == [x \in DOMAIN f \cup {c} |-> IF x = c THEN v ELSE f[x]]

-----------------------------------------------------------------------------
(* The manager.                                                            *)

\* save_checkpoint opens the file, which is cut to nothing, ...
StartSave(c, by) ==
  /\ saving' = [cp |-> c, by |-> by]
  /\ saved' = With(saved, c, "torn")

\* create_checkpoint, under a fresh id, of a manager that saves each one or of one
\* that does not.
Create(c, autoSave) ==
  /\ Quiet /\ c \notin DOMAIN stamp
  /\ stamp' = With(stamp, c, clock)
  /\ IF autoSave THEN StartSave(c, "create") /\ UNCHANGED current
                 ELSE current' = c /\ UNCHANGED <<saved, saving>>
  /\ UNCHANGED <<owner, clock, acked, aborts>>

\* save writes the current checkpoint, over its file if it has one.
Save ==
  /\ Quiet /\ current # Absent
  /\ StartSave(current, "save")
  /\ UNCHANGED <<owner, clock, stamp, current, acked, aborts>>

\* ... and writes it; create_checkpoint makes it current only then.
EndSave ==
  /\ ~Quiet
  /\ saved' = [saved EXCEPT ![saving.cp] = "whole"]
  /\ acked' = acked \cup {saving.cp}
  /\ current' = IF saving.by = "create" THEN saving.cp ELSE current
  /\ saving' = NotSaving
  /\ UNCHANGED <<owner, clock, stamp, aborts>>

\* The write is refused, or the process dies and another manager takes over.
AbortSave ==
  /\ ~Quiet /\ aborts < MaxAborts
  /\ aborts' = aborts + 1
  /\ current' \in {current, Absent}
  /\ acked' = acked \ {saving.cp}
  /\ saving' = NotSaving
  /\ UNCHANGED <<owner, clock, stamp, saved>>

\* MUTANT of Newest: the first file found is as good as any.
NewestAny(found, c) == c \in found

\* Of the files found, in any order, the one kept is never replaced by an equal one.
Newest(found, c) == c \in found /\ \A d \in found : stamp[d] <= stamp[c]

\* Files that are read and parsed, in the directory of workflow w.
Found(w) == IF w = Hardwired THEN {c \in DOMAIN saved : saved[c] = "whole"} ELSE {}

\* What load_latest_checkpoint may return; a timestamp of 0 is never taken.
Latest(w) == {c \in Found(w) : Newest(Found(w), c) /\ stamp[c] > 0}

LoadLatest ==
  /\ Quiet
  /\ current' \in IF Latest(owner) = {} THEN {Absent} ELSE Latest(owner)
  /\ UNCHANGED <<owner, clock, stamp, saved, saving, acked, aborts>>

\* delete_checkpoint, of whatever workflow.
Delete(c) ==
  /\ Quiet /\ c \in DOMAIN saved
  /\ saved' = Without(saved, c)
  /\ acked' = acked \ {c}
  /\ UNCHANGED <<owner, clock, stamp, current, saving, aborts>>

Next ==
  \/ Tick
  \/ \E c \in Checkpoint : (\E auto \in BOOLEAN : Create(c, auto)) \/ Delete(c)
  \/ Save \/ EndSave \/ AbortSave \/ LoadLatest

Spec == Init /\ [][Next]_vars

-----------------------------------------------------------------------------
(* Properties.                                                             *)

TypeOK ==
  /\ owner \in Workflow /\ clock \in 1..MaxClock
  /\ DOMAIN stamp \subseteq Checkpoint /\ DOMAIN saved \subseteq DOMAIN stamp
  /\ \A c \in DOMAIN saved : saved[c] \in {"whole", "torn"}
  /\ current \in DOMAIN stamp \cup {Absent}
  /\ Quiet \/ (saving.cp \in DOMAIN saved /\ saving.by \in {"create", "save"})
  /\ acked \subseteq DOMAIN saved

\* A manager of the directory checkpoints are saved in resumes from one at least as
\* new as every checkpoint whose save was acknowledged, however many later saves were
\* cut off.  (A save that writes a checkpoint again and is cut off loses that one; a
\* manager of any other workflow resumes from nothing.)
ResumesNoOlder ==
  owner = Hardwired /\ Quiet =>
    \A c \in acked : Latest(owner) # {} /\ \A l \in Latest(owner) : stamp[l] >= stamp[c]
=============================================================================
