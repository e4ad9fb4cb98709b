----------------------------- MODULE FileStore -----------------------------
(***************************************************************************)
(* The two stores that publish a file by writing a temporary one and       *)
(* renaming it: the checkpoints of gaussflow-runtime (FileCheckpointStore, *)
(* one run id) and the artifacts of gaussflow-core (FileContentStore, one  *)
(* key).  A directory entry names an inode; a writer goes on writing to    *)
(* the inode it opened whatever the entries are renamed to meanwhile.      *)
(* Writers die between any two system calls, or are refused one of them.   *)
(***************************************************************************)
EXTENDS Naturals, FiniteSets

CONSTANTS
  Writer,     \* callers of save or put, each in a process of its own
  Reader,     \* callers of load, get and clear
  Value,      \* what is saved: checkpoints of the run, or the bytes of the key
  Setup,      \* the kinds of store a behaviour may be about
  Inode,      \* inodes of the file system
  Absent,     \* no inode, no data, no value
  MaxPuts,    \* bound: calls of save or put
  MaxAborts   \* bound: crashes of writers, and system calls that are refused

\* A setup says which store it is, which writers there are, under which name each
\* makes its temporary file, and what may be written.
IsSetup(s) ==
  /\ s.kind \in {"checkpoint", "content"}
  /\ s.writers \subseteq Writer /\ s.values \subseteq Value
  /\ "final" \notin {s.tmp[p] : p \in Writer}

\* Writers keep out of each other's way when each has a temporary name of its own
\* and what is put under a key is always the same bytes.
Exclusive(s) ==
  /\ \A p, q \in s.writers : s.tmp[p] = s.tmp[q] => p = q
  /\ s.kind = "content" => \A v, w \in s.values : v = w

ExclusiveSetups == \A s \in Setup : Exclusive(s)

\* What bytes stand for that are no value: they do not parse, or are not those of
\* the key.
Torn == "torn"

ASSUME SetupAssumption == \A s \in Setup : IsSetup(s)
ASSUME AbsentAssumption == Absent \notin Value \cup Inode \cup {Torn} /\ Torn \notin Value

VARIABLES
  setup,  \* the store
  dir,    \* the directory: the inode of each name
  data,   \* the contents of each inode, in two parts
  wr,     \* the writers
  rd,     \* the readers
  acked,  \* history: the value of the last call that returned Ok, Absent once cleared
  puts, aborts

vars == <<setup, dir, data, wr, rd, acked, puts, aborts>>

Part == 1..2
Names == {"final"} \cup {setup.tmp[p] : p \in setup.writers}
Whole(v) == [i \in Part |-> v]
Empty == Whole(Absent)

Idle == [pc |-> "idle", val |-> Absent, ino |-> Absent]

Resting == [pc |-> "idle", ino |-> Absent, got |-> Empty]

Tmp(p) == setup.tmp[p]

\* Inodes that no name and no open file refers to.
Free == Inode \ ({dir[n] : n \in Names} \cup {wr[p].ino : p \in Writer}
                          \cup {rd[q].ino : q \in Reader})

Meaning(bytes) == IF \E v \in Value : bytes = Whole(v) THEN bytes[1] ELSE Torn

Published == IF dir["final"] = Absent THEN Absent ELSE Meaning(data[dir["final"]])

Init ==
  /\ setup \in Setup
  /\ dir = [n \in Names |-> Absent]
  /\ data = [i \in Inode |-> Empty]
  /\ wr = [p \in Writer |-> Idle]
  /\ rd = [q \in Reader |-> Resting]
  /\ acked = Absent
  /\ puts = 0 /\ aborts = 0

-----------------------------------------------------------------------------
(* save and put.                                                           *)

\* put writes nothing if the key is there; save always writes.
Stored == setup.kind = "content" /\ dir["final"] # Absent

Begin(p) ==
  /\ wr[p].pc = "idle" /\ puts < MaxPuts
  /\ puts' = puts + 1
  /\ \E v \in setup.values :
       IF Stored
         THEN acked' = v /\ UNCHANGED wr
         ELSE wr' = [wr EXCEPT ![p] = [pc |-> "open", val |-> v, ino |-> Absent]]
              /\ UNCHANGED acked
  /\ UNCHANGED <<setup, dir, data, rd, aborts>>

\* MUTANT of WriteTarget: the entry itself is opened, no temporary file.
WriteTargetFinal(p) == "final"

WriteTarget(p) == Tmp(p)

\* fs::write opens the file, created or cut to nothing, ...
Open(p) ==
  /\ wr[p].pc = "open"
  /\ \E i \in IF dir[WriteTarget(p)] = Absent THEN Free ELSE {dir[WriteTarget(p)]} :
       /\ dir' = [dir EXCEPT ![WriteTarget(p)] = i]
       /\ data' = [data EXCEPT ![i] = Empty]
       /\ wr' = [wr EXCEPT ![p].pc = "write", ![p].ino = i]
  /\ UNCHANGED <<setup, rd, acked, puts, aborts>>

\* ... and writes it, part after part.
Write(p) ==
  /\ wr[p].pc \in {"write", "writeRest"}
  /\ data' = [data EXCEPT ![wr[p].ino] =
       [@ EXCEPT ![IF wr[p].pc = "write" THEN 1 ELSE 2] = wr[p].val]]
  /\ wr' = [wr EXCEPT ![p].pc = IF @ = "write" THEN "writeRest" ELSE "rename"]
  /\ UNCHANGED <<setup, dir, rd, acked, puts, aborts>>

\* MUTANT of Rename: the call returns before the entry is replaced.
RenameForgotten(p) ==
  /\ wr[p].pc = "rename"
  /\ acked' = wr[p].val
  /\ wr' = [wr EXCEPT ![p] = Idle]
  /\ UNCHANGED <<setup, dir, data, rd, puts, aborts>>

\* fs::rename; without a temporary file, which another rename took, an error.
Rename(p) ==
  /\ wr[p].pc = "rename"
  /\ IF dir[Tmp(p)] = Absent
       THEN UNCHANGED <<dir, acked>>
       ELSE /\ dir' = [dir EXCEPT !["final"] = dir[Tmp(p)], ![Tmp(p)] = Absent]
            /\ acked' = wr[p].val
  /\ wr' = [wr EXCEPT ![p] = Idle]
  /\ UNCHANGED <<setup, data, rd, puts, aborts>>

\* The process dies, or one of the system calls fails and the call with it: the
\* files stay as they are.
Abort(p) ==
  /\ wr[p].pc # "idle" /\ aborts < MaxAborts
  /\ aborts' = aborts + 1
  /\ wr' = [wr EXCEPT ![p] = Idle]
  /\ UNCHANGED <<setup, dir, data, rd, acked, puts>>

(* load, get and clear: the entry is looked up, then used.                 *)

Look(q) ==
  /\ rd[q].pc = "idle"
  /\ rd' = [rd EXCEPT ![q] = IF dir["final"] = Absent THEN Resting
                                                     ELSE [Resting EXCEPT !.pc = "found"]]
  /\ UNCHANGED <<setup, dir, data, wr, acked, puts, aborts>>

\* fs::read opens the file; an entry that is gone by now is an error.
OpenToRead(q) ==
  /\ rd[q].pc = "found"
  /\ rd' = [rd EXCEPT ![q] = IF dir["final"] = Absent THEN Resting
                             ELSE [Resting EXCEPT !.pc = "read", !.ino = dir["final"]]]
  /\ UNCHANGED <<setup, dir, data, wr, acked, puts, aborts>>

\* ... and reads it, part after part.
Read(q) ==
  /\ rd[q].pc \in {"read", "readRest"}
  /\ LET part == IF rd[q].pc = "read" THEN 1 ELSE 2 IN
     rd' = [rd EXCEPT ![q] =
              [pc |-> IF part = 1 THEN "readRest" ELSE "idle",
               ino |-> IF part = 1 THEN rd[q].ino ELSE Absent,
               got |-> [rd[q].got EXCEPT ![part] = data[rd[q].ino][part]]]]
  /\ UNCHANGED <<setup, dir, data, wr, acked, puts, aborts>>

Clear(q) ==
  /\ setup.kind = "checkpoint"
  /\ rd[q].pc = "found"
  /\ dir' = [dir EXCEPT !["final"] = Absent]
  /\ acked' = Absent
  /\ rd' = [rd EXCEPT ![q] = Resting]
  /\ UNCHANGED <<setup, data, wr, puts, aborts>>

Next ==
  \/ \E p \in setup.writers :
       Begin(p) \/ Open(p) \/ Write(p) \/ Rename(p) \/ Abort(p)
  \/ \E q \in Reader : Look(q) \/ OpenToRead(q) \/ Read(q) \/ Clear(q)

Spec == Init /\ [][Next]_vars

-----------------------------------------------------------------------------
(* Properties.                                                             *)

WriterState == [pc : {"idle", "open", "write", "writeRest", "rename"},
                val : Value \cup {Absent}, ino : Inode \cup {Absent}]
ReaderState == [pc : {"idle", "found", "read", "readRest"},
                ino : Inode \cup {Absent}, got : [Part -> Value \cup {Absent}]]

TypeOK ==
  /\ setup \in Setup
  /\ dir \in [Names -> Inode \cup {Absent}]
  /\ data \in [Inode -> [Part -> Value \cup {Absent}]]
  /\ wr \in [Writer -> WriterState]
  /\ \A p \in Writer : wr[p].pc \in {"write", "writeRest", "rename"} => wr[p].ino \in Inode
  /\ rd \in [Reader -> ReaderState]
  /\ \A q \in Reader : rd[q].pc \in {"read", "readRest"} => rd[q].ino \in Inode
  /\ acked \in Value \cup {Absent}

\* "A crash mid-write can't corrupt the checkpoint", nor "leave a corrupt blob under
\* a valid key": what the entry names is whole whenever a reader may come, whichever
\* writers were cut off where.
PublishedWhole == Published # Torn

\* The store holds what the last successful call wrote: an acknowledged value is
\* neither lost by a later call that dies or fails nor brought back after a clear.
HoldsWhatWasAcked == Published = acked

\* No reader gets bytes of two writes, or of half a one.
ReadsWhole ==
  \A q \in Reader :
    rd[q].pc = "idle" => rd[q].got = Empty \/ Meaning(rd[q].got) # Torn
=============================================================================
