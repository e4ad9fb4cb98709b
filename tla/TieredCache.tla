---------------------------- MODULE TieredCache ----------------------------
(***************************************************************************)
(* CacheManager of gaussflow-cli: a small LRU map, a map whose entries     *)
(* expire, and a map that keeps everything and is written to a file when   *)
(* the manager is dropped.  Every call visits the layers one after the     *)
(* other, each under that layer's own lock.                                *)
(***************************************************************************)
EXTENDS Naturals, Sequences, SequencesExt

CONSTANTS
  Key, Value,
  Caller,     \* threads that call get, set, remove and clear
  Capacity,   \* entries the first layer holds
  Absent,     \* no value
  MaxCalls,   \* bound: calls
  MaxStarts   \* bound: processes, one after the other

VARIABLES
  l1,      \* the first layer: its entries, last used first
  l2, l3,  \* the second and the third: the value of each key
  file,    \* the file of the third layer: a table, or Absent
  call,    \* what each thread is doing
  calls, starts,
  known    \* history: what a call of this process that nothing disturbed left for a key

vars == <<l1, l2, l3, file, call, calls, starts, known>>

Nothing == [k \in Key |-> Absent]

Idle == [op |-> "none", key |-> Absent, val |-> Absent, at |-> "done", alone |-> {}]

Init ==
  /\ l1 = <<>> /\ l2 = Nothing /\ l3 = Nothing
  /\ file = Absent
  /\ call = [c \in Caller |-> Idle]
  /\ calls = 0 /\ starts = 1
  /\ known = Nothing

-----------------------------------------------------------------------------
(* The first layer.                                                        *)

Entry(k, v) == [key |-> k, val |-> v]
In1(k) == \E i \in DOMAIN l1 : l1[i].key = k
Place1(k) == CHOOSE i \in DOMAIN l1 : l1[i].key = k
Value1(k) == l1[Place1(k)].val
Pop1(k) == IF In1(k) THEN RemoveAt(l1, Place1(k)) ELSE l1

\* put evicts the entry used longest ago.
Put1(k, v) == LET all == <<Entry(k, v)>> \o Pop1(k) IN
  SubSeq(all, 1, IF Len(all) > Capacity THEN Capacity ELSE Len(all))

-----------------------------------------------------------------------------
(* Calls.                                                                  *)

Busy(c) == call[c].at # "done"
Keys(c) == IF call[c].op = "clear" THEN Key ELSE {call[c].key}
Writing(c) == Busy(c) /\ call[c].op # "get"

\* A new call on keys ks is alone with those no call is busy with, and disturbs the
\* calls that are busy with them.
Undisturbed(ks) == ks \ UNION {Keys(d) : d \in {d \in Caller : Busy(d)}}

Begin(c) ==
  /\ ~Busy(c) /\ calls < MaxCalls
  /\ calls' = calls + 1
  /\ \E op \in {"get", "set", "remove", "clear"}, k \in Key, v \in Value :
       LET ks == IF op = "clear" THEN Key ELSE {k} IN
       /\ call' = [d \in Caller |->
            IF d = c THEN [op |-> op, key |-> k, val |-> IF op = "set" THEN v ELSE Absent,
                           at |-> "l1", alone |-> Undisturbed(ks)]
                     ELSE [call[d] EXCEPT !.alone = @ \ ks]]
       /\ known' = [x \in Key |-> IF op # "get" /\ x \in ks THEN "unknown" ELSE known[x]]
  /\ UNCHANGED <<l1, l2, l3, file, starts>>

Goto(c, at, v) == call' = [call EXCEPT ![c].at = at, ![c].val = v]
Return(c) == call' = [call EXCEPT ![c] = Idle]

\* get_from_l1 makes the entry the last used.
Get1(c) ==
  /\ call[c].op = "get" /\ call[c].at = "l1"
  /\ IF In1(call[c].key)
       THEN l1' = Put1(call[c].key, Value1(call[c].key)) /\ Return(c)
       ELSE Goto(c, "l2", Absent) /\ UNCHANGED l1
  /\ UNCHANGED <<l2, l3, file, calls, starts, known>>

Get2(c) ==
  /\ call[c].op = "get" /\ call[c].at = "l2"
  /\ IF l2[call[c].key] # Absent THEN Goto(c, "promote1", l2[call[c].key])
                                 ELSE Goto(c, "l3", Absent)
  /\ UNCHANGED <<l1, l2, l3, file, calls, starts, known>>

Promote1(c) ==
  /\ call[c].at = "promote1"
  /\ l1' = Put1(call[c].key, call[c].val)
  /\ Return(c)
  /\ UNCHANGED <<l2, l3, file, calls, starts, known>>

Get3(c) ==
  /\ call[c].op = "get" /\ call[c].at = "l3"
  /\ IF l3[call[c].key] # Absent THEN Goto(c, "promote2", l3[call[c].key]) ELSE Return(c)
  /\ UNCHANGED <<l1, l2, l3, file, calls, starts, known>>

Promote2(c) ==
  /\ call[c].at = "promote2"
  /\ l2' = [l2 EXCEPT ![call[c].key] = call[c].val]
  /\ Return(c)
  /\ UNCHANGED <<l1, l3, file, calls, starts, known>>

\* The reference into the third layer lives until the promotion is over, and keeps
\* writers of that entry out.
Free3(ks) == \A d \in Caller : call[d].at = "promote2" => call[d].key \notin ks

\* MUTANT of Wipe1: remove uses demote, which only moves the entry to the back.
Wipe1Demote(c) ==
  IF call[c].op = "clear" THEN <<>>
  ELSE IF In1(call[c].key) THEN Append(Pop1(call[c].key), l1[Place1(call[c].key)]) ELSE l1

Wipe1(c) == IF call[c].op = "clear" THEN <<>> ELSE Pop1(call[c].key)

\* The layers a set, remove or clear leaves behind it.
Left(layer, c) ==
  [k \in Key |-> IF k \in Keys(c) THEN call[c].val ELSE layer[k]]

Write1(c) ==
  /\ Writing(c) /\ call[c].at = "l1"
  /\ l1' = IF call[c].op = "set" THEN Put1(call[c].key, call[c].val) ELSE Wipe1(c)
  /\ Goto(c, "l2", call[c].val)
  /\ UNCHANGED <<l2, l3, file, calls, starts, known>>

Write2(c) ==
  /\ Writing(c) /\ call[c].at = "l2"
  /\ l2' = Left(l2, c)
  /\ Goto(c, "l3", call[c].val)
  /\ UNCHANGED <<l1, l3, file, calls, starts, known>>

Write3(c) ==
  /\ Writing(c) /\ call[c].at = "l3"
  /\ Free3(Keys(c))
  /\ l3' = Left(l3, c)
  /\ known' = [k \in Key |-> IF k \in call[c].alone THEN call[c].val ELSE known[k]]
  /\ Return(c)
  /\ UNCHANGED <<l1, l2, file, calls, starts>>

\* Entries of the second layer expire, or give way to others.
Expire(k) ==
  /\ l2[k] # Absent
  /\ l2' = [l2 EXCEPT ![k] = Absent]
  /\ UNCHANGED <<l1, l3, file, call, calls, starts, known>>

-----------------------------------------------------------------------------
(* The file.                                                               *)

\* bincode hands the fields of an entry over as a sequence, and the entries' visitor
\* accepts a map alone: a table with an entry in it cannot be read.
Readable(f) == f = Nothing

\* What new starts from: it logs a file that cannot be read, and goes on.
Restored(f) == IF f # Absent /\ Readable(f) THEN f ELSE Nothing

\* A manager is dropped, once no call holds it, and writes its file; a process that
\* is killed writes none.  The next one loads what it finds.
Restart ==
  /\ starts < MaxStarts /\ starts' = starts + 1
  /\ \/ (\A c \in Caller : ~Busy(c)) /\ file' = l3
     \/ file' = file
  /\ l1' = <<>> /\ l2' = Nothing /\ l3' = Restored(file')
  /\ call' = [c \in Caller |-> Idle]
  /\ known' = [k \in Key |-> "unknown"]
  /\ UNCHANGED calls

Next ==
  \/ \E c \in Caller :
       \/ Begin(c)
       \/ Get1(c) \/ Get2(c) \/ Promote1(c) \/ Get3(c) \/ Promote2(c)
       \/ Write1(c) \/ Write2(c) \/ Write3(c)
  \/ \E k \in Key : Expire(k)
  \/ Restart

Spec == Init /\ [][Next]_vars

-----------------------------------------------------------------------------
(* Properties.                                                             *)

Table == [Key -> Value \cup {Absent}]

TypeOK ==
  /\ l1 \in Seq([key : Key, val : Value]) /\ Len(l1) <= Capacity
  /\ l2 \in Table /\ l3 \in Table /\ file \in Table \cup {Absent}
  /\ \A c \in Caller : /\ call[c].at \in {"done", "l1", "l2", "l3", "promote1", "promote2"}
                       /\ call[c].alone \subseteq Key
                       /\ call[c].at \in {"promote1", "promote2"} => call[c].val \in Value
  /\ known \in [Key -> Value \cup {Absent, "unknown"}]

\* What a get that has the key to itself returns.
Served(k) == IF In1(k) THEN Value1(k) ELSE IF l2[k] # Absent THEN l2[k] ELSE l3[k]

\* What a set, remove or clear wrote is what the cache serves from then on, whatever
\* is evicted, expires or is promoted between the layers, if no other call on the key
\* was under way during it.  It says nothing of what the process before left.  (A get
\* that is under way may promote what a set or remove has replaced.)
ServesWhatWasLeft == \A k \in Key : known[k] # "unknown" => Served(k) = known[k]

\* "L3: Persistent cache for cold data": what undisturbed calls left in a manager that
\* wrote its file, the manager of the next process serves.
PersistsWhatWasLeft ==
  [][starts' # starts /\ file' = l3 =>
       \A k \in Key : known[k] # "unknown" => Served(k)' = known[k]]_vars
=============================================================================
