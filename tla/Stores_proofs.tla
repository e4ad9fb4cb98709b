---------------------------- MODULE Stores_proofs ----------------------------
(***************************************************************************)
(* The stores of the command line and of the core, for any number of keys, *)
(* callers, checkpoints and workflows: which version is found, what a      *)
(* manager of checkpoints resumes from, what the tiered cache serves.      *)
(* (FileStore has a module of its own.)  A step of one store leaves the    *)
(* variables of the others alone.                                          *)
(***************************************************************************)
EXTENDS MCStores, Order_proofs, WellFoundedInduction, TLAPS

-----------------------------------------------------------------------------
(* Versions.  The loop of get_latest_matching_version keeps the greatest of *)
(* the matches it has seen, and no list ever has a version twice.           *)

\* What the theorem assumes of the constants: versions compare as numbers do, and the mark
\* for no version is none.
VersionNumbers == Number \subseteq Nat /\ Absent \notin Number

\* Of the first m versions of a list, best is the greatest that is at most upTo.
Greatest(best, list, m, upTo) ==
  \/ best = Absent /\ \A k \in 1..m : ~(list[k] <= upTo)
  \/ \E k \in 1..m : /\ best = list[k] /\ best <= upTo
                     /\ \A j \in 1..m : list[j] <= upTo => list[j] <= best

OnceEach(list) == \A j, k \in DOMAIN list : list[j] = list[k] => j = k

\* What get_latest_matching_version answered of what there was.
IsLatest(a) ==
  LET fit == {n \in a.among : n <= a.upTo} IN
  IF fit = {} THEN a.got = Absent ELSE a.got \in fit /\ \A n \in fit : n <= a.got

LEMMA SameOrder ==
  /\ \A s, K : Vers!Kept(s, K) = Kept(s, K)
  /\ \A n, start, step : Vers!Iterate(n, start, step) = Iterate(n, start, step)
<1>1. \A s, K : Vers!Kept(s, K) = Kept(s, K)
  BY DEF Vers!Kept, Vers!InOrder, Vers!Rank, Vers!LessThan, Vers!Cardinality,
         Kept, InOrder, Rank, LessThan, Cardinality
<1>2. \A n, start, step : Vers!Iterate(n, start, step) = Iterate(n, start, step)
  BY DEF Vers!Iterate, Iterate
<1> QED
  BY <1>1, <1>2

\* The loop ends in the greatest match of the whole list.
LEMMA LoopFindsGreatest ==
  ASSUME VersionNumbers, NEW list \in Seq(Number), NEW upTo \in Number
  PROVE  Greatest(Vers!LatestMatching(list, upTo), list, Len(list), upTo)
<1> DEFINE S == Number \cup {Absent}
           n == Len(list)
           step == [k \in 1..n |-> [best \in S |->
                     IF list[k] <= upTo /\ Vers!Better(best, list[k]) THEN list[k] ELSE best]]
<1>1. n \in Nat /\ DOMAIN list = 1..n /\ \A k \in 1..n : list[k] \in Number
  OBVIOUS
<1>2. step \in [1..n -> [S -> S]]
  BY <1>1
<1>3. Vers!LatestMatching(list, upTo) = Iterate(n, Absent, step)
  BY <1>1, SameOrder DEF Vers!LatestMatching
<1> HIDE DEF S
<1>4. Absent \in S
  BY DEF S
<1> HIDE DEF step
<1>5. PICK h : IsHistory(h, S, n, Absent, step) /\ h[n] = Iterate(n, Absent, step)
  BY <1>1, <1>2, <1>4, IterateFacts
<1> DEFINE G == {m \in 0..n : Greatest(h[m], list, m, upTo)}
<1>6. 0 \in G
  BY <1>1, <1>5 DEF IsHistory, Greatest
<1>7. ASSUME NEW m \in 1..n, m - 1 \in G PROVE m \in G
  <2>1. /\ h[m - 1] \in S /\ list[m] \in Number /\ m - 1 \in 0..n
        /\ h[m] = IF list[m] <= upTo /\ Vers!Better(h[m - 1], list[m]) THEN list[m] ELSE h[m - 1]
    <3>1. m - 1 \in 0..n /\ h[m - 1] \in S /\ h[m] = step[m][h[m - 1]]
      BY <1>1, <1>5 DEF IsHistory
    <3>2. \A best \in S : step[m][best] =
            IF list[m] <= upTo /\ Vers!Better(best, list[m]) THEN list[m] ELSE best
      BY DEF step
    <3> QED
      BY <1>1, <3>1, <3>2
  <2>2. Greatest(h[m - 1], list, m - 1, upTo) /\ 1..m = 1..(m - 1) \cup {m}
    BY <1>1, <1>7
  <2>3. Number \subseteq Nat /\ Absent \notin Number /\ \A k \in 1..m : list[k] \in Number
    BY <1>1 DEF VersionNumbers
  <2>4. CASE ~(list[m] <= upTo)
    BY <2>1, <2>2, <2>3, <2>4 DEF Greatest
  <2>5. CASE list[m] <= upTo /\ h[m - 1] = Absent
    <3>1. h[m] = list[m] /\ \A j \in 1..(m - 1) : list[j] \in Number
      BY <2>1, <2>2, <2>3, <2>5 DEF Vers!Better
    <3>2. \A j \in 1..(m - 1) : ~(list[j] <= upTo)
      BY <2>2, <2>3, <2>5, <3>1 DEF Greatest
    <3>3. m \in 1..m /\ list[m] \in Nat
      <4>1. m \in Nat /\ m >= 1
        BY <1>1
      <4>2. m \in 1..m
        BY <4>1
      <4> QED
        BY <2>3, <4>2
    <3>4. \A j \in 1..m : list[j] <= upTo => list[j] <= list[m]
      BY <2>2, <3>2, <3>3
    <3> QED
      BY <2>5, <3>1, <3>3, <3>4 DEF Greatest
  <2>6. CASE list[m] <= upTo /\ h[m - 1] # Absent
    <3>1. PICK k \in 1..(m - 1) : /\ h[m - 1] = list[k] /\ h[m - 1] <= upTo
                                 /\ \A j \in 1..(m - 1) : list[j] <= upTo => list[j] <= h[m - 1]
      BY <2>2, <2>6 DEF Greatest
    <3>2. k \in 1..m /\ list[k] \in Nat /\ list[m] \in Nat /\ upTo \in Nat /\ m \in 1..m
      BY <2>2, <2>3
    <3>3. CASE list[m] > list[k]
      <4>1. h[m] = list[m]
        BY <2>1, <2>6, <3>1, <3>3 DEF Vers!Better
      <4>2. ASSUME NEW j \in 1..m, list[j] <= upTo PROVE list[j] <= list[m]
        <5>1. list[j] \in Nat
          BY <2>3
        <5>2. j = m \/ list[j] <= list[k]
          BY <2>2, <3>1, <4>2
        <5> QED
          BY <3>2, <3>3, <5>1, <5>2
      <4> QED
        BY <2>6, <3>2, <4>1, <4>2 DEF Greatest
    <3>4. CASE ~(list[m] > list[k])
      <4>1. h[m] = list[k]
        BY <2>1, <2>6, <3>1, <3>4 DEF Vers!Better
      <4>2. \A j \in 1..m : list[j] <= upTo => list[j] <= list[k]
        BY <2>2, <2>3, <3>1, <3>2, <3>4
      <4> QED
        BY <3>1, <3>2, <4>1, <4>2 DEF Greatest
    <3> QED
      BY <3>3, <3>4
  <2>7. Greatest(h[m], list, m, upTo)
    BY <2>4, <2>5, <2>6
  <2> QED
    BY <2>7
<1>8. 0..n \subseteq G
  <2> HIDE DEF G
  <2> QED
    BY <1>1, <1>6, <1>7, Upwards
<1> QED
  BY <1>1, <1>3, <1>5, <1>8

VersInv ==
  /\ kept \in [Id -> Seq(Number)] /\ \A i \in Id : OnceEach(kept[i])
  /\ answer = [c \in Caller |-> answer[c]] /\ \A c \in Caller : IsLatest(answer[c])

LEMMA VersInit == Vers!Init => VersInv
BY DEF Vers!Init, Vers!NoAnswer, VersInv, OnceEach, IsLatest

LEMMA VersStep == ASSUME VersionNumbers, VersInv, [Vers!Next]_versionVars PROVE VersInv'
<1> USE DEF VersInv
<1>1. CASE UNCHANGED versionVars
  BY <1>1 DEF versionVars
<1>2. ASSUME NEW c \in Caller, NEW i \in Id, Vers!Hang(c, i) PROVE VersInv'
  BY <1>2 DEF Vers!Hang
<1>3. ASSUME NEW c \in Caller, NEW i \in Id, NEW n \in Number, Vers!Save(c, i, n) PROVE VersInv'
  <2>1. kept' = [kept EXCEPT ![i] = IF Vers!Conflict(i, n) THEN @ ELSE Append(@, n)]
    BY <1>3 DEF Vers!Save
  <2>2. CASE Vers!Conflict(i, n)
    BY <1>3, <2>1, <2>2 DEF Vers!Save
  <2>3. CASE ~Vers!Conflict(i, n)
    <3>1. \A k \in DOMAIN kept[i] : kept[i][k] # n
      BY <2>3 DEF Vers!Conflict, Vers!Numbers
    <3>2. OnceEach(Append(kept[i], n)) /\ Append(kept[i], n) \in Seq(Number)
      BY <3>1 DEF OnceEach
    <3> QED
      BY <1>3, <2>1, <2>3, <3>2 DEF Vers!Save
  <2> QED
    BY <2>2, <2>3
<1>4. ASSUME NEW c \in Caller, NEW i \in Id, NEW n \in Number, Vers!Delete(c, i, n) PROVE VersInv'
  <2> DEFINE K == {k \in DOMAIN kept[i] : kept[i][k] # n}
             t == Kept(kept[i], K)
  <2>1. kept' = [kept EXCEPT ![i] = t] /\ answer' = answer
    BY <1>4, SameOrder DEF Vers!Delete
  <2>2. kept[i] \in Seq(Number) /\ K \in SUBSET DOMAIN kept[i] /\ OnceEach(kept[i])
    OBVIOUS
  <2> HIDE DEF K
  <2>3. /\ t \in Seq(Number)
        /\ \E place \in [DOMAIN t -> K] :
             /\ \A j \in DOMAIN t : t[j] = kept[i][place[j]]
             /\ \A j, k \in DOMAIN t : j < k <=> place[j] < place[k]
    BY <2>2, KeptFacts
  <2>4. OnceEach(t)
    <3>1. DOMAIN t \subseteq Nat /\ DOMAIN kept[i] \subseteq Nat
      BY <2>2, <2>3
    <3> HIDE DEF t
    <3> QED
      BY <2>2, <2>3, <3>1 DEF OnceEach
  <2> HIDE DEF t
  <2> QED
    BY <2>1, <2>3, <2>4
<1>5. ASSUME NEW c \in Caller, NEW i \in Id, NEW n \in Number, Vers!GetLatest(c, i, n)
      PROVE  VersInv'
  <2> DEFINE got == Vers!LatestMatching(kept[i], n)
             a == [id |-> i, upTo |-> n, got |-> got, among |-> Vers!Numbers(i)]
  <2>1. answer' = [answer EXCEPT ![c] = a] /\ kept' = kept
    BY <1>5 DEF Vers!GetLatest
  <2>2. kept[i] \in Seq(Number) /\ DOMAIN kept[i] = 1..Len(kept[i])
    OBVIOUS
  <2>3. Greatest(got, kept[i], Len(kept[i]), n)
    BY <2>2, LoopFindsGreatest
  <2> HIDE DEF got
  <2>4. IsLatest(a)
    BY <2>2, <2>3 DEF IsLatest, Greatest, Vers!Numbers
  <2> HIDE DEF a
  <2> QED
    BY <2>1, <2>4
<1> QED
  BY <1>1, <1>2, <1>3, <1>4, <1>5 DEF Vers!Next

\* For any number of workflows, versions and callers, in whatever order versions are saved and
\* deleted: none is kept twice, and get_latest_matching_version answers the greatest version
\* that matches, and that there is none only if there is none.
THEOREM GreatestIsFound ==
  ASSUME VersionNumbers
  PROVE  StoresSpec => []LatestIsGreatest
<1>1. StoresInit => VersInv
  BY VersInit DEF StoresInit
<1>2. VersInv /\ [StoresNext]_storesVars => VersInv'
  BY VersStep DEF StoresNext, storesVars
<1>3. VersInv => LatestIsGreatest
  BY DEF VersInv, OnceEach, IsLatest, LatestIsGreatest, Vers!LatestIsGreatest
<1> QED
  BY <1>1, <1>2, <1>3, PTL DEF StoresSpec

-----------------------------------------------------------------------------
(* CheckpointLog.  A checkpoint whose save was acknowledged has a whole     *)
(* file, unless that file is being written again; the call that writes it   *)
(* again acknowledges it once more or takes the acknowledgement back.       *)

\* What the theorem assumes of the constants: the mark for no checkpoint is none.
NoCheckpoint == Absent \notin Checkpoint /\ MaxClock \in Nat \ {0}

LogTypes ==
  /\ clock \in 1..MaxClock
  /\ stamp \in [DOMAIN stamp -> 1..MaxClock] /\ DOMAIN stamp \subseteq Checkpoint
  /\ saved \in [DOMAIN saved -> {"whole", "torn"}] /\ DOMAIN saved \subseteq DOMAIN stamp
  /\ current \in DOMAIN stamp \cup {Absent}
  /\ Log!Quiet \/ saving.cp \in DOMAIN saved

BeingWritten(c) == ~Log!Quiet /\ saving.cp = c

AckedIsWhole ==
  \A c \in whole : c \in DOMAIN saved /\ (saved[c] = "whole" \/ BeingWritten(c))

LogInv == LogTypes /\ AckedIsWhole

LEMMA LogInit == ASSUME NoCheckpoint PROVE Log!Init => LogInv
BY DEF NoCheckpoint, Log!Init, LogInv, LogTypes, AckedIsWhole, Log!Quiet, Log!NotSaving

\* save_checkpoint of a checkpoint that was created cuts its file alone.
LEMMA StartSaveKeeps ==
  ASSUME NEW c \in DOMAIN stamp', NEW by \in {"create", "save"},
         LogInv, Log!Quiet, Log!StartSave(c, by), UNCHANGED whole,
         DOMAIN stamp \subseteq DOMAIN stamp'
  PROVE  /\ saved' \in [DOMAIN saved' -> {"whole", "torn"}]
         /\ DOMAIN saved' \subseteq DOMAIN stamp'
         /\ (Log!Quiet)' \/ (saving.cp)' \in DOMAIN saved'
         /\ AckedIsWhole'
<1>1. /\ saving' = [cp |-> c, by |-> by]
      /\ saved' = [x \in DOMAIN saved \cup {c} |-> IF x = c THEN "torn" ELSE saved[x]]
  BY DEF Log!StartSave, Log!With
<1>2. saving' # [cp |-> Absent, by |-> "none"]
  BY <1>1
<1>3. BeingWritten(c)'
  BY <1>1, <1>2 DEF BeingWritten, Log!Quiet, Log!NotSaving
<1>4. \A d \in whole : d \in DOMAIN saved /\ saved[d] = "whole"
  BY DEF LogInv, AckedIsWhole, BeingWritten
<1>5. AckedIsWhole'
  BY <1>1, <1>3, <1>4 DEF AckedIsWhole
<1> QED
  BY <1>1, <1>5 DEF LogInv, LogTypes

LEMMA LogStep ==
  ASSUME NoCheckpoint, LogInv, [Log!Next]_logVars
  PROVE  LogInv'
<1> USE DEF LogInv, LogTypes
<1>1. CASE UNCHANGED logVars
  BY <1>1 DEF logVars, AckedIsWhole, BeingWritten, Log!Quiet, Log!NotSaving
<1>2. CASE Log!Tick
  BY <1>2 DEF Log!Tick, AckedIsWhole, BeingWritten, Log!Quiet, Log!NotSaving
<1>3. ASSUME NEW c \in Checkpoint, NEW auto \in BOOLEAN, Log!Create(c, auto) PROVE LogInv'
  <2>1. /\ Log!Quiet /\ UNCHANGED <<clock, whole>>
        /\ stamp' = [x \in DOMAIN stamp \cup {c} |-> IF x = c THEN clock ELSE stamp[x]]
    BY <1>3 DEF Log!Create, Log!With
  <2>2. /\ stamp' \in [DOMAIN stamp' -> 1..MaxClock] /\ DOMAIN stamp' \subseteq Checkpoint
        /\ DOMAIN stamp \subseteq DOMAIN stamp' /\ c \in DOMAIN stamp'
    BY <2>1
  <2>3. CASE auto
    <3>1. Log!StartSave(c, "create") /\ UNCHANGED current
      BY <1>3, <2>3 DEF Log!Create
    <3> QED
      BY <2>1, <2>2, <3>1, StartSaveKeeps
  <2>4. CASE ~auto
    <3>1. current' = c /\ UNCHANGED <<saved, saving>>
      BY <1>3, <2>4 DEF Log!Create
    <3> QED
      BY <2>1, <2>2, <3>1 DEF AckedIsWhole, BeingWritten, Log!Quiet, Log!NotSaving
  <2> QED
    BY <2>3, <2>4
<1>4. ASSUME NEW c \in Checkpoint, Log!Delete(c) PROVE LogInv'
  <2>1. /\ Log!Quiet /\ UNCHANGED <<clock, stamp, current, saving>> /\ whole' = whole \ {c}
        /\ saved' = [x \in DOMAIN saved \ {c} |-> saved[x]]
    BY <1>4 DEF Log!Delete, Log!Without
  <2>2. (Log!Quiet)'
    BY <2>1 DEF Log!Quiet, Log!NotSaving
  <2> QED
    BY <2>1, <2>2 DEF AckedIsWhole, BeingWritten
<1>5. CASE Log!Save
  <2>1. /\ Log!Quiet /\ current \in DOMAIN stamp /\ Log!StartSave(current, "save")
        /\ UNCHANGED <<clock, stamp, current, whole>>
    BY <1>5 DEF Log!Save
  <2> QED
    BY <2>1, StartSaveKeeps
<1>6. CASE Log!EndSave
  <2>1. /\ ~Log!Quiet /\ UNCHANGED <<clock, stamp>> /\ whole' = whole \cup {saving.cp}
        /\ saved' = [saved EXCEPT ![saving.cp] = "whole"]
        /\ current' \in {saving.cp, current} /\ saving' = Log!NotSaving
    BY <1>6 DEF Log!EndSave
  <2>2. (Log!Quiet)'
    BY <2>1 DEF Log!Quiet, Log!NotSaving
  <2> QED
    BY <2>1, <2>2 DEF AckedIsWhole, BeingWritten
<1>7. CASE Log!AbortSave
  <2>1. /\ ~Log!Quiet /\ UNCHANGED <<clock, stamp, saved>> /\ whole' = whole \ {saving.cp}
        /\ current' \in {current, Absent} /\ saving' = Log!NotSaving
    BY <1>7 DEF Log!AbortSave
  <2>2. (Log!Quiet)'
    BY <2>1 DEF Log!Quiet, Log!NotSaving
  <2> QED
    BY <2>1, <2>2 DEF AckedIsWhole, BeingWritten
<1>8. CASE Log!LoadLatest
  <2>1. UNCHANGED <<clock, stamp, saved, saving, whole>> /\ current' \in DOMAIN saved \cup {Absent}
    BY <1>8 DEF Log!LoadLatest, Log!Latest, Log!Found
  <2> QED
    BY <2>1 DEF AckedIsWhole, BeingWritten, Log!Quiet, Log!NotSaving
<1> QED
  BY <1>1, <1>2, <1>3, <1>4, <1>5, <1>6, <1>7, <1>8 DEF Log!Next

\* Of checkpoints, one has the greatest timestamp.
LEMMA NewestExists ==
  ASSUME NoCheckpoint, LogTypes, NEW S \in SUBSET DOMAIN stamp, S # {}
  PROVE  \E c \in S : \A d \in S : stamp[d] <= stamp[c]
<1> DEFINE Ages == {MaxClock - stamp[c] : c \in S}
<1>1. Ages \subseteq Nat /\ Ages # {}
  BY DEF LogTypes, NoCheckpoint
<1>2. PICK a \in Ages : \A b \in Ages : <<b, a>> \notin OpToRel(<, Nat)
  BY <1>1, WFMin, NatLessThanWellFounded
<1>3. \A b \in Ages : ~(b < a)
  BY <1>1, <1>2, Zenon DEF OpToRel
<1>4. PICK c \in S : a = MaxClock - stamp[c]
  BY <1>2
<1>5. \A d \in S : ~(MaxClock - stamp[d] < MaxClock - stamp[c])
  BY <1>3, <1>4
<1> HIDE DEF Ages
<1> QED
  BY <1>4, <1>5 DEF LogTypes, NoCheckpoint

\* Whatever checkpoints are created, saved again, cut off and deleted, and however the clock is
\* set: between two saves, a manager of the directory that checkpoints are saved in finds one,
\* and none older than a checkpoint whose save was acknowledged.
THEOREM ResumedIsNoOlder ==
  ASSUME NoCheckpoint
  PROVE  StoresSpec => []ResumesNoOlder
<1>1. StoresInit => LogInv
  BY LogInit DEF StoresInit
<1>2. LogInv /\ [StoresNext]_storesVars => LogInv'
  BY LogStep DEF StoresNext, storesVars
<1>3. LogInv => ResumesNoOlder
  <2> SUFFICES ASSUME LogInv, owner = Hardwired, Log!Quiet, NEW c \in whole
               PROVE  /\ Log!Latest(owner) # {}
                      /\ \A l \in Log!Latest(owner) : stamp[l] >= stamp[c]
    BY DEF ResumesNoOlder, Log!ResumesNoOlder
  <2>1. Log!Found(owner) = {d \in DOMAIN saved : saved[d] = "whole"}
    BY DEF Log!Found
  <2>2. c \in Log!Found(owner) /\ Log!Found(owner) \in SUBSET DOMAIN stamp
    BY <2>1 DEF LogInv, LogTypes, AckedIsWhole, BeingWritten
  <2>3. PICK m \in Log!Found(owner) : \A d \in Log!Found(owner) : stamp[d] <= stamp[m]
    BY <2>2, NewestExists DEF LogInv
  <2>4. \A d \in Log!Found(owner) : stamp[d] \in 1..MaxClock
    BY <2>2 DEF LogInv, LogTypes
  <2>5. m \in Log!Latest(owner)
    BY <2>3, <2>4 DEF Log!Latest, Log!Newest, NoCheckpoint
  <2>6. \A l \in Log!Latest(owner) : stamp[l] >= stamp[c]
    BY <2>2, <2>4 DEF Log!Latest, Log!Newest, NoCheckpoint
  <2> QED
    BY <2>5, <2>6
<1> QED
  BY <1>1, <1>2, <1>3, PTL DEF StoresSpec

-----------------------------------------------------------------------------
(* TieredCache.  What a call that was alone with a key left is in every     *)
(* layer that has the key at all; while it is under way, in those it has    *)
(* been to.                                                                 *)

Datum == Value \cup {Absent}
Entries == [key : Key, val : Datum]
Points == {"l1", "l2", "l3", "promote1", "promote2"}

IsIdle(r) == r.at = "done" /\ r.alone = {}

IsGet(r) ==
  r.op = "get" /\ r.at \in Points /\ r.key \in Key /\ r.val \in Datum /\ r.alone \subseteq Key

IsWrite(r) ==
  /\ r.op \in {"set", "remove", "clear"} /\ r.at \in {"l1", "l2", "l3"}
  /\ r.key \in Key /\ r.val \in Datum /\ r.alone \subseteq Key
  /\ r.op # "set" => r.val = Absent

Calls ==
  [op : {"none", "get", "set", "remove", "clear"}, key : Key \cup {Absent}, val : Datum,
   at : Points \cup {"done"}, alone : SUBSET Key]

CallTypes ==
  /\ call \in [Caller -> Calls]
  /\ \A c \in Caller : IsIdle(call[c]) \/ IsGet(call[c]) \/ IsWrite(call[c])

OneEntryEach == \A i, j \in DOMAIN l1 : l1[i].key = l1[j].key => i = j

CacheTypes ==
  /\ Capacity \in Nat
  /\ l1 \in Seq(Entries) /\ OneEntryEach
  /\ l2 \in [Key -> Datum] /\ l3 \in [Key -> Datum]
  /\ CallTypes
  /\ known \in [Key -> Datum \cup {"unknown"}]

\* What the first layer has of a key, if anything, is v.
First(k, v) == \A i \in DOMAIN l1 : l1[i].key = k => l1[i].val = v
Second(k, v) == l2[k] \in {Absent, v}

\* A key whose value is known: the layers agree, and no call is writing it or about to put
\* anything else back.
KnownIsEverywhere ==
  \A k \in Key : known[k] # "unknown" =>
    /\ First(k, known[k]) /\ Second(k, known[k]) /\ l3[k] = known[k]
    /\ \A c \in Caller : Cache!Busy(c) /\ k \in Cache!Keys(c) =>
         /\ ~Cache!Writing(c)
         /\ call[c].at \in {"promote1", "promote2"} => call[c].val = known[k]

\* A call that is alone with a key is the only one that is busy with it.
AloneIsAlone ==
  \A c \in Caller : \A k \in call[c].alone :
    k \in Cache!Keys(c) /\ \A d \in Caller \ {c} : Cache!Busy(d) => k \notin Cache!Keys(d)

\* A call that writes, and is alone, has left its value in the layers behind it.
WrittenSoFar ==
  \A c \in Caller : Cache!Writing(c) =>
    \A k \in call[c].alone :
      /\ call[c].at \in {"l2", "l3"} => First(k, call[c].val)
      /\ call[c].at = "l3" => Second(k, call[c].val)

CacheInv == CacheTypes /\ KnownIsEverywhere /\ AloneIsAlone /\ WrittenSoFar

-----------------------------------------------------------------------------
(* The first layer.                                                         *)

\* The place of a key that is in the first layer.
LEMMA PlaceOf ==
  ASSUME NEW k, Cache!In1(k)
  PROVE  Cache!Place1(k) \in DOMAIN l1 /\ l1[Cache!Place1(k)].key = k
BY DEF Cache!In1, Cache!Place1

\* Taking a key's entry out leaves the others, each once.
LEMMA PopLeaves ==
  ASSUME NEW k, CacheTypes, NEW s, s = Cache!Pop1(k)
  PROVE  /\ s \in Seq(Entries)
         /\ \A i \in DOMAIN s : s[i].key # k /\ \E j \in DOMAIN l1 : s[i] = l1[j]
         /\ \A i, j \in DOMAIN s : s[i].key = s[j].key => i = j
<1>1. CASE ~Cache!In1(k)
  BY <1>1 DEF CacheTypes, OneEntryEach, Cache!Pop1, Cache!In1
<1>2. CASE Cache!In1(k)
  <2> DEFINE p == Cache!Place1(k)
             at(i) == IF i < p THEN i ELSE i + 1
  <2>1. p \in 1..Len(l1) /\ l1[p].key = k /\ l1 \in Seq(Entries)
    BY <1>2, PlaceOf DEF CacheTypes
  <2>2. s = SubSeq(l1, 1, p - 1) \o SubSeq(l1, p + 1, Len(l1))
    BY <1>2 DEF Cache!Pop1, Cache!RemoveAt
  <2> HIDE DEF p
  <2> DEFINE before == SubSeq(l1, 1, p - 1)
             after == SubSeq(l1, p + 1, Len(l1))
  <2>3. /\ before \in Seq(Entries) /\ Len(before) = p - 1
        /\ \A i \in 1..p - 1 : before[i] = l1[i]
    BY <2>1
  <2>4. /\ after \in Seq(Entries) /\ Len(after) = Len(l1) - p
        /\ \A i \in 1..Len(l1) - p : after[i] = l1[p + i]
    BY <2>1
  <2> HIDE DEF before, after
  <2>5. s = before \o after
    BY <2>2 DEF before, after
  <2>6. s \in Seq(Entries) /\ Len(s) = Len(l1) - 1
    <3>1. s \in Seq(Entries) /\ Len(s) = Len(before) + Len(after)
      BY <2>3, <2>4, <2>5
    <3>2. Len(l1) \in Nat /\ p \in Nat
      BY <2>1
    <3> QED
      BY <2>3, <2>4, <3>1, <3>2
  <2>7. \A i \in 1..Len(s) : s[i] = IF i < p THEN before[i] ELSE after[i - (p - 1)]
    BY <2>1, <2>6, <2>3, <2>4, <2>5
  <2>8. \A i \in 1..Len(s) : s[i] = l1[at(i)]
    <3> TAKE i \in 1..Len(s)
    <3>1. CASE i < p
      <4>1. i \in 1..p - 1
        BY <2>1, <2>6, <3>1
      <4> QED
        BY <2>3, <2>7, <3>1, <4>1
    <3>2. CASE ~(i < p)
      <4>1. i - (p - 1) \in 1..Len(l1) - p /\ p + (i - (p - 1)) = i + 1
        BY <2>1, <2>6, <3>2
      <4> QED
        BY <2>4, <2>7, <3>2, <4>1
    <3> QED
      BY <3>1, <3>2
  <2>9. \A i \in 1..Len(s) : at(i) \in 1..Len(l1) /\ at(i) # p
    BY <2>1, <2>6
  <2>10. \A i, j \in 1..Len(s) : at(i) = at(j) => i = j
    BY <2>1, <2>6
  <2> HIDE DEF at
  <2>11. \A i, j \in 1..Len(l1) : l1[i].key = l1[j].key => i = j
    BY <2>1 DEF CacheTypes, OneEntryEach
  <2>12. DOMAIN s = 1..Len(s) /\ DOMAIN l1 = 1..Len(l1)
    BY <2>1, <2>6
  <2>13. \A i \in 1..Len(s) : s[i].key # k
    BY <2>1, <2>8, <2>9, <2>11
  <2>14. \A i, j \in 1..Len(s) : s[i].key = s[j].key => i = j
    BY <2>8, <2>9, <2>10, <2>11
  <2> QED
    BY <2>6, <2>8, <2>9, <2>12, <2>13, <2>14
<1> QED
  BY <1>1, <1>2

\* Putting an entry in front of the others may put the last one out.
LEMMA PutLeaves ==
  ASSUME NEW k \in Key, NEW v \in Datum, CacheTypes, NEW s, s = Cache!Put1(k, v)
  PROVE  /\ s \in Seq(Entries)
         /\ \A i \in DOMAIN s : \/ s[i].key = k /\ s[i].val = v
                                \/ s[i].key # k /\ \E j \in DOMAIN l1 : s[i] = l1[j]
         /\ \A i, j \in DOMAIN s : s[i].key = s[j].key => i = j
<1> DEFINE rest == Cache!Pop1(k)
           e == Cache!Entry(k, v)
           all == <<e>> \o rest
           n == IF Len(all) > Capacity THEN Capacity ELSE Len(all)
<1>1. /\ rest \in Seq(Entries)
      /\ \A i \in DOMAIN rest : rest[i].key # k /\ \E j \in DOMAIN l1 : rest[i] = l1[j]
      /\ \A i, j \in DOMAIN rest : rest[i].key = rest[j].key => i = j
  BY PopLeaves
<1>2. e \in Entries /\ e.key = k /\ e.val = v
  BY DEF Cache!Entry, Entries
<1>3. s = SubSeq(all, 1, n)
  BY DEF Cache!Put1
<1> HIDE DEF rest, e
<1>4. /\ all \in Seq(Entries) /\ Len(all) = Len(rest) + 1 /\ all[1] = e
      /\ \A i \in 2..Len(all) : all[i] = rest[i - 1] /\ i - 1 \in DOMAIN rest
  BY <1>1, <1>2
<1>5. n \in 0..Len(all)
  BY <1>4 DEF CacheTypes
<1> HIDE DEF all, n
<1>6. s \in Seq(Entries) /\ DOMAIN s = 1..n /\ \A i \in 1..n : s[i] = all[i]
  BY <1>3, <1>4, <1>5
<1>7. \A i \in 1..n : i = 1 \/ i \in 2..Len(all)
  BY <1>4, <1>5
<1>8. \A i \in 1..n : \/ s[i].key = k /\ s[i].val = v
                      \/ s[i].key # k /\ \E j \in DOMAIN l1 : s[i] = l1[j]
  BY <1>1, <1>2, <1>4, <1>6, <1>7
<1>9. ASSUME NEW i \in 1..n, NEW j \in 1..n, s[i].key = s[j].key PROVE i = j
  <2>1. CASE i = 1 /\ j = 1
    BY <2>1
  <2>2. CASE i = 1 /\ j # 1
    BY <1>1, <1>2, <1>4, <1>6, <1>7, <1>9, <2>2
  <2>3. CASE i # 1 /\ j = 1
    BY <1>1, <1>2, <1>4, <1>6, <1>7, <1>9, <2>3
  <2>4. CASE i # 1 /\ j # 1
    <3>1. /\ s[i] = rest[i - 1] /\ i - 1 \in DOMAIN rest
          /\ s[j] = rest[j - 1] /\ j - 1 \in DOMAIN rest
      BY <1>4, <1>6, <1>7, <2>4
    <3>2. i - 1 = j - 1
      BY <1>1, <1>9, <3>1
    <3> QED
      BY <3>2
  <2> QED
    BY <2>1, <2>2, <2>3, <2>4
<1> QED
  BY <1>6, <1>8, <1>9

\* A lookup makes nothing new of the first layer.
LEMMA TouchLeaves ==
  ASSUME NEW k \in Key, CacheTypes, Cache!In1(k), NEW s, s = Cache!Put1(k, Cache!Value1(k))
  PROVE  /\ s \in Seq(Entries)
         /\ \A i \in DOMAIN s : \E j \in DOMAIN l1 : s[i].key = l1[j].key /\ s[i].val = l1[j].val
         /\ \A i, j \in DOMAIN s : s[i].key = s[j].key => i = j
<1>1. /\ Cache!Place1(k) \in DOMAIN l1 /\ l1[Cache!Place1(k)].key = k
      /\ Cache!Value1(k) = l1[Cache!Place1(k)].val
  BY PlaceOf DEF Cache!Value1
<1>2. Cache!Value1(k) \in Datum
  <2>1. l1[Cache!Place1(k)] \in Entries
    BY <1>1 DEF CacheTypes
  <2> QED
    BY <1>1, <2>1 DEF Entries
<1>3. /\ s \in Seq(Entries)
      /\ \A i \in DOMAIN s : \/ s[i].key = k /\ s[i].val = Cache!Value1(k)
                             \/ s[i].key # k /\ \E j \in DOMAIN l1 : s[i] = l1[j]
      /\ \A i, j \in DOMAIN s : s[i].key = s[j].key => i = j
  BY <1>2, PutLeaves
<1> QED
  BY <1>1, <1>3

-----------------------------------------------------------------------------
(* Calls.                                                                   *)

\* What a call does to others' calls: nothing.
Alone(c) == \A d \in Caller \ {c} : call'[d] = call[d]

\* A step of a get.  It leaves the values of other keys alone, and a known value of its own.
LEMMA GetStep ==
  ASSUME CacheInv, CacheTypes', NEW c \in Caller, IsGet(call[c]), Alone(c),
         \/ IsIdle(call'[c])
         \/ /\ IsGet(call'[c]) /\ call'[c].key = call[c].key /\ call'[c].alone = call[c].alone
            /\ call'[c].at \in {"promote1", "promote2"} /\ known[call[c].key] # "unknown" =>
                 call'[c].val = known[call[c].key],
         known' = known, l3' = l3,
         \A k \in Key : \A v :
           (k = call[c].key => known[k] # "unknown" /\ v = known[k]) =>
              /\ First(k, v) => First(k, v)'
              /\ Second(k, v) => Second(k, v)'
  PROVE  CacheInv'
<1>1. /\ Cache!Busy(c) /\ Cache!Keys(c) = {call[c].key} /\ ~Cache!Writing(c)
      /\ ~Cache!Writing(c)'
  BY DEF IsGet, IsIdle, Points, Cache!Busy, Cache!Keys, Cache!Writing
<1>2. ASSUME NEW d \in Caller, Cache!Busy(d)'
      PROVE  Cache!Busy(d) /\ Cache!Keys(d)' = Cache!Keys(d)
  BY <1>1, <1>2 DEF IsGet, IsIdle, Alone, Cache!Busy, Cache!Keys
<1>3. \A d \in Caller : Cache!Writing(d)' => d # c /\ Cache!Writing(d)
  BY <1>1 DEF Alone, Cache!Writing, Cache!Busy
<1>4. ASSUME NEW k \in Key, known'[k] # "unknown"
      PROVE  /\ First(k, known[k])' /\ Second(k, known[k])' /\ l3'[k] = known[k]
             /\ \A d \in Caller : Cache!Busy(d)' /\ k \in Cache!Keys(d)' =>
                  /\ ~Cache!Writing(d)'
                  /\ call'[d].at \in {"promote1", "promote2"} => call'[d].val = known[k]
  <2>1. /\ First(k, known[k]) /\ Second(k, known[k]) /\ l3[k] = known[k]
        /\ \A d \in Caller : Cache!Busy(d) /\ k \in Cache!Keys(d) =>
             /\ ~Cache!Writing(d)
             /\ call[d].at \in {"promote1", "promote2"} => call[d].val = known[k]
    BY <1>4 DEF CacheInv, KnownIsEverywhere
  <2>2. First(k, known[k])' /\ Second(k, known[k])' /\ l3'[k] = known[k]
    BY <1>4, <2>1 DEF First, Second
  <2>3. ASSUME NEW d \in Caller, Cache!Busy(d)', k \in Cache!Keys(d)'
        PROVE  /\ ~Cache!Writing(d)'
               /\ call'[d].at \in {"promote1", "promote2"} => call'[d].val = known[k]
    <3>1. CASE d = c
      BY <1>1, <1>2, <1>4, <2>3, <3>1 DEF IsIdle, Cache!Busy
    <3>2. CASE d # c
      BY <1>2, <1>3, <2>1, <2>3, <3>2 DEF Alone
    <3> QED
      BY <3>1, <3>2
  <2> QED
    BY <2>2, <2>3
<1>5. KnownIsEverywhere'
  BY <1>4 DEF KnownIsEverywhere, First, Second
<1>6. AloneIsAlone'
  <2> SUFFICES ASSUME NEW d \in Caller, NEW k \in call'[d].alone
               PROVE  /\ k \in Cache!Keys(d)'
                      /\ \A e \in Caller \ {d} : Cache!Busy(e)' => k \notin Cache!Keys(e)'
    BY DEF AloneIsAlone
  <2>1. k \in call[d].alone /\ Cache!Keys(d)' = Cache!Keys(d)
    BY DEF IsIdle, IsGet, Alone, Cache!Keys
  <2> QED
    BY <1>2, <2>1 DEF CacheInv, AloneIsAlone
<1>7. WrittenSoFar'
  <2> SUFFICES ASSUME NEW d \in Caller, Cache!Writing(d)', NEW k \in call'[d].alone
               PROVE  /\ call'[d].at \in {"l2", "l3"} => First(k, call[d].val)'
                      /\ call'[d].at = "l3" => Second(k, call[d].val)'
    BY <1>3 DEF WrittenSoFar, Alone, First, Second
  <2>1. d # c /\ Cache!Writing(d) /\ call'[d] = call[d]
    BY <1>3 DEF Alone
  <2>2. k # call[c].key
    BY <1>1, <2>1 DEF CacheInv, AloneIsAlone
  <2>3. k \in Key
    BY <2>1 DEF CacheInv, CacheTypes, CallTypes, Calls
  <2> QED
    BY <2>1, <2>2, <2>3 DEF CacheInv, WrittenSoFar
<1> QED
  BY <1>5, <1>6, <1>7 DEF CacheInv

\* A step of a set, remove or clear, other than its last.
LEMMA WriteStep ==
  ASSUME CacheInv, CacheTypes', NEW c \in Caller, IsWrite(call[c]), Alone(c), IsWrite(call'[c]),
         /\ call'[c].op = call[c].op /\ call'[c].key = call[c].key
         /\ call'[c].alone = call[c].alone /\ call'[c].val = call[c].val,
         known' = known, l3' = l3,
         \A k \in Key \ Cache!Keys(c) : \A v :
           /\ First(k, v) => First(k, v)'
           /\ Second(k, v) => Second(k, v)',
         \A k \in Cache!Keys(c) \cap call[c].alone :
           /\ call'[c].at \in {"l2", "l3"} => First(k, call[c].val)'
           /\ call'[c].at = "l3" => Second(k, call[c].val)'
  PROVE  CacheInv'
<1>1. Cache!Busy(c) /\ Cache!Writing(c)
  BY DEF IsWrite, Cache!Busy, Cache!Writing
<1>2. ASSUME NEW d \in Caller
      PROVE  /\ Cache!Busy(d)' <=> Cache!Busy(d)
             /\ Cache!Keys(d)' = Cache!Keys(d)
             /\ Cache!Writing(d)' <=> Cache!Writing(d)
             /\ call'[d].alone = call[d].alone /\ call'[d].val = call[d].val
  BY <1>1 DEF IsWrite, Alone, Cache!Busy, Cache!Keys, Cache!Writing
<1>3. ASSUME NEW k \in Key, known[k] # "unknown"
      PROVE  /\ First(k, known[k])' /\ Second(k, known[k])' /\ l3'[k] = known[k]
             /\ \A d \in Caller : Cache!Busy(d)' /\ k \in Cache!Keys(d)' =>
                  /\ ~Cache!Writing(d)'
                  /\ call'[d].at \in {"promote1", "promote2"} => call'[d].val = known[k]
  <2>1. /\ First(k, known[k]) /\ Second(k, known[k]) /\ l3[k] = known[k]
        /\ \A d \in Caller : Cache!Busy(d) /\ k \in Cache!Keys(d) =>
             /\ ~Cache!Writing(d)
             /\ call[d].at \in {"promote1", "promote2"} => call[d].val = known[k]
    BY <1>3 DEF CacheInv, KnownIsEverywhere
  <2>2. k \notin Cache!Keys(c)
    BY <1>1, <2>1
  <2>3. First(k, known[k])' /\ Second(k, known[k])' /\ l3'[k] = known[k]
    BY <2>1, <2>2 DEF First, Second
  <2> QED
    BY <1>2, <2>1, <2>2, <2>3 DEF Alone
<1>4. KnownIsEverywhere'
  BY <1>3 DEF KnownIsEverywhere, First, Second
<1>5. AloneIsAlone'
  BY <1>2 DEF CacheInv, AloneIsAlone
<1>6. WrittenSoFar'
  <2> SUFFICES ASSUME NEW d \in Caller, Cache!Writing(d), NEW k \in call[d].alone
               PROVE  /\ call'[d].at \in {"l2", "l3"} => First(k, call[d].val)'
                      /\ call'[d].at = "l3" => Second(k, call[d].val)'
    BY <1>2 DEF WrittenSoFar, First, Second
  <2>1. CASE d = c
    BY <2>1 DEF CacheInv, AloneIsAlone
  <2>2. CASE d # c
    <3>1. k \in Key \ Cache!Keys(c)
      BY <1>1, <2>2 DEF CacheInv, CacheTypes, CallTypes, Calls, AloneIsAlone
    <3>2. call'[d] = call[d]
      BY <2>2 DEF Alone
    <3> QED
      BY <3>1, <3>2 DEF CacheInv, WrittenSoFar
  <2> QED
    BY <2>1, <2>2
<1> QED
  BY <1>4, <1>5, <1>6 DEF CacheInv

LEMMA MovesOn ==
  ASSUME NEW c \in Caller, NEW at \in Points, NEW v \in Datum, CacheTypes, Cache!Goto(c, at, v),
         IsGet(call[c]) \/ (IsWrite(call[c]) /\ at \in {"l2", "l3"} /\ v = call[c].val)
  PROVE  /\ Alone(c) /\ CallTypes'
         /\ call'[c].at = at /\ call'[c].val = v
         /\ call'[c].op = call[c].op /\ call'[c].key = call[c].key
         /\ call'[c].alone = call[c].alone
         /\ IsGet(call[c]) => IsGet(call'[c])
         /\ IsWrite(call[c]) => IsWrite(call'[c])
<1>1. call[c] \in Calls /\ call \in [Caller -> Calls]
  BY DEF CacheTypes, CallTypes
<1>2. call' = [call EXCEPT ![c] = [call[c] EXCEPT !.at = at, !.val = v]]
  BY <1>1 DEF Cache!Goto
<1>3. [call[c] EXCEPT !.at = at, !.val = v] \in Calls
  BY <1>1 DEF Calls
<1>4. Alone(c) /\ call' \in [Caller -> Calls]
  BY <1>1, <1>2, <1>3 DEF Alone
<1>5. /\ call'[c].at = at /\ call'[c].val = v
      /\ call'[c].op = call[c].op /\ call'[c].key = call[c].key
      /\ call'[c].alone = call[c].alone
  BY <1>1, <1>2 DEF Calls
<1>6. /\ IsGet(call[c]) => IsGet(call'[c])
      /\ IsWrite(call[c]) => IsWrite(call'[c])
  BY <1>5 DEF IsGet, IsWrite
<1>7. CallTypes'
  BY <1>4, <1>6 DEF CallTypes, CacheTypes, Alone
<1> QED
  BY <1>4, <1>5, <1>6, <1>7

LEMMA Returns ==
  ASSUME NEW c \in Caller, CacheTypes, Cache!Return(c)
  PROVE  Alone(c) /\ CallTypes' /\ IsIdle(call'[c])
<1>1. /\ call \in [Caller -> Calls]
      /\ call' = [call EXCEPT ![c] = Cache!Idle] /\ Cache!Idle \in Calls
  BY DEF CacheTypes, CallTypes, Cache!Return, Cache!Idle, Calls, Datum
<1>2. Alone(c) /\ call' \in [Caller -> Calls] /\ IsIdle(call'[c])
  BY <1>1 DEF Alone, IsIdle, Cache!Idle
<1> QED
  BY <1>2 DEF CallTypes, CacheTypes, Alone

\* A caller that is at a step of a call is in that call.
LEMMA AtItsCall ==
  ASSUME NEW c \in Caller, CacheTypes
  PROVE  /\ call[c].at \in {"promote1", "promote2"} => IsGet(call[c])
         /\ call[c].op = "get" /\ call[c].at \in {"l1", "l2", "l3"} => IsGet(call[c])
         /\ Cache!Writing(c) => IsWrite(call[c])
BY DEF CacheTypes, CallTypes, IsIdle, IsGet, IsWrite, Cache!Writing, Cache!Busy

LEMMA Get1Step == ASSUME CacheInv, NEW c \in Caller, Cache!Get1(c) PROVE CacheInv'
<1> DEFINE k == call[c].key
<1>1. /\ IsGet(call[c]) /\ k \in Key /\ known' = known /\ l2' = l2 /\ l3' = l3 /\ CacheTypes
  BY AtItsCall DEF CacheInv, Cache!Get1, IsGet
<1>2. CASE Cache!In1(k)
  <2>1. l1' = Cache!Put1(k, Cache!Value1(k)) /\ Cache!Return(c)
    BY <1>2 DEF Cache!Get1
  <2>2. /\ l1' \in Seq(Entries)
        /\ \A i \in DOMAIN l1' :
             \E j \in DOMAIN l1 : l1'[i].key = l1[j].key /\ l1'[i].val = l1[j].val
        /\ \A i, j \in DOMAIN l1' : l1'[i].key = l1'[j].key => i = j
    BY <1>1, <1>2, <2>1, TouchLeaves
  <2>3. Alone(c) /\ CallTypes' /\ IsIdle(call'[c])
    BY <1>1, <2>1, Returns
  <2>4. CacheTypes'
    BY <1>1, <2>2, <2>3 DEF CacheTypes, OneEntryEach
  <2>5. \A x \in Key : \A v :
          (First(x, v) => First(x, v)') /\ (Second(x, v) => Second(x, v)')
    BY <1>1, <2>2 DEF First, Second
  <2> QED
    BY <1>1, <2>3, <2>4, <2>5, GetStep
<1>3. CASE ~Cache!In1(k)
  <2>1. Cache!Goto(c, "l2", Absent) /\ l1' = l1
    BY <1>3 DEF Cache!Get1
  <2>2. /\ Alone(c) /\ CallTypes' /\ IsGet(call'[c])
        /\ call'[c].at = "l2" /\ call'[c].key = k /\ call'[c].alone = call[c].alone
    BY <1>1, <2>1, MovesOn DEF Points, Datum
  <2>3. CacheTypes'
    BY <1>1, <2>1, <2>2 DEF CacheTypes, OneEntryEach
  <2>4. \A x \in Key : \A v :
          (First(x, v) => First(x, v)') /\ (Second(x, v) => Second(x, v)')
    BY <1>1, <2>1 DEF First, Second
  <2> QED
    BY <1>1, <2>2, <2>3, <2>4, GetStep
<1> QED
  BY <1>2, <1>3

\* What the second layer has is what a get takes from it to the first, ...
LEMMA Get2Step == ASSUME CacheInv, NEW c \in Caller, Cache!Get2(c) PROVE CacheInv'
<1> DEFINE k == call[c].key
           found == l2[k] # Absent
           at == IF found THEN "promote1" ELSE "l3"
           v == IF found THEN l2[k] ELSE Absent
<1>1. /\ IsGet(call[c]) /\ k \in Key /\ CacheTypes
      /\ l1' = l1 /\ known' = known /\ l2' = l2 /\ l3' = l3
  BY AtItsCall DEF CacheInv, Cache!Get2, IsGet
<1>2. Cache!Goto(c, at, v) /\ at \in Points /\ v \in Datum
  BY <1>1 DEF Cache!Get2, Points, Datum, CacheTypes
<1>3. found /\ known[k] # "unknown" => v = known[k]
  BY <1>1 DEF CacheInv, KnownIsEverywhere, Second
<1>4. at \in {"promote1", "promote2"} => found
  OBVIOUS
<1> HIDE DEF at, v, found
<1>5. /\ Alone(c) /\ CallTypes' /\ IsGet(call'[c]) /\ call'[c].at = at /\ call'[c].val = v
      /\ call'[c].key = k /\ call'[c].alone = call[c].alone
  BY <1>1, <1>2, MovesOn
<1>6. CacheTypes'
  BY <1>1, <1>5 DEF CacheTypes, OneEntryEach
<1>7. \A x \in Key : \A w :
        (First(x, w) => First(x, w)') /\ (Second(x, w) => Second(x, w)')
  BY <1>1 DEF First, Second
<1> QED
  BY <1>1, <1>3, <1>4, <1>5, <1>6, <1>7, GetStep

\* ... what the third has, to the second.
LEMMA Get3Step == ASSUME CacheInv, NEW c \in Caller, Cache!Get3(c) PROVE CacheInv'
<1> DEFINE k == call[c].key
<1>1. /\ IsGet(call[c]) /\ k \in Key /\ CacheTypes
      /\ l1' = l1 /\ known' = known /\ l2' = l2 /\ l3' = l3
  BY AtItsCall DEF CacheInv, Cache!Get3, IsGet
<1>2. \A x \in Key : \A w :
        (First(x, w) => First(x, w)') /\ (Second(x, w) => Second(x, w)')
  BY <1>1 DEF First, Second
<1>3. CASE l3[k] # Absent
  <2>1. Cache!Goto(c, "promote2", l3[k]) /\ l3[k] \in Datum
    BY <1>1, <1>3 DEF Cache!Get3, CacheTypes
  <2>2. known[k] # "unknown" => l3[k] = known[k]
    BY <1>1 DEF CacheInv, KnownIsEverywhere
  <2>3. /\ Alone(c) /\ CallTypes' /\ IsGet(call'[c]) /\ call'[c].val = l3[k]
        /\ call'[c].key = k /\ call'[c].alone = call[c].alone
    BY <1>1, <2>1, MovesOn DEF Points
  <2>4. CacheTypes'
    BY <1>1, <2>3 DEF CacheTypes, OneEntryEach
  <2> QED
    BY <1>1, <1>2, <2>2, <2>3, <2>4, GetStep
<1>4. CASE l3[k] = Absent
  <2>1. Cache!Return(c)
    BY <1>4 DEF Cache!Get3
  <2>2. Alone(c) /\ CallTypes' /\ IsIdle(call'[c])
    BY <1>1, <2>1, Returns
  <2>3. CacheTypes'
    BY <1>1, <2>2 DEF CacheTypes, OneEntryEach
  <2> QED
    BY <1>1, <1>2, <2>2, <2>3, GetStep
<1> QED
  BY <1>3, <1>4

\* A promotion puts the known value of its key into a layer, and nothing for another key.
LEMMA Promote1Step == ASSUME CacheInv, NEW c \in Caller, Cache!Promote1(c) PROVE CacheInv'
<1> DEFINE k == call[c].key
           v == call[c].val
<1>1. /\ IsGet(call[c]) /\ k \in Key /\ v \in Datum /\ CacheTypes
      /\ l1' = Cache!Put1(k, v) /\ known' = known /\ l2' = l2 /\ l3' = l3
      /\ Cache!Return(c) /\ call[c].at = "promote1"
  BY AtItsCall DEF CacheInv, Cache!Promote1, IsGet
<1>2. /\ l1' \in Seq(Entries)
      /\ \A i \in DOMAIN l1' : \/ l1'[i].key = k /\ l1'[i].val = v
                               \/ l1'[i].key # k /\ \E j \in DOMAIN l1 : l1'[i] = l1[j]
      /\ \A i, j \in DOMAIN l1' : l1'[i].key = l1'[j].key => i = j
  BY <1>1, PutLeaves
<1>3. known[k] # "unknown" => v = known[k]
  BY <1>1 DEF CacheInv, KnownIsEverywhere, Cache!Busy, Cache!Keys, IsGet
<1>4. Alone(c) /\ CallTypes' /\ IsIdle(call'[c])
  BY <1>1, Returns
<1>5. CacheTypes'
  BY <1>1, <1>2, <1>4 DEF CacheTypes, OneEntryEach
<1>6. ASSUME NEW x \in Key, NEW w, x = k => known[x] # "unknown" /\ w = known[x]
      PROVE  (First(x, w) => First(x, w)') /\ (Second(x, w) => Second(x, w)')
  <2>1. x = k => w = v
    BY <1>3, <1>6
  <2> QED
    BY <1>1, <1>2, <2>1 DEF First, Second
<1> QED
  BY <1>1, <1>4, <1>5, <1>6, GetStep

LEMMA Promote2Step == ASSUME CacheInv, NEW c \in Caller, Cache!Promote2(c) PROVE CacheInv'
<1> DEFINE k == call[c].key
           v == call[c].val
<1>1. /\ IsGet(call[c]) /\ k \in Key /\ v \in Datum /\ CacheTypes
      /\ l2' = [l2 EXCEPT ![k] = v] /\ known' = known /\ l1' = l1 /\ l3' = l3
      /\ Cache!Return(c) /\ call[c].at = "promote2"
  BY AtItsCall DEF CacheInv, Cache!Promote2, IsGet
<1>2. known[k] # "unknown" => v = known[k]
  BY <1>1 DEF CacheInv, KnownIsEverywhere, Cache!Busy, Cache!Keys, IsGet
<1>3. Alone(c) /\ CallTypes' /\ IsIdle(call'[c])
  BY <1>1, Returns
<1>4. CacheTypes'
  BY <1>1, <1>3 DEF CacheTypes, OneEntryEach
<1>5. ASSUME NEW x \in Key, NEW w, x = k => known[x] # "unknown" /\ w = known[x]
      PROVE  (First(x, w) => First(x, w)') /\ (Second(x, w) => Second(x, w)')
  <2>1. x = k => w = v
    BY <1>2, <1>5
  <2>2. l2' = [y \in Key |-> IF y = k THEN v ELSE l2[y]]
    BY <1>1 DEF CacheTypes
  <2> QED
    BY <1>1, <2>1, <2>2 DEF First, Second
<1> QED
  BY <1>1, <1>3, <1>4, <1>5, GetStep

-----------------------------------------------------------------------------
(* Writers.                                                                 *)

LEMMA Write1Step == ASSUME CacheInv, NEW c \in Caller, Cache!Write1(c) PROVE CacheInv'
<1> DEFINE k == call[c].key
           v == call[c].val
<1>1. /\ IsWrite(call[c]) /\ k \in Key /\ v \in Datum /\ CacheTypes
      /\ Cache!Goto(c, "l2", v) /\ known' = known /\ l2' = l2 /\ l3' = l3
  BY AtItsCall DEF CacheInv, Cache!Write1, IsWrite
<1>2. /\ l1' \in Seq(Entries)
      /\ \A i \in DOMAIN l1' : \/ l1'[i].key \in Cache!Keys(c) /\ l1'[i].val = v
                               \/ /\ l1'[i].key \notin Cache!Keys(c)
                                  /\ \E j \in DOMAIN l1 : l1'[i] = l1[j]
      /\ \A i, j \in DOMAIN l1' : l1'[i].key = l1'[j].key => i = j
  <2>1. CASE call[c].op = "set"
    <3>1. l1' = Cache!Put1(k, v) /\ Cache!Keys(c) = {k}
      BY <2>1 DEF Cache!Write1, Cache!Keys
    <3> QED
      BY <1>1, <3>1, PutLeaves
  <2>2. CASE call[c].op = "remove"
    <3>1. l1' = Cache!Pop1(k) /\ Cache!Keys(c) = {k}
      BY <2>2 DEF Cache!Write1, Cache!Wipe1, Cache!Keys
    <3> QED
      BY <1>1, <3>1, PopLeaves
  <2>3. CASE call[c].op = "clear"
    BY <2>3 DEF Cache!Write1, Cache!Wipe1
  <2> QED
    BY <1>1, <2>1, <2>2, <2>3 DEF IsWrite
<1>3. /\ Alone(c) /\ CallTypes' /\ IsWrite(call'[c]) /\ call'[c].at = "l2"
      /\ call'[c].op = call[c].op /\ call'[c].key = call[c].key
      /\ call'[c].alone = call[c].alone /\ call'[c].val = call[c].val
  BY <1>1, MovesOn DEF Points
<1>4. CacheTypes'
  BY <1>1, <1>2, <1>3 DEF CacheTypes, OneEntryEach
<1>5. \A x \in Key \ Cache!Keys(c) : \A w :
        (First(x, w) => First(x, w)') /\ (Second(x, w) => Second(x, w)')
  BY <1>1, <1>2 DEF First, Second
<1>6. \A x \in Cache!Keys(c) : First(x, call[c].val)'
  BY <1>2, <1>3 DEF First
<1> QED
  BY <1>1, <1>3, <1>4, <1>5, <1>6, WriteStep

LEMMA Write2Step == ASSUME CacheInv, NEW c \in Caller, Cache!Write2(c) PROVE CacheInv'
<1> DEFINE v == call[c].val
<1>1. /\ IsWrite(call[c]) /\ v \in Datum /\ CacheTypes /\ call[c].at = "l2"
      /\ Cache!Goto(c, "l3", v) /\ known' = known /\ l1' = l1 /\ l3' = l3
      /\ l2' = [x \in Key |-> IF x \in Cache!Keys(c) THEN v ELSE l2[x]]
  BY AtItsCall DEF CacheInv, Cache!Write2, Cache!Left, IsWrite
<1>2. /\ Alone(c) /\ CallTypes' /\ IsWrite(call'[c]) /\ call'[c].at = "l3"
      /\ call'[c].op = call[c].op /\ call'[c].key = call[c].key
      /\ call'[c].alone = call[c].alone /\ call'[c].val = call[c].val
  BY <1>1, MovesOn DEF Points
<1>3. CacheTypes'
  BY <1>1, <1>2 DEF CacheTypes, OneEntryEach
<1>4. \A x \in Key \ Cache!Keys(c) : \A w :
        (First(x, w) => First(x, w)') /\ (Second(x, w) => Second(x, w)')
  BY <1>1 DEF First, Second
<1>5. \A x \in Cache!Keys(c) \cap call[c].alone : First(x, v)
  BY <1>1 DEF CacheInv, WrittenSoFar, Cache!Writing, Cache!Busy, IsWrite
<1>6. \A x \in Cache!Keys(c) \cap call[c].alone : First(x, call[c].val)' /\ Second(x, call[c].val)'
  <2>1. \A x \in call[c].alone : x \in Key
    BY <1>1 DEF IsWrite
  <2> QED
    BY <1>1, <1>2, <1>5, <2>1 DEF First, Second
<1> QED
  BY <1>1, <1>2, <1>3, <1>4, <1>6, WriteStep

\* With its last step a call that was alone with a key has left its value in every layer.
LEMMA Write3Step == ASSUME CacheInv, NEW c \in Caller, Cache!Write3(c) PROVE CacheInv'
<1> DEFINE v == call[c].val
<1>1. /\ IsWrite(call[c]) /\ v \in Datum /\ CacheTypes /\ call[c].at = "l3"
      /\ Cache!Busy(c) /\ Cache!Writing(c)
      /\ Cache!Return(c) /\ l1' = l1 /\ l2' = l2
      /\ l3' = [x \in Key |-> IF x \in Cache!Keys(c) THEN v ELSE l3[x]]
      /\ known' = [x \in Key |-> IF x \in call[c].alone THEN v ELSE known[x]]
  BY AtItsCall DEF CacheInv, Cache!Write3, Cache!Left, IsWrite, Cache!Writing
<1>2. Alone(c) /\ CallTypes' /\ IsIdle(call'[c])
  BY <1>1, Returns
<1>3. CacheTypes'
  BY <1>1, <1>2 DEF CacheTypes, OneEntryEach
<1>4. ASSUME NEW d \in Caller, Cache!Busy(d)'
      PROVE  d # c /\ Cache!Busy(d) /\ Cache!Keys(d)' = Cache!Keys(d) /\ call'[d] = call[d]
  BY <1>2, <1>4 DEF IsIdle, Alone, Cache!Busy, Cache!Keys
<1>5. ASSUME NEW k \in Key, known'[k] # "unknown"
      PROVE  /\ First(k, known'[k]) /\ Second(k, known'[k]) /\ l3'[k] = known'[k]
             /\ \A d \in Caller : Cache!Busy(d)' /\ k \in Cache!Keys(d)' =>
                  /\ ~Cache!Writing(d)'
                  /\ call'[d].at \in {"promote1", "promote2"} => call'[d].val = known'[k]
  <2>1. CASE k \in call[c].alone
    <3>1. known'[k] = v /\ k \in Cache!Keys(c) /\ l3'[k] = v
      BY <1>1, <2>1 DEF CacheInv, AloneIsAlone
    <3>2. First(k, v) /\ Second(k, v)
      BY <1>1, <2>1 DEF CacheInv, WrittenSoFar
    <3>3. \A d \in Caller : Cache!Busy(d)' => k \notin Cache!Keys(d)'
      BY <1>4, <2>1 DEF CacheInv, AloneIsAlone
    <3> QED
      BY <3>1, <3>2, <3>3
  <2>2. CASE k \notin call[c].alone
    <3>1. known'[k] = known[k]
      BY <1>1, <2>2
    <3>2. /\ First(k, known[k]) /\ Second(k, known[k]) /\ l3[k] = known[k]
          /\ \A d \in Caller : Cache!Busy(d) /\ k \in Cache!Keys(d) =>
               /\ ~Cache!Writing(d)
               /\ call[d].at \in {"promote1", "promote2"} => call[d].val = known[k]
      BY <1>5, <3>1 DEF CacheInv, KnownIsEverywhere
    <3>3. l3'[k] = l3[k]
      BY <1>1, <3>2
    <3>4. \A d \in Caller : Cache!Busy(d)' => (Cache!Writing(d)' <=> Cache!Writing(d))
      BY <1>4 DEF Cache!Writing
    <3> QED
      BY <1>4, <3>1, <3>2, <3>3, <3>4
  <2> QED
    BY <2>1, <2>2
<1>6. KnownIsEverywhere'
  BY <1>1, <1>5 DEF KnownIsEverywhere, First, Second
<1>7. \A d \in Caller : \A k \in call'[d].alone : d # c /\ call'[d] = call[d]
  BY <1>2 DEF IsIdle, Alone
<1>8. AloneIsAlone'
  <2> SUFFICES ASSUME NEW d \in Caller, NEW k \in call'[d].alone
               PROVE  /\ k \in Cache!Keys(d)'
                      /\ \A e \in Caller \ {d} : Cache!Busy(e)' => k \notin Cache!Keys(e)'
    BY DEF AloneIsAlone
  <2>1. k \in call[d].alone /\ Cache!Keys(d)' = Cache!Keys(d)
    BY <1>7 DEF Cache!Keys
  <2> QED
    BY <1>4, <2>1 DEF CacheInv, AloneIsAlone
<1>9. WrittenSoFar'
  <2> SUFFICES ASSUME NEW d \in Caller, Cache!Writing(d)', NEW k \in call'[d].alone
               PROVE  /\ call'[d].at \in {"l2", "l3"} => First(k, call'[d].val)
                      /\ call'[d].at = "l3" => Second(k, call'[d].val)
    BY <1>1 DEF WrittenSoFar, First, Second
  <2>1. call'[d] = call[d] /\ Cache!Writing(d)
    BY <1>7 DEF Cache!Writing, Cache!Busy
  <2> QED
    BY <2>1 DEF CacheInv, WrittenSoFar
<1> QED
  BY <1>3, <1>6, <1>8, <1>9 DEF CacheInv

\* A call that begins makes the keys it will write unknown, and takes the keys it is about
\* from the calls that were alone with them.
LEMMA BeginStep == ASSUME CacheInv, NEW c \in Caller, Cache!Begin(c) PROVE CacheInv'
<1>1. PICK op \in {"get", "set", "remove", "clear"}, k \in Key, v \in Value :
        LET ks == IF op = "clear" THEN Key ELSE {k} IN
        /\ call' = [d \in Caller |->
             IF d = c THEN [op |-> op, key |-> k, val |-> IF op = "set" THEN v ELSE Absent,
                            at |-> "l1", alone |-> Cache!Undisturbed(ks)]
                      ELSE [call[d] EXCEPT !.alone = @ \ ks]]
        /\ known' = [x \in Key |-> IF op # "get" /\ x \in ks THEN "unknown" ELSE known[x]]
  BY DEF Cache!Begin
<1> DEFINE ks == IF op = "clear" THEN Key ELSE {k}
<1>2. /\ CacheTypes /\ call \in [Caller -> Calls] /\ ks \subseteq Key
      /\ l1' = l1 /\ l2' = l2 /\ l3' = l3
  BY DEF CacheInv, CacheTypes, CallTypes, Cache!Begin
<1>3. /\ call'[c].op = op /\ call'[c].key = k /\ call'[c].at = "l1"
      /\ call'[c].val = (IF op = "set" THEN v ELSE Absent)
      /\ call'[c].alone = Cache!Undisturbed(ks)
  BY <1>1
<1>4. ASSUME NEW d \in Caller \ {c}
      PROVE  /\ call'[d] \in Calls /\ call'[d].alone = call[d].alone \ ks
             /\ call'[d].op = call[d].op /\ call'[d].key = call[d].key
             /\ call'[d].at = call[d].at /\ call'[d].val = call[d].val
  <2>1. call'[d] = [call[d] EXCEPT !.alone = @ \ ks] /\ call[d] \in Calls
    BY <1>1, <1>2
  <2> HIDE DEF ks
  <2> QED
    BY <2>1 DEF Calls
<1>5. known' = [x \in Key |-> IF op # "get" /\ x \in ks THEN "unknown" ELSE known[x]]
  BY <1>1
<1>6. Cache!Undisturbed(ks) \subseteq ks
  BY DEF Cache!Undisturbed
<1>7. Cache!Busy(c)' /\ Cache!Keys(c)' = ks /\ (Cache!Writing(c)' => op # "get")
  BY <1>3 DEF Cache!Busy, Cache!Keys, Cache!Writing
<1>8. ASSUME NEW d \in Caller \ {c}
      PROVE  /\ Cache!Busy(d)' <=> Cache!Busy(d)
             /\ Cache!Writing(d)' <=> Cache!Writing(d)
             /\ Cache!Keys(d)' = Cache!Keys(d)
  BY <1>4 DEF Cache!Busy, Cache!Keys, Cache!Writing
<1>9. CacheTypes'
  <2>1. call'[c] \in Calls
    <3>1. call'[c] = [op |-> op, key |-> k, val |-> IF op = "set" THEN v ELSE Absent,
                      at |-> "l1", alone |-> Cache!Undisturbed(ks)]
      BY <1>1
    <3>2. Cache!Undisturbed(ks) \in SUBSET Key
      BY <1>2, <1>6
    <3> HIDE DEF ks
    <3> QED
      BY <3>1, <3>2 DEF Calls, Datum, Points
  <2>2. call' \in [Caller -> Calls]
    BY <1>1, <1>4, <2>1
  <2>3. IsGet(call'[c]) \/ IsWrite(call'[c])
    BY <1>2, <1>3, <1>6 DEF IsGet, IsWrite, Datum, Points
  <2>4. ASSUME NEW d \in Caller \ {c}
        PROVE  IsIdle(call'[d]) \/ IsGet(call'[d]) \/ IsWrite(call'[d])
    <3>1. IsIdle(call[d]) \/ IsGet(call[d]) \/ IsWrite(call[d])
      BY <1>2 DEF CacheTypes, CallTypes
    <3> HIDE DEF ks
    <3> QED
      BY <1>4, <3>1 DEF IsIdle, IsGet, IsWrite
  <2>5. known' \in [Key -> Datum \cup {"unknown"}]
    BY <1>2, <1>5 DEF CacheTypes
  <2> QED
    BY <1>2, <2>2, <2>3, <2>4, <2>5 DEF CacheTypes, CallTypes, OneEntryEach
<1> HIDE DEF ks
<1>10. KnownIsEverywhere'
  <2> SUFFICES ASSUME NEW x \in Key, known'[x] # "unknown"
               PROVE  /\ First(x, known'[x]) /\ Second(x, known'[x]) /\ l3[x] = known'[x]
                      /\ \A d \in Caller : Cache!Busy(d)' /\ x \in Cache!Keys(d)' =>
                           /\ ~Cache!Writing(d)'
                           /\ call'[d].at \in {"promote1", "promote2"} =>
                                call'[d].val = known'[x]
    BY <1>2 DEF KnownIsEverywhere, First, Second
  <2>1. known'[x] = known[x] /\ (x \in ks => op = "get")
    BY <1>5
  <2>2. /\ First(x, known[x]) /\ Second(x, known[x]) /\ l3[x] = known[x]
        /\ \A d \in Caller : Cache!Busy(d) /\ x \in Cache!Keys(d) =>
             /\ ~Cache!Writing(d)
             /\ call[d].at \in {"promote1", "promote2"} => call[d].val = known[x]
    BY <2>1 DEF CacheInv, KnownIsEverywhere
  <2>3. x \in Cache!Keys(c)' => ~Cache!Writing(c)' /\ call'[c].at = "l1"
    BY <1>3, <1>7, <2>1
  <2> QED
    BY <1>4, <1>8, <2>1, <2>2, <2>3
<1>11. AloneIsAlone'
  <2> SUFFICES ASSUME NEW d \in Caller, NEW x \in call'[d].alone
               PROVE  /\ x \in Cache!Keys(d)'
                      /\ \A e \in Caller \ {d} : Cache!Busy(e)' => x \notin Cache!Keys(e)'
    BY DEF AloneIsAlone
  <2>1. CASE d = c
    BY <1>3, <1>6, <1>7, <1>8, <2>1 DEF Cache!Undisturbed
  <2>2. CASE d # c
    BY <1>4, <1>7, <1>8, <2>2 DEF CacheInv, AloneIsAlone
  <2> QED
    BY <2>1, <2>2
<1>12. WrittenSoFar'
  <2> SUFFICES ASSUME NEW d \in Caller, Cache!Writing(d)', NEW x \in call'[d].alone
               PROVE  /\ call'[d].at \in {"l2", "l3"} => First(x, call'[d].val)
                      /\ call'[d].at = "l3" => Second(x, call'[d].val)
    BY <1>2 DEF WrittenSoFar, First, Second
  <2>1. CASE d = c
    BY <1>3, <2>1
  <2>2. CASE d # c
    BY <1>4, <1>8, <2>2 DEF CacheInv, WrittenSoFar
  <2> QED
    BY <2>1, <2>2
<1> QED
  BY <1>9, <1>10, <1>11, <1>12 DEF CacheInv

-----------------------------------------------------------------------------
(* Entries that expire, processes that end.                                 *)

LEMMA ExpireStep == ASSUME CacheInv, NEW k \in Key, Cache!Expire(k) PROVE CacheInv'
<1>1. /\ CacheTypes /\ l2' = [l2 EXCEPT ![k] = Absent]
      /\ l1' = l1 /\ l3' = l3 /\ call' = call /\ known' = known
  BY DEF CacheInv, Cache!Expire
<1>2. CacheTypes'
  BY <1>1 DEF CacheTypes, CallTypes, OneEntryEach, Datum
<1>3. \A x \in Key : \A v : (First(x, v) <=> First(x, v)') /\ (Second(x, v) => Second(x, v)')
  BY <1>1 DEF CacheTypes, First, Second
<1>4. \A c \in Caller : /\ Cache!Busy(c)' <=> Cache!Busy(c)
                        /\ Cache!Writing(c)' <=> Cache!Writing(c)
                        /\ Cache!Keys(c)' = Cache!Keys(c)
  BY <1>1 DEF Cache!Busy, Cache!Writing, Cache!Keys
<1>5. KnownIsEverywhere'
  <2> SUFFICES ASSUME NEW x \in Key, known[x] # "unknown"
               PROVE  /\ First(x, known[x])' /\ Second(x, known[x])' /\ l3[x] = known[x]
                      /\ \A c \in Caller : Cache!Busy(c) /\ x \in Cache!Keys(c) =>
                           /\ ~Cache!Writing(c)
                           /\ call[c].at \in {"promote1", "promote2"} => call[c].val = known[x]
    BY <1>1, <1>4 DEF KnownIsEverywhere, First, Second
  <2>1. First(x, known[x]) /\ Second(x, known[x])
    BY DEF CacheInv, KnownIsEverywhere
  <2>2. First(x, known[x])' /\ Second(x, known[x])'
    BY <1>1, <1>3, <2>1 DEF First, Second
  <2> QED
    BY <2>2 DEF CacheInv, KnownIsEverywhere
<1>6. AloneIsAlone'
  BY <1>1, <1>4 DEF CacheInv, AloneIsAlone
<1>7. WrittenSoFar'
  <2> SUFFICES ASSUME NEW c \in Caller, Cache!Writing(c), NEW x \in call[c].alone
               PROVE  /\ call[c].at \in {"l2", "l3"} => First(x, call[c].val)'
                      /\ call[c].at = "l3" => Second(x, call[c].val)'
    BY <1>1, <1>4 DEF WrittenSoFar, First, Second
  <2>1. x \in Key
    BY <1>1 DEF CacheTypes, CallTypes, Calls
  <2>2. /\ call[c].at \in {"l2", "l3"} => First(x, call[c].val)
        /\ call[c].at = "l3" => Second(x, call[c].val)
    BY DEF CacheInv, WrittenSoFar
  <2>3. /\ First(x, call[c].val) => First(x, call[c].val)'
        /\ Second(x, call[c].val) => Second(x, call[c].val)'
    BY <1>1, <2>1 DEF CacheTypes, First, Second
  <2> QED
    BY <1>1, <2>2, <2>3 DEF First, Second
<1> QED
  BY <1>2, <1>5, <1>6, <1>7 DEF CacheInv

\* A cache nobody has called, with nothing in it: its keys are known to have no value, or not
\* known at all.
Fresh ==
  /\ l1 = <<>> /\ l2 = Cache!Nothing /\ l3 = Cache!Nothing
  /\ call = [c \in Caller |-> Cache!Idle]
  /\ known \in {Cache!Nothing, [k \in Key |-> "unknown"]}

LEMMA FreshIsRight == ASSUME Capacity \in Nat, Fresh PROVE CacheInv
<1>1. \A c \in Caller : IsIdle(call[c]) /\ ~Cache!Busy(c) /\ ~Cache!Writing(c)
  BY DEF Fresh, IsIdle, Cache!Idle, Cache!Busy, Cache!Writing
<1>2. call \in [Caller -> Calls]
  BY DEF Fresh, Calls, Cache!Idle, Datum
<1>3. CacheTypes
  BY <1>1, <1>2 DEF Fresh, CacheTypes, CallTypes, OneEntryEach, Cache!Nothing, Datum
<1>4. KnownIsEverywhere
  BY <1>1 DEF Fresh, KnownIsEverywhere, First, Second, Cache!Nothing
<1> QED
  BY <1>1, <1>3, <1>4 DEF CacheInv, AloneIsAlone, WrittenSoFar, IsIdle

\* A process starts from a file it cannot read, or that says nothing: from nothing.
LEMMA RestartStep ==
  ASSUME Capacity \in Nat
  PROVE  Cache!Restart => CacheInv'
<1>1. Fresh => CacheInv
  BY FreshIsRight
<1>2. Cache!Restart => Fresh'
  BY DEF Cache!Restart, Cache!Restored, Cache!Readable, Cache!Nothing, Cache!Idle, Fresh
<1> QED
  BY <1>1, <1>2, PTL

LEMMA CacheStep == ASSUME Capacity \in Nat, CacheInv, [Cache!Next]_cacheVars PROVE CacheInv'
<1>1. CASE UNCHANGED cacheVars
  BY <1>1 DEF cacheVars, CacheInv, CacheTypes, CallTypes, OneEntryEach, KnownIsEverywhere,
     AloneIsAlone, WrittenSoFar, First, Second, Cache!Busy, Cache!Writing, Cache!Keys
<1>2. CASE Cache!Next
  BY <1>2, BeginStep, Get1Step, Get2Step, Promote1Step, Get3Step, Promote2Step, Write1Step,
     Write2Step, Write3Step, ExpireStep, RestartStep DEF Cache!Next
<1> QED
  BY <1>1, <1>2

\* For any number of keys, callers and entries in the first layer: what a set, remove or clear
\* that no other call on the key overlapped has left is what the cache serves, through
\* evictions, expiry and promotions, until the next call that writes the key or the end of the
\* process.
THEOREM LeftIsServed ==
  ASSUME Capacity \in Nat
  PROVE  StoresSpec => []ServesWhatWasLeft
<1>1. StoresInit => CacheInv
  BY FreshIsRight DEF StoresInit, Cache!Init, Fresh
<1>2. CacheInv /\ [StoresNext]_storesVars => CacheInv'
  BY CacheStep DEF StoresNext, storesVars
<1>3. CacheInv => ServesWhatWasLeft
  <2> SUFFICES ASSUME CacheInv, NEW k \in Key, known[k] # "unknown"
               PROVE  Cache!Served(k) = known[k]
    BY DEF ServesWhatWasLeft, Cache!ServesWhatWasLeft
  <2>1. First(k, known[k]) /\ Second(k, known[k]) /\ l3[k] = known[k]
    BY DEF CacheInv, KnownIsEverywhere
  <2>2. CASE Cache!In1(k)
    <3>1. Cache!Value1(k) = known[k]
      BY <2>1, <2>2, PlaceOf DEF First, Cache!Value1
    <3> QED
      BY <2>2, <3>1 DEF Cache!Served
  <2>3. CASE ~Cache!In1(k)
    BY <2>1, <2>3 DEF Second, Cache!Served
  <2> QED
    BY <2>2, <2>3
<1> QED
  BY <1>1, <1>2, <1>3, PTL DEF StoresSpec
=============================================================================
