-------------------------- MODULE FileStore_proofs --------------------------
(***************************************************************************)
(* What a store promises of its published file, for any number of writers, *)
(* readers, values, crashes and refused system calls, as long as no two    *)
(* writers share a temporary name (ExclusiveSetups).                       *)
(***************************************************************************)
EXTENDS FileStore, TLAPS

\* An inode has one name at most.
OneName == \A m, n \in Names : dir[m] = dir[n] /\ dir[m] # Absent => m = n

\* The inode a writer writes to is still the one its temporary name refers to, and
\* has as much of the value as the writer has written.
WriterInv(p) ==
  /\ wr[p].pc # "idle" => p \in setup.writers /\ wr[p].val \in setup.values
  /\ wr[p].pc \in {"write", "writeRest", "rename"} => dir[Tmp(p)] = wr[p].ino
  /\ wr[p].pc = "writeRest" => data[wr[p].ino][1] = wr[p].val
  /\ wr[p].pc = "rename" => data[wr[p].ino] = Whole(wr[p].val)

\* What is published is whole and is what was acknowledged.
FinalInv ==
  /\ dir["final"] = Absent => acked = Absent
  /\ dir["final"] # Absent => /\ acked \in setup.values
                              /\ data[dir["final"]] = Whole(acked)

\* The inode a reader reads is whole and no writer's, so it stays whole.
ReaderInv(q) ==
  /\ rd[q].pc \in {"read", "readRest"} =>
       /\ \E v \in Value : data[rd[q].ino] = Whole(v)
       /\ \A p \in setup.writers : dir[Tmp(p)] # rd[q].ino
  /\ rd[q].pc = "readRest" => rd[q].got[1] = data[rd[q].ino][1]
  /\ rd[q].pc = "idle" => rd[q].got = Empty \/ \E v \in Value : rd[q].got = Whole(v)

IInv ==
  /\ TypeOK
  /\ OneName
  /\ \A p \in Writer : WriterInv(p)
  /\ FinalInv
  /\ \A q \in Reader : ReaderInv(q)

LEMMA SetupFacts ==
  ASSUME TypeOK
  PROVE  /\ setup.writers \subseteq Writer /\ setup.values \subseteq Value
         /\ Absent \notin Value /\ Absent \notin Inode
         /\ "final" \in Names
         /\ \A p \in setup.writers : Tmp(p) \in Names /\ Tmp(p) # "final"
         /\ \A n \in Names : dir[n] \in Inode \cup {Absent}
<1>1. setup \in Setup /\ dir \in [Names -> Inode \cup {Absent}]
  BY DEF TypeOK
<1>2. IsSetup(setup)
  BY <1>1, SetupAssumption
<1>3. \A p \in setup.writers : Tmp(p) \in Names /\ Tmp(p) # "final"
  BY <1>2 DEF IsSetup, Names, Tmp
<1> QED
  BY <1>1, <1>2, <1>3, AbsentAssumption DEF IsSetup, Names

LEMMA TmpDistinct ==
  ASSUME TypeOK, ExclusiveSetups, NEW p \in setup.writers, NEW r \in setup.writers,
         Tmp(p) = Tmp(r)
  PROVE  p = r
BY DEF TypeOK, ExclusiveSetups, Exclusive, Tmp

LEMMA WholeFacts ==
  ASSUME NEW v, NEW w
  PROVE  /\ Whole(v)[1] = v /\ Whole(v)[2] = v
         /\ Whole(v) = Whole(w) => v = w
<1>1. Whole(v)[1] = v /\ Whole(v)[2] = v /\ Whole(w)[1] = w
  BY DEF Whole, Part
<1> QED
  BY <1>1

LEMMA WholeIs ==
  ASSUME NEW S, NEW f \in [Part -> S], NEW v, f[1] = v, f[2] = v
  PROVE  f = Whole(v)
BY DEF Whole, Part

LEMMA InitHolds == Init => IInv
<1> SUFFICES ASSUME Init PROVE IInv
  OBVIOUS
<1>1. TypeOK
  BY DEF Init, TypeOK, WriterState, ReaderState, Idle, Resting, Empty, Whole
<1> QED
  BY <1>1, SetupFacts
     DEF Init, IInv, OneName, WriterInv, FinalInv, ReaderInv, Idle, Resting

LEMMA BeginKeeps ==
  ASSUME IInv, ExclusiveSetups, NEW p \in setup.writers, Begin(p)
  PROVE  IInv'
<1>0. TypeOK
  BY DEF IInv
<1>. USE SetupFacts, <1>0
<1>1. PICK v \in setup.values :
        IF Stored
          THEN acked' = v /\ UNCHANGED wr
          ELSE wr' = [wr EXCEPT ![p] = [pc |-> "open", val |-> v, ino |-> Absent]]
               /\ UNCHANGED acked
  BY DEF Begin
<1>2. UNCHANGED <<setup, dir, data, rd>>
  BY DEF Begin
<1>3. TypeOK'
  <2>1. acked' \in Value \cup {Absent}
    BY <1>1 DEF TypeOK
  <2>2. wr' \in [Writer -> WriterState]
    BY <1>1 DEF TypeOK, WriterState
  <2>3. \A r \in Writer : wr'[r].pc \in {"write", "writeRest", "rename"} => wr'[r].ino \in Inode
    BY <1>1 DEF TypeOK
  <2> QED
    BY <1>2, <2>1, <2>2, <2>3 DEF TypeOK, Names, WriterState
<1>4. OneName'
  BY <1>2 DEF IInv, OneName, Names
<1>5. ASSUME NEW r \in Writer PROVE WriterInv(r)'
  <2>1. WriterInv(r)
    BY DEF IInv
  <2>2. wr'[r] = wr[r] \/ (r = p /\ wr'[r].pc = "open" /\ wr'[r].val = v)
    BY <1>1 DEF TypeOK
  <2> QED
    BY <1>2, <2>1, <2>2 DEF WriterInv, Tmp
<1>6. FinalInv'
  <2>1. CASE Stored
    BY <1>1, <1>2, <2>1 DEF IInv, FinalInv, Stored, TypeOK, ExclusiveSetups, Exclusive
  <2>2. CASE ~Stored
    BY <1>1, <1>2, <2>2 DEF IInv, FinalInv
  <2> QED
    BY <2>1, <2>2
<1>7. \A q \in Reader : ReaderInv(q)'
  BY <1>2 DEF IInv, ReaderInv, Tmp
<1> QED
  BY <1>3, <1>4, <1>5, <1>6, <1>7 DEF IInv

LEMMA OpenKeeps ==
  ASSUME IInv, ExclusiveSetups, NEW p \in setup.writers, Open(p)
  PROVE  IInv'
<1>0. TypeOK
  BY DEF IInv
<1>. USE SetupFacts, <1>0
<1>1. PICK i \in IF dir[Tmp(p)] = Absent THEN Free ELSE {dir[Tmp(p)]} :
        /\ dir' = [dir EXCEPT ![Tmp(p)] = i]
        /\ data' = [data EXCEPT ![i] = Empty]
        /\ wr' = [wr EXCEPT ![p].pc = "write", ![p].ino = i]
  BY DEF Open, WriteTarget
<1>2. UNCHANGED <<setup, rd, acked>> /\ wr[p].pc = "open"
  BY DEF Open
<1>3. i \in Inode
  BY <1>1 DEF Free
\* The inode is new or had this name already, and is no other's.
<1>4. \A n \in Names : n # Tmp(p) => dir[n] # i
  BY <1>1 DEF IInv, OneName, Free
<1>5. \A q \in Reader : rd[q].pc \in {"read", "readRest"} => rd[q].ino # i
  BY <1>1 DEF IInv, ReaderInv, Free
<1>6. \A n \in Names : dir'[n] = IF n = Tmp(p) THEN i ELSE dir[n]
  BY <1>1 DEF TypeOK
<1>7. \A j \in Inode : j # i => data'[j] = data[j]
  BY <1>1 DEF TypeOK
<1>8. wr'[p].pc = "write" /\ wr'[p].ino = i /\ wr'[p].val = wr[p].val
  BY <1>1 DEF TypeOK
<1>9. \A r \in Writer : r # p => wr'[r] = wr[r]
  BY <1>1 DEF TypeOK
<1>10. TypeOK'
  <2>1. Empty \in [Part -> Value \cup {Absent}]
    BY DEF Empty, Whole
  <2>2. dir' \in [Names -> Inode \cup {Absent}] /\ data' \in [Inode -> [Part -> Value \cup {Absent}]]
    BY <1>1, <1>3, <2>1 DEF TypeOK
  <2>3. wr' \in [Writer -> WriterState]
    <3>1. wr \in [Writer -> WriterState] /\ p \in Writer
      BY DEF TypeOK, WriterState
    <3>2. [wr[p] EXCEPT !.pc = "write", !.ino = i] \in WriterState
      BY <1>3, <3>1 DEF WriterState
    <3> QED
      BY <1>1, <3>1, <3>2
  <2>4. \A r \in Writer : wr'[r].pc \in {"write", "writeRest", "rename"} => wr'[r].ino \in Inode
    BY <1>3, <1>8, <1>9 DEF TypeOK
  <2> QED
    BY <1>2, <2>2, <2>3, <2>4 DEF TypeOK, Names, WriterState
<1>11. OneName'
  <2>1. Names' = Names
    BY <1>2 DEF Names
  <2>2. \A m, n \in Names : dir[m] = dir[n] /\ dir[m] # Absent => m = n
    BY DEF IInv, OneName
  <2>3. \A m, n \in Names : dir'[m] = dir'[n] /\ dir'[m] # Absent => m = n
    BY <1>4, <1>6, <2>2
  <2> QED
    BY <2>1, <2>3 DEF OneName
<1>12. ASSUME NEW r \in Writer PROVE WriterInv(r)'
  <2>1. CASE r = p
    BY <1>2, <1>6, <1>8, <2>1 DEF IInv, WriterInv, Tmp
  <2>2. CASE r # p
    <3>1. wr'[r] = wr[r] /\ WriterInv(r)
      BY <1>9, <2>2 DEF IInv
    <3>2. wr[r].pc \in {"write", "writeRest", "rename"} =>
            /\ Tmp(r) \in Names /\ Tmp(r) # Tmp(p)
            /\ wr[r].ino \in Inode /\ wr[r].ino # i
      BY <1>4, <2>2, <3>1, TmpDistinct DEF WriterInv, TypeOK
    <3>3. Tmp(r)' = Tmp(r)
      BY <1>2 DEF Tmp
    <3> QED
      BY <1>2, <1>6, <1>7, <3>1, <3>2, <3>3 DEF WriterInv
  <2> QED
    BY <2>1, <2>2
<1>13. FinalInv'
  BY <1>2, <1>4, <1>6, <1>7 DEF IInv, FinalInv
<1>14. ASSUME NEW q \in Reader PROVE ReaderInv(q)'
  <2>1. ReaderInv(q)
    BY DEF IInv
  <2>2. rd[q].pc \in {"read", "readRest"} =>
          /\ rd[q].ino \in Inode /\ rd[q].ino # i
          /\ \A r \in setup.writers : dir'[Tmp(r)] # rd[q].ino
    BY <1>5, <1>6, <2>1 DEF ReaderInv, TypeOK
  <2>3. \A r : Tmp(r)' = setup.tmp[r] /\ Tmp(r) = setup.tmp[r]
    BY <1>2 DEF Tmp
  <2> QED
    BY <1>2, <1>7, <2>1, <2>2, <2>3 DEF ReaderInv
<1> QED
  BY <1>10, <1>11, <1>12, <1>13, <1>14 DEF IInv

LEMMA WriteKeeps ==
  ASSUME IInv, ExclusiveSetups, NEW p \in setup.writers, Write(p)
  PROVE  IInv'
<1>0. TypeOK /\ WriterInv(p) /\ p \in Writer
  BY SetupFacts DEF IInv
<1>. DEFINE i == wr[p].ino
            k == IF wr[p].pc = "write" THEN 1 ELSE 2
            next == IF wr[p].pc = "write" THEN "writeRest" ELSE "rename"
<1>1. /\ wr[p].pc \in {"write", "writeRest"}
      /\ data' = [data EXCEPT ![i] = [@ EXCEPT ![k] = wr[p].val]]
      /\ wr' = [wr EXCEPT ![p].pc = next]
      /\ UNCHANGED <<setup, dir, rd, acked>>
  BY DEF Write
<1>2. i \in Inode /\ i # Absent /\ dir[Tmp(p)] = i /\ Tmp(p) \in Names /\ Tmp(p) # "final"
  BY <1>0, <1>1, SetupFacts DEF WriterInv, TypeOK
<1>3. data \in [Inode -> [Part -> Value \cup {Absent}]] /\ k \in Part
  BY <1>0 DEF TypeOK, Part
<1>4. /\ \A j \in Inode : j # i => data'[j] = data[j]
      /\ data'[i][k] = wr[p].val
      /\ k = 2 => data'[i][1] = data[i][1]
  BY <1>1, <1>2, <1>3 DEF Part
<1>5. /\ wr'[p].pc = next /\ wr'[p].ino = i /\ wr'[p].val = wr[p].val
      /\ \A r \in Writer : r # p => wr'[r] = wr[r]
  BY <1>0, <1>1 DEF TypeOK
<1>6. TypeOK'
  <2>1. wr[p].val \in Value \cup {Absent}
    BY <1>0 DEF TypeOK, WriterState
  <2>2. data' \in [Inode -> [Part -> Value \cup {Absent}]]
    BY <1>1, <1>2, <1>3, <2>1
  <2>3. wr' \in [Writer -> WriterState]
    <3>1. wr \in [Writer -> WriterState]
      BY <1>0 DEF TypeOK
    <3>2. [wr[p] EXCEPT !.pc = next] \in WriterState
      BY <1>0, <3>1 DEF WriterState
    <3> QED
      BY <1>1, <3>1, <3>2
  <2>4. \A r \in Writer : wr'[r].pc \in {"write", "writeRest", "rename"} => wr'[r].ino \in Inode
    BY <1>0, <1>2, <1>5 DEF TypeOK
  <2> QED
    BY <1>0, <1>1, <2>2, <2>3, <2>4 DEF TypeOK, Names
<1>7. OneName'
  BY <1>1 DEF IInv, OneName, Names
<1>8. ASSUME NEW r \in Writer PROVE WriterInv(r)'
  <2>1. CASE r = p
    <3>1. next = "rename" => data'[i] = Whole(wr[p].val)
      <4> SUFFICES ASSUME wr[p].pc = "writeRest" PROVE data'[i] = Whole(wr[p].val)
        BY <1>1
      <4>1. data'[i][1] = wr[p].val /\ data'[i][2] = wr[p].val
        BY <1>0, <1>4 DEF WriterInv
      <4>2. data'[i] \in [Part -> Value \cup {Absent}]
        BY <1>2, <1>6 DEF TypeOK
      <4> QED
        BY <4>1, <4>2, WholeIs
    <3>2. next = "writeRest" => data'[i][1] = wr[p].val
      BY <1>1, <1>4
    <3>3. dir'[Tmp(p)'] = i /\ wr[p].val \in setup'.values /\ p \in setup'.writers
      BY <1>0, <1>1, <1>2 DEF WriterInv, Tmp
    <3> QED
      BY <1>5, <2>1, <3>1, <3>2, <3>3 DEF WriterInv
  <2>2. CASE r # p
    <3>1. wr'[r] = wr[r] /\ WriterInv(r)
      BY <1>5, <2>2 DEF IInv
    <3>2. wr[r].pc \in {"write", "writeRest", "rename"} =>
            wr[r].ino \in Inode /\ wr[r].ino # i
      BY <1>0, <1>2, <2>2, <3>1, TmpDistinct, SetupFacts DEF WriterInv, TypeOK, IInv, OneName
    <3>3. Tmp(r)' = Tmp(r)
      BY <1>1 DEF Tmp
    <3> QED
      BY <1>1, <1>4, <3>1, <3>2, <3>3 DEF WriterInv
  <2> QED
    BY <2>1, <2>2
\* The inode has a temporary name, so it is not the published one ...
<1>9. FinalInv'
  <2>1. dir["final"] # i /\ dir["final"] \in Inode \cup {Absent}
    BY <1>0, <1>2, SetupFacts DEF IInv, OneName
  <2> QED
    BY <1>1, <1>4, <2>1 DEF IInv, FinalInv
\* ... nor one that is being read.
<1>10. ASSUME NEW q \in Reader PROVE ReaderInv(q)'
  <2>1. ReaderInv(q)
    BY DEF IInv
  <2>2. rd[q].pc \in {"read", "readRest"} => rd[q].ino \in Inode /\ rd[q].ino # i
    BY <1>0, <1>2, <2>1 DEF ReaderInv, TypeOK
  <2>3. \A r : Tmp(r)' = Tmp(r)
    BY <1>1 DEF Tmp
  <2> QED
    BY <1>1, <1>4, <2>1, <2>2, <2>3 DEF ReaderInv
<1> QED
  BY <1>6, <1>7, <1>8, <1>9, <1>10 DEF IInv

LEMMA RenameKeeps ==
  ASSUME IInv, ExclusiveSetups, NEW p \in setup.writers, Rename(p)
  PROVE  IInv'
<1>0. TypeOK /\ WriterInv(p) /\ p \in Writer
  BY SetupFacts DEF IInv
<1>. DEFINE i == wr[p].ino
<1>1. i \in Inode /\ i # Absent /\ dir[Tmp(p)] = i /\ Tmp(p) \in Names /\ Tmp(p) # "final"
  BY <1>0, SetupFacts DEF Rename, WriterInv, TypeOK
\* The temporary file is there, so the entry is replaced.
<1>2. /\ wr[p].pc = "rename"
      /\ dir' = [dir EXCEPT !["final"] = i, ![Tmp(p)] = Absent]
      /\ acked' = wr[p].val
      /\ wr' = [wr EXCEPT ![p] = Idle]
      /\ UNCHANGED <<setup, data, rd>>
  BY <1>1 DEF Rename
<1>3. /\ dir'["final"] = i /\ dir'[Tmp(p)] = Absent
      /\ \A n \in Names : n # "final" /\ n # Tmp(p) => dir'[n] = dir[n]
  BY <1>0, <1>1, <1>2, SetupFacts DEF TypeOK
<1>4. wr'[p] = Idle /\ \A r \in Writer : r # p => wr'[r] = wr[r]
  BY <1>0, <1>2 DEF TypeOK
<1>5. TypeOK'
  <2>1. wr[p].val \in Value \cup {Absent} /\ Idle \in WriterState
    BY <1>0 DEF TypeOK, WriterState, Idle
  <2>2. dir' \in [Names -> Inode \cup {Absent}]
    BY <1>0, <1>1, <1>2 DEF TypeOK
  <2>3. wr' \in [Writer -> WriterState]
    BY <1>0, <1>2, <2>1 DEF TypeOK
  <2>4. \A r \in Writer : wr'[r].pc \in {"write", "writeRest", "rename"} => wr'[r].ino \in Inode
    BY <1>0, <1>4 DEF TypeOK, Idle
  <2> QED
    BY <1>0, <1>2, <2>1, <2>2, <2>3, <2>4 DEF TypeOK, Names
<1>6. OneName'
  <2>1. Names' = Names
    BY <1>2 DEF Names
  <2>2. \A m, n \in Names : dir[m] = dir[n] /\ dir[m] # Absent => m = n
    BY DEF IInv, OneName
  <2>3. \A m, n \in Names : dir'[m] = dir'[n] /\ dir'[m] # Absent => m = n
    BY <1>1, <1>3, <2>2
  <2> QED
    BY <2>1, <2>3 DEF OneName
<1>7. ASSUME NEW r \in Writer PROVE WriterInv(r)'
  <2>1. CASE r = p
    BY <1>4, <2>1 DEF WriterInv, Idle
  <2>2. CASE r # p
    <3>1. wr'[r] = wr[r] /\ WriterInv(r)
      BY <1>4, <2>2 DEF IInv
    <3>2. wr[r].pc \in {"write", "writeRest", "rename"} => dir'[Tmp(r)] = dir[Tmp(r)]
      BY <1>0, <1>3, <2>2, <3>1, TmpDistinct, SetupFacts DEF WriterInv
    <3>3. Tmp(r)' = Tmp(r)
      BY <1>2 DEF Tmp
    <3> QED
      BY <1>2, <3>1, <3>2, <3>3 DEF WriterInv
  <2> QED
    BY <2>1, <2>2
<1>8. FinalInv'
  BY <1>0, <1>1, <1>2, <1>3 DEF WriterInv, FinalInv
<1>9. ASSUME NEW q \in Reader PROVE ReaderInv(q)'
  <2>1. ReaderInv(q)
    BY DEF IInv
  <2>2. ASSUME rd[q].pc \in {"read", "readRest"}, NEW r \in setup.writers
        PROVE  dir'[Tmp(r)] # rd[q].ino
    <3>1. rd[q].ino \in Inode /\ rd[q].ino # Absent /\ dir[Tmp(r)] # rd[q].ino
      BY <1>0, <2>1, <2>2, SetupFacts DEF ReaderInv, TypeOK
    <3>2. Tmp(r) \in Names /\ Tmp(r) # "final"
      BY <1>0, SetupFacts
    <3> QED
      BY <1>3, <3>1, <3>2
  <2>3. \A r : Tmp(r)' = Tmp(r)
    BY <1>2 DEF Tmp
  <2> QED
    BY <1>2, <2>1, <2>2, <2>3 DEF ReaderInv
<1> QED
  BY <1>5, <1>6, <1>7, <1>8, <1>9 DEF IInv

LEMMA AbortKeeps ==
  ASSUME IInv, NEW p \in setup.writers, Abort(p)
  PROVE  IInv'
<1>0. TypeOK /\ p \in Writer
  BY SetupFacts DEF IInv
<1>1. wr' = [wr EXCEPT ![p] = Idle] /\ UNCHANGED <<setup, dir, data, rd, acked>>
  BY DEF Abort
<1>2. wr'[p] = Idle /\ \A r \in Writer : r # p => wr'[r] = wr[r]
  BY <1>0, <1>1 DEF TypeOK
<1>3. TypeOK'
  <2>1. Idle \in WriterState
    BY DEF WriterState, Idle
  <2>2. wr' \in [Writer -> WriterState]
    BY <1>0, <1>1, <2>1 DEF TypeOK
  <2>3. \A r \in Writer : wr'[r].pc \in {"write", "writeRest", "rename"} => wr'[r].ino \in Inode
    BY <1>0, <1>2 DEF TypeOK, Idle
  <2> QED
    BY <1>0, <1>1, <2>2, <2>3 DEF TypeOK, Names
<1>4. ASSUME NEW r \in Writer PROVE WriterInv(r)'
  BY <1>1, <1>2 DEF IInv, WriterInv, Idle, Tmp
<1>5. OneName' /\ FinalInv' /\ \A q \in Reader : ReaderInv(q)'
  BY <1>1 DEF IInv, OneName, FinalInv, ReaderInv, Names, Tmp
<1> QED
  BY <1>3, <1>4, <1>5 DEF IInv

\* What a reader's step leaves alone when it is the reader's state that changes.
LEMMA ReaderKeeps ==
  ASSUME IInv, NEW q \in Reader, NEW s \in ReaderState,
         rd' = [rd EXCEPT ![q] = s], UNCHANGED <<setup, dir, data, wr, acked>>,
         s.pc \in {"read", "readRest"} => s.ino \in Inode,
         ReaderInv(q)'
  PROVE  IInv'
<1>0. TypeOK
  BY DEF IInv
<1>1. \A r \in Reader : rd'[r] = IF r = q THEN s ELSE rd[r]
  BY <1>0 DEF TypeOK
<1>2. TypeOK'
  <2>1. rd' \in [Reader -> ReaderState]
    BY <1>0 DEF TypeOK
  <2>2. \A r \in Reader : rd'[r].pc \in {"read", "readRest"} => rd'[r].ino \in Inode
    BY <1>0, <1>1 DEF TypeOK
  <2> QED
    BY <1>0, <2>1, <2>2 DEF TypeOK, Names
<1>3. OneName' /\ FinalInv' /\ \A p \in Writer : WriterInv(p)'
  BY DEF IInv, OneName, FinalInv, WriterInv, Names, Tmp
<1>4. ASSUME NEW r \in Reader PROVE ReaderInv(r)'
  <2>1. CASE r = q
    BY <2>1
  <2>2. CASE r # q
    BY <1>1, <2>2 DEF IInv, ReaderInv, Tmp
  <2> QED
    BY <2>1, <2>2
<1> QED
  BY <1>2, <1>3, <1>4 DEF IInv

LEMMA RestingFacts == Resting \in ReaderState /\ Resting.pc = "idle" /\ Resting.got = Empty
BY DEF Resting, ReaderState, Empty, Whole

LEMMA LookKeeps ==
  ASSUME IInv, NEW q \in Reader, Look(q)
  PROVE  IInv'
<1>. DEFINE s == IF dir["final"] = Absent THEN Resting ELSE [Resting EXCEPT !.pc = "found"]
<1>1. rd' = [rd EXCEPT ![q] = s] /\ UNCHANGED <<setup, dir, data, wr, acked>>
  BY DEF Look
<1>2. s \in ReaderState /\ s.pc \in {"idle", "found"} /\ s.got = Empty
  BY RestingFacts DEF Resting, ReaderState
<1>3. rd'[q] = s
  BY <1>1 DEF IInv, TypeOK
<1>4. ReaderInv(q)'
  BY <1>2, <1>3 DEF ReaderInv
<1> HIDE DEF s
<1> QED
  BY <1>1, <1>2, <1>4, ReaderKeeps

LEMMA OpenToReadKeeps ==
  ASSUME IInv, NEW q \in Reader, OpenToRead(q)
  PROVE  IInv'
<1>. DEFINE s == IF dir["final"] = Absent THEN Resting
                 ELSE [Resting EXCEPT !.pc = "read", !.ino = dir["final"]]
<1>0. TypeOK
  BY DEF IInv
<1>1. rd' = [rd EXCEPT ![q] = s] /\ UNCHANGED <<setup, dir, data, wr, acked>>
  BY DEF OpenToRead
<1>2. rd'[q] = s
  BY <1>0, <1>1 DEF TypeOK
<1>3. CASE dir["final"] = Absent
  <2>1. s = Resting
    BY <1>3
  <2>2. ReaderInv(q)'
    BY <1>2, <2>1, RestingFacts DEF ReaderInv
  <2> QED
    BY <1>1, <2>1, <2>2, RestingFacts, ReaderKeeps
<1>4. CASE dir["final"] # Absent
  <2>1. dir["final"] \in Inode /\ s \in ReaderState /\ s.pc = "read" /\ s.ino = dir["final"]
    BY <1>0, <1>4, SetupFacts, RestingFacts DEF ReaderState, Resting
  <2>2. \E v \in Value : data[s.ino] = Whole(v)
    BY <1>0, <1>4, <2>1, SetupFacts DEF IInv, FinalInv
  <2>3. \A p \in setup.writers : dir[Tmp(p)] # s.ino
    BY <1>0, <1>4, <2>1, SetupFacts DEF IInv, OneName
  <2>4. ReaderInv(q)'
    <3> HIDE DEF s
    <3> QED
      BY <1>1, <1>2, <2>1, <2>2, <2>3 DEF ReaderInv, Tmp
  <2> HIDE DEF s
  <2> QED
    BY <1>1, <2>1, <2>4, ReaderKeeps
<1> QED
  BY <1>3, <1>4

LEMMA ReadKeeps ==
  ASSUME IInv, NEW q \in Reader, Read(q)
  PROVE  IInv'
<1>0. TypeOK /\ ReaderInv(q)
  BY DEF IInv
<1>. DEFINE part == IF rd[q].pc = "read" THEN 1 ELSE 2
            bytes == data[rd[q].ino]
            got == [rd[q].got EXCEPT ![part] = bytes[part]]
            s == [pc |-> IF part = 1 THEN "readRest" ELSE "idle",
                  ino |-> IF part = 1 THEN rd[q].ino ELSE Absent, got |-> got]
<1>1. rd[q].pc \in {"read", "readRest"} /\ UNCHANGED <<setup, dir, data, wr, acked>>
  BY DEF Read
<1>2. rd[q] \in ReaderState /\ rd[q].ino \in Inode /\ bytes \in [Part -> Value \cup {Absent}]
  BY <1>0, <1>1 DEF TypeOK
<1>3. rd' = [rd EXCEPT ![q] = s]
  BY DEF Read
<1>4. got \in [Part -> Value \cup {Absent}] /\ got[part] = bytes[part]
      /\ (part = 2 => got[1] = rd[q].got[1])
  BY <1>2 DEF ReaderState, Part
<1>5. s \in ReaderState
  BY <1>2, <1>4 DEF ReaderState
<1>6. rd'[q] = s
  BY <1>0, <1>3 DEF TypeOK
<1>7. PICK v \in Value : bytes = Whole(v)
  BY <1>0, <1>1 DEF ReaderInv
<1>8. CASE part = 1
  <2>1. rd'[q].pc = "readRest" /\ rd'[q].ino = rd[q].ino /\ rd'[q].got[1] = bytes[1]
    BY <1>4, <1>6, <1>8
  <2>2. ReaderInv(q)'
    BY <1>0, <1>1, <1>7, <2>1 DEF ReaderInv, Tmp
  <2>3. s.pc \in {"read", "readRest"} => s.ino \in Inode
    BY <1>2, <1>8
  <2> HIDE DEF s
  <2> QED
    BY <1>1, <1>3, <1>5, <2>2, <2>3, ReaderKeeps
<1>9. CASE part = 2
  <2>1. rd[q].pc = "readRest"
    BY <1>1, <1>9
  <2>2. got[1] = v /\ got[2] = v
    BY <1>0, <1>4, <1>7, <1>9, <2>1, WholeFacts DEF ReaderInv
  <2>3. got = Whole(v)
    <3> HIDE DEF got
    <3> QED
      BY <1>4, <2>2, WholeIs
  <2>4. rd'[q].pc = "idle" /\ rd'[q].got = Whole(v)
    BY <1>6, <1>9, <2>3
  <2>5. ReaderInv(q)'
    BY <2>4 DEF ReaderInv
  <2>6. s.pc \notin {"read", "readRest"}
    BY <1>9
  <2> HIDE DEF s
  <2> QED
    BY <1>1, <1>3, <1>5, <2>5, <2>6, ReaderKeeps
<1> QED
  BY <1>8, <1>9

LEMMA ClearKeeps ==
  ASSUME IInv, NEW q \in Reader, Clear(q)
  PROVE  IInv'
<1>0. TypeOK
  BY DEF IInv
<1>1. /\ dir' = [dir EXCEPT !["final"] = Absent] /\ acked' = Absent
      /\ rd' = [rd EXCEPT ![q] = Resting] /\ UNCHANGED <<setup, data, wr>>
  BY DEF Clear
<1>2. /\ dir'["final"] = Absent /\ \A n \in Names : n # "final" => dir'[n] = dir[n]
      /\ dir' \in [Names -> Inode \cup {Absent}]
  BY <1>0, <1>1, SetupFacts DEF TypeOK
<1>3. \A p \in setup.writers : dir'[Tmp(p)] = dir[Tmp(p)]
  BY <1>0, <1>2, SetupFacts
<1>4. rd'[q] = Resting /\ \A r \in Reader : r # q => rd'[r] = rd[r]
  BY <1>0, <1>1 DEF TypeOK
<1>5. TypeOK'
  <2>1. rd' \in [Reader -> ReaderState]
    BY <1>0, <1>1, RestingFacts DEF TypeOK
  <2>2. \A r \in Reader : rd'[r].pc \in {"read", "readRest"} => rd'[r].ino \in Inode
    BY <1>0, <1>4, RestingFacts DEF TypeOK
  <2> QED
    BY <1>0, <1>1, <1>2, <2>1, <2>2 DEF TypeOK, Names
<1>6. OneName' /\ FinalInv'
  <2>1. Names' = Names
    BY <1>1 DEF Names
  <2> QED
    BY <1>1, <1>2, <2>1 DEF IInv, OneName, FinalInv
<1>7. ASSUME NEW p \in Writer PROVE WriterInv(p)'
  BY <1>1, <1>3 DEF IInv, WriterInv, Tmp
<1>8. ASSUME NEW r \in Reader PROVE ReaderInv(r)'
  <2>1. \A p : Tmp(p)' = Tmp(p)
    BY <1>1 DEF Tmp
  <2>2. CASE r = q
    BY <1>4, <2>2, RestingFacts DEF ReaderInv
  <2>3. CASE r # q
    BY <1>1, <1>3, <1>4, <2>1, <2>3 DEF IInv, ReaderInv
  <2> QED
    BY <2>2, <2>3
<1> QED
  BY <1>5, <1>6, <1>7, <1>8 DEF IInv

LEMMA StutterKeeps ==
  ASSUME IInv, UNCHANGED vars
  PROVE  IInv'
BY DEF vars, IInv, TypeOK, OneName, WriterInv, FinalInv, ReaderInv, Names, Tmp

LEMMA NextKeeps ==
  ASSUME IInv, ExclusiveSetups, [Next]_vars
  PROVE  IInv'
<1>1. CASE \E p \in setup.writers :
             Begin(p) \/ Open(p) \/ Write(p) \/ Rename(p) \/ Abort(p)
  BY <1>1, BeginKeeps, OpenKeeps, WriteKeeps, RenameKeeps, AbortKeeps
<1>2. CASE \E q \in Reader : Look(q) \/ OpenToRead(q) \/ Read(q) \/ Clear(q)
  BY <1>2, LookKeeps, OpenToReadKeeps, ReadKeeps, ClearKeeps
<1>3. CASE UNCHANGED vars
  BY <1>3, StutterKeeps
<1> QED
  BY <1>1, <1>2, <1>3 DEF Next

LEMMA InvariantHolds ==
  ASSUME ExclusiveSetups
  PROVE  Spec => []IInv
<1>1. Init => IInv
  BY InitHolds
<1>2. IInv /\ [Next]_vars => IInv'
  BY NextKeeps
<1> QED
  BY <1>1, <1>2, PTL DEF Spec

LEMMA WholeMeans ==
  ASSUME NEW v \in Value
  PROVE  Meaning(Whole(v)) = v
BY WholeFacts DEF Meaning

-----------------------------------------------------------------------------

\* FileCheckpointStore::save and FileContentStore::put, in the words of their
\* comments: wherever a writer is cut off or refused a system call, what the entry
\* names is whole.
THEOREM NeverTorn ==
  ASSUME ExclusiveSetups
  PROVE  Spec => []PublishedWhole
<1>1. IInv => PublishedWhole
  BY WholeMeans, SetupFacts, AbsentAssumption DEF IInv, FinalInv, PublishedWhole, Published
<1> QED
  BY <1>1, InvariantHolds, PTL

\* Both stores keep what the last successful call wrote: save's rename is what the
\* engine's resumption relies on, and clear is not undone.
THEOREM NeverLost ==
  ASSUME ExclusiveSetups
  PROVE  Spec => []HoldsWhatWasAcked
<1>1. IInv => HoldsWhatWasAcked
  BY WholeMeans, SetupFacts DEF IInv, FinalInv, HoldsWhatWasAcked, Published
<1> QED
  BY <1>1, InvariantHolds, PTL

\* load and get, beside any number of writers: the bytes read are those of one
\* write, even when the file is replaced or cleared between two of them.
THEOREM NoMixedRead ==
  ASSUME ExclusiveSetups
  PROVE  Spec => []ReadsWhole
<1>1. IInv => ReadsWhole
  BY WholeMeans, SetupFacts, AbsentAssumption DEF IInv, ReaderInv, ReadsWhole
<1> QED
  BY <1>1, InvariantHolds, PTL
=============================================================================
