---------------------------- MODULE Clients_proofs ----------------------------
(***************************************************************************)
(* What clients of the web server can rely on.  Gate: what was changed is  *)
(* recorded, by somebody whose role allowed it, and no event before the    *)
(* last can be left out, moved or edited without breaking the chain of the *)
(* log; a hash stands for what it was computed of.  Console: what is       *)
(* confirmed is what was on the screen.  EventStream: a dashboard that has *)
(* received everything shows what the server holds.  Listing: a walk       *)
(* through the pages misses nothing.  For any number of clients, tokens,   *)
(* requests, workflows, executions and entries.                            *)
(***************************************************************************)
EXTENDS MCClients, Order_proofs, WellFoundedInduction, TLAPS

-----------------------------------------------------------------------------
(* Gate.                                                                    *)

Change == [actor : Subjects, action : {"POST"}, target : Path]

Answers == {"", "200", "401", "403", "404", "4xx", "503", "valid", "not valid", "none"}

Requests ==
  [at : {"idle"}, method : {""}, target : {""}, token : {NoToken}, answer : Answers]
  \cup [at : {"arrived", "handling"}, method : {"GET", "POST"}, target : Path,
        token : tokens \cup {NoToken}, answer : {""}]

\* An event has the fields of AuditEntry.
IsEvent(e) ==
  e = [seq |-> e.seq, actor |-> e.actor, action |-> e.action, target |-> e.target,
       prev |-> e.prev, hash |-> e.hash]

IsLog(events) ==
  /\ \E S : events \in Seq(S)
  /\ \A i \in DOMAIN events : IsEvent(events[i])

Types ==
  /\ \A t \in tokens : t.sub \in Subjects
  /\ req \in [Client -> Requests]
  /\ done \in Seq(Change)
  /\ IsLog(log)

-----------------------------------------------------------------------------
(* The chain.                                                               *)

LEMMA AppendKeepsChain ==
  ASSUME NEW events, IsLog(events), Verify(events), NEW actor, NEW action, NEW target
  PROVE  LET longer == Appended(events, actor, action, target) IN
           /\ IsLog(longer) /\ Verify(longer)
           /\ Len(longer) = Len(events) + 1 /\ Len(events) \in Nat
           /\ \A i \in DOMAIN events : longer[i] = events[i]
           /\ longer[Len(events) + 1].actor = actor
           /\ longer[Len(events) + 1].action = action
           /\ longer[Len(events) + 1].target = target
<1> DEFINE prev == IF events = <<>> THEN Genesis ELSE events[Len(events)].hash
           last == [seq |-> Len(events), actor |-> actor, action |-> action, target |-> target,
                    prev |-> prev, hash |-> HashEntry(Len(events), actor, action, target, prev)]
           longer == Append(events, last)
<1>1. Appended(events, actor, action, target) = longer
  BY DEF Appended
<1>2. PICK S : events \in Seq(S)
  BY DEF IsLog
<1>3. events \in Seq(S \cup {last}) /\ last \in S \cup {last}
  <2>1. events \in [1..Len(events) -> S] /\ Len(events) \in Nat
    BY <1>2
  <2>2. events \in [1..Len(events) -> S \cup {last}]
    BY <2>1
  <2> QED
    BY <2>1, <2>2
<1>4. /\ longer \in Seq(S \cup {last})
      /\ Len(longer) = Len(events) + 1 /\ Len(events) \in Nat
      /\ \A i \in 1..Len(events) : longer[i] = events[i]
      /\ longer[Len(events) + 1] = last
      /\ DOMAIN events = 1..Len(events) /\ DOMAIN longer = 1..Len(events) + 1
  BY <1>3
<1> HIDE DEF longer
<1>5. IsEvent(last)
  BY DEF IsEvent
<1>6. IsLog(longer)
  <2>1. \A i \in DOMAIN longer : IsEvent(longer[i])
    BY <1>4, <1>5 DEF IsLog
  <2> QED
    BY <1>4, <2>1 DEF IsLog
<1>7. Verify(longer)
  <2> SUFFICES ASSUME NEW i \in DOMAIN longer
               PROVE  /\ longer[i].seq = i - 1
                      /\ longer[i].prev = IF i = 1 THEN Genesis ELSE longer[i - 1].hash
                      /\ longer[i].hash = HashEntry(longer[i].seq, longer[i].actor,
                           longer[i].action, longer[i].target, longer[i].prev)
    BY DEF Verify
  <2>1. CASE i \in 1..Len(events)
    <3>1. longer[i] = events[i] /\ (i # 1 => longer[i - 1] = events[i - 1])
      BY <1>4, <2>1
    <3> QED
      BY <1>4, <2>1, <3>1 DEF Verify
  <2>2. CASE i = Len(events) + 1
    <3>1. i = 1 <=> events = <<>>
      BY <1>2, <1>4, <2>2
    <3>2. i # 1 => longer[i - 1] = events[Len(events)]
      BY <1>4, <2>2
    <3> QED
      BY <1>4, <2>2, <3>1, <3>2
  <2> QED
    BY <1>4, <2>1, <2>2
<1> HIDE DEF last
<1>8. last.actor = actor /\ last.action = action /\ last.target = target
  BY DEF last
<1> QED
  BY <1>1, <1>4, <1>6, <1>7, <1>8

\* Any position and any event but the first of its seq breaks the chain.
LEMMA WrongPlaceShows ==
  ASSUME NEW events, NEW i \in DOMAIN events, events[i].seq # i - 1
  PROVE  ~Verify(events)
BY DEF Verify

LEMMA WithoutShows ==
  ASSUME IsLog(log), Verify(log), NEW i \in 1..Len(log) - 1
  PROVE  ~Verify(Without(log, i))
<1>1. PICK S : log \in Seq(S)
  BY DEF IsLog
<1>2. Len(log) \in Nat /\ i \in 1..Len(log) /\ i + 1 \in 1..Len(log)
  BY <1>1
<1> DEFINE head == SubSeq(log, 1, i - 1)
           tail == SubSeq(log, i + 1, Len(log))
<1>3. head \in Seq(S) /\ Len(head) = i - 1
  BY <1>1, <1>2
<1>4. tail \in Seq(S) /\ Len(tail) = Len(log) - i /\ tail[1] = log[i + 1]
  BY <1>1, <1>2
<1> HIDE DEF head, tail
<1>5. i \in DOMAIN (head \o tail) /\ (head \o tail)[i] = tail[1]
  BY <1>2, <1>3, <1>4
<1>6. log[i + 1].seq = i
  BY <1>1, <1>2 DEF Verify
<1>7. Without(log, i) = head \o tail
  BY DEF Without, head, tail
<1>8. Without(log, i)[i].seq # i - 1 /\ i \in DOMAIN Without(log, i)
  BY <1>2, <1>4, <1>5, <1>6, <1>7
<1> QED
  BY <1>8, WrongPlaceShows

LEMMA ExchangeShows ==
  ASSUME IsLog(log), Verify(log), NEW i \in DOMAIN log, NEW j \in DOMAIN log, i # j
  PROVE  ~Verify([log EXCEPT ![i] = log[j], ![j] = log[i]])
<1> DEFINE events == [log EXCEPT ![i] = log[j], ![j] = log[i]]
<1>1. PICK S : log \in Seq(S)
  BY DEF IsLog
<1>2. i \in DOMAIN events /\ events[i] = log[j] /\ i \in Nat /\ j \in Nat
  BY <1>1
<1>3. log[j].seq = j - 1
  BY DEF Verify
<1>4. events[i].seq # i - 1
  BY <1>2, <1>3
<1> QED
  BY <1>2, <1>4, WrongPlaceShows

\* The hash of an event says its target and its actor.
LEMMA EditShows ==
  ASSUME IsLog(log), Verify(log), NEW i \in DOMAIN log
  PROVE  /\ \A t : t # log[i].target => ~Verify([log EXCEPT ![i].target = t])
         /\ \A a : a # log[i].actor => ~Verify([log EXCEPT ![i].actor = a])
<1>1. log[i] = [seq |-> log[i].seq, actor |-> log[i].actor, action |-> log[i].action,
                target |-> log[i].target, prev |-> log[i].prev, hash |-> log[i].hash]
  BY DEF IsLog, IsEvent
<1>2. log[i].hash = <<log[i].seq, log[i].actor, log[i].action, log[i].target, log[i].prev>>
  BY DEF Verify, HashEntry
<1>3. ASSUME NEW t, t # log[i].target
      PROVE  ~Verify([log EXCEPT ![i].target = t])
  <2> DEFINE events == [log EXCEPT ![i].target = t]
  <2>1. /\ i \in DOMAIN events /\ events[i].target = t
        /\ events[i].seq = log[i].seq /\ events[i].actor = log[i].actor
        /\ events[i].action = log[i].action /\ events[i].prev = log[i].prev
        /\ events[i].hash = log[i].hash
    BY <1>1
  <2>2. events[i].hash # <<events[i].seq, events[i].actor, events[i].action, events[i].target,
                           events[i].prev>>
    BY <1>2, <1>3, <2>1
  <2> QED
    BY <2>1, <2>2 DEF Verify, HashEntry
<1>4. ASSUME NEW a, a # log[i].actor
      PROVE  ~Verify([log EXCEPT ![i].actor = a])
  <2> DEFINE events == [log EXCEPT ![i].actor = a]
  <2>1. /\ i \in DOMAIN events /\ events[i].actor = a
        /\ events[i].seq = log[i].seq /\ events[i].target = log[i].target
        /\ events[i].action = log[i].action /\ events[i].prev = log[i].prev
        /\ events[i].hash = log[i].hash
    BY <1>1
  <2>2. events[i].hash # <<events[i].seq, events[i].actor, events[i].action, events[i].target,
                           events[i].prev>>
    BY <1>2, <1>4, <2>1
  <2> QED
    BY <2>1, <2>2 DEF Verify, HashEntry
<1> QED
  BY <1>3, <1>4

-----------------------------------------------------------------------------
(* The inductive invariant.                                                 *)

Changing(c) == req[c].at = "handling" /\ req[c].method = "POST"

Asks(c) == [actor |-> req[c].token.sub, action |-> req[c].method, target |-> req[c].target]

HasRole(actor) ==
  \E t \in tokens : t.sub = actor /\ t.roles \cap {"operator", "admin"} # {}

\* A change, made or let through to its handler, and the events that record it.
Made(e) == {i \in DOMAIN done : done[i] = e}
LetThrough(e) == {c \in Client : Changing(c) /\ Asks(c) = e}
Events(e) ==
  {i \in DOMAIN log : log[i].actor = e.actor /\ log[i].action = e.action /\ log[i].target = e.target}

\* An event is there for each, the requests that are still in their handlers included.
Accounted(e) ==
  /\ IsFiniteSet(LetThrough(e))
  /\ Cardinality(Made(e)) + Cardinality(LetThrough(e)) <= Cardinality(Events(e))

RoleInv ==
  /\ \A c \in Client : Changing(c) => HasRole(req[c].token.sub)
  /\ \A i \in DOMAIN done : HasRole(done[i].actor)

Inv ==
  /\ Types
  /\ Verify(log)
  /\ RoleInv
  /\ \A e \in Change : Accounted(e)

\* The actions of one client.
Acts(c) == Request(c) \/ RequireAuth(c) \/ Handle(c) \/ GetAudit(c) \/ HangUp(c)

\* What a step of a client comes to for its request: it goes on as it was or is over (or
\* has just arrived), it is recorded and let through, or it is carried out.
Drops(c) ==
  /\ ~Changing(c)'
  /\ UNCHANGED <<tokens, log, done>>

LetIn(c) ==
  /\ req[c].at = "arrived" /\ req[c].method = "POST" /\ Refusal(req[c].token) = ""
  /\ req' = [req EXCEPT ![c].at = "handling"]
  /\ Recorded(c)
  /\ UNCHANGED <<tokens, done>>

CarriesOut(c) ==
  /\ Changing(c) /\ ~Changing(c)'
  /\ done' = Append(done, Asks(c))
  /\ UNCHANGED <<tokens, log>>

LEMMA ClientEffects ==
  ASSUME Types, NEW c \in Client, Acts(c)
  PROVE  /\ req' \in [Client -> Requests'] /\ UNCHANGED tokens
         /\ \A d \in Client : d # c => req'[d] = req[d]
         /\ Drops(c) \/ LetIn(c) \/ CarriesOut(c)
<1>1. req \in [Client -> Requests] /\ UNCHANGED tokens
  BY DEF Types, Acts, Request, RequireAuth, Handle, GetAudit, HangUp
<1>2. Requests' = Requests
  BY <1>1 DEF Requests, NoToken
<1>3. \A text \in Answers : [Idle EXCEPT !.answer = text] \in Requests
  BY DEF Idle, Requests, Answers
<1>4. ASSUME NEW text \in Answers, Answer(c, text)
      PROVE  /\ req' \in [Client -> Requests]
             /\ \A d \in Client : d # c => req'[d] = req[d]
             /\ ~Changing(c)'
  BY <1>1, <1>3, <1>4 DEF Answer, Changing, Idle
<1>5. CASE Request(c)
  <2>1. PICK method \in {"GET", "POST"}, target \in Path, token \in tokens \cup {NoToken} :
          req' = [req EXCEPT ![c] = [at |-> "arrived", method |-> method, target |-> target,
                                     token |-> token, answer |-> ""]]
    BY <1>5 DEF Request
  <2>2. [at |-> "arrived", method |-> method, target |-> target, token |-> token, answer |-> ""]
          \in Requests
    BY DEF Requests
  <2>3. req' \in [Client -> Requests] /\ ~Changing(c)'
        /\ \A d \in Client : d # c => req'[d] = req[d]
    BY <1>1, <2>1, <2>2 DEF Changing
  <2> QED
    BY <1>1, <1>2, <1>5, <2>3 DEF Request, Drops
<1>6. CASE RequireAuth(c)
  <2>1. req[c] \in Requests /\ req[c].at = "arrived" /\ req[c].method \in {"GET", "POST"}
        /\ [req[c] EXCEPT !.at = "handling"] \in Requests
    BY <1>1, <1>6 DEF Requests, RequireAuth
  <2>2. CASE /\ req' = [req EXCEPT ![c].at = "handling"]
             /\ \/ req[c].method = "GET" /\ log' = log
                \/ req[c].method # "GET" /\ Refusal(req[c].token) = "" /\ Recorded(c)
    <3>1. /\ req' \in [Client -> Requests]
          /\ \A d \in Client : d # c => req'[d] = req[d]
          /\ req'[c].method = req[c].method
      <4>1. req' = [req EXCEPT ![c].at = "handling"]
        BY <2>2
      <4>2. [req[c] EXCEPT !.at = "handling"].method = req[c].method
        BY <2>1 DEF Requests
      <4> QED
        BY <1>1, <2>1, <4>1, <4>2
    <3>2. req[c].method # "POST" => ~Changing(c)'
      BY <3>1 DEF Changing
    <3> QED
      BY <1>1, <1>2, <1>6, <2>2, <2>1, <3>1, <3>2 DEF RequireAuth, Drops, LetIn
  <2>3. CASE Answer(c, Refusal(req[c].token)) /\ log' = log
    <3>1. Refusal(req[c].token) \in Answers
      BY DEF Refusal, Answers
    <3> QED
      BY <1>1, <1>2, <1>4, <1>6, <2>3, <3>1 DEF RequireAuth, Drops
  <2> QED
    BY <1>6, <2>2, <2>3 DEF RequireAuth
<1>7. CASE Handle(c)
  <2>1. PICK text \in Answers : Answer(c, text)
    BY <1>7 DEF Handle, Answers
  <2>2. CASE done' = done
    BY <1>1, <1>2, <1>4, <1>7, <2>1, <2>2 DEF Handle, Drops
  <2>3. CASE done' # done
    <3>1. req[c].method = "POST"
      BY <1>1, <1>7, <2>3 DEF Handle, Requests
    <3> QED
      BY <1>1, <1>2, <1>4, <1>7, <2>1, <2>3, <3>1 DEF Handle, CarriesOut, Changing, Asks
  <2> QED
    BY <2>2, <2>3
<1>8. CASE GetAudit(c)
  BY <1>1, <1>2, <1>4, <1>8 DEF GetAudit, Drops, Answers
<1>9. CASE HangUp(c)
  BY <1>1, <1>2, <1>4, <1>9 DEF HangUp, Drops, Answers
<1> QED
  BY <1>1, <1>5, <1>6, <1>7, <1>8, <1>9 DEF Acts
-----------------------------------------------------------------------------
(* Every step keeps the invariant.                                          *)

\* A request on its way to its handler is a change that somebody may make.
LEMMA LetInAllowed ==
  ASSUME Types, NEW c \in Client, LetIn(c)
  PROVE  /\ ~Changing(c) /\ Changing(c)'
         /\ Asks(c)' = Asks(c) /\ Asks(c) \in Change
         /\ HasRole(Asks(c).actor)
         /\ req'[c].token = req[c].token
<1>1. /\ req \in [Client -> Requests] /\ req[c] \in Requests
      /\ req[c].at = "arrived" /\ req[c].method = "POST" /\ Refusal(req[c].token) = ""
  BY DEF Types, LetIn
<1>2. /\ req'[c].at = "handling" /\ req'[c].method = req[c].method
      /\ req'[c].target = req[c].target /\ req'[c].token = req[c].token
  <2>1. req' = [req EXCEPT ![c] = [req[c] EXCEPT !.at = "handling"]]
    BY DEF LetIn
  <2>2. LET r == [req[c] EXCEPT !.at = "handling"] IN
          /\ r.at = "handling" /\ r.method = req[c].method
          /\ r.target = req[c].target /\ r.token = req[c].token
    BY <1>1 DEF Requests
  <2> QED
    BY <1>1, <2>1, <2>2
<1>3. req[c].token \in tokens \cup {NoToken} /\ req[c].target \in Path
  BY <1>1 DEF Requests
<1>4. Verified(req[c].token) /\ Authorize(req[c].token.roles, "ExecuteWorkflow")
  BY <1>1 DEF Refusal
<1>5. req[c].token \in tokens
  BY <1>3, <1>4 DEF Verified
<1>6. req[c].token.roles \cap {"operator", "admin"} # {}
  BY <1>4 DEF Authorize, Parsed, Allows
<1>7. Asks(c) \in Change
  BY <1>1, <1>3, <1>5 DEF Asks, Change, Types
<1>8. Asks(c)' = Asks(c)
  BY <1>2 DEF Asks
<1>9. HasRole(Asks(c).actor)
  BY <1>5, <1>6 DEF HasRole, Asks
<1> QED
  BY <1>1, <1>2, <1>7, <1>8, <1>9 DEF Changing

LEMMA OthersStay ==
  ASSUME NEW c \in Client, NEW d \in Client, req'[d] = req[d]
  PROVE  (Changing(d)' <=> Changing(d)) /\ Asks(d)' = Asks(d)
BY DEF Changing, Asks

LEMMA NextRoles ==
  ASSUME Inv, NEW c \in Client, Acts(c)
  PROVE  RoleInv'
<1>1. /\ UNCHANGED tokens
      /\ \A d \in Client : d # c => req'[d] = req[d]
      /\ Drops(c) \/ LetIn(c) \/ CarriesOut(c)
  BY ClientEffects DEF Inv
<1>2. \A actor : HasRole(actor)' <=> HasRole(actor)
  BY <1>1 DEF HasRole
<1>3. ASSUME NEW d \in Client, Changing(d)'
      PROVE  HasRole(req[d].token.sub) /\ req'[d].token = req[d].token
  <2>1. CASE d # c
    BY <1>1, <1>3, <2>1 DEF Inv, RoleInv, Changing
  <2>2. CASE d = c
    <3>1. LetIn(c)
      BY <1>1, <1>3, <2>2 DEF Drops, CarriesOut
    <3> QED
      BY <2>2, <3>1, LetInAllowed DEF Inv, Asks
  <2> QED
    BY <2>1, <2>2
<1>4. ASSUME NEW i \in DOMAIN done'
      PROVE  HasRole(done'[i].actor)
  <2>1. done \in Seq(Change) /\ \A j \in DOMAIN done : HasRole(done[j].actor)
    BY DEF Inv, RoleInv, Types
  <2>2. CASE done' = done
    BY <1>4, <2>1, <2>2
  <2>3. CASE CarriesOut(c)
    <3>1. HasRole(Asks(c).actor)
      BY <2>3 DEF CarriesOut, Asks, Inv, RoleInv
    <3>2. \A j \in DOMAIN Append(done, Asks(c)) :
            \/ j \in DOMAIN done /\ Append(done, Asks(c))[j] = done[j]
            \/ Append(done, Asks(c))[j] = Asks(c)
      BY <2>1
    <3> QED
      BY <1>4, <2>1, <2>3, <3>1, <3>2 DEF CarriesOut
  <2> QED
    BY <1>1, <2>2, <2>3 DEF Drops, LetIn
<1> QED
  BY <1>2, <1>3, <1>4 DEF RoleInv

\* Finite sets that stay, lose one or gain one.
LEMMA Counts ==
  ASSUME NEW S, IsFiniteSet(S), NEW x
  PROVE  /\ Cardinality(S) \in Nat
         /\ IsFiniteSet(S \ {x}) /\ Cardinality(S \ {x}) <= Cardinality(S)
         /\ x \in S => Cardinality(S \ {x}) = Cardinality(S) - 1
         /\ IsFiniteSet(S \cup {x})
         /\ x \notin S => Cardinality(S \cup {x}) = Cardinality(S) + 1
BY FS_CardinalityType, FS_RemoveElement, FS_AddElement

LEMMA PlacesFinite ==
  ASSUME Types, NEW e
  PROVE  IsFiniteSet(Made(e)) /\ IsFiniteSet(Events(e))
<1>1. Len(done) \in Nat /\ DOMAIN done = 1..Len(done)
  BY DEF Types
<1>2. Len(log) \in Nat /\ DOMAIN log = 1..Len(log)
  BY DEF Types, IsLog
<1>3. IsFiniteSet(1..Len(done)) /\ IsFiniteSet(1..Len(log))
  BY <1>1, <1>2, FS_Interval
<1>4. Made(e) \subseteq 1..Len(done) /\ Events(e) \subseteq 1..Len(log)
  BY <1>1, <1>2 DEF Made, Events
<1> QED
  BY <1>3, <1>4, FS_Subset

LEMMA NextAccount ==
  ASSUME Inv, NEW c \in Client, Acts(c), NEW e \in Change
  PROVE  Accounted(e)'
<1>1. /\ \A d \in Client : d # c => req'[d] = req[d]
      /\ Drops(c) \/ LetIn(c) \/ CarriesOut(c)
      /\ Types /\ Accounted(e)
  BY ClientEffects DEF Inv
<1>2. /\ IsFiniteSet(LetThrough(e)) /\ IsFiniteSet(Made(e)) /\ IsFiniteSet(Events(e))
      /\ Cardinality(Made(e)) + Cardinality(LetThrough(e)) <= Cardinality(Events(e))
  BY <1>1, PlacesFinite DEF Accounted
<1>3. ASSUME NEW S, IsFiniteSet(S)
      PROVE  Cardinality(S) \in Nat
  BY <1>3, FS_CardinalityType
<1>4. ASSUME ~Changing(c)'
      PROVE  LetThrough(e)' = LetThrough(e) \ {c}
  BY <1>1, <1>4, OthersStay DEF LetThrough
<1>5. CASE Drops(c)
  <2>1. /\ LetThrough(e)' = LetThrough(e) \ {c}
        /\ Made(e)' = Made(e) /\ Events(e)' = Events(e)
    BY <1>4, <1>5 DEF Drops, Made, Events
  <2>2. IsFiniteSet(LetThrough(e) \ {c})
        /\ Cardinality(LetThrough(e) \ {c}) <= Cardinality(LetThrough(e))
    BY <1>2, Counts
  <2> QED
    BY <1>2, <1>3, <2>1, <2>2 DEF Accounted
<1>6. CASE CarriesOut(c)
  <2>1. LetThrough(e)' = LetThrough(e) \ {c} /\ Events(e)' = Events(e) /\ Changing(c)
    BY <1>4, <1>6 DEF CarriesOut, Events
  <2>2. done \in Seq(Change) /\ Len(done) \in Nat /\ DOMAIN done = 1..Len(done)
    BY <1>1 DEF Types
  <2>3. /\ DOMAIN Append(done, Asks(c)) = 1..Len(done) + 1
        /\ \A i \in 1..Len(done) : Append(done, Asks(c))[i] = done[i]
        /\ Append(done, Asks(c))[Len(done) + 1] = Asks(c)
    BY <2>2
  <2>4. done' = Append(done, Asks(c))
    BY <1>6 DEF CarriesOut
  <2>5. CASE Asks(c) = e
    <3>1. Made(e)' = Made(e) \cup {Len(done) + 1} /\ Len(done) + 1 \notin Made(e)
      BY <2>2, <2>3, <2>4, <2>5 DEF Made
    <3>2. c \in LetThrough(e)
      BY <2>1, <2>5 DEF LetThrough
    <3>3. /\ Cardinality(LetThrough(e) \ {c}) = Cardinality(LetThrough(e)) - 1
          /\ IsFiniteSet(LetThrough(e) \ {c})
          /\ Cardinality(Made(e) \cup {Len(done) + 1}) = Cardinality(Made(e)) + 1
      BY <1>2, <3>1, <3>2, Counts
    <3> QED
      BY <1>2, <1>3, <2>1, <3>1, <3>3 DEF Accounted
  <2>6. CASE Asks(c) # e
    <3>1. Made(e)' = Made(e)
      BY <2>2, <2>3, <2>4, <2>6 DEF Made
    <3>2. IsFiniteSet(LetThrough(e) \ {c})
          /\ Cardinality(LetThrough(e) \ {c}) <= Cardinality(LetThrough(e))
      BY <1>2, Counts
    <3> QED
      BY <1>2, <1>3, <2>1, <3>1, <3>2 DEF Accounted
  <2> QED
    BY <2>5, <2>6
<1>7. CASE LetIn(c)
  <2>1. /\ ~Changing(c) /\ Changing(c)' /\ Asks(c)' = Asks(c)
        /\ Made(e)' = Made(e)
    BY <1>1, <1>7, LetInAllowed DEF LetIn, Made
  <2>2. /\ log' = Appended(log, req[c].token.sub, req[c].method, req[c].target)
        /\ IsLog(log) /\ Verify(log)
    BY <1>7 DEF LetIn, Recorded, Inv, Types
  <2>3. /\ Len(log) \in Nat /\ Len(log') = Len(log) + 1
        /\ DOMAIN log = 1..Len(log) /\ DOMAIN log' = 1..Len(log')
        /\ \A i \in DOMAIN log : log'[i] = log[i]
        /\ log'[Len(log) + 1].actor = req[c].token.sub
        /\ log'[Len(log) + 1].action = req[c].method
        /\ log'[Len(log) + 1].target = req[c].target
    <3>1. IsLog(log')
      BY <2>2, AppendKeepsChain
    <3> QED
      BY <2>2, <3>1, AppendKeepsChain DEF IsLog
  <2>4. CASE Asks(c) = e
    <3>1. LetThrough(e)' = LetThrough(e) \cup {c} /\ c \notin LetThrough(e)
      BY <1>1, <2>1, <2>4, OthersStay DEF LetThrough
    <3>2. Events(e)' = Events(e) \cup {Len(log) + 1} /\ Len(log) + 1 \notin Events(e)
      BY <2>3, <2>4 DEF Events, Asks
    <3>3. /\ Cardinality(LetThrough(e) \cup {c}) = Cardinality(LetThrough(e)) + 1
          /\ IsFiniteSet(LetThrough(e) \cup {c})
          /\ Cardinality(Events(e) \cup {Len(log) + 1}) = Cardinality(Events(e)) + 1
      BY <1>2, <3>1, <3>2, Counts
    <3> QED
      BY <1>2, <1>3, <2>1, <3>1, <3>2, <3>3 DEF Accounted
  <2>5. CASE Asks(c) # e
    <3>1. LetThrough(e)' = LetThrough(e)
      BY <1>1, <2>1, <2>5, OthersStay DEF LetThrough
    <3>2. Events(e)' = Events(e)
      <4>1. e \in [actor : Subjects, action : {"POST"}, target : Path]
        BY DEF Change
      <4>2. Len(log) + 1 \notin Events(e)'
        BY <2>3, <2>5, <4>1 DEF Events, Asks
      <4> QED
        BY <2>3, <4>2 DEF Events
    <3> QED
      BY <1>2, <2>1, <3>1, <3>2 DEF Accounted
  <2> QED
    BY <2>4, <2>5
<1> QED
  BY <1>1, <1>5, <1>6, <1>7
LEMMA InitInv == Init => Inv
<1> SUFFICES ASSUME Init PROVE Inv
  OBVIOUS
<1>1. Idle \in Requests
  BY DEF Idle, Requests, Answers
<1>2. log \in Seq(Change) /\ DOMAIN log = {} /\ done \in Seq(Change) /\ DOMAIN done = {}
  <2>1. log = <<>> /\ done = <<>>
    BY DEF Init
  <2>2. <<>> \in Seq(Change) /\ DOMAIN <<>> = {}
    OBVIOUS
  <2> QED
    BY <2>1, <2>2
<1>3. Types
  BY <1>1, <1>2 DEF Types, IsLog, Init
<1>4. Verify(log) /\ RoleInv
  BY <1>2 DEF Verify, RoleInv, Init, Changing, Idle
<1>5. ASSUME NEW e \in Change
      PROVE  Accounted(e)
  <2>1. LetThrough(e) = {} /\ Made(e) = {}
    BY <1>2 DEF LetThrough, Made, Changing, Init, Idle
  <2>2. IsFiniteSet({}) /\ Cardinality({}) = 0
    BY FS_EmptySet
  <2>3. Cardinality(Events(e)) \in Nat
    BY <1>3, PlacesFinite, FS_CardinalityType
  <2> QED
    BY <2>1, <2>2, <2>3 DEF Accounted
<1> QED
  BY <1>3, <1>4, <1>5 DEF Inv

LEMMA ClientInv ==
  ASSUME Inv, NEW c \in Client, Acts(c)
  PROVE  Inv'
<1>1. /\ req' \in [Client -> Requests'] /\ UNCHANGED tokens
      /\ Drops(c) \/ LetIn(c) \/ CarriesOut(c)
      /\ Types /\ Verify(log)
  BY ClientEffects DEF Inv
<1>2. IsLog(log') /\ Verify(log')
  <2>1. CASE LetIn(c)
    BY <1>1, <2>1, AppendKeepsChain DEF LetIn, Recorded, Types
  <2>2. CASE ~LetIn(c)
    BY <1>1, <2>2 DEF Drops, CarriesOut, Types
  <2> QED
    BY <2>1, <2>2
<1>3. done' \in Seq(Change)
  <2>1. CASE CarriesOut(c)
    <3>1. Asks(c) \in Change
      <4>1. req[c] \in Requests /\ Changing(c)
        BY <1>1, <2>1 DEF Types, CarriesOut
      <4>2. req[c].target \in Path /\ req[c].method = "POST"
            /\ req[c].token \in tokens \cup {NoToken}
        BY <4>1 DEF Changing, Requests
      <4>3. HasRole(req[c].token.sub)
        BY <4>1 DEF Inv, RoleInv
      <4>4. req[c].token.sub \in Subjects
        BY <1>1, <4>3 DEF HasRole, Types
      <4> QED
        BY <4>2, <4>4 DEF Asks, Change
    <3> QED
      BY <1>1, <2>1, <3>1 DEF CarriesOut, Types
  <2>2. CASE ~CarriesOut(c)
    BY <1>1, <2>2 DEF Drops, LetIn, Types
  <2> QED
    BY <2>1, <2>2
<1>4. Types'
  BY <1>1, <1>2, <1>3 DEF Types
<1>5. RoleInv'
  BY NextRoles
<1>6. \A e \in Change : Accounted(e)'
  BY NextAccount
<1>7. Change' = Change
  BY DEF Change
<1> QED
  BY <1>2, <1>4, <1>5, <1>6, <1>7 DEF Inv

\* New tokens and later times take nothing away.
LEMMA TokensGrow ==
  ASSUME Inv, tokens \subseteq tokens', \A t \in tokens' : t.sub \in Subjects,
         UNCHANGED <<log, req, done>>
  PROVE  Inv'
<1>1. Requests \subseteq Requests'
  BY DEF Requests, NoToken
<1>2. Types'
  BY <1>1 DEF Inv, Types
<1>3. \A actor : HasRole(actor) => HasRole(actor)'
  BY DEF HasRole
<1>4. RoleInv'
  BY <1>3 DEF Inv, RoleInv, Changing
<1>5. \A e \in Change : Accounted(e)'
  BY DEF Inv, Accounted, Made, LetThrough, Events, Changing, Asks
<1>6. Change' = Change /\ Verify(log')
  BY DEF Change, Inv
<1> QED
  BY <1>2, <1>4, <1>5, <1>6 DEF Inv

LEMMA NextInv == Inv /\ [Next]_vars => Inv'
<1> SUFFICES ASSUME Inv, [Next]_vars PROVE Inv'
  OBVIOUS
<1>1. \A t \in tokens : t.sub \in Subjects
  BY DEF Inv, Types
<1>2. CASE UNCHANGED vars
  BY <1>1, <1>2, TokensGrow DEF vars
<1>3. CASE \E c \in Client : Acts(c)
  BY <1>3, ClientInv
<1>4. CASE Tick
  BY <1>1, <1>4, TokensGrow DEF Tick
<1>5. CASE MintAny
  <2>1. ASSUME NEW key, NEW sub \in Subjects, NEW roles, NEW ttl, Mint(key, sub, roles, ttl)
        PROVE  Inv'
    <3>1. /\ tokens' = tokens \cup
               {[key |-> key, sub |-> sub, roles |-> roles, exp |-> clock + ttl]}
          /\ UNCHANGED <<log, req, done>>
      BY <2>1 DEF Mint
    <3> QED
      BY <1>1, <3>1, TokensGrow
  <2> QED
    BY <1>5, <2>1 DEF MintAny
<1> QED
  BY <1>2, <1>3, <1>4, <1>5 DEF Next, Acts

LEMMA Invariance == Spec => []Inv
<1>1. Init => Inv
  BY InitInv
<1>2. Inv /\ [Next]_vars => Inv'
  BY NextInv
<1> QED
  BY <1>1, <1>2, PTL DEF Spec

\* What was changed through the API is in the log at least as often as it was changed, the
\* log verifies, and somebody with a role for changes asked for each: require_auth appends
\* before the handler runs, so a handler that is still running has its event already.
THEOREM NothingChangesUnrecorded == Spec => []ChangesAreRecorded
<1>1. ASSUME Inv
      PROVE  ChangesAreRecorded
  <2>1. Types /\ Verify(log)
    BY <1>1 DEF Inv
  <2>2. ASSUME NEW e \in Range1(done)
        PROVE  /\ e \in Change
               /\ Cardinality(Made(e)) <= Cardinality(Events(e))
               /\ HasRole(e.actor)
    <3>1. PICK i \in DOMAIN done : e = done[i]
      BY <2>2 DEF Range1
    <3>2. e \in Change /\ HasRole(e.actor)
      BY <1>1, <2>1, <3>1 DEF Types, Inv, RoleInv
    <3>3. Accounted(e)
      BY <1>1, <3>2 DEF Inv
    <3>4. IsFiniteSet(Made(e)) /\ IsFiniteSet(Events(e))
      BY <2>1, PlacesFinite
    <3>5. /\ Cardinality(Made(e)) \in Nat /\ Cardinality(Events(e)) \in Nat
          /\ Cardinality(LetThrough(e)) \in Nat
      BY <3>3, <3>4, FS_CardinalityType DEF Accounted
    <3>6. Cardinality(Made(e)) <= Cardinality(Events(e))
      BY <3>3, <3>5 DEF Accounted
    <3> QED
      BY <3>2, <3>6
  <2> QED
    BY <2>1, <2>2 DEF ChangesAreRecorded, Made, Events, HasRole
<1> QED
  BY <1>1, Invariance, PTL

\* Leaving out an event before the last, exchanging two, or giving one another target or
\* another actor is found by AuditLog::verify: an event carries its place, and its hash
\* everything else.
THEOREM TamperingIsFound == Spec => []TamperingShows
<1>1. ASSUME Inv
      PROVE  TamperingShows
  <2>1. IsLog(log) /\ Verify(log)
    BY <1>1 DEF Inv, Types
  <2>2. \A i \in 1..Len(log) - 1 : ~Verify(Without(log, i))
    BY <2>1, WithoutShows
  <2>3. \A i, j \in DOMAIN log : i # j =>
          ~Verify([log EXCEPT ![i] = log[j], ![j] = log[i]])
    BY <2>1, ExchangeShows
  <2>4. \A i \in DOMAIN log : \A t \in Path \ {log[i].target} :
          ~Verify([log EXCEPT ![i].target = t])
    BY <2>1, EditShows
  <2>5. \A i \in DOMAIN log : \A a \in Subjects \ {log[i].actor} :
          ~Verify([log EXCEPT ![i].actor = a])
    BY <2>1, EditShows
  <2> QED
    BY <2>2, <2>3, <2>4, <2>5 DEF TamperingShows
<1> QED
  BY <1>1, Invariance, PTL

-----------------------------------------------------------------------------
(* Console.  A key is only read from a screen that shows the dialog that is *)
(* open, or the row that is selected.                                       *)

SentAsShown ==
  sent # Tui!NotSent =>
    /\ sent.screen.dialog.type = sent.type
    /\ sent.about = sent.screen.dialog.about
    /\ sent.screen.named \in {sent.about, Absent}

ShownAsHeld ==
  at = "input" =>
    /\ screen.dialog = dialog /\ screen.named \in {dialog.about, Absent}
    /\ screen.row = Tui!Highlighted(tab, sel)

OpenedAsShown ==
  at = "tick" /\ dialog # Tui!NoDialog /\ screen.dialog = Tui!NoDialog => dialog.about = screen.row

ConsoleInv == SentAsShown /\ ShownAsHeld /\ OpenedAsShown

LEMMA ConsoleInit == Tui!Init => ConsoleInv
BY DEF Tui!Init, ConsoleInv, SentAsShown, ShownAsHeld, OpenedAsShown

LEMMA ConsoleStep == ASSUME ConsoleInv, [Tui!Next]_consoleVars PROVE ConsoleInv'
<1> USE DEF ConsoleInv, SentAsShown, ShownAsHeld, OpenedAsShown
<1>1. CASE UNCHANGED consoleVars
  BY <1>1 DEF consoleVars, Tui!Highlighted
<1>2. CASE Tui!Draw
  BY <1>2 DEF Tui!Draw, Tui!Named, Tui!Highlighted
<1>3. CASE Tui!OpenDialog
  <2>1. /\ at = "input" /\ dialog = Tui!NoDialog /\ screen' = screen /\ sent' = sent
        /\ at' = "tick" /\ dialog'.about = Tui!Highlighted(tab, sel)
    BY <1>3 DEF Tui!OpenDialog, Tui!Key, Tui!Browse, Tui!Selected
  <2> QED
    BY <2>1
<1>4. CASE Tui!Confirm
  <2>1. /\ at = "input" /\ at' = "draw"
        /\ sent' = [type |-> dialog.type, about |-> dialog.about, screen |-> screen]
    BY <1>4 DEF Tui!Confirm, Tui!InDialog, Tui!Target
  <2> QED
    BY <2>1
<1>5. CASE Tui!Wait \/ Tui!Dismiss
  BY <1>5 DEF Tui!Wait, Tui!Dismiss, Tui!InDialog, Tui!Browse
<1>6. CASE Tui!SwitchTab \/ Tui!MoveSelection \/ Tui!ScrollLogs \/ Tui!RefreshKey \/ Tui!Quit
             \/ Tui!NoKey
  <2>1. /\ at = "input" /\ at' # "input" /\ dialog = Tui!NoDialog
        /\ UNCHANGED <<dialog, screen, sent>>
    BY <1>6 DEF Tui!SwitchTab, Tui!MoveSelection, Tui!ScrollLogs, Tui!RefreshKey, Tui!Quit,
       Tui!NoKey, Tui!Key, Tui!Browse
  <2> QED
    BY <2>1
<1>7. CASE Tui!Tick \/ Tui!FetchWorkflows \/ Tui!FetchExecutions
  <2>1. at' \notin {"input", "tick"} /\ UNCHANGED <<dialog, screen, sent>>
    BY <1>7 DEF Tui!Tick, Tui!FetchWorkflows, Tui!FetchExecutions, Tui!Browse
  <2> QED
    BY <2>1
<1>8. CASE Tui!Others
  <2>1. UNCHANGED <<at, tab, list, sel, dialog, screen, sent>>
    BY <1>8 DEF Tui!Others
  <2> QED
    BY <2>1 DEF Tui!Highlighted
<1> QED
  BY <1>1, <1>2, <1>3, <1>4, <1>5, <1>6, <1>7, <1>8 DEF Tui!Next

\* For any number of workflows and executions, and whatever others do to them between two keys:
\* a confirmed request is about what the dialog on the screen was about, and a dialog is opened
\* about the row that the screen highlights.
THEOREM ConfirmedAsShown == ClientsSpec => []ConfirmsWhatIsShown
<1>1. ClientsInit => ConsoleInv
  BY ConsoleInit DEF ClientsInit
<1>2. ConsoleInv /\ [ClientsNext]_clientsVars => ConsoleInv'
  BY ConsoleStep DEF ClientsNext, clientsVars
<1>3. ConsoleInv => ConfirmsWhatIsShown
  BY DEF ConsoleInv, SentAsShown, OpenedAsShown, ConfirmsWhatIsShown, Tui!ConfirmsWhatIsShown
<1> QED
  BY <1>1, <1>2, <1>3, PTL DEF ClientsSpec

-----------------------------------------------------------------------------
(* EventStream: rows.                                                       *)

RowsIn(v, i) == {k \in DOMAIN v : v[k].id = i}
FirstIn(v, i) == CHOOSE k \in RowsIn(v, i) : \A l \in RowsIn(v, i) : k <= l
ShownChange(v, i) == v[FirstIn(v, i)].change

LEMMA LeastOf ==
  ASSUME NEW K \in SUBSET Nat, K # {}
  PROVE  \E k \in K : \A l \in K : k <= l
<1>1. PICK k \in K : \A l \in K : <<l, k>> \notin OpToRel(<, Nat)
  BY WFMin, NatLessThanWellFounded
<1>2. \A l \in K : ~(l < k)
  BY <1>1, Zenon DEF OpToRel
<1>3. k \in Nat /\ \A l \in K : l \in Nat
  OBVIOUS
<1>4. \A l \in K : k <= l
  BY <1>2, <1>3
<1> QED
  BY <1>4

LEMMA FirstFacts ==
  ASSUME NEW R, NEW v \in Seq(R), NEW i, RowsIn(v, i) # {}
  PROVE  FirstIn(v, i) \in RowsIn(v, i) /\ \A l \in RowsIn(v, i) : FirstIn(v, i) <= l
<1>1. RowsIn(v, i) \subseteq Nat
  BY DEF RowsIn
<1>2. \E k \in RowsIn(v, i) : \A l \in RowsIn(v, i) : k <= l
  BY <1>1, LeastOf
<1> QED
  BY <1>2 DEF FirstIn

LEMMA FirstIs ==
  ASSUME NEW R, NEW v \in Seq(R), NEW i, NEW k \in RowsIn(v, i),
         \A l \in RowsIn(v, i) : k <= l
  PROVE  ShownChange(v, i) = v[k].change
<1>1. FirstIn(v, i) \in RowsIn(v, i) /\ FirstIn(v, i) <= k
  BY FirstFacts
<1>2. k <= FirstIn(v, i) /\ k \in Nat /\ FirstIn(v, i) \in Nat
  BY <1>1 DEF RowsIn
<1>3. FirstIn(v, i) = k
  BY <1>1, <1>2
<1> QED
  BY <1>3 DEF ShownChange

\* A view that has, for the rows of i, the same ones in the same order, shows the same of i.
LEMMA SameRows ==
  ASSUME NEW R, NEW v \in Seq(R), NEW w \in Seq(R), NEW i,
         NEW spot \in [RowsIn(w, i) -> RowsIn(v, i)],
         \A k \in RowsIn(w, i) : w[k] = v[spot[k]],
         \A k \in RowsIn(v, i) : \E l \in RowsIn(w, i) : spot[l] = k,
         \A k, l \in RowsIn(w, i) : k < l => spot[k] < spot[l]
  PROVE  /\ RowsIn(w, i) = {} <=> RowsIn(v, i) = {}
         /\ RowsIn(w, i) # {} => ShownChange(w, i) = ShownChange(v, i)
<1>1. RowsIn(w, i) = {} <=> RowsIn(v, i) = {}
  OBVIOUS
<1>2. ASSUME RowsIn(w, i) # {}
      PROVE  ShownChange(w, i) = ShownChange(v, i)
  <2> DEFINE first == FirstIn(w, i)
  <2>1. first \in RowsIn(w, i) /\ \A l \in RowsIn(w, i) : first <= l
    BY <1>2, FirstFacts
  <2> HIDE DEF first
  <2>2. RowsIn(w, i) \subseteq Nat /\ RowsIn(v, i) \subseteq Nat
    BY DEF RowsIn
  <2>3. spot[first] \in RowsIn(v, i) /\ \A k \in RowsIn(v, i) : spot[first] <= k
    <3>1. spot[first] \in RowsIn(v, i)
      BY <2>1
    <3>2. ASSUME NEW k \in RowsIn(v, i)
          PROVE  spot[first] <= k
      <4>1. PICK l \in RowsIn(w, i) : spot[l] = k
        OBVIOUS
      <4>2. first = l \/ first < l
        BY <2>1, <2>2
      <4>3. spot[first] = k \/ spot[first] < k
        BY <2>1, <4>1, <4>2
      <4> QED
        BY <2>2, <3>1, <4>3
    <3> QED
      BY <3>1, <3>2
  <2>4. ShownChange(v, i) = v[spot[first]].change
    BY <2>3, FirstIs
  <2>5. ShownChange(w, i) = w[first].change
    BY DEF ShownChange, first
  <2> QED
    BY <2>1, <2>4, <2>5
<1> QED
  BY <1>1, <1>2

\* A row at the end is the first of its entry only if there was none.
LEMMA RowAppended ==
  ASSUME NEW R, NEW v \in Seq(R), NEW r \in R, NEW i
  PROVE  LET w == Append(v, r) IN
         /\ w \in Seq(R)
         /\ i # r.id => RowsIn(w, i) = RowsIn(v, i)
         /\ RowsIn(v, i) # {} => RowsIn(w, i) # {} /\ ShownChange(w, i) = ShownChange(v, i)
         /\ i = r.id /\ RowsIn(v, i) = {} => RowsIn(w, i) # {} /\ ShownChange(w, i) = r.change
<1> DEFINE w == Append(v, r)
<1>1. /\ w \in Seq(R) /\ Len(v) \in Nat /\ DOMAIN w = 1..Len(v) + 1 /\ DOMAIN v = 1..Len(v)
      /\ \A k \in 1..Len(v) : w[k] = v[k]
      /\ w[Len(v) + 1] = r
  OBVIOUS
<1> HIDE DEF w
<1>2. RowsIn(w, i) = RowsIn(v, i) \cup (IF i = r.id THEN {Len(v) + 1} ELSE {})
  BY <1>1 DEF RowsIn
<1>3. i # r.id => RowsIn(w, i) = RowsIn(v, i)
  BY <1>2
<1>4. ASSUME RowsIn(v, i) # {}
      PROVE  RowsIn(w, i) # {} /\ ShownChange(w, i) = ShownChange(v, i)
  <2> DEFINE first == FirstIn(v, i)
  <2>1. first \in RowsIn(v, i) /\ \A l \in RowsIn(v, i) : first <= l
    BY <1>4, FirstFacts
  <2>2. ShownChange(v, i) = v[first].change
    BY DEF ShownChange
  <2> HIDE DEF first
  <2>3. first \in 1..Len(v) /\ first \in RowsIn(w, i)
    BY <1>1, <1>2, <2>1 DEF RowsIn
  <2>4. \A l \in RowsIn(w, i) : first <= l
    BY <1>1, <1>2, <2>1, <2>3
  <2>5. ShownChange(w, i) = w[first].change
    BY <1>1, <2>3, <2>4, FirstIs
  <2> QED
    BY <1>1, <2>2, <2>3, <2>5
<1>5. ASSUME i = r.id, RowsIn(v, i) = {}
      PROVE  RowsIn(w, i) # {} /\ ShownChange(w, i) = r.change
  <2>1. RowsIn(w, i) = {Len(v) + 1}
    BY <1>2, <1>5
  <2>2. ShownChange(w, i) = w[Len(v) + 1].change
    BY <1>1, <2>1, FirstIs
  <2> QED
    BY <1>1, <2>1, <2>2
<1> QED
  BY <1>1, <1>3, <1>4, <1>5 DEF w

\* A row at the front is the first of its entry.
LEMMA RowPrepended ==
  ASSUME NEW R, NEW v \in Seq(R), NEW r \in R, NEW i
  PROVE  LET w == <<r>> \o v IN
         /\ w \in Seq(R)
         /\ i # r.id => /\ RowsIn(w, i) = {} <=> RowsIn(v, i) = {}
                        /\ RowsIn(w, i) # {} => ShownChange(w, i) = ShownChange(v, i)
         /\ i = r.id => RowsIn(w, i) # {} /\ ShownChange(w, i) = r.change
<1> DEFINE w == <<r>> \o v
<1>1. /\ w \in Seq(R) /\ Len(v) \in Nat /\ DOMAIN w = 1..Len(v) + 1 /\ DOMAIN v = 1..Len(v)
      /\ \A k \in 1..Len(v) : w[k + 1] = v[k]
      /\ w[1] = r
  OBVIOUS
<1> HIDE DEF w
<1>2. ASSUME i # r.id
      PROVE  /\ RowsIn(w, i) = {} <=> RowsIn(v, i) = {}
             /\ RowsIn(w, i) # {} => ShownChange(w, i) = ShownChange(v, i)
  <2> DEFINE spot == [k \in RowsIn(w, i) |-> k - 1]
  <2>1. \A k \in RowsIn(w, i) : k - 1 \in RowsIn(v, i) /\ w[k] = v[k - 1] /\ k \in Nat
    <3> TAKE k \in RowsIn(w, i)
    <3>1. k \in 1..Len(v) + 1 /\ w[k].id = i
      BY <1>1 DEF RowsIn
    <3>2. k # 1
      BY <1>1, <1>2, <3>1
    <3>3. k - 1 \in 1..Len(v) /\ (k - 1) + 1 = k
      BY <1>1, <3>1, <3>2
    <3>4. w[k] = v[k - 1]
      BY <1>1, <3>3
    <3> QED
      BY <1>1, <3>1, <3>3, <3>4 DEF RowsIn
  <2>2. \A k \in RowsIn(v, i) : k + 1 \in RowsIn(w, i) /\ spot[k + 1] = k
    BY <1>1 DEF RowsIn
  <2>3. spot \in [RowsIn(w, i) -> RowsIn(v, i)] /\ \A k \in RowsIn(w, i) : w[k] = v[spot[k]]
    BY <2>1
  <2>4. \A k, l \in RowsIn(w, i) : k < l => spot[k] < spot[l]
    BY <2>1
  <2> HIDE DEF spot
  <2> QED
    BY <1>1, <2>2, <2>3, <2>4, SameRows
<1>3. ASSUME i = r.id
      PROVE  RowsIn(w, i) # {} /\ ShownChange(w, i) = r.change
  <2>1. 1 \in RowsIn(w, i) /\ \A l \in RowsIn(w, i) : 1 <= l
    BY <1>1, <1>3 DEF RowsIn
  <2> QED
    BY <1>1, <2>1, FirstIs
<1> QED
  BY <1>1, <1>2, <1>3 DEF w

\* The first row of an entry is written over; the rows of others stay.
LEMMA RowReplaced ==
  ASSUME NEW R, NEW v \in Seq(R), NEW r \in R, RowsIn(v, r.id) # {}, NEW i
  PROVE  LET w == [v EXCEPT ![FirstIn(v, r.id)] = r] IN
         /\ w \in Seq(R)
         /\ RowsIn(w, i) = {} <=> RowsIn(v, i) = {}
         /\ i # r.id /\ RowsIn(v, i) # {} => ShownChange(w, i) = ShownChange(v, i)
         /\ i = r.id => ShownChange(w, i) = r.change
<1> DEFINE first == FirstIn(v, r.id)
           w == [v EXCEPT ![first] = r]
<1>1. first \in RowsIn(v, r.id) /\ \A l \in RowsIn(v, r.id) : first <= l
  BY FirstFacts
<1> HIDE DEF first
<1>2. first \in DOMAIN v /\ v[first].id = r.id
  BY <1>1 DEF RowsIn
<1>3. /\ w \in Seq(R) /\ DOMAIN w = DOMAIN v /\ w[first] = r
      /\ \A k \in DOMAIN v : k # first => w[k] = v[k]
  BY <1>2
<1> HIDE DEF w
<1>4. RowsIn(w, i) = RowsIn(v, i)
  BY <1>2, <1>3 DEF RowsIn
<1>5. ASSUME i # r.id, RowsIn(v, i) # {}
      PROVE  ShownChange(w, i) = ShownChange(v, i)
  <2> DEFINE k == FirstIn(v, i)
  <2>1. k \in RowsIn(v, i) /\ \A l \in RowsIn(v, i) : k <= l
    BY <1>5, FirstFacts
  <2>2. ShownChange(v, i) = v[k].change
    BY DEF ShownChange
  <2> HIDE DEF k
  <2>3. ShownChange(w, i) = w[k].change
    BY <1>3, <1>4, <2>1, FirstIs
  <2>4. k \in DOMAIN v /\ k # first
    BY <1>2, <1>5, <2>1 DEF RowsIn
  <2> QED
    BY <1>3, <2>2, <2>3, <2>4
<1>6. ASSUME i = r.id
      PROVE  ShownChange(w, i) = r.change
  <2>1. first \in RowsIn(w, i) /\ \A l \in RowsIn(w, i) : first <= l
    BY <1>1, <1>4, <1>6
  <2> QED
    BY <1>3, <2>1, FirstIs
<1> QED
  BY <1>3, <1>4, <1>5, <1>6 DEF w, first

\* All rows of one entry go; the rows of others stay.
LEMMA RowsRemoved ==
  ASSUME NEW R, NEW v \in Seq(R), NEW j, NEW i
  PROVE  LET w == Kept(v, DOMAIN v \ RowsIn(v, j)) IN
         /\ w \in Seq(R)
         /\ i # j => /\ RowsIn(w, i) = {} <=> RowsIn(v, i) = {}
                     /\ RowsIn(w, i) # {} => ShownChange(w, i) = ShownChange(v, i)
         /\ i = j => RowsIn(w, i) = {}
<1> DEFINE K == DOMAIN v \ RowsIn(v, j)
           w == Kept(v, K)
<1>1. w \in Seq(R)
  BY KeptFacts
<1>2. PICK place \in [DOMAIN w -> K] :
        /\ \A k \in DOMAIN w : w[k] = v[place[k]]
        /\ \A k \in K : \E l \in DOMAIN w : place[l] = k
        /\ \A k, l \in DOMAIN w : k < l <=> place[k] < place[l]
  <2>1. K \in SUBSET DOMAIN v
    OBVIOUS
  <2> QED
    BY <2>1, KeptFacts
<1> HIDE DEF w
<1>3. ASSUME i # j
      PROVE  /\ RowsIn(w, i) = {} <=> RowsIn(v, i) = {}
             /\ RowsIn(w, i) # {} => ShownChange(w, i) = ShownChange(v, i)
  <2> DEFINE spot == [k \in RowsIn(w, i) |-> place[k]]
  <2>1. spot \in [RowsIn(w, i) -> RowsIn(v, i)] /\ \A k \in RowsIn(w, i) : w[k] = v[spot[k]]
    BY <1>2 DEF RowsIn
  <2>2. \A k \in RowsIn(v, i) : k \in K
    BY <1>3 DEF RowsIn
  <2>3. \A k \in RowsIn(v, i) : \E l \in RowsIn(w, i) : spot[l] = k
    BY <1>2, <2>2 DEF RowsIn
  <2>4. \A k, l \in RowsIn(w, i) : k < l => spot[k] < spot[l]
    BY <1>2 DEF RowsIn
  <2> HIDE DEF spot
  <2> QED
    BY <1>1, <2>1, <2>3, <2>4, SameRows
<1>4. i = j => RowsIn(w, i) = {}
  BY <1>2 DEF RowsIn
<1> QED
  BY <1>1, <1>3, <1>4 DEF w
-----------------------------------------------------------------------------
(* EventStream: the events of one entry that are yet to be shown.           *)

StreamEvent ==
  [type : {"created", "started", "updated", "ended", "deleted"}, id : Dash!Item,
   change : Nat \ {0}]

Opens(e) == e.type \in {"created", "started"}

\* Of a queue q and events u that are still unsent.
Pending(q, u, i) == {e \in u : e.id = i} \cup {q[k] : k \in {k \in DOMAIN q : q[k].id = i}}

\* The queue has the events of i in the order of the changes, before those that are unsent.
InLine(q, u, i) ==
  /\ \A k, l \in DOMAIN q :
       k < l /\ q[k].id = i /\ q[l].id = i => q[k].change < q[l].change
  /\ \A k \in DOMAIN q, e \in u : q[k].id = i /\ e.id = i => q[k].change < e.change

\* What the events P tell of an entry whose last change is h: each is about a change of its
\* own, the last about h, and an entry begins with its creation and ends with its deletion.
Story(P, h) ==
  /\ \A e, f \in P : e.change = f.change => e = f
  /\ P # {} => \E e \in P : /\ \A f \in P : f.change <= e.change
                            /\ h = IF e.type = "deleted" THEN 0 ELSE e.change
  /\ \A e, f \in P : Opens(e) => e.change <= f.change
  /\ \A e, f \in P : e.type = "deleted" => f.change <= e.change /\ h = 0

\* An entry that is shown, with c, or not shown: the events P are what is missing.  While its
\* creation is among them, c is what one of them tells.
Fits(P, h, there, c) ==
  /\ P = {} => IF there THEN c = h ELSE h = 0
  /\ P # {} /\ h # 0 => there \/ \E e \in P : Opens(e)
  /\ there /\ (\E e \in P : Opens(e)) => \E f \in P : f.change = c

\* The story goes on without its beginning.
LEMMA LaterPart ==
  ASSUME NEW P \in SUBSET StreamEvent, NEW h, Story(P, h), NEW Q \in SUBSET P,
         \A e \in Q, g \in P \ Q : g.change < e.change
  PROVE  Story(Q, h)
<1>1. ASSUME Q # {}
      PROVE  \E e \in Q : /\ \A f \in Q : f.change <= e.change
                          /\ h = IF e.type = "deleted" THEN 0 ELSE e.change
  <2>1. PICK e \in P : /\ \A f \in P : f.change <= e.change
                       /\ h = IF e.type = "deleted" THEN 0 ELSE e.change
    BY <1>1 DEF Story
  <2>2. e \in Q
    <3> SUFFICES ASSUME e \notin Q PROVE FALSE
      OBVIOUS
    <3>1. PICK x \in Q : TRUE
      BY <1>1
    <3>2. e.change < x.change /\ x.change <= e.change
      BY <2>1, <3>1
    <3>3. e.change \in Nat /\ x.change \in Nat
      BY DEF StreamEvent
    <3> QED
      BY <3>2, <3>3
  <2> QED
    BY <2>1, <2>2
<1> QED
  BY <1>1 DEF Story

LEMMA NextPart ==
  ASSUME NEW P \in SUBSET StreamEvent, NEW h, Story(P, h), NEW e \in StreamEvent, NEW n,
         \A f \in P : f.change < e.change,
         IF Opens(e) THEN P = {} ELSE h # 0,
         n = IF e.type = "deleted" THEN 0 ELSE e.change
  PROVE  Story(P \cup {e}, n)
<1>1. e.change \in Nat /\ \A f \in P : f.change \in Nat
  BY DEF StreamEvent
<1>2. \A f \in P \cup {e} : f.change <= e.change
  BY <1>1
<1>3. \A f \in P : f.type # "deleted"
  <2> SUFFICES ASSUME NEW f \in P, f.type = "deleted" PROVE FALSE
    OBVIOUS
  <2>1. h = 0
    BY DEF Story
  <2> QED
    BY <2>1
<1>4. \A f, g \in P \cup {e} : f.change = g.change => f = g
  BY <1>1 DEF Story
<1>5. \A f, g \in P \cup {e} : Opens(f) => f.change <= g.change
  <2> SUFFICES ASSUME NEW f \in P \cup {e}, NEW g \in P \cup {e}, Opens(f)
               PROVE  f.change <= g.change
    OBVIOUS
  <2>1. CASE f = e
    <3>1. P = {}
      BY <2>1
    <3> QED
      BY <1>1, <2>1, <3>1
  <2>2. CASE f \in P /\ g = e
    BY <1>2, <2>2
  <2>3. CASE f \in P /\ g \in P
    BY <2>3 DEF Story
  <2> QED
    BY <2>1, <2>2, <2>3
<1>6. \A f, g \in P \cup {e} : f.type = "deleted" => g.change <= f.change /\ n = 0
  BY <1>2, <1>3
<1> QED
  BY <1>2, <1>4, <1>5, <1>6 DEF Story

\* A change that is announced.
LEMMA FitsWithNext ==
  ASSUME NEW P \in SUBSET StreamEvent, NEW h, NEW there \in BOOLEAN, NEW c,
         Fits(P, h, there, c), NEW e \in StreamEvent, NEW n,
         IF Opens(e) THEN P = {} /\ ~there ELSE h # 0
  PROVE  Fits(P \cup {e}, n, there, c)
BY DEF Fits

\* What is read from the server is what the events come to.
LEMMA FitsWhenRead ==
  ASSUME NEW P \in SUBSET StreamEvent, NEW h, Story(P, h)
  PROVE  Fits(P, h, h # 0, h)
BY DEF Fits, Story

\* What showing the event e makes of an entry that is shown, with c, or not shown.
After(e, there, c, thereNow, now) ==
  CASE e.type = "created" -> thereNow /\ now = IF there THEN c ELSE e.change
    [] e.type = "started" -> thereNow /\ now = e.change
    [] e.type \in {"updated", "ended"} -> thereNow = there /\ (there => now = e.change)
    [] e.type = "deleted" -> ~thereNow

\* The next event is shown.
LEMMA FitsWhenShown ==
  ASSUME NEW P \in SUBSET StreamEvent, NEW h, Story(P, h), NEW there \in BOOLEAN, NEW c,
         Fits(P, h, there, c), NEW e \in P, \A f \in P \ {e} : e.change < f.change,
         NEW thereNow \in BOOLEAN, NEW now, After(e, there, c, thereNow, now)
  PROVE  Fits(P \ {e}, h, thereNow, now)
<1> DEFINE Q == P \ {e}
<1>1. \A f \in P : f.change \in Nat \ {0}
  BY DEF StreamEvent
<1>2. e.type \in {"created", "started", "updated", "ended", "deleted"}
  BY DEF StreamEvent
<1>3. \A g \in Q : ~Opens(g)
  <2> SUFFICES ASSUME NEW g \in Q, Opens(g) PROVE FALSE
    OBVIOUS
  <2>1. g.change <= e.change /\ e.change < g.change
    BY DEF Story
  <2> QED
    BY <1>1, <2>1
<1>4. ASSUME Q = {}
      PROVE  IF thereNow THEN now = h ELSE h = 0
  <2>1. P = {e}
    BY <1>4
  <2>2. h = IF e.type = "deleted" THEN 0 ELSE e.change
    BY <2>1 DEF Story
  <2>3. CASE e.type = "created"
    <3>1. there => c = e.change
      BY <2>1, <2>3 DEF Fits, Opens
    <3> QED
      BY <2>2, <2>3, <3>1 DEF After
  <2>4. CASE e.type = "started"
    BY <2>2, <2>4 DEF After
  <2>5. CASE e.type \in {"updated", "ended"}
    <3>1. h # 0 /\ h = e.change /\ ~Opens(e)
      BY <1>1, <2>2, <2>5 DEF Opens
    <3>2. there
      BY <2>1, <3>1 DEF Fits
    <3> QED
      BY <2>5, <3>1, <3>2 DEF After
  <2>6. CASE e.type = "deleted"
    BY <2>2, <2>6 DEF After
  <2> QED
    BY <1>2, <2>3, <2>4, <2>5, <2>6
<1>5. ASSUME Q # {}, h # 0
      PROVE  thereNow
  <2>1. e.type # "deleted"
    BY <1>5 DEF Story
  <2>2. CASE e.type \in {"created", "started"}
    BY <2>2 DEF After
  <2>3. CASE e.type \in {"updated", "ended"}
    <3>1. \A g \in P : ~Opens(g)
      BY <1>3, <2>3 DEF Opens
    <3>2. there
      BY <1>5, <3>1 DEF Fits
    <3> QED
      BY <2>3, <3>2 DEF After
  <2> QED
    BY <1>2, <2>1, <2>2, <2>3
<1> QED
  BY <1>3, <1>4, <1>5 DEF Fits
-----------------------------------------------------------------------------
(* EventStream: the channel.                                                *)

\* The head of a queue is shown, or lost.
LEMMA HeadLeaves ==
  ASSUME NEW q \in Seq(StreamEvent), q # <<>>, NEW u \in SUBSET StreamEvent, NEW i,
         InLine(q, u, i)
  PROVE  /\ InLine(Tail(q), u, i)
         /\ Head(q) \in StreamEvent
         /\ Head(q).id # i => Pending(Tail(q), u, i) = Pending(q, u, i)
         /\ Head(q).id = i => /\ Head(q) \in Pending(q, u, i)
                              /\ Pending(Tail(q), u, i) = Pending(q, u, i) \ {Head(q)}
                              /\ \A f \in Pending(Tail(q), u, i) : Head(q).change < f.change
<1> DEFINE t == Tail(q)
           e == Head(q)
<1>1. /\ t \in Seq(StreamEvent) /\ Len(q) \in Nat \ {0} /\ DOMAIN q = 1..Len(q)
      /\ DOMAIN t = 1..Len(q) - 1 /\ \A k \in 1..Len(q) - 1 : t[k] = q[k + 1]
      /\ e = q[1] /\ e \in StreamEvent
  OBVIOUS
<1> HIDE DEF t, e
<1>2. \A k \in DOMAIN t : k + 1 \in DOMAIN q /\ t[k] = q[k + 1] /\ 1 < k + 1 /\ k \in Nat
  BY <1>1
<1>3. \A k \in DOMAIN q : k = 1 \/ (k - 1 \in DOMAIN t /\ t[k - 1] = q[k])
  <2> TAKE k \in DOMAIN q
  <2>1. CASE k # 1
    <3>1. k - 1 \in 1..Len(q) - 1 /\ (k - 1) + 1 = k
      BY <1>1, <2>1
    <3> QED
      BY <1>1, <3>1
  <2> QED
    BY <2>1
<1>4. InLine(t, u, i)
  <2>1. \A k, l \in DOMAIN t :
          k < l /\ t[k].id = i /\ t[l].id = i => t[k].change < t[l].change
    <3> SUFFICES ASSUME NEW k \in DOMAIN t, NEW l \in DOMAIN t, k < l, t[k].id = i, t[l].id = i
                 PROVE  t[k].change < t[l].change
      OBVIOUS
    <3>1. k + 1 < l + 1
      BY <1>2
    <3> QED
      BY <1>2, <3>1 DEF InLine
  <2>2. \A k \in DOMAIN t, f \in u : t[k].id = i /\ f.id = i => t[k].change < f.change
    BY <1>2 DEF InLine
  <2> QED
    BY <2>1, <2>2 DEF InLine
<1>5. Pending(t, u, i) \subseteq Pending(q, u, i)
  BY <1>2 DEF Pending
<1>6. Pending(q, u, i) \subseteq Pending(t, u, i) \cup (IF e.id = i THEN {e} ELSE {})
  <2> SUFFICES ASSUME NEW f \in Pending(q, u, i)
               PROVE  f \in Pending(t, u, i) \/ (f = e /\ e.id = i)
    OBVIOUS
  <2>1. CASE f \in u /\ f.id = i
    BY <2>1 DEF Pending
  <2>2. ASSUME NEW k \in DOMAIN q, f = q[k], f.id = i
        PROVE  f \in Pending(t, u, i) \/ (f = e /\ e.id = i)
    <3>1. CASE k = 1
      BY <1>1, <2>2, <3>1
    <3>2. CASE k # 1
      <4>1. k - 1 \in DOMAIN t /\ t[k - 1] = f
        BY <1>3, <2>2, <3>2
      <4> QED
        BY <2>2, <4>1 DEF Pending
    <3> QED
      BY <3>1, <3>2
  <2> QED
    BY <2>1, <2>2 DEF Pending
<1>7. ASSUME e.id = i
      PROVE  /\ e \in Pending(q, u, i)
             /\ \A f \in Pending(t, u, i) : e.change < f.change
  <2>1. e \in Pending(q, u, i)
    BY <1>1, <1>7 DEF Pending
  <2>2. ASSUME NEW f \in u, f.id = i
        PROVE  e.change < f.change
    BY <1>1, <1>7, <2>2 DEF InLine
  <2>3. ASSUME NEW k \in DOMAIN t, t[k].id = i
        PROVE  e.change < t[k].change
    <3>1. k + 1 \in DOMAIN q /\ t[k] = q[k + 1] /\ 1 < k + 1 /\ 1 \in DOMAIN q
      BY <1>1, <1>2
    <3> QED
      BY <1>1, <1>7, <2>3, <3>1 DEF InLine
  <2> QED
    BY <2>1, <2>2, <2>3 DEF Pending
<1>8. ASSUME e.id = i
      PROVE  Pending(t, u, i) = Pending(q, u, i) \ {e}
  <2>1. e \notin Pending(t, u, i)
    <3>1. e.change \in Nat
      BY <1>1 DEF StreamEvent
    <3>2. ~(e.change < e.change)
      BY <3>1
    <3> QED
      BY <1>7, <1>8, <3>2
  <2> QED
    BY <1>5, <1>6, <1>8, <2>1
<1> QED
  BY <1>1, <1>4, <1>5, <1>6, <1>7, <1>8 DEF t, e

\* An event is sent, before the later ones of its entry.
LEMMA EventSent ==
  ASSUME NEW q \in Seq(StreamEvent), NEW u \in SUBSET StreamEvent, NEW e \in u, NEW i,
         InLine(q, u, i), \A f, g \in Pending(q, u, i) : f.change = g.change => f = g,
         e.id = i => \A f \in u : f.id = i => ~(f.change < e.change)
  PROVE  /\ Append(q, e) \in Seq(StreamEvent)
         /\ InLine(Append(q, e), u \ {e}, i)
         /\ Pending(Append(q, e), u \ {e}, i) = Pending(q, u, i)
<1> DEFINE w == Append(q, e)
<1>1. /\ w \in Seq(StreamEvent) /\ Len(q) \in Nat
      /\ DOMAIN w = 1..Len(q) + 1 /\ DOMAIN q = 1..Len(q)
      /\ \A k \in 1..Len(q) : w[k] = q[k]
      /\ w[Len(q) + 1] = e
  OBVIOUS
<1> HIDE DEF w
<1>2. \A k \in DOMAIN w : (k \in DOMAIN q /\ w[k] = q[k]) \/ (k = Len(q) + 1 /\ w[k] = e)
  BY <1>1
<1>3. Pending(w, u \ {e}, i) = Pending(q, u, i)
  <2>1. Pending(w, u \ {e}, i) \subseteq Pending(q, u, i)
    BY <1>1, <1>2 DEF Pending
  <2>2. Pending(q, u, i) \subseteq Pending(w, u \ {e}, i)
    <3> SUFFICES ASSUME NEW f \in Pending(q, u, i) PROVE f \in Pending(w, u \ {e}, i)
      OBVIOUS
    <3>1. CASE f \in u /\ f.id = i /\ f # e
      BY <3>1 DEF Pending
    <3>2. CASE f = e /\ f.id = i
      <4>1. Len(q) + 1 \in DOMAIN w /\ w[Len(q) + 1] = f
        BY <1>1, <3>2
      <4> QED
        BY <3>2, <4>1 DEF Pending
    <3>3. ASSUME NEW k \in DOMAIN q, f = q[k], f.id = i
          PROVE  f \in Pending(w, u \ {e}, i)
      <4>1. k \in DOMAIN w /\ w[k] = f
        BY <1>1, <3>3
      <4> QED
        BY <3>3, <4>1 DEF Pending
    <3> QED
      BY <3>1, <3>2, <3>3 DEF Pending
  <2> QED
    BY <2>1, <2>2
<1>4. \A k, l \in DOMAIN w :
        k < l /\ w[k].id = i /\ w[l].id = i => w[k].change < w[l].change
  <2> SUFFICES ASSUME NEW k \in DOMAIN w, NEW l \in DOMAIN w, k < l, w[k].id = i, w[l].id = i
               PROVE  w[k].change < w[l].change
    OBVIOUS
  <2>1. k \in DOMAIN q /\ w[k] = q[k]
    BY <1>1, <1>2
  <2>2. CASE l \in DOMAIN q /\ w[l] = q[l]
    BY <2>1, <2>2 DEF InLine
  <2>3. CASE w[l] = e
    BY <2>1, <2>3 DEF InLine
  <2> QED
    BY <1>2, <2>2, <2>3
<1>5. \A k \in DOMAIN w, f \in u \ {e} : w[k].id = i /\ f.id = i => w[k].change < f.change
  <2> SUFFICES ASSUME NEW k \in DOMAIN w, NEW f \in u \ {e}, w[k].id = i, f.id = i
               PROVE  w[k].change < f.change
    OBVIOUS
  <2>1. CASE k \in DOMAIN q /\ w[k] = q[k]
    BY <2>1 DEF InLine
  <2>2. CASE w[k] = e
    <3>1. e \in Pending(q, u, i) /\ f \in Pending(q, u, i) /\ e # f
      BY <2>2 DEF Pending
    <3>2. e.change # f.change /\ ~(f.change < e.change)
      BY <2>2, <3>1
    <3>3. e.change \in Nat /\ f.change \in Nat
      BY DEF StreamEvent
    <3> QED
      BY <2>2, <3>2, <3>3
  <2> QED
    BY <1>2, <2>1, <2>2
<1> QED
  BY <1>1, <1>3, <1>4, <1>5 DEF InLine, w

\* A change is made that is later than all others.
LEMMA EventMade ==
  ASSUME NEW q \in Seq(StreamEvent), NEW u \in SUBSET StreamEvent, NEW e \in StreamEvent, NEW i,
         InLine(q, u, i), \A k \in DOMAIN q : q[k].change < e.change
  PROVE  /\ InLine(q, u \cup {e}, i)
         /\ Pending(q, u \cup {e}, i) = Pending(q, u, i) \cup (IF e.id = i THEN {e} ELSE {})
BY DEF InLine, Pending

LEMMA PendingIsEvents ==
  ASSUME NEW q \in Seq(StreamEvent), NEW u \in SUBSET StreamEvent, NEW i
  PROVE  Pending(q, u, i) \in SUBSET StreamEvent /\ \A e \in Pending(q, u, i) : e.id = i
BY DEF Pending
-----------------------------------------------------------------------------
(* EventStream: the invariant.                                              *)

StreamRow == [id : Dash!Item, change : Nat]

StreamTypes ==
  /\ changes \in Nat /\ held \in [Dash!Item -> Nat] /\ used \subseteq Dash!Item
  /\ unsent \in SUBSET StreamEvent /\ queue \in Seq(StreamEvent)
  /\ session \in {"off", "collecting", "live"} /\ (session = "off" => queue = <<>>)
  /\ view \in Seq(StreamRow) /\ lagged \in BOOLEAN
  /\ DOMAIN collected \subseteq Dash!Item /\ \A i \in DOMAIN collected : collected[i] \in Nat

\* No event is about a change to come.
StreamPast ==
  /\ \A e \in unsent : e.change <= changes
  /\ \A k \in DOMAIN queue : queue[k].change <= changes

\* Of an entry that never was there is nothing.
StreamKnown ==
  \A i \in Dash!Item \ used :
    /\ held[i] = 0 /\ Pending(queue, unsent, i) = {}
    /\ RowsIn(view, i) = {} /\ (i \in DOMAIN collected => collected[i] = 0)

\* An entry with its pending events: they tell its story in the order of the channel, and
\* what is shown, or read for the snapshot, fits them.
StreamEntry(i) ==
  LET P == Pending(queue, unsent, i) IN
  /\ InLine(queue, unsent, i)
  /\ Story(P, held[i])
  /\ session = "live" /\ ~lagged =>
       Fits(P, held[i], RowsIn(view, i) # {}, ShownChange(view, i))
  /\ session = "collecting" /\ ~lagged /\ i \in DOMAIN collected =>
       Fits(P, held[i], collected[i] # 0, collected[i])

StreamInv ==
  /\ StreamTypes /\ StreamPast /\ StreamKnown
  /\ \A i \in Dash!Item \ (jumbled \cup silent) : StreamEntry(i)

LEMMA StreamInit ==
  ASSUME Dash!Init
  PROVE  StreamInv
<1>1. StreamTypes
  <2>1. /\ changes = 0 /\ held = [i \in Dash!Item |-> 0] /\ used = {} /\ unsent = {}
        /\ queue = <<>> /\ session = "off" /\ view = <<>> /\ lagged = FALSE /\ collected = <<>>
    BY DEF Dash!Init
  <2>2. DOMAIN collected = {}
    BY <2>1
  <2>3. held \in [Dash!Item -> Nat]
    BY <2>1
  <2>4. queue \in Seq(StreamEvent) /\ view \in Seq(StreamRow)
    BY <2>1
  <2> QED
    BY <2>1, <2>2, <2>3, <2>4 DEF StreamTypes
<1>2. StreamPast
  BY DEF Dash!Init, StreamPast
<1>3. \A i : Pending(queue, unsent, i) = {}
  BY DEF Dash!Init, Pending
<1>4. StreamKnown
  BY <1>3 DEF Dash!Init, StreamKnown, RowsIn
<1>5. \A i \in Dash!Item : StreamEntry(i)
  BY <1>3 DEF Dash!Init, StreamEntry, InLine, Story
<1> QED
  BY <1>1, <1>2, <1>4, <1>5 DEF StreamInv

LEMMA StreamAnnounced ==
  ASSUME StreamInv, NEW j \in Dash!Item, Dash!Announced(j)
  PROVE  StreamInv'
<1>1. PICK type \in {"created", "started", "updated", "ended", "deleted"}, c \in Nat :
        /\ Dash!Make(j, type, c)
        /\ IF type \in {"created", "started"} THEN j \notin used ELSE held[j] # 0
        /\ c = IF type = "deleted" THEN 0 ELSE changes + 1
  <2>1. changes \in Nat
    BY DEF StreamInv, StreamTypes
  <2> QED
    BY <2>1 DEF Dash!Announced
<1> DEFINE e == [type |-> type, id |-> j, change |-> changes + 1]
<1>2. /\ changes' = changes + 1 /\ changes \in Nat
      /\ held' = [held EXCEPT ![j] = c] /\ used' = used \cup {j}
      /\ unsent' = unsent \cup {e}
      /\ UNCHANGED <<queue, session, collected, view, lagged, jumbled, silent>>
  BY <1>1 DEF Dash!Announced, Dash!Make, Dash!SessionUnchanged, StreamInv, StreamTypes
<1>3. e \in StreamEvent /\ e.id = j /\ e.type = type /\ e.change = changes + 1
  BY <1>2 DEF StreamEvent
<1> HIDE DEF e
<1>4. StreamTypes'
  BY <1>2, <1>3 DEF StreamInv, StreamTypes
<1>5. /\ \A f \in unsent : f.change \in Nat /\ f.change < e.change
      /\ \A k \in DOMAIN queue : queue[k].change \in Nat /\ queue[k].change < e.change
  <2>1. \A f \in StreamEvent : f.change \in Nat
    BY DEF StreamEvent
  <2>2. unsent \subseteq StreamEvent /\ \A k \in DOMAIN queue : queue[k] \in StreamEvent
    BY DEF StreamInv, StreamTypes
  <2>3. /\ \A f \in unsent : f.change <= changes
        /\ \A k \in DOMAIN queue : queue[k].change <= changes
    BY DEF StreamInv, StreamPast
  <2> QED
    BY <1>2, <1>3, <2>1, <2>2, <2>3
<1>6. StreamPast'
  BY <1>2, <1>3, <1>5 DEF StreamPast, StreamInv, StreamTypes
<1>7. \A i : /\ InLine(queue, unsent, i) => InLine(queue', unsent', i)
             /\ Pending(queue', unsent', i) =
                  Pending(queue, unsent, i) \cup (IF i = j THEN {e} ELSE {})
  <2> TAKE i
  <2>1. queue \in Seq(StreamEvent) /\ unsent \in SUBSET StreamEvent
    BY DEF StreamInv, StreamTypes
  <2>2. Pending(queue', unsent', i) = Pending(queue, unsent, i) \cup (IF i = j THEN {e} ELSE {})
    BY <1>2, <1>3 DEF Pending
  <2> QED
    BY <1>2, <1>3, <1>5, <2>1, <2>2, EventMade
<1>8. StreamKnown'
  <2> SUFFICES ASSUME NEW i \in Dash!Item \ used'
               PROVE  /\ held'[i] = 0 /\ Pending(queue', unsent', i) = {}
                      /\ RowsIn(view', i) = {} /\ (i \in DOMAIN collected' => collected'[i] = 0)
    BY DEF StreamKnown
  <2>1. i \in Dash!Item \ used /\ i # j
    BY <1>2
  <2> QED
    BY <1>2, <1>7, <2>1 DEF StreamInv, StreamTypes, StreamKnown
<1>9. ASSUME NEW i \in Dash!Item \ (jumbled \cup silent), i # j
      PROVE  StreamEntry(i)'
  <2>1. Pending(queue', unsent', i) = Pending(queue, unsent, i) /\ held'[i] = held[i]
    BY <1>2, <1>7, <1>9 DEF StreamInv, StreamTypes
  <2> QED
    BY <1>2, <1>7, <2>1 DEF StreamInv, StreamEntry
<1>10. ASSUME j \notin jumbled \cup silent
       PROVE  StreamEntry(j)'
  <2> DEFINE P == Pending(queue, unsent, j)
  <2>1. Pending(queue', unsent', j) = P \cup {e} /\ held'[j] = c
    BY <1>2, <1>7 DEF StreamInv, StreamTypes
  <2>2. StreamEntry(j)
    BY <1>10 DEF StreamInv
  <2>3. P \in SUBSET StreamEvent
    BY PendingIsEvents DEF StreamInv, StreamTypes
  <2>4. \A f \in P : f.change < e.change
    BY <1>5 DEF Pending
  <2>5. ASSUME Opens(e)
        PROVE  P = {} /\ RowsIn(view, j) = {} /\ (j \in DOMAIN collected => collected[j] = 0)
    <3>1. j \notin used
      BY <1>1, <1>3, <2>5 DEF Opens
    <3> QED
      BY <3>1 DEF StreamInv, StreamKnown
  <2>6. ~Opens(e) => held[j] # 0
    BY <1>1, <1>3 DEF Opens
  <2>7. c = IF e.type = "deleted" THEN 0 ELSE e.change
    BY <1>1, <1>3
  <2> HIDE DEF P
  <2>8. Story(P \cup {e}, c)
    <3>1. Story(P, held[j])
      BY <2>2 DEF StreamEntry, P
    <3>2. IF Opens(e) THEN P = {} ELSE held[j] # 0
      BY <2>5, <2>6
    <3> QED
      BY <1>3, <2>3, <2>4, <2>7, <3>1, <3>2, NextPart
  <2>9. ASSUME session = "live", ~lagged
        PROVE  Fits(P \cup {e}, c, RowsIn(view, j) # {}, ShownChange(view, j))
    <3>1. Fits(P, held[j], RowsIn(view, j) # {}, ShownChange(view, j))
      BY <2>2, <2>9 DEF StreamEntry, P
    <3>2. IF Opens(e) THEN P = {} /\ ~(RowsIn(view, j) # {}) ELSE held[j] # 0
      BY <2>5, <2>6
    <3> QED
      BY <1>3, <2>3, <3>1, <3>2, FitsWithNext
  <2>10. ASSUME session = "collecting", ~lagged, j \in DOMAIN collected
         PROVE  Fits(P \cup {e}, c, collected[j] # 0, collected[j])
    <3>1. Fits(P, held[j], collected[j] # 0, collected[j])
      BY <2>2, <2>10 DEF StreamEntry, P
    <3>2. IF Opens(e) THEN P = {} /\ ~(collected[j] # 0) ELSE held[j] # 0
      BY <2>5, <2>6, <2>10
    <3> QED
      BY <1>3, <2>3, <3>1, <3>2, FitsWithNext
  <2>11. InLine(queue', unsent', j)
    BY <1>7, <2>2 DEF StreamEntry
  <2>12. /\ session' = session /\ lagged' = lagged /\ collected' = collected
         /\ RowsIn(view', j) = RowsIn(view, j) /\ ShownChange(view', j) = ShownChange(view, j)
    BY <1>2
  <2> QED
    BY <2>1, <2>8, <2>9, <2>10, <2>11, <2>12 DEF StreamEntry
<1>11. \A i \in Dash!Item \ (jumbled \cup silent)' : StreamEntry(i)'
  BY <1>2, <1>9, <1>10
<1> QED
  BY <1>4, <1>6, <1>8, <1>11 DEF StreamInv

LEMMA StreamSilent ==
  ASSUME StreamInv, NEW j \in Dash!Item, Dash!Silent(j)
  PROVE  StreamInv'
<1>1. /\ changes' = changes + 1 /\ changes \in Nat /\ held[j] # 0
      /\ held' \in {[held EXCEPT ![j] = c] : c \in {0, changes'}}
      /\ silent' = silent \cup {j}
      /\ UNCHANGED <<used, unsent, queue, session, collected, view, lagged, jumbled>>
  BY DEF Dash!Silent, Dash!SessionUnchanged, StreamInv, StreamTypes
<1>2. PICK c \in Nat : held' = [held EXCEPT ![j] = c]
  BY <1>1
<1>3. StreamTypes'
  BY <1>1, <1>2 DEF StreamInv, StreamTypes
<1>4. StreamPast'
  <2>1. \A f \in StreamEvent : f.change \in Nat
    BY DEF StreamEvent
  <2>2. unsent \subseteq StreamEvent /\ \A k \in DOMAIN queue : queue[k] \in StreamEvent
    BY DEF StreamInv, StreamTypes
  <2>3. /\ \A f \in unsent : f.change <= changes
        /\ \A k \in DOMAIN queue : queue[k].change <= changes
    BY DEF StreamInv, StreamPast
  <2>4. \A f \in unsent : f.change <= changes'
    BY <1>1, <2>1, <2>2, <2>3
  <2>5. \A k \in DOMAIN queue : queue[k].change <= changes'
    BY <1>1, <2>1, <2>2, <2>3
  <2> QED
    BY <1>1, <2>4, <2>5 DEF StreamPast
<1>5. \A i \in Dash!Item : i # j => held'[i] = held[i]
  BY <1>2 DEF StreamInv, StreamTypes
<1>6. StreamKnown'
  BY <1>1, <1>5 DEF StreamInv, StreamKnown
<1>7. ASSUME NEW i \in Dash!Item \ (jumbled \cup silent)'
      PROVE  StreamEntry(i)'
  <2>1. i \in Dash!Item \ (jumbled \cup silent) /\ held'[i] = held[i]
    BY <1>1, <1>5
  <2> QED
    BY <1>1, <2>1 DEF StreamInv, StreamEntry
<1> QED
  BY <1>3, <1>4, <1>6, <1>7 DEF StreamInv

\* A server that is not touched, and a channel and a snapshot that are.
LEMMA StreamSameEntry ==
  ASSUME StreamInv, NEW i \in Dash!Item \ (jumbled \cup silent),
         UNCHANGED <<held, unsent, queue>>,
         session' = "live" /\ ~lagged' =>
           Fits(Pending(queue, unsent, i), held[i], RowsIn(view', i) # {}, ShownChange(view', i)),
         session' = "collecting" /\ ~lagged' /\ i \in DOMAIN collected' =>
           Fits(Pending(queue, unsent, i), held[i], collected'[i] # 0, collected'[i])
  PROVE  StreamEntry(i)'
BY DEF StreamInv, StreamEntry

LEMMA StreamCollect ==
  ASSUME StreamInv, NEW j \in Dash!Item, Dash!Collect(j)
  PROVE  StreamInv'
<1>1. /\ session = "collecting" /\ j \notin DOMAIN collected
      /\ collected' = [i \in DOMAIN collected \cup {j} |-> IF i = j THEN held[i] ELSE collected[i]]
      /\ UNCHANGED <<held, used, unsent, queue, session, view, changes, lagged, jumbled, silent>>
  BY DEF Dash!Collect, Dash!ServerUnchanged
<1>2. StreamTypes'
  BY <1>1 DEF StreamInv, StreamTypes
<1>3. StreamPast'
  BY <1>1 DEF StreamInv, StreamPast
<1>4. StreamKnown'
  BY <1>1 DEF StreamInv, StreamKnown
<1>5. ASSUME NEW i \in Dash!Item \ (jumbled \cup silent)'
      PROVE  StreamEntry(i)'
  <2> DEFINE P == Pending(queue, unsent, i)
  <2>1. i \in Dash!Item \ (jumbled \cup silent)
    BY <1>1
  <2>2. StreamEntry(i)
    BY <2>1 DEF StreamInv
  <2>3. Fits(P, held[i], held[i] # 0, held[i])
    <3>1. P \in SUBSET StreamEvent
      BY PendingIsEvents DEF StreamInv, StreamTypes
    <3>2. Story(P, held[i])
      BY <2>2 DEF StreamEntry
    <3> QED
      BY <3>1, <3>2, FitsWhenRead
  <2>4. ASSUME ~lagged, i \in DOMAIN collected'
        PROVE  Fits(P, held[i], collected'[i] # 0, collected'[i])
    <3>1. CASE i = j
      <4>1. collected'[i] = held[i]
        BY <1>1, <3>1
      <4> QED
        BY <2>3, <4>1
    <3>2. CASE i # j
      <4>1. i \in DOMAIN collected /\ collected'[i] = collected[i]
        BY <1>1, <2>4, <3>2
      <4> QED
        BY <1>1, <2>2, <2>4, <4>1 DEF StreamEntry
    <3> QED
      BY <3>1, <3>2
  <2> HIDE DEF P
  <2>5. session' = "collecting" /\ lagged' = lagged
    BY <1>1
  <2> QED
    BY <1>1, <2>1, <2>4, <2>5, StreamSameEntry DEF P
<1> QED
  BY <1>2, <1>3, <1>4, <1>5 DEF StreamInv

LEMMA StreamConnect ==
  ASSUME StreamInv, Dash!Connect \/ Dash!Refresh
  PROVE  StreamInv'
<1>1. /\ session' = "collecting" /\ collected' = <<>> /\ lagged' = FALSE
      /\ UNCHANGED <<held, used, unsent, queue, view, changes, jumbled, silent>>
  BY DEF Dash!Connect, Dash!Refresh, Dash!ServerUnchanged, StreamInv, StreamTypes
<1>2. DOMAIN collected' = {}
  BY <1>1
<1>3. StreamTypes' /\ StreamPast' /\ StreamKnown'
  BY <1>1, <1>2 DEF StreamInv, StreamTypes, StreamPast, StreamKnown
<1>4. ASSUME NEW i \in Dash!Item \ (jumbled \cup silent)'
      PROVE  StreamEntry(i)'
  <2>1. i \in Dash!Item \ (jumbled \cup silent)
    BY <1>1
  <2> QED
    BY <1>1, <1>2, <2>1, StreamSameEntry
<1> QED
  BY <1>3, <1>4 DEF StreamInv

LEMMA SameCardinality == \A S : Dash!Cardinality(S) = Cardinality(S)
BY DEF Dash!Cardinality, Cardinality

LEMMA StreamSnapshot ==
  ASSUME StreamInv, Dash!SendSnapshot
  PROVE  StreamInv'
<1> DEFINE there == {i \in Dash!Item : collected[i] # 0}
           n == Cardinality(there)
<1>1. /\ session = "collecting" /\ DOMAIN collected = Dash!Item
      /\ session' = "live" /\ collected' = <<>>
      /\ UNCHANGED <<held, used, unsent, queue, changes, lagged, jumbled, silent>>
  BY DEF Dash!SendSnapshot, Dash!ServerUnchanged
<1>2. PICK order \in [1..n -> there] :
        /\ \A i \in there : \E k \in DOMAIN order : order[k] = i
        /\ view' = [k \in DOMAIN order |-> Dash!Row(order[k], collected[order[k]])]
  BY SameCardinality DEF Dash!SendSnapshot
<1>3. n \in Nat
  <2>1. IsFiniteSet(Dash!Item)
    BY EntriesAssumption, FS_Union DEF Dash!Item
  <2>2. IsFiniteSet(there)
    BY <2>1, FS_Subset
  <2> QED
    BY <2>2, FS_CardinalityType
<1> HIDE DEF n
<1>4. /\ DOMAIN view' = 1..n
      /\ \A k \in 1..n :
           /\ order[k] \in there
           /\ view'[k].id = order[k] /\ view'[k].change = collected[order[k]]
           /\ view'[k] \in StreamRow
  BY <1>1, <1>2 DEF Dash!Row, StreamRow, StreamInv, StreamTypes
<1>5. view' \in Seq(StreamRow)
  <2>1. view' \in [1..n -> StreamRow]
    BY <1>2, <1>4
  <2> QED
    BY <1>3, <2>1
<1>6. DOMAIN collected' = {}
  BY <1>1
<1>7. \A i : RowsIn(view', i) # {} => i \in there
  BY <1>4 DEF RowsIn
<1>8. \A i \in there : RowsIn(view', i) # {} /\ ShownChange(view', i) = collected[i]
  <2> TAKE i \in there
  <2>1. RowsIn(view', i) # {}
    <3>1. PICK k \in 1..n : order[k] = i
      BY <1>2
    <3>2. k \in DOMAIN view' /\ view'[k].id = i
      BY <1>4, <3>1
    <3> QED
      BY <3>2 DEF RowsIn
  <2>2. FirstIn(view', i) \in RowsIn(view', i)
    BY <1>5, <2>1, FirstFacts
  <2> QED
    BY <1>4, <2>1, <2>2 DEF RowsIn, ShownChange
<1>9. StreamTypes'
  BY <1>1, <1>5, <1>6 DEF StreamInv, StreamTypes
<1>10. StreamPast'
  BY <1>1 DEF StreamInv, StreamPast
<1>11. StreamKnown'
  <2> SUFFICES ASSUME NEW i \in Dash!Item \ used'
               PROVE  /\ held'[i] = 0 /\ Pending(queue', unsent', i) = {}
                      /\ RowsIn(view', i) = {} /\ (i \in DOMAIN collected' => collected'[i] = 0)
    BY DEF StreamKnown
  <2>1. collected[i] = 0 /\ held[i] = 0 /\ Pending(queue, unsent, i) = {}
    BY <1>1 DEF StreamInv, StreamKnown
  <2> QED
    BY <1>1, <1>6, <1>7, <2>1
<1>12. ASSUME NEW i \in Dash!Item \ (jumbled \cup silent)'
       PROVE  StreamEntry(i)'
  <2> DEFINE P == Pending(queue, unsent, i)
  <2>1. i \in Dash!Item \ (jumbled \cup silent)
    BY <1>1
  <2>2. ASSUME ~lagged
        PROVE  Fits(P, held[i], RowsIn(view', i) # {}, ShownChange(view', i))
    <3>1. Fits(P, held[i], collected[i] # 0, collected[i])
      BY <1>1, <2>1, <2>2 DEF StreamInv, StreamEntry
    <3>2. CASE i \in there
      <4>1. (RowsIn(view', i) # {}) = (collected[i] # 0) /\ ShownChange(view', i) = collected[i]
        BY <1>8, <3>2
      <4> QED
        BY <3>1, <4>1
    <3>3. CASE i \notin there
      <4>1. ~(RowsIn(view', i) # {}) /\ ~(collected[i] # 0)
        BY <1>7, <2>1, <3>3
      <4> QED
        BY <3>1, <4>1 DEF Fits
    <3> QED
      BY <3>2, <3>3
  <2> HIDE DEF P
  <2> QED
    BY <1>1, <2>1, <2>2, StreamSameEntry DEF P
<1> QED
  BY <1>9, <1>10, <1>11, <1>12 DEF StreamInv

LEMMA SameKept == \A s, K : Dash!Kept(s, K) = Kept(s, K)
BY DEF Dash!Kept, Dash!InOrder, Dash!Rank, Dash!LessThan, Dash!Cardinality,
       Kept, InOrder, Rank, LessThan, Cardinality

LEMMA StreamSend ==
  ASSUME StreamInv, NEW e \in unsent, Dash!Send(e)
  PROVE  StreamInv'
<1> DEFINE w == Append(queue, e)
           u == unsent \ {e}
<1>1. /\ queue \in Seq(StreamEvent) /\ unsent \in SUBSET StreamEvent /\ e \in StreamEvent
      /\ unsent' = u
      /\ UNCHANGED <<held, used, session, collected, view, changes, silent>>
  BY DEF Dash!Send, StreamInv, StreamTypes
<1>2. /\ w \in Seq(StreamEvent) /\ w # <<>> /\ Len(w) = Len(queue) + 1 /\ Len(queue) \in Nat
      /\ \A k \in DOMAIN w : w[k] = e \/ \E l \in DOMAIN queue : w[k] = queue[l]
  BY <1>1
<1>3. \/ queue' = w /\ lagged' = lagged
      \/ queue' = Tail(w) /\ (session = "off" \/ lagged')
  <2>1. CASE session = "off"
    <3>1. queue = <<>> /\ Dash!Queued(e) = <<>>
      BY <2>1 DEF Dash!Queued, StreamInv, StreamTypes
    <3>2. ~(Len(<<>>) > Capacity)
      BY CapacityAssumption
    <3>3. queue' = <<>>
      BY <3>1, <3>2 DEF Dash!Send
    <3>4. Tail(w) = <<>>
      BY <1>1, <3>1
    <3> QED
      BY <2>1, <3>3, <3>4
  <2>2. CASE session # "off"
    <3>1. Dash!Queued(e) = w
      BY <2>2 DEF Dash!Queued
    <3> HIDE DEF w
    <3>2. lagged \in BOOLEAN
      BY DEF StreamInv, StreamTypes
    <3> QED
      BY <3>1, <3>2 DEF Dash!Send
  <2> QED
    BY <2>1, <2>2
<1>4. session = "off" => queue' = <<>>
  <2> SUFFICES ASSUME session = "off" PROVE queue' = <<>>
    OBVIOUS
  <2>1. Dash!Queued(e) = <<>> /\ ~(Len(<<>>) > Capacity)
    BY CapacityAssumption DEF Dash!Queued
  <2> QED
    BY <2>1 DEF Dash!Send
<1>5. /\ queue' \in Seq(StreamEvent)
      /\ \A k \in DOMAIN queue' : \E l \in DOMAIN w : queue'[k] = w[l]
  <2>1. CASE queue' = w
    BY <1>2, <2>1
  <2>2. CASE queue' = Tail(w)
    <3> HIDE DEF w
    <3>1. /\ Tail(w) \in Seq(StreamEvent) /\ Len(w) \in Nat \ {0}
          /\ \A k \in DOMAIN Tail(w) : k + 1 \in DOMAIN w /\ Tail(w)[k] = w[k + 1]
      BY <1>2
    <3> QED
      BY <2>2, <3>1
  <2> QED
    BY <1>3, <2>1, <2>2
<1> HIDE DEF w
<1>6. StreamTypes'
  <2>1. lagged' \in BOOLEAN
    BY DEF Dash!Send
  <2> QED
    BY <1>1, <1>4, <1>5, <2>1 DEF StreamInv, StreamTypes
<1>7. StreamPast'
  <2>1. /\ \A f \in unsent : f.change <= changes
        /\ \A k \in DOMAIN queue : queue[k].change <= changes
    BY DEF StreamInv, StreamPast
  <2>2. \A k \in DOMAIN w : w[k].change <= changes
    BY <1>2, <2>1
  <2> QED
    BY <1>1, <1>5, <2>1, <2>2 DEF StreamPast
<1>8. ASSUME NEW i
      PROVE  /\ Pending(w, u, i) \subseteq Pending(queue, unsent, i)
             /\ Pending(queue', unsent', i) \subseteq Pending(queue, unsent, i)
  <2>1. Pending(w, u, i) \subseteq Pending(queue, unsent, i)
    BY <1>2 DEF Pending
  <2>2. Pending(queue', u, i) \subseteq Pending(w, u, i)
    BY <1>5 DEF Pending
  <2> QED
    BY <1>1, <2>1, <2>2
<1>9. StreamKnown'
  <2> SUFFICES ASSUME NEW i \in Dash!Item \ used'
               PROVE  /\ held'[i] = 0 /\ Pending(queue', unsent', i) = {}
                      /\ RowsIn(view', i) = {} /\ (i \in DOMAIN collected' => collected'[i] = 0)
    BY DEF StreamKnown
  <2>1. i \in Dash!Item \ used
    BY <1>1
  <2>2. Pending(queue, unsent, i) = {} /\ Pending(queue', unsent', i) = {}
    BY <1>8, <2>1 DEF StreamInv, StreamKnown
  <2> QED
    BY <1>1, <2>1, <2>2 DEF StreamInv, StreamKnown
<1>10. ASSUME NEW i \in Dash!Item \ (jumbled \cup silent)'
       PROVE  StreamEntry(i)'
  <2> DEFINE P == Pending(queue, unsent, i)
  <2>1. i \in Dash!Item \ (jumbled \cup silent)
    BY <1>1 DEF Dash!Send
  <2>2. StreamEntry(i)
    BY <2>1 DEF StreamInv
  <2>3. e.id = i => \A f \in unsent : f.id = i => ~(f.change < e.change)
    BY DEF Dash!Send
  <2>4. InLine(w, u, i) /\ Pending(w, u, i) = P
    <3>1. InLine(queue, unsent, i) /\ \A f, g \in P : f.change = g.change => f = g
      BY <2>2 DEF StreamEntry, Story
    <3> QED
      BY <1>1, <2>3, <3>1, EventSent DEF w
  <2>5. P \in SUBSET StreamEvent
    BY <1>1, PendingIsEvents
  <2>6. Story(P, held[i])
    BY <2>2 DEF StreamEntry
  <2>7. CASE queue' = w /\ lagged' = lagged
    <3> HIDE DEF P
    <3> QED
      BY <1>1, <2>2, <2>4, <2>7 DEF StreamEntry, P
  <2>8. CASE queue' = Tail(w) /\ (session = "off" \/ lagged')
    <3> DEFINE Q == Pending(Tail(w), u, i)
    <3>1. /\ InLine(Tail(w), u, i)
          /\ Head(w).id # i => Q = P
          /\ Head(w).id = i => Q = P \ {Head(w)} /\ \A f \in Q : Head(w).change < f.change
      <4>1. u \in SUBSET StreamEvent
        BY <1>1
      <4>2. /\ InLine(Tail(w), u, i)
            /\ Head(w).id # i => Q = Pending(w, u, i)
            /\ Head(w).id = i => /\ Q = Pending(w, u, i) \ {Head(w)}
                                 /\ \A f \in Q : Head(w).change < f.change
        BY <1>2, <2>4, <4>1, HeadLeaves
      <4> QED
        BY <2>4, <4>2
    <3>2. Q \in SUBSET P /\ \A f \in Q, g \in P \ Q : g.change < f.change
      BY <3>1
    <3> HIDE DEF Q, P
    <3>3. Story(Q, held[i])
      BY <2>5, <2>6, <3>2, LaterPart
    <3>4. Pending(queue', unsent', i) = Q /\ InLine(queue', unsent', i)
      BY <1>1, <2>8, <3>1 DEF Q
    <3>5. session' = "off" \/ lagged'
      BY <1>1, <2>8
    <3> QED
      BY <1>1, <3>3, <3>4, <3>5 DEF StreamEntry
  <2> QED
    BY <1>3, <2>7, <2>8
<1> QED
  BY <1>6, <1>7, <1>9, <1>10 DEF StreamInv

LEMMA StreamDisconnect ==
  ASSUME StreamInv, Dash!Disconnect
  PROVE  StreamInv'
<1>1. /\ session' = "off" /\ queue' = <<>>
      /\ UNCHANGED <<held, used, unsent, collected, view, changes, lagged, jumbled, silent>>
  BY DEF Dash!Disconnect, Dash!ServerUnchanged
<1>2. StreamTypes' /\ StreamPast'
  BY <1>1 DEF StreamInv, StreamTypes, StreamPast
<1>3. \A i : Pending(queue', unsent', i) = {e \in unsent : e.id = i}
  BY <1>1 DEF Pending
<1>4. \A i : Pending(queue', unsent', i) \subseteq Pending(queue, unsent, i)
  BY <1>3 DEF Pending
<1>5. StreamKnown'
  <2> SUFFICES ASSUME NEW i \in Dash!Item \ used'
               PROVE  /\ held'[i] = 0 /\ Pending(queue', unsent', i) = {}
                      /\ RowsIn(view', i) = {} /\ (i \in DOMAIN collected' => collected'[i] = 0)
    BY DEF StreamKnown
  <2>1. i \in Dash!Item \ used
    BY <1>1
  <2>2. Pending(queue', unsent', i) = {}
    BY <1>4, <2>1 DEF StreamInv, StreamKnown
  <2> QED
    BY <1>1, <2>1, <2>2 DEF StreamInv, StreamKnown
<1>6. ASSUME NEW i \in Dash!Item \ (jumbled \cup silent)'
      PROVE  StreamEntry(i)'
  <2> DEFINE P == Pending(queue, unsent, i)
             Q == Pending(queue', unsent', i)
  <2>1. StreamEntry(i)
    BY <1>1 DEF StreamInv
  <2>2. P \in SUBSET StreamEvent /\ Q \in SUBSET P
    BY <1>4, PendingIsEvents DEF StreamInv, StreamTypes
  <2>3. \A f \in Q, g \in P \ Q : g.change < f.change
    <3> SUFFICES ASSUME NEW f \in Q, NEW g \in P \ Q PROVE g.change < f.change
      OBVIOUS
    <3>1. f \in unsent /\ f.id = i
      BY <1>3
    <3>2. PICK k \in DOMAIN queue : g = queue[k] /\ g.id = i
      BY <1>3 DEF Pending
    <3> QED
      BY <2>1, <3>1, <3>2 DEF StreamEntry, InLine
  <2>4. Story(P, held[i])
    BY <2>1 DEF StreamEntry
  <2>5. InLine(queue', unsent', i)
    BY <1>1 DEF InLine
  <2> HIDE DEF P, Q
  <2>6. Story(Q, held[i])
    BY <2>2, <2>3, <2>4, LaterPart
  <2> QED
    BY <1>1, <2>5, <2>6 DEF StreamEntry, Q
<1> QED
  BY <1>2, <1>5, <1>6 DEF StreamInv

\* What an event does to the rows.
LEMMA ShownFacts ==
  ASSUME view \in Seq(StreamRow), NEW e \in StreamEvent
  PROVE  LET w == Dash!Shown(e) IN
         /\ w \in Seq(StreamRow)
         /\ \A i : i # e.id => /\ RowsIn(w, i) = {} <=> RowsIn(view, i) = {}
                               /\ RowsIn(w, i) # {} => ShownChange(w, i) = ShownChange(view, i)
         /\ After(e, RowsIn(view, e.id) # {}, ShownChange(view, e.id),
                  RowsIn(w, e.id) # {}, ShownChange(w, e.id))
<1> DEFINE w == Dash!Shown(e)
           r == Dash!Row(e.id, e.change)
           Others ==
             \A i : i # e.id => /\ RowsIn(w, i) = {} <=> RowsIn(view, i) = {}
                                /\ RowsIn(w, i) # {} => ShownChange(w, i) = ShownChange(view, i)
           Own == After(e, RowsIn(view, e.id) # {}, ShownChange(view, e.id),
                        RowsIn(w, e.id) # {}, ShownChange(w, e.id))
<1>1. r \in StreamRow /\ r.id = e.id /\ r.change = e.change
  BY DEF Dash!Row, StreamRow, StreamEvent
<1>2. Dash!RowsOf(e.id) = RowsIn(view, e.id) /\ Dash!First(e.id) = FirstIn(view, e.id)
  BY DEF Dash!RowsOf, Dash!First, RowsIn, FirstIn
<1>3. Dash!Replace(e) = IF RowsIn(view, e.id) = {} THEN view
                        ELSE [view EXCEPT ![FirstIn(view, e.id)] = r]
  BY <1>2 DEF Dash!Replace
<1>4. CASE e.type = "created"
  <2>1. w = Append(view, r)
    BY <1>4 DEF Dash!Shown
  <2> HIDE DEF w, r
  <2>2. w \in Seq(StreamRow)
    BY <1>1, <2>1
  <2>3. Others
    BY <1>1, <2>1, RowAppended
  <2>4. /\ RowsIn(view, e.id) # {} =>
             RowsIn(w, e.id) # {} /\ ShownChange(w, e.id) = ShownChange(view, e.id)
        /\ RowsIn(view, e.id) = {} => RowsIn(w, e.id) # {} /\ ShownChange(w, e.id) = e.change
    BY <1>1, <2>1, RowAppended
  <2>5. Own
    BY <1>4, <2>4 DEF After
  <2> QED
    BY <2>2, <2>3, <2>5 DEF w
<1>5. ASSUME e.type \in {"started", "updated", "ended"}, RowsIn(view, e.id) # {}
      PROVE  w \in Seq(StreamRow) /\ Others /\ Own
  <2> DEFINE x == [view EXCEPT ![FirstIn(view, r.id)] = r]
  <2>1. w = x
    BY <1>1, <1>2, <1>3, <1>5 DEF Dash!Shown
  <2>2. ASSUME NEW i
        PROVE  /\ x \in Seq(StreamRow)
               /\ RowsIn(x, i) = {} <=> RowsIn(view, i) = {}
               /\ i # r.id /\ RowsIn(view, i) # {} => ShownChange(x, i) = ShownChange(view, i)
               /\ i = r.id => ShownChange(x, i) = r.change
    <3>1. RowsIn(view, r.id) # {}
      BY <1>1, <1>5
    <3> HIDE DEF r
    <3> QED
      BY <1>1, <3>1, RowReplaced
  <2> HIDE DEF w, r, x
  <2>3. w \in Seq(StreamRow) /\ Others
    BY <1>1, <2>1, <2>2
  <2>4. RowsIn(w, e.id) # {} /\ ShownChange(w, e.id) = e.change
    BY <1>1, <1>5, <2>1, <2>2
  <2>5. Own
    BY <1>5, <2>4 DEF After
  <2> QED
    BY <2>3, <2>5
<1>6. ASSUME e.type \in {"updated", "ended"}, RowsIn(view, e.id) = {}
      PROVE  w \in Seq(StreamRow) /\ Others /\ Own
  <2>1. w = view
    BY <1>3, <1>6 DEF Dash!Shown
  <2> HIDE DEF w
  <2> QED
    BY <1>6, <2>1 DEF After
<1>7. ASSUME e.type = "started", RowsIn(view, e.id) = {}
      PROVE  w \in Seq(StreamRow) /\ Others /\ Own
  <2>1. w = <<r>> \o view
    BY <1>2, <1>7 DEF Dash!Shown
  <2> HIDE DEF w, r
  <2>2. w \in Seq(StreamRow)
    BY <1>1, <2>1
  <2>3. Others
    BY <1>1, <2>1, RowPrepended
  <2>4. RowsIn(w, e.id) # {} /\ ShownChange(w, e.id) = e.change
    BY <1>1, <2>1, RowPrepended
  <2>5. Own
    BY <1>7, <2>4 DEF After
  <2> QED
    BY <2>2, <2>3, <2>5
<1>8. CASE e.type = "deleted"
  <2>1. w = Kept(view, DOMAIN view \ RowsIn(view, e.id))
    BY <1>2, <1>8, SameKept DEF Dash!Shown
  <2> HIDE DEF w
  <2>2. w \in Seq(StreamRow)
    BY <2>1, RowsRemoved
  <2>3. Others
    BY <2>1, RowsRemoved
  <2>4. RowsIn(w, e.id) = {}
    BY <2>1, RowsRemoved
  <2>5. Own
    BY <1>8, <2>4 DEF After
  <2> QED
    BY <2>2, <2>3, <2>5 DEF w
<1>9. e.type \in {"created", "started", "updated", "ended", "deleted"}
  BY DEF StreamEvent
<1>10. w \in Seq(StreamRow) /\ Others /\ Own
  BY <1>4, <1>5, <1>6, <1>7, <1>8, <1>9
<1> QED
  BY <1>10

LEMMA StreamReceive ==
  ASSUME StreamInv, Dash!Receive
  PROVE  StreamInv'
<1> DEFINE e == Head(queue)
<1>1. /\ session = "live" /\ queue # <<>> /\ queue' = Tail(queue) /\ view' = Dash!Shown(e)
      /\ UNCHANGED <<held, used, unsent, session, collected, changes, lagged, jumbled, silent>>
  BY DEF Dash!Receive, Dash!ServerUnchanged
<1>2. queue \in Seq(StreamEvent) /\ unsent \in SUBSET StreamEvent /\ view \in Seq(StreamRow)
  BY DEF StreamInv, StreamTypes
<1>3. /\ e \in StreamEvent /\ Tail(queue) \in Seq(StreamEvent)
      /\ \A k \in DOMAIN Tail(queue) : \E l \in DOMAIN queue : Tail(queue)[k] = queue[l]
      /\ \E l \in DOMAIN queue : e = queue[l]
  <2>1. /\ Len(queue) \in Nat \ {0} /\ Tail(queue) \in Seq(StreamEvent)
        /\ \A k \in DOMAIN Tail(queue) : k + 1 \in DOMAIN queue /\ Tail(queue)[k] = queue[k + 1]
        /\ 1 \in DOMAIN queue /\ e = queue[1]
    BY <1>1, <1>2
  <2> QED
    BY <1>2, <2>1
<1> HIDE DEF e
<1>4. /\ view' \in Seq(StreamRow)
      /\ \A i : i # e.id => /\ RowsIn(view', i) = {} <=> RowsIn(view, i) = {}
                            /\ RowsIn(view', i) # {} => ShownChange(view', i) = ShownChange(view, i)
      /\ After(e, RowsIn(view, e.id) # {}, ShownChange(view, e.id),
               RowsIn(view', e.id) # {}, ShownChange(view', e.id))
  BY <1>1, <1>2, <1>3, ShownFacts
<1>5. StreamTypes'
  BY <1>1, <1>3, <1>4 DEF StreamInv, StreamTypes
<1>6. StreamPast'
  BY <1>1, <1>3 DEF StreamInv, StreamPast
<1>7. \A i : Pending(queue', unsent', i) \subseteq Pending(queue, unsent, i)
  BY <1>1, <1>3 DEF Pending
<1>8. e \in Pending(queue, unsent, e.id) /\ e.id \in Dash!Item
  BY <1>3 DEF Pending, StreamEvent
<1>9. StreamKnown'
  <2> SUFFICES ASSUME NEW i \in Dash!Item \ used'
               PROVE  /\ held'[i] = 0 /\ Pending(queue', unsent', i) = {}
                      /\ RowsIn(view', i) = {} /\ (i \in DOMAIN collected' => collected'[i] = 0)
    BY DEF StreamKnown
  <2>1. /\ held[i] = 0 /\ Pending(queue, unsent, i) = {}
        /\ RowsIn(view, i) = {} /\ (i \in DOMAIN collected => collected[i] = 0)
    BY <1>1 DEF StreamInv, StreamKnown
  <2>2. i # e.id
    BY <1>8, <2>1
  <2> QED
    BY <1>1, <1>4, <1>7, <2>1, <2>2
<1>10. ASSUME NEW i \in Dash!Item \ (jumbled \cup silent)'
       PROVE  StreamEntry(i)'
  <2> DEFINE P == Pending(queue, unsent, i)
             Q == Pending(queue', unsent', i)
  <2>1. StreamEntry(i)
    BY <1>1 DEF StreamInv
  <2>2. /\ InLine(queue', unsent', i)
        /\ e.id # i => Q = P
        /\ e.id = i => e \in P /\ Q = P \ {e} /\ \A f \in Q : e.change < f.change
    <3>1. InLine(queue, unsent, i)
      BY <2>1 DEF StreamEntry
    <3> QED
      BY <1>1, <1>2, <3>1, HeadLeaves DEF e
  <2>3. P \in SUBSET StreamEvent /\ Q \in SUBSET P
    BY <1>2, <1>7, PendingIsEvents
  <2>4. Story(P, held[i])
    BY <2>1 DEF StreamEntry
  <2> HIDE DEF P, Q
  <2>5. Story(Q, held[i])
    <3>1. \A f \in Q, g \in P \ Q : g.change < f.change
      BY <2>2
    <3> QED
      BY <2>3, <2>4, <3>1, LaterPart
  <2>6. ASSUME ~lagged
        PROVE  Fits(Q, held[i], RowsIn(view', i) # {}, ShownChange(view', i))
    <3>1. Fits(P, held[i], RowsIn(view, i) # {}, ShownChange(view, i))
      BY <1>1, <2>1, <2>6 DEF StreamEntry, P
    <3>2. CASE e.id # i
      <4>1. /\ (RowsIn(view', i) # {}) = (RowsIn(view, i) # {})
            /\ RowsIn(view', i) # {} => ShownChange(view', i) = ShownChange(view, i)
        BY <1>4, <3>2
      <4> QED
        BY <2>2, <3>1, <3>2, <4>1 DEF Fits
    <3>3. CASE e.id = i
      <4>1. After(e, RowsIn(view, i) # {}, ShownChange(view, i),
                  RowsIn(view', i) # {}, ShownChange(view', i))
        BY <1>4, <3>3
      <4>2. \A f \in P \ {e} : e.change < f.change
        BY <2>2, <3>3
      <4>3. e \in P /\ Q = P \ {e}
        BY <2>2, <3>3
      <4> DEFINE there == RowsIn(view, i) # {}
                 now == RowsIn(view', i) # {}
      <4>4. there \in BOOLEAN /\ now \in BOOLEAN
        OBVIOUS
      <4> HIDE DEF there, now
      <4>5. /\ Fits(P, held[i], there, ShownChange(view, i))
            /\ After(e, there, ShownChange(view, i), now, ShownChange(view', i))
        BY <3>1, <4>1 DEF there, now
      <4>6. Fits(P \ {e}, held[i], now, ShownChange(view', i))
        BY <2>3, <2>4, <4>2, <4>3, <4>4, <4>5, FitsWhenShown
      <4> QED
        BY <4>3, <4>6 DEF now
    <3> QED
      BY <3>2, <3>3
  <2> QED
    BY <1>1, <2>2, <2>5, <2>6 DEF StreamEntry, Q
<1> QED
  BY <1>5, <1>6, <1>9, <1>10 DEF StreamInv

-----------------------------------------------------------------------------
(* EventStream: the theorem.                                                *)

LEMMA StreamStep ==
  ASSUME StreamInv, Dash!Next
  PROVE  StreamInv'
<1>1. CASE \E i \in Dash!Item : Dash!Announced(i) \/ Dash!Silent(i) \/ Dash!Collect(i)
  BY <1>1, StreamAnnounced, StreamSilent, StreamCollect
<1>2. CASE \E e \in unsent : Dash!Send(e)
  BY <1>2, StreamSend
<1>3. CASE Dash!Connect \/ Dash!Refresh
  BY <1>3, StreamConnect
<1>4. CASE Dash!SendSnapshot
  BY <1>4, StreamSnapshot
<1>5. CASE Dash!Receive
  BY <1>5, StreamReceive
<1>6. CASE Dash!Disconnect
  BY <1>6, StreamDisconnect
<1> QED
  BY <1>1, <1>2, <1>3, <1>4, <1>5, <1>6 DEF Dash!Next

LEMMA StreamRests ==
  ASSUME StreamInv, UNCHANGED streamVars
  PROVE  StreamInv'
<1>1. /\ held' = held /\ used' = used /\ unsent' = unsent /\ queue' = queue
      /\ session' = session /\ collected' = collected /\ view' = view /\ changes' = changes
      /\ lagged' = lagged /\ jumbled' = jumbled /\ silent' = silent
  BY DEF streamVars
<1>2. StreamTypes' /\ StreamPast' /\ StreamKnown'
  BY <1>1 DEF StreamInv, StreamTypes, StreamPast, StreamKnown
<1>3. ASSUME NEW i \in Dash!Item \ (jumbled \cup silent)'
      PROVE  StreamEntry(i)'
  BY <1>1 DEF StreamInv, StreamEntry
<1> QED
  BY <1>2, <1>3 DEF StreamInv

LEMMA StreamShows ==
  ASSUME StreamInv
  PROVE  DashboardCatchesUp
<1> SUFFICES ASSUME Dash!Settled, NEW i \in Dash!Item \ (jumbled \cup silent)
             PROVE  IF Dash!RowsOf(i) = {} THEN held[i] = 0
                    ELSE view[Dash!First(i)].change = held[i]
  BY DEF DashboardCatchesUp, Dash!DashboardCatchesUp
<1>1. session = "live" /\ queue = <<>> /\ unsent = {} /\ ~lagged
  BY DEF Dash!Settled
<1>2. Pending(queue, unsent, i) = {}
  BY <1>1 DEF Pending
<1>3. Fits({}, held[i], RowsIn(view, i) # {}, ShownChange(view, i))
  BY <1>1, <1>2 DEF StreamInv, StreamEntry
<1>4. Dash!RowsOf(i) = RowsIn(view, i) /\ Dash!First(i) = FirstIn(view, i)
  BY DEF Dash!RowsOf, Dash!First, RowsIn, FirstIn
<1> QED
  BY <1>3, <1>4 DEF Fits, ShownChange

\* For any number of entries and changes and any capacity of the channel, a dashboard that has
\* received everything shows of each entry what the server holds, whenever its snapshot was
\* taken, unless events were lost, overtook each other, or are never sent.
THEOREM DashboardCatchesUpWithTheServer == ClientsSpec => []DashboardCatchesUp
<1>1. ClientsInit => StreamInv
  BY StreamInit DEF ClientsInit
<1>2. StreamInv /\ [ClientsNext]_clientsVars => StreamInv'
  <2> SUFFICES ASSUME StreamInv, [ClientsNext]_clientsVars PROVE StreamInv'
    OBVIOUS
  <2>1. CASE Dash!Next
    BY <2>1, StreamStep
  <2>2. CASE UNCHANGED streamVars
    BY <2>2, StreamRests
  <2> QED
    BY <2>1, <2>2 DEF ClientsNext, clientsVars
<1>3. StreamInv => DashboardCatchesUp
  BY StreamShows
<1> QED
  BY <1>1, <1>2, <1>3, PTL DEF ClientsSpec

-----------------------------------------------------------------------------
(* Listing: the list.                                                       *)

LEMMA SameInOrder == \A S, R : Lists!InOrder(S, R) = InOrder(S, R)
BY DEF Lists!InOrder, Lists!Rank, Lists!Cardinality, InOrder, Rank, Cardinality

\* What the query of the walk lists, and which of two entries it lists first.
Listable == {e \in Entry : Lists!Matches(e, query)}
Earlier == {ab \in Entry \X Entry : Lists!Precedes(ab[1], ab[2], query)}

\* The entries that a page skips.
Skip == page * Lists!Limit(query.limit)

\* An entry that is there has a time of its own, which has been.
ListTypes ==
  /\ time \in Nat /\ page \in Nat /\ phase \in {"idle", "walking", "over"}
  /\ query \in Lists!Queries
  /\ got \in Seq(Entry)
  /\ DOMAIN entries = Entry
  /\ \A e \in Entry : entries[e] # Lists!Gone =>
       /\ entries[e] = [status |-> entries[e].status, time |-> entries[e].time]
       /\ entries[e].time \in 1..time
  /\ \A d, e \in Entry :
       d # e /\ entries[d] # Lists!Gone /\ entries[e] # Lists!Gone =>
         entries[d].time # entries[e].time

\* A walk that met no change has all that its pages skip.  One in the default order that lost
\* nothing has every entry that was not touched, or has it before it.
ListWalk ==
  /\ phase = "idle" => page = 0 /\ got = <<>>
  /\ touched = {} /\ phase # "over" =>
       Skip <= Len(Lists!Listed(query)) /\ got = SubSeq(Lists!Listed(query), 1, Skip)
  /\ touched = {} /\ phase = "over" => got = Lists!Listed(query)
  /\ query.order = "desc" /\ ~shrunk =>
       \A e \in Listable \ touched :
         \/ \E i \in DOMAIN got : got[i] = e
         \/ phase # "over" /\ Rank(Listable, Earlier, e) >= Skip

ListInv == ListTypes /\ ListWalk

LEMMA ListedFacts ==
  ASSUME ListTypes
  PROVE  /\ IsFiniteSet(Listable) /\ IsOrder(Listable, Earlier)
         /\ Lists!Listed(query) = InOrder(Listable, Earlier)
         /\ Lists!Listed(query) \in Seq(Entry)
         /\ \A e \in Listable :
              /\ Rank(Listable, Earlier, e) \in Nat
              /\ Rank(Listable, Earlier, e) + 1 \in 1..Len(Lists!Listed(query))
              /\ Lists!Listed(query)[Rank(Listable, Earlier, e) + 1] = e
<1>1. IsFiniteSet(Listable)
  BY EntriesAssumption, FS_Subset DEF Listable
<1>2. \A e \in Listable : e \in Entry /\ entries[e] # Lists!Gone /\ entries[e].time \in Nat
  BY DEF ListTypes, Listable, Lists!Matches
<1>3. query.order \in {"asc", "desc"}
  BY DEF ListTypes, Lists!Queries, Lists!Orders
<1>4. \A d, e \in Listable : d # e => entries[d].time # entries[e].time
  BY <1>2 DEF ListTypes
<1>5. \A d, e \in Listable :
        <<d, e>> \in Earlier <=> IF query.order = "asc" THEN entries[d].time < entries[e].time
                                                        ELSE entries[e].time < entries[d].time
  BY <1>2 DEF Earlier, Lists!Precedes
<1>6. IsOrder(Listable, Earlier)
  <2>1. \A x \in Listable : <<x, x>> \notin Earlier
    BY <1>2, <1>5
  <2>2. \A x, y \in Listable : x # y => <<x, y>> \in Earlier \/ <<y, x>> \in Earlier
    BY <1>2, <1>4, <1>5
  <2>3. \A x, y, z \in Listable :
          <<x, y>> \in Earlier /\ <<y, z>> \in Earlier => <<x, z>> \in Earlier
    BY <1>2, <1>5
  <2> QED
    BY <2>1, <2>2, <2>3 DEF IsOrder
<1>7. Lists!Listed(query) = InOrder(Listable, Earlier)
  BY SameInOrder DEF Lists!Listed, Listable, Earlier
<1> DEFINE s == InOrder(Listable, Earlier)
<1>8. /\ s \in Seq(Listable) /\ Len(s) = Cardinality(Listable)
      /\ \A e \in Listable : /\ Rank(Listable, Earlier, e) + 1 \in 1..Cardinality(Listable)
                             /\ s[Rank(Listable, Earlier, e) + 1] = e
  BY <1>1, <1>6, InOrderFacts
<1>9. \A e \in Listable : Rank(Listable, Earlier, e) \in Nat
  BY <1>1, <1>6, RankInRange
<1> HIDE DEF s
<1>10. s \in Seq(Entry)
  <2>1. s \in [1..Len(s) -> Listable] /\ Len(s) \in Nat
    BY <1>8
  <2>2. s \in [1..Len(s) -> Entry]
    BY <1>2, <2>1
  <2> QED
    BY <2>1, <2>2
<1> QED
  BY <1>1, <1>6, <1>7, <1>8, <1>9, <1>10 DEF s

LEMMA LimitFacts ==
  ASSUME ListTypes
  PROVE  /\ Lists!Limit(query.limit) \in Nat /\ Skip \in Nat
         /\ query.limit = 0 => Lists!Limit(query.limit) = 0
         /\ (page + 1) * Lists!Limit(query.limit) = Skip + Lists!Limit(query.limit)
<1>1. query.limit \in Nat
  BY MaxLimitAssumption DEF ListTypes, Lists!Queries
<1>2. Lists!Limit(query.limit) \in Nat
  BY <1>1, MaxLimitAssumption DEF Lists!Limit
<1>3. query.limit = 0 => Lists!Limit(query.limit) = 0
  BY MaxLimitAssumption DEF Lists!Limit
<1> DEFINE l == Lists!Limit(query.limit)
<1>4. page \in Nat /\ l \in Nat
  BY <1>2 DEF ListTypes
<1> HIDE DEF l
<1>5. page * l \in Nat /\ (page + 1) * l = page * l + l
  BY <1>4
<1> QED
  BY <1>2, <1>3, <1>5 DEF Skip, l

LEMMA ListInit ==
  ASSUME Lists!Init
  PROVE  ListInv
<1>1. ListTypes
  BY DEF Lists!Init, ListTypes
<1>2. Listable = {}
  BY DEF Lists!Init, Listable, Lists!Matches
<1>3. Skip = 0
  <2>1. page = 0 /\ Lists!Limit(query.limit) \in Nat
    BY <1>1, LimitFacts DEF Lists!Init
  <2> QED
    BY <2>1 DEF Skip
<1>4. ListWalk
  <2>1. Lists!Listed(query) \in Seq(Entry)
    BY <1>1, ListedFacts
  <2>2. Skip <= Len(Lists!Listed(query)) /\ SubSeq(Lists!Listed(query), 1, Skip) = <<>>
    BY <1>3, <2>1
  <2> QED
    BY <1>2, <2>2 DEF Lists!Init, ListWalk
<1> QED
  BY <1>1, <1>4 DEF ListInv

-----------------------------------------------------------------------------
(* Listing: the steps.                                                      *)

\* A page and what is before it are what the next page skips.
LEMMA PagesJoin ==
  ASSUME NEW T, NEW s \in Seq(T), NEW n \in Nat, NEW l \in Nat, n <= Len(s)
  PROVE  LET m == IF n + l < Len(s) THEN n + l ELSE Len(s) IN
         SubSeq(s, 1, n) \o SubSeq(s, n + 1, m) = SubSeq(s, 1, m)
<1> DEFINE m == IF n + l < Len(s) THEN n + l ELSE Len(s)
<1>1. Len(s) \in Nat /\ m \in Nat /\ n <= m /\ m <= Len(s)
  OBVIOUS
<1> HIDE DEF m
<1> DEFINE a == SubSeq(s, 1, n)
           b == SubSeq(s, n + 1, m)
           c == SubSeq(s, 1, m)
<1>2. a \in Seq(T) /\ Len(a) = n /\ \A i \in 1..n : a[i] = s[i]
  BY <1>1
<1>3. b \in Seq(T) /\ Len(b) = m - n /\ \A i \in 1..m - n : b[i] = s[n + i]
  BY <1>1
<1>4. c \in Seq(T) /\ Len(c) = m /\ \A i \in 1..m : c[i] = s[i]
  BY <1>1
<1> HIDE DEF a, b, c
<1>5. a \o b \in Seq(T) /\ Len(a \o b) = m
  <2>1. a \in Seq(T) /\ b \in Seq(T)
    BY <1>2, <1>3
  <2>2. a \o b \in Seq(T) /\ Len(a \o b) = Len(a) + Len(b)
    BY <2>1
  <2> QED
    BY <1>1, <1>2, <1>3, <2>2
<1>6. \A i \in 1..m : (a \o b)[i] = c[i]
  <2> TAKE i \in 1..m
  <2>1. CASE i \in 1..n
    BY <1>1, <1>2, <1>3, <1>4, <2>1
  <2>2. CASE i \notin 1..n
    <3>1. i - n \in 1..m - n /\ n + (i - n) = i
      BY <1>1, <2>2
    <3>2. (a \o b)[i] = b[i - n]
      BY <1>1, <1>2, <1>3, <2>2, <3>1
    <3> QED
      BY <1>3, <1>4, <3>1, <3>2
  <2> QED
    BY <2>1, <2>2
<1>7. a \o b = c
  BY <1>1, <1>4, <1>5, <1>6
<1> QED
  BY <1>7 DEF a, b, c, m


LEMMA ListPage ==
  ASSUME ListInv, Lists!GetPage
  PROVE  ListInv'
<1> DEFINE s == Lists!Listed(query)
           l == Lists!Limit(query.limit)
           m == IF Skip + l < Len(s) THEN Skip + l ELSE Len(s)
           cut == SubSeq(s, Skip + 1, m)
<1>1. ListTypes /\ ListWalk
  BY DEF ListInv
<1>2. /\ l \in Nat /\ Skip \in Nat /\ (query.limit = 0 => l = 0)
      /\ (page + 1) * l = Skip + l /\ page \in Nat
  BY <1>1, LimitFacts DEF ListTypes
<1>3. /\ phase # "over"
      /\ got' = got \o cut
      /\ phase' = IF Skip + l < Len(s) THEN "walking" ELSE "over"
      /\ page' = IF query.limit = 0 THEN page ELSE page + 1
      /\ UNCHANGED <<entries, time, query, touched, shrunk>>
  BY <1>2 DEF Lists!GetPage, Lists!PageOf, Lists!HasMore, Skip
<1>4. Skip' = Skip + l /\ page' \in Nat
  <2>1. Skip' = page' * l
    BY <1>3 DEF Skip, Lists!Limit
  <2>2. CASE query.limit = 0
    BY <1>2, <1>3, <2>1, <2>2 DEF Skip
  <2>3. CASE query.limit # 0
    BY <1>2, <1>3, <2>1, <2>3
  <2> QED
    BY <1>2, <1>3, <2>2, <2>3
<1>5. /\ Lists!Listed(query)' = s /\ Listable' = Listable /\ Earlier' = Earlier
  BY <1>3 DEF Lists!Listed, Lists!Matches, Lists!Precedes, Listable, Earlier
<1>6. /\ s \in Seq(Entry)
      /\ \A e \in Listable : /\ Rank(Listable, Earlier, e) \in Nat
                             /\ Rank(Listable, Earlier, e) + 1 \in 1..Len(s)
                             /\ s[Rank(Listable, Earlier, e) + 1] = e
  BY <1>1, ListedFacts
<1>7. got \in Seq(Entry)
  BY <1>1 DEF ListTypes
<1> HIDE DEF s, l
<1>8. Len(s) \in Nat /\ m \in Nat /\ m <= Len(s) /\ m <= Skip + l
  BY <1>2, <1>6
<1>9. /\ cut \in Seq(Entry)
      /\ \A k \in Skip + 1..m : k - Skip \in DOMAIN cut /\ cut[k - Skip] = s[k]
  <2>1. CASE Skip + 1 <= m
    <3>1. /\ cut \in Seq(Entry) /\ Len(cut) = m - Skip
          /\ \A i \in 1..m - Skip : cut[i] = s[Skip + i]
      BY <1>2, <1>6, <1>8, <2>1
    <3> HIDE DEF cut, m
    <3>2. \A k \in Skip + 1..m : k - Skip \in 1..m - Skip /\ Skip + (k - Skip) = k
      BY <1>2, <1>8
    <3>3. DOMAIN cut = 1..m - Skip
      BY <3>1
    <3> QED
      BY <3>1, <3>2, <3>3
  <2>2. CASE ~(Skip + 1 <= m)
    <3>1. cut \in Seq(Entry)
      BY <1>2, <1>6, <1>8, <2>2
    <3>2. Skip + 1..m = {}
      BY <1>2, <1>8, <2>2
    <3> QED
      BY <3>1, <3>2
  <2> QED
    BY <2>1, <2>2
<1> HIDE DEF cut
<1>10. /\ got' \in Seq(Entry)
       /\ \A k \in DOMAIN got : k \in DOMAIN got' /\ got'[k] = got[k]
       /\ \A k \in DOMAIN cut : Len(got) + k \in DOMAIN got' /\ got'[Len(got) + k] = cut[k]
  BY <1>3, <1>7, <1>9
<1>11. ListTypes'
  BY <1>1, <1>3, <1>4, <1>10 DEF ListTypes
<1>12. ASSUME touched = {}
       PROVE  got' = SubSeq(s, 1, m)
  <2>1. Skip <= Len(s) /\ got = SubSeq(s, 1, Skip)
    BY <1>1, <1>3, <1>12 DEF ListWalk, s
  <2> QED
    BY <1>2, <1>3, <1>6, <2>1, PagesJoin DEF cut
<1>13. touched' = {} /\ phase' # "over" => Skip' <= Len(s) /\ got' = SubSeq(s, 1, Skip')
  BY <1>2, <1>3, <1>4, <1>8, <1>12
<1>14. touched' = {} /\ phase' = "over" => got' = s
  <2>1. SubSeq(s, 1, Len(s)) = s
    BY <1>6
  <2> QED
    BY <1>3, <1>12, <2>1
<1>15. ASSUME query.order = "desc", ~shrunk, NEW e \in Listable \ touched
       PROVE  \/ \E i \in DOMAIN got' : got'[i] = e
              \/ phase' # "over" /\ Rank(Listable, Earlier, e) >= Skip'
  <2> DEFINE r == Rank(Listable, Earlier, e)
  <2>1. r \in Nat /\ r + 1 \in 1..Len(s) /\ s[r + 1] = e
    BY <1>6
  <2> HIDE DEF r
  <2>2. (\E i \in DOMAIN got : got[i] = e) \/ r >= Skip
    BY <1>1, <1>3, <1>15 DEF ListWalk, r
  <2>3. CASE \E i \in DOMAIN got : got[i] = e
    BY <1>10, <2>3
  <2>4. CASE r >= Skip /\ r < Skip + l
    <3>1. r + 1 \in Skip + 1..m
      BY <1>2, <1>8, <2>1, <2>4
    <3>2. (r + 1) - Skip \in DOMAIN cut /\ cut[(r + 1) - Skip] = e
      BY <1>9, <2>1, <3>1
    <3> QED
      BY <1>10, <3>2
  <2>5. CASE r >= Skip + l
    <3>1. Skip + l < Len(s)
      BY <1>2, <1>8, <2>1, <2>5
    <3> QED
      BY <1>3, <1>4, <2>5, <3>1 DEF r
  <2>6. r < Skip + l \/ r >= Skip + l
    BY <1>2, <2>1
  <2> QED
    BY <2>2, <2>3, <2>4, <2>5, <2>6
<1>16. phase' # "idle"
  BY <1>3
<1>17. ListWalk'
  BY <1>3, <1>5, <1>13, <1>14, <1>15, <1>16 DEF ListWalk
<1> QED
  BY <1>11, <1>17 DEF ListInv

\* What a step of a proof can cite in its primed form.
ListedWell ==
  /\ Lists!Listed(query) \in Seq(Entry)
  /\ \A e \in Listable : Rank(Listable, Earlier, e) \in Nat

LEMMA ListedAtAnyTime == ListTypes => ListedWell
BY ListedFacts DEF ListedWell

LEMMA ListChange ==
  ASSUME ListInv, NEW j \in Entry, Lists!Change(j)
  PROVE  ListInv'
<1>1. ListTypes /\ ListWalk
  BY DEF ListInv
<1>2. PICK to \in {Lists!Gone} \cup [status : Status, time : {time + 1}] :
        /\ entries' = [entries EXCEPT ![j] = to]
        /\ shrunk' = (shrunk \/ (phase = "walking" /\ Lists!Matches(j, query) /\
                                   (to = Lists!Gone \/ query.status \notin {"any", to.status})))
  BY DEF Lists!Change
<1>3. /\ phase # "over" /\ time' = time + 1
      /\ touched' = IF phase = "walking" THEN touched \cup {j} ELSE touched
      /\ UNCHANGED <<query, page, got, phase>>
  BY DEF Lists!Change
<1>4. /\ time \in Nat /\ DOMAIN entries' = Entry /\ entries'[j] = to
      /\ \A e \in Entry : e # j => entries'[e] = entries[e]
  BY <1>1, <1>2 DEF ListTypes
<1>5. to # Lists!Gone => /\ to = [status |-> to.status, time |-> to.time] /\ to.time = time + 1
  BY <1>2
<1>6. \A e \in Entry : entries[e] # Lists!Gone => entries[e].time \in 1..time
  BY <1>1 DEF ListTypes
<1>7. ListTypes'
  <2>1. \A e \in Entry : entries'[e] # Lists!Gone =>
          /\ entries'[e] = [status |-> entries'[e].status, time |-> entries'[e].time]
          /\ entries'[e].time \in 1..time'
    <3> TAKE e \in Entry
    <3>1. CASE e = j
      BY <1>3, <1>4, <1>5, <3>1
    <3>2. CASE e # j
      BY <1>1, <1>3, <1>4, <1>6, <3>2 DEF ListTypes
    <3> QED
      BY <3>1, <3>2
  <2>2. \A d, e \in Entry :
          d # e /\ entries'[d] # Lists!Gone /\ entries'[e] # Lists!Gone =>
            entries'[d].time # entries'[e].time
    <3> SUFFICES ASSUME NEW d \in Entry, NEW e \in Entry, d # e,
                        entries'[d] # Lists!Gone, entries'[e] # Lists!Gone
                 PROVE  entries'[d].time # entries'[e].time
      OBVIOUS
    <3>1. CASE d = j
      BY <1>4, <1>5, <1>6, <3>1
    <3>2. CASE e = j
      BY <1>4, <1>5, <1>6, <3>2
    <3>3. CASE d # j /\ e # j
      BY <1>1, <1>4, <3>3 DEF ListTypes
    <3> QED
      BY <3>1, <3>2, <3>3
  <2>3. Lists!Gone' = Lists!Gone
    BY DEF Lists!Gone
  <2> QED
    BY <1>1, <1>3, <1>4, <2>1, <2>2, <2>3 DEF ListTypes
<1>8. Skip' = Skip /\ Skip \in Nat
  BY <1>1, <1>3, LimitFacts DEF Skip, Lists!Limit
<1>9. CASE phase = "idle"
  <2>1. Skip = 0
    <3>1. page = 0 /\ Lists!Limit(query.limit) \in Nat
      BY <1>1, <1>9, LimitFacts DEF ListWalk
    <3> QED
      BY <3>1 DEF Skip
  <2>2. ListedWell'
    BY <1>7, ListedAtAnyTime, PTL
  <2>3. SubSeq(Lists!Listed(query)', 1, 0) = <<>> /\ 0 <= Len(Lists!Listed(query)')
    BY <2>2 DEF ListedWell
  <2> QED
    BY <1>1, <1>3, <1>7, <1>8, <1>9, <2>1, <2>2, <2>3
      DEF ListInv, ListWalk, ListedWell
<1>10. CASE phase = "walking"
  <2>1. touched' # {}
    BY <1>3, <1>10
  <2>2. ASSUME query.order = "desc", ~shrunk', NEW e \in Listable' \ touched'
        PROVE  \/ \E i \in DOMAIN got : got[i] = e
               \/ Rank(Listable', Earlier', e) >= Skip
    <3>1. e # j /\ e \in Entry /\ e \in Listable /\ e \notin touched /\ ~shrunk
      BY <1>2, <1>3, <1>4, <1>10, <2>2 DEF Listable, Lists!Matches
    <3>2. (\E i \in DOMAIN got : got[i] = e) \/ Rank(Listable, Earlier, e) >= Skip
      BY <1>1, <2>2, <3>1 DEF ListWalk
    <3> DEFINE B == {d \in Listable : <<d, e>> \in Earlier}
               C == {d \in Listable' : <<d, e>> \in Earlier'}
    <3>3. B \subseteq C
      <4> SUFFICES ASSUME NEW d \in Listable, <<d, e>> \in Earlier
                   PROVE  d \in Listable' /\ <<d, e>> \in Earlier'
        OBVIOUS
      <4>1. /\ d \in Entry /\ Lists!Matches(d, query) /\ entries[e].time < entries[d].time
            /\ entries[e] # Lists!Gone
        BY <2>2, <3>1 DEF Earlier, Lists!Precedes, Listable, Lists!Matches
      <4>2. CASE d # j
        BY <1>3, <1>4, <2>2, <3>1, <4>1, <4>2
          DEF Listable, Earlier, Lists!Matches, Lists!Precedes, Lists!Gone
      <4>3. CASE d = j
        <5>1. to # Lists!Gone /\ query.status \in {"any", to.status}
          BY <1>2, <1>10, <2>2, <4>1, <4>3
        <5>2. Lists!Matches(d, query)'
          BY <1>3, <1>4, <4>3, <5>1 DEF Lists!Matches, Lists!Gone
        <5>3. entries'[e].time < entries'[d].time
          BY <1>4, <1>5, <1>6, <3>1, <4>1, <4>3, <5>1
        <5> QED
          BY <1>3, <2>2, <3>1, <4>1, <5>2, <5>3 DEF Listable, Earlier, Lists!Precedes
      <4> QED
        BY <4>2, <4>3
    <3>4. IsFiniteSet(C)
      <4>1. C \subseteq Entry
        BY DEF Listable
      <4> QED
        BY <4>1, EntriesAssumption, FS_Subset
    <3>5. Cardinality(B) <= Cardinality(C) /\ Cardinality(B) \in Nat /\ Cardinality(C) \in Nat
      BY <3>3, <3>4, FS_Subset, FS_CardinalityType
    <3> QED
      BY <1>8, <3>2, <3>5 DEF Rank
  <2> QED
    BY <1>3, <1>7, <1>8, <1>10, <2>1, <2>2 DEF ListInv, ListWalk
<1> QED
  BY <1>1, <1>3, <1>9, <1>10 DEF ListTypes

-----------------------------------------------------------------------------
(* Listing: the theorem.                                                    *)

LEMMA ListRests ==
  ASSUME ListInv, UNCHANGED listVars
  PROVE  ListInv'
<1>1. /\ entries' = entries /\ time' = time /\ query' = query /\ page' = page /\ got' = got
      /\ phase' = phase /\ touched' = touched /\ shrunk' = shrunk
  BY DEF listVars
<1>2. ListTypes'
  BY <1>1 DEF ListInv, ListTypes, Lists!Gone
<1>3. /\ Listable' = Listable /\ Earlier' = Earlier /\ Skip' = Skip
      /\ Lists!Listed(query)' = Lists!Listed(query)
  BY <1>1 DEF Listable, Earlier, Skip, Lists!Listed, Lists!Matches, Lists!Precedes, Lists!Limit
<1> QED
  BY <1>1, <1>2, <1>3 DEF ListInv, ListWalk

LEMMA ListComplete ==
  ASSUME ListInv
  PROVE  WalkMissesNothing
BY DEF ListInv, ListWalk, Listable, WalkMissesNothing, Lists!WalkMissesNothing

\* For any number of entries and changes and any length of the pages, a walk that met no change
\* has the whole list, and in the default order every entry that was neither touched nor drawn
\* forward by one that left the list.
THEOREM WalkIsComplete == ClientsSpec => []WalkMissesNothing
<1>1. ClientsInit => ListInv
  BY ListInit DEF ClientsInit
<1>2. ListInv /\ [ClientsNext]_clientsVars => ListInv'
  <2> SUFFICES ASSUME ListInv, [ClientsNext]_clientsVars PROVE ListInv'
    OBVIOUS
  <2>1. CASE Lists!Next
    BY <2>1, ListPage, ListChange DEF Lists!Next
  <2>2. CASE UNCHANGED listVars
    BY <2>2, ListRests
  <2> QED
    BY <2>1, <2>2 DEF ClientsNext, clientsVars
<1>3. ListInv => WalkMissesNothing
  BY ListComplete
<1> QED
  BY <1>1, <1>2, <1>3, PTL DEF ClientsSpec
==============================================================================
