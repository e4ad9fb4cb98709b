------------------------------ MODULE Listing ------------------------------
(***************************************************************************)
(* The lists of the web API, one page at a time: a client walks the pages  *)
(* of the workflows, of the executions or of the logs of one execution     *)
(* while the entries change.  Every page is cut from a list that is        *)
(* filtered and sorted afresh.                                             *)
(***************************************************************************)
EXTENDS Order

CONSTANTS
  Entry,       \* entries, in the order the map iterates over them
  Status,      \* what entries can be filtered by
  MaxLimit,    \* the most entries of a page
  MaxTime      \* bound: changes

VARIABLES
  entries,     \* the status and the time of the last change of each entry
  time,
  query,       \* what the client asks for, the same for every page of a walk
  page,        \* the next page
  got,         \* what the pages so far had
  phase,       \* "idle", "walking" or "over"
  touched,     \* history: entries changed during the walk
  shrunk       \* history: an entry left the list during the walk

vars == <<entries, time, query, page, got, phase, touched, shrunk>>

Gone == [status |-> "gone", time |-> 0]

Orders == {"asc", "desc"}
Queries == [status : Status \cup {"any"}, order : Orders, limit : 0..MaxLimit + 1]

Limit(n) == IF n < MaxLimit THEN n ELSE MaxLimit

\* Without a filter, or with one that is not known, every entry is listed.
Matches(e, q) == entries[e] # Gone /\ q.status \in {"any", entries[e].status}

\* MUTANT of Precedes: always in ascending order.
PrecedesAscending(a, b, q) == entries[a].time < entries[b].time

Precedes(a, b, q) ==
  IF q.order = "asc" THEN entries[a].time < entries[b].time
                     ELSE entries[b].time < entries[a].time

\* What the query lists, sorted.  No two entries change at one time.
Listed(q) ==
  InOrder({e \in Entry : Matches(e, q)}, {ab \in Entry \X Entry : Precedes(ab[1], ab[2], q)})

\* skip(page * limit).take(limit)
PageOf(s, n, limit) ==
  SubSeq(s, n * limit + 1, IF (n + 1) * limit < Len(s) THEN (n + 1) * limit ELSE Len(s))

HasMore(s, n, limit) == (n + 1) * limit < Len(s)

Init ==
  /\ entries = [e \in Entry |-> Gone]
  /\ time = 0
  /\ query \in Queries
  /\ page = 0 /\ got = <<>>
  /\ phase = "idle"
  /\ touched = {} /\ shrunk = FALSE

\* list_workflows, list_executions and get_execution_logs.
GetPage ==
  /\ phase # "over"
  /\ LET s == Listed(query) IN
     /\ got' = got \o PageOf(s, page, Limit(query.limit))
     /\ phase' = IF HasMore(s, page, Limit(query.limit)) THEN "walking" ELSE "over"
  \* bound: a page of no entries has a successor for ever
  /\ page' = IF query.limit = 0 THEN page ELSE page + 1
  /\ UNCHANGED <<entries, time, query, touched, shrunk>>

\* Handlers and executions make, change and delete entries, until the walk has ended.
Change(e) ==
  /\ time < MaxTime /\ phase # "over"
  /\ \E to \in {Gone} \cup [status : Status, time : {time + 1}] :
       /\ to # entries[e]
       /\ entries' = [entries EXCEPT ![e] = to]
       /\ shrunk' = (shrunk \/ (phase = "walking" /\ Matches(e, query) /\
                                  (to = Gone \/ query.status \notin {"any", to.status})))
  /\ time' = time + 1
  /\ touched' = IF phase = "walking" THEN touched \cup {e} ELSE touched
  /\ UNCHANGED <<query, page, got, phase>>

Next == GetPage \/ \E e \in Entry : Change(e)

Spec == Init /\ [][Next]_vars

-----------------------------------------------------------------------------
(* Properties.                                                             *)

TypeOK ==
  /\ query \in Queries /\ page \in 0..Cardinality(Entry) /\ time \in 0..MaxTime
  /\ phase \in {"idle", "walking", "over"}

\* A walk that came to an end and met no change has every entry of the list, in its
\* order and once.  In the order that is the default, the latest change first, it has
\* every entry that was not itself touched whatever others were made or changed
\* meanwhile, unless one left the list: that draws the rest a place forward, past a
\* page already taken.
WalkMissesNothing ==
  phase = "over" =>
    /\ touched = {} => got = Listed(query)
    /\ query.order = "desc" /\ ~shrunk =>
         \A e \in Entry \ touched : Matches(e, query) => \E i \in DOMAIN got : got[i] = e
=============================================================================
