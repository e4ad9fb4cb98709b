-------------------------------- MODULE Gate --------------------------------
(***************************************************************************)
(* The authorization layer of the web API and its audit log: a request     *)
(* that may change something needs a token, its role must permit it, and   *)
(* it is recorded before its handler runs.  The log is a chain of hashes.  *)
(***************************************************************************)
EXTENDS Naturals, Sequences, FiniteSets

CONSTANTS
  Client,      \* connections
  Secret,      \* signing secrets
  Path,        \* paths of the API
  Leeway,      \* seconds a token is accepted past its expiry
  MaxClock, MaxEvents, MaxTokens   \* bounds

VARIABLES
  secret,      \* GAUSSFLOW_JWT_SECRET of the server, "" when it is not set
  clock,
  tokens,      \* every token there is
  log,         \* the events of the audit log
  req,         \* the request of each client and how far it is
  done         \* history: changes that handlers made, in order

vars == <<secret, clock, tokens, log, req, done>>

Actions == {"View", "CreateWorkflow", "ExecuteWorkflow", "Deploy", "ManageConfig"}
RoleNames == {"viewer", "operator", "admin", "wizard"}
Subjects == {"alice", "bob"}

Range1(s) == {s[i] : i \in DOMAIN s}

-----------------------------------------------------------------------------
(* Roles and tokens.                                                       *)

\* Role::parse: names that are no role are ignored.
Parsed(names) == names \cap {"viewer", "operator", "admin"}

Allows(role) ==
  CASE role = "admin" -> Actions
    [] role = "operator" -> Actions \ {"ManageConfig"}
    [] role = "viewer" -> {"View"}

Authorize(names, action) == \E role \in Parsed(names) : action \in Allows(role)

\* auth::mint, by the command line: ttl in seconds.
Mint(key, sub, roles, ttl) ==
  /\ tokens' = tokens \cup {[key |-> key, sub |-> sub, roles |-> roles, exp |-> clock + ttl]}
  /\ UNCHANGED <<secret, clock, log, req, done>>

NoToken == [key |-> "none", sub |-> "", roles |-> {}, exp |-> 0]

\* auth::verify.
Verified(token) == token # NoToken /\ token.key = secret /\ token.exp + Leeway >= clock

-----------------------------------------------------------------------------
(* The audit log.  A hash stands for what it was computed of.              *)

Genesis == <<"GENESIS">>

\* MUTANT of HashEntry: the target is left out.
HashEntryShort(seq, actor, action, target, prev) == <<seq, actor, action, prev>>

HashEntry(seq, actor, action, target, prev) == <<seq, actor, action, target, prev>>

\* AuditLog::append.
Appended(events, actor, action, target) ==
  LET seq == Len(events)
      prev == IF events = <<>> THEN Genesis ELSE events[Len(events)].hash
  IN Append(events, [seq |-> seq, actor |-> actor, action |-> action, target |-> target,
                     prev |-> prev, hash |-> HashEntry(seq, actor, action, target, prev)])

\* AuditLog::verify.
Verify(events) ==
  \A i \in DOMAIN events :
    LET e == events[i] IN
    /\ e.seq = i - 1
    /\ e.prev = IF i = 1 THEN Genesis ELSE events[i - 1].hash
    /\ e.hash = HashEntry(e.seq, e.actor, e.action, e.target, e.prev)

-----------------------------------------------------------------------------
(* A request.                                                              *)

Idle == [at |-> "idle", method |-> "", target |-> "", token |-> NoToken, answer |-> ""]

Init ==
  /\ secret \in Secret \cup {""}
  /\ clock = 0
  /\ tokens = {}
  /\ log = <<>>
  /\ req = [c \in Client |-> Idle]
  /\ done = <<>>

Request(c) ==
  /\ req[c].at = "idle"
  /\ \E method \in {"GET", "POST"}, target \in Path, token \in tokens \cup {NoToken} :
       req' = [req EXCEPT ![c] = [at |-> "arrived", method |-> method, target |-> target,
                                  token |-> token, answer |-> ""]]
  /\ UNCHANGED <<secret, clock, tokens, log, done>>

Answer(c, text) == req' = [req EXCEPT ![c] = [Idle EXCEPT !.answer = text]]

\* What require_auth answers before it lets a changing request through.
Refusal(token) ==
  CASE secret = "" -> "503"
    [] secret # "" /\ ~Verified(token) -> "401"
    [] OTHER -> IF Authorize(token.roles, "ExecuteWorkflow") THEN "" ELSE "403"

\* MUTANT of Recorded: the lock is only tried.
RecordedIfFree(c) == log' \in {log, Appended(log, req[c].token.sub, req[c].method, req[c].target)}

\* The event of a request is appended under the lock of the log.
Recorded(c) == log' = Appended(log, req[c].token.sub, req[c].method, req[c].target)

RequireAuth(c) ==
  /\ req[c].at = "arrived"
  /\ \/ /\ req[c].method = "GET"
        /\ req' = [req EXCEPT ![c].at = "handling"] /\ log' = log
     \/ /\ req[c].method # "GET" /\ Refusal(req[c].token) # ""
        /\ Answer(c, Refusal(req[c].token)) /\ log' = log
     \/ /\ req[c].method # "GET" /\ Refusal(req[c].token) = ""
        /\ Len(log) < MaxEvents
        /\ req' = [req EXCEPT ![c].at = "handling"]
        /\ Recorded(c)
  /\ UNCHANGED <<secret, clock, tokens, done>>

\* next.run: the handler may refuse the request for reasons of its own.
Handle(c) ==
  /\ req[c].at = "handling"
  /\ \/ /\ req[c].method = "GET" /\ done' = done
        /\ \E text \in {"200", "404"} : Answer(c, text)
     \/ /\ req[c].method # "GET" /\ done' = done /\ Answer(c, "4xx")
     \/ /\ req[c].method # "GET" /\ Answer(c, "200")
        /\ done' = Append(done, [actor |-> req[c].token.sub, action |-> req[c].method,
                                 target |-> req[c].target])
  /\ UNCHANGED <<secret, clock, tokens, log>>

\* get_audit reads the log under its lock.
GetAudit(c) ==
  /\ req[c].at = "handling" /\ req[c].method = "GET"
  /\ Answer(c, IF Verify(log) THEN "valid" ELSE "not valid")
  /\ UNCHANGED <<secret, clock, tokens, log, done>>

\* A client hangs up: its request is dropped wherever it is.
HangUp(c) ==
  /\ req[c].at # "idle"
  /\ Answer(c, "none")
  /\ UNCHANGED <<secret, clock, tokens, log, done>>

Tick ==
  /\ clock < MaxClock
  /\ clock' = clock + 1
  /\ UNCHANGED <<secret, tokens, log, req, done>>

\* The token command: without a role it asks for an administrator's.
MintAny ==
  /\ Cardinality(tokens) < MaxTokens
  /\ \E key \in Secret, sub \in Subjects, ttl \in {0, MaxClock},
        names \in {{}} \cup {{name, "viewer"} : name \in RoleNames \ {"admin"}} :
       Mint(key, sub, IF names = {} THEN {"admin"} ELSE names, ttl)

Next ==
  \/ \E c \in Client : Request(c) \/ RequireAuth(c) \/ Handle(c) \/ GetAudit(c) \/ HangUp(c)
  \/ Tick \/ MintAny

Spec == Init /\ [][Next]_vars

-----------------------------------------------------------------------------
(* Properties.                                                             *)

TypeOK ==
  /\ secret \in Secret \cup {""} /\ clock \in 0..MaxClock
  /\ Len(log) <= MaxEvents
  /\ \A c \in Client : req[c].at \in {"idle", "arrived", "handling"}
  /\ \A c \in Client : req[c].token \in tokens \cup {NoToken}

\* Whatever was changed through the API is in the log, as often as it was changed, by
\* somebody who had a role for it; requests run in any order and clients hang up
\* anywhere.  (The log also has what a handler then refused or never began.)
ChangesAreRecorded ==
  /\ \A e \in Range1(done) :
       Cardinality({i \in DOMAIN done : done[i] = e}) <=
         Cardinality({i \in DOMAIN log : /\ log[i].actor = e.actor
                                         /\ log[i].action = e.action
                                         /\ log[i].target = e.target})
  /\ Verify(log)
  /\ \A e \in Range1(done) :
       \E t \in tokens : t.sub = e.actor /\ t.roles \cap {"operator", "admin"} # {}

Without(s, i) == SubSeq(s, 1, i - 1) \o SubSeq(s, i + 1, Len(s))

\* Leaving out an event before the last, exchanging two, or editing a field of any one
\* is found by verify.  (Leaving out the last events is not, see DeletionShows.)
TamperingShows ==
  /\ \A i \in 1..Len(log) - 1 : ~Verify(Without(log, i))
  /\ \A i, j \in DOMAIN log : i # j =>
       ~Verify([log EXCEPT ![i] = log[j], ![j] = log[i]])
  /\ \A i \in DOMAIN log : \A t \in Path \ {log[i].target} :
       ~Verify([log EXCEPT ![i].target = t])
  /\ \A i \in DOMAIN log : \A a \in Subjects \ {log[i].actor} :
       ~Verify([log EXCEPT ![i].actor = a])

\* "any insertion, deletion, reordering, or field edit breaks the chain and is detected by
\* AuditLog::verify": no event can be left out of the log of a server unnoticed.
DeletionShows == \A i \in DOMAIN log : ~Verify(Without(log, i))
=============================================================================
