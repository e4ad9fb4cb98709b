---------------------------- MODULE MCWebServer ----------------------------
(* Small servers: one sample, up to two executions and three calls. *)
EXTENDS WebServer

MCNode == {"a", "b"}

Good == [parses |-> TRUE, nodes |-> {"a", "b"}]
Short == [parses |-> TRUE, nodes |-> {"a"}]
Bad == [parses |-> FALSE, nodes |-> {"a"}]

MCDocuments == {Good, Bad}
ShortDocuments == {Short, Bad}

\* Execution e2 has a shard to itself; the copy w3 shares that of w1.
MCShardOf == [x \in WfId \cup ExecId |-> IF x \in {"w2", "e2"} THEN 2 ELSE 1]

AllApi == {"create", "update", "duplicate", "delete", "execute",
           "cancel", "pause", "resume", "deleteExecution"}
CancelApi == {"execute", "cancel"}
DeleteApi == {"execute", "cancel", "deleteExecution"}
=============================================================================
