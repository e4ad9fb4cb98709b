CONSTANTS
  Calls = {c1, c2, c3}
  Api <- AllApi
  WfId = {"w1", "w2", "w3"}
  Samples = {"w1"}
  ExecId = {"e1", "e2"}
  Name = {"n"}
  Node <- MCNode
  Document <- MCDocuments
  Input = "input"
  ShardOf <- MCShardOf
  Shards = 2
SPECIFICATION FairSpec
CHECK_DEADLOCK FALSE
INVARIANTS
  TypeOK
  NothingToldTwice
  DeleteHonoursRunning
  FinishedIffTerminal
PROPERTIES
  EngineVerdictStands
  ExecutionsEndUnlessHeld
