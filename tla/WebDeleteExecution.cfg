CONSTANTS
  Calls = {c1, c2, c3}
  Api <- DeleteApi
  WfId = {"w1"}
  Samples = {"w1"}
  ExecId = {"e1"}
  Name = {"n"}
  Node <- MCNode
  Document <- ShortDocuments
  Input = "input"
  ShardOf <- MCShardOf
  Shards = 2
SPECIFICATION FairSpec
CHECK_DEADLOCK FALSE
PROPERTIES
  EveryCallAnswered
