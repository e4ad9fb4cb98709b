CONSTANTS
  Writer = {"p1", "p2"}
  Reader = {"q1"}
  Value = {"v1", "v2"}
  Setup <- MCSetup
  Inode = {"i1", "i2", "i3", "i4", "i5"}
  Absent = Absent
  MaxPuts = 4
  MaxAborts = 2
  Key = {"k1", "k2"}
  Caller = {"c1", "c2"}
  Capacity = 1
  MaxCalls = 4
  MaxStarts = 2
  Workflow = {"w", "workflow_id"}
  Hardwired = "workflow_id"
  MaxClock = 3
  MaxVersions = 3
  MaxGets = 1
  Checkpoint = {"a", "b", "c"}
  Id = {"i", "j", "k"}
  ShardOf <- MCShardOf
  Number = {1, 2, 3}
SPECIFICATION StoresSpec
CHECK_DEADLOCK FALSE
PROPERTIES
  PersistsWhatWasLeft
