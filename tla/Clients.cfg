CONSTANTS
  Workflow = {"w1", "w2"}
  Execution = {"x1"}
  Absent = Absent
  Watched = {"w"}
  Client = {"c1", "c2"}
  Entry = {"e1", "e2", "e3"}
  MaxLogs = 2
  Capacity = 2
  MaxChanges = 4
  Status = {"a", "b"}
  MaxLimit = 2
  MaxTime = 5
  Secret = {"s", "other"}
  Path = {"t1", "t2"}
  Leeway = 1
  MaxClock = 2
  MaxEvents = 2
  MaxTokens = 1
SPECIFICATION ClientsSpec
CHECK_DEADLOCK FALSE
INVARIANTS
  ConfirmsWhatIsShown
  DashboardCatchesUp
  ChangesAreRecorded
  TamperingShows
  WalkMissesNothing
