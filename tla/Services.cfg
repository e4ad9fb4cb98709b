CONSTANTS
  None = None
  Absent = Absent
  Garbage = Garbage
  Torn = Torn
  Caller = {"c1", "c2"}
  Deployable <- MCDeployable
  QuotaOf <- MCQuotas
  MaxVersion = 3
  MaxRuns = 1
  MaxCrashes = 1
  Plan <- MCPlan
  Steps <- MCSteps
  Allowed <- MCAllowed
  MaxRepairs = 2
  MaxEdits = 2
  Node <- MCNode
  Value <- MCValue
  MaxMembers = 3
  MaxNesting = 2
  Workflow <- MCWorkflow
  Limit <- MCLimit
  MaxExecutions = 3
  Task = {"t1", "t2", "t3"}
  Need <- MCNeed
  MaxCalls = 3
  Needs <- MCNeeds
  Capacity <- MCCapacity
  Config <- MCConfig
  Default <- MCDefault
  MaxSaves = 3
  MaxUpdates = 2
SPECIFICATION FairServicesSpec
CHECK_DEADLOCK FALSE
INVARIANTS
  RemovalKeepsPlansValid
  DeployedStays
  EstimateAndSecretsSuffice
  MoreNeedsMoreFirst
  GaugeRightUnlessRaced
  ReloadCatchesUp
  EnvironmentFollows
  MisuseStartsNothing
PROPERTIES
  ExecutionsEnd
