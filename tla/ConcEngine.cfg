CONSTANTS
  Node <- MCNode
  InputKey = "input"
  Label <- MCLabel
  Absent = Absent
  Workflows <- MCWorkflows
  HandlerOutput <- MCOutputs
  RunInputs <- PlainInput
  Branch <- MCBranch
  BranchesOf <- MCBranchesOf
SPECIFICATION FairSpec
CHECK_DEADLOCK FALSE
INVARIANTS
  InFlightBounded
  CountdownExact
  AgreesWithSequential
  ResultsAreWhole
PROPERTIES
  ImplementsDagRun
  CallReturns
