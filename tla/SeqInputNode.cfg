CONSTANTS
  Node <- MCNodeInput
  InputKey = "input"
  Label <- MCLabel
  Absent = Absent
  Executor = {e1}
  Workflows <- InputWorkflows
  HandlerOutput <- TwoOutputs
  RunInputs <- PlainInput
  MaxBegins = 3
  MaxCrashes = 2
  MaxSaveErrors = 1
SPECIFICATION Spec
CHECK_DEADLOCK FALSE
INVARIANTS
  SourcesRun
