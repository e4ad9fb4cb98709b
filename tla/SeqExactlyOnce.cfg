CONSTANTS
  Node <- MCNode
  InputKey = "input"
  Label <- MCLabel
  Absent = Absent
  Executor = {e1}
  Workflows <- MCWorkflows
  HandlerOutput <- MCOutputs
  RunInputs <- MCInputs
  MaxBegins = 3
  MaxCrashes = 2
  MaxSaveErrors = 1
SPECIFICATION Spec
CHECK_DEADLOCK FALSE
INVARIANTS
  ExactlyOnce
