CONSTANTS
  Items = {i1, i2}
  Drivers = {d1}
  MaxLoops = 1
  Gated = FALSE
  Unattended = {FALSE}
  MaxDecisions = 2
  MaxCrashes = 0
CONSTANT Limit <- MCLimit
SPECIFICATION Spec
CHECK_DEADLOCK FALSE
PROPERTY DecisionsSurvive
