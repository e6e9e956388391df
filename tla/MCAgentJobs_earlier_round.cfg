CONSTANTS
  Items = {i1}
  Drivers = {d1, d2}
  MaxLoops = 1
  Gated = FALSE
  Unattended = {FALSE}
  MaxDecisions = 2
  MaxCrashes = 0
CONSTANT Limit <- MCLimit
SPECIFICATION Spec
CHECK_DEADLOCK FALSE
INVARIANT ResultIsOfThisRound
