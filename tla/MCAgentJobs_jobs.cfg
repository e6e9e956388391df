CONSTANTS
  Items = {i1}
  Drivers = {d1, d2}
  MaxLoops = 1
  Gated = FALSE
  Unattended = {TRUE}
  MaxDecisions = 2
  MaxCrashes = 0
CONSTANT Limit <- MCLimit
SPECIFICATION Spec
SYMMETRY MCSymmetry
CHECK_DEADLOCK FALSE
INVARIANT TypeOK
INVARIANT ResultIsOfThisRound
INVARIANT NothingUndecidedIsPassed
PROPERTY DecisionsSurvive
