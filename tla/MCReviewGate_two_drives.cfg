CONSTANTS
  Items = {t1, p1}
  Prompts = {p1}
  Drivers = {d1, d2}
  MaxHead = 2
  MaxReviews = 2
  MaxFixes = 1
  MaxFaults = 0
  MaxCrashes = 0
SPECIFICATION Spec
SYMMETRY MCSymmetry
CHECK_DEADLOCK FALSE
INVARIANT EveryRoundIsLogged
