CONSTANTS
  Items = {t1, p1}
  Prompts = {p1}
  Drivers = {d1}
  MaxHead = 2
  MaxReviews = 3
  MaxFixes = 1
  MaxFaults = 0
  MaxCrashes = 0
SPECIFICATION Spec
CHECK_DEADLOCK FALSE
INVARIANT RecordedIsHanded
