CONSTANTS
  Items = {t1, p1}
  Prompts = {p1}
  Drivers = {d1}
  MaxHead = 2
  MaxReviews = 3
  MaxFixes = 0
  MaxFaults = 1
  MaxCrashes = 1
SPECIFICATION Spec
CHECK_DEADLOCK FALSE
INVARIANT FeedbackIsAddressed
