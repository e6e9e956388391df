CONSTANTS
  Items = {t1, p1}
  Prompts = {p1}
  Drivers = {d1}
  MaxHead = 2
  MaxReviews = 3
  MaxFixes = 1
  MaxFaults = 1
  MaxCrashes = 1
SPECIFICATION FairSpec
CHECK_DEADLOCK FALSE
INVARIANT TypeOK
INVARIANT EveryRoundIsLogged
INVARIANT NoHotLoop
PROPERTY RequestIsNotPassedOver
PROPERTY GateComesToRest
