CONSTANTS
  Items = {i1, i2}
  Drivers = {d1}
  MaxLoops = 1
  Gated = TRUE
  Unattended = {TRUE, FALSE}
  MaxDecisions = 2
  MaxCrashes = 1
CONSTANT Limit <- MCLimit
SPECIFICATION FairSpec
CHECK_DEADLOCK FALSE
INVARIANT OneJobAtATime
INVARIANT NothingUndecidedIsPassed
PROPERTY AnswersReachTheCoder
PROPERTY StepSettles
