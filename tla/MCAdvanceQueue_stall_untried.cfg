CONSTANTS
  Runs = {r1}
  Nodes = {n1}
  NoRun = NoRun
  Poison = {}
  Resends = 2
  RetryLimit = 1
  HardTicks = 1
  Funded = TRUE
  MaxWork = 1
  MaxDetours = 1
  MaxFlips = 1
  Faults = {"lostBatch"}
  MaxFaults = 1
SPECIFICATION Spec
CHECK_DEADLOCK FALSE
PROPERTY StallIsEarned
