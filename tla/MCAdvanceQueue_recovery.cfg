CONSTANTS
  Runs = {r1, r2}
  Nodes = {n1}
  NoRun = NoRun
  Poison = {r2}
  Resends = 1
  RetryLimit = 0
  HardTicks = 1
  Funded = FALSE
  MaxWork = 0
  MaxDetours = 1
  MaxFlips = 1
  Faults = {"crash", "throw", "lostBatch"}
  MaxFaults = 1
SPECIFICATION FairSpec
CHECK_DEADLOCK FALSE
PROPERTY RunningIsDriven
PROPERTY PausedResumes
