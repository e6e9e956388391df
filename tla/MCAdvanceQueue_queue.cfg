CONSTANTS
  Runs = {r1}
  Nodes = {n1, n2}
  NoRun = NoRun
  Poison = {}
  Resends = 1
  RetryLimit = 1
  HardTicks = 1
  Funded = TRUE
  MaxWork = 1
  MaxDetours = 1
  MaxFlips = 0
  Faults = {"crash", "miss"}
  MaxFaults = 2
SPECIFICATION Spec
SYMMETRY MCSymmetry
CHECK_DEADLOCK FALSE
INVARIANT TypeOK
INVARIANT OneEntitledDrive
PROPERTY StallIsEarned
