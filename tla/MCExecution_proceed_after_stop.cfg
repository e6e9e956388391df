CONSTANTS
  Runs = {r1}
  Blocks = {b1}
  NoBlock = NoBlock
  NoRun = NoRun
  Workers = {w1}
  Handlers = {h1}
  N = 2
  MaxBounces = 0
  MaxEvictions = 0
  Inline = {}
  Gated = {}
  Asking = {}
  Skippable = {}
  Judges = {2}
  FailJudges = {}
  BounceJudges = {}
  Delivered = "pr_ready"
  Ops = {"start", "judge", "stop"}
  MaxOps = 3
  MaxPolls = 1
  MaxReports = 0
  MaxCrashes = 0
SPECIFICATION Spec
SYMMETRY MCSymmetry
CHECK_DEADLOCK FALSE
PROPERTY FailedNeverDone
