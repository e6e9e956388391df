CONSTANTS
  Runs = {r1, r2, r3}
  Blocks = {b1}
  NoBlock = NoBlock
  NoRun = NoRun
  Workers = {w1}
  Handlers = {h1, h2}
  N = 2
  MaxBounces = 0
  MaxEvictions = 0
  Inline = {}
  Gated = {}
  Asking = {}
  Skippable = {}
  Judges = {}
  FailJudges = {}
  BounceJudges = {}
  Delivered = "done"
  Ops = {"start", "retry", "restart", "cancel", "stop"}
  MaxOps = 4
  MaxPolls = 1
  MaxReports = 0
  MaxCrashes = 0
SPECIFICATION Spec
SYMMETRY MCSymmetry
CHECK_DEADLOCK FALSE
INVARIANT OneLivePerBlock
PROPERTY ImplementsLifecycle
