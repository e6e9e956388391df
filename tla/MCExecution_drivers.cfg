CONSTANTS
  Runs = {r1, r2}
  Blocks = {b1}
  NoBlock = NoBlock
  NoRun = NoRun
  Workers = {w1, w2}
  Handlers = {h1}
  N = 2
  MaxBounces = 0
  MaxEvictions = 1
  Inline = {}
  Gated = {1}
  Asking = {}
  Skippable = {}
  Judges = {}
  FailJudges = {}
  BounceJudges = {}
  Delivered = "pr_ready"
  Ops = {"start", "stop", "retry", "approve", "budget", "resume"}
  MaxOps = 4
  MaxPolls = 2
  MaxReports = 0
  MaxCrashes = 0
SPECIFICATION Spec
SYMMETRY MCSymmetry
CHECK_DEADLOCK FALSE
INVARIANT TypeOK
INVARIANT OneLivePerBlock
INVARIANT StepsFollowCursor
INVARIANT NoJobBehindCursor
PROPERTY EndedStaysEnded
