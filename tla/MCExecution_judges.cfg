CONSTANTS
  Runs = {r1}
  Blocks = {b1}
  NoBlock = NoBlock
  NoRun = NoRun
  Workers = {w1}
  Handlers = {h1, h2}
  N = 3
  MaxBounces = 1
  MaxEvictions = 0
  Inline = {}
  Gated = {}
  Asking = {}
  Skippable = {1}
  Judges = {2, 3}
  FailJudges = {3}
  BounceJudges = {2}
  Delivered = "pr_ready"
  Ops = {"start", "judge"}
  MaxOps = 4
  MaxPolls = 1
  MaxReports = 0
  MaxCrashes = 1
SPECIFICATION FairSpec
CHECK_DEADLOCK FALSE
INVARIANT ParkedRunIsAnswerable
INVARIANT StepsFollowCursor
PROPERTY RunningSettles
