CONSTANTS
  Runs = {r1}
  Blocks = {b1}
  NoBlock = NoBlock
  NoRun = NoRun
  Workers = {w1}
  Handlers = {h1, h2}
  N = 3
  MaxBounces = 0
  MaxEvictions = 0
  Inline = {2}
  Gated = {1}
  Asking = {2, 3}
  Skippable = {}
  Judges = {}
  FailJudges = {}
  BounceJudges = {}
  Delivered = "pr_ready"
  Ops = {"start", "approve", "changes", "reject", "answer", "cancel"}
  MaxOps = 6
  MaxPolls = 2
  MaxReports = 1
  MaxCrashes = 0
SPECIFICATION Spec
SYMMETRY MCSymmetry
CHECK_DEADLOCK FALSE
INVARIANT GatesHonoured
INVARIANT ParkedRunIsAnswerable
PROPERTY HumanAnswersSurvive
