--------------------------- MODULE RunStepsProofs ---------------------------
(***************************************************************************)
(* What the in-memory mutations of a run preserve: each keeps it a well-   *)
(* formed run of the same block at the same revision, and none of them     *)
(* makes a stored run a gone one.                                          *)
(***************************************************************************)
EXTENDS RunSteps, TLAPS

\* j is a copy of the loaded run i that may be written back in its place.
Copy(i, j) ==
  /\ j \in Instance
  /\ j.rev = i.rev
  /\ j.block = i.block
  /\ i.status \notin GoneStatus => j.status \notin GoneStatus

\* Step 1 is a step of every pipeline.
LEMMA FirstPosition == 1 \in Positions /\ N \in Positions
BY StepsAssumption DEF Positions

\* The default step and the default row are well-formed.
LEMMA BlankType == FreshStep \in Step /\ Blank \in Instance /\ Blank.status = "unborn"
<1>1. FreshStep \in Step
  BY DEF FreshStep, Step, StepState, ApprovalState, DecisionState, JudgeState
<1>2. QED
  BY <1>1, FirstPosition DEF Blank, Instance, Status, GoneStatus

\* A well-formed run has well-formed steps, the current one among them.
LEMMA StepOf ==
  ASSUME NEW i \in Instance
  PROVE  /\ CurStep(i) \in Step
         /\ i.cur \in Positions
         /\ \A k \in Positions : i.steps[k] \in Step
BY DEF CurStep, Instance

\* The lifecycle operators of StepGraph return steps.
LEMMA StepOps ==
  ASSUME NEW s \in Step
  PROVE  /\ StartStep(s) \in Step
         /\ FinishStep(s) \in Step
         /\ PauseStepForInput(s) \in Step
         /\ ResetStepForRerun(s) \in Step
BY DEF StartStep, FinishStep, PauseStepForInput, ResetStepForRerun, Step, StepState,
       ApprovalState

\* Replacing a step leaves everything else of the run as it was.
LEMMA WithStepCopy ==
  ASSUME NEW i \in Instance, NEW k \in Positions, NEW s \in Step
  PROVE  /\ Copy(i, WithStep(i, k, s))
         /\ WithStep(i, k, s).status = i.status
         /\ WithStep(i, k, s).cur = i.cur
         /\ WithStep(i, k, s).steps[k] = s
BY DEF WithStep, Copy, Instance

\* So does setting a status that is not a gone one.
LEMMA WithStatusCopy ==
  ASSUME NEW i \in Instance, NEW v \in LiveStatus \cup EndStatus
  PROVE  /\ Copy(i, [i EXCEPT !.status = v])
         /\ [i EXCEPT !.status = v].status = v
         /\ [i EXCEPT !.status = v].cur = i.cur
         /\ [i EXCEPT !.status = v].steps = i.steps
BY DEF Copy, Instance, Status, LiveStatus, EndStatus, GoneStatus

\* Copies of copies are copies.
LEMMA CopyTrans ==
  ASSUME NEW i, NEW j, NEW m, Copy(i, j), Copy(j, m)
  PROVE  Copy(i, m)
BY DEF Copy

\* Un-parking keeps a status a status, and an ended run ended.
LEMMA UnblockedStatus ==
  ASSUME NEW v \in Status
  PROVE  /\ Unblocked(v) \in Status
         /\ v \notin GoneStatus => Unblocked(v) \in LiveStatus \cup EndStatus
         /\ v \in EndStatus \cup GoneStatus => Unblocked(v) = v
BY DEF Unblocked, Status, LiveStatus, EndStatus, GoneStatus

\* A rework resets a range of steps and moves the cursor to its first.
LEMMA RerunCopy ==
  ASSUME NEW i \in Instance, NEW from \in Positions, NEW through \in Positions
  PROVE  /\ Copy(i, RerunProducerThrough(i, from, through))
         /\ RerunProducerThrough(i, from, through).status = i.status
<1>1. ASSUME NEW k \in Positions
      PROVE  (IF k \notin from..through THEN i.steps[k]
              ELSE IF k = from THEN StartStep(ResetStepForRerun(i.steps[k]))
              ELSE ResetStepForRerun(i.steps[k])) \in Step
  BY StepOf, StepOps
<1>2. QED
  BY <1>1 DEF RerunProducerThrough, Copy, Instance

\* Settling a step: the run ends, or the cursor moves to a step it has.
LEMMA SettledCopy ==
  ASSUME NEW i \in Instance
  PROVE  Copy(i, Settled(i))
<1> DEFINE j == WithStep(i, i.cur, FinishStep(CurStep(i)))
<1>1. /\ Copy(i, j)
      /\ j \in Instance
      /\ j.cur = i.cur
      /\ j.status = i.status
  BY StepOf, StepOps, WithStepCopy DEF Copy
<1> HIDE DEF j
<1>2. CASE IsFinal(j.cur)
  <2>1. Copy(j, [j EXCEPT !.status = "done"])
    BY <1>1, WithStatusCopy DEF EndStatus
  <2>2. QED
    BY <1>1, <1>2, <2>1, CopyTrans DEF Settled, SettleAndAdvance, j
<1>3. CASE ~IsFinal(j.cur)
  <2>1. j.cur + 1 \in Positions
    BY <1>1, <1>3, StepsAssumption DEF IsFinal, Instance, Positions
  <2>2. StartStep(j.steps[j.cur + 1]) \in Step
    BY <1>1, <2>1, StepOf, StepOps
  <2>3. Copy(j, [j EXCEPT !.cur = j.cur + 1,
                          !.steps = [j.steps EXCEPT
                                       ![j.cur + 1] = StartStep(j.steps[j.cur + 1])]])
    BY <1>1, <2>1, <2>2 DEF Copy, Instance
  <2>4. QED
    BY <1>1, <1>3, <2>3, CopyTrans DEF Settled, SettleAndAdvance, j
<1>4. QED
  BY <1>2, <1>3

\* Advancing past a gate: same, for any step of the run.
LEMMA AdvancePastCopy ==
  ASSUME NEW i \in Instance, NEW k \in Positions
  PROVE  Copy(i, AdvanceRunPastGate(i, k))
<1> DEFINE j == WithStep(i, k, FinishStep(i.steps[k]))
<1>1. Copy(i, j) /\ j \in Instance /\ j.status = i.status
  BY StepOf, StepOps, WithStepCopy, SMTT(60) DEF Copy
<1> HIDE DEF j
<1>2. CASE IsFinal(k)
  <2>1. Copy(j, [j EXCEPT !.status = "done"])
    BY <1>1, WithStatusCopy DEF EndStatus
  <2>2. QED
    BY <1>1, <1>2, <2>1, CopyTrans DEF AdvanceRunPastGate, j
<1>3. CASE ~IsFinal(k)
  <2> DEFINE m == WithStep(j, k + 1, StartStep(j.steps[k + 1]))
  <2>1. k + 1 \in Positions
    BY <1>3, StepsAssumption DEF IsFinal, Positions
  <2>2. Copy(j, m) /\ m \in Instance /\ m.status = i.status
    <3>1. StartStep(j.steps[k + 1]) \in Step
      BY <1>1, <2>1, StepOf, StepOps
    <3>2. Copy(j, m) /\ m.status = j.status
      BY <1>1, <2>1, <3>1, WithStepCopy
    <3>3. QED
      BY <1>1, <3>2 DEF Copy
  <2> HIDE DEF m
  <2>3. /\ i.status \in Status
        /\ Unblocked(i.status) \in Status
        /\ i.status \notin GoneStatus => Unblocked(i.status) \notin GoneStatus
    <3>1. i.status \in Status
      BY DEF Instance
    <3>2. QED
      BY <3>1, UnblockedStatus DEF LiveStatus, EndStatus, GoneStatus
  <2>4. Copy(m, [m EXCEPT !.cur = k + 1, !.status = Unblocked(i.status)])
    BY <2>1, <2>2, <2>3 DEF Copy, Instance
  <2>5. QED
    BY <1>1, <1>3, <2>2, <2>4, CopyTrans DEF AdvanceRunPastGate, j, m
<1>4. QED
  BY <1>2, <1>3

\* Parking the current step on a question or on an approval.
LEMMA ParkedCopy ==
  ASSUME NEW i \in Instance
  PROVE  /\ Copy(i, Asked(i))
         /\ Copy(i, ParkedForApproval(i))
<1>1. /\ [PauseStepForInput(CurStep(i)) EXCEPT !.decision = "open"] \in Step
      /\ [PauseStepForInput(CurStep(i)) EXCEPT !.approval = "pending"] \in Step
  BY StepOf DEF PauseStepForInput, Step, StepState, ApprovalState, DecisionState
<1>2. /\ Copy(i, WithStep(i, i.cur,
               [PauseStepForInput(CurStep(i)) EXCEPT !.decision = "open"]))
      /\ Copy(i, WithStep(i, i.cur,
               [PauseStepForInput(CurStep(i)) EXCEPT !.approval = "pending"]))
  BY <1>1, StepOf, WithStepCopy
<1>3. ASSUME NEW j, Copy(i, j)
      PROVE  Copy(i, [j EXCEPT !.status = "blocked"])
  <2>1. j \in Instance /\ "blocked" \in LiveStatus \cup EndStatus
    BY <1>3 DEF Copy, LiveStatus
  <2>2. QED
    BY <1>3, <2>1, WithStatusCopy, CopyTrans
<1>4. QED
  BY <1>2, <1>3 DEF Asked, ParkedForApproval

\* A new run, planned from nothing or from a stored run, is running.
LEMMA PlanType ==
  /\ \A b \in Blocks :
       /\ LaunchedOn(b) \in Instance
       /\ LaunchedOn(b).status = "running"
       /\ LaunchedOn(b).block = b
  /\ \A i \in Instance, from \in Positions :
       /\ ResumedFrom(i, from) \in Instance
       /\ ResumedFrom(i, from).status = "running"
       /\ ResumedFrom(i, from).block = i.block
<1>1. FreshStep \in Step /\ StartStep(FreshStep) \in Step
  BY BlankType, StepOps
<1>2. "running" \in Status
  BY DEF Status, LiveStatus
<1>3. ASSUME NEW b \in Blocks
      PROVE  LaunchedOn(b) \in Instance /\ LaunchedOn(b).status = "running"
             /\ LaunchedOn(b).block = b
  BY <1>1, <1>2, FirstPosition DEF LaunchedOn, Instance
<1>4. ASSUME NEW i \in Instance, NEW from \in Positions
      PROVE  /\ ResumedFrom(i, from) \in Instance
             /\ ResumedFrom(i, from).status = "running"
             /\ ResumedFrom(i, from).block = i.block
  <2>1. \A k \in Positions : i.steps[k] \in Step
    BY StepOf
  <2>2. i.block \in Blocks \cup {NoBlock}
    BY DEF Instance
  <2>3. QED
    BY <1>1, <1>2, <2>1, <2>2 DEF ResumedFrom, Instance
<1>5. QED
  BY <1>3, <1>4
=============================================================================
