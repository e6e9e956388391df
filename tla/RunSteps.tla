------------------------------ MODULE RunSteps ------------------------------
(***************************************************************************)
(* A run and its pipeline steps as values, and the in-memory mutations     *)
(* StepGraph, RunStateMachine and the retry planner apply to them.  None   *)
(* of these operators touches a store: a handler loads a run, rewrites its *)
(* copy with them and writes the copy back (module Execution).             *)
(*                                                                         *)
(* The text a step carries (output, proposal, feedback, timing, metrics)   *)
(* is left out; what is kept is what the engine branches on.               *)
(***************************************************************************)
EXTENDS Naturals

CONSTANTS
  Blocks,        \* board blocks a run can be started on
  NoBlock,       \* the block of a row that is not in the store
  N,             \* number of steps of the pipeline
  MaxBounces,    \* judge.maxBounces: automatic rework rounds of one judge
  MaxEvictions   \* MAX_EVICTION_RECOVERIES: container restarts of one step

ASSUME StepsAssumption ==
  /\ N \in Nat \ {0}
  /\ MaxBounces \in Nat
  /\ MaxEvictions \in Nat
  /\ NoBlock \notin Blocks

Positions == 1..N

LiveStatus == {"running", "blocked", "paused"}
EndStatus  == {"done", "failed"}
\* A row that was never written, and one that was deleted.
GoneStatus == {"unborn", "deleted"}
Status     == LiveStatus \cup EndStatus \cup GoneStatus

StepState     == {"pending", "working", "waiting_decision", "done"}
ApprovalState == {"none", "pending", "approved", "changes_requested", "rejected"}
DecisionState == {"none", "open", "chosen"}
JudgeState    == {"none", "awaiting", "settled"}

Step ==
  [ state     : StepState,
    approval  : ApprovalState,   \* step.approval.status
    decision  : DecisionState,   \* step.decision, answered once chosen is set
    job       : BOOLEAN,         \* step.jobId is set
    judge     : JudgeState,      \* step.judge.status
    bounces   : Nat,             \* step.judge.bounces
    evictions : Nat ]            \* step.evictionRecoveries

Instance ==
  [ rev : Nat, block : Blocks \cup {NoBlock}, status : Status,
    cur : Positions, steps : [Positions -> Step] ]

FreshStep ==
  [ state |-> "pending", approval |-> "none", decision |-> "none",
    job |-> FALSE, judge |-> "none", bounces |-> 0, evictions |-> 0 ]

Blank ==
  [ rev |-> 0, block |-> NoBlock, status |-> "unborn",
    cur |-> 1, steps |-> [k \in Positions |-> FreshStep] ]

CurStep(i) == i.steps[i.cur]
IsFinal(k) == k = N

-----------------------------------------------------------------------------
(* StepGraph: one step's lifecycle. *)

StartStep(s)         == [s EXCEPT !.state = "working"]
FinishStep(s)        == [s EXCEPT !.state = "done"]
PauseStepForInput(s) == [s EXCEPT !.state = "waiting_decision"]

\* Back to the state the step had before it ran.  A decision, the judge's
\* round count and the eviction count are not in the list of reset fields.
ResetStepForRerun(s) ==
  [s EXCEPT !.state = "pending", !.job = FALSE, !.approval = "none"]

\* The same run with step k replaced.
WithStep(i, k, s) == [i EXCEPT !.steps = [i.steps EXCEPT ![k] = s]]

\* A faulty rerun that forgets the last step of the range.
RerunShortOfThrough(i, from, through) ==
  [i EXCEPT
     !.cur = from,
     !.steps = [k \in Positions |->
                  LET s == i.steps[k]
                  IN  IF k \notin from..through - 1 THEN s
                      ELSE IF k = from THEN StartStep(ResetStepForRerun(s))
                      ELSE ResetStepForRerun(s)]]

\* Reset the producer and everything up to the judge, re-enter the producer.
RerunProducerThrough(i, from, through) ==
  [i EXCEPT
     !.cur = from,
     !.steps = [k \in Positions |->
                  LET s == i.steps[k]
                  IN  IF k \notin from..through THEN s
                      ELSE IF k = from THEN StartStep(ResetStepForRerun(s))
                      ELSE ResetStepForRerun(s)]]

\* Faulty: the run stays parked.
StaysBlocked(status) == status

\* A human or a judge un-parks the run.
Unblocked(status) == IF status = "blocked" THEN "running" ELSE status

-----------------------------------------------------------------------------
(* RunStateMachine: finishing a step and moving the cursor. *)

\* Faulty: the cursor leaves the pipeline.
SettlePastTheEnd(i) ==
  IF IsFinal(i.cur) THEN [i EXCEPT !.status = "done", !.cur = i.cur + 1]
  ELSE [i EXCEPT !.cur = i.cur + 1,
                 !.steps = [i.steps EXCEPT
                              ![i.cur + 1] = StartStep(i.steps[i.cur + 1])]]

\* settleStepAndAdvance on the step the cursor points at, finished by its caller.
SettleAndAdvance(i) ==
  IF IsFinal(i.cur) THEN [i EXCEPT !.status = "done"]
  ELSE [i EXCEPT !.cur = i.cur + 1,
                 !.steps = [i.steps EXCEPT
                              ![i.cur + 1] = StartStep(i.steps[i.cur + 1])]]

\* Faulty: the gate's step is not finished when the cursor passes it.
AdvancePastOpenGate(i, k) ==
  IF IsFinal(k) THEN [i EXCEPT !.status = "done"]
  ELSE [WithStep(i, k + 1, StartStep(i.steps[k + 1])) EXCEPT
          !.cur = k + 1, !.status = Unblocked(i.status)]

\* Faulty: the run moves on and stays blocked.
AdvanceStillBlocked(i, k) ==
  LET j == WithStep(i, k, FinishStep(i.steps[k]))
  IN  IF IsFinal(k) THEN [j EXCEPT !.status = "done"]
      ELSE [WithStep(j, k + 1, StartStep(j.steps[k + 1])) EXCEPT !.cur = k + 1]

\* advanceRunPastGate on step k, wherever the cursor is.
AdvanceRunPastGate(i, k) ==
  LET j == WithStep(i, k, FinishStep(i.steps[k]))
  IN  IF IsFinal(k) THEN [j EXCEPT !.status = "done"]
      ELSE [WithStep(j, k + 1, StartStep(j.steps[k + 1])) EXCEPT
              !.cur = k + 1, !.status = Unblocked(i.status)]

-----------------------------------------------------------------------------
(* RunDispatcher: what recording a step's result makes of the run. *)

\* The agent raised a question: park on the step's decision.
Asked(i) ==
  [WithStep(i, i.cur, [PauseStepForInput(CurStep(i)) EXCEPT !.decision = "open"])
     EXCEPT !.status = "blocked"]

\* A pending approval is raised on the current step: its gate, a judge's park.
ParkedForApproval(i) ==
  [WithStep(i, i.cur, [PauseStepForInput(CurStep(i)) EXCEPT !.approval = "pending"])
     EXCEPT !.status = "blocked"]

\* The step is done: the run ends or the next step starts.
Settled(i) == SettleAndAdvance(WithStep(i, i.cur, FinishStep(CurStep(i))))

-----------------------------------------------------------------------------
(* Planning a replacement run: start, retry.logic. *)

\* A first run of the pipeline: its first step already working.
LaunchedOn(b) ==
  [ rev |-> 0, block |-> b, status |-> "running", cur |-> 1,
    steps |-> [k \in Positions |->
                 IF k = 1 THEN StartStep(FreshStep) ELSE FreshStep] ]

\* planFromStep + buildResumedInstance: keep what precedes `from', reset the rest.
ResumedFrom(i, from) ==
  [ rev |-> 0, block |-> i.block, status |-> "running", cur |-> from,
    steps |-> [k \in Positions |->
                 IF k < from THEN i.steps[k]
                 ELSE IF k = from THEN StartStep(FreshStep) ELSE FreshStep] ]

\* planResumedSteps: the first step that is not done, else the last one.
ResumesAt(i, from) ==
  /\ \A k \in 1..from - 1 : i.steps[k].state = "done"
  /\ i.steps[from].state # "done" \/ from = N
=============================================================================
