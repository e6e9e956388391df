----------------------------- MODULE Execution ------------------------------
(***************************************************************************)
(* The execution engine: durable drivers advancing runs, and request       *)
(* handlers carrying out human actions on them, over the shared run table  *)
(* (AgentRuns) and the board's block statuses.                             *)
(*                                                                         *)
(* A driver loads a run, works for minutes on its private copy (an agent   *)
(* dispatch, a container poll, a judge's assessment), then writes the copy *)
(* back.  Everything else may move in between: another driver of the same  *)
(* run, a human answer, a stop, a cancel, a retry.  loc[a] is where actor  *)
(* `a' is in its code and the copy it holds.                               *)
(***************************************************************************)
EXTENDS AgentRuns, FiniteSets

CONSTANTS
  Workers,          \* durable drivers; several may drive one run
  Handlers,         \* concurrent API requests
  NoRun,            \* "no run id"
  Inline,           \* steps whose agent runs inside advance, without a job
  Gated,            \* steps with requiresApproval
  Asking,           \* steps whose agent may raise a decision
  Skippable,        \* steps whose gating or condition may skip them
  Judges,           \* judge steps
  FailJudges,       \* judges with onFail "fail"
  BounceJudges,     \* judges with onFail "bounce"; the others park
  Delivered,        \* what finalizeBlock makes of the block: "done" or "pr_ready"
  Ops,              \* the external events that may happen
  MaxOps,           \* how many of them happen
  MaxPolls,         \* jobMaxPolls: polls of a job before the driver gives up
  MaxReports,       \* progress reports of all jobs together
  MaxCrashes        \* process deaths

Actors   == Workers \cup Handlers
AllOps   == {"start", "retry", "restart", "cancel", "stop", "approve", "changes",
             "reject", "answer", "judge", "budget", "resume"}
BlockStatus == {"planned", "in_progress", "blocked", "pr_ready", "done"}

ASSUME ExecutionAssumption ==
  /\ Workers \cap Handlers = {}
  /\ NoRun \notin Runs
  /\ Inline \subseteq Positions
  /\ Gated \subseteq Positions
  /\ Asking \subseteq Positions
  /\ Skippable \subseteq Positions
  /\ Judges \subseteq Positions
  /\ FailJudges \subseteq Judges
  /\ BounceJudges \subseteq Judges \ FailJudges
  /\ Delivered \in {"done", "pr_ready"}
  /\ Ops \subseteq AllOps
  /\ {MaxOps, MaxPolls, MaxReports, MaxCrashes} \subseteq Nat

VARIABLES
  blocks,    \* blocks[b]: the block's status on the board
  loc,       \* loc[a]: where actor a is, and what it holds
  spent,     \* external events so far
  crashes,   \* crashes so far
  reports    \* progress reports so far

budget == <<spent, crashes, reports>>
vars   == <<rows, blocks, loc, budget>>

\* Where a driver can be, and where a request handler can be.
DriverPc  == {"advance", "act", "inline", "poll", "polled", "cas", "upsert", "rework"}
HandlerPc == {"claim", "launch", "unblock", "settle", "answer", "rebounce"}
FailPc    == {"fail", "mark", "reread", "failblock"}
Pc        == {"idle"} \cup DriverPc \cup HandlerPc \cup FailPc

Loc ==
  [ pc : Pc, run : Runs \cup {NoRun}, mem : Instance,
    next : {"idle", "advance"},        \* where a pending write leads
    replaced : Runs \cup {NoRun},      \* insertLive's replaceId
    at : Positions,                    \* the step a human action is about
    polls : Nat ]

Idle == [ pc |-> "idle", run |-> NoRun, mem |-> Blank, next |-> "idle",
          replaced |-> NoRun, at |-> 1, polls |-> 0 ]

Init ==
  /\ StoreInit
  /\ blocks = [b \in Blocks |-> "planned"]
  /\ loc = [a \in Actors |-> Idle]
  /\ spent = 0
  /\ crashes = 0
  /\ reports = 0

In(a, pc) == loc[a].pc = pc
Go(a, l)  == loc' = [loc EXCEPT ![a] = l]
Run(a)    == loc[a].run
Mem(a)    == loc[a].mem

\* Actor a at pc, still about its run, holding nothing.
Bare(a, pc) == IF pc = "idle" THEN Idle ELSE [Idle EXCEPT !.pc = pc, !.run = Run(a)]
\* ... holding the copy i.
Hold(a, pc, i) == [Idle EXCEPT !.pc = pc, !.run = Run(a), !.mem = i]

SetBlock(b, s) == blocks' = [blocks EXCEPT ![b] = s]

-----------------------------------------------------------------------------
(* Shared by the handlers: how a copy is written back. *)

\* casPersist: on a lost race the driver re-enters its loop on fresh state.
CasThen(w, i, l) ==
  \/ CompareAndSwap(Run(w), i) /\ Go(w, l)
  \/ ~Swappable(Run(w), i) /\ Go(w, Bare(w, "advance")) /\ UNCHANGED rows

\* mutateInstance retries load, callback and compareAndSwap until the revision
\* it read is still stored: an edit without side effects is one atomic step.
Mutate(r, i) == CompareAndSwap(r, [i EXCEPT !.rev = rows[r].rev])

\* updateBlockProgress first, casPersist after it (persistAndEmit).
BlockThenCas(w, i, next) ==
  /\ Go(w, [Hold(w, "cas", i) EXCEPT !.next = next])
  /\ UNCHANGED rows

\* finalizeBlock: a block that is already done is left alone.
FinalizeBlock(b) ==
  SetBlock(b, IF blocks[b] = "done" THEN "done" ELSE Delivered)

\* The board as the run moves on: a terminal block keeps its status.
AdvanceBlock(b) ==
  SetBlock(b, IF blocks[b] \in {"done", "pr_ready"} THEN blocks[b] ELSE "in_progress")

\* settleStepAndAdvance for a step that is done in the copy i.
Settle(w, i) ==
  /\ IF IsFinal(i.cur) THEN FinalizeBlock(i.block) ELSE AdvanceBlock(i.block)
  /\ BlockThenCas(w, Settled(i), IF IsFinal(i.cur) THEN "idle" ELSE "advance")

\* parkStepAwaitingInput.
ParkAwaitingInput(w, i) ==
  /\ SetBlock(i.block, "blocked")
  /\ BlockThenCas(w, i, "idle")

\* Faulty: a gate sent back for changes is not raised again.
NeedsApprovalOnce(i) ==
  i.cur \in Gated /\ ~IsFinal(i.cur) /\ CurStep(i).approval = "none"

\* requiresApproval, never on the last step, and not approved already.
NeedsApproval(i) ==
  i.cur \in Gated /\ ~IsFinal(i.cur) /\ CurStep(i).approval # "approved"

\* recordStepResult: the agent asks, or the gate holds, or the run moves on.
RecordStepResult(w, i) ==
  \/ /\ i.cur \in Asking
     /\ CurStep(i).decision # "chosen"
     /\ ParkAwaitingInput(w, Asked(i))
  \/ /\ NeedsApproval(i)
     /\ ParkAwaitingInput(w, ParkedForApproval(i))
  \/ /\ ~NeedsApproval(i)
     /\ Settle(w, i)

-----------------------------------------------------------------------------
(* The durable driver: driveExecution and what it calls. *)

\* Faulty: only a run nothing was ever written to is delivered.
DriveStartOnce(w, r) ==
  /\ In(w, "idle")
  /\ rows[r].status \in {"running", "paused"}
  /\ rows[r].rev = 0
  /\ Go(w, [Idle EXCEPT !.pc = "advance", !.run = r])
  /\ UNCHANGED <<rows, blocks, budget>>

\* A job for the run is delivered to a worker.
DriveStart(w, r) ==
  /\ In(w, "idle")
  /\ rows[r].status \in {"running", "paused"}
  /\ Go(w, [Idle EXCEPT !.pc = "advance", !.run = r])
  /\ UNCHANGED <<rows, blocks, budget>>

\* advanceOnce loads the run; anything but a running or paused one is a no-op.
Advance(w) ==
  /\ In(w, "advance")
  /\ IF rows[Run(w)].status \in {"running", "paused"}
     THEN Go(w, Hold(w, "act", rows[Run(w)]))
     ELSE Go(w, Idle)
  /\ UNCHANGED <<rows, blocks, budget>>

\* runStepPreamble, over budget: the run pauses, or stays paused.
OverBudget(w) ==
  /\ In(w, "act")
  /\ "budget" \in Ops /\ spent < MaxOps
  /\ spent' = spent + 1
  /\ IF Mem(w).status = "paused"
     THEN Go(w, Idle) /\ UNCHANGED rows
     ELSE CasThen(w, [Mem(w) EXCEPT !.status = "paused"], Idle)
  /\ UNCHANGED <<blocks, crashes, reports>>

\* A step waiting on an answer is not run: the driver parks on it again.
Waiting(i) ==
  /\ CurStep(i).state = "waiting_decision"
  /\ CurStep(i).decision # "none" \/ CurStep(i).approval # "none"

ParkAgain(w) ==
  /\ In(w, "act")
  /\ Waiting(Mem(w))
  /\ CasThen(w, [Mem(w) EXCEPT !.status = "blocked"], Idle)
  /\ UNCHANGED <<blocks, budget>>

\* The copy once the preamble let the step proceed: running, step started.
Stepping(w)  == In(w, "act") /\ ~Waiting(Mem(w))
Started(w) ==
  LET i == Mem(w)
  IN  [WithStep(i, i.cur, StartStep(CurStep(i))) EXCEPT !.status = "running"]

\* Gating, a condition or a missing pull request skips the step.
Skip(w) ==
  /\ Stepping(w)
  /\ Mem(w).cur \in Skippable
  /\ Settle(w, Started(w))
  /\ UNCHANGED budget

AtJudge(w) == Mem(w).cur \in Judges
AtJob(w)   == Mem(w).cur \notin Judges \cup Inline

\* A job is already attached: await it, writing nothing.
Attach(w) ==
  /\ Stepping(w)
  /\ AtJob(w)
  /\ CurStep(Mem(w)).job
  /\ Go(w, Bare(w, "poll"))
  /\ UNCHANGED <<rows, blocks, budget>>

\* The job is dispatched and its handle persisted.
Dispatch(w) ==
  /\ Stepping(w)
  /\ AtJob(w)
  /\ ~CurStep(Mem(w)).job
  /\ LET i == Started(w)
     IN  CasThen(w, WithStep(i, i.cur, [CurStep(i) EXCEPT !.job = TRUE]), Bare(w, "poll"))
  /\ UNCHANGED <<blocks, budget>>

\* The dispatch is refused: its record is persisted, then the run fails.
DispatchFails(w) ==
  /\ Stepping(w)
  /\ AtJob(w)
  /\ ~CurStep(Mem(w)).job
  /\ CasThen(w, Started(w), Bare(w, "fail"))
  /\ UNCHANGED <<blocks, budget>>

\* advanceInstance throws (an agent, GitHub or database error): the run fails.
AdvanceThrows(w) ==
  /\ In(w, "act") \/ In(w, "inline")
  /\ Go(w, Bare(w, "fail"))
  /\ UNCHANGED <<rows, blocks, budget>>

\* An inline agent: the step is persisted before it runs, recorded after.
InlineStart(w) ==
  /\ Stepping(w)
  /\ Mem(w).cur \in Inline \ Judges
  /\ LET i == Started(w)
     IN  CasThen(w, i, Hold(w, "inline", [i EXCEPT !.rev = @ + 1]))
  /\ UNCHANGED <<blocks, budget>>

InlineDone(w) ==
  /\ In(w, "inline")
  /\ RecordStepResult(w, Mem(w))
  /\ UNCHANGED budget

-----------------------------------------------------------------------------
(* Polling the attached job. *)

\* pollAgentJob loads the run, then asks the executor about the job.
Poll(w) ==
  /\ In(w, "poll")
  /\ loc[w].polls < MaxPolls
  /\ LET i == rows[Run(w)]
     IN  IF i.status \notin {"running", "paused"} THEN Go(w, Idle)
         ELSE IF ~CurStep(i).job THEN Go(w, Bare(w, "advance"))
         ELSE Go(w, [Hold(w, "polled", i) EXCEPT !.polls = loc[w].polls])
  /\ UNCHANGED <<rows, blocks, budget>>

\* The polling budget is spent, or the status stayed unreadable (at any poll).
PollExhausted(w) ==
  /\ In(w, "poll")
  /\ Go(w, Bare(w, "fail"))
  /\ UNCHANGED <<rows, blocks, budget>>

\* Still running, nothing new to show: poll again.
PollRunning(w) ==
  /\ In(w, "polled")
  /\ Go(w, [Bare(w, "poll") EXCEPT !.polls = loc[w].polls + 1])
  /\ UNCHANGED <<rows, blocks, budget>>

\* Still running, with progress: it is folded onto the stored run, whatever
\* that is by now (mutateInstance), never onto the loaded copy.
PollProgress(w) ==
  /\ In(w, "polled")
  /\ reports < MaxReports
  /\ reports' = reports + 1
  /\ IF Present(Run(w))
     THEN /\ Mutate(Run(w), rows[Run(w)])
          /\ Go(w, [Bare(w, "poll") EXCEPT !.polls = loc[w].polls + 1])
     ELSE Go(w, Bare(w, "advance")) /\ UNCHANGED rows
  /\ UNCHANGED <<blocks, spent, crashes>>

\* The container was evicted: dispatch again, a bounded number of times.
PollEvicted(w) ==
  /\ In(w, "polled")
  /\ LET i == Mem(w)
         s == CurStep(i)
     IN  IF s.evictions < MaxEvictions
         THEN CasThen(w,
                WithStep(i, i.cur, [s EXCEPT !.job = FALSE, !.evictions = @ + 1]),
                Bare(w, "advance"))
         ELSE CasThen(w, i, Bare(w, "fail"))
  /\ UNCHANGED <<blocks, budget>>

\* The job failed: the errored dispatch is persisted, then the run fails.
PollFailed(w) ==
  /\ In(w, "polled")
  /\ CasThen(w, Mem(w), Bare(w, "fail"))
  /\ UNCHANGED <<blocks, budget>>

\* Faulty: the finished job's handle stays on the step.
PollDoneKeepsJob(w) ==
  /\ In(w, "polled")
  /\ RecordStepResult(w, Mem(w))
  /\ UNCHANGED budget

\* The job finished: its handle is dropped and its result recorded.
PollDone(w) ==
  /\ In(w, "polled")
  /\ LET i == Mem(w)
     IN  RecordStepResult(w, WithStep(i, i.cur, [CurStep(i) EXCEPT !.job = FALSE]))
  /\ UNCHANGED budget

\* The write a block update preceded.
Cas(w) ==
  /\ In(w, "cas")
  /\ CasThen(w, Mem(w), Bare(w, loc[w].next))
  /\ UNCHANGED <<blocks, budget>>

-----------------------------------------------------------------------------
(* A judge step: JudgeStepController.evaluate.  The assessment is a model   *)
(* call between the load (Advance) and the action that disposes of it.      *)

Evaluating(w) == Stepping(w) /\ AtJudge(w)

\* The judge's copy with its state settled.
Judged(i) == WithStep(i, i.cur, [CurStep(i) EXCEPT !.judge = "settled"])

\* bounceTargetIndex is the step before, if there is one.
BounceTarget(k) == k > 1
\* What disposeJudgeVerdict makes of a verdict below the bar.
BudgetSpent(i)  == CurStep(i).bounces >= MaxBounces
Bounces(i) == i.cur \in BounceJudges /\ BounceTarget(i.cur) /\ ~BudgetSpent(i)
CapSpent(i) == i.cur \in BounceJudges /\ BounceTarget(i.cur) /\ BudgetSpent(i)
Parks(i)   == i.cur \notin FailJudges /\ ~Bounces(i)

JudgePass(w) ==
  /\ Evaluating(w)
  /\ RecordStepResult(w, Judged(Started(w)))
  /\ UNCHANGED budget

JudgeFail(w) ==
  /\ Evaluating(w)
  /\ Mem(w).cur \in FailJudges
  /\ CasThen(w, Judged(Started(w)), Bare(w, "fail"))
  /\ UNCHANGED <<blocks, budget>>

\* The verdict sends the work back: the run is written before the board.
Bounced(i, k) ==
  RerunProducerThrough(
    WithStep(i, k, [i.steps[k] EXCEPT !.judge = "settled"]), k - 1, k)

JudgeBounce(w) ==
  /\ Evaluating(w)
  /\ Bounces(Mem(w))
  /\ LET i == Started(w)
         b == WithStep(i, i.cur, [CurStep(i) EXCEPT !.bounces = @ + 1])
     IN  CasThen(w, Bounced(b, i.cur),
                 [Hold(w, "rework", Blank) EXCEPT !.mem.block = i.block, !.next = "advance"])
  /\ UNCHANGED <<blocks, budget>>

\* updateBlockProgress after the bounce is stored.
Rework(a) ==
  /\ In(a, "rework")
  /\ SetBlock(Mem(a).block, "in_progress")
  /\ Go(a, Bare(a, loc[a].next))
  /\ UNCHANGED <<rows, budget>>

\* The risk policy in force answers a spent budget instead of a person.
JudgeCapSettled(w) ==
  /\ Evaluating(w)
  /\ CapSpent(Mem(w))
  /\ RecordStepResult(w, Judged(Started(w)))
  /\ UNCHANGED budget

\* parkStepOnDecision: the board first, then an upsert of the whole copy.
JudgePark(w) ==
  /\ Evaluating(w)
  /\ Parks(Mem(w))
  /\ LET i == ParkedForApproval(Started(w))
     IN  /\ SetBlock(i.block, "blocked")
         /\ Go(w, Hold(w, "upsert",
                    WithStep(i, i.cur, [CurStep(i) EXCEPT !.judge = "awaiting"])))
  /\ UNCHANGED <<rows, budget>>

\* A violated live index makes the statement throw, and the driver fails the run.
ParkUpsert(w) ==
  /\ In(w, "upsert")
  /\ \/ Upsert(Run(w), Mem(w)) /\ Go(w, Idle)
     \/ ~Upsertable(Run(w), Mem(w)) /\ Go(w, Bare(w, "fail")) /\ UNCHANGED rows
  /\ UNCHANGED <<blocks, budget>>

-----------------------------------------------------------------------------
(* failRun, on behalf of a driver or of a request. *)

\* Load the run: gone or already ended, nothing is left to fail.
FailLoad(a) ==
  /\ In(a, "fail")
  /\ Go(a, IF Live(Run(a)) THEN Bare(a, "mark") ELSE Idle)
  /\ UNCHANGED <<rows, blocks, budget>>

FailMark(a) ==
  /\ In(a, "mark")
  /\ MarkFailed(Run(a))
  /\ Go(a, Bare(a, "reread"))
  /\ UNCHANGED <<blocks, budget>>

\* Only a run that did end as failed colours its block.
FailReread(a) ==
  /\ In(a, "reread")
  /\ Go(a, IF rows[Run(a)].status = "failed"
           THEN [Hold(a, "failblock", Blank) EXCEPT !.mem.block = rows[Run(a)].block]
           ELSE Idle)
  /\ UNCHANGED <<rows, blocks, budget>>

FailBlock(a) ==
  /\ In(a, "failblock")
  /\ SetBlock(Mem(a).block, "blocked")
  /\ Go(a, Idle)
  /\ UNCHANGED <<rows, budget>>

-----------------------------------------------------------------------------
(* Requests: the run lifecycle (RunLifecycleController). *)

\* An idle handler takes up an enabled external event.
Request(h, op) ==
  /\ In(h, "idle")
  /\ op \in Ops /\ spent < MaxOps
  /\ spent' = spent + 1
  /\ UNCHANGED <<crashes, reports>>

\* A run id nobody has used or is about to use.
Fresh(r) == rows[r].status = "unborn" /\ \A a \in Actors : Run(a) # r

Claiming(h, r, i, replaced) ==
  Go(h, [Idle EXCEPT !.pc = "claim", !.run = r, !.mem = i, !.replaced = replaced])

\* start: read the block's run, to replace it with a first run of the pipeline.
Start(h, b) ==
  /\ Request(h, "start")
  /\ \E r \in Runs :
       /\ Fresh(r)
       /\ \E prior \in IF OnBlock(b) = {} THEN {NoRun} ELSE OnBlock(b) :
            Claiming(h, r, LaunchedOn(b), prior)
  /\ UNCHANGED <<rows, blocks>>

\* retry: only a failed run, resumed from its first unfinished step.
Retry(h, p) ==
  /\ Request(h, "retry")
  /\ rows[p].status = "failed"
  /\ \E r \in Runs, from \in Positions :
       /\ Fresh(r)
       /\ ResumesAt(rows[p], from)
       /\ Claiming(h, r, ResumedFrom(rows[p], from), p)
  /\ UNCHANGED <<rows, blocks>>

\* restartFromStep: any stored run, from any of its steps.
Restart(h, p, k) ==
  /\ Request(h, "restart")
  /\ Present(p)
  /\ \E r \in Runs : Fresh(r) /\ Claiming(h, r, ResumedFrom(rows[p], k), p)
  /\ UNCHANGED <<rows, blocks>>

\* claimLiveRunOrConflict: the live index decides between concurrent claims.
Claim(h) ==
  /\ In(h, "claim")
  /\ InsertLive(Run(h), Mem(h), loc[h].replaced)
  /\ Go(h, IF Claimable(Mem(h).block, loc[h].replaced)
           THEN [Hold(h, "launch", Blank) EXCEPT !.mem.block = Mem(h).block]
           ELSE Idle)
  /\ UNCHANGED <<blocks, budget>>

\* The claimed run takes over its block and is handed to the driver.
Launch(h) ==
  /\ In(h, "launch")
  /\ SetBlock(Mem(h).block, "in_progress")
  /\ Go(h, Idle)
  /\ UNCHANGED <<rows, budget>>

\* cancel: the block's runs are deleted, then the block returns to planned.
Cancel(h, b) ==
  /\ Request(h, "cancel")
  /\ DeleteByBlock(b)
  /\ Go(h, [Idle EXCEPT !.pc = "unblock", !.mem.block = b])
  /\ UNCHANGED blocks

CancelBlock(h) ==
  /\ In(h, "unblock")
  /\ SetBlock(Mem(h).block, "planned")
  /\ Go(h, Idle)
  /\ UNCHANGED <<rows, budget>>

\* stopRun: an ended run is left alone, a live one is failed.
Stop(h, r) ==
  /\ Request(h, "stop")
  /\ Live(r)
  /\ Go(h, [Idle EXCEPT !.pc = "fail", !.run = r])
  /\ UNCHANGED <<rows, blocks>>

\* resumePaused, one run: only a run still paused at write time is flipped.
ResumePaused(h, r) ==
  /\ Request(h, "resume")
  /\ rows[r].status = "paused"
  /\ CompareAndSwap(r, [rows[r] EXCEPT !.status = "running"])
  /\ UNCHANGED <<blocks, loc>>

-----------------------------------------------------------------------------
(* Requests: a human's answers (StepDecisionController).                    *)

Approval(r, k) == rows[r].steps[k].approval

\* After the mutation of a gate on step k: settleAdvancedGate's block write.
ToSettle(h, r, k) ==
  Go(h, [Idle EXCEPT !.pc = "settle", !.run = r, !.at = k, !.mem.block = rows[r].block])

WithApproval(i, k, v) == WithStep(i, k, [i.steps[k] EXCEPT !.approval = v])

\* approveStep: any unresolved approval of a run that has not ended.
Approve(h, r, k) ==
  /\ Request(h, "approve")
  /\ Live(r)
  /\ Approval(r, k) \in {"pending", "changes_requested"}
  /\ Mutate(r, AdvanceRunPastGate(WithApproval(rows[r], k, "approved"), k))
  /\ ToSettle(h, r, k)
  /\ UNCHANGED blocks

SettleGate(h) ==
  /\ In(h, "settle")
  /\ IF IsFinal(loc[h].at) THEN FinalizeBlock(Mem(h).block) ELSE AdvanceBlock(Mem(h).block)
  /\ Go(h, Idle)
  /\ UNCHANGED <<rows, budget>>

\* requestStepChanges: the step runs again with the feedback.
RequestChanges(h, r, k) ==
  /\ Request(h, "changes")
  /\ Present(r)
  /\ Approval(r, k) = "pending"
  /\ LET i == WithApproval(rows[r], k, "changes_requested")
     IN  Mutate(r, [WithStep(i, k, StartStep([i.steps[k] EXCEPT !.job = FALSE]))
                      EXCEPT !.status = Unblocked(i.status)])
  /\ UNCHANGED <<blocks, loc>>

\* rejectStep: the rejection is stored, then the run is failed.
Reject(h, r, k) ==
  /\ Request(h, "reject")
  /\ Present(r)
  /\ Approval(r, k) = "pending"
  /\ Mutate(r, WithApproval(rows[r], k, "rejected"))
  /\ Go(h, [Idle EXCEPT !.pc = "fail", !.run = r])
  /\ UNCHANGED blocks

\* resolveDecision, one attempt of its callback: choose, restart the step, and
\* set the block in progress before the write it belongs to.
Answered(i, k) ==
  [WithStep(i, k, [StartStep(i.steps[k]) EXCEPT !.decision = "chosen"])
     EXCEPT !.status = Unblocked(i.status)]

AnswerAttempt(h, r, k) ==
  /\ Present(r)
  /\ rows[r].steps[k].decision # "none"
  /\ SetBlock(rows[r].block, "in_progress")
  /\ Go(h, [Idle EXCEPT !.pc = "answer", !.run = r, !.at = k,
                        !.mem = Answered(rows[r], k)])
  /\ UNCHANGED rows

Answer(h, r, k) == Request(h, "answer") /\ AnswerAttempt(h, r, k)

AnswerStored(h) ==
  /\ In(h, "answer")
  /\ CompareAndSwap(Run(h), Mem(h))
  /\ Go(h, Idle)
  /\ UNCHANGED <<blocks, budget>>

\* The revision moved: the callback runs again, or finds its decision gone.
AnswerAgain(h) ==
  /\ In(h, "answer")
  /\ ~Swappable(Run(h), Mem(h))
  /\ \/ AnswerAttempt(h, Run(h), loc[h].at)
     \/ ~Present(Run(h)) /\ Go(h, Idle) /\ UNCHANGED <<rows, blocks>>
  /\ UNCHANGED budget

-----------------------------------------------------------------------------
(* Requests: a human's answer to a parked judge (resolveDecision).          *)

\* The first step that awaits it; the run's status is not looked at.
AwaitsVerdict(s) ==
  s.state = "waiting_decision" /\ s.approval = "pending" /\ s.judge = "awaiting"
FirstAwaiting(r, k) ==
  /\ Present(r)
  /\ AwaitsVerdict(rows[r].steps[k])
  /\ \A j \in 1..k - 1 : ~AwaitsVerdict(rows[r].steps[j])

WithJudge(i, k, v) == WithStep(i, k, [i.steps[k] EXCEPT !.judge = v])

\* Proceed: past the gate; the approval object itself stays pending.
JudgeProceed(h, r, k) ==
  /\ Request(h, "judge")
  /\ FirstAwaiting(r, k)
  /\ Mutate(r, AdvanceRunPastGate(WithJudge(rows[r], k, "settled"), k))
  /\ ToSettle(h, r, k)
  /\ UNCHANGED blocks

JudgeStop(h, r, k) ==
  /\ Request(h, "judge")
  /\ FirstAwaiting(r, k)
  /\ Mutate(r, WithJudge(rows[r], k, "settled"))
  /\ Go(h, [Idle EXCEPT !.pc = "fail", !.run = r])
  /\ UNCHANGED blocks

\* Bounce: the resolution is recorded first, the rework is a second write.
JudgeSendBack(h, r, k) ==
  /\ Request(h, "judge")
  /\ FirstAwaiting(r, k)
  /\ BounceTarget(k)
  /\ Mutate(r, rows[r])
  /\ Go(h, [Idle EXCEPT !.pc = "rebounce", !.run = r, !.at = k,
                        !.mem = [rows[r] EXCEPT !.rev = @ + 1]])
  /\ UNCHANGED blocks

\* A lost race is an error to the caller here, not a re-drive.
SendBackStored(h) ==
  /\ In(h, "rebounce")
  /\ LET i == Bounced(Mem(h), loc[h].at)
     IN  \/ /\ CompareAndSwap(Run(h), [i EXCEPT !.status = Unblocked(i.status)])
            /\ Go(h, [Hold(h, "rework", Blank) EXCEPT !.mem.block = i.block])
         \/ /\ ~Swappable(Run(h), i)
            /\ Go(h, Idle)
            /\ UNCHANGED rows
  /\ UNCHANGED <<blocks, budget>>

-----------------------------------------------------------------------------
(* A process dies: what it was doing is lost, what it wrote stays.          *)

Crash(a) ==
  /\ ~In(a, "idle")
  /\ crashes < MaxCrashes
  /\ crashes' = crashes + 1
  /\ Go(a, Idle)
  /\ UNCHANGED <<rows, blocks, spent, reports>>

-----------------------------------------------------------------------------

DriverStep(w) ==
  \/ Advance(w) \/ ParkAgain(w) \/ Skip(w) \/ Attach(w)
  \/ Dispatch(w) \/ DispatchFails(w) \/ AdvanceThrows(w)
  \/ InlineStart(w) \/ InlineDone(w)
  \/ Poll(w) \/ PollRunning(w) \/ PollProgress(w) \/ PollExhausted(w) \/ PollEvicted(w)
  \/ PollFailed(w) \/ PollDone(w) \/ Cas(w)
  \/ JudgePass(w) \/ JudgeFail(w) \/ JudgeBounce(w) \/ JudgeCapSettled(w)
  \/ JudgePark(w) \/ ParkUpsert(w)

\* What an actor does next on its own account, once it has begun.
FailStep(a)    == FailLoad(a) \/ FailMark(a) \/ FailReread(a) \/ FailBlock(a)
HandlerStep(h) ==
  \/ Claim(h) \/ Launch(h) \/ CancelBlock(h) \/ SettleGate(h)
  \/ AnswerStored(h) \/ AnswerAgain(h) \/ SendBackStored(h)
Continue(a)    == DriverStep(a) \/ HandlerStep(a) \/ FailStep(a) \/ Rework(a)

HumanStep(h) ==
  \/ \E b \in Blocks : Start(h, b) \/ Cancel(h, b)
  \/ \E r \in Runs : Retry(h, r) \/ Stop(h, r) \/ ResumePaused(h, r)
  \/ \E r \in Runs, k \in Positions :
       \/ Restart(h, r, k)
       \/ Approve(h, r, k) \/ RequestChanges(h, r, k) \/ Reject(h, r, k)
       \/ Answer(h, r, k)
       \/ JudgeProceed(h, r, k) \/ JudgeStop(h, r, k) \/ JudgeSendBack(h, r, k)

Next ==
  \/ \E w \in Workers : (\E r \in Runs : DriveStart(w, r)) \/ OverBudget(w)
  \/ \E a \in Actors : Continue(a) \/ Crash(a)
  \/ \E h \in Handlers : HumanStep(h)

Spec == Init /\ [][Next]_vars

-----------------------------------------------------------------------------
(* Fairness.  A delivered job is worked on and a request once received runs *)
(* to its end; nobody has to start a run, answer it, stop it or crash.  The *)
(* choices a driver makes (what the agent or the judge says) are not fair.  *)

Fairness ==
  /\ \A a \in Actors : WF_vars(Continue(a))
  /\ \A r \in Runs : WF_vars(\E w \in Workers : DriveStart(w, r))

FairSpec == Spec /\ Fairness

-----------------------------------------------------------------------------
(* Properties. *)

\* Types of the run table, the board, the actors and the bounds.
TypeOK ==
  /\ rows \in [Runs -> Instance]
  /\ blocks \in [Blocks -> BlockStatus]
  /\ loc \in [Actors -> Loc]
  /\ spent \in 0..MaxOps
  /\ crashes \in 0..MaxCrashes
  /\ reports \in 0..MaxReports

\* No two live runs share a block, even though a driver's compareAndSwap sets
\* the status it computed earlier without looking at the other rows.
OneLivePerBlock ==
  \A r, o \in Runs :
    Live(r) /\ Live(o) /\ rows[r].block = rows[o].block => r = o

\* A run that ended keeps its end until it is deleted, and a deleted run does
\* not come back: no stale driver copy resurrects it.
EndedStaysEnded ==
  [][\A r \in Runs :
       /\ rows[r].status \in EndStatus => rows'[r].status \in {rows[r].status, "deleted"}
       /\ rows[r].status = "deleted" => rows'[r].status = "deleted"]_rows

\* A run that failed is never reported done afterwards, whatever answer to one
\* of its parked steps arrives late.
FailedNeverDone ==
  [][\A r \in Runs : rows[r].status = "failed" => rows'[r].status # "done"]_rows

\* The engine implements the lifecycle of a run.
RunView == INSTANCE RunLifecycle WITH
  status <- [r \in Runs |-> rows[r].status],
  home   <- [r \in Runs |-> rows[r].block]
ImplementsLifecycle == RunView!Lifecycle

\* The cursor separates what is done from what has not begun, and a run is
\* done only with every step done.
StepsFollowCursor ==
  \A r \in Runs :
    LET i == rows[r]
    IN  /\ Live(r) =>
             /\ \A k \in 1..i.cur - 1 : i.steps[k].state = "done"
             /\ CurStep(i).state \in {"working", "waiting_decision"}
             /\ \A k \in i.cur + 1..N : i.steps[k].state = "pending"
        /\ i.status = "done" => \A k \in Positions : i.steps[k].state = "done"

\* Every approval gate behind the cursor of a live run was approved, whatever
\* reworks, answers and duplicate requests led there: no gate is slipped past.
GatesHonoured ==
  \A r \in Runs : Live(r) =>
    \A k \in Gated \ (Skippable \cup Judges) :
      k < rows[r].cur => rows[r].steps[k].approval = "approved"

\* Only the step under the cursor has a job in a container: an answered gate,
\* a rework or an eviction leaves no job behind that nobody polls.
NoJobBehindCursor ==
  \A r \in Runs : Live(r) =>
    \A k \in Positions : rows[r].steps[k].job => k = rows[r].cur

\* A blocked run shows the question that can un-block it, unless the request
\* that answered it is just failing the run: no run is parked for ever.
Question(s) ==
  /\ s.state = "waiting_decision"
  /\ s.approval = "pending" \/ s.decision = "open"
BeingFailed(r) == \E a \in Actors : Run(a) = r /\ (In(a, "fail") \/ In(a, "mark"))
ParkedRunIsAnswerable ==
  \A r \in Runs :
    rows[r].status = "blocked" => Question(CurStep(rows[r])) \/ BeingFailed(r)

\* No later write of a driver takes an answer back: a chosen decision stays
\* chosen, an approval is only dropped with its step's rework.
HumanAnswersSurvive ==
  [][\A r \in Runs, k \in Positions :
       LET s == rows[r].steps[k]
           t == rows'[r].steps[k]
       IN  rows'[r].status \notin GoneStatus =>
             /\ s.decision = "chosen" => t.decision = "chosen"
             /\ s.approval = "approved" => t.approval \in {"approved", "none"}
             /\ s.approval = "rejected" => t.approval = "rejected"
             /\ s.approval = "changes_requested" => t.approval # "none"
                                                     \/ t.state \in {"pending", "working"}]_rows

\* A run does not stay `running' for ever: it parks, pauses or ends.
RunningSettles == \A r \in Runs : rows[r].status = "running" ~> rows[r].status # "running"

=============================================================================
