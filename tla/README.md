# A TLA+ model of the cat-factory execution engine

cat-factory runs pipelines of coding agents for the blocks of a board. A *run*
(execution instance) is one row of `agent_runs`: a status, a cursor, and a list
of steps. Durable drivers advance runs for minutes at a time; people answer,
stop, retry and cancel them through the API; everything meets in that one row.
These modules model that meeting, and what it stands on: the engine under
`src/backend/packages/orchestration/src/modules/execution/` over the Node
runtime's run store; the job queue and the sweeper that keep a run driven; the
jobs an agent step runs in its container, with the follow-up gate; the
human-review gate and its fixer; and the coherent caches beside it all.

Paths below starting with `EX/` are under that directory.

## Inventory

| Component | State it keeps | Operations | What makes it hard | What makes it correct |
|---|---|---|---|---|
| Run store (`runtimes/node/.../drizzle/execution.ts`) | one row per run: rev, block, status, detail JSON | get, upsert, compareAndSwap, insertLive, deleteByBlock, markFailed, listings | every writer holds a copy from earlier; upsert has no guard | one live run per block; ends are final |
| Step graph, run state machine (`EX/StepGraph.ts`, `EX/RunStateMachine.ts`) | none; they rewrite a loaded run | start/finish/pause/reset a step, rewind, advance, park, finalize, fail | board write before run write; load, mark, re-read, board in failRun | cursor and steps agree; a blocked run shows a question |
| Durable driver (`EX/drive.ts`, `EX/advance.ts`, `EX/stepPreamble.ts`, `EX/ExecutionService.ts`) | where it is in its loop, its copy | advance, poll, contention re-drive | two drivers of a run, crash anywhere, budgets | a stale copy changes nothing; a running run settles |
| Dispatch and polling (`EX/AgentDispatchController.ts`, `EX/RunDispatcher.ts`, `EX/Poll*Controller.ts`) | `step.jobId`, eviction count | dispatch, attach, poll, record the result | evictions, progress folded while people answer | no job behind the cursor |
| Judges (`EX/JudgeStepController.ts`) | `step.judge`: status, bounces | evaluate, resolve (proceed, stop, bounce) | long model call inside a read-modify-write | rework resets what it re-runs; bounces are bounded |
| Human decisions (`EX/StepDecisionController.ts`) | `step.decision`, `step.approval` | resolve, approve, request changes, reject | duplicates, late answers, re-run in flight | answers survive; gates are honoured |
| Run lifecycle (`EX/RunLifecycleController.ts`, `EX/retry.logic.ts`, `EX/runStart.ts`) | none | start, retry, restart, cancel, stop, resume | concurrent claims of a block | one winner; a replacement keeps finished work only |
| Advance queue and sweeper (`pgBossRunner.ts`, `reclaim.ts`) | queued jobs, heartbeats, singleton keys | enqueue, work, reclaim an orphan | a slow worker taken for dead | a running run is always delivered again |
| Follow-up gate (`EX/FollowUpGateController.ts`) | items with a decision each, loops | stream, decide, park, send the coder back, drop | decisions while the coder is polled; a spent budget | nothing undecided is passed; answers reach the coder |
| Polling gates (`EX/GateStepController.ts`, `packages/gates`) | phase, attempts, log, handed threads on the step | probe, dispatch a helper, complete, re-arm, request a fix | provider calls before the persist; lost helpers | no hot loop; no round or request lost; feedback addressed |
| Companions, iteration caps, deployer, merge, delegated executors | attempt counters on the step | rework, cap answers, provisioning, external merge | external effect before the persist, exhausted budgets | no effect twice; every loop bounded |
| Notifications | a card: open, acted, dismissed, escalation | raise, act, resolve, escalate | claim, side effect, reopen against a concurrent resolve | one act per card |
| Recurring pipelines, initiative loop, bootstrap | schedules, child items, bootstrap runs | sweeps and ticks that start runs | overlapping sweeps, a tick that fails half way | a due item starts one run |
| API key pool, vendor limiter | usage windows; permits and a wait queue | lease, mark; acquire, release, abort | concurrent leases, abort while queued | no double lease; no lost permit |
| Application caches | generation counters, in-flight loads | read, invalidate, probe | invalidation during a load | bounded staleness |
| Executor harness | jobs with buffers | start, poll (drains), watchdogs | lost answers after a drain | one execution per job id |
| Cloudflare and local runtimes | D1 rows, Workflows instances, containers | the same ports | a different driver over the same engine | as the Node runtime |
| Server, contracts, integrations, prompts, telemetry, frontend, SDKs | - | - | I/O, content, types | outside this model |

Who calls whom: the API calls the lifecycle and decision controllers, which
read and write rows and then wake the driver; the queue delivers a run id to a
driver, which loads the row, calls an executor, a judge or nobody, and writes
the row back. Block statuses are a second store, written beside the rows and
never in the same transaction. No component waits for another inside a
transaction, so there is no deadlock to look for; what goes wrong is stale
state, order, and a death between two writes.

## Modules

| Module | Models |
|---|---|
| `RunSteps` | a run and its steps as values, and the pure mutations: StepGraph, settle/advance, park, retry planning |
| `AgentRuns` | the table: one operator per SQL statement or transaction of the repository |
| `Execution` | drivers and request handlers over the table and the board; properties |
| `RunLifecycle` | abstract specification: what a run promises whoever looks at it |
| `AdvanceQueue` | pg-boss advance jobs, workers, enqueuing handlers, sweepers; what `Execution`'s `DriveStart` rests on |
| `JobRegistry` | the harness in a container: jobs by id, buffers drained on read |
| `AgentJobs` | one coder step over `JobRegistry`: dispatch, polls, recoveries, follow-up gate |
| `ReviewGate` | the human-review gate over `JobRegistry`: probe, fixer, completion, people |
| `CacheCoherency` | a cached value on several isolates and the generation directory |
| `MCExecution`, `MCAdvanceQueue`, `MCAgentJobs`, `MCReviewGate`, `MCCacheCoherency` | the instances TLC checks; one `.cfg` per question |
| `RunStepsProofs`, `ExecutionProofs`, `ExecutionSafety`, `ExecutionSteps` | proofs about `RunSteps`, `Execution` and `RunLifecycle`, each extending the one before |
| `AdvanceQueueProofs`, `AgentJobsProofs`, `ReviewGateProofs`, `CacheCoherencyProofs` | proofs about the other components |

`RunSteps <- AgentRuns <- Execution <- MCExecution`, and
`Execution` instantiates `RunLifecycle` as `RunView`. The other components each
take from the engine the slice they meet: `AdvanceQueue` the ways a drive leaves
its run, `AgentJobs` and `ReviewGate` one step's record in the row. The latter
two compose with the harness: `JobRegistry <- AgentJobs <- MCAgentJobs` and
`JobRegistry <- ReviewGate <- MCReviewGate`, sharing the variable `jobs`.

### State

Of `Execution`:

- `rows[r]`: the stored run, or a gone one (`unborn`, `deleted`). `rev` is
  the optimistic-concurrency revision. Steps keep exactly the fields the engine
  branches on: state, approval, decision, job, judge status, bounce and eviction
  counts. Texts, timing and metrics are left out.
- `blocks[b]`: the block's status on the board.
- `loc[a]`: what actor `a` is doing. `pc` names the point between two awaits,
  `mem` is the copy it loaded. A *worker* is a durable driver, a *handler* an
  API request.
- `spent`, `crashes`, `reports`: how much of each bound has been used.

Of the other modules:

- `AdvanceQueue`: `status[r]`; `jobs`, the live rows of the queue, each with its
  attempt and whether its heartbeat is recent; `worker[n]`, the attempt a node
  works on; `sender[r]`, resends a handler still owes; `sweep[n]`, a tick in
  flight with its `orphanedSince` clocks (in ticks); `tried`, what a node has put
  back itself (history). Time is abstract: `LeaseExpires`, `HeartbeatMissed` and
  `HeartbeatStops` are steps.
- `AgentJobs`, `ReviewGate`: `run` is the row's slice of the step, `driver[d]`
  a drive with its copy. `fresh` says whose copy is still the row's revision, so
  a compare-and-swap is "write if in `fresh`". Job ids are dispatch epochs: the
  run and the agent kind are fixed. `surfaced`, `applied`, `pushed` are history.
- `CacheCoherency`: the stored version, the directory (each bump remembers the
  version it announces), per isolate the entry, the baseline and the window. A
  read belongs to an invocation or to none; `from` is the read whose load it is
  served, its own or the one it joined. `told` and `written` are history, `owed`
  is what a read was promised.

### Correspondence

An action covers the code between two points where another actor can step in:
an awaited read or write of shared state, or a long outbound call. A read and a
later write are therefore separate actions whenever the code does not repeat
the read (`casPersist`, the upsert of a parking judge, the second write of a
judge's send-back, `failRun`'s four accesses, board writes before and after a
run write). `mutateInstance` repeats load, callback and compare-and-swap until
the revision stands, so a callback that touches nothing but its copy is one
atomic step (`Mutate`); `resolveDecision`, whose callback writes the board on
each attempt, is modelled attempt by attempt (`AnswerAttempt`, `AnswerStored`,
`AnswerAgain`). Its bound of eight attempts is left out.

| Code | Actions |
|---|---|
| queue delivery | `DriveStart` |
| `advanceInstance`, preamble | `Advance`, `OverBudget`, `ParkAgain`, `Skip`, `AdvanceThrows` |
| agent step | `Attach`, `Dispatch`, `DispatchFails`, `InlineStart`, `InlineDone` |
| `pollAgentJob`, `pollUntil` | `Poll`, `PollRunning`, `PollProgress`, `PollEvicted`, `PollFailed`, `PollDone`, `PollExhausted` |
| `persistAndEmit`'s run write | `Cas` |
| judge `evaluate` | `JudgePass`, `JudgeFail`, `JudgeBounce`, `Rework`, `JudgeCapSettled`, `JudgePark`, `ParkUpsert` |
| `failRun` | `FailLoad`, `FailMark`, `FailReread`, `FailBlock` |
| start, retry, restart | `Start`, `Retry`, `Restart`, then `Claim`, `Launch` |
| cancel, stop, resume | `Cancel`, `CancelBlock`, `Stop`, `ResumePaused` |
| decisions and gates | `Answer...`, `Approve`, `RequestChanges`, `Reject`, `SettleGate` |
| judge resolution | `JudgeProceed`, `JudgeStop`, `JudgeSendBack`, `SendBackStored` |
| process death | `Crash` |

In `AdvanceQueue`, `AgentJobs`, `ReviewGate` and `CacheCoherency`:

| Code | Actions |
|---|---|
| `startRun`, `signalDecision`, `enqueueAdvanceReliably`, `cancelRun` | `StartRun`, `SignalDecision`, `EnqueueAdvanceReliably`, `EnqueueLost`, `CancelRun` |
| `startExecutionWorker`, `driveExecution` | `Fetch`, `Progress`, `CompleteRun`, `FailAdvance`, `PauseForBudget`, `ParkOnDecision`, `RearmGate`, `NoopDrive`, `CompleteJob`, `HandlerThrows` |
| pg-boss (external) | `HeartbeatMissed`, `HeartbeatSent`, `HeartbeatStops`, `Maintain` |
| `startStaleRunSweeper` | `TickStart`, `Classify`, `RecoverThrows`, `Recover` (`LeaveLive`, `GiveUp`, `Redrive`), `ResumePausedRuns`, `FlushBatch`, `TickThrows` |
| `startStepDispatch`, `recordDispatchAttribution` | `OpenDispatch`, `StartJob`, `StartRefused`, `RecordDispatch` |
| `JobRegistry.start`, `get`, `drive` | `Started`, `Drained`, `Surface`, `Settle`, `Evict` |
| `pollAgentJobInner` and its folds | `Poll`, `FoldRunning`, `Complete`, `SettleStep`, `Recover`, `MarkErrored`, `PollBudgetSpent` |
| `evaluateFollowUpGate`, `applyFollowUpDecision` | `Verdict`, `Looped`, `Dropped`, `ParkUpsert`, `DecideFollowUp`, `ApproveStep` |
| `GateStepController.evaluate`, `humanReviewGate.probe` | `Evaluate`, `ConsumeFix`, `Probe`, `ProbeUnread`, `KeepWaiting`, `PassGate`, `Rearm` |
| `onHelperComplete`, `reprobeGateAfterHelper` | `PollJob`, `HelperComplete`, `HelperUnread`, `RecordAttempt` |
| `requestHumanReviewFix`; reviewers (external) | `RequestFix`; `CommentOnThread`, `CloseThread`, `Approval` |
| `ensureFresh`, `runProbe`, `InvocationScopedLoads.run` | `Get`, `DirectoryAnswers`, `ApplyProbe`, `ProbeFails`, `Hit`, `Join`, `Miss`, `Load`, `Publish` |
| `invalidate`, `noteLocalInvalidation` | `Commit`, `LocalDrop`, `Bump`, `MergeOwnBump`, `BumpFails` |

What these modules simplify: a park on follow-ups and the later advance of the
drive are one step of a person (`DecideFollowUp` writes what `mutateInstance`
re-applies); the queue's history of finished jobs is not kept, so `missing`
stands for a completed, failed or absent row; `ForgetGroup` does not evict a group
while a probe of it is in flight; a group's tracker entry and the cache-wide
epoch are treated alike. `CacheCoherency` models the load path of the isolate
runtimes, where a miss joins only loads of its own invocation; Node's own
loader, which joins across requests, is left out. A read that shares another's probe
counts as one that begins when the probe has ended. A group has one key, and
loads that fail or are refreshed in the background are left out.

What an agent, a judge, a gate condition or an executor says is a choice.
Replaced, cancelled and failed runs leave their drivers where they are; they
find out at their next read or write, as in the code. Tearing down a driver or
a container (`cancelRun`, `stopRunContainer`) only shortens that and is left
out, so the model has more interleavings than the program there, never fewer.

## Properties

- `TypeOK`: types, and the bounds. The cursor stays inside the pipeline.
- `OneLivePerBlock`: two live runs never share a block.
- `EndedStaysEnded`: a run that ended keeps its end until it is deleted; a
  deleted run does not come back.
- `ImplementsLifecycle`: every step of the engine is a step of `RunLifecycle`,
  seen through each run's status and block.
- `StepsFollowCursor`: everything before the cursor of a live run is done,
  everything behind it has not begun, and a run is done only with all steps done.
- `NoJobBehindCursor`: only the step under the cursor of a live run has a job.
- `GatesHonoured`: every gate behind the cursor of a live run was approved.
- `ParkedRunIsAnswerable`: a blocked run shows a pending question, unless the
  request that answered it is just failing the run.
- `HumanAnswersSurvive`: no later write takes an answer back.
- `FailedNeverDone`: a failed run is never reported done.
- `RunningSettles`: a running run does not stay running for ever.

`AdvanceQueue`:

- `OneEntitledDrive`: two workers never both hold the attempt the queue has
  active for a run. A second drive only runs beside one the queue has written off.
- `StallIsEarned`: a sweeper fails a run as stalled only after it has put that
  run back on the queue itself, since it first saw it orphaned.
- `RunningIsDriven`, `PausedResumes`: however enqueues are deduplicated, lost or
  thrown away, a running run parks, pauses or ends; a paused one is taken up once
  there is budget for good.

`AgentJobs`:

- `ResultIsOfThisRound`: a result about to be recorded was produced under the
  instructions the step now carries.
- `OneJobAtATime`: the agent never works twice at once in the container.
- `NothingUndecidedIsPassed`: the step is never passed over a follow-up nobody decided.
- `DecisionsSurvive`: no drive takes a person's decision back.
- `AnswersReachTheCoder`: when the step is passed, what was asked of the coder was
  in the prompt of a recorded pass, or is marked dropped.
- `StepSettles`: the step ends or waits for a person.
- `SurfacedItemsHold`: what the last pass surfaced is on the step when it is passed
  (violated, see below).

`ReviewGate`:

- `EveryRoundIsLogged`: each counted round is in flight or in the log, once.
- `NoHotLoop`: the fixer is not sent again unasked at a head it failed to move.
- `RequestIsNotPassedOver`: only the drive that goes on to dispatch a requested
  fix takes it off the row.
- `GateComesToRest`: again and again the gate is over or waits for a person.
- `FeedbackIsAddressed`, `RecordedIsHanded`: a thread the gate resolved was handed
  to a round that pushed; the recorded instructions are the ones handed (violated).

`CacheCoherency`:

- `ReadsAreFresh`: a read serves nothing older than its isolate's earlier writes,
  than what its window's probe was told, or, when the directory could not be asked,
  than what was stored then. The exception is a read that joined a load: it may
  fall behind, in its own invocation only, and never behind what the read that
  loads is owed. The join is not fenced (`invocationScopedLoads.ts:73-75`).
- `NoStaleServe`: the same without the exception (violated, see below).
- `BaselineIsHonest`: what an isolate caches is no older than any write its
  baseline counts as seen; later probes would not drop it.

## Runs

`judges`, `recovery`, `settling` and `review` check `FairSpec`, the others `Spec`.
Deadlock is not an error: runs end and the external events are spent.

| Run | Instance | Result |
|---|---|---|
| `drivers` | 2 run ids, 2 drivers, 1 request, 2 steps (the first gated); start, stop, retry, approve, budget, resume; 4 events, 1 eviction, 2 polls | about 851 000 states, all properties hold |
| `claims` | 3 run ids, 1 driver, 2 requests, 2 steps; start, retry, restart, cancel, stop; 4 events | about 223 000 states, all hold |
| `answers` | 1 run id, 1 driver, 2 requests, 3 steps (a gated one, an inline and a container step that ask); start, approve, changes, reject, answer, cancel; 6 events, 1 progress report, 2 polls | about 320 000 states, all hold |
| `judges` | 1 run id, 1 driver, 2 requests, 3 steps (a skippable step, a judge that bounces, a judge that fails); 1 bounce, 1 crash, 4 events | about 89 000 states, all hold, with liveness |
| `queue` | 1 run, 2 nodes; 1 retry per job, hard stall after 1 tick, 1 progress step, 1 park or re-arm, 2 faults out of crashes and missed heartbeats | about 6 300 000 states, all hold |
| `recovery` | 2 runs, one of which every recovery throws for, 1 node; no budget at first, 1 change of it, 1 fault out of a crash, a throwing drive or enqueue, a tick that loses its batch | about 413 000 states, all hold, with liveness |
| `jobs` | 2 drives, 1 item, 1 loop, 2 decisions, 1 eviction and 1 contention recovery; undecided items dismissed by policy | about 2 090 000 states, all hold |
| `settling` | 1 drive, 2 items, 1 loop, 2 decisions, 1 crash, an approval gate, the policy either way | about 480 000 states, all hold, with liveness |
| `review` | 1 drive, 1 thread, 1 requested fix, 2 heads, 3 reviewer actions, 1 fault, 1 crash | about 403 000 states, all hold, with liveness |
| `coherency` | 2 isolates, 3 reads: two of one invocation on one isolate, one on the isolate that writes; 1 write at a time, 2 versions, 1 failed directory call | about 2 231 000 states, all hold |
| `unaddressed`, `decision_undone` | as `review` without requested fixes; as `settling` with parks and no approval gate | violated, see below |

Why the bounds are enough for the cases that matter: a lost update needs one
copy and one write in between, so two actors of a run and two revisions; a
claim race needs two requests and a third id for what one of them replaced; a
rework needs a step before and a step after the one it rewinds, so three
steps; a budget of one is both below and at its limit. `MaxOps` lets a run
start, park, be answered twice and be stopped. Ids and drivers are symmetric
where only safety is checked.

For the queue, a second drive needs two nodes and one heartbeat missed; a lost
resume needs a drive that is parked and not yet acknowledged, so one park; a
sweeper that gives up needs two ticks. A round of a job that is mistaken for
another needs two rounds (one loop) and a recovery of either. A stale fold or a
stale completion needs two drives, or one drive and a person. The gate meets its
backoff at the second round, so two heads. A stale publish needs a load, a probe
and a write in between: two reads on one isolate, one on the writer's. A join
across an invalidation needs those two in one invocation. Whether a join could
reach outside it takes a third read on the same isolate:
`MCCacheCoherency_joins.cfg` has all three beside the writer, and `ReadsAreFresh`
holds there too (about 914 000 states). So it did with the reads of
`coherency` in no invocation, so that they load side by side (4 705 000).

The runs that hold leave out the event that breaks each property (those events
are the subject of the next table): the instances with `StepsFollowCursor`
have no restart and no repeated decision, `NoJobBehindCursor` no change
request, `EndedStaysEnded` no judge that parks, `ParkedRunIsAnswerable` no
crash in a rejection, `StallIsEarned` no lost batch, `DecisionsSurvive` and
`ResultIsOfThisRound` no park on follow-ups (`Unattended = {TRUE}`),
`ReadsAreFresh` one writing isolate.

### Where the code does something else than it says

Each of these configurations checks one property, and TLC finds it violated by
what the code does. `unaddressed` and `decision_undone` are runs of
`PROJECT.json`, which quotes the lines; the others are re-checked with
`tlc -config <module>_<name>.cfg <module>`.

| Configuration | Property | What happens | What the repository says |
|---|---|---|---|
| `MCReviewGate_unaddressed` | `FeedbackIsAddressed` | a fixer dispatch refused after its announcement leaves the stash of handed threads; the next probe resolves them though no round worked on them | `gates.ts:710-711`: "resolving its threads would let an APPROVED PR advance with the reviewer's feedback silently unaddressed" |
| `MCAgentJobs_decision_undone` | `DecisionsSurvive` | the park on follow-ups upserts the copy loaded before the poll; a decision taken meanwhile is undecided again | `EX/RunStateMachine.ts:238-239`: "so the mutation is never lost to a clobbering blind write" |
| `MCAgentJobs_earlier_round` | `ResultIsOfThisRound` | the same park by a stale second drive puts an older dispatch count back; the next dispatch re-attaches to an earlier round's job | `EX/step-fold.logic.ts:239-240`: "the epoch is monotonic by construction and total over the loops" |
| `MCAgentJobs_burst_lost` | `SurfacedItemsHold` | the poll that sees a job done drains its last follow-ups; a crash or lost race before the write loses them and the step passes | `EX/RunDispatcher.ts:645-646`: "so the completion gate below sees the last items — notably a question that must hold the run" |
| `MCAdvanceQueue_stall_untried` | `StallIsEarned` | a tick that throws before its batch insert (`pgBossRunner.ts:602-605`) leaves the clock running; the run is given up without having been put back | `pgBossRunner.ts:275`: "guarantees at least one re-drive attempt before giving up" |
| `MCReviewGate_request_unheard` | `RecordedIsHanded` | the record of a dispatch that is redelivered is the later brief, the job re-attached to has the earlier one | `EX/GateHelperDispatcher.ts:121`: "Stash the instructions this helper was handed" |
| `MCReviewGate_two_drives` | `EveryRoundIsLogged` | a second drive whose polls are spent re-arms the gate over the job the first has just dispatched; the round is counted and never logged | `contracts/src/gate.ts:182-184`: "Append-only history of the helper-agent attempts this gate dispatched [...] what every attempt tried" |
| `MCCacheCoherency_own_bump` | `ReadsAreFresh` | an isolate's own bump is merged over a peer's bump below it, which is then no news to its next probe | `appCaches.ts:661-662`: "so the loader read below never serves an entry a peer already invalidated more than the window ago" |
| `MCCacheCoherency_joined_read` | `NoStaleServe` | a read that begins after its isolate dropped the entry joins the load its invocation began before, and is served the older version | `generationCoherency.ts:244-245`, of a failed probe: "so reads load fresh (and re-probe) until the directory answers again: pass-through performance, zero staleness" |
| `MCExecution_stale_park` | `EndedStaysEnded` | a judge's park upserts the copy loaded before the assessment; a run cancelled meanwhile is inserted again, a stopped one is un-failed | `EX/advance.ts:126-127`: "It never clobbers the winner or resurrects a cancelled run" |
| `MCExecution_restart_ahead` | `StepsFollowCursor` | restarting from a step ahead of the cursor makes a live run whose earlier steps never ran | `EX/retry.logic.ts:185`: "completed: preserve output/approval/timing as-is" |
| `MCExecution_approve_in_flight` | `NoJobBehindCursor` | a gate sent back for changes can still be approved while its step is re-run; the job stays behind | `docs/internal/race-condition-audit-2026-07.md:179`: "Status: ADDRESSED (both directions)" |
| `MCExecution_answer_twice` | `StepsFollowCursor` | a second answer to one decision, after its step finished, starts that step again behind the cursor | `EX/StepDecisionController.ts:226-227`: "a second resolve (double-click) or a racing driver poll can't clobber the chosen decision" |
| `MCExecution_changes_after_proceed` | `StepsFollowCursor` | proceeding past a judge leaves its approval pending; changes requested on it re-open the finished step | `EX/JudgeStepController.ts:543`: "exactly like an approved gate" |
| `MCExecution_reject_crash` | `ParkedRunIsAnswerable` | a death between storing a rejection and failing the run leaves a blocked run nobody can answer | `EX/StepDecisionController.ts:514`: "Already rejected (and the run already failed)" |
| `MCExecution_proceed_after_stop` | `FailedNeverDone` | a run stopped while parked on a judge at its last step is reported done by a late proceed | `docs/execution-state-machine.md:26`: "failed --> [*]" |

One divergence has no run: `docs/execution-state-machine.md` shows a run status
`cancelled`; `executionStatusSchema` has none. A stop ends as `failed`, a cancel
deletes the row.

## Fairness

`Execution!Fairness` asks two things. Every actor that has begun continues
(`WF(Continue(a))`): a handler runs to its end, and a driver's loop goes on
after each await; which outcome it meets is not fair, an agent may always ask and
a judge always bounce. And a run that is running or paused is delivered to a
worker again (`WF(DriveStart)` per run). Nobody is obliged to
start, answer, stop, retry or crash. `RunningSettles` then rests on the budgets
(bounces, evictions, polls) and on their surviving the reset of a step.

That second assumption is what `AdvanceQueue` is about. Its own fairness is that
timers fire (leases, ticks), that a process which is not killed keeps working,
and that pg-boss hands out and maintains its jobs; all weak, each per node or
per run. `RunningIsDriven` shows that delivery then follows, through every
deduplicated, lost or thrown-away enqueue. Sends that fail, budgets and people
owe nothing.

`AgentJobs` and `ReviewGate` assume that a drive keeps going and that a job
ends, which the harness's watchdogs see to (`runner.ts`); evictions, refusals,
reviewers and crashes are not fair. `CacheCoherency` states safety only.

With two drives, each could make the other's write lose for ever; the queue
bounds when there are two (`OneEntitledDrive`), and the runs with liveness have
one.

## Proofs

`tlapm` checks every leaf. The theorems hold for all values of the constants
under the modules' assumptions about them (`StepsAssumption` and
`ExecutionAssumption`; `QueueAssumption`; `JobsAssumption`; `GateAssumption`;
`CoherencyAssumption`), and under the hypotheses named here. A hypothesis only
excludes events, and each but the `OneDrive` of `AgentJobs` (see below the table)
is backed by a configuration that breaks the property when the event is allowed.
Every inductive invariant was model-checked as an invariant before it was proved.

| Theorem | States | Hypothesis | Without it |
|---|---|---|---|
| `ExecutionProofs!TypeCorrect` | `TypeOK` | - | |
| `ExecutionSafety!OneLiveRun`, `!EndsAreFinal` | `OneLivePerBlock`, `EndedStaysEnded` | `JudgesNeverPark` | `stale_park`, `proceed_after_stop` |
| `ExecutionSafety!LifecycleImplemented` | `ImplementsLifecycle` | `JudgesNeverPark` | `stale_park` |
| `ExecutionSteps!CursorSplits` | `StepsFollowCursor` | `CursorEvents` | `restart_ahead`, `answer_twice`, `changes_after_proceed` |
| `ExecutionSteps!JobsFollowCursor` | `NoJobBehindCursor` | `JobEvents` | `approve_in_flight` |
| `ExecutionSteps!GatesHold` | `GatesHonoured` | `OpenEvents` | `restart_ahead` |
| `ExecutionSteps!ParksCanBeAnswered` | `ParkedRunIsAnswerable` | nobody rejects | `reject_crash` |
| `AdvanceQueueProofs!QueueTypes`, `!DrivesAreExclusive` | `TypeOK`, `OneEntitledDrive` | - | |
| `AdvanceQueueProofs!StallsAreEarned` | `StallIsEarned` | `NoLostBatch` | `stall_untried` |
| `AgentJobsProofs!JobsTypes`, `!UndecidedHolds` | `TypeOK`, `NothingUndecidedIsPassed` | - | |
| `AgentJobsProofs!DecisionsStay`, `!RoundsMatch` | `DecisionsSurvive`, `ResultIsOfThisRound` | `NeverParks` | `decision_undone`, `earlier_round` |
| `AgentJobsProofs!OneJob`, `!AnswersArrive` | `OneJobAtATime`, `AnswersReachTheCoder` | `OneDrive` | see below |
| `ReviewGateProofs!HeadsMove`, `!RequestsArrive` | `NoHotLoop`, `RequestIsNotPassedOver` | - | |
| `ReviewGateProofs!GateTypes`, `!RoundsAreLogged` | `TypeOK`, `EveryRoundIsLogged` | `OneDrive` | `two_drives` |
| `CacheCoherencyProofs!CoherencyTypes` | `TypeOK` | - | |
| `CacheCoherencyProofs!BaselinesAreHonest`, `!FreshReads` | `BaselineIsHonest`, `ReadsAreFresh` | `OneWritingIsolate` | `own_bump`; without its exception for joins, `joined_read` |

### The engine

- `RunStepsProofs`: what each mutation returns. `Copy`-style lemmas say that a
  mutation of an instance is an instance of the same block and revision.
- `TypeCorrect`: the inductive invariant `TypeInv` adds to `TypeOK` which fields
  an actor has at each `pc` (a driver past its load has a run and a copy with a
  block, a request about a block has that block). One lemma per group of
  actions, one case per action.
- `RevisionsFit`: `SafeInv` is invariant. It says that (1) one run per block is
  stored and exactly the gone rows have no block; (2) a copy an actor holds has
  the block of its row and a revision no newer than it, and if the revisions are
  equal, the row is still live for a driver, and an answer keeps an ended
  status; (3) the id of a claim is unborn and claimed by one actor. Part 2 is
  what `OneLivePerBlock` and `EndedStaysEnded` lack to be inductive: a
  compare-and-swap sets a status computed long ago, and only the revision ties
  it to the row it meets. `RowStep` states what a stored row may become in any
  step, and most actions are shown to be one.
- `LifecycleImplemented` is the refinement: `OneWrite` says that a step which
  claims nothing and deletes nothing writes at most one run, so `RowStep` of
  that run is a step of `RunLifecycle` or a stutter; a claim is `Begin` because
  the live run of its block goes with it.
- `StepsReached`: `StepsInv` is invariant, with no hypothesis. It states facts
  about the steps of one run (`Facts`: what waits was asked something, the cursor
  separates done from new, unsettled approvals and jobs are under the cursor) of
  every stored run *and of every copy an actor holds*. The argument is the
  opposite of the one before: no revision is compared. A copy is the image of a
  run the facts held of, each mutation keeps them (`Edited`, `Passed`,
  `SentBefore` are the three shapes a mutation has, with one lemma each), so
  whichever write wins, the stored run has them. That is also why a judge's
  unguarded upsert cannot break them. Each fact is stated under the events that
  leave it true, as an implication inside the invariant.
- `CursorSplits`, `JobsFollowCursor`, `GatesHold` and `ParksCanBeAnswered` read
  their property off `StepsInv`.

`JudgesNeverPark` (every judge fails its run rather than park it, and no judge
is answered) leaves out judges that bounce as well, because a spent budget
parks them. `OpenEvents` excludes restarts and answered judges, whose approval
stays pending behind the cursor; where steps can be sent back, it asks that only
gates raise approvals. `CursorEvents` excludes repeated answers too, and allows
answered judges where nothing can be approved; `JobEvents` excludes
changes requested of a step and pipelines that skip a step with a container. The runs
`drivers` and `judges` check `StepsFollowCursor`, `drivers` `NoJobBehindCursor`,
`answers` `GatesHonoured` under instances of these. `ParkedRunIsAnswerable` under rejections is
checked (`answers`) and not proved: it needs `StepsInv` and the revisions
together, to show that nothing writes between a rejection and the failure it
causes.

### The other components

- `AdvanceQueueProofs`: `DriveInv` says that a run has one job, that a worker's
  attempt is no later than its job's, earlier when the job waits, and that two
  workers on one job hold different attempts; hence only one can hold the active
  one. Job numbers are reused, and `NewJobIsFresh` shows by counting that a free
  one exists. `ClockInv`: a run whose orphan clock ticks was put back by this
  node, or is in the batch about to be.
- `AgentJobsProofs`: `JobsInv` has four parts. `CountInv` bounds the dispatch
  epochs by the budgets that pay for them; `PhaseInv` says that a copy at the
  row's revision is the row; `PassInv` says what a waiting or passed step has
  left; `ItemInv` that an item on its way is in one place. `RoundInv` adds that a
  job known at the epoch to be counted carries the row's instructions, which is
  what makes the epoch a sufficient job id. `SoloInv`, for one drive: the drive
  works on the row as it is, but for the items.
- `ReviewGateProofs`: `GateInv` orders the heads: the log's last, the row's, the
  branch's. `SoloInv` counts: rounds logged, in flight and requested are never
  more than heads moved and fixes asked, which also bounds the job ids.
- `CacheCoherencyProofs`: `FreshInv` puts a floor under what an isolate caches
  and under the loads it may still publish (`Floor`): the newest version its
  baseline announces, its own writes, what its window was told. `Newest` is shown
  to be the maximum of a directory prefix, and to survive a bump. `JoinInv` says
  that a read that joined gets its value from a read of its own invocation, and
  any other from itself; `JoinMoves` that it ends only with the load it joined,
  whose value `FreshInv` bounds.

`OneDrive` is what the advance queue provides unless it has written a drive off
(`DrivesAreExclusive`). The gate needs it: when a second drive's poll budget
runs out it re-arms the gate without looking at the job the first has just
dispatched (`EX/RunDispatcher.ts:726-728`), and that round is counted and never
logged (`MCReviewGate_two_drives`). `OneJobAtATime` is checked with two drives
(`jobs`) and proved for one.

Sizes of the instances on which the invariants were model-checked first:
`FreshInv` 4 700 000 states, with `JoinInv` 914 000; `QueueInv` on `queue` and `recovery`; `JobsInv`
with `RoundInv` 2 200 000 (two drives) and with `SoloInv` 2 800 000; `GateInv`
14 900 000 (two drives), with `SoloInv` 2 690 000; `StepsInv` on `drivers`,
`answers`, `judges` and on three mixes of all events (27 000 to 108 000).

### Only model-checked

Liveness (`RunningSettles`, `RunningIsDriven`, `PausedResumes`, `StepSettles`,
`GateComesToRest`): liveness under fairness and `ENABLED` are out of the prover's
reach. `HumanAnswersSurvive`, and `ParkedRunIsAnswerable` where people reject:
next to be proved. The violations are TLC's counterexamples. No module here has
a `RECURSIVE` operator, and no theorem is about what a recursive function
computes for every input: the prover has no induction over data.

## Not modelled

The rows of the inventory without a module, and inside the modelled ones:
approval quorum and policy, the merge answer, the
completion interceptors of particular agent kinds, delegated executors, events
and notifications, container reclaim, admission checks, the CI, conflicts and
post-release gates, overlapping ticks of one sweeper, the re-drives of bootstrap
and environment-repair runs, the Redis notifications between caches. `PROJECT.json` gives the
reason for each component and lists the hazards no property covers yet.

## Plan

1. `NotificationCards`: act, resolve, escalate; one side effect per card. Merge
   resolution with its replay guard joins it.
2. `Companions` and the budgeted gates (CI, conflicts): attempts, caps and their
   answers, over `ReviewGate`'s loop; every loop bounded.
3. `VendorLimiter` and `KeyLease`: small independent modules, each with an
   abstract specification (a semaphore, an exclusive choice).
4. `InitiativeLoop` and schedules over the claim of `AgentRuns`.
5. An abstract specification of delivery that `AdvanceQueue` implements and
   `Execution` assumes, in place of `DriveStart`'s fairness.
6. Proofs: `HumanAnswersSurvive`, and `ParkedRunIsAnswerable` with rejections
   (`StepsInv` and `SafeInv` together: between an answer and a write the revision
   has moved); `RevisionsFit` for judges that bounce and never spend their
   budget; `OneJobAtATime` for two drives; abstract specifications of the other
   components.
