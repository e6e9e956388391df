---------------------------- MODULE AdvanceQueue ----------------------------
(***************************************************************************)
(* The durable half of a run on the Node runtime: pg-boss advance jobs,    *)
(* the worker of each node that drives the run a job names, the request    *)
(* handlers that enqueue, and the sweeper of each node that finds runs     *)
(* nobody drives any more.  Execution.tla models what one drive does to a  *)
(* run's steps; here a drive is the few ways it can leave the run.         *)
(*                                                                         *)
(* Wall-clock time is abstracted: a lease or a heartbeat goes stale by an  *)
(* action of its own, and the hard-stall clock counts sweeper ticks.       *)
(***************************************************************************)
EXTENDS Naturals, FiniteSets

CONSTANTS
  Runs, Nodes,      \* execution ids; processes, each a worker and a sweeper
  NoRun,            \* what an idle worker drives
  Poison,           \* runs whose recovery throws on every sweep
  Resends,          \* RESUME_ENQUEUE_RETRY_ATTEMPTS
  RetryLimit,       \* pg-boss retries of one job
  Funded,           \* is there budget at first
  HardTicks,        \* hardStallMs, in sweeper intervals
  MaxWork,          \* bound: progress steps a run takes before it is done
  MaxDetours,       \* bound: parks and re-armed gate waits of a healthy run
  MaxFlips,         \* bound: times the budget is exhausted or freed
  Faults,           \* the kinds of fault that occur
  MaxFaults         \* bound: faults, of whatever kind

\* A process dies; a working process fails to send its heartbeat; a drive or an
\* enqueue throws; a tick throws before its batch is inserted.
FaultKinds == {"crash", "miss", "throw", "lostBatch"}

ASSUME QueueAssumption ==
  /\ NoRun \notin Runs
  /\ IsFiniteSet(Nodes)
  /\ Poison \subseteq Runs
  /\ {Resends, RetryLimit, HardTicks, MaxWork, MaxDetours, MaxFlips,
      MaxFaults} \subseteq Nat
  /\ Faults \subseteq FaultKinds
  /\ Resends > 0 /\ HardTicks > 0 /\ Funded \in BOOLEAN

VARIABLES
  status,    \* agent_runs.status
  work,      \* progress steps the run still has to take
  detours,   \* parks and gate waits it may still take
  lapsed,    \* runs whose updated_at is older than the lease
  jobs,      \* pgboss.job, the created, active and retry rows
  worker,    \* worker[n]: the drive node n's worker is in
  sender,    \* sends a request handler still has to try for the run
  sweep,     \* sweep[n]: node n's tick in flight, and its orphanedSince
  budget,    \* is there spend budget
  tried,     \* history: runs a node enqueued since it first saw them orphaned
  left       \* what is left of the two bounds on the environment

runVars  == <<status, work, detours, lapsed>>
faultVars == <<budget, left>>
vars == <<status, work, detours, lapsed, jobs, worker, sender, sweep, budget,
          tried, left>>

Statuses == {"none", "running", "blocked", "paused", "done", "failed",
             "stalled", "stopped"}
Ended    == {"done", "failed", "stalled", "stopped"}

---------------------------------------------------------------------------
(* Jobs.  A job is known by its run and a number, used again once nobody   *)
(* remembers it.                                                           *)

Numbers == 1 .. 2 * Cardinality(Nodes) + 2
NoJob   == 0

JobsOf(r) == {j \in jobs : j.run = r}
Remembered(r) ==
  {j.no : j \in JobsOf(r)}
    \cup {worker[n].no : n \in {m \in Nodes : worker[m].run = r}}
    \cup {sweep[n].no : n \in {m \in Nodes : sweep[m].run = r}}
NewJob(r) == [run |-> r, no |-> CHOOSE k \in Numbers \ Remembered(r) : TRUE,
              state |-> "created", tries |-> 0, beating |-> TRUE]

\* Faulty: a queue without the exclusive policy.
AcceptsAlways(r) == TRUE
\* The exclusive policy: one created, active or retry job per singleton key.
Accepts(r) == JobsOf(r) = {}

Enqueued(r) == IF Accepts(r) THEN jobs \cup {NewJob(r)} ELSE jobs

IdleWorker == [pc |-> "idle", run |-> NoRun, no |-> NoJob, tries |-> 0]

IsJob(j, holder) == j.run = holder.run /\ j.no = holder.no

\* The attempt worker n was handed is the one the queue still has active.
Entitled(n) ==
  \E j \in jobs : /\ IsJob(j, worker[n]) /\ j.state = "active"
                  /\ j.tries = worker[n].tries

\* Faulty: retried for ever.
ReturnedPastLimit(j) ==
  (jobs \ {j}) \cup {[j EXCEPT !.state = "retry", !.tries = @ + 1]}
\* pg-boss returns a job to the queue, or gives it up at the retry limit.
Returned(j) ==
  IF j.tries < RetryLimit
  THEN (jobs \ {j}) \cup {[j EXCEPT !.state = "retry", !.tries = @ + 1]}
  ELSE jobs \ {j}

Init ==
  /\ status = [r \in Runs |-> "none"]
  /\ work = [r \in Runs |-> MaxWork]
  /\ detours = [r \in Runs |-> IF r \in Poison THEN 0 ELSE MaxDetours]
  /\ lapsed = {}
  /\ jobs = {}
  /\ worker = [n \in Nodes |-> IdleWorker]
  /\ sender = [r \in Runs |-> 0]
  /\ sweep = [n \in Nodes |-> [pc |-> "idle", todo |-> {}, run |-> NoRun,
                               verdict |-> "missing", no |-> NoJob,
                               keep |-> {}, batch |-> {},
                               since |-> [r \in {} |-> 0]]]
  /\ budget = Funded
  /\ tried = [n \in Nodes |-> {}]
  /\ left = [flips |-> MaxFlips, faults |-> MaxFaults]

Fault(kind) ==
  /\ kind \in Faults /\ left.faults > 0
  /\ left' = [left EXCEPT !.faults = @ - 1]

---------------------------------------------------------------------------
(* Request handlers. *)

StartRun(r) ==
  /\ status[r] = "none"
  /\ status' = [status EXCEPT ![r] = "running"]
  /\ sender' = [sender EXCEPT ![r] = 1]
  /\ UNCHANGED <<work, detours, lapsed, jobs, worker, sweep, tried, faultVars>>

\* A decision is answered: the run is written first, the driver woken after.
SignalDecision(r) ==
  /\ status[r] = "blocked"
  /\ status' = [status EXCEPT ![r] = "running"]
  /\ lapsed' = lapsed \ {r}
  /\ sender' = [sender EXCEPT ![r] = Resends]
  /\ UNCHANGED <<work, detours, jobs, worker, sweep, tried, faultVars>>

\* One send.  A deduplicated one is tried again until the attempts run out.
EnqueueAdvanceReliably(r) ==
  /\ sender[r] > 0
  /\ jobs' = Enqueued(r)
  /\ sender' = [sender EXCEPT ![r] = IF Accepts(r) THEN 0 ELSE @ - 1]
  /\ UNCHANGED <<runVars, worker, sweep, tried, faultVars>>

\* The send throws, or the process dies before it.
EnqueueLost(r) ==
  /\ sender[r] > 0
  /\ Fault("throw")
  /\ sender' = [sender EXCEPT ![r] = 0]
  /\ UNCHANGED <<runVars, jobs, worker, sweep, tried, budget>>

\* A stop only writes the run: cancelRun leaves the job alone.
CancelRun(r) ==
  /\ status[r] \in {"running", "blocked", "paused"}
  /\ status' = [status EXCEPT ![r] = "stopped"]
  /\ UNCHANGED <<work, detours, lapsed, jobs, worker, sender, sweep, tried,
                 faultVars>>

---------------------------------------------------------------------------
(* Workers. *)

\* pg-boss hands a waiting job to an idle worker.
Fetch(n) ==
  /\ worker[n].pc = "idle"
  /\ \E j \in jobs :
       /\ j.state # "active"
       /\ jobs' = (jobs \ {j}) \cup
                  {[j EXCEPT !.state = "active", !.beating = TRUE]}
       /\ worker' = [worker EXCEPT ![n] = [pc |-> "driving", run |-> j.run,
                                           no |-> j.no, tries |-> j.tries]]
  /\ UNCHANGED <<runVars, sender, sweep, tried, faultVars>>

Driving(n, r) == worker[n].pc = "driving" /\ worker[n].run = r

LeaveRun(n, r, s, isLeft) ==
  /\ status' = [status EXCEPT ![r] = s]
  /\ lapsed' = lapsed \ {r}
  /\ worker' = [worker EXCEPT ![n].pc = IF isLeft THEN "returned" ELSE @]
  /\ UNCHANGED <<jobs, sender, sweep, tried, faultVars>>

\* One advance of a run within budget; a paused run resumes the same way.
Progress(n, r) ==
  /\ Driving(n, r) /\ status[r] \in {"running", "paused"} /\ budget
  /\ work[r] > 0
  /\ work' = [work EXCEPT ![r] = @ - 1]
  /\ LeaveRun(n, r, "running", FALSE)
  /\ UNCHANGED detours

CompleteRun(n, r) ==
  /\ Driving(n, r) /\ status[r] \in {"running", "paused"} /\ budget
  /\ work[r] = 0
  /\ LeaveRun(n, r, "done", TRUE)
  /\ UNCHANGED <<work, detours>>

FailAdvance(n, r) ==
  /\ Driving(n, r) /\ status[r] = "running"
  /\ LeaveRun(n, r, "failed", TRUE)
  /\ UNCHANGED <<work, detours>>

PauseForBudget(n, r) ==
  /\ Driving(n, r) /\ status[r] \in {"running", "paused"} /\ ~budget
  /\ LeaveRun(n, r, "paused", TRUE)
  /\ UNCHANGED <<work, detours>>

ParkOnDecision(n, r) ==
  /\ Driving(n, r) /\ status[r] = "running" /\ detours[r] > 0
  /\ detours' = [detours EXCEPT ![r] = @ - 1]
  /\ LeaveRun(n, r, "blocked", TRUE)
  /\ UNCHANGED work

\* A human-review gate's poll budget is spent: the job ends, the run does not.
RearmGate(n, r) ==
  /\ Driving(n, r) /\ status[r] = "running" /\ detours[r] > 0
  /\ detours' = [detours EXCEPT ![r] = @ - 1]
  /\ LeaveRun(n, r, "running", TRUE)
  /\ UNCHANGED work

\* The run is parked or over: nothing to do.
NoopDrive(n, r) ==
  /\ Driving(n, r) /\ status[r] \in Ended \cup {"blocked"}
  /\ worker' = [worker EXCEPT ![n].pc = "returned"]
  /\ UNCHANGED <<runVars, jobs, sender, sweep, tried, faultVars>>

Drive(n) == \E r \in Runs :
  \/ Progress(n, r)       \/ CompleteRun(n, r)    \/ FailAdvance(n, r)
  \/ PauseForBudget(n, r) \/ ParkOnDecision(n, r) \/ RearmGate(n, r)
  \/ NoopDrive(n, r)

\* The handler returned: pg-boss completes the active job of that id, whoever
\* works it now.
CompleteJob(n) ==
  /\ worker[n].pc = "returned"
  /\ jobs' = {j \in jobs : ~IsJob(j, worker[n]) \/ j.state # "active"}
  /\ worker' = [worker EXCEPT ![n] = IdleWorker]
  /\ UNCHANGED <<runVars, sender, sweep, tried, faultVars>>

\* The handler rethrows: pg-boss fails the active job of that id.
HandlerThrows(n) ==
  /\ worker[n].pc = "driving"
  /\ Fault("throw")
  /\ LET mine == {j \in jobs : IsJob(j, worker[n]) /\ j.state = "active"}
     IN jobs' = IF mine = {} THEN jobs ELSE UNION {Returned(j) : j \in mine}
  /\ worker' = [worker EXCEPT ![n] = IdleWorker]
  /\ UNCHANGED <<runVars, sender, sweep, tried, budget>>

---------------------------------------------------------------------------
(* Heartbeats and pg-boss's own maintenance. *)

\* A live worker's process misses its heartbeats, and sends them again.
HeartbeatMissed(n) ==
  /\ worker[n].pc # "idle" /\ Entitled(n)
  /\ Fault("miss")
  /\ jobs' = {IF IsJob(j, worker[n]) THEN [j EXCEPT !.beating = FALSE] ELSE j
              : j \in jobs}
  /\ UNCHANGED <<runVars, worker, sender, sweep, tried, budget>>

HeartbeatSent(n) ==
  /\ worker[n].pc # "idle"
  /\ \E j \in jobs : /\ IsJob(j, worker[n]) /\ j.state = "active" /\ ~j.beating
                     /\ jobs' = (jobs \ {j}) \cup {[j EXCEPT !.beating = TRUE]}
  /\ UNCHANGED <<runVars, worker, sender, sweep, tried, faultVars>>

\* Nobody beats for the job of a dead worker.
HeartbeatStops(j) ==
  /\ j.state = "active" /\ j.beating
  /\ \A n \in Nodes : ~IsJob(j, worker[n])
  /\ jobs' = (jobs \ {j}) \cup {[j EXCEPT !.beating = FALSE]}
  /\ UNCHANGED <<runVars, worker, sender, sweep, tried, faultVars>>

\* pg-boss fails a job whose heartbeat is overdue.
Maintain(j) ==
  /\ j.state = "active" /\ ~j.beating
  /\ jobs' = Returned(j)
  /\ UNCHANGED <<runVars, worker, sender, sweep, tried, faultVars>>

LeaseExpires(r) ==
  /\ status[r] = "running" /\ r \notin lapsed
  /\ lapsed' = lapsed \cup {r}
  /\ UNCHANGED <<status, work, detours, jobs, worker, sender, sweep, tried,
                 faultVars>>

BudgetFlips ==
  /\ left.flips > 0
  /\ left' = [left EXCEPT !.flips = @ - 1]
  /\ budget' = ~budget
  /\ UNCHANGED <<runVars, jobs, worker, sender, sweep, tried>>

---------------------------------------------------------------------------
(* The stale-run sweeper of node n. *)

Capped(k) == IF k < HardTicks THEN k + 1 ELSE k
Without(f, S) == [r \in DOMAIN f \ S |-> f[r]]

TickStart(n) ==
  /\ sweep[n].pc = "idle"
  /\ sweep' = [sweep EXCEPT ![n] =
       [sweep[n] EXCEPT !.pc = "sweeping", !.keep = {}, !.batch = {},
                        !.todo = {r \in lapsed : status[r] = "running"},
                        !.since = [r \in DOMAIN @ |-> Capped(@[r])]]]
  /\ UNCHANGED <<runVars, jobs, worker, sender, tried, faultVars>>

\* classifyAdvanceJob: the run's newest queue row, and its heartbeat.
Classify(n, r) ==
  /\ sweep[n].pc = "sweeping" /\ r \in sweep[n].todo \ Poison
  /\ LET Verdict == IF JobsOf(r) = {} THEN "missing"
                    ELSE IF \E j \in JobsOf(r) : j.state = "active" /\ ~j.beating
                    THEN "orphaned" ELSE "live"
     IN sweep' = [sweep EXCEPT ![n] =
          [sweep[n] EXCEPT !.pc = "recovering", !.todo = @ \ {r}, !.run = r,
                           !.verdict = Verdict,
                           !.no = IF Verdict = "orphaned"
                                  THEN (CHOOSE j \in JobsOf(r) : TRUE).no ELSE NoJob]]
  /\ UNCHANGED <<runVars, jobs, worker, sender, tried, faultVars>>

\* Faulty: one throwing run ends the whole pass.
ThrowEndsThePass(n, r) ==
  [sweep[n] EXCEPT !.pc = "idle", !.todo = {}, !.batch = {}]
\* A throw is contained: the run keeps the clock it has, the pass goes on.
ThrowContained(n, r) ==
  [sweep[n] EXCEPT !.todo = @ \ {r}, !.keep = @ \cup {r}]
RecoverThrows(n, r) ==
  /\ sweep[n].pc = "sweeping" /\ r \in sweep[n].todo \cap Poison
  /\ sweep' = [sweep EXCEPT ![n] = ThrowContained(n, r)]
  /\ UNCHANGED <<runVars, jobs, worker, sender, tried, faultVars>>

\* Faulty: the deadline read off the lease, so the first tick can fail a run.
StalledByLease(n, r) == TRUE
HardStalled(n, r) ==
  r \in DOMAIN sweep[n].since /\ sweep[n].since[r] >= HardTicks

\* What the verdict leads to, for the run the sweeper has just classified.
LeaveLive(n, r) ==
  /\ sweep[n].verdict = "live"
  /\ sweep' = [sweep EXCEPT ![n] =
                 [sweep[n] EXCEPT !.pc = "sweeping", !.run = NoRun,
                                  !.since = Without(@, {r})]]
  /\ tried' = [tried EXCEPT ![n] = @ \ {r}]
  /\ UNCHANGED <<runVars, jobs>>

\* reclaimAdvanceJob deletes by id, whatever became of the job meanwhile.
Reclaimed(n) == {j \in jobs : ~IsJob(j, sweep[n])}

GiveUp(n, r) ==
  /\ sweep[n].verdict # "live" /\ HardStalled(n, r)
  /\ jobs' = Reclaimed(n)
  /\ status' = [status EXCEPT ![r] =
                  IF @ \in Ended THEN @ ELSE "stalled"]
  /\ sweep' = [sweep EXCEPT ![n] =
                 [sweep[n] EXCEPT !.pc = "sweeping", !.run = NoRun, !.no = NoJob,
                                  !.since = Without(@, {r})]]
  /\ tried' = [tried EXCEPT ![n] = @ \ {r}]
  /\ UNCHANGED <<work, detours, lapsed>>

Redrive(n, r) ==
  /\ sweep[n].verdict # "live" /\ ~HardStalled(n, r)
  /\ jobs' = Reclaimed(n)
  /\ sweep' = [sweep EXCEPT ![n] =
       [sweep[n] EXCEPT !.pc = "sweeping", !.run = NoRun, !.no = NoJob,
                        !.keep = @ \cup {r}, !.batch = @ \cup {r},
                        !.since = [x \in DOMAIN @ \cup {r} |->
                                     IF x \in DOMAIN @ THEN @[x] ELSE 0]]]
  /\ UNCHANGED <<runVars, tried>>

Recover(n) ==
  /\ sweep[n].pc = "recovering"
  /\ LET r == sweep[n].run
     IN LeaveLive(n, r) \/ GiveUp(n, r) \/ Redrive(n, r)
  /\ UNCHANGED <<worker, sender, faultVars>>

\* Faulty: a resume that looks among the running runs only.
ResumableRunning == {r \in lapsed : status[r] = "running"}
Resumable == {r \in Runs : status[r] = "paused" /\ budget}

\* The end of the pass: clocks nobody kept are dropped, paused runs with
\* budget join the batch.
ResumePausedRuns(n) ==
  /\ sweep[n].pc = "sweeping" /\ sweep[n].todo = {}
  /\ LET gone == DOMAIN sweep[n].since \ sweep[n].keep
     IN /\ sweep' = [sweep EXCEPT ![n] =
                       [sweep[n] EXCEPT !.pc = "flushing", !.since = Without(@, gone),
                                        !.keep = {}, !.batch = @ \cup Resumable]]
        /\ tried' = [tried EXCEPT ![n] = @ \ gone]
  /\ UNCHANGED <<runVars, jobs, worker, sender, faultVars>>

\* One insert of the batch; a row whose key is taken is skipped.
FlushBatch(n) ==
  /\ sweep[n].pc = "flushing"
  /\ jobs' = jobs \cup {NewJob(r) : r \in {b \in sweep[n].batch : Accepts(b)}}
  /\ tried' = [tried EXCEPT ![n] =
                 @ \cup (sweep[n].batch \cap DOMAIN sweep[n].since)]
  /\ sweep' = [sweep EXCEPT ![n] = [sweep[n] EXCEPT !.pc = "idle", !.batch = {}]]
  /\ UNCHANGED <<runVars, worker, sender, faultVars>>

\* Listing the paused runs, reading a budget or the insert throws: the tick
\* ends there and its batch is lost, the clocks it set stay.
TickThrows(n) ==
  /\ sweep[n].pc = "flushing"
  /\ Fault("lostBatch")
  /\ sweep' = [sweep EXCEPT ![n] = [sweep[n] EXCEPT !.pc = "idle", !.batch = {}]]
  /\ UNCHANGED <<runVars, jobs, worker, sender, tried, budget>>

\* A process dies with its worker, its handlers, its tick and its clocks.
Crash(n) ==
  /\ Fault("crash")
  /\ worker' = [worker EXCEPT ![n] = IdleWorker]
  /\ sweep' = [sweep EXCEPT ![n] =
       [sweep[n] EXCEPT !.pc = "idle", !.todo = {}, !.run = NoRun, !.no = NoJob,
                        !.keep = {}, !.batch = {}, !.since = [r \in {} |-> 0]]]
  /\ tried' = [tried EXCEPT ![n] = {}]
  /\ UNCHANGED <<runVars, jobs, sender, budget>>

---------------------------------------------------------------------------

HandlerStep == \E r \in Runs :
  \/ StartRun(r) \/ SignalDecision(r) \/ CancelRun(r)
  \/ EnqueueAdvanceReliably(r) \/ EnqueueLost(r)

WorkerStep == \E n \in Nodes :
  \/ Fetch(n) \/ Drive(n) \/ CompleteJob(n) \/ HandlerThrows(n)
  \/ HeartbeatMissed(n) \/ HeartbeatSent(n) \/ Crash(n)

QueueStep == \E j \in jobs : HeartbeatStops(j) \/ Maintain(j)

SweeperStep == \E n \in Nodes :
  \/ TickStart(n) \/ Recover(n) \/ ResumePausedRuns(n) \/ FlushBatch(n)
  \/ TickThrows(n)
  \/ \E r \in Runs : Classify(n, r) \/ RecoverThrows(n, r)

Next == \/ HandlerStep \/ WorkerStep \/ QueueStep \/ SweeperStep
        \/ BudgetFlips \/ \E r \in Runs : LeaseExpires(r)

Spec == Init /\ [][Next]_vars

\* Timers fire, a process that is not killed keeps working, pg-boss keeps
\* delivering; people, budgets and faults owe nothing.
Fairness ==
  /\ \A r \in Runs : /\ WF_vars(EnqueueAdvanceReliably(r))
                     /\ WF_vars(LeaseExpires(r))
  /\ WF_vars(QueueStep)
  /\ \A n \in Nodes :
       /\ WF_vars(Fetch(n)) /\ WF_vars(Drive(n)) /\ WF_vars(CompleteJob(n))
       /\ WF_vars(TickStart(n)) /\ WF_vars(Recover(n))
       /\ WF_vars(ResumePausedRuns(n)) /\ WF_vars(FlushBatch(n))
       /\ \A r \in Runs : WF_vars(Classify(n, r) \/ RecoverThrows(n, r))

FairSpec == Spec /\ Fairness

---------------------------------------------------------------------------

JobType == [run : Runs, no : Numbers, state : {"created", "active", "retry"},
            tries : 0 .. RetryLimit, beating : BOOLEAN]

TypeOK ==
  /\ status \in [Runs -> Statuses]
  /\ work \in [Runs -> 0 .. MaxWork] /\ detours \in [Runs -> 0 .. MaxDetours]
  /\ lapsed \subseteq Runs
  /\ jobs \subseteq JobType
  /\ \A n \in Nodes :
       /\ worker[n] = IdleWorker
          \/ worker[n] \in [pc : {"driving", "returned"}, run : Runs,
                            no : Numbers, tries : 0 .. RetryLimit]
       /\ sweep[n].pc \in {"idle", "sweeping", "recovering", "flushing"}
       /\ sweep[n].keep \cup sweep[n].batch \cup sweep[n].todo
            \cup DOMAIN sweep[n].since \subseteq Runs
       /\ \A r \in DOMAIN sweep[n].since : sweep[n].since[r] \in 0 .. HardTicks
  /\ sender \in [Runs -> 0 .. Resends]
  /\ budget \in BOOLEAN
  /\ tried \in [Nodes -> SUBSET Runs]

\* The queue never has two workers entitled to drive one run: a second drive
\* only ever runs beside one the queue has already written off.  (pgBossRunner
\* enqueues from handlers and sweepers alike and counts on the exclusive
\* policy; Execution.tla shows what the revision check does with the rest.)
OneEntitledDrive ==
  \A n, m \in Nodes :
    n # m /\ worker[n].run = worker[m].run /\ worker[n].pc # "idle"
      => ~(Entitled(n) /\ Entitled(m))

\* A sweeper gives a run up as stalled only after it has put it back on the
\* queue itself, since it first saw it orphaned (startStaleRunSweeper).
StallIsEarned ==
  [][\A r \in Runs : status[r] # "stalled" /\ status'[r] = "stalled"
        => \E n \in Nodes : r \in tried[n]]_vars

\* However enqueues are deduplicated, lost or thrown away, whatever dies and
\* whatever other run's recovery throws: a running run parks, pauses or ends.
RunningIsDriven ==
  \A r \in Runs \ Poison : status[r] = "running" ~> status[r] # "running"

\* A run paused for budget is taken up again once there is budget for good.
PausedResumes ==
  \A r \in Runs : <>[]budget => (status[r] = "paused" ~> status[r] # "paused")
=============================================================================
