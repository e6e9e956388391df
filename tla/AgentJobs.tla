------------------------------ MODULE AgentJobs ------------------------------
(***************************************************************************)
(* One coder step of a run: its dispatch to the run's container, the polls *)
(* of the job, the recoveries of a lost or refused one, and the follow-up  *)
(* gate, which holds the finished step until a person has decided what the *)
(* coder surfaced and sends the coder back for what they asked.            *)
(*                                                                         *)
(* The step's slice of the run is one record, read whole and written by    *)
(* compare-and-swap, as in Execution.tla; fresh holds the drivers whose    *)
(* copy is still the row's revision.  "done" is the step passed.           *)
(***************************************************************************)
EXTENDS JobRegistry

CONSTANTS
  Drivers,      \* drives of the run: the job's, and one a slow poll left behind
  Limit,        \* Limit[cause]: recoveries of a lost or refused job
  MaxLoops,     \* followUps.maxLoops
  Gated,        \* does the step ask for approval too
  Unattended,   \* may the risk policy, read at completion, dismiss follow-ups
  MaxDecisions, \* bound: decisions on follow-ups, second thoughts included
  MaxCrashes    \* bound: drives that die, or polls whose answer is lost

Causes == {"evicted", "transient", "contended"}

ASSUME JobsAssumption ==
  /\ IsFiniteSet(Items)
  /\ Limit \in [Causes -> Nat]
  /\ MaxLoops \in Nat \ {0} /\ {MaxDecisions, MaxCrashes} \subseteq Nat
  /\ Gated \in BOOLEAN /\ Unattended \subseteq BOOLEAN

VARIABLES
  run,        \* the row: the run's status and the step
  fresh,      \* drivers whose copy is the row's revision
  driver,     \* driver[d]: where the drive is, its copy, what its poll brought
  surfaced,   \* history: the job that surfaced an item, or NoJob
  applied,    \* history: items whose last prompt has brought a recorded result
  left        \* what is left of the bounds

vars == <<jobs, run, fresh, driver, surfaced, applied, left>>

\* A dispatch is the first, a loop's, a recovery's, or repeats a pass whose
\* end was recorded halfway.
MaxEpoch == 1 + MaxLoops + Limit["evicted"] + Limit["transient"]
              + Limit["contended"] + MaxDecisions + MaxCrashes
Epochs == 0 .. MaxEpoch
NoJob == MaxEpoch + 1

\* queued and answered are "asked" until they are sent; filed, closed and
\* dismissed are "settled".
ItemStates == {"absent", "pending", "asked", "sent", "dropped", "settled"}

RunType == [status : {"running", "blocked", "done", "failed"},
            job : Epochs \cup {NoJob}, count : Epochs, loops : 0 .. MaxLoops,
            rework : SUBSET Items, items : [Items -> ItemStates],
            recovered : [Causes -> Nat]]

NewRun == [status |-> "running", job |-> NoJob, count |-> 0, loops |-> 0,
           rework |-> {}, items |-> [i \in Items |-> "absent"],
           recovered |-> [c \in Causes |-> 0]]
Idle == [pc |-> "idle", snap |-> NewRun, seen |-> {}, brief |-> {}]

Init ==
  /\ jobs = NoJobs
  /\ run = NewRun
  /\ fresh = {}
  /\ driver = [d \in Drivers |-> Idle]
  /\ surfaced = [i \in Items |-> NoJob]
  /\ applied = {}
  /\ left = [decisions |-> MaxDecisions, crashes |-> MaxCrashes]

history == <<surfaced, applied, left>>

---------------------------------------------------------------------------
(* The harness. *)

SurfaceItem(id, i) ==
  /\ surfaced[i] = NoJob
  /\ Surface(id, i)
  /\ surfaced' = [surfaced EXCEPT ![i] = id]
  /\ UNCHANGED <<run, fresh, driver, applied, left>>

JobSettles(id) ==
  /\ \E state \in JobStates \ {"running"} : Settle(id, state)
  /\ UNCHANGED <<run, fresh, driver, history>>

ContainerGone ==
  /\ Evict
  /\ UNCHANGED <<run, fresh, driver, history>>

---------------------------------------------------------------------------
(* The follow-up gate. *)

InState(items, states) == {i \in Items : items[i] \in states}
Moved(items, from, to) ==
  [i \in Items |-> IF items[i] = from THEN to ELSE items[i]]
Streamed(items, seen) ==
  [i \in Items |-> IF i \in seen THEN "pending" ELSE items[i]]

HasPending(r) == InState(r.items, {"pending"}) # {}

\* Faulty: one loop too many.
VerdictOffByOne(r) ==
  IF HasPending(r) THEN "pending"
  ELSE IF InState(r.items, {"asked"}) = {} THEN "settled"
  ELSE IF r.loops <= MaxLoops THEN "loop" ELSE "exhausted"
\* followUpGateVerdict.
Verdict(r) ==
  IF HasPending(r) THEN "pending"
  ELSE IF InState(r.items, {"asked"}) = {} THEN "settled"
  ELSE IF r.loops < MaxLoops THEN "loop" ELSE "exhausted"

\* The coder is sent back with what was asked of it.
Looped(r) ==
  [r EXCEPT !.status = "running", !.job = NoJob, !.loops = @ + 1,
            !.rework = InState(r.items, {"asked"}),
            !.items = Moved(@, "asked", "sent")]
Dropped(r) == [r EXCEPT !.items = Moved(@, "asked", "dropped")]
Passed(r)  == [r EXCEPT !.status = IF Gated THEN "blocked" ELSE "done"]

\* An unattended policy dismisses what is undecided.
Dismissed(items, alone) ==
  IF alone THEN Moved(items, "pending", "settled") ELSE items

\* The step's result is recorded, with the last burst of what the job surfaced.
Recorded(r, seen, alone) ==
  [r EXCEPT !.job = NoJob, !.rework = {},
            !.items = Dismissed(Streamed(@, seen), alone)]

---------------------------------------------------------------------------
(* A drive.  A step of it that writes does so only on a fresh copy; on a   *)
(* stale one it starts over (redriveOnContention).                         *)

At(d, pc) == CASE pc = "idle"    -> Idle
               [] pc = "failing" -> [Idle EXCEPT !.pc = pc]
               [] OTHER          -> [driver[d] EXCEPT !.pc = pc]
To(d, pc) == driver' = [driver EXCEPT ![d] = At(d, pc)]

\* Faulty: written whatever the row became meanwhile.
AlwaysCurrent(d) == TRUE
IsCurrent(d) == d \in fresh

\* The copy is written back and the drive goes on.
Writes(d, r, pc) ==
  /\ run' = r
  /\ fresh' = IF pc \in {"idle", "failing"} THEN {} ELSE {d}
  /\ driver' = [driver EXCEPT ![d] = IF pc \in {"idle", "failing"} THEN At(d, pc)
                                     ELSE [At(d, pc) EXCEPT !.snap = r]]
StartsOver(d) == To(d, "idle") /\ UNCHANGED <<run, fresh>>
CasPersist(d, r, pc) ==
  \/ IsCurrent(d) /\ Writes(d, r, pc)
  \/ ~IsCurrent(d) /\ StartsOver(d)

Advance(d) ==
  /\ driver[d].pc = "idle" /\ run.status = "running"
  /\ driver' = [driver EXCEPT ![d] =
       [Idle EXCEPT !.snap = run,
                    !.pc = IF run.job = NoJob THEN "opening" ELSE "polling"]]
  /\ fresh' = fresh \cup {d}
  /\ UNCHANGED <<jobs, run, history>>

\* Faulty: the dispatch is counted when it is opened.
CountedOnOpening(d) == [driver[d].snap EXCEPT !.count = @ + 1]
\* The dispatch is announced before anything is contacted.
Opened(d) == driver[d].snap
OpenDispatch(d) ==
  /\ driver[d].pc = "opening"
  /\ CasPersist(d, Opened(d), "starting")
  /\ UNCHANGED <<jobs, history>>

StartJob(d) ==
  /\ driver[d].pc = "starting"
  /\ jobs' = Started(driver[d].snap.count, driver[d].snap.rework)
  /\ driver' = [driver EXCEPT ![d].pc = "accepted",
                              ![d].snap.job = driver[d].snap.count]
  /\ UNCHANGED <<run, fresh, history>>

StartRefused(d) ==
  /\ driver[d].pc = "starting"
  /\ CasPersist(d, driver[d].snap, "failing")
  /\ UNCHANGED <<jobs, history>>

\* Faulty: the id is kept and the dispatch is not counted.
Uncounted(d) == driver[d].snap
Accepted(d) == [driver[d].snap EXCEPT !.count = @ + 1]
RecordDispatch(d) ==
  /\ driver[d].pc = "accepted"
  /\ CasPersist(d, Accepted(d), "idle")
  /\ UNCHANGED <<jobs, history>>

\* Faulty: a job nobody holds reads as still running.
LostReadsRunning(d) == To(d, "folding")
\* A job the container does not hold was lost with it.
LostJob(d) == \E cause \in {"evicted", "transient"} : To(d, cause)

\* The poll.  A failed job's answer carries no follow-ups.
Poll(d) ==
  LET id == driver[d].snap.job
      pcOf == [running |-> "folding", done |-> "completing",
               failed |-> "failed", contended |-> "contended"]
  IN /\ driver[d].pc = "polling"
     /\ \/ /\ Holds(id)
           /\ jobs' = Drained(id)
           /\ driver' = [driver EXCEPT ![d].pc = pcOf[jobs[id].state],
                                       ![d].seen = jobs[id].buffer,
                                       ![d].brief = jobs[id].brief]
        \/ /\ ~Holds(id)
           /\ LostJob(d)
           /\ UNCHANGED jobs
     /\ UNCHANGED <<run, fresh, history>>

\* Faulty: folded onto whatever the step has become.
FoldAnyway(d) == TRUE
\* The fold is re-applied to the row as it is, and dropped if the job changed.
StillThatJob(d) == run.job = driver[d].snap.job
FoldRunning(d) ==
  /\ driver[d].pc = "folding"
  /\ \/ /\ StillThatJob(d) /\ driver[d].seen # {}
        /\ run' = [run EXCEPT !.items = Streamed(@, driver[d].seen)]
        /\ fresh' = {}
     \/ /\ ~StillThatJob(d) \/ driver[d].seen = {}
        /\ fresh' = fresh \ {d}
        /\ UNCHANGED run
  /\ To(d, "idle")
  /\ UNCHANGED <<jobs, history>>

\* parkStepOnDecision writes the whole copy, whatever the row became meanwhile.
ParkUpsert(d, r) == Writes(d, [r EXCEPT !.status = "blocked"], "idle")

\* recordStepResult, up to what the follow-up gate makes of it.  When the loop
\* budget is spent the drop is written before the step is passed.
Complete(d) == \E alone \in Unattended :
  LET r == Recorded(driver[d].snap, driver[d].seen, alone)
      verdict == Verdict(r)
  IN /\ driver[d].pc = "completing"
     /\ CASE verdict = "pending"   -> ParkUpsert(d, r)
          [] verdict = "loop"      -> CasPersist(d, Looped(r), "idle")
          [] verdict = "exhausted" -> CasPersist(d, Dropped(r), "settling")
          [] OTHER                 -> CasPersist(d, Passed(r), "idle")
     /\ applied' = IF IsCurrent(d) \/ verdict = "pending"
                   THEN (applied \cup {i \in driver[d].brief :
                                         driver[d].snap.items[i] = "sent"})
                          \ run'.rework
                   ELSE applied
     /\ UNCHANGED <<jobs, surfaced, left>>

SettleStep(d) ==
  /\ driver[d].pc = "settling"
  /\ CasPersist(d, Passed(driver[d].snap), "idle")
  /\ UNCHANGED <<jobs, history>>

\* Faulty: the step is reset as for a re-run.
ResetForRerun(r, cause) ==
  [r EXCEPT !.job = NoJob, !.recovered[cause] = @ + 1, !.rework = {}]
\* A lost or refused job is dispatched again, with the instructions it had.
Recovered(r, cause) ==
  [r EXCEPT !.job = NoJob, !.recovered[cause] = @ + 1]

Recover(d, cause) ==
  /\ driver[d].pc = cause
  /\ LET r == driver[d].snap
     IN IF r.recovered[cause] < Limit[cause]
        THEN CasPersist(d, Recovered(r, cause), "idle")
        ELSE CasPersist(d, r, "failing")
  /\ UNCHANGED <<jobs, history>>

MarkErrored(d) ==
  /\ driver[d].pc = "failed"
  /\ CasPersist(d, driver[d].snap, "failing")
  /\ UNCHANGED <<jobs, history>>

\* The job did not settle within its polling budget.
PollBudgetSpent(d) ==
  /\ driver[d].pc = "idle" /\ run.status = "running" /\ run.job # NoJob
  /\ To(d, "failing")
  /\ UNCHANGED <<jobs, run, fresh, history>>

\* failRun re-reads the run.
FailRun(d) ==
  /\ driver[d].pc = "failing"
  /\ To(d, "idle")
  /\ IF run.status \in {"running", "blocked"}
     THEN run' = [run EXCEPT !.status = "failed"] /\ fresh' = {}
     ELSE UNCHANGED <<run, fresh>>
  /\ UNCHANGED <<jobs, history>>

\* The process dies, or the answer to its poll never arrives.
Crash(d) ==
  /\ driver[d].pc # "idle" /\ left.crashes > 0
  /\ left' = [left EXCEPT !.crashes = @ - 1]
  /\ driver' = [driver EXCEPT ![d] = Idle]
  /\ fresh' = fresh \ {d}
  /\ UNCHANGED <<jobs, run, surfaced, applied>>

---------------------------------------------------------------------------
(* People.  mutateInstance re-reads and re-applies until its write lands.  *)

ParkedHere == run.status = "blocked"

\* An item is queued or answered ("asked"), or filed, closed or dismissed
\* ("settled"); nothing refuses a second decision.  The last one a parked run
\* waits for moves it on; a step that asks for approval stays parked on that.
DecideFollowUp(i, choice) ==
  /\ run.items[i] # "absent" /\ choice \in {"asked", "settled"}
  /\ left.decisions > 0
  /\ left' = [left EXCEPT !.decisions = @ - 1]
  /\ LET r == [run EXCEPT !.items[i] = choice]
     IN run' = IF ~ParkedHere \/ HasPending(r)  THEN r
               ELSE IF Verdict(r) = "loop"      THEN Looped(r)
               ELSE IF Verdict(r) = "exhausted" THEN Passed(Dropped(r))
               ELSE Passed(r)
  /\ fresh' = {}
  /\ applied' = applied \ run'.rework
  /\ UNCHANGED <<jobs, driver, surfaced>>

\* Faulty: approved over what nobody decided.
ApproveUndecided ==
  /\ Gated /\ run.status = "blocked"
  /\ run' = [run EXCEPT !.status = "done"]
  /\ fresh' = {}
  /\ UNCHANGED <<jobs, driver, history>>
\* The approval gate; refused while follow-ups are undecided.
ApproveStep ==
  /\ Gated /\ run.status = "blocked" /\ ~HasPending(run)
  /\ run' = [run EXCEPT !.status = "done"]
  /\ fresh' = {}
  /\ UNCHANGED <<jobs, driver, history>>

---------------------------------------------------------------------------

DriverStep(d) ==
  \/ Advance(d)  \/ OpenDispatch(d) \/ StartJob(d)   \/ RecordDispatch(d)
  \/ Poll(d)     \/ FoldRunning(d)  \/ Complete(d)   \/ SettleStep(d)
  \/ MarkErrored(d) \/ FailRun(d)   \/ \E c \in Causes : Recover(d, c)

HarnessStep == \E id \in DOMAIN jobs :
  JobSettles(id) \/ \E i \in Items : SurfaceItem(id, i)

HumanStep ==
  \/ ApproveStep
  \/ \E i \in Items, c \in {"asked", "settled"} : DecideFollowUp(i, c)

Next == \/ \E d \in Drivers : \/ DriverStep(d) \/ StartRefused(d)
                              \/ PollBudgetSpent(d) \/ Crash(d)
        \/ HarnessStep \/ ContainerGone \/ HumanStep

Spec == Init /\ [][Next]_vars

\* The drives keep going (AdvanceQueue shows why) and the harness's watchdogs
\* bound a job; people, refusals and evictions owe nothing.
Fairness ==
  /\ \A d \in Drivers : WF_vars(DriverStep(d))
  /\ WF_vars(\E id \in DOMAIN jobs : JobSettles(id))

FairSpec == Spec /\ Fairness

---------------------------------------------------------------------------

Pcs == {"idle", "opening", "starting", "accepted", "polling", "folding",
        "completing", "failed", "settling", "failing"} \cup Causes

TypeOK ==
  /\ DOMAIN jobs \subseteq Epochs
  /\ \A id \in DOMAIN jobs : jobs[id] \in JobEntry
  /\ run \in RunType
  /\ fresh \subseteq Drivers
  /\ driver \in [Drivers -> [pc : Pcs, snap : RunType, seen : SUBSET Items,
                             brief : SUBSET Items]]
  /\ surfaced \in [Items -> Epochs \cup {NoJob}]
  /\ applied \subseteq Items
  /\ left \in [decisions : 0 .. MaxDecisions, crashes : 0 .. MaxCrashes]

\* A result about to be recorded was produced under the instructions the step
\* now carries: the harness re-attaches to a known id, and only the counted
\* dispatch epoch keeps a re-dispatch from reading an earlier round's result
\* (dispatchEpochFor).
ResultIsOfThisRound ==
  \A d \in Drivers :
    driver[d].pc = "completing" /\ d \in fresh => driver[d].brief = run.rework

\* However a dispatch is repeated, the agent never works twice at once on the
\* branch (recordDispatchAttribution counts on acceptance, so a repeated
\* dispatch re-attaches).
OneJobAtATime == Cardinality(RunningJobs) <= 1

\* The step is never passed over a follow-up the run has and nobody decided,
\* whatever was streamed, decided or recorded meanwhile.
NothingUndecidedIsPassed == run.status = "done" => ~HasPending(run)

\* A decision is never undone by a drive that read the run before it: every
\* write of a drive but the follow-up park's is guarded by the revision
\* (persistAndEmit; parkStepOnDecision is not).
DecisionsSurvive ==
  [][\A i \in Items : run.items[i] \notin {"absent", "pending"}
        => run'.items[i] \notin {"absent", "pending"}]_vars

\* When the step is passed, what the row says was sent to the coder was in the
\* prompt of a pass whose result was recorded, through whatever recoveries, and
\* what else was asked of it is marked as dropped (loopCoderForFollowUps,
\* stampExhaustedSendBacks).
AnswersReachTheCoder ==
  [][run.status # "done" /\ run'.status = "done"
       => \A i \in Items :
            /\ run'.items[i] # "asked"
            /\ run'.items[i] = "sent" => i \in applied']_vars

\* The step ends or waits for a person, however often its container is lost or
\* its push refused (recoverContainerEviction, recoverBranchContention).
StepSettles == run.status = "running" ~> run.status # "running"

\* What a pass surfaced holds the step once its result is recorded: the poll
\* that sees a job done appends the last items first (pollAgentJobInner).
SurfacedItemsHold ==
  [][run.status # "done" /\ run'.status = "done"
       => \A i \in Items :
            surfaced[i] = run.count - 1 => run'.items[i] # "absent"]_vars
=============================================================================
