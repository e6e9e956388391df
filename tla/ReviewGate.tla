------------------------------ MODULE ReviewGate ------------------------------
(***************************************************************************)
(* The human-review gate of a run: it watches a pull request's review,     *)
(* sends the fixer for what the reviewers left open, resolves on the       *)
(* provider the threads a pushing round was handed, and passes an approved *)
(* pull request with no thread open.  It stands for the polling gates: the *)
(* engine's loop (probe, dispatch a helper, re-probe) is theirs too.       *)
(*                                                                         *)
(* The step's slice of the run is one record, written by compare-and-swap, *)
(* as in AgentJobs.tla.                                                    *)
(***************************************************************************)
EXTENDS JobRegistry, Sequences

CONSTANTS
  Prompts,     \* the Items a person asks for in the app; the rest are threads
  Drivers,     \* drives of the run
  MaxHead,     \* bound: commits on the pull request's branch
  MaxReviews,  \* bound: what reviewers do on the pull request
  MaxFixes,    \* bound: fixes a person requests in the app
  MaxFaults,   \* bound: refused dispatches, provider calls that fail
  MaxCrashes   \* bound: drives that die

ASSUME GateAssumption ==
  /\ Prompts \subseteq Items
  /\ MaxHead \in Nat \ {0}
  /\ {MaxReviews, MaxFixes, MaxFaults, MaxCrashes} \subseteq Nat

Threads == Items \ Prompts

VARIABLES
  pr,          \* the pull request: its head, its approval, its threads
  run,         \* the row: the run's status and the gate's state
  fresh,       \* drivers whose copy is the row's revision
  driver,      \* driver[d]: where the drive is, its copy, what its call brought
  pushed,      \* history: what jobs that pushed had been handed
  left         \* what is left of the bounds

vars == <<jobs, pr, run, fresh, driver, pushed, left>>

\* A round either follows a new head or was asked for.
Epochs == 0 .. MaxHead + MaxFixes
NoJob  == MaxHead + MaxFixes + 1
Heads  == 0 .. MaxHead    \* 0: none read yet

\* A thread is closed by a person, resolved by the gate.
PrType == [head : Heads \ {0}, approved : BOOLEAN,
           thread : [Threads -> {"absent", "open", "closed", "resolved"}]]

Attempt(head, asked) == [head |-> head, asked |-> asked]

\* count is the dispatches accepted: the gate's attempts, and the next epoch.
RunType(Logs) ==
  [status : {"running", "done", "failed"}, phase : {"checking", "working"},
   job : Epochs \cup {NoJob}, count : Epochs, head : Heads,
   handed : SUBSET Threads, fix : SUBSET Prompts, asked : SUBSET Items,
   log : Logs]

NewRun == [status |-> "running", phase |-> "checking", job |-> NoJob,
           count |-> 0, head |-> 0, handed |-> {}, fix |-> {}, asked |-> {},
           log |-> <<>>]
Idle == [pc |-> "idle", via |-> "advance", snap |-> NewRun, brief |-> {},
         ended |-> "done"]

Init ==
  /\ jobs = NoJobs
  /\ pr = [head |-> 1, approved |-> FALSE,
           thread |-> [t \in Threads |-> "absent"]]
  /\ run = NewRun
  /\ fresh = {}
  /\ driver = [d \in Drivers |-> Idle]
  /\ pushed = {}
  /\ left = [reviews |-> MaxReviews, fixes |-> MaxFixes,
             faults |-> MaxFaults, crashes |-> MaxCrashes]

Spend(what) == left[what] > 0 /\ left' = [left EXCEPT ![what] = @ - 1]
NoFault     == UNCHANGED left
Fault       == Spend("faults")

---------------------------------------------------------------------------
(* The provider and the people on it. *)

OpenThreads == {t \in Threads : pr.thread[t] = "open"}

\* What the gate's call makes of the threads it names.
ResolvedThreads(named) ==
  [pr EXCEPT !.thread = [t \in Threads |->
     IF t \in named /\ pr.thread[t] = "open" THEN "resolved" ELSE pr.thread[t]]]

\* The call names every thread in turn; what fails leaves its thread open.
ResolveThreads(named, landed) ==
  /\ landed \subseteq named
  /\ pr' = ResolvedThreads(landed)
  /\ IF landed = named THEN NoFault ELSE Fault

CommentOnThread(t) ==
  /\ pr.thread[t] # "open"
  /\ Spend("reviews")
  /\ pr' = [pr EXCEPT !.thread[t] = "open"]
  /\ pushed' = pushed \ {t}
  /\ UNCHANGED <<jobs, run, fresh, driver>>

CloseThread(t) ==
  /\ pr.thread[t] = "open"
  /\ Spend("reviews")
  /\ pr' = [pr EXCEPT !.thread[t] = "closed"]
  /\ UNCHANGED <<jobs, run, fresh, driver, pushed>>

Approval ==
  /\ Spend("reviews")
  /\ pr' = [pr EXCEPT !.approved = ~@]
  /\ UNCHANGED <<jobs, run, fresh, driver, pushed>>

---------------------------------------------------------------------------
(* The fixer in its container. *)

FixerPushes(id) ==
  /\ Running(id) /\ pr.head < MaxHead
  /\ pr' = [pr EXCEPT !.head = @ + 1]
  /\ pushed' = pushed \cup jobs[id].brief
  /\ UNCHANGED <<jobs, run, fresh, driver, left>>

FixerSettles(id) ==
  /\ \E state \in {"done", "failed"} : Settle(id, state)
  /\ UNCHANGED <<pr, run, fresh, driver, pushed, left>>

ContainerGone ==
  /\ Evict
  /\ UNCHANGED <<pr, run, fresh, driver, pushed, left>>

---------------------------------------------------------------------------
(* A drive.  What it writes lands only on a fresh copy; on a stale one it  *)
(* starts the advance or the poll it was making over.                      *)

Resting == {"idle", "gating", "failing"}
At(d, pc) == IF pc \in Resting THEN [Idle EXCEPT !.pc = pc]
             ELSE [driver[d] EXCEPT !.pc = pc]
To(d, pc) == driver' = [driver EXCEPT ![d] = At(d, pc)]

\* Faulty: written whatever the row became meanwhile.
AlwaysCurrent(d) == TRUE
IsCurrent(d) == d \in fresh

Writes(d, r, pc) ==
  /\ run' = r
  /\ fresh' = IF pc \in Resting THEN {} ELSE {d}
  /\ driver' = [driver EXCEPT ![d] = IF pc \in Resting THEN At(d, pc)
                                     ELSE [At(d, pc) EXCEPT !.snap = r]]
StartsOver(d) ==
  /\ To(d, IF driver[d].via = "poll" THEN "gating" ELSE "idle")
  /\ UNCHANGED <<run, fresh>>
CasPersist(d, r, pc) ==
  \/ IsCurrent(d) /\ Writes(d, r, pc)
  \/ ~IsCurrent(d) /\ StartsOver(d)

\* Faulty: an advance goes by the phase, a gate poll asks nothing.
AttachedUnasked(via) == via = "poll" \/ run.phase = "working"
\* A gate poll attaches to any job the step has, an advance to a helper's.
Attached(via) == run.job # NoJob /\ (via = "poll" \/ run.phase = "working")

\* advanceInstance from idle, pollGate between the polls of the gate; a drive
\* that attaches to a job polls that from then on.
Evaluate(d) ==
  LET via == IF driver[d].pc = "gating" THEN "poll" ELSE "advance"
  IN /\ driver[d].pc \in {"idle", "gating"} /\ run.status = "running"
     /\ driver' = [driver EXCEPT ![d] =
          [Idle EXCEPT !.snap = run, !.brief = run.fix,
                       !.via = IF Attached(via) THEN "advance" ELSE via,
                       !.pc = IF Attached(via) THEN "polling"
                              ELSE IF run.fix # {} THEN "consuming" ELSE "probing"]]
     /\ fresh' = fresh \cup {d}
     /\ UNCHANGED <<jobs, pr, run, pushed, left>>

\* The gate's polls ran out; this gate waits for people and has no deadline, so
\* the drive is released and another advance takes the gate up.
Rearm(d) ==
  /\ driver[d].pc = "gating" /\ run.status = "running"
  /\ run' = [run EXCEPT !.phase = "checking"]
  /\ fresh' = {}
  /\ To(d, "idle")
  /\ UNCHANGED <<jobs, pr, pushed, left>>

\* A fix a person asked for skips the probe; it is cleared before the dispatch.
ConsumeFix(d) ==
  /\ driver[d].pc = "consuming"
  /\ CasPersist(d, [driver[d].snap EXCEPT !.fix = {}], "opening")
  /\ UNCHANGED <<jobs, pr, pushed, left>>

---------------------------------------------------------------------------
(* The probe: it re-tries the resolves a round left, then judges the same  *)
(* snapshot.                                                               *)

\* Faulty: the head is not compared.
NeverStalled(r) == FALSE
\* The last round moved nothing, so another would not either.
Stalled(r) == r.log # <<>> /\ r.log[Len(r.log)].head = pr.head

Verdicts(r) ==
  IF OpenThreads = {} THEN {IF pr.approved THEN "passing" ELSE "waiting"}
  ELSE IF Stalled(r)  THEN {"waiting"}
  ELSE IF pr.approved THEN {"opening"}
  ELSE {"opening", "waiting"}    \* the grace window

Probe(d) ==
  LET r == driver[d].snap
      again == r.handed \cap OpenThreads
  IN /\ driver[d].pc = "probing"
     /\ \E landed \in SUBSET again : ResolveThreads(again, landed)
     /\ \E verdict \in Verdicts(r) :
          driver' = [driver EXCEPT ![d] =
            [driver[d] EXCEPT
               !.pc = verdict,
               !.snap.head = pr.head,
               !.snap.handed = IF verdict = "opening" THEN OpenThreads ELSE again,
               !.brief = IF verdict = "opening" THEN OpenThreads ELSE {}]]
     /\ UNCHANGED <<jobs, run, fresh, pushed>>

\* A review that cannot be read is not a verdict.
ProbeUnread(d) ==
  /\ driver[d].pc = "probing" /\ Fault
  /\ To(d, "waiting")
  /\ UNCHANGED <<jobs, pr, run, fresh, pushed>>

KeepWaiting(d) ==
  /\ driver[d].pc = "waiting"
  /\ CasPersist(d, [driver[d].snap EXCEPT !.phase = "checking"], "gating")
  /\ UNCHANGED <<jobs, pr, pushed, left>>

PassGate(d) ==
  /\ driver[d].pc = "passing"
  /\ CasPersist(d, [driver[d].snap EXCEPT !.status = "done"], "idle")
  /\ UNCHANGED <<jobs, pr, pushed, left>>

---------------------------------------------------------------------------
(* The helper's dispatch and its end. *)

\* The announcement carries what the probe stashed on the gate.
OpenDispatch(d) ==
  /\ driver[d].pc = "opening"
  /\ CasPersist(d, driver[d].snap, "starting")
  /\ UNCHANGED <<jobs, pr, pushed, left>>

StartJob(d) ==
  /\ driver[d].pc = "starting"
  /\ jobs' = Started(driver[d].snap.count, driver[d].brief)
  /\ To(d, "accepted")
  /\ UNCHANGED <<pr, run, fresh, pushed, left>>

\* A gate poll tolerates it, up to a number of times; an advance does not.
StartRefused(d) ==
  /\ driver[d].pc = "starting" /\ Fault
  /\ \E pc \in {"gating", "failing"} :
       /\ pc = "gating" => driver[d].via = "poll"
       /\ \/ IsCurrent(d) /\ Writes(d, driver[d].snap, pc)
          \/ ~IsCurrent(d) /\ To(d, pc) /\ UNCHANGED <<run, fresh>>
  /\ UNCHANGED <<jobs, pr, pushed>>

RecordDispatch(d) ==
  LET r == driver[d].snap
  IN /\ driver[d].pc = "accepted"
     /\ CasPersist(d, [r EXCEPT !.phase = "working", !.job = r.count,
                                !.count = @ + 1, !.asked = driver[d].brief],
                   "idle")
     /\ UNCHANGED <<jobs, pr, pushed, left>>

\* Faulty: a job nobody holds reads as still running.
OnlyHeld(id) == Holds(id) /\ ~Running(id)
\* A helper that is lost, or failed, ends its round like one that is done.
Ended(id) == ~Running(id)

PollJob(d) ==
  LET id == driver[d].snap.job
  IN /\ driver[d].pc = "polling"
     /\ \/ /\ Ended(id)
           /\ driver' = [driver EXCEPT ![d].pc = "completing",
                ![d].ended = IF Holds(id) THEN jobs[id].state ELSE "failed"]
           /\ UNCHANGED fresh
        \/ /\ ~Ended(id)
           /\ To(d, "idle")
           /\ fresh' = fresh \ {d}
     /\ UNCHANGED <<jobs, pr, run, pushed, left>>

\* onHelperComplete: what the drive keeps of the handed threads.
Keeps(d, handed) ==
  driver' = [driver EXCEPT ![d].pc = "recording", ![d].snap.handed = handed]

\* The round pushed when the head is not the one its probe saw.
Progressed(r) == r.head # 0 => pr.head # r.head

HelperComplete(d) ==
  LET r == driver[d].snap
  IN /\ driver[d].pc = "completing"
     /\ IF driver[d].ended = "done" /\ r.handed # {} /\ Progressed(r)
        THEN \E landed \in SUBSET r.handed :
               /\ ResolveThreads(r.handed, landed)
               /\ Keeps(d, IF landed = r.handed THEN {} ELSE r.handed)
        ELSE Keeps(d, {}) /\ NoFault /\ UNCHANGED pr
     /\ UNCHANGED <<jobs, run, fresh, pushed>>

\* The head could not be read: nothing is resolved unchecked.
HelperUnread(d) ==
  /\ driver[d].pc = "completing" /\ driver[d].ended = "done"
  /\ driver[d].snap.handed # {} /\ Fault
  /\ Keeps(d, {})
  /\ UNCHANGED <<jobs, pr, run, fresh, pushed>>

\* Faulty: a failed round leaves no account.
LoggedIfDone(d) ==
  LET r == driver[d].snap
  IN IF driver[d].ended = "done" THEN Append(r.log, Attempt(r.head, r.asked))
     ELSE r.log
Logged(d) ==
  LET r == driver[d].snap IN Append(r.log, Attempt(r.head, r.asked))

\* reprobeGateAfterHelper, after its hook.
RecordAttempt(d) ==
  /\ driver[d].pc = "recording"
  /\ CasPersist(d, [driver[d].snap EXCEPT !.job = NoJob, !.phase = "checking",
                                          !.log = Logged(d)], "gating")
  /\ UNCHANGED <<jobs, pr, pushed, left>>

FailRun(d) ==
  /\ driver[d].pc = "failing"
  /\ To(d, "idle")
  /\ IF run.status = "running"
     THEN run' = [run EXCEPT !.status = "failed"] /\ fresh' = {}
     ELSE UNCHANGED <<run, fresh>>
  /\ UNCHANGED <<jobs, pr, pushed, left>>

Crash(d) ==
  /\ driver[d].pc \notin {"idle", "gating"} /\ Spend("crashes")
  /\ To(d, "idle")
  /\ fresh' = fresh \ {d}
  /\ UNCHANGED <<jobs, pr, run, pushed>>

\* requestHumanReviewFix, which a failed run's gate still takes; a second
\* request replaces one not yet consumed.
RequestFix(p) ==
  /\ run.status # "done"
  /\ Spend("fixes")
  /\ run' = [run EXCEPT !.fix = {p}]
  /\ fresh' = {}
  /\ UNCHANGED <<jobs, pr, driver, pushed>>

---------------------------------------------------------------------------

DriverStep(d) ==
  \/ Evaluate(d)  \/ ConsumeFix(d)   \/ Probe(d)    \/ KeepWaiting(d)
  \/ PassGate(d)  \/ OpenDispatch(d) \/ StartJob(d) \/ RecordDispatch(d)
  \/ PollJob(d)   \/ HelperComplete(d) \/ RecordAttempt(d) \/ FailRun(d)

DriverTrouble(d) ==
  ProbeUnread(d) \/ StartRefused(d) \/ HelperUnread(d) \/ Rearm(d) \/ Crash(d)

PeopleStep ==
  \/ Approval
  \/ \E t \in Threads : CommentOnThread(t) \/ CloseThread(t)
  \/ \E p \in Prompts : RequestFix(p)

Next == \/ \E d \in Drivers : DriverStep(d) \/ DriverTrouble(d)
        \/ \E id \in DOMAIN jobs : FixerPushes(id) \/ FixerSettles(id)
        \/ ContainerGone \/ PeopleStep

Spec == Init /\ [][Next]_vars

\* The drives keep going and the harness's watchdogs bound a job; people and
\* faults owe nothing.
Fairness ==
  /\ \A d \in Drivers : WF_vars(DriverStep(d))
  /\ WF_vars(\E id \in DOMAIN jobs : FixerSettles(id))

FairSpec == Spec /\ Fairness

---------------------------------------------------------------------------

Pcs == Resting \cup {"consuming", "probing", "waiting", "passing", "opening",
                     "starting", "accepted", "polling", "completing",
                     "recording"}

TypeOK ==
  LET Logs == UNION {[1 .. n -> [head : Heads, asked : SUBSET Items]] :
                       n \in Epochs}
  IN /\ DOMAIN jobs \subseteq Epochs
     /\ \A id \in DOMAIN jobs : jobs[id] \in JobEntry
     /\ pr \in PrType
     /\ run \in RunType(Logs)
     /\ fresh \subseteq Drivers
     /\ DOMAIN driver = Drivers
     /\ \A d \in Drivers :
          /\ driver[d].pc \in Pcs
          /\ driver[d].via \in {"advance", "poll"}
          /\ driver[d].snap \in RunType(Logs)
          /\ driver[d].pc = "polling" => driver[d].snap.job \in Epochs
          /\ driver[d].brief \subseteq Items
          /\ driver[d].ended \in {"done", "failed"}
     /\ pushed \subseteq Items

\* Every round the gate counted is in flight or in its log, once, however the
\* helper ended and whoever wrote in between (recordGateAttempt).
EveryRoundIsLogged ==
  run.count = Len(run.log) + (IF run.job = NoJob THEN 0 ELSE 1)

\* The gate never sends the fixer again, of its own accord, at the head the
\* round before it failed to move (the probe's backoff).
NoHotLoop ==
  \A k \in 2 .. Len(run.log) :
    run.log[k].asked \cap Prompts = {} =>
      run.log[k].head # run.log[k - 1].head

\* A fix a person asked for is never passed over nor overwritten: nothing takes
\* it off the row but the drive that goes on to dispatch it, whatever was about
\* to be written when it arrived (mutateInstance, casPersist).
RequestIsNotPassedOver ==
  [][run.fix # {} /\ run.fix # run'.fix
       => \/ run'.fix # {}
          \/ \E d \in Drivers :
               driver[d].brief = run.fix /\ driver'[d].pc = "opening"]_vars

\* The gate never stays at work: again and again it is over, or waits for a
\* person to approve or to look at a round that moved nothing, however its
\* helpers ended or were lost (reprobeGateAfterHelper).
GateComesToRest ==
  []<>(\/ run.status # "running"
       \/ /\ run.job = NoJob /\ run.fix = {}
          /\ ~pr.approved \/ Stalled(run))

\* A thread the gate resolved was handed to a round that pushed: an approved
\* pull request does not advance with feedback nobody addressed
\* (onHelperComplete).
FeedbackIsAddressed ==
  run.status = "done" =>
    \A t \in Threads : pr.thread[t] = "resolved" => t \in pushed

\* What the step says its helper was handed is what the helper was handed
\* (lastDispatchedInstructions).
RecordedIsHanded ==
  run.job # NoJob /\ Holds(run.job) => jobs[run.job].brief = run.asked
=============================================================================
