--------------------------- MODULE ReviewGateProofs ---------------------------
(***************************************************************************)
(* Theorems about ReviewGate, for every pull request, every number of      *)
(* requests and every bound.                                               *)
(*                                                                         *)
(* A gate's log has one entry for each round, and the head a round began   *)
(* at pays for it unless a person asked for it: that bounds the epochs,    *)
(* so no dispatch ever re-uses a job of an earlier round.                  *)
(***************************************************************************)
EXTENDS ReviewGate, TLAPS

\* The hypothesis of what is said of accounts and bounds: the run has one drive.
\* With two, one whose gate polls ran out sets the gate to checking beside the
\* helper the other dispatched (Rearm); the next advance sends a second helper,
\* and the first round is never logged.
OneDrive == \A d, e \in Drivers : d = e

-----------------------------------------------------------------------------
(* The inductive invariants. *)

Round == [head : Heads, asked : SUBSET Items]
Row == [status : {"running", "done", "failed"}, phase : {"checking", "working"},
        job : Nat, count : Nat, head : Heads, handed : SUBSET Threads,
        fix : SUBSET Prompts, asked : SUBSET Items, log : Seq(Round)]
DriveType == [pc : Pcs, via : {"advance", "poll"}, snap : Row,
              brief : SUBSET Items, ended : {"done", "failed"}]
FixerJob == [state : {"running", "done", "failed"}, brief : SUBSET Items,
             buffer : SUBSET Items]

EnvInv ==
  /\ jobs \in [DOMAIN jobs -> FixerJob]
  /\ pr \in PrType
  /\ pushed \in SUBSET Items
  /\ left \in [{"reviews", "fixes", "faults", "crashes"} -> Nat]
  /\ left.fixes <= MaxFixes

\* The head the round before began at.
LastHead(log) == IF log = <<>> THEN 0 ELSE log[Len(log)].head
Asked(items)  == items \cap Prompts # {}

\* Nobody asked for the round in flight: it began at a head of its own.
RowOK(r) ==
  /\ LastHead(r.log) <= r.head
  /\ r.job # NoJob => Asked(r.asked) \/ LastHead(r.log) < r.head

Dispatching == {"opening", "starting", "accepted"}
Attending   == {"polling", "completing", "recording"}

\* A copy at the row's revision is the row, but for what a probe read since.
SameRow(r) ==
  /\ r.phase = run.phase /\ r.job = run.job /\ r.count = run.count
  /\ r.fix = run.fix /\ r.asked = run.asked /\ r.log = run.log
  /\ run.head <= r.head
FreshOK(v) ==
  /\ v.pc \notin Resting /\ SameRow(v.snap)
  /\ v.pc = "consuming" => v.brief = run.fix /\ Asked(v.brief)
  /\ v.pc \in Dispatching => Asked(v.brief) \/ LastHead(run.log) < v.snap.head
  /\ v.pc \in Attending => run.job # NoJob

\* No head is read before it is on the branch.
RunInv ==
  /\ run \in Row /\ fresh \in SUBSET Drivers /\ driver \in [Drivers -> DriveType]
  /\ RowOK(run) /\ run.head <= pr.head
  /\ \A d \in Drivers : driver[d].snap.head <= pr.head
  /\ \A d \in fresh : FreshOK(driver[d])

GateInv == EnvInv /\ RunInv

\* The one drive dispatches for a gate that has no helper, and polls a helper
\* as the step's job, not as the gate.
Unattached == Dispatching \cup {"gating", "consuming", "probing", "waiting", "passing"}
DriveOK(r, v) == /\ v.pc \in Unattached => r.job = NoJob
                 /\ v.pc \in Attending => v.via = "advance"

\* A request not dispatched yet is on the row, in a drive or in a job's brief;
\* every round not begun at a new head has used one up.
Waiting(r) == IF r.fix # {} THEN 1 ELSE 0
Working(r) == IF r.job # NoJob /\ Asked(r.asked) THEN 1 ELSE 0
Carried(v) == IF v.pc \in Dispatching /\ Asked(v.brief) THEN 1 ELSE 0
Requests   == MaxFixes - left.fixes
Affords(r, carried) ==
  Len(r.log) + Waiting(r) + Working(r) + carried <= LastHead(r.log) + Requests

Fits(r) == r.job \in Epochs \cup {NoJob} /\ r.count \in Epochs /\ Len(r.log) \in Epochs
RowFits(r) ==
  /\ r.count = Len(r.log) + (IF r.job = NoJob THEN 0 ELSE 1)
  /\ r.phase = "checking" => r.job = NoJob
  /\ Affords(r, 0) /\ Fits(r)
Works(r, v) ==
  /\ DriveOK(r, v) /\ Affords(r, Carried(v))
  /\ Fits(v.snap) /\ (v.pc \in Attending => v.snap.job # NoJob)
SoloInv ==
  /\ RowFits(run) /\ \A d \in Drivers : Works(run, driver[d])
  /\ DOMAIN jobs \in SUBSET Epochs

-----------------------------------------------------------------------------
(* The constants, rows and drives. *)

LEMMA Bounds ==
  /\ Prompts \in SUBSET Items /\ Threads \in SUBSET Items /\ Threads \cap Prompts = {}
  /\ MaxHead \in Nat /\ MaxHead > 0 /\ MaxFixes \in Nat
  /\ MaxReviews \in Nat /\ MaxFaults \in Nat /\ MaxCrashes \in Nat
  /\ Heads \in SUBSET Nat /\ 0 \in Heads /\ 1 \in Heads
  /\ Epochs \in SUBSET Nat /\ NoJob \in Nat /\ NoJob \notin Epochs
BY GateAssumption DEF GateAssumption, Threads, Heads, Epochs, NoJob

LEMMA RowFields ==
  ASSUME NEW r \in Row
  PROVE  /\ r.status \in {"running", "done", "failed"}
         /\ r.phase \in {"checking", "working"}
         /\ r.job \in Nat /\ r.count \in Nat /\ r.head \in Heads /\ r.head \in Nat
         /\ r.handed \in SUBSET Threads /\ r.fix \in SUBSET Prompts
         /\ r.asked \in SUBSET Items /\ r.log \in Seq(Round) /\ Len(r.log) \in Nat
<1>1. /\ r.status \in {"running", "done", "failed"}
      /\ r.phase \in {"checking", "working"}
      /\ r.job \in Nat /\ r.count \in Nat /\ r.head \in Heads
      /\ r.handed \in SUBSET Threads /\ r.fix \in SUBSET Prompts
      /\ r.asked \in SUBSET Items /\ r.log \in Seq(Round)
  BY DEF Row
<1>2. r.head \in Nat
  BY <1>1, Bounds
<1>3. Len(r.log) \in Nat
  BY <1>1
<1>. QED
  BY <1>1, <1>2, <1>3

LEMMA DriveFields ==
  ASSUME NEW v \in DriveType
  PROVE  /\ v.pc \in Pcs /\ v.via \in {"advance", "poll"} /\ v.snap \in Row
         /\ v.brief \in SUBSET Items /\ v.ended \in {"done", "failed"}
BY DEF DriveType

LEMMA NewRunTyped == NewRun \in Row /\ Idle \in DriveType
<1>1. NewRun \in Row
  BY Bounds DEF NewRun, Row
<1>. QED
  BY <1>1 DEF Idle, DriveType, Pcs, Resting

LEMMA LastHeads ==
  ASSUME NEW log \in Seq(Round)
  PROVE  LastHead(log) \in Heads /\ LastHead(log) \in Nat
<1>1. CASE log = <<>>
  BY <1>1, Bounds DEF LastHead
<1>2. CASE log # <<>>
  <2>1. Len(log) \in 1 .. Len(log)
    BY <1>2
  <2>2. log[Len(log)] \in Round
    BY <2>1
  <2>. QED
    BY <1>2, <2>2, Bounds DEF LastHead, Round
<1>. QED
  BY <1>1, <1>2

LEMMA LoggedLast ==
  ASSUME NEW log \in Seq(Round), NEW head \in Heads, NEW asked \in SUBSET Items
  PROVE  /\ Append(log, Attempt(head, asked)) \in Seq(Round)
         /\ Len(Append(log, Attempt(head, asked))) = Len(log) + 1
         /\ LastHead(Append(log, Attempt(head, asked))) = head
<1>1. Attempt(head, asked) \in Round
  BY DEF Attempt, Round
<1>2. /\ Append(log, Attempt(head, asked)) \in Seq(Round)
      /\ Len(Append(log, Attempt(head, asked))) = Len(log) + 1
      /\ Append(log, Attempt(head, asked))[Len(log) + 1] = Attempt(head, asked)
      /\ Append(log, Attempt(head, asked)) # <<>>
  BY <1>1
<1>3. Attempt(head, asked).head = head
  BY DEF Attempt
<1>. QED
  BY <1>2, <1>3 DEF LastHead

-----------------------------------------------------------------------------
(* The provider, its people and the fixer. *)

LEMMA PrFields ==
  ASSUME NEW p \in PrType
  PROVE  /\ p.head \in Heads /\ p.head \in Nat /\ p.head > 0
         /\ p.approved \in BOOLEAN
         /\ p.thread \in [Threads -> {"absent", "open", "closed", "resolved"}]
<1>1. /\ p.head \in Heads \ {0} /\ p.approved \in BOOLEAN
      /\ p.thread \in [Threads -> {"absent", "open", "closed", "resolved"}]
  BY DEF PrType
<1>2. p.head \in Nat /\ p.head # 0
  BY <1>1, Bounds
<1>. QED
  BY <1>1, <1>2

LEMMA SpendFacts ==
  ASSUME EnvInv, NEW what \in {"reviews", "fixes", "faults", "crashes"}, Spend(what)
  PROVE  /\ left' \in [{"reviews", "fixes", "faults", "crashes"} -> Nat]
         /\ left'.fixes = left.fixes - (IF what = "fixes" THEN 1 ELSE 0)
         /\ left'.fixes <= left.fixes /\ left'.fixes <= MaxFixes
<1>1. left[what] \in Nat /\ left[what] > 0 /\ left.fixes \in Nat /\ left.fixes <= MaxFixes
  BY DEF EnvInv, Spend
<1>2. left' = [left EXCEPT ![what] = left[what] - 1]
  BY DEF Spend
<1>3. left[what] - 1 \in Nat
  BY <1>1
<1>4. left' \in [{"reviews", "fixes", "faults", "crashes"} -> Nat]
  BY <1>2, <1>3 DEF EnvInv
<1>5. left'.fixes = left.fixes - (IF what = "fixes" THEN 1 ELSE 0)
  BY <1>1, <1>2 DEF EnvInv
<1>. QED
  BY <1>1, <1>4, <1>5, Bounds

\* A step of the provider's side or the fixer's moves no head back.
EnvStep ==
  /\ EnvInv' /\ pr.head <= pr'.head /\ left'.fixes <= left.fixes

LEMMA FaultFacts ==
  ASSUME EnvInv, Fault \/ NoFault
  PROVE  /\ left' \in [{"reviews", "fixes", "faults", "crashes"} -> Nat]
         /\ left'.fixes = left.fixes /\ left'.fixes <= MaxFixes
<1>1. CASE Fault
  <2>1. Spend("faults")
    BY <1>1 DEF Fault
  <2>. QED
    BY <2>1, SpendFacts DEF EnvInv
<1>2. CASE NoFault
  BY <1>2 DEF NoFault, EnvInv
<1>. QED
  BY <1>1, <1>2

LEMMA ResolveFacts ==
  ASSUME EnvInv, NEW named \in SUBSET Threads, NEW landed,
         ResolveThreads(named, landed)
  PROVE  /\ pr' \in PrType /\ pr'.head = pr.head /\ pr'.approved = pr.approved
         /\ Fault \/ NoFault
<1>1. pr \in PrType /\ pr' = ResolvedThreads(landed)
  BY DEF EnvInv, ResolveThreads
<1>2. [t \in Threads |->
         IF t \in landed /\ pr.thread[t] = "open" THEN "resolved" ELSE pr.thread[t]]
        \in [Threads -> {"absent", "open", "closed", "resolved"}]
  BY <1>1, PrFields
<1>. QED
  BY <1>1, <1>2 DEF ResolvedThreads, PrType, ResolveThreads

LEMMA EnvUnchanged ==
  ASSUME EnvInv, jobs' = jobs, pr' = pr, pushed' = pushed, Fault \/ NoFault
  PROVE  EnvStep /\ left'.fixes = left.fixes
<1>1. /\ left' \in [{"reviews", "fixes", "faults", "crashes"} -> Nat]
      /\ left'.fixes = left.fixes /\ left'.fixes <= MaxFixes
  BY FaultFacts
<1>2. left.fixes \in Nat /\ pr.head \in Nat
  BY PrFields DEF EnvInv
<1>. QED
  BY <1>1, <1>2 DEF EnvStep, EnvInv

LEMMA StartedFacts ==
  ASSUME EnvInv, NEW id, NEW brief \in SUBSET Items, jobs' = Started(id, brief)
  PROVE  /\ jobs' \in [DOMAIN jobs' -> FixerJob]
         /\ DOMAIN jobs' = DOMAIN jobs \cup {id}
<1>1. CASE Holds(id)
  BY <1>1 DEF Holds, Started, EnvInv
<1>2. CASE ~Holds(id)
  <2>1. [state |-> "running", brief |-> brief, buffer |-> {}] \in FixerJob
    BY DEF FixerJob
  <2>2. jobs' = [x \in DOMAIN jobs \cup {id} |->
                   IF x = id THEN [state |-> "running", brief |-> brief, buffer |-> {}]
                   ELSE jobs[x]]
    BY <1>2 DEF Started
  <2>. QED
    BY <2>1, <2>2 DEF EnvInv
<1>. QED
  BY <1>1, <1>2

\* What a drive does to the provider, the registry and the bounds.
LEMMA DriverEnv ==
  ASSUME GateInv, NEW d \in Drivers, DriverStep(d) \/ DriverTrouble(d)
  PROVE  EnvStep /\ left'.fixes = left.fixes
<1>1. /\ EnvInv /\ pr \in PrType /\ driver[d] \in DriveType
      /\ left.fixes \in Nat
  BY DEF GateInv, EnvInv, RunInv
<1>2. pr.head \in Nat /\ driver[d].snap \in Row
  BY <1>1, PrFields, DriveFields
<1>3. CASE \/ Evaluate(d) \/ ConsumeFix(d) \/ KeepWaiting(d) \/ PassGate(d)
           \/ OpenDispatch(d) \/ RecordDispatch(d) \/ PollJob(d)
           \/ RecordAttempt(d) \/ FailRun(d) \/ Rearm(d)
           \/ ProbeUnread(d) \/ StartRefused(d) \/ HelperUnread(d)
  <2>1. jobs' = jobs /\ pr' = pr /\ pushed' = pushed /\ (Fault \/ NoFault)
    BY <1>3 DEF Evaluate, ConsumeFix, KeepWaiting, PassGate, OpenDispatch,
         RecordDispatch, PollJob, RecordAttempt, FailRun, Rearm, ProbeUnread,
         StartRefused, HelperUnread, NoFault
  <2>. QED
    BY <1>1, <2>1, EnvUnchanged
<1>4. CASE Probe(d)
  <2>1. PICK landed : ResolveThreads(driver[d].snap.handed \cap OpenThreads, landed)
    BY <1>4 DEF Probe
  <2>2. driver[d].snap.handed \cap OpenThreads \in SUBSET Threads
    BY DEF OpenThreads
  <2>3. pr' \in PrType /\ pr'.head = pr.head /\ (Fault \/ NoFault)
    BY <1>1, <2>1, <2>2, ResolveFacts
  <2>4. jobs' = jobs /\ pushed' = pushed
    BY <1>4 DEF Probe
  <2>. QED
    BY <1>1, <1>2, <2>3, <2>4, FaultFacts DEF EnvStep, EnvInv
<1>5. CASE HelperComplete(d)
  <2>1. /\ pr' \in PrType /\ pr'.head = pr.head /\ (Fault \/ NoFault)
    <3>1. CASE /\ driver[d].ended = "done" /\ driver[d].snap.handed # {}
               /\ Progressed(driver[d].snap)
      <4>1. PICK landed : ResolveThreads(driver[d].snap.handed, landed)
        BY <1>5, <3>1 DEF HelperComplete
      <4>. QED
        BY <1>1, <1>2, <4>1, RowFields, ResolveFacts
    <3>2. CASE ~(/\ driver[d].ended = "done" /\ driver[d].snap.handed # {}
                 /\ Progressed(driver[d].snap))
      BY <1>1, <1>5, <3>2 DEF HelperComplete
    <3>. QED
      BY <3>1, <3>2
  <2>2. jobs' = jobs /\ pushed' = pushed
    BY <1>5 DEF HelperComplete
  <2>. QED
    BY <1>1, <1>2, <2>1, <2>2, FaultFacts DEF EnvStep, EnvInv
<1>6. CASE StartJob(d)
  <2>1. jobs' \in [DOMAIN jobs' -> FixerJob]
    BY <1>1, <1>6, DriveFields, StartedFacts DEF StartJob
  <2>2. pr' = pr /\ pushed' = pushed /\ left' = left
    BY <1>6 DEF StartJob
  <2>. QED
    BY <1>1, <1>2, <2>1, <2>2 DEF EnvStep, EnvInv
<1>7. CASE Crash(d)
  <2>1. jobs' = jobs /\ pr' = pr /\ pushed' = pushed /\ Spend("crashes")
    BY <1>7 DEF Crash
  <2>2. /\ left' \in [{"reviews", "fixes", "faults", "crashes"} -> Nat]
        /\ left'.fixes = left.fixes /\ left'.fixes <= MaxFixes
    BY <1>1, <2>1, SpendFacts
  <2>. QED
    BY <1>1, <1>2, <2>1, <2>2 DEF EnvStep, EnvInv
<1>. QED
  BY <1>3, <1>4, <1>5, <1>6, <1>7 DEF DriverStep, DriverTrouble

\* What the fixer and the people do.
LEMMA OthersEnv ==
  ASSUME GateInv,
         \/ \E id \in DOMAIN jobs : FixerPushes(id) \/ FixerSettles(id)
         \/ ContainerGone \/ PeopleStep
  PROVE  EnvStep
<1>1. EnvInv /\ pr \in PrType /\ left.fixes \in Nat
  BY DEF GateInv, EnvInv
<1>2. pr.head \in Nat /\ pr.head \in Heads /\ pr.head > 0
  BY <1>1, PrFields
<1>3. ASSUME NEW id \in DOMAIN jobs, FixerPushes(id)
      PROVE  EnvStep
  <2>1. pr.head + 1 \in Heads \ {0}
    BY <1>2, <1>3, Bounds DEF FixerPushes, Heads
  <2>2. pr' \in PrType /\ pr'.head = pr.head + 1
    BY <1>1, <1>3, <2>1 DEF FixerPushes, PrType
  <2>3. pushed' \in SUBSET Items
    BY <1>1, <1>3 DEF FixerPushes, EnvInv, FixerJob
  <2>4. jobs' = jobs /\ left' = left
    BY <1>3 DEF FixerPushes
  <2>. QED
    BY <1>1, <1>2, <2>2, <2>3, <2>4 DEF EnvStep, EnvInv
<1>4. ASSUME NEW id \in DOMAIN jobs, FixerSettles(id)
      PROVE  EnvStep
  <2>1. PICK state \in {"done", "failed"} : jobs' = [jobs EXCEPT ![id].state = state]
    BY <1>4 DEF FixerSettles, Settle
  <2>2. [jobs[id] EXCEPT !.state = state] \in FixerJob
    BY <1>1, <1>4 DEF EnvInv, FixerJob
  <2>3. jobs' \in [DOMAIN jobs' -> FixerJob]
    BY <1>1, <1>4, <2>1, <2>2 DEF EnvInv
  <2>4. pr' = pr /\ pushed' = pushed /\ left' = left
    BY <1>4 DEF FixerSettles
  <2>. QED
    BY <1>1, <1>2, <2>3, <2>4 DEF EnvStep, EnvInv
<1>5. CASE ContainerGone
  <2>1. jobs' \in [DOMAIN jobs' -> FixerJob]
    BY <1>5 DEF ContainerGone, Evict, NoJobs
  <2>2. pr' = pr /\ pushed' = pushed /\ left' = left
    BY <1>5 DEF ContainerGone
  <2>. QED
    BY <1>1, <1>2, <2>1, <2>2 DEF EnvStep, EnvInv
<1>6. CASE Approval
  <2>1. pr' \in PrType /\ pr'.head = pr.head
    BY <1>1, <1>6 DEF Approval, PrType
  <2>2. jobs' = jobs /\ pushed' = pushed /\ Spend("reviews")
    BY <1>6 DEF Approval
  <2>. QED
    BY <1>1, <1>2, <2>1, <2>2, SpendFacts DEF EnvStep, EnvInv
<1>7. ASSUME NEW t \in Threads, CommentOnThread(t) \/ CloseThread(t)
      PROVE  EnvStep
  <2>1. pr' \in PrType /\ pr'.head = pr.head
    BY <1>1, <1>7 DEF CommentOnThread, CloseThread, PrType
  <2>2. jobs' = jobs /\ Spend("reviews") /\ pushed' \in SUBSET Items
    BY <1>1, <1>7 DEF CommentOnThread, CloseThread, EnvInv
  <2>. QED
    BY <1>1, <1>2, <2>1, <2>2, SpendFacts DEF EnvStep, EnvInv
<1>8. ASSUME NEW p \in Prompts, RequestFix(p)
      PROVE  EnvStep
  <2>1. jobs' = jobs /\ pr' = pr /\ pushed' = pushed /\ Spend("fixes")
    BY <1>8 DEF RequestFix
  <2>. QED
    BY <1>1, <1>2, <2>1, SpendFacts DEF EnvStep, EnvInv
<1>. QED
  BY <1>3, <1>4, <1>5, <1>6, <1>7, <1>8 DEF PeopleStep

-----------------------------------------------------------------------------
(* Drives and writes. *)

LEMMA GateFacts ==
  ASSUME GateInv
  PROVE  /\ run \in Row /\ pr \in PrType /\ pr.head \in Nat /\ pr.head > 0
         /\ fresh \in SUBSET Drivers /\ driver \in [Drivers -> DriveType]
         /\ \A d \in Drivers : driver[d] \in DriveType /\ driver[d].snap \in Row
         /\ left.fixes \in Nat /\ left.fixes <= MaxFixes
<1>1. /\ run \in Row /\ pr \in PrType
      /\ fresh \in SUBSET Drivers /\ driver \in [Drivers -> DriveType]
      /\ left.fixes \in Nat /\ left.fixes <= MaxFixes
  BY DEF GateInv, EnvInv, RunInv
<1>2. \A d \in Drivers : driver[d] \in DriveType /\ driver[d].snap \in Row
  BY <1>1, DriveFields
<1>. QED
  BY <1>1, <1>2, PrFields

LEMMA AtFacts ==
  ASSUME GateInv, NEW d \in Drivers, NEW pc \in Pcs
  PROVE  /\ At(d, pc) \in DriveType /\ At(d, pc).pc = pc
         /\ pc \in Resting => At(d, pc) = [Idle EXCEPT !.pc = pc]
         /\ pc \notin Resting => At(d, pc) = [driver[d] EXCEPT !.pc = pc]
         /\ At(d, pc).snap.head <= driver[d].snap.head
<1>1. driver[d] \in DriveType /\ driver[d].snap.head \in Nat
  BY GateFacts, RowFields
<1>2. CASE pc \in Resting
  <2>1. At(d, pc) = [Idle EXCEPT !.pc = pc]
    BY <1>2 DEF At
  <2>2. At(d, pc) \in DriveType /\ At(d, pc).pc = pc /\ At(d, pc).snap = NewRun
    BY <2>1, NewRunTyped DEF DriveType, Idle
  <2>3. NewRun.head = 0
    BY DEF NewRun
  <2>. QED
    BY <1>1, <1>2, <2>1, <2>2, <2>3
<1>3. CASE pc \notin Resting
  <2>1. At(d, pc) = [driver[d] EXCEPT !.pc = pc]
    BY <1>3 DEF At
  <2>2. At(d, pc) \in DriveType /\ At(d, pc).pc = pc /\ At(d, pc).snap = driver[d].snap
    BY <1>1, <2>1 DEF DriveType
  <2>. QED
    BY <1>1, <1>3, <2>1, <2>2
<1>. QED
  BY <1>2, <1>3

\* A drive goes on; the row stays.
LEMMA DriveMoves ==
  ASSUME GateInv, EnvStep, NEW d \in Drivers, NEW v \in DriveType, run' = run,
         driver' = [driver EXCEPT ![d] = v], fresh' \in SUBSET (fresh \cup {d}),
         v.snap.head <= pr'.head, d \in fresh' => FreshOK(v)
  PROVE  RunInv'
<1>1. pr.head \in Nat /\ pr'.head \in Nat /\ pr.head <= pr'.head /\ run.head \in Nat
  BY GateFacts, RowFields, PrFields DEF EnvStep, EnvInv
<1>2. driver' \in [Drivers -> DriveType] /\ driver'[d] = v
      /\ \A e \in Drivers : e # d => driver'[e] = driver[e]
  BY GateFacts
<1>3. run' \in Row /\ fresh' \in SUBSET Drivers
  BY GateFacts
<1>4. RowOK(run)' /\ run'.head <= pr'.head
  <2>1. RowOK(run) /\ run.head <= pr.head
    BY DEF GateInv, RunInv
  <2>. QED
    BY <1>1, <2>1 DEF RowOK
<1>5. ASSUME NEW e \in Drivers PROVE driver'[e].snap.head <= pr'.head
  <2>1. driver[e].snap.head \in Nat /\ driver[e].snap.head <= pr.head
    BY GateFacts, RowFields DEF GateInv, RunInv
  <2>. QED
    BY <1>1, <1>2, <2>1
<1>6. ASSUME NEW e \in fresh' PROVE FreshOK(driver[e])'
  <2>1. CASE e = d
    BY <1>2, <1>6, <2>1 DEF FreshOK, SameRow
  <2>2. CASE e # d
    <3>1. e \in fresh /\ e \in Drivers
      BY <1>6, <2>2, GateFacts
    <3>2. FreshOK(driver[e])
      BY <3>1 DEF GateInv, RunInv
    <3>. QED
      BY <1>2, <2>2, <3>1, <3>2 DEF FreshOK, SameRow
  <2>. QED
    BY <2>1, <2>2
<1>. QED
  BY <1>2, <1>3, <1>4, <1>5, <1>6 DEF RunInv

\* A drive's write is the row, and the drive's copy the only one at its revision.
LEMMA RowWritten ==
  ASSUME GateInv, EnvStep, NEW d \in Drivers, NEW r \in Row, NEW v \in DriveType,
         run' = r, driver' = [driver EXCEPT ![d] = v], fresh' \in SUBSET {d},
         RowOK(r), r.head <= pr'.head, v.snap.head <= pr'.head,
         d \in fresh' => /\ v.snap = r /\ v.pc \in {"opening", "starting"}
                         /\ Asked(v.brief) \/ LastHead(r.log) < r.head
  PROVE  RunInv'
<1>1. pr.head \in Nat /\ pr'.head \in Nat /\ pr.head <= pr'.head /\ r.head \in Nat
  BY GateFacts, RowFields, PrFields DEF EnvStep, EnvInv
<1>2. driver' \in [Drivers -> DriveType] /\ driver'[d] = v
      /\ \A e \in Drivers : e # d => driver'[e] = driver[e]
  BY GateFacts
<1>3. run' \in Row /\ fresh' \in SUBSET Drivers
  OBVIOUS
<1>4. RowOK(run)' /\ run'.head <= pr'.head
  BY DEF RowOK
<1>5. ASSUME NEW e \in Drivers PROVE driver'[e].snap.head <= pr'.head
  <2>1. driver[e].snap.head \in Nat /\ driver[e].snap.head <= pr.head
    BY GateFacts, RowFields DEF GateInv, RunInv
  <2>. QED
    BY <1>1, <1>2, <2>1
<1>6. ASSUME NEW e \in fresh' PROVE FreshOK(driver[e])'
  <2>1. e = d /\ driver'[e] = v
    BY <1>2
  <2>2. v.snap = r /\ v.pc \in {"opening", "starting"}
    BY <1>6, <2>1
  <2>3. Asked(v.brief) \/ LastHead(r.log) < r.head
    BY <1>6, <2>1
  <2>. QED
    BY <1>1, <2>1, <2>2, <2>3
       DEF FreshOK, SameRow, Resting, Dispatching, Attending
<1>. QED
  BY <1>2, <1>3, <1>4, <1>5, <1>6 DEF RunInv

LEMMA WriteKeeps ==
  ASSUME GateInv, EnvStep, NEW d \in Drivers, NEW r \in Row,
         NEW pc \in Resting \cup {"opening", "starting"}, Writes(d, r, pc),
         RowOK(r), r.head = driver[d].snap.head,
         pc \in Resting \/ Asked(driver[d].brief) \/ LastHead(r.log) < r.head
  PROVE  RunInv'
<1>1. /\ pc \in Pcs /\ r.head \in Nat /\ pr.head \in Nat /\ pr'.head \in Nat
      /\ pr.head <= pr'.head
  BY GateFacts, RowFields, PrFields DEF EnvStep, EnvInv, Pcs
<1>2. driver[d].snap.head <= pr.head
  BY DEF GateInv, RunInv
<1>3. r.head <= pr'.head
  BY <1>1, <1>2
<1>4. /\ At(d, pc) \in DriveType /\ At(d, pc).pc = pc
      /\ pc \in Resting => At(d, pc) = [Idle EXCEPT !.pc = pc]
      /\ pc \notin Resting => At(d, pc) = [driver[d] EXCEPT !.pc = pc]
      /\ At(d, pc).snap.head <= driver[d].snap.head
      /\ At(d, pc).snap.head \in Nat
  BY <1>1, AtFacts, DriveFields, RowFields
<1>5. CASE pc \in Resting
  <2>1. /\ run' = r /\ fresh' = {} /\ driver' = [driver EXCEPT ![d] = At(d, pc)]
    BY <1>5 DEF Writes
  <2>2. At(d, pc).snap.head <= pr'.head
    BY <1>1, <1>3, <1>4
  <2>. QED
    BY <1>3, <1>4, <2>1, <2>2, RowWritten
<1>6. CASE pc \notin Resting
  <2>1. PICK v : v = [At(d, pc) EXCEPT !.snap = r]
    OBVIOUS
  <2>2. /\ run' = r /\ fresh' = {d} /\ driver' = [driver EXCEPT ![d] = v]
    BY <1>6, <2>1 DEF Writes
  <2>3. /\ v \in DriveType /\ v.pc = pc /\ v.snap = r /\ v.brief = driver[d].brief
    BY <1>4, <1>6, <2>1 DEF DriveType
  <2>. QED
    BY <1>3, <1>6, <2>2, <2>3, RowWritten
<1>. QED
  BY <1>5, <1>6

LEMMA RestKeeps ==
  ASSUME GateInv, EnvStep, NEW d \in Drivers, NEW pc \in Resting, To(d, pc),
         run' = run, fresh' \in SUBSET fresh, d \notin fresh'
  PROVE  RunInv'
<1>1. /\ pc \in Pcs /\ pr.head \in Nat /\ pr'.head \in Nat /\ pr.head <= pr'.head
      /\ driver[d].snap.head \in Nat /\ driver[d].snap.head <= pr.head
  BY GateFacts, RowFields, PrFields DEF EnvStep, EnvInv, Pcs, GateInv, RunInv
<1>2. /\ At(d, pc) \in DriveType /\ At(d, pc).snap.head <= driver[d].snap.head
      /\ At(d, pc).snap.head \in Nat
  BY <1>1, AtFacts, DriveFields, RowFields
<1>3. driver' = [driver EXCEPT ![d] = At(d, pc)] /\ fresh' \in SUBSET (fresh \cup {d})
  BY DEF To
<1>4. PICK v : v = At(d, pc)
  OBVIOUS
<1>5. v \in DriveType /\ v.snap.head <= pr'.head /\ driver' = [driver EXCEPT ![d] = v]
  BY <1>1, <1>2, <1>3, <1>4
<1>. QED
  BY <1>3, <1>5, DriveMoves

LEMMA CasKeeps ==
  ASSUME GateInv, EnvStep, NEW d \in Drivers, NEW r \in Row,
         NEW pc \in Resting \cup {"opening", "starting"}, CasPersist(d, r, pc),
         r.head = driver[d].snap.head,
         FreshOK(driver[d]) =>
           /\ RowOK(r)
           /\ pc \in Resting \/ Asked(driver[d].brief) \/ LastHead(r.log) < r.head
  PROVE  RunInv'
<1>1. CASE IsCurrent(d) /\ Writes(d, r, pc)
  <2>1. FreshOK(driver[d])
    BY <1>1 DEF IsCurrent, GateInv, RunInv
  <2>. QED
    BY <1>1, <2>1, WriteKeeps
<1>2. CASE ~IsCurrent(d) /\ StartsOver(d)
  <2>1. PICK rest \in {"idle", "gating"} : To(d, rest)
    BY <1>2 DEF StartsOver
  <2>2. rest \in Resting /\ run' = run /\ fresh' = fresh /\ d \notin fresh
    BY <1>2 DEF StartsOver, IsCurrent, Resting
  <2>. QED
    BY <2>1, <2>2, RestKeeps
<1>. QED
  BY <1>1, <1>2 DEF CasPersist

-----------------------------------------------------------------------------
(* The actions of a drive. *)

LEMMA EvaluateKeeps ==
  ASSUME GateInv, EnvStep, NEW d \in Drivers, Evaluate(d)
  PROVE  RunInv'
<1>1. PICK via \in {"advance", "poll"}, pc \in {"polling", "consuming", "probing"} :
        /\ pc = "polling" => run.job # NoJob
        /\ pc = "consuming" => run.fix # {}
        /\ driver' = [driver EXCEPT ![d] =
             [Idle EXCEPT !.snap = run, !.via = via, !.brief = run.fix, !.pc = pc]]
        /\ fresh' = fresh \cup {d} /\ run' = run
  BY DEF Evaluate, Attached
<1>2. PICK v : v = [Idle EXCEPT !.snap = run, !.via = via, !.brief = run.fix, !.pc = pc]
  OBVIOUS
<1>3. /\ run \in Row /\ run.fix \in SUBSET Prompts /\ run.head \in Nat /\ pr.head \in Nat
      /\ pr'.head \in Nat /\ pr.head <= pr'.head /\ run.head <= pr.head
  BY GateFacts, RowFields, PrFields DEF GateInv, RunInv, EnvStep, EnvInv
<1>4. /\ v \in DriveType /\ v.snap = run /\ v.brief = run.fix /\ v.pc = pc
  BY <1>2, <1>3, NewRunTyped, Bounds DEF DriveType, Pcs, Idle
<1>5. FreshOK(v)
  <2>1. run.fix # {} => Asked(run.fix)
    BY <1>3 DEF Asked
  <2>. QED
    BY <1>1, <1>3, <1>4, <2>1 DEF FreshOK, SameRow, Resting, Dispatching, Attending
<1>6. v.snap.head <= pr'.head
  BY <1>3, <1>4
<1>. QED
  BY <1>1, <1>2, <1>4, <1>5, <1>6, DriveMoves

LEMMA RearmKeeps ==
  ASSUME GateInv, EnvStep, NEW d \in Drivers, Rearm(d)
  PROVE  RunInv'
<1>1. PICK r : r = [run EXCEPT !.phase = "checking"]
  OBVIOUS
<1>2. PICK v : v = At(d, "idle")
  OBVIOUS
<1>3. run \in Row /\ run.head \in Nat /\ RowOK(run) /\ run.head <= pr.head
  BY GateFacts, RowFields DEF GateInv, RunInv
<1>4. /\ r \in Row /\ r.head = run.head /\ RowOK(r)
  BY <1>1, <1>3 DEF Row, RowOK
<1>5. /\ v \in DriveType /\ v.snap.head \in Nat
      /\ v.snap.head <= driver[d].snap.head
      /\ driver[d].snap.head \in Nat /\ driver[d].snap.head <= pr.head
      /\ pr.head \in Nat /\ pr'.head \in Nat /\ pr.head <= pr'.head
  BY <1>2, AtFacts, GateFacts, DriveFields, RowFields, PrFields
     DEF Pcs, Resting, GateInv, RunInv, EnvStep, EnvInv
<1>6. run' = r /\ fresh' \in SUBSET {d} /\ d \notin fresh' /\ driver' = [driver EXCEPT ![d] = v]
  BY <1>1, <1>2 DEF Rearm, To
<1>7. r.head <= pr'.head /\ v.snap.head <= pr'.head
  BY <1>3, <1>4, <1>5
<1>. QED
  BY <1>4, <1>5, <1>6, <1>7, RowWritten

LEMMA FailRunKeeps ==
  ASSUME GateInv, EnvStep, NEW d \in Drivers, FailRun(d)
  PROVE  RunInv'
<1>1. To(d, "idle") /\ driver[d].pc \in Resting /\ "idle" \in Resting
  BY DEF FailRun, Resting
<1>2. CASE run.status # "running"
  <2>1. d \notin fresh
    BY <1>1 DEF GateInv, RunInv, FreshOK
  <2>2. run' = run /\ fresh' = fresh
    BY <1>2 DEF FailRun
  <2>. QED
    BY <1>1, <2>1, <2>2, RestKeeps
<1>3. CASE run.status = "running"
  <2>1. PICK r : r = [run EXCEPT !.status = "failed"]
    OBVIOUS
  <2>2. PICK v : v = At(d, "idle")
    OBVIOUS
  <2>3. run \in Row /\ run.head \in Nat /\ RowOK(run) /\ run.head <= pr.head
    BY GateFacts, RowFields DEF GateInv, RunInv
  <2>4. /\ r \in Row /\ r.head = run.head /\ RowOK(r)
    BY <2>1, <2>3 DEF Row, RowOK
  <2>5. /\ v \in DriveType /\ v.snap.head \in Nat
        /\ v.snap.head <= driver[d].snap.head
        /\ driver[d].snap.head \in Nat /\ driver[d].snap.head <= pr.head
        /\ pr.head \in Nat /\ pr'.head \in Nat /\ pr.head <= pr'.head
    BY <2>2, AtFacts, GateFacts, DriveFields, RowFields, PrFields
       DEF Pcs, Resting, GateInv, RunInv, EnvStep, EnvInv
  <2>6. /\ run' = r /\ fresh' \in SUBSET {d} /\ d \notin fresh'
        /\ driver' = [driver EXCEPT ![d] = v]
    BY <1>1, <1>3, <2>1, <2>2 DEF FailRun, To
  <2>7. r.head <= pr'.head /\ v.snap.head <= pr'.head
    BY <2>3, <2>4, <2>5
  <2>. QED
    BY <2>4, <2>5, <2>6, <2>7, RowWritten
<1>. QED
  BY <1>2, <1>3

\* What a drive may write of its copy, as long as the copy is the row.
LEMMA SnapFacts ==
  ASSUME GateInv, NEW d \in Drivers
  PROVE  /\ driver[d].snap \in Row /\ driver[d].pc \in Pcs
         /\ FreshOK(driver[d]) => RowOK(driver[d].snap)
         /\ FreshOK(driver[d]) => run.head <= driver[d].snap.head
         /\ FreshOK(driver[d]) => SameRow(driver[d].snap)
<1>1. /\ driver[d].snap \in Row /\ driver[d].pc \in Pcs
  BY GateFacts, DriveFields
<1>2. ASSUME FreshOK(driver[d])
      PROVE  RowOK(driver[d].snap) /\ SameRow(driver[d].snap)
  <2>1. RowOK(run) /\ SameRow(driver[d].snap)
    BY <1>2 DEF GateInv, RunInv, FreshOK
  <2>2. LastHead(run.log) \in Nat /\ run.head \in Nat /\ driver[d].snap.head \in Nat
    BY <1>1, GateFacts, RowFields, LastHeads
  <2>. QED
    BY <2>1, <2>2 DEF RowOK, SameRow
<1>. QED
  BY <1>1, <1>2 DEF SameRow

LEMMA WritesKeep ==
  ASSUME GateInv, EnvStep, NEW d \in Drivers,
         ConsumeFix(d) \/ KeepWaiting(d) \/ PassGate(d) \/ OpenDispatch(d)
  PROVE  RunInv'
<1>1. PICK s : s = driver[d].snap
  OBVIOUS
<1>2. /\ s \in Row /\ driver[d].pc \in Pcs
      /\ FreshOK(driver[d]) => RowOK(s) /\ SameRow(s)
  BY <1>1, SnapFacts
<1>3. CASE ConsumeFix(d)
  <2>1. PICK r : r = [s EXCEPT !.fix = {}]
    OBVIOUS
  <2>2. r \in Row /\ r.head = s.head /\ (RowOK(s) => RowOK(r))
    BY <1>2, <2>1 DEF Row, RowOK
  <2>3. CasPersist(d, r, "opening") /\ driver[d].pc = "consuming"
    BY <1>1, <1>3, <2>1 DEF ConsumeFix
  <2>4. FreshOK(driver[d]) => Asked(driver[d].brief)
    BY <2>3 DEF FreshOK
  <2>. QED
    BY <1>1, <1>2, <2>2, <2>3, <2>4, CasKeeps
<1>4. CASE KeepWaiting(d)
  <2>1. PICK r : r = [s EXCEPT !.phase = "checking"]
    OBVIOUS
  <2>2. r \in Row /\ r.head = s.head /\ (RowOK(s) => RowOK(r))
    BY <1>2, <2>1 DEF Row, RowOK
  <2>3. CasPersist(d, r, "gating") /\ "gating" \in Resting
    BY <1>1, <1>4, <2>1 DEF KeepWaiting, Resting
  <2>. QED
    BY <1>1, <1>2, <2>2, <2>3, CasKeeps
<1>5. CASE PassGate(d)
  <2>1. PICK r : r = [s EXCEPT !.status = "done"]
    OBVIOUS
  <2>2. r \in Row /\ r.head = s.head /\ (RowOK(s) => RowOK(r))
    BY <1>2, <2>1 DEF Row, RowOK
  <2>3. CasPersist(d, r, "idle") /\ "idle" \in Resting
    BY <1>1, <1>5, <2>1 DEF PassGate, Resting
  <2>. QED
    BY <1>1, <1>2, <2>2, <2>3, CasKeeps
<1>6. CASE OpenDispatch(d)
  <2>1. CasPersist(d, s, "starting") /\ driver[d].pc = "opening"
    BY <1>1, <1>6 DEF OpenDispatch
  <2>2. FreshOK(driver[d]) => Asked(driver[d].brief) \/ LastHead(s.log) < s.head
    BY <1>1, <1>2, <2>1 DEF FreshOK, Dispatching, SameRow
  <2>. QED
    BY <1>1, <1>2, <2>1, <2>2, CasKeeps
<1>. QED
  BY <1>3, <1>4, <1>5, <1>6

LEMMA ProbeKeeps ==
  ASSUME GateInv, EnvStep, NEW d \in Drivers, Probe(d)
  PROVE  RunInv'
<1>1. PICK s : s = driver[d].snap
  OBVIOUS
<1>2. PICK verdict \in Verdicts(s) :
        driver' = [driver EXCEPT ![d] =
          [driver[d] EXCEPT
             !.pc = verdict, !.snap.head = pr.head,
             !.snap.handed = IF verdict = "opening" THEN OpenThreads
                             ELSE s.handed \cap OpenThreads,
             !.brief = IF verdict = "opening" THEN OpenThreads ELSE {}]]
  BY <1>1 DEF Probe
<1>3. /\ verdict \in {"passing", "waiting", "opening"}
      /\ verdict = "opening" => ~Stalled(s)
  BY <1>2 DEF Verdicts
<1>4. PICK handed : handed = IF verdict = "opening" THEN OpenThreads
                             ELSE s.handed \cap OpenThreads
  OBVIOUS
<1>5. PICK brief : brief = IF verdict = "opening" THEN OpenThreads ELSE {}
  OBVIOUS
<1>6. PICK r : r = [s EXCEPT !.head = pr.head, !.handed = handed]
  OBVIOUS
<1>7. PICK v : v = [driver[d] EXCEPT !.pc = verdict, !.snap = r, !.brief = brief]
  OBVIOUS
<1>8. /\ s \in Row /\ driver[d] \in DriveType
      /\ pr.head \in Heads /\ pr.head \in Nat /\ pr.head > 0 /\ pr'.head \in Nat
      /\ pr.head <= pr'.head
      /\ run.head <= pr.head /\ run.head \in Nat
      /\ handed \in SUBSET Threads /\ brief \in SUBSET Items
  <2>1. handed \in SUBSET Threads /\ brief \in SUBSET Items
    BY <1>4, <1>5, Bounds DEF OpenThreads
  <2>2. pr \in PrType /\ pr' \in PrType
    BY DEF GateInv, EnvInv, EnvStep
  <2>3. run.head <= pr.head /\ pr.head <= pr'.head
    BY DEF GateInv, RunInv, EnvStep
  <2>. QED
    BY <1>1, <2>1, <2>2, <2>3, GateFacts, RowFields, PrFields
<1>9. /\ r \in Row /\ r.head = pr.head /\ r.phase = s.phase /\ r.job = s.job
      /\ r.count = s.count /\ r.fix = s.fix /\ r.asked = s.asked /\ r.log = s.log
  BY <1>6, <1>8 DEF Row
<1>10. /\ v \in DriveType /\ v.pc = verdict /\ v.snap = r /\ v.brief = brief
       /\ driver' = [driver EXCEPT ![d] = v]
  <2>1. /\ v \in DriveType /\ v.pc = verdict /\ v.snap = r /\ v.brief = brief
    BY <1>3, <1>7, <1>8, <1>9 DEF DriveType, Pcs
  <2>2. [driver[d] EXCEPT
             !.pc = verdict, !.snap.head = pr.head, !.snap.handed = handed,
             !.brief = brief] = v
    BY <1>1, <1>6, <1>7, <1>8 DEF DriveType, Row
  <2>. QED
    BY <1>2, <1>4, <1>5, <2>1, <2>2
<1>11. d \in fresh => FreshOK(v)
  <2>1. ASSUME d \in fresh PROVE FreshOK(v)
    <3>1. SameRow(s) /\ driver[d].pc = "probing"
      BY <1>1, <2>1 DEF GateInv, RunInv, FreshOK, Probe
    <3>2. SameRow(r)
      BY <1>8, <1>9, <3>1 DEF SameRow
    <3>3. verdict = "opening" => LastHead(run.log) < pr.head
      <4>1. /\ LastHead(run.log) \in Nat /\ LastHead(run.log) <= run.head
        BY GateFacts, RowFields, LastHeads DEF GateInv, RunInv, RowOK
      <4>2. verdict = "opening" => LastHead(run.log) # pr.head
        BY <1>3, <1>8, <3>1 DEF Stalled, LastHead, SameRow
      <4>. QED
        BY <1>8, <4>1, <4>2
    <3>. QED
      BY <1>3, <1>9, <1>10, <3>2, <3>3
         DEF FreshOK, Resting, Dispatching, Attending
  <2>. QED
    BY <2>1
<1>12. run' = run /\ fresh' \in SUBSET (fresh \cup {d}) /\ (d \in fresh' => d \in fresh)
  BY DEF Probe
<1>13. v.snap.head <= pr'.head
  BY <1>8, <1>9, <1>10
<1>. QED
  BY <1>10, <1>11, <1>12, <1>13, DriveMoves

\* A drive goes on with the copy it has.
LEMMA SameCopy ==
  ASSUME GateInv, EnvStep, NEW d \in Drivers, NEW v \in DriveType, run' = run,
         fresh' = fresh, driver' = [driver EXCEPT ![d] = v],
         v.pc \notin Resting \cup {"consuming"},
         v.pc \in Dispatching => driver[d].pc \in Dispatching /\ v.brief = driver[d].brief,
         v.pc \in Attending => driver[d].pc \in Attending,
         NEW handed \in SUBSET Threads,
         v.snap = [driver[d].snap EXCEPT !.handed = handed]
  PROVE  RunInv'
<1>1. PICK s : s = driver[d].snap
  OBVIOUS
<1>2. /\ s \in Row /\ s.head \in Nat /\ s.head <= pr.head
      /\ pr.head \in Nat /\ pr'.head \in Nat /\ pr.head <= pr'.head
  BY <1>1, GateFacts, RowFields, PrFields DEF EnvStep, EnvInv, GateInv, RunInv
<1>3. /\ v.snap.head = s.head /\ (SameRow(s) => SameRow(v.snap))
  BY <1>1, <1>2 DEF SameRow, Row
<1>4. d \in fresh => FreshOK(v)
  <2>1. d \in fresh => FreshOK(driver[d])
    BY DEF GateInv, RunInv
  <2>. QED
    BY <1>1, <1>3, <2>1 DEF FreshOK
<1>5. v.snap.head <= pr'.head /\ fresh' \in SUBSET (fresh \cup {d})
      /\ (d \in fresh' => FreshOK(v))
  BY <1>2, <1>3, <1>4
<1>. QED
  BY <1>5, DriveMoves

LEMMA CopyStays ==
  ASSUME GateInv, EnvStep, NEW d \in Drivers,
         ProbeUnread(d) \/ StartJob(d) \/ HelperComplete(d) \/ HelperUnread(d)
  PROVE  RunInv'
<1>1. /\ driver[d] \in DriveType /\ driver[d].snap \in Row
      /\ driver[d].snap.handed \in SUBSET Threads
  BY GateFacts, RowFields
<1>2. [driver[d].snap EXCEPT !.handed = driver[d].snap.handed] = driver[d].snap
  BY <1>1 DEF Row
<1>3. CASE ProbeUnread(d) \/ StartJob(d)
  <2>1. PICK pc \in {"waiting", "accepted"} :
          /\ To(d, pc) /\ run' = run /\ fresh' = fresh
          /\ pc = "accepted" => driver[d].pc \in Dispatching
    BY <1>3 DEF ProbeUnread, StartJob, Dispatching
  <2>2. PICK v : v = [driver[d] EXCEPT !.pc = pc]
    OBVIOUS
  <2>3. /\ v \in DriveType /\ v.pc = pc /\ v.snap = driver[d].snap
        /\ v.brief = driver[d].brief
    BY <1>1, <2>2 DEF DriveType, Pcs
  <2>4. driver' = [driver EXCEPT ![d] = v]
    BY <2>1, <2>2 DEF To, At, Resting
  <2>5. /\ v.pc \notin Resting \cup {"consuming"} /\ v.pc \notin Attending
        /\ v.pc \in Dispatching => driver[d].pc \in Dispatching /\ v.brief = driver[d].brief
    BY <2>1, <2>3 DEF Resting, Dispatching, Attending
  <2>6. PICK handed \in SUBSET Threads :
          v.snap = [driver[d].snap EXCEPT !.handed = handed]
    BY <1>1, <1>2, <2>3
  <2>. QED
    BY <2>1, <2>3, <2>4, <2>5, <2>6, SameCopy
<1>4. CASE HelperComplete(d) \/ HelperUnread(d)
  <2>1. PICK handed \in SUBSET Threads : Keeps(d, handed)
    <3>1. CASE HelperComplete(d)
      BY <1>1, <3>1 DEF HelperComplete
    <3>2. CASE HelperUnread(d)
      BY <3>2 DEF HelperUnread
    <3>. QED
      BY <1>4, <3>1, <3>2
  <2>2. run' = run /\ fresh' = fresh /\ driver[d].pc = "completing"
    BY <1>4 DEF HelperComplete, HelperUnread
  <2>3. PICK r : r = [driver[d].snap EXCEPT !.handed = handed]
    OBVIOUS
  <2>4. PICK v : v = [driver[d] EXCEPT !.pc = "recording", !.snap = r]
    OBVIOUS
  <2>5. r \in Row
    BY <1>1, <2>3 DEF Row
  <2>6. /\ v \in DriveType /\ v.pc = "recording" /\ v.snap = r
    BY <1>1, <2>4, <2>5 DEF DriveType, Pcs
  <2>7. driver' = [driver EXCEPT ![d] = v]
    <3>1. driver' = [driver EXCEPT ![d] =
                       [driver[d] EXCEPT !.pc = "recording", !.snap.handed = handed]]
      BY <2>1, GateFacts DEF Keeps
    <3>2. [driver[d] EXCEPT !.pc = "recording", !.snap.handed = handed] = v
      BY <1>1, <2>3, <2>4 DEF DriveType, Row
    <3>. QED
      BY <3>1, <3>2
  <2>8. /\ v.pc \notin Resting \cup {"consuming"} /\ v.pc \notin Dispatching
        /\ driver[d].pc \in Attending
    BY <2>2, <2>6 DEF Resting, Dispatching, Attending
  <2>9. v.snap = [driver[d].snap EXCEPT !.handed = handed]
    BY <2>3, <2>6
  <2>10. v.pc \in Dispatching => driver[d].pc \in Dispatching /\ v.brief = driver[d].brief
    BY <2>8
  <2>11. v.pc \in Attending => driver[d].pc \in Attending
    BY <2>8
  <2>. QED
    BY <2>2, <2>6, <2>7, <2>8, <2>9, <2>10, <2>11, SameCopy
<1>. QED
  BY <1>3, <1>4

LEMMA PollJobKeeps ==
  ASSUME GateInv, EnvStep, NEW d \in Drivers, PollJob(d)
  PROVE  RunInv'
<1>1. /\ driver[d] \in DriveType /\ driver[d].snap \in Row
      /\ driver[d].snap.handed \in SUBSET Threads
      /\ driver[d].pc = "polling" /\ run' = run
  BY GateFacts, RowFields DEF PollJob
<1>2. CASE Ended(driver[d].snap.job) /\ fresh' = fresh
           /\ driver' = [driver EXCEPT ![d].pc = "completing",
                ![d].ended = IF Holds(driver[d].snap.job)
                             THEN jobs[driver[d].snap.job].state ELSE "failed"]
  <2>1. PICK state : state = IF Holds(driver[d].snap.job)
                             THEN jobs[driver[d].snap.job].state ELSE "failed"
    OBVIOUS
  <2>2. state \in {"done", "failed"}
    BY <1>2, <2>1 DEF Ended, Running, Holds, GateInv, EnvInv, FixerJob
  <2>3. PICK v : v = [driver[d] EXCEPT !.pc = "completing", !.ended = state]
    OBVIOUS
  <2>4. /\ v \in DriveType /\ v.pc = "completing" /\ v.snap = driver[d].snap
    BY <1>1, <2>2, <2>3 DEF DriveType, Pcs
  <2>5. driver' = [driver EXCEPT ![d] = v]
    BY <1>1, <1>2, <2>1, <2>3, GateFacts
  <2>6. [driver[d].snap EXCEPT !.handed = driver[d].snap.handed] = driver[d].snap
    BY <1>1 DEF Row
  <2>7. /\ v.pc \notin Resting \cup {"consuming"} /\ v.pc \notin Dispatching
        /\ driver[d].pc \in Attending
    BY <1>1, <2>4 DEF Resting, Dispatching, Attending
  <2>8. v.snap = [driver[d].snap EXCEPT !.handed = driver[d].snap.handed]
    BY <2>4, <2>6
  <2>9. v.pc \in Dispatching => driver[d].pc \in Dispatching /\ v.brief = driver[d].brief
    BY <2>7
  <2>10. v.pc \in Attending => driver[d].pc \in Attending
    BY <2>7
  <2>. QED
    BY <1>1, <1>2, <2>4, <2>5, <2>7, <2>8, <2>9, <2>10, SameCopy
<1>3. CASE To(d, "idle") /\ fresh' = fresh \ {d}
  <2>1. fresh' \in SUBSET fresh /\ d \notin fresh' /\ "idle" \in Resting
    BY <1>3 DEF Resting
  <2>. QED
    BY <1>1, <1>3, <2>1, RestKeeps
<1>. QED
  BY <1>2, <1>3 DEF PollJob

LEMMA StartRefusedKeeps ==
  ASSUME GateInv, EnvStep, NEW d \in Drivers, StartRefused(d)
  PROVE  RunInv'
<1>1. PICK pc \in {"gating", "failing"} :
        \/ IsCurrent(d) /\ Writes(d, driver[d].snap, pc)
        \/ ~IsCurrent(d) /\ To(d, pc) /\ UNCHANGED <<run, fresh>>
  BY DEF StartRefused
<1>2. pc \in Resting
  BY DEF Resting
<1>3. CASE IsCurrent(d) /\ Writes(d, driver[d].snap, pc)
  <2>1. FreshOK(driver[d])
    BY <1>3 DEF IsCurrent, GateInv, RunInv
  <2>. QED
    BY <1>2, <1>3, <2>1, SnapFacts, WriteKeeps
<1>4. CASE ~IsCurrent(d) /\ To(d, pc) /\ UNCHANGED <<run, fresh>>
  <2>1. fresh' \in SUBSET fresh /\ d \notin fresh' /\ run' = run
    BY <1>4 DEF IsCurrent
  <2>. QED
    BY <1>2, <1>4, <2>1, RestKeeps
<1>. QED
  BY <1>1, <1>3, <1>4

LEMMA RecordDispatchKeeps ==
  ASSUME GateInv, EnvStep, NEW d \in Drivers, RecordDispatch(d)
  PROVE  RunInv'
<1>1. PICK s : s = driver[d].snap
  OBVIOUS
<1>2. /\ s \in Row /\ s.count \in Nat /\ driver[d].brief \in SUBSET Items
      /\ driver[d].pc = "accepted" /\ "idle" \in Resting
      /\ FreshOK(driver[d]) => RowOK(s) /\ SameRow(s)
  BY <1>1, SnapFacts, GateFacts, DriveFields, RowFields DEF RecordDispatch, Resting
<1>3. PICK r : r = [s EXCEPT !.phase = "working", !.job = s.count,
                             !.count = s.count + 1, !.asked = driver[d].brief]
  OBVIOUS
<1>4. /\ r \in Row /\ r.head = s.head /\ r.log = s.log /\ r.asked = driver[d].brief
  <2>1. s.count + 1 \in Nat
    BY <1>2
  <2>2. PICK count : count = s.count + 1
    OBVIOUS
  <2>3. PICK brief : brief = driver[d].brief
    OBVIOUS
  <2>4. r = [s EXCEPT !.phase = "working", !.job = s.count, !.count = count, !.asked = brief]
    BY <1>3, <2>2, <2>3
  <2>. QED
    BY <1>2, <2>1, <2>2, <2>3, <2>4 DEF Row
<1>5. CasPersist(d, r, "idle")
  BY <1>1, <1>2, <1>3 DEF RecordDispatch, Row
<1>6. FreshOK(driver[d]) => RowOK(r)
  BY <1>1, <1>2, <1>4 DEF FreshOK, RowOK, SameRow, Dispatching
<1>. QED
  BY <1>1, <1>2, <1>4, <1>5, <1>6, CasKeeps

LEMMA RecordAttemptKeeps ==
  ASSUME GateInv, EnvStep, NEW d \in Drivers, RecordAttempt(d)
  PROVE  RunInv'
<1>1. PICK s : s = driver[d].snap
  OBVIOUS
<1>2. /\ s \in Row /\ s.head \in Heads /\ s.head \in Nat /\ s.asked \in SUBSET Items
      /\ s.log \in Seq(Round) /\ "gating" \in Resting
  BY <1>1, GateFacts, RowFields DEF Resting
<1>3. PICK r : r = [s EXCEPT !.job = NoJob, !.phase = "checking",
                             !.log = Append(s.log, Attempt(s.head, s.asked))]
  OBVIOUS
<1>4. /\ Append(s.log, Attempt(s.head, s.asked)) \in Seq(Round)
      /\ LastHead(Append(s.log, Attempt(s.head, s.asked))) = s.head
  BY <1>2, LoggedLast
<1>5. /\ r \in Row /\ r.head = s.head /\ r.job = NoJob
      /\ r.log = Append(s.log, Attempt(s.head, s.asked))
  BY <1>2, <1>3, <1>4, Bounds DEF Row
<1>6. CasPersist(d, r, "gating")
  BY <1>1, <1>3 DEF RecordAttempt, Logged
<1>7. RowOK(r)
  BY <1>2, <1>4, <1>5 DEF RowOK
<1>. QED
  BY <1>1, <1>2, <1>5, <1>6, <1>7, CasKeeps

LEMMA CrashKeeps ==
  ASSUME GateInv, EnvStep, NEW d \in Drivers, Crash(d)
  PROVE  RunInv'
<1>1. /\ To(d, "idle") /\ run' = run /\ fresh' \in SUBSET fresh /\ d \notin fresh'
      /\ "idle" \in Resting
  BY DEF Crash, Resting
<1>. QED
  BY <1>1, RestKeeps

LEMMA DriverKeeps ==
  ASSUME GateInv, NEW d \in Drivers, DriverStep(d) \/ DriverTrouble(d)
  PROVE  RunInv'
<1>1. EnvStep
  BY DriverEnv
<1>. QED
  BY <1>1, EvaluateKeeps, WritesKeep, ProbeKeeps, CopyStays, RecordDispatchKeeps,
     PollJobKeeps, RecordAttemptKeeps, FailRunKeeps, StartRefusedKeeps, RearmKeeps,
     CrashKeeps DEF DriverStep, DriverTrouble

\* The people and the fixer leave the row alone, but for a request.
LEMMA OthersKeep ==
  ASSUME GateInv,
         \/ \E id \in DOMAIN jobs : FixerPushes(id) \/ FixerSettles(id)
         \/ ContainerGone \/ PeopleStep
  PROVE  RunInv'
<1>1. EnvStep
  BY OthersEnv
<1>2. /\ pr.head \in Nat /\ pr'.head \in Nat /\ pr.head <= pr'.head
      /\ run.head \in Nat /\ run.head <= pr.head /\ run \in Row /\ RowOK(run)
      /\ driver \in [Drivers -> DriveType] /\ fresh \in SUBSET Drivers
      /\ \A d \in Drivers : driver[d].snap.head \in Nat /\ driver[d].snap.head <= pr.head
  BY <1>1, GateFacts, RowFields, PrFields DEF EnvStep, EnvInv, GateInv, RunInv
<1>3. /\ run'.head <= pr'.head /\ run' \in Row /\ RowOK(run)'
      /\ driver' = driver /\ fresh' \in SUBSET Drivers
      /\ (run' = run /\ fresh' = fresh) \/ fresh' = {}
  <2>1. ASSUME NEW p \in Prompts, RequestFix(p)
        PROVE  <1>3!:
    <3>1. /\ run' = [run EXCEPT !.fix = {p}] /\ fresh' = {} /\ driver' = driver
      BY <2>1 DEF RequestFix
    <3>2. run' \in Row /\ run'.head = run.head /\ run'.log = run.log
          /\ run'.job = run.job /\ run'.asked = run.asked
      BY <1>2, <3>1 DEF Row
    <3>. QED
      BY <1>2, <3>1, <3>2 DEF RowOK
  <2>2. ASSUME run' = run, fresh' = fresh, driver' = driver
        PROVE  <1>3!:
    BY <1>2, <2>2 DEF RowOK
  <2>. QED
    BY <2>1, <2>2 DEF FixerPushes, FixerSettles, ContainerGone, PeopleStep, Approval,
         CommentOnThread, CloseThread
<1>4. \A d \in Drivers : driver'[d].snap.head <= pr'.head
  BY <1>2, <1>3
<1>5. \A d \in fresh' : FreshOK(driver[d])'
  <2>1. \A d \in fresh : FreshOK(driver[d])
    BY DEF GateInv, RunInv
  <2>. QED
    BY <1>3, <2>1 DEF FreshOK, SameRow
<1>. QED
  BY <1>2, <1>3, <1>4, <1>5 DEF RunInv

LEMMA GateInit == Init => GateInv
<1> SUFFICES ASSUME Init PROVE GateInv
  OBVIOUS
<1>1. EnvInv
  <2>1. pr \in PrType
    BY Bounds DEF Init, PrType
  <2>2. jobs \in [DOMAIN jobs -> FixerJob]
    BY DEF Init, NoJobs
  <2>3. left \in [{"reviews", "fixes", "faults", "crashes"} -> Nat] /\ left.fixes <= MaxFixes
    BY Bounds DEF Init
  <2>. QED
    BY <2>1, <2>2, <2>3 DEF EnvInv, Init
<1>2. /\ run = NewRun /\ fresh = {} /\ driver = [d \in Drivers |-> Idle] /\ pr.head = 1
  BY DEF Init
<1>3. RowOK(NewRun) /\ NewRun.head = 0
  BY DEF RowOK, NewRun, LastHead
<1>4. Idle.snap = NewRun
  BY DEF Idle
<1>5. RunInv
  BY <1>2, <1>3, <1>4, NewRunTyped DEF RunInv
<1>. QED
  BY <1>1, <1>5 DEF GateInv

LEMMA GateStep == GateInv /\ [Next]_vars => GateInv'
<1> SUFFICES ASSUME GateInv, [Next]_vars PROVE GateInv'
  OBVIOUS
<1>1. ASSUME NEW d \in Drivers, DriverStep(d) \/ DriverTrouble(d)
      PROVE  GateInv'
  BY <1>1, DriverEnv, DriverKeeps DEF GateInv, EnvStep
<1>2. CASE \/ \E id \in DOMAIN jobs : FixerPushes(id) \/ FixerSettles(id)
           \/ ContainerGone \/ PeopleStep
  BY <1>2, OthersEnv, OthersKeep DEF GateInv, EnvStep
<1>3. CASE UNCHANGED vars
  BY <1>3 DEF vars, GateInv, EnvInv, RunInv, RowOK, FreshOK, SameRow
<1>. QED
  BY <1>1, <1>2, <1>3 DEF Next

LEMMA GateReached == Spec => []GateInv
BY GateInit, GateStep, PTL DEF Spec

-----------------------------------------------------------------------------
(* What any number of drives keeps. *)

LEMMA WriteRow ==
  ASSUME GateInv, NEW d \in Drivers, NEW r, NEW pc, IsCurrent(d), Writes(d, r, pc)
  PROVE  /\ run' = r /\ FreshOK(driver[d])
         /\ pc \notin Resting => driver'[d].pc = pc
<1>1. run' = r /\ FreshOK(driver[d])
  BY DEF Writes, IsCurrent, GateInv, RunInv
<1>2. ASSUME pc \notin Resting PROVE driver'[d].pc = pc
  <2>1. driver' = [driver EXCEPT ![d] = [[driver[d] EXCEPT !.pc = pc] EXCEPT !.snap = r]]
    BY <1>2 DEF Writes, At
  <2>2. driver[d] \in DriveType /\ driver \in [Drivers -> DriveType]
    BY GateFacts
  <2>. QED
    BY <2>1, <2>2 DEF DriveType
<1>. QED
  BY <1>1, <1>2

LEMMA CasRow ==
  ASSUME GateInv, NEW d \in Drivers, NEW r, NEW pc, CasPersist(d, r, pc)
  PROVE  \/ run' = run
         \/ /\ run' = r /\ FreshOK(driver[d])
            /\ pc \notin Resting => driver'[d].pc = pc
<1>1. CASE IsCurrent(d) /\ Writes(d, r, pc)
  BY <1>1, WriteRow
<1>2. CASE ~IsCurrent(d) /\ StartsOver(d)
  BY <1>2 DEF StartsOver
<1>. QED
  BY <1>1, <1>2 DEF CasPersist

\* What a drive's step makes of the log and of a requested fix: a round it logs
\* began at a head of its own, unless a person asked for it.
Consumed(d) == driver[d].brief = run.fix /\ driver'[d].pc = "opening"
Extended ==
  \E head \in Heads, asked \in SUBSET Items :
    /\ run'.log = Append(run.log, Attempt(head, asked))
    /\ Asked(asked) \/ LastHead(run.log) < head

LEMMA DriverRow ==
  ASSUME GateInv, NEW d \in Drivers, DriverStep(d) \/ DriverTrouble(d)
  PROVE  /\ run'.fix = run.fix \/ Consumed(d)
         /\ run'.log = run.log \/ Extended
<1>1. PICK s : s = driver[d].snap
  OBVIOUS
<1>2. /\ run \in Row /\ s \in Row /\ s.head \in Heads /\ s.asked \in SUBSET Items
  BY <1>1, GateFacts, RowFields
<1>3. FreshOK(driver[d]) => SameRow(s) /\ RowOK(s)
  BY <1>1, SnapFacts
<1>4. CASE RecordAttempt(d)
  <2>1. PICK r : r = [s EXCEPT !.job = NoJob, !.phase = "checking",
                               !.log = Append(s.log, Attempt(s.head, s.asked))]
    OBVIOUS
  <2>2. CasPersist(d, r, "gating") /\ driver[d].pc = "recording"
    BY <1>1, <1>4, <2>1 DEF RecordAttempt, Logged
  <2>3. CASE run' = r /\ FreshOK(driver[d])
    <3>1. r.log = Append(s.log, Attempt(s.head, s.asked)) /\ r.fix = s.fix
      BY <1>2, <2>1 DEF Row
    <3>2. /\ s.log = run.log /\ s.fix = run.fix /\ s.job # NoJob
          /\ Asked(s.asked) \/ LastHead(s.log) < s.head
      BY <1>3, <2>2, <2>3 DEF FreshOK, SameRow, RowOK, Attending
    <3>. QED
      BY <1>2, <2>3, <3>1, <3>2 DEF Extended
  <2>. QED
    BY <2>2, <2>3, CasRow
<1>5. CASE ConsumeFix(d)
  <2>1. PICK r : r = [s EXCEPT !.fix = {}]
    OBVIOUS
  <2>2. CasPersist(d, r, "opening") /\ driver[d].pc = "consuming"
    BY <1>1, <1>5, <2>1 DEF ConsumeFix
  <2>3. CASE /\ run' = r /\ FreshOK(driver[d])
             /\ "opening" \notin Resting => driver'[d].pc = "opening"
    <3>1. r.log = s.log /\ s.log = run.log
      BY <1>2, <1>3, <2>1, <2>3 DEF Row, SameRow
    <3>2. driver'[d].pc = "opening" /\ driver[d].brief = run.fix
      BY <2>2, <2>3 DEF FreshOK, Resting
    <3>. QED
      BY <2>3, <3>1, <3>2 DEF Consumed
  <2>. QED
    BY <2>2, <2>3, CasRow
<1>6. ASSUME NEW r, NEW pc, CasPersist(d, r, pc), r.fix = s.fix, r.log = s.log
      PROVE  run'.fix = run.fix /\ run'.log = run.log
  BY <1>3, <1>6, CasRow DEF SameRow
<1>7. CASE KeepWaiting(d)
  <2>1. CasPersist(d, [s EXCEPT !.phase = "checking"], "gating")
    BY <1>1, <1>7 DEF KeepWaiting
  <2>. QED
    BY <1>2, <1>6, <2>1 DEF Row
<1>8. CASE PassGate(d)
  <2>1. CasPersist(d, [s EXCEPT !.status = "done"], "idle")
    BY <1>1, <1>8 DEF PassGate
  <2>. QED
    BY <1>2, <1>6, <2>1 DEF Row
<1>9. CASE OpenDispatch(d)
  <2>1. CasPersist(d, s, "starting")
    BY <1>1, <1>9 DEF OpenDispatch
  <2>. QED
    BY <1>6, <2>1
<1>10. CASE RecordDispatch(d)
  <2>1. PICK brief : brief = driver[d].brief
    OBVIOUS
  <2>2. PICK r : r = [s EXCEPT !.phase = "working", !.job = s.count, !.count = @ + 1,
                               !.asked = brief]
    OBVIOUS
  <2>3. CasPersist(d, r, "idle")
    BY <1>1, <1>10, <2>1, <2>2 DEF RecordDispatch
  <2>4. r.fix = s.fix /\ r.log = s.log
    BY <1>2, <2>2 DEF Row
  <2>. QED
    BY <1>6, <2>3, <2>4
<1>11. CASE StartRefused(d)
  <2>1. run' = run \/ \E pc : IsCurrent(d) /\ Writes(d, s, pc)
    BY <1>1, <1>11 DEF StartRefused
  <2>2. ASSUME NEW pc, IsCurrent(d), Writes(d, s, pc)
        PROVE  run'.fix = run.fix /\ run'.log = run.log
    BY <1>3, <2>2, WriteRow DEF SameRow
  <2>. QED
    BY <2>1, <2>2
<1>12. CASE FailRun(d) \/ Rearm(d)
  BY <1>2, <1>12 DEF FailRun, Rearm, Row
<1>13. CASE \/ Evaluate(d) \/ Probe(d) \/ StartJob(d) \/ PollJob(d)
            \/ HelperComplete(d) \/ ProbeUnread(d) \/ HelperUnread(d) \/ Crash(d)
  BY <1>13 DEF Evaluate, Probe, StartJob, PollJob, HelperComplete, ProbeUnread,
     HelperUnread, Crash
<1>. QED
  BY <1>4, <1>5, <1>7, <1>8, <1>9, <1>10, <1>11, <1>12, <1>13
     DEF DriverStep, DriverTrouble

LEMMA OthersRow ==
  ASSUME GateInv,
         \/ \E id \in DOMAIN jobs : FixerPushes(id) \/ FixerSettles(id)
         \/ ContainerGone \/ PeopleStep
  PROVE  /\ run'.fix = run.fix \/ run'.fix # {}
         /\ run'.log = run.log
<1>1. run \in Row
  BY GateFacts
<1>2. run' = run \/ \E p \in Prompts : run' = [run EXCEPT !.fix = {p}]
  BY DEF FixerPushes, FixerSettles, ContainerGone, PeopleStep, Approval,
     CommentOnThread, CloseThread, RequestFix
<1>. QED
  BY <1>1, <1>2 DEF Row

LEMMA HotLoopStep ==
  ASSUME GateInv, NoHotLoop, [Next]_vars
  PROVE  NoHotLoop'
<1>1. run \in Row /\ run.log \in Seq(Round) /\ Len(run.log) \in Nat
  BY GateFacts, RowFields
<1>2. CASE run'.log = run.log
  BY <1>2 DEF NoHotLoop
<1>3. ASSUME NEW head \in Heads, NEW asked \in SUBSET Items,
             run'.log = Append(run.log, Attempt(head, asked)),
             Asked(asked) \/ LastHead(run.log) < head
      PROVE  NoHotLoop'
  <2> SUFFICES ASSUME NEW k \in 2 .. Len(run'.log), run'.log[k].asked \cap Prompts = {}
               PROVE  run'.log[k].head # run'.log[k - 1].head
    BY DEF NoHotLoop
  <2>1. Attempt(head, asked) \in Round
    BY DEF Attempt, Round
  <2>2. /\ Len(run'.log) = Len(run.log) + 1
        /\ run'.log[Len(run.log) + 1] = Attempt(head, asked)
        /\ \A j \in 1 .. Len(run.log) : run'.log[j] = run.log[j]
    BY <1>1, <1>3, <2>1
  <2>3. CASE k <= Len(run.log)
    <3>1. k \in 1 .. Len(run.log) /\ k - 1 \in 1 .. Len(run.log) /\ k \in 2 .. Len(run.log)
      BY <1>1, <2>3
    <3>2. run'.log[k] = run.log[k] /\ run'.log[k - 1] = run.log[k - 1]
      BY <2>2, <3>1
    <3>. QED
      BY <3>1, <3>2 DEF NoHotLoop
  <2>4. CASE k = Len(run.log) + 1
    <3>1. run'.log[k] = Attempt(head, asked) /\ run'.log[k - 1] = run.log[Len(run.log)]
      <4>1. k - 1 = Len(run.log) /\ Len(run.log) \in 1 .. Len(run.log)
        BY <1>1, <2>4
      <4>. QED
        BY <2>2, <2>4, <4>1
    <3>2. run.log # <<>>
      BY <1>1, <2>4
    <3>3. LastHead(run.log) < head /\ LastHead(run.log) \in Nat /\ head \in Nat
      BY <1>1, <1>3, <3>1, LastHeads, Bounds DEF Attempt, Asked
    <3>. QED
      BY <3>1, <3>2, <3>3 DEF LastHead, Attempt
  <2>. QED
    BY <1>1, <2>2, <2>3, <2>4
<1>4. CASE UNCHANGED vars
  BY <1>2, <1>4 DEF vars
<1>. QED
  BY <1>2, <1>3, <1>4, DriverRow, OthersRow DEF Next, Extended

\* However many drives work the gate, and whatever is refused, lost or crashes:
\* no two rounds in a row begin at one head, unless a person asked for the second.
THEOREM HeadsMove ==
  Spec => []NoHotLoop
<1>1. Init => NoHotLoop
  BY DEF Init, NewRun, NoHotLoop
<1>. QED
  BY <1>1, HotLoopStep, GateReached, PTL DEF Spec

\* However many drives work the gate, a requested fix leaves the row only into
\* the hands of the drive that goes on to dispatch it.
THEOREM RequestsArrive ==
  Spec => RequestIsNotPassedOver
<1> DEFINE Arrives == run.fix # {} /\ run.fix # run'.fix
                        => \/ run'.fix # {}
                           \/ \E d \in Drivers :
                                driver[d].brief = run.fix /\ driver'[d].pc = "opening"
<1>1. GateInv /\ [Next]_vars => [Arrives]_vars
  <2> SUFFICES ASSUME GateInv, Next, run'.fix # run.fix
               PROVE  \/ run'.fix # {}
                      \/ \E d \in Drivers :
                           driver[d].brief = run.fix /\ driver'[d].pc = "opening"
    OBVIOUS
  <2>. QED
    BY DriverRow, OthersRow DEF Next, Consumed
<1>. QED
  BY <1>1, GateReached, PTL DEF Spec, RequestIsNotPassedOver

-----------------------------------------------------------------------------
(* One drive. *)

LEMMA Counts ==
  ASSUME EnvInv, NEW r \in Row
  PROVE  /\ Requests \in Nat /\ LastHead(r.log) \in Nat /\ Len(r.log) \in Nat
         /\ Waiting(r) \in {0, 1} /\ Working(r) \in {0, 1}
         /\ \A v : Carried(v) \in {0, 1}
<1>1. Requests \in Nat
  <2>1. left.fixes \in Nat /\ left.fixes <= MaxFixes
    BY DEF EnvInv
  <2>. QED
    BY <2>1, Bounds DEF Requests
<1>. QED
  BY <1>1, RowFields, LastHeads DEF Waiting, Working, Carried

LEMMA SoloFacts ==
  ASSUME GateInv, SoloInv, NEW d \in Drivers
  PROVE  /\ RowFits(run) /\ Works(run, driver[d]) /\ driver[d] \in DriveType
         /\ driver[d].snap \in Row /\ EnvInv
BY GateFacts DEF SoloInv, GateInv

\* A step of the one drive.
LEMMA SoloKeeps ==
  ASSUME OneDrive, GateInv, SoloInv, NEW d \in Drivers, NEW r \in Row,
         NEW v \in DriveType, run' = r, driver' = [driver EXCEPT ![d] = v],
         left'.fixes = left.fixes, DOMAIN jobs' \in SUBSET Epochs,
         RowFits(r), Works(r, v)
  PROVE  SoloInv'
<1>1. RowFits(run)'
  BY DEF RowFits, Affords, Waiting, Working, Requests, Fits
<1>2. ASSUME NEW e \in Drivers PROVE Works(run, driver[e])'
  <2>1. driver'[e] = v
    BY GateFacts DEF OneDrive
  <2>. QED
    BY <2>1 DEF Works, DriveOK, Affords, Waiting, Working, Carried, Requests, Fits
<1>. QED
  BY <1>1, <1>2 DEF SoloInv

LEMMA SoloRests ==
  ASSUME OneDrive, GateInv, SoloInv, NEW d \in Drivers, NEW r \in Row,
         NEW pc \in Resting, run' = r, driver' = [driver EXCEPT ![d] = At(d, pc)],
         left'.fixes = left.fixes, DOMAIN jobs' \in SUBSET Epochs,
         RowFits(r), pc = "gating" => r.job = NoJob
  PROVE  SoloInv'
<1>1. PICK v : v = At(d, pc)
  OBVIOUS
<1>2. /\ v \in DriveType /\ v.pc = pc /\ v = [Idle EXCEPT !.pc = pc]
  BY <1>1, AtFacts DEF Pcs
<1>3. v.snap = NewRun /\ v.pc \notin Attending /\ v.pc \notin Dispatching
  BY <1>2 DEF Idle, Attending, Dispatching, Resting
<1>4. Fits(NewRun)
  BY Bounds DEF Fits, NewRun, Epochs
<1>5. Works(r, v)
  BY <1>2, <1>3, <1>4 DEF Works, DriveOK, Carried, RowFits, Unattached, Resting, Dispatching
<1>. QED
  BY <1>1, <1>2, <1>5, SoloKeeps

\* What a copy at the row's revision writes fits as the row does.
LEMMA SameFits ==
  ASSUME NEW r, NEW s, RowFits(run), SameRow(s), r.count = s.count, r.job = s.job,
         r.phase = s.phase, r.log = s.log, r.asked = s.asked, r.fix = s.fix
  PROVE  RowFits(r)
BY DEF RowFits, SameRow, Affords, Waiting, Working, Fits

LEMMA CasSolo ==
  ASSUME OneDrive, GateInv, SoloInv, NEW d \in Drivers, NEW r \in Row,
         NEW pc \in Resting \cup {"opening", "starting"}, CasPersist(d, r, pc),
         left'.fixes = left.fixes, DOMAIN jobs' \in SUBSET Epochs,
         driver[d].pc \in Unattached \cup Attending,
         FreshOK(driver[d]) =>
           /\ RowFits(r)
           /\ pc \notin {"idle", "failing"} => r.job = NoJob
           /\ pc \notin Resting => Affords(r, IF Asked(driver[d].brief) THEN 1 ELSE 0)
  PROVE  SoloInv'
<1>1. CASE IsCurrent(d) /\ Writes(d, r, pc)
  <2>1. FreshOK(driver[d])
    BY <1>1 DEF IsCurrent, GateInv, RunInv
  <2>2. CASE pc \in Resting
    <3>1. run' = r /\ driver' = [driver EXCEPT ![d] = At(d, pc)]
      BY <1>1, <2>2 DEF Writes
    <3>2. RowFits(r) /\ (pc = "gating" => r.job = NoJob)
      BY <2>1
    <3>. QED
      BY <2>2, <3>1, <3>2, SoloRests
  <2>3. CASE pc \notin Resting
    <3>1. PICK v : v = [At(d, pc) EXCEPT !.snap = r]
      OBVIOUS
    <3>2. run' = r /\ driver' = [driver EXCEPT ![d] = v]
      BY <1>1, <2>3, <3>1 DEF Writes
    <3>3. /\ At(d, pc) \in DriveType /\ At(d, pc) = [driver[d] EXCEPT !.pc = pc]
          /\ driver[d] \in DriveType
      BY <2>3, AtFacts, GateFacts DEF Pcs
    <3>4. /\ v \in DriveType /\ v.pc = pc /\ v.snap = r /\ v.brief = driver[d].brief
      BY <3>1, <3>3 DEF DriveType
    <3>5. RowFits(r) /\ r.job = NoJob /\ Affords(r, IF Asked(driver[d].brief) THEN 1 ELSE 0)
      BY <2>1, <2>3 DEF Resting
    <3>6. Works(r, v)
      <4>1. pc \in Dispatching /\ pc \notin Attending
        BY <2>3 DEF Dispatching, Attending
      <4>. QED
        BY <3>4, <3>5, <4>1 DEF Works, DriveOK, Carried, RowFits
    <3>. QED
      BY <3>2, <3>4, <3>5, <3>6, SoloKeeps
  <2>. QED
    BY <2>2, <2>3
<1>2. CASE ~IsCurrent(d) /\ StartsOver(d)
  <2>1. PICK rest \in {"idle", "gating"} :
          /\ To(d, rest) /\ run' = run
          /\ rest = "gating" => driver[d].via = "poll"
    BY <1>2 DEF StartsOver
  <2>2. rest = "gating" => run.job = NoJob
    BY <2>1, SoloFacts DEF Works, DriveOK
  <2>3. run \in Row /\ RowFits(run) /\ rest \in Resting
        /\ driver' = [driver EXCEPT ![d] = At(d, rest)]
    BY <2>1, GateFacts, SoloFacts DEF Resting, To
  <2>. QED
    BY <2>1, <2>2, <2>3, SoloRests
<1>. QED
  BY <1>1, <1>2 DEF CasPersist

LEMMA EvaluateSolo ==
  ASSUME OneDrive, GateInv, SoloInv, NEW d \in Drivers, Evaluate(d)
  PROVE  SoloInv'
<1>1. PICK via \in {"advance", "poll"} :
        /\ via = "advance" => driver[d].pc = "idle"
        /\ driver' = [driver EXCEPT ![d] =
             [Idle EXCEPT !.snap = run, !.brief = run.fix,
                !.via = IF Attached(via) THEN "advance" ELSE via,
                !.pc = IF Attached(via) THEN "polling"
                       ELSE IF run.fix # {} THEN "consuming" ELSE "probing"]]
        /\ run' = run /\ left' = left /\ jobs' = jobs
  BY DEF Evaluate
<1>2. PICK pc : pc = IF Attached(via) THEN "polling"
                     ELSE IF run.fix # {} THEN "consuming" ELSE "probing"
  OBVIOUS
<1>3. PICK by : by = IF Attached(via) THEN "advance" ELSE via
  OBVIOUS
<1>4. PICK v : v = [Idle EXCEPT !.snap = run, !.brief = run.fix, !.via = by, !.pc = pc]
  OBVIOUS
<1>5. run \in Row /\ run.fix \in SUBSET Prompts /\ RowFits(run) /\ run.phase \in {"checking", "working"}
  BY GateFacts, RowFields, SoloFacts
<1>6. /\ v \in DriveType /\ v.snap = run /\ v.brief = run.fix /\ v.pc = pc /\ v.via = by
  BY <1>2, <1>3, <1>4, <1>5, NewRunTyped, Bounds DEF DriveType, Pcs, Idle
<1>7. driver' = [driver EXCEPT ![d] = v]
  BY <1>1, <1>2, <1>3, <1>4
<1>8. Works(run, v)
  <2>1. CASE Attached(via)
    <3>1. v.pc = "polling" /\ v.via = "advance" /\ run.job # NoJob
      BY <1>2, <1>3, <1>6, <2>1 DEF Attached
    <3>. QED
      BY <1>5, <1>6, <3>1
         DEF Works, DriveOK, Carried, RowFits, Unattached, Attending, Dispatching
  <2>2. CASE ~Attached(via)
    <3>1. v.pc \in {"consuming", "probing"}
      BY <1>2, <1>6, <2>2
    <3>2. run.job = NoJob
      BY <1>5, <2>2 DEF Attached, RowFits
    <3>. QED
      BY <1>5, <1>6, <3>1, <3>2
         DEF Works, DriveOK, Carried, RowFits, Attending, Dispatching
  <2>. QED
    BY <2>1, <2>2
<1>9. DOMAIN jobs' \in SUBSET Epochs /\ left'.fixes = left.fixes
  BY <1>1 DEF SoloInv
<1>. QED
  BY <1>1, <1>5, <1>6, <1>7, <1>8, <1>9, SoloKeeps

LEMMA WritesSolo ==
  ASSUME OneDrive, GateInv, SoloInv, NEW d \in Drivers,
         ConsumeFix(d) \/ KeepWaiting(d) \/ PassGate(d) \/ OpenDispatch(d)
  PROVE  SoloInv'
<1>1. PICK s : s = driver[d].snap
  OBVIOUS
<1>2. /\ s \in Row /\ RowFits(run) /\ Works(run, driver[d]) /\ run \in Row
      /\ FreshOK(driver[d]) => SameRow(s)
  BY <1>1, SnapFacts, SoloFacts, GateFacts
<1>3. /\ DOMAIN jobs' \in SUBSET Epochs /\ left'.fixes = left.fixes
      /\ driver[d].pc \in Unattached
  BY DEF SoloInv, ConsumeFix, KeepWaiting, PassGate, OpenDispatch, Unattached, Dispatching
<1>4. FreshOK(driver[d]) => s.job = NoJob
  BY <1>2, <1>3 DEF SameRow, Works, DriveOK
<1>5. CASE ConsumeFix(d)
  <2>1. PICK r : r = [s EXCEPT !.fix = {}]
    OBVIOUS
  <2>2. /\ r \in Row /\ r.fix = {} /\ r.count = s.count /\ r.job = s.job
        /\ r.phase = s.phase /\ r.log = s.log /\ r.asked = s.asked
    BY <1>2, <2>1 DEF Row
  <2>3. CasPersist(d, r, "opening") /\ driver[d].pc = "consuming"
    BY <1>1, <1>5, <2>1 DEF ConsumeFix
  <2>4. ASSUME FreshOK(driver[d])
        PROVE  RowFits(r) /\ r.job = NoJob /\ Affords(r, IF Asked(driver[d].brief) THEN 1 ELSE 0)
    <3>1. SameRow(s) /\ run.fix # {} /\ s.job = NoJob
      BY <1>2, <1>4, <2>3, <2>4 DEF FreshOK, Asked
    <3>2. /\ Waiting(run) = 1 /\ Waiting(r) = 0 /\ Working(r) = Working(run)
          /\ r.log = run.log
      BY <2>2, <3>1 DEF Waiting, Working, SameRow
    <3>3. /\ Requests \in Nat /\ LastHead(run.log) \in Nat /\ Len(run.log) \in Nat
          /\ Working(run) \in {0, 1}
      BY <1>2, SoloFacts, Counts
    <3>4. Affords(run, 0)
      BY <1>2 DEF RowFits
    <3>5. Affords(r, 0) /\ Affords(r, 1)
      BY <3>2, <3>3, <3>4 DEF Affords
    <3>6. RowFits(r)
      BY <1>2, <2>2, <3>1, <3>5 DEF RowFits, Fits, SameRow
    <3>. QED
      BY <2>2, <3>1, <3>5, <3>6
  <2>. QED
    BY <1>3, <2>2, <2>3, <2>4, CasSolo
<1>6. CASE KeepWaiting(d)
  <2>1. PICK r : r = [s EXCEPT !.phase = "checking"]
    OBVIOUS
  <2>2. /\ r \in Row /\ r.fix = s.fix /\ r.count = s.count /\ r.job = s.job
        /\ r.log = s.log /\ r.asked = s.asked
    BY <1>2, <2>1 DEF Row
  <2>3. CasPersist(d, r, "gating") /\ "gating" \in Resting
    BY <1>1, <1>6, <2>1 DEF KeepWaiting, Resting
  <2>4. FreshOK(driver[d]) => RowFits(r) /\ r.job = NoJob
    BY <1>2, <1>4, <2>2 DEF RowFits, SameRow, Affords, Waiting, Working, Fits
  <2>. QED
    BY <1>3, <2>2, <2>3, <2>4, CasSolo
<1>7. CASE PassGate(d)
  <2>1. PICK r : r = [s EXCEPT !.status = "done"]
    OBVIOUS
  <2>2. /\ r \in Row /\ r.fix = s.fix /\ r.count = s.count /\ r.job = s.job
        /\ r.phase = s.phase /\ r.log = s.log /\ r.asked = s.asked
    BY <1>2, <2>1 DEF Row
  <2>3. CasPersist(d, r, "idle") /\ "idle" \in Resting
    BY <1>1, <1>7, <2>1 DEF PassGate, Resting
  <2>4. FreshOK(driver[d]) => RowFits(r)
    BY <1>2, <2>2, SameFits
  <2>. QED
    BY <1>3, <2>2, <2>3, <2>4, CasSolo
<1>8. CASE OpenDispatch(d)
  <2>1. CasPersist(d, s, "starting") /\ driver[d].pc = "opening"
    BY <1>1, <1>8 DEF OpenDispatch
  <2>2. ASSUME FreshOK(driver[d])
        PROVE  RowFits(s) /\ s.job = NoJob /\ Affords(s, IF Asked(driver[d].brief) THEN 1 ELSE 0)
    <3>1. SameRow(s) /\ s.job = NoJob
      BY <1>2, <1>4, <2>2
    <3>2. RowFits(s)
      BY <1>2, <3>1, SameFits
    <3>3. Affords(run, IF Asked(driver[d].brief) THEN 1 ELSE 0)
      BY <1>2, <2>1 DEF Works, Carried, Dispatching
    <3>4. Affords(s, IF Asked(driver[d].brief) THEN 1 ELSE 0)
      BY <3>1, <3>3 DEF Affords, SameRow, Waiting, Working
    <3>. QED
      BY <3>1, <3>2, <3>4
  <2>. QED
    BY <1>2, <1>3, <2>1, <2>2, CasSolo
<1>. QED
  BY <1>5, <1>6, <1>7, <1>8

\* A drive goes on with the copy it has, or with what it read of the provider.
LEMMA CopySolo ==
  ASSUME OneDrive, GateInv, SoloInv, NEW d \in Drivers, NEW v \in DriveType,
         run' = run, driver' = [driver EXCEPT ![d] = v], left'.fixes = left.fixes,
         DOMAIN jobs' \in SUBSET Epochs,
         v.snap.job = driver[d].snap.job, v.snap.count = driver[d].snap.count,
         v.snap.log = driver[d].snap.log, v.via = driver[d].via,
         v.pc \in Unattached => driver[d].pc \in Unattached,
         v.pc \in Attending => driver[d].pc \in Attending,
         v.pc \in Dispatching /\ Asked(v.brief) =>
           driver[d].pc \in Dispatching /\ Asked(driver[d].brief)
  PROVE  SoloInv'
<1>1. /\ RowFits(run) /\ Works(run, driver[d]) /\ run \in Row
  BY SoloFacts, GateFacts
<1>2. Affords(run, Carried(v))
  <2>1. CASE v.pc \in Dispatching /\ Asked(v.brief)
    BY <1>1, <2>1 DEF Works, Carried
  <2>2. CASE ~(v.pc \in Dispatching /\ Asked(v.brief))
    BY <1>1, <2>2 DEF RowFits, Carried
  <2>. QED
    BY <2>1, <2>2
<1>3. Works(run, v)
  BY <1>1, <1>2 DEF Works, DriveOK, Fits
<1>. QED
  BY <1>1, <1>3, SoloKeeps

LEMMA ProbeSolo ==
  ASSUME OneDrive, GateInv, SoloInv, NEW d \in Drivers, Probe(d)
  PROVE  SoloInv'
<1>1. PICK verdict \in {"passing", "waiting", "opening"} :
        driver' = [driver EXCEPT ![d] =
          [driver[d] EXCEPT
             !.pc = verdict, !.snap.head = pr.head,
             !.snap.handed = IF verdict = "opening" THEN OpenThreads
                             ELSE driver[d].snap.handed \cap OpenThreads,
             !.brief = IF verdict = "opening" THEN OpenThreads ELSE {}]]
  BY DEF Probe, Verdicts
<1>2. PICK handed : handed = IF verdict = "opening" THEN OpenThreads
                             ELSE driver[d].snap.handed \cap OpenThreads
  OBVIOUS
<1>3. PICK brief : brief = IF verdict = "opening" THEN OpenThreads ELSE {}
  OBVIOUS
<1>4. /\ handed \in SUBSET Threads /\ brief \in SUBSET Threads
      /\ driver' = [driver EXCEPT ![d] =
           [driver[d] EXCEPT !.pc = verdict, !.snap.head = pr.head,
                             !.snap.handed = handed, !.brief = brief]]
  BY <1>1, <1>2, <1>3 DEF OpenThreads
<1>5. PICK s : s = driver[d].snap
  OBVIOUS
<1>6. PICK r : r = [s EXCEPT !.head = pr.head, !.handed = handed]
  OBVIOUS
<1>7. PICK v : v = [driver[d] EXCEPT !.pc = verdict, !.snap = r, !.brief = brief]
  OBVIOUS
<1>8. /\ driver[d] \in DriveType /\ s \in Row /\ pr.head \in Heads
      /\ Threads \in SUBSET Items /\ Threads \cap Prompts = {}
  BY <1>5, GateFacts, PrFields, Bounds
<1>9. /\ r \in Row /\ r.job = s.job /\ r.count = s.count /\ r.log = s.log
  BY <1>4, <1>6, <1>8 DEF Row
<1>10. brief \in SUBSET Items /\ ~Asked(brief)
  BY <1>4, <1>8 DEF Asked
<1>11. /\ v \in DriveType /\ v.pc = verdict /\ v.snap = r /\ v.brief = brief
      /\ v.via = driver[d].via
  BY <1>4, <1>7, <1>8, <1>9, <1>10 DEF DriveType, Pcs
<1>12. driver' = [driver EXCEPT ![d] = v]
  <2>1. [driver[d] EXCEPT !.pc = verdict, !.snap.head = pr.head,
                          !.snap.handed = handed, !.brief = brief] = v
    BY <1>5, <1>6, <1>7, <1>8 DEF DriveType, Row
  <2>. QED
    BY <1>4, <2>1
<1>13. /\ run' = run /\ left'.fixes = left.fixes /\ DOMAIN jobs' \in SUBSET Epochs
       /\ driver[d].pc \in Unattached /\ v.pc \notin Attending
       /\ ~(v.pc \in Dispatching /\ Asked(v.brief))
  <2>1. left'.fixes = left.fixes
    BY DriverEnv DEF DriverStep
  <2>. QED
    BY <1>4, <1>10, <1>11, <2>1 DEF Probe, SoloInv, Unattached, Attending
<1>. QED
  BY <1>5, <1>9, <1>11, <1>12, <1>13, CopySolo

LEMMA CopyStaysSolo ==
  ASSUME OneDrive, GateInv, SoloInv, NEW d \in Drivers,
         ProbeUnread(d) \/ StartJob(d) \/ HelperComplete(d) \/ HelperUnread(d)
  PROVE  SoloInv'
<1>1. /\ driver[d] \in DriveType /\ driver[d].snap \in Row
      /\ driver[d].snap.handed \in SUBSET Threads /\ Works(run, driver[d])
      /\ driver[d].brief \in SUBSET Items /\ EnvInv
  BY GateFacts, RowFields, SoloFacts, DriveFields
<1>2. left'.fixes = left.fixes
  BY DriverEnv DEF DriverStep, DriverTrouble
<1>3. CASE ProbeUnread(d) \/ StartJob(d)
  <2>1. PICK pc \in {"waiting", "accepted"} :
          /\ To(d, pc) /\ run' = run
          /\ driver[d].pc \in Unattached
          /\ pc = "accepted" => driver[d].pc \in Dispatching
    BY <1>3 DEF ProbeUnread, StartJob, Dispatching, Unattached
  <2>2. PICK v : v = [driver[d] EXCEPT !.pc = pc]
    OBVIOUS
  <2>3. /\ v \in DriveType /\ v.pc = pc /\ v.snap = driver[d].snap
        /\ v.brief = driver[d].brief /\ v.via = driver[d].via
    BY <1>1, <2>2 DEF DriveType, Pcs
  <2>4. driver' = [driver EXCEPT ![d] = v]
    BY <2>1, <2>2 DEF To, At, Resting
  <2>5. DOMAIN jobs' \in SUBSET Epochs
    <3>1. CASE ProbeUnread(d)
      BY <3>1 DEF ProbeUnread, SoloInv
    <3>2. CASE StartJob(d)
      <4>1. DOMAIN jobs' = DOMAIN jobs \cup {driver[d].snap.count}
        BY <1>1, <3>2, StartedFacts DEF StartJob
      <4>2. driver[d].snap.count \in Epochs /\ DOMAIN jobs \in SUBSET Epochs
        BY <1>1 DEF Works, Fits, SoloInv
      <4>. QED
        BY <4>1, <4>2
    <3>. QED
      BY <1>3, <3>1, <3>2
  <2>6. /\ v.pc \in Unattached => driver[d].pc \in Unattached
        /\ v.pc \notin Attending
        /\ v.pc \in Dispatching /\ Asked(v.brief) =>
             driver[d].pc \in Dispatching /\ Asked(driver[d].brief)
    BY <2>1, <2>3 DEF Attending, Dispatching
  <2>. QED
    BY <1>2, <2>1, <2>3, <2>4, <2>5, <2>6, CopySolo
<1>4. CASE HelperComplete(d) \/ HelperUnread(d)
  <2>1. PICK handed \in SUBSET Threads : Keeps(d, handed)
    <3>1. CASE HelperComplete(d)
      BY <1>1, <3>1 DEF HelperComplete
    <3>2. CASE HelperUnread(d)
      BY <3>2 DEF HelperUnread
    <3>. QED
      BY <1>4, <3>1, <3>2
  <2>2. run' = run /\ driver[d].pc = "completing" /\ jobs' = jobs
    BY <1>4 DEF HelperComplete, HelperUnread
  <2>3. PICK r : r = [driver[d].snap EXCEPT !.handed = handed]
    OBVIOUS
  <2>4. PICK v : v = [driver[d] EXCEPT !.pc = "recording", !.snap = r]
    OBVIOUS
  <2>5. /\ r \in Row /\ r.job = driver[d].snap.job
        /\ r.count = driver[d].snap.count /\ r.log = driver[d].snap.log
    BY <1>1, <2>3 DEF Row
  <2>6. /\ v \in DriveType /\ v.pc = "recording" /\ v.snap = r /\ v.via = driver[d].via
    BY <1>1, <2>4, <2>5 DEF DriveType, Pcs
  <2>7. driver' = [driver EXCEPT ![d] = v]
    <3>1. driver' = [driver EXCEPT ![d] =
                       [driver[d] EXCEPT !.pc = "recording", !.snap.handed = handed]]
      BY <2>1, GateFacts DEF Keeps
    <3>2. [driver[d] EXCEPT !.pc = "recording", !.snap.handed = handed] = v
      BY <1>1, <2>3, <2>4 DEF DriveType, Row
    <3>. QED
      BY <3>1, <3>2
  <2>8. /\ v.pc \notin Unattached /\ v.pc \notin Dispatching
        /\ driver[d].pc \in Attending /\ DOMAIN jobs' \in SUBSET Epochs
    BY <2>2, <2>6 DEF Unattached, Dispatching, Attending, SoloInv
  <2>. QED
    BY <1>2, <2>2, <2>5, <2>6, <2>7, <2>8, CopySolo
<1>. QED
  BY <1>3, <1>4

LEMMA RestsSolo ==
  ASSUME OneDrive, GateInv, SoloInv, NEW d \in Drivers,
         PollJob(d) \/ Crash(d) \/ Rearm(d) \/ FailRun(d) \/ StartRefused(d)
  PROVE  SoloInv'
<1>1. /\ driver[d] \in DriveType /\ driver[d].snap \in Row /\ run \in Row
      /\ RowFits(run) /\ Works(run, driver[d])
  BY GateFacts, SoloFacts
<1>2. left'.fixes = left.fixes
  BY DriverEnv DEF DriverStep, DriverTrouble
<1>3. DOMAIN jobs' \in SUBSET Epochs
  BY DEF PollJob, Crash, Rearm, FailRun, StartRefused, SoloInv
<1>4. ASSUME NEW pc \in Resting, To(d, pc), run' = run,
             pc = "gating" => run.job = NoJob
      PROVE  SoloInv'
  BY <1>1, <1>2, <1>3, <1>4, SoloRests DEF To
<1>5. CASE PollJob(d)
  <2>1. CASE driver' = [driver EXCEPT ![d].pc = "completing",
                ![d].ended = IF Holds(driver[d].snap.job)
                             THEN jobs[driver[d].snap.job].state ELSE "failed"]
             /\ Ended(driver[d].snap.job)
    <3>1. PICK state : state = IF Holds(driver[d].snap.job)
                               THEN jobs[driver[d].snap.job].state ELSE "failed"
      OBVIOUS
    <3>2. state \in {"done", "failed"}
      BY <2>1, <3>1 DEF Ended, Running, Holds, GateInv, EnvInv, FixerJob
    <3>3. PICK v : v = [driver[d] EXCEPT !.pc = "completing", !.ended = state]
      OBVIOUS
    <3>4. /\ v \in DriveType /\ v.pc = "completing" /\ v.snap = driver[d].snap
          /\ v.via = driver[d].via
      BY <1>1, <3>2, <3>3 DEF DriveType, Pcs
    <3>5. driver' = [driver EXCEPT ![d] = v]
      BY <2>1, <3>1, <3>3, GateFacts
    <3>6. /\ v.pc \notin Unattached /\ v.pc \notin Dispatching
          /\ driver[d].pc \in Attending /\ run' = run
      BY <1>5, <3>4 DEF PollJob, Unattached, Dispatching, Attending
    <3>. QED
      BY <1>2, <1>3, <3>4, <3>5, <3>6, CopySolo
  <2>2. CASE To(d, "idle")
    BY <1>4, <1>5, <2>2 DEF PollJob, Resting
  <2>. QED
    BY <1>5, <2>1, <2>2 DEF PollJob
<1>6. CASE Crash(d)
  BY <1>4, <1>6 DEF Crash, Resting
<1>7. CASE Rearm(d)
  <2>1. PICK r : r = [run EXCEPT !.phase = "checking"]
    OBVIOUS
  <2>2. /\ r \in Row /\ r.fix = run.fix /\ r.count = run.count /\ r.job = run.job
        /\ r.log = run.log /\ r.asked = run.asked
    BY <1>1, <2>1 DEF Row
  <2>3. run.job = NoJob
    BY <1>1, <1>7 DEF Rearm, Works, DriveOK, Unattached
  <2>4. RowFits(r)
    BY <1>1, <2>2, <2>3 DEF RowFits, Affords, Waiting, Working, Fits
  <2>5. run' = r /\ driver' = [driver EXCEPT ![d] = At(d, "idle")] /\ "idle" \in Resting
    BY <1>7, <2>1 DEF Rearm, To, Resting
  <2>. QED
    BY <1>2, <1>3, <2>2, <2>4, <2>5, SoloRests
<1>8. CASE FailRun(d)
  <2>1. CASE run.status # "running"
    BY <1>4, <1>8, <2>1 DEF FailRun, Resting
  <2>2. CASE run.status = "running"
    <3>1. PICK r : r = [run EXCEPT !.status = "failed"]
      OBVIOUS
    <3>2. /\ r \in Row /\ r.fix = run.fix /\ r.count = run.count /\ r.job = run.job
          /\ r.log = run.log /\ r.asked = run.asked /\ r.phase = run.phase
      BY <1>1, <3>1 DEF Row
    <3>3. RowFits(r)
      BY <1>1, <3>2 DEF RowFits, Affords, Waiting, Working, Fits
    <3>4. run' = r /\ driver' = [driver EXCEPT ![d] = At(d, "idle")] /\ "idle" \in Resting
      BY <1>8, <2>2, <3>1 DEF FailRun, To, Resting
    <3>. QED
      BY <1>2, <1>3, <3>2, <3>3, <3>4, SoloRests
  <2>. QED
    BY <2>1, <2>2
<1>9. CASE StartRefused(d)
  <2>1. PICK pc \in {"gating", "failing"} :
          \/ IsCurrent(d) /\ Writes(d, driver[d].snap, pc)
          \/ ~IsCurrent(d) /\ To(d, pc) /\ UNCHANGED <<run, fresh>>
    BY <1>9 DEF StartRefused
  <2>2. pc \in Resting /\ run.job = NoJob
    BY <1>1, <1>9 DEF Resting, StartRefused, Works, DriveOK, Unattached, Dispatching
  <2>3. CASE IsCurrent(d) /\ Writes(d, driver[d].snap, pc)
    <3>1. SameRow(driver[d].snap)
      BY <2>3, SnapFacts DEF IsCurrent, GateInv, RunInv
    <3>2. RowFits(driver[d].snap) /\ driver[d].snap.job = NoJob
      BY <1>1, <2>2, <3>1, SameFits DEF SameRow
    <3>3. run' = driver[d].snap /\ driver' = [driver EXCEPT ![d] = At(d, pc)]
      BY <2>2, <2>3 DEF Writes
    <3>. QED
      BY <1>1, <1>2, <1>3, <2>2, <3>2, <3>3, SoloRests
  <2>4. CASE ~IsCurrent(d) /\ To(d, pc) /\ UNCHANGED <<run, fresh>>
    BY <1>4, <2>2, <2>4
  <2>. QED
    BY <2>1, <2>3, <2>4
<1>. QED
  BY <1>5, <1>6, <1>7, <1>8, <1>9

\* The round is counted when it is dispatched.
LEMMA RecordDispatchSolo ==
  ASSUME OneDrive, GateInv, SoloInv, NEW d \in Drivers, RecordDispatch(d)
  PROVE  SoloInv'
<1>1. PICK s : s = driver[d].snap
  OBVIOUS
<1>2. PICK brief : brief = driver[d].brief
  OBVIOUS
<1>3. PICK count : count = s.count + 1
  OBVIOUS
<1>4. PICK r : r = [s EXCEPT !.phase = "working", !.job = s.count, !.count = count,
                             !.asked = brief]
  OBVIOUS
<1>5. /\ s \in Row /\ s.count \in Nat /\ brief \in SUBSET Items /\ count \in Nat
      /\ RowFits(run) /\ Works(run, driver[d]) /\ run \in Row /\ EnvInv
      /\ FreshOK(driver[d]) => SameRow(s)
      /\ s.head \in Heads
  BY <1>1, <1>2, <1>3, SnapFacts, SoloFacts, GateFacts, DriveFields, RowFields
<1>6. /\ r \in Row /\ r.phase = "working" /\ r.job = s.count /\ r.count = count
      /\ r.asked = brief /\ r.log = s.log /\ r.fix = s.fix /\ r.head = s.head
  BY <1>4, <1>5 DEF Row
<1>7. /\ CasPersist(d, r, "idle") /\ driver[d].pc = "accepted"
      /\ DOMAIN jobs' \in SUBSET Epochs /\ left'.fixes = left.fixes
      /\ driver[d].pc \in Unattached /\ "idle" \in Resting
  BY <1>1, <1>2, <1>3, <1>4
     DEF RecordDispatch, SoloInv, Unattached, Dispatching, Resting
<1>8. ASSUME FreshOK(driver[d]) PROVE RowFits(r)
  <2>1. SameRow(s) /\ run.job = NoJob
    BY <1>5, <1>7, <1>8 DEF Works, DriveOK
  <2>2. /\ r.log = run.log /\ s.count = run.count /\ run.count = Len(run.log)
        /\ Waiting(r) = Waiting(run) /\ Working(run) = 0
    BY <1>5, <1>6, <2>1 DEF SameRow, RowFits, Waiting, Working
  <2>3. /\ Requests \in Nat /\ LastHead(run.log) \in Nat /\ Len(run.log) \in Nat
        /\ Waiting(run) \in {0, 1} /\ Requests <= MaxFixes /\ s.head \in Nat
        /\ s.head <= MaxHead /\ MaxHead \in Nat /\ MaxFixes \in Nat
    <3>1. left.fixes \in Nat
      BY GateFacts
    <3>. QED
      BY <1>5, <3>1, Counts, Bounds DEF Requests, Heads
  <2>4. Affords(run, IF Asked(brief) THEN 1 ELSE 0)
    BY <1>2, <1>5, <1>7 DEF Works, Carried, Dispatching
  <2>5. Asked(brief) \/ LastHead(run.log) < s.head
    BY <1>1, <1>2, <1>7, <1>8 DEF FreshOK, Dispatching
  <2>6. Len(run.log) + 1 <= MaxHead + MaxFixes
    <3>1. LastHead(run.log) <= s.head
      BY <1>1, <1>5, <2>1, <2>3, RowFields, GateFacts
         DEF SameRow, GateInv, RunInv, RowOK
    <3>2. CASE Asked(brief)
      BY <2>2, <2>3, <2>4, <3>1, <3>2 DEF Affords
    <3>3. CASE ~Asked(brief)
      BY <2>2, <2>3, <2>4, <2>5, <3>3 DEF Affords
    <3>. QED
      BY <3>2, <3>3
  <2>7. /\ r.count \in Epochs /\ r.job \in Epochs /\ Len(r.log) \in Epochs
        /\ r.job # NoJob /\ r.count = Len(r.log) + 1
    BY <1>3, <1>6, <2>2, <2>3, <2>6 DEF Epochs, NoJob
  <2>8. Affords(r, 0)
    <3>1. Working(r) = IF Asked(brief) THEN 1 ELSE 0
      BY <1>6, <2>7 DEF Working
    <3>. QED
      BY <2>2, <2>3, <2>4, <3>1 DEF Affords
  <2>. QED
    BY <1>6, <2>7, <2>8 DEF RowFits, Fits
<1>. QED
  BY <1>6, <1>7, <1>8, CasSolo

\* The round is paid for when it is logged.
LEMMA RecordAttemptSolo ==
  ASSUME OneDrive, GateInv, SoloInv, NEW d \in Drivers, RecordAttempt(d)
  PROVE  SoloInv'
<1>1. PICK s : s = driver[d].snap
  OBVIOUS
<1>2. PICK log : log = Append(s.log, Attempt(s.head, s.asked))
  OBVIOUS
<1>3. PICK r : r = [s EXCEPT !.job = NoJob, !.phase = "checking", !.log = log]
  OBVIOUS
<1>4. /\ s \in Row /\ s.head \in Heads /\ s.head \in Nat /\ s.asked \in SUBSET Items
      /\ s.log \in Seq(Round) /\ s.count \in Nat
      /\ RowFits(run) /\ run \in Row /\ EnvInv
      /\ FreshOK(driver[d]) => SameRow(s) /\ RowOK(s)
  BY <1>1, SnapFacts, SoloFacts, GateFacts, RowFields
<1>5. /\ log \in Seq(Round) /\ Len(log) = Len(s.log) + 1 /\ LastHead(log) = s.head
  BY <1>2, <1>4, LoggedLast
<1>6. /\ r \in Row /\ r.job = NoJob /\ r.log = log /\ r.fix = s.fix /\ r.count = s.count
      /\ r.asked = s.asked
  BY <1>3, <1>4, <1>5, Bounds DEF Row
<1>7. /\ CasPersist(d, r, "gating") /\ driver[d].pc = "recording"
      /\ DOMAIN jobs' \in SUBSET Epochs /\ left'.fixes = left.fixes
      /\ driver[d].pc \in Attending /\ "gating" \in Resting
  BY <1>1, <1>2, <1>3
     DEF RecordAttempt, Logged, SoloInv, Attending, Resting
<1>8. ASSUME FreshOK(driver[d]) PROVE RowFits(r)
  <2>1. /\ SameRow(s) /\ RowOK(s) /\ run.job # NoJob /\ s.job # NoJob
    BY <1>4, <1>7, <1>8 DEF FreshOK, SameRow
  <2>2. /\ s.log = run.log /\ s.count = Len(s.log) + 1
        /\ Waiting(r) = Waiting(run) /\ Working(r) = 0
        /\ Working(run) = IF Asked(s.asked) THEN 1 ELSE 0
    BY <1>4, <1>6, <2>1 DEF SameRow, RowFits, Waiting, Working
  <2>3. /\ Requests \in Nat /\ LastHead(s.log) \in Nat /\ Len(s.log) \in Nat
        /\ Waiting(run) \in {0, 1}
    BY <1>4, Counts
  <2>4. Affords(run, 0) /\ s.count \in Epochs
    BY <1>4, <2>1 DEF RowFits, Fits, SameRow
  <2>5. /\ LastHead(s.log) <= s.head
        /\ Asked(s.asked) \/ LastHead(s.log) < s.head
    BY <2>1 DEF RowOK
  <2>6. Affords(r, 0)
    BY <1>4, <1>5, <1>6, <2>2, <2>3, <2>4, <2>5 DEF Affords
  <2>7. r.count = Len(r.log) /\ r.count \in Epochs
    BY <1>5, <1>6, <2>2, <2>3, <2>4
  <2>. QED
    BY <1>6, <2>3, <2>6, <2>7 DEF RowFits, Fits
<1>. QED
  BY <1>6, <1>7, <1>8, CasSolo

LEMMA DriverSolo ==
  ASSUME OneDrive, GateInv, SoloInv, NEW d \in Drivers,
         DriverStep(d) \/ DriverTrouble(d)
  PROVE  SoloInv'
BY EvaluateSolo, WritesSolo, ProbeSolo, CopyStaysSolo, RestsSolo, RecordDispatchSolo,
   RecordAttemptSolo DEF DriverStep, DriverTrouble

\* A request is another token, and replaces the one the row holds.
LEMMA RequestSolo ==
  ASSUME GateInv, SoloInv, NEW p \in Prompts, RequestFix(p)
  PROVE  SoloInv'
<1>1. PICK r : r = [run EXCEPT !.fix = {p}]
  OBVIOUS
<1>2. run \in Row /\ EnvInv
  BY GateFacts DEF GateInv
<1>3. /\ r.fix = {p} /\ r.count = run.count /\ r.job = run.job
      /\ r.log = run.log /\ r.asked = run.asked /\ r.phase = run.phase
  BY <1>1, <1>2 DEF Row
<1>4. /\ run' = r /\ driver' = driver /\ jobs' = jobs /\ left'.fixes = left.fixes - 1
  <2>1. Spend("fixes")
    BY DEF RequestFix
  <2>2. left'.fixes = left.fixes - 1
    BY <1>2, <2>1, SpendFacts
  <2>. QED
    BY <1>1, <2>2 DEF RequestFix
<1>5. Requests' = Requests + 1
  BY <1>4, GateFacts, Bounds DEF Requests
<1>6. /\ Requests \in Nat /\ LastHead(run.log) \in Nat /\ Len(run.log) \in Nat
      /\ Waiting(run) \in {0, 1} /\ Working(run) \in {0, 1}
  BY <1>2, Counts
<1>7. Waiting(r) = 1 /\ Working(r) = Working(run)
  BY <1>3 DEF Waiting, Working
<1>8. ASSUME NEW n \in {0, 1}, Affords(run, n) PROVE Affords(run, n)'
  <2>1. Affords(run, n)' <=>
          Len(r.log) + Waiting(r) + Working(r) + n <= LastHead(r.log) + Requests'
    BY <1>4 DEF Affords, Waiting, Working
  <2>2. Len(run.log) + Waiting(run) + Working(run) + n <= LastHead(run.log) + Requests
    BY <1>8 DEF Affords
  <2>3. Len(run.log) + 1 + Working(run) + n <= LastHead(run.log) + (Requests + 1)
    BY <1>6, <1>8, <2>2
  <2>. QED
    BY <1>3, <1>5, <1>7, <2>1, <2>3
<1>9. RowFits(run)'
  BY <1>3, <1>4, <1>8 DEF SoloInv, RowFits, Fits
<1>10. ASSUME NEW e \in Drivers PROVE Works(run, driver[e])'
  <2>1. Works(run, driver[e]) /\ Carried(driver[e]) \in {0, 1}
    BY <1>2, Counts DEF SoloInv
  <2>2. Affords(run, Carried(driver[e])) /\ Carried(driver[e])' = Carried(driver[e])
    BY <1>4, <2>1 DEF Works, Carried
  <2>3. Affords(run, Carried(driver[e]))'
    <3>1. PICK n : n = Carried(driver[e])
      OBVIOUS
    <3>2. Affords(run, n)'
      BY <1>8, <2>1, <2>2, <3>1
    <3>. QED
      BY <2>2, <3>1, <3>2 DEF Affords
  <2>. QED
    BY <1>3, <1>4, <2>1, <2>3 DEF Works, DriveOK, Fits
<1>. QED
  BY <1>4, <1>9, <1>10 DEF SoloInv

LEMMA OthersSolo ==
  ASSUME GateInv, SoloInv,
         \/ \E id \in DOMAIN jobs : FixerPushes(id) \/ FixerSettles(id)
         \/ ContainerGone \/ PeopleStep
  PROVE  SoloInv'
<1>1. EnvInv
  BY DEF GateInv
<1>2. ASSUME run' = run, driver' = driver, left'.fixes = left.fixes,
             DOMAIN jobs' \in SUBSET DOMAIN jobs
      PROVE  SoloInv'
  BY <1>2 DEF SoloInv, RowFits, Works, DriveOK, Affords, Waiting, Working, Carried,
     Requests, Fits
<1>3. ASSUME NEW id \in DOMAIN jobs, FixerPushes(id) \/ FixerSettles(id)
      PROVE  SoloInv'
  <2>1. DOMAIN jobs' \in SUBSET DOMAIN jobs
    BY <1>1, <1>3 DEF FixerPushes, FixerSettles, Settle, EnvInv
  <2>2. run' = run /\ driver' = driver /\ left'.fixes = left.fixes
    BY <1>3 DEF FixerPushes, FixerSettles
  <2>. QED
    BY <1>2, <2>1, <2>2
<1>4. CASE ContainerGone
  BY <1>2, <1>4 DEF ContainerGone, Evict, NoJobs
<1>5. CASE Approval \/ \E t \in Threads : CommentOnThread(t) \/ CloseThread(t)
  <2>1. /\ run' = run /\ driver' = driver /\ DOMAIN jobs' \in SUBSET DOMAIN jobs
        /\ Spend("reviews")
    BY <1>5 DEF Approval, CommentOnThread, CloseThread
  <2>2. left'.fixes = left.fixes
    BY <1>1, <2>1, SpendFacts, GateFacts
  <2>. QED
    BY <1>2, <2>1, <2>2
<1>. QED
  BY <1>3, <1>4, <1>5, RequestSolo DEF PeopleStep

LEMMA SoloInit == Init => SoloInv
<1> SUFFICES ASSUME Init PROVE SoloInv
  OBVIOUS
<1>1. /\ run = NewRun /\ driver = [d \in Drivers |-> Idle] /\ jobs = NoJobs
      /\ left.fixes = MaxFixes
  BY DEF Init
<1>2. Requests = 0
  BY <1>1, Bounds DEF Requests
<1>3. RowFits(NewRun)
  BY <1>2, Bounds
     DEF RowFits, NewRun, Affords, Waiting, Working, LastHead, Fits, Epochs
<1>4. Works(NewRun, Idle)
  <2>1. Idle.pc = "idle" /\ Idle.snap = NewRun
    BY DEF Idle
  <2>. QED
    BY <1>3, <2>1 DEF Works, DriveOK, Carried, RowFits, Unattached, Dispatching, Attending
<1>. QED
  BY <1>1, <1>3, <1>4 DEF SoloInv, NoJobs

LEMMA SoloStep ==
  OneDrive /\ GateInv /\ SoloInv /\ [Next]_vars => SoloInv'
<1> SUFFICES ASSUME OneDrive, GateInv, SoloInv, [Next]_vars PROVE SoloInv'
  OBVIOUS
<1>1. CASE UNCHANGED vars
  BY <1>1 DEF vars, SoloInv, RowFits, Works, DriveOK, Affords, Waiting, Working, Carried,
     Requests, Fits
<1>. QED
  BY <1>1, DriverSolo, OthersSolo DEF Next

LEMMA SoloReached ==
  ASSUME OneDrive
  PROVE  Spec => [](GateInv /\ SoloInv)
<1>1. Init => SoloInv
  BY SoloInit
<1>2. GateInv /\ SoloInv /\ [Next]_vars => SoloInv'
  BY SoloStep
<1>. QED
  BY <1>1, <1>2, GateReached, PTL DEF Spec

LEMMA RowsTyped ==
  ASSUME GateInv, NEW r \in Row, Fits(r)
  PROVE  r \in RunType(UNION {[1 .. n -> Round] : n \in Epochs})
<1>1. r.log \in [1 .. Len(r.log) -> Round]
  BY RowFields
<1>2. Len(r.log) \in Epochs /\ r.count \in Epochs /\ r.job \in Epochs \cup {NoJob}
  BY DEF Fits
<1>3. r.log \in UNION {[1 .. n -> Round] : n \in Epochs}
  BY <1>1, <1>2
<1>. QED
  BY <1>2, <1>3 DEF Row, RunType

\* With one drive every variable of the gate has its type: in particular no
\* round is counted that neither a new head nor a request paid for, so the
\* epochs, and with them the job ids, are as many as there are heads and requests.
THEOREM GateTypes ==
  ASSUME OneDrive
  PROVE  Spec => []TypeOK
<1>1. GateInv /\ SoloInv => TypeOK
  <2> SUFFICES ASSUME GateInv, SoloInv PROVE TypeOK
    OBVIOUS
  <2>1. /\ DOMAIN jobs \in SUBSET Epochs
        /\ \A id \in DOMAIN jobs : jobs[id] \in JobEntry
        /\ pr \in PrType /\ fresh \in SUBSET Drivers /\ DOMAIN driver = Drivers
        /\ pushed \in SUBSET Items
    BY DEF SoloInv, GateInv, EnvInv, RunInv, FixerJob, JobEntry, JobStates
  <2>2. run \in RunType(UNION {[1 .. n -> Round] : n \in Epochs})
    BY GateFacts, RowsTyped DEF SoloInv, RowFits
  <2>3. ASSUME NEW d \in Drivers
        PROVE  /\ driver[d].pc \in Pcs
               /\ driver[d].via \in {"advance", "poll"}
               /\ driver[d].snap \in RunType(UNION {[1 .. n -> Round] : n \in Epochs})
               /\ driver[d].pc = "polling" => driver[d].snap.job \in Epochs
               /\ driver[d].brief \subseteq Items
               /\ driver[d].ended \in {"done", "failed"}
    <3>1. /\ driver[d] \in DriveType /\ driver[d].snap \in Row
          /\ Works(run, driver[d])
      BY SoloFacts
    <3>2. driver[d].pc = "polling" => driver[d].snap.job \in Epochs
      BY <3>1 DEF Works, Fits, Attending
    <3>. QED
      BY <3>1, <3>2, DriveFields, RowsTyped DEF Works
  <2>. QED
    BY <2>1, <2>2, <2>3 DEF TypeOK, Round
<1>. QED
  BY <1>1, SoloReached, PTL

\* With one drive every round the gate counted is in flight or in its log,
\* however its helper ended and whatever was asked, refused or lost meanwhile.
THEOREM RoundsAreLogged ==
  ASSUME OneDrive
  PROVE  Spec => []EveryRoundIsLogged
<1>1. GateInv /\ SoloInv => EveryRoundIsLogged
  BY DEF SoloInv, RowFits, EveryRoundIsLogged
<1>. QED
  BY <1>1, SoloReached, PTL
=============================================================================
