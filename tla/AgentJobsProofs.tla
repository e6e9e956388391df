--------------------------- MODULE AgentJobsProofs ---------------------------
(***************************************************************************)
(* Theorems about AgentJobs, for every set of items and every bound.       *)
(*                                                                         *)
(* What a drive holds is tied to the row in three ways: a fresh copy is    *)
(* the row, a job not counted yet carries the row's instructions, and an   *)
(* item on its way to the row is nowhere on it.  The last two are lost to  *)
(* a write that is not guarded by the revision, so what rests on them is   *)
(* shown for runs that never park on a follow-up, or have one drive.       *)
(***************************************************************************)
EXTENDS AgentJobs, FiniteSetTheorems, TLAPS

\* The hypotheses.  Under the first no step ever waits for a follow-up, so the
\* one write that is not a compare-and-swap (parkStepOnDecision) is not made;
\* under the second the run has one drive.
NeverParks == Unattended = {TRUE}
OneDrive   == \A d, e \in Drivers : d = e

-----------------------------------------------------------------------------
(* The inductive invariants. *)

DriveType == [pc : Pcs, snap : RunType, seen : SUBSET Items, brief : SUBSET Items]

TypeInv ==
  /\ DOMAIN jobs \in SUBSET Epochs
  /\ jobs \in [DOMAIN jobs -> JobEntry]
  /\ run \in RunType
  /\ fresh \in SUBSET Drivers
  /\ driver \in [Drivers -> DriveType]
  /\ surfaced \in [Items -> Epochs \cup {NoJob}]
  /\ applied \in SUBSET Items
  /\ left \in [decisions : 0 .. MaxDecisions, crashes : 0 .. MaxCrashes]

\* Every dispatch but the first is paid for by a loop, a recovery or a
\* decision; what is still asked of the coder is a decision not yet spent.
Owed(r)       == Cardinality(InState(r.items, {"asked"}))
Recoveries(r) == r.recovered["evicted"] + r.recovered["transient"]
                   + r.recovered["contended"]
Decided       == MaxDecisions - left.decisions
Spare(r)      == IF r.job # NoJob \/ r.status # "running" THEN 1 ELSE 0
Within(r, spare) ==
  /\ \A c \in Causes : r.recovered[c] <= Limit[c]
  /\ r.count + Owed(r) <= spare + r.loops + Recoveries(r) + Decided

Afforded(v) == Within(v.snap, IF v.pc = "accepted" THEN 0 ELSE Spare(v.snap))
CountInv ==
  /\ Within(run, Spare(run))
  /\ \A d \in Drivers : Afforded(driver[d])

\* Where a drive is says what its copy holds.
PhaseOK(v) ==
  /\ v.pc \notin {"idle", "failing"} => v.snap.status = "running"
  /\ v.pc \in {"opening", "starting", "settling"} => v.snap.job = NoJob
  /\ v.pc = "accepted" => v.snap.job = v.snap.count
  /\ v.pc \in {"polling", "folding", "completing", "failed"} \cup Causes
       => v.snap.job # NoJob
  /\ v.pc = "settling" =>
       v.snap.rework = {} /\ InState(v.snap.items, {"pending", "asked"}) = {}

\* A copy at the row's revision is the row.
IsRow(v) ==
  /\ v.pc \notin {"idle", "failing"}
  /\ v.pc # "accepted" => v.snap = run
  /\ v.pc = "accepted" =>
       v.snap = [run EXCEPT !.job = run.count] /\ run.job = NoJob
FreshOK(d) == d \in fresh => IsRow(driver[d])

PhaseInv == \A d \in Drivers : PhaseOK(driver[d]) /\ FreshOK(d)

\* A step that waits or is passed has no job and no instructions left; one that
\* waits for approval only has nothing left to ask for.
PassOK(r) ==
  /\ r.status \in {"blocked", "done"} => r.job = NoJob /\ r.rework = {}
  /\ r.status = "done" => ~HasPending(r)
  /\ r.status = "blocked" /\ ~HasPending(r) => InState(r.items, {"asked"}) = {}
PassInv == PassOK(run)

\* An item on its way to the row is in one place, and on no copy of the row.
Carries(d, i) == driver[d].pc \in {"folding", "completing"} /\ i \in driver[d].seen
Buffers(id, i) == id \in DOMAIN jobs /\ i \in jobs[id].buffer
OnItsWay(i) == \/ \E d \in Drivers : Carries(d, i)
               \/ \E id \in Epochs : Buffers(id, i)
ItemInv ==
  \A i \in Items :
    /\ surfaced[i] = NoJob => ~OnItsWay(i)
    /\ surfaced[i] = NoJob \/ OnItsWay(i) =>
         /\ run.items[i] = "absent"
         /\ \A d \in Drivers : driver[d].snap.items[i] = "absent"
    /\ \A d, e \in Drivers : Carries(d, i) /\ Carries(e, i) => d = e
    /\ \A a, b \in Epochs : Buffers(a, i) /\ Buffers(b, i) => a = b
    /\ \A d \in Drivers, a \in Epochs : ~(Carries(d, i) /\ Buffers(a, i))

JobsInv == TypeInv /\ CountInv /\ PhaseInv /\ PassInv /\ ItemInv

\* A job started at the epoch the row is about to count carries the row's
\* instructions, and the row is not waiting; so does the one the row counts.
Matches(id, brief) ==
  /\ id <= run.count
  /\ id = run.count =>
       run.job = NoJob /\ run.status \in {"running", "failed"} /\ brief = run.rework
  /\ id + 1 = run.count /\ run.job # NoJob => brief = run.rework

\* The dispatches the harness has or a drive is about to make, and what their
\* prompts carry.
Known(id, brief) ==
  \/ id \in DOMAIN jobs /\ jobs[id].brief = brief
  \/ \E d \in Drivers : /\ driver[d].pc \in {"starting", "accepted"}
                        /\ driver[d].snap.count = id /\ driver[d].snap.rework = brief
AllBehind == \A id \in Epochs, brief \in SUBSET Items :
               Known(id, brief) => id < run.count

RoundOK(d) ==
  /\ driver[d].pc = "settling" => AllBehind
  /\ driver[d].pc = "completing" => driver[d].brief = run.rework
RoundInv ==
  /\ run.job # NoJob => run.job + 1 = run.count
  /\ \A id \in Epochs, brief \in SUBSET Items : Known(id, brief) => Matches(id, brief)
  /\ \A d \in fresh : RoundOK(d)

\* The one drive of a run works on the row as it is, but for the items.
SoloOK(d) ==
  /\ driver[d].pc \notin {"idle", "failing"} =>
       /\ run.status = "running"
       /\ run.count = driver[d].snap.count /\ run.rework = driver[d].snap.rework
       /\ run.job = IF driver[d].pc = "accepted" THEN NoJob ELSE driver[d].snap.job
       /\ \A i \in Items : driver[d].snap.items[i] = "sent" => i \in applied \cup run.rework
  /\ driver[d].pc \in {"completing", "failed", "settling"} \cup Causes => RunningJobs = {}
  /\ driver[d].pc = "completing" => driver[d].brief = run.rework
SentOK == \A i \in Items : run.items[i] = "sent" => i \in applied \cup run.rework
SoloInv ==
  /\ \A d \in Drivers : SoloOK(d)
  /\ \A id \in RunningJobs : id = run.job \/ (id = run.count /\ run.job = NoJob)
  /\ SentOK

-----------------------------------------------------------------------------
(* The constants, and what a copy holds. *)

LEMMA Bounds ==
  /\ MaxLoops \in Nat /\ MaxLoops > 0 /\ MaxDecisions \in Nat /\ MaxCrashes \in Nat
  /\ \A c \in Causes : Limit[c] \in Nat
  /\ MaxEpoch \in Nat /\ Epochs \in SUBSET Nat /\ 0 \in Epochs
  /\ NoJob \in Nat /\ \A e \in Epochs : e # NoJob
  /\ IsFiniteSet(Items) /\ Gated \in BOOLEAN /\ Unattended \in SUBSET BOOLEAN
<1>1. /\ MaxLoops \in Nat /\ MaxLoops > 0 /\ MaxDecisions \in Nat /\ MaxCrashes \in Nat
      /\ IsFiniteSet(Items) /\ Gated \in BOOLEAN /\ Unattended \in SUBSET BOOLEAN
      /\ \A c \in Causes : Limit[c] \in Nat
  BY JobsAssumption DEF JobsAssumption
<1>2. MaxEpoch \in Nat
  <2>1. Limit["evicted"] \in Nat /\ Limit["transient"] \in Nat /\ Limit["contended"] \in Nat
    BY <1>1 DEF Causes
  <2>. QED
    BY <1>1, <2>1 DEF MaxEpoch
<1>. QED
  BY <1>1, <1>2 DEF Epochs, NoJob

LEMMA RunFields ==
  ASSUME NEW r \in RunType
  PROVE  /\ r.status \in {"running", "blocked", "done", "failed"}
         /\ r.job \in Epochs \cup {NoJob} /\ r.count \in Epochs /\ r.count \in Nat
         /\ r.loops \in 0 .. MaxLoops /\ r.loops \in Nat /\ r.rework \in SUBSET Items
         /\ r.items \in [Items -> ItemStates]
         /\ r.recovered \in [Causes -> Nat]
<1>1. /\ r.status \in {"running", "blocked", "done", "failed"}
      /\ r.job \in Epochs \cup {NoJob} /\ r.count \in Epochs
      /\ r.loops \in 0 .. MaxLoops /\ r.rework \in SUBSET Items
      /\ r.items \in [Items -> ItemStates] /\ r.recovered \in [Causes -> Nat]
  BY DEF RunType
<1>2. r.count \in Nat
  BY <1>1, Bounds
<1>3. r.loops \in Nat
  BY <1>1
<1>. QED
  BY <1>1, <1>2, <1>3

LEMMA NewRunTyped == NewRun \in RunType /\ Idle \in DriveType
<1>1. NewRun \in RunType
  BY Bounds DEF NewRun, RunType, ItemStates
<1>. QED
  BY <1>1 DEF Idle, DriveType, Pcs

LEMMA MovedFacts ==
  ASSUME NEW items \in [Items -> ItemStates], NEW from, NEW to \in ItemStates
  PROVE  /\ Moved(items, from, to) \in [Items -> ItemStates]
         /\ \A i \in Items : Moved(items, from, to)[i] =
                               IF items[i] = from THEN to ELSE items[i]
BY DEF Moved

LEMMA StreamedFacts ==
  ASSUME NEW items \in [Items -> ItemStates], NEW seen
  PROVE  /\ Streamed(items, seen) \in [Items -> ItemStates]
         /\ \A i \in Items : Streamed(items, seen)[i] =
                               IF i \in seen THEN "pending" ELSE items[i]
BY DEF Streamed, ItemStates

LEMMA LoopedFacts ==
  ASSUME NEW r \in RunType, r.loops < MaxLoops
  PROVE  /\ Looped(r) \in RunType
         /\ Looped(r).status = "running" /\ Looped(r).job = NoJob
         /\ Looped(r).count = r.count /\ Looped(r).loops = r.loops + 1
         /\ Looped(r).rework = InState(r.items, {"asked"})
         /\ Looped(r).items = Moved(r.items, "asked", "sent")
         /\ Looped(r).recovered = r.recovered
<1>1. r.loops + 1 \in 0 .. MaxLoops
  BY RunFields, Bounds
<1>2. InState(r.items, {"asked"}) \in SUBSET Items
  BY DEF InState
<1>3. Moved(r.items, "asked", "sent") \in [Items -> ItemStates]
  BY RunFields, MovedFacts DEF ItemStates
<1>. QED
  BY <1>1, <1>2, <1>3 DEF Looped, RunType

LEMMA DroppedFacts ==
  ASSUME NEW r \in RunType
  PROVE  /\ Dropped(r) \in RunType
         /\ Dropped(r).status = r.status /\ Dropped(r).job = r.job
         /\ Dropped(r).count = r.count /\ Dropped(r).loops = r.loops
         /\ Dropped(r).rework = r.rework /\ Dropped(r).recovered = r.recovered
         /\ Dropped(r).items = Moved(r.items, "asked", "dropped")
<1>1. Moved(r.items, "asked", "dropped") \in [Items -> ItemStates]
  BY RunFields, MovedFacts DEF ItemStates
<1>. QED
  BY <1>1 DEF Dropped, RunType

LEMMA PassedFacts ==
  ASSUME NEW r \in RunType
  PROVE  /\ Passed(r) \in RunType
         /\ Passed(r).status = (IF Gated THEN "blocked" ELSE "done")
         /\ Passed(r).job = r.job /\ Passed(r).count = r.count /\ Passed(r).loops = r.loops
         /\ Passed(r).rework = r.rework /\ Passed(r).recovered = r.recovered
         /\ Passed(r).items = r.items
BY DEF Passed, RunType

LEMMA RecordedFacts ==
  ASSUME NEW r \in RunType, NEW seen, NEW alone \in BOOLEAN
  PROVE  /\ Recorded(r, seen, alone) \in RunType
         /\ Recorded(r, seen, alone).status = r.status
         /\ Recorded(r, seen, alone).job = NoJob
         /\ Recorded(r, seen, alone).count = r.count
         /\ Recorded(r, seen, alone).loops = r.loops
         /\ Recorded(r, seen, alone).rework = {}
         /\ Recorded(r, seen, alone).recovered = r.recovered
         /\ \A i \in Items : Recorded(r, seen, alone).items[i] =
              IF i \in seen \/ r.items[i] = "pending"
              THEN IF alone THEN "settled" ELSE "pending"
              ELSE r.items[i]
<1> DEFINE items == IF alone THEN Moved(Streamed(r.items, seen), "pending", "settled")
                    ELSE Streamed(r.items, seen)
<1>1. /\ items \in [Items -> ItemStates]
      /\ \A i \in Items : items[i] =
              IF i \in seen \/ r.items[i] = "pending"
              THEN IF alone THEN "settled" ELSE "pending"
              ELSE r.items[i]
  <2>1. Streamed(r.items, seen) \in [Items -> ItemStates]
    BY RunFields, StreamedFacts
  <2>. QED
    BY <2>1, RunFields, StreamedFacts, MovedFacts DEF ItemStates
<1>2. Recorded(r, seen, alone) = [r EXCEPT !.job = NoJob, !.rework = {}, !.items = items]
  BY DEF Recorded, Dismissed
<1> HIDE DEF items
<1>. QED
  BY <1>1, <1>2 DEF RunType

LEMMA RecoveredFacts ==
  ASSUME NEW r \in RunType, NEW c \in Causes
  PROVE  /\ Recovered(r, c) \in RunType
         /\ Recovered(r, c).status = r.status /\ Recovered(r, c).job = NoJob
         /\ Recovered(r, c).count = r.count /\ Recovered(r, c).loops = r.loops
         /\ Recovered(r, c).rework = r.rework /\ Recovered(r, c).items = r.items
         /\ Recovered(r, c).recovered = [r.recovered EXCEPT ![c] = @ + 1]
<1>1. [r.recovered EXCEPT ![c] = @ + 1] \in [Causes -> Nat]
  BY RunFields
<1>. QED
  BY <1>1 DEF Recovered, RunType


-----------------------------------------------------------------------------
(* What is owed. *)

LEMMA OwedFacts ==
  ASSUME NEW r \in RunType
  PROVE  /\ IsFiniteSet(InState(r.items, {"asked"})) /\ Owed(r) \in Nat
         /\ InState(r.items, {"asked"}) = {} => Owed(r) = 0
         /\ InState(r.items, {"asked"}) # {} => Owed(r) >= 1
<1>1. IsFiniteSet(InState(r.items, {"asked"}))
  <2>1. InState(r.items, {"asked"}) \in SUBSET Items
    BY DEF InState
  <2>. QED
    BY <2>1, Bounds, FS_Subset
<1>2. Owed(r) \in Nat
  BY <1>1, FS_CardinalityType DEF Owed
<1>3. Owed(r) = 0 <=> InState(r.items, {"asked"}) = {}
  BY <1>1, FS_EmptySet DEF Owed
<1>. QED
  BY <1>1, <1>2, <1>3

\* Nothing more is owed when nothing more is asked.
LEMMA OwedShrinks ==
  ASSUME NEW r \in RunType, NEW s \in RunType,
         \A i \in Items : s.items[i] = "asked" => r.items[i] = "asked"
  PROVE  Owed(s) <= Owed(r)
<1>1. InState(s.items, {"asked"}) \in SUBSET InState(r.items, {"asked"})
  BY DEF InState
<1>. QED
  BY <1>1, OwedFacts, FS_Subset DEF Owed

LEMMA OwedOneMore ==
  ASSUME NEW r \in RunType, NEW s \in RunType, NEW i \in Items,
         \A j \in Items \ {i} : s.items[j] = "asked" => r.items[j] = "asked"
  PROVE  Owed(s) <= Owed(r) + 1
<1> DEFINE R == InState(r.items, {"asked"})
           S == InState(s.items, {"asked"})
<1>1. S \in SUBSET (R \cup {i})
  BY DEF InState
<1>2. IsFiniteSet(R \cup {i}) /\ Cardinality(R \cup {i}) <= Cardinality(R) + 1
  <2>1. IsFiniteSet(R) /\ Cardinality(R) \in Nat
    BY OwedFacts, FS_CardinalityType
  <2>2. IsFiniteSet(R \cup {i})
    BY <2>1, FS_AddElement
  <2>3. \/ Cardinality(R \cup {i}) = Cardinality(R)
        \/ Cardinality(R \cup {i}) = Cardinality(R) + 1
    BY <2>1, FS_AddElement
  <2>. QED
    BY <2>1, <2>2, <2>3
<1> HIDE DEF R, S
<1>3. /\ Cardinality(S) <= Cardinality(R \cup {i})
      /\ Cardinality(S) \in Nat /\ Cardinality(R) \in Nat
      /\ Cardinality(R \cup {i}) \in Nat
  BY <1>1, <1>2, OwedFacts, FS_Subset, FS_CardinalityType DEF R, S
<1>. QED
  BY <1>2, <1>3 DEF Owed, R, S

LEMMA RecoveriesFacts ==
  ASSUME NEW r \in RunType
  PROVE  /\ Recoveries(r) \in Nat
         /\ \A s \in RunType : s.recovered = r.recovered => Recoveries(s) = Recoveries(r)
         /\ \A s \in RunType, c \in Causes :
              s.recovered = [r.recovered EXCEPT ![c] = @ + 1]
                => Recoveries(s) = Recoveries(r) + 1
BY RunFields DEF Recoveries, Causes

LEMMA DecidedFacts ==
  ASSUME TypeInv
  PROVE  /\ Decided \in Nat /\ Decided <= MaxDecisions
         /\ left.decisions \in 0 .. MaxDecisions /\ left.decisions \in Nat
BY Bounds DEF TypeInv, Decided

\* The count stays within the epochs.
LEMMA WithinEpochs ==
  ASSUME TypeInv, NEW r \in RunType, Within(r, 0)
  PROVE  r.count + 1 \in Epochs
<1>1. Recoveries(r) <= Limit["evicted"] + Limit["transient"] + Limit["contended"]
  BY Bounds, RunFields DEF Within, Recoveries, Causes
<1>2. /\ r.count <= MaxLoops + Recoveries(r) + MaxDecisions
      /\ Recoveries(r) \in Nat
  BY Bounds, RunFields, DecidedFacts, OwedFacts, RecoveriesFacts DEF Within
<1>3. Limit["evicted"] \in Nat /\ Limit["transient"] \in Nat /\ Limit["contended"] \in Nat
  BY Bounds DEF Causes
<1>. QED
  BY <1>1, <1>2, <1>3, Bounds, RunFields DEF MaxEpoch, Epochs

LEMMA WithinSpares ==
  ASSUME TypeInv, NEW r \in RunType
  PROVE  /\ Within(r, 0) => Within(r, 1)
         /\ Within(r, Spare(r)) => Within(r, 1)
         /\ r.job = NoJob /\ r.status = "running" => Spare(r) = 0
         /\ r.job # NoJob \/ r.status # "running" => Spare(r) = 1
<1>1. /\ r.count \in Nat /\ Owed(r) \in Nat /\ r.loops \in Nat /\ Recoveries(r) \in Nat
      /\ Decided \in Nat
  BY RunFields, DecidedFacts, OwedFacts, RecoveriesFacts
<1>2. Within(r, 0) => Within(r, 1)
  BY <1>1 DEF Within
<1>. QED
  BY <1>2 DEF Spare

\* What pays for what: a copy s that counts no more dispatches than r, asks no
\* more, and has r's recoveries.
LEMMA WithinAgain ==
  ASSUME TypeInv, NEW r \in RunType, NEW s \in RunType, NEW k \in {0, 1}, Within(r, k),
         s.count = r.count, s.loops = r.loops, s.recovered = r.recovered,
         \A i \in Items : s.items[i] = "asked" => r.items[i] = "asked"
  PROVE  Within(s, k)
<1>1. /\ r.count \in Nat /\ Owed(r) \in Nat /\ r.loops \in Nat /\ Recoveries(r) \in Nat
      /\ Decided \in Nat /\ Owed(s) \in Nat /\ Recoveries(s) = Recoveries(r)
      /\ Owed(s) <= Owed(r)
  BY RunFields, DecidedFacts, OwedFacts, RecoveriesFacts, OwedShrinks
<1>. QED
  BY <1>1 DEF Within

LEMMA WithinLooped ==
  ASSUME TypeInv, NEW r \in RunType, r.loops < MaxLoops, Within(r, 1)
  PROVE  Within(Looped(r), 0)
<1> DEFINE s == Looped(r)
<1>1. /\ s \in RunType /\ s.count = r.count /\ s.loops = r.loops + 1
      /\ s.recovered = r.recovered /\ s.items = Moved(r.items, "asked", "sent")
  BY LoopedFacts
<1> HIDE DEF s
<1>2. InState(s.items, {"asked"}) = {}
  BY <1>1, RunFields, MovedFacts DEF InState, ItemStates
<1>3. /\ r.count \in Nat /\ Owed(r) \in Nat /\ r.loops \in Nat /\ Recoveries(r) \in Nat
      /\ Decided \in Nat /\ Owed(s) = 0 /\ Recoveries(s) = Recoveries(r)
  BY <1>1, <1>2, RunFields, DecidedFacts, OwedFacts, RecoveriesFacts
<1>4. Within(s, 0)
  BY <1>1, <1>3 DEF Within
<1>. QED
  BY <1>4 DEF s

LEMMA WithinDropped ==
  ASSUME TypeInv, NEW r \in RunType, InState(r.items, {"asked"}) # {}, Within(r, 1)
  PROVE  Within(Dropped(r), 0)
<1> DEFINE s == Dropped(r)
<1>1. /\ s \in RunType /\ s.count = r.count /\ s.loops = r.loops
      /\ s.recovered = r.recovered /\ s.items = Moved(r.items, "asked", "dropped")
  BY DroppedFacts
<1> HIDE DEF s
<1>2. InState(s.items, {"asked"}) = {}
  BY <1>1, RunFields, MovedFacts DEF InState, ItemStates
<1>3. /\ r.count \in Nat /\ Owed(r) \in Nat /\ r.loops \in Nat /\ Recoveries(r) \in Nat
      /\ Decided \in Nat /\ Owed(s) = 0 /\ Owed(r) >= 1 /\ Recoveries(s) = Recoveries(r)
  BY <1>1, <1>2, RunFields, DecidedFacts, OwedFacts, RecoveriesFacts
<1>4. Within(s, 0)
  BY <1>1, <1>3 DEF Within
<1>. QED
  BY <1>4 DEF s

LEMMA WithinRecovered ==
  ASSUME TypeInv, NEW r \in RunType, NEW c \in Causes, r.recovered[c] < Limit[c],
         Within(r, 1)
  PROVE  Within(Recovered(r, c), 0)
<1> DEFINE s == Recovered(r, c)
<1>1. /\ s \in RunType /\ s.count = r.count /\ s.loops = r.loops
      /\ s.recovered = [r.recovered EXCEPT ![c] = @ + 1] /\ s.items = r.items
  BY RecoveredFacts
<1> HIDE DEF s
<1>2. /\ r.count \in Nat /\ Owed(r) \in Nat /\ r.loops \in Nat /\ Recoveries(r) \in Nat
      /\ Decided \in Nat /\ Owed(s) = Owed(r) /\ Recoveries(s) = Recoveries(r) + 1
  BY <1>1, RunFields, DecidedFacts, OwedFacts, RecoveriesFacts DEF Owed
<1>3. \A b \in Causes : s.recovered[b] <= Limit[b]
  BY <1>1, RunFields, Bounds DEF Within
<1>4. Within(s, 0)
  BY <1>1, <1>2, <1>3 DEF Within
<1>. QED
  BY <1>4 DEF s


-----------------------------------------------------------------------------
(* Steps, by what they do to the row and to a drive. *)

LEMMA TypeFacts ==
  ASSUME TypeInv
  PROVE  /\ DOMAIN jobs \in SUBSET Epochs
         /\ \A id \in DOMAIN jobs : jobs[id] \in JobEntry
         /\ run \in RunType /\ fresh \in SUBSET Drivers
         /\ driver \in [Drivers -> DriveType]
         /\ \A d \in Drivers :
              /\ driver[d] \in DriveType /\ driver[d].pc \in Pcs
              /\ driver[d].snap \in RunType
              /\ driver[d].seen \in SUBSET Items /\ driver[d].brief \in SUBSET Items
         /\ surfaced \in [Items -> Epochs \cup {NoJob}] /\ applied \in SUBSET Items
         /\ left \in [decisions : 0 .. MaxDecisions, crashes : 0 .. MaxCrashes]
BY DEF TypeInv, DriveType

\* The row stays: drive d goes on with what it has, reads, or starts over.  What
\* it takes from a buffer is in the buffer no more.
LEMMA DriveKeeps ==
  ASSUME JobsInv, NEW d \in Drivers, NEW v \in DriveType,
         driver' = [driver EXCEPT ![d] = v],
         run' = run, surfaced' = surfaced, applied' = applied,
         left' \in [decisions : 0 .. MaxDecisions, crashes : 0 .. MaxCrashes],
         left'.decisions = left.decisions,
         DOMAIN jobs' \in SUBSET Epochs, jobs' \in [DOMAIN jobs' -> JobEntry],
         \A id \in Epochs, i \in Items : Buffers(id, i)' => Buffers(id, i),
         fresh' \in SUBSET (fresh \cup {d}), d \in fresh' => IsRow(v),
         PhaseOK(v), Afforded(v),
         \A i \in Items : v.snap.items[i] # "absent" =>
           run.items[i] # "absent" \/ driver[d].snap.items[i] # "absent",
         v.pc \in {"folding", "completing"} =>
           \A i \in v.seen : \E id \in Epochs : Buffers(id, i) /\ ~Buffers(id, i)'
  PROVE  JobsInv'
<1>1. TypeInv'
  BY TypeFacts DEF JobsInv, TypeInv
<1>2. /\ driver'[d] = v
      /\ \A e \in Drivers \ {d} : driver'[e] = driver[e]
  BY TypeFacts DEF JobsInv
<1>3. CountInv'
  <2>1. Decided' = Decided
    BY DEF Decided
  <2>2. \A e \in Drivers : Afforded(driver[e])'
    BY <1>2, <2>1 DEF JobsInv, CountInv, Afforded, Within
  <2>3. Within(run, Spare(run))'
    BY <2>1 DEF JobsInv, CountInv, Within
  <2>. QED
    BY <2>2, <2>3 DEF CountInv
<1>4. PhaseInv'
  <2> SUFFICES ASSUME NEW e \in Drivers PROVE PhaseOK(driver[e])' /\ FreshOK(e)'
    BY DEF PhaseInv
  <2>1. CASE e = d
    BY <1>2, <2>1 DEF PhaseOK, FreshOK, IsRow
  <2>2. CASE e # d
    BY <1>2, <2>2 DEF JobsInv, PhaseInv, PhaseOK, FreshOK, IsRow
  <2>. QED
    BY <2>1, <2>2
<1>5. PassInv'
  BY DEF JobsInv, PassInv
<1>6. ItemInv'
  <2> SUFFICES ASSUME NEW i \in Items
               PROVE  (/\ surfaced[i] = NoJob => ~OnItsWay(i)
                       /\ surfaced[i] = NoJob \/ OnItsWay(i) =>
                            /\ run.items[i] = "absent"
                            /\ \A e \in Drivers : driver[e].snap.items[i] = "absent"
                       /\ \A e, f \in Drivers : Carries(e, i) /\ Carries(f, i) => e = f
                       /\ \A a, b \in Epochs : Buffers(a, i) /\ Buffers(b, i) => a = b
                       /\ \A e \in Drivers, a \in Epochs : ~(Carries(e, i) /\ Buffers(a, i)))'
    BY DEF ItemInv
  <2>1. \A e \in Drivers \ {d} : Carries(e, i)' <=> Carries(e, i)
    BY <1>2 DEF Carries
  <2>2. Carries(d, i)' => \E id \in Epochs : Buffers(id, i) /\ ~Buffers(id, i)'
    BY <1>2 DEF Carries
  <2>3. \A id \in Epochs : Buffers(id, i)' => Buffers(id, i)
    OBVIOUS
  <2>4. /\ surfaced[i] = NoJob => ~OnItsWay(i)
        /\ surfaced[i] = NoJob \/ OnItsWay(i) =>
             /\ run.items[i] = "absent"
             /\ \A e \in Drivers : driver[e].snap.items[i] = "absent"
        /\ \A e, f \in Drivers : Carries(e, i) /\ Carries(f, i) => e = f
        /\ \A a, b \in Epochs : Buffers(a, i) /\ Buffers(b, i) => a = b
        /\ \A e \in Drivers, a \in Epochs : ~(Carries(e, i) /\ Buffers(a, i))
    BY DEF JobsInv, ItemInv
  <2>5. OnItsWay(i)' => OnItsWay(i)
    BY <2>1, <2>2, <2>3 DEF OnItsWay
  <2>6. (run.items[i] = "absent" /\ \A e \in Drivers : driver[e].snap.items[i] = "absent")
          => \A e \in Drivers : driver'[e].snap.items[i] = "absent"
    BY <1>2
  <2>7. \A e, f \in Drivers : Carries(e, i)' /\ Carries(f, i)' => e = f
    BY <2>1, <2>2, <2>4
  <2>8. \A e \in Drivers, a \in Epochs : ~(Carries(e, i)' /\ Buffers(a, i)')
    BY <2>1, <2>2, <2>3, <2>4
  <2>. QED
    BY <2>3, <2>4, <2>5, <2>6, <2>7, <2>8
<1>. QED
  BY <1>1, <1>3, <1>4, <1>5, <1>6 DEF JobsInv

\* The row is written by drive d, or read again and written.
LEMMA WriteKeeps ==
  ASSUME JobsInv, NEW d \in Drivers, NEW v \in DriveType, NEW r \in RunType,
         driver' = [driver EXCEPT ![d] = v], run' = r,
         surfaced' = surfaced, jobs' = jobs, left' = left, applied' \in SUBSET Items,
         fresh' = {} \/ (fresh' = {d} /\ v.pc \notin {"idle", "failing", "accepted"}),
         v.snap = NewRun \/ v.snap = r, v.pc \in {"idle", "failing"} \/ v.snap = r,
         PhaseOK(v), v.pc \notin {"accepted", "folding", "completing"},
         Within(r, Spare(r)), PassOK(r),
         \A i \in Items : r.items[i] # "absent" =>
           run.items[i] # "absent" \/ driver[d].snap.items[i] # "absent" \/ Carries(d, i)
  PROVE  JobsInv'
<1>1. TypeInv'
  BY TypeFacts DEF JobsInv, TypeInv
<1>2. /\ driver'[d] = v
      /\ \A e \in Drivers \ {d} : driver'[e] = driver[e]
  BY TypeFacts DEF JobsInv
<1>3. CountInv'
  <2>1. Decided' = Decided /\ Decided \in Nat
    BY DecidedFacts DEF Decided, JobsInv
  <2>2. Within(NewRun, 0)
    <3>1. /\ NewRun \in RunType /\ Owed(NewRun) = 0 /\ Recoveries(NewRun) = 0
          /\ NewRun.count = 0 /\ NewRun.loops = 0
      <4>1. InState(NewRun.items, {"asked"}) = {}
        BY DEF InState, NewRun
      <4>. QED
        BY <4>1, NewRunTyped, OwedFacts DEF NewRun, Recoveries, Causes
    <3>2. \A c \in Causes : NewRun.recovered[c] <= Limit[c]
      BY Bounds DEF NewRun
    <3>. QED
      BY <2>1, <3>1, <3>2 DEF Within
  <2>3. Spare(NewRun) = 0
    BY DEF Spare, NewRun
  <2>4. Within(v.snap, Spare(v.snap))
    BY <2>2, <2>3
  <2>5. \A e \in Drivers : Afforded(driver[e])'
    BY <1>2, <2>1, <2>4 DEF JobsInv, CountInv, Afforded, Within
  <2>6. Within(run, Spare(run))'
    BY <2>1 DEF Within
  <2>. QED
    BY <2>5, <2>6 DEF CountInv
<1>4. PhaseInv'
  <2> SUFFICES ASSUME NEW e \in Drivers PROVE PhaseOK(driver[e])' /\ FreshOK(e)'
    BY DEF PhaseInv
  <2>1. CASE e = d
    BY <1>2, <2>1 DEF PhaseOK, FreshOK, IsRow
  <2>2. CASE e # d
    BY <1>2, <2>2 DEF JobsInv, PhaseInv, PhaseOK, FreshOK, IsRow
  <2>. QED
    BY <2>1, <2>2
<1>5. PassInv'
  BY DEF PassInv
<1>6. ItemInv'
  <2> SUFFICES ASSUME NEW i \in Items
               PROVE  (/\ surfaced[i] = NoJob => ~OnItsWay(i)
                       /\ surfaced[i] = NoJob \/ OnItsWay(i) =>
                            /\ run.items[i] = "absent"
                            /\ \A e \in Drivers : driver[e].snap.items[i] = "absent"
                       /\ \A e, f \in Drivers : Carries(e, i) /\ Carries(f, i) => e = f
                       /\ \A a, b \in Epochs : Buffers(a, i) /\ Buffers(b, i) => a = b
                       /\ \A e \in Drivers, a \in Epochs : ~(Carries(e, i) /\ Buffers(a, i)))'
    BY DEF ItemInv
  <2>1. \A e \in Drivers \ {d} : Carries(e, i)' <=> Carries(e, i)
    BY <1>2 DEF Carries
  <2>2. ~Carries(d, i)'
    BY <1>2 DEF Carries
  <2>3. \A id \in Epochs : Buffers(id, i)' <=> Buffers(id, i)
    BY DEF Buffers
  <2>4. /\ surfaced[i] = NoJob => ~OnItsWay(i)
        /\ surfaced[i] = NoJob \/ OnItsWay(i) =>
             /\ run.items[i] = "absent"
             /\ \A e \in Drivers : driver[e].snap.items[i] = "absent"
        /\ \A e, f \in Drivers : Carries(e, i) /\ Carries(f, i) => e = f
        /\ \A a, b \in Epochs : Buffers(a, i) /\ Buffers(b, i) => a = b
        /\ \A e \in Drivers, a \in Epochs : ~(Carries(e, i) /\ Buffers(a, i))
    BY DEF JobsInv, ItemInv
  <2>5. OnItsWay(i)' => OnItsWay(i)
    BY <2>1, <2>2, <2>3 DEF OnItsWay
  <2>6. surfaced[i] = NoJob \/ OnItsWay(i)' => ~Carries(d, i)
    BY <2>1, <2>2, <2>3, <2>4 DEF OnItsWay
  <2>7. surfaced[i] = NoJob \/ OnItsWay(i)' => r.items[i] = "absent"
    BY <2>4, <2>5, <2>6
  <2>8. NewRun.items[i] = "absent"
    BY DEF NewRun
  <2>9. surfaced[i] = NoJob \/ OnItsWay(i)' =>
          \A e \in Drivers : driver'[e].snap.items[i] = "absent"
    BY <1>2, <2>4, <2>5, <2>7, <2>8
  <2>. QED
    BY <2>1, <2>2, <2>3, <2>4, <2>5, <2>7, <2>9
<1>. QED
  BY <1>1, <1>3, <1>4, <1>5, <1>6 DEF JobsInv

\* Where a drive is when it rests or goes on.
LEMMA AtFacts ==
  ASSUME TypeInv, NEW d \in Drivers, NEW pc \in Pcs
  PROVE  /\ At(d, pc) \in DriveType /\ At(d, pc).pc = pc
         /\ pc \in {"idle", "failing"} =>
              At(d, pc).snap = NewRun /\ PhaseOK(At(d, pc)) /\ Afforded(At(d, pc))
         /\ pc \notin {"idle", "failing"} =>
              At(d, pc).snap = driver[d].snap /\ At(d, pc).seen = driver[d].seen
<1>1. CASE pc \in {"idle", "failing"}
  <2>1. At(d, pc) = [Idle EXCEPT !.pc = pc]
    BY <1>1 DEF At, Idle
  <2>2. /\ At(d, pc) \in DriveType /\ At(d, pc).pc = pc /\ At(d, pc).snap = NewRun
    BY <2>1, NewRunTyped DEF Idle, DriveType
  <2>3. Within(NewRun, 0)
    <3>1. /\ NewRun \in RunType /\ Owed(NewRun) = 0 /\ Recoveries(NewRun) = 0
          /\ NewRun.count = 0 /\ NewRun.loops = 0
      <4>1. InState(NewRun.items, {"asked"}) = {}
        BY DEF InState, NewRun
      <4>. QED
        BY <4>1, NewRunTyped, OwedFacts DEF NewRun, Recoveries, Causes
    <3>2. \A c \in Causes : NewRun.recovered[c] <= Limit[c]
      BY Bounds DEF NewRun
    <3>. QED
      BY <3>1, <3>2, DecidedFacts DEF Within
  <2>4. Spare(NewRun) = 0
    BY DEF Spare, NewRun
  <2>5. Afforded(At(d, pc))
    BY <1>1, <2>2, <2>3, <2>4 DEF Afforded
  <2>6. PhaseOK(At(d, pc))
    BY <1>1, <2>2 DEF PhaseOK, Causes
  <2>. QED
    BY <1>1, <2>2, <2>5, <2>6
<1>2. CASE pc \notin {"idle", "failing"}
  <2>1. At(d, pc) = [driver[d] EXCEPT !.pc = pc]
    BY <1>2 DEF At
  <2>. QED
    BY <1>2, <2>1, TypeFacts DEF DriveType
<1>. QED
  BY <1>1, <1>2

\* The drive rests: idle, or about to fail the run.
LEMMA RestKeeps ==
  ASSUME JobsInv, NEW d \in Drivers, NEW pc \in {"idle", "failing"}, To(d, pc),
         UNCHANGED <<jobs, run, surfaced, applied>>,
         left' \in [decisions : 0 .. MaxDecisions, crashes : 0 .. MaxCrashes],
         left'.decisions = left.decisions,
         fresh' \in SUBSET (fresh \ {d})
  PROVE  JobsInv'
<1> DEFINE v == At(d, pc)
<1>1. /\ v \in DriveType /\ v.pc = pc /\ v.snap = NewRun /\ PhaseOK(v) /\ Afforded(v)
  BY AtFacts DEF JobsInv, Pcs
<1>2. driver' = [driver EXCEPT ![d] = v]
  BY DEF To
<1> HIDE DEF v
<1>3. \A i \in Items : v.snap.items[i] = "absent"
  BY <1>1 DEF NewRun
<1>4. /\ DOMAIN jobs' \in SUBSET Epochs /\ jobs' \in [DOMAIN jobs' -> JobEntry]
      /\ \A id \in Epochs, i \in Items : Buffers(id, i)' => Buffers(id, i)
  BY DEF JobsInv, TypeInv, Buffers
<1>5. fresh' \in SUBSET (fresh \cup {d}) /\ d \notin fresh'
  OBVIOUS
<1>6. v.pc \in {"folding", "completing"} =>
        \A i \in v.seen : \E id \in Epochs : Buffers(id, i) /\ ~Buffers(id, i)'
  BY <1>1
<1>7. \A i \in Items : v.snap.items[i] # "absent" =>
        run.items[i] # "absent" \/ driver[d].snap.items[i] # "absent"
  BY <1>3
<1>8. run' = run /\ surfaced' = surfaced /\ applied' = applied
  OBVIOUS
<1>. QED
  BY <1>1, <1>2, <1>4, <1>5, <1>6, <1>7, <1>8, DriveKeeps, ZenonT(60)

\* A compare-and-swap: the row is what was read, or the drive starts over.
LEMMA CasKeeps ==
  ASSUME JobsInv, NEW d \in Drivers, NEW r, NEW pc, CasPersist(d, r, pc),
         pc \in {"idle", "failing", "starting", "settling"},
         UNCHANGED <<jobs, surfaced, left>>, applied' \in SUBSET Items,
         d \notin fresh => applied' = applied,
         driver[d].pc \notin {"idle", "failing", "accepted"} \/ pc = "idle",
         d \in fresh =>
           /\ r \in RunType /\ Within(r, Spare(r)) /\ PassOK(r)
           /\ pc \in {"starting", "settling"} => r.status = "running" /\ r.job = NoJob
           /\ pc = "settling" =>
                r.rework = {} /\ InState(r.items, {"pending", "asked"}) = {}
           /\ \A i \in Items : r.items[i] # "absent" =>
                driver[d].snap.items[i] # "absent" \/ Carries(d, i)
  PROVE  JobsInv'
<1>1. CASE d \notin fresh
  <2>1. StartsOver(d)
    BY <1>1 DEF CasPersist, IsCurrent
  <2>2. fresh' \in SUBSET (fresh \ {d})
    BY <1>1, <2>1, TypeFacts DEF StartsOver, JobsInv
  <2>3. left' \in [decisions : 0 .. MaxDecisions, crashes : 0 .. MaxCrashes]
    BY TypeFacts DEF JobsInv
  <2>. QED
    BY <1>1, <2>1, <2>2, <2>3, RestKeeps DEF StartsOver
<1>2. CASE d \in fresh
  <2>1. Writes(d, r, pc)
    BY <1>2 DEF CasPersist, IsCurrent
  <2> DEFINE v == IF pc \in {"idle", "failing"} THEN At(d, pc)
                  ELSE [At(d, pc) EXCEPT !.snap = r]
  <2>2. driver' = [driver EXCEPT ![d] = v] /\ run' = r
    BY <2>1 DEF Writes
  <2>3. pc \in Pcs
    BY DEF Pcs
  <2>4. /\ v \in DriveType /\ v.pc = pc
        /\ pc \in {"idle", "failing"} => v.snap = NewRun /\ PhaseOK(v)
        /\ pc \notin {"idle", "failing"} => v.snap = r
    BY <1>2, <2>3, AtFacts DEF JobsInv, DriveType
  <2>5. fresh' = {} \/ (fresh' = {d} /\ v.pc \notin {"idle", "failing", "accepted"})
    BY <2>1, <2>4 DEF Writes
  <2> HIDE DEF v
  <2>6. PhaseOK(v)
    BY <1>2, <2>4 DEF PhaseOK, Causes
  <2>. QED
    BY <1>2, <2>2, <2>4, <2>5, <2>6, WriteKeeps
<1>. QED
  BY <1>1, <1>2

LEMMA FreshFacts ==
  ASSUME JobsInv, NEW d \in Drivers
  PROVE  /\ PhaseOK(driver[d]) /\ Afforded(driver[d])
         /\ d \in fresh /\ driver[d].pc # "accepted" => driver[d].snap = run
         /\ driver[d].pc \in {"idle", "failing"} => d \notin fresh
         /\ Within(run, Spare(run))
BY DEF JobsInv, PhaseInv, FreshOK, IsRow, CountInv

LEMMA AdvanceKeeps ==
  ASSUME JobsInv, NEW d \in Drivers, Advance(d)
  PROVE  JobsInv'
<1> DEFINE pc == IF run.job = NoJob THEN "opening" ELSE "polling"
           v == [Idle EXCEPT !.snap = run, !.pc = pc]
<1>1. driver' = [driver EXCEPT ![d] = v]
  BY DEF Advance
<1>2. v \in DriveType /\ v.pc = pc /\ v.snap = run
  BY NewRunTyped, TypeFacts DEF JobsInv, DriveType, Idle, Pcs
<1>3. PhaseOK(v) /\ Afforded(v) /\ IsRow(v)
  BY <1>2, FreshFacts DEF PhaseOK, Afforded, IsRow, Advance, Causes
<1>4. pc \notin {"folding", "completing"}
  OBVIOUS
<1> HIDE DEF v, pc
<1>5. /\ DOMAIN jobs' \in SUBSET Epochs /\ jobs' \in [DOMAIN jobs' -> JobEntry]
      /\ \A id \in Epochs, i \in Items : Buffers(id, i)' => Buffers(id, i)
  BY DEF JobsInv, TypeInv, Buffers, Advance
<1>6. /\ run' = run /\ surfaced' = surfaced /\ applied' = applied
      /\ left' = left /\ fresh' = fresh \cup {d}
      /\ left \in [decisions : 0 .. MaxDecisions, crashes : 0 .. MaxCrashes]
  BY TypeFacts DEF Advance, history, JobsInv
<1>. QED
  BY <1>1, <1>2, <1>3, <1>4, <1>5, <1>6, DriveKeeps

LEMMA StartJobKeeps ==
  ASSUME JobsInv, NEW d \in Drivers, StartJob(d)
  PROVE  JobsInv'
<1> DEFINE s == [driver[d].snap EXCEPT !.job = driver[d].snap.count]
           v == [driver[d] EXCEPT !.pc = "accepted", !.snap = s]
           id == driver[d].snap.count
<1>1. driver[d] \in DriveType /\ driver[d].snap \in RunType /\ driver[d].pc = "starting"
  BY TypeFacts DEF JobsInv, StartJob
<1>2. driver[d].snap.job = NoJob /\ driver[d].snap.status = "running"
  BY <1>1, FreshFacts DEF PhaseOK
<1>3. /\ s \in RunType /\ s.job = id /\ s.count = id /\ s.status = "running"
      /\ s.items = driver[d].snap.items /\ s.loops = driver[d].snap.loops
      /\ s.recovered = driver[d].snap.recovered
  BY <1>1, <1>2, RunFields DEF RunType
<1>4. v \in DriveType /\ v.pc = "accepted" /\ v.snap = s
  BY <1>1, <1>3 DEF DriveType, Pcs
<1>5. driver' = [driver EXCEPT ![d] = v]
  BY TypeFacts DEF StartJob, JobsInv
<1>6. d \in fresh => IsRow(v)
  <2>1. d \in fresh => driver[d].snap = run
    BY <1>1, FreshFacts
  <2>. QED
    BY <1>2, <1>4, <2>1 DEF IsRow
<1> HIDE DEF v
<1>7. PhaseOK(v)
  BY <1>3, <1>4 DEF PhaseOK, Causes
<1>8. Afforded(v)
  <2>1. Spare(driver[d].snap) = 0
    BY <1>2 DEF Spare
  <2>2. Within(driver[d].snap, 0)
    BY <1>1, <2>1, FreshFacts DEF Afforded
  <2>. QED
    BY <1>1, <1>3, <1>4, <2>2, WithinAgain DEF Afforded, JobsInv
<1>9. /\ run' = run /\ surfaced' = surfaced /\ applied' = applied
      /\ left' = left /\ fresh' = fresh /\ jobs' = Started(id, driver[d].snap.rework)
      /\ left \in [decisions : 0 .. MaxDecisions, crashes : 0 .. MaxCrashes]
  BY TypeFacts DEF StartJob, history, JobsInv
<1>10. /\ DOMAIN jobs' \in SUBSET Epochs /\ jobs' \in [DOMAIN jobs' -> JobEntry]
       /\ \A k \in Epochs, i \in Items : Buffers(k, i)' => Buffers(k, i)
  <2>1. id \in Epochs /\ driver[d].snap.rework \in SUBSET Items
    BY <1>1, RunFields
  <2>2. CASE Holds(id)
    BY <1>9, <2>2 DEF Started, JobsInv, TypeInv, Buffers
  <2>3. CASE ~Holds(id)
    <3>1. jobs' = [x \in DOMAIN jobs \cup {id} |->
                     IF x = id THEN [state |-> "running", brief |-> driver[d].snap.rework,
                                     buffer |-> {}]
                     ELSE jobs[x]]
      BY <1>9, <2>3 DEF Started
    <3>. QED
      BY <2>1, <2>3, <3>1, TypeFacts DEF JobsInv, JobEntry, JobStates, Buffers, Holds
  <2>. QED
    BY <2>2, <2>3
<1> HIDE DEF s, id
<1>11. /\ \A i \in Items : v.snap.items[i] # "absent" =>
            run.items[i] # "absent" \/ driver[d].snap.items[i] # "absent"
       /\ v.pc \notin {"folding", "completing"} /\ fresh' \in SUBSET (fresh \cup {d})
  BY <1>1, <1>3, <1>4, <1>9, TypeFacts DEF JobsInv
<1>12. d \in fresh' => IsRow(v)
  BY <1>6, <1>9
<1>13. /\ run' = run /\ surfaced' = surfaced /\ applied' = applied
       /\ left'.decisions = left.decisions
       /\ left' \in [decisions : 0 .. MaxDecisions, crashes : 0 .. MaxCrashes]
  BY <1>9
<1>14. v \in DriveType
  BY <1>4
<1>. QED
  BY <1>5, <1>7, <1>8, <1>10, <1>11, <1>12, <1>13, <1>14, DriveKeeps

LEMMA RecordDispatchKeeps ==
  ASSUME JobsInv, NEW d \in Drivers, RecordDispatch(d)
  PROVE  JobsInv'
<1> DEFINE s == driver[d].snap
           r == [s EXCEPT !.count = s.count + 1]
<1>1. /\ driver[d] \in DriveType /\ s \in RunType /\ driver[d].pc = "accepted"
      /\ CasPersist(d, r, "idle") /\ UNCHANGED <<jobs, history>>
  BY TypeFacts DEF JobsInv, RecordDispatch, Accepted
<1>2. Within(s, 0) /\ s.status = "running" /\ s.job = s.count
  BY <1>1, FreshFacts DEF Afforded, PhaseOK
<1>3. s.count + 1 \in Epochs /\ s.count \in Epochs /\ s.count # NoJob
  BY <1>1, <1>2, WithinEpochs, RunFields, Bounds DEF JobsInv
<1>4. /\ r \in RunType /\ r.count = s.count + 1 /\ r.job = s.job /\ r.status = "running"
      /\ r.items = s.items /\ r.loops = s.loops /\ r.recovered = s.recovered
  BY <1>1, <1>2, <1>3 DEF RunType
<1> HIDE DEF r
<1>5. Within(r, Spare(r))
  <2>1. Spare(r) = 1
    BY <1>2, <1>3, <1>4 DEF Spare
  <2>2. Owed(r) = Owed(s) /\ Recoveries(r) = Recoveries(s)
    BY <1>4 DEF Owed, Recoveries
  <2>3. /\ s.count \in Nat /\ Owed(s) \in Nat /\ s.loops \in Nat /\ Recoveries(s) \in Nat
        /\ Decided \in Nat
    BY <1>1, RunFields, DecidedFacts, OwedFacts, RecoveriesFacts DEF JobsInv
  <2>. QED
    BY <1>2, <1>4, <2>1, <2>2, <2>3 DEF Within
<1>6. PassOK(r)
  BY <1>4 DEF PassOK
<1>7. applied' \in SUBSET Items /\ applied' = applied
  BY <1>1, TypeFacts DEF history, JobsInv
<1>. QED
  BY <1>1, <1>4, <1>5, <1>6, <1>7, CasKeeps DEF history

\* A fresh copy is written back as it is.
LEMMA SameKeeps ==
  ASSUME JobsInv, NEW d \in Drivers, NEW pc \in {"failing", "starting"},
         CasPersist(d, driver[d].snap, pc), UNCHANGED <<jobs, history>>,
         driver[d].pc \notin {"idle", "failing", "accepted"},
         pc = "starting" => driver[d].pc = "opening"
  PROVE  JobsInv'
<1> DEFINE r == driver[d].snap
<1>1. r \in RunType /\ (d \in fresh => r = run)
  BY TypeFacts, FreshFacts DEF JobsInv
<1>2. Within(r, Spare(r))
  BY FreshFacts DEF Afforded
<1>3. d \in fresh => PassOK(r)
  BY <1>1 DEF JobsInv, PassInv
<1>4. pc = "starting" => r.status = "running" /\ r.job = NoJob
  BY FreshFacts DEF PhaseOK
<1>5. applied' \in SUBSET Items /\ applied' = applied
  BY TypeFacts DEF history, JobsInv
<1>. QED
  BY <1>1, <1>2, <1>3, <1>4, <1>5, CasKeeps DEF history

LEMMA PollKeeps ==
  ASSUME JobsInv, NEW d \in Drivers, Poll(d)
  PROVE  JobsInv'
<1>. PICK id : id = driver[d].snap.job
  OBVIOUS
<1>1. /\ driver[d] \in DriveType /\ driver[d].snap \in RunType /\ driver[d].pc = "polling"
      /\ run' = run /\ surfaced' = surfaced /\ applied' = applied /\ fresh' = fresh
      /\ left' = left
      /\ left \in [decisions : 0 .. MaxDecisions, crashes : 0 .. MaxCrashes]
  BY TypeFacts DEF JobsInv, Poll, history
<1>2. id # NoJob /\ driver[d].snap.status = "running" /\ id \in Epochs
  BY <1>1, FreshFacts, RunFields DEF PhaseOK
<1>3. Within(driver[d].snap, Spare(driver[d].snap))
  BY <1>1, FreshFacts DEF Afforded
<1>4. CASE Holds(id)
  <2> DEFINE pc == [running |-> "folding", done |-> "completing", failed |-> "failed",
                    contended |-> "contended"][jobs[id].state]
             v == [driver[d] EXCEPT !.pc = pc, !.seen = jobs[id].buffer,
                                    !.brief = jobs[id].brief]
  <2>1. jobs' = Drained(id) /\ driver' = [driver EXCEPT ![d] = v]
    BY <1>4, TypeFacts DEF Poll, JobsInv
  <2>2. jobs[id] \in JobEntry
    BY <1>4, TypeFacts DEF JobsInv, Holds
  <2>3. pc \in {"folding", "completing", "failed", "contended"}
    BY <2>2 DEF JobEntry, JobStates
  <2> HIDE DEF pc
  <2>4. /\ v \in DriveType /\ v.pc = pc /\ v.snap = driver[d].snap
        /\ v.seen = jobs[id].buffer
    BY <1>1, <2>2, <2>3 DEF DriveType, Pcs, Causes, JobEntry
  <2> HIDE DEF v
  <2>5. PhaseOK(v) /\ Afforded(v)
    BY <1>2, <1>3, <2>3, <2>4 DEF PhaseOK, Afforded, Causes
  <2>6. d \in fresh' => IsRow(v)
    BY <1>1, <2>3, <2>4, FreshFacts DEF IsRow
  <2>7. /\ DOMAIN jobs' \in SUBSET Epochs /\ jobs' \in [DOMAIN jobs' -> JobEntry]
        /\ \A k \in Epochs, i \in Items : Buffers(k, i)' => Buffers(k, i)
        /\ \A i \in Items : ~Buffers(id, i)'
    <3>1. jobs' = [jobs EXCEPT ![id].buffer = {}]
      BY <2>1 DEF Drained
    <3>2. DOMAIN jobs' = DOMAIN jobs
      BY <3>1
    <3>3. \A k \in DOMAIN jobs : jobs'[k] = IF k = id THEN [jobs[k] EXCEPT !.buffer = {}]
                                            ELSE jobs[k]
      BY <3>1
    <3>4. \A k \in DOMAIN jobs : jobs'[k] \in JobEntry
      BY <3>3, TypeFacts DEF JobsInv, JobEntry
    <3>5. jobs' \in [DOMAIN jobs' -> JobEntry]
      BY <3>1, <3>2, <3>4
    <3>6. \A k \in DOMAIN jobs : jobs'[k].buffer = IF k = id THEN {} ELSE jobs[k].buffer
      BY <3>3, TypeFacts DEF JobsInv, JobEntry
    <3>7. \A k \in Epochs, i \in Items : Buffers(k, i)' => Buffers(k, i) /\ k # id
      BY <3>2, <3>6 DEF Buffers
    <3>. QED
      BY <1>2, <3>2, <3>5, <3>7, TypeFacts DEF JobsInv
  <2>8. v.pc \in {"folding", "completing"} =>
          \A i \in v.seen : \E k \in Epochs : Buffers(k, i) /\ ~Buffers(k, i)'
    <3>1. \A i \in v.seen : i \in Items /\ Buffers(id, i)
      BY <1>4, <2>2, <2>4 DEF Buffers, Holds, JobEntry
    <3>2. \A i \in v.seen : Buffers(id, i) /\ ~Buffers(id, i)'
      BY <2>7, <3>1
    <3>. QED
      BY <1>2, <3>2
  <2>9. /\ \A i \in Items : v.snap.items[i] # "absent" =>
             run.items[i] # "absent" \/ driver[d].snap.items[i] # "absent"
        /\ fresh' \in SUBSET (fresh \cup {d})
        /\ run' = run /\ surfaced' = surfaced /\ applied' = applied
        /\ left'.decisions = left.decisions
        /\ left' \in [decisions : 0 .. MaxDecisions, crashes : 0 .. MaxCrashes]
    BY <1>1, <2>4
  <2>10. v \in DriveType
    BY <2>4
  <2>. QED
    BY <2>1, <2>5, <2>6, <2>7, <2>8, <2>9, <2>10, DriveKeeps
<1>5. CASE ~Holds(id)
  <2>1. PICK pc \in {"evicted", "transient"} : To(d, pc)
    BY <1>4, <1>5 DEF Poll, LostJob
  <2> DEFINE v == At(d, pc)
  <2>2. driver' = [driver EXCEPT ![d] = v]
    BY <2>1 DEF To
  <2>3. pc \in Pcs
    BY DEF Pcs, Causes
  <2>4. v \in DriveType /\ v.pc = pc /\ v.snap = driver[d].snap
    BY <2>3, AtFacts DEF JobsInv
  <2> HIDE DEF v
  <2>5. PhaseOK(v) /\ Afforded(v)
    BY <1>2, <1>3, <2>4 DEF PhaseOK, Afforded, Causes
  <2>6. d \in fresh' => IsRow(v)
    BY <1>1, <2>4, FreshFacts DEF IsRow
  <2>7. jobs' = jobs
    BY <1>5 DEF Poll
  <2>8. /\ DOMAIN jobs' \in SUBSET Epochs /\ jobs' \in [DOMAIN jobs' -> JobEntry]
        /\ \A k \in Epochs, i \in Items : Buffers(k, i)' => Buffers(k, i)
    BY <2>7 DEF JobsInv, TypeInv, Buffers
  <2>9. /\ \A i \in Items : v.snap.items[i] # "absent" =>
             run.items[i] # "absent" \/ driver[d].snap.items[i] # "absent"
        /\ fresh' \in SUBSET (fresh \cup {d})
        /\ run' = run /\ surfaced' = surfaced /\ applied' = applied
        /\ left'.decisions = left.decisions
        /\ left' \in [decisions : 0 .. MaxDecisions, crashes : 0 .. MaxCrashes]
        /\ v.pc \notin {"folding", "completing"}
    BY <1>1, <2>4
  <2>10. v \in DriveType
    BY <2>4
  <2>. QED
    BY <2>2, <2>5, <2>6, <2>8, <2>9, <2>10, DriveKeeps
<1>. QED
  BY <1>4, <1>5

LEMMA FoldRunningKeeps ==
  ASSUME JobsInv, NEW d \in Drivers, FoldRunning(d)
  PROVE  JobsInv'
<1>1. /\ To(d, "idle") /\ driver[d].pc = "folding"
      /\ run \in RunType /\ driver[d].snap \in RunType /\ driver[d].seen \in SUBSET Items
      /\ surfaced' = surfaced /\ applied' = applied /\ jobs' = jobs /\ left' = left
      /\ left \in [decisions : 0 .. MaxDecisions, crashes : 0 .. MaxCrashes]
      /\ applied \in SUBSET Items
  BY TypeFacts DEF FoldRunning, JobsInv, history
<1>2. driver[d].snap.job # NoJob
  BY <1>1, FreshFacts DEF PhaseOK
<1>3. CASE ~StillThatJob(d) \/ driver[d].seen = {}
  <2>1. fresh' \in SUBSET (fresh \ {d}) /\ run' = run
    BY <1>3 DEF FoldRunning
  <2>. QED
    BY <1>1, <2>1, RestKeeps
<1>4. CASE StillThatJob(d) /\ driver[d].seen # {}
  <2> DEFINE items == Streamed(run.items, driver[d].seen)
             r == [run EXCEPT !.items = items]
             v == At(d, "idle")
  <2>1. /\ items \in [Items -> ItemStates]
        /\ \A i \in Items : items[i] = IF i \in driver[d].seen THEN "pending"
                                       ELSE run.items[i]
    BY <1>1, RunFields, StreamedFacts
  <2>2. run' = r /\ fresh' = {}
    BY <1>4 DEF FoldRunning
  <2> HIDE DEF items
  <2>3. /\ r \in RunType /\ r.items = items /\ r.status = run.status /\ r.job = run.job
        /\ r.count = run.count /\ r.loops = run.loops /\ r.recovered = run.recovered
    BY <1>1, <2>1 DEF RunType
  <2> HIDE DEF r
  <2>4. Within(r, Spare(r))
    <3>1. Spare(r) = Spare(run) /\ Spare(r) \in {0, 1}
      BY <2>3 DEF Spare
    <3>2. \A i \in Items : r.items[i] = "asked" => run.items[i] = "asked"
      BY <2>1, <2>3
    <3>. QED
      BY <1>1, <2>3, <3>1, <3>2, FreshFacts, WithinAgain DEF JobsInv
  <2>5. PassOK(r)
    <3>1. run.job # NoJob
      BY <1>2, <1>4 DEF StillThatJob
    <3>. QED
      BY <2>3, <3>1 DEF PassOK, JobsInv, PassInv
  <2>6. v \in DriveType /\ v.pc = "idle" /\ v.snap = NewRun /\ PhaseOK(v)
    BY AtFacts DEF JobsInv, Pcs
  <2>7. driver' = [driver EXCEPT ![d] = v]
    BY <1>1 DEF To
  <2> HIDE DEF v
  <2>8. \A i \in Items : r.items[i] # "absent" =>
           run.items[i] # "absent" \/ driver[d].snap.items[i] # "absent" \/ Carries(d, i)
    BY <1>1, <2>1, <2>3 DEF Carries
  <2>. QED
    BY <1>1, <2>2, <2>3, <2>4, <2>5, <2>6, <2>7, <2>8, WriteKeeps
<1>. QED
  BY <1>3, <1>4

LEMMA VerdictFacts ==
  ASSUME NEW r
  PROVE  /\ Verdict(r) = "pending" => HasPending(r)
         /\ Verdict(r) # "pending" => ~HasPending(r)
         /\ Verdict(r) = "loop" => r.loops < MaxLoops
         /\ Verdict(r) = "exhausted" => InState(r.items, {"asked"}) # {}
         /\ Verdict(r) \notin {"pending", "loop", "exhausted"} =>
              InState(r.items, {"asked"}) = {}
BY DEF Verdict

\* What a pass makes of the step, by the follow-up gate's verdict.
LEMMA CompleteKeeps ==
  ASSUME JobsInv, NEW d \in Drivers, Complete(d)
  PROVE  JobsInv'
<1>1. PICK alone \in BOOLEAN :
        LET r == Recorded(driver[d].snap, driver[d].seen, alone)
            verdict == Verdict(r)
        IN /\ driver[d].pc = "completing"
           /\ CASE verdict = "pending"   -> ParkUpsert(d, r)
                [] verdict = "loop"      -> CasPersist(d, Looped(r), "idle")
                [] verdict = "exhausted" -> CasPersist(d, Dropped(r), "settling")
                [] OTHER                 -> CasPersist(d, Passed(r), "idle")
           /\ applied' = IF IsCurrent(d) \/ verdict = "pending"
                         THEN (applied \cup {i \in driver[d].brief :
                                               driver[d].snap.items[i] = "sent"})
                                \ run'.rework
                         ELSE applied
           /\ UNCHANGED <<jobs, surfaced, left>>
  BY Bounds DEF Complete
<1> DEFINE s == driver[d].snap
           seen == driver[d].seen
           r == Recorded(s, seen, alone)
<1>2. /\ s \in RunType /\ seen \in SUBSET Items /\ driver[d].pc = "completing"
      /\ s.status = "running" /\ s.job # NoJob /\ Within(s, 1)
  <2>1. driver[d].pc = "completing"
    BY <1>1
  <2>. QED
    BY <2>1, TypeFacts, FreshFacts, WithinSpares DEF JobsInv, PhaseOK, Afforded
<1>3. /\ r \in RunType /\ r.status = "running" /\ r.job = NoJob /\ r.count = s.count
      /\ r.loops = s.loops /\ r.rework = {} /\ r.recovered = s.recovered
      /\ \A i \in Items : r.items[i] = IF i \in seen \/ s.items[i] = "pending"
                                       THEN IF alone THEN "settled" ELSE "pending"
                                       ELSE s.items[i]
  BY <1>2, RecordedFacts
<1>4. applied' \in SUBSET Items
  BY <1>1, TypeFacts DEF JobsInv
<1>5. d \notin fresh /\ Verdict(r) # "pending" => applied' = applied
  BY <1>1 DEF IsCurrent
<1>6. /\ Verdict(r) = "pending" => ParkUpsert(d, r)
      /\ Verdict(r) = "loop" => CasPersist(d, Looped(r), "idle")
      /\ Verdict(r) = "exhausted" => CasPersist(d, Dropped(r), "settling")
      /\ Verdict(r) \notin {"pending", "loop", "exhausted"} => CasPersist(d, Passed(r), "idle")
      /\ UNCHANGED <<jobs, surfaced, left>>
  BY <1>1
<1> HIDE DEF r
<1>7. Within(r, 1)
  BY <1>2, <1>3, WithinAgain DEF JobsInv
<1>8. \A i \in Items : r.items[i] # "absent" => s.items[i] # "absent" \/ Carries(d, i)
  BY <1>2, <1>3 DEF Carries
<1>9. CASE Verdict(r) = "pending"
  <2> DEFINE R == [r EXCEPT !.status = "blocked"]
             v == At(d, "idle")
  <2>1. run' = R /\ fresh' = {} /\ driver' = [driver EXCEPT ![d] = v]
    BY <1>6, <1>9 DEF ParkUpsert, Writes
  <2>2. /\ R \in RunType /\ R.status = "blocked" /\ R.job = NoJob /\ R.rework = {}
        /\ R.items = r.items /\ R.count = r.count /\ R.loops = r.loops
        /\ R.recovered = r.recovered
    BY <1>3 DEF RunType
  <2> HIDE DEF R
  <2>3. v \in DriveType /\ v.pc = "idle" /\ v.snap = NewRun /\ PhaseOK(v)
    BY AtFacts DEF JobsInv, Pcs
  <2> HIDE DEF v
  <2>4. Within(R, Spare(R))
    <3>1. Spare(R) = 1
      BY <2>2 DEF Spare
    <3>. QED
      BY <1>3, <1>7, <2>2, <3>1, WithinAgain DEF JobsInv
  <2>5. PassOK(R)
    <3>1. HasPending(r)
      BY <1>9, VerdictFacts
    <3>. QED
      BY <2>2, <3>1 DEF PassOK, HasPending
  <2>6. \A i \in Items : R.items[i] # "absent" =>
          run.items[i] # "absent" \/ driver[d].snap.items[i] # "absent" \/ Carries(d, i)
    BY <1>8, <2>2
  <2>. QED
    BY <1>4, <1>6, <2>1, <2>2, <2>3, <2>4, <2>5, <2>6, WriteKeeps
<1>10. CASE Verdict(r) = "loop"
  <2> DEFINE R == Looped(r)
  <2>1. r.loops < MaxLoops
    BY <1>10, VerdictFacts
  <2>2. /\ R \in RunType /\ R.status = "running" /\ R.job = NoJob
        /\ R.items = Moved(r.items, "asked", "sent")
    BY <1>3, <2>1, LoopedFacts
  <2>3. Within(R, 0)
    BY <1>3, <1>7, <2>1, WithinLooped DEF JobsInv
  <2> HIDE DEF R
  <2>4. Within(R, Spare(R)) /\ PassOK(R)
    BY <2>2, <2>3 DEF Spare, PassOK
  <2>5. \A i \in Items : R.items[i] # "absent" =>
          driver[d].snap.items[i] # "absent" \/ Carries(d, i)
    BY <1>3, <1>8, <2>2, RunFields, MovedFacts DEF ItemStates
  <2>6. CasPersist(d, R, "idle")
    BY <1>6, <1>10 DEF R
  <2>. QED
    BY <1>2, <1>4, <1>5, <1>6, <1>10, <2>2, <2>4, <2>5, <2>6, CasKeeps
<1>11. CASE Verdict(r) = "exhausted"
  <2> DEFINE R == Dropped(r)
  <2>1. InState(r.items, {"asked"}) # {} /\ ~HasPending(r)
    BY <1>11, VerdictFacts
  <2>2. /\ R \in RunType /\ R.status = "running" /\ R.job = NoJob /\ R.rework = {}
        /\ R.items = Moved(r.items, "asked", "dropped")
    BY <1>3, DroppedFacts
  <2>3. Within(R, 0)
    BY <1>3, <1>7, <2>1, WithinDropped DEF JobsInv
  <2> HIDE DEF R
  <2>4. Within(R, Spare(R)) /\ PassOK(R)
    BY <2>2, <2>3 DEF Spare, PassOK
  <2>5. \A i \in Items : R.items[i] = IF r.items[i] = "asked" THEN "dropped" ELSE r.items[i]
    BY <1>3, <2>2, RunFields, MovedFacts DEF ItemStates
  <2>6. \A i \in Items : R.items[i] # "absent" =>
          driver[d].snap.items[i] # "absent" \/ Carries(d, i)
    BY <1>8, <2>5
  <2>7. InState(R.items, {"pending", "asked"}) = {}
    BY <2>1, <2>5 DEF InState, HasPending
  <2>8. CasPersist(d, R, "settling")
    BY <1>6, <1>11 DEF R
  <2>. QED
    BY <1>2, <1>4, <1>5, <1>6, <1>11, <2>2, <2>4, <2>6, <2>7, <2>8, CasKeeps
<1>12. CASE Verdict(r) \notin {"pending", "loop", "exhausted"}
  <2> DEFINE R == Passed(r)
  <2>1. InState(r.items, {"asked"}) = {} /\ ~HasPending(r)
    BY <1>12, VerdictFacts
  <2>2. /\ R \in RunType /\ R.status # "running" /\ R.job = NoJob /\ R.rework = {}
        /\ R.items = r.items /\ R.count = r.count /\ R.loops = r.loops
        /\ R.recovered = r.recovered
    BY <1>3, PassedFacts
  <2> HIDE DEF R
  <2>3. Within(R, Spare(R))
    <3>1. Spare(R) = 1
      BY <2>2 DEF Spare
    <3>. QED
      BY <1>3, <1>7, <2>2, <3>1, WithinAgain DEF JobsInv
  <2>4. PassOK(R)
    BY <2>1, <2>2 DEF PassOK, HasPending
  <2>5. \A i \in Items : R.items[i] # "absent" =>
          driver[d].snap.items[i] # "absent" \/ Carries(d, i)
    BY <1>8, <2>2
  <2>6. CasPersist(d, R, "idle")
    BY <1>6, <1>12 DEF R
  <2>. QED
    BY <1>2, <1>4, <1>5, <1>6, <1>12, <2>2, <2>3, <2>4, <2>5, <2>6, CasKeeps
<1>. QED
  BY <1>9, <1>10, <1>11, <1>12

LEMMA SettleStepKeeps ==
  ASSUME JobsInv, NEW d \in Drivers, SettleStep(d)
  PROVE  JobsInv'
<1> DEFINE s == driver[d].snap
           R == Passed(s)
<1>1. /\ s \in RunType /\ driver[d].pc = "settling" /\ UNCHANGED <<jobs, history>>
      /\ CasPersist(d, R, "idle")
  BY TypeFacts DEF JobsInv, SettleStep
<1>2. /\ s.job = NoJob /\ s.rework = {} /\ InState(s.items, {"pending", "asked"}) = {}
      /\ Within(s, 1)
  BY <1>1, FreshFacts, WithinSpares DEF PhaseOK, Afforded, JobsInv
<1>3. /\ R \in RunType /\ R.status # "running" /\ R.job = NoJob /\ R.rework = {}
      /\ R.items = s.items /\ R.count = s.count /\ R.loops = s.loops
      /\ R.recovered = s.recovered
  BY <1>1, <1>2, PassedFacts
<1> HIDE DEF R
<1>4. Within(R, Spare(R))
  <2>1. Spare(R) = 1
    BY <1>3 DEF Spare
  <2>. QED
    BY <1>1, <1>2, <1>3, <2>1, WithinAgain DEF JobsInv
<1>5. PassOK(R)
  BY <1>2, <1>3 DEF PassOK, HasPending, InState
<1>6. applied' \in SUBSET Items /\ applied' = applied
  BY <1>1, TypeFacts DEF history, JobsInv
<1>. QED
  BY <1>1, <1>3, <1>4, <1>5, <1>6, CasKeeps DEF history

LEMMA RecoverKeeps ==
  ASSUME JobsInv, NEW d \in Drivers, NEW c \in Causes, Recover(d, c)
  PROVE  JobsInv'
<1> DEFINE s == driver[d].snap
           R == Recovered(s, c)
<1>1. s \in RunType /\ driver[d].pc = c /\ UNCHANGED <<jobs, history>>
  BY TypeFacts DEF JobsInv, Recover
<1>2. c \notin {"idle", "failing", "accepted", "opening"}
  BY DEF Causes
<1>3. CASE s.recovered[c] < Limit[c]
  <2>1. CasPersist(d, R, "idle")
    BY <1>3 DEF Recover
  <2>2. Within(s, 1) /\ s.status = "running"
    BY <1>1, <1>2, FreshFacts, WithinSpares DEF PhaseOK, Afforded, JobsInv
  <2>3. /\ R \in RunType /\ R.status = "running" /\ R.job = NoJob /\ R.items = s.items
    BY <1>1, <2>2, RecoveredFacts
  <2>4. Within(R, 0)
    BY <1>1, <1>3, <2>2, WithinRecovered DEF JobsInv
  <2> HIDE DEF R
  <2>5. Within(R, Spare(R)) /\ PassOK(R)
    BY <2>3, <2>4 DEF Spare, PassOK
  <2>6. applied' \in SUBSET Items /\ applied' = applied
    BY <1>1, TypeFacts DEF history, JobsInv
  <2>. QED
    BY <1>1, <1>2, <2>1, <2>3, <2>5, <2>6, CasKeeps DEF history
<1>4. CASE ~(s.recovered[c] < Limit[c])
  BY <1>1, <1>2, <1>4, SameKeeps DEF Recover
<1>. QED
  BY <1>3, <1>4

\* failRun reads the run again.
LEMMA FailRunKeeps ==
  ASSUME JobsInv, NEW d \in Drivers, FailRun(d)
  PROVE  JobsInv'
<1>1. /\ To(d, "idle") /\ driver[d].pc = "failing" /\ d \notin fresh
      /\ run \in RunType /\ UNCHANGED <<jobs, surfaced, applied, left>>
      /\ left \in [decisions : 0 .. MaxDecisions, crashes : 0 .. MaxCrashes]
      /\ applied \in SUBSET Items
  BY TypeFacts, FreshFacts DEF FailRun, JobsInv, history
<1>2. CASE run.status \notin {"running", "blocked"}
  <2>1. fresh' \in SUBSET (fresh \ {d}) /\ run' = run
    BY <1>1, <1>2, TypeFacts DEF FailRun, JobsInv
  <2>. QED
    BY <1>1, <2>1, RestKeeps
<1>3. CASE run.status \in {"running", "blocked"}
  <2> DEFINE r == [run EXCEPT !.status = "failed"]
             v == At(d, "idle")
  <2>1. run' = r /\ fresh' = {}
    BY <1>3 DEF FailRun
  <2>2. /\ r \in RunType /\ r.items = run.items /\ r.status = "failed" /\ r.job = run.job
        /\ r.count = run.count /\ r.loops = run.loops /\ r.recovered = run.recovered
    BY <1>1 DEF RunType
  <2> HIDE DEF r
  <2>3. Within(r, Spare(r))
    <3>1. Spare(r) = 1 /\ Within(run, 1)
      BY <1>1, <2>2, FreshFacts, WithinSpares DEF Spare, JobsInv
    <3>. QED
      BY <1>1, <2>2, <3>1, WithinAgain DEF JobsInv
  <2>4. PassOK(r)
    BY <2>2 DEF PassOK
  <2>5. v \in DriveType /\ v.pc = "idle" /\ v.snap = NewRun /\ PhaseOK(v)
    BY AtFacts DEF JobsInv, Pcs
  <2>6. driver' = [driver EXCEPT ![d] = v]
    BY <1>1 DEF To
  <2> HIDE DEF v
  <2>7. \A i \in Items : r.items[i] # "absent" =>
           run.items[i] # "absent" \/ driver[d].snap.items[i] # "absent" \/ Carries(d, i)
    BY <2>2
  <2>. QED
    BY <1>1, <2>1, <2>2, <2>3, <2>4, <2>5, <2>6, <2>7, WriteKeeps
<1>. QED
  BY <1>2, <1>3

\* A drive that dies, or gives its job up.
LEMMA TroubleKeeps ==
  ASSUME JobsInv, NEW d \in Drivers, PollBudgetSpent(d) \/ Crash(d)
  PROVE  JobsInv'
<1>1. CASE PollBudgetSpent(d)
  <2>1. /\ To(d, "failing") /\ UNCHANGED <<jobs, run, surfaced, applied>>
        /\ left' = left /\ fresh' = fresh /\ d \notin fresh
        /\ fresh' \in SUBSET (fresh \ {d})
        /\ left \in [decisions : 0 .. MaxDecisions, crashes : 0 .. MaxCrashes]
    BY <1>1, TypeFacts, FreshFacts DEF PollBudgetSpent, history, JobsInv
  <2>. QED
    BY <2>1, RestKeeps
<1>2. CASE Crash(d)
  <2>1. At(d, "idle") = Idle
    BY DEF At
  <2>2. /\ To(d, "idle") /\ UNCHANGED <<jobs, run, surfaced, applied>>
        /\ fresh' \in SUBSET (fresh \ {d})
    BY <1>2, <2>1, TypeFacts DEF Crash, To, JobsInv
  <2>3. /\ left'.decisions = left.decisions
        /\ left' \in [decisions : 0 .. MaxDecisions, crashes : 0 .. MaxCrashes]
    BY <1>2, Bounds, TypeFacts DEF Crash, JobsInv
  <2>. QED
    BY <2>2, <2>3, RestKeeps
<1>. QED
  BY <1>1, <1>2

\* A person writes the row as it is now.
LEMMA PeopleKeeps ==
  ASSUME JobsInv, NEW r \in RunType, run' = r, fresh' = {},
         UNCHANGED <<jobs, driver, surfaced>>, applied' \in SUBSET Items,
         left' \in [decisions : 0 .. MaxDecisions, crashes : 0 .. MaxCrashes],
         left'.decisions <= left.decisions,
         Within(run, Spare(run))', PassOK(r),
         \A i \in Items : r.items[i] # "absent" => run.items[i] # "absent"
  PROVE  JobsInv'
<1>1. TypeInv'
  BY TypeFacts DEF JobsInv, TypeInv
<1>2. CountInv'
  <2>1. Decided \in Nat /\ Decided' \in Nat /\ Decided <= Decided'
    BY TypeFacts, Bounds DEF JobsInv, Decided
  <2>2. ASSUME NEW d \in Drivers PROVE Afforded(driver[d])'
    <3> DEFINE s == driver[d].snap
    <3>1. /\ s \in RunType /\ s.count \in Nat /\ s.loops \in Nat /\ Owed(s) \in Nat
          /\ Recoveries(s) \in Nat /\ Afforded(driver[d])
      BY TypeFacts, RunFields, OwedFacts, RecoveriesFacts DEF JobsInv, CountInv
    <3>. QED
      BY <2>1, <3>1 DEF Afforded, Within, Spare, Owed, Recoveries
  <2>. QED
    BY <2>2 DEF CountInv
<1>3. PhaseInv'
  BY DEF JobsInv, PhaseInv, PhaseOK, FreshOK
<1>4. PassInv'
  BY DEF PassInv
<1>5. ItemInv'
  BY DEF JobsInv, ItemInv, OnItsWay, Carries, Buffers
<1>. QED
  BY <1>1, <1>2, <1>3, <1>4, <1>5 DEF JobsInv

LEMMA ApproveStepKeeps ==
  ASSUME JobsInv, ApproveStep
  PROVE  JobsInv'
<1> DEFINE r == [run EXCEPT !.status = "done"]
<1>1. /\ run' = r /\ fresh' = {} /\ UNCHANGED <<jobs, driver, surfaced, applied, left>>
      /\ run \in RunType /\ run.status = "blocked" /\ ~HasPending(run)
      /\ left \in [decisions : 0 .. MaxDecisions, crashes : 0 .. MaxCrashes]
      /\ applied \in SUBSET Items
  BY TypeFacts DEF JobsInv, ApproveStep, history
<1>2. /\ r \in RunType /\ r.status = "done" /\ r.items = run.items /\ r.job = run.job
      /\ r.rework = run.rework /\ r.count = run.count /\ r.loops = run.loops
      /\ r.recovered = run.recovered
  BY <1>1 DEF RunType
<1> HIDE DEF r
<1>3. PassOK(r)
  BY <1>1, <1>2 DEF PassOK, HasPending, JobsInv, PassInv
<1>4. Within(run, Spare(run))'
  <2>1. Spare(r) = 1 /\ Within(run, 1)
    BY <1>1, <1>2, WithinSpares DEF Spare, JobsInv, CountInv
  <2>2. Within(r, 1)
    BY <1>1, <1>2, <2>1, WithinAgain DEF JobsInv
  <2>3. Decided' = Decided
    BY <1>1 DEF Decided
  <2>. QED
    BY <1>1, <2>1, <2>2, <2>3 DEF Within
<1>5. left'.decisions <= left.decisions
  BY <1>1, Bounds
<1>. QED
  BY <1>1, <1>2, <1>3, <1>4, <1>5, PeopleKeeps

\* What a decision makes of the row: the decided item changes, and a parked run
\* the decision was the last for moves on.
LEMMA DecidedRow ==
  ASSUME JobsInv, NEW i \in Items, NEW choice, DecideFollowUp(i, choice)
  PROVE  /\ run' \in RunType /\ PassOK(run')
         /\ run'.count = run.count /\ run'.recovered = run.recovered
         /\ \/ /\ run'.job = run.job /\ run'.loops = run.loops /\ run'.rework = run.rework
               /\ run'.status = run.status \/ (run.status = "blocked" /\ run'.status = "done")
            \/ /\ run.status = "blocked" /\ run'.status = "running" /\ run'.job = NoJob
               /\ run'.loops = run.loops + 1
               /\ \A j \in Items : run'.items[j] = "sent" =>
                    run.items[j] = "sent" \/ j \in run'.rework
         /\ \A j \in Items \ {i} : run'.items[j] = "asked" => run.items[j] = "asked"
         /\ \A j \in Items : run'.items[j] # "absent" => run.items[j] # "absent"
         /\ \A j \in Items : run.items[j] \notin {"absent", "pending"} =>
              run'.items[j] \notin {"absent", "pending"}
         /\ run'.rework = run.rework =>
              \A j \in Items : run'.items[j] = "sent" => run.items[j] = "sent"
                                                         \/ j \in run'.rework
         /\ run.status # "done" /\ run'.status = "done" =>
              InState(run'.items, {"asked"}) = {}
<1> DEFINE r == [run EXCEPT !.items[i] = choice]
<1>1. /\ run \in RunType /\ choice \in {"asked", "settled"} /\ run.items[i] # "absent"
      /\ run' = IF ~ParkedHere \/ HasPending(r) THEN r
                ELSE IF Verdict(r) = "loop"      THEN Looped(r)
                ELSE IF Verdict(r) = "exhausted" THEN Passed(Dropped(r))
                ELSE Passed(r)
  BY TypeFacts DEF DecideFollowUp, JobsInv
<1>2. /\ r \in RunType /\ r.status = run.status /\ r.job = run.job /\ r.count = run.count
      /\ r.loops = run.loops /\ r.rework = run.rework /\ r.recovered = run.recovered
      /\ r.items \in [Items -> ItemStates]
      /\ \A j \in Items : r.items[j] = IF j = i THEN choice ELSE run.items[j]
  BY <1>1 DEF RunType, ItemStates
<1> HIDE DEF r
<1>3. /\ run.status \in {"blocked", "done"} => run.job = NoJob /\ run.rework = {}
      /\ run.status = "done" => ~HasPending(run)
      /\ run.status = "blocked" /\ ~HasPending(run) => InState(run.items, {"asked"}) = {}
  BY DEF JobsInv, PassInv, PassOK
<1>4. HasPending(r) => HasPending(run)
  BY <1>1, <1>2 DEF HasPending, InState
<1>5. CASE ~ParkedHere \/ HasPending(r)
  <2>1. run' = r
    BY <1>1, <1>5
  <2>2. PassOK(r)
    BY <1>2, <1>3, <1>4, <1>5 DEF PassOK, ParkedHere
  <2>. QED
    BY <1>1, <1>2, <2>1, <2>2
<1>6. CASE ParkedHere /\ ~HasPending(r) /\ Verdict(r) = "loop"
  <2> DEFINE R == Looped(r)
  <2>1. run' = R
    BY <1>1, <1>6
  <2>2. r.loops < MaxLoops
    BY <1>6, VerdictFacts
  <2>3. /\ R \in RunType /\ R.status = "running" /\ R.job = NoJob /\ R.count = run.count
        /\ R.loops = run.loops + 1 /\ R.rework = InState(r.items, {"asked"})
        /\ R.items = Moved(r.items, "asked", "sent") /\ R.recovered = run.recovered
    BY <1>2, <2>2, LoopedFacts
  <2> HIDE DEF R
  <2>4. \A j \in Items : R.items[j] = IF r.items[j] = "asked" THEN "sent" ELSE r.items[j]
    BY <1>2, <2>3, MovedFacts DEF ItemStates
  <2>5. PassOK(R)
    BY <2>3 DEF PassOK
  <2>. QED
    BY <1>1, <1>2, <1>6, <2>1, <2>3, <2>4, <2>5 DEF ParkedHere, InState
<1>7. CASE ParkedHere /\ ~HasPending(r) /\ Verdict(r) = "exhausted"
  <2> DEFINE q == Dropped(r)
             R == Passed(q)
  <2>1. run' = R
    BY <1>1, <1>7
  <2>2. /\ q \in RunType /\ q.job = run.job /\ q.count = run.count /\ q.loops = run.loops
        /\ q.rework = run.rework /\ q.recovered = run.recovered
        /\ q.items = Moved(r.items, "asked", "dropped")
    BY <1>2, DroppedFacts
  <2> HIDE DEF q
  <2>3. /\ R \in RunType /\ R.status \in {"blocked", "done"}
        /\ R.job = run.job /\ R.count = run.count /\ R.loops = run.loops
        /\ R.rework = run.rework /\ R.recovered = run.recovered /\ R.items = q.items
    BY <2>2, PassedFacts
  <2> HIDE DEF R
  <2>4. \A j \in Items : R.items[j] = IF r.items[j] = "asked" THEN "dropped" ELSE r.items[j]
    BY <1>2, <2>2, <2>3, MovedFacts DEF ItemStates
  <2>5. InState(R.items, {"asked"}) = {} /\ ~HasPending(R)
    BY <1>7, <2>4 DEF InState, HasPending
  <2>6. PassOK(R)
    BY <1>3, <1>7, <2>3, <2>5 DEF PassOK, ParkedHere
  <2>. QED
    BY <1>1, <1>2, <1>7, <2>1, <2>3, <2>4, <2>5, <2>6 DEF ParkedHere
<1>8. CASE ParkedHere /\ ~HasPending(r) /\ Verdict(r) \notin {"loop", "exhausted"}
  <2> DEFINE R == Passed(r)
  <2>1. run' = R
    BY <1>1, <1>8
  <2>2. /\ R \in RunType /\ R.status \in {"blocked", "done"}
        /\ R.job = run.job /\ R.count = run.count /\ R.loops = run.loops
        /\ R.rework = run.rework /\ R.recovered = run.recovered /\ R.items = r.items
    BY <1>2, PassedFacts
  <2> HIDE DEF R
  <2>3. InState(R.items, {"asked"}) = {} /\ ~HasPending(R)
    <3>1. Verdict(r) \notin {"pending", "loop", "exhausted"}
      BY <1>8, VerdictFacts
    <3>. QED
      BY <1>8, <2>2, <3>1, VerdictFacts DEF HasPending
  <2>4. PassOK(R)
    BY <1>3, <1>8, <2>2, <2>3 DEF PassOK, ParkedHere
  <2>. QED
    BY <1>1, <1>2, <1>8, <2>1, <2>2, <2>3, <2>4 DEF ParkedHere
<1>. QED
  BY <1>5, <1>6, <1>7, <1>8

LEMMA DecideFollowUpKeeps ==
  ASSUME JobsInv, NEW i \in Items, NEW choice, DecideFollowUp(i, choice)
  PROVE  JobsInv'
<1>1. /\ run' \in RunType /\ PassOK(run')
      /\ run'.count = run.count /\ run'.recovered = run.recovered
      /\ \/ /\ run'.job = run.job /\ run'.loops = run.loops
            /\ run'.status = run.status \/ (run.status = "blocked" /\ run'.status = "done")
         \/ run.status = "blocked" /\ run'.loops = run.loops + 1
      /\ \A j \in Items \ {i} : run'.items[j] = "asked" => run.items[j] = "asked"
      /\ \A j \in Items : run'.items[j] # "absent" => run.items[j] # "absent"
  BY DecidedRow
<1>2. /\ fresh' = {} /\ UNCHANGED <<jobs, driver, surfaced>>
      /\ applied' \in SUBSET Items
      /\ left.decisions > 0 /\ left' = [left EXCEPT !.decisions = @ - 1]
      /\ left \in [decisions : 0 .. MaxDecisions, crashes : 0 .. MaxCrashes]
  BY TypeFacts DEF DecideFollowUp, JobsInv
<1>3. /\ left' \in [decisions : 0 .. MaxDecisions, crashes : 0 .. MaxCrashes]
      /\ left'.decisions = left.decisions - 1
      /\ left.decisions \in Nat /\ MaxDecisions \in Nat
  BY <1>2, Bounds
<1>4. Decided' = Decided + 1 /\ Decided \in Nat
  BY <1>3, DecidedFacts DEF Decided, JobsInv
<1> HIDE DEF PassOK
<1>5. PICK r : r = run'
  OBVIOUS
<1>6. /\ run \in RunType /\ r \in RunType /\ Within(run, Spare(run))
      /\ Owed(r) <= Owed(run) + 1 /\ Recoveries(r) = Recoveries(run)
      /\ run.count \in Nat /\ run.loops \in Nat /\ r.loops \in Nat
      /\ Owed(run) \in Nat /\ Owed(r) \in Nat /\ Recoveries(run) \in Nat
  <2>1. run \in RunType /\ r \in RunType
    BY <1>1, <1>5, TypeFacts DEF JobsInv
  <2>2. Owed(r) <= Owed(run) + 1
    BY <1>1, <1>5, <2>1, OwedOneMore
  <2>. QED
    BY <1>1, <1>5, <2>1, <2>2, RunFields, OwedFacts, RecoveriesFacts DEF JobsInv, CountInv
<1>7. Spare(run) + run.loops <= Spare(r) + r.loops
  BY <1>1, <1>5, <1>6 DEF Spare
<1>8. Spare(run) \in Nat /\ Spare(r) \in Nat
  BY DEF Spare
<1>9. r.count + Owed(r) <= Spare(r) + r.loops + Recoveries(r) + (Decided + 1)
  BY <1>1, <1>4, <1>5, <1>6, <1>7, <1>8 DEF Within
<1>10. Within(run, Spare(run))'
  BY <1>1, <1>4, <1>5, <1>6, <1>9 DEF Within, Spare, Owed, Recoveries
<1>11. left'.decisions <= left.decisions
  BY <1>3
<1>12. PassOK(r) /\ \A j \in Items : r.items[j] # "absent" => run.items[j] # "absent"
  BY <1>1, <1>5
<1>. QED
  BY <1>2, <1>3, <1>5, <1>6, <1>10, <1>11, <1>12, PeopleKeeps

\* The jobs change, the row and the drives do not; an item that appears in a
\* buffer is one that had not surfaced.
LEMMA HarnessKeeps ==
  ASSUME JobsInv, HarnessStep \/ ContainerGone
  PROVE  JobsInv'
<1>1. /\ UNCHANGED <<run, fresh, driver, applied, left>>
      /\ surfaced' \in [Items -> Epochs \cup {NoJob}]
      /\ DOMAIN jobs' \in SUBSET Epochs /\ jobs' \in [DOMAIN jobs' -> JobEntry]
      /\ \A i \in Items :
           \/ /\ surfaced'[i] = surfaced[i]
              /\ \A id \in Epochs : Buffers(id, i)' => Buffers(id, i)
           \/ /\ surfaced[i] = NoJob /\ surfaced'[i] # NoJob
              /\ \A a, b \in Epochs : Buffers(a, i)' /\ Buffers(b, i)' => a = b
  <2>1. CASE ContainerGone
    BY <2>1, TypeFacts DEF ContainerGone, Evict, NoJobs, history, Buffers, JobsInv
  <2>2. ASSUME NEW id \in DOMAIN jobs, JobSettles(id)
        PROVE  <1>1!:
    <3>1. PICK state \in JobStates : jobs' = [jobs EXCEPT ![id].state = state]
      BY <2>2 DEF JobSettles, Settle
    <3>2. DOMAIN jobs' = DOMAIN jobs
      BY <3>1
    <3>3. \A k \in DOMAIN jobs : jobs'[k] \in JobEntry /\ jobs'[k].buffer = jobs[k].buffer
      BY <3>1, TypeFacts DEF JobsInv, JobEntry
    <3>4. jobs' \in [DOMAIN jobs' -> JobEntry]
      BY <3>1, <3>2, <3>3
    <3>5. \A i \in Items, k \in Epochs : Buffers(k, i)' => Buffers(k, i)
      BY <3>2, <3>3 DEF Buffers
    <3>. QED
      BY <2>2, <3>2, <3>4, <3>5, TypeFacts DEF JobSettles, history, JobsInv
  <2>3. ASSUME NEW id \in DOMAIN jobs, NEW k \in Items, SurfaceItem(id, k)
        PROVE  <1>1!:
    <3>1. /\ jobs' = [jobs EXCEPT ![id].buffer = @ \cup {k}]
          /\ surfaced' = [surfaced EXCEPT ![k] = id] /\ surfaced[k] = NoJob
          /\ UNCHANGED <<run, fresh, driver, applied, left>>
      BY <2>3 DEF SurfaceItem, Surface
    <3>2. DOMAIN jobs' = DOMAIN jobs
      BY <3>1
    <3>3. \A a \in DOMAIN jobs :
            /\ jobs'[a] \in JobEntry
            /\ jobs'[a].buffer = IF a = id THEN jobs[a].buffer \cup {k} ELSE jobs[a].buffer
      BY <3>1, TypeFacts DEF JobsInv, JobEntry
    <3>4. jobs' \in [DOMAIN jobs' -> JobEntry]
      BY <3>1, <3>2, <3>3
    <3>5. id \in Epochs /\ id # NoJob
      BY TypeFacts, Bounds DEF JobsInv
    <3>6. \A i \in Items \ {k}, a \in Epochs : Buffers(a, i)' => Buffers(a, i)
      BY <3>2, <3>3 DEF Buffers
    <3>7. \A a \in Epochs : ~Buffers(a, k)
      BY <3>1 DEF JobsInv, ItemInv, OnItsWay
    <3>8. \A a \in Epochs : Buffers(a, k)' => a = id
      BY <3>2, <3>3, <3>7 DEF Buffers
    <3>9. /\ surfaced' \in [Items -> Epochs \cup {NoJob}] /\ surfaced'[k] = id
          /\ \A i \in Items \ {k} : surfaced'[i] = surfaced[i]
      BY <3>1, <3>5, TypeFacts DEF JobsInv
    <3>. QED
      BY <3>1, <3>2, <3>4, <3>5, <3>6, <3>8, <3>9, TypeFacts DEF JobsInv
  <2>. QED
    BY <2>1, <2>2, <2>3 DEF HarnessStep
<1>2. TypeInv'
  BY <1>1, TypeFacts DEF TypeInv, JobsInv
<1>3. CountInv' /\ PhaseInv' /\ PassInv'
  BY <1>1 DEF JobsInv, CountInv, Afforded, Within, Decided, PhaseInv, PhaseOK, FreshOK,
     IsRow, PassInv
<1>4. ItemInv'
  <2> SUFFICES ASSUME NEW i \in Items
               PROVE  (/\ surfaced[i] = NoJob => ~OnItsWay(i)
                       /\ surfaced[i] = NoJob \/ OnItsWay(i) =>
                            /\ run.items[i] = "absent"
                            /\ \A e \in Drivers : driver[e].snap.items[i] = "absent"
                       /\ \A e, f \in Drivers : Carries(e, i) /\ Carries(f, i) => e = f
                       /\ \A a, b \in Epochs : Buffers(a, i) /\ Buffers(b, i) => a = b
                       /\ \A e \in Drivers, a \in Epochs : ~(Carries(e, i) /\ Buffers(a, i)))'
    BY DEF ItemInv
  <2>1. \A e \in Drivers : Carries(e, i)' <=> Carries(e, i)
    BY <1>1 DEF Carries
  <2>2. /\ surfaced[i] = NoJob => ~OnItsWay(i)
        /\ surfaced[i] = NoJob \/ OnItsWay(i) =>
             /\ run.items[i] = "absent"
             /\ \A e \in Drivers : driver[e].snap.items[i] = "absent"
        /\ \A e, f \in Drivers : Carries(e, i) /\ Carries(f, i) => e = f
        /\ \A a, b \in Epochs : Buffers(a, i) /\ Buffers(b, i) => a = b
        /\ \A e \in Drivers, a \in Epochs : ~(Carries(e, i) /\ Buffers(a, i))
    BY DEF JobsInv, ItemInv
  <2>3. /\ run' = run /\ driver' = driver
        /\ \/ /\ surfaced'[i] = surfaced[i]
              /\ \A id \in Epochs : Buffers(id, i)' => Buffers(id, i)
           \/ /\ surfaced[i] = NoJob /\ surfaced'[i] # NoJob
              /\ \A a, b \in Epochs : Buffers(a, i)' /\ Buffers(b, i)' => a = b
    BY <1>1
  <2>4. CASE /\ surfaced'[i] = surfaced[i]
             /\ \A id \in Epochs : Buffers(id, i)' => Buffers(id, i)
    <3>1. OnItsWay(i)' => OnItsWay(i)
      BY <2>1, <2>4 DEF OnItsWay
    <3>. QED
      BY <2>1, <2>2, <2>3, <2>4, <3>1
  <2>5. CASE /\ surfaced[i] = NoJob /\ surfaced'[i] # NoJob
             /\ \A a, b \in Epochs : Buffers(a, i)' /\ Buffers(b, i)' => a = b
    <3>1. \A e \in Drivers : ~Carries(e, i)
      BY <2>2, <2>5 DEF OnItsWay
    <3>. QED
      BY <2>1, <2>2, <2>3, <2>5, <3>1
  <2>. QED
    BY <2>3, <2>4, <2>5
<1>. QED
  BY <1>2, <1>3, <1>4 DEF JobsInv

LEMMA DriverStepKeeps ==
  ASSUME JobsInv, NEW d \in Drivers,
         DriverStep(d) \/ StartRefused(d) \/ PollBudgetSpent(d) \/ Crash(d)
  PROVE  JobsInv'
<1>1. CASE OpenDispatch(d) \/ StartRefused(d) \/ MarkErrored(d)
  BY <1>1, SameKeeps DEF OpenDispatch, Opened, StartRefused, MarkErrored
<1>2. CASE Advance(d) \/ StartJob(d) \/ RecordDispatch(d)
  BY <1>2, AdvanceKeeps, StartJobKeeps, RecordDispatchKeeps
<1>3. CASE Poll(d) \/ FoldRunning(d) \/ Complete(d) \/ SettleStep(d)
  BY <1>3, PollKeeps, FoldRunningKeeps, CompleteKeeps, SettleStepKeeps
<1>4. CASE FailRun(d) \/ PollBudgetSpent(d) \/ Crash(d)
  BY <1>4, FailRunKeeps, TroubleKeeps
<1>5. ASSUME NEW c \in Causes, Recover(d, c)
      PROVE  JobsInv'
  BY <1>5, RecoverKeeps
<1>. QED
  BY <1>1, <1>2, <1>3, <1>4, <1>5 DEF DriverStep

LEMMA JobsInit ==
  ASSUME Init
  PROVE  JobsInv
<1>1. /\ jobs = NoJobs /\ run = NewRun /\ fresh = {} /\ driver = [d \in Drivers |-> Idle]
      /\ surfaced = [i \in Items |-> NoJob] /\ applied = {}
      /\ left = [decisions |-> MaxDecisions, crashes |-> MaxCrashes]
  BY DEF Init
<1>2. DOMAIN jobs = {}
  BY <1>1 DEF NoJobs
<1>3. TypeInv
  <2>1. left \in [decisions : 0 .. MaxDecisions, crashes : 0 .. MaxCrashes]
    BY <1>1, Bounds
  <2>2. jobs \in [DOMAIN jobs -> JobEntry]
    BY <1>1 DEF NoJobs
  <2>. QED
    BY <1>1, <1>2, <2>1, <2>2, NewRunTyped DEF TypeInv
<1>4. CountInv
  <2>1. /\ NewRun \in RunType /\ Owed(NewRun) = 0 /\ Recoveries(NewRun) = 0
        /\ NewRun.count = 0 /\ NewRun.loops = 0 /\ Spare(NewRun) = 0
    <3>1. InState(NewRun.items, {"asked"}) = {}
      BY DEF InState, NewRun
    <3>. QED
      BY <3>1, NewRunTyped, OwedFacts DEF NewRun, Recoveries, Causes, Spare
  <2>2. \A c \in Causes : NewRun.recovered[c] <= Limit[c]
    BY Bounds DEF NewRun
  <2>3. Within(NewRun, 0)
    BY <1>3, <2>1, <2>2, DecidedFacts DEF Within
  <2>4. \A d \in Drivers : driver[d].pc = "idle" /\ driver[d].snap = NewRun
    BY <1>1 DEF Idle
  <2>. QED
    BY <1>1, <2>1, <2>3, <2>4 DEF CountInv, Afforded
<1>5. PhaseInv
  <2>1. PhaseOK(Idle)
    BY DEF PhaseOK, Idle, Causes
  <2>. QED
    BY <1>1, <2>1 DEF PhaseInv, FreshOK
<1>6. PassInv
  BY <1>1 DEF PassInv, PassOK, NewRun
<1>7. ItemInv
  BY <1>1, <1>2 DEF ItemInv, OnItsWay, Carries, Buffers, Idle, NewRun
<1>. QED
  BY <1>3, <1>4, <1>5, <1>6, <1>7 DEF JobsInv

LEMMA JobsInvStep ==
  JobsInv /\ [Next]_vars => JobsInv'
<1> SUFFICES ASSUME JobsInv, [Next]_vars PROVE JobsInv'
  OBVIOUS
<1>1. CASE Next
  BY <1>1, DriverStepKeeps, HarnessKeeps, ApproveStepKeeps, DecideFollowUpKeeps
     DEF Next, HumanStep
<1>2. CASE UNCHANGED vars
  BY <1>2 DEF vars, JobsInv, TypeInv, CountInv, Afforded, Within, Decided, PhaseInv, FreshOK,
     IsRow, PassInv, ItemInv, OnItsWay, Carries, Buffers
<1>. QED
  BY <1>1, <1>2

LEMMA JobsInvReached ==
  Spec => []JobsInv
BY JobsInit, JobsInvStep, PTL DEF Spec

-----------------------------------------------------------------------------
(* The first theorems. *)

\* The types hold; what takes work is the dispatch count, which the loops, the
\* recoveries and the decisions bound (dispatchEpochFor).
THEOREM JobsTypes ==
  Spec => []TypeOK
<1>1. JobsInv => TypeOK
  BY DEF JobsInv, TypeInv, TypeOK, DriveType
<1>. QED
  BY <1>1, JobsInvReached, PTL

\* The step is never passed over a follow-up nobody decided, whatever is
\* streamed, decided or recorded meanwhile, parks included.
THEOREM UndecidedHolds ==
  Spec => []NothingUndecidedIsPassed
<1>1. JobsInv => NothingUndecidedIsPassed
  BY DEF JobsInv, PassInv, PassOK, NothingUndecidedIsPassed
<1>. QED
  BY <1>1, JobsInvReached, PTL

-----------------------------------------------------------------------------
(* Decisions. *)

LEMMA CasRow ==
  ASSUME NEW d, NEW r, NEW pc, CasPersist(d, r, pc)
  PROVE  \/ d \in fresh /\ run' = r /\ Writes(d, r, pc)
         \/ d \notin fresh /\ run' = run /\ fresh' = fresh /\ To(d, "idle")
BY DEF CasPersist, IsCurrent, StartsOver, Writes

\* An unattended policy leaves nothing pending, so the step never parks.
LEMMA AloneNeverParks ==
  ASSUME NeverParks, NEW r \in RunType, NEW seen, NEW alone \in Unattended
  PROVE  alone = TRUE /\ Verdict(Recorded(r, seen, alone)) # "pending"
<1>1. alone = TRUE
  BY DEF NeverParks
<1>2. \A i \in Items : Recorded(r, seen, alone).items[i] # "pending"
  <2> DEFINE items == Streamed(r.items, seen)
  <2>1. items \in [Items -> ItemStates]
    BY RunFields, StreamedFacts
  <2>2. Recorded(r, seen, alone).items = Moved(items, "pending", "settled")
    BY <1>1 DEF Recorded, Dismissed, RunType
  <2> HIDE DEF items
  <2>. QED
    BY <2>1, <2>2 DEF Moved, ItemStates
<1>3. ~HasPending(Recorded(r, seen, alone))
  BY <1>2 DEF HasPending, InState
<1>. QED
  BY <1>1, <1>3, VerdictFacts

\* What a drive records keeps what was decided on the row it read.
LEMMA CompleteDecided ==
  ASSUME JobsInv, NeverParks, NEW d \in Drivers, Complete(d), NEW i \in Items,
         run.items[i] \notin {"absent", "pending"}
  PROVE  run'.items[i] \notin {"absent", "pending"}
<1>1. PICK alone \in Unattended :
        LET r == Recorded(driver[d].snap, driver[d].seen, alone)
            verdict == Verdict(r)
        IN CASE verdict = "pending"   -> ParkUpsert(d, r)
             [] verdict = "loop"      -> CasPersist(d, Looped(r), "idle")
             [] verdict = "exhausted" -> CasPersist(d, Dropped(r), "settling")
             [] OTHER                 -> CasPersist(d, Passed(r), "idle")
  BY DEF Complete
<1> DEFINE s == driver[d].snap
           r == Recorded(s, driver[d].seen, alone)
<1>2. s \in RunType /\ driver[d].pc = "completing" /\ alone \in BOOLEAN
  BY TypeFacts, Bounds DEF JobsInv, Complete
<1>3. /\ r \in RunType
      /\ \A j \in Items : r.items[j] = IF j \in driver[d].seen \/ s.items[j] = "pending"
                                       THEN IF alone THEN "settled" ELSE "pending"
                                       ELSE s.items[j]
  BY <1>2, RecordedFacts
<1>4. alone = TRUE /\ Verdict(r) # "pending"
  BY <1>2, AloneNeverParks
<1>5. \/ Verdict(r) = "loop" /\ CasPersist(d, Looped(r), "idle")
      \/ Verdict(r) = "exhausted" /\ CasPersist(d, Dropped(r), "settling")
      \/ CasPersist(d, Passed(r), "idle")
  BY <1>1, <1>4
<1> HIDE DEF r
<1>6. run' = run \/ (d \in fresh /\ (\/ Verdict(r) = "loop" /\ run' = Looped(r)
                                     \/ run' = Dropped(r) \/ run' = Passed(r)))
  BY <1>5, CasRow
<1>7. d \in fresh => r.items[i] \notin {"absent", "pending"}
  <2>1. d \in fresh => s = run
    BY <1>2, FreshFacts
  <2>. QED
    BY <1>3, <1>4, <2>1
<1>8. Verdict(r) = "loop" /\ run' = Looped(r) => run'.items = Moved(r.items, "asked", "sent")
  BY <1>3, VerdictFacts, LoopedFacts
<1>9. /\ run' = Dropped(r) => run'.items = Moved(r.items, "asked", "dropped")
      /\ run' = Passed(r) => run'.items = r.items
  BY <1>3, DroppedFacts, PassedFacts
<1>10. /\ Moved(r.items, "asked", "sent")[i] \in {r.items[i], "sent"}
       /\ Moved(r.items, "asked", "dropped")[i] \in {r.items[i], "dropped"}
  BY <1>3, RunFields, MovedFacts DEF ItemStates
<1>. QED
  BY <1>6, <1>7, <1>8, <1>9, <1>10

\* The other steps of a drive leave the items, but for what it streams.
LEMMA DriverItems ==
  ASSUME JobsInv, NEW d \in Drivers,
         DriverStep(d) \/ StartRefused(d) \/ PollBudgetSpent(d) \/ Crash(d),
         ~Complete(d), NEW i \in Items, run'.items[i] # run.items[i]
  PROVE  run.items[i] = "absent" /\ run'.items[i] = "pending"
<1>1. run \in RunType /\ driver[d].snap \in RunType
  BY TypeFacts DEF JobsInv
<1>2. d \in fresh => driver[d].snap.items = run.items
  <2>1. d \in fresh => IsRow(driver[d])
    BY DEF JobsInv, PhaseInv, FreshOK
  <2>. QED
    BY <1>1, <2>1 DEF IsRow, RunType
<1>3. CASE FoldRunning(d)
  <2>1. driver[d].pc = "folding" /\ run' = [run EXCEPT !.items = Streamed(@, driver[d].seen)]
    BY <1>3 DEF FoldRunning
  <2>2. run'.items[i] = IF i \in driver[d].seen THEN "pending" ELSE run.items[i]
    BY <1>1, <2>1, RunFields, StreamedFacts DEF RunType
  <2>3. i \in driver[d].seen => run.items[i] = "absent"
    BY <2>1 DEF JobsInv, ItemInv, OnItsWay, Carries
  <2>. QED
    BY <2>2, <2>3
<1>4. CASE FailRun(d)
  <2>1. run' = run \/ run' = [run EXCEPT !.status = "failed"]
    BY <1>4 DEF FailRun
  <2>. QED
    BY <1>1, <2>1 DEF RunType
<1>5. CASE Advance(d) \/ StartJob(d) \/ Poll(d) \/ PollBudgetSpent(d) \/ Crash(d)
  BY <1>5 DEF Advance, StartJob, Poll, PollBudgetSpent, Crash
<1>6. CASE OpenDispatch(d) \/ StartRefused(d) \/ MarkErrored(d)
  <2>1. run' = run \/ (d \in fresh /\ run' = driver[d].snap)
    BY <1>6, CasRow DEF OpenDispatch, Opened, StartRefused, MarkErrored
  <2>. QED
    BY <1>2, <2>1
<1>7. CASE RecordDispatch(d)
  <2>1. run' = run \/ (d \in fresh /\ run' = Accepted(d))
    BY <1>7, CasRow DEF RecordDispatch
  <2>2. Accepted(d).items = driver[d].snap.items
    BY <1>1 DEF Accepted, RunType
  <2>. QED
    BY <1>2, <2>1, <2>2
<1>8. CASE SettleStep(d)
  <2>1. run' = run \/ (d \in fresh /\ run' = Passed(driver[d].snap))
    BY <1>8, CasRow DEF SettleStep
  <2>. QED
    BY <1>1, <1>2, <2>1, PassedFacts
<1>9. ASSUME NEW c \in Causes, Recover(d, c)
      PROVE  FALSE
  <2>1. \/ run' = run \/ (d \in fresh /\ run' = driver[d].snap)
        \/ (d \in fresh /\ run' = Recovered(driver[d].snap, c))
    BY <1>9, CasRow DEF Recover
  <2>2. Recovered(driver[d].snap, c).items = driver[d].snap.items
    BY <1>1, <1>9, RecoveredFacts
  <2>3. run'.items = run.items
    BY <1>2, <2>1, <2>2
  <2>. QED
    BY <2>3
<1>. QED
  BY <1>3, <1>4, <1>5, <1>6, <1>7, <1>8, <1>9 DEF DriverStep

\* On a run whose policy never waits for a decision, no write of a drive undoes
\* one: every other write is guarded by the revision (persistAndEmit), and an
\* item is streamed to the row once.
THEOREM DecisionsStay ==
  ASSUME NeverParks
  PROVE  Spec => DecisionsSurvive
<1> DEFINE Survive == \A i \in Items : run.items[i] \notin {"absent", "pending"}
                        => run'.items[i] \notin {"absent", "pending"}
<1>1. JobsInv /\ [Next]_vars => [Survive]_vars
  <2> SUFFICES ASSUME JobsInv, Next, NEW i \in Items,
                      run.items[i] \notin {"absent", "pending"}
               PROVE  run'.items[i] \notin {"absent", "pending"}
    OBVIOUS
  <2>1. ASSUME NEW d \in Drivers,
               DriverStep(d) \/ StartRefused(d) \/ PollBudgetSpent(d) \/ Crash(d)
        PROVE  run'.items[i] \notin {"absent", "pending"}
    BY <2>1, CompleteDecided, DriverItems
  <2>2. CASE HarnessStep \/ ContainerGone
    BY <2>2 DEF HarnessStep, JobSettles, SurfaceItem, ContainerGone
  <2>3. CASE ApproveStep
    BY <2>3, TypeFacts DEF ApproveStep, JobsInv, RunType
  <2>4. ASSUME NEW j \in Items, NEW c, DecideFollowUp(j, c)
        PROVE  run'.items[i] \notin {"absent", "pending"}
    BY <2>4, DecidedRow
  <2>. QED
    BY <2>1, <2>2, <2>3, <2>4 DEF Next, HumanStep
<1>. QED
  BY <1>1, JobsInvReached, PTL DEF Spec, DecisionsSurvive

-----------------------------------------------------------------------------
(* Rounds. *)

\* A step that leaves the row and starts nothing.
LEMMA RoundStays ==
  ASSUME RoundInv, run' = run,
         \A id \in Epochs, brief \in SUBSET Items : Known(id, brief)' => Known(id, brief),
         \A d \in fresh' :
           /\ driver'[d].pc = "settling" => d \in fresh /\ driver[d].pc = "settling"
           /\ driver'[d].pc = "completing" => driver'[d].brief = run.rework
  PROVE  RoundInv'
<1>1. AllBehind => AllBehind'
  BY DEF AllBehind
<1>2. \A id \in Epochs, brief \in SUBSET Items : Matches(id, brief)' <=> Matches(id, brief)
  BY DEF Matches
<1>3. (run.job # NoJob => run.job + 1 = run.count)'
  BY DEF RoundInv
<1>4. \A id \in Epochs, brief \in SUBSET Items : Known(id, brief)' => Matches(id, brief)'
  BY <1>2 DEF RoundInv
<1>5. \A d \in fresh' : RoundOK(d)'
  BY <1>1 DEF RoundInv, RoundOK
<1>. QED
  BY <1>3, <1>4, <1>5 DEF RoundInv

\* The row is written, and what is known is still known by its round.
LEMMA RoundWritten ==
  ASSUME \A d \in fresh' : driver'[d].pc \notin {"settling", "completing"} \/ RoundOK(d)',
         (run.job # NoJob => run.job + 1 = run.count)',
         \A id \in Epochs, brief \in SUBSET Items : Known(id, brief)' => Matches(id, brief)'
  PROVE  RoundInv'
<1>1. \A d \in fresh' : RoundOK(d)'
  BY DEF RoundOK
<1>. QED
  BY <1>1 DEF RoundInv

\* The row keeps its dispatches and instructions, or fails.
LEMMA RoundKept ==
  ASSUME RoundInv, run'.count = run.count, run'.job = run.job, run'.rework = run.rework,
         \/ run'.status = run.status
         \/ run'.status = "failed"
         \/ run.status \notin {"running", "failed"},
         \A id \in Epochs, brief \in SUBSET Items :
           Known(id, brief)' => \/ Known(id, brief)
                                \/ /\ id = run.count /\ brief = run.rework
                                   /\ run.job = NoJob /\ run'.status = "running",
         \A d \in fresh' : driver'[d].pc \notin {"settling", "completing"}
  PROVE  RoundInv'
<1>1. (run.job # NoJob => run.job + 1 = run.count)'
  BY DEF RoundInv
<1>2. ASSUME NEW id \in Epochs, NEW brief \in SUBSET Items, Known(id, brief)'
      PROVE  Matches(id, brief)'
  <2>1. CASE Known(id, brief)
    <3>1. Matches(id, brief)
      BY <2>1 DEF RoundInv
    <3>. QED
      BY <3>1 DEF Matches
  <2>2. CASE ~Known(id, brief)
    <3>1. /\ id = run.count /\ brief = run.rework /\ run.job = NoJob
          /\ run'.status = "running"
      BY <1>2, <2>2
    <3>2. id \in Nat
      BY Bounds
    <3>. QED
      BY <3>1, <3>2 DEF Matches
  <2>. QED
    BY <2>1, <2>2
<1>. QED
  BY <1>1, <1>2, RoundWritten

\* The job is cleared, and nothing is known of the round to come.
LEMMA RoundCleared ==
  ASSUME RoundInv, AllBehind, run.count \in Nat, run'.count = run.count, run'.job = NoJob,
         \A id \in Epochs, brief \in SUBSET Items : Known(id, brief)' => Known(id, brief),
         \A d \in fresh' : driver'[d].pc # "completing"
  PROVE  RoundInv'
<1>1. AllBehind'
  BY DEF AllBehind
<1>2. ASSUME NEW id \in Epochs, NEW brief \in SUBSET Items, Known(id, brief)'
      PROVE  Matches(id, brief)'
  <2>1. id < run.count /\ id \in Nat
    BY <1>2, Bounds DEF AllBehind
  <2>. QED
    BY <2>1 DEF Matches
<1>3. \A d \in fresh' : RoundOK(d)'
  BY <1>1 DEF RoundOK
<1>4. (run.job # NoJob => run.job + 1 = run.count)'
  OBVIOUS
<1>. QED
  BY <1>2, <1>3, <1>4, RoundWritten

\* The dispatch is counted: the job is the one the row was about to count.
LEMMA RoundCounted ==
  ASSUME JobsInv, RoundInv, run.job = NoJob, run'.count = run.count + 1,
         run'.job = run.count, run'.rework = run.rework,
         \A id \in Epochs, brief \in SUBSET Items : Known(id, brief)' => Known(id, brief),
         fresh' = {}
  PROVE  RoundInv'
<1>1. run.count \in Nat
  BY TypeFacts, RunFields DEF JobsInv
<1>2. ASSUME NEW id \in Epochs, NEW brief \in SUBSET Items, Known(id, brief)'
      PROVE  Matches(id, brief)'
  <2>1. Matches(id, brief) /\ id \in Nat
    BY <1>2, Bounds DEF RoundInv
  <2>. QED
    BY <1>1, <2>1 DEF Matches
<1>3. (run.job # NoJob => run.job + 1 = run.count)'
  OBVIOUS
<1>. QED
  BY <1>2, <1>3, RoundWritten

\* Where nothing of the round to come can be known.
LEMMA Behind ==
  ASSUME JobsInv, RoundInv,
         run.job # NoJob \/ run.status \in {"blocked", "done"}
  PROVE  AllBehind
<1>1. run.count \in Nat
  BY TypeFacts, RunFields DEF JobsInv
<1>2. ASSUME NEW id \in Epochs, NEW brief \in SUBSET Items, Known(id, brief)
      PROVE  id < run.count
  <2>1. Matches(id, brief) /\ id \in Nat
    BY <1>2, Bounds DEF RoundInv
  <2>. QED
    BY <1>1, <2>1 DEF Matches
<1>. QED
  BY <1>2 DEF AllBehind

\* What is known grows by the drive's own dispatch only.
LEMMA KnownBy ==
  ASSUME JobsInv, NEW d \in Drivers, NEW v, driver' = [driver EXCEPT ![d] = v],
         jobs' = jobs, v.pc \notin {"starting", "accepted"}
  PROVE  \A id, brief : Known(id, brief)' => Known(id, brief)
<1>1. driver'[d] = v /\ \A e \in Drivers \ {d} : driver'[e] = driver[e]
  BY TypeFacts DEF JobsInv
<1>. QED
  BY <1>1 DEF Known

\* A compare-and-swap starts over, or writes the row and knows nothing new.
LEMMA CasRound ==
  ASSUME JobsInv, RoundInv, NEW d \in Drivers, NEW r, NEW pc, CasPersist(d, r, pc),
         pc \in {"idle", "failing", "starting", "settling"}, jobs' = jobs
  PROVE  \/ d \notin fresh /\ RoundInv'
         \/ /\ d \in fresh /\ run' = r
            /\ \A e \in fresh' : driver'[e].pc = pc
            /\ pc \in {"idle", "failing"} => fresh' = {}
            /\ pc # "starting" => \A id, brief : Known(id, brief)' => Known(id, brief)
            /\ driver'[d].pc = pc /\ \A e \in Drivers \ {d} : driver'[e] = driver[e]
            /\ pc = "starting" => driver'[d].snap = r
<1>1. CASE d \in fresh
  <2> DEFINE v == IF pc \in {"idle", "failing"} THEN At(d, pc)
                  ELSE [At(d, pc) EXCEPT !.snap = r]
  <2>1. /\ driver' = [driver EXCEPT ![d] = v] /\ run' = r
        /\ fresh' = IF pc \in {"idle", "failing"} THEN {} ELSE {d}
    BY <1>1 DEF CasPersist, IsCurrent, Writes
  <2>2. pc \in Pcs
    BY DEF Pcs
  <2>3. At(d, pc) \in DriveType /\ At(d, pc).pc = pc
    BY <2>2, AtFacts DEF JobsInv
  <2>4. v.pc = pc /\ (pc = "starting" => v.snap = r)
    BY <2>3 DEF DriveType
  <2> HIDE DEF v
  <2>5. driver'[d] = v /\ \A e \in Drivers \ {d} : driver'[e] = driver[e]
    BY <2>1, TypeFacts DEF JobsInv
  <2>6. pc # "starting" => \A id, brief : Known(id, brief)' => Known(id, brief)
    BY <2>1, <2>4, KnownBy
  <2>. QED
    BY <1>1, <2>1, <2>4, <2>5, <2>6
<1>2. CASE d \notin fresh
  <2> DEFINE v == At(d, "idle")
  <2>1. run' = run /\ fresh' = fresh /\ driver' = [driver EXCEPT ![d] = v]
    BY <1>2, CasRow DEF To
  <2>2. v.pc = "idle"
    BY AtFacts DEF JobsInv, Pcs
  <2> HIDE DEF v
  <2>3. \A id, brief : Known(id, brief)' => Known(id, brief)
    BY <2>1, <2>2, KnownBy
  <2>4. \A e \in fresh : driver'[e] = driver[e]
    BY <1>2, <2>1, TypeFacts DEF JobsInv
  <2>5. RoundInv'
    BY <2>1, <2>3, <2>4, RoundStays DEF RoundInv, RoundOK
  <2>. QED
    BY <1>2, <2>5
<1>. QED
  BY <1>1, <1>2

\* A step of a drive that writes no row and is not about to settle or complete.
LEMMA DriveRound ==
  ASSUME JobsInv, RoundInv, NEW d \in Drivers, NEW v, driver' = [driver EXCEPT ![d] = v],
         run' = run, fresh' \in SUBSET (fresh \cup {d}),
         \A id \in Epochs, brief \in SUBSET Items : Known(id, brief)' => Known(id, brief),
         v.pc # "settling", d \in fresh' /\ v.pc = "completing" => v.brief = run.rework
  PROVE  RoundInv'
<1>1. driver'[d] = v /\ \A e \in Drivers \ {d} : driver'[e] = driver[e]
  BY TypeFacts DEF JobsInv
<1>2. \A e \in fresh' :
        /\ driver'[e].pc = "settling" => e \in fresh /\ driver[e].pc = "settling"
        /\ driver'[e].pc = "completing" => driver'[e].brief = run.rework
  BY <1>1, TypeFacts DEF JobsInv, RoundInv, RoundOK
<1>. QED
  BY <1>2, RoundStays

LEMMA AdvanceRound ==
  ASSUME JobsInv, RoundInv, NEW d \in Drivers, Advance(d)
  PROVE  RoundInv'
<1> DEFINE pc == IF run.job = NoJob THEN "opening" ELSE "polling"
           v == [Idle EXCEPT !.snap = run, !.pc = pc]
<1>1. /\ driver' = [driver EXCEPT ![d] = v] /\ jobs' = jobs /\ run' = run
      /\ fresh' = fresh \cup {d}
  BY DEF Advance
<1>2. v.pc \in {"opening", "polling"}
  BY DEF Idle
<1> HIDE DEF v
<1>3. \A id, brief : Known(id, brief)' => Known(id, brief)
  BY <1>1, <1>2, KnownBy
<1>4. fresh' \in SUBSET (fresh \cup {d})
  BY <1>1
<1>. QED
  BY <1>1, <1>2, <1>3, <1>4, DriveRound

\* A drive that rests.
LEMMA RestRound ==
  ASSUME JobsInv, RoundInv, NEW d \in Drivers, NEW pc \in {"idle", "failing"}, To(d, pc),
         jobs' = jobs, run' = run, fresh' \in SUBSET fresh
  PROVE  RoundInv'
<1> DEFINE v == At(d, pc)
<1>1. v.pc = pc /\ driver' = [driver EXCEPT ![d] = v]
  BY AtFacts DEF JobsInv, Pcs, To
<1> HIDE DEF v
<1>2. \A id, brief : Known(id, brief)' => Known(id, brief)
  BY <1>1, KnownBy
<1>3. fresh' \in SUBSET (fresh \cup {d})
  OBVIOUS
<1>4. v.pc # "settling" /\ v.pc # "completing"
  BY <1>1
<1>. QED
  BY <1>1, <1>2, <1>3, <1>4, DriveRound

\* The dispatch of the row's next round becomes known, under its instructions.
LEMMA OpenDispatchRound ==
  ASSUME JobsInv, RoundInv, NEW d \in Drivers, OpenDispatch(d)
  PROVE  RoundInv'
<1> DEFINE s == driver[d].snap
<1>1. /\ driver[d].pc = "opening" /\ CasPersist(d, s, "starting") /\ jobs' = jobs
      /\ s \in RunType
  BY TypeFacts DEF OpenDispatch, Opened, JobsInv
<1>2. CASE d \notin fresh
  BY <1>1, <1>2, CasRound
<1>3. CASE d \in fresh
  <2>1. /\ run' = s /\ \A e \in fresh' : driver'[e].pc = "starting"
        /\ driver'[d].pc = "starting" /\ \A e \in Drivers \ {d} : driver'[e] = driver[e]
        /\ driver'[d].snap = s
    BY <1>1, <1>3, CasRound
  <2>2. s = run /\ s.job = NoJob /\ s.status = "running"
    BY <1>1, <1>3, FreshFacts DEF PhaseOK
  <2>3. \A id \in Epochs, brief \in SUBSET Items :
          Known(id, brief)' => Known(id, brief) \/ (id = run.count /\ brief = run.rework)
    BY <1>1, <2>1, <2>2 DEF Known
  <2>. QED
    BY <2>1, <2>2, <2>3, RoundKept
<1>. QED
  BY <1>2, <1>3

\* The harness takes a dispatch that was known, or re-attaches to its job.
LEMMA StartJobRound ==
  ASSUME JobsInv, RoundInv, NEW d \in Drivers, StartJob(d)
  PROVE  RoundInv'
<1> DEFINE s == driver[d].snap
           v == [driver[d] EXCEPT !.pc = "accepted",
                                  !.snap = [s EXCEPT !.job = s.count]]
<1>1. /\ driver[d] \in DriveType /\ s \in RunType /\ driver[d].pc = "starting"
      /\ run' = run /\ fresh' = fresh /\ jobs' = Started(s.count, s.rework)
  BY TypeFacts DEF StartJob, JobsInv
<1>2. driver' = [driver EXCEPT ![d] = v]
  BY TypeFacts DEF StartJob, JobsInv
<1>3. v.pc = "accepted" /\ v.snap.count = s.count /\ v.snap.rework = s.rework
  BY <1>1 DEF DriveType, RunType
<1> HIDE DEF v
<1>4. driver'[d] = v /\ \A e \in Drivers \ {d} : driver'[e] = driver[e]
  BY <1>2, TypeFacts DEF JobsInv
<1>5. \A id \in DOMAIN jobs' : \/ id \in DOMAIN jobs /\ jobs'[id].brief = jobs[id].brief
                               \/ id = s.count /\ jobs'[id].brief = s.rework
  BY <1>1 DEF Started
<1>6. \A id \in Epochs, brief \in SUBSET Items : Known(id, brief)' => Known(id, brief)
  BY <1>1, <1>3, <1>4, <1>5 DEF Known
<1>7. fresh' \in SUBSET (fresh \cup {d}) /\ v.pc # "settling" /\ v.pc # "completing"
  BY <1>1, <1>3
<1>. QED
  BY <1>1, <1>2, <1>6, <1>7, DriveRound

LEMMA RecordDispatchRound ==
  ASSUME JobsInv, RoundInv, NEW d \in Drivers, RecordDispatch(d)
  PROVE  RoundInv'
<1> DEFINE s == driver[d].snap
           r == [s EXCEPT !.count = s.count + 1]
<1>1. /\ driver[d].pc = "accepted" /\ CasPersist(d, r, "idle") /\ jobs' = jobs
      /\ s \in RunType /\ run \in RunType
  BY TypeFacts DEF RecordDispatch, Accepted, JobsInv
<1>2. CASE d \notin fresh
  BY <1>1, <1>2, CasRound
<1>3. CASE d \in fresh
  <2>1. /\ run' = r /\ fresh' = {}
        /\ \A id, brief : Known(id, brief)' => Known(id, brief)
    BY <1>1, <1>3, CasRound
  <2>2. s = [run EXCEPT !.job = run.count] /\ run.job = NoJob
    BY <1>1, <1>3 DEF JobsInv, PhaseInv, FreshOK, IsRow
  <2>3. run'.count = run.count + 1 /\ run'.job = run.count /\ run'.rework = run.rework
    BY <1>1, <2>1, <2>2 DEF RunType
  <2>. QED
    BY <2>1, <2>2, <2>3, RoundCounted
<1>. QED
  BY <1>2, <1>3

\* The copy is written back as it was.
LEMMA SameRound ==
  ASSUME JobsInv, RoundInv, NEW d \in Drivers, CasPersist(d, driver[d].snap, "failing"),
         jobs' = jobs, driver[d].pc # "accepted"
  PROVE  RoundInv'
<1>1. CASE d \notin fresh
  BY <1>1, CasRound
<1>2. CASE d \in fresh
  <2>1. /\ run' = driver[d].snap /\ fresh' = {}
        /\ \A id, brief : Known(id, brief)' => Known(id, brief)
    BY <1>2, CasRound
  <2>2. run' = run
    BY <1>2, <2>1, FreshFacts
  <2>. QED
    BY <2>1, <2>2, RoundStays
<1>. QED
  BY <1>1, <1>2

\* The poll that sees the job done brings the instructions it ran under, which
\* are the row's: the job is the one the row counted last.
LEMMA PollRound ==
  ASSUME JobsInv, RoundInv, NEW d \in Drivers, Poll(d)
  PROVE  RoundInv'
<1>. PICK id : id = driver[d].snap.job
  OBVIOUS
<1>1. /\ driver[d] \in DriveType /\ driver[d].pc = "polling"
      /\ run' = run /\ fresh' = fresh
  BY TypeFacts DEF JobsInv, Poll
<1>2. id # NoJob /\ (d \in fresh => run.job = id)
  BY <1>1, FreshFacts DEF PhaseOK
<1>3. CASE Holds(id)
  <2> DEFINE pc == [running |-> "folding", done |-> "completing", failed |-> "failed",
                    contended |-> "contended"][jobs[id].state]
             v == [driver[d] EXCEPT !.pc = pc, !.seen = jobs[id].buffer,
                                    !.brief = jobs[id].brief]
  <2>1. jobs' = Drained(id) /\ driver' = [driver EXCEPT ![d] = v]
    BY <1>3, TypeFacts DEF Poll, JobsInv
  <2>2. id \in DOMAIN jobs /\ jobs[id] \in JobEntry /\ id \in Epochs
    BY <1>3, TypeFacts DEF JobsInv, Holds
  <2>3. pc \in {"folding", "completing", "failed", "contended"}
    BY <2>2 DEF JobEntry, JobStates
  <2> HIDE DEF pc
  <2>4. v.pc = pc /\ v.brief = jobs[id].brief
    BY <1>1 DEF DriveType
  <2> HIDE DEF v
  <2>5. driver'[d] = v /\ \A e \in Drivers \ {d} : driver'[e] = driver[e]
    BY <2>1, TypeFacts DEF JobsInv
  <2>6. DOMAIN jobs' = DOMAIN jobs /\ \A k \in DOMAIN jobs : jobs'[k].brief = jobs[k].brief
    BY <2>1, TypeFacts DEF Drained, JobsInv, JobEntry
  <2>7. \A k \in Epochs, brief \in SUBSET Items : Known(k, brief)' => Known(k, brief)
    BY <2>3, <2>4, <2>5, <2>6 DEF Known
  <2>8. d \in fresh => v.brief = run.rework
    <3>1. Known(id, jobs[id].brief) /\ jobs[id].brief \in SUBSET Items
      BY <2>2 DEF Known, JobEntry
    <3>2. Matches(id, jobs[id].brief)
      BY <2>2, <3>1 DEF RoundInv
    <3>. QED
      BY <1>2, <2>4, <3>2 DEF RoundInv, Matches
  <2>9. fresh' \in SUBSET (fresh \cup {d}) /\ v.pc # "settling"
    BY <1>1, <2>3, <2>4
  <2>. QED
    BY <1>1, <2>1, <2>7, <2>8, <2>9, DriveRound
<1>4. CASE ~Holds(id)
  <2>1. PICK pc \in {"evicted", "transient"} : To(d, pc) /\ jobs' = jobs
    BY <1>3, <1>4 DEF Poll, LostJob
  <2> DEFINE v == At(d, pc)
  <2>2. driver' = [driver EXCEPT ![d] = v]
    BY <2>1 DEF To
  <2>3. v.pc = pc
    BY AtFacts DEF JobsInv, Pcs, Causes
  <2> HIDE DEF v
  <2>4. \A k, brief : Known(k, brief)' => Known(k, brief)
    BY <2>1, <2>2, <2>3, KnownBy
  <2>5. fresh' \in SUBSET (fresh \cup {d}) /\ v.pc # "settling" /\ v.pc # "completing"
    BY <1>1, <2>3
  <2>. QED
    BY <1>1, <2>2, <2>4, <2>5, DriveRound
<1>. QED
  BY <1>3, <1>4

LEMMA FoldRunningRound ==
  ASSUME JobsInv, RoundInv, NEW d \in Drivers, FoldRunning(d)
  PROVE  RoundInv'
<1> DEFINE v == At(d, "idle")
<1>1. /\ To(d, "idle") /\ driver' = [driver EXCEPT ![d] = v] /\ jobs' = jobs
      /\ run \in RunType
  BY TypeFacts DEF FoldRunning, JobsInv, To
<1>2. v.pc = "idle"
  BY AtFacts DEF JobsInv, Pcs
<1> HIDE DEF v
<1>3. \A id, brief : Known(id, brief)' => Known(id, brief)
  BY <1>1, <1>2, KnownBy
<1>4. CASE run' = run /\ fresh' = fresh \ {d}
  <2>1. fresh' \in SUBSET fresh
    BY <1>4
  <2>. QED
    BY <1>1, <1>4, <2>1, RestRound
<1>5. CASE run' = [run EXCEPT !.items = Streamed(@, driver[d].seen)] /\ fresh' = {}
  <2>1. run'.count = run.count /\ run'.job = run.job /\ run'.rework = run.rework
        /\ run'.status = run.status
    BY <1>1, <1>5 DEF RunType
  <2>. QED
    BY <1>3, <1>5, <2>1, RoundKept
<1>. QED
  BY <1>4, <1>5 DEF FoldRunning

LEMMA FailRunRound ==
  ASSUME JobsInv, RoundInv, NEW d \in Drivers, FailRun(d)
  PROVE  RoundInv'
<1> DEFINE v == At(d, "idle")
<1>1. /\ To(d, "idle") /\ driver' = [driver EXCEPT ![d] = v] /\ jobs' = jobs
      /\ run \in RunType
  BY TypeFacts DEF FailRun, JobsInv, To
<1>2. v.pc = "idle"
  BY AtFacts DEF JobsInv, Pcs
<1> HIDE DEF v
<1>3. \A id, brief : Known(id, brief)' => Known(id, brief)
  BY <1>1, <1>2, KnownBy
<1>4. CASE run' = run /\ fresh' = fresh
  <2>1. fresh' \in SUBSET fresh
    BY <1>4
  <2>. QED
    BY <1>1, <1>4, <2>1, RestRound
<1>5. CASE run' = [run EXCEPT !.status = "failed"] /\ fresh' = {}
  <2>1. run'.count = run.count /\ run'.job = run.job /\ run'.rework = run.rework
        /\ run'.status = "failed"
    BY <1>1, <1>5 DEF RunType
  <2>. QED
    BY <1>3, <1>5, <2>1, RoundKept
<1>. QED
  BY <1>4, <1>5 DEF FailRun

LEMMA RecoverRound ==
  ASSUME JobsInv, RoundInv, NEW d \in Drivers, NEW c \in Causes, Recover(d, c)
  PROVE  RoundInv'
<1> DEFINE s == driver[d].snap
           r == Recovered(s, c)
<1>1. s \in RunType /\ driver[d].pc = c /\ jobs' = jobs /\ c # "accepted"
  BY TypeFacts DEF JobsInv, Recover, Causes
<1>2. CASE ~(s.recovered[c] < Limit[c])
  BY <1>1, <1>2, SameRound DEF Recover
<1>3. CASE s.recovered[c] < Limit[c] /\ d \notin fresh
  BY <1>1, <1>3, CasRound DEF Recover
<1>4. CASE s.recovered[c] < Limit[c] /\ d \in fresh
  <2>1. /\ run' = r /\ fresh' = {}
        /\ \A id, brief : Known(id, brief)' => Known(id, brief)
    BY <1>1, <1>4, CasRound DEF Recover
  <2>2. s = run /\ run.job # NoJob /\ run.count \in Nat
    BY <1>1, <1>4, FreshFacts, RunFields DEF PhaseOK
  <2>3. run'.count = run.count /\ run'.job = NoJob
    BY <1>1, <2>1, <2>2, RecoveredFacts
  <2>. QED
    BY <2>1, <2>2, <2>3, Behind, RoundCleared
<1>. QED
  BY <1>2, <1>3, <1>4

\* No drive parks the step out of its turn.
ParksInTurn ==
  NeverParks \/ \A d \in Drivers : driver[d].pc = "completing" =>
                  run.job # NoJob /\ driver[d].snap.count = run.count

\* What a pass makes of the row, whichever way the verdict goes.
LEMMA CompleteRow ==
  ASSUME JobsInv, NEW d \in Drivers, Complete(d)
  PROVE  \E r \in RunType :
           /\ r.count = driver[d].snap.count /\ r.job = NoJob
           /\ r.status \in {"running", "blocked", "done"}
           /\ \A i \in Items :
                /\ r.items[i] = "sent" =>
                     driver[d].snap.items[i] = "sent" \/ i \in r.rework
                /\ r.status = "done" => r.items[i] # "asked"
           /\ \/ CasPersist(d, r, "idle") /\ (IsCurrent(d) \/ applied' = applied)
              \/ /\ CasPersist(d, r, "settling") /\ (IsCurrent(d) \/ applied' = applied)
                 /\ r.status = "running" /\ r.rework = {}
              \/ ~NeverParks /\ Writes(d, r, "idle") /\ r.status = "blocked"
           /\ \/ applied' = applied /\ run' = run /\ d \notin fresh
              \/ /\ run' = r
                 /\ applied' = (applied \cup {i \in driver[d].brief :
                                         driver[d].snap.items[i] = "sent"}) \ r.rework
<1>1. PICK alone \in Unattended :
        LET r == Recorded(driver[d].snap, driver[d].seen, alone)
            verdict == Verdict(r)
        IN /\ CASE verdict = "pending"   -> ParkUpsert(d, r)
                [] verdict = "loop"      -> CasPersist(d, Looped(r), "idle")
                [] verdict = "exhausted" -> CasPersist(d, Dropped(r), "settling")
                [] OTHER                 -> CasPersist(d, Passed(r), "idle")
           /\ applied' = IF IsCurrent(d) \/ verdict = "pending"
                         THEN (applied \cup {i \in driver[d].brief :
                                               driver[d].snap.items[i] = "sent"})
                                \ run'.rework
                         ELSE applied
  BY DEF Complete
<1> DEFINE s == driver[d].snap
           r == Recorded(s, driver[d].seen, alone)
           more == {i \in driver[d].brief : s.items[i] = "sent"}
<1>2. s \in RunType /\ driver[d].pc = "completing" /\ alone \in BOOLEAN /\ s.status = "running"
  <2>1. driver[d].pc = "completing"
    BY DEF Complete
  <2>. QED
    BY <2>1, TypeFacts, Bounds, FreshFacts DEF JobsInv, PhaseOK
<1>3. /\ r \in RunType /\ r.status = "running" /\ r.job = NoJob /\ r.count = s.count
      /\ r.rework = {}
      /\ \A j \in Items : r.items[j] = IF j \in driver[d].seen \/ s.items[j] = "pending"
                                       THEN IF alone THEN "settled" ELSE "pending"
                                       ELSE s.items[j]
  BY <1>2, RecordedFacts
<1>4. NeverParks => Verdict(r) # "pending"
  BY <1>2, AloneNeverParks
<1>5. /\ Verdict(r) = "pending" => Writes(d, [r EXCEPT !.status = "blocked"], "idle")
      /\ Verdict(r) = "loop" => CasPersist(d, Looped(r), "idle")
      /\ Verdict(r) = "exhausted" => CasPersist(d, Dropped(r), "settling")
      /\ Verdict(r) \notin {"pending", "loop", "exhausted"} => CasPersist(d, Passed(r), "idle")
      /\ applied' = IF d \in fresh \/ Verdict(r) = "pending"
                    THEN (applied \cup more) \ run'.rework ELSE applied
  BY <1>1 DEF ParkUpsert, IsCurrent
<1> HIDE DEF r, more
<1>6. \A i \in Items : r.items[i] = "sent" => s.items[i] = "sent"
  BY <1>3
<1>7. ASSUME NEW R, NEW pc, CasPersist(d, R, pc), Verdict(r) # "pending"
      PROVE  /\ IsCurrent(d) \/ applied' = applied
             /\ \/ applied' = applied /\ run' = run /\ d \notin fresh
                \/ run' = R /\ applied' = (applied \cup more) \ R.rework
  BY <1>5, <1>7, CasRow DEF IsCurrent
<1>8. CASE Verdict(r) = "pending"
  <2> DEFINE R == [r EXCEPT !.status = "blocked"]
  <2>1. /\ R \in RunType /\ R.status = "blocked" /\ R.job = NoJob /\ R.rework = {}
        /\ R.items = r.items /\ R.count = s.count
    BY <1>3 DEF RunType
  <2>2. Writes(d, R, "idle")
    BY <1>5, <1>8
  <2> HIDE DEF R
  <2>3. run' = R
    BY <2>2 DEF Writes
  <2>4. applied' = (applied \cup more) \ R.rework
    BY <1>5, <1>8, <2>3
  <2>. QED
    BY <1>4, <1>6, <1>8, <2>1, <2>2, <2>3, <2>4 DEF more
<1>9. CASE Verdict(r) = "loop"
  <2> DEFINE R == Looped(r)
  <2>1. /\ R \in RunType /\ R.status = "running" /\ R.job = NoJob /\ R.count = s.count
        /\ R.rework = InState(r.items, {"asked"}) /\ R.items = Moved(r.items, "asked", "sent")
    BY <1>3, <1>9, VerdictFacts, LoopedFacts
  <2>2. CasPersist(d, R, "idle")
    BY <1>5, <1>9
  <2> HIDE DEF R
  <2>3. \A i \in Items : R.items[i] = "sent" => r.items[i] = "sent" \/ i \in R.rework
    BY <1>3, <2>1, RunFields, MovedFacts DEF ItemStates, InState
  <2>4. /\ IsCurrent(d) \/ applied' = applied
        /\ \/ applied' = applied /\ run' = run /\ d \notin fresh
           \/ run' = R /\ applied' = (applied \cup more) \ R.rework
    BY <1>7, <1>9, <2>2
  <2>. QED
    BY <1>6, <2>1, <2>2, <2>3, <2>4 DEF more
<1>10. CASE Verdict(r) = "exhausted"
  <2> DEFINE R == Dropped(r)
  <2>1. /\ R \in RunType /\ R.status = "running" /\ R.job = NoJob /\ R.count = s.count
        /\ R.rework = {} /\ R.items = Moved(r.items, "asked", "dropped")
    BY <1>3, DroppedFacts
  <2>2. CasPersist(d, R, "settling")
    BY <1>5, <1>10
  <2> HIDE DEF R
  <2>3. \A i \in Items : R.items[i] = "sent" => r.items[i] = "sent"
    BY <1>3, <2>1, RunFields, MovedFacts DEF ItemStates
  <2>4. /\ IsCurrent(d) \/ applied' = applied
        /\ \/ applied' = applied /\ run' = run /\ d \notin fresh
           \/ run' = R /\ applied' = (applied \cup more) \ R.rework
    BY <1>7, <1>10, <2>2
  <2>. QED
    BY <1>6, <2>1, <2>2, <2>3, <2>4 DEF more
<1>11. CASE Verdict(r) \notin {"pending", "loop", "exhausted"}
  <2> DEFINE R == Passed(r)
  <2>1. /\ R \in RunType /\ R.status \in {"blocked", "done"} /\ R.job = NoJob
        /\ R.count = s.count /\ R.rework = {} /\ R.items = r.items
    BY <1>3, PassedFacts
  <2>2. CasPersist(d, R, "idle")
    BY <1>5, <1>11
  <2> HIDE DEF R
  <2>3. \A i \in Items : R.items[i] # "asked"
    BY <1>11, <2>1, VerdictFacts DEF InState
  <2>4. /\ IsCurrent(d) \/ applied' = applied
        /\ \/ applied' = applied /\ run' = run /\ d \notin fresh
           \/ run' = R /\ applied' = (applied \cup more) \ R.rework
    BY <1>7, <1>11, <2>2
  <2>. QED
    BY <1>6, <2>1, <2>2, <2>3, <2>4 DEF more
<1>. QED
  BY <1>8, <1>9, <1>10, <1>11

LEMMA CompleteRound ==
  ASSUME JobsInv, RoundInv, ParksInTurn, NEW d \in Drivers, Complete(d)
  PROVE  RoundInv'
<1>1. PICK r \in RunType :
        /\ r.count = driver[d].snap.count /\ r.job = NoJob
        /\ \/ CasPersist(d, r, "idle") \/ CasPersist(d, r, "settling")
           \/ ~NeverParks /\ Writes(d, r, "idle")
  BY CompleteRow
<1>2. driver[d].pc = "completing" /\ driver[d].snap.job # NoJob /\ jobs' = jobs
      /\ run.count \in Nat
  <2>1. driver[d].pc = "completing" /\ jobs' = jobs
    BY DEF Complete
  <2>. QED
    BY <2>1, TypeFacts, FreshFacts, RunFields DEF PhaseOK, JobsInv
<1>3. CASE ~NeverParks /\ Writes(d, r, "idle")
  <2> DEFINE v == At(d, "idle")
  <2>1. run' = r /\ fresh' = {} /\ driver' = [driver EXCEPT ![d] = v]
    BY <1>3 DEF Writes
  <2>2. v.pc = "idle"
    BY AtFacts DEF JobsInv, Pcs
  <2> HIDE DEF v
  <2>3. \A id, brief : Known(id, brief)' => Known(id, brief)
    BY <1>2, <2>1, <2>2, KnownBy
  <2>4. run.job # NoJob /\ run'.count = run.count /\ run'.job = NoJob
    BY <1>1, <1>2, <1>3, <2>1 DEF ParksInTurn
  <2>. QED
    BY <1>2, <2>1, <2>3, <2>4, Behind, RoundCleared
<1>4. ASSUME NEW pc \in {"idle", "settling"}, CasPersist(d, r, pc)
      PROVE  RoundInv'
  <2>1. CASE d \notin fresh
    BY <1>2, <1>4, <2>1, CasRound
  <2>2. CASE d \in fresh
    <3>1. /\ run' = r /\ \A e \in fresh' : driver'[e].pc # "completing"
          /\ \A id, brief : Known(id, brief)' => Known(id, brief)
      BY <1>2, <1>4, <2>2, CasRound
    <3>2. driver[d].snap = run
      BY <1>2, <2>2, FreshFacts
    <3>3. run.job # NoJob /\ run'.count = run.count /\ run'.job = NoJob
      BY <1>1, <1>2, <3>1, <3>2
    <3>. QED
      BY <1>2, <3>1, <3>3, Behind, RoundCleared
  <2>. QED
    BY <2>1, <2>2
<1>. QED
  BY <1>1, <1>3, <1>4

LEMMA SettleStepRound ==
  ASSUME JobsInv, RoundInv, NEW d \in Drivers, SettleStep(d)
  PROVE  RoundInv'
<1> DEFINE s == driver[d].snap
           r == Passed(s)
<1>1. /\ s \in RunType /\ driver[d].pc = "settling" /\ s.job = NoJob
      /\ CasPersist(d, r, "idle") /\ jobs' = jobs
  BY TypeFacts, FreshFacts DEF JobsInv, SettleStep, PhaseOK
<1>2. CASE d \notin fresh
  BY <1>1, <1>2, CasRound
<1>3. CASE d \in fresh
  <2>1. /\ run' = r /\ fresh' = {}
        /\ \A id, brief : Known(id, brief)' => Known(id, brief)
    BY <1>1, <1>3, CasRound
  <2>2. s = run /\ AllBehind /\ run.count \in Nat
    BY <1>1, <1>3, FreshFacts, RunFields DEF RoundInv, RoundOK
  <2>3. run'.count = run.count /\ run'.job = NoJob
    BY <1>1, <2>1, <2>2, PassedFacts
  <2>. QED
    BY <2>1, <2>2, <2>3, RoundCleared
<1>. QED
  BY <1>2, <1>3

\* Steps of the others: the harness settles, surfaces or goes; people decide.
LEMMA OthersRound ==
  ASSUME JobsInv, RoundInv, HarnessStep \/ ContainerGone \/ HumanStep
  PROVE  RoundInv'
<1>1. run.count \in Nat /\ run \in RunType
  BY TypeFacts, RunFields DEF JobsInv
<1>2. CASE HarnessStep \/ ContainerGone
  <2>1. run' = run /\ fresh' = fresh /\ driver' = driver
    BY <1>2 DEF HarnessStep, JobSettles, SurfaceItem, ContainerGone
  <2>2. \A id \in DOMAIN jobs' : id \in DOMAIN jobs /\ jobs'[id].brief = jobs[id].brief
    <3>1. CASE ContainerGone
      BY <3>1 DEF ContainerGone, Evict, NoJobs
    <3>2. ASSUME NEW id \in DOMAIN jobs, JobSettles(id)
          PROVE  <2>2!:
      <4>1. PICK state : jobs' = [jobs EXCEPT ![id].state = state]
        BY <3>2 DEF JobSettles, Settle
      <4>. QED
        BY <4>1, TypeFacts DEF JobsInv, JobEntry
    <3>3. ASSUME NEW id \in DOMAIN jobs, NEW i \in Items, SurfaceItem(id, i)
          PROVE  <2>2!:
      BY <3>3, TypeFacts DEF JobsInv, JobEntry, SurfaceItem, Surface
    <3>. QED
      BY <1>2, <3>1, <3>2, <3>3 DEF HarnessStep
  <2>3. \A id, brief : Known(id, brief)' => Known(id, brief)
    BY <2>1, <2>2 DEF Known
  <2>. QED
    BY <2>1, <2>3, RoundStays DEF RoundInv, RoundOK
<1>3. ASSUME jobs' = jobs, driver' = driver, fresh' = {}, run'.count = run.count,
             \/ run'.job = run.job /\ run'.rework = run.rework
                /\ (run'.status = run.status \/ run.status = "blocked")
             \/ run'.job = NoJob /\ run.status = "blocked"
      PROVE  RoundInv'
  <2>1. \A id, brief : Known(id, brief)' => Known(id, brief)
    BY <1>3 DEF Known
  <2>2. CASE run'.job = NoJob /\ run.status = "blocked"
    BY <1>1, <1>3, <2>1, <2>2, Behind, RoundCleared
  <2>3. CASE run'.job = run.job /\ run'.rework = run.rework
             /\ (run'.status = run.status \/ run.status = "blocked")
    BY <1>3, <2>1, <2>3, RoundKept
  <2>. QED
    BY <1>3, <2>2, <2>3
<1>4. CASE ApproveStep
  <2>1. /\ jobs' = jobs /\ driver' = driver /\ fresh' = {} /\ run.status = "blocked"
        /\ run' = [run EXCEPT !.status = "done"]
    BY <1>4 DEF ApproveStep
  <2>2. run'.count = run.count /\ run'.job = run.job /\ run'.rework = run.rework
    BY <1>1, <2>1 DEF RunType
  <2>. QED
    BY <1>3, <2>1, <2>2
<1>5. ASSUME NEW i \in Items, NEW c, DecideFollowUp(i, c)
      PROVE  RoundInv'
  <2>1. jobs' = jobs /\ driver' = driver /\ fresh' = {}
    BY <1>5 DEF DecideFollowUp
  <2>2. /\ run'.count = run.count
        /\ \/ run'.job = run.job /\ run'.rework = run.rework
              /\ (run'.status = run.status \/ run.status = "blocked")
           \/ run'.job = NoJob /\ run.status = "blocked"
    BY <1>5, DecidedRow
  <2>. QED
    BY <1>3, <2>1, <2>2
<1>. QED
  BY <1>2, <1>4, <1>5 DEF HumanStep

LEMMA TroubleRound ==
  ASSUME JobsInv, RoundInv, NEW d \in Drivers, PollBudgetSpent(d) \/ Crash(d)
  PROVE  RoundInv'
<1>1. CASE PollBudgetSpent(d)
  <2>1. /\ To(d, "failing") /\ jobs' = jobs /\ run' = run /\ fresh' \in SUBSET fresh
    BY <1>1 DEF PollBudgetSpent
  <2>. QED
    BY <2>1, RestRound
<1>2. CASE Crash(d)
  <2>1. At(d, "idle") = Idle
    BY DEF At
  <2>2. /\ To(d, "idle") /\ jobs' = jobs /\ run' = run /\ fresh' \in SUBSET fresh
    BY <1>2, <2>1 DEF Crash, To
  <2>. QED
    BY <2>2, RestRound
<1>. QED
  BY <1>1, <1>2

LEMMA RoundStep ==
  ASSUME JobsInv, RoundInv, ParksInTurn, [Next]_vars
  PROVE  RoundInv'
<1>1. ASSUME NEW d \in Drivers,
             DriverStep(d) \/ StartRefused(d) \/ PollBudgetSpent(d) \/ Crash(d)
      PROVE  RoundInv'
  <2>1. CASE Advance(d) \/ OpenDispatch(d) \/ StartJob(d) \/ RecordDispatch(d)
    BY <2>1, AdvanceRound, OpenDispatchRound, StartJobRound, RecordDispatchRound
  <2>2. CASE Poll(d) \/ FoldRunning(d) \/ Complete(d) \/ SettleStep(d)
    BY <2>2, PollRound, FoldRunningRound, CompleteRound, SettleStepRound
  <2>3. CASE MarkErrored(d) \/ StartRefused(d)
    BY <2>3, SameRound DEF MarkErrored, StartRefused
  <2>4. CASE FailRun(d) \/ PollBudgetSpent(d) \/ Crash(d)
    BY <2>4, FailRunRound, TroubleRound
  <2>5. ASSUME NEW c \in Causes, Recover(d, c)
        PROVE  RoundInv'
    BY <2>5, RecoverRound
  <2>. QED
    BY <1>1, <2>1, <2>2, <2>3, <2>4, <2>5 DEF DriverStep
<1>2. CASE UNCHANGED vars
  <2>1. \A id, brief : Known(id, brief)' => Known(id, brief)
    BY <1>2 DEF vars, Known
  <2>. QED
    BY <1>2, <2>1, RoundStays DEF vars, RoundInv, RoundOK
<1>. QED
  BY <1>1, <1>2, OthersRound DEF Next

LEMMA RoundInit ==
  ASSUME Init
  PROVE  RoundInv
BY DEF Init, NoJobs, NewRun, Idle, RoundInv, Known

\* A result about to be recorded was produced under the instructions the step
\* now carries, on a run whose policy never waits for a decision: the counted
\* dispatch epoch alone tells one round's job from the next (dispatchEpochFor).
THEOREM RoundsMatch ==
  ASSUME NeverParks
  PROVE  Spec => []ResultIsOfThisRound
<1>1. Init => RoundInv
  BY RoundInit
<1>2. JobsInv /\ RoundInv /\ [Next]_vars => RoundInv'
  BY RoundStep DEF ParksInTurn
<1>3. JobsInv /\ RoundInv => ResultIsOfThisRound
  BY DEF RoundInv, RoundOK, ResultIsOfThisRound
<1>. QED
  BY <1>1, <1>2, <1>3, JobsInvReached, PTL DEF Spec

-----------------------------------------------------------------------------
(* A run with one drive. *)

\* A step that keeps the row's round, keeps the drive or lets it rest, and
\* starts no job.
LEMMA SoloKeeps ==
  ASSUME JobsInv, OneDrive, SoloInv, NEW d \in Drivers,
         run'.job = run.job, run'.count = run.count, run'.rework = run.rework,
         RunningJobs' \in SUBSET RunningJobs, applied' = applied, SentOK',
         \/ driver'[d].pc \in {"idle", "failing"}
         \/ driver'[d] = driver[d] /\ run'.status = run.status
  PROVE  SoloInv'
<1>1. ASSUME NEW e \in Drivers PROVE SoloOK(e)'
  <2>1. e = d
    BY DEF OneDrive
  <2>. QED
    BY <2>1 DEF SoloInv, SoloOK, Causes
<1>2. \A id \in RunningJobs' : id = run'.job \/ (id = run'.count /\ run'.job = NoJob)
  BY DEF SoloInv
<1>. QED
  BY <1>1, <1>2 DEF SoloInv

\* The row is written while no job runs, and the drive rests or goes on from it.
LEMMA SoloWrites ==
  ASSUME JobsInv, OneDrive, NEW d \in Drivers, SentOK', RunningJobs' = {},
         \/ driver'[d].pc \in {"idle", "failing"}
         \/ /\ driver'[d].pc \in {"starting", "settling"} /\ driver'[d].snap = run'
            /\ run'.status = "running"
  PROVE  SoloInv'
<1>1. ASSUME NEW e \in Drivers PROVE SoloOK(e)'
  <2>1. e = d
    BY DEF OneDrive
  <2>2. CASE driver'[d].pc \in {"idle", "failing"}
    BY <2>1, <2>2 DEF SoloOK, Causes
  <2>3. CASE /\ driver'[d].pc \in {"starting", "settling"} /\ driver'[d].snap = run'
             /\ run'.status = "running"
    BY <2>1, <2>3 DEF SoloOK, Causes, SentOK
  <2>. QED
    BY <2>2, <2>3
<1>. QED
  BY <1>1 DEF SoloInv

LEMMA SameRunning ==
  ASSUME jobs' = jobs
  PROVE  RunningJobs' = RunningJobs
BY DEF RunningJobs, Running, Holds

\* The drive starts over, or gives up, on a row it leaves alone.
LEMMA SoloRests ==
  ASSUME JobsInv, OneDrive, SoloInv, NEW d \in Drivers, NEW pc \in {"idle", "failing"},
         To(d, pc), jobs' = jobs, run' = run, applied' = applied
  PROVE  SoloInv'
<1>1. driver'[d].pc = pc
  BY AtFacts, TypeFacts DEF JobsInv, Pcs, To
<1>2. SentOK'
  BY DEF SoloInv, SentOK
<1>. QED
  BY <1>1, <1>2, SameRunning, SoloKeeps

\* A compare-and-swap of the one drive; what it writes it had read.
LEMMA CasSolo ==
  ASSUME JobsInv, OneDrive, SoloInv, NEW d \in Drivers, NEW r, NEW pc, CasPersist(d, r, pc),
         pc \in {"idle", "failing", "starting", "settling"}, jobs' = jobs,
         d \notin fresh => applied' = applied
  PROVE  \/ d \notin fresh /\ run' = run /\ SoloInv'
         \/ /\ d \in fresh /\ run' = r /\ RunningJobs' = RunningJobs
            /\ driver'[d].pc = pc
            /\ pc \in {"starting", "settling"} => driver'[d].snap = r
<1>1. CASE d \in fresh
  <2>1. Writes(d, r, pc)
    BY <1>1 DEF CasPersist, IsCurrent
  <2>2. pc \in Pcs
    BY DEF Pcs
  <2>3. At(d, pc) \in DriveType /\ At(d, pc).pc = pc
    BY <2>2, AtFacts DEF JobsInv
  <2>4. driver'[d] = IF pc \in {"idle", "failing"} THEN At(d, pc)
                     ELSE [At(d, pc) EXCEPT !.snap = r]
    BY <2>1, TypeFacts DEF Writes, JobsInv
  <2>5. driver'[d].pc = pc /\ (pc \in {"starting", "settling"} => driver'[d].snap = r)
    BY <2>3, <2>4 DEF DriveType
  <2>. QED
    BY <1>1, <2>1, <2>5, SameRunning DEF Writes
<1>2. CASE d \notin fresh
  <2>1. To(d, "idle") /\ run' = run
    BY <1>2, CasRow
  <2>. QED
    BY <1>2, <2>1, SoloRests
<1>. QED
  BY <1>1, <1>2

LEMMA AdvanceSolo ==
  ASSUME JobsInv, OneDrive, SoloInv, NEW d \in Drivers, Advance(d)
  PROVE  SoloInv'
<1> DEFINE pc == IF run.job = NoJob THEN "opening" ELSE "polling"
           v == [Idle EXCEPT !.snap = run, !.pc = pc]
<1>1. /\ driver'[d] = v /\ jobs' = jobs /\ run' = run /\ applied' = applied
      /\ run.status = "running"
  BY TypeFacts DEF Advance, history, JobsInv
<1>2. v.pc \in {"opening", "polling"} /\ v.snap = run
  BY DEF Idle
<1> HIDE DEF v
<1>3. RunningJobs' = RunningJobs
  BY <1>1, SameRunning
<1>4. ASSUME NEW e \in Drivers PROVE SoloOK(e)'
  <2>1. e = d
    BY DEF OneDrive
  <2>. QED
    BY <1>1, <1>2, <2>1 DEF SoloInv, SoloOK, SentOK, Causes
<1>5. SentOK'
  BY <1>1 DEF SoloInv, SentOK
<1>. QED
  BY <1>1, <1>3, <1>4, <1>5 DEF SoloInv

LEMMA OpenDispatchSolo ==
  ASSUME JobsInv, OneDrive, SoloInv, NEW d \in Drivers, OpenDispatch(d)
  PROVE  SoloInv'
<1> DEFINE s == driver[d].snap
<1>1. /\ driver[d].pc = "opening" /\ CasPersist(d, s, "starting") /\ jobs' = jobs
      /\ applied' = applied
  BY DEF OpenDispatch, Opened, history
<1>2. CASE d \notin fresh
  BY <1>1, <1>2, CasSolo
<1>3. CASE d \in fresh
  <2>1. /\ run' = s /\ s = run /\ driver'[d].pc = "starting" /\ driver'[d].snap = run
        /\ RunningJobs' = RunningJobs
    BY <1>1, <1>3, CasSolo, FreshFacts
  <2>2. ASSUME NEW e \in Drivers PROVE SoloOK(e)'
    <3>1. e = d /\ SoloOK(d) /\ SentOK
      BY DEF OneDrive, SoloInv
    <3>. QED
      BY <1>1, <2>1, <3>1 DEF SoloOK, SentOK, Causes
  <2>3. SentOK'
    BY <1>1, <2>1 DEF SoloInv, SentOK
  <2>. QED
    BY <2>1, <2>2, <2>3 DEF SoloInv
<1>. QED
  BY <1>2, <1>3

LEMMA StartJobSolo ==
  ASSUME JobsInv, OneDrive, SoloInv, NEW d \in Drivers, StartJob(d)
  PROVE  SoloInv'
<1> DEFINE s == driver[d].snap
           v == [driver[d] EXCEPT !.pc = "accepted",
                                  !.snap = [s EXCEPT !.job = s.count]]
<1>1. /\ driver[d] \in DriveType /\ s \in RunType /\ driver[d].pc = "starting"
      /\ run' = run /\ applied' = applied /\ jobs' = Started(s.count, s.rework)
      /\ s.job = NoJob
  BY TypeFacts, FreshFacts DEF StartJob, JobsInv, history, PhaseOK
<1>2. driver'[d] = v
  BY TypeFacts DEF StartJob, JobsInv
<1>3. /\ v.pc = "accepted" /\ v.snap.count = s.count /\ v.snap.rework = s.rework
      /\ v.snap.items = s.items
  BY <1>1 DEF DriveType, RunType
<1> HIDE DEF v
<1>4. run.job = NoJob /\ run.count = s.count /\ SoloOK(d)
  BY <1>1 DEF SoloInv, SoloOK
<1>5. \A id \in RunningJobs' : id \in RunningJobs \/ id = run.count
  BY <1>1, <1>4 DEF RunningJobs, Running, Holds, Started
<1>6. ASSUME NEW e \in Drivers PROVE SoloOK(e)'
  <2>1. e = d
    BY DEF OneDrive
  <2>. QED
    BY <1>1, <1>2, <1>3, <1>4, <2>1 DEF SoloOK, Causes
<1>7. SentOK'
  BY <1>1 DEF SoloInv, SentOK
<1>. QED
  BY <1>1, <1>4, <1>5, <1>6, <1>7 DEF SoloInv

LEMMA RecordDispatchSolo ==
  ASSUME JobsInv, OneDrive, SoloInv, NEW d \in Drivers, RecordDispatch(d)
  PROVE  SoloInv'
<1> DEFINE s == driver[d].snap
           r == [s EXCEPT !.count = s.count + 1]
<1>1. /\ driver[d].pc = "accepted" /\ CasPersist(d, r, "idle") /\ jobs' = jobs
      /\ applied' = applied /\ s \in RunType /\ run \in RunType
  BY TypeFacts DEF RecordDispatch, Accepted, JobsInv, history
<1>2. CASE d \notin fresh
  BY <1>1, <1>2, CasSolo
<1>3. CASE d \in fresh
  <2>1. run' = r /\ RunningJobs' = RunningJobs /\ driver'[d].pc = "idle"
    BY <1>1, <1>3, CasSolo
  <2>2. s = [run EXCEPT !.job = run.count] /\ run.job = NoJob
    BY <1>1, <1>3 DEF JobsInv, PhaseInv, FreshOK, IsRow
  <2>3. run'.job = run.count /\ run'.rework = run.rework /\ run'.items = run.items
    BY <1>1, <2>1, <2>2 DEF RunType
  <2>4. ASSUME NEW e \in Drivers PROVE SoloOK(e)'
    <3>1. e = d
      BY DEF OneDrive
    <3>. QED
      BY <2>1, <3>1 DEF SoloOK, Causes
  <2>5. NoJob \notin RunningJobs
    BY TypeFacts, Bounds DEF JobsInv, RunningJobs
  <2>6. \A id \in RunningJobs' : id = run'.job
    BY <2>1, <2>2, <2>3, <2>5 DEF SoloInv
  <2>7. SentOK'
    BY <1>1, <2>3 DEF SoloInv, SentOK
  <2>. QED
    BY <2>4, <2>6, <2>7 DEF SoloInv
<1>. QED
  BY <1>2, <1>3

LEMMA SameSolo ==
  ASSUME JobsInv, OneDrive, SoloInv, NEW d \in Drivers,
         CasPersist(d, driver[d].snap, "failing"), jobs' = jobs, applied' = applied,
         driver[d].pc # "accepted"
  PROVE  SoloInv'
<1>1. CASE d \notin fresh
  BY <1>1, CasSolo
<1>2. CASE d \in fresh
  <2>1. run' = run /\ RunningJobs' = RunningJobs /\ driver'[d].pc = "failing"
    BY <1>2, CasSolo, FreshFacts
  <2>2. SentOK'
    BY <2>1 DEF SoloInv, SentOK
  <2>. QED
    BY <2>1, <2>2, SoloKeeps
<1>. QED
  BY <1>1, <1>2

\* A poll that brings a settled job, or finds none, leaves nothing running.
LEMMA PollSolo ==
  ASSUME JobsInv, OneDrive, RoundInv, SoloInv, NEW d \in Drivers, Poll(d)
  PROVE  SoloInv'
<1>. PICK id : id = driver[d].snap.job
  OBVIOUS
<1>1. /\ driver[d] \in DriveType /\ driver[d].pc = "polling"
      /\ run' = run /\ applied' = applied
  BY TypeFacts DEF JobsInv, Poll, history
<1>2. /\ id # NoJob /\ run.job = id /\ SoloOK(d)
      /\ \A k \in RunningJobs : k = id
  BY <1>1, FreshFacts DEF PhaseOK, SoloInv, SoloOK
<1>3. SentOK'
  BY <1>1 DEF SoloInv, SentOK
<1>4. CASE Holds(id)
  <2> DEFINE pc == [running |-> "folding", done |-> "completing", failed |-> "failed",
                    contended |-> "contended"][jobs[id].state]
             v == [driver[d] EXCEPT !.pc = pc, !.seen = jobs[id].buffer,
                                    !.brief = jobs[id].brief]
  <2>1. jobs' = Drained(id) /\ driver'[d] = v
    BY <1>4, TypeFacts DEF Poll, JobsInv
  <2>2. id \in DOMAIN jobs /\ jobs[id] \in JobEntry /\ id \in Epochs
    BY <1>4, TypeFacts DEF JobsInv, Holds
  <2>3. /\ pc \in {"folding", "completing", "failed", "contended"}
        /\ pc # "folding" => jobs[id].state # "running"
    BY <2>2 DEF JobEntry, JobStates
  <2> HIDE DEF pc
  <2>4. v.pc = pc /\ v.brief = jobs[id].brief /\ v.snap = driver[d].snap
    BY <1>1 DEF DriveType
  <2> HIDE DEF v
  <2>5. /\ DOMAIN jobs' = DOMAIN jobs
        /\ \A k \in DOMAIN jobs : jobs'[k].state = jobs[k].state
    BY <2>1, TypeFacts DEF Drained, JobsInv, JobEntry
  <2>6. RunningJobs' = RunningJobs
    BY <2>5 DEF RunningJobs, Running, Holds
  <2>7. pc # "folding" => RunningJobs = {}
    BY <1>2, <2>3 DEF RunningJobs, Running, Holds
  <2>8. v.brief = run.rework
    <3>1. Known(id, jobs[id].brief) /\ jobs[id].brief \in SUBSET Items
      BY <2>2 DEF Known, JobEntry
    <3>2. Matches(id, jobs[id].brief)
      BY <2>2, <3>1 DEF RoundInv
    <3>. QED
      BY <1>2, <2>4, <3>2 DEF RoundInv, Matches
  <2>9. ASSUME NEW e \in Drivers PROVE SoloOK(e)'
    <3>1. e = d
      BY DEF OneDrive
    <3>. QED
      BY <1>1, <1>2, <2>1, <2>3, <2>4, <2>6, <2>7, <2>8, <3>1 DEF SoloOK, Causes
  <2>. QED
    BY <1>1, <1>3, <2>6, <2>9 DEF SoloInv
<1>5. CASE ~Holds(id)
  <2>1. PICK pc \in {"evicted", "transient"} : To(d, pc) /\ jobs' = jobs
    BY <1>4, <1>5 DEF Poll, LostJob
  <2>2. driver'[d] = At(d, pc)
    BY <2>1, TypeFacts DEF To, JobsInv
  <2>3. At(d, pc).pc = pc /\ At(d, pc).snap = driver[d].snap
    BY AtFacts DEF JobsInv, Pcs, Causes
  <2>4. RunningJobs' = {}
    BY <1>2, <1>5, <2>1, SameRunning DEF RunningJobs, Running, Holds
  <2>5. ASSUME NEW e \in Drivers PROVE SoloOK(e)'
    <3>1. e = d
      BY DEF OneDrive
    <3>. QED
      BY <1>1, <1>2, <2>2, <2>3, <2>4, <3>1 DEF SoloOK, Causes
  <2>. QED
    BY <1>1, <1>3, <2>4, <2>5 DEF SoloInv
<1>. QED
  BY <1>4, <1>5

LEMMA FoldRunningSolo ==
  ASSUME JobsInv, OneDrive, SoloInv, NEW d \in Drivers, FoldRunning(d)
  PROVE  SoloInv'
<1>1. /\ To(d, "idle") /\ jobs' = jobs /\ applied' = applied /\ run \in RunType
  BY TypeFacts DEF FoldRunning, history, JobsInv
<1>2. CASE run' = run
  BY <1>1, <1>2, SoloRests
<1>3. CASE run' = [run EXCEPT !.items = Streamed(@, driver[d].seen)]
  <2>1. /\ run'.job = run.job /\ run'.count = run.count /\ run'.rework = run.rework
        /\ run'.items = Streamed(run.items, driver[d].seen)
    BY <1>1, <1>3 DEF RunType
  <2>2. SentOK'
    BY <1>1, <2>1, RunFields, StreamedFacts DEF SoloInv, SentOK
  <2>3. driver'[d].pc = "idle"
    BY <1>1, AtFacts, TypeFacts DEF To, JobsInv, Pcs
  <2>. QED
    BY <1>1, <2>1, <2>2, <2>3, SameRunning, SoloKeeps
<1>. QED
  BY <1>2, <1>3 DEF FoldRunning

LEMMA CompleteSolo ==
  ASSUME JobsInv, OneDrive, SoloInv, NEW d \in Drivers, Complete(d)
  PROVE  SoloInv'
<1>1. PICK r \in RunType :
        /\ \A i \in Items :
             r.items[i] = "sent" => driver[d].snap.items[i] = "sent" \/ i \in r.rework
        /\ \/ CasPersist(d, r, "idle") /\ (IsCurrent(d) \/ applied' = applied)
           \/ /\ CasPersist(d, r, "settling") /\ (IsCurrent(d) \/ applied' = applied)
              /\ r.status = "running"
           \/ Writes(d, r, "idle")
        /\ \/ applied' = applied /\ run' = run /\ d \notin fresh
           \/ /\ run' = r
              /\ applied' = (applied \cup {i \in driver[d].brief :
                                      driver[d].snap.items[i] = "sent"}) \ r.rework
  BY CompleteRow
<1>2. driver[d].pc = "completing" /\ jobs' = jobs
  BY DEF Complete
<1>3. RunningJobs' = {} /\ driver[d].brief = run.rework
      /\ \A i \in Items : driver[d].snap.items[i] = "sent" => i \in applied \cup run.rework
  BY <1>2, SameRunning DEF SoloInv, SoloOK
<1>4. SentOK'
  <2>1. CASE run' = r /\ applied' = (applied \cup {i \in driver[d].brief :
                                      driver[d].snap.items[i] = "sent"}) \ r.rework
    BY <1>1, <1>3, <2>1 DEF SentOK
  <2>2. CASE applied' = applied /\ run' = run
    BY <2>2 DEF SoloInv, SentOK
  <2>. QED
    BY <1>1, <2>1, <2>2
<1>5. CASE Writes(d, r, "idle")
  <2>1. driver'[d].pc = "idle"
    BY <1>5, AtFacts, TypeFacts DEF Writes, JobsInv, Pcs
  <2>. QED
    BY <1>3, <1>4, <2>1, SoloWrites
<1>6. ASSUME NEW pc \in {"idle", "settling"}, CasPersist(d, r, pc),
             IsCurrent(d) \/ applied' = applied, pc = "settling" => r.status = "running"
      PROVE  SoloInv'
  <2>1. d \notin fresh => applied' = applied
    BY <1>6 DEF IsCurrent
  <2>2. CASE d \notin fresh
    BY <1>2, <1>6, <2>1, <2>2, CasSolo
  <2>3. CASE d \in fresh
    <3>1. run' = r /\ driver'[d].pc = pc /\ (pc = "settling" => driver'[d].snap = r)
      BY <1>2, <1>6, <2>1, <2>3, CasSolo
    <3>. QED
      BY <1>3, <1>4, <1>6, <3>1, SoloWrites
  <2>. QED
    BY <2>2, <2>3
<1>. QED
  BY <1>1, <1>5, <1>6

\* The step is passed, or its dispatch taken back: the round's items stay.
LEMMA ClearedSolo ==
  ASSUME JobsInv, OneDrive, SoloInv, NEW d \in Drivers, NEW r, CasPersist(d, r, "idle"),
         jobs' = jobs, applied' = applied, driver[d].pc \in {"settling"} \cup Causes,
         r.items = driver[d].snap.items, r.rework = driver[d].snap.rework
  PROVE  SoloInv'
<1>1. CASE d \notin fresh
  BY <1>1, CasSolo
<1>2. CASE d \in fresh
  <2>1. run' = r /\ driver'[d].pc = "idle" /\ RunningJobs' = RunningJobs
    BY <1>2, CasSolo
  <2>2. driver[d].snap = run /\ RunningJobs = {}
    BY <1>2, FreshFacts DEF SoloInv, SoloOK, Causes
  <2>3. SentOK'
    BY <2>1, <2>2 DEF SoloInv, SentOK
  <2>. QED
    BY <2>1, <2>2, <2>3, SoloWrites
<1>. QED
  BY <1>1, <1>2

LEMMA FailRunSolo ==
  ASSUME JobsInv, OneDrive, SoloInv, NEW d \in Drivers, FailRun(d)
  PROVE  SoloInv'
<1>1. /\ To(d, "idle") /\ jobs' = jobs /\ applied' = applied /\ run \in RunType
  BY TypeFacts DEF FailRun, history, JobsInv
<1>2. CASE run' = run
  BY <1>1, <1>2, SoloRests
<1>3. CASE run' = [run EXCEPT !.status = "failed"]
  <2>1. /\ run'.job = run.job /\ run'.count = run.count /\ run'.rework = run.rework
        /\ run'.items = run.items
    BY <1>1, <1>3 DEF RunType
  <2>2. SentOK'
    BY <1>1, <2>1 DEF SoloInv, SentOK
  <2>3. driver'[d].pc = "idle"
    BY <1>1, AtFacts, TypeFacts DEF To, JobsInv, Pcs
  <2>. QED
    BY <1>1, <2>1, <2>2, <2>3, SameRunning, SoloKeeps
<1>. QED
  BY <1>2, <1>3 DEF FailRun

LEMMA TroubleSolo ==
  ASSUME JobsInv, OneDrive, SoloInv, NEW d \in Drivers, PollBudgetSpent(d) \/ Crash(d)
  PROVE  SoloInv'
<1>1. CASE PollBudgetSpent(d)
  BY <1>1, SoloRests DEF PollBudgetSpent, history
<1>2. CASE Crash(d)
  <2>1. At(d, "idle") = Idle
    BY DEF At
  <2>. QED
    BY <1>2, <2>1, SoloRests DEF Crash, To
<1>. QED
  BY <1>1, <1>2

\* A person's write finds no drive at work when the step waits, and leaves the
\* round alone otherwise.
LEMMA OthersSolo ==
  ASSUME JobsInv, OneDrive, RoundInv, SoloInv, HarnessStep \/ ContainerGone \/ HumanStep
  PROVE  SoloInv'
<1>1. run \in RunType
  BY TypeFacts DEF JobsInv
<1>2. CASE HarnessStep \/ ContainerGone
  <2>1. run' = run /\ driver' = driver /\ applied' = applied
    BY <1>2 DEF HarnessStep, JobSettles, SurfaceItem, ContainerGone, history
  <2>2. RunningJobs' \in SUBSET RunningJobs
    <3>1. CASE ContainerGone
      BY <3>1 DEF ContainerGone, Evict, NoJobs, RunningJobs
    <3>2. ASSUME NEW id \in DOMAIN jobs, JobSettles(id)
          PROVE  RunningJobs' \in SUBSET RunningJobs
      <4>1. PICK state : jobs' = [jobs EXCEPT ![id].state = state] /\ Running(id)
        BY <3>2 DEF JobSettles, Settle
      <4>. QED
        BY <4>1, TypeFacts DEF JobsInv, JobEntry, RunningJobs, Running, Holds
    <3>3. ASSUME NEW id \in DOMAIN jobs, NEW i \in Items, SurfaceItem(id, i)
          PROVE  RunningJobs' \in SUBSET RunningJobs
      BY <3>3, TypeFacts DEF JobsInv, JobEntry, SurfaceItem, Surface, RunningJobs,
         Running, Holds
    <3>. QED
      BY <1>2, <3>1, <3>2, <3>3 DEF HarnessStep
  <2>. QED
    BY <2>1, <2>2 DEF SoloInv, SoloOK, SentOK
<1>3. ASSUME jobs' = jobs, driver' = driver, run'.count = run.count, SentOK',
             \/ /\ run'.job = run.job /\ run'.rework = run.rework /\ applied' = applied
                /\ run'.status = run.status
             \/ run.status = "blocked"
             \/ /\ run'.job = run.job /\ run'.rework = run.rework
                /\ applied' = applied \ run'.rework /\ run'.status = run.status
      PROVE  SoloInv'
  <2>1. RunningJobs' = RunningJobs
    BY <1>3, SameRunning
  <2>2. CASE run.status = "blocked"
    <3>1. run.job = NoJob /\ AllBehind
      BY <2>2, Behind DEF JobsInv, PassInv, PassOK
    <3>2. ASSUME NEW id \in RunningJobs PROVE FALSE
      <4>1. /\ id \in Epochs /\ jobs[id].brief \in SUBSET Items
            /\ Known(id, jobs[id].brief)
        BY TypeFacts DEF JobsInv, RunningJobs, JobEntry, Known
      <4>2. id < run.count /\ id = run.count /\ run.count \in Nat
        BY <1>1, <3>1, <4>1, Bounds, RunFields DEF AllBehind, SoloInv
      <4>. QED
        BY <4>2
    <3>3. \A e \in Drivers : driver[e].pc \in {"idle", "failing"}
      BY <2>2 DEF SoloInv, SoloOK
    <3>4. \A e \in Drivers : SoloOK(e)'
      BY <1>3, <3>3 DEF SoloOK, Causes
    <3>. QED
      BY <1>3, <2>1, <3>2, <3>4 DEF SoloInv
  <2>3. CASE run.status # "blocked"
    BY <1>3, <2>1, <2>3 DEF SoloInv, SoloOK
  <2>. QED
    BY <2>2, <2>3
<1>4. CASE ApproveStep
  <2>1. /\ jobs' = jobs /\ driver' = driver /\ run.status = "blocked"
        /\ run' = [run EXCEPT !.status = "done"] /\ applied' = applied
    BY <1>4 DEF ApproveStep, history
  <2>2. run'.count = run.count /\ run'.items = run.items /\ run'.rework = run.rework
    BY <1>1, <2>1 DEF RunType
  <2>3. SentOK'
    BY <2>1, <2>2 DEF SoloInv, SentOK
  <2>. QED
    BY <1>3, <2>1, <2>2, <2>3
<1>5. ASSUME NEW i \in Items, NEW c, DecideFollowUp(i, c)
      PROVE  SoloInv'
  <2>1. jobs' = jobs /\ driver' = driver /\ applied' = applied \ run'.rework
    BY <1>5 DEF DecideFollowUp
  <2>2. /\ run'.count = run.count
        /\ \/ run'.job = run.job /\ run'.rework = run.rework
              /\ (run'.status = run.status \/ run.status = "blocked")
           \/ run.status = "blocked"
        /\ run.status = "blocked" => run.rework = {}
        /\ \A j \in Items : run'.items[j] = "sent" =>
             run.items[j] = "sent" \/ j \in run'.rework
    BY <1>5, DecidedRow DEF JobsInv, PassInv, PassOK
  <2>3. SentOK'
    <3>1. \A j \in Items : run.items[j] = "sent" => j \in applied' \cup run'.rework
      BY <2>1, <2>2 DEF SoloInv, SentOK
    <3>. QED
      BY <2>2, <3>1 DEF SentOK
  <2>. QED
    BY <1>3, <2>1, <2>2, <2>3
<1>. QED
  BY <1>2, <1>4, <1>5 DEF HumanStep

LEMMA SoloStep ==
  ASSUME JobsInv, OneDrive, RoundInv, SoloInv, [Next]_vars
  PROVE  SoloInv'
<1>1. ASSUME NEW d \in Drivers,
             DriverStep(d) \/ StartRefused(d) \/ PollBudgetSpent(d) \/ Crash(d)
      PROVE  SoloInv'
  <2>1. CASE Advance(d) \/ OpenDispatch(d) \/ StartJob(d) \/ RecordDispatch(d)
    BY <2>1, AdvanceSolo, OpenDispatchSolo, StartJobSolo, RecordDispatchSolo
  <2>2. CASE Poll(d) \/ FoldRunning(d) \/ Complete(d)
    BY <2>2, PollSolo, FoldRunningSolo, CompleteSolo
  <2>3. CASE MarkErrored(d) \/ StartRefused(d)
    BY <2>3, SameSolo DEF MarkErrored, StartRefused, history
  <2>4. CASE FailRun(d) \/ PollBudgetSpent(d) \/ Crash(d)
    BY <2>4, FailRunSolo, TroubleSolo
  <2>5. CASE SettleStep(d)
    <3>1. /\ driver[d].pc = "settling" /\ CasPersist(d, Passed(driver[d].snap), "idle")
          /\ jobs' = jobs /\ applied' = applied /\ driver[d].snap \in RunType
      BY <2>5, TypeFacts DEF SettleStep, history, JobsInv
    <3>2. /\ Passed(driver[d].snap).items = driver[d].snap.items
          /\ Passed(driver[d].snap).rework = driver[d].snap.rework
      BY <3>1, PassedFacts
    <3>. QED
      BY <3>1, <3>2, ClearedSolo
  <2>6. ASSUME NEW c \in Causes, Recover(d, c)
        PROVE  SoloInv'
    <3>1. /\ driver[d].pc = c /\ jobs' = jobs /\ applied' = applied
          /\ driver[d].snap \in RunType /\ c # "accepted"
      BY <2>6, TypeFacts DEF Recover, history, JobsInv, Causes
    <3>2. /\ Recovered(driver[d].snap, c).items = driver[d].snap.items
          /\ Recovered(driver[d].snap, c).rework = driver[d].snap.rework
      BY <3>1, RecoveredFacts
    <3>3. CASE CasPersist(d, Recovered(driver[d].snap, c), "idle")
      BY <3>1, <3>2, <3>3, ClearedSolo
    <3>4. CASE CasPersist(d, driver[d].snap, "failing")
      BY <3>1, <3>4, SameSolo
    <3>. QED
      BY <2>6, <3>3, <3>4 DEF Recover
  <2>. QED
    BY <1>1, <2>1, <2>2, <2>3, <2>4, <2>5, <2>6 DEF DriverStep
<1>2. CASE UNCHANGED vars
  BY <1>2, SameRunning DEF vars, SoloInv, SoloOK, SentOK
<1>. QED
  BY <1>1, <1>2, OthersSolo DEF Next

LEMMA SoloInit ==
  ASSUME Init
  PROVE  SoloInv
<1>1. RunningJobs = {}
  BY DEF Init, RunningJobs, NoJobs
<1>2. \A d \in Drivers : driver[d].pc = "idle"
  BY DEF Init, Idle
<1>3. \A i \in Items : run.items[i] # "sent"
  BY DEF Init, NewRun
<1>. QED
  BY <1>1, <1>2, <1>3 DEF SoloInv, SoloOK, SentOK, Causes

\* The one drive completes in its turn, so its parks are in turn too.
LEMMA SoloParks ==
  ASSUME JobsInv, SoloInv
  PROVE  ParksInTurn
<1>1. ASSUME NEW d \in Drivers, driver[d].pc = "completing"
      PROVE  run.job # NoJob /\ driver[d].snap.count = run.count
  BY <1>1, FreshFacts DEF PhaseOK, SoloInv, SoloOK, Causes
<1>. QED
  BY <1>1 DEF ParksInTurn

LEMMA SoloReached ==
  ASSUME OneDrive
  PROVE  Spec => [](JobsInv /\ RoundInv /\ SoloInv)
<1>1. Init => RoundInv /\ SoloInv
  BY RoundInit, SoloInit
<1>2. JobsInv /\ RoundInv /\ SoloInv /\ [Next]_vars => RoundInv' /\ SoloInv'
  BY RoundStep, SoloStep, SoloParks
<1>. QED
  BY <1>1, <1>2, JobsInvReached, PTL DEF Spec

\* However often its one drive repeats a dispatch, the agent works once on the
\* branch: what runs is the job the row counts, or the one it is about to.
THEOREM OneJob ==
  ASSUME OneDrive
  PROVE  Spec => []OneJobAtATime
<1>1. JobsInv /\ SoloInv => OneJobAtATime
  <2> SUFFICES ASSUME JobsInv, SoloInv PROVE Cardinality(RunningJobs) <= 1
    BY DEF OneJobAtATime
  <2>1. \E id : RunningJobs \in SUBSET {id}
    <3>1. NoJob \notin RunningJobs
      BY TypeFacts, Bounds DEF JobsInv, RunningJobs
    <3>2. CASE run.job = NoJob
      <4>1. RunningJobs \in SUBSET {run.count}
        BY <3>1, <3>2 DEF SoloInv
      <4>. QED
        BY <4>1
    <3>3. CASE run.job # NoJob
      <4>1. RunningJobs \in SUBSET {run.job}
        BY <3>3 DEF SoloInv
      <4>. QED
        BY <4>1
    <3>. QED
      BY <3>2, <3>3
  <2>2. PICK id : RunningJobs \in SUBSET {id}
    BY <2>1
  <2>3. CASE RunningJobs = {}
    BY <2>3, FS_EmptySet
  <2>4. CASE RunningJobs = {id}
    <3>1. Cardinality({id}) = 1
      BY FS_Singleton
    <3>2. Cardinality(RunningJobs) = 1
      BY <2>4, <3>1, Zenon
    <3>. QED
      BY <3>2
  <2>. QED
    BY <2>2, <2>3, <2>4
<1>. QED
  BY <1>1, SoloReached, PTL

\* Nothing asked of the coder is left open when the step is passed.
LEMMA NothingOpen ==
  ASSUME JobsInv, Next, run.status # "done", run'.status = "done", NEW i \in Items
  PROVE  run'.items[i] # "asked"
<1>1. run \in RunType
  BY TypeFacts DEF JobsInv
<1>2. ASSUME NEW d \in Drivers,
             DriverStep(d) \/ StartRefused(d) \/ PollBudgetSpent(d) \/ Crash(d)
      PROVE  run'.items[i] # "asked"
  <2>1. driver[d].snap \in RunType /\ PhaseOK(driver[d])
    BY TypeFacts, FreshFacts DEF JobsInv
  <2>2. CASE Complete(d)
    <3>1. PICK r \in RunType : /\ r.status = "done" => r.items[i] # "asked"
                               /\ run' = run \/ run' = r
      BY <2>2, CompleteRow
    <3>. QED
      BY <3>1
  <2>3. CASE SettleStep(d)
    <3>1. /\ run' = run \/ run' = Passed(driver[d].snap)
          /\ InState(driver[d].snap.items, {"pending", "asked"}) = {}
      BY <2>1, <2>3, CasRow DEF SettleStep, PhaseOK
    <3>. QED
      BY <2>1, <3>1, PassedFacts DEF InState
  <2>4. CASE FoldRunning(d) \/ FailRun(d)
    BY <1>1, <2>4 DEF FoldRunning, FailRun, RunType
  <2>5. CASE Advance(d) \/ StartJob(d) \/ Poll(d) \/ PollBudgetSpent(d) \/ Crash(d)
    BY <2>5 DEF Advance, StartJob, Poll, PollBudgetSpent, Crash
  <2>6. CASE OpenDispatch(d) \/ StartRefused(d) \/ MarkErrored(d) \/ RecordDispatch(d)
    <3>1. run' = run \/ run' = driver[d].snap \/ run' = Accepted(d)
      BY <2>6, CasRow DEF OpenDispatch, Opened, StartRefused, MarkErrored, RecordDispatch
    <3>2. driver[d].snap.status = "running"
      BY <2>1, <2>6 DEF OpenDispatch, StartRefused, MarkErrored, RecordDispatch, PhaseOK
    <3>. QED
      BY <2>1, <3>1, <3>2 DEF Accepted, RunType
  <2>7. ASSUME NEW c \in Causes, Recover(d, c)
        PROVE  FALSE
    <3>1. \/ run' = run \/ run' = driver[d].snap \/ run' = Recovered(driver[d].snap, c)
      BY <2>7, CasRow DEF Recover
    <3>2. driver[d].pc = c
      BY <2>7 DEF Recover
    <3>3. driver[d].snap.status = "running"
      BY <2>1, <3>2 DEF PhaseOK, Causes
    <3>4. Recovered(driver[d].snap, c).status = "running"
      BY <2>1, <3>3, RecoveredFacts
    <3>5. run'.status # "done"
      BY <3>1, <3>3, <3>4
    <3>. QED
      BY <3>5
  <2>. QED
    BY <1>2, <2>2, <2>3, <2>4, <2>5, <2>6, <2>7 DEF DriverStep
<1>3. CASE HarnessStep \/ ContainerGone
  BY <1>3 DEF HarnessStep, JobSettles, SurfaceItem, ContainerGone
<1>4. CASE ApproveStep
  <2>1. InState(run.items, {"asked"}) = {}
    BY <1>4 DEF ApproveStep, JobsInv, PassInv, PassOK
  <2>2. run'.items = run.items
    BY <1>1, <1>4 DEF ApproveStep, RunType
  <2>. QED
    BY <2>1, <2>2 DEF InState
<1>5. ASSUME NEW j \in Items, NEW c, DecideFollowUp(j, c)
      PROVE  run'.items[i] # "asked"
  <2>1. InState(run'.items, {"asked"}) = {}
    BY <1>5, DecidedRow
  <2>. QED
    BY <2>1 DEF InState
<1>. QED
  BY <1>2, <1>3, <1>4, <1>5 DEF Next, HumanStep

\* With one drive, what the row says was sent to the coder when the step is
\* passed was in the prompt of a pass whose result was recorded, whatever was
\* lost, refused, crashed or parked on the way.
THEOREM AnswersArrive ==
  ASSUME OneDrive
  PROVE  Spec => AnswersReachTheCoder
<1> DEFINE Arrived == run.status # "done" /\ run'.status = "done"
                        => \A i \in Items : /\ run'.items[i] # "asked"
                                            /\ run'.items[i] = "sent" => i \in applied'
<1>1. JobsInv /\ JobsInv' /\ SoloInv' /\ [Next]_vars => [Arrived]_vars
  <2> SUFFICES ASSUME JobsInv, JobsInv', SoloInv', Next,
                      run.status # "done", run'.status = "done", NEW i \in Items
               PROVE  /\ run'.items[i] # "asked"
                      /\ run'.items[i] = "sent" => i \in applied'
    OBVIOUS
  <2>1. run'.items[i] # "asked"
    BY NothingOpen
  <2>2. run'.rework = {}
    BY DEF JobsInv, PassInv, PassOK
  <2>3. run'.items[i] = "sent" => i \in applied'
    BY <2>2 DEF SoloInv, SentOK
  <2>. QED
    BY <2>1, <2>3
<1>. QED
  BY <1>1, SoloReached, PTL DEF Spec, AnswersReachTheCoder
=============================================================================
