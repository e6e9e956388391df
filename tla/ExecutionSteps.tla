---------------------------- MODULE ExecutionSteps -----------------------------
(***************************************************************************)
(* Theorems about the steps of a run: the cursor separates what is done    *)
(* from what has not begun, jobs follow it, no gate behind it is open, and *)
(* a parked run shows the question that un-parks it.                       *)
(*                                                                         *)
(* A run is rewritten as a private copy and written back minutes later, by *)
(* statements that compare revisions, or do not.  What is proved of the    *)
(* stored runs is therefore proved of every copy an actor holds: each is   *)
(* the image of a run these facts held of, so it does not matter which     *)
(* write wins.                                                             *)
(*                                                                         *)
(* Which facts hold depends on the events that may happen: an answered     *)
(* judge leaves its approval pending behind the cursor, and a decision     *)
(* answered twice re-opens a step the cursor has passed.                   *)
(***************************************************************************)
EXTENDS ExecutionSafety

\* The events under which an approval waits under the cursor only: no restart
\* and no judge is answered; where a step can be sent back or answered again,
\* only gates raise approvals, and no gate is skipped.
SentBack == {"changes", "answer"} \cap Ops # {}
OpenEvents ==
  /\ {"restart", "judge"} \cap Ops = {}
  /\ SentBack => Judges \subseteq FailJudges /\ Gated \cap Skippable = {}

\* The events under which the cursor separates done steps from new ones.
CursorEvents ==
  /\ {"restart", "answer"} \cap Ops = {}
  /\ OpenEvents \/ {"approve", "changes"} \cap Ops = {}

\* The events under which a job stays under the cursor: no step is sent back
\* for changes, and none that has a job is skipped.
JobEvents ==
  /\ CursorEvents
  /\ "changes" \notin Ops
  /\ Skippable \subseteq Judges \cup Inline

-----------------------------------------------------------------------------
(* The invariant. *)

Unsettled == {"pending", "changes_requested", "rejected"}

\* Only steps with a container have a job, only the requests that may happen
\* have left something behind, and a step that waits was asked something.
Sound(k, s) ==
  /\ s.job => k \notin Judges \cup Inline
  /\ s.approval = "rejected" => "reject" \in Ops
  /\ s.approval = "changes_requested" => "changes" \in Ops
  /\ s.state = "waiting_decision" =>
       s.decision = "open" \/ s.approval \in {"pending", "rejected"}

\* The step under the cursor is at work or waits for a person; a blocked run
\* waits.
Asks(i) ==
  /\ \A k \in Positions : Sound(k, i.steps[k])
  /\ i.status # "done" => CurStep(i).state \in {"working", "waiting_decision"}
  /\ i.status = "blocked" => CurStep(i).state = "waiting_decision"

Shape(i) ==
  IF i.status = "done" THEN \A k \in Positions : i.steps[k].state = "done"
  ELSE /\ \A k \in 1..i.cur - 1 : i.steps[k].state = "done"
       /\ \A k \in i.cur + 1..N : i.steps[k].state = "pending"

\* An unsettled approval is on the step under the cursor, and that step is not
\* settled before it is answered.
Open(i) ==
  \A k \in Positions : i.steps[k].approval \in Unsettled =>
    /\ k = i.cur
    /\ i.status # "done"
    /\ SentBack => k \in Gated \ Skippable /\ ~IsFinal(k)
    /\ ~SentBack => i.steps[k].state = "waiting_decision" /\ ~i.steps[k].job

Guards == Gated \ (Skippable \cup Judges)
Gates(i) == \A k \in Guards : k < i.cur => i.steps[k].approval = "approved"

JobHere(i) ==
  \A k \in Positions : i.steps[k].job => k = i.cur /\ i.steps[k].state = "working"

\* What is true of every stored run, and of every copy of one.
Facts(i) ==
  /\ Asks(i)
  /\ CursorEvents => Shape(i)
  /\ OpenEvents => Open(i) /\ Gates(i)
  /\ JobEvents /\ i.status # "done" => JobHere(i)

Loaded  == {"act", "polled", "inline"}
Written == {"cas", "upsert", "claim", "answer", "rebounce"}

Copies(l) ==
  /\ l.pc \in Loaded \cup Written => l.mem.status \notin GoneStatus /\ Facts(l.mem)
  /\ l.pc \in Loaded => l.mem.status \in {"running", "paused"}
  /\ l.pc = "polled" => CurStep(l.mem).job
  /\ l.pc = "inline" => l.mem.cur \in Inline \ Judges /\ CurStep(l.mem).state = "working"
  /\ l.pc = "answer" => "answer" \in Ops
  /\ l.pc = "rebounce" =>
       /\ "judge" \in Ops
       /\ CursorEvents => l.at = l.mem.cur /\ l.mem.status # "done"

StepsInv ==
  /\ TypeInv
  /\ \A r \in Runs : Present(r) => Facts(rows[r])
  /\ \A a \in Actors : Copies(loc[a])

-----------------------------------------------------------------------------
(* The three ways a run is rewritten.                                       *)

\* Step k becomes s and the status v; the cursor stays.
Edited(i, j, k, s, v) ==
  /\ j \in Instance
  /\ j.cur = i.cur
  /\ j.status = v
  /\ \A m \in Positions : j.steps[m] = IF m = k THEN s ELSE i.steps[m]

\* Step k becomes s, and the run ends or goes on with the step after it.
Passed(i, j, k, s, v) ==
  /\ j \in Instance
  /\ IF IsFinal(k)
     THEN /\ j.cur = i.cur
          /\ j.status = "done"
          /\ \A m \in Positions : j.steps[m] = IF m = k THEN s ELSE i.steps[m]
     ELSE /\ j.cur = k + 1
          /\ j.status = v
          /\ \A m \in Positions :
               j.steps[m] = IF m = k THEN s
                            ELSE IF m = k + 1 THEN StartStep(i.steps[m]) ELSE i.steps[m]

\* The step before k starts again, and k with it.
SentBefore(i, j, k, v) ==
  /\ j \in Instance
  /\ j.cur = k - 1
  /\ j.status = v
  /\ \A m \in Positions :
       IF m \in {k - 1, k}
       THEN /\ ~j.steps[m].job
            /\ j.steps[m].approval = "none"
            /\ j.steps[m].state = IF m = k THEN "pending" ELSE "working"
       ELSE j.steps[m] = i.steps[m]

\* A step rewritten in place keeps the facts if it keeps them for itself.
LEMMA EditKeeps ==
  ASSUME NEW i \in Instance, Facts(i), NEW k \in Positions, NEW s \in Step, NEW j, NEW v,
         Edited(i, j, k, s, v),
         v = "done" <=> i.status = "done",
         Sound(k, s),
         k = i.cur /\ v # "done" => s.state \in {"working", "waiting_decision"},
         v = "blocked" => IF k = i.cur THEN s.state = "waiting_decision"
                          ELSE i.status = "blocked",
         CursorEvents => s.state = i.steps[k].state \/ (k = i.cur /\ v # "done"),
         OpenEvents /\ s.approval \in Unsettled =>
           /\ k = i.cur
           /\ v # "done"
           /\ SentBack => k \in Gated \ Skippable /\ ~IsFinal(k)
           /\ ~SentBack => s.state = "waiting_decision" /\ ~s.job,
         OpenEvents /\ k \in Guards /\ k < i.cur => s.approval = "approved",
         JobEvents /\ v # "done" /\ s.job => k = i.cur /\ s.state = "working"
  PROVE  Facts(j)
<1>1. i.cur \in Positions /\ N \in Nat /\ Guards \subseteq Positions
  BY StepOf, StepsAssumption, ExecutionAssumption DEF Guards
<1>2. Asks(j)
  BY <1>1 DEF Facts, Asks, Edited, CurStep
<1>3. CursorEvents => Shape(j)
  BY <1>1 DEF Facts, Shape, Edited, Positions
<1>4. OpenEvents => Open(j)
  BY <1>1 DEF Facts, Open, Edited
<1>5. OpenEvents => Gates(j)
  BY <1>1 DEF Facts, Gates, Edited
<1>6. JobEvents /\ j.status # "done" => JobHere(j)
  BY <1>1 DEF Facts, JobHere, Edited
<1>. QED
  BY <1>2, <1>3, <1>4, <1>5, <1>6 DEF Facts

\* A step that is done hands the cursor on if nothing of it is left open.
LEMMA PassKeeps ==
  ASSUME NEW i \in Instance, Facts(i), NEW k \in Positions, NEW s \in Step, NEW j, NEW v,
         Passed(i, j, k, s, v),
         s.state = "done",
         Sound(k, s),
         v # "blocked",
         v = "done" => i.status = "done",
         CursorEvents \/ OpenEvents => k = i.cur /\ i.status # "done",
         OpenEvents => s.approval \notin Unsettled,
         OpenEvents /\ k \in Guards /\ ~IsFinal(k) => s.approval = "approved",
         JobEvents => ~s.job
  PROVE  Facts(j)
<1>1. i.cur \in Positions /\ N \in Nat /\ Guards \subseteq Positions /\ k \in 1..N
  BY StepOf, StepsAssumption, ExecutionAssumption DEF Guards, Positions
<1>2. ~IsFinal(k) => k + 1 \in Positions
  BY <1>1 DEF IsFinal, Positions
<1>3. \A m \in Positions : /\ StartStep(i.steps[m]).state = "working"
                           /\ StartStep(i.steps[m]).job = i.steps[m].job
                           /\ StartStep(i.steps[m]).approval = i.steps[m].approval
                           /\ StartStep(i.steps[m]).decision = i.steps[m].decision
  BY StepOf DEF StartStep, Step
<1>4. Asks(j)
  <2>1. \A m \in Positions : Sound(m, i.steps[m]) => Sound(m, StartStep(i.steps[m]))
    BY <1>3 DEF Sound
  <2>2. \A m \in Positions : Sound(m, j.steps[m])
    BY <2>1 DEF Facts, Asks, Passed
  <2>3. CASE IsFinal(k)
    BY <2>2, <2>3 DEF Asks, Passed
  <2>4. CASE ~IsFinal(k)
    <3>1. CurStep(j) = StartStep(i.steps[k + 1])
      BY <1>1, <1>2, <2>4 DEF Passed, CurStep
    <3>. QED
      BY <1>2, <1>3, <2>2, <2>4, <3>1 DEF Asks, Passed
  <2>. QED
    BY <2>3, <2>4
<1>5. ASSUME CursorEvents
      PROVE  Shape(j)
  <2>1. /\ k = i.cur /\ i.status # "done"
        /\ \A m \in Positions : m < k => i.steps[m].state = "done"
        /\ \A m \in Positions : m > k => i.steps[m].state = "pending"
    BY <1>1, <1>5 DEF Facts, Shape, Positions
  <2>2. CASE IsFinal(k)
    BY <1>1, <2>1, <2>2 DEF Passed, Shape, IsFinal, Positions
  <2>3. CASE ~IsFinal(k)
    <3>1. \A m \in Positions : /\ m < k + 1 => j.steps[m].state = "done"
                               /\ m > k + 1 => j.steps[m].state = "pending"
      BY <1>1, <2>1, <2>3 DEF Passed, Positions
    <3>2. j.cur = k + 1 /\ j.status # "done"
      BY <2>1, <2>3 DEF Passed
    <3>3. k \in Nat /\ N \in Nat
      BY <1>1
    <3>. QED
      BY <1>1, <3>1, <3>2, <3>3 DEF Shape, Positions
  <2>. QED
    BY <2>2, <2>3
<1>6. ASSUME OpenEvents
      PROVE  Open(j)
  <2>1. \A m \in Positions : j.steps[m].approval \notin Unsettled
    BY <1>1, <1>3, <1>6 DEF Facts, Open, Passed
  <2>. QED
    BY <2>1 DEF Open
<1>7. ASSUME OpenEvents
      PROVE  Gates(j)
  <2>1. k = i.cur /\ (\A m \in Guards : m < k => i.steps[m].approval = "approved")
    BY <1>7 DEF Facts, Gates
  <2>2. CASE IsFinal(k)
    BY <1>1, <2>1, <2>2 DEF Gates, Passed, Positions
  <2>3. CASE ~IsFinal(k)
    <3>1. \A m \in Guards : m < k + 1 => m < k \/ m = k
      BY <1>1 DEF Positions
    <3>2. \A m \in Guards : m < k => m # k /\ m # k + 1
      BY <1>1 DEF Positions
    <3>. QED
      BY <1>1, <1>7, <2>1, <2>3, <3>1, <3>2 DEF Gates, Passed, Positions
  <2>. QED
    BY <2>2, <2>3
<1>8. ASSUME JobEvents, j.status # "done"
      PROVE  JobHere(j)
  <2>1. k = i.cur /\ i.status # "done" /\ ~s.job
    BY <1>8 DEF JobEvents
  <2>2. \A m \in Positions : ~j.steps[m].job
    BY <1>1, <1>3, <1>8, <2>1 DEF Facts, JobHere, Passed
  <2>. QED
    BY <2>2 DEF JobHere
<1>. QED
  BY <1>4, <1>5, <1>6, <1>7, <1>8 DEF Facts

\* A rework takes the cursor back by one step.
LEMMA SendKeeps ==
  ASSUME NEW i \in Instance, Facts(i), NEW k \in Positions, BounceTarget(k), NEW j, NEW v,
         SentBefore(i, j, k, v),
         v # "blocked",
         CursorEvents \/ OpenEvents => k = i.cur /\ i.status # "done" /\ v # "done"
  PROVE  Facts(j)
<1>1. i.cur \in Positions /\ N \in Nat /\ Guards \subseteq Positions
      /\ k \in 1..N /\ k - 1 \in Positions
  BY StepOf, StepsAssumption, ExecutionAssumption DEF Guards, Positions, BounceTarget
<1>2. Asks(j)
  <2>1. \A m \in Positions : Sound(m, j.steps[m])
    BY DEF SentBefore, Facts, Asks, Sound
  <2>2. CurStep(j).state = "working"
    BY <1>1 DEF SentBefore, CurStep
  <2>. QED
    BY <2>1, <2>2 DEF Asks, SentBefore
<1>3. ASSUME CursorEvents
      PROVE  Shape(j)
  <2>1. /\ k = i.cur /\ v # "done"
        /\ \A m \in Positions : m < k => i.steps[m].state = "done"
        /\ \A m \in Positions : m > k => i.steps[m].state = "pending"
    BY <1>1, <1>3 DEF Facts, Shape, Positions
  <2>2. \A m \in Positions : /\ m < k - 1 => j.steps[m].state = "done"
                             /\ m > k - 1 => j.steps[m].state = "pending"
    BY <1>1, <2>1 DEF SentBefore, Positions
  <2>3. j.cur = k - 1 /\ j.status # "done" /\ k \in Nat /\ N \in Nat
    BY <1>1, <2>1 DEF SentBefore
  <2>. QED
    BY <1>1, <2>2, <2>3 DEF Shape, Positions
<1>4. ASSUME OpenEvents
      PROVE  Open(j)
  <2>1. \A m \in Positions : j.steps[m].approval \notin Unsettled
    BY <1>1, <1>4 DEF Facts, Open, SentBefore, Unsettled
  <2>. QED
    BY <2>1 DEF Open
<1>5. ASSUME OpenEvents
      PROVE  Gates(j)
  <2>1. k = i.cur /\ (\A m \in Guards : m < k => i.steps[m].approval = "approved")
    BY <1>5 DEF Facts, Gates
  <2>2. \A m \in Positions : m < k - 1 => m < k /\ m \notin {k - 1, k}
    BY <1>1 DEF Positions
  <2>. QED
    BY <1>1, <2>1, <2>2 DEF Gates, SentBefore
<1>6. ASSUME JobEvents
      PROVE  JobHere(j)
  <2>1. k = i.cur /\ i.status # "done"
    BY <1>6 DEF JobEvents
  <2>2. \A m \in Positions : ~j.steps[m].job
    BY <1>1, <1>6, <2>1 DEF Facts, JobHere, SentBefore
  <2>. QED
    BY <2>2 DEF JobHere
<1>. QED
  BY <1>2, <1>3, <1>4, <1>5, <1>6 DEF Facts

-----------------------------------------------------------------------------
(* What the engine's operators do, as one of the three.                     *)

LEMMA EditOf ==
  ASSUME NEW i \in Instance, NEW k \in Positions, NEW s \in Step,
         NEW v \in LiveStatus \cup EndStatus
  PROVE  /\ Edited(i, WithStep(i, k, s), k, s, i.status)
         /\ Edited(i, [WithStep(i, k, s) EXCEPT !.status = v], k, s, v)
         /\ Edited(i, [i EXCEPT !.status = v], i.cur, CurStep(i), v)
         /\ \A n \in Nat : Edited(i, [i EXCEPT !.rev = n], i.cur, CurStep(i), i.status)
<1>1. v \in Status
  BY DEF Status
<1>2. Edited(i, WithStep(i, k, s), k, s, i.status)
  BY DEF Edited, WithStep, Instance
<1>3. Edited(i, [WithStep(i, k, s) EXCEPT !.status = v], k, s, v)
  BY <1>1, <1>2 DEF Edited, Instance
<1>4. Edited(i, [i EXCEPT !.status = v], i.cur, CurStep(i), v)
  BY <1>1 DEF Edited, CurStep, Instance
<1>5. \A n \in Nat : Edited(i, [i EXCEPT !.rev = n], i.cur, CurStep(i), i.status)
  BY DEF Edited, CurStep, Instance
<1>. QED
  BY <1>2, <1>3, <1>4, <1>5

\* Settling the current step, and advancing past a gate at step k.
LEMMA PassOf ==
  ASSUME NEW i \in Instance, NEW k \in Positions, NEW t \in Step
  PROVE  /\ Passed(i, Settled(i), i.cur, FinishStep(CurStep(i)), i.status)
         /\ Passed(i, AdvanceRunPastGate(WithStep(i, k, t), k), k, FinishStep(t),
                   Unblocked(i.status))
<1>1. i.cur \in Positions /\ CurStep(i) \in Step
  BY StepOf
<1>2. \A m \in Positions : ~IsFinal(m) => m + 1 \in Positions /\ m + 1 # m
  BY StepsAssumption DEF Positions, IsFinal
<1>3. Passed(i, Settled(i), i.cur, FinishStep(CurStep(i)), i.status)
  <2> DEFINE j == WithStep(i, i.cur, FinishStep(CurStep(i)))
  <2>1. Edited(i, j, i.cur, FinishStep(CurStep(i)), i.status) /\ Settled(i) \in Instance
    BY <1>1, StepOps, SettledCopy, EditOf DEF Copy, LiveStatus
  <2> HIDE DEF j
  <2>2. Settled(i) = SettleAndAdvance(j)
    BY DEF Settled, j
  <2>3. CASE IsFinal(i.cur)
    <3>1. Settled(i) = [j EXCEPT !.status = "done"]
      BY <2>1, <2>2, <2>3 DEF SettleAndAdvance, Edited
    <3>2. Settled(i).status = "done" /\ Settled(i).cur = j.cur /\ Settled(i).steps = j.steps
      BY <2>1, <3>1 DEF Edited, Instance
    <3>. QED
      BY <2>1, <2>3, <3>2 DEF Passed, Edited
  <2>4. CASE ~IsFinal(i.cur)
    <3>1. /\ Settled(i).cur = i.cur + 1
          /\ Settled(i).status = i.status
          /\ Settled(i).steps = [j.steps EXCEPT ![i.cur + 1] = StartStep(j.steps[i.cur + 1])]
      BY <2>1, <2>2, <2>4 DEF SettleAndAdvance, Edited, Instance
    <3>2. j.steps[i.cur + 1] = i.steps[i.cur + 1]
      BY <1>1, <1>2, <2>1, <2>4 DEF Edited
    <3>3. j.steps \in [Positions -> Step]
      BY <2>1 DEF Edited, Instance
    <3>. QED
      BY <1>1, <1>2, <2>1, <2>4, <3>1, <3>2, <3>3 DEF Passed, Edited
  <2>. QED
    BY <2>3, <2>4
<1>4. Passed(i, AdvanceRunPastGate(WithStep(i, k, t), k), k, FinishStep(t),
             Unblocked(i.status))
  <2> DEFINE h == WithStep(i, k, t)
             j == WithStep(h, k, FinishStep(h.steps[k]))
             g == AdvanceRunPastGate(h, k)
  <2>1. h \in Instance /\ h.steps[k] = t /\ h.cur = i.cur /\ h.status = i.status
    BY WithStepCopy DEF Copy
  <2>2. g \in Instance
    BY <2>1, AdvancePastCopy DEF Copy
  <2>3. /\ j \in Instance /\ j.cur = i.cur
        /\ \A m \in Positions : j.steps[m] = IF m = k THEN FinishStep(t) ELSE i.steps[m]
    <3>1. FinishStep(t) \in Step
      BY StepOps
    <3>2. Edited(h, j, k, FinishStep(t), h.status) /\ Edited(i, h, k, t, i.status)
      BY <2>1, <3>1, EditOf DEF LiveStatus
    <3>. QED
      BY <2>1, <3>2 DEF Edited
  <2>4. g = IF IsFinal(k) THEN [j EXCEPT !.status = "done"]
            ELSE [WithStep(j, k + 1, StartStep(j.steps[k + 1])) EXCEPT
                    !.cur = k + 1, !.status = Unblocked(i.status)]
    BY <2>1 DEF AdvanceRunPastGate
  <2> HIDE DEF j, g, h
  <2>5. CASE IsFinal(k)
    <3>1. g.status = "done" /\ g.cur = j.cur /\ g.steps = j.steps
      BY <2>3, <2>4, <2>5 DEF Instance
    <3>. QED
      BY <2>2, <2>3, <2>5, <3>1 DEF Passed, g, h
  <2>6. CASE ~IsFinal(k)
    <3>1. k + 1 \in Positions /\ j.steps[k + 1] = i.steps[k + 1] /\ k + 1 # k
      BY <1>2, <2>3, <2>6
    <3>2. /\ g.cur = k + 1
          /\ g.status = Unblocked(i.status)
          /\ g.steps = [j.steps EXCEPT ![k + 1] = StartStep(j.steps[k + 1])]
      BY <2>3, <2>4, <2>6 DEF WithStep, Instance
    <3>3. j.steps \in [Positions -> Step]
      BY <2>3 DEF Instance
    <3>4. \A m \in Positions :
            g.steps[m] = IF m = k THEN FinishStep(t)
                         ELSE IF m = k + 1 THEN StartStep(i.steps[m]) ELSE i.steps[m]
      BY <2>3, <3>1, <3>2, <3>3
    <3>. QED
      BY <2>2, <2>6, <3>2, <3>4 DEF Passed, g, h
  <2>. QED
    BY <2>5, <2>6
<1>. QED
  BY <1>3, <1>4

\* The rework of the step before a judge.
LEMMA SendOf ==
  ASSUME NEW i \in Instance, NEW k \in Positions, BounceTarget(k), NEW v \in LiveStatus \cup EndStatus
  PROVE  /\ SentBefore(i, Bounced(i, k), k, i.status)
         /\ SentBefore(i, [Bounced(i, k) EXCEPT !.status = v], k, v)
<1> DEFINE h == WithStep(i, k, [i.steps[k] EXCEPT !.judge = "settled"])
           j == Bounced(i, k)
<1>1. k - 1 \in Positions /\ k \in Nat
  BY StepsAssumption DEF Positions, BounceTarget
<1>2. j \in Instance /\ v \in Status
  BY BouncedCopy DEF Copy, Status
<1>3. /\ h \in Instance /\ h.status = i.status
      /\ \A m \in Positions : m # k => h.steps[m] = i.steps[m]
  <2>1. [i.steps[k] EXCEPT !.judge = "settled"] \in Step
    BY StepOf, StepFields DEF JudgeState
  <2>2. Edited(i, h, k, [i.steps[k] EXCEPT !.judge = "settled"], i.status)
    BY <2>1, EditOf
  <2> HIDE DEF h
  <2>. QED
    BY <2>2 DEF Edited
<1>4. j = RerunProducerThrough(h, k - 1, k)
  BY DEF Bounced
<1> HIDE DEF h, j
<1>5. /\ j.cur = k - 1 /\ j.status = i.status
      /\ \A m \in Positions :
           j.steps[m] = IF m \notin k - 1..k THEN h.steps[m]
                        ELSE IF m = k - 1 THEN StartStep(ResetStepForRerun(h.steps[m]))
                        ELSE ResetStepForRerun(h.steps[m])
  BY <1>3, <1>4 DEF RerunProducerThrough, Instance
<1>6. \A m \in Positions : m \in k - 1..k <=> m \in {k - 1, k}
  BY <1>1 DEF Positions
<1>7. \A m \in Positions :
        LET s == ResetStepForRerun(h.steps[m])
        IN  /\ ~s.job /\ s.approval = "none" /\ s.state = "pending"
            /\ ~StartStep(s).job /\ StartStep(s).approval = "none"
            /\ StartStep(s).state = "working"
  BY <1>3, StepOf DEF StartStep, ResetStepForRerun, Step
<1>8. k # k - 1
  BY <1>1
<1>9. SentBefore(i, j, k, i.status)
  BY <1>2, <1>3, <1>5, <1>6, <1>7, <1>8 DEF SentBefore
<1>10. /\ [j EXCEPT !.status = v] \in Instance
       /\ [j EXCEPT !.status = v].cur = j.cur
       /\ [j EXCEPT !.status = v].status = v
       /\ [j EXCEPT !.status = v].steps = j.steps
  BY <1>2 DEF Instance
<1>. QED
  BY <1>9, <1>10 DEF SentBefore, j

-----------------------------------------------------------------------------
(* What the engine makes of the copy it loaded.                             *)

\* Editing the step under the cursor of a run that is not done.
LEMMA CurEdit ==
  ASSUME NEW i \in Instance, Facts(i), NEW s \in Step, NEW j, NEW v,
         Edited(i, j, i.cur, s, v),
         i.status # "done", v # "done",
         Sound(i.cur, s),
         s.state \in {"working", "waiting_decision"},
         v = "blocked" => s.state = "waiting_decision",
         OpenEvents /\ s.approval \in Unsettled =>
           /\ SentBack => i.cur \in Gated \ Skippable /\ ~IsFinal(i.cur)
           /\ ~SentBack => s.state = "waiting_decision" /\ ~s.job,
         JobEvents /\ s.job => s.state = "working"
  PROVE  Facts(j)
<1>1. i.cur \in Positions /\ ~(i.cur < i.cur)
  BY StepOf DEF Positions
<1>. QED
  BY <1>1, EditKeeps

\* Editing no step at all: the revision or the status is rewritten.
LEMMA StatusEdit ==
  ASSUME NEW i \in Instance, Facts(i), NEW j, NEW v,
         Edited(i, j, i.cur, CurStep(i), v),
         v = "done" <=> i.status = "done",
         v = "blocked" => CurStep(i).state = "waiting_decision"
  PROVE  Facts(j)
<1>1. i.cur \in Positions /\ CurStep(i) \in Step /\ CurStep(i) = i.steps[i.cur]
  BY StepOf DEF CurStep
<1>2. /\ Sound(i.cur, CurStep(i))
      /\ v # "done" => CurStep(i).state \in {"working", "waiting_decision"}
  BY <1>1 DEF Facts, Asks
<1>3. OpenEvents /\ CurStep(i).approval \in Unsettled =>
        /\ v # "done"
        /\ SentBack => i.cur \in Gated \ Skippable /\ ~IsFinal(i.cur)
        /\ ~SentBack => CurStep(i).state = "waiting_decision" /\ ~CurStep(i).job
  BY <1>1 DEF Facts, Open
<1>4. OpenEvents /\ i.cur \in Guards /\ i.cur < i.cur => CurStep(i).approval = "approved"
  BY <1>1 DEF Facts, Gates
<1>5. JobEvents /\ v # "done" /\ CurStep(i).job => CurStep(i).state = "working"
  BY <1>1 DEF Facts, JobHere
<1>. QED
  BY <1>1, <1>2, <1>3, <1>4, <1>5, EditKeeps

LEMMA RevKeeps ==
  ASSUME NEW i \in Instance, Facts(i), NEW n \in Nat
  PROVE  Facts([i EXCEPT !.rev = n])
<1>1. Edited(i, [i EXCEPT !.rev = n], i.cur, CurStep(i), i.status)
  BY StepOf, EditOf DEF LiveStatus
<1>2. i.status = "blocked" => CurStep(i).state = "waiting_decision"
  BY DEF Facts, Asks
<1>. QED
  BY <1>1, <1>2, StatusEdit

LEMMA StatusKeeps ==
  ASSUME NEW i \in Instance, Facts(i), i.status # "done",
         NEW v \in {"running", "paused", "failed", "blocked"},
         v = "blocked" => CurStep(i).state = "waiting_decision"
  PROVE  Facts([i EXCEPT !.status = v])
<1>1. Edited(i, [i EXCEPT !.status = v], i.cur, CurStep(i), v)
  BY StepOf, EditOf DEF LiveStatus, EndStatus
<1>. QED
  BY <1>1, StatusEdit

\* A copy whose current step may be worked on: no approval of it is open, or
\* only one that is answered by working on it.
Ready(i) ==
  /\ i \in Instance
  /\ Facts(i)
  /\ i.status \in {"running", "paused"}
  /\ OpenEvents /\ ~SentBack => CurStep(i).approval \notin Unsettled

\* The copy of a driver that found its step waiting for nobody.
LEMMA StartedReady ==
  ASSUME TypeInv, NEW w \in Actors, Stepping(w), Facts(Mem(w)),
         Mem(w).status \in {"running", "paused"}
  PROVE  /\ Ready(Started(w))
         /\ Started(w).status = "running"
         /\ Started(w).cur = Mem(w).cur
         /\ CurStep(Started(w)).state = "working"
         /\ CurStep(Started(w)).job = CurStep(Mem(w)).job
<1> DEFINE i == Mem(w)
           s == StartStep(CurStep(i))
           j == Started(w)
<1>1. i \in Instance /\ j \in Instance /\ i.cur \in Positions
  BY Driving, StartedCopy, StepOf DEF Stepping, In
<1>2. CurStep(i) \in Step /\ s \in Step /\ CurStep(i) = i.steps[i.cur]
  BY <1>1, StepOf, StepOps DEF CurStep
<1>3. Edited(i, j, i.cur, s, "running")
  BY <1>1, <1>2, EditOf DEF Started, LiveStatus
<1> HIDE DEF j
<1>4. /\ s.state = "working"
      /\ s.job = CurStep(i).job
      /\ s.approval = CurStep(i).approval
      /\ s.decision = CurStep(i).decision
  BY <1>2 DEF StartStep, Step
<1>5. CurStep(j) = s /\ j.cur = i.cur /\ j.status = "running"
  BY <1>1, <1>3 DEF Edited, CurStep
<1> HIDE DEF s
<1>6. Sound(i.cur, s)
  <2>1. Sound(i.cur, CurStep(i))
    BY <1>1, <1>2 DEF Facts, Asks
  <2>. QED
    BY <1>4, <2>1 DEF Sound
<1>7. OpenEvents /\ ~SentBack => s.approval \notin Unsettled
  BY <1>1, <1>2, <1>4 DEF Facts, Open, Stepping, Waiting, Unsettled
<1>8. OpenEvents /\ SentBack /\ s.approval \in Unsettled =>
        i.cur \in Gated \ Skippable /\ ~IsFinal(i.cur)
  BY <1>1, <1>2, <1>4 DEF Facts, Open
<1>9. Facts(j)
  BY <1>1, <1>2, <1>3, <1>4, <1>6, <1>7, <1>8, CurEdit
<1>. QED
  BY <1>1, <1>4, <1>5, <1>7, <1>9 DEF Ready, j

\* Replacing the current step of such a copy by one that differs from it in
\* its job, its judge's record and its counters only.
LEMMA ReadyEdit ==
  ASSUME NEW i, Ready(i), NEW s \in Step,
         s.state = CurStep(i).state,
         s.approval = CurStep(i).approval,
         s.decision = CurStep(i).decision,
         s.job => CurStep(i).job \/ (i.cur \notin Judges \cup Inline /\ s.state = "working")
  PROVE  /\ Ready(WithStep(i, i.cur, s))
         /\ WithStep(i, i.cur, s).status = i.status
         /\ WithStep(i, i.cur, s).cur = i.cur
         /\ CurStep(WithStep(i, i.cur, s)) = s
<1> DEFINE j == WithStep(i, i.cur, s)
<1>1. i \in Instance /\ i.cur \in Positions /\ CurStep(i) = i.steps[i.cur]
      /\ i.status # "done" /\ i.status # "blocked"
  BY StepOf DEF Ready, CurStep
<1>2. Edited(i, j, i.cur, s, i.status)
  BY <1>1, EditOf DEF LiveStatus
<1> HIDE DEF j
<1>3. /\ Sound(i.cur, CurStep(i))
      /\ CurStep(i).state \in {"working", "waiting_decision"}
  BY <1>1 DEF Ready, Facts, Asks
<1>4. Sound(i.cur, s)
  BY <1>3 DEF Sound
<1>5. OpenEvents /\ s.approval \in Unsettled =>
        SentBack /\ i.cur \in Gated \ Skippable /\ ~IsFinal(i.cur)
  BY <1>1 DEF Ready, Facts, Open
<1>6. JobEvents /\ s.job => s.state = "working"
  BY <1>1 DEF Ready, Facts, JobHere
<1>7. Facts(j)
  BY <1>1, <1>2, <1>3, <1>4, <1>5, <1>6, CurEdit DEF Ready
<1>8. CurStep(j) = s /\ j \in Instance /\ j.cur = i.cur /\ j.status = i.status
  BY <1>1, <1>2 DEF Edited, CurStep
<1>. QED
  BY <1>7, <1>8 DEF Ready, j

\* Settling a step whose gate, if it has one, was approved or never held.
LEMMA SettledKeeps ==
  ASSUME NEW i, Ready(i),
         OpenEvents /\ i.cur \in Guards /\ ~IsFinal(i.cur) => CurStep(i).approval = "approved",
         OpenEvents /\ SentBack => CurStep(i).approval \notin Unsettled,
         JobEvents => ~CurStep(i).job
  PROVE  Facts(Settled(i)) /\ Settled(i).status \notin GoneStatus /\ Settled(i) \in Instance
<1> DEFINE s == FinishStep(CurStep(i))
<1>1. i \in Instance /\ i.cur \in Positions /\ CurStep(i) = i.steps[i.cur]
      /\ i.status # "done" /\ i.status # "blocked" /\ CurStep(i) \in Step
  BY StepOf DEF Ready, CurStep
<1>2. s \in Step /\ Passed(i, Settled(i), i.cur, s, i.status)
  BY <1>1, StepOps, PassOf
<1>3. /\ s.state = "done" /\ s.job = CurStep(i).job /\ s.approval = CurStep(i).approval
      /\ s.decision = CurStep(i).decision
  BY <1>1 DEF FinishStep, Step
<1> HIDE DEF s
<1>4. Sound(i.cur, s)
  <2>1. Sound(i.cur, CurStep(i))
    BY <1>1 DEF Ready, Facts, Asks
  <2>. QED
    BY <1>3, <2>1 DEF Sound
<1>5. Facts(Settled(i))
  BY <1>1, <1>2, <1>3, <1>4, PassKeeps DEF Ready
<1>6. Copy(i, Settled(i)) /\ i.status \notin GoneStatus
  BY <1>1, SettledCopy DEF Ready, GoneStatus
<1>. QED
  BY <1>5, <1>6 DEF Copy

\* What recording a step's result makes of the copy.
LEMMA RecordKeeps ==
  ASSUME NEW i, Ready(i), ~CurStep(i).job
  PROVE  /\ Facts(Asked(i)) /\ Asked(i).status \notin GoneStatus
         /\ NeedsApproval(i) =>
              Facts(ParkedForApproval(i)) /\ ParkedForApproval(i).status \notin GoneStatus
         /\ ~NeedsApproval(i) =>
              Facts(Settled(i)) /\ Settled(i).status \notin GoneStatus
<1>1. i \in Instance /\ i.cur \in Positions /\ CurStep(i) = i.steps[i.cur]
      /\ i.status # "done" /\ CurStep(i) \in Step
  BY StepOf DEF Ready, CurStep
<1>2. Sound(i.cur, CurStep(i))
  BY <1>1 DEF Ready, Facts, Asks
<1>3. OpenEvents /\ CurStep(i).approval \in Unsettled =>
        SentBack /\ i.cur \in Gated \ Skippable /\ ~IsFinal(i.cur)
  BY <1>1 DEF Ready, Facts, Open
<1>4. Facts(Asked(i)) /\ Asked(i).status \notin GoneStatus
  <2> DEFINE s == [PauseStepForInput(CurStep(i)) EXCEPT !.decision = "open"]
  <2>1. /\ s \in Step /\ s.state = "waiting_decision" /\ s.decision = "open"
        /\ s.approval = CurStep(i).approval /\ ~s.job
    BY <1>1 DEF PauseStepForInput, Step, StepState, DecisionState
  <2>2. Edited(i, Asked(i), i.cur, s, "blocked")
    BY <1>1, <2>1, EditOf DEF Asked, LiveStatus
  <2> HIDE DEF s
  <2>3. Sound(i.cur, s)
    BY <1>2, <2>1 DEF Sound
  <2>4. Facts(Asked(i))
    BY <1>1, <1>3, <2>1, <2>2, <2>3, CurEdit DEF Ready
  <2>. QED
    BY <2>2, <2>4 DEF Edited, GoneStatus
<1>5. ASSUME NeedsApproval(i)
      PROVE  Facts(ParkedForApproval(i)) /\ ParkedForApproval(i).status \notin GoneStatus
  <2> DEFINE s == [PauseStepForInput(CurStep(i)) EXCEPT !.approval = "pending"]
  <2>1. /\ s \in Step /\ s.state = "waiting_decision" /\ s.approval = "pending" /\ ~s.job
    BY <1>1 DEF PauseStepForInput, Step, StepState, ApprovalState
  <2>2. Edited(i, ParkedForApproval(i), i.cur, s, "blocked")
    BY <1>1, <2>1, EditOf DEF ParkedForApproval, LiveStatus
  <2> HIDE DEF s
  <2>3. Sound(i.cur, s)
    BY <2>1 DEF Sound
  <2>4. OpenEvents /\ SentBack => i.cur \in Gated \ Skippable /\ ~IsFinal(i.cur)
    BY <1>5 DEF NeedsApproval, OpenEvents
  <2>5. Facts(ParkedForApproval(i))
    BY <1>1, <2>1, <2>2, <2>3, <2>4, CurEdit DEF Ready
  <2>. QED
    BY <2>2, <2>5 DEF Edited, GoneStatus
<1>6. ASSUME ~NeedsApproval(i)
      PROVE  Facts(Settled(i)) /\ Settled(i).status \notin GoneStatus
  <2>1. i.cur \in Guards /\ ~IsFinal(i.cur) => CurStep(i).approval = "approved"
    BY <1>6 DEF NeedsApproval, Guards
  <2>2. OpenEvents /\ SentBack => CurStep(i).approval \notin Unsettled
    BY <1>3, <1>6 DEF NeedsApproval, Unsettled
  <2>. QED
    BY <2>1, <2>2, SettledKeeps
<1>. QED
  BY <1>4, <1>5, <1>6

-----------------------------------------------------------------------------
(* The store and the actors.                                                *)

\* The stored runs after a step, each of them with the facts.
Wrote == \A r \in Runs : rows'[r].status \notin GoneStatus => Facts(rows'[r])

\* An actor moved to a record that is true, over runs that keep the facts.
LEMMA StepsMove ==
  ASSUME StepsInv, TypeInv', NEW a \in Actors, NEW l, Go(a, l), Copies(l), Wrote
  PROVE  StepsInv'
<1>1. \A c \in Actors : loc'[c] = IF c = a THEN l ELSE loc[c]
  BY DEF StepsInv, TypeInv, TypeOK, Go
<1>2. \A c \in Actors : Copies(loc'[c])
  BY <1>1 DEF StepsInv
<1>3. \A r \in Runs : Present(r)' => Facts(rows'[r])
  BY DEF Wrote, Present
<1>. QED
  BY <1>2, <1>3 DEF StepsInv

\* Every statement of the store keeps them, given a copy that has them.
LEMMA StoreFacts ==
  ASSUME StepsInv
  PROVE  /\ UNCHANGED rows => Wrote
         /\ \A r \in Runs, i \in Instance : Facts(i) =>
              /\ CompareAndSwap(r, i) => Wrote
              /\ Mutate(r, i) => Wrote
              /\ Upsert(r, i) => Wrote
              /\ \A p : InsertLive(r, i, p) => Wrote
         /\ \A r \in Runs : MarkFailed(r) => Wrote
         /\ \A b : DeleteByBlock(b) => Wrote
<1>1. /\ rows \in [Runs -> Instance]
      /\ \A r \in Runs : rows[r].status \notin GoneStatus => Facts(rows[r])
  BY DEF StepsInv, TypeInv, TypeOK, Present
<1>2. \A r \in Runs : rows[r].rev \in Nat /\ rows[r].rev + 1 \in Nat
  BY <1>1 DEF Instance
<1>3. UNCHANGED rows => Wrote
  BY <1>1 DEF Wrote
<1>4. ASSUME NEW r \in Runs, NEW i \in Instance, Facts(i), CompareAndSwap(r, i)
      PROVE  Wrote
  <2>1. i.rev + 1 \in Nat
    BY DEF Instance
  <2>2. Facts([i EXCEPT !.rev = i.rev + 1])
    BY <1>4, <2>1, RevKeeps
  <2>3. rows' = [rows EXCEPT ![r] = [i EXCEPT !.rev = i.rev + 1]]
    BY <1>4 DEF CompareAndSwap
  <2>. QED
    BY <1>1, <2>2, <2>3 DEF Wrote
<1>5. ASSUME NEW r \in Runs, NEW i \in Instance, Facts(i), Mutate(r, i)
      PROVE  Wrote
  <2>1. [i EXCEPT !.rev = rows[r].rev] \in Instance
    BY <1>2 DEF Instance
  <2>2. Facts([i EXCEPT !.rev = rows[r].rev])
    BY <1>2, <1>5, RevKeeps
  <2>. QED
    BY <1>4, <1>5, <2>1, <2>2 DEF Mutate
<1>6. ASSUME NEW r \in Runs, NEW i \in Instance, Facts(i), Upsert(r, i)
      PROVE  Wrote
  <2>1. PICK n \in Nat : rows' = [rows EXCEPT ![r] = [i EXCEPT !.rev = n]]
    BY <1>2, <1>6 DEF Upsert
  <2>2. Facts([i EXCEPT !.rev = n])
    BY <1>6, RevKeeps
  <2>. QED
    BY <1>1, <2>1, <2>2 DEF Wrote
<1>7. Deleted.status \in GoneStatus
  BY DeletedRow
<1>8. ASSUME NEW r \in Runs, NEW i \in Instance, Facts(i), NEW p, InsertLive(r, i, p)
      PROVE  Wrote
  <2>1. Facts([i EXCEPT !.rev = 0])
    BY <1>8, RevKeeps
  <2>. QED
    BY <1>1, <1>7, <1>8, <2>1 DEF Wrote, InsertLive
<1>9. ASSUME NEW r \in Runs, MarkFailed(r)
      PROVE  Wrote
  <2>1. CASE Live(r)
    <3>1. rows[r] \in Instance /\ Facts(rows[r]) /\ rows[r].status # "done"
      BY <1>1, <2>1 DEF Live, LiveStatus, GoneStatus
    <3>2. PICK i : i = [rows[r] EXCEPT !.status = "failed"]
      OBVIOUS
    <3>3. Facts(i) /\ i \in Instance /\ i.rev = rows[r].rev
      BY <3>1, <3>2, StatusKeeps DEF Instance, Status, EndStatus
    <3>4. Facts([i EXCEPT !.rev = rows[r].rev + 1])
      BY <1>2, <3>3, RevKeeps
    <3>5. rows' = [rows EXCEPT ![r] = [i EXCEPT !.rev = rows[r].rev + 1]]
      BY <1>1, <1>9, <2>1, <3>1, <3>2 DEF MarkFailed, Instance
    <3>. QED
      BY <1>1, <3>4, <3>5 DEF Wrote
  <2>2. CASE ~Live(r)
    BY <1>3, <1>9, <2>2 DEF MarkFailed
  <2>. QED
    BY <2>1, <2>2
<1>10. ASSUME NEW b, DeleteByBlock(b)
      PROVE  Wrote
  BY <1>1, <1>7, <1>10 DEF Wrote, DeleteByBlock
<1>. QED
  BY <1>3, <1>4, <1>5, <1>6, <1>8, <1>9, <1>10

\* A record without a copy.
LEMMA NoCopy ==
  /\ \A l : l.pc \notin Loaded \cup Written => Copies(l)
  /\ Copies(Idle)
  /\ \A a, pc : pc \notin Loaded \cup Written =>
       /\ Copies(Bare(a, pc))
       /\ \A p : Copies([Bare(a, pc) EXCEPT !.polls = p])
       /\ \A i : Copies(Hold(a, pc, i))
       /\ \A b : Copies([Hold(a, pc, Blank) EXCEPT !.mem.block = b])
       /\ \A b, n : Copies([Hold(a, pc, Blank) EXCEPT !.mem.block = b, !.next = n])
<1>1. ASSUME NEW l, l.pc \notin Loaded \cup Written
      PROVE  Copies(l)
  BY <1>1 DEF Copies, Loaded, Written
<1>2. Idle.pc = "idle" /\ "idle" \notin Loaded \cup Written
  BY DEF Idle, Loaded, Written
<1>3. ASSUME NEW a, NEW pc
      PROVE  /\ Bare(a, pc).pc = pc
             /\ \A p : [Bare(a, pc) EXCEPT !.polls = p].pc = pc
             /\ \A i : Hold(a, pc, i).pc = pc
             /\ \A b : [Hold(a, pc, Blank) EXCEPT !.mem.block = b].pc = pc
             /\ \A b, n : [Hold(a, pc, Blank) EXCEPT !.mem.block = b, !.next = n].pc = pc
  BY DEF Bare, Hold, Idle
<1>4. Copies(Idle)
  BY <1>1, <1>2
<1>5. ASSUME NEW a, NEW pc, pc \notin Loaded \cup Written
      PROVE  /\ Copies(Bare(a, pc))
             /\ \A p : Copies([Bare(a, pc) EXCEPT !.polls = p])
             /\ \A i : Copies(Hold(a, pc, i))
             /\ \A b : Copies([Hold(a, pc, Blank) EXCEPT !.mem.block = b])
             /\ \A b, n : Copies([Hold(a, pc, Blank) EXCEPT !.mem.block = b, !.next = n])
  <2>1. Copies(Bare(a, pc))
    BY <1>1, <1>3, <1>5
  <2>2. ASSUME NEW p PROVE Copies([Bare(a, pc) EXCEPT !.polls = p])
    <3>1. PICK l : l = [Bare(a, pc) EXCEPT !.polls = p]
      OBVIOUS
    <3>2. l.pc = pc
      BY <1>3, <3>1
    <3>. QED
      BY <1>1, <1>5, <3>1, <3>2
  <2>3. ASSUME NEW i PROVE Copies(Hold(a, pc, i))
    <3>1. PICK l : l = Hold(a, pc, i)
      OBVIOUS
    <3>2. l.pc = pc
      BY <3>1, HoldFields
    <3>. QED
      BY <1>1, <1>5, <3>1, <3>2
  <2>4. ASSUME NEW b PROVE Copies([Hold(a, pc, Blank) EXCEPT !.mem.block = b])
    <3>1. PICK l : l = [Hold(a, pc, Blank) EXCEPT !.mem.block = b]
      OBVIOUS
    <3>2. l.pc = pc
      BY <1>3, <3>1
    <3>. QED
      BY <1>1, <1>5, <3>1, <3>2
  <2>5. ASSUME NEW b, NEW n
        PROVE  Copies([Hold(a, pc, Blank) EXCEPT !.mem.block = b, !.next = n])
    <3>1. PICK l : l = [Hold(a, pc, Blank) EXCEPT !.mem.block = b, !.next = n]
      OBVIOUS
    <3>2. l.pc = pc
      BY <1>3, <3>1
    <3>. QED
      BY <1>1, <1>5, <3>1, <3>2
  <2>. QED
    BY <2>1, <2>2, <2>3, <2>4, <2>5
<1>. QED
  BY <1>1, <1>4, <1>5

\* A driver writes a copy that has the facts, or re-enters its loop.
LEMMA CasThenSteps ==
  ASSUME StepsInv, TypeInv', NEW w \in Actors, Run(w) \in Runs,
         NEW i \in Instance, Facts(i), NEW l, Copies(l), CasThen(w, i, l)
  PROVE  StepsInv'
<1>1. Copies(Bare(w, "advance"))
  BY NoCopy DEF Loaded, Written
<1>2. CASE CompareAndSwap(Run(w), i) /\ Go(w, l)
  BY <1>2, StoreFacts, StepsMove
<1>3. CASE Go(w, Bare(w, "advance")) /\ UNCHANGED rows
  BY <1>1, <1>3, StoreFacts, StepsMove
<1>. QED
  BY <1>2, <1>3 DEF CasThen

\* A driver keeps such a copy while it writes the board.
LEMMA BlockThenCasSteps ==
  ASSUME StepsInv, TypeInv', NEW w \in Actors,
         NEW i, Facts(i), i.status \notin GoneStatus, NEW n, BlockThenCas(w, i, n)
  PROVE  StepsInv'
<1>1. PICK l : l = [Hold(w, "cas", i) EXCEPT !.next = n]
  OBVIOUS
<1>2. l.pc = "cas" /\ l.mem = i
  BY <1>1, HoldNextFields
<1>3. Copies(l)
  BY <1>2 DEF Copies, Loaded
<1>. QED
  BY <1>1, <1>3, StoreFacts, StepsMove DEF BlockThenCas

\* A result is recorded.
LEMMA RecordSteps ==
  ASSUME StepsInv, TypeInv', NEW w \in Actors, NEW i, Ready(i), ~CurStep(i).job,
         RecordStepResult(w, i)
  PROVE  StepsInv'
<1>1. CASE ParkAwaitingInput(w, Asked(i))
  BY <1>1, RecordKeeps, BlockThenCasSteps DEF ParkAwaitingInput
<1>2. CASE NeedsApproval(i) /\ ParkAwaitingInput(w, ParkedForApproval(i))
  BY <1>2, RecordKeeps, BlockThenCasSteps DEF ParkAwaitingInput
<1>3. CASE ~NeedsApproval(i) /\ Settle(w, i)
  BY <1>3, RecordKeeps, BlockThenCasSteps DEF Settle
<1>. QED
  BY <1>1, <1>2, <1>3 DEF RecordStepResult

-----------------------------------------------------------------------------
(* The driver.                                                              *)

\* What a driver past its load holds.
LEMMA LoadedCopy ==
  ASSUME StepsInv, NEW w \in Actors, loc[w].pc \in Loaded \cup {"cas", "upsert"}
  PROVE  /\ Run(w) \in Runs
         /\ Mem(w) \in Instance
         /\ Facts(Mem(w))
         /\ Mem(w).status \notin GoneStatus
         /\ CurStep(Mem(w)) \in Step
         /\ loc[w].pc \in Loaded => Mem(w).status \in {"running", "paused"}
<1>1. Copies(loc[w]) /\ TypeInv
  BY DEF StepsInv
<1>2. Run(w) \in Runs /\ Mem(w) \in Instance
  BY <1>1, Driving DEF In, Loaded
<1>. QED
  BY <1>1, <1>2, StepOf DEF Copies, Written, Mem

\* Before the step is worked on, and around a dispatch.
LEMMA DriverSteps ==
  ASSUME StepsInv, TypeInv', NEW w \in Actors,
         \/ Advance(w) \/ OverBudget(w) \/ ParkAgain(w) \/ Attach(w) \/ Skip(w)
         \/ Dispatch(w) \/ DispatchFails(w) \/ AdvanceThrows(w)
         \/ InlineStart(w) \/ InlineDone(w) \/ Cas(w)
  PROVE  StepsInv'
<1>1. TypeInv /\ rows \in [Runs -> Instance]
  BY DEF StepsInv, TypeInv, TypeOK
<1>2. CASE Advance(w)
  <2>1. CASE rows[Run(w)].status \in {"running", "paused"}
    <3>1. Run(w) \in Runs
      BY <1>1, <1>2, Driving DEF Advance, In
    <3>2. PICK l : l = Hold(w, "act", rows[Run(w)])
      OBVIOUS
    <3>3. l.pc = "act" /\ l.mem = rows[Run(w)]
      BY <3>2, HoldFields
    <3>4. rows[Run(w)].status \notin GoneStatus /\ Facts(rows[Run(w)])
      BY <2>1, <3>1 DEF StepsInv, Present, GoneStatus
    <3>5. Copies(l)
      BY <2>1, <3>3, <3>4 DEF Copies, Loaded
    <3>. QED
      BY <1>2, <2>1, <3>2, <3>5, StoreFacts, StepsMove DEF Advance
  <2>2. CASE ~(rows[Run(w)].status \in {"running", "paused"})
    BY <1>2, <2>2, NoCopy, StoreFacts, StepsMove DEF Advance
  <2>. QED
    BY <2>1, <2>2
<1>3. CASE In(w, "act") \/ In(w, "inline") \/ In(w, "cas")
  <2>1. /\ Run(w) \in Runs /\ Mem(w) \in Instance /\ Facts(Mem(w))
        /\ Mem(w).status \notin GoneStatus /\ CurStep(Mem(w)) \in Step
        /\ ~In(w, "cas") => Mem(w).status \in {"running", "paused"}
    BY <1>3, LoadedCopy DEF In, Loaded
  <2>2. Stepping(w) =>
          /\ Ready(Started(w))
          /\ Started(w) \in Instance
          /\ Started(w).status = "running"
          /\ Started(w).cur = Mem(w).cur
          /\ CurStep(Started(w)).state = "working"
          /\ CurStep(Started(w)).job = CurStep(Mem(w)).job
    BY <1>1, <2>1, StartedReady DEF Ready, Stepping, In
  <2>3. \A pc \in {"poll", "fail", "advance"} : Copies(Bare(w, pc))
    BY NoCopy DEF Loaded, Written
  <2>4. \A v \in {"paused", "blocked"} :
          [Mem(w) EXCEPT !.status = v] \in Instance
    BY <2>1 DEF Instance, Status, LiveStatus
  <2>5. CASE OverBudget(w)
    <3>1. Facts([Mem(w) EXCEPT !.status = "paused"])
      BY <2>1, <2>5, StatusKeeps DEF OverBudget, In
    <3>2. CASE Go(w, Idle) /\ UNCHANGED rows
      BY <3>2, NoCopy, StoreFacts, StepsMove
    <3>3. CASE CasThen(w, [Mem(w) EXCEPT !.status = "paused"], Idle)
      BY <2>1, <2>4, <3>1, <3>3, NoCopy, CasThenSteps
    <3>. QED
      BY <2>5, <3>2, <3>3 DEF OverBudget
  <2>6. CASE ParkAgain(w)
    <3>1. Facts([Mem(w) EXCEPT !.status = "blocked"])
      BY <2>1, <2>6, StatusKeeps DEF ParkAgain, In, Waiting
    <3>. QED
      BY <2>1, <2>4, <2>6, <3>1, NoCopy, CasThenSteps DEF ParkAgain
  <2>7. CASE Attach(w) \/ AdvanceThrows(w)
    BY <2>3, <2>7, StoreFacts, StepsMove DEF Attach, AdvanceThrows
  <2>8. CASE Skip(w)
    <3>1. Stepping(w) /\ Mem(w).cur \in Skippable /\ Settle(w, Started(w))
      BY <2>8 DEF Skip
    <3> DEFINE i == Started(w)
    <3>2. Ready(i) /\ i \in Instance /\ i.cur \in Skippable /\ i.cur \in Positions
      BY <2>2, <3>1, StepOf
    <3>3. i.cur \notin Guards
      BY <3>2 DEF Guards
    <3>4. Sound(i.cur, CurStep(i))
      BY <3>2 DEF Ready, Facts, Asks, CurStep
    <3>5. OpenEvents /\ SentBack => CurStep(i).approval \notin Unsettled
      BY <3>2 DEF Ready, Facts, Open, CurStep
    <3>6. JobEvents => ~CurStep(i).job
      BY <3>2, <3>4 DEF Sound, JobEvents
    <3> HIDE DEF i
    <3>7. Facts(Settled(i)) /\ Settled(i).status \notin GoneStatus
      BY <3>2, <3>3, <3>5, <3>6, SettledKeeps
    <3>. QED
      BY <3>1, <3>7, BlockThenCasSteps DEF Settle, i
  <2>9. CASE Dispatch(w)
    <3>1. Stepping(w) /\ AtJob(w) /\ ~CurStep(Mem(w)).job
      BY <2>9 DEF Dispatch
    <3> DEFINE i == Started(w)
               s == [CurStep(i) EXCEPT !.job = TRUE]
    <3>2. CurStep(i) \in Step /\ i.cur \notin Judges \cup Inline
      BY <2>2, <3>1, StepOf DEF AtJob
    <3>3. s \in Step /\ s.state = CurStep(i).state /\ s.approval = CurStep(i).approval
          /\ s.decision = CurStep(i).decision
      BY <3>2 DEF Step
    <3> HIDE DEF s
    <3>4. Ready(WithStep(i, i.cur, s))
      BY <2>2, <3>1, <3>2, <3>3, ReadyEdit
    <3>5. Facts(WithStep(i, i.cur, s)) /\ WithStep(i, i.cur, s) \in Instance
      BY <3>4 DEF Ready
    <3>6. CasThen(w, WithStep(i, i.cur, s), Bare(w, "poll"))
      BY <2>9 DEF Dispatch, s
    <3>. QED
      BY <2>1, <2>3, <3>5, <3>6, CasThenSteps
  <2>10. CASE DispatchFails(w)
    <3>1. Facts(Started(w)) /\ Started(w) \in Instance
      BY <2>2, <2>10 DEF DispatchFails, Ready
    <3>. QED
      BY <2>1, <2>3, <2>10, <3>1, CasThenSteps DEF DispatchFails
  <2>11. CASE InlineStart(w)
    <3>1. Stepping(w) /\ Mem(w).cur \in Inline \ Judges
      BY <2>11 DEF InlineStart
    <3>2. Facts(Started(w)) /\ Started(w) \in Instance /\ Started(w).rev + 1 \in Nat
      BY <2>2, <3>1 DEF Ready, Instance
    <3>3. PICK i : i = [Started(w) EXCEPT !.rev = @ + 1]
      OBVIOUS
    <3>4. Facts(i)
      BY <3>2, <3>3, RevKeeps
    <3>5. i.status = "running" /\ i.cur \in Inline \ Judges /\ CurStep(i).state = "working"
      BY <2>2, <3>1, <3>3 DEF Instance, CurStep
    <3>6. PICK l : l = Hold(w, "inline", i)
      OBVIOUS
    <3>7. l.pc = "inline" /\ l.mem = i
      BY <3>6, HoldFields
    <3>8. Copies(l)
      BY <3>4, <3>5, <3>7 DEF Copies, GoneStatus
    <3>9. CasThen(w, Started(w), l)
      BY <2>11, <3>3, <3>6 DEF InlineStart
    <3>. QED
      BY <2>1, <3>2, <3>8, <3>9, CasThenSteps
  <2>12. CASE InlineDone(w)
    <3>1. /\ Mem(w).cur \in Inline \ Judges /\ CurStep(Mem(w)).state = "working"
          /\ Mem(w).status \in {"running", "paused"}
      BY <2>1, <2>12 DEF InlineDone, In, StepsInv, Copies, Mem
    <3>2. Sound(Mem(w).cur, CurStep(Mem(w))) /\ Mem(w).cur \in Positions
      BY <2>1, StepOf DEF Facts, Asks, CurStep
    <3>3. ~CurStep(Mem(w)).job
      BY <3>1, <3>2 DEF Sound
    <3>4. OpenEvents /\ ~SentBack => CurStep(Mem(w)).approval \notin Unsettled
      BY <2>1, <3>1, <3>2 DEF Facts, Open, CurStep
    <3>5. Ready(Mem(w))
      BY <2>1, <3>1, <3>4 DEF Ready
    <3>. QED
      BY <2>12, <3>3, <3>5, RecordSteps DEF InlineDone
  <2>13. CASE Cas(w)
    <3>1. loc[w].next \in {"idle", "advance"}
      BY <1>1 DEF TypeInv, TypeOK, Loc
    <3>2. Copies(Bare(w, loc[w].next))
      BY <3>1, NoCopy DEF Loaded, Written
    <3>. QED
      BY <2>1, <2>13, <3>2, CasThenSteps DEF Cas
  <2>. QED
    BY <1>2, <2>5, <2>6, <2>7, <2>8, <2>9, <2>10, <2>11, <2>12, <2>13
<1>. QED
  BY <1>2, <1>3 DEF OverBudget, ParkAgain, Attach, Skip, Dispatch, DispatchFails,
     AdvanceThrows, InlineStart, InlineDone, Cas, Stepping

\* Polling the attached job.
LEMMA PollSteps ==
  ASSUME StepsInv, TypeInv', NEW w \in Actors,
         \/ Poll(w) \/ PollExhausted(w) \/ PollRunning(w) \/ PollProgress(w)
         \/ PollEvicted(w) \/ PollFailed(w) \/ PollDone(w)
  PROVE  StepsInv'
<1>1. TypeInv /\ rows \in [Runs -> Instance]
  BY DEF StepsInv, TypeInv, TypeOK
<1>2. \A pc \in {"poll", "fail", "advance"} :
        Copies(Bare(w, pc)) /\ \A p : Copies([Bare(w, pc) EXCEPT !.polls = p])
  BY NoCopy DEF Loaded, Written
<1>3. CASE Poll(w)
  <2> DEFINE i == rows[Run(w)]
  <2>1. CASE i.status \in {"running", "paused"} /\ CurStep(i).job
    <3>1. Run(w) \in Runs
      BY <1>1, <1>3, Driving DEF Poll, In
    <3>2. PICK l : l = [Hold(w, "polled", i) EXCEPT !.polls = loc[w].polls]
      OBVIOUS
    <3>3. l.pc = "polled" /\ l.mem = i
      BY <3>2, HoldPollsFields
    <3>4. i.status \notin GoneStatus /\ Facts(i)
      BY <2>1, <3>1 DEF StepsInv, Present, GoneStatus
    <3>5. Copies(l)
      BY <2>1, <3>3, <3>4 DEF Copies
    <3>. QED
      BY <1>3, <2>1, <3>2, <3>5, StoreFacts, StepsMove DEF Poll
  <2>2. CASE ~(i.status \in {"running", "paused"} /\ CurStep(i).job)
    BY <1>2, <1>3, <2>2, NoCopy, StoreFacts, StepsMove DEF Poll
  <2>. QED
    BY <2>1, <2>2
<1>4. CASE PollExhausted(w) \/ PollRunning(w)
  BY <1>2, <1>4, StoreFacts, StepsMove DEF PollExhausted, PollRunning
<1>5. CASE PollProgress(w)
  <2>1. CASE Present(Run(w))
    <3>1. Run(w) \in Runs /\ rows[Run(w)] \in Instance /\ Facts(rows[Run(w)])
      BY <1>1, <1>5, <2>1, Driving DEF PollProgress, In, StepsInv
    <3>. QED
      BY <1>2, <1>5, <2>1, <3>1, StoreFacts, StepsMove DEF PollProgress
  <2>2. CASE ~Present(Run(w))
    BY <1>2, <1>5, <2>2, StoreFacts, StepsMove DEF PollProgress
  <2>. QED
    BY <2>1, <2>2
<1>6. CASE PollEvicted(w) \/ PollFailed(w) \/ PollDone(w)
  <2>1. In(w, "polled")
    BY <1>6 DEF PollEvicted, PollFailed, PollDone
  <2> DEFINE i == Mem(w)
  <2>2. /\ Run(w) \in Runs /\ i \in Instance /\ Facts(i)
        /\ i.status \in {"running", "paused"} /\ CurStep(i) \in Step /\ i.cur \in Positions
        /\ CurStep(i) = i.steps[i.cur]
    BY <2>1, LoadedCopy, StepOf DEF In, Loaded, CurStep
  <2>3. CurStep(i).job
    BY <2>1 DEF In, StepsInv, Copies, Mem
  <2>4. OpenEvents /\ ~SentBack => CurStep(i).approval \notin Unsettled
    BY <2>2, <2>3 DEF Facts, Open
  <2>5. Ready(i)
    BY <2>2, <2>4 DEF Ready
  <2> HIDE DEF i
  <2>6. ASSUME NEW s \in Step, s.state = CurStep(i).state, s.approval = CurStep(i).approval,
               s.decision = CurStep(i).decision, ~s.job
        PROVE  Ready(WithStep(i, i.cur, s)) /\ CurStep(WithStep(i, i.cur, s)) = s
    BY <2>5, <2>6, ReadyEdit
  <2>7. CASE PollEvicted(w)
    <3> DEFINE s == [CurStep(i) EXCEPT !.job = FALSE, !.evictions = @ + 1]
    <3>1. s \in Step
      BY <2>2, StepFields
    <3>2. s.state = CurStep(i).state /\ s.approval = CurStep(i).approval
          /\ s.decision = CurStep(i).decision /\ ~s.job
      BY <2>2 DEF Step
    <3>3. CasThen(w, WithStep(i, i.cur, s), Bare(w, "advance"))
          \/ CasThen(w, i, Bare(w, "fail"))
      BY <2>7 DEF PollEvicted, i
    <3> HIDE DEF s
    <3>4. Facts(WithStep(i, i.cur, s)) /\ WithStep(i, i.cur, s) \in Instance
      BY <2>6, <3>1, <3>2 DEF Ready
    <3>. QED
      BY <1>2, <2>2, <3>3, <3>4, CasThenSteps
  <2>8. CASE PollFailed(w)
    BY <1>2, <2>2, <2>8, CasThenSteps DEF PollFailed, i
  <2>9. CASE PollDone(w)
    <3> DEFINE s == [CurStep(i) EXCEPT !.job = FALSE]
    <3>1. s \in Step
      BY <2>2, StepFields
    <3>2. s.state = CurStep(i).state /\ s.approval = CurStep(i).approval
          /\ s.decision = CurStep(i).decision /\ ~s.job
      BY <2>2 DEF Step
    <3>3. RecordStepResult(w, WithStep(i, i.cur, s))
      BY <2>9 DEF PollDone, i
    <3> HIDE DEF s
    <3>. QED
      BY <2>6, <3>1, <3>2, <3>3, RecordSteps
  <2>. QED
    BY <1>6, <2>7, <2>8, <2>9
<1>. QED
  BY <1>3, <1>4, <1>5, <1>6

\* A judge's verdict.
LEMMA JudgeSteps ==
  ASSUME StepsInv, TypeInv', NEW w \in Actors,
         \/ JudgePass(w) \/ JudgeFail(w) \/ JudgeBounce(w) \/ JudgeCapSettled(w)
         \/ JudgePark(w)
  PROVE  StepsInv'
<1>1. TypeInv /\ Stepping(w) /\ In(w, "act") /\ Mem(w).cur \in Judges
  BY DEF StepsInv, JudgePass, JudgeFail, JudgeBounce, JudgeCapSettled, JudgePark, Evaluating,
     Stepping, AtJudge
<1> DEFINE i == Started(w)
<1>2. /\ Run(w) \in Runs /\ Facts(Mem(w)) /\ Mem(w).status \in {"running", "paused"}
      /\ Mem(w) \in Instance
  BY <1>1, LoadedCopy DEF In, Loaded
<1>3. /\ Ready(i) /\ i \in Instance /\ i.status = "running" /\ i.cur = Mem(w).cur
      /\ i.cur \in Positions /\ CurStep(i) \in Step /\ CurStep(i) = i.steps[i.cur]
      /\ CurStep(i).state = "working"
  BY <1>1, <1>2, StartedReady, StepOf DEF Ready, CurStep
<1>4. \A pc \in {"fail", "advance"} : Copies(Bare(w, pc))
  BY NoCopy DEF Loaded, Written
<1>5. Sound(i.cur, CurStep(i)) /\ ~CurStep(i).job
  BY <1>1, <1>3 DEF Ready, Facts, Asks, Sound
<1> HIDE DEF i
<1>6. /\ Ready(Judged(i)) /\ Judged(i) \in Instance /\ Facts(Judged(i))
      /\ ~CurStep(Judged(i)).job
  <2> DEFINE s == [CurStep(i) EXCEPT !.judge = "settled"]
  <2>1. s \in Step /\ s.state = CurStep(i).state /\ s.approval = CurStep(i).approval
        /\ s.decision = CurStep(i).decision /\ ~s.job
    BY <1>3, <1>5, StepFields DEF Step, JudgeState
  <2> HIDE DEF s
  <2>2. Ready(WithStep(i, i.cur, s)) /\ CurStep(WithStep(i, i.cur, s)) = s
    BY <1>3, <2>1, ReadyEdit
  <2>. QED
    BY <2>1, <2>2 DEF Judged, Ready, s
<1>7. CASE JudgePass(w) \/ JudgeCapSettled(w)
  BY <1>6, <1>7, RecordSteps DEF JudgePass, JudgeCapSettled, i
<1>8. CASE JudgeFail(w)
  BY <1>2, <1>4, <1>6, <1>8, CasThenSteps DEF JudgeFail, i
<1>9. CASE JudgeBounce(w)
  <2> DEFINE s == [CurStep(i) EXCEPT !.bounces = @ + 1]
             b == WithStep(i, i.cur, s)
  <2>1. s \in Step /\ s.state = CurStep(i).state /\ s.approval = CurStep(i).approval
        /\ s.decision = CurStep(i).decision /\ ~s.job
    BY <1>3, <1>5, StepFields DEF Step
  <2> HIDE DEF s
  <2>2. Ready(b) /\ b.status = i.status /\ b.cur = i.cur
    BY <1>3, <2>1, ReadyEdit
  <2>3. BounceTarget(i.cur)
    BY <1>3, <1>9 DEF JudgeBounce, Bounces
  <2> HIDE DEF b
  <2>4. b \in Instance /\ Facts(b) /\ b.status = "running"
    BY <1>3, <2>2 DEF Ready
  <2>5. SentBefore(b, Bounced(b, i.cur), i.cur, b.status)
    BY <1>3, <2>3, <2>4, SendOf DEF LiveStatus
  <2>6. Facts(Bounced(b, i.cur)) /\ Bounced(b, i.cur) \in Instance
    <3>1. Bounced(b, i.cur) \in Instance
      BY <2>5 DEF SentBefore
    <3>2. Facts(Bounced(b, i.cur))
      BY <1>3, <2>2, <2>3, <2>4, <2>5, SendKeeps
    <3>. QED
      BY <3>1, <3>2
  <2>7. PICK l : l = [Hold(w, "rework", Blank) EXCEPT !.mem.block = i.block, !.next = "advance"]
    OBVIOUS
  <2>8. Copies(l)
    <3>1. "rework" \notin Loaded \cup Written
      BY DEF Loaded, Written
    <3>. QED
      BY <2>7, <3>1, NoCopy
  <2>9. CasThen(w, Bounced(b, i.cur), l)
    BY <1>9, <2>7 DEF JudgeBounce, i, b, s
  <2>. QED
    BY <1>2, <2>6, <2>8, <2>9, CasThenSteps
<1>10. CASE JudgePark(w)
  <2> DEFINE s == [PauseStepForInput(CurStep(i)) EXCEPT !.approval = "pending"]
             p == ParkedForApproval(i)
             t == [s EXCEPT !.judge = "awaiting"]
             q == WithStep(p, p.cur, [CurStep(p) EXCEPT !.judge = "awaiting"])
  <2>1. /\ s \in Step /\ t \in Step
        /\ s.state = "waiting_decision" /\ s.approval = "pending" /\ ~s.job
        /\ t.state = "waiting_decision" /\ t.approval = "pending" /\ ~t.job
    BY <1>3, <1>5 DEF PauseStepForInput, Step, StepState, ApprovalState, JudgeState
  <2>2. Edited(i, p, i.cur, s, "blocked")
    BY <1>3, <2>1, EditOf DEF ParkedForApproval, LiveStatus
  <2> HIDE DEF s, p
  <2>3. p \in Instance /\ p.cur = i.cur /\ p.cur \in Positions /\ CurStep(p) = s
        /\ p.status = "blocked"
    BY <1>3, <2>2 DEF Edited, CurStep
  <2>4. ~(OpenEvents /\ SentBack)
    BY <1>1, <1>10 DEF JudgePark, Parks, OpenEvents
  <2>5. Sound(i.cur, s) /\ Sound(i.cur, t)
    BY <2>1 DEF Sound
  <2>6. Facts(p)
    BY <1>3, <2>1, <2>2, <2>4, <2>5, CurEdit DEF Ready
  <2>7. Edited(p, q, p.cur, t, "blocked")
    <3>1. q = WithStep(p, p.cur, t)
      BY <2>3
    <3>. QED
      BY <2>1, <2>3, <3>1, EditOf DEF LiveStatus
  <2> HIDE DEF t, q
  <2>8. Facts(q)
    BY <2>1, <2>3, <2>4, <2>5, <2>6, <2>7, CurEdit
  <2>9. q.status \notin GoneStatus
    BY <2>7 DEF Edited, GoneStatus
  <2>10. PICK l : l = Hold(w, "upsert", q)
    OBVIOUS
  <2>11. Copies(l)
    <3>1. l.pc = "upsert" /\ l.mem = q
      BY <2>10, HoldFields
    <3>. QED
      BY <2>8, <2>9, <3>1 DEF Copies, Loaded
  <2>12. Go(w, l) /\ UNCHANGED rows
    BY <1>10, <2>10 DEF JudgePark, i, p, q
  <2>. QED
    BY <2>11, <2>12, StoreFacts, StepsMove
<1>. QED
  BY <1>7, <1>8, <1>9, <1>10

\* What follows a judge's verdict, a failed run and a dead process.
LEMMA EndSteps ==
  ASSUME StepsInv, TypeInv', NEW a \in Actors,
         \/ ParkUpsert(a) \/ Rework(a) \/ FailStep(a) \/ Crash(a)
  PROVE  StepsInv'
<1>1. TypeInv
  BY DEF StepsInv
<1>2. \A pc \in {"idle", "fail", "mark", "reread", "advance"} : Copies(Bare(a, pc))
  BY NoCopy DEF Loaded, Written
<1>3. CASE ParkUpsert(a)
  <2>1. Run(a) \in Runs /\ Mem(a) \in Instance /\ Facts(Mem(a))
    BY <1>3, LoadedCopy DEF ParkUpsert, In
  <2>. QED
    BY <1>2, <1>3, <2>1, NoCopy, StoreFacts, StepsMove DEF ParkUpsert
<1>4. CASE Rework(a)
  <2>1. loc[a].next \in {"idle", "advance"}
    BY <1>1 DEF TypeInv, TypeOK, Loc
  <2>. QED
    BY <1>2, <1>4, <2>1, StoreFacts, StepsMove DEF Rework
<1>5. CASE FailMark(a)
  <2>1. Run(a) \in Runs
    BY <1>1, <1>5, Driving DEF FailMark, In
  <2>. QED
    BY <1>2, <1>5, <2>1, StoreFacts, StepsMove DEF FailMark
<1>6. CASE FailReread(a)
  <2>1. PICK l : l = [Hold(a, "failblock", Blank) EXCEPT !.mem.block = rows[Run(a)].block]
    OBVIOUS
  <2>2. Copies(l)
    <3>1. "failblock" \notin Loaded \cup Written
      BY DEF Loaded, Written
    <3>. QED
      BY <2>1, <3>1, NoCopy
  <2>3. (Go(a, l) \/ Go(a, Idle)) /\ UNCHANGED rows
    BY <1>6, <2>1 DEF FailReread
  <2>. QED
    BY <2>2, <2>3, NoCopy, StoreFacts, StepsMove
<1>7. CASE FailLoad(a) \/ FailBlock(a) \/ Crash(a)
  BY <1>2, <1>7, NoCopy, StoreFacts, StepsMove DEF FailLoad, FailBlock, Crash
<1>. QED
  BY <1>3, <1>4, <1>5, <1>6, <1>7 DEF FailStep

-----------------------------------------------------------------------------
(* Requests.                                                                *)

\* A planned run: from nothing, from a failed run's first unfinished step, or
\* from any step.
LEMMA LaunchedFacts ==
  ASSUME NEW b \in Blocks
  PROVE  Facts(LaunchedOn(b)) /\ LaunchedOn(b) \in Instance
<1> DEFINE i == LaunchedOn(b)
<1>1. i \in Instance /\ 1 \in Positions /\ N \in Nat
  BY PlanType, FirstPosition, StepsAssumption
<1>2. /\ i.status = "running" /\ i.cur = 1
      /\ \A k \in Positions : /\ i.steps[k].state = IF k = 1 THEN "working" ELSE "pending"
                              /\ i.steps[k].approval = "none" /\ ~i.steps[k].job
  BY DEF LaunchedOn, FreshStep, StartStep
<1> HIDE DEF i
<1>3. Asks(i)
  BY <1>1, <1>2 DEF Asks, Sound, CurStep
<1>4. Shape(i)
  BY <1>1, <1>2 DEF Shape, Positions
<1>5. Open(i) /\ JobHere(i)
  BY <1>2 DEF Open, JobHere, Unsettled
<1>6. Gates(i)
  BY <1>1, <1>2, ExecutionAssumption DEF Gates, Guards, Positions
<1>. QED
  BY <1>1, <1>3, <1>4, <1>5, <1>6 DEF Facts, i

LEMMA ResumedFacts ==
  ASSUME NEW i \in Instance, Facts(i), NEW from \in Positions,
         "restart" \in Ops \/ (ResumesAt(i, from) /\ i.status = "failed")
  PROVE  Facts(ResumedFrom(i, from)) /\ ResumedFrom(i, from) \in Instance
<1> DEFINE j == ResumedFrom(i, from)
<1>1. j \in Instance /\ N \in Nat /\ i.cur \in Positions /\ from \in 1..N
  BY PlanType, StepOf, StepsAssumption DEF Positions
<1>2. /\ j.status = "running" /\ j.cur = from
      /\ \A k \in Positions :
           IF k < from THEN j.steps[k] = i.steps[k]
           ELSE /\ j.steps[k].state = IF k = from THEN "working" ELSE "pending"
                /\ j.steps[k].approval = "none" /\ ~j.steps[k].job
  BY DEF ResumedFrom, FreshStep, StartStep
<1> HIDE DEF j
<1>3. Asks(j)
  <2>1. \A k \in Positions : Sound(k, j.steps[k])
    BY <1>2 DEF Facts, Asks, Sound
  <2>2. CurStep(j).state = "working"
    BY <1>1, <1>2 DEF CurStep, Positions
  <2>. QED
    BY <1>2, <2>1, <2>2 DEF Asks
<1>4. CASE "restart" \in Ops
  BY <1>1, <1>3, <1>4 DEF Facts, CursorEvents, OpenEvents, JobEvents, j
<1>5. CASE ResumesAt(i, from) /\ i.status = "failed"
  <2>1. \A k \in Positions : k < from => i.steps[k].state = "done"
    BY <1>1, <1>5 DEF ResumesAt, Positions
  <2>2. i.cur >= from
    BY <1>1, <1>5, <2>1 DEF Facts, Asks, CurStep, Positions
  <2>3. Shape(j)
    BY <1>1, <1>2, <2>1 DEF Shape, Positions
  <2>4. \A k \in Positions : k < from => k # i.cur /\ k < i.cur
    BY <1>1, <2>2 DEF Positions
  <2>5. OpenEvents => Open(j)
    BY <1>2, <2>4 DEF Facts, Open, Unsettled
  <2>6. OpenEvents => Gates(j)
    BY <1>2, <2>4, ExecutionAssumption DEF Facts, Gates, Guards
  <2>7. JobEvents => JobHere(j)
    BY <1>2, <1>5, <2>4 DEF Facts, JobHere
  <2>. QED
    BY <1>1, <1>3, <2>3, <2>5, <2>6, <2>7 DEF Facts, j
<1>. QED
  BY <1>4, <1>5

\* Un-parking never parks, and never ends a run.
LEMMA UnblockedFacts ==
  ASSUME NEW v \in Status \ GoneStatus
  PROVE  /\ Unblocked(v) \in LiveStatus \cup EndStatus
         /\ Unblocked(v) # "blocked"
         /\ Unblocked(v) = "done" <=> v = "done"
BY DEF Unblocked, Status, LiveStatus, EndStatus, GoneStatus

\* A decision answered, on whatever step it was raised.
LEMMA AnsweredFacts ==
  ASSUME NEW i \in Instance, Facts(i), NEW k \in Positions, i.status \notin GoneStatus,
         "answer" \in Ops
  PROVE  Facts(Answered(i, k)) /\ Answered(i, k).status \notin GoneStatus
<1> DEFINE s == [StartStep(i.steps[k]) EXCEPT !.decision = "chosen"]
           v == Unblocked(i.status)
<1>1. s \in Step
  BY StepOf, StepFields
<1>2. s.state = "working" /\ s.approval = i.steps[k].approval /\ s.job = i.steps[k].job
  BY StepOf DEF StartStep, Step
<1>3. v \in LiveStatus \cup EndStatus /\ v # "blocked" /\ (v = "done" <=> i.status = "done")
  BY UnblockedFacts DEF Instance
<1>4. Edited(i, Answered(i, k), k, s, v)
  BY <1>1, <1>3, EditOf DEF Answered
<1> HIDE DEF s, v
<1>5. Sound(k, s)
  <2>1. Sound(k, i.steps[k])
    BY DEF Facts, Asks
  <2>. QED
    BY <1>2, <2>1 DEF Sound
<1>6. SentBack /\ ~CursorEvents /\ ~JobEvents
  BY DEF SentBack, CursorEvents, JobEvents
<1>7. OpenEvents /\ s.approval \in Unsettled =>
        /\ k = i.cur
        /\ i.status # "done"
        /\ k \in Gated \ Skippable /\ ~IsFinal(k)
  BY <1>2, <1>6 DEF Facts, Open
<1>8. OpenEvents /\ k \in Guards /\ k < i.cur => s.approval = "approved"
  BY <1>2 DEF Facts, Gates
<1>9. Facts(Answered(i, k))
  BY <1>1, <1>2, <1>3, <1>4, <1>5, <1>6, <1>7, <1>8, EditKeeps
<1>. QED
  BY <1>3, <1>4, <1>9 DEF Edited, LiveStatus, EndStatus, GoneStatus

\* Recorded on a step: a judge's resolution, or a rejection.
LEMMA NotedFacts ==
  ASSUME NEW i \in Instance, Facts(i), NEW k \in Positions, NEW s \in Step,
         i.status \notin GoneStatus,
         s.state = i.steps[k].state,
         s.decision = i.steps[k].decision,
         s.job = i.steps[k].job,
         \/ s.approval = i.steps[k].approval
         \/ s.approval = "rejected" /\ "reject" \in Ops /\ i.steps[k].approval = "pending"
  PROVE  Facts(WithStep(i, k, s)) /\ WithStep(i, k, s) \in Instance
<1>1. i.status \in LiveStatus \cup EndStatus
  BY DEF Instance, Status
<1>2. Edited(i, WithStep(i, k, s), k, s, i.status)
  BY <1>1, EditOf
<1>3. Sound(k, s)
  <2>1. Sound(k, i.steps[k])
    BY DEF Facts, Asks
  <2>. QED
    BY <2>1 DEF Sound
<1>4. /\ k = i.cur /\ i.status # "done" => s.state \in {"working", "waiting_decision"}
      /\ k = i.cur /\ i.status = "blocked" => s.state = "waiting_decision"
  BY DEF Facts, Asks, CurStep
<1>5. OpenEvents /\ s.approval \in Unsettled =>
        /\ k = i.cur
        /\ i.status # "done"
        /\ SentBack => k \in Gated \ Skippable /\ ~IsFinal(k)
        /\ ~SentBack => s.state = "waiting_decision" /\ ~s.job
  BY DEF Facts, Open, Unsettled
<1>6. OpenEvents /\ k \in Guards /\ k < i.cur => s.approval = "approved"
  BY DEF Facts, Gates
<1>7. JobEvents /\ i.status # "done" /\ s.job => k = i.cur /\ s.state = "working"
  BY DEF Facts, JobHere
<1>8. Facts(WithStep(i, k, s))
  BY <1>2, <1>3, <1>4, <1>5, <1>6, <1>7, EditKeeps
<1>. QED
  BY <1>2, <1>8 DEF Edited

\* An approval: the gate is under the cursor if anything says where gates are.
LEMMA ApprovedFacts ==
  ASSUME NEW i \in Instance, Facts(i), NEW k \in Positions, "approve" \in Ops,
         i.status \in LiveStatus, i.steps[k].approval \in {"pending", "changes_requested"}
  PROVE  /\ Facts(AdvanceRunPastGate(WithApproval(i, k, "approved"), k))
         /\ AdvanceRunPastGate(WithApproval(i, k, "approved"), k) \in Instance
<1> DEFINE t == [i.steps[k] EXCEPT !.approval = "approved"]
           s == FinishStep(t)
           j == AdvanceRunPastGate(WithApproval(i, k, "approved"), k)
           v == Unblocked(i.status)
<1>1. t \in Step
  BY StepOf, StepFields DEF ApprovalState
<1>2. s \in Step /\ s.state = "done" /\ s.approval = "approved" /\ s.job = i.steps[k].job
  BY StepOf DEF FinishStep, Step, StepState, ApprovalState
<1>3. v # "blocked" /\ (v = "done" <=> i.status = "done")
  BY UnblockedFacts DEF Status, LiveStatus, GoneStatus
<1>4. Passed(i, j, k, s, v)
  BY <1>1, PassOf DEF WithApproval
<1> HIDE DEF s, v, j
<1>5. Sound(k, s)
  <2>1. Sound(k, i.steps[k])
    BY DEF Facts, Asks
  <2>. QED
    BY <1>2, <2>1 DEF Sound
<1>6. CursorEvents \/ OpenEvents => OpenEvents
  BY DEF CursorEvents
<1>7. OpenEvents => k = i.cur /\ i.status # "done"
  BY DEF Facts, Open, Unsettled
<1>8. JobEvents => ~s.job
  BY <1>2, <1>6 DEF Facts, Open, Unsettled, JobEvents, CursorEvents, SentBack
<1>9. Facts(j)
  <2>1. OpenEvents => s.approval \notin Unsettled
    BY <1>2 DEF Unsettled
  <2>. QED
    BY <1>2, <1>3, <1>4, <1>5, <1>6, <1>7, <1>8, <2>1, PassKeeps
<1>. QED
  BY <1>4, <1>9 DEF Passed, j

\* Changes are requested: the step runs again, without its job.
LEMMA ChangedFacts ==
  ASSUME NEW i \in Instance, Facts(i), NEW k \in Positions, "changes" \in Ops,
         i.status \notin GoneStatus, i.steps[k].approval = "pending"
  PROVE  LET c == WithApproval(i, k, "changes_requested")
             j == [WithStep(c, k, StartStep([c.steps[k] EXCEPT !.job = FALSE]))
                     EXCEPT !.status = Unblocked(c.status)]
         IN  Facts(j) /\ j \in Instance
<1> DEFINE c == WithApproval(i, k, "changes_requested")
           t == [i.steps[k] EXCEPT !.approval = "changes_requested"]
           s == StartStep([t EXCEPT !.job = FALSE])
           v == Unblocked(i.status)
           j == [WithStep(c, k, StartStep([c.steps[k] EXCEPT !.job = FALSE]))
                   EXCEPT !.status = Unblocked(c.status)]
<1>1. t \in Step /\ s \in Step
  BY StepOf, StepFields, StepOps DEF ApprovalState
<1>2. s.state = "working" /\ s.approval = "changes_requested" /\ ~s.job
  BY StepOf DEF StartStep, Step, ApprovalState
<1>3. v \in LiveStatus \cup EndStatus /\ v # "blocked" /\ (v = "done" <=> i.status = "done")
  BY UnblockedFacts DEF Instance
<1>4. Edited(i, c, k, t, i.status)
  <2>1. i.status \in LiveStatus \cup EndStatus
    BY DEF Instance, Status
  <2>. QED
    BY <1>1, <2>1, EditOf DEF WithApproval
<1> HIDE DEF c
<1>5. c \in Instance /\ c.steps[k] = t /\ c.status = i.status /\ c.cur = i.cur
  BY <1>4 DEF Edited
<1> HIDE DEF s, t, v
<1>6. Edited(c, j, k, s, v)
  BY <1>1, <1>3, <1>5, EditOf DEF s, t, v
<1> HIDE DEF j
<1>7. Edited(i, j, k, s, v)
  BY <1>4, <1>5, <1>6 DEF Edited
<1>8. Sound(k, s)
  <2>1. Sound(k, i.steps[k])
    BY DEF Facts, Asks
  <2>. QED
    BY <1>2, <2>1 DEF Sound
<1>9. SentBack /\ ~JobEvents /\ (CursorEvents => OpenEvents)
  BY DEF SentBack, JobEvents, CursorEvents
<1>10. OpenEvents => /\ k = i.cur
                     /\ i.status # "done"
                     /\ k \in Gated \ Skippable /\ ~IsFinal(k)
  BY <1>9 DEF Facts, Open, Unsettled
<1>11. OpenEvents => ~(k < i.cur)
  BY <1>10 DEF Positions
<1>12. Facts(j)
  BY <1>1, <1>2, <1>3, <1>7, <1>8, <1>9, <1>10, <1>11, EditKeeps
<1>. QED
  BY <1>7, <1>12 DEF Edited, j, c

\* A step that waits is under the cursor of a run that is not done.
LEMMA WaitsHere ==
  ASSUME NEW i \in Instance, Facts(i), NEW k \in Positions, CursorEvents,
         i.steps[k].state = "waiting_decision"
  PROVE  k = i.cur /\ i.status # "done"
BY StepOf, StepsAssumption DEF Facts, Shape, Positions

\* A parked judge is answered "proceed".
LEMMA ProceedFacts ==
  ASSUME NEW i \in Instance, Facts(i), NEW k \in Positions, "judge" \in Ops,
         i.status \notin GoneStatus, i.steps[k].state = "waiting_decision"
  PROVE  /\ Facts(AdvanceRunPastGate(WithJudge(i, k, "settled"), k))
         /\ AdvanceRunPastGate(WithJudge(i, k, "settled"), k) \in Instance
<1> DEFINE t == [i.steps[k] EXCEPT !.judge = "settled"]
           s == FinishStep(t)
           j == AdvanceRunPastGate(WithJudge(i, k, "settled"), k)
           v == Unblocked(i.status)
<1>1. t \in Step
  BY StepOf, StepFields DEF JudgeState
<1>2. s \in Step /\ s.state = "done" /\ s.approval = i.steps[k].approval
      /\ s.job = i.steps[k].job
  BY StepOf DEF FinishStep, Step, StepState, JudgeState
<1>3. v # "blocked" /\ (v = "done" <=> i.status = "done")
  BY UnblockedFacts DEF Instance
<1>4. Passed(i, j, k, s, v)
  BY <1>1, PassOf DEF WithJudge
<1> HIDE DEF s, v, j
<1>5. Sound(k, s)
  <2>1. Sound(k, i.steps[k])
    BY DEF Facts, Asks
  <2>. QED
    BY <1>2, <2>1 DEF Sound
<1>6. ~OpenEvents
  BY DEF OpenEvents
<1>7. CursorEvents => k = i.cur /\ i.status # "done"
  BY WaitsHere
<1>8. JobEvents => ~s.job
  BY <1>2, <1>7 DEF Facts, JobHere, JobEvents
<1>9. Facts(j)
  BY <1>2, <1>3, <1>4, <1>5, <1>6, <1>7, <1>8, PassKeeps
<1>. QED
  BY <1>4, <1>9 DEF Passed, j

\* One attempt to answer a decision.
LEMMA AttemptSteps ==
  ASSUME StepsInv, TypeInv', NEW h \in Actors, NEW r \in Runs, NEW k \in Positions,
         "answer" \in Ops, AnswerAttempt(h, r, k)
  PROVE  StepsInv'
<1>1. rows[r] \in Instance /\ rows[r].status \notin GoneStatus /\ Facts(rows[r])
  BY DEF AnswerAttempt, StepsInv, TypeInv, TypeOK, Present
<1>2. Facts(Answered(rows[r], k)) /\ Answered(rows[r], k).status \notin GoneStatus
  BY <1>1, AnsweredFacts
<1>3. PICK l : l = [Idle EXCEPT !.pc = "answer", !.run = r, !.at = k, !.mem = Answered(rows[r], k)]
  OBVIOUS
<1>4. l.pc = "answer" /\ l.mem = Answered(rows[r], k)
  BY <1>3 DEF Idle
<1>5. Copies(l)
  BY <1>2, <1>4 DEF Copies, Loaded
<1>. QED
  BY <1>3, <1>5, StoreFacts, StepsMove DEF AnswerAttempt

\* A request past its first step.
LEMMA HandlerSteps ==
  ASSUME StepsInv, TypeInv', NEW h \in Actors, HandlerStep(h)
  PROVE  StepsInv'
<1>1. TypeInv /\ Copies(loc[h])
  BY DEF StepsInv
<1>2. ASSUME loc[h].pc \in Written
      PROVE  /\ Run(h) \in Runs /\ Mem(h) \in Instance /\ Facts(Mem(h))
             /\ Mem(h).status \notin GoneStatus /\ loc[h].at \in Positions
  BY <1>1, <1>2, Driving DEF In, Written, Copies, Mem, Loc
<1>3. CASE Claim(h)
  <2>1. PICK l : l = [Hold(h, "launch", Blank) EXCEPT !.mem.block = Mem(h).block]
    OBVIOUS
  <2>2. Copies(l)
    <3>1. "launch" \notin Loaded \cup Written
      BY DEF Loaded, Written
    <3>. QED
      BY <2>1, <3>1, NoCopy
  <2>3. InsertLive(Run(h), Mem(h), loc[h].replaced) /\ (Go(h, l) \/ Go(h, Idle))
    BY <1>3, <2>1 DEF Claim
  <2>4. Run(h) \in Runs /\ Mem(h) \in Instance /\ Facts(Mem(h))
    BY <1>2, <1>3 DEF Claim, In, Written
  <2>. QED
    BY <2>2, <2>3, <2>4, NoCopy, StoreFacts, StepsMove
<1>4. CASE Launch(h) \/ CancelBlock(h) \/ SettleGate(h)
  BY <1>4, NoCopy, StoreFacts, StepsMove DEF Launch, CancelBlock, SettleGate
<1>5. CASE AnswerStored(h)
  BY <1>2, <1>5, NoCopy, StoreFacts, StepsMove DEF AnswerStored, In, Written
<1>6. CASE AnswerAgain(h)
  <2>1. "answer" \in Ops /\ Run(h) \in Runs /\ loc[h].at \in Positions
    BY <1>1, <1>2, <1>6 DEF AnswerAgain, In, Copies, Written
  <2>2. CASE AnswerAttempt(h, Run(h), loc[h].at)
    BY <2>1, <2>2, AttemptSteps
  <2>3. CASE Go(h, Idle) /\ UNCHANGED rows
    BY <2>3, NoCopy, StoreFacts, StepsMove
  <2>. QED
    BY <1>6, <2>2, <2>3 DEF AnswerAgain
<1>7. CASE SendBackStored(h)
  <2> DEFINE k == loc[h].at
             i == Bounced(Mem(h), k)
             j == [i EXCEPT !.status = Unblocked(i.status)]
             v == Unblocked(Mem(h).status)
  <2>1. /\ Run(h) \in Runs /\ Mem(h) \in Instance /\ Facts(Mem(h))
        /\ Mem(h).status \notin GoneStatus /\ k \in Positions
    BY <1>2, <1>7 DEF SendBackStored, In, Written
  <2>2. BounceTarget(k)
    BY <1>1, <1>7 DEF SendBackStored, In, TypeInv, LocOK
  <2>3. "judge" \in Ops /\ (CursorEvents => k = Mem(h).cur /\ Mem(h).status # "done")
    BY <1>1, <1>7 DEF SendBackStored, In, Copies, Mem
  <2>4. v \in LiveStatus \cup EndStatus /\ v # "blocked" /\ (v = "done" <=> Mem(h).status = "done")
    BY <2>1, UnblockedFacts DEF Instance
  <2>5. i.status = Mem(h).status
    BY <2>1, <2>2, BouncedCopy
  <2>6. SentBefore(Mem(h), j, k, v)
    BY <2>1, <2>2, <2>4, <2>5, SendOf
  <2>7. ~OpenEvents
    BY <2>3 DEF OpenEvents
  <2> HIDE DEF i, j, v, k
  <2>8. Facts(j) /\ j \in Instance
    <3>1. Facts(j)
      BY <2>1, <2>2, <2>3, <2>4, <2>6, <2>7, SendKeeps
    <3>. QED
      BY <2>6, <3>1 DEF SentBefore
  <2>9. PICK l : l = [Hold(h, "rework", Blank) EXCEPT !.mem.block = i.block]
    OBVIOUS
  <2>10. Copies(l)
    <3>1. "rework" \notin Loaded \cup Written
      BY DEF Loaded, Written
    <3>. QED
      BY <2>9, <3>1, NoCopy
  <2>11. \/ CompareAndSwap(Run(h), j) /\ Go(h, l)
         \/ Go(h, Idle) /\ UNCHANGED rows
    BY <1>7, <2>9 DEF SendBackStored, i, j, k
  <2>. QED
    BY <2>1, <2>8, <2>10, <2>11, NoCopy, StoreFacts, StepsMove
<1>. QED
  BY <1>3, <1>4, <1>5, <1>6, <1>7 DEF HandlerStep

\* A run is planned, to be claimed.
LEMMA ClaimingSteps ==
  ASSUME StepsInv, TypeInv', NEW h \in Actors, NEW q, NEW i, NEW p,
         Facts(i), i.status \notin GoneStatus, Claiming(h, q, i, p), UNCHANGED rows
  PROVE  StepsInv'
<1>1. PICK l : l = [Idle EXCEPT !.pc = "claim", !.run = q, !.mem = i, !.replaced = p]
  OBVIOUS
<1>2. l.pc = "claim" /\ l.mem = i
  BY <1>1 DEF Idle
<1>3. Copies(l)
  BY <1>2 DEF Copies, Loaded
<1>. QED
  BY <1>1, <1>3, StoreFacts, StepsMove DEF Claiming

\* The first step of a request about a block.
LEMMA BlockSteps ==
  ASSUME StepsInv, TypeInv', NEW h \in Actors, NEW b \in Blocks, Start(h, b) \/ Cancel(h, b)
  PROVE  StepsInv'
<1>1. CASE Start(h, b)
  <2>1. Facts(LaunchedOn(b)) /\ LaunchedOn(b).status \notin GoneStatus
    BY LaunchedFacts, PlanType DEF GoneStatus
  <2>. QED
    BY <1>1, <2>1, ClaimingSteps DEF Start
<1>2. CASE Cancel(h, b)
  <2>1. PICK l : l = [Idle EXCEPT !.pc = "unblock", !.mem.block = b]
    OBVIOUS
  <2>2. l.pc = "unblock"
    BY <2>1 DEF Idle
  <2>3. Copies(l)
    BY <2>2, NoCopy DEF Loaded, Written
  <2>. QED
    BY <1>2, <2>1, <2>3, StoreFacts, StepsMove DEF Cancel
<1>. QED
  BY <1>1, <1>2

\* The first step of a request about a run that edits none of its steps.
LEMMA RequestSteps ==
  ASSUME StepsInv, TypeInv', NEW h \in Actors, NEW r \in Runs, NEW k \in Positions,
         Retry(h, r) \/ Restart(h, r, k) \/ Stop(h, r) \/ ResumePaused(h, r)
  PROVE  StepsInv'
<1>1. TypeInv /\ rows[r] \in Instance /\ loc \in [Actors -> Loc]
  BY DEF StepsInv, TypeInv, TypeOK
<1>2. CASE Retry(h, r)
  <2>1. PICK q \in Runs, from \in Positions :
          ResumesAt(rows[r], from) /\ Claiming(h, q, ResumedFrom(rows[r], from), r)
    BY <1>2 DEF Retry
  <2>2. rows[r].status = "failed" /\ Facts(rows[r]) /\ UNCHANGED rows
    BY <1>2 DEF Retry, StepsInv, Present, GoneStatus
  <2>3. Facts(ResumedFrom(rows[r], from)) /\ ResumedFrom(rows[r], from).status \notin GoneStatus
    BY <1>1, <2>1, <2>2, ResumedFacts, PlanType DEF GoneStatus
  <2>. QED
    BY <2>1, <2>2, <2>3, ClaimingSteps
<1>3. CASE Restart(h, r, k)
  <2>1. PICK q \in Runs : Claiming(h, q, ResumedFrom(rows[r], k), r)
    BY <1>3 DEF Restart
  <2>2. "restart" \in Ops /\ Facts(rows[r]) /\ UNCHANGED rows
    BY <1>3 DEF Restart, Request, StepsInv
  <2>3. Facts(ResumedFrom(rows[r], k)) /\ ResumedFrom(rows[r], k).status \notin GoneStatus
    BY <1>1, <2>2, ResumedFacts, PlanType DEF GoneStatus
  <2>. QED
    BY <2>1, <2>2, <2>3, ClaimingSteps
<1>4. CASE Stop(h, r)
  <2>1. PICK l : l = [Idle EXCEPT !.pc = "fail", !.run = r]
    OBVIOUS
  <2>2. l.pc = "fail"
    BY <2>1 DEF Idle
  <2>3. Copies(l)
    BY <2>2, NoCopy DEF Loaded, Written
  <2>. QED
    BY <1>4, <2>1, <2>3, StoreFacts, StepsMove DEF Stop
<1>5. CASE ResumePaused(h, r)
  <2>1. Facts(rows[r]) /\ rows[r].status = "paused"
    BY <1>5 DEF ResumePaused, StepsInv, Present, GoneStatus
  <2>2. Facts([rows[r] EXCEPT !.status = "running"])
    BY <1>1, <2>1, StatusKeeps
  <2>3. [rows[r] EXCEPT !.status = "running"] \in Instance
    BY <1>1 DEF Instance, Status, LiveStatus
  <2>4. Go(h, loc[h]) /\ Copies(loc[h])
    BY <1>1, <1>5 DEF ResumePaused, Go, StepsInv
  <2>. QED
    BY <1>5, <2>2, <2>3, <2>4, StoreFacts, StepsMove DEF ResumePaused
<1>. QED
  BY <1>2, <1>3, <1>4, <1>5

\* The first step of a person's answer.
LEMMA PersonSteps ==
  ASSUME StepsInv, TypeInv', NEW h \in Actors, NEW r \in Runs, NEW k \in Positions,
         \/ Approve(h, r, k) \/ RequestChanges(h, r, k) \/ Reject(h, r, k) \/ Answer(h, r, k)
         \/ JudgeProceed(h, r, k) \/ JudgeStop(h, r, k) \/ JudgeSendBack(h, r, k)
  PROVE  StepsInv'
<1> DEFINE i == rows[r]
<1>1. TypeInv /\ i \in Instance /\ loc \in [Actors -> Loc] /\ i.rev \in Nat
  BY DEF StepsInv, TypeInv, TypeOK, Instance
<1>2. i.status \notin GoneStatus /\ Facts(i)
  <2>1. Live(r) => Present(r)
    BY DEF Live, Present, LiveStatus, GoneStatus
  <2>2. Present(r)
    BY <2>1 DEF Approve, RequestChanges, Reject, Answer, AnswerAttempt, JudgeProceed, JudgeStop,
       JudgeSendBack, FirstAwaiting
  <2>. QED
    BY <2>2 DEF StepsInv, Present
<1>3. \A l \in {[Idle EXCEPT !.pc = "fail", !.run = r],
                [Idle EXCEPT !.pc = "settle", !.run = r, !.at = k, !.mem.block = i.block]} :
        Copies(l)
  <2>1. \A l \in {[Idle EXCEPT !.pc = "fail", !.run = r],
                  [Idle EXCEPT !.pc = "settle", !.run = r, !.at = k, !.mem.block = i.block]} :
          l.pc \in {"fail", "settle"}
    BY DEF Idle
  <2>. QED
    BY <2>1, NoCopy DEF Loaded, Written
<1>4. CASE Approve(h, r, k)
  <2>1. /\ "approve" \in Ops /\ i.status \in LiveStatus
        /\ i.steps[k].approval \in {"pending", "changes_requested"}
    BY <1>4 DEF Approve, Request, Live, Approval
  <2>2. PICK j : j = AdvanceRunPastGate(WithApproval(i, k, "approved"), k)
    OBVIOUS
  <2>3. Facts(j) /\ j \in Instance
    BY <1>1, <1>2, <2>1, <2>2, ApprovedFacts
  <2>4. Mutate(r, j) /\ ToSettle(h, r, k)
    BY <1>4, <2>2 DEF Approve
  <2>. QED
    BY <1>3, <2>3, <2>4, StoreFacts, StepsMove DEF ToSettle
<1>5. CASE RequestChanges(h, r, k)
  <2>1. "changes" \in Ops /\ i.steps[k].approval = "pending"
    BY <1>5 DEF RequestChanges, Request, Approval
  <2>2. \E j \in Instance : Facts(j) /\ Mutate(r, j)
    BY <1>1, <1>2, <1>5, <2>1, ChangedFacts DEF RequestChanges
  <2>3. Go(h, loc[h]) /\ Copies(loc[h])
    BY <1>1, <1>5 DEF RequestChanges, Go, StepsInv
  <2>. QED
    BY <2>2, <2>3, StoreFacts, StepsMove
<1>6. CASE Reject(h, r, k)
  <2> DEFINE s == [i.steps[k] EXCEPT !.approval = "rejected"]
  <2>1. "reject" \in Ops /\ i.steps[k].approval = "pending"
    BY <1>6 DEF Reject, Request, Approval
  <2>2. /\ s \in Step /\ s.state = i.steps[k].state /\ s.decision = i.steps[k].decision
        /\ s.job = i.steps[k].job /\ s.approval = "rejected"
    <3>1. i.steps[k] \in Step /\ "rejected" \in ApprovalState
      BY <1>1, StepOf DEF ApprovalState
    <3>2. s \in Step
      BY <3>1, StepFields
    <3>. QED
      BY <3>1, <3>2 DEF Step
  <2>3. Mutate(r, WithStep(i, k, s)) /\ Go(h, [Idle EXCEPT !.pc = "fail", !.run = r])
    BY <1>6 DEF Reject, WithApproval
  <2> HIDE DEF s
  <2>4. Facts(WithStep(i, k, s)) /\ WithStep(i, k, s) \in Instance
    BY <1>1, <1>2, <2>1, <2>2, NotedFacts
  <2>. QED
    BY <1>3, <2>3, <2>4, StoreFacts, StepsMove
<1>7. CASE Answer(h, r, k)
  BY <1>7, AttemptSteps DEF Answer, Request
<1>8. CASE JudgeProceed(h, r, k)
  <2>1. "judge" \in Ops /\ i.steps[k].state = "waiting_decision"
    BY <1>8 DEF JudgeProceed, Request, FirstAwaiting, AwaitsVerdict
  <2>2. PICK j : j = AdvanceRunPastGate(WithJudge(i, k, "settled"), k)
    OBVIOUS
  <2>3. Facts(j) /\ j \in Instance
    BY <1>1, <1>2, <2>1, <2>2, ProceedFacts
  <2>4. Mutate(r, j) /\ ToSettle(h, r, k)
    BY <1>8, <2>2 DEF JudgeProceed
  <2>. QED
    BY <1>3, <2>3, <2>4, StoreFacts, StepsMove DEF ToSettle
<1>9. CASE JudgeStop(h, r, k)
  <2> DEFINE s == [i.steps[k] EXCEPT !.judge = "settled"]
  <2>1. /\ s \in Step /\ s.state = i.steps[k].state /\ s.decision = i.steps[k].decision
        /\ s.job = i.steps[k].job /\ s.approval = i.steps[k].approval
    <3>1. i.steps[k] \in Step
      BY <1>1, StepOf
    <3>. QED
      BY <3>1, StepFields DEF Step, JudgeState
  <2>2. Mutate(r, WithStep(i, k, s)) /\ Go(h, [Idle EXCEPT !.pc = "fail", !.run = r])
    BY <1>9 DEF JudgeStop, WithJudge
  <2> HIDE DEF s
  <2>3. Facts(WithStep(i, k, s)) /\ WithStep(i, k, s) \in Instance
    BY <1>1, <1>2, <2>1, NotedFacts
  <2>. QED
    BY <1>3, <2>2, <2>3, StoreFacts, StepsMove
<1>10. CASE JudgeSendBack(h, r, k)
  <2>1. "judge" \in Ops /\ i.steps[k].state = "waiting_decision" /\ i.rev + 1 \in Nat
    BY <1>1, <1>10 DEF JudgeSendBack, Request, FirstAwaiting, AwaitsVerdict
  <2>2. PICK j : j = [i EXCEPT !.rev = @ + 1]
    OBVIOUS
  <2>3. Facts(j) /\ j.cur = i.cur /\ j.status = i.status
    BY <1>1, <1>2, <2>1, <2>2, RevKeeps DEF Instance
  <2>4. CursorEvents => k = i.cur /\ i.status # "done"
    BY <1>1, <1>2, <2>1, WaitsHere
  <2>5. PICK l : l = [Idle EXCEPT !.pc = "rebounce", !.run = r, !.at = k, !.mem = j]
    OBVIOUS
  <2>6. l.pc = "rebounce" /\ l.mem = j /\ l.at = k
    BY <2>5 DEF Idle
  <2>7. Copies(l)
    BY <1>2, <2>1, <2>3, <2>4, <2>6 DEF Copies, Loaded
  <2>8. Mutate(r, i) /\ Go(h, l)
    BY <1>10, <2>2, <2>5 DEF JudgeSendBack
  <2>. QED
    BY <1>1, <1>2, <2>7, <2>8, StoreFacts, StepsMove
<1>. QED
  BY <1>4, <1>5, <1>6, <1>7, <1>8, <1>9, <1>10

-----------------------------------------------------------------------------
(* The theorems.                                                            *)

LEMMA StepsNext ==
  ASSUME StepsInv, Next
  PROVE  StepsInv'
<1>1. TypeInv'
  BY NextType DEF StepsInv
<1>2. CASE \E w \in Workers, r \in Runs : DriveStart(w, r)
  <2>1. PICK w \in Workers, r \in Runs : DriveStart(w, r)
    BY <1>2
  <2>2. PICK l : l = [Idle EXCEPT !.pc = "advance", !.run = r]
    OBVIOUS
  <2>3. Copies(l)
    <3>1. l.pc = "advance"
      BY <2>2 DEF Idle
    <3>. QED
      BY <3>1, NoCopy DEF Loaded, Written
  <2>4. w \in Actors /\ Go(w, l) /\ UNCHANGED rows
    BY <2>1, <2>2 DEF Actors, DriveStart
  <2>. QED
    BY <1>1, <2>3, <2>4, StoreFacts, StepsMove
<1>3. CASE \E w \in Workers : OverBudget(w)
  BY <1>1, <1>3, DriverSteps DEF Actors
<1>4. CASE \E a \in Actors : Continue(a)
  BY <1>1, <1>4, DriverSteps, PollSteps, JudgeSteps, EndSteps, HandlerSteps
     DEF Continue, DriverStep
<1>5. CASE \E a \in Actors : Crash(a)
  BY <1>1, <1>5, EndSteps
<1>6. CASE \E h \in Handlers : HumanStep(h)
  <2>1. PICK h \in Handlers : HumanStep(h)
    BY <1>6
  <2>2. h \in Actors
    BY DEF Actors
  <2>3. CASE \E b \in Blocks : Start(h, b) \/ Cancel(h, b)
    BY <1>1, <2>2, <2>3, BlockSteps
  <2>4. CASE \E r \in Runs : Retry(h, r) \/ Stop(h, r) \/ ResumePaused(h, r)
    BY <1>1, <2>2, <2>4, RequestSteps, FirstPosition
  <2>5. CASE \E r \in Runs, k \in Positions : Restart(h, r, k)
    BY <1>1, <2>2, <2>5, RequestSteps
  <2>6. CASE \E r \in Runs, k \in Positions :
               \/ Approve(h, r, k) \/ RequestChanges(h, r, k) \/ Reject(h, r, k)
               \/ Answer(h, r, k)
               \/ JudgeProceed(h, r, k) \/ JudgeStop(h, r, k) \/ JudgeSendBack(h, r, k)
    BY <1>1, <2>2, <2>6, PersonSteps
  <2>. QED
    BY <2>1, <2>3, <2>4, <2>5, <2>6 DEF HumanStep
<1>. QED
  BY <1>2, <1>3, <1>4, <1>5, <1>6 DEF Next

\* The facts hold of every stored run and of every copy, in every reachable
\* state.
THEOREM StepsReached == Spec => []StepsInv
<1>1. Init /\ TypeInv => StepsInv
  <2> SUFFICES ASSUME Init, TypeInv PROVE StepsInv
    OBVIOUS
  <2>1. \A r \in Runs : ~Present(r)
    BY BlankType DEF Init, StoreInit, Present, GoneStatus
  <2>2. \A a \in Actors : Copies(loc[a])
    BY NoCopy DEF Init
  <2>. QED
    BY <2>1, <2>2 DEF StepsInv
<1>2. StepsInv /\ UNCHANGED vars => StepsInv'
  <2> SUFFICES ASSUME StepsInv, UNCHANGED vars PROVE StepsInv'
    OBVIOUS
  <2>1. TypeInv'
    BY DEF StepsInv, TypeInv, TypeOK, LocOK, vars, budget
  <2>2. rows' = rows /\ loc' = loc
    BY DEF vars
  <2>. QED
    BY <2>1, <2>2 DEF StepsInv, Present
<1>3. QED
  BY <1>1, <1>2, StepsNext, TypeInvariant, PTL DEF Spec

\* Live runs are present, and not done.
LEMMA LiveFacts ==
  ASSUME StepsInv, NEW r \in Runs, Live(r)
  PROVE  /\ rows[r] \in Instance
         /\ Facts(rows[r])
         /\ rows[r].status # "done"
         /\ rows[r].cur \in Positions
<1>1. Present(r) /\ rows[r].status # "done" /\ rows[r] \in Instance
  BY DEF Live, Present, LiveStatus, GoneStatus, StepsInv, TypeInv, TypeOK
<1>. QED
  BY <1>1, StepOf DEF StepsInv

\* Where no restart, no late answer and no mix of answered judges with gates
\* moves it otherwise, the cursor separates what is done from what has not
\* begun, whatever drivers and requests race.
THEOREM CursorSplits == ASSUME CursorEvents PROVE Spec => []StepsFollowCursor
<1>1. StepsInv => StepsFollowCursor
  <2> SUFFICES ASSUME StepsInv, NEW r \in Runs
               PROVE  LET i == rows[r]
                      IN  /\ Live(r) =>
                               /\ \A k \in 1..i.cur - 1 : i.steps[k].state = "done"
                               /\ CurStep(i).state \in {"working", "waiting_decision"}
                               /\ \A k \in i.cur + 1..N : i.steps[k].state = "pending"
                          /\ i.status = "done" => \A k \in Positions : i.steps[k].state = "done"
    BY DEF StepsFollowCursor
  <2>1. Live(r) => Shape(rows[r]) /\ Asks(rows[r]) /\ rows[r].status # "done"
    BY LiveFacts DEF Facts
  <2>2. rows[r].status = "done" => Shape(rows[r])
    BY DEF StepsInv, Present, GoneStatus, Facts
  <2>. QED
    BY <2>1, <2>2 DEF Shape, Asks
<1>. QED
  BY <1>1, StepsReached, PTL

\* Where moreover no step is sent back for changes and no step with a job is
\* skipped, a container's job belongs to the step under the cursor: no answer,
\* rework, eviction or lost race leaves one behind that nobody polls.
THEOREM JobsFollowCursor == ASSUME JobEvents PROVE Spec => []NoJobBehindCursor
<1>1. StepsInv => NoJobBehindCursor
  BY LiveFacts DEF NoJobBehindCursor, Facts, JobHere
<1>. QED
  BY <1>1, StepsReached, PTL

\* Where no run is restarted and no judge answered, every gate behind the
\* cursor was approved, whatever reworks, answers and duplicate requests led
\* there.
THEOREM GatesHold == ASSUME OpenEvents PROVE Spec => []GatesHonoured
<1>1. StepsInv => GatesHonoured
  BY LiveFacts DEF GatesHonoured, Facts, Gates, Guards
<1>. QED
  BY <1>1, StepsReached, PTL

\* Where nobody rejects, a blocked run shows the question that un-blocks it,
\* under any of the other requests, crashes and races: no run is parked for
\* ever.
THEOREM ParksCanBeAnswered ==
  ASSUME "reject" \notin Ops PROVE Spec => []ParkedRunIsAnswerable
<1>1. StepsInv => ParkedRunIsAnswerable
  <2> SUFFICES ASSUME StepsInv, NEW r \in Runs, rows[r].status = "blocked"
               PROVE  Question(CurStep(rows[r]))
    BY DEF ParkedRunIsAnswerable
  <2>1. Facts(rows[r]) /\ rows[r].cur \in Positions
    BY LiveFacts DEF Live, LiveStatus
  <2>2. CurStep(rows[r]).state = "waiting_decision" /\ Sound(rows[r].cur, CurStep(rows[r]))
    BY <2>1 DEF Facts, Asks, CurStep
  <2>. QED
    BY <2>2 DEF Sound, Question
<1>. QED
  BY <1>1, StepsReached, PTL
=============================================================================
