-------------------------- MODULE ExecutionProofs ---------------------------
(***************************************************************************)
(* Theorems about Execution, for every number of runs, drivers, requests,  *)
(* steps and budgets.                                                      *)
(*                                                                         *)
(* TypeOK alone is not inductive: a driver that re-reads the run it drives *)
(* needs to be driving one.  TypeInv adds that every actor past the start  *)
(* of its code names a run, and that a judge's rework has a step to go     *)
(* back to.                                                                *)
(***************************************************************************)
EXTENDS Execution, RunStepsProofs

LocOK(l) ==
  /\ l \in Loc
  /\ l.pc \notin {"idle", "unblock"} => l.run \in Runs
  /\ l.pc = "rebounce" => BounceTarget(l.at)

TypeInv ==
  /\ TypeOK
  /\ \A a \in Actors : LocOK(loc[a])

-----------------------------------------------------------------------------
(* What an actor may hold. *)

\* The records an actor moves to are well-formed.
LEMMA IdleOK == Idle \in Loc /\ LocOK(Idle)
BY BlankType, FirstPosition DEF Idle, Loc, LocOK, Pc

LEMMA HoldOK ==
  ASSUME NEW a, NEW pc \in Pc \ {"rebounce"}, NEW i \in Instance, Run(a) \in Runs
  PROVE  /\ LocOK(Hold(a, pc, i))
         /\ LocOK(Bare(a, pc))
         /\ \A n \in {"idle", "advance"} : LocOK([Hold(a, pc, i) EXCEPT !.next = n])
         /\ \A p \in Nat : /\ LocOK([Hold(a, pc, i) EXCEPT !.polls = p])
                           /\ LocOK([Bare(a, pc) EXCEPT !.polls = p])
         /\ \A b \in Blocks \cup {NoBlock} :
              /\ LocOK([Hold(a, pc, Blank) EXCEPT !.mem.block = b])
              /\ \A n \in {"idle", "advance"} :
                   LocOK([Hold(a, pc, Blank) EXCEPT !.mem.block = b, !.next = n])
<1>1. Idle \in Loc /\ LocOK(Idle)
  BY IdleOK
<1>2. Hold(a, pc, i) \in Loc /\ Hold(a, pc, i).run \in Runs /\ Hold(a, pc, i).pc # "rebounce"
  BY <1>1 DEF Hold, Loc, Idle
<1>3. /\ Bare(a, pc) \in Loc /\ LocOK(Bare(a, pc)) /\ Bare(a, pc).pc # "rebounce"
      /\ pc # "idle" => Bare(a, pc).run \in Runs
  BY <1>1 DEF Bare, Loc, Idle, LocOK
<1>4. Hold(a, pc, Blank) \in Loc /\ Hold(a, pc, Blank).run \in Runs
      /\ Hold(a, pc, Blank).pc # "rebounce"
  BY <1>1, BlankType DEF Hold, Loc, Idle
<1>5. \A b \in Blocks \cup {NoBlock} : [Blank EXCEPT !.block = b] \in Instance
  BY BlankType DEF Instance
<1>6. ASSUME NEW n \in {"idle", "advance"}
      PROVE  LocOK([Hold(a, pc, i) EXCEPT !.next = n])
  BY <1>2 DEF Loc, LocOK
<1>7. ASSUME NEW p \in Nat
      PROVE  /\ LocOK([Hold(a, pc, i) EXCEPT !.polls = p])
             /\ LocOK([Bare(a, pc) EXCEPT !.polls = p])
  BY <1>2, <1>3 DEF Loc, LocOK
<1>8. ASSUME NEW b \in Blocks \cup {NoBlock}
      PROVE  LocOK([Hold(a, pc, Blank) EXCEPT !.mem.block = b])
  <2>1. Hold(a, pc, Blank).mem = Blank
    BY DEF Hold, Idle
  <2>2. QED
    BY <1>4, <1>5, <2>1 DEF Loc, LocOK
<1>9. ASSUME NEW b \in Blocks \cup {NoBlock}, NEW n \in {"idle", "advance"}
      PROVE  LocOK([Hold(a, pc, Blank) EXCEPT !.mem.block = b, !.next = n])
  <2>1. Hold(a, pc, Blank).mem = Blank
    BY DEF Hold, Idle
  <2>2. QED
    BY <1>4, <1>5, <2>1 DEF Loc, LocOK
<1>10. QED
  BY <1>2, <1>3, <1>6, <1>7, <1>8, <1>9 DEF LocOK

\* One actor moved, the store and the board are well-typed, the counters too.
LEMMA MoveType ==
  ASSUME TypeInv, NEW a \in Actors, NEW l, LocOK(l), Go(a, l),
         rows' \in [Runs -> Instance], blocks' \in [Blocks -> BlockStatus],
         spent' \in 0..MaxOps, crashes' \in 0..MaxCrashes, reports' \in 0..MaxReports
  PROVE  TypeInv'
<1>1. loc \in [Actors -> Loc] /\ \A c \in Actors : LocOK(loc[c])
  BY DEF TypeInv, TypeOK
<1>2. loc' \in [Actors -> Loc] /\ \A c \in Actors : LocOK(loc'[c])
  BY <1>1 DEF Go, LocOK
<1>3. \A c \in Actors : LocOK(loc[c])'
  BY <1>2 DEF LocOK
<1>4. QED
  BY <1>2, <1>3 DEF TypeInv, TypeOK

\* Writing a block, whatever it was, with a status a block may have.
LEMMA BlockType ==
  ASSUME TypeInv, NEW b
  PROVE  /\ \A s \in BlockStatus : SetBlock(b, s) => blocks' \in [Blocks -> BlockStatus]
         /\ FinalizeBlock(b) => blocks' \in [Blocks -> BlockStatus]
         /\ AdvanceBlock(b) => blocks' \in [Blocks -> BlockStatus]
<1>1. blocks \in [Blocks -> BlockStatus] /\ Delivered \in BlockStatus
  BY ExecutionAssumption DEF TypeInv, TypeOK, BlockStatus
<1>2. ASSUME NEW s \in BlockStatus, SetBlock(b, s)
      PROVE  blocks' \in [Blocks -> BlockStatus]
  BY <1>1, <1>2 DEF SetBlock
<1>3. ASSUME FinalizeBlock(b)
      PROVE  blocks' \in [Blocks -> BlockStatus]
  BY <1>1, <1>3 DEF FinalizeBlock, SetBlock, BlockStatus
<1>4. ASSUME AdvanceBlock(b)
      PROVE  blocks' \in [Blocks -> BlockStatus]
  BY <1>1, <1>4 DEF AdvanceBlock, SetBlock, BlockStatus
<1>5. QED
  BY <1>2, <1>3, <1>4

\* Every statement of the store keeps the table well-typed.
LEMMA StoreType ==
  ASSUME TypeInv, NEW r, NEW i \in Instance
  PROVE  /\ CompareAndSwap(r, i) => rows' \in [Runs -> Instance]
         /\ Upsert(r, i) /\ r \in Runs => rows' \in [Runs -> Instance]
         /\ \A p : InsertLive(r, i, p) => rows' \in [Runs -> Instance]
         /\ \A b : DeleteByBlock(b) => rows' \in [Runs -> Instance]
         /\ MarkFailed(r) /\ r \in Runs => rows' \in [Runs -> Instance]
<1>1. rows \in [Runs -> Instance] /\ Deleted \in Instance
  BY BlankType DEF TypeInv, TypeOK, Deleted, Instance, Status, GoneStatus
<1>2. \A v \in Nat : [i EXCEPT !.rev = v] \in Instance
  BY DEF Instance
<1>3. i.rev \in Nat /\ i.rev + 1 \in Nat
  BY DEF Instance
<1>4. CompareAndSwap(r, i) => rows' \in [Runs -> Instance]
  BY <1>1, <1>2, <1>3 DEF CompareAndSwap
<1>5. ASSUME Upsert(r, i), r \in Runs
      PROVE  rows' \in [Runs -> Instance]
  <2>1. rows[r].rev + 1 \in Nat
    BY <1>1, <1>5 DEF Instance
  <2>2. QED
    BY <1>1, <1>2, <1>5, <2>1 DEF Upsert
<1>6. ASSUME NEW p, InsertLive(r, i, p)
      PROVE  rows' \in [Runs -> Instance]
  BY <1>1, <1>2, <1>6 DEF InsertLive
<1>7. ASSUME NEW b, DeleteByBlock(b)
      PROVE  rows' \in [Runs -> Instance]
  BY <1>1, <1>7 DEF DeleteByBlock
<1>8. ASSUME MarkFailed(r), r \in Runs
      PROVE  rows' \in [Runs -> Instance]
  <2>1. [rows[r] EXCEPT !.status = "failed", !.rev = @ + 1] \in Instance
    <3>1. rows[r] \in Instance
      BY <1>1, <1>8
    <3>2. "failed" \in Status /\ rows[r].rev + 1 \in Nat
      BY <3>1 DEF Instance, Status, EndStatus
    <3>3. QED
      BY <3>1, <3>2 DEF Instance
  <2>2. rows' = rows \/ rows' = [rows EXCEPT ![r] =
                                  [rows[r] EXCEPT !.status = "failed", !.rev = @ + 1]]
    BY <1>8 DEF MarkFailed
  <2>3. QED
    BY <1>1, <2>1, <2>2
<1>9. QED
  BY <1>4, <1>5, <1>6, <1>7, <1>8

\* What type correctness says of an actor that drives a run.
LEMMA Driving ==
  ASSUME TypeInv, NEW a \in Actors, ~In(a, "idle"), ~In(a, "unblock")
  PROVE  /\ Run(a) \in Runs
         /\ Mem(a) \in Instance
         /\ loc[a] \in Loc
         /\ rows[Run(a)] \in Instance
BY DEF TypeInv, TypeOK, LocOK, In, Run, Mem, Loc

\* The three bounded counters, untouched.
LEMMA BudgetType ==
  ASSUME TypeInv, UNCHANGED budget
  PROVE  spent' \in 0..MaxOps /\ crashes' \in 0..MaxCrashes /\ reports' \in 0..MaxReports
BY DEF TypeInv, TypeOK, budget

\* Writing a copy back, whether or not the race is lost.
LEMMA CasThenType ==
  ASSUME TypeInv, NEW w \in Actors, Run(w) \in Runs, NEW i \in Instance, NEW l, LocOK(l),
         CasThen(w, i, l), blocks' \in [Blocks -> BlockStatus],
         spent' \in 0..MaxOps, crashes' \in 0..MaxCrashes, reports' \in 0..MaxReports
  PROVE  TypeInv'
<1>1. CASE CompareAndSwap(Run(w), i) /\ Go(w, l)
  BY <1>1, StoreType, MoveType
<1>2. CASE Go(w, Bare(w, "advance")) /\ UNCHANGED rows
  <2>1. LocOK(Bare(w, "advance"))
    BY HoldOK DEF Pc, DriverPc
  <2>2. rows' \in [Runs -> Instance]
    BY <1>2 DEF TypeInv, TypeOK
  <2>3. QED
    BY <1>2, <2>1, <2>2, MoveType
<1>3. QED
  BY <1>1, <1>2 DEF CasThen

\* A block update followed by a pending write.
LEMMA BlockThenCasType ==
  ASSUME TypeInv, NEW w \in Actors, Run(w) \in Runs, NEW i \in Instance,
         NEW n \in {"idle", "advance"}, BlockThenCas(w, i, n),
         blocks' \in [Blocks -> BlockStatus], UNCHANGED budget
  PROVE  TypeInv'
<1>1. LocOK([Hold(w, "cas", i) EXCEPT !.next = n])
  BY HoldOK DEF Pc, DriverPc
<1>2. rows' \in [Runs -> Instance]
  BY DEF TypeInv, TypeOK, BlockThenCas
<1>3. QED
  BY <1>1, <1>2, MoveType, BudgetType DEF BlockThenCas

\* A step that is done.
LEMMA SettleType ==
  ASSUME TypeInv, NEW w \in Actors, Run(w) \in Runs, NEW i \in Instance,
         Settle(w, i), UNCHANGED budget
  PROVE  TypeInv'
<1>1. Settled(i) \in Instance
  BY SettledCopy DEF Copy
<1>2. blocks' \in [Blocks -> BlockStatus]
  BY BlockType DEF Settle
<1>3. PICK n \in {"idle", "advance"} : BlockThenCas(w, Settled(i), n)
  BY DEF Settle
<1>4. QED
  BY <1>1, <1>2, <1>3, BlockThenCasType

\* A step's result, however it is recorded.
LEMMA RecordType ==
  ASSUME TypeInv, NEW w \in Actors, Run(w) \in Runs, NEW i \in Instance,
         RecordStepResult(w, i), UNCHANGED budget
  PROVE  TypeInv'
<1>1. Asked(i) \in Instance /\ ParkedForApproval(i) \in Instance
  BY ParkedCopy DEF Copy
<1>2. ASSUME NEW j \in Instance, ParkAwaitingInput(w, j)
      PROVE  TypeInv'
  <2>1. blocks' \in [Blocks -> BlockStatus]
    BY <1>2, BlockType DEF ParkAwaitingInput, BlockStatus
  <2>2. QED
    BY <1>2, <2>1, BlockThenCasType DEF ParkAwaitingInput
<1>3. QED
  BY <1>1, <1>2, SettleType DEF RecordStepResult

\* The copy a driver works on once the step may proceed.
LEMMA StartedCopy ==
  ASSUME TypeInv, NEW w \in Actors, In(w, "act")
  PROVE  /\ Copy(Mem(w), Started(w))
         /\ Started(w) \in Instance
         /\ Started(w).status = "running"
         /\ Started(w).cur = Mem(w).cur
<1>1. Mem(w) \in Instance
  BY Driving DEF In
<1>2. StartStep(CurStep(Mem(w))) \in Step /\ Mem(w).cur \in Positions
  BY <1>1, StepOf, StepOps
<1> DEFINE j == WithStep(Mem(w), Mem(w).cur, StartStep(CurStep(Mem(w))))
<1>3. Copy(Mem(w), j) /\ j.cur = Mem(w).cur
  BY <1>1, <1>2, WithStepCopy
<1> HIDE DEF j
<1>4. /\ Copy(j, [j EXCEPT !.status = "running"])
      /\ [j EXCEPT !.status = "running"].status = "running"
      /\ [j EXCEPT !.status = "running"].cur = j.cur
  BY <1>3, WithStatusCopy DEF Copy, LiveStatus
<1>5. Started(w) = [j EXCEPT !.status = "running"]
  BY DEF Started, j
<1>6. QED
  BY <1>3, <1>4, <1>5, CopyTrans DEF Copy

\* Its current step replaced by another step.
LEMMA CurStepCopy ==
  ASSUME NEW i \in Instance, NEW s \in Step
  PROVE  /\ Copy(i, WithStep(i, i.cur, s))
         /\ WithStep(i, i.cur, s) \in Instance
         /\ WithStep(i, i.cur, s).status = i.status
         /\ WithStep(i, i.cur, s).cur = i.cur
BY StepOf, WithStepCopy DEF Copy

\* The field updates the engine makes to a step.
LEMMA StepFields ==
  ASSUME NEW s \in Step
  PROVE  /\ \A v \in BOOLEAN : [s EXCEPT !.job = v] \in Step
         /\ [s EXCEPT !.job = FALSE, !.evictions = @ + 1] \in Step
         /\ \A v \in JudgeState : [s EXCEPT !.judge = v] \in Step
         /\ \A v \in ApprovalState : [s EXCEPT !.approval = v] \in Step
         /\ [s EXCEPT !.bounces = @ + 1] \in Step
         /\ [StartStep(s) EXCEPT !.decision = "chosen"] \in Step
<1>1. \A v \in BOOLEAN : [s EXCEPT !.job = v] \in Step
  BY DEF Step
<1>2. s.evictions + 1 \in Nat /\ s.bounces + 1 \in Nat
  BY DEF Step
<1>3. /\ [s EXCEPT !.job = FALSE, !.evictions = @ + 1] \in Step
      /\ [s EXCEPT !.bounces = @ + 1] \in Step
  BY <1>2 DEF Step
<1>4. \A v \in JudgeState : [s EXCEPT !.judge = v] \in Step
  BY DEF Step
<1>5. \A v \in ApprovalState : [s EXCEPT !.approval = v] \in Step
  BY DEF Step
<1>6. [StartStep(s) EXCEPT !.decision = "chosen"] \in Step
  BY DEF Step, StartStep, StepState, DecisionState
<1>7. QED
  BY <1>1, <1>3, <1>4, <1>5, <1>6

-----------------------------------------------------------------------------
(* Type correctness, action by action. *)

\* A driver's step: dispatching, and everything that is not a judge.
LEMMA DriverType ==
  ASSUME TypeInv, NEW w \in Actors,
         \/ Advance(w) \/ OverBudget(w) \/ ParkAgain(w) \/ Skip(w) \/ Attach(w)
         \/ Dispatch(w) \/ DispatchFails(w) \/ AdvanceThrows(w)
         \/ InlineStart(w) \/ InlineDone(w) \/ Cas(w)
  PROVE  TypeInv'
<1> USE DEF Pc, DriverPc, FailPc
<1>1. /\ Run(w) \in Runs
      /\ Mem(w) \in Instance
      /\ rows[Run(w)] \in Instance
      /\ loc[w] \in Loc
      /\ rows \in [Runs -> Instance]
      /\ blocks \in [Blocks -> BlockStatus]
  BY Driving DEF In, TypeInv, TypeOK, Advance, OverBudget, ParkAgain, Skip, Attach, Dispatch,
     DispatchFails, AdvanceThrows, InlineStart, InlineDone, Cas, Stepping
<1>2. CurStep(Mem(w)) \in Step
  BY <1>1, StepOf
<1>3. In(w, "act") => Started(w) \in Instance /\ CurStep(Started(w)) \in Step
  BY StartedCopy, StepOf
<1>4. \A pc \in {"advance", "poll", "fail"} : LocOK(Bare(w, pc))
  BY <1>1, HoldOK
<1>5. \A v \in {"blocked", "paused"} : [Mem(w) EXCEPT !.status = v] \in Instance
  BY <1>1 DEF Instance, Status, LiveStatus
<1>6. CASE Advance(w)
  <2>1. LocOK(Hold(w, "act", rows[Run(w)])) /\ LocOK(Idle)
    BY <1>1, HoldOK, IdleOK
  <2>2. QED
    BY <1>1, <1>6, <2>1, MoveType, BudgetType DEF Advance
<1>7. CASE OverBudget(w)
  <2>1. spent' \in 0..MaxOps /\ crashes' \in 0..MaxCrashes /\ reports' \in 0..MaxReports
    BY <1>7, ExecutionAssumption DEF OverBudget, TypeInv, TypeOK
  <2>2. CASE Go(w, Idle) /\ UNCHANGED rows
    BY <1>1, <1>7, <2>1, <2>2, IdleOK, MoveType DEF OverBudget
  <2>3. CASE CasThen(w, [Mem(w) EXCEPT !.status = "paused"], Idle)
    BY <1>1, <1>5, <1>7, <2>1, <2>3, IdleOK, CasThenType DEF OverBudget
  <2>4. QED
    BY <1>7, <2>2, <2>3 DEF OverBudget
<1>8. CASE ParkAgain(w)
  BY <1>1, <1>5, <1>8, IdleOK, CasThenType, BudgetType DEF ParkAgain
<1>9. CASE Skip(w)
  BY <1>1, <1>3, <1>9, SettleType DEF Skip, Stepping
<1>10. CASE Attach(w)
  BY <1>1, <1>4, <1>10, MoveType, BudgetType DEF Attach
<1>11. CASE Dispatch(w)
  <2>1. [CurStep(Started(w)) EXCEPT !.job = TRUE] \in Step
    BY <1>3, <1>11, StepFields DEF Dispatch, Stepping
  <2>2. WithStep(Started(w), Started(w).cur, [CurStep(Started(w)) EXCEPT !.job = TRUE])
          \in Instance
    BY <1>3, <1>11, <2>1, CurStepCopy DEF Dispatch, Stepping
  <2>3. QED
    BY <1>1, <1>4, <1>11, <2>2, CasThenType, BudgetType DEF Dispatch
<1>12. CASE DispatchFails(w)
  BY <1>1, <1>3, <1>4, <1>12, CasThenType, BudgetType DEF DispatchFails, Stepping
<1>13. CASE AdvanceThrows(w)
  BY <1>1, <1>4, <1>13, MoveType, BudgetType DEF AdvanceThrows
<1>14. CASE InlineStart(w)
  <2>1. Started(w) \in Instance
    BY <1>3, <1>14 DEF InlineStart, Stepping
  <2>2. [Started(w) EXCEPT !.rev = @ + 1] \in Instance
    BY <2>1 DEF Instance
  <2>3. LocOK(Hold(w, "inline", [Started(w) EXCEPT !.rev = @ + 1]))
    BY <1>1, <2>2, HoldOK
  <2>4. QED
    BY <1>1, <1>14, <2>1, <2>3, CasThenType, BudgetType DEF InlineStart
<1>15. CASE InlineDone(w)
  BY <1>1, <1>15, RecordType DEF InlineDone
<1>16. CASE Cas(w)
  <2>1. LocOK(Bare(w, loc[w].next))
    BY <1>1, HoldOK DEF Loc
  <2>2. QED
    BY <1>1, <1>16, <2>1, CasThenType, BudgetType DEF Cas
<1>17. QED
  BY <1>6, <1>7, <1>8, <1>9, <1>10, <1>11, <1>12, <1>13, <1>14, <1>15, <1>16

\* Polling a job.
LEMMA PollType ==
  ASSUME TypeInv, NEW w \in Actors,
         \/ Poll(w) \/ PollRunning(w) \/ PollProgress(w) \/ PollExhausted(w)
         \/ PollEvicted(w) \/ PollFailed(w) \/ PollDone(w)
  PROVE  TypeInv'
<1> USE DEF Pc, DriverPc, FailPc
<1>1. /\ Run(w) \in Runs
      /\ Mem(w) \in Instance
      /\ rows[Run(w)] \in Instance
      /\ rows \in [Runs -> Instance]
      /\ blocks \in [Blocks -> BlockStatus]
      /\ loc[w].polls \in Nat /\ loc[w].polls + 1 \in Nat
  BY Driving DEF In, TypeInv, TypeOK, Poll, PollRunning, PollProgress, PollExhausted,
     PollEvicted, PollFailed, PollDone, Loc
<1>2. CurStep(Mem(w)) \in Step
  BY <1>1, StepOf
<1>3. \A pc \in {"advance", "poll", "fail"} : LocOK(Bare(w, pc))
  BY <1>1, HoldOK
<1>4. LocOK([Bare(w, "poll") EXCEPT !.polls = loc[w].polls + 1])
  BY <1>1, HoldOK
<1>5. CASE Poll(w)
  <2>1. LocOK([Hold(w, "polled", rows[Run(w)]) EXCEPT !.polls = loc[w].polls])
    BY <1>1, HoldOK
  <2>2. \E l : LocOK(l) /\ Go(w, l)
    BY <1>3, <1>5, <2>1, IdleOK DEF Poll
  <2>3. QED
    BY <1>1, <1>5, <2>2, MoveType, BudgetType DEF Poll
<1>6. CASE PollRunning(w)
  BY <1>1, <1>4, <1>6, MoveType, BudgetType DEF PollRunning
<1>7. CASE PollProgress(w)
  <2>1. spent' \in 0..MaxOps /\ crashes' \in 0..MaxCrashes /\ reports' \in 0..MaxReports
    BY <1>7, ExecutionAssumption DEF PollProgress, TypeInv, TypeOK
  <2>2. [rows[Run(w)] EXCEPT !.rev = rows[Run(w)].rev] \in Instance
    BY <1>1 DEF Instance
  <2>3. rows' \in [Runs -> Instance]
    BY <1>1, <1>7, <2>2, StoreType DEF PollProgress, Mutate
  <2>4. \E l : LocOK(l) /\ Go(w, l)
    BY <1>3, <1>4, <1>7 DEF PollProgress
  <2>5. QED
    BY <1>1, <1>7, <2>1, <2>3, <2>4, MoveType DEF PollProgress
<1>8. CASE PollExhausted(w)
  BY <1>1, <1>3, <1>8, MoveType, BudgetType DEF PollExhausted
<1>9. CASE PollEvicted(w)
  <2>1. WithStep(Mem(w), Mem(w).cur,
                 [CurStep(Mem(w)) EXCEPT !.job = FALSE, !.evictions = @ + 1]) \in Instance
    BY <1>1, <1>2, StepFields, CurStepCopy
  <2>2. \E i \in Instance : \E l : LocOK(l) /\ CasThen(w, i, l)
    BY <1>1, <1>3, <1>9, <2>1 DEF PollEvicted
  <2>3. QED
    BY <1>1, <1>9, <2>2, CasThenType, BudgetType DEF PollEvicted
<1>10. CASE PollFailed(w)
  BY <1>1, <1>3, <1>10, CasThenType, BudgetType DEF PollFailed
<1>11. CASE PollDone(w)
  <2>1. WithStep(Mem(w), Mem(w).cur, [CurStep(Mem(w)) EXCEPT !.job = FALSE]) \in Instance
    BY <1>1, <1>2, StepFields, CurStepCopy
  <2>2. QED
    BY <1>1, <1>11, <2>1, RecordType DEF PollDone
<1>12. QED
  BY <1>5, <1>6, <1>7, <1>8, <1>9, <1>10, <1>11

\* A bounce sends the copy back to the step before the judge.
LEMMA BouncedCopy ==
  ASSUME NEW i \in Instance, NEW k \in Positions, BounceTarget(k)
  PROVE  /\ Copy(i, Bounced(i, k))
         /\ Bounced(i, k).status = i.status
<1>1. k - 1 \in Positions
  BY StepsAssumption DEF BounceTarget, Positions
<1>2. [i.steps[k] EXCEPT !.judge = "settled"] \in Step
  BY StepOf, StepFields DEF JudgeState
<1> DEFINE j == WithStep(i, k, [i.steps[k] EXCEPT !.judge = "settled"])
<1>3. Copy(i, j) /\ j \in Instance /\ j.status = i.status
  BY <1>2, WithStepCopy DEF Copy
<1> HIDE DEF j
<1>4. /\ Copy(j, RerunProducerThrough(j, k - 1, k))
      /\ RerunProducerThrough(j, k - 1, k).status = j.status
  BY <1>1, <1>3, RerunCopy
<1>5. QED
  BY <1>3, <1>4, CopyTrans DEF Bounced, j

\* The judge's copies.
LEMMA JudgedCopy ==
  ASSUME NEW i \in Instance
  PROVE  /\ Copy(i, Judged(i))
         /\ Copy(i, WithStep(i, i.cur, [CurStep(i) EXCEPT !.bounces = @ + 1]))
<1>1. CurStep(i) \in Step
  BY StepOf
<1>2. /\ [CurStep(i) EXCEPT !.judge = "settled"] \in Step
      /\ [CurStep(i) EXCEPT !.bounces = @ + 1] \in Step
  BY <1>1, StepFields DEF JudgeState
<1>3. QED
  BY <1>2, CurStepCopy DEF Judged

\* A judge's verdict.
LEMMA JudgeType ==
  ASSUME TypeInv, NEW w \in Actors,
         \/ JudgePass(w) \/ JudgeFail(w) \/ JudgeBounce(w) \/ Rework(w)
         \/ JudgeCapSettled(w) \/ JudgePark(w) \/ ParkUpsert(w)
  PROVE  TypeInv'
<1> USE DEF Pc, DriverPc, FailPc
<1>1. /\ Run(w) \in Runs
      /\ Mem(w) \in Instance
      /\ loc[w] \in Loc
      /\ rows \in [Runs -> Instance]
      /\ blocks \in [Blocks -> BlockStatus]
  BY Driving DEF In, TypeInv, TypeOK, JudgePass, JudgeFail, JudgeBounce, Rework,
     JudgeCapSettled, JudgePark, ParkUpsert, Evaluating, Stepping
<1>2. In(w, "act") => /\ Started(w) \in Instance
                      /\ Judged(Started(w)) \in Instance
                      /\ Started(w).cur = Mem(w).cur
                      /\ Started(w).block \in Blocks \cup {NoBlock}
  BY StartedCopy, JudgedCopy DEF Copy, Instance
<1>3. LocOK(Bare(w, "fail"))
  BY <1>1, HoldOK
<1>4. CASE JudgePass(w)
  BY <1>1, <1>2, <1>4, RecordType DEF JudgePass, Evaluating, Stepping
<1>5. CASE JudgeFail(w)
  BY <1>1, <1>2, <1>3, <1>5, CasThenType, BudgetType DEF JudgeFail, Evaluating, Stepping
<1>6. CASE JudgeBounce(w)
  <2> DEFINE i == Started(w)
             b == WithStep(i, i.cur, [CurStep(i) EXCEPT !.bounces = @ + 1])
             l == [Hold(w, "rework", Blank) EXCEPT !.mem.block = i.block, !.next = "advance"]
  <2>1. In(w, "act") /\ i \in Instance /\ i.cur \in Positions /\ BounceTarget(i.cur)
    BY <1>1, <1>2, <1>6, StepOf DEF JudgeBounce, Evaluating, Stepping, Bounces
  <2>2. b \in Instance
    BY <2>1, JudgedCopy DEF Copy
  <2>3. Bounced(b, i.cur) \in Instance
    BY <2>1, <2>2, BouncedCopy DEF Copy
  <2>4. LocOK(l)
    BY <1>1, <1>2, <2>1, HoldOK
  <2>5. CasThen(w, Bounced(b, i.cur), l)
    BY <1>6 DEF JudgeBounce
  <2> HIDE DEF i, b, l
  <2>6. QED
    BY <1>1, <1>6, <2>3, <2>4, <2>5, CasThenType, BudgetType DEF JudgeBounce
<1>7. CASE Rework(w)
  <2>1. LocOK(Bare(w, loc[w].next))
    BY <1>1, HoldOK DEF Loc
  <2>2. blocks' \in [Blocks -> BlockStatus]
    BY <1>7, BlockType DEF Rework, BlockStatus
  <2>3. QED
    BY <1>1, <1>7, <2>1, <2>2, MoveType, BudgetType DEF Rework
<1>8. CASE JudgeCapSettled(w)
  BY <1>1, <1>2, <1>8, RecordType DEF JudgeCapSettled, Evaluating, Stepping
<1>9. CASE JudgePark(w)
  <2> DEFINE i == ParkedForApproval(Started(w))
             j == WithStep(i, i.cur, [CurStep(i) EXCEPT !.judge = "awaiting"])
  <2>1. i \in Instance
    BY <1>2, <1>9, ParkedCopy DEF JudgePark, Evaluating, Stepping, Copy
  <2>2. [CurStep(i) EXCEPT !.judge = "awaiting"] \in Step
    BY <2>1, StepOf, StepFields DEF JudgeState
  <2>3. j \in Instance
    BY <2>1, <2>2, CurStepCopy
  <2>4. LocOK(Hold(w, "upsert", j))
    BY <1>1, <2>3, HoldOK
  <2>5. Go(w, Hold(w, "upsert", j)) /\ SetBlock(i.block, "blocked")
    BY <1>9 DEF JudgePark
  <2> HIDE DEF i, j
  <2>6. blocks' \in [Blocks -> BlockStatus]
    BY <2>5, BlockType DEF BlockStatus
  <2>7. QED
    BY <1>1, <1>9, <2>4, <2>5, <2>6, MoveType, BudgetType DEF JudgePark
<1>10. CASE ParkUpsert(w)
  <2>1. rows' \in [Runs -> Instance]
    BY <1>1, <1>10, StoreType DEF ParkUpsert
  <2>2. \E l : LocOK(l) /\ Go(w, l)
    BY <1>3, <1>10, IdleOK DEF ParkUpsert
  <2>3. QED
    BY <1>1, <1>10, <2>1, <2>2, MoveType, BudgetType DEF ParkUpsert
<1>11. QED
  BY <1>4, <1>5, <1>6, <1>7, <1>8, <1>9, <1>10

\* failRun, and a crash.
LEMMA FailType ==
  ASSUME TypeInv, NEW a \in Actors, FailStep(a) \/ Crash(a)
  PROVE  TypeInv'
<1> USE DEF Pc, FailPc
<1>1. rows \in [Runs -> Instance] /\ blocks \in [Blocks -> BlockStatus]
  BY DEF TypeInv, TypeOK
<1>2. ASSUME ~In(a, "idle"), ~In(a, "unblock")
      PROVE  /\ Run(a) \in Runs
             /\ rows[Run(a)].block \in Blocks \cup {NoBlock}
             /\ \A pc \in {"mark", "reread"} : LocOK(Bare(a, pc))
             /\ LocOK([Hold(a, "failblock", Blank) EXCEPT !.mem.block = rows[Run(a)].block])
  <2>1. Run(a) \in Runs /\ rows[Run(a)].block \in Blocks \cup {NoBlock}
    BY <1>2, Driving DEF Instance
  <2>2. QED
    BY <2>1, HoldOK, BlankType
<1>3. CASE FailLoad(a)
  <2>1. \E l : LocOK(l) /\ Go(a, l)
    BY <1>2, <1>3, IdleOK DEF FailLoad, In
  <2>2. QED
    BY <1>1, <1>3, <2>1, MoveType, BudgetType DEF FailLoad
<1>4. CASE FailMark(a)
  <2>1. Run(a) \in Runs /\ LocOK(Bare(a, "reread"))
    BY <1>2, <1>4 DEF FailMark, In
  <2>2. rows' \in [Runs -> Instance]
    BY <1>4, <2>1, StoreType, BlankType DEF FailMark
  <2>3. QED
    BY <1>1, <1>4, <2>1, <2>2, MoveType, BudgetType DEF FailMark
<1>5. CASE FailReread(a)
  <2>1. \E l : LocOK(l) /\ Go(a, l)
    BY <1>2, <1>5, IdleOK DEF FailReread, In
  <2>2. QED
    BY <1>1, <1>5, <2>1, MoveType, BudgetType DEF FailReread
<1>6. CASE FailBlock(a)
  <2>1. blocks' \in [Blocks -> BlockStatus]
    BY <1>6, BlockType DEF FailBlock, BlockStatus
  <2>2. QED
    BY <1>1, <1>6, <2>1, IdleOK, MoveType, BudgetType DEF FailBlock
<1>7. CASE Crash(a)
  <2>1. spent' \in 0..MaxOps /\ crashes' \in 0..MaxCrashes /\ reports' \in 0..MaxReports
    BY <1>7, ExecutionAssumption DEF Crash, TypeInv, TypeOK
  <2>2. QED
    BY <1>1, <1>7, <2>1, IdleOK, MoveType DEF Crash
<1>8. QED
  BY <1>3, <1>4, <1>5, <1>6, <1>7 DEF FailStep

\* The records a request starts with.
LEMMA RequestOK ==
  ASSUME NEW r \in Runs, NEW b \in Blocks \cup {NoBlock}, NEW i \in Instance,
         NEW p \in Runs \cup {NoRun}, NEW k \in Positions
  PROVE  /\ LocOK([Idle EXCEPT !.pc = "advance", !.run = r])
         /\ LocOK([Idle EXCEPT !.pc = "fail", !.run = r])
         /\ LocOK([Idle EXCEPT !.pc = "claim", !.run = r, !.mem = i, !.replaced = p])
         /\ LocOK([Idle EXCEPT !.pc = "settle", !.run = r, !.at = k, !.mem.block = b])
         /\ LocOK([Idle EXCEPT !.pc = "answer", !.run = r, !.at = k, !.mem = i])
         /\ BounceTarget(k) =>
              LocOK([Idle EXCEPT !.pc = "rebounce", !.run = r, !.at = k, !.mem = i])
<1> USE DEF Pc, DriverPc, HandlerPc, FailPc
<1>1. Idle \in Loc
  BY IdleOK
<1>2. [Blank EXCEPT !.block = b] \in Instance
  BY BlankType DEF Instance
<1>3. \A pc \in {"advance", "fail"} : LocOK([Idle EXCEPT !.pc = pc, !.run = r])
  BY <1>1 DEF Loc, LocOK
<1>4. LocOK([Idle EXCEPT !.pc = "settle", !.run = r, !.at = k, !.mem.block = b])
  <2>1. Idle.mem = Blank
    BY DEF Idle
  <2>2. QED
    BY <1>1, <1>2, <2>1 DEF Loc, LocOK
<1>5. LocOK([Idle EXCEPT !.pc = "claim", !.run = r, !.mem = i, !.replaced = p])
  BY <1>1 DEF Loc, LocOK
<1>6. \A pc \in {"answer", "rebounce"} :
        pc = "answer" \/ BounceTarget(k) =>
          LocOK([Idle EXCEPT !.pc = pc, !.run = r, !.at = k, !.mem = i])
  BY <1>1 DEF Loc, LocOK
<1>7. QED
  BY <1>3, <1>4, <1>5, <1>6

\* What resolving a decision makes of the run.
LEMMA AnsweredCopy ==
  ASSUME NEW i \in Instance, NEW k \in Positions
  PROVE  /\ Copy(i, Answered(i, k))
         /\ Answered(i, k).status = Unblocked(i.status)
<1>1. [StartStep(i.steps[k]) EXCEPT !.decision = "chosen"] \in Step
  BY StepOf, StepFields
<1> DEFINE j == WithStep(i, k, [StartStep(i.steps[k]) EXCEPT !.decision = "chosen"])
<1>2. Copy(i, j) /\ j \in Instance /\ j.status = i.status
  BY <1>1, WithStepCopy DEF Copy
<1> HIDE DEF j
<1>3. /\ Copy(j, [j EXCEPT !.status = Unblocked(i.status)])
      /\ [j EXCEPT !.status = Unblocked(i.status)].status = Unblocked(i.status)
  BY <1>2, UnblockedStatus DEF Copy, Instance, LiveStatus, EndStatus, GoneStatus
<1>4. QED
  BY <1>2, <1>3, CopyTrans DEF Answered, j

\* A run un-parked by whoever answered it.
LEMMA UnblockedCopy ==
  ASSUME NEW i \in Instance
  PROVE  /\ Copy(i, [i EXCEPT !.status = Unblocked(i.status)])
         /\ [i EXCEPT !.status = Unblocked(i.status)].status = Unblocked(i.status)
BY UnblockedStatus DEF Copy, Instance, LiveStatus, EndStatus, GoneStatus

\* One attempt of resolveDecision.
LEMMA AttemptType ==
  ASSUME TypeInv, NEW h \in Actors, NEW r \in Runs, NEW k \in Positions,
         AnswerAttempt(h, r, k),
         spent' \in 0..MaxOps, crashes' \in 0..MaxCrashes, reports' \in 0..MaxReports
  PROVE  TypeInv'
<1>1. rows \in [Runs -> Instance]
  BY DEF TypeInv, TypeOK
<1>2. Answered(rows[r], k) \in Instance
  BY <1>1, AnsweredCopy DEF Copy
<1>3. LocOK([Idle EXCEPT !.pc = "answer", !.run = r, !.at = k, !.mem = Answered(rows[r], k)])
  BY <1>2, RequestOK
<1>4. blocks' \in [Blocks -> BlockStatus]
  BY BlockType DEF AnswerAttempt, BlockStatus
<1>5. QED
  BY <1>1, <1>3, <1>4, MoveType DEF AnswerAttempt

\* A handler past its first step.
LEMMA HandlerType ==
  ASSUME TypeInv, NEW h \in Actors, HandlerStep(h)
  PROVE  TypeInv'
<1> USE DEF Pc, DriverPc, HandlerPc
<1>1. /\ rows \in [Runs -> Instance]
      /\ blocks \in [Blocks -> BlockStatus]
      /\ loc[h] \in Loc
      /\ Mem(h) \in Instance
      /\ Mem(h).block \in Blocks \cup {NoBlock}
      /\ loc[h].at \in Positions
  BY DEF TypeInv, TypeOK, Loc, Instance, Mem
<1>2. ~In(h, "idle") /\ ~In(h, "unblock") => Run(h) \in Runs
  BY Driving
<1>3. CASE Claim(h)
  <2>1. Run(h) \in Runs
    BY <1>2, <1>3 DEF Claim, In
  <2>2. \E l : LocOK(l) /\ Go(h, l)
    BY <1>1, <1>3, <2>1, HoldOK, IdleOK DEF Claim
  <2>3. QED
    BY <1>1, <1>3, <2>2, StoreType, MoveType, BudgetType DEF Claim
<1>4. CASE Launch(h) \/ CancelBlock(h)
  <2>1. blocks' \in [Blocks -> BlockStatus]
    BY <1>4, BlockType DEF Launch, CancelBlock, BlockStatus
  <2>2. QED
    BY <1>1, <1>4, <2>1, IdleOK, MoveType, BudgetType DEF Launch, CancelBlock
<1>5. CASE SettleGate(h)
  <2>1. blocks' \in [Blocks -> BlockStatus]
    BY <1>5, BlockType DEF SettleGate
  <2>2. QED
    BY <1>1, <1>5, <2>1, IdleOK, MoveType, BudgetType DEF SettleGate
<1>6. CASE AnswerStored(h)
  BY <1>1, <1>6, IdleOK, StoreType, MoveType, BudgetType DEF AnswerStored
<1>7. CASE AnswerAgain(h)
  <2>1. Run(h) \in Runs
    BY <1>2, <1>7 DEF AnswerAgain, In
  <2>2. CASE AnswerAttempt(h, Run(h), loc[h].at)
    BY <1>1, <1>7, <2>1, <2>2, AttemptType, BudgetType DEF AnswerAgain
  <2>3. CASE Go(h, Idle) /\ UNCHANGED <<rows, blocks>>
    BY <1>1, <1>7, <2>3, IdleOK, MoveType, BudgetType DEF AnswerAgain
  <2>4. QED
    BY <1>7, <2>2, <2>3 DEF AnswerAgain
<1>8. CASE SendBackStored(h)
  <2> DEFINE i == Bounced(Mem(h), loc[h].at)
             j == [i EXCEPT !.status = Unblocked(i.status)]
  <2>1. Run(h) \in Runs
    BY <1>2, <1>8 DEF SendBackStored, In
  <2>2. CASE Go(h, Idle) /\ UNCHANGED rows
    BY <1>1, <1>8, <2>2, IdleOK, MoveType, BudgetType DEF SendBackStored
  <2>3. CASE CompareAndSwap(Run(h), j)
             /\ Go(h, [Hold(h, "rework", Blank) EXCEPT !.mem.block = i.block])
    <3>1. BounceTarget(loc[h].at)
      BY <1>8 DEF SendBackStored, In, TypeInv, LocOK
    <3>2. i \in Instance
      BY <1>1, <3>1, BouncedCopy DEF Copy
    <3>3. j \in Instance /\ i.block \in Blocks \cup {NoBlock}
      BY <3>2, UnblockedCopy DEF Copy, Instance
    <3>4. LocOK([Hold(h, "rework", Blank) EXCEPT !.mem.block = i.block])
      BY <2>1, <3>3, HoldOK, BlankType
    <3>5. QED
      BY <1>1, <1>8, <2>3, <3>3, <3>4, StoreType, MoveType, BudgetType DEF SendBackStored
  <2>4. QED
    BY <1>8, <2>2, <2>3 DEF SendBackStored
<1>9. QED
  BY <1>3, <1>4, <1>5, <1>6, <1>7, <1>8 DEF HandlerStep

\* A request's edit of the stored run, whatever the copy the caller builds.
LEMMA MutateType ==
  ASSUME TypeInv, NEW r, NEW i \in Instance, Mutate(r, i), rows[r].rev \in Nat
  PROVE  rows' \in [Runs -> Instance]
<1>1. [i EXCEPT !.rev = rows[r].rev] \in Instance
  BY DEF Instance
<1>2. QED
  BY <1>1, StoreType DEF Mutate

\* A person's answer as an edit of the run it is about.
LEMMA EditType ==
  ASSUME NEW i \in Instance, NEW k \in Positions
  PROVE  /\ \A v \in ApprovalState : Copy(i, WithApproval(i, k, v))
         /\ \A v \in JudgeState : Copy(i, WithJudge(i, k, v))
BY StepOf, StepFields, WithStepCopy DEF WithApproval, WithJudge

\* requestStepChanges: the step restarts without a job.
LEMMA ChangesCopy ==
  ASSUME NEW i \in Instance, NEW k \in Positions
  PROVE  LET c == WithApproval(i, k, "changes_requested")
         IN  Copy(i, [WithStep(c, k, StartStep([c.steps[k] EXCEPT !.job = FALSE]))
                        EXCEPT !.status = Unblocked(c.status)])
<1> DEFINE c == WithApproval(i, k, "changes_requested")
<1>1. Copy(i, c) /\ c \in Instance
  BY EditType DEF Copy, ApprovalState
<1> HIDE DEF c
<1>2. StartStep([c.steps[k] EXCEPT !.job = FALSE]) \in Step
  BY <1>1, StepOf, StepFields, StepOps
<1> DEFINE j == WithStep(c, k, StartStep([c.steps[k] EXCEPT !.job = FALSE]))
<1>3. Copy(c, j) /\ j \in Instance /\ j.status = c.status
  BY <1>1, <1>2, WithStepCopy DEF Copy
<1> HIDE DEF j
<1>4. Copy(j, [j EXCEPT !.status = Unblocked(c.status)])
  BY <1>3, UnblockedCopy
<1>5. Copy(i, [j EXCEPT !.status = Unblocked(c.status)])
  BY <1>1, <1>3, <1>4, CopyTrans
<1>6. QED
  BY <1>5 DEF c, j

\* A request begins: at most one counter moves.
LEMMA RequestType ==
  ASSUME TypeInv, NEW h, NEW op, Request(h, op)
  PROVE  spent' \in 0..MaxOps /\ crashes' \in 0..MaxCrashes /\ reports' \in 0..MaxReports
BY ExecutionAssumption DEF Request, TypeInv, TypeOK

\* Requests about a block.
LEMMA BlockRequestType ==
  ASSUME TypeInv, NEW h \in Actors, NEW b \in Blocks, Start(h, b) \/ Cancel(h, b)
  PROVE  TypeInv'
<1>1. rows \in [Runs -> Instance] /\ blocks \in [Blocks -> BlockStatus]
  BY DEF TypeInv, TypeOK
<1>2. spent' \in 0..MaxOps /\ crashes' \in 0..MaxCrashes /\ reports' \in 0..MaxReports
  BY RequestType DEF Start, Cancel
<1>3. CASE Start(h, b)
  <2>1. PICK r \in Runs, p \in Runs \cup {NoRun} : Claiming(h, r, LaunchedOn(b), p)
    BY <1>3 DEF Start, OnBlock
  <2>2. LocOK([Idle EXCEPT !.pc = "claim", !.run = r, !.mem = LaunchedOn(b), !.replaced = p])
    BY PlanType, RequestOK, FirstPosition
  <2>3. QED
    BY <1>1, <1>2, <1>3, <2>1, <2>2, MoveType DEF Start, Claiming
<1>4. CASE Cancel(h, b)
  <2>1. LocOK([Idle EXCEPT !.pc = "unblock", !.mem.block = b])
    <3>1. Idle \in Loc /\ Idle.mem = Blank
      BY IdleOK DEF Idle
    <3>2. [Blank EXCEPT !.block = b] \in Instance
      BY BlankType DEF Instance
    <3>3. QED
      BY <3>1, <3>2 DEF Loc, LocOK, Pc, HandlerPc
  <2>2. rows' \in [Runs -> Instance]
    BY <1>4, StoreType, BlankType DEF Cancel
  <2>3. QED
    BY <1>1, <1>2, <1>4, <2>1, <2>2, MoveType DEF Cancel
<1>5. QED
  BY <1>3, <1>4

\* Requests about a run, or about one of its steps.
LEMMA RunRequestType ==
  ASSUME TypeInv, NEW h \in Actors, NEW r \in Runs, NEW k \in Positions,
         \/ Retry(h, r) \/ Stop(h, r) \/ ResumePaused(h, r) \/ Restart(h, r, k)
         \/ Approve(h, r, k) \/ RequestChanges(h, r, k) \/ Reject(h, r, k)
         \/ Answer(h, r, k)
         \/ JudgeProceed(h, r, k) \/ JudgeStop(h, r, k) \/ JudgeSendBack(h, r, k)
  PROVE  TypeInv'
<1>1. /\ rows \in [Runs -> Instance]
      /\ blocks \in [Blocks -> BlockStatus]
      /\ loc[h] \in Loc /\ LocOK(loc[h])
      /\ loc \in [Actors -> Loc]
      /\ rows[r].rev \in Nat
      /\ rows[r].block \in Blocks \cup {NoBlock}
      /\ rows[r] \in Instance
  BY DEF TypeInv, TypeOK, Instance
<1>2. spent' \in 0..MaxOps /\ crashes' \in 0..MaxCrashes /\ reports' \in 0..MaxReports
  BY RequestType DEF Retry, Stop, ResumePaused, Restart, Approve, RequestChanges, Reject,
     Answer, JudgeProceed, JudgeStop, JudgeSendBack
<1>3. /\ LocOK([Idle EXCEPT !.pc = "fail", !.run = r])
      /\ LocOK([Idle EXCEPT !.pc = "settle", !.run = r, !.at = k,
                            !.mem.block = rows[r].block])
  BY <1>1, RequestOK
<1>4. ASSUME NEW q \in Runs, NEW from \in Positions, Claiming(h, q, ResumedFrom(rows[r], from), r),
             UNCHANGED <<rows, blocks>>
      PROVE  TypeInv'
  <2>1. LocOK([Idle EXCEPT !.pc = "claim", !.run = q,
                           !.mem = ResumedFrom(rows[r], from), !.replaced = r])
    BY <1>1, PlanType, RequestOK
  <2>2. QED
    BY <1>1, <1>2, <1>4, <2>1, MoveType DEF Claiming
<1>5. CASE Retry(h, r)
  BY <1>4, <1>5 DEF Retry
<1>6. CASE Restart(h, r, k)
  BY <1>4, <1>6 DEF Restart
<1>7. CASE Stop(h, r)
  BY <1>1, <1>2, <1>3, <1>7, MoveType DEF Stop
<1>8. CASE ResumePaused(h, r)
  <2>1. [rows[r] EXCEPT !.status = "running"] \in Instance
    BY <1>1 DEF Instance, Status, LiveStatus
  <2>2. Go(h, loc[h])
    BY <1>1, <1>8 DEF ResumePaused, Go
  <2>3. QED
    BY <1>1, <1>2, <1>8, <2>1, <2>2, StoreType, MoveType DEF ResumePaused
<1>9. CASE Approve(h, r, k)
  <2>1. AdvanceRunPastGate(WithApproval(rows[r], k, "approved"), k) \in Instance
    BY <1>1, EditType, AdvancePastCopy DEF Copy, ApprovalState
  <2>2. QED
    BY <1>1, <1>2, <1>3, <1>9, <2>1, MutateType, MoveType DEF Approve, ToSettle
<1>10. CASE RequestChanges(h, r, k)
  <2>1. \E i \in Instance : Mutate(r, i)
    BY <1>1, <1>10, ChangesCopy DEF RequestChanges, Copy
  <2>2. Go(h, loc[h])
    BY <1>1, <1>10 DEF RequestChanges, Go
  <2>3. QED
    BY <1>1, <1>2, <1>10, <2>1, <2>2, MutateType, MoveType DEF RequestChanges
<1>11. CASE Reject(h, r, k)
  <2>1. WithApproval(rows[r], k, "rejected") \in Instance
    BY <1>1, EditType DEF Copy, ApprovalState
  <2>2. QED
    BY <1>1, <1>2, <1>3, <1>11, <2>1, MutateType, MoveType DEF Reject
<1>12. CASE Answer(h, r, k)
  BY <1>2, <1>12, AttemptType DEF Answer
<1>13. CASE JudgeProceed(h, r, k)
  <2>1. AdvanceRunPastGate(WithJudge(rows[r], k, "settled"), k) \in Instance
    BY <1>1, EditType, AdvancePastCopy DEF Copy, JudgeState
  <2>2. QED
    BY <1>1, <1>2, <1>3, <1>13, <2>1, MutateType, MoveType DEF JudgeProceed, ToSettle
<1>14. CASE JudgeStop(h, r, k)
  <2>1. WithJudge(rows[r], k, "settled") \in Instance
    BY <1>1, EditType DEF Copy, JudgeState
  <2>2. QED
    BY <1>1, <1>2, <1>3, <1>14, <2>1, MutateType, MoveType DEF JudgeStop
<1>15. CASE JudgeSendBack(h, r, k)
  <2>1. [rows[r] EXCEPT !.rev = @ + 1] \in Instance
    BY <1>1 DEF Instance
  <2>2. LocOK([Idle EXCEPT !.pc = "rebounce", !.run = r, !.at = k,
                           !.mem = [rows[r] EXCEPT !.rev = @ + 1]])
    BY <1>15, <2>1, RequestOK, FirstPosition DEF JudgeSendBack
  <2>3. QED
    BY <1>1, <1>2, <1>15, <2>2, MutateType, MoveType DEF JudgeSendBack
<1>16. QED
  BY <1>5, <1>6, <1>7, <1>8, <1>9, <1>10, <1>11, <1>12, <1>13, <1>14, <1>15

\* Every step of the engine keeps the state well-typed.
LEMMA NextType ==
  ASSUME TypeInv, Next
  PROVE  TypeInv'
<1>1. CASE \E w \in Workers, r \in Runs : DriveStart(w, r)
  <2>1. PICK w \in Workers, r \in Runs : DriveStart(w, r)
    BY <1>1
  <2>2. LocOK([Idle EXCEPT !.pc = "advance", !.run = r])
    BY FirstPosition, IdleOK DEF Loc, LocOK, Pc, DriverPc
  <2>3. w \in Actors /\ rows' \in [Runs -> Instance] /\ blocks' \in [Blocks -> BlockStatus]
    BY <2>1 DEF Actors, DriveStart, TypeInv, TypeOK
  <2>4. QED
    BY <2>1, <2>2, <2>3, MoveType, BudgetType DEF DriveStart
<1>2. CASE \E w \in Workers : OverBudget(w)
  BY <1>2, DriverType DEF Actors
<1>3. CASE \E a \in Actors : Continue(a)
  BY <1>3, DriverType, PollType, JudgeType, FailType, HandlerType DEF Continue, DriverStep
<1>4. CASE \E a \in Actors : Crash(a)
  BY <1>4, FailType
<1>5. CASE \E h \in Handlers : HumanStep(h)
  BY <1>5, BlockRequestType, RunRequestType, FirstPosition DEF HumanStep, Actors
<1>6. QED
  BY <1>1, <1>2, <1>3, <1>4, <1>5 DEF Next

\* The type invariant and its strengthening hold in every reachable state: a
\* driver always drives a run, and no rework is sent to a step before the first.
THEOREM TypeInvariant == Spec => []TypeInv
<1>1. Init => TypeInv
  <2> SUFFICES ASSUME Init PROVE TypeInv
    OBVIOUS
  <2>1. rows \in [Runs -> Instance]
    BY BlankType DEF Init, StoreInit
  <2>2. loc \in [Actors -> Loc] /\ \A a \in Actors : LocOK(loc[a])
    BY IdleOK DEF Init
  <2>3. blocks \in [Blocks -> BlockStatus]
    BY DEF Init, BlockStatus
  <2>4. spent \in 0..MaxOps /\ crashes \in 0..MaxCrashes /\ reports \in 0..MaxReports
    BY ExecutionAssumption DEF Init
  <2>5. QED
    BY <2>1, <2>2, <2>3, <2>4 DEF TypeInv, TypeOK
<1>2. TypeInv /\ UNCHANGED vars => TypeInv'
  BY DEF TypeInv, TypeOK, LocOK, vars, budget
<1>3. QED
  BY <1>1, <1>2, NextType, PTL DEF Spec

\* TypeOK, for every number of runs, actors, steps and budgets.
THEOREM TypeCorrect == Spec => []TypeOK
<1>1. TypeInv => TypeOK
  BY DEF TypeInv
<1>2. QED
  BY <1>1, TypeInvariant, PTL

=============================================================================
