-------------------------- MODULE ExecutionSafety ---------------------------
(***************************************************************************)
(* Why a stale copy can do no harm, for pipelines whose judges never park  *)
(* a run for a person: the revision a driver loaded is never ahead of the  *)
(* stored one, and as long as they are equal the row is still the live run *)
(* the driver loaded.  A claim is the only way into the table, on an id    *)
(* nobody else holds.                                                      *)
(*                                                                         *)
(* A judge that parks writes with an upsert, which looks at no revision:   *)
(* with one, EndedStaysEnded is false.                                     *)
(***************************************************************************)
EXTENDS ExecutionProofs

\* The hypothesis of the theorems: no step of the pipeline parks on a judge.
JudgesNeverPark ==
  /\ Judges \subseteq FailJudges
  /\ "judge" \notin Ops

\* Where an actor holds a copy it will write back under its revision; the
\* last two hold an answer to a run that may have ended.
DriverHolds == {"act", "inline", "polled", "cas"}
AnswerHolds == {"answer", "rebounce"}

\* The copy l.mem against the stored run.
Fits(l) ==
  /\ l.mem.status \notin GoneStatus
  /\ Present(l.run) =>
       /\ l.mem.block = rows[l.run].block
       /\ l.mem.rev <= rows[l.run].rev
       /\ l.mem.rev = rows[l.run].rev =>
            /\ l.pc \in DriverHolds => Live(l.run)
            /\ rows[l.run].status \in EndStatus => l.mem.status = rows[l.run].status

\* What an actor's record says of the stored runs.
Held(l) ==
  /\ l.pc # "upsert"
  /\ l.pc \notin {"idle", "unblock", "claim"} => rows[l.run].status # "unborn"
  /\ l.pc \in DriverHolds \cup AnswerHolds => Fits(l)
  /\ l.pc = "claim" => /\ rows[l.run].status = "unborn"
                       /\ l.mem.status = "running"
                       /\ l.mem.block \in Blocks

\* One stored run per block, live or not.
OnePerBlock ==
  /\ \A r, o \in Runs :
       Present(r) /\ Present(o) /\ rows[r].block = rows[o].block => r = o
  /\ \A r \in Runs : rows[r].block # NoBlock <=> Present(r)

UniqueClaims ==
  \A a, c \in Actors :
    In(a, "claim") /\ In(c, "claim") /\ Run(a) = Run(c) => a = c

SafeInv ==
  /\ OnePerBlock
  /\ \A a \in Actors : Held(loc[a])
  /\ UniqueClaims

\* What one stored run may become in a step that claims nothing.
RowStep(i, j) ==
  \/ j = i
  \/ /\ i.status \notin GoneStatus
     /\ j.status \notin GoneStatus
     /\ j.rev = i.rev + 1
     /\ j.block = i.block
     /\ i.status \in EndStatus => j.status = i.status
  \/ /\ i.status \notin GoneStatus
     /\ j = Deleted

RowsStep == \A r \in Runs : RowStep(rows[r], rows'[r])

\* A step that claims nothing, and keeps the invariant.
SafeStep == RowsStep /\ SafeInv'

-----------------------------------------------------------------------------
(* What a step of the rows leaves true. *)

\* Deleted and unborn rows are told apart, and neither is present.
LEMMA DeletedRow ==
  /\ Deleted.status = "deleted"
  /\ Deleted.block = NoBlock
  /\ Deleted.status \in GoneStatus
BY DEF Deleted, Blank, GoneStatus

\* A record stays true of a row that moved under it: a write makes its copy
\* stale, a deletion leaves nothing to write to.
LEMMA HeldStable ==
  ASSUME TypeInv, NEW l, LocOK(l), Held(l), l.run \in Runs,
         RowStep(rows[l.run], rows'[l.run])
  PROVE  Held(l)'
<1> DEFINE i == rows[l.run]
           j == rows'[l.run]
<1>1. i \in Instance /\ i.rev \in Nat /\ l.mem \in Instance /\ l.mem.rev \in Nat
  BY DEF TypeInv, TypeOK, LocOK, Loc, Instance
<1>2. i.status # "unborn" => j.status # "unborn"
  BY DeletedRow DEF RowStep, GoneStatus
<1>3. i.status = "unborn" => j = i
  BY DEF RowStep, GoneStatus
<1>4. ASSUME Fits(l)
      PROVE  Fits(l)'
  <2>1. CASE j = i
    BY <1>4, <2>1 DEF Fits, Present, Live
  <2>2. CASE /\ i.status \notin GoneStatus
             /\ j.rev = i.rev + 1
             /\ j.block = i.block
    BY <1>1, <1>4, <2>2 DEF Fits, Present, Live
  <2>3. CASE j = Deleted
    BY <1>4, <2>3, DeletedRow DEF Fits, Present
  <2>4. QED
    BY <2>1, <2>2, <2>3 DEF RowStep
<1>5. QED
  BY <1>2, <1>3, <1>4 DEF Held

\* One run per block, as long as nothing is claimed.
LEMMA OnePerBlockStable ==
  ASSUME TypeInv, OnePerBlock, RowsStep
  PROVE  OnePerBlock'
<1>1. ASSUME NEW r \in Runs
      PROVE  /\ Present(r)' => Present(r) /\ rows'[r].block = rows[r].block
             /\ rows'[r].block # NoBlock <=> Present(r)'
  <2>1. RowStep(rows[r], rows'[r])
    BY DEF RowsStep
  <2>2. QED
    BY <2>1, DeletedRow DEF RowStep, Present, OnePerBlock
<1>2. QED
  BY <1>1 DEF OnePerBlock

\* One actor moved to a record that is true, over rows that moved.
LEMMA MoveSafe ==
  ASSUME TypeInv, SafeInv, NEW a \in Actors, NEW l, Go(a, l), RowsStep, Held(l)',
         l.pc = "claim" => Fresh(l.run)
  PROVE  SafeStep
<1>1. loc \in [Actors -> Loc] /\ loc' = [loc EXCEPT ![a] = l]
  BY DEF TypeInv, TypeOK, Go
<1>2. OnePerBlock'
  BY OnePerBlockStable DEF SafeInv
<1>3. ASSUME NEW c \in Actors, c # a
      PROVE  Held(loc[c])'
  <2>1. LocOK(loc[c]) /\ Held(loc[c]) /\ loc'[c] = loc[c]
    BY <1>1, <1>3 DEF TypeInv, SafeInv
  <2> DEFINE m == loc[c]
  <2>2. Held(m) /\ LocOK(m)
    BY <2>1
  <2>3. CASE m.pc \in {"idle", "unblock"}
    <3>1. loc'[c].pc \in {"idle", "unblock"}
      BY <2>1, <2>3
    <3>2. QED
      BY <3>1 DEF Held, DriverHolds, AnswerHolds
  <2>4. CASE m.pc \notin {"idle", "unblock"}
    <3>1. m.run \in Runs
      BY <2>2, <2>4 DEF LocOK
    <3>2. RowStep(rows[m.run], rows'[m.run])
      BY <3>1 DEF RowsStep
    <3> HIDE DEF m
    <3>3. \A x : x = m => Held(x)'
      <4> TAKE x
      <4> HAVE x = m
      <4>1. LocOK(x) /\ Held(x) /\ x.run \in Runs /\ RowStep(rows[x.run], rows'[x.run])
        BY <2>2, <3>1, <3>2
      <4>2. QED
        BY <4>1, HeldStable
    <3>4. loc'[c] = m
      BY <2>1 DEF m
    <3>5. QED
      BY <3>3, <3>4 DEF Held, Fits, Present, Live
  <2>5. QED
    BY <2>3, <2>4
<1>4. Held(loc[a])'
  <2>1. loc'[a] = l
    BY <1>1
  <2>2. QED
    BY <2>1 DEF Held, Fits, Present, Live
<1>5. UniqueClaims'
  BY <1>1 DEF UniqueClaims, SafeInv, In, Run, Fresh
<1>6. QED
  BY <1>2, <1>3, <1>4, <1>5 DEF SafeInv, SafeStep

-----------------------------------------------------------------------------
(* The statements of the store, as steps of the rows. *)

\* A swap that keeps the block, and the status of a run that ended.
LEMMA SwapStep ==
  ASSUME TypeInv, NEW r \in Runs, NEW i, CompareAndSwap(r, i),
         i \in Instance, i.block = rows[r].block, i.status \notin GoneStatus,
         rows[r].status \in EndStatus => i.status = rows[r].status
  PROVE  RowsStep
<1>1. /\ rows \in [Runs -> Instance]
      /\ Present(r) /\ rows[r].rev = i.rev
      /\ rows' = [rows EXCEPT ![r] = [i EXCEPT !.rev = i.rev + 1]]
  BY DEF TypeInv, TypeOK, CompareAndSwap, Swappable
<1> DEFINE j == [i EXCEPT !.rev = i.rev + 1]
<1>2. j.rev = i.rev + 1 /\ j.block = i.block /\ j.status = i.status
  BY DEF Instance
<1> HIDE DEF j
<1>3. rows' = [rows EXCEPT ![r] = j]
  BY <1>1 DEF j
<1>4. QED
  BY <1>1, <1>2, <1>3 DEF RowsStep, RowStep, Present

\* An edit made on the stored run.
LEMMA MutateStep ==
  ASSUME TypeInv, NEW r \in Runs, NEW i, Mutate(r, i), Copy(rows[r], i),
         rows[r].status \in EndStatus => i.status = rows[r].status
  PROVE  RowsStep
<1> DEFINE j == [i EXCEPT !.rev = rows[r].rev]
<1>1. i \in Instance /\ rows[r] \in Instance
  BY DEF Copy, TypeInv, TypeOK
<1>2. j \in Instance /\ j.block = i.block /\ j.status = i.status
  BY <1>1 DEF Instance
<1>3. CompareAndSwap(r, j) /\ Present(r)
  BY DEF Mutate, CompareAndSwap, Swappable
<1> HIDE DEF j
<1>4. j.block = rows[r].block /\ j.status \notin GoneStatus
  BY <1>2, <1>3 DEF Copy, Present
<1>5. QED
  BY <1>2, <1>3, <1>4, SwapStep

\* A driver's copy, written back: the revisions are equal, so the row is live.
LEMMA DriverSwapStep ==
  ASSUME TypeInv, SafeInv, NEW w \in Actors, loc[w].pc \in DriverHolds,
         NEW i, Copy(Mem(w), i), CompareAndSwap(Run(w), i)
  PROVE  RowsStep
<1>1. Run(w) \in Runs
  BY Driving DEF In, DriverHolds
<1>2. Fits(loc[w])
  BY DEF SafeInv, Held
<1>3. /\ i \in Instance
      /\ i.rev = Mem(w).rev
      /\ i.block = Mem(w).block
      /\ i.status \notin GoneStatus
  BY <1>2 DEF Copy, Fits, Mem
<1>4. Present(Run(w)) /\ rows[Run(w)].rev = i.rev
  BY DEF CompareAndSwap, Swappable
<1>5. i.block = rows[Run(w)].block /\ Live(Run(w))
  BY <1>2, <1>3, <1>4 DEF Fits, Run, Mem
<1>6. rows[Run(w)].status \notin EndStatus
  BY <1>5 DEF Live, LiveStatus, EndStatus
<1>7. QED
  BY <1>1, <1>3, <1>5, <1>6, SwapStep

\* An answer's copy, written back: an ended run keeps its end.
LEMMA AnswerSwapStep ==
  ASSUME TypeInv, SafeInv, NEW h \in Actors, loc[h].pc \in AnswerHolds,
         NEW i, Copy(Mem(h), i), i.status = Mem(h).status \/ i.status = Unblocked(Mem(h).status),
         CompareAndSwap(Run(h), i)
  PROVE  RowsStep
<1>1. Run(h) \in Runs /\ Mem(h).status \in Status
  BY Driving DEF In, AnswerHolds, Instance
<1>2. Fits(loc[h])
  BY DEF SafeInv, Held
<1>3. /\ i \in Instance
      /\ i.rev = Mem(h).rev
      /\ i.block = Mem(h).block
      /\ i.status \notin GoneStatus
  BY <1>2 DEF Copy, Fits, Mem
<1>4. Present(Run(h)) /\ rows[Run(h)].rev = i.rev
  BY DEF CompareAndSwap, Swappable
<1>5. /\ i.block = rows[Run(h)].block
      /\ rows[Run(h)].status \in EndStatus => Mem(h).status = rows[Run(h)].status
  BY <1>2, <1>3, <1>4 DEF Fits, Run, Mem
<1>6. rows[Run(h)].status \in EndStatus => i.status = rows[Run(h)].status
  BY <1>1, <1>5, UnblockedStatus
<1>7. QED
  BY <1>1, <1>3, <1>5, <1>6, SwapStep

\* The writes that look at the stored run alone, and a cancel's deletion.
LEMMA StoreStep ==
  ASSUME TypeInv
  PROVE  /\ UNCHANGED rows => RowsStep
         /\ \A r \in Runs : MarkFailed(r) => RowsStep
         /\ \A b : DeleteByBlock(b) => RowsStep
<1>1. rows \in [Runs -> Instance]
  BY DEF TypeInv, TypeOK
<1>2. UNCHANGED rows => RowsStep
  BY DEF RowsStep, RowStep
<1>3. ASSUME NEW r \in Runs, MarkFailed(r), Live(r)
      PROVE  RowsStep
  <2> DEFINE j == [rows[r] EXCEPT !.status = "failed", !.rev = @ + 1]
  <2>1. rows' = [rows EXCEPT ![r] = j]
    BY <1>3 DEF MarkFailed
  <2>2. j.status = "failed" /\ j.rev = rows[r].rev + 1 /\ j.block = rows[r].block
    BY <1>1 DEF Instance
  <2> HIDE DEF j
  <2>3. rows[r].status \notin GoneStatus \cup EndStatus /\ "failed" \notin GoneStatus
    BY <1>3 DEF Live, LiveStatus, EndStatus, GoneStatus
  <2>4. QED
    BY <1>1, <2>1, <2>2, <2>3 DEF RowsStep, RowStep
<1>4. ASSUME NEW r \in Runs, MarkFailed(r), ~Live(r)
      PROVE  RowsStep
  BY <1>2, <1>4 DEF MarkFailed
<1>5. ASSUME NEW b, DeleteByBlock(b)
      PROVE  RowsStep
  BY <1>1, <1>5 DEF DeleteByBlock, RowsStep, RowStep, OnBlock, Present
<1>6. QED
  BY <1>2, <1>3, <1>4, <1>5

\* A record without a copy says little.
LEMMA LightHeld ==
  ASSUME TypeInv, RowsStep, NEW l,
         l.pc \notin DriverHolds \cup AnswerHolds \cup {"claim", "upsert"},
         l.pc \notin {"idle", "unblock"} => l.run \in Runs /\ rows[l.run].status # "unborn"
  PROVE  Held(l)'
<1>1. ASSUME NEW r \in Runs, rows[r].status # "unborn"
      PROVE  rows'[r].status # "unborn"
  BY <1>1, DeletedRow DEF RowsStep, RowStep, GoneStatus
<1>2. QED
  BY <1>1 DEF Held

\* An actor that is about a run is about one that was written.
LEMMA Born ==
  ASSUME TypeInv, SafeInv, NEW a \in Actors, loc[a].pc \notin {"idle", "unblock", "claim"}
  PROVE  Run(a) \in Runs /\ rows[Run(a)].status # "unborn"
BY Driving DEF SafeInv, Held, Run, In

\* Moving to a record without a copy, about the same run.
LEMMA LightMove ==
  ASSUME TypeInv, SafeInv, NEW a \in Actors, NEW l, Go(a, l), RowsStep,
         l.pc \notin DriverHolds \cup AnswerHolds \cup {"claim", "upsert"},
         l.pc \notin {"idle", "unblock"} => l.run \in Runs /\ rows[l.run].status # "unborn"
  PROVE  SafeStep
BY LightHeld, MoveSafe

\* The fields of the records the engine builds.
LEMMA BareFields ==
  ASSUME NEW a, NEW pc
  PROVE  /\ Idle.pc = "idle"
         /\ Bare(a, pc).pc = pc
         /\ pc # "idle" => Bare(a, pc).run = Run(a)
         /\ \A p : [Bare(a, pc) EXCEPT !.polls = p].pc = pc
         /\ pc # "idle" => \A p : [Bare(a, pc) EXCEPT !.polls = p].run = Run(a)
BY DEF Idle, Bare

LEMMA HoldFields ==
  ASSUME NEW a, NEW pc, NEW i
  PROVE  /\ Hold(a, pc, i).pc = pc
         /\ Hold(a, pc, i).run = Run(a)
         /\ Hold(a, pc, i).mem = i
BY DEF Idle, Hold

LEMMA HoldNextFields ==
  ASSUME NEW a, NEW pc, NEW i, NEW n
  PROVE  LET l == [Hold(a, pc, i) EXCEPT !.next = n]
         IN  l.pc = pc /\ l.run = Run(a) /\ l.mem = i
BY DEF Idle, Hold

LEMMA HoldPollsFields ==
  ASSUME NEW a, NEW pc, NEW i, NEW p
  PROVE  LET l == [Hold(a, pc, i) EXCEPT !.polls = p]
         IN  l.pc = pc /\ l.run = Run(a) /\ l.mem = i
BY DEF Idle, Hold

LEMMA HoldBlockFields ==
  ASSUME NEW a, NEW pc, NEW b
  PROVE  LET l == [Hold(a, pc, Blank) EXCEPT !.mem.block = b]
         IN  l.pc = pc /\ l.run = Run(a)
BY DEF Idle, Hold

-----------------------------------------------------------------------------
(* The driver. *)

\* A driver writes its copy back, or re-enters its loop.
LEMMA CasThenSafe ==
  ASSUME TypeInv, SafeInv, NEW w \in Actors, loc[w].pc \in DriverHolds,
         NEW i, Copy(Mem(w), i), NEW l, CasThen(w, i, l),
         l.pc \notin DriverHolds \cup AnswerHolds \cup {"claim", "upsert"},
         l.pc \notin {"idle", "unblock"} => l.run = Run(w)
  PROVE  SafeStep
<1>1. Run(w) \in Runs /\ rows[Run(w)].status # "unborn"
  BY Born DEF DriverHolds
<1>2. CASE CompareAndSwap(Run(w), i) /\ Go(w, l)
  BY <1>1, <1>2, DriverSwapStep, LightMove
<1>3. CASE Go(w, Bare(w, "advance")) /\ UNCHANGED rows
  <2>1. Bare(w, "advance").pc = "advance" /\ Bare(w, "advance").run = Run(w)
    BY BareFields
  <2>2. QED
    BY <1>1, <1>3, <2>1, StoreStep, LightMove DEF DriverHolds, AnswerHolds
<1>4. QED
  BY <1>2, <1>3 DEF CasThen

\* A driver keeps a rewritten copy while it writes the board.
LEMMA BlockThenCasSafe ==
  ASSUME TypeInv, SafeInv, NEW w \in Actors, loc[w].pc \in DriverHolds,
         NEW i, Copy(Mem(w), i), NEW n, BlockThenCas(w, i, n)
  PROVE  SafeStep
<1>1. PICK l : /\ l = [Hold(w, "cas", i) EXCEPT !.next = n]
               /\ Go(w, l)
               /\ l.pc = "cas" /\ l.run = Run(w) /\ l.mem = i
  <2>1. LET l == [Hold(w, "cas", i) EXCEPT !.next = n]
        IN  l.pc = "cas" /\ l.run = Run(w) /\ l.mem = i
    BY HoldNextFields
  <2>2. QED
    BY <2>1 DEF BlockThenCas
<1>2. UNCHANGED rows
  BY DEF BlockThenCas
<1>3. RowsStep
  BY <1>2, StoreStep
<1>4. Run(w) \in Runs /\ rows[Run(w)].status # "unborn"
  BY Born DEF DriverHolds
<1>5. Fits(loc[w])
  BY DEF SafeInv, Held
<1>6. Mem(w).status \notin GoneStatus
  BY <1>5 DEF Fits, Mem
<1>7. i.status \notin GoneStatus /\ i.rev = Mem(w).rev /\ i.block = Mem(w).block
  BY <1>6 DEF Copy
<1>8. Present(Run(w)) /\ i.rev = rows[Run(w)].rev => Live(Run(w))
  BY <1>5, <1>7 DEF Fits, Mem, Run
<1>9. Fits(l)
  BY <1>1, <1>5, <1>7, <1>8 DEF Fits, Mem, Run, Live, LiveStatus, EndStatus, DriverHolds
<1>10. Held(l)
  BY <1>1, <1>4, <1>9 DEF Held
<1>11. Held(l)'
  BY <1>2, <1>10 DEF Held, Fits, Present, Live
<1>12. QED
  BY <1>1, <1>2, <1>3, <1>11, MoveSafe

\* A step's result is recorded on a copy of what the driver holds.
LEMMA RecordSafe ==
  ASSUME TypeInv, SafeInv, NEW w \in Actors, loc[w].pc \in DriverHolds,
         NEW i, Copy(Mem(w), i), RecordStepResult(w, i) \/ Settle(w, i)
  PROVE  SafeStep
<1>1. i \in Instance
  BY DEF Copy
<1>2. /\ Copy(Mem(w), Asked(i))
      /\ Copy(Mem(w), ParkedForApproval(i))
      /\ Copy(Mem(w), Settled(i))
  BY <1>1, ParkedCopy, SettledCopy, CopyTrans
<1>3. CASE Settle(w, i)
  BY <1>2, <1>3, BlockThenCasSafe DEF Settle
<1>4. CASE RecordStepResult(w, i)
  BY <1>2, <1>3, <1>4, BlockThenCasSafe DEF RecordStepResult, ParkAwaitingInput
<1>5. QED
  BY <1>3, <1>4

\* A driver that holds nothing, or drops what it holds, and changes no row.
LEMMA BareMove ==
  ASSUME TypeInv, SafeInv, NEW a \in Actors, loc[a].pc \notin {"idle", "unblock", "claim"},
         NEW pc \in {"idle", "advance", "poll", "fail", "mark", "reread"},
         NEW p, RowsStep,
         Go(a, Bare(a, pc)) \/ (pc # "idle" /\ Go(a, [Bare(a, pc) EXCEPT !.polls = p]))
  PROVE  SafeStep
<1>1. Run(a) \in Runs /\ rows[Run(a)].status # "unborn"
  BY Born
<1>2. CASE Go(a, Bare(a, pc))
  <2>1. Bare(a, pc).pc = pc /\ (pc # "idle" => Bare(a, pc).run = Run(a))
    BY BareFields
  <2>2. QED
    BY <1>1, <1>2, <2>1, LightMove DEF DriverHolds, AnswerHolds
<1>3. CASE pc # "idle" /\ Go(a, [Bare(a, pc) EXCEPT !.polls = p])
  <2>1. /\ [Bare(a, pc) EXCEPT !.polls = p].pc = pc
        /\ [Bare(a, pc) EXCEPT !.polls = p].run = Run(a)
    BY <1>3, BareFields
  <2>2. QED
    BY <1>1, <1>3, <2>1, LightMove DEF DriverHolds, AnswerHolds
<1>4. QED
  BY <1>2, <1>3

\* An actor that ends.
LEMMA IdleMove ==
  ASSUME TypeInv, SafeInv, NEW a \in Actors, RowsStep, Go(a, Idle)
  PROVE  SafeStep
<1>1. Idle.pc = "idle"
  BY BareFields
<1>2. QED
  BY <1>1, LightMove DEF DriverHolds, AnswerHolds

\* A driver loads the live run it drives.
LEMMA LoadMove ==
  ASSUME TypeInv, SafeInv, NEW a \in Actors, loc[a].pc \notin {"idle", "unblock", "claim"},
         NEW l, Go(a, l), UNCHANGED rows, Live(Run(a)),
         l.pc \in {"act", "polled"}, l.run = Run(a), l.mem = rows[Run(a)]
  PROVE  SafeStep
<1>1. Run(a) \in Runs /\ rows[Run(a)].status # "unborn" /\ rows[Run(a)] \in Instance
  BY Born DEF TypeInv, TypeOK
<1>2. rows[Run(a)].status \notin GoneStatus \cup EndStatus /\ rows[Run(a)].rev \in Nat
  BY <1>1 DEF Live, LiveStatus, GoneStatus, EndStatus, Instance
<1>3. Fits(l)
  BY <1>2 DEF Fits
<1>4. Held(l)
  BY <1>1, <1>3 DEF Held, AnswerHolds
<1>5. Held(l)'
  BY <1>4 DEF Held, Fits, Present, Live
<1>6. QED
  BY <1>5, StoreStep, MoveSafe

\* What a driver at "act", "inline", "polled" or "cas" holds, rewritten.
LEMMA HeldCopies ==
  ASSUME TypeInv, NEW w \in Actors, loc[w].pc \in DriverHolds
  PROVE  /\ Mem(w) \in Instance
         /\ Copy(Mem(w), Mem(w))
         /\ \A v \in {"blocked", "paused"} : Copy(Mem(w), [Mem(w) EXCEPT !.status = v])
         /\ \A s \in Step : Copy(Mem(w), WithStep(Mem(w), Mem(w).cur, s))
<1>1. Mem(w) \in Instance
  BY Driving DEF In, DriverHolds
<1>2. \A v \in {"blocked", "paused"} : Copy(Mem(w), [Mem(w) EXCEPT !.status = v])
  BY <1>1, WithStatusCopy DEF LiveStatus
<1>3. \A s \in Step : Copy(Mem(w), WithStep(Mem(w), Mem(w).cur, s))
  BY <1>1, CurStepCopy
<1>4. QED
  BY <1>1, <1>2, <1>3 DEF Copy

\* Before and around the agent.
LEMMA DriverSafe ==
  ASSUME TypeInv, SafeInv, NEW w \in Actors,
         \/ Advance(w) \/ OverBudget(w) \/ ParkAgain(w) \/ Skip(w) \/ Attach(w)
         \/ Dispatch(w) \/ DispatchFails(w) \/ AdvanceThrows(w)
         \/ InlineStart(w) \/ InlineDone(w) \/ Cas(w)
  PROVE  SafeStep
<1>1. UNCHANGED rows => RowsStep
  BY StoreStep
<1>2. ASSUME NEW pc \in {"idle", "advance", "poll", "fail"}
      PROVE  /\ Bare(w, pc).pc \notin DriverHolds \cup AnswerHolds \cup {"claim", "upsert"}
             /\ Bare(w, pc).pc \notin {"idle", "unblock"} => Bare(w, pc).run = Run(w)
  BY BareFields DEF DriverHolds, AnswerHolds
<1>3. Idle.pc \notin DriverHolds \cup AnswerHolds \cup {"claim", "upsert"} /\ Idle.pc = "idle"
  BY BareFields DEF DriverHolds, AnswerHolds
<1>4. In(w, "act") => loc[w].pc \in DriverHolds
  BY DEF In, DriverHolds
<1>5. In(w, "act") =>
        /\ Started(w) \in Instance
        /\ Copy(Mem(w), Started(w))
        /\ CurStep(Started(w)) \in Step
  BY StartedCopy, StepOf
<1>6. CASE Advance(w)
  <2>1. loc[w].pc = "advance" /\ UNCHANGED rows
    BY <1>6 DEF Advance, In
  <2>2. CASE Go(w, Idle)
    BY <1>1, <2>1, <2>2, IdleMove
  <2>3. CASE rows[Run(w)].status \in {"running", "paused"}
             /\ Go(w, Hold(w, "act", rows[Run(w)]))
    <3>1. PICK l : /\ Go(w, l)
                   /\ l.pc = "act" /\ l.run = Run(w) /\ l.mem = rows[Run(w)]
      BY <2>3, HoldFields
    <3>2. Live(Run(w))
      BY <2>3 DEF Live, LiveStatus
    <3>3. QED
      BY <2>1, <3>1, <3>2, LoadMove
  <2>4. QED
    BY <1>6, <2>2, <2>3 DEF Advance
<1>7. CASE OverBudget(w)
  <2>1. CASE Go(w, Idle) /\ UNCHANGED rows
    BY <1>1, <2>1, IdleMove
  <2>2. CASE CasThen(w, [Mem(w) EXCEPT !.status = "paused"], Idle)
    BY <1>3, <1>4, <1>7, <2>2, HeldCopies, CasThenSafe DEF OverBudget
  <2>3. QED
    BY <1>7, <2>1, <2>2 DEF OverBudget
<1>8. CASE ParkAgain(w)
  BY <1>3, <1>4, <1>8, HeldCopies, CasThenSafe DEF ParkAgain
<1>9. CASE Skip(w)
  BY <1>4, <1>5, <1>9, RecordSafe DEF Skip, Stepping
<1>10. CASE Attach(w)
  <2>1. loc[w].pc = "act"
    BY <1>10 DEF Attach, Stepping, In
  <2>2. QED
    BY <1>1, <1>10, <2>1, BareMove DEF Attach
<1>11. CASE Dispatch(w)
  <2> DEFINE i == Started(w)
             j == WithStep(i, i.cur, [CurStep(i) EXCEPT !.job = TRUE])
  <2>1. In(w, "act")
    BY <1>11 DEF Dispatch, Stepping
  <2>2. [CurStep(i) EXCEPT !.job = TRUE] \in Step
    BY <1>5, <2>1, StepFields
  <2>3. Copy(Mem(w), j)
    BY <1>5, <2>1, <2>2, CurStepCopy, CopyTrans
  <2>4. CasThen(w, j, Bare(w, "poll"))
    BY <1>11 DEF Dispatch
  <2> HIDE DEF j
  <2>5. QED
    BY <1>2, <1>4, <2>1, <2>3, <2>4, CasThenSafe
<1>12. CASE DispatchFails(w)
  BY <1>2, <1>4, <1>5, <1>12, CasThenSafe DEF DispatchFails, Stepping
<1>13. CASE AdvanceThrows(w)
  <2>1. loc[w].pc \in {"act", "inline"}
    BY <1>13 DEF AdvanceThrows, In
  <2>2. QED
    BY <1>1, <1>13, <2>1, BareMove DEF AdvanceThrows
<1>14. CASE InlineStart(w)
  <2>1. In(w, "act") /\ loc[w].pc \in DriverHolds
    BY <1>4, <1>14 DEF InlineStart, Stepping
  <2>2. CASE Go(w, Bare(w, "advance")) /\ UNCHANGED rows
    <3>1. loc[w].pc = "act"
      BY <2>1 DEF In
    <3>2. QED
      BY <1>1, <2>2, <3>1, BareMove
  <2>3. CASE /\ CompareAndSwap(Run(w), Started(w))
             /\ Go(w, Hold(w, "inline", [Started(w) EXCEPT !.rev = @ + 1]))
    <3>1. PICK l : /\ Go(w, l)
                   /\ l.pc = "inline" /\ l.run = Run(w)
                   /\ l.mem = [Started(w) EXCEPT !.rev = @ + 1]
      BY <2>3, HoldFields
    <3>2. RowsStep
      BY <1>5, <2>1, <2>3, DriverSwapStep
    <3>3. Run(w) \in Runs /\ rows \in [Runs -> Instance]
      BY <2>1, Born DEF DriverHolds, TypeInv, TypeOK
    <3>4. rows'[l.run] = l.mem
      BY <2>3, <3>1, <3>3 DEF CompareAndSwap
    <3>5. /\ l.mem.status = "running"
          /\ l.mem.rev \in Nat
      BY <1>5, <2>1, <3>1, StartedCopy DEF Instance
    <3>6. Held(l)'
      BY <3>1, <3>4, <3>5 DEF Held, Fits, Present, Live, LiveStatus, GoneStatus, AnswerHolds
    <3>7. QED
      BY <3>1, <3>2, <3>6, MoveSafe
  <2>4. QED
    BY <1>14, <2>2, <2>3 DEF InlineStart, CasThen
<1>15. CASE InlineDone(w)
  <2>1. loc[w].pc \in DriverHolds
    BY <1>15 DEF InlineDone, In, DriverHolds
  <2>2. QED
    BY <1>15, <2>1, HeldCopies, RecordSafe DEF InlineDone
<1>16. CASE Cas(w)
  <2>1. loc[w].pc \in DriverHolds /\ loc[w].next \in {"idle", "advance"}
    BY <1>16 DEF Cas, In, DriverHolds, TypeInv, TypeOK, Loc
  <2>2. QED
    BY <1>2, <1>16, <2>1, HeldCopies, CasThenSafe DEF Cas
<1>17. QED
  BY <1>6, <1>7, <1>8, <1>9, <1>10, <1>11, <1>12, <1>13, <1>14, <1>15, <1>16

\* Polling a job.
LEMMA PollSafe ==
  ASSUME TypeInv, SafeInv, NEW w \in Actors,
         \/ Poll(w) \/ PollRunning(w) \/ PollProgress(w) \/ PollExhausted(w)
         \/ PollEvicted(w) \/ PollFailed(w) \/ PollDone(w)
  PROVE  SafeStep
<1>1. UNCHANGED rows => RowsStep
  BY StoreStep
<1>2. ASSUME NEW pc \in {"advance", "fail"}
      PROVE  /\ Bare(w, pc).pc \notin DriverHolds \cup AnswerHolds \cup {"claim", "upsert"}
             /\ Bare(w, pc).pc \notin {"idle", "unblock"} => Bare(w, pc).run = Run(w)
  BY BareFields DEF DriverHolds, AnswerHolds
<1>3. In(w, "polled") => loc[w].pc = "polled" /\ loc[w].pc \in DriverHolds
  BY DEF In, DriverHolds
<1>4. In(w, "polled") => CurStep(Mem(w)) \in Step
  BY <1>3, HeldCopies, StepOf
<1>5. CASE Poll(w)
  <2>1. loc[w].pc = "poll" /\ UNCHANGED rows
    BY <1>5 DEF Poll, In
  <2>2. CASE Go(w, Idle)
    BY <1>1, <2>1, <2>2, IdleMove
  <2>3. CASE Go(w, Bare(w, "advance"))
    BY <1>1, <2>1, <2>3, BareMove
  <2>4. CASE /\ rows[Run(w)].status \in {"running", "paused"}
             /\ Go(w, [Hold(w, "polled", rows[Run(w)]) EXCEPT !.polls = loc[w].polls])
    <3>1. LET l == [Hold(w, "polled", rows[Run(w)]) EXCEPT !.polls = loc[w].polls]
          IN  l.pc = "polled" /\ l.run = Run(w) /\ l.mem = rows[Run(w)]
      BY HoldPollsFields
    <3>2. PICK l : /\ Go(w, l)
                   /\ l.pc = "polled" /\ l.run = Run(w) /\ l.mem = rows[Run(w)]
      BY <2>4, <3>1
    <3>3. Live(Run(w))
      BY <2>4 DEF Live, LiveStatus
    <3>4. QED
      BY <2>1, <3>2, <3>3, LoadMove
  <2>5. QED
    BY <1>5, <2>2, <2>3, <2>4 DEF Poll
<1>6. CASE PollRunning(w)
  BY <1>1, <1>3, <1>6, BareMove DEF PollRunning
<1>7. CASE PollProgress(w)
  <2>1. loc[w].pc = "polled"
    BY <1>3, <1>7 DEF PollProgress
  <2>2. CASE /\ Mutate(Run(w), rows[Run(w)])
             /\ Go(w, [Bare(w, "poll") EXCEPT !.polls = loc[w].polls + 1])
    <3>1. Run(w) \in Runs /\ rows[Run(w)] \in Instance
      BY <2>1, Born DEF TypeInv, TypeOK
    <3>2. RowsStep
      BY <2>2, <3>1, MutateStep DEF Copy
    <3>3. QED
      BY <2>1, <2>2, <3>2, BareMove
  <2>3. CASE Go(w, Bare(w, "advance")) /\ UNCHANGED rows
    BY <1>1, <2>1, <2>3, BareMove
  <2>4. QED
    BY <1>7, <2>2, <2>3 DEF PollProgress
<1>8. CASE PollExhausted(w)
  BY <1>1, <1>8, BareMove DEF PollExhausted, In
<1>9. CASE PollEvicted(w)
  <2> DEFINE j == WithStep(Mem(w), Mem(w).cur,
                    [CurStep(Mem(w)) EXCEPT !.job = FALSE, !.evictions = @ + 1])
  <2>1. In(w, "polled")
    BY <1>9 DEF PollEvicted
  <2>2. [CurStep(Mem(w)) EXCEPT !.job = FALSE, !.evictions = @ + 1] \in Step
    BY <1>4, <2>1, StepFields
  <2>3. Copy(Mem(w), j) /\ Copy(Mem(w), Mem(w))
    BY <1>3, <2>1, <2>2, HeldCopies
  <2>4. CasThen(w, j, Bare(w, "advance")) \/ CasThen(w, Mem(w), Bare(w, "fail"))
    BY <1>9 DEF PollEvicted
  <2> HIDE DEF j
  <2>5. QED
    BY <1>2, <1>3, <2>1, <2>3, <2>4, CasThenSafe
<1>10. CASE PollFailed(w)
  BY <1>2, <1>3, <1>10, HeldCopies, CasThenSafe DEF PollFailed
<1>11. CASE PollDone(w)
  <2> DEFINE j == WithStep(Mem(w), Mem(w).cur, [CurStep(Mem(w)) EXCEPT !.job = FALSE])
  <2>1. In(w, "polled")
    BY <1>11 DEF PollDone
  <2>2. [CurStep(Mem(w)) EXCEPT !.job = FALSE] \in Step
    BY <1>4, <2>1, StepFields
  <2>3. Copy(Mem(w), j) /\ RecordStepResult(w, j)
    BY <1>3, <1>11, <2>1, <2>2, HeldCopies DEF PollDone
  <2> HIDE DEF j
  <2>4. QED
    BY <1>3, <2>1, <2>3, RecordSafe
<1>12. QED
  BY <1>5, <1>6, <1>7, <1>8, <1>9, <1>10, <1>11

\* A judge that never parks.
LEMMA JudgeSafe ==
  ASSUME JudgesNeverPark, TypeInv, SafeInv, NEW w \in Actors,
         \/ JudgePass(w) \/ JudgeFail(w) \/ JudgeBounce(w) \/ Rework(w)
         \/ JudgeCapSettled(w) \/ JudgePark(w) \/ ParkUpsert(w)
  PROVE  SafeStep
<1>1. UNCHANGED rows => RowsStep
  BY StoreStep
<1>2. In(w, "act") =>
        /\ loc[w].pc \in DriverHolds
        /\ Started(w) \in Instance
        /\ Started(w).cur = Mem(w).cur
        /\ Copy(Mem(w), Started(w))
        /\ Copy(Mem(w), Judged(Started(w)))
  BY StartedCopy, JudgedCopy, CopyTrans DEF In, DriverHolds
<1>3. CASE JudgePass(w) \/ JudgeCapSettled(w)
  BY <1>2, <1>3, RecordSafe DEF JudgePass, JudgeCapSettled, Evaluating, Stepping
<1>4. CASE JudgeFail(w)
  <2>1. /\ Bare(w, "fail").pc \notin DriverHolds \cup AnswerHolds \cup {"claim", "upsert"}
        /\ Bare(w, "fail").run = Run(w)
    BY BareFields DEF DriverHolds, AnswerHolds
  <2>2. QED
    BY <1>2, <1>4, <2>1, CasThenSafe DEF JudgeFail, Evaluating, Stepping
<1>5. CASE JudgeBounce(w)
  <2> DEFINE i == Started(w)
             b == WithStep(i, i.cur, [CurStep(i) EXCEPT !.bounces = @ + 1])
             l == [Hold(w, "rework", Blank) EXCEPT !.mem.block = i.block, !.next = "advance"]
  <2>1. In(w, "act") /\ i.cur \in Positions /\ BounceTarget(i.cur)
    BY <1>2, <1>5, StepOf DEF JudgeBounce, Evaluating, Stepping, Bounces
  <2>2. Copy(i, b) /\ b \in Instance
    BY <1>2, <2>1, JudgedCopy DEF Copy
  <2>3. Copy(Mem(w), Bounced(b, i.cur))
    BY <1>2, <2>1, <2>2, BouncedCopy, CopyTrans
  <2>4. CasThen(w, Bounced(b, i.cur), l)
    BY <1>5 DEF JudgeBounce
  <2>5. l.pc = "rework" /\ l.run = Run(w)
    BY DEF Hold, Idle
  <2> HIDE DEF i, b, l
  <2>6. QED
    BY <1>2, <2>1, <2>3, <2>4, <2>5, CasThenSafe DEF DriverHolds, AnswerHolds
<1>6. CASE Rework(w)
  <2>1. loc[w].pc = "rework" /\ loc[w].next \in {"idle", "advance"}
    BY <1>6 DEF Rework, In, TypeInv, TypeOK, Loc
  <2>2. QED
    BY <1>1, <1>6, <2>1, BareMove DEF Rework
<1>7. ~JudgePark(w)
  BY DEF JudgePark, Evaluating, AtJudge, Parks, JudgesNeverPark
<1>8. ~ParkUpsert(w)
  BY DEF ParkUpsert, In, SafeInv, Held
<1>9. QED
  BY <1>3, <1>4, <1>5, <1>6, <1>7, <1>8

\* failRun, and a crash.
LEMMA FailSafe ==
  ASSUME TypeInv, SafeInv, NEW a \in Actors, FailStep(a) \/ Crash(a)
  PROVE  SafeStep
<1>1. UNCHANGED rows => RowsStep
  BY StoreStep
<1>2. CASE Crash(a) \/ FailBlock(a)
  BY <1>1, <1>2, IdleMove DEF Crash, FailBlock
<1>3. CASE FailLoad(a)
  <2>1. loc[a].pc = "fail"
    BY <1>3 DEF FailLoad, In
  <2>2. QED
    BY <1>1, <1>3, <2>1, BareMove, IdleMove DEF FailLoad
<1>4. CASE FailMark(a)
  <2>1. loc[a].pc = "mark"
    BY <1>4 DEF FailMark, In
  <2>2. RowsStep
    BY <1>4, <2>1, Born, StoreStep DEF FailMark
  <2>3. QED
    BY <1>4, <2>1, <2>2, BareMove DEF FailMark
<1>5. CASE FailReread(a)
  <2>1. loc[a].pc = "reread"
    BY <1>5 DEF FailReread, In
  <2>2. CASE Go(a, Idle)
    BY <1>1, <1>5, <2>2, IdleMove DEF FailReread
  <2>3. CASE Go(a, [Hold(a, "failblock", Blank) EXCEPT !.mem.block = rows[Run(a)].block])
    <3>1. LET l == [Hold(a, "failblock", Blank) EXCEPT !.mem.block = rows[Run(a)].block]
          IN  l.pc = "failblock" /\ l.run = Run(a)
      BY HoldBlockFields
    <3>2. PICK l : Go(a, l) /\ l.pc = "failblock" /\ l.run = Run(a)
      BY <2>3, <3>1
    <3>3. QED
      BY <1>1, <1>5, <2>1, <3>2, Born, LightMove DEF FailReread, DriverHolds, AnswerHolds
  <2>4. QED
    BY <1>5, <2>2, <2>3 DEF FailReread
<1>6. QED
  BY <1>2, <1>3, <1>4, <1>5 DEF FailStep

-----------------------------------------------------------------------------
(* Requests. *)

\* One attempt of resolveDecision, on a run that may have ended.
LEMMA AttemptSafe ==
  ASSUME TypeInv, SafeInv, NEW h \in Actors, NEW r \in Runs, NEW k \in Positions,
         AnswerAttempt(h, r, k)
  PROVE  SafeStep
<1>1. /\ rows[r] \in Instance /\ rows[r].status \in Status /\ rows[r].rev \in Nat
      /\ Present(r) /\ UNCHANGED rows
  BY DEF TypeInv, TypeOK, Instance, AnswerAttempt
<1>2. PICK l : Go(h, l) /\ l.pc = "answer" /\ l.run = r /\ l.mem = Answered(rows[r], k)
  <2>1. LET l == [Idle EXCEPT !.pc = "answer", !.run = r, !.at = k,
                              !.mem = Answered(rows[r], k)]
        IN  l.pc = "answer" /\ l.run = r /\ l.mem = Answered(rows[r], k)
    BY DEF Idle
  <2>2. QED
    BY <2>1 DEF AnswerAttempt
<1>3. /\ l.mem.rev = rows[r].rev
      /\ l.mem.block = rows[r].block
      /\ l.mem.status \notin GoneStatus
      /\ l.mem.status = Unblocked(rows[r].status)
  BY <1>1, <1>2, AnsweredCopy DEF Copy, Present
<1>4. rows[r].status \in EndStatus => l.mem.status = rows[r].status
  BY <1>1, <1>3, UnblockedStatus
<1>5. Held(l)
  BY <1>1, <1>2, <1>3, <1>4 DEF Held, Fits, DriverHolds, Present, GoneStatus
<1>6. Held(l)'
  BY <1>1, <1>5 DEF Held, Fits, Present, Live
<1>7. QED
  BY <1>1, <1>2, <1>6, StoreStep, MoveSafe

\* A handler past its first step, the claim left aside.
LEMMA HandlerSafe ==
  ASSUME TypeInv, SafeInv, NEW h \in Actors,
         \/ Launch(h) \/ CancelBlock(h) \/ SettleGate(h)
         \/ AnswerStored(h) \/ AnswerAgain(h) \/ SendBackStored(h)
  PROVE  SafeStep
<1>1. UNCHANGED rows => RowsStep
  BY StoreStep
<1>2. CASE Launch(h) \/ CancelBlock(h) \/ SettleGate(h)
  BY <1>1, <1>2, IdleMove DEF Launch, CancelBlock, SettleGate
<1>3. CASE AnswerStored(h)
  <2>1. loc[h].pc \in AnswerHolds
    BY <1>3 DEF AnswerStored, In, AnswerHolds
  <2>2. Copy(Mem(h), Mem(h))
    BY <2>1, Driving DEF Copy, In, AnswerHolds
  <2>3. RowsStep
    BY <1>3, <2>1, <2>2, AnswerSwapStep DEF AnswerStored
  <2>4. QED
    BY <1>3, <2>3, IdleMove DEF AnswerStored
<1>4. CASE AnswerAgain(h)
  <2>1. loc[h].pc = "answer" /\ Run(h) \in Runs /\ loc[h].at \in Positions
    BY <1>4, Driving DEF AnswerAgain, In, TypeInv, TypeOK, Loc
  <2>2. CASE Go(h, Idle) /\ UNCHANGED rows
    BY <1>1, <2>2, IdleMove
  <2>3. CASE AnswerAttempt(h, Run(h), loc[h].at)
    BY <2>1, <2>3, AttemptSafe
  <2>4. QED
    BY <1>4, <2>2, <2>3 DEF AnswerAgain
<1>5. CASE SendBackStored(h)
  <2>1. loc[h].pc = "rebounce" /\ loc[h].pc \in AnswerHolds
    BY <1>5 DEF SendBackStored, In, AnswerHolds
  <2>2. Mem(h) \in Instance /\ loc[h].at \in Positions /\ BounceTarget(loc[h].at)
    BY <2>1, Driving DEF In, TypeInv, LocOK, Loc
  <2>3. CASE Go(h, Idle) /\ UNCHANGED rows
    BY <1>1, <2>3, IdleMove
  <2>4. CASE /\ CompareAndSwap(Run(h), [Bounced(Mem(h), loc[h].at) EXCEPT
                                          !.status = Unblocked(Bounced(Mem(h), loc[h].at).status)])
             /\ Go(h, [Hold(h, "rework", Blank) EXCEPT
                         !.mem.block = Bounced(Mem(h), loc[h].at).block])
    <3> DEFINE i == Bounced(Mem(h), loc[h].at)
               j == [i EXCEPT !.status = Unblocked(i.status)]
    <3>1. Copy(Mem(h), i) /\ i \in Instance /\ i.status = Mem(h).status
      BY <2>2, BouncedCopy DEF Copy
    <3>2. Copy(Mem(h), j) /\ j.status = Unblocked(Mem(h).status)
      BY <3>1, UnblockedCopy, CopyTrans
    <3>3. CompareAndSwap(Run(h), j)
      BY <2>4
    <3> HIDE DEF j
    <3>4. RowsStep
      BY <2>1, <3>2, <3>3, AnswerSwapStep
    <3> HIDE DEF i
    <3>5. LET l == [Hold(h, "rework", Blank) EXCEPT !.mem.block = i.block]
          IN  l.pc = "rework" /\ l.run = Run(h)
      BY HoldBlockFields
    <3>6. PICK l : Go(h, l) /\ l.pc = "rework" /\ l.run = Run(h)
      BY <2>4, <3>5 DEF i
    <3>7. QED
      BY <2>1, <3>4, <3>6, Born, LightMove DEF DriverHolds, AnswerHolds
  <2>5. QED
    BY <1>5, <2>3, <2>4 DEF SendBackStored
<1>6. QED
  BY <1>2, <1>3, <1>4, <1>5

\* The claim: the one step that makes a run, on an id nobody else holds.
LEMMA ClaimSafe ==
  ASSUME TypeInv, SafeInv, NEW h \in Actors, Claim(h)
  PROVE  /\ SafeInv'
         /\ \A r \in Runs : RowStep(rows[r], rows'[r]) \/ rows[r].status = "unborn"
<1>0. PICK c, b, p : c = Run(h) /\ b = Mem(h).block /\ p = loc[h].replaced
  OBVIOUS
<1>1. /\ c \in Runs
      /\ rows \in [Runs -> Instance]
      /\ loc \in [Actors -> Loc]
      /\ Mem(h) \in Instance
      /\ rows[c].status = "unborn"
      /\ Mem(h).status = "running"
      /\ b \in Blocks
  BY <1>0, Driving DEF Claim, In, TypeInv, TypeOK, SafeInv, Held, Run, Mem
<1>2. CASE ~Claimable(b, p)
  <2>1. RowsStep
    BY <1>0, <1>1, <1>2 DEF Claim, InsertLive, RowsStep, RowStep, Superseded, OnBlock, Present
  <2>2. Go(h, Idle)
    BY <1>0, <1>2 DEF Claim
  <2>3. QED
    BY <2>1, <2>2, IdleMove DEF SafeStep, RowsStep
<1>3. CASE Claimable(b, p)
  <2> DEFINE n == [Mem(h) EXCEPT !.rev = 0]
  <2>1. /\ rows' = [o \in Runs |-> IF o = c THEN n
                                   ELSE IF o \in OnBlock(b) THEN Deleted ELSE rows[o]]
        /\ n.status = "running" /\ n.block = b /\ n.rev = 0
    BY <1>0, <1>1, <1>3 DEF Claim, InsertLive, Claimable, Instance
  <2>2. PICK l : Go(h, l) /\ l.pc = "launch" /\ l.run = c
    <3>1. LET l == [Hold(h, "launch", Blank) EXCEPT !.mem.block = b]
          IN  l.pc = "launch" /\ l.run = c
      BY <1>0, HoldBlockFields
    <3>2. QED
      BY <1>0, <1>3, <3>1 DEF Claim
  <2> HIDE DEF n
  <2>3. \A r \in Runs \ {c} : RowStep(rows[r], rows'[r])
    BY <2>1 DEF RowStep, OnBlock, Present
  <2>4. OnePerBlock'
    <3>1. /\ Present(c)'
          /\ rows'[c].block = b
          /\ b # NoBlock
      BY <1>1, <2>1, StepsAssumption DEF Present, GoneStatus
    <3>2. \A r \in Runs \ {c} :
            /\ Present(r)' => Present(r) /\ rows'[r] = rows[r] /\ rows[r].block # b
            /\ rows'[r].block # NoBlock <=> Present(r)'
      BY <2>1, DeletedRow DEF Present, OnBlock, SafeInv, OnePerBlock
    <3>3. QED
      BY <3>1, <3>2 DEF OnePerBlock, SafeInv
  <2>5. ASSUME NEW a \in Actors, a # h
        PROVE  Held(loc[a])'
    <3>1. PICK m : m = loc[a]
      OBVIOUS
    <3>2. LocOK(m) /\ Held(m) /\ loc'[a] = m
      BY <1>1, <2>2, <2>5, <3>1 DEF TypeInv, SafeInv, Go
    <3>3. CASE m.pc \in {"idle", "unblock"}
      BY <3>2, <3>3 DEF Held, DriverHolds, AnswerHolds
    <3>4. CASE m.pc \notin {"idle", "unblock"}
      <4>1. m.run \in Runs
        BY <3>2, <3>4 DEF LocOK
      <4>2. m.run # c
        BY <1>0, <1>1, <2>5, <3>1, <3>2, <3>4 DEF SafeInv, Held, UniqueClaims, Claim, In, Run
      <4>3. RowStep(rows[m.run], rows'[m.run])
        BY <2>3, <4>1, <4>2
      <4>4. Held(m)'
        BY <3>2, <4>1, <4>3, HeldStable
      <4>5. QED
        BY <3>2, <4>4 DEF Held, Fits, Present, Live
    <3>5. QED
      BY <3>3, <3>4
  <2>6. Held(loc[h])'
    <3>1. loc'[h] = l
      BY <1>1, <2>2 DEF Go
    <3>2. rows'[c].status # "unborn"
      BY <1>1, <2>1
    <3>3. QED
      BY <2>2, <3>1, <3>2 DEF Held, DriverHolds, AnswerHolds
  <2>7. UniqueClaims'
    BY <1>1, <2>2 DEF UniqueClaims, SafeInv, In, Run, Go
  <2>8. QED
    BY <1>1, <2>3, <2>4, <2>5, <2>6, <2>7 DEF SafeInv
<1>4. QED
  BY <1>2, <1>3

\* A request that leaves its handler where it was.
LEMMA StillSafe ==
  ASSUME TypeInv, SafeInv, RowsStep, UNCHANGED loc
  PROVE  SafeStep
<1>1. OnePerBlock'
  BY OnePerBlockStable DEF SafeInv
<1>2. ASSUME NEW a \in Actors
      PROVE  Held(loc[a])'
  <2>1. PICK m : m = loc[a]
    OBVIOUS
  <2>2. LocOK(m) /\ Held(m) /\ loc'[a] = m
    BY <2>1 DEF TypeInv, SafeInv
  <2>3. CASE m.pc \in {"idle", "unblock"}
    BY <2>2, <2>3 DEF Held, DriverHolds, AnswerHolds
  <2>4. CASE m.pc \notin {"idle", "unblock"}
    <3>1. m.run \in Runs
      BY <2>2, <2>4 DEF LocOK
    <3>2. Held(m)'
      BY <2>2, <3>1, HeldStable DEF RowsStep
    <3>3. QED
      BY <2>2, <3>2 DEF Held, Fits, Present, Live
  <2>5. QED
    BY <2>3, <2>4
<1>3. UniqueClaims'
  BY DEF UniqueClaims, SafeInv, In, Run
<1>4. QED
  BY <1>1, <1>2, <1>3 DEF SafeInv, SafeStep

\* Requests about a block, and the plans of replacement runs.
LEMMA PlanSafe ==
  ASSUME TypeInv, SafeInv, NEW h \in Actors, UNCHANGED rows,
         NEW q \in Runs, Fresh(q), NEW i, NEW p, Claiming(h, q, i, p),
         i.status = "running", i.block \in Blocks
  PROVE  SafeStep
<1>1. PICK l : Go(h, l) /\ l.pc = "claim" /\ l.run = q /\ l.mem = i
  <2>1. LET l == [Idle EXCEPT !.pc = "claim", !.run = q, !.mem = i, !.replaced = p]
        IN  l.pc = "claim" /\ l.run = q /\ l.mem = i
    BY DEF Idle
  <2>2. QED
    BY <2>1 DEF Claiming
<1>2. Held(l)
  BY <1>1 DEF Held, Fresh, DriverHolds, AnswerHolds
<1>3. Held(l)'
  BY <1>1, <1>2 DEF Held, DriverHolds, AnswerHolds
<1>4. QED
  BY <1>1, <1>3, StoreStep, MoveSafe

LEMMA BlockRequestSafe ==
  ASSUME TypeInv, SafeInv, NEW h \in Actors, NEW b \in Blocks, Start(h, b) \/ Cancel(h, b)
  PROVE  SafeStep
<1>1. CASE Start(h, b)
  <2>1. PICK r \in Runs : Fresh(r) /\ \E p : Claiming(h, r, LaunchedOn(b), p)
    BY <1>1 DEF Start
  <2>2. PICK p : Claiming(h, r, LaunchedOn(b), p)
    BY <2>1
  <2>3. QED
    BY <1>1, <2>1, <2>2, PlanType, PlanSafe DEF Start
<1>2. CASE Cancel(h, b)
  <2>1. RowsStep
    BY <1>2, StoreStep DEF Cancel
  <2>2. [Idle EXCEPT !.pc = "unblock", !.mem.block = b].pc = "unblock"
    BY DEF Idle
  <2>3. QED
    BY <1>2, <2>1, <2>2, LightMove DEF Cancel, DriverHolds, AnswerHolds
<1>3. QED
  BY <1>1, <1>2

\* Requests about a run: the answers are edits of what is stored.
LEMMA RunRequestSafe ==
  ASSUME JudgesNeverPark, TypeInv, SafeInv,
         NEW h \in Actors, NEW r \in Runs, NEW k \in Positions,
         \/ Retry(h, r) \/ Stop(h, r) \/ ResumePaused(h, r) \/ Restart(h, r, k)
         \/ Approve(h, r, k) \/ RequestChanges(h, r, k) \/ Reject(h, r, k)
         \/ Answer(h, r, k)
         \/ JudgeProceed(h, r, k) \/ JudgeStop(h, r, k) \/ JudgeSendBack(h, r, k)
  PROVE  SafeStep
<1>1. /\ rows[r] \in Instance
      /\ rows[r].status \in Status
      /\ loc \in [Actors -> Loc]
  BY DEF TypeInv, TypeOK, Instance
<1>2. Present(r) => rows[r].status # "unborn" /\ rows[r].block \in Blocks
  BY <1>1 DEF Present, GoneStatus, SafeInv, OnePerBlock, Instance
<1>3. Live(r) => Present(r) /\ rows[r].status \notin EndStatus
  BY DEF Live, Present, LiveStatus, GoneStatus, EndStatus
<1>4. ASSUME NEW i, Mutate(r, i)
      PROVE  Present(r)
  BY <1>4 DEF Mutate, CompareAndSwap, Swappable
<1>5. ASSUME NEW v \in ApprovalState
      PROVE  /\ Copy(rows[r], WithApproval(rows[r], k, v))
             /\ WithApproval(rows[r], k, v).status = rows[r].status
  <2>1. [rows[r].steps[k] EXCEPT !.approval = v] \in Step
    BY <1>1, StepOf, StepFields
  <2>2. QED
    BY <1>1, <2>1, WithStepCopy DEF WithApproval
<1>6. ASSUME RowsStep, UNCHANGED loc
      PROVE  SafeStep
  BY <1>6, StillSafe
<1>7. ASSUME NEW q \in Runs, Fresh(q), NEW from \in Positions, Present(r),
             Claiming(h, q, ResumedFrom(rows[r], from), r), UNCHANGED rows
      PROVE  SafeStep
  BY <1>1, <1>2, <1>7, PlanType, PlanSafe
<1>8. CASE Retry(h, r)
  <2>1. Present(r)
    BY <1>8 DEF Retry, Present, GoneStatus
  <2>2. QED
    BY <1>7, <1>8, <2>1 DEF Retry
<1>9. CASE Restart(h, r, k)
  BY <1>7, <1>9 DEF Restart
<1>10. ASSUME Go(h, [Idle EXCEPT !.pc = "fail", !.run = r]), RowsStep, Present(r)
       PROVE  SafeStep
  <2>1. PICK l : Go(h, l) /\ l.pc = "fail" /\ l.run = r
    <3>1. LET l == [Idle EXCEPT !.pc = "fail", !.run = r] IN l.pc = "fail" /\ l.run = r
      BY DEF Idle
    <3>2. QED
      BY <1>10, <3>1
  <2>2. QED
    BY <1>2, <1>10, <2>1, LightMove DEF DriverHolds, AnswerHolds
<1>11. CASE Stop(h, r)
  BY <1>3, <1>10, <1>11, StoreStep DEF Stop
<1>12. CASE ResumePaused(h, r)
  <2>1. Copy(rows[r], [rows[r] EXCEPT !.status = "running"])
    BY <1>1, WithStatusCopy DEF LiveStatus
  <2>2. rows[r].status \notin EndStatus
    BY <1>12 DEF ResumePaused, EndStatus
  <2>3. [rows[r] EXCEPT !.status = "running"].status \notin GoneStatus
    BY <1>12, <2>1 DEF ResumePaused, Copy, GoneStatus
  <2>4. RowsStep
    BY <1>12, <2>1, <2>2, <2>3, SwapStep DEF ResumePaused, Copy
  <2>5. QED
    BY <1>6, <1>12, <2>4 DEF ResumePaused
<1>13. CASE Approve(h, r, k)
  <2> DEFINE i == AdvanceRunPastGate(WithApproval(rows[r], k, "approved"), k)
  <2>1. Copy(rows[r], i)
    BY <1>5, AdvancePastCopy, CopyTrans DEF Copy, ApprovalState
  <2>2. Mutate(r, i) /\ Live(r)
    BY <1>13 DEF Approve
  <2> HIDE DEF i
  <2>3. RowsStep
    BY <1>3, <2>1, <2>2, MutateStep
  <2>4. PICK l : Go(h, l) /\ l.pc = "settle" /\ l.run = r
    <3>1. LET l == [Idle EXCEPT !.pc = "settle", !.run = r, !.at = k,
                                !.mem.block = rows[r].block]
          IN  l.pc = "settle" /\ l.run = r
      BY DEF Idle
    <3>2. QED
      BY <1>13, <3>1 DEF Approve, ToSettle
  <2>5. QED
    BY <1>2, <1>3, <2>2, <2>3, <2>4, LightMove DEF DriverHolds, AnswerHolds
<1>14. CASE RequestChanges(h, r, k)
  <2> DEFINE c == WithApproval(rows[r], k, "changes_requested")
             i == [WithStep(c, k, StartStep([c.steps[k] EXCEPT !.job = FALSE]))
                     EXCEPT !.status = Unblocked(c.status)]
  <2>1. Copy(rows[r], i)
    BY <1>1, ChangesCopy
  <2>2. c.status = rows[r].status /\ c \in Instance
    BY <1>5 DEF ApprovalState, Copy
  <2>3. i.status = Unblocked(c.status)
    BY <2>2 DEF WithStep, Instance
  <2>4. Mutate(r, i)
    BY <1>14 DEF RequestChanges
  <2> HIDE DEF c, i
  <2>5. rows[r].status \in EndStatus => i.status = rows[r].status
    BY <1>1, <2>2, <2>3, UnblockedStatus
  <2>6. RowsStep
    BY <2>1, <2>4, <2>5, MutateStep
  <2>7. QED
    BY <1>6, <1>14, <2>6 DEF RequestChanges
<1>15. CASE Reject(h, r, k)
  <2>1. RowsStep
    BY <1>5, <1>15, MutateStep DEF Reject, ApprovalState
  <2>2. QED
    BY <1>10, <1>15, <2>1 DEF Reject
<1>16. CASE Answer(h, r, k)
  BY <1>16, AttemptSafe DEF Answer
<1>17. ~JudgeProceed(h, r, k) /\ ~JudgeStop(h, r, k) /\ ~JudgeSendBack(h, r, k)
  BY DEF JudgeProceed, JudgeStop, JudgeSendBack, Request, JudgesNeverPark
<1>18. QED
  BY <1>8, <1>9, <1>11, <1>12, <1>13, <1>14, <1>15, <1>16, <1>17

-----------------------------------------------------------------------------
(* The engine, and what follows. *)

\* Every step but a claim moves the rows as RowStep says.
LEMMA NextSafe ==
  ASSUME JudgesNeverPark, TypeInv, SafeInv, Next
  PROVE  /\ SafeInv'
         /\ \A r \in Runs : RowStep(rows[r], rows'[r]) \/ rows[r].status = "unborn"
<1>1. CASE \E w \in Workers, r \in Runs : DriveStart(w, r)
  <2>1. PICK w \in Workers, r \in Runs : DriveStart(w, r)
    BY <1>1
  <2>2. w \in Actors /\ UNCHANGED rows /\ rows[r].status # "unborn"
    BY <2>1 DEF Actors, DriveStart
  <2>3. PICK l : Go(w, l) /\ l.pc = "advance" /\ l.run = r
    <3>1. LET l == [Idle EXCEPT !.pc = "advance", !.run = r]
          IN  l.pc = "advance" /\ l.run = r
      BY DEF Idle
    <3>2. QED
      BY <2>1, <3>1 DEF DriveStart
  <2>4. QED
    BY <2>2, <2>3, StoreStep, LightMove DEF SafeStep, RowsStep, DriverHolds, AnswerHolds
<1>2. CASE \E w \in Workers : OverBudget(w)
  BY <1>2, DriverSafe DEF Actors, SafeStep, RowsStep
<1>3. CASE \E a \in Actors : Continue(a) \/ Crash(a)
  <2>1. PICK a \in Actors : Continue(a) \/ Crash(a)
    BY <1>3
  <2>2. CASE Claim(a)
    BY <2>2, ClaimSafe
  <2>3. CASE DriverStep(a) \/ Rework(a)
    BY <2>3, DriverSafe, PollSafe, JudgeSafe DEF DriverStep, SafeStep, RowsStep
  <2>4. CASE FailStep(a) \/ Crash(a)
    BY <2>4, FailSafe DEF SafeStep, RowsStep
  <2>5. CASE HandlerStep(a) /\ ~Claim(a)
    BY <2>5, HandlerSafe DEF HandlerStep, SafeStep, RowsStep
  <2>6. QED
    BY <2>1, <2>2, <2>3, <2>4, <2>5 DEF Continue
<1>4. CASE \E h \in Handlers : HumanStep(h)
  BY <1>4, BlockRequestSafe, RunRequestSafe, FirstPosition
     DEF HumanStep, Actors, SafeStep, RowsStep
<1>5. QED
  BY <1>1, <1>2, <1>3, <1>4 DEF Next

\* The revision discipline of the run table: in every reachable state each
\* held copy fits the stored run, claims are on ids of their own, and a block
\* has one stored run.
THEOREM RevisionsFit == ASSUME JudgesNeverPark PROVE Spec => []SafeInv
<1>1. Init => SafeInv
  <2> SUFFICES ASSUME Init PROVE SafeInv
    OBVIOUS
  <2>1. \A r \in Runs : rows[r] = Blank
    BY DEF Init, StoreInit
  <2>2. OnePerBlock
    BY <2>1, BlankType DEF OnePerBlock, Present, GoneStatus, Blank
  <2>3. \A a \in Actors : loc[a].pc = "idle"
    BY DEF Init, Idle
  <2>4. QED
    BY <2>2, <2>3 DEF SafeInv, Held, UniqueClaims, In, DriverHolds, AnswerHolds
<1>2. TypeInv /\ SafeInv /\ Next => SafeInv'
  BY NextSafe
<1>3. SafeInv /\ UNCHANGED vars => SafeInv'
  BY DEF SafeInv, OnePerBlock, Present, Held, Fits, Live, UniqueClaims, In, Run, vars
<1>4. QED
  BY <1>2, <1>1, <1>3, TypeInvariant, PTL DEF Spec

\* A block never has two live runs, whatever drivers, requests, crashes and
\* concurrent claims do to it.
THEOREM OneLiveRun == ASSUME JudgesNeverPark PROVE Spec => []OneLivePerBlock
<1>1. SafeInv => OneLivePerBlock
  BY DEF SafeInv, OnePerBlock, OneLivePerBlock, Live, Present, LiveStatus, GoneStatus
<1>2. QED
  BY <1>1, RevisionsFit, PTL

\* A run that ended keeps its end and a deleted one stays deleted: no copy a
\* driver loaded before a cancel, a stop or a failure writes it back.
THEOREM EndsAreFinal == ASSUME JudgesNeverPark PROVE Spec => EndedStaysEnded
<1> DEFINE Final == \A r \in Runs :
             /\ rows[r].status \in EndStatus => rows'[r].status \in {rows[r].status, "deleted"}
             /\ rows[r].status = "deleted" => rows'[r].status = "deleted"
<1>1. ASSUME NEW r \in Runs, RowStep(rows[r], rows'[r]) \/ rows[r].status = "unborn"
      PROVE  /\ rows[r].status \in EndStatus => rows'[r].status \in {rows[r].status, "deleted"}
             /\ rows[r].status = "deleted" => rows'[r].status = "deleted"
  BY <1>1, DeletedRow DEF RowStep, EndStatus, GoneStatus
<1>2. TypeInv /\ SafeInv /\ Next => Final
  BY <1>1, NextSafe
<1>3. UNCHANGED vars => UNCHANGED rows
  BY DEF vars
<1>4. TypeInv /\ SafeInv /\ [Next]_vars => [Final]_rows
  BY <1>2, <1>3
<1>5. QED
  BY <1>4, TypeInvariant, RevisionsFit, PTL DEF Spec, EndedStaysEnded

-----------------------------------------------------------------------------
(* The lifecycle.  A step writes at most one stored run, deletes the runs of *)
(* a block, or claims one: each of these is a step of RunLifecycle.          *)

OneWrite ==
  \/ UNCHANGED rows
  \/ \E r \in Runs : Present(r) /\ \A o \in Runs \ {r} : rows'[o] = rows[o]

\* The statements that name one run write one run.
LEMMA StatementWrites ==
  ASSUME TypeInv, NEW r \in Runs
  PROVE  /\ \A i : CompareAndSwap(r, i) => OneWrite
         /\ \A i : Mutate(r, i) => OneWrite
         /\ MarkFailed(r) => OneWrite
<1>1. rows \in [Runs -> Instance]
  BY DEF TypeInv, TypeOK
<1>2. ASSUME NEW i, CompareAndSwap(r, i)
      PROVE  OneWrite
  BY <1>1, <1>2 DEF CompareAndSwap, Swappable, OneWrite
<1>3. ASSUME MarkFailed(r)
      PROVE  OneWrite
  <2>1. CASE Live(r)
    BY <1>1, <1>3, <2>1 DEF MarkFailed, OneWrite, Live, Present, LiveStatus, GoneStatus
  <2>2. CASE ~Live(r)
    BY <1>3, <2>2 DEF MarkFailed, OneWrite
  <2>3. QED
    BY <2>1, <2>2
<1>4. QED
  BY <1>2, <1>3 DEF Mutate

\* So does a copy written back, or lost; recording a result writes the board.
LEMMA CopyWrites ==
  ASSUME TypeInv, NEW w \in Actors, Run(w) \in Runs, NEW i
  PROVE  /\ \A l : CasThen(w, i, l) => OneWrite
         /\ RecordStepResult(w, i) => OneWrite
         /\ Settle(w, i) => OneWrite
<1>1. \A l : CasThen(w, i, l) => OneWrite
  BY StatementWrites DEF CasThen, OneWrite
<1>2. Settle(w, i) => OneWrite
  BY DEF Settle, BlockThenCas, OneWrite
<1>3. RecordStepResult(w, i) => OneWrite
  BY <1>2 DEF RecordStepResult, ParkAwaitingInput, BlockThenCas, OneWrite
<1>4. QED
  BY <1>1, <1>2, <1>3

LEMMA DriverWrites ==
  ASSUME JudgesNeverPark, TypeInv, SafeInv, NEW w \in Actors,
         DriverStep(w) \/ OverBudget(w) \/ Rework(w) \/ FailStep(w) \/ Crash(w)
  PROVE  OneWrite
<1>1. UNCHANGED rows => OneWrite
  BY DEF OneWrite
<1>2. ASSUME ~In(w, "idle"), ~In(w, "unblock")
      PROVE  Run(w) \in Runs
  BY <1>2, Driving
<1>3. CASE \/ Advance(w) \/ Attach(w) \/ AdvanceThrows(w) \/ Poll(w) \/ PollRunning(w)
           \/ PollExhausted(w) \/ JudgePark(w) \/ Rework(w) \/ Crash(w)
           \/ FailLoad(w) \/ FailReread(w) \/ FailBlock(w)
  BY <1>1, <1>3 DEF Advance, Attach, AdvanceThrows, Poll, PollRunning, PollExhausted,
     JudgePark, Rework, Crash, FailLoad, FailReread, FailBlock
<1>4. CASE FailMark(w)
  BY <1>2, <1>4, StatementWrites DEF FailMark, In
<1>5. CASE PollProgress(w)
  BY <1>1, <1>2, <1>5, StatementWrites DEF PollProgress, In
<1>6. CASE Skip(w) \/ InlineDone(w) \/ PollDone(w)
  BY <1>2, <1>6, CopyWrites DEF Skip, Stepping, InlineDone, PollDone, In
<1>7. CASE JudgePass(w) \/ JudgeCapSettled(w)
  BY <1>2, <1>7, CopyWrites DEF JudgePass, JudgeCapSettled, Evaluating, Stepping, In
<1>8. CASE OverBudget(w) \/ ParkAgain(w)
  BY <1>1, <1>2, <1>8, CopyWrites DEF OverBudget, ParkAgain, In
<1>9. CASE Dispatch(w) \/ DispatchFails(w) \/ InlineStart(w)
  BY <1>2, <1>9, CopyWrites DEF Dispatch, DispatchFails, InlineStart, Stepping, In
<1>10. CASE PollEvicted(w) \/ PollFailed(w) \/ Cas(w)
  BY <1>2, <1>10, CopyWrites DEF PollEvicted, PollFailed, Cas, In
<1>11. CASE JudgeFail(w) \/ JudgeBounce(w)
  BY <1>2, <1>11, CopyWrites DEF JudgeFail, JudgeBounce, Evaluating, Stepping, In
<1>12. ~ParkUpsert(w)
  BY DEF ParkUpsert, In, SafeInv, Held
<1>13. QED
  BY <1>3, <1>4, <1>5, <1>6, <1>7, <1>8, <1>9, <1>10, <1>11, <1>12
  DEF DriverStep, FailStep

LEMMA HandlerWrites ==
  ASSUME TypeInv, NEW h \in Actors, HandlerStep(h), ~Claim(h)
  PROVE  OneWrite
<1>1. CASE Launch(h) \/ CancelBlock(h) \/ SettleGate(h)
  BY <1>1 DEF Launch, CancelBlock, SettleGate, OneWrite
<1>2. ASSUME In(h, "answer") \/ In(h, "rebounce")
      PROVE  Run(h) \in Runs
  BY <1>2, Driving DEF In
<1>3. CASE AnswerStored(h)
  BY <1>2, <1>3, StatementWrites DEF AnswerStored
<1>4. CASE AnswerAgain(h)
  BY <1>4 DEF AnswerAgain, AnswerAttempt, OneWrite
<1>5. CASE SendBackStored(h)
  BY <1>2, <1>5, StatementWrites DEF SendBackStored, OneWrite
<1>6. QED
  BY <1>1, <1>3, <1>4, <1>5 DEF HandlerStep

LEMMA HumanWrites ==
  ASSUME TypeInv, NEW h \in Handlers, HumanStep(h)
  PROVE  OneWrite \/ \E b \in Blocks : DeleteByBlock(b)
<1>1. UNCHANGED rows => OneWrite
  BY DEF OneWrite
<1>2. ASSUME NEW b \in Blocks, Start(h, b) \/ Cancel(h, b)
      PROVE  OneWrite \/ DeleteByBlock(b)
  BY <1>1, <1>2 DEF Start, Cancel
<1>3. ASSUME NEW r \in Runs, Retry(h, r) \/ Stop(h, r) \/ ResumePaused(h, r)
      PROVE  OneWrite
  BY <1>1, <1>3, StatementWrites DEF Retry, Stop, ResumePaused
<1>4. ASSUME NEW r \in Runs, NEW k \in Positions,
             Restart(h, r, k) \/ Answer(h, r, k)
      PROVE  OneWrite
  BY <1>1, <1>4 DEF Restart, Answer, AnswerAttempt
<1>5. ASSUME NEW r \in Runs, NEW k \in Positions,
             Approve(h, r, k) \/ RequestChanges(h, r, k) \/ Reject(h, r, k)
      PROVE  OneWrite
  BY <1>5, StatementWrites DEF Approve, RequestChanges, Reject
<1>6. ASSUME NEW r \in Runs, NEW k \in Positions,
             JudgeProceed(h, r, k) \/ JudgeStop(h, r, k) \/ JudgeSendBack(h, r, k)
      PROVE  OneWrite
  BY <1>6, StatementWrites DEF JudgeProceed, JudgeStop, JudgeSendBack
<1>7. QED
  BY <1>2, <1>3, <1>4, <1>5, <1>6 DEF HumanStep

LEMMA NextWrites ==
  ASSUME JudgesNeverPark, TypeInv, SafeInv, Next
  PROVE  \/ OneWrite
         \/ \E b \in Blocks : DeleteByBlock(b)
         \/ \E h \in Actors : Claim(h)
<1>1. CASE \E w \in Workers, r \in Runs : DriveStart(w, r)
  BY <1>1 DEF DriveStart, OneWrite
<1>2. CASE \E w \in Workers : OverBudget(w)
  BY <1>2, DriverWrites DEF Actors
<1>3. CASE \E a \in Actors : Continue(a) \/ Crash(a)
  BY <1>3, DriverWrites, HandlerWrites DEF Continue
<1>4. CASE \E h \in Handlers : HumanStep(h)
  BY <1>4, HumanWrites
<1>5. QED
  BY <1>1, <1>2, <1>3, <1>4 DEF Next

\* A row that moves is a run that moves, ends where it was, or leaves.
LEMMA WriteRefines ==
  ASSUME TypeInv, TypeInv', SafeInv, OneWrite,
         \A r \in Runs : RowStep(rows[r], rows'[r]) \/ rows[r].status = "unborn"
  PROVE  RunView!LifecycleNext \/ UNCHANGED RunView!runVars
<1>1. CASE UNCHANGED rows
  BY <1>1 DEF RunView!runVars
<1>2. ASSUME NEW r \in Runs, Present(r), \A o \in Runs \ {r} : rows'[o] = rows[o]
      PROVE  RunView!LifecycleNext \/ UNCHANGED RunView!runVars
  <2> DEFINE status == [o \in Runs |-> rows[o].status]
             home == [o \in Runs |-> rows[o].block]
             moved == [o \in Runs |-> rows'[o].status]
             settled == [o \in Runs |-> rows'[o].block]
  <2>1. /\ rows[r].status \in Status /\ rows'[r].status \in Status
        /\ rows[r].status \notin GoneStatus
        /\ rows[r].block \in Blocks
    BY <1>2 DEF TypeInv, TypeOK, Instance, Present, SafeInv, OnePerBlock
  <2>2. RowStep(rows[r], rows'[r])
    BY <2>1 DEF GoneStatus
  <2>3. CASE rows'[r] = rows[r] \/ (/\ rows'[r].block = rows[r].block
                                    /\ rows'[r].status = rows[r].status)
    <3>1. moved = status /\ settled = home
      BY <1>2, <2>3
    <3>2. QED
      BY <3>1 DEF RunView!runVars
  <2>4. CASE /\ rows[r].status \notin EndStatus
             /\ rows'[r].status \notin GoneStatus
             /\ rows'[r].block = rows[r].block
    <3>1. PICK s : s = rows'[r].status
      OBVIOUS
    <3>2. /\ status[r] \in {"running", "blocked", "paused"}
          /\ s \in {"running", "blocked", "paused", "done", "failed"}
      BY <2>1, <2>4, <3>1 DEF Status, LiveStatus, EndStatus, GoneStatus
    <3>3. moved = [status EXCEPT ![r] = s] /\ settled = home
      BY <1>2, <2>4, <3>1
    <3>4. RunView!Move(r, s)
      BY <3>2, <3>3 DEF RunView!Move, RunView!LiveRun
    <3> HIDE DEF status, home, moved, settled
    <3>5. \E q \in Runs, v \in {"running", "blocked", "paused", "done", "failed"} :
            RunView!Move(q, v)
      BY <3>2, <3>4
    <3>6. QED
      BY <3>5 DEF RunView!LifecycleNext
  <2>5. CASE rows'[r] = Deleted
    <3>1. /\ moved = [o \in Runs |-> IF o \in {r} THEN "deleted" ELSE status[o]]
          /\ settled = [o \in Runs |-> IF o \in {r} THEN NoBlock ELSE home[o]]
      BY <1>2, <2>5, DeletedRow
    <3>2. RunView!Drop({r})
      BY <3>1 DEF RunView!Drop
    <3>3. {r} \in SUBSET {o \in Runs : home[o] = rows[r].block}
      OBVIOUS
    <3>4. QED
      BY <2>1, <3>2, <3>3 DEF RunView!LifecycleNext
  <2>6. QED
    BY <2>2, <2>3, <2>4, <2>5 DEF RowStep
<1>3. QED
  BY <1>1, <1>2 DEF OneWrite

\* Deleting runs of a block, of whatever choice.
LEMMA DropRefines ==
  ASSUME TypeInv, NEW b \in Blocks, NEW out \in SUBSET OnBlock(b),
         rows' = [o \in Runs |-> IF o \in out THEN Deleted ELSE rows[o]]
  PROVE  RunView!LifecycleNext
<1> DEFINE status == [o \in Runs |-> rows[o].status]
           home == [o \in Runs |-> rows[o].block]
<1>1. /\ [o \in Runs |-> rows'[o].status] =
           [o \in Runs |-> IF o \in out THEN "deleted" ELSE status[o]]
      /\ [o \in Runs |-> rows'[o].block] =
           [o \in Runs |-> IF o \in out THEN NoBlock ELSE home[o]]
  BY DeletedRow
<1>2. RunView!Drop(out)
  BY <1>1 DEF RunView!Drop
<1>3. out \in SUBSET {o \in Runs : home[o] = b}
  BY DEF OnBlock
<1>4. QED
  BY <1>2, <1>3 DEF RunView!LifecycleNext

\* A claim that wins begins its run; one that loses has cleaned up.
LEMMA ClaimRefines ==
  ASSUME TypeInv, SafeInv, NEW h \in Actors, Claim(h)
  PROVE  RunView!LifecycleNext
<1>0. PICK c, b, p : c = Run(h) /\ b = Mem(h).block /\ p = loc[h].replaced
  OBVIOUS
<1>1. /\ c \in Runs
      /\ Mem(h) \in Instance
      /\ rows[c].status = "unborn"
      /\ Mem(h).status = "running"
      /\ b \in Blocks
  BY <1>0, Driving DEF Claim, In, TypeInv, TypeOK, SafeInv, Held, Run, Mem
<1>2. CASE ~Claimable(b, p)
  <2>1. rows' = [o \in Runs |-> IF o \in Superseded(b, p) THEN Deleted ELSE rows[o]]
    BY <1>0, <1>2 DEF Claim, InsertLive
  <2>2. Superseded(b, p) \in SUBSET OnBlock(b)
    BY DEF Superseded
  <2>3. QED
    BY <1>1, <2>1, <2>2, DropRefines
<1>3. CASE Claimable(b, p)
  <2> DEFINE n == [Mem(h) EXCEPT !.rev = 0]
             out == OnBlock(b)
             status == [o \in Runs |-> rows[o].status]
             home == [o \in Runs |-> rows[o].block]
  <2>1. /\ rows' = [o \in Runs |-> IF o = c THEN n ELSE IF o \in out THEN Deleted ELSE rows[o]]
        /\ n.status = "running" /\ n.block = b
    BY <1>0, <1>1, <1>3 DEF Claim, InsertLive, Claimable, Instance
  <2>2. c \notin out
    BY <1>1 DEF OnBlock, Present, GoneStatus
  <2>3. out \in SUBSET {o \in Runs \ {c} : home[o] = b}
    BY <2>2 DEF OnBlock
  <2>4. \A o \in Runs \ out : status[o] \in {"running", "blocked", "paused"} => home[o] # b
    BY DEF OnBlock, Present, GoneStatus
  <2> HIDE DEF n, out
  <2>5. /\ [o \in Runs |-> rows'[o].status] =
             [o \in Runs |-> IF o = c THEN "running"
                             ELSE IF o \in out THEN "deleted" ELSE status[o]]
        /\ [o \in Runs |-> rows'[o].block] =
             [o \in Runs |-> IF o = c THEN b ELSE IF o \in out THEN NoBlock ELSE home[o]]
    BY <2>1, DeletedRow
  <2>6. RunView!Begin(c, b)
    BY <1>1, <2>3, <2>4, <2>5 DEF RunView!Begin, RunView!LiveRun
  <2>7. QED
    BY <1>1, <2>6 DEF RunView!LifecycleNext
<1>4. QED
  BY <1>2, <1>3

\* The engine implements the lifecycle of a run: whatever drivers, requests,
\* crashes and concurrent claims do, seen through each run's status and block
\* it is a run that begins on a free block, moves while it is live, and leaves.
THEOREM LifecycleImplemented == ASSUME JudgesNeverPark PROVE Spec => ImplementsLifecycle
<1>1. Init => RunView!LifecycleInit
  BY DEF Init, StoreInit, Blank, RunView!LifecycleInit
<1>2. ASSUME TypeInv, TypeInv', SafeInv, Next
      PROVE  RunView!LifecycleNext \/ UNCHANGED RunView!runVars
  <2>1. \A r \in Runs : RowStep(rows[r], rows'[r]) \/ rows[r].status = "unborn"
    BY <1>2, NextSafe
  <2>2. CASE OneWrite
    BY <1>2, <2>1, <2>2, WriteRefines
  <2>3. ASSUME NEW b \in Blocks, DeleteByBlock(b)
        PROVE  RunView!LifecycleNext
    BY <1>2, <2>3, DropRefines DEF DeleteByBlock
  <2>4. QED
    BY <1>2, <2>2, <2>3, NextWrites, ClaimRefines
<1>3. UNCHANGED vars => UNCHANGED RunView!runVars
  BY DEF vars, RunView!runVars
<1>4. TypeInv /\ TypeInv' /\ SafeInv /\ [Next]_vars => [RunView!LifecycleNext]_(RunView!runVars)
  BY <1>2, <1>3
<1>5. QED
  BY <1>1, <1>4, TypeInvariant, RevisionsFit, PTL
  DEF Spec, ImplementsLifecycle, RunView!Lifecycle
=============================================================================
