------------------------- MODULE AdvanceQueueProofs -------------------------
(***************************************************************************)
(* Theorems about AdvanceQueue, for every set of runs and nodes and every  *)
(* bound.                                                                  *)
(*                                                                         *)
(* The queue holds one job per run, and the attempts a job hands out are   *)
(* counted: a worker whose attempt was written off is behind the job it    *)
(* works for, so at most one worker holds the attempt that is active.      *)
(***************************************************************************)
EXTENDS AdvanceQueue, FiniteSetTheorems, TLAPS

\* The hypothesis of StallsAreEarned: no tick loses the batch it has collected.
\* With one that does, a sweeper can give up a run it never put back.
NoLostBatch == "lostBatch" \notin Faults

-----------------------------------------------------------------------------
(* The inductive invariants. *)

Clocks == UNION {[S -> 0 .. HardTicks] : S \in SUBSET Runs}

WorkerStates ==
  {IdleWorker} \cup
  [pc : {"driving", "returned"}, run : Runs, no : Numbers, tries : 0 .. RetryLimit]

SweepStates ==
  [pc : {"idle", "sweeping", "recovering", "flushing"}, todo : SUBSET Runs,
   run : Runs \cup {NoRun}, verdict : {"missing", "orphaned", "live"},
   no : Numbers \cup {NoJob}, keep : SUBSET Runs, batch : SUBSET Runs,
   since : Clocks]

TypeInv ==
  /\ status \in [Runs -> Statuses]
  /\ work \in [Runs -> 0 .. MaxWork] /\ detours \in [Runs -> 0 .. MaxDetours]
  /\ lapsed \in SUBSET Runs
  /\ jobs \in SUBSET JobType
  /\ worker \in [Nodes -> WorkerStates]
  /\ sweep \in [Nodes -> SweepStates]
  /\ \A n \in Nodes : sweep[n].pc = "recovering" => sweep[n].run \in Runs
  /\ sender \in [Runs -> 0 .. Resends]
  /\ budget \in BOOLEAN
  /\ tried \in [Nodes -> SUBSET Runs]
  /\ left \in [flips : 0 .. MaxFlips, faults : 0 .. MaxFaults]

\* The exclusive policy, and the count of a job's attempts: a worker never has
\* a later one than the job, and an earlier one when the job waits.
OneJobPerRun == \A j, k \in jobs : j.run = k.run => j = k

AttemptsCount ==
  \A n \in Nodes, j \in jobs : IsJob(j, worker[n]) =>
    /\ worker[n].tries <= j.tries
    /\ j.state # "active" => worker[n].tries < j.tries

AttemptsDiffer ==
  \A n, m \in Nodes :
    /\ n # m /\ worker[n].pc # "idle" /\ worker[m].pc # "idle"
    /\ worker[n].run = worker[m].run /\ worker[n].no = worker[m].no
    => worker[n].tries # worker[m].tries

DriveInv == OneJobPerRun /\ AttemptsCount /\ AttemptsDiffer

\* A run whose clock ticks was put back on the queue, or is about to be.
ClockInv ==
  \A n \in Nodes :
    /\ sweep[n].pc = "idle" => sweep[n].batch = {}
    /\ \A r \in DOMAIN sweep[n].since :
         \/ r \in tried[n]
         \/ /\ r \in sweep[n].batch /\ sweep[n].since[r] = 0
            /\ sweep[n].pc # "flushing" => r \in sweep[n].keep

-----------------------------------------------------------------------------
(* Job numbers. *)

\* No more jobs of a run are remembered than there are nodes to remember one.
LEMMA NodesRemember ==
  ASSUME QueueAssumption, NEW S \in SUBSET Nodes, NEW f, NEW T,
         \A t \in T : \E n \in S : t = f[n].no
  PROVE  IsFiniteSet(T) /\ Cardinality(T) <= Cardinality(Nodes)
<1> DEFINE U == {n \in S : f[n].no \in T}
           g == [n \in U |-> f[n].no]
<1>1. /\ IsFiniteSet(U) /\ Cardinality(U) <= Cardinality(Nodes)
      /\ Cardinality(U) \in Nat /\ Cardinality(Nodes) \in Nat
  BY FS_Subset, FS_CardinalityType DEF QueueAssumption
<1>2. g \in Surjection(U, T)
  BY DEF Surjection
<1> HIDE DEF U, g
<1>3. IsFiniteSet(T) /\ Cardinality(T) <= Cardinality(U)
  BY <1>1, <1>2, FS_Surjection
<1>. QED
  BY <1>1, <1>3, FS_CardinalityType

LEMMA NumbersType ==
  /\ Numbers \in SUBSET Nat /\ NoJob \notin Numbers /\ IsFiniteSet(Numbers)
  /\ Cardinality(Nodes) \in Nat
  /\ Cardinality(Numbers) = 2 * Cardinality(Nodes) + 2
<1>1. Cardinality(Nodes) \in Nat
  BY QueueAssumption, FS_CardinalityType DEF QueueAssumption
<1>. QED
  BY <1>1, FS_Interval, SMTT(60) DEF Numbers, NoJob

\* A run without a job gets a number that nobody remembers.
LEMMA NewJobIsFresh ==
  ASSUME NEW r \in Runs, Accepts(r)
  PROVE  /\ NewJob(r) \in JobType
         /\ NewJob(r).run = r /\ NewJob(r).state = "created"
         /\ NewJob(r).no \notin Remembered(r)
<1> DEFINE T == {worker[n].no : n \in {m \in Nodes : worker[m].run = r}}
           U == {sweep[n].no : n \in {m \in Nodes : sweep[m].run = r}}
<1>1. Remembered(r) = T \cup U
  BY DEF Remembered, Accepts
<1>2. IsFiniteSet(T) /\ Cardinality(T) <= Cardinality(Nodes)
  <2>1. {m \in Nodes : worker[m].run = r} \in SUBSET Nodes
    OBVIOUS
  <2>. QED
    BY <2>1, NodesRemember, QueueAssumption
<1>3. IsFiniteSet(U) /\ Cardinality(U) <= Cardinality(Nodes)
  <2>1. {m \in Nodes : sweep[m].run = r} \in SUBSET Nodes
    OBVIOUS
  <2>. QED
    BY <2>1, NodesRemember, QueueAssumption
<1> HIDE DEF T, U
<1>4. IsFiniteSet(T \cup U) /\ Cardinality(T \cup U) <= 2 * Cardinality(Nodes)
  <2>1. /\ IsFiniteSet(T \cup U)
        /\ Cardinality(T \cup U) = Cardinality(T) + Cardinality(U) - Cardinality(T \cap U)
    BY <1>2, <1>3, FS_Union
  <2>2. /\ Cardinality(T) \in Nat /\ Cardinality(U) \in Nat
        /\ Cardinality(T \cap U) \in Nat
    <3>1. IsFiniteSet(T \cap U)
      BY <1>2, FS_Subset
    <3>. QED
      BY <1>2, <1>3, <3>1, FS_CardinalityType
  <2>. QED
    BY <1>2, <1>3, <2>1, <2>2, NumbersType
<1>5. PICK k \in Numbers : k \notin T \cup U
  <2> SUFFICES ASSUME Numbers \subseteq T \cup U PROVE FALSE
    OBVIOUS
  <2>1. Cardinality(Numbers) <= Cardinality(T \cup U)
    BY <1>4, FS_Subset
  <2>2. Cardinality(T \cup U) \in Nat
    BY <1>4, FS_CardinalityType
  <2>. QED
    BY <1>4, <2>1, <2>2, NumbersType
<1>6. (CHOOSE n \in Numbers \ Remembered(r) : TRUE) \in Numbers \ Remembered(r)
  BY <1>1, <1>5
<1>. QED
  BY <1>6, QueueAssumption DEF NewJob, JobType, QueueAssumption

\* What pg-boss makes of a job it fails: one attempt more, or nothing.
LEMMA ReturnedJob ==
  ASSUME TypeInv, NEW j \in jobs
  PROVE  /\ Returned(j) \in SUBSET JobType
         /\ \A k \in Returned(j) :
              \/ k \in jobs \ {j}
              \/ k.run = j.run /\ k.no = j.no /\ k.tries = j.tries + 1 /\ k.state = "retry"
         /\ OneJobPerRun => \A k, l \in Returned(j) : k.run = l.run => k = l
<1> DEFINE next == [j EXCEPT !.state = "retry", !.tries = @ + 1]
<1>1. j \in JobType /\ jobs \in SUBSET JobType
  BY DEF TypeInv
<1>2. /\ next.run = j.run /\ next.no = j.no /\ next.tries = j.tries + 1
      /\ next.state = "retry"
  BY <1>1 DEF JobType
<1>3. j.tries < RetryLimit => next \in JobType
  <2>1. j.tries \in 0 .. RetryLimit /\ RetryLimit \in Nat
    BY <1>1, QueueAssumption DEF JobType, QueueAssumption
  <2>2. j.tries < RetryLimit => j.tries + 1 \in 0 .. RetryLimit
    BY <2>1
  <2>. QED
    BY <1>1, <2>2 DEF JobType
<1>4. Returned(j) = jobs \ {j} \/ (j.tries < RetryLimit /\ Returned(j) = (jobs \ {j}) \cup {next})
  BY DEF Returned
<1> HIDE DEF next
<1>. QED
  BY <1>1, <1>2, <1>3, <1>4 DEF OneJobPerRun

-----------------------------------------------------------------------------
(* Attempts. *)

\* Jobs that only age, and workers that only leave theirs.
LEMMA Aged ==
  ASSUME TypeInv, DriveInv,
         \A j, k \in jobs' : j.run = k.run => j = k,
         \A k \in jobs' :
           /\ k.tries \in Nat
           /\ \E j \in jobs :
                /\ j.run = k.run /\ j.no = k.no /\ j.tries <= k.tries
                /\ k.state # "active" => j.state # "active" \/ j.tries < k.tries,
         \A n \in Nodes :
           \/ worker'[n] = IdleWorker
           \/ /\ worker[n].pc # "idle" /\ worker'[n].run = worker[n].run
              /\ worker'[n].no = worker[n].no /\ worker'[n].tries = worker[n].tries
  PROVE  DriveInv'
<1>1. jobs \in SUBSET JobType /\ worker \in [Nodes -> WorkerStates]
  BY DEF TypeInv
<1>2. \A j \in jobs : j.tries \in Nat /\ j.no \in Numbers
  BY <1>1, QueueAssumption DEF JobType, QueueAssumption
<1>3. \A n \in Nodes : worker[n].tries \in Nat
  BY <1>1, QueueAssumption DEF WorkerStates, IdleWorker, QueueAssumption
<1>4. OneJobPerRun'
  BY DEF OneJobPerRun
<1>5. AttemptsCount'
  <2> SUFFICES ASSUME NEW n \in Nodes, NEW k \in jobs', IsJob(k, worker'[n])
               PROVE  /\ worker'[n].tries <= k.tries
                      /\ k.state # "active" => worker'[n].tries < k.tries
    BY DEF AttemptsCount
  <2>1. PICK j \in jobs :
          /\ j.run = k.run /\ j.no = k.no /\ j.tries <= k.tries
          /\ k.state # "active" => j.state # "active" \/ j.tries < k.tries
    OBVIOUS
  <2>2. worker'[n] # IdleWorker
    BY <1>2, <2>1, NumbersType DEF IsJob, IdleWorker
  <2>3. IsJob(j, worker[n]) /\ worker'[n].tries = worker[n].tries
    BY <2>1, <2>2 DEF IsJob
  <2>4. /\ worker[n].tries <= j.tries
        /\ j.state # "active" => worker[n].tries < j.tries
    BY <2>3 DEF DriveInv, AttemptsCount
  <2>5. k.tries \in Nat /\ j.tries \in Nat /\ worker[n].tries \in Nat
    BY <1>2, <1>3
  <2>. QED
    BY <2>1, <2>3, <2>4, <2>5
<1>6. AttemptsDiffer'
  <2> SUFFICES ASSUME NEW n \in Nodes, NEW m \in Nodes, n # m,
                      worker'[n].pc # "idle", worker'[m].pc # "idle",
                      worker'[n].run = worker'[m].run, worker'[n].no = worker'[m].no
               PROVE  worker'[n].tries # worker'[m].tries
    BY DEF AttemptsDiffer
  <2>1. worker'[n] # IdleWorker /\ worker'[m] # IdleWorker
    BY DEF IdleWorker
  <2>. QED
    BY <2>1 DEF DriveInv, AttemptsDiffer
<1>. QED
  BY <1>4, <1>5, <1>6 DEF DriveInv

\* New jobs, each for a run that had none, under a number nobody remembers.
LEMMA Enlisted ==
  ASSUME TypeInv, DriveInv, worker' = worker,
         NEW S \in SUBSET Runs, \A r \in S : Accepts(r),
         jobs' = jobs \cup {NewJob(r) : r \in S}
  PROVE  DriveInv' /\ jobs' \in SUBSET JobType
<1>1. jobs \in SUBSET JobType /\ worker \in [Nodes -> WorkerStates]
  BY DEF TypeInv
<1>2. \A k \in jobs' : k \in jobs \/ \E r \in S : k = NewJob(r)
  OBVIOUS
<1>3. \A r \in S : /\ NewJob(r) \in JobType /\ NewJob(r).run = r
                   /\ NewJob(r).no \notin Remembered(r)
                   /\ \A j \in jobs : j.run # r
  BY NewJobIsFresh DEF Accepts, JobsOf
<1>4. OneJobPerRun'
  BY <1>2, <1>3 DEF DriveInv, OneJobPerRun
<1>5. \A r \in S, n \in Nodes : ~IsJob(NewJob(r), worker[n])
  BY <1>3 DEF IsJob, Remembered
<1>6. AttemptsCount' /\ AttemptsDiffer'
  BY <1>2, <1>5 DEF DriveInv, AttemptsCount, AttemptsDiffer
<1>. QED
  BY <1>1, <1>2, <1>3, <1>4, <1>6 DEF DriveInv

-----------------------------------------------------------------------------
(* One lemma per action that touches the jobs or the workers. *)

LEMMA TypeFacts ==
  ASSUME TypeInv
  PROVE  /\ jobs \in SUBSET JobType /\ worker \in [Nodes -> WorkerStates]
         /\ sweep \in [Nodes -> SweepStates] /\ tried \in [Nodes -> SUBSET Runs]
         /\ status \in [Runs -> Statuses] /\ lapsed \in SUBSET Runs
         /\ work \in [Runs -> 0 .. MaxWork] /\ detours \in [Runs -> 0 .. MaxDetours]
         /\ sender \in [Runs -> 0 .. Resends] /\ budget \in BOOLEAN
         /\ left \in [flips : 0 .. MaxFlips, faults : 0 .. MaxFaults]
         /\ MaxWork \in Nat /\ MaxDetours \in Nat /\ Resends \in Nat /\ Resends > 0
         /\ MaxFlips \in Nat /\ MaxFaults \in Nat /\ RetryLimit \in Nat
         /\ HardTicks \in Nat /\ HardTicks > 0
         /\ \A j \in jobs : /\ j.run \in Runs /\ j.no \in Numbers
                            /\ j.tries \in 0 .. RetryLimit /\ j.beating \in BOOLEAN
                            /\ j.state \in {"created", "active", "retry"}
         /\ \A n \in Nodes : /\ worker[n].tries \in 0 .. RetryLimit
                             /\ worker[n] = IdleWorker <=> worker[n].pc = "idle"
         /\ IdleWorker \in WorkerStates
         /\ NoRun \notin Runs /\ NoJob \notin Numbers
<1>1. /\ MaxWork \in Nat /\ MaxDetours \in Nat /\ Resends \in Nat /\ Resends > 0
      /\ MaxFlips \in Nat /\ MaxFaults \in Nat /\ RetryLimit \in Nat
      /\ HardTicks \in Nat /\ HardTicks > 0 /\ NoRun \notin Runs
  BY QueueAssumption DEF QueueAssumption
<1>2. \A j \in jobs : /\ j.run \in Runs /\ j.no \in Numbers
                      /\ j.tries \in 0 .. RetryLimit /\ j.beating \in BOOLEAN
                      /\ j.state \in {"created", "active", "retry"}
  BY DEF TypeInv, JobType
<1>3. \A n \in Nodes : /\ worker[n].tries \in 0 .. RetryLimit
                       /\ worker[n] = IdleWorker <=> worker[n].pc = "idle"
  BY <1>1 DEF TypeInv, WorkerStates, IdleWorker
<1>. QED
  BY <1>1, <1>2, <1>3, NumbersType DEF TypeInv, WorkerStates

\* What the queue owes the worker's half of a step.
QueueKept ==
  /\ jobs' \in SUBSET JobType
  /\ worker' \in [Nodes -> WorkerStates]
  /\ DriveInv'

\* Jobs deleted, and drives that end or go on as they are.
LEMMA QueueShrinks ==
  ASSUME TypeInv, DriveInv, jobs' \subseteq jobs,
         worker' \in [Nodes -> WorkerStates],
         \A n \in Nodes :
           \/ worker'[n] = IdleWorker
           \/ /\ worker[n].pc # "idle" /\ worker'[n].run = worker[n].run
              /\ worker'[n].no = worker[n].no /\ worker'[n].tries = worker[n].tries
  PROVE  QueueKept
<1>1. jobs' \in SUBSET JobType
  BY TypeFacts
<1>2. \A j, k \in jobs' : j.run = k.run => j = k
  BY DEF DriveInv, OneJobPerRun
<1>3. \A k \in jobs' : k.tries \in Nat /\ k.tries <= k.tries /\ k \in jobs
  BY TypeFacts
<1>4. DriveInv'
  BY <1>2, <1>3, Aged
<1>. QED
  BY <1>1, <1>4 DEF QueueKept

LEMMA QueueStands ==
  ASSUME TypeInv, DriveInv, UNCHANGED <<jobs, worker>>
  PROVE  QueueKept
BY TypeFacts DEF QueueKept, DriveInv, OneJobPerRun, AttemptsCount, AttemptsDiffer

\* A job is handed out: the attempts before it are behind it.
LEMMA FetchKeeps ==
  ASSUME TypeInv, DriveInv, NEW n \in Nodes, Fetch(n)
  PROVE  QueueKept
<1>1. PICK j \in jobs :
        /\ j.state # "active"
        /\ jobs' = (jobs \ {j}) \cup {[j EXCEPT !.state = "active", !.beating = TRUE]}
        /\ worker' = [worker EXCEPT ![n] = [pc |-> "driving", run |-> j.run,
                                            no |-> j.no, tries |-> j.tries]]
  BY DEF Fetch
<1> DEFINE k == [j EXCEPT !.state = "active", !.beating = TRUE]
           w == [pc |-> "driving", run |-> j.run, no |-> j.no, tries |-> j.tries]
<1>2. /\ k \in JobType /\ k.run = j.run /\ k.no = j.no /\ k.tries = j.tries
      /\ k.state = "active"
  BY TypeFacts DEF JobType
<1>3. w \in WorkerStates
  BY TypeFacts DEF WorkerStates
<1>4. /\ w.run = j.run /\ w.no = j.no /\ w.tries = j.tries
      /\ j.tries \in Nat
  BY TypeFacts
<1> HIDE DEF k, w
<1>5. /\ worker'[n] = w
      /\ \A m \in Nodes : m # n => worker'[m] = worker[m]
      /\ worker' \in [Nodes -> WorkerStates]
      /\ jobs' = (jobs \ {j}) \cup {k}
  BY <1>1, <1>3, TypeFacts DEF k, w
<1>6. jobs' \in SUBSET JobType
  BY <1>2, <1>5, TypeFacts
<1>7. OneJobPerRun'
  BY <1>2, <1>5 DEF DriveInv, OneJobPerRun
<1>8. \A m \in Nodes : IsJob(j, worker[m]) => worker[m].tries < j.tries
  BY <1>1 DEF DriveInv, AttemptsCount
<1>9. AttemptsCount'
  <2> SUFFICES ASSUME NEW m \in Nodes, NEW l \in jobs', IsJob(l, worker'[m])
               PROVE  /\ worker'[m].tries <= l.tries
                      /\ l.state # "active" => worker'[m].tries < l.tries
    BY DEF AttemptsCount
  <2>1. CASE l = k /\ m = n
    BY <1>2, <1>4, <1>5, <2>1
  <2>2. CASE l = k /\ m # n
    <3>1. worker[m].tries < j.tries
      BY <1>2, <1>5, <1>8, <2>2 DEF IsJob
    <3>. QED
      BY <1>2, <1>4, <1>5, <2>2, <3>1, TypeFacts
  <2>3. CASE l # k /\ m = n
    BY <1>4, <1>5, <2>3 DEF IsJob, DriveInv, OneJobPerRun
  <2>4. CASE l # k /\ m # n
    BY <1>5, <2>4 DEF DriveInv, AttemptsCount
  <2>. QED
    BY <2>1, <2>2, <2>3, <2>4
<1>10. AttemptsDiffer'
  <2> SUFFICES ASSUME NEW m \in Nodes, NEW o \in Nodes, m # o,
                      worker'[m].pc # "idle", worker'[o].pc # "idle",
                      worker'[m].run = worker'[o].run, worker'[m].no = worker'[o].no
               PROVE  worker'[m].tries # worker'[o].tries
    BY DEF AttemptsDiffer
  <2>1. CASE m # n /\ o # n
    BY <1>5, <2>1 DEF DriveInv, AttemptsDiffer
  <2>2. CASE m = n
    <3>1. worker[o].tries < j.tries /\ worker'[o] = worker[o]
      BY <1>4, <1>5, <1>8, <2>2 DEF IsJob
    <3>. QED
      BY <1>4, <1>5, <2>2, <3>1, TypeFacts
  <2>3. CASE o = n
    <3>1. worker[m].tries < j.tries /\ worker'[m] = worker[m]
      BY <1>4, <1>5, <1>8, <2>3 DEF IsJob
    <3>. QED
      BY <1>4, <1>5, <2>3, <3>1, TypeFacts
  <2>. QED
    BY <2>1, <2>2, <2>3
<1>. QED
  BY <1>5, <1>6, <1>7, <1>9, <1>10 DEF QueueKept, DriveInv

\* One job is returned to the queue or given up, and a drive may end.
LEMMA ReturnKeeps ==
  ASSUME TypeInv, DriveInv, NEW j \in jobs, jobs' = Returned(j),
         worker' \in [Nodes -> WorkerStates],
         \A n \in Nodes : worker'[n] = IdleWorker \/ worker'[n] = worker[n]
  PROVE  QueueKept
<1>1. jobs' \in SUBSET JobType
  BY ReturnedJob
<1>2. \A k, l \in jobs' : k.run = l.run => k = l
  BY ReturnedJob DEF DriveInv
<1>3. ASSUME NEW k \in jobs'
      PROVE  /\ k.tries \in Nat
             /\ \E i \in jobs :
                  /\ i.run = k.run /\ i.no = k.no /\ i.tries <= k.tries
                  /\ k.state # "active" => i.state # "active" \/ i.tries < k.tries
  <2>1. \A i \in jobs : i.tries \in Nat
    BY TypeFacts
  <2>2. CASE k \in jobs
    BY <2>1, <2>2
  <2>3. CASE k.run = j.run /\ k.no = j.no /\ k.tries = j.tries + 1
    BY <2>1, <2>3
  <2>. QED
    BY <2>2, <2>3, ReturnedJob
<1>4. \A n \in Nodes :
        \/ worker'[n] = IdleWorker
        \/ /\ worker[n].pc # "idle" /\ worker'[n].run = worker[n].run
           /\ worker'[n].no = worker[n].no /\ worker'[n].tries = worker[n].tries
  BY TypeFacts
<1>5. DriveInv'
  BY <1>2, <1>3, <1>4, Aged
<1>. QED
  BY <1>1, <1>5 DEF QueueKept

\* A heartbeat that is heard or missed changes nothing else of a job.
LEMMA BeatKeeps ==
  ASSUME TypeInv, DriveInv, worker' = worker, jobs' \in SUBSET JobType,
         \A k \in jobs' : \E j \in jobs :
           /\ j.run = k.run /\ j.no = k.no /\ j.tries = k.tries /\ j.state = k.state,
         \A j, k \in jobs' : j.run = k.run => j = k
  PROVE  QueueKept
<1>1. \A k \in jobs' :
        /\ k.tries \in Nat
        /\ \E j \in jobs :
             /\ j.run = k.run /\ j.no = k.no /\ j.tries <= k.tries
             /\ k.state # "active" => j.state # "active" \/ j.tries < k.tries
  BY TypeFacts
<1>2. \A n \in Nodes :
        \/ worker'[n] = IdleWorker
        \/ /\ worker[n].pc # "idle" /\ worker'[n].run = worker[n].run
           /\ worker'[n].no = worker[n].no /\ worker'[n].tries = worker[n].tries
  BY TypeFacts
<1>3. DriveInv'
  BY <1>1, <1>2, Aged
<1>. QED
  BY <1>3, TypeFacts DEF QueueKept

LEMMA OneBeat ==
  ASSUME TypeInv, DriveInv, worker' = worker, NEW j \in jobs, NEW b \in BOOLEAN,
         jobs' = (jobs \ {j}) \cup {[j EXCEPT !.beating = b]}
  PROVE  QueueKept
<1> DEFINE k == [j EXCEPT !.beating = b]
<1>1. /\ k \in JobType /\ k.run = j.run /\ k.no = j.no /\ k.tries = j.tries
      /\ k.state = j.state
  BY TypeFacts DEF JobType
<1>2. jobs' = (jobs \ {j}) \cup {k}
  OBVIOUS
<1> HIDE DEF k
<1>3. \A l, o \in jobs' : l.run = o.run => l = o
  BY <1>1, <1>2 DEF DriveInv, OneJobPerRun
<1>4. /\ jobs' \in SUBSET JobType
      /\ \A l \in jobs' : \E i \in jobs :
           /\ i.run = l.run /\ i.no = l.no /\ i.tries = l.tries /\ i.state = l.state
  BY <1>1, <1>2, TypeFacts
<1>. QED
  BY <1>3, <1>4, BeatKeeps

LEMMA DriveLeaves ==
  ASSUME TypeInv, DriveInv, NEW n \in Nodes, jobs' \subseteq jobs,
         \/ \E pc \in {"driving", "returned"} :
              worker[n].pc # "idle" /\ worker' = [worker EXCEPT ![n].pc = pc]
         \/ worker' = [worker EXCEPT ![n] = IdleWorker]
  PROVE  QueueKept
<1>1. \A m \in Nodes : m # n => worker'[m] = worker[m]
  BY TypeFacts
<1>2. CASE worker' = [worker EXCEPT ![n] = IdleWorker]
  <2>1. worker' \in [Nodes -> WorkerStates] /\ worker'[n] = IdleWorker
    BY <1>2, TypeFacts
  <2>. QED
    BY <1>1, <2>1, QueueShrinks, TypeFacts
<1>3. ASSUME NEW pc \in {"driving", "returned"}, worker[n].pc # "idle",
             worker' = [worker EXCEPT ![n].pc = pc]
      PROVE  QueueKept
  <2>1. worker[n] \in [pc : {"driving", "returned"}, run : Runs, no : Numbers,
                       tries : 0 .. RetryLimit]
    BY <1>3, TypeFacts DEF WorkerStates
  <2>2. /\ [worker[n] EXCEPT !.pc = pc] \in WorkerStates
        /\ worker'[n] = [worker[n] EXCEPT !.pc = pc]
        /\ worker' \in [Nodes -> WorkerStates]
    BY <1>3, <2>1, TypeFacts DEF WorkerStates
  <2>3. /\ worker'[n].run = worker[n].run /\ worker'[n].no = worker[n].no
        /\ worker'[n].tries = worker[n].tries
    BY <2>1, <2>2
  <2>. QED
    BY <1>1, <1>3, <2>2, <2>3, QueueShrinks, TypeFacts
<1>. QED
  BY <1>2, <1>3

LEMMA HandlerThrowsKeeps ==
  ASSUME TypeInv, DriveInv, NEW n \in Nodes, HandlerThrows(n)
  PROVE  QueueKept
<1> DEFINE mine == {j \in jobs : IsJob(j, worker[n]) /\ j.state = "active"}
<1>1. /\ worker' = [worker EXCEPT ![n] = IdleWorker]
      /\ jobs' = IF mine = {} THEN jobs ELSE UNION {Returned(j) : j \in mine}
  BY DEF HandlerThrows
<1>2. CASE mine = {}
  BY <1>1, <1>2, DriveLeaves
<1>3. CASE mine # {}
  <2>1. PICK j \in jobs : j \in mine
    BY <1>3
  <2>2. \A k \in mine : k = j
    BY <2>1 DEF IsJob, DriveInv, OneJobPerRun
  <2>3. mine = {j}
    BY <2>1, <2>2
  <2>. HIDE DEF mine
  <2>4. jobs' = Returned(j)
    BY <1>1, <2>3
  <2>5. /\ worker' \in [Nodes -> WorkerStates]
        /\ \A m \in Nodes : worker'[m] = IdleWorker \/ worker'[m] = worker[m]
    BY <1>1, TypeFacts
  <2>. QED
    BY <2>4, <2>5, ReturnKeeps
<1>. QED
  BY <1>2, <1>3

LEMMA HeartbeatMissedKeeps ==
  ASSUME TypeInv, DriveInv, NEW n \in Nodes, HeartbeatMissed(n)
  PROVE  QueueKept
<1>1. /\ worker' = worker
      /\ jobs' = {IF IsJob(j, worker[n]) THEN [j EXCEPT !.beating = FALSE] ELSE j : j \in jobs}
  BY DEF HeartbeatMissed
<1>2. ASSUME NEW k \in jobs'
      PROVE  \E j \in jobs :
               /\ k = IF IsJob(j, worker[n]) THEN [j EXCEPT !.beating = FALSE] ELSE j
               /\ j.run = k.run /\ j.no = k.no /\ j.tries = k.tries /\ j.state = k.state
               /\ k \in JobType
  <2>1. PICK j \in jobs : k = IF IsJob(j, worker[n]) THEN [j EXCEPT !.beating = FALSE] ELSE j
    BY <1>1
  <2>2. j \in JobType
    BY TypeFacts
  <2>3. PICK l \in JobType : l = [j EXCEPT !.beating = FALSE]
    BY <2>2 DEF JobType
  <2>4. /\ l.run = j.run /\ l.no = j.no /\ l.tries = j.tries /\ l.state = j.state
    BY <2>2, <2>3 DEF JobType
  <2>5. k = j \/ k = l
    BY <2>1, <2>3
  <2>. QED
    BY <2>1, <2>2, <2>3, <2>4, <2>5
<1>3. \A j, k \in jobs' : j.run = k.run => j = k
  <2> SUFFICES ASSUME NEW k \in jobs', NEW l \in jobs', k.run = l.run PROVE k = l
    OBVIOUS
  <2>1. PICK j \in jobs :
          /\ k = IF IsJob(j, worker[n]) THEN [j EXCEPT !.beating = FALSE] ELSE j
          /\ j.run = k.run
    BY <1>2
  <2>2. PICK i \in jobs :
          /\ l = IF IsJob(i, worker[n]) THEN [i EXCEPT !.beating = FALSE] ELSE i
          /\ i.run = l.run
    BY <1>2
  <2>3. i = j
    BY <2>1, <2>2 DEF DriveInv, OneJobPerRun
  <2>. QED
    BY <2>1, <2>2, <2>3
<1>4. jobs' \in SUBSET JobType
  BY <1>2
<1>5. \A k \in jobs' : \E j \in jobs :
        j.run = k.run /\ j.no = k.no /\ j.tries = k.tries /\ j.state = k.state
  BY <1>2
<1>. QED
  BY <1>1, <1>3, <1>4, <1>5, BeatKeeps

\* Every step leaves the queue as it should be.
LEMMA QueueSteps ==
  ASSUME TypeInv, DriveInv, Next
  PROVE  QueueKept
<1>1. CASE HandlerStep
  <2>1. PICK r \in Runs : StartRun(r) \/ SignalDecision(r) \/ CancelRun(r)
                          \/ EnqueueAdvanceReliably(r) \/ EnqueueLost(r)
    BY <1>1 DEF HandlerStep
  <2>2. CASE EnqueueAdvanceReliably(r) /\ Accepts(r)
    <3> DEFINE S == {r}
    <3>1. /\ jobs' = jobs \cup {NewJob(x) : x \in S} /\ worker' = worker
          /\ S \in SUBSET Runs /\ \A x \in S : Accepts(x)
      BY <2>2 DEF EnqueueAdvanceReliably, Enqueued
    <3> HIDE DEF S
    <3>2. DriveInv' /\ jobs' \in SUBSET JobType
      BY <2>2, <3>1, Enlisted
    <3>. QED
      BY <3>1, <3>2, TypeFacts DEF QueueKept
  <2>3. CASE ~(EnqueueAdvanceReliably(r) /\ Accepts(r))
    BY <2>1, <2>3, QueueStands DEF StartRun, SignalDecision, CancelRun,
       EnqueueAdvanceReliably, EnqueueLost, Enqueued
  <2>. QED
    BY <2>2, <2>3
<1>2. CASE WorkerStep
  <2>1. PICK n \in Nodes : Fetch(n) \/ Drive(n) \/ CompleteJob(n) \/ HandlerThrows(n)
                           \/ HeartbeatMissed(n) \/ HeartbeatSent(n) \/ Crash(n)
    BY <1>2 DEF WorkerStep
  <2>2. CASE Drive(n)
    <3>1. PICK r \in Runs :
            \/ Progress(n, r)       \/ CompleteRun(n, r)    \/ FailAdvance(n, r)
            \/ PauseForBudget(n, r) \/ ParkOnDecision(n, r) \/ RearmGate(n, r)
            \/ NoopDrive(n, r)
      BY <2>2 DEF Drive
    <3>2. worker[n].pc = "driving" /\ jobs' = jobs
      BY <3>1 DEF Progress, CompleteRun, FailAdvance, PauseForBudget, ParkOnDecision,
         RearmGate, NoopDrive, Driving, LeaveRun
    <3>3. \E pc \in {"driving", "returned"} : worker' = [worker EXCEPT ![n].pc = pc]
      <4>1. CASE Progress(n, r)
        BY <4>1, <3>2 DEF Progress, LeaveRun
      <4>2. CASE ~Progress(n, r)
        BY <3>1, <4>2 DEF CompleteRun, FailAdvance, PauseForBudget, ParkOnDecision,
           RearmGate, NoopDrive, LeaveRun
      <4>. QED
        BY <4>1, <4>2
    <3>. QED
      BY <3>2, <3>3, DriveLeaves
  <2>3. CASE CompleteJob(n) \/ Crash(n)
    BY <2>3, DriveLeaves DEF CompleteJob, Crash
  <2>4. CASE HeartbeatSent(n)
    <3>1. PICK j \in jobs : jobs' = (jobs \ {j}) \cup {[j EXCEPT !.beating = TRUE]}
      BY <2>4 DEF HeartbeatSent
    <3>. QED
      BY <2>4, <3>1, OneBeat DEF HeartbeatSent
  <2>. QED
    BY <2>1, <2>2, <2>3, <2>4, FetchKeeps, HandlerThrowsKeeps, HeartbeatMissedKeeps
<1>3. CASE QueueStep
  <2>1. PICK j \in jobs : HeartbeatStops(j) \/ Maintain(j)
    BY <1>3 DEF QueueStep
  <2>2. CASE HeartbeatStops(j)
    BY <2>2, OneBeat DEF HeartbeatStops
  <2>3. CASE Maintain(j)
    BY <2>3, ReturnKeeps, TypeFacts DEF Maintain
  <2>. QED
    BY <2>1, <2>2, <2>3
<1>4. CASE SweeperStep
  <2>1. PICK n \in Nodes :
          \/ TickStart(n) \/ Recover(n) \/ ResumePausedRuns(n) \/ FlushBatch(n)
          \/ TickThrows(n)
          \/ \E r \in Runs : Classify(n, r) \/ RecoverThrows(n, r)
    BY <1>4 DEF SweeperStep
  <2>2. CASE Recover(n)
    <3>1. jobs' \subseteq jobs /\ worker' = worker
      BY <2>2 DEF Recover, LeaveLive, GiveUp, Redrive, Reclaimed
    <3>. QED
      BY <3>1, QueueShrinks, TypeFacts
  <2>3. CASE FlushBatch(n)
    <3> DEFINE S == {b \in sweep[n].batch : Accepts(b)}
    <3>1. S \in SUBSET Runs /\ \A r \in S : Accepts(r)
      BY TypeFacts DEF SweepStates
    <3>2. jobs' = jobs \cup {NewJob(r) : r \in S} /\ worker' = worker
      BY <2>3 DEF FlushBatch
    <3> HIDE DEF S
    <3>3. DriveInv' /\ jobs' \in SUBSET JobType
      BY <3>1, <3>2, Enlisted
    <3>. QED
      BY <3>2, <3>3, TypeFacts DEF QueueKept
  <2>4. CASE ~Recover(n) /\ ~FlushBatch(n)
    BY <2>1, <2>4, QueueStands DEF TickStart, ResumePausedRuns, TickThrows, Classify,
       RecoverThrows
  <2>. QED
    BY <2>2, <2>3, <2>4
<1>5. CASE BudgetFlips \/ \E r \in Runs : LeaseExpires(r)
  BY <1>5, QueueStands DEF BudgetFlips, LeaseExpires
<1>. QED
  BY <1>1, <1>2, <1>3, <1>4, <1>5 DEF Next

-----------------------------------------------------------------------------
(* Types. *)

LEMMA ClockFacts ==
  /\ \A S \in SUBSET Runs : \A f \in [S -> 0 .. HardTicks] : f \in Clocks
  /\ \A f \in Clocks : /\ DOMAIN f \in SUBSET Runs
                       /\ f \in [DOMAIN f -> 0 .. HardTicks]
BY DEF Clocks

\* Dropping clocks keeps the others as they are.
LEMMA WithoutFacts ==
  ASSUME NEW f \in Clocks, NEW S
  PROVE  /\ Without(f, S) \in Clocks
         /\ DOMAIN Without(f, S) = DOMAIN f \ S
         /\ \A r \in DOMAIN f \ S : Without(f, S)[r] = f[r]
<1>1. Without(f, S) \in [DOMAIN f \ S -> 0 .. HardTicks]
  BY ClockFacts DEF Without
<1>2. DOMAIN f \ S \in SUBSET Runs
  BY ClockFacts
<1>3. Without(f, S) \in Clocks
  BY <1>1, <1>2, ClockFacts
<1>. QED
  BY <1>3 DEF Without

\* The sweeper's half of TypeInv, and what a step may do to it.
SweepTyped ==
  /\ sweep \in [Nodes -> SweepStates]
  /\ \A n \in Nodes : sweep[n].pc = "recovering" => sweep[n].run \in Runs
  /\ tried \in [Nodes -> SUBSET Runs]

\* One sweeper moves to a proper state of its own.
LEMMA OneSweep ==
  ASSUME TypeInv, NEW n \in Nodes, NEW s \in SweepStates, NEW T \in SUBSET Runs,
         s.pc = "recovering" => s.run \in Runs,
         sweep' = [sweep EXCEPT ![n] = s], tried' = [tried EXCEPT ![n] = T]
  PROVE  SweepTyped'
BY DEF SweepTyped, TypeInv

LEMMA SweepFields ==
  ASSUME TypeInv, NEW n \in Nodes
  PROVE  /\ sweep[n] \in SweepStates /\ sweep[n].since \in Clocks
         /\ sweep[n].todo \in SUBSET Runs /\ sweep[n].keep \in SUBSET Runs
         /\ sweep[n].batch \in SUBSET Runs /\ tried[n] \in SUBSET Runs
         /\ sweep[n].pc \in {"idle", "sweeping", "recovering", "flushing"}
BY DEF TypeInv, SweepStates

LEMMA TickStartTyped ==
  ASSUME TypeInv, NEW n \in Nodes, TickStart(n)
  PROVE  SweepTyped'
<1> DEFINE old  == sweep[n].since
           since == [r \in DOMAIN old |-> Capped(old[r])]
           s == [sweep[n] EXCEPT !.pc = "sweeping", !.keep = {}, !.batch = {},
                                 !.todo = {r \in lapsed : status[r] = "running"},
                                 !.since = since]
<1>1. since \in Clocks
  <2>1. \A k \in 0 .. HardTicks : Capped(k) \in 0 .. HardTicks
    BY TypeFacts DEF Capped
  <2>2. old \in [DOMAIN old -> 0 .. HardTicks] /\ DOMAIN old \in SUBSET Runs
    BY SweepFields, ClockFacts
  <2>3. since \in [DOMAIN old -> 0 .. HardTicks]
    BY <2>1, <2>2
  <2>. QED
    BY <2>2, <2>3, ClockFacts
<1>2. {r \in lapsed : status[r] = "running"} \in SUBSET Runs
  BY TypeFacts
<1> HIDE DEF since
<1>3. s \in SweepStates /\ s.pc = "sweeping"
  BY <1>1, <1>2, SweepFields DEF SweepStates
<1>4. sweep' = [sweep EXCEPT ![n] = s] /\ tried' = tried
  BY TypeFacts DEF TickStart, since
<1>5. tried' = [tried EXCEPT ![n] = tried[n]] /\ tried[n] \in SUBSET Runs
  BY <1>4, TypeFacts
<1> HIDE DEF s
<1>. QED
  BY <1>3, <1>4, <1>5, OneSweep

LEMMA ClassifyTyped ==
  ASSUME TypeInv, NEW n \in Nodes, NEW r \in Runs, Classify(n, r) \/ RecoverThrows(n, r)
  PROVE  SweepTyped'
<1>1. tried' = [tried EXCEPT ![n] = tried[n]] /\ tried[n] \in SUBSET Runs
  BY TypeFacts DEF Classify, RecoverThrows
<1>2. CASE Classify(n, r)
  <2>1. PICK v \in {"missing", "orphaned", "live"}, k \in Numbers \cup {NoJob} :
          sweep' = [sweep EXCEPT ![n] =
            [sweep[n] EXCEPT !.pc = "recovering", !.todo = sweep[n].todo \ {r}, !.run = r,
                             !.verdict = v, !.no = k]]
    <3> DEFINE v == IF JobsOf(r) = {} THEN "missing"
                    ELSE IF \E j \in JobsOf(r) : j.state = "active" /\ ~j.beating
                    THEN "orphaned" ELSE "live"
               k == IF v = "orphaned" THEN (CHOOSE j \in JobsOf(r) : TRUE).no ELSE NoJob
    <3>1. sweep' = [sweep EXCEPT ![n] =
            [sweep[n] EXCEPT !.pc = "recovering", !.todo = sweep[n].todo \ {r}, !.run = r,
                             !.verdict = v, !.no = k]]
      BY <1>2 DEF Classify
    <3>2. v \in {"missing", "orphaned", "live"}
      OBVIOUS
    <3>3. k \in Numbers \cup {NoJob}
      <4>1. v = "orphaned" => (CHOOSE j \in JobsOf(r) : TRUE) \in JobsOf(r)
        OBVIOUS
      <4>2. \A j \in JobsOf(r) : j.no \in Numbers
        BY TypeFacts DEF JobsOf
      <4>. QED
        BY <4>1, <4>2
    <3>. QED
      BY <3>1, <3>2, <3>3
  <2> DEFINE s == [sweep[n] EXCEPT !.pc = "recovering", !.todo = sweep[n].todo \ {r}, !.run = r,
                                   !.verdict = v, !.no = k]
  <2>2. s \in SweepStates /\ s.run = r
    BY SweepFields DEF SweepStates
  <2>. QED
    BY <1>1, <2>1, <2>2, OneSweep
<1>3. CASE RecoverThrows(n, r)
  <2> DEFINE s == [sweep[n] EXCEPT !.todo = sweep[n].todo \ {r}, !.keep = @ \cup {r}]
  <2>1. s \in SweepStates /\ s.pc = "sweeping"
    BY <1>3, SweepFields DEF SweepStates, RecoverThrows
  <2>2. sweep' = [sweep EXCEPT ![n] = s]
    BY <1>3 DEF RecoverThrows, ThrowContained
  <2>. QED
    BY <1>1, <2>1, <2>2, OneSweep
<1>. QED
  BY <1>2, <1>3

\* A run put back on the queue keeps the clock it has, or starts one.
LEMMA RedriveClock ==
  ASSUME NEW f \in Clocks, NEW r \in Runs
  PROVE  LET g == [x \in DOMAIN f \cup {r} |-> IF x \in DOMAIN f THEN f[x] ELSE 0]
         IN /\ g \in Clocks /\ DOMAIN g = DOMAIN f \cup {r}
            /\ \A x \in DOMAIN f : g[x] = f[x]
            /\ r \notin DOMAIN f => g[r] = 0
<1> DEFINE g == [x \in DOMAIN f \cup {r} |-> IF x \in DOMAIN f THEN f[x] ELSE 0]
<1>1. HardTicks \in Nat
  BY QueueAssumption DEF QueueAssumption
<1>2. DOMAIN f \cup {r} \in SUBSET Runs /\ g \in [DOMAIN f \cup {r} -> 0 .. HardTicks]
  BY <1>1, ClockFacts
<1>3. g \in Clocks
  BY <1>2, ClockFacts
<1>. QED
  BY <1>3

LEMMA RecoverTyped ==
  ASSUME TypeInv, NEW n \in Nodes, Recover(n)
  PROVE  SweepTyped' /\ status' \in [Runs -> Statuses]
<1> DEFINE r == sweep[n].run
           old == sweep[n].since
<1>1. r \in Runs /\ sweep[n] \in SweepStates /\ old \in Clocks
  BY SweepFields DEF Recover, TypeInv
<1>2. LeaveLive(n, r) \/ GiveUp(n, r) \/ Redrive(n, r)
  BY DEF Recover
<1>3. Without(old, {r}) \in Clocks
  BY <1>1, WithoutFacts
<1>4. CASE LeaveLive(n, r)
  <2> DEFINE s == [sweep[n] EXCEPT !.pc = "sweeping", !.run = NoRun,
                                   !.since = Without(@, {r})]
  <2>1. s \in SweepStates /\ s.pc = "sweeping"
    BY <1>1, <1>3 DEF SweepStates
  <2>2. /\ sweep' = [sweep EXCEPT ![n] = s] /\ tried' = [tried EXCEPT ![n] = tried[n] \ {r}]
        /\ tried[n] \ {r} \in SUBSET Runs /\ status' = status
    BY <1>4, TypeFacts DEF LeaveLive, runVars
  <2>. QED
    BY <2>1, <2>2, OneSweep, TypeFacts
<1>5. CASE GiveUp(n, r)
  <2> DEFINE s == [sweep[n] EXCEPT !.pc = "sweeping", !.run = NoRun, !.no = NoJob,
                                   !.since = Without(@, {r})]
  <2>1. s \in SweepStates /\ s.pc = "sweeping"
    BY <1>1, <1>3 DEF SweepStates
  <2>2. /\ sweep' = [sweep EXCEPT ![n] = s] /\ tried' = [tried EXCEPT ![n] = tried[n] \ {r}]
        /\ tried[n] \ {r} \in SUBSET Runs
    BY <1>5, TypeFacts DEF GiveUp
  <2>3. status' \in [Runs -> Statuses]
    BY <1>5, TypeFacts DEF GiveUp, Statuses
  <2>. QED
    BY <2>1, <2>2, <2>3, OneSweep
<1>6. CASE Redrive(n, r)
  <2> DEFINE since == [x \in DOMAIN old \cup {r} |-> IF x \in DOMAIN old THEN old[x] ELSE 0]
             s == [sweep[n] EXCEPT !.pc = "sweeping", !.run = NoRun, !.no = NoJob,
                                   !.keep = sweep[n].keep \cup {r},
                                   !.batch = sweep[n].batch \cup {r},
                                   !.since = since]
  <2>1. since \in Clocks
    BY <1>1, RedriveClock
  <2>2. /\ sweep' = [sweep EXCEPT ![n] = s] /\ tried' = [tried EXCEPT ![n] = tried[n]]
        /\ tried[n] \in SUBSET Runs /\ status' = status
    BY <1>6, TypeFacts DEF Redrive, runVars
  <2> HIDE DEF since
  <2>3. s \in SweepStates /\ s.pc = "sweeping"
    BY <1>1, <2>1, SweepFields DEF SweepStates
  <2>. QED
    BY <2>2, <2>3, OneSweep, TypeFacts
<1>. QED
  BY <1>2, <1>4, <1>5, <1>6

LEMMA SweepEndsTyped ==
  ASSUME TypeInv, NEW n \in Nodes,
         ResumePausedRuns(n) \/ FlushBatch(n) \/ TickThrows(n) \/ Crash(n)
  PROVE  SweepTyped'
<1>1. /\ sweep[n] \in SweepStates /\ sweep[n].since \in Clocks /\ tried[n] \in SUBSET Runs
      /\ sweep[n].batch \in SUBSET Runs
  BY SweepFields
<1>2. CASE ResumePausedRuns(n)
  <2> DEFINE gone == DOMAIN sweep[n].since \ sweep[n].keep
             s == [sweep[n] EXCEPT !.pc = "flushing", !.since = Without(@, gone),
                                   !.keep = {}, !.batch = sweep[n].batch \cup Resumable]
  <2>1. Without(sweep[n].since, gone) \in Clocks
    BY <1>1, WithoutFacts
  <2>2. Resumable \in SUBSET Runs
    BY DEF Resumable
  <2>3. s \in SweepStates /\ s.pc = "flushing"
    BY <1>1, <2>1, <2>2 DEF SweepStates
  <2>4. /\ sweep' = [sweep EXCEPT ![n] = s] /\ tried' = [tried EXCEPT ![n] = tried[n] \ gone]
        /\ tried[n] \ gone \in SUBSET Runs
    BY <1>1, <1>2 DEF ResumePausedRuns
  <2>. QED
    BY <2>3, <2>4, OneSweep
<1>3. CASE FlushBatch(n)
  <2> DEFINE s == [sweep[n] EXCEPT !.pc = "idle", !.batch = {}]
             T == tried[n] \cup (sweep[n].batch \cap DOMAIN sweep[n].since)
  <2>1. s \in SweepStates /\ s.pc = "idle" /\ T \in SUBSET Runs
    BY <1>1 DEF SweepStates
  <2>2. sweep' = [sweep EXCEPT ![n] = s] /\ tried' = [tried EXCEPT ![n] = T]
    BY <1>3 DEF FlushBatch
  <2>. QED
    BY <2>1, <2>2, OneSweep
<1>4. CASE TickThrows(n)
  <2> DEFINE s == [sweep[n] EXCEPT !.pc = "idle", !.batch = {}]
  <2>1. s \in SweepStates /\ s.pc = "idle"
    BY <1>1 DEF SweepStates
  <2>2. sweep' = [sweep EXCEPT ![n] = s] /\ tried' = [tried EXCEPT ![n] = tried[n]]
    BY <1>4, TypeFacts DEF TickThrows
  <2>. QED
    BY <1>1, <2>1, <2>2, OneSweep
<1>5. CASE Crash(n)
  <2> DEFINE s == [sweep[n] EXCEPT !.pc = "idle", !.todo = {}, !.run = NoRun, !.no = NoJob,
                                   !.keep = {}, !.batch = {}, !.since = [r \in {} |-> 0]]
  <2>1. [r \in {} |-> 0] \in Clocks
    BY ClockFacts
  <2>2. s \in SweepStates /\ s.pc = "idle"
    BY <1>1, <2>1 DEF SweepStates
  <2>3. sweep' = [sweep EXCEPT ![n] = s] /\ tried' = [tried EXCEPT ![n] = {}]
    BY <1>5 DEF Crash
  <2>. QED
    BY <2>2, <2>3, OneSweep
<1>. QED
  BY <1>2, <1>3, <1>4, <1>5

\* What the other variables hold, whoever steps.
OthersTyped ==
  /\ status \in [Runs -> Statuses]
  /\ work \in [Runs -> 0 .. MaxWork] /\ detours \in [Runs -> 0 .. MaxDetours]
  /\ lapsed \in SUBSET Runs
  /\ sender \in [Runs -> 0 .. Resends]
  /\ budget \in BOOLEAN
  /\ left \in [flips : 0 .. MaxFlips, faults : 0 .. MaxFaults]

LEMMA FaultTyped ==
  ASSUME TypeInv, NEW kind, Fault(kind)
  PROVE  left' \in [flips : 0 .. MaxFlips, faults : 0 .. MaxFaults]
BY TypeFacts DEF Fault

LEMMA HandlerTyped ==
  ASSUME TypeInv, HandlerStep
  PROVE  OthersTyped'
<1>1. PICK r \in Runs : StartRun(r) \/ SignalDecision(r) \/ CancelRun(r)
                        \/ EnqueueAdvanceReliably(r) \/ EnqueueLost(r)
  BY DEF HandlerStep
<1>2. CASE StartRun(r)
  BY <1>2, TypeFacts DEF StartRun, OthersTyped, Statuses, faultVars
<1>3. CASE SignalDecision(r)
  BY <1>3, TypeFacts DEF SignalDecision, OthersTyped, Statuses, faultVars
<1>4. CASE CancelRun(r)
  BY <1>4, TypeFacts DEF CancelRun, OthersTyped, Statuses, faultVars
<1>5. CASE EnqueueAdvanceReliably(r)
  BY <1>5, TypeFacts DEF EnqueueAdvanceReliably, OthersTyped, faultVars, runVars
<1>6. CASE EnqueueLost(r)
  BY <1>6, TypeFacts, FaultTyped DEF EnqueueLost, OthersTyped, runVars
<1>. QED
  BY <1>1, <1>2, <1>3, <1>4, <1>5, <1>6

LEMMA WorkerTyped ==
  ASSUME TypeInv, NEW n \in Nodes,
         Fetch(n) \/ Drive(n) \/ CompleteJob(n) \/ HandlerThrows(n)
         \/ HeartbeatMissed(n) \/ HeartbeatSent(n)
  PROVE  OthersTyped' /\ UNCHANGED <<sweep, tried>>
<1>1. CASE Drive(n)
  <2>1. PICK r \in Runs :
            \/ Progress(n, r)       \/ CompleteRun(n, r)    \/ FailAdvance(n, r)
            \/ PauseForBudget(n, r) \/ ParkOnDecision(n, r) \/ RearmGate(n, r)
            \/ NoopDrive(n, r)
    BY <1>1 DEF Drive
  <2>2. CASE NoopDrive(n, r)
    BY <2>2, TypeFacts DEF NoopDrive, OthersTyped, runVars, faultVars
  <2>3. CASE ~NoopDrive(n, r)
    <3>1. PICK s \in Statuses : /\ status' = [status EXCEPT ![r] = s]
                                /\ lapsed' = lapsed \ {r}
                                /\ UNCHANGED <<jobs, sender, sweep, tried, faultVars>>
      BY <2>1, <2>3 DEF Progress, CompleteRun, FailAdvance, PauseForBudget, ParkOnDecision,
         RearmGate, LeaveRun, Statuses
    <3>2. work' \in [Runs -> 0 .. MaxWork] /\ detours' \in [Runs -> 0 .. MaxDetours]
      <4>1. CASE Progress(n, r)
        <5>1. work[r] - 1 \in 0 .. MaxWork
          BY <4>1, TypeFacts DEF Progress
        <5>. QED
          BY <4>1, <5>1, TypeFacts DEF Progress
      <4>2. CASE ParkOnDecision(n, r) \/ RearmGate(n, r)
        <5>1. detours[r] - 1 \in 0 .. MaxDetours
          <6>1. detours[r] > 0
            BY <4>2 DEF ParkOnDecision, RearmGate
          <6>2. detours[r] \in 0 .. MaxDetours /\ MaxDetours \in Nat
            BY TypeFacts
          <6>. QED
            BY <6>1, <6>2
        <5>. QED
          BY <4>2, <5>1, TypeFacts, ZenonT(60) DEF ParkOnDecision, RearmGate
      <4>3. CASE CompleteRun(n, r) \/ FailAdvance(n, r) \/ PauseForBudget(n, r)
        BY <4>3, TypeFacts DEF CompleteRun, FailAdvance, PauseForBudget
      <4>. QED
        BY <2>1, <2>3, <4>1, <4>2, <4>3
    <3>. QED
      BY <3>1, <3>2, TypeFacts DEF OthersTyped, faultVars
  <2>. QED
    BY <2>2, <2>3
<1>2. CASE HandlerThrows(n) \/ HeartbeatMissed(n)
  BY <1>2, TypeFacts, FaultTyped DEF HandlerThrows, HeartbeatMissed, OthersTyped, runVars
<1>3. CASE Fetch(n) \/ CompleteJob(n) \/ HeartbeatSent(n)
  BY <1>3, TypeFacts DEF Fetch, CompleteJob, HeartbeatSent, OthersTyped, runVars, faultVars
<1>. QED
  BY <1>1, <1>2, <1>3

LEMMA SweeperTyped ==
  ASSUME TypeInv, NEW n \in Nodes,
         \/ TickStart(n) \/ Recover(n) \/ ResumePausedRuns(n) \/ FlushBatch(n)
         \/ TickThrows(n) \/ Crash(n)
         \/ \E r \in Runs : Classify(n, r) \/ RecoverThrows(n, r)
  PROVE  OthersTyped' /\ SweepTyped'
<1>1. CASE Recover(n)
  <2>1. SweepTyped' /\ status' \in [Runs -> Statuses]
    BY <1>1, RecoverTyped
  <2>2. UNCHANGED <<work, detours, lapsed, sender, faultVars>>
    BY <1>1 DEF Recover, LeaveLive, GiveUp, Redrive, runVars
  <2>. QED
    BY <2>1, <2>2, TypeFacts DEF OthersTyped, faultVars
<1>2. CASE TickThrows(n) \/ Crash(n)
  <2>1. SweepTyped'
    BY <1>2, SweepEndsTyped
  <2>. QED
    BY <1>2, <2>1, TypeFacts, FaultTyped DEF TickThrows, Crash, OthersTyped, runVars
<1>3. CASE ~Recover(n) /\ ~TickThrows(n) /\ ~Crash(n)
  <2>1. SweepTyped'
    BY <1>3, TickStartTyped, ClassifyTyped, SweepEndsTyped
  <2>2. UNCHANGED <<status, work, detours, lapsed, sender, budget, left>>
    BY <1>3 DEF TickStart, ResumePausedRuns, FlushBatch, Classify, RecoverThrows, runVars,
       faultVars
  <2>. QED
    BY <2>1, <2>2, TypeFacts DEF OthersTyped
<1>. QED
  BY <1>1, <1>2, <1>3

LEMMA OthersStep ==
  ASSUME TypeInv, Next
  PROVE  OthersTyped' /\ SweepTyped'
<1>1. UNCHANGED <<sweep, tried>> => SweepTyped'
  BY DEF SweepTyped, TypeInv
<1>2. CASE HandlerStep
  <2>1. UNCHANGED <<sweep, tried>>
    BY <1>2 DEF HandlerStep, StartRun, SignalDecision, CancelRun, EnqueueAdvanceReliably,
       EnqueueLost
  <2>. QED
    BY <1>1, <1>2, <2>1, HandlerTyped
<1>3. CASE WorkerStep
  BY <1>1, <1>3, WorkerTyped, SweeperTyped DEF WorkerStep
<1>4. CASE QueueStep
  <2>1. UNCHANGED <<status, work, detours, lapsed, sender, budget, left, sweep, tried>>
    BY <1>4 DEF QueueStep, HeartbeatStops, Maintain, runVars, faultVars
  <2>. QED
    BY <1>1, <2>1, TypeFacts DEF OthersTyped
<1>5. CASE SweeperStep
  BY <1>5, SweeperTyped DEF SweeperStep
<1>6. CASE BudgetFlips
  BY <1>1, <1>6, TypeFacts DEF BudgetFlips, OthersTyped, runVars
<1>7. ASSUME NEW r \in Runs, LeaseExpires(r)
      PROVE  OthersTyped' /\ SweepTyped'
  BY <1>1, <1>7, TypeFacts DEF LeaseExpires, OthersTyped, faultVars
<1>. QED
  BY <1>2, <1>3, <1>4, <1>5, <1>6, <1>7 DEF Next

QueueInv == TypeInv /\ DriveInv

LEMMA QueueInit ==
  ASSUME Init
  PROVE  QueueInv
<1>1. /\ MaxWork \in Nat /\ MaxDetours \in Nat /\ Resends \in Nat
      /\ MaxFlips \in Nat /\ MaxFaults \in Nat /\ Funded \in BOOLEAN
  BY QueueAssumption DEF QueueAssumption
<1>2. sweep \in [Nodes -> SweepStates] /\ \A n \in Nodes : sweep[n].pc = "idle"
  <2>1. [r \in {} |-> 0] \in Clocks
    BY ClockFacts
  <2>. QED
    BY <2>1 DEF Init, SweepStates
<1>3. worker \in [Nodes -> WorkerStates]
  BY DEF Init, WorkerStates
<1>4. TypeInv
  <2>1. status \in [Runs -> Statuses] /\ lapsed \in SUBSET Runs /\ jobs \in SUBSET JobType
    BY DEF Init, Statuses
  <2>2. work \in [Runs -> 0 .. MaxWork] /\ detours \in [Runs -> 0 .. MaxDetours]
    BY <1>1 DEF Init
  <2>3. sender \in [Runs -> 0 .. Resends] /\ budget \in BOOLEAN /\ tried \in [Nodes -> SUBSET Runs]
    BY <1>1 DEF Init
  <2>4. left \in [flips : 0 .. MaxFlips, faults : 0 .. MaxFaults]
    BY <1>1 DEF Init
  <2>. QED
    BY <1>2, <1>3, <2>1, <2>2, <2>3, <2>4 DEF TypeInv
<1>5. DriveInv
  BY DEF Init, DriveInv, OneJobPerRun, AttemptsCount, AttemptsDiffer, IdleWorker
<1>. QED
  BY <1>4, <1>5 DEF QueueInv

LEMMA QueueInvStep ==
  QueueInv /\ [Next]_vars => QueueInv'
<1> SUFFICES ASSUME QueueInv, [Next]_vars PROVE QueueInv'
  OBVIOUS
<1>1. CASE Next
  BY <1>1, QueueSteps, OthersStep DEF QueueInv, QueueKept, OthersTyped, SweepTyped, TypeInv
<1>2. CASE UNCHANGED vars
  BY <1>2 DEF vars, QueueInv, TypeInv, DriveInv, OneJobPerRun, AttemptsCount, AttemptsDiffer
<1>. QED
  BY <1>1, <1>2

LEMMA QueueInvReached ==
  Spec => []QueueInv
BY QueueInit, QueueInvStep, PTL DEF Spec

-----------------------------------------------------------------------------
(* The theorems. *)

\* The types hold, the numbers of a run's jobs suffice and a job is never
\* handed out more often than its retries allow (driveJobOptions).
THEOREM QueueTypes ==
  Spec => []TypeOK
<1>1. QueueInv => TypeOK
  BY SweepFields, ClockFacts DEF QueueInv, TypeInv, TypeOK, WorkerStates
<1>. QED
  BY <1>1, QueueInvReached, PTL

\* The queue never has two workers entitled to drive one run, however many
\* drives it has written off and whoever enqueues (pgBossRunner).
THEOREM DrivesAreExclusive ==
  Spec => []OneEntitledDrive
<1>1. QueueInv => OneEntitledDrive
  <2> SUFFICES ASSUME QueueInv, NEW n \in Nodes, NEW m \in Nodes, n # m,
                      worker[n].run = worker[m].run, worker[n].pc # "idle",
                      Entitled(n), Entitled(m)
               PROVE  FALSE
    BY DEF OneEntitledDrive
  <2>1. PICK j \in jobs : IsJob(j, worker[n]) /\ j.tries = worker[n].tries
    BY DEF Entitled
  <2>2. PICK k \in jobs : IsJob(k, worker[m]) /\ k.tries = worker[m].tries
    BY DEF Entitled
  <2>3. k = j
    BY <2>1, <2>2 DEF IsJob, QueueInv, DriveInv, OneJobPerRun
  <2>4. worker[m].pc # "idle"
    <3>1. k.no \in Numbers /\ NoJob \notin Numbers
      BY TypeFacts DEF QueueInv
    <3>. QED
      BY <2>2, <3>1, TypeFacts DEF QueueInv, IsJob, IdleWorker
  <2>. QED
    BY <2>1, <2>2, <2>3, <2>4 DEF IsJob, QueueInv, DriveInv, AttemptsDiffer
<1>. QED
  BY <1>1, QueueInvReached, PTL
-----------------------------------------------------------------------------
(* Clocks. *)

\* ClockInv of one node's tick and history.
ClockOf(s, T) ==
  /\ s.pc = "idle" => s.batch = {}
  /\ \A r \in DOMAIN s.since :
       \/ r \in T
       \/ /\ r \in s.batch /\ s.since[r] = 0
          /\ s.pc # "flushing" => r \in s.keep

LEMMA OneClock ==
  ASSUME TypeInv, ClockInv, NEW n \in Nodes, NEW s, NEW T, ClockOf(s, T),
         sweep' = [sweep EXCEPT ![n] = s], tried' = [tried EXCEPT ![n] = T]
  PROVE  ClockInv'
<1>1. SUFFICES ASSUME NEW m \in Nodes PROVE ClockOf(sweep[m], tried[m])'
  BY DEF ClockInv, ClockOf
<1>2. CASE m = n
  <2>1. sweep'[m] = s /\ tried'[m] = T
    BY <1>2 DEF TypeInv
  <2>. QED
    BY <2>1 DEF ClockOf
<1>3. CASE m # n
  <2>1. sweep'[m] = sweep[m] /\ tried'[m] = tried[m]
    BY <1>3 DEF TypeInv
  <2>2. ClockOf(sweep[m], tried[m])
    BY DEF ClockInv, ClockOf
  <2>. QED
    BY <2>1, <2>2 DEF ClockOf
<1>. QED
  BY <1>2, <1>3

\* A tick collects and gives up its runs: their clocks go with their history.
LEMMA TickClock ==
  ASSUME TypeInv, ClockInv, NEW n \in Nodes,
         \/ TickStart(n)
         \/ \E r \in Runs : Classify(n, r) \/ RecoverThrows(n, r)
  PROVE  ClockInv'
<1>1. /\ ClockOf(sweep[n], tried[n])
      /\ sweep[n] \in SweepStates /\ sweep[n].since \in Clocks
  BY SweepFields DEF ClockInv, ClockOf
<1>2. CASE TickStart(n)
  <2> DEFINE since == [r \in DOMAIN sweep[n].since |-> Capped(sweep[n].since[r])]
             s == [sweep[n] EXCEPT !.pc = "sweeping", !.keep = {}, !.batch = {},
                                   !.todo = {r \in lapsed : status[r] = "running"},
                                   !.since = since]
  <2>1. DOMAIN since = DOMAIN sweep[n].since
    OBVIOUS
  <2>2. sweep' = [sweep EXCEPT ![n] = s] /\ tried' = [tried EXCEPT ![n] = tried[n]]
    BY <1>2, TypeFacts DEF TickStart
  <2> HIDE DEF since
  <2>3. s.pc = "sweeping" /\ s.since = since
    BY <1>1 DEF SweepStates
  <2>4. \A r \in DOMAIN sweep[n].since : r \in tried[n]
    BY <1>1, <1>2 DEF ClockOf, TickStart
  <2>5. ClockOf(s, tried[n])
    BY <2>1, <2>3, <2>4 DEF ClockOf
  <2> HIDE DEF s
  <2>. QED
    BY <2>2, <2>5, OneClock
<1>3. ASSUME NEW r \in Runs, Classify(n, r)
      PROVE  ClockInv'
  <2>1. PICK td, v, k : sweep' = [sweep EXCEPT ![n] =
            [sweep[n] EXCEPT !.pc = "recovering", !.todo = td, !.run = r,
                             !.verdict = v, !.no = k]]
    BY <1>3 DEF Classify
  <2> DEFINE s == [sweep[n] EXCEPT !.pc = "recovering", !.todo = td, !.run = r,
                                   !.verdict = v, !.no = k]
  <2>2. /\ s.pc = "recovering" /\ s.batch = sweep[n].batch /\ s.keep = sweep[n].keep
        /\ s.since = sweep[n].since
    BY <1>1 DEF SweepStates
  <2>3. ClockOf(s, tried[n])
    BY <1>1, <1>3, <2>2 DEF ClockOf, Classify
  <2>4. sweep' = [sweep EXCEPT ![n] = s] /\ tried' = [tried EXCEPT ![n] = tried[n]]
    BY <1>3, <2>1, TypeFacts DEF Classify
  <2> HIDE DEF s
  <2>. QED
    BY <2>3, <2>4, OneClock
<1>4. ASSUME NEW r \in Runs, RecoverThrows(n, r)
      PROVE  ClockInv'
  <2> DEFINE s == [sweep[n] EXCEPT !.todo = @ \ {r}, !.keep = @ \cup {r}]
  <2>1. /\ s.pc = sweep[n].pc /\ s.batch = sweep[n].batch
        /\ s.keep = sweep[n].keep \cup {r} /\ s.since = sweep[n].since
    BY <1>1 DEF SweepStates
  <2>2. ClockOf(s, tried[n])
    BY <1>1, <2>1 DEF ClockOf
  <2>3. sweep' = [sweep EXCEPT ![n] = s] /\ tried' = [tried EXCEPT ![n] = tried[n]]
    BY <1>4, TypeFacts DEF RecoverThrows, ThrowContained
  <2> HIDE DEF s
  <2>. QED
    BY <2>2, <2>3, OneClock
<1>. QED
  BY <1>2, <1>3, <1>4

LEMMA RecoverClock ==
  ASSUME TypeInv, ClockInv, NEW n \in Nodes, Recover(n)
  PROVE  ClockInv'
<1> DEFINE r == sweep[n].run
           old == sweep[n].since
<1>1. /\ ClockOf(sweep[n], tried[n])
      /\ r \in Runs /\ sweep[n] \in SweepStates /\ old \in Clocks
  BY SweepFields DEF ClockInv, ClockOf, Recover, TypeInv
<1>2. LeaveLive(n, r) \/ GiveUp(n, r) \/ Redrive(n, r)
  BY DEF Recover
<1>3. /\ DOMAIN Without(old, {r}) = DOMAIN old \ {r}
      /\ \A x \in DOMAIN old \ {r} : Without(old, {r})[x] = old[x]
  BY DEF Without
<1>4. CASE LeaveLive(n, r) \/ GiveUp(n, r)
  <2>1. PICK k : sweep' = [sweep EXCEPT ![n] =
                   [sweep[n] EXCEPT !.pc = "sweeping", !.run = NoRun, !.no = k,
                                    !.since = Without(old, {r})]]
    <3>1. CASE GiveUp(n, r)
      BY <3>1 DEF GiveUp
    <3>2. CASE LeaveLive(n, r)
      <4>1. [sweep[n] EXCEPT !.pc = "sweeping", !.run = NoRun, !.since = Without(old, {r})]
              = [sweep[n] EXCEPT !.pc = "sweeping", !.run = NoRun, !.no = sweep[n].no,
                                 !.since = Without(old, {r})]
        BY <1>1 DEF SweepStates
      <4>. QED
        BY <3>2, <4>1 DEF LeaveLive
    <3>. QED
      BY <1>4, <3>1, <3>2
  <2> DEFINE s == [sweep[n] EXCEPT !.pc = "sweeping", !.run = NoRun, !.no = k,
                                   !.since = Without(old, {r})]
  <2>2. /\ s.pc = "sweeping" /\ s.batch = sweep[n].batch /\ s.keep = sweep[n].keep
        /\ s.since = Without(old, {r})
    BY <1>1 DEF SweepStates
  <2>3. sweep[n].pc = "recovering"
    BY DEF Recover
  <2>4. ClockOf(s, tried[n] \ {r})
    BY <1>1, <1>3, <2>2, <2>3 DEF ClockOf
  <2>5. sweep' = [sweep EXCEPT ![n] = s] /\ tried' = [tried EXCEPT ![n] = tried[n] \ {r}]
    BY <1>4, <2>1 DEF LeaveLive, GiveUp
  <2> HIDE DEF s
  <2>. QED
    BY <2>4, <2>5, OneClock
<1>5. CASE Redrive(n, r)
  <2> DEFINE since == [x \in DOMAIN old \cup {r} |-> IF x \in DOMAIN old THEN old[x] ELSE 0]
             s == [sweep[n] EXCEPT !.pc = "sweeping", !.run = NoRun, !.no = NoJob,
                                   !.keep = sweep[n].keep \cup {r},
                                   !.batch = sweep[n].batch \cup {r},
                                   !.since = since]
  <2>1. /\ DOMAIN since = DOMAIN old \cup {r}
        /\ \A x \in DOMAIN old : since[x] = old[x]
        /\ r \notin DOMAIN old => since[r] = 0
    OBVIOUS
  <2>2. sweep' = [sweep EXCEPT ![n] = s] /\ tried' = [tried EXCEPT ![n] = tried[n]]
    BY <1>5, TypeFacts DEF Redrive, runVars
  <2> HIDE DEF since
  <2>3. /\ s.pc = "sweeping" /\ s.batch = sweep[n].batch \cup {r}
        /\ s.keep = sweep[n].keep \cup {r} /\ s.since = since
    BY <1>1 DEF SweepStates
  <2>4. sweep[n].pc = "recovering"
    BY DEF Recover
  <2>5. ClockOf(s, tried[n])
    BY <1>1, <2>1, <2>3, <2>4 DEF ClockOf
  <2> HIDE DEF s
  <2>. QED
    BY <2>2, <2>5, OneClock
<1>. QED
  BY <1>2, <1>4, <1>5

LEMMA EndClock ==
  ASSUME TypeInv, ClockInv, NEW n \in Nodes,
         ResumePausedRuns(n) \/ FlushBatch(n) \/ Crash(n)
  PROVE  ClockInv'
<1> DEFINE old == sweep[n].since
<1>1. /\ ClockOf(sweep[n], tried[n])
      /\ sweep[n] \in SweepStates /\ old \in Clocks
  BY SweepFields DEF ClockInv, ClockOf
<1>2. CASE ResumePausedRuns(n)
  <2> DEFINE gone == DOMAIN old \ sweep[n].keep
             s == [sweep[n] EXCEPT !.pc = "flushing", !.since = Without(old, gone),
                                   !.keep = {}, !.batch = sweep[n].batch \cup Resumable]
  <2>1. /\ DOMAIN Without(old, gone) = DOMAIN old \ gone
        /\ \A x \in DOMAIN old \ gone : Without(old, gone)[x] = old[x]
    BY DEF Without
  <2>2. sweep' = [sweep EXCEPT ![n] = s] /\ tried' = [tried EXCEPT ![n] = tried[n] \ gone]
    BY <1>2 DEF ResumePausedRuns
  <2>3. /\ s.pc = "flushing" /\ s.batch = sweep[n].batch \cup Resumable
        /\ s.since = Without(old, gone)
    BY <1>1 DEF SweepStates
  <2> HIDE DEF gone
  <2>4. ClockOf(s, tried[n] \ gone)
    BY <1>1, <2>1, <2>3 DEF ClockOf
  <2> HIDE DEF s
  <2>. QED
    BY <2>2, <2>4, OneClock
<1>3. CASE FlushBatch(n)
  <2> DEFINE s == [sweep[n] EXCEPT !.pc = "idle", !.batch = {}]
             T == tried[n] \cup (sweep[n].batch \cap DOMAIN old)
  <2>1. sweep' = [sweep EXCEPT ![n] = s] /\ tried' = [tried EXCEPT ![n] = T]
    BY <1>3 DEF FlushBatch
  <2>2. s.pc = "idle" /\ s.batch = {} /\ s.since = old
    BY <1>1 DEF SweepStates
  <2>3. ClockOf(s, T)
    BY <1>1, <2>2 DEF ClockOf
  <2> HIDE DEF s, T
  <2>. QED
    BY <2>1, <2>3, OneClock
<1>4. CASE Crash(n)
  <2> DEFINE none == [r \in {} |-> 0]
             s == [sweep[n] EXCEPT !.pc = "idle", !.todo = {}, !.run = NoRun, !.no = NoJob,
                                   !.keep = {}, !.batch = {}, !.since = none]
  <2>1. DOMAIN none = {}
    OBVIOUS
  <2>2. sweep' = [sweep EXCEPT ![n] = s] /\ tried' = [tried EXCEPT ![n] = {}]
    BY <1>4 DEF Crash
  <2> HIDE DEF none
  <2>3. s.pc = "idle" /\ s.batch = {} /\ s.since = none
    BY <1>1 DEF SweepStates
  <2>4. ClockOf(s, {})
    BY <2>1, <2>3 DEF ClockOf
  <2> HIDE DEF s
  <2>. QED
    BY <2>2, <2>4, OneClock
<1>. QED
  BY <1>2, <1>3, <1>4

LEMMA ClockStep ==
  ASSUME TypeInv, ClockInv, NoLostBatch, Next
  PROVE  ClockInv'
<1>1. UNCHANGED <<sweep, tried>> => ClockInv'
  BY DEF ClockInv
<1>2. CASE HandlerStep
  <2>1. UNCHANGED <<sweep, tried>>
    BY <1>2 DEF HandlerStep, StartRun, SignalDecision, CancelRun, EnqueueAdvanceReliably,
       EnqueueLost
  <2>. QED
    BY <1>1, <2>1
<1>3. CASE WorkerStep
  <2>1. PICK n \in Nodes : \/ Fetch(n) \/ Drive(n) \/ CompleteJob(n) \/ HandlerThrows(n)
                           \/ HeartbeatMissed(n) \/ HeartbeatSent(n) \/ Crash(n)
    BY <1>3 DEF WorkerStep
  <2>2. CASE Crash(n)
    BY <2>2, EndClock
  <2>3. CASE ~Crash(n)
    BY <1>1, <2>1, <2>3, WorkerTyped
  <2>. QED
    BY <2>2, <2>3
<1>4. CASE QueueStep
  BY <1>1, <1>4 DEF QueueStep, HeartbeatStops, Maintain
<1>5. CASE SweeperStep
  <2>1. PICK n \in Nodes :
          \/ TickStart(n) \/ Recover(n) \/ ResumePausedRuns(n) \/ FlushBatch(n)
          \/ TickThrows(n)
          \/ \E r \in Runs : Classify(n, r) \/ RecoverThrows(n, r)
    BY <1>5 DEF SweeperStep
  <2>2. ~TickThrows(n)
    BY DEF TickThrows, Fault, NoLostBatch
  <2>. QED
    BY <2>1, <2>2, TickClock, RecoverClock, EndClock
<1>6. CASE BudgetFlips
  BY <1>1, <1>6 DEF BudgetFlips
<1>7. ASSUME NEW r \in Runs, LeaseExpires(r)
      PROVE  ClockInv'
  BY <1>1, <1>7 DEF LeaseExpires
<1>. QED
  BY <1>2, <1>3, <1>4, <1>5, <1>6, <1>7 DEF Next

\* Only a sweeper stalls a run, one whose deadline its clock has reached.
LEMMA OnlySweepersStall ==
  ASSUME TypeInv, Next, NEW r \in Runs, status[r] # "stalled", status'[r] = "stalled"
  PROVE  \E n \in Nodes : r \in DOMAIN sweep[n].since /\ sweep[n].since[r] >= HardTicks
<1>1. status' # status
  OBVIOUS
<1>2. CASE HandlerStep
  <2>1. \/ \E q \in Runs : StartRun(q) \/ SignalDecision(q) \/ CancelRun(q)
        \/ status' = status
    BY <1>2 DEF HandlerStep, EnqueueAdvanceReliably, EnqueueLost, runVars
  <2>2. PICK q \in Runs : StartRun(q) \/ SignalDecision(q) \/ CancelRun(q)
    BY <1>1, <2>1
  <2>3. PICK s \in {"running", "stopped"} : status' = [status EXCEPT ![q] = s]
    BY <2>2 DEF StartRun, SignalDecision, CancelRun
  <2>. QED
    BY <2>3, TypeFacts
<1>3. CASE WorkerStep
  <2>1. PICK n \in Nodes : Drive(n)
    BY <1>1, <1>3 DEF WorkerStep, Fetch, CompleteJob, HandlerThrows, HeartbeatMissed,
       HeartbeatSent, Crash, runVars
  <2>2. PICK q \in Runs, s \in {"running", "done", "failed", "paused", "blocked"} :
          status' = [status EXCEPT ![q] = s]
    BY <1>1, <2>1 DEF Drive, Progress, CompleteRun, FailAdvance, PauseForBudget,
       ParkOnDecision, RearmGate, NoopDrive, LeaveRun, runVars
  <2>. QED
    BY <2>2, TypeFacts
<1>4. CASE SweeperStep
  <2>1. PICK n \in Nodes : Recover(n)
    BY <1>1, <1>4 DEF SweeperStep, TickStart, ResumePausedRuns, FlushBatch, TickThrows,
       Classify, RecoverThrows, runVars
  <2>2. GiveUp(n, sweep[n].run)
    BY <1>1, <2>1 DEF Recover, LeaveLive, Redrive, runVars
  <2>3. r = sweep[n].run
    BY <2>2, TypeFacts DEF GiveUp
  <2>. QED
    BY <2>2, <2>3 DEF GiveUp, HardStalled
<1>5. status' = status \/ HandlerStep \/ WorkerStep \/ SweeperStep
  BY DEF Next, QueueStep, HeartbeatStops, Maintain, BudgetFlips, LeaseExpires, runVars
<1>. QED
  BY <1>1, <1>2, <1>3, <1>4, <1>5

\* While no tick loses its batch, a sweeper gives up only runs it has put back
\* on the queue itself (startStaleRunSweeper).
THEOREM StallsAreEarned ==
  ASSUME NoLostBatch
  PROVE  Spec => StallIsEarned
<1> DEFINE Earned == \A r \in Runs : status[r] # "stalled" /\ status'[r] = "stalled"
                       => \E n \in Nodes : r \in tried[n]
<1>1. Init => ClockInv
  BY DEF Init, ClockInv
<1>2. QueueInv /\ ClockInv /\ [Next]_vars => ClockInv'
  BY ClockStep DEF QueueInv, vars, ClockInv
<1>3. QueueInv /\ ClockInv /\ [Next]_vars => [Earned]_vars
  <2> SUFFICES ASSUME QueueInv, ClockInv, Next, NEW r \in Runs,
                      status[r] # "stalled", status'[r] = "stalled"
               PROVE  \E n \in Nodes : r \in tried[n]
    OBVIOUS
  <2>1. PICK n \in Nodes : r \in DOMAIN sweep[n].since /\ sweep[n].since[r] >= HardTicks
    BY OnlySweepersStall DEF QueueInv
  <2>2. HardTicks \in Nat /\ HardTicks > 0
    BY QueueAssumption DEF QueueAssumption
  <2>3. r \in tried[n]
    BY <2>1, <2>2 DEF ClockInv
  <2>. QED
    BY <2>3
<1>. QED
  BY <1>1, <1>2, <1>3, QueueInvReached, PTL DEF Spec, StallIsEarned

=============================================================================
