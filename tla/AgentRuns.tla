----------------------------- MODULE AgentRuns ------------------------------
(***************************************************************************)
(* The agent_runs table: one row per run id, a revision bumped by every    *)
(* write, and a partial unique index allowing one live row per block.      *)
(* Each operator below is one SQL statement (or one transaction) of the    *)
(* execution repository.                                                   *)
(***************************************************************************)
EXTENDS RunSteps

CONSTANT Runs        \* the run ids the id generator may mint

VARIABLE rows        \* rows[r]: the stored run, or a gone row

Present(r) == rows[r].status \notin GoneStatus
Live(r)    == rows[r].status \in LiveStatus
OnBlock(b) == {r \in Runs : Present(r) /\ rows[r].block = b}

StoreInit == rows = [r \in Runs |-> Blank]

Deleted == [Blank EXCEPT !.status = "deleted"]

\* Faulty: an update that forgets the revision, and one that may insert.
SwappableIfPresent(r, i)  == Present(r)
SwappableByRevAlone(r, i) == rows[r].rev = i.rev

\* compareAndSwap: writes only the row whose rev is the one that was loaded,
\* and never inserts.
Swappable(r, i)      == Present(r) /\ rows[r].rev = i.rev
CompareAndSwap(r, i) ==
  /\ Swappable(r, i)
  /\ rows' = [rows EXCEPT ![r] = [i EXCEPT !.rev = i.rev + 1]]

\* upsert: no revision and no status guard.  The statement fails on the live
\* index if another run of the block is live.
Upsertable(r, i) ==
  i.status \in LiveStatus => \A o \in OnBlock(i.block) \ {r} : ~Live(o)
Upsert(r, i) ==
  /\ Upsertable(r, i)
  /\ rows' = [rows EXCEPT ![r] =
                [i EXCEPT !.rev = IF Present(r) THEN rows[r].rev + 1 ELSE 0]]

\* insertLive, one transaction: drop the block's ended rows and the replaced
\* run, then insert unless the live index says no.
Superseded(b, replaced) ==
  {o \in OnBlock(b) : ~Live(o) \/ o = replaced}
\* Faulty: no live index.
ClaimableAlways(b, replaced) == TRUE
Claimable(b, replaced) == OnBlock(b) = Superseded(b, replaced)
InsertLive(r, i, replaced) ==
  rows' = [o \in Runs |->
             IF o = r /\ Claimable(i.block, replaced) THEN [i EXCEPT !.rev = 0]
             ELSE IF o \in Superseded(i.block, replaced) THEN Deleted
             ELSE rows[o]]

DeleteByBlock(b) ==
  rows' = [o \in Runs |-> IF o \in OnBlock(b) THEN Deleted ELSE rows[o]]

\* Faulty: the failure is written without a new revision.
MarkFailedSilently(r) ==
  rows' = IF Live(r) THEN [rows EXCEPT ![r].status = "failed"] ELSE rows

\* markFailed: conditional on the run not having ended; bumps rev.
MarkFailed(r) ==
  rows' = IF Live(r)
          THEN [rows EXCEPT ![r].status = "failed", ![r].rev = @ + 1]
          ELSE rows
=============================================================================
