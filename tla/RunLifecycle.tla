---------------------------- MODULE RunLifecycle ----------------------------
(***************************************************************************)
(* What the engine promises about a run, whoever reads it: the status is a *)
(* lifecycle with absorbing ends, a block has one live run at a time, and  *)
(* a run that ended or was deleted is never live again.                    *)
(*                                                                         *)
(* A retry or a restart is a new run that takes the old one's place; the   *)
(* end of a run never depends on what the run was doing.                   *)
(***************************************************************************)
CONSTANTS Runs, Blocks, NoBlock

VARIABLES
  status,    \* status[r]
  home       \* home[r]: the block the run is stored for

runVars == <<status, home>>

LiveRun(r) == status[r] \in {"running", "blocked", "paused"}

LifecycleInit ==
  /\ status = [r \in Runs |-> "unborn"]
  /\ home = [r \in Runs |-> NoBlock]

\* A new run takes the block: ended runs of the block and the one it replaces
\* leave the store in the same step; no other run may be live there.
Begin(r, b) ==
  /\ status[r] = "unborn"
  /\ \E out \in SUBSET {o \in Runs \ {r} : home[o] = b} :
       /\ \A o \in Runs \ out : LiveRun(o) => home[o] # b
       /\ status' = [o \in Runs |-> IF o = r THEN "running"
                                    ELSE IF o \in out THEN "deleted" ELSE status[o]]
       /\ home' = [o \in Runs |-> IF o = r THEN b
                                  ELSE IF o \in out THEN NoBlock ELSE home[o]]

\* Runs leave the store: a cancel, or a claim that cleaned up and then lost.
Drop(out) ==
  /\ status' = [o \in Runs |-> IF o \in out THEN "deleted" ELSE status[o]]
  /\ home' = [o \in Runs |-> IF o \in out THEN NoBlock ELSE home[o]]

\* A live run parks, pauses, resumes or ends.
Move(r, s) ==
  /\ LiveRun(r)
  /\ s \in {"running", "blocked", "paused", "done", "failed"}
  /\ status' = [status EXCEPT ![r] = s]
  /\ UNCHANGED home

LifecycleNext ==
  \/ \E r \in Runs, b \in Blocks : Begin(r, b)
  \/ \E b \in Blocks : \E out \in SUBSET {o \in Runs : home[o] = b} : Drop(out)
  \/ \E r \in Runs, s \in {"running", "blocked", "paused", "done", "failed"} : Move(r, s)

Lifecycle == LifecycleInit /\ [][LifecycleNext]_runVars
=============================================================================
