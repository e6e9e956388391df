----------------------------- MODULE JobRegistry -----------------------------
(***************************************************************************)
(* The executor harness in a run's container: the jobs it was given, by    *)
(* job id, and what it still holds for the next poll.  A job id is the run *)
(* and the agent kind, which a model fixes, and the dispatch epoch, which  *)
(* stands for the id here.                                                 *)
(***************************************************************************)
EXTENDS Naturals, FiniteSets

CONSTANTS
  Items      \* follow-ups an agent may surface; also names human instructions

VARIABLES
  jobs       \* jobs[id]: state, what its prompt carried, what it buffers

JobStates == {"running", "done", "failed", "contended"}
JobEntry  == [state : JobStates, brief : SUBSET Items, buffer : SUBSET Items]

NoJobs == [id \in {} |-> 0]
Holds(id)   == id \in DOMAIN jobs
Running(id) == Holds(id) /\ jobs[id].state = "running"
RunningJobs == {id \in DOMAIN jobs : Running(id)}

\* A known id is re-attached to, whatever became of its job.
Started(id, brief) ==
  IF Holds(id) THEN jobs
  ELSE [x \in DOMAIN jobs \cup {id} |->
          IF x = id THEN [state |-> "running", brief |-> brief, buffer |-> {}]
          ELSE jobs[x]]

\* A poll takes what was buffered; what it takes is held nowhere else.
Drained(id) == [jobs EXCEPT ![id].buffer = {}]

Surface(id, i) ==
  /\ Running(id)
  /\ jobs' = [jobs EXCEPT ![id].buffer = @ \cup {i}]

\* The agent ends by itself, by its watchdogs or by an abort.
Settle(id, state) ==
  /\ Running(id)
  /\ jobs' = [jobs EXCEPT ![id].state = state]

\* The container goes, and the registry with it.
Evict ==
  /\ jobs # NoJobs
  /\ jobs' = NoJobs
=============================================================================
