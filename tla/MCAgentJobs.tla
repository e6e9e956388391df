----------------------------- MODULE MCAgentJobs -----------------------------
EXTENDS AgentJobs, TLC
MCLimit == [c \in Causes |-> IF c = "transient" THEN 0 ELSE 1]
MCSymmetry == Permutations(Items) \cup Permutations(Drivers)
=============================================================================
