--------------------------- MODULE MCCacheCoherency ---------------------------
EXTENDS CacheCoherency, TLC
CONSTANTS a, b, r1, r2, r3, w1, w2, k
MCHomeOneWriting == [p \in Readers \cup Writers |-> IF p \in {r1, r2} THEN b ELSE a]
MCHomeBothWriting == [p \in Readers \cup Writers |-> IF p \in {r1, w1} THEN b ELSE a]
MCHomeOneIsolate == [p \in Readers \cup Writers |-> a]
MCOutsideInvocations == [r \in Readers |-> NoInvocation]
MCTwoInOneInvocation == [r \in Readers |-> IF r \in {r1, r2} THEN k ELSE NoInvocation]
MCSymmetry == Permutations({r1, r2})
=============================================================================
