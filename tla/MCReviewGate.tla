----------------------------- MODULE MCReviewGate -----------------------------
EXTENDS ReviewGate, TLC
MCSymmetry == Permutations(Drivers)
=============================================================================
