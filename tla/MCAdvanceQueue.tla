-------------------------- MODULE MCAdvanceQueue ----------------------------
(* Instances of AdvanceQueue for TLC. *)
EXTENDS AdvanceQueue, TLC

MCSymmetry == Permutations(Nodes)
=============================================================================
