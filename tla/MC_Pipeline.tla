---------------------------- MODULE MC_Pipeline ----------------------------
(* Finite instances of Pipeline. *)
EXTENDS Pipeline, TLC

CONSTANTS w1, w2

MCWorkers == {w1, w2}
MCOneWorker == {w1}
MCHandled == Steps
MCHandledGap == Steps \ {NSteps}
Symmetry == Permutations(MCWorkers)
=============================================================================
