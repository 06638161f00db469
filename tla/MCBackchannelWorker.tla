------------------------- MODULE MCBackchannelWorker -------------------------
(* Instances of BackchannelWorker for TLC. *)
EXTENDS BackchannelWorker, TLC

CONSTANTS r1, r2, p1, p2, p3

RowAndStepSymmetry == Permutations(Rows) \cup Permutations(Steps)
=============================================================================
