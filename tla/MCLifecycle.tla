--------------------------- MODULE MCLifecycle ---------------------------
(* The instance of Lifecycle for TLC.                                     *)
EXTENDS Lifecycle, TLC

CONSTANTS main, net, w1, w2

WorkerSymmetry == Permutations(Worker)
==========================================================================
