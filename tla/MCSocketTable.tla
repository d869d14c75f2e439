--------------------------- MODULE MCSocketTable ---------------------------
(* Instances of SocketTable for TLC.                                       *)
EXTENDS SocketTable, TLC

CONSTANTS o1, o2, o3, o4, w1, w2, net

\* The object of the listening server is the one Init chooses; the workers
\* are alike.
WorkerSymmetry == Permutations(Worker)
============================================================================
