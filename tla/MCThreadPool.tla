--------------------------- MODULE MCThreadPool ---------------------------
(* The instance of ThreadPool for TLC.                                    *)
EXTENDS ThreadPool

CONSTANTS w1, w2, a1, a2, net, t1, t2
=============================================================================
