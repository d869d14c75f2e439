----------------------------- MODULE MCEasylog -----------------------------
(* Instances of Easylog for TLC.                                           *)
EXTENDS Easylog

CONSTANTS t1, t2, main, l1, l2, p1

============================================================================
