--------------------------- MODULE MCServiceSched ---------------------------
(* Instances of ServiceSched for TLC.                                       *)
EXTENDS ServiceSched, TLC

CONSTANTS s1, s2, w1, w2, m1, m2

\* Workers and messages are interchangeable; services are not, one of them
\* routes the messages.
WorkerMessageSymmetry == Permutations(Worker) \cup Permutations(Message)
=============================================================================
