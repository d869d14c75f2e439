--------------------------- MODULE MCSocketRecv ---------------------------
(* Instances of SocketRecv for TLC: a length field of two bytes, a header *)
(* of three, reads of at most four bytes.                                 *)
EXTENDS SocketRecv

CONSTANTS m1, m2, m3, bad

MCStream == <<m1, m2, m3, bad>>
MCSize == [m \in {m1, m2, m3, bad} |-> IF m = m2 THEN 5 ELSE 3]
MCStart[n \in 1 .. 5] == IF n = 1 THEN 0 ELSE MCStart[n - 1] + MCSize[MCStream[n - 1]]
MCWire == FlattenSeq([n \in 1 .. 4 |-> [i \in 1 .. MCSize[MCStream[n]] |-> <<MCStream[n], i>>]])
===========================================================================
