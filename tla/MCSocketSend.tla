--------------------------- MODULE MCSocketSend ---------------------------
(* Instances of SocketSend for TLC: messages shorter than, as long as and *)
(* longer than the kernel's buffer of two bytes.                          *)
EXTENDS SocketSend

CONSTANTS s1, s2, net, m1, m2, m3

MCSize == [m \in Message |-> IF m = m1 THEN 1 ELSE IF m = m2 THEN 2 ELSE 3]

===========================================================================
