----------------------------- MODULE ByteStream -----------------------------
(***************************************************************************)
(* What a socket promises to those who send on it: the bytes of the        *)
(* messages leave in the order in which the messages were accepted, each   *)
(* message in one piece, none lost and none twice, until the connection    *)
(* breaks; nothing leaves after that.  SocketSend implements this module.  *)
(***************************************************************************)
EXTENDS Sequences, Naturals

CONSTANTS
    Message,
    Size       \* Size[m]: the length of message m in bytes

VARIABLES
    queue,     \* the messages accepted of which nothing was sent
    rest,      \* the bytes not sent yet of the message that is being sent
    out,       \* the bytes sent
    broken     \* no more can be sent

streamVars == <<queue, rest, out, broken>>

\* The i-th byte of message m is <<m, i>>.
MessageBytes(m) == [i \in 1 .. Size[m] |-> <<m, i>>]

StreamInit == queue = <<>> /\ rest = <<>> /\ out = <<>> /\ broken = FALSE

Accept(m) ==
    /\ ~broken
    /\ queue' = Append(queue, m)
    /\ UNCHANGED <<rest, out, broken>>

\* The oldest message is begun when the one before it is out to its last byte.
Begin ==
    /\ ~broken /\ rest = <<>> /\ queue # <<>>
    /\ rest' = MessageBytes(Head(queue))
    /\ queue' = Tail(queue)
    /\ UNCHANGED <<out, broken>>

Transmit(k) ==
    /\ ~broken
    /\ out' = out \o SubSeq(rest, 1, k)
    /\ rest' = SubSeq(rest, k + 1, Len(rest))
    /\ UNCHANGED <<queue, broken>>

Break ==
    /\ ~broken
    /\ broken' = TRUE
    /\ queue' = <<>> /\ rest' = <<>>
    /\ UNCHANGED out

StreamNext ==
    \/ \E m \in Message : Accept(m)
    \/ Begin
    \/ \E k \in 1 .. Len(rest) : Transmit(k)
    \/ Break

StreamSpec == StreamInit /\ [][StreamNext]_streamVars

=============================================================================
