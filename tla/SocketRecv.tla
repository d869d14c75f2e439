----------------------------- MODULE SocketRecv -----------------------------
(***************************************************************************)
(* The receiving side of a socket (net/Socket.cpp) and the part of         *)
(* NetworkManager::run that serves it.  The network thread is woken by an  *)
(* edge of EPOLLIN; receive() reads until ::recv would block, at most      *)
(* ReadLen bytes, cuts messages off the front of _rbuffer and puts them in *)
(* _rlist; run() hands them to ServiceManager::pushMessage.                *)
(*                                                                         *)
(* The peer sends a given stream of messages, in pieces of any size.  The  *)
(* i-th byte of message m is <<m, i>>, and Wire has the bytes of the whole *)
(* stream.  _rbuffer is the sequence of its unread bytes, as ByteBuffer    *)
(* shows.                                                                  *)
(***************************************************************************)
EXTENDS Naturals, Sequences, SequencesExt

CONSTANTS
    Stream,      \* the messages of the peer, in order, all different
    Size,        \* Size[m]: the bytes of m on the wire
    Illegal,     \* messages whose len field is below the size of the header
    Start,       \* Start[n]: the bytes before the n-th message
    Wire,        \* the bytes of the messages, one message after the other
    LenField,    \* sizeof(rawmsg->len)
    ReadLen,     \* readlen of receive()
    KernelRoom   \* bytes the receive buffer of the kernel holds

Message == ToSet(Stream)
Byte == Message \X Nat

MessageBytes(m) == [i \in 1 .. Size[m] |-> <<m, i>>]

ASSUME RecvAssumption ==
    /\ Stream \in Seq(Message) /\ IsInjective(Stream)
    /\ Size \in [Message -> Nat]
    /\ LenField \in Nat \ {0}
    /\ \A m \in Message : Size[m] >= LenField
    /\ Illegal \subseteq Message
    /\ ReadLen \in Nat \ {0}
    /\ KernelRoom \in Nat \ {0}

ASSUME WireAssumption ==
    /\ Start \in [1 .. Len(Stream) + 1 -> Nat]
    /\ Start[1] = 0
    /\ \A n \in 1 .. Len(Stream) : Start[n + 1] = Start[n] + Size[Stream[n]]
    /\ Wire \in Seq(Byte)
    /\ Len(Wire) = Start[Len(Stream) + 1]
    /\ \A n \in 1 .. Len(Stream) : \A i \in 1 .. Size[Stream[n]] :
        Wire[Start[n] + i] = MessageBytes(Stream[n])[i]

VARIABLES
    tosend,      \* bytes the peer has not sent
    peer,        \* the peer's end: "open", "fin" or "reset"
    kqueue,      \* bytes in the receive buffer of the kernel
    edge,        \* epoll has an EPOLLIN event
    pc,          \* where the network thread is
    chunk,       \* what readBytes() has read so far
    rbuffer,     \* _rbuffer
    rlist,       \* _rlist
    delivered,   \* messages handed to pushMessage
    closed,      \* closeSocket was called
    reason       \* why receive() returned false

remote == <<tosend, peer>>
vars == <<tosend, peer, kqueue, edge, pc, chunk, rbuffer, rlist, delivered, closed, reason>>

\* rawmsg->len, read at the front of bytes b.
len(b) == IF b[1][2] = 1 /\ b[1][1] \notin Illegal THEN Size[b[1][1]] ELSE 0

Init ==
    /\ tosend = Wire
    /\ peer = "open"
    /\ kqueue = <<>>
    /\ edge = FALSE
    /\ pc = "poll"
    /\ chunk = <<>>
    /\ rbuffer = <<>>
    /\ rlist = <<>>
    /\ delivered = <<>>
    /\ closed = FALSE
    /\ reason = "none"

-----------------------------------------------------------------------------
(* The peer and the kernel.                                                 *)

Arrive(k) ==
    /\ peer = "open"
    /\ k <= Len(tosend) /\ Len(kqueue) + k <= KernelRoom
    /\ kqueue' = kqueue \o SubSeq(tosend, 1, k)
    /\ tosend' = SubSeq(tosend, k + 1, Len(tosend))
    /\ edge' = TRUE
    /\ UNCHANGED <<peer, pc, chunk, rbuffer, rlist, delivered, closed, reason>>

PeerEnds(how) ==
    /\ peer = "open"
    /\ peer' = how
    /\ edge' = TRUE
    /\ UNCHANGED <<tosend, kqueue, pc, chunk, rbuffer, rlist, delivered, closed, reason>>

-----------------------------------------------------------------------------
(* The network thread.                                                      *)

\* Poll::run calls readSocket, or errorSocket for EPOLLERR and EPOLLHUP.
Poll ==
    /\ pc = "poll" /\ edge /\ ~closed
    /\ edge' = FALSE
    /\ IF peer = "reset"
       THEN pc' = "close" /\ reason' = "poll error"
       ELSE pc' = "read" /\ UNCHANGED reason
    /\ chunk' = <<>>
    /\ UNCHANGED <<remote, kqueue, rbuffer, rlist, delivered, closed>>

\* readBytes() returned < 0, and so does receive(): what it read is dropped.
ReadFails(why) ==
    /\ reason' = why
    /\ chunk' = <<>>
    /\ pc' = "close"
    /\ UNCHANGED <<remote, kqueue, edge, rbuffer, rlist, delivered, closed>>

\* readBytes() returned what it has read: wlength().
ReadEnds ==
    /\ rbuffer' = rbuffer \o chunk
    /\ chunk' = <<>>
    /\ pc' = "parse"
    /\ UNCHANGED <<remote, kqueue, edge, rlist, delivered, closed, reason>>

\* Variant: readBytes() is content with one ::recv.
RecvOnce(k) ==
    /\ pc = "read"
    /\ k <= Len(kqueue) /\ Len(chunk) + k <= ReadLen
    /\ rbuffer' = rbuffer \o SubSeq(kqueue, 1, k)
    /\ kqueue' = SubSeq(kqueue, k + 1, Len(kqueue))
    /\ pc' = "parse"
    /\ UNCHANGED <<remote, edge, chunk, rlist, delivered, closed, reason>>

\* ::recv returns k bytes.
Recv(k) ==
    /\ pc = "read"
    /\ k <= Len(kqueue) /\ Len(chunk) + k <= ReadLen
    /\ chunk' = chunk \o SubSeq(kqueue, 1, k)
    /\ kqueue' = SubSeq(kqueue, k + 1, Len(kqueue))
    /\ UNCHANGED <<remote, edge, pc, rbuffer, rlist, delivered, closed, reason>>

\* ::recv finds nothing: EAGAIN, 0 after a FIN, an error after a reset.
RecvEmpty ==
    /\ pc = "read"
    /\ kqueue = <<>> /\ Len(chunk) < ReadLen
    /\ \/ peer = "open" /\ ReadEnds
       \/ peer = "fin" /\ ReadFails("lost connection")
       \/ peer = "reset" /\ ReadFails("error")

\* ::recv is asked for 0 bytes, because the buffer is full: 0 with bytes in
\* the kernel or after a FIN, and else as for any other length.
RecvZero ==
    /\ pc = "read"
    /\ Len(chunk) = ReadLen
    /\ \/ kqueue # <<>> /\ ReadFails("lost connection")
       \/ kqueue = <<>> /\ peer = "fin" /\ ReadFails("lost connection")
       \/ kqueue = <<>> /\ peer = "open" /\ ReadEnds
       \/ kqueue = <<>> /\ peer = "reset" /\ ReadFails("error")

\* Variant: a message is cut off as soon as its length is known.
EnoughForLen(b) == Len(b) >= LenField

\* The condition of receive() for a message to be there.
Enough(b) == Len(b) >= LenField /\ Len(b) >= len(b)

\* Variant: the loop of receive() ends after one message.
ParseOne ==
    /\ pc = "parse"
    /\ Enough(rbuffer) /\ len(rbuffer) > 0
    /\ rlist' = Append(rlist, rbuffer[1][1])
    /\ rbuffer' = SubSeq(rbuffer, len(rbuffer) + 1, Len(rbuffer))
    /\ pc' = "push"
    /\ UNCHANGED <<remote, kqueue, edge, chunk, delivered, closed, reason>>

\* A message is copied to _rlist and consumed.
ParseMessage ==
    /\ pc = "parse"
    /\ Enough(rbuffer) /\ len(rbuffer) > 0
    /\ rlist' = Append(rlist, rbuffer[1][1])
    /\ rbuffer' = SubSeq(rbuffer, len(rbuffer) + 1, Len(rbuffer))
    /\ UNCHANGED <<remote, kqueue, edge, pc, chunk, delivered, closed, reason>>

\* len is below sizeof(Socketmessage): receive() returns false.
ParseIllegal ==
    /\ pc = "parse"
    /\ Enough(rbuffer) /\ len(rbuffer) = 0
    /\ reason' = "illegal package"
    /\ pc' = "close"
    /\ UNCHANGED <<remote, kqueue, edge, chunk, rbuffer, rlist, delivered, closed>>

\* Not enough data: receive() returns true.
ParseEnds ==
    /\ pc = "parse"
    /\ ~Enough(rbuffer)
    /\ pc' = "push"
    /\ UNCHANGED <<remote, kqueue, edge, chunk, rbuffer, rlist, delivered, closed, reason>>

\* getMessage() and pushMessage().
PushMessage ==
    /\ pc = "push" /\ rlist # <<>>
    /\ delivered' = Append(delivered, Head(rlist))
    /\ rlist' = Tail(rlist)
    /\ UNCHANGED <<remote, kqueue, edge, pc, chunk, rbuffer, closed, reason>>

PushEnds ==
    /\ pc = "push" /\ rlist = <<>>
    /\ pc' = "poll"
    /\ UNCHANGED <<remote, kqueue, edge, chunk, rbuffer, rlist, delivered, closed, reason>>

\* closeSocket: the destructor releases what is in _rlist.
CloseSocket ==
    /\ pc = "close"
    /\ closed' = TRUE
    /\ rlist' = <<>>
    /\ pc' = "poll"
    /\ UNCHANGED <<remote, kqueue, edge, chunk, rbuffer, delivered, reason>>

-----------------------------------------------------------------------------
NetStep ==
    \/ Poll \/ RecvEmpty \/ RecvZero
    \/ \E k \in 1 .. ReadLen : Recv(k)
    \/ ParseMessage \/ ParseIllegal \/ ParseEnds
    \/ PushMessage \/ PushEnds \/ CloseSocket

PeerStep ==
    \/ \E k \in 1 .. KernelRoom : Arrive(k)
    \/ \E how \in {"fin", "reset"} : PeerEnds(how)

\* The network thread sleeps in epoll_wait, or the socket is closed.
Idle == pc = "poll" /\ (closed \/ ~edge) /\ UNCHANGED vars

Next == NetStep \/ PeerStep \/ Idle

Spec == Init /\ [][Next]_vars

\* The network thread runs; the peer need not send anything.
FairSpec == Spec /\ WF_vars(NetStep)

-----------------------------------------------------------------------------
(* Properties.                                                              *)

\* Every variable has its type, and one call of readBytes() never holds more
\* than the buffer it was given.
TypeOK ==
    /\ tosend \in Seq(Byte)
    /\ peer \in {"open", "fin", "reset"}
    /\ kqueue \in Seq(Byte)
    /\ edge \in BOOLEAN
    /\ pc \in {"poll", "read", "parse", "push", "close"}
    /\ chunk \in Seq(Byte) /\ Len(chunk) <= ReadLen
    /\ rbuffer \in Seq(Byte)
    /\ rlist \in Seq(Message)
    /\ delivered \in Seq(Message)
    /\ closed \in BOOLEAN
    /\ reason \in {"none", "lost connection", "error", "poll error", "illegal package"}

\* However the stream is cut into pieces and reads, the services get the
\* messages the peer sent, whole, in order and once, up to the first illegal
\* one; and no byte disappears while the connection is up.
FramedInOrder ==
    /\ IsPrefix(delivered \o rlist, Stream)
    /\ ToSet(delivered) \cap Illegal = {}
    /\ reason = "none" =>
        rbuffer \o chunk \o kqueue \o tosend =
            SubSeq(Wire, Start[Len(delivered \o rlist) + 1] + 1, Len(Wire))

\* When the network thread waits, no complete message is left behind: bytes in
\* the kernel and the end of the connection have an edge pending, and
\* _rbuffer holds less than one message.
InputArmed ==
    pc = "poll" /\ ~closed =>
        /\ kqueue # <<>> \/ peer # "open" => edge
        /\ ~Enough(rbuffer)
        /\ rlist = <<>>

\* A message that arrived completely reaches a service, or the socket is
\* closed.
Arrived(n) == Len(tosend) <= Len(Wire) - Start[n + 1]
ArrivedIsDelivered ==
    \A n \in DOMAIN Stream : Arrived(n) ~> Len(delivered) >= n \/ closed

\* "return -1; // lost connection" of readBytes(): the peer has closed.
LostMeansClosed == reason = "lost connection" => peer = "fin"

=============================================================================
