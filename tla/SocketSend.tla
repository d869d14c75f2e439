----------------------------- MODULE SocketSend -----------------------------
(***************************************************************************)
(* The sending side of a socket (net/Socket.cpp).  Threads that answer a   *)
(* message push it on _slist and call send(); the network thread calls     *)
(* send() on each edge of EPOLLOUT.  send() works under the spin lock      *)
(* _slocker: first the rest of a message that did not fit, kept in         *)
(* _wbuffer, then the messages of _slist.                                  *)
(*                                                                         *)
(* The kernel is a send buffer with room for some bytes.  A ::send that    *)
(* finds no room returns EAGAIN and arms the edge (SOCK_NOSPACE); the edge *)
(* fires at some moment of the draining that follows, at the latest when   *)
(* the buffer is empty.  _slist has a lock of its own: a push or a pop is  *)
(* one step.                                                               *)
(***************************************************************************)
EXTENDS Naturals, Sequences, SequencesExt

CONSTANTS
    Sender,      \* pool threads whose handlers send messages
    Net,         \* the network thread
    Message,
    Size,        \* Size[m]: rawmsg.len
    Capacity,    \* bytes in the send buffer of the kernel
    None         \* no thread, no message

ASSUME SendAssumption ==
    /\ Net \notin Sender
    /\ None \notin Message \cup Sender \cup {Net}
    /\ Size \in [Message -> Nat \ {0}]
    /\ Capacity \in Nat \ {0}

Thread == Sender \cup {Net}

VARIABLES
    slist,       \* _slist
    slocker,     \* who holds _slocker, or None
    wbuffer,     \* _wbuffer: bytes of a message already released
    pc,          \* where a thread is in send() and sendBytes()
    message,     \* the message a thread has popped
    bytes,       \* bytes of sendBytes(): how many the kernel took
    wire,        \* what the kernel took, in order
    room,        \* free bytes in the send buffer
    nospace,     \* a ::send found no room: the edge is armed
    edge,        \* epoll has an EPOLLOUT event for the network thread
    broken,      \* the connection failed
    gone,        \* closeSocket deleted the socket
    fresh,       \* messages not handed to sendMessage yet
    released     \* messages given to release_message

kernel == <<wire, room, nospace, edge, broken>>
vars == <<slist, slocker, wbuffer, pc, message, bytes, gone, fresh, released, kernel>>

SendPc == {"idle", "lock", "flush", "flushed", "next", "write", "written", "close"}

MessageBytes(m) == [i \in 1 .. Size[m] |-> <<m, i>>]

Init ==
    /\ slist = <<>>
    /\ slocker = None
    /\ wbuffer = <<>>
    /\ pc = [t \in Thread |-> "idle"]
    /\ message = [t \in Thread |-> None]
    /\ bytes = [t \in Thread |-> 0]
    /\ wire = <<>>
    /\ room = Capacity
    /\ nospace = FALSE
    /\ edge = TRUE               \* EPOLL_CTL_ADD reports a writable socket
    /\ broken = FALSE
    /\ gone = FALSE
    /\ fresh = Message
    /\ released = {}

Goto(t, label) == pc' = [pc EXCEPT ![t] = label]

\* SpinlockerGuard ends and send() returns to label.
Return(t, label) == slocker' = None /\ Goto(t, label)

-----------------------------------------------------------------------------
(* The callers of send().                                                   *)

\* send(message), from sendMessage: push_back, then send().
Send(t, m) ==
    /\ ~gone
    /\ t \in Sender /\ pc[t] = "idle" /\ m \in fresh
    /\ fresh' = fresh \ {m}
    /\ slist' = Append(slist, m)
    /\ Goto(t, "lock")
    /\ UNCHANGED <<slocker, wbuffer, message, bytes, gone, released, kernel>>

\* Variant: the network thread leaves the edge to whoever is sending.
WriteSocketTryLock ==
    /\ ~gone
    /\ pc[Net] = "idle" /\ edge
    /\ edge' = FALSE
    /\ IF slocker = None THEN Goto(Net, "lock") ELSE UNCHANGED pc
    /\ UNCHANGED <<slist, slocker, wbuffer, message, bytes, gone, fresh, released,
                   wire, room, nospace, broken>>

\* writeSocket of NetworkManager::run, for an EPOLLOUT event.
WriteSocket ==
    /\ ~gone
    /\ pc[Net] = "idle" /\ edge
    /\ edge' = FALSE
    /\ Goto(Net, "lock")
    /\ UNCHANGED <<slist, slocker, wbuffer, message, bytes, gone, fresh, released,
                   wire, room, nospace, broken>>

\* After send() returned false: closeSocket deletes the socket, whose
\* destructor releases what is left in _slist.
CloseSocket(t) ==
    /\ ~gone
    /\ pc[t] = "close"
    /\ gone' = TRUE
    /\ released' = released \cup ToSet(slist)
    /\ slist' = <<>>
    /\ Goto(t, "idle")
    /\ UNCHANGED <<slocker, wbuffer, message, bytes, fresh, kernel>>

-----------------------------------------------------------------------------
(* send().                                                                  *)

\* The guard is taken and _wbuffer is looked at.
Lock(t) ==
    /\ ~gone
    /\ pc[t] = "lock" /\ slocker = None
    /\ slocker' = t
    /\ bytes' = [bytes EXCEPT ![t] = 0]
    /\ Goto(t, IF wbuffer # <<>> THEN "flush" ELSE "next")
    /\ UNCHANGED <<slist, wbuffer, message, gone, fresh, released, kernel>>

\* What sendBytes() was called with.
Buffer(t) == IF pc[t] = "flush" THEN wbuffer ELSE MessageBytes(message[t])
Sending(t) == pc[t] \in {"flush", "write"} /\ bytes[t] < Len(Buffer(t))
AfterSendBytes(t) == IF pc[t] = "flush" THEN "flushed" ELSE "written"

\* Variant: sendBytes() is content with what one ::send took.
SendSomeOnce(t, k) ==
    /\ ~gone
    /\ Sending(t) /\ ~broken
    /\ k <= room /\ bytes[t] + k <= Len(Buffer(t))
    /\ wire' = wire \o SubSeq(Buffer(t), bytes[t] + 1, bytes[t] + k)
    /\ room' = room - k
    /\ bytes' = [bytes EXCEPT ![t] = @ + k]
    /\ Goto(t, AfterSendBytes(t))
    /\ UNCHANGED <<slist, slocker, wbuffer, message, gone, fresh, released,
                   nospace, edge, broken>>

\* ::send takes k bytes; the loop of sendBytes() ends when it has taken all.
SendSome(t, k) ==
    /\ ~gone
    /\ Sending(t) /\ ~broken
    /\ k <= room /\ bytes[t] + k <= Len(Buffer(t))
    /\ wire' = wire \o SubSeq(Buffer(t), bytes[t] + 1, bytes[t] + k)
    /\ room' = room - k
    /\ bytes' = [bytes EXCEPT ![t] = @ + k]
    /\ Goto(t, IF bytes[t] + k = Len(Buffer(t)) THEN AfterSendBytes(t) ELSE pc[t])
    /\ UNCHANGED <<slist, slocker, wbuffer, message, gone, fresh, released,
                   nospace, edge, broken>>

\* ::send returns EAGAIN.
SendWouldBlock(t) ==
    /\ ~gone
    /\ Sending(t) /\ ~broken
    /\ room = 0
    /\ nospace' = TRUE
    /\ Goto(t, AfterSendBytes(t))
    /\ UNCHANGED <<slist, slocker, wbuffer, message, bytes, gone, fresh, released,
                   wire, room, edge, broken>>

\* ::send fails: a popped message is released and send() returns false.
SendError(t) ==
    /\ ~gone
    /\ Sending(t)
    /\ broken' = TRUE
    /\ released' = released \cup ({message[t]} \ {None})
    /\ message' = [message EXCEPT ![t] = None]
    /\ Return(t, "close")
    /\ UNCHANGED <<slist, wbuffer, bytes, gone, fresh, wire, room, nospace, edge>>

\* _wbuffer.rlength(bytes); with something left in it send() returns.
Flushed(t) ==
    /\ ~gone
    /\ pc[t] = "flushed"
    /\ wbuffer' = SubSeq(wbuffer, bytes[t] + 1, Len(wbuffer))
    /\ IF wbuffer' # <<>>
       THEN Return(t, "idle")
       ELSE Goto(t, "next") /\ UNCHANGED slocker
    /\ UNCHANGED <<slist, message, bytes, gone, fresh, released, kernel>>

PopMessage(t) ==
    /\ ~gone
    /\ pc[t] = "next" /\ slist # <<>>
    /\ message' = [message EXCEPT ![t] = Head(slist)]
    /\ slist' = Tail(slist)
    /\ bytes' = [bytes EXCEPT ![t] = 0]
    /\ Goto(t, "write")
    /\ UNCHANGED <<slocker, wbuffer, gone, fresh, released, kernel>>

NoMessage(t) ==
    /\ ~gone
    /\ pc[t] = "next" /\ slist = <<>>
    /\ Return(t, "idle")
    /\ UNCHANGED <<slist, wbuffer, message, bytes, gone, fresh, released, kernel>>

\* Variant: returns for a full send buffer before it releases the message.
WrittenKeeps(t) ==
    /\ ~gone
    /\ pc[t] = "written"
    /\ wbuffer' = wbuffer \o SubSeq(MessageBytes(message[t]), bytes[t] + 1, Size[message[t]])
    /\ released' = IF wbuffer' = <<>> THEN released \cup {message[t]} ELSE released
    /\ message' = [message EXCEPT ![t] = None]
    /\ IF wbuffer' # <<>>
       THEN Return(t, "idle")
       ELSE Goto(t, "next") /\ UNCHANGED slocker
    /\ UNCHANGED <<slist, bytes, gone, fresh, kernel>>

\* Variant: the rest is appended from the start of the message.
WrittenFromStart(t) ==
    /\ ~gone
    /\ pc[t] = "written"
    /\ wbuffer' = wbuffer \o SubSeq(MessageBytes(message[t]), 1, Size[message[t]] - bytes[t])
    /\ released' = released \cup {message[t]}
    /\ message' = [message EXCEPT ![t] = None]
    /\ IF wbuffer' # <<>>
       THEN Return(t, "idle")
       ELSE Goto(t, "next") /\ UNCHANGED slocker
    /\ UNCHANGED <<slist, bytes, gone, fresh, kernel>>

\* The bytes the kernel did not take are appended to _wbuffer and the message
\* is released; with something in _wbuffer send() returns.
Written(t) ==
    /\ ~gone
    /\ pc[t] = "written"
    /\ wbuffer' = wbuffer \o SubSeq(MessageBytes(message[t]), bytes[t] + 1, Size[message[t]])
    /\ released' = released \cup {message[t]}
    /\ message' = [message EXCEPT ![t] = None]
    /\ IF wbuffer' # <<>>
       THEN Return(t, "idle")
       ELSE Goto(t, "next") /\ UNCHANGED slocker
    /\ UNCHANGED <<slist, bytes, gone, fresh, kernel>>

-----------------------------------------------------------------------------
(* The kernel and the peer.                                                 *)

\* The peer reads k bytes.
Drain(k) ==
    /\ room + k <= Capacity
    /\ room' = room + k
    /\ IF nospace
       THEN \/ nospace' = FALSE /\ edge' = TRUE
            \/ room' < Capacity /\ UNCHANGED <<nospace, edge>>
       ELSE UNCHANGED <<nospace, edge>>
    /\ UNCHANGED <<slist, slocker, wbuffer, pc, message, bytes, gone, fresh, released,
                   wire, broken>>

\* An event of another kind on the socket carries EPOLLOUT too.
OtherEvent ==
    /\ ~gone /\ ~edge /\ room > 0
    /\ edge' = TRUE
    /\ UNCHANGED <<slist, slocker, wbuffer, pc, message, bytes, gone, fresh, released,
                   wire, room, nospace, broken>>

-----------------------------------------------------------------------------
Step(t) ==
    \/ Lock(t) \/ SendWouldBlock(t) \/ SendError(t) \/ Flushed(t)
    \/ PopMessage(t) \/ NoMessage(t) \/ Written(t) \/ CloseSocket(t)
    \/ \E k \in 1 .. Capacity : SendSome(t, k)

PeerReads == \E k \in 1 .. Capacity : Drain(k)

\* The threads are out of send() and nothing is left to do, or the socket has
\* been deleted.
Quiet == gone \/ \A t \in Thread : pc[t] = "idle"

Idle == Quiet /\ UNCHANGED vars

Next ==
    \/ \E t \in Thread : Step(t)
    \/ \E t \in Sender, m \in Message : Send(t, m)
    \/ WriteSocket
    \/ PeerReads
    \/ OtherEvent
    \/ Idle

Spec == Init /\ [][Next]_vars

(* Threads run, the network thread handles events, and the peer keeps       *)
(* reading; no thread has to send, and no other event has to come.          *)
Fairness ==
    /\ \A t \in Thread : WF_vars(Step(t))
    /\ WF_vars(WriteSocket)
    /\ WF_vars(PeerReads)

FairSpec == Spec /\ Fairness

-----------------------------------------------------------------------------
(* Properties.                                                              *)

\* Every variable has its type, and sendBytes never counts more bytes than it
\* was given.
TypeOK ==
    /\ slist \in Seq(Message)
    /\ slocker \in Thread \cup {None}
    /\ wbuffer \in Seq(Message \X Nat)
    /\ pc \in [Thread -> SendPc]
    /\ message \in [Thread -> Message \cup {None}]
    /\ \A t \in Thread : message[t] \in Message <=> pc[t] \in {"write", "written"}
    /\ bytes \in [Thread -> Nat]
    /\ \A t \in Thread : pc[t] \in {"flush", "write"} => bytes[t] < Len(Buffer(t))
    /\ wire \in Seq(Message \X Nat)
    /\ room \in 0 .. Capacity
    /\ nospace \in BOOLEAN
    /\ edge \in BOOLEAN
    /\ broken \in BOOLEAN
    /\ gone \in BOOLEAN
    /\ fresh \in SUBSET Message
    /\ released \in SUBSET Message

\* Each message handed to send() has one owner: the list, the thread that
\* popped it, or the allocator it was given back to; the error path, the
\* partial send and the destructor included.
InList(m) == \E i \in DOMAIN slist : slist[i] = m
OwnedOnce ==
    /\ \A m \in Message :
        /\ m \notin fresh =>
            (InList(m) \/ m \in released \/ \E t \in Thread : message[t] = m)
        /\ InList(m) => m \notin released /\ \A t \in Thread : message[t] # m
        /\ \A t \in Thread : message[t] = m => m \notin released
    /\ IsInjective(slist)

\* With bytes or messages waiting and nobody in send(), an edge of EPOLLOUT
\* is armed or pending: no output is left without a wakeup.
OutputArmed ==
    /\ \A t \in Thread : pc[t] = "idle"
    /\ wbuffer # <<>> \/ slist # <<>>
    /\ ~broken
    => nospace \/ edge

\* The bytes on the wire are the messages in the order of _slist, each in one
\* piece: the refinement of ByteStream.  What is left of the message being
\* sent is the rest of _wbuffer or of the popped message.
InSend(t) == pc[t] \in {"flush", "flushed", "write", "written"}
Unsent(t) ==
    IF pc[t] \in {"flush", "flushed"}
    THEN SubSeq(wbuffer, bytes[t] + 1, Len(wbuffer))
    ELSE SubSeq(MessageBytes(message[t]), bytes[t] + 1, Size[message[t]])
Rest == IF \E t \in Thread : InSend(t)
        THEN Unsent(CHOOSE t \in Thread : InSend(t))
        ELSE wbuffer

Stream == INSTANCE ByteStream WITH
            queue <- IF broken THEN <<>> ELSE slist,
            rest <- IF broken THEN <<>> ELSE Rest,
            out <- wire
ImplementsStream == Stream!StreamSpec

\* A message that was accepted is on the wire to its last byte in the end, or
\* the connection broke, though after a partial send only the edge of
\* EPOLLOUT resumes the output.
OnWire(m) == \E i \in DOMAIN wire : wire[i] = <<m, Size[m]>>
AcceptedIsSent == \A m \in Message : m \notin fresh ~> OnWire(m) \/ broken

=============================================================================
