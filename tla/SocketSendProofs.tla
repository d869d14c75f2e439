-------------------------- MODULE SocketSendProofs --------------------------
(***************************************************************************)
(* Proofs about SocketSend, for any number of senders, messages of any     *)
(* sizes and a send buffer of any capacity.                                *)
(***************************************************************************)
EXTENDS SocketSend, SequenceTheorems, TLAPS

Byte == Message \X Nat

\* Where send() holds _slocker.
Holds(t) == pc[t] \in {"flush", "flushed", "next", "write", "written"}

(* _slocker is held by the thread that is between its lock and its unlock,  *)
(* and by no other.                                                         *)
LockExact == \A t \in Thread : Holds(t) <=> slocker = t

\* _wbuffer is flushed to its end before a message is popped.
BufferOK ==
    \A t \in Thread :
        /\ pc[t] \in {"flush", "flushed"} => wbuffer # <<>>
        /\ pc[t] \in {"next", "write", "written"} => wbuffer = <<>>
        /\ pc[t] = "flushed" => bytes[t] <= Len(wbuffer)
        /\ pc[t] = "written" => bytes[t] <= Size[message[t]]

SendInv == TypeOK /\ LockExact /\ BufferOK

\* The bytes of a message.
LEMMA BytesOfMessage ==
    ASSUME NEW m \in Message
    PROVE  /\ Size[m] \in Nat \ {0}
           /\ MessageBytes(m) \in Seq(Byte)
           /\ Len(MessageBytes(m)) = Size[m]
           /\ \A i \in 1 .. Size[m] : MessageBytes(m)[i] = <<m, i>>
<1>1. Size[m] \in Nat \ {0}
  BY SendAssumption
<1>2. MessageBytes(m) \in [1 .. Size[m] -> Byte]
  BY <1>1 DEF MessageBytes, Byte
<1>3. QED
  BY <1>1, <1>2 DEF MessageBytes

\* A tail of a sequence of bytes.
LEMMA RestOfBytes ==
    ASSUME NEW b \in Seq(Byte), NEW n \in Nat, n <= Len(b)
    PROVE  /\ SubSeq(b, n + 1, Len(b)) \in Seq(Byte)
           /\ Len(SubSeq(b, n + 1, Len(b))) = Len(b) - n
           /\ \A i \in 1 .. Len(b) - n : SubSeq(b, n + 1, Len(b))[i] = b[n + i]
           /\ SubSeq(b, n + 1, Len(b)) = <<>> <=> n = Len(b)
<1>1. Len(b) \in Nat /\ \A i \in 1 .. Len(b) : b[i] \in Byte
  BY LenProperties, ElementOfSeq
<1>2. /\ SubSeq(b, n + 1, Len(b)) \in Seq(Byte)
      /\ Len(SubSeq(b, n + 1, Len(b))) = IF n + 1 <= Len(b) THEN Len(b) - (n + 1) + 1 ELSE 0
      /\ \A i \in 1 .. Len(b) - (n + 1) + 1 : SubSeq(b, n + 1, Len(b))[i] = b[(n + 1) + i - 1]
  BY <1>1, SubSeqProperties
<1>3. Len(SubSeq(b, n + 1, Len(b))) = Len(b) - n
  BY <1>1, <1>2
<1>4. \A i \in 1 .. Len(b) - n : SubSeq(b, n + 1, Len(b))[i] = b[n + i]
  BY <1>1, <1>2
<1>5. SubSeq(b, n + 1, Len(b)) = <<>> <=> n = Len(b)
  <2> DEFINE r == SubSeq(b, n + 1, Len(b))
  <2>1. r \in Seq(Byte) /\ Len(r) = Len(b) - n
    BY <1>2, <1>3
  <2> HIDE DEF r
  <2>2. r = <<>> <=> Len(r) = 0
    BY <2>1
  <2>3. r = <<>> <=> n = Len(b)
    BY <1>1, <2>1, <2>2
  <2>4. QED
    BY <2>3 DEF r
<1>6. QED
  BY <1>2, <1>3, <1>4, <1>5

\* What sendBytes() is given, where it is called.
LEMMA BufferBytes ==
    ASSUME SendInv, NEW t \in Thread, pc[t] \in {"flush", "write"}
    PROVE  /\ Buffer(t) \in Seq(Byte)
           /\ Len(Buffer(t)) \in Nat
           /\ pc[t] = "write" => message[t] \in Message /\ Len(Buffer(t)) = Size[message[t]]
           /\ pc[t] = "flush" => Buffer(t) = wbuffer
  BY BytesOfMessage, LenProperties DEF SendInv, TypeOK, Buffer, Byte

\* What is left of _wbuffer or of the message when sendBytes() has returned.
LEMMA LeftBytes ==
    ASSUME SendInv, NEW t \in Thread
    PROVE  /\ pc[t] = "flushed" =>
                /\ SubSeq(wbuffer, bytes[t] + 1, Len(wbuffer)) \in Seq(Byte)
                /\ SubSeq(wbuffer, bytes[t] + 1, Len(wbuffer)) = <<>> <=> bytes[t] = Len(wbuffer)
           /\ pc[t] = "written" =>
                /\ message[t] \in Message
                /\ SubSeq(MessageBytes(message[t]), bytes[t] + 1, Size[message[t]]) \in Seq(Byte)
                /\ wbuffer \o SubSeq(MessageBytes(message[t]), bytes[t] + 1, Size[message[t]])
                     = SubSeq(MessageBytes(message[t]), bytes[t] + 1, Size[message[t]])
                /\ SubSeq(MessageBytes(message[t]), bytes[t] + 1, Size[message[t]]) = <<>>
                     <=> bytes[t] = Size[message[t]]
<1> USE DEF SendInv, TypeOK, BufferOK
<1>1. wbuffer \in Seq(Byte) /\ bytes[t] \in Nat
  BY DEF Byte
<1>2. CASE pc[t] = "flushed"
  BY <1>1, <1>2, RestOfBytes
<1>3. CASE pc[t] = "written"
  <2>1. message[t] \in Message /\ bytes[t] <= Size[message[t]] /\ wbuffer = <<>>
    BY <1>3
  <2>2. MessageBytes(message[t]) \in Seq(Byte) /\ Len(MessageBytes(message[t])) = Size[message[t]]
    BY <2>1, BytesOfMessage
  <2>3. /\ SubSeq(MessageBytes(message[t]), bytes[t] + 1, Size[message[t]]) \in Seq(Byte)
        /\ SubSeq(MessageBytes(message[t]), bytes[t] + 1, Size[message[t]]) = <<>>
             <=> bytes[t] = Size[message[t]]
    BY <1>1, <2>1, <2>2, RestOfBytes
  <2>4. QED
    BY <1>3, <2>1, <2>3, ConcatEmptySeq
<1>4. QED
  BY <1>2, <1>3
\* The types, the lock and the order of flushing hold through every step.
LEMMA SendInductive == SendInv /\ [Next]_vars => SendInv'
<1> USE SendAssumption DEF SendPc, Goto, Return, kernel
<1> SUFFICES ASSUME SendInv, [Next]_vars PROVE SendInv'
  OBVIOUS
<1>n. Net \in Thread /\ None \notin Thread /\ None \notin Message
  BY DEF Thread
<1>w. wbuffer \in Seq(Byte) /\ wire \in Seq(Byte) /\ slist \in Seq(Message)
  BY DEF SendInv, TypeOK, Byte
<1>1. ASSUME NEW t \in Sender, NEW m \in Message, Send(t, m) PROVE SendInv'
  <2>1. t \in Thread /\ Append(slist, m) \in Seq(Message)
    BY <1>w DEF Thread
  <2>2. QED
    BY <1>1, <2>1 DEF Send, SendInv, TypeOK, LockExact, BufferOK, Holds, Buffer
<1>2. ASSUME WriteSocket PROVE SendInv'
  BY <1>2, <1>n DEF WriteSocket, SendInv, TypeOK, LockExact, BufferOK, Holds, Buffer
<1>3. ASSUME NEW t \in Thread, CloseSocket(t) PROVE SendInv'
  <2>1. ToSet(slist) \subseteq Message /\ <<>> \in Seq(Message)
    BY <1>w DEF ToSet
  <2>2. QED
    BY <1>3, <2>1 DEF CloseSocket, SendInv, TypeOK, LockExact, BufferOK, Holds, Buffer
<1>4. ASSUME NEW t \in Thread, Lock(t) PROVE SendInv'
  <2>1. \A u \in Thread : ~Holds(u)
    BY <1>4, <1>n DEF Lock, SendInv, LockExact
  <2>2. wbuffer # <<>> => Len(wbuffer) > 0
    BY <1>w
  <2>3. TypeOK'
    BY <1>4, <2>1, <2>2 DEF Lock, SendInv, TypeOK, Holds, Buffer
  <2>4. LockExact' /\ BufferOK'
    BY <1>4, <1>n, <2>1 DEF Lock, SendInv, TypeOK, LockExact, BufferOK, Holds
  <2>5. QED
    BY <2>3, <2>4 DEF SendInv
<1>5. ASSUME NEW t \in Thread, NEW k \in 1 .. Capacity, SendSome(t, k) PROVE SendInv'
  <2>1. /\ pc[t] \in {"flush", "write"} /\ Len(Buffer(t)) \in Nat /\ bytes[t] \in Nat
        /\ Buffer(t) \in Seq(Byte)
        /\ k \in Nat \ {0} /\ bytes[t] + k <= Len(Buffer(t)) /\ k <= room /\ room \in 0 .. Capacity
    BY <1>5, BufferBytes DEF SendSome, Sending, SendInv, TypeOK
  <2>2. SubSeq(Buffer(t), bytes[t] + 1, bytes[t] + k) \in Seq(Byte)
    <3>1. \A i \in bytes[t] + 1 .. bytes[t] + k : Buffer(t)[i] \in Byte
      BY <2>1, ElementOfSeq
    <3>2. QED
      BY <2>1, <3>1, SubSeqProperties
  <2>3. wire' \in Seq(Message \X Nat)
    BY <1>5, <1>w, <2>2, ConcatProperties DEF SendSome, Byte
  <2>4. room' \in 0 .. Capacity
    BY <1>5, <2>1 DEF SendSome
  <2>5. /\ pc' = [pc EXCEPT ![t] = IF bytes[t] + k = Len(Buffer(t)) THEN AfterSendBytes(t) ELSE pc[t]]
        /\ bytes' = [bytes EXCEPT ![t] = @ + k]
        /\ UNCHANGED <<slist, slocker, wbuffer, message, gone, fresh, released, nospace, edge, broken>>
        /\ pc \in [Thread -> SendPc] /\ bytes \in [Thread -> Nat]
    BY <1>5 DEF SendSome, SendInv, TypeOK
  <2>6. \A u \in Thread : u # t => /\ pc'[u] = pc[u] /\ bytes'[u] = bytes[u]
                                   /\ Len(Buffer(u))' = Len(Buffer(u))
    BY <2>5 DEF Buffer
  <2>7. bytes'[t] = bytes[t] + k /\ pc'[t] \in {pc[t], AfterSendBytes(t)}
    BY <2>5
  <2>8. \A u \in Thread : pc'[u] \in {"flush", "write"} => bytes'[u] < Len(Buffer(u))'
    <3>1. pc'[t] = pc[t] => Buffer(t)' = Buffer(t) /\ bytes[t] + k # Len(Buffer(t))
      BY <2>1, <2>5 DEF Buffer, AfterSendBytes
    <3>2. pc'[t] \in {"flush", "write"} => pc'[t] = pc[t]
      BY <2>1, <2>7 DEF AfterSendBytes
    <3>3. pc'[t] \in {"flush", "write"} => bytes'[t] < Len(Buffer(t))'
      BY <2>1, <2>7, <3>1, <3>2
    <3>4. ASSUME NEW u \in Thread, u # t, pc'[u] \in {"flush", "write"}
          PROVE  bytes'[u] < Len(Buffer(u))'
      BY <2>6, <3>4 DEF SendInv, TypeOK
    <3>5. QED
      BY <3>3, <3>4
  <2>9. TypeOK'
    <3>1. pc' \in [Thread -> SendPc] /\ bytes' \in [Thread -> Nat]
      BY <2>1, <2>5 DEF AfterSendBytes
    <3>2. \A u \in Thread : message'[u] \in Message <=> pc'[u] \in {"write", "written"}
      BY <2>1, <2>5, <2>6, <2>7 DEF SendInv, TypeOK, AfterSendBytes
    <3>3. QED
      BY <2>3, <2>4, <2>5, <2>8, <3>1, <3>2 DEF SendInv, TypeOK
  <2>10. LockExact'
    BY <2>1, <2>5, <2>6, <2>7 DEF SendInv, LockExact, Holds, AfterSendBytes
  <2>11. BufferOK'
    <3>1. pc'[t] # pc[t] => bytes'[t] = Len(Buffer(t))
      BY <2>1, <2>5
    <3>2. /\ pc[t] = "flush" => Len(Buffer(t)) = Len(wbuffer)
          /\ pc[t] = "write" => Len(Buffer(t)) = Size[message[t]]
      BY BufferBytes
    <3>3. ASSUME NEW u \in Thread, u # t
          PROVE  /\ pc'[u] \in {"flush", "flushed"} => wbuffer' # <<>>
                 /\ pc'[u] \in {"next", "write", "written"} => wbuffer' = <<>>
                 /\ pc'[u] = "flushed" => bytes'[u] <= Len(wbuffer')
                 /\ pc'[u] = "written" => bytes'[u] <= Size[message'[u]]
      BY <2>5, <2>6, <3>3 DEF SendInv, BufferOK
    <3>4. /\ pc'[t] \in {"flush", "flushed"} => wbuffer' # <<>>
          /\ pc'[t] \in {"next", "write", "written"} => wbuffer' = <<>>
          /\ pc'[t] = "flushed" => bytes'[t] <= Len(wbuffer')
          /\ pc'[t] = "written" => bytes'[t] <= Size[message'[t]]
      BY <2>1, <2>5, <2>7, <3>1, <3>2 DEF SendInv, BufferOK, AfterSendBytes
    <3>5. QED
      BY <3>3, <3>4 DEF BufferOK
  <2>12. QED
    BY <2>9, <2>10, <2>11 DEF SendInv
<1>6. ASSUME NEW t \in Thread, SendWouldBlock(t) PROVE SendInv'
  <2>1. pc[t] \in {"flush", "write"} /\ bytes[t] < Len(Buffer(t)) /\ bytes[t] \in Nat
    BY <1>6 DEF SendWouldBlock, Sending, SendInv, TypeOK
  <2>2. /\ pc[t] = "flush" => Len(Buffer(t)) = Len(wbuffer)
        /\ pc[t] = "write" => Len(Buffer(t)) = Size[message[t]]
        /\ Len(Buffer(t)) \in Nat
    BY <2>1, BufferBytes
  <2>3. TypeOK'
    BY <1>6, <2>1 DEF SendWouldBlock, SendInv, TypeOK, AfterSendBytes, Buffer
  <2>4. LockExact'
    BY <1>6, <2>1 DEF SendWouldBlock, SendInv, TypeOK, LockExact, Holds, AfterSendBytes
  <2>5. BufferOK'
    BY <1>6, <2>1, <2>2 DEF SendWouldBlock, SendInv, TypeOK, BufferOK, AfterSendBytes
  <2>6. QED
    BY <2>3, <2>4, <2>5 DEF SendInv
<1>7. ASSUME NEW t \in Thread, SendError(t) PROVE SendInv'
  <2>1. pc[t] \in {"flush", "write"}
    BY <1>7 DEF SendError, Sending
  <2>2. TypeOK'
    BY <1>7, <1>n, <2>1 DEF SendError, SendInv, TypeOK, Buffer
  <2>3. LockExact' /\ BufferOK'
    BY <1>7, <1>n, <2>1 DEF SendError, SendInv, TypeOK, LockExact, BufferOK, Holds
  <2>4. QED
    BY <2>2, <2>3 DEF SendInv
<1>8. ASSUME NEW t \in Thread, Flushed(t) PROVE SendInv'
  <2>1. /\ pc[t] = "flushed" /\ wbuffer' \in Seq(Message \X Nat)
        /\ slocker = t /\ \A u \in Thread : u # t => ~Holds(u)
    BY <1>8, LeftBytes DEF Flushed, SendInv, LockExact, Holds, Byte
  <2>2. /\ pc \in [Thread -> SendPc] /\ pc' \in [Thread -> SendPc]
        /\ \A u \in Thread : u # t => pc'[u] = pc[u]
        /\ wbuffer' # <<>> => pc'[t] = "idle" /\ slocker' = None
        /\ wbuffer' = <<>> => pc'[t] = "next" /\ slocker' = slocker
        /\ UNCHANGED <<slist, message, bytes, gone, fresh, released, wire, room, nospace, edge, broken>>
    BY <1>8 DEF Flushed, SendInv, TypeOK
  <2>3. TypeOK'
    BY <2>1, <2>2 DEF SendInv, TypeOK, Buffer, Holds
  <2>4. LockExact'
    BY <1>n, <2>1, <2>2 DEF LockExact, Holds
  <2>5. BufferOK'
    BY <2>1, <2>2 DEF BufferOK, Holds
  <2>6. QED
    BY <2>3, <2>4, <2>5 DEF SendInv
<1>9. ASSUME NEW t \in Thread, PopMessage(t) PROVE SendInv'
  <2>1. /\ pc[t] = "next" /\ Head(slist) \in Message /\ Tail(slist) \in Seq(Message)
        /\ wbuffer = <<>>
    BY <1>9, <1>w DEF PopMessage, SendInv, BufferOK
  <2>2. Len(MessageBytes(Head(slist))) = Size[Head(slist)] /\ Size[Head(slist)] \in Nat \ {0}
    BY <2>1, BytesOfMessage
  <2>3. TypeOK'
    BY <1>9, <2>1, <2>2 DEF PopMessage, SendInv, TypeOK, Buffer, MessageBytes
  <2>4. LockExact' /\ BufferOK'
    BY <1>9, <2>1 DEF PopMessage, SendInv, TypeOK, LockExact, BufferOK, Holds
  <2>5. QED
    BY <2>3, <2>4 DEF SendInv
<1>10. ASSUME NEW t \in Thread, NoMessage(t) PROVE SendInv'
  BY <1>10, <1>n DEF NoMessage, SendInv, TypeOK, LockExact, BufferOK, Holds, Buffer
<1>11. ASSUME NEW t \in Thread, Written(t) PROVE SendInv'
  <2>1. /\ pc[t] = "written" /\ wbuffer' \in Seq(Message \X Nat) /\ message[t] \in Message
        /\ slocker = t /\ \A u \in Thread : u # t => ~Holds(u)
    <3>1. pc[t] = "written" /\ slocker = t /\ \A u \in Thread : u # t => ~Holds(u)
      BY <1>11 DEF Written, SendInv, LockExact, Holds
    <3>2. wbuffer' \in Seq(Message \X Nat) /\ message[t] \in Message
      BY <1>11, LeftBytes DEF Written, Byte
    <3>3. QED
      BY <3>1, <3>2
  <2>2. /\ pc \in [Thread -> SendPc] /\ pc' \in [Thread -> SendPc]
        /\ \A u \in Thread : u # t => pc'[u] = pc[u]
        /\ wbuffer' # <<>> => pc'[t] = "idle" /\ slocker' = None
        /\ wbuffer' = <<>> => pc'[t] = "next" /\ slocker' = slocker
    BY <1>11 DEF Written, SendInv, TypeOK
  <2>3. /\ message' = [message EXCEPT ![t] = None] /\ released' = released \cup {message[t]}
        /\ UNCHANGED <<slist, bytes, gone, fresh, wire, room, nospace, edge, broken>>
    BY <1>11 DEF Written
  <2>4. TypeOK'
    BY <1>n, <2>1, <2>2, <2>3 DEF SendInv, TypeOK, Buffer, Holds
  <2>5. LockExact'
    BY <1>n, <2>1, <2>2 DEF LockExact, Holds
  <2>6. BufferOK'
    BY <2>1, <2>2 DEF BufferOK, Holds
  <2>7. QED
    BY <2>4, <2>5, <2>6 DEF SendInv
<1>12. ASSUME NEW k \in 1 .. Capacity, Drain(k) PROVE SendInv'
  <2>1. room' \in 0 .. Capacity
    BY <1>12 DEF Drain, SendInv, TypeOK
  <2>2. QED
    BY <1>12, <2>1 DEF Drain, SendInv, TypeOK, LockExact, BufferOK, Holds, Buffer
<1>13. ASSUME OtherEvent PROVE SendInv'
  BY <1>13 DEF OtherEvent, SendInv, TypeOK, LockExact, BufferOK, Holds, Buffer
<1>14. CASE UNCHANGED vars
  BY <1>14 DEF vars, SendInv, TypeOK, LockExact, BufferOK, Holds, Buffer
<1>15. QED
  BY <1>1, <1>2, <1>3, <1>4, <1>5, <1>6, <1>7, <1>8, <1>9, <1>10, <1>11, <1>12, <1>13, <1>14
     DEF Next, Step, PeerReads, Idle
\* The invariant of the lock holds throughout.
LEMMA SendInvariant == Spec => []SendInv
<1>1. ASSUME Init PROVE SendInv
  <2>1. /\ <<>> \in Seq(Message) /\ <<>> \in Seq(Message \X Nat)
        /\ None \notin Thread /\ None \notin Message
    BY SendAssumption DEF Thread
  <2>2. /\ pc \in [Thread -> SendPc] /\ message \in [Thread -> Message \cup {None}]
        /\ bytes \in [Thread -> Nat] /\ room \in 0 .. Capacity
        /\ \A t \in Thread : message[t] \notin Message /\ pc[t] = "idle"
    BY <1>1, <2>1, SendAssumption DEF Init, SendPc
  <2>3. nospace \in BOOLEAN /\ edge \in BOOLEAN /\ broken \in BOOLEAN /\ gone \in BOOLEAN
    BY <1>1, Zenon DEF Init
  <2>4. TypeOK
    BY <1>1, <2>1, <2>2, <2>3 DEF Init, TypeOK
  <2>5. LockExact /\ BufferOK
    BY <1>1, <2>1, <2>2 DEF Init, LockExact, BufferOK, Holds
  <2>6. QED
    BY <2>4, <2>5 DEF SendInv
<1>2. QED
  BY <1>1, SendInductive, PTL DEF Spec

\* The variables have their types, and the thread that is between the lock and
\* the unlock of send() is the one that holds _slocker.
THEOREM SendTypeCorrect == Spec => [](TypeOK /\ LockExact)
<1>1. SendInv => TypeOK /\ LockExact
  BY DEF SendInv
<1>2. QED
  BY <1>1, SendInvariant, PTL

-----------------------------------------------------------------------------
(* Output that waits.                                                       *)

\* The network thread will be told, or is on its way to the lock.
Wakeup == nospace \/ edge \/ pc[Net] = "lock"

\* Bytes or messages that wait with nobody in send() are taken care of: bytes
\* by an edge, messages by the thread that pushed one and waits for the lock.
\* sendBytes() leaves something behind only after EAGAIN has armed the edge.
OutputCovered ==
    /\ wbuffer # <<>> /\ ~broken /\ (\A t \in Thread : ~Holds(t)) => Wakeup
    /\ slist # <<>> /\ wbuffer = <<>> /\ ~broken /\ (\A t \in Thread : ~Holds(t))
          => \E t \in Thread : pc[t] = "lock"
    /\ \A t \in Thread :
          /\ pc[t] = "flushed" /\ bytes[t] < Len(wbuffer) => Wakeup
          /\ pc[t] = "written" /\ bytes[t] < Size[message[t]] => Wakeup

\* A socket is closed only after send() failed.
CloseNeedsError == (\A t \in Thread : pc[t] = "close" => broken) /\ (gone => broken)

\* Every step keeps both.
LEMMA CoverageKept ==
    SendInv /\ OutputCovered /\ CloseNeedsError /\ [Next]_vars
        => OutputCovered' /\ CloseNeedsError'
<1> USE SendAssumption DEF Goto, Return, kernel
<1> SUFFICES ASSUME SendInv, OutputCovered, CloseNeedsError, [Next]_vars
             PROVE  OutputCovered' /\ CloseNeedsError'
  OBVIOUS
<1>n. Net \in Thread /\ None \notin Thread /\ pc \in [Thread -> SendPc]
      /\ bytes \in [Thread -> Nat] /\ message \in [Thread -> Message \cup {None}]
  BY DEF Thread, SendInv, TypeOK
<1>1. ASSUME NEW t \in Sender, NEW m \in Message, Send(t, m)
      PROVE  OutputCovered' /\ CloseNeedsError'
  <2>1. t \in Thread /\ t # Net
    BY DEF Thread
  <2>2. QED
    BY <1>1, <1>n, <2>1 DEF Send, OutputCovered, CloseNeedsError, Holds, Wakeup
<1>2. ASSUME WriteSocket PROVE OutputCovered' /\ CloseNeedsError'
  BY <1>2, <1>n DEF WriteSocket, OutputCovered, CloseNeedsError, Holds, Wakeup
<1>3. ASSUME NEW t \in Thread, CloseSocket(t) PROVE OutputCovered' /\ CloseNeedsError'
  <2>1. broken /\ broken' = broken
    BY <1>3 DEF CloseSocket, CloseNeedsError
  <2>2. QED
    BY <1>3, <1>n, <2>1 DEF CloseSocket, OutputCovered, CloseNeedsError, Holds, Wakeup
<1>4. ASSUME NEW t \in Thread, Lock(t) PROVE OutputCovered' /\ CloseNeedsError'
  <2>1. \A u \in Thread : ~Holds(u)
    BY <1>4, <1>n DEF Lock, SendInv, LockExact
  <2>2. Holds(t)'
    BY <1>4, <1>n DEF Lock, Holds
  <2>3. QED
    BY <1>4, <1>n, <2>1, <2>2 DEF Lock, OutputCovered, CloseNeedsError, Holds
<1>5. ASSUME NEW t \in Thread, NEW k \in 1 .. Capacity, SendSome(t, k)
      PROVE  OutputCovered' /\ CloseNeedsError'
  <2>1. /\ pc[t] \in {"flush", "write"}
        /\ pc' = [pc EXCEPT ![t] = IF bytes[t] + k = Len(Buffer(t)) THEN AfterSendBytes(t) ELSE pc[t]]
        /\ bytes' = [bytes EXCEPT ![t] = @ + k]
        /\ UNCHANGED <<slist, wbuffer, message, gone, nospace, edge, broken>>
    BY <1>5 DEF SendSome, Sending
  <2>2. /\ pc[t] = "flush" => Len(Buffer(t)) = Len(wbuffer)
        /\ pc[t] = "write" => Len(Buffer(t)) = Size[message[t]]
    BY <2>1, BufferBytes
  <2>3. Holds(t) /\ Holds(t)'
    BY <1>n, <2>1 DEF Holds, AfterSendBytes
  <2>4. Wakeup => Wakeup'
    BY <1>n, <2>1 DEF Wakeup
  <2>5. QED
    BY <1>n, <2>1, <2>2, <2>3, <2>4 DEF OutputCovered, CloseNeedsError, AfterSendBytes
<1>6. ASSUME NEW t \in Thread, SendWouldBlock(t) PROVE OutputCovered' /\ CloseNeedsError'
  <2>1. Wakeup'
    BY <1>6 DEF SendWouldBlock, Wakeup
  <2>2. Holds(t)'
    BY <1>6, <1>n DEF SendWouldBlock, Holds, AfterSendBytes, Sending
  <2>3. CloseNeedsError'
    BY <1>6, <1>n DEF SendWouldBlock, CloseNeedsError, AfterSendBytes
  <2>4. QED
    BY <2>1, <2>2, <2>3 DEF OutputCovered
<1>7. ASSUME NEW t \in Thread, SendError(t) PROVE OutputCovered' /\ CloseNeedsError'
  <2>1. pc[t] \in {"flush", "write"} /\ slocker = t
    BY <1>7 DEF SendError, Sending, SendInv, LockExact, Holds
  <2>2. \A u \in Thread : u # t => pc[u] \notin {"flushed", "written"}
    BY <2>1 DEF SendInv, LockExact, Holds
  <2>3. QED
    BY <1>7, <1>n, <2>1, <2>2 DEF SendError, OutputCovered, CloseNeedsError, Holds, Wakeup
<1>8. ASSUME NEW t \in Thread, Flushed(t) PROVE OutputCovered' /\ CloseNeedsError'
  <2>1. /\ pc[t] = "flushed" /\ bytes[t] <= Len(wbuffer) /\ bytes[t] \in Nat /\ Len(wbuffer) \in Nat
        /\ \A u \in Thread : u # t => ~Holds(u)
    BY <1>8, LenProperties DEF Flushed, SendInv, LockExact, Holds, BufferOK, TypeOK
  <2>2. wbuffer' # <<>> => Wakeup
    BY <1>8, <2>1, LeftBytes DEF Flushed, OutputCovered
  <2>3. Wakeup => Wakeup'
    BY <1>8, <1>n, <2>1 DEF Flushed, Wakeup
  <2>4. wbuffer' = <<>> => Holds(t)'
    BY <1>8, <1>n DEF Flushed, Holds
  <2>5. \A u \in Thread : pc'[u] \notin {"flushed", "written"}
    BY <1>8, <1>n, <2>1 DEF Flushed, Holds
  <2>6. CloseNeedsError'
    BY <1>8, <1>n, <2>1 DEF Flushed, CloseNeedsError
  <2>7. QED
    BY <2>2, <2>3, <2>4, <2>5, <2>6 DEF OutputCovered
<1>9. ASSUME NEW t \in Thread, PopMessage(t) PROVE OutputCovered' /\ CloseNeedsError'
  <2>1. Holds(t) /\ Holds(t)' /\ pc[t] # "lock"
    BY <1>9, <1>n DEF PopMessage, Holds
  <2>2. QED
    BY <1>9, <1>n, <2>1 DEF PopMessage, OutputCovered, CloseNeedsError, Wakeup
<1>10. ASSUME NEW t \in Thread, NoMessage(t) PROVE OutputCovered' /\ CloseNeedsError'
  <2>1. /\ pc[t] = "next" /\ wbuffer' = <<>> /\ slist' = <<>>
        /\ \A u \in Thread : u # t => ~Holds(u)
    BY <1>10 DEF NoMessage, SendInv, LockExact, Holds, BufferOK
  <2>2. \A u \in Thread : pc'[u] \notin {"flushed", "written"}
    BY <1>10, <1>n, <2>1 DEF NoMessage, Holds
  <2>3. CloseNeedsError'
    BY <1>10, <1>n DEF NoMessage, CloseNeedsError
  <2>4. QED
    BY <2>1, <2>2, <2>3 DEF OutputCovered
<1>11. ASSUME NEW t \in Thread, Written(t) PROVE OutputCovered' /\ CloseNeedsError'
  <2>1. /\ pc[t] = "written" /\ bytes[t] <= Size[message[t]] /\ bytes[t] \in Nat
        /\ Size[message[t]] \in Nat /\ \A u \in Thread : u # t => ~Holds(u)
    BY <1>11 DEF Written, SendInv, LockExact, Holds, BufferOK, TypeOK
  <2>2. wbuffer' # <<>> => Wakeup
    BY <1>11, <2>1, LeftBytes DEF Written, OutputCovered
  <2>3. Wakeup => Wakeup'
    BY <1>11, <1>n, <2>1 DEF Written, Wakeup
  <2>4. wbuffer' = <<>> => Holds(t)'
    BY <1>11, <1>n DEF Written, Holds
  <2>5. \A u \in Thread : pc'[u] \notin {"flushed", "written"}
    BY <1>11, <1>n, <2>1 DEF Written, Holds
  <2>6. CloseNeedsError'
    BY <1>11, <1>n, <2>1 DEF Written, CloseNeedsError
  <2>7. QED
    BY <2>2, <2>3, <2>4, <2>5, <2>6 DEF OutputCovered
<1>12. ASSUME NEW k \in 1 .. Capacity, Drain(k) PROVE OutputCovered' /\ CloseNeedsError'
  <2>1. Wakeup => Wakeup'
    BY <1>12 DEF Drain, Wakeup
  <2>2. QED
    BY <1>12, <2>1 DEF Drain, OutputCovered, CloseNeedsError, Holds
<1>13. ASSUME OtherEvent PROVE OutputCovered' /\ CloseNeedsError'
  BY <1>13 DEF OtherEvent, OutputCovered, CloseNeedsError, Holds, Wakeup
<1>14. CASE UNCHANGED vars
  BY <1>14 DEF vars, OutputCovered, CloseNeedsError, Holds, Wakeup
<1>15. QED
  BY <1>1, <1>2, <1>3, <1>4, <1>5, <1>6, <1>7, <1>8, <1>9, <1>10, <1>11, <1>12, <1>13, <1>14
     DEF Next, Step, PeerReads, Idle

\* Both hold throughout.
LEMMA CoverageInvariant == Spec => [](SendInv /\ OutputCovered /\ CloseNeedsError)
<1>1. Init => OutputCovered /\ CloseNeedsError
  BY DEF Init, OutputCovered, CloseNeedsError, Holds
<1>2. QED
  BY <1>1, SendInvariant, CoverageKept, PTL DEF Spec

\* No output is left without a wakeup: when every thread is out of send() and
\* something waits on a connection that works, an edge is armed or pending.
THEOREM OutputStaysArmed == Spec => []OutputArmed
<1>1. SendInv /\ OutputCovered => OutputArmed
  BY SendAssumption DEF OutputCovered, OutputArmed, Wakeup, Holds, Thread
<1>2. QED
  BY <1>1, CoverageInvariant, PTL
-----------------------------------------------------------------------------
(* The owners of a message.                                                 *)

InUse(m) == \E t \in Thread : message[t] = m

\* A message that was not handed over is nowhere else.
FreshElsewhere == \A m \in fresh : ~InList(m) /\ ~InUse(m) /\ m \notin released

\* The steps that move no message.
LEMMA OwnersUnmoved ==
    ASSUME OwnedOnce, FreshElsewhere, UNCHANGED <<slist, message, fresh, released>>
    PROVE  OwnedOnce' /\ FreshElsewhere'
  BY DEF OwnedOnce, FreshElsewhere, InList, InUse, IsInjective

\* push_back hands a message to the list.
LEMMA PushedOwner ==
    ASSUME SendInv, OwnedOnce, FreshElsewhere, NEW m \in fresh,
           fresh' = fresh \ {m}, slist' = Append(slist, m), UNCHANGED <<message, released>>
    PROVE  OwnedOnce' /\ FreshElsewhere'
<1>1. slist \in Seq(Message) /\ m \in Message /\ fresh \subseteq Message
  BY DEF SendInv, TypeOK
<1>2. /\ Len(slist) \in Nat /\ DOMAIN slist = 1 .. Len(slist)
      /\ DOMAIN slist' = 1 .. Len(slist) + 1
      /\ \A i \in DOMAIN slist : slist'[i] = slist[i]
      /\ slist'[Len(slist) + 1] = m
  BY <1>1
<1>3. \A i \in DOMAIN slist' : i \in DOMAIN slist \/ i = Len(slist) + 1
  BY <1>2
<1>4. \A x \in Message : InList(x)' <=> InList(x) \/ x = m
  BY <1>2, <1>3 DEF InList
<1>5. ~InList(m) /\ ~InUse(m) /\ m \notin released
  BY DEF FreshElsewhere
<1>6. IsInjective(slist')
  BY <1>2, <1>3, <1>5 DEF OwnedOnce, IsInjective, InList
<1>7. OwnedOnce'
  BY <1>4, <1>5, <1>6 DEF OwnedOnce, InUse
<1>8. FreshElsewhere'
  BY <1>1, <1>4 DEF FreshElsewhere, InUse
<1>9. QED
  BY <1>7, <1>8

\* pop_front hands it to the thread.
LEMMA PoppedOwner ==
    ASSUME SendInv, OwnedOnce, FreshElsewhere, NEW t \in Thread, PopMessage(t)
    PROVE  OwnedOnce' /\ FreshElsewhere'
<1> DEFINE m == Head(slist)
<1>1. /\ slist \in Seq(Message) /\ slist # <<>> /\ slist' = Tail(slist) /\ fresh \subseteq Message
      /\ message \in [Thread -> Message \cup {None}] /\ message' = [message EXCEPT ![t] = m]
      /\ message[t] \notin Message /\ fresh' = fresh /\ released' = released
  BY DEF PopMessage, SendInv, TypeOK
<1>2. /\ Len(slist) \in Nat \ {0} /\ DOMAIN slist = 1 .. Len(slist)
      /\ DOMAIN slist' = 1 .. Len(slist) - 1
      /\ \A i \in DOMAIN slist' : slist'[i] = slist[i + 1]
      /\ m = slist[1] /\ m \in Message
  BY <1>1
<1> HIDE DEF m
<1>3. /\ 1 \in DOMAIN slist
      /\ \A i \in DOMAIN slist' : i + 1 \in DOMAIN slist /\ i + 1 # 1
      /\ \A i \in DOMAIN slist : i # 1 => i - 1 \in DOMAIN slist' /\ slist'[i - 1] = slist[i]
  BY <1>2
<1>4. InList(m) /\ \A x \in Message : InList(x)' <=> InList(x) /\ x # m
  <2>1. \A i \in DOMAIN slist : slist[i] = m => i = 1
    BY <1>2, <1>3 DEF OwnedOnce, IsInjective
  <2>2. QED
    BY <1>2, <1>3, <2>1 DEF InList
<1>5. \A x \in Message : InUse(x)' <=> InUse(x) \/ x = m
  BY <1>1 DEF InUse
<1>6. m \notin released /\ m \notin fresh
  BY <1>2, <1>4 DEF OwnedOnce, FreshElsewhere
<1>7. IsInjective(slist')
  <2>1. \A i, j \in DOMAIN slist' : slist'[i] = slist'[j] => i + 1 = j + 1
    BY <1>2, <1>3 DEF OwnedOnce, IsInjective
  <2>2. QED
    BY <1>2, <2>1 DEF IsInjective
<1>8. \A x \in Message : (\E u \in Thread : message'[u] = x) <=> InUse(x) \/ x = m
  BY <1>5 DEF InUse
<1>9. OwnedOnce'
  BY <1>1, <1>2, <1>4, <1>6, <1>7, <1>8 DEF OwnedOnce, InUse
<1>10. FreshElsewhere'
  BY <1>1, <1>4, <1>5, <1>6 DEF FreshElsewhere
<1>11. QED
  BY <1>9, <1>10

\* A thread that is done with its message gives it back.
LEMMA ReleasedOwner ==
    ASSUME SendInv, OwnedOnce, FreshElsewhere, NEW t \in Thread, Holds(t),
           released' = released \cup ({message[t]} \ {None}),
           message' = [message EXCEPT ![t] = None], UNCHANGED <<slist, fresh>>
    PROVE  OwnedOnce' /\ FreshElsewhere'
<1>1. /\ message \in [Thread -> Message \cup {None}] /\ None \notin Message
      /\ released \subseteq Message /\ fresh \subseteq Message
  BY SendAssumption DEF SendInv, TypeOK
<1>2. \A u \in Thread : u # t => message[u] = None
  BY <1>1 DEF SendInv, TypeOK, LockExact, Holds
<1>3. \A u \in Thread : message'[u] = None
  BY <1>1, <1>2
<1>4. \A x \in Message : (InList(x)' <=> InList(x)) /\ ~InUse(x)'
  BY <1>1, <1>3 DEF InList, InUse
<1>5. \A x \in Message : x \in released' <=> x \in released \/ message[t] = x
  BY <1>1
<1>6. \A x \in Message : message[t] = x => ~InList(x) /\ x \notin fresh
  BY DEF OwnedOnce, FreshElsewhere, InUse
<1>7. OwnedOnce'
  <2>1. \A x \in Message : x \notin fresh' => InList(x)' \/ x \in released'
    BY <1>2, <1>4, <1>5, <1>1 DEF OwnedOnce
  <2>2. \A x \in Message : InList(x)' => x \notin released'
    BY <1>4, <1>5, <1>6 DEF OwnedOnce
  <2>3. \A x \in Message, u \in Thread : message'[u] # x
    BY <1>1, <1>3
  <2>4. QED
    BY <2>1, <2>2, <2>3 DEF OwnedOnce, IsInjective
<1>8. FreshElsewhere'
  BY <1>1, <1>4, <1>5, <1>6 DEF FreshElsewhere
<1>9. QED
  BY <1>7, <1>8

\* The destructor of the socket gives back what is left in the list.
LEMMA ClosedOwner ==
    ASSUME SendInv, OwnedOnce, FreshElsewhere, NEW t \in Thread, CloseSocket(t)
    PROVE  OwnedOnce' /\ FreshElsewhere'
<1>1. /\ released' = released \cup ToSet(slist) /\ slist' = <<>>
      /\ UNCHANGED <<message, fresh>> /\ fresh \subseteq Message
  BY DEF CloseSocket, SendInv, TypeOK
<1>2. \A x \in Message : (x \in ToSet(slist) <=> InList(x)) /\ ~InList(x)'
  BY <1>1 DEF InList, ToSet
<1>3. OwnedOnce'
  BY <1>1, <1>2 DEF OwnedOnce, IsInjective
<1>4. FreshElsewhere'
  BY <1>1, <1>2 DEF FreshElsewhere, InUse
<1>5. QED
  BY <1>3, <1>4

\* Every step keeps the owners.
LEMMA OwnersKept ==
    ASSUME SendInv, OwnedOnce, FreshElsewhere, [Next]_vars
    PROVE  OwnedOnce' /\ FreshElsewhere'
<1> USE DEF kernel
<1>1. ASSUME NEW t \in Sender, NEW m \in Message, Send(t, m) PROVE OwnedOnce' /\ FreshElsewhere'
  BY <1>1, PushedOwner DEF Send
<1>2. ASSUME NEW t \in Thread, SendError(t) \/ Written(t) PROVE OwnedOnce' /\ FreshElsewhere'
  <2>1. Holds(t) /\ released' = released \cup ({message[t]} \ {None})
    BY <1>2, SendAssumption DEF SendError, Written, Sending, Holds, SendInv, TypeOK
  <2>2. QED
    BY <1>2, <2>1, ReleasedOwner DEF SendError, Written
<1>3. ASSUME NEW t \in Thread, CloseSocket(t) \/ PopMessage(t) PROVE OwnedOnce' /\ FreshElsewhere'
  BY <1>3, ClosedOwner, PoppedOwner
<1>4. CASE UNCHANGED <<slist, message, fresh, released>>
  BY <1>4, OwnersUnmoved
<1>5. QED
  BY <1>1, <1>2, <1>3, <1>4 DEF Next, Step, PeerReads, Idle, vars, WriteSocket, Lock, SendSome,
     SendWouldBlock, Flushed, NoMessage, Drain, OtherEvent

\* Each message handed to send() has one owner at a time, through partial
\* sends, errors and the destructor: none leaks and none is released twice.
THEOREM OneOwner == Spec => []OwnedOnce
<1>1. Init => OwnedOnce /\ FreshElsewhere
  BY SendAssumption DEF Init, OwnedOnce, FreshElsewhere, InList, InUse, IsInjective
<1>2. QED
  BY <1>1, SendInvariant, OwnersKept, PTL DEF Spec
-----------------------------------------------------------------------------
(* The stream of bytes.                                                     *)

\* What is left to send while a thread is in sendBytes(), and otherwise.
LEMMA RestIs ==
    ASSUME SendInv
    PROVE  /\ \A t \in Thread : InSend(t) => Rest = Unsent(t)
           /\ (\A t \in Thread : ~InSend(t)) => Rest = wbuffer
<1>1. \A t, u \in Thread : InSend(t) /\ InSend(u) => t = u
  BY DEF SendInv, LockExact, Holds, InSend
<1>2. QED
  BY <1>1 DEF Rest

\* The same in the next state.
LEMMA RestIsNext ==
    ASSUME SendInv'
    PROVE  /\ \A t \in Thread : InSend(t)' => Rest' = Unsent(t)'
           /\ (\A t \in Thread : ~InSend(t)') => Rest' = wbuffer'
<1>1. \A t, u \in Thread : InSend(t)' /\ InSend(u)' => t = u
  BY DEF SendInv, LockExact, Holds, InSend
<1>2. QED
  BY <1>1 DEF Rest

\* Taking k bytes from the rest of a buffer.
LEMMA RestAfter ==
    ASSUME NEW b \in Seq(Byte), NEW n \in Nat, NEW k \in Nat, n + k <= Len(b)
    PROVE  LET r == SubSeq(b, n + 1, Len(b))
           IN  /\ Len(r) = Len(b) - n
               /\ SubSeq(r, 1, k) = SubSeq(b, n + 1, n + k)
               /\ SubSeq(r, k + 1, Len(r)) = SubSeq(b, n + k + 1, Len(b))
<1> DEFINE r == SubSeq(b, n + 1, Len(b))
<1>1. Len(b) \in Nat /\ n <= Len(b)
  OBVIOUS
<1>2. /\ r \in Seq(Byte) /\ Len(r) = Len(b) - n
      /\ \A i \in 1 .. Len(b) - n : r[i] = b[n + i]
  BY <1>1, RestOfBytes
<1> HIDE DEF r
<1>3. SubSeq(r, 1, k) = SubSeq(b, n + 1, n + k)
  <2>1. \A i \in n + 1 .. n + k : b[i] \in Byte
    BY <1>1, ElementOfSeq
  <2>2. \A i \in 1 .. k : r[i] \in Byte
    BY <1>1, <1>2, ElementOfSeq
  <2>3. /\ SubSeq(r, 1, k) \in Seq(Byte)
        /\ Len(SubSeq(r, 1, k)) = IF 1 <= k THEN k - 1 + 1 ELSE 0
        /\ \A i \in 1 .. k - 1 + 1 : SubSeq(r, 1, k)[i] = r[1 + i - 1]
    BY <2>2, SubSeqProperties
  <2>4. /\ SubSeq(b, n + 1, n + k) \in Seq(Byte)
        /\ Len(SubSeq(b, n + 1, n + k)) = IF n + 1 <= n + k THEN n + k - (n + 1) + 1 ELSE 0
        /\ \A i \in 1 .. n + k - (n + 1) + 1 : SubSeq(b, n + 1, n + k)[i] = b[n + 1 + i - 1]
    BY <2>1, SubSeqProperties
  <2>5. Len(SubSeq(r, 1, k)) = k /\ Len(SubSeq(b, n + 1, n + k)) = k
    BY <2>3, <2>4
  <2>6. \A i \in 1 .. k : SubSeq(r, 1, k)[i] = SubSeq(b, n + 1, n + k)[i]
    BY <1>1, <1>2, <2>3, <2>4
  <2>7. QED
    BY <2>3, <2>4, <2>5, <2>6, SeqEqual
<1>4. SubSeq(r, k + 1, Len(r)) = SubSeq(b, n + k + 1, Len(b))
  <2>0. k <= Len(r)
    BY <1>1, <1>2
  <2>1. /\ SubSeq(r, k + 1, Len(r)) \in Seq(Byte)
        /\ Len(SubSeq(r, k + 1, Len(r))) = Len(r) - k
        /\ \A i \in 1 .. Len(r) - k : SubSeq(r, k + 1, Len(r))[i] = r[k + i]
    BY <1>2, <2>0, RestOfBytes
  <2>2. /\ SubSeq(b, (n + k) + 1, Len(b)) \in Seq(Byte)
        /\ Len(SubSeq(b, (n + k) + 1, Len(b))) = Len(b) - (n + k)
        /\ \A i \in 1 .. Len(b) - (n + k) : SubSeq(b, (n + k) + 1, Len(b))[i] = b[(n + k) + i]
    BY <1>1, RestOfBytes
  <2>3. \A i \in 1 .. Len(r) - k : SubSeq(r, k + 1, Len(r))[i] = SubSeq(b, (n + k) + 1, Len(b))[i]
    BY <1>1, <1>2, <2>1, <2>2
  <2>4. Len(r) - k = Len(b) - (n + k)
    BY <1>1, <1>2
  <2>5. QED
    BY <2>1, <2>2, <2>3, <2>4, SeqEqual
<1>5. QED
  BY <1>2, <1>3, <1>4 DEF r

\* ::send takes bytes from the front of what is left.
LEMMA SentBytes ==
    ASSUME SendInv, SendInv', NEW t \in Thread, NEW k \in 1 .. Capacity, SendSome(t, k)
    PROVE  \E j \in 1 .. Len(Rest) : /\ wire' = wire \o SubSeq(Rest, 1, j)
                                     /\ Rest' = SubSeq(Rest, j + 1, Len(Rest))
<1> DEFINE b == Buffer(t)
<1>1. /\ pc[t] \in {"flush", "write"} /\ b \in Seq(Byte) /\ Len(b) \in Nat /\ bytes[t] \in Nat
      /\ k \in Nat \ {0} /\ bytes[t] + k <= Len(b)
      /\ wire' = wire \o SubSeq(b, bytes[t] + 1, bytes[t] + k)
      /\ bytes \in [Thread -> Nat] /\ bytes' = [bytes EXCEPT ![t] = @ + k]
      /\ pc \in [Thread -> SendPc] /\ UNCHANGED <<wbuffer, message>>
      /\ pc' = [pc EXCEPT ![t] = IF bytes[t] + k = Len(b) THEN AfterSendBytes(t) ELSE pc[t]]
  <2>1. pc[t] \in {"flush", "write"}
    BY DEF SendSome, Sending
  <2>2. b \in Seq(Byte) /\ Len(b) \in Nat
    BY <2>1, BufferBytes
  <2>3. /\ bytes \in [Thread -> Nat] /\ pc \in [Thread -> SendPc]
        /\ k \in Nat \ {0} /\ bytes[t] + k <= Len(b)
    <3>1. k \in Nat \ {0}
      BY SendAssumption
    <3>2. bytes[t] + k <= Len(b)
      BY DEF SendSome
    <3>3. QED
      BY <3>1, <3>2 DEF SendInv, TypeOK
  <2>4. /\ wire' = wire \o SubSeq(b, bytes[t] + 1, bytes[t] + k)
        /\ bytes' = [bytes EXCEPT ![t] = @ + k] /\ UNCHANGED <<wbuffer, message>>
        /\ pc' = [pc EXCEPT ![t] = IF bytes[t] + k = Len(b) THEN AfterSendBytes(t) ELSE pc[t]]
    BY DEF SendSome, Goto
  <2>5. QED
    BY <2>1, <2>2, <2>3, <2>4
<1>2. Rest = SubSeq(b, bytes[t] + 1, Len(b))
  BY <1>1, RestIs, BufferBytes DEF InSend, Unsent, Buffer
<1>3. Rest' = SubSeq(b, bytes[t] + k + 1, Len(b))
  <2>1. InSend(t)' /\ (pc'[t] \in {"flush", "flushed"} <=> pc[t] = "flush")
    BY <1>1 DEF InSend, AfterSendBytes
  <2>2. Unsent(t)' = SubSeq(b, bytes[t] + k + 1, Len(b))
    BY <1>1, <2>1, BufferBytes DEF Unsent, Buffer, MessageBytes
  <2>3. QED
    BY <2>1, <2>2, RestIsNext
<1> HIDE DEF b
<1>4. /\ Len(Rest) = Len(b) - bytes[t]
      /\ SubSeq(Rest, 1, k) = SubSeq(b, bytes[t] + 1, bytes[t] + k)
      /\ SubSeq(Rest, k + 1, Len(Rest)) = SubSeq(b, bytes[t] + k + 1, Len(b))
  BY <1>1, <1>2, RestAfter
<1>5. k \in 1 .. Len(Rest)
  BY <1>1, <1>4
<1>6. QED
  BY <1>1, <1>3, <1>4, <1>5

\* The steps that send nothing leave what is left to send as it is.
LEMMA RestUnchanged ==
    ASSUME SendInv, SendInv', NEW t \in Thread,
           Lock(t) \/ SendWouldBlock(t) \/ Flushed(t) \/ NoMessage(t) \/ Written(t)
    PROVE  Rest' = Rest
<1> USE DEF Goto, Return
<1>t. /\ pc \in [Thread -> SendPc] /\ bytes \in [Thread -> Nat] /\ wbuffer \in Seq(Byte)
      /\ None \notin Thread
  BY SendAssumption DEF SendInv, TypeOK, Byte, Thread
<1>1. CASE Lock(t)
  <2>1. \A u \in Thread : ~InSend(u)
    BY <1>1, <1>t DEF Lock, SendInv, LockExact, InSend, Holds
  <2>2. CASE wbuffer = <<>>
    <3>1. \A u \in Thread : ~InSend(u)'
      BY <1>1, <1>t, <2>1, <2>2 DEF Lock, InSend
    <3>2. QED
      BY <1>1, <2>1, <3>1, RestIs, RestIsNext DEF Lock
  <2>3. CASE wbuffer # <<>>
    <3>1. InSend(t)' /\ pc'[t] = "flush" /\ bytes'[t] = 0 /\ wbuffer' = wbuffer
      BY <1>1, <1>t, <2>3 DEF Lock, InSend
    <3>2. Unsent(t)' = SubSeq(wbuffer, 1, Len(wbuffer))
      BY <3>1 DEF Unsent
    <3>3. Unsent(t)' = wbuffer
      BY <1>t, <3>2, SubSeqFull
    <3>4. QED
      BY <2>1, <3>1, <3>3, RestIs, RestIsNext
  <2>4. QED
    BY <2>2, <2>3
<1>2. CASE SendWouldBlock(t)
  <2>1. InSend(t) /\ InSend(t)' /\ Unsent(t)' = Unsent(t)
    BY <1>2, <1>t DEF SendWouldBlock, Sending, InSend, AfterSendBytes, Unsent, MessageBytes
  <2>2. QED
    BY <2>1, RestIs, RestIsNext
<1>3. CASE NoMessage(t)
  <2>1. \A u \in Thread : ~InSend(u) /\ ~InSend(u)'
    BY <1>3, <1>t DEF NoMessage, InSend, SendInv, LockExact, Holds
  <2>2. QED
    BY <1>3, <2>1, RestIs, RestIsNext DEF NoMessage
<1>4. CASE Flushed(t) \/ Written(t)
  <2>1. InSend(t) /\ \A u \in Thread : ~InSend(u)'
    BY <1>4, <1>t DEF Flushed, Written, InSend, SendInv, LockExact, Holds
  <2>2. wbuffer' = Unsent(t)
    BY <1>4, LeftBytes DEF Flushed, Written, Unsent
  <2>3. QED
    BY <2>1, <2>2, RestIs, RestIsNext
<1>5. QED
  BY <1>1, <1>2, <1>3, <1>4

\* pop_front begins a message, with nothing left of the one before it.
LEMMA BegunMessage ==
    ASSUME SendInv, SendInv', NEW t \in Thread, PopMessage(t)
    PROVE  Rest = <<>> /\ Rest' = MessageBytes(Head(slist))
<1>1. /\ slist \in Seq(Message) /\ slist # <<>> /\ Head(slist) \in Message
      /\ pc \in [Thread -> SendPc] /\ pc[t] = "next" /\ wbuffer = <<>>
      /\ pc'[t] = "write" /\ bytes'[t] = 0 /\ message'[t] = Head(slist)
  BY DEF PopMessage, SendInv, TypeOK, BufferOK, Goto
<1>2. \A u \in Thread : ~InSend(u)
  BY <1>1 DEF SendInv, LockExact, Holds, InSend
<1>3. InSend(t)' /\ Unsent(t)' = SubSeq(MessageBytes(Head(slist)), 1, Size[Head(slist)])
  <2>1. InSend(t)'
    BY <1>1 DEF InSend
  <2>2. Unsent(t)' = SubSeq(MessageBytes(message'[t]), bytes'[t] + 1, Size[message'[t]])
    BY <1>1 DEF Unsent, MessageBytes
  <2>3. QED
    BY <1>1, <2>1, <2>2
<1>4. SubSeq(MessageBytes(Head(slist)), 1, Size[Head(slist)]) = MessageBytes(Head(slist))
  BY <1>1, BytesOfMessage, SubSeqFull
<1>5. QED
  BY <1>1, <1>2, <1>3, <1>4, RestIs, RestIsNext
\* Every step of the threads and of the kernel is a step of the stream or
\* leaves it alone.
LEMMA StreamStep ==
    ASSUME SendInv, SendInv', CloseNeedsError, CloseNeedsError', [Next]_vars
    PROVE  [Stream!StreamNext]_(Stream!streamVars)
<1> USE DEF kernel
<1>1. CASE broken
  <2>1. broken' /\ wire' = wire
    BY <1>1 DEF Next, Step, PeerReads, Idle, vars, Send, WriteSocket, CloseSocket, Lock,
       SendSome, SendWouldBlock, SendError, Flushed, PopMessage, NoMessage, Written, Drain,
       OtherEvent
  <2>2. QED
    BY <1>1, <2>1 DEF Stream!streamVars
<1>2. CASE ~broken
  <2>1. ASSUME NEW t \in Sender, NEW m \in Message, Send(t, m)
        PROVE  [Stream!StreamNext]_(Stream!streamVars)
    <3>1. /\ slist' = Append(slist, m) /\ wire' = wire /\ broken' = broken
          /\ UNCHANGED <<wbuffer, bytes, message>> /\ t \in Thread
          /\ pc[t] = "idle" /\ pc' = [pc EXCEPT ![t] = "lock"] /\ pc \in [Thread -> SendPc]
      BY <2>1 DEF Send, Goto, SendInv, TypeOK, Thread
    <3>2. \A u \in Thread : (InSend(u)' <=> InSend(u)) /\ (InSend(u) => Unsent(u)' = Unsent(u))
      BY <3>1 DEF InSend, Unsent, MessageBytes
    <3>3. Rest' = Rest
      BY <3>1, <3>2, RestIs, RestIsNext
    <3>4. Stream!Accept(m)
      BY <1>2, <3>1, <3>3 DEF Stream!Accept
    <3>5. QED
      BY <3>4 DEF Stream!StreamNext
  <2>2. ASSUME NEW t \in Thread, NEW k \in 1 .. Capacity, SendSome(t, k)
        PROVE  [Stream!StreamNext]_(Stream!streamVars)
    <3>1. PICK j \in 1 .. Len(Rest) : /\ wire' = wire \o SubSeq(Rest, 1, j)
                                      /\ Rest' = SubSeq(Rest, j + 1, Len(Rest))
      BY <2>2, SentBytes
    <3>2. slist' = slist /\ broken' = broken
      BY <2>2 DEF SendSome
    <3>3. Stream!Transmit(j)
      BY <1>2, <3>1, <3>2 DEF Stream!Transmit
    <3>4. QED
      BY <1>2, <3>3 DEF Stream!StreamNext
  <2>3. ASSUME NEW t \in Thread, SendError(t) PROVE [Stream!StreamNext]_(Stream!streamVars)
    BY <1>2, <2>3 DEF SendError, Stream!StreamNext, Stream!Break
  <2>4. ASSUME NEW t \in Thread, PopMessage(t) PROVE [Stream!StreamNext]_(Stream!streamVars)
    <3>1. /\ slist # <<>> /\ slist' = Tail(slist) /\ wire' = wire /\ broken' = broken
          /\ slist \in Seq(Message) /\ Head(slist) \in Message
      BY <2>4 DEF PopMessage, SendInv, TypeOK
    <3>2. Rest = <<>> /\ Rest' = MessageBytes(Head(slist))
      BY <2>4, BegunMessage
    <3>3. Stream!Begin
      BY <1>2, <3>1, <3>2 DEF Stream!Begin, Stream!MessageBytes, MessageBytes
    <3>4. QED
      BY <3>3 DEF Stream!StreamNext
  <2>5. ASSUME NEW t \in Thread,
               Lock(t) \/ SendWouldBlock(t) \/ Flushed(t) \/ NoMessage(t) \/ Written(t)
        PROVE  [Stream!StreamNext]_(Stream!streamVars)
    <3>1. Rest' = Rest
      BY <2>5, RestUnchanged
    <3>2. UNCHANGED <<slist, wire, broken>>
      BY <2>5 DEF Lock, SendWouldBlock, Flushed, NoMessage, Written
    <3>3. QED
      BY <3>1, <3>2 DEF Stream!streamVars
  <2>6. ASSUME NEW t \in Thread, CloseSocket(t) PROVE FALSE
    BY <1>2, <2>6 DEF CloseSocket, CloseNeedsError
  <2>7. ASSUME WriteSocket \/ PeerReads \/ OtherEvent \/ UNCHANGED vars
        PROVE  [Stream!StreamNext]_(Stream!streamVars)
    <3>1. UNCHANGED <<slist, wire, broken, wbuffer, bytes, message>>
      BY <2>7 DEF WriteSocket, PeerReads, Drain, OtherEvent, vars
    <3>2. \A u \in Thread : /\ InSend(u)' <=> InSend(u)
                            /\ InSend(u) => pc'[u] = pc[u]
      BY <2>7 DEF WriteSocket, PeerReads, Drain, OtherEvent, vars, InSend, Goto, SendInv, TypeOK
    <3>3. \A u \in Thread : InSend(u) => Unsent(u)' = Unsent(u)
      BY <3>1, <3>2 DEF Unsent, MessageBytes
    <3>4. Rest' = Rest
      BY <3>1, <3>2, <3>3, RestIs, RestIsNext
    <3>5. QED
      BY <3>1, <3>4 DEF Stream!streamVars
  <2>8. QED
    BY <2>1, <2>2, <2>3, <2>4, <2>5, <2>6, <2>7 DEF Next, Step, Idle
<1>3. QED
  BY <1>1, <1>2

\* The bytes leave in the order in which the messages were accepted, each
\* message in one piece, whoever of the senders and the network thread sends
\* them and wherever the kernel stops taking them.
THEOREM StreamImplemented == Spec => ImplementsStream
<1>1. ASSUME Init PROVE Stream!StreamInit
  <2>1. \A t \in Thread : ~InSend(t)
    BY <1>1 DEF Init, InSend
  <2>2. Rest = <<>>
    BY <1>1, <2>1 DEF Init, Rest
  <2>3. QED
    BY <1>1, <2>2 DEF Init, Stream!StreamInit
<1>2. /\ SendInv /\ OutputCovered /\ CloseNeedsError
      /\ (SendInv /\ OutputCovered /\ CloseNeedsError)'
      /\ [Next]_vars
      => [Stream!StreamNext]_(Stream!streamVars)
  BY StreamStep
<1>3. QED
  BY <1>1, <1>2, CoverageInvariant, PTL DEF Spec, ImplementsStream, Stream!StreamSpec
=============================================================================
