-------------------------- MODULE SocketRecvProofs --------------------------
(***************************************************************************)
(* Proofs about SocketRecv, for any stream of messages of any sizes, any   *)
(* length of a read and any room in the kernel.                            *)
(***************************************************************************)
EXTENDS SocketRecv, SequenceTheorems, TLAPS

\* Outside readBytes() nothing is held between the kernel and _rbuffer, and
\* between calls nothing waits in _rlist.
Between ==
    /\ pc # "read" => chunk = <<>>
    /\ pc \in {"poll", "read"} => rlist = <<>>

\* The network thread goes on only while receive() has not failed.
FailedCloses ==
    /\ reason # "none" => pc = "close" \/ (pc = "poll" /\ closed)
    /\ pc = "close" => reason # "none"

\* Bytes in the kernel and the end of the connection have an edge pending once
\* readBytes() has seen the kernel empty.
Armed ==
    pc \in {"poll", "parse", "push"} /\ ~closed /\ (kqueue # <<>> \/ peer # "open") => edge

\* receive() returns true only after it has cut off every complete message.
AllCut == pc = "push" \/ (pc = "poll" /\ ~closed) => ~Enough(rbuffer)

RecvInv == TypeOK /\ Between /\ FailedCloses /\ Armed /\ AllCut

-----------------------------------------------------------------------------
\* What the front and the back of a sequence of bytes are.
LEMMA Cut ==
    ASSUME NEW b \in Seq(Byte), NEW k \in Nat, k <= Len(b)
    PROVE  /\ SubSeq(b, 1, k) \in Seq(Byte) /\ Len(SubSeq(b, 1, k)) = k
           /\ SubSeq(b, k + 1, Len(b)) \in Seq(Byte)
           /\ Len(SubSeq(b, k + 1, Len(b))) = Len(b) - k
           /\ \A i \in 1 .. Len(b) - k : SubSeq(b, k + 1, Len(b))[i] = b[k + i]
           /\ SubSeq(b, 1, k) \o SubSeq(b, k + 1, Len(b)) = b
<1>1. Len(b) \in Nat /\ \A i \in 1 .. Len(b) : b[i] \in Byte
  BY LenProperties, ElementOfSeq
<1>2. /\ SubSeq(b, 1, k) \in Seq(Byte)
      /\ Len(SubSeq(b, 1, k)) = IF 1 <= k THEN k - 1 + 1 ELSE 0
  BY <1>1, SubSeqProperties
<1>3. /\ SubSeq(b, k + 1, Len(b)) \in Seq(Byte)
      /\ Len(SubSeq(b, k + 1, Len(b))) = IF k + 1 <= Len(b) THEN Len(b) - (k + 1) + 1 ELSE 0
      /\ \A i \in 1 .. Len(b) - (k + 1) + 1 : SubSeq(b, k + 1, Len(b))[i] = b[(k + 1) + i - 1]
  BY <1>1, SubSeqProperties
<1>a. 1 \in 1 .. Len(b) + 1 /\ k \in 1 - 1 .. Len(b) /\ Len(b) \in k .. Len(b)
  BY <1>1
<1>4. SubSeq(b, 1, k) \o SubSeq(b, k + 1, Len(b)) = SubSeq(b, 1, Len(b))
  BY <1>a, ConcatAdjacentSubSeq
<1>5. Len(SubSeq(b, 1, k)) = k /\ Len(SubSeq(b, k + 1, Len(b))) = Len(b) - k
  BY <1>1, <1>2, <1>3
<1>6. \A i \in 1 .. Len(b) - k : SubSeq(b, k + 1, Len(b))[i] = b[k + i]
  BY <1>1, <1>3
<1>7. QED
  BY <1>2, <1>3, <1>4, <1>5, <1>6, SubSeqFull

\* A buffer with k more bytes.
LEMMA Joined ==
    ASSUME NEW b \in Seq(Byte), NEW c \in Seq(Byte), NEW k \in Nat, k <= Len(c)
    PROVE  b \o SubSeq(c, 1, k) \in Seq(Byte) /\ Len(b \o SubSeq(c, 1, k)) = Len(b) + k
<1> DEFINE x == SubSeq(c, 1, k)
<1>1. x \in Seq(Byte) /\ Len(x) = k
  BY Cut
<1> HIDE DEF x
<1>2. b \o x \in Seq(Byte) /\ Len(b \o x) = Len(b) + k
  BY <1>1, ConcatProperties
<1>3. QED
  BY <1>2 DEF x

\* Two buffers as one, a name that hides the concatenation.
Join(a, b) == a \o b

\* Bytes that move from the front of one buffer to the end of the one before
\* it stay where they are in the stream.
LEMMA Shift ==
    \A a, b, x, y \in Seq(Byte) :
        Join(Join(a, Join(b, x)), y) = Join(Join(a, b), Join(x, y))
<1>1. \A a, b \in Seq(Byte) : Join(a, b) \in Seq(Byte)
  BY ConcatProperties DEF Join
<1>2. \A a, b, c \in Seq(Byte) : Join(Join(a, b), c) = Join(a, Join(b, c))
  BY ConcatAssociative DEF Join
<1>3. QED
  BY <1>1, <1>2

\* Taking k bytes off the first of two buffers takes them off the stream.
LEMMA DropFront ==
    ASSUME NEW a \in Seq(Byte), NEW b \in Seq(Byte), NEW k \in Nat, k <= Len(a)
    PROVE  SubSeq(a, k + 1, Len(a)) \o b = SubSeq(a \o b, k + 1, Len(a \o b))
<1> DEFINE r == SubSeq(a, k + 1, Len(a))
           ab == a \o b
           q == SubSeq(ab, k + 1, Len(ab))
<1>1. Len(a) \in Nat /\ Len(b) \in Nat
  BY LenProperties
<1>2. /\ ab \in Seq(Byte) /\ Len(ab) = Len(a) + Len(b)
      /\ \A i \in 1 .. Len(a) + Len(b) : ab[i] = IF i <= Len(a) THEN a[i] ELSE b[i - Len(a)]
  BY ConcatProperties
<1>3. r \in Seq(Byte) /\ Len(r) = Len(a) - k /\ \A i \in 1 .. Len(a) - k : r[i] = a[k + i]
  BY Cut
<1>4. /\ r \o b \in Seq(Byte) /\ Len(r \o b) = Len(r) + Len(b)
      /\ \A i \in 1 .. Len(r) + Len(b) : (r \o b)[i] = IF i <= Len(r) THEN r[i] ELSE b[i - Len(r)]
  BY <1>3, ConcatProperties
<1> HIDE DEF r, ab
<1>5. q \in Seq(Byte) /\ Len(q) = Len(ab) - k /\ \A i \in 1 .. Len(ab) - k : q[i] = ab[k + i]
  BY <1>1, <1>2, Cut
<1> HIDE DEF q
<1>6. \A i \in 1 .. Len(r \o b) : (r \o b)[i] = q[i]
  BY <1>1, <1>2, <1>3, <1>4, <1>5
<1>l. Len(r \o b) = Len(q)
  BY <1>1, <1>2, <1>3, <1>4, <1>5
<1>7. r \o b = q
  BY <1>4, <1>5, <1>6, <1>l, SeqEqual
<1>8. QED
  BY <1>7 DEF r, ab, q
-----------------------------------------------------------------------------
\* The front of a buffer that has a message in it.
LEMMA EnoughIs ==
    ASSUME NEW b \in Seq(Byte), Enough(b)
    PROVE  /\ Len(b) \in Nat /\ Len(b) > 0
           /\ len(b) \in Nat /\ len(b) <= Len(b)
           /\ b[1][1] \in Message
<1>1. Len(b) \in Nat /\ Len(b) >= LenField /\ Len(b) >= len(b)
  BY LenProperties DEF Enough
<1>2. Len(b) > 0
  BY <1>1, RecvAssumption
<1>3. b[1] \in Message \X Nat
  BY <1>1, <1>2, ElementOfSeq DEF Byte
<1>4. len(b) \in Nat /\ b[1][1] \in Message
  BY <1>3, RecvAssumption DEF len
<1>5. QED
  BY <1>1, <1>2, <1>4

\* The inductive invariant of the thread's control: what it holds where, and
\* when it may sleep.
LEMMA RecvInductive == RecvInv /\ [Next]_vars => RecvInv'
<1> SUFFICES ASSUME RecvInv, [Next]_vars PROVE RecvInv'
  OBVIOUS
<1>c. KernelRoom \in Nat /\ ReadLen \in Nat
  BY RecvAssumption
<1>t. /\ tosend \in Seq(Byte) /\ kqueue \in Seq(Byte) /\ chunk \in Seq(Byte)
      /\ rbuffer \in Seq(Byte) /\ rlist \in Seq(Message) /\ delivered \in Seq(Message)
  BY DEF RecvInv, TypeOK
<1>e. <<>> \in Seq(Byte) /\ <<>> \in Seq(Message) /\ Len(<<>>) <= ReadLen
  BY <1>c, EmptySeq
<1>a. ASSUME NEW k \in 1 .. KernelRoom, Arrive(k)
      PROVE  kqueue' \in Seq(Byte) /\ tosend' \in Seq(Byte)
  BY <1>a, <1>c, <1>t, Cut, Joined DEF Arrive
<1>r. ASSUME NEW k \in 1 .. ReadLen, Recv(k)
      PROVE  kqueue' \in Seq(Byte) /\ chunk' \in Seq(Byte) /\ Len(chunk') <= ReadLen
  <2>1. k \in Nat /\ k <= Len(kqueue)
    BY <1>c, <1>r DEF Recv
  <2>2. /\ SubSeq(kqueue, k + 1, Len(kqueue)) \in Seq(Byte)
        /\ chunk \o SubSeq(kqueue, 1, k) \in Seq(Byte)
        /\ Len(chunk \o SubSeq(kqueue, 1, k)) = Len(chunk) + k
    BY <1>t, <2>1, Cut, Joined
  <2>3. QED
    BY <1>r, <2>2 DEF Recv
<1>p. ASSUME ParseMessage PROVE rbuffer' \in Seq(Byte) /\ rlist' \in Seq(Message)
  <2>1. /\ len(rbuffer) \in Nat /\ len(rbuffer) <= Len(rbuffer) /\ rbuffer[1][1] \in Message
    BY <1>p, <1>t, EnoughIs DEF ParseMessage
  <2>2. SubSeq(rbuffer, len(rbuffer) + 1, Len(rbuffer)) \in Seq(Byte)
    BY <1>t, <2>1, Cut
  <2>3. Append(rlist, rbuffer[1][1]) \in Seq(Message)
    BY <1>t, <2>1, AppendProperties
  <2>4. QED
    BY <1>p, <2>2, <2>3 DEF ParseMessage
<1>h. ASSUME PushMessage PROVE delivered' \in Seq(Message) /\ rlist' \in Seq(Message)
  <2>1. Head(rlist) \in Message /\ Tail(rlist) \in Seq(Message)
    BY <1>h, <1>t, HeadTailProperties DEF PushMessage
  <2>2. Append(delivered, Head(rlist)) \in Seq(Message)
    BY <1>t, <2>1, AppendProperties
  <2>3. QED
    BY <1>h, <2>1, <2>2 DEF PushMessage
<1>j. rbuffer \o chunk \in Seq(Byte)
  BY <1>t, ConcatProperties
<1> USE DEF RecvInv, TypeOK, Between, FailedCloses, Armed, AllCut, remote
<1>1. ASSUME NEW k \in 1 .. KernelRoom, Arrive(k) PROVE RecvInv'
  BY <1>1, <1>a DEF Arrive
<1>2. ASSUME NEW how \in {"fin", "reset"}, PeerEnds(how) PROVE RecvInv'
  BY <1>2 DEF PeerEnds
<1>3. CASE Poll
  BY <1>3, <1>e DEF Poll
<1>4. ASSUME NEW why \in {"lost connection", "error"}, pc = "read", ReadFails(why) PROVE RecvInv'
  BY <1>4, <1>e DEF ReadFails
<1>5. ASSUME pc = "read", kqueue = <<>>, peer = "open", ReadEnds PROVE RecvInv'
  BY <1>5, <1>e, <1>j DEF ReadEnds
<1>6. CASE RecvEmpty
  BY <1>4, <1>5, <1>6 DEF RecvEmpty
<1>7. CASE RecvZero
  BY <1>4, <1>5, <1>7 DEF RecvZero
<1>8. ASSUME NEW k \in 1 .. ReadLen, Recv(k) PROVE RecvInv'
  BY <1>8, <1>r DEF Recv
<1>9. CASE ParseMessage
  BY <1>9, <1>p DEF ParseMessage
<1>10. CASE ParseIllegal
  BY <1>10 DEF ParseIllegal
<1>11. CASE ParseEnds
  <2>1. ~Enough(rbuffer) /\ rbuffer' = rbuffer
    BY <1>11 DEF ParseEnds
  <2>2. ~Enough(rbuffer')
    BY <2>1
  <2>3. QED
    BY <1>11, <2>2 DEF ParseEnds
<1>12. CASE PushMessage
  BY <1>12, <1>h DEF PushMessage
<1>13. CASE PushEnds
  BY <1>13 DEF PushEnds
<1>14. CASE CloseSocket
  BY <1>14, <1>e DEF CloseSocket
<1>15. CASE UNCHANGED vars
  BY <1>15 DEF vars
<1>16. QED
  BY <1>1, <1>2, <1>3, <1>6, <1>7, <1>8, <1>9, <1>10, <1>11, <1>12, <1>13, <1>14, <1>15
     DEF Next, NetStep, PeerStep, Idle
\* Where the thread is and what it holds, in every reachable state.
LEMMA RecvInvariant == Spec => []RecvInv
<1>1. Init => RecvInv
  <2> SUFFICES ASSUME Init PROVE RecvInv
    OBVIOUS
  <2>1. <<>> \in Seq(Byte) /\ <<>> \in Seq(Message) /\ Len(<<>>) = 0
    BY EmptySeq
  <2>2. ~Enough(<<>>)
    BY <2>1, RecvAssumption DEF Enough
  <2>3. edge \in BOOLEAN /\ closed \in BOOLEAN
    BY Zenon DEF Init
  <2>4. tosend \in Seq(Byte)
    BY WireAssumption DEF Init
  <2>5. Len(chunk) <= ReadLen
    BY <2>1, RecvAssumption DEF Init
  <2>6. TypeOK
    BY <2>1, <2>3, <2>4, <2>5 DEF Init, TypeOK
  <2>7. QED
    BY <2>2, <2>6 DEF Init, RecvInv, Between, FailedCloses, Armed, AllCut
<1>2. QED
  BY <1>1, RecvInductive, PTL DEF Spec

\* Every variable has its type in every reachable state.
THEOREM RecvTypeCorrect == Spec => []TypeOK
<1>1. RecvInv => TypeOK
  BY DEF RecvInv
<1>2. QED
  BY <1>1, RecvInvariant, PTL

\* The network thread never sleeps on a complete message, on bytes in the
\* kernel or on the end of the connection: readBytes() reads until ::recv
\* would block and receive() cuts off every message.
THEOREM InputStaysArmed == Spec => []InputArmed
<1>1. RecvInv => InputArmed
  BY DEF RecvInv, InputArmed, Between, Armed, AllCut
<1>2. QED
  BY <1>1, RecvInvariant, PTL
-----------------------------------------------------------------------------
(* The messages.                                                            *)

\* The messages cut off so far, and the bytes of the others.
Got == delivered \o rlist
Rest == rbuffer \o chunk \o kqueue \o tosend

\* The messages cut off are the first ones of the stream, all of them legal.
InOrder ==
    /\ Len(Got) <= Len(Stream)
    /\ \A i \in 1 .. Len(Got) : Got[i] = Stream[i] /\ Got[i] \notin Illegal

\* The bytes after them are all there.
Whole ==
    reason = "none" =>
        /\ Len(Rest) = Len(Wire) - Start[Len(Got) + 1]
        /\ \A i \in 1 .. Len(Rest) : Rest[i] = Wire[Start[Len(Got) + 1] + i]

\* The types of the two.
LEMMA GotRest ==
    ASSUME RecvInv
    PROVE  /\ Got \in Seq(Message) /\ Len(Got) = Len(delivered) + Len(rlist)
           /\ \A i \in 1 .. Len(delivered) : Got[i] = delivered[i]
           /\ Rest \in Seq(Byte) /\ rbuffer \o chunk \in Seq(Byte)
           /\ (rbuffer \o chunk) \o kqueue \in Seq(Byte)
<1>1. /\ tosend \in Seq(Byte) /\ kqueue \in Seq(Byte) /\ chunk \in Seq(Byte)
      /\ rbuffer \in Seq(Byte) /\ rlist \in Seq(Message) /\ delivered \in Seq(Message)
  BY DEF RecvInv, TypeOK
<1>2. /\ Got \in Seq(Message) /\ Len(Got) = Len(delivered) + Len(rlist)
      /\ \A i \in 1 .. Len(delivered) + Len(rlist) :
            Got[i] = IF i <= Len(delivered) THEN delivered[i] ELSE rlist[i - Len(delivered)]
  BY <1>1, ConcatProperties DEF Got
<1>3. Len(delivered) \in Nat /\ Len(rlist) \in Nat
  BY <1>1, LenProperties
<1>4. \A i \in 1 .. Len(delivered) : Got[i] = delivered[i]
  BY <1>2, <1>3
<1>5. rbuffer \o chunk \in Seq(Byte)
  BY <1>1, ConcatProperties
<1>6. (rbuffer \o chunk) \o kqueue \in Seq(Byte)
  BY <1>1, <1>5, ConcatProperties
<1>7. Rest \in Seq(Byte)
  BY <1>1, <1>6, ConcatProperties DEF Rest
<1>8. QED
  BY <1>2, <1>4, <1>5, <1>6, <1>7

\* Bytes that arrive, are read or put into _rbuffer stay in their place.
LEMMA BytesStay ==
    ASSUME RecvInv,
           \/ \E k \in 1 .. KernelRoom : Arrive(k)
           \/ \E k \in 1 .. ReadLen : Recv(k)
           \/ ReadEnds
    PROVE  Rest' = Rest /\ Got' = Got /\ reason' = reason
<1>1. /\ tosend \in Seq(Byte) /\ kqueue \in Seq(Byte) /\ chunk \in Seq(Byte)
      /\ rbuffer \in Seq(Byte) /\ rbuffer \o chunk \in Seq(Byte)
  BY GotRest DEF RecvInv, TypeOK
<1>2. KernelRoom \in Nat /\ ReadLen \in Nat
  BY RecvAssumption
<1>3. ASSUME NEW k \in 1 .. KernelRoom, Arrive(k) PROVE Rest' = Rest
  <2> DEFINE x == SubSeq(tosend, 1, k)
             y == SubSeq(tosend, k + 1, Len(tosend))
             z == Join(rbuffer, chunk)
  <2>1. k \in Nat /\ k <= Len(tosend)
    BY <1>2, <1>3 DEF Arrive
  <2>2. x \in Seq(Byte) /\ y \in Seq(Byte) /\ Join(x, y) = tosend
    BY <1>1, <2>1, Cut DEF Join
  <2>3. z \in Seq(Byte) /\ kqueue \in Seq(Byte)
    BY <1>1 DEF Join
  <2>4. z' = z /\ kqueue' = Join(kqueue, x) /\ tosend' = y
    BY <1>3 DEF Arrive, Join
  <2>5. Rest = Join(Join(z, kqueue), tosend) /\ Rest' = Join(Join(z', kqueue'), tosend')
    BY DEF Rest, Join
  <2> HIDE DEF x, y, z
  <2>6. QED
    BY <2>2, <2>3, <2>4, <2>5, Shift
<1>4. ASSUME NEW k \in 1 .. ReadLen, Recv(k) PROVE Rest' = Rest
  <2> DEFINE x == SubSeq(kqueue, 1, k)
             y == SubSeq(kqueue, k + 1, Len(kqueue))
  <2>1. k \in Nat /\ k <= Len(kqueue)
    BY <1>2, <1>4 DEF Recv
  <2>2. x \in Seq(Byte) /\ y \in Seq(Byte) /\ Join(x, y) = kqueue
    BY <1>1, <2>1, Cut DEF Join
  <2>3. UNCHANGED <<rbuffer, tosend>> /\ chunk' = Join(chunk, x) /\ kqueue' = y
    BY <1>4 DEF Recv, remote, Join
  <2>4. /\ Rest = Join(Join(Join(rbuffer, chunk), kqueue), tosend)
        /\ Rest' = Join(Join(Join(rbuffer', chunk'), kqueue'), tosend')
    BY DEF Rest, Join
  <2> HIDE DEF x, y
  <2>5. QED
    BY <1>1, <2>2, <2>3, <2>4, Shift
<1>5. ASSUME ReadEnds PROVE Rest' = Rest
  <2>1. (rbuffer \o chunk) \o <<>> = rbuffer \o chunk
    BY <1>1, ConcatEmptySeq
  <2>2. QED
    BY <1>5, <2>1 DEF ReadEnds, Rest, remote
<1>6. Got' = Got /\ reason' = reason
  BY DEF Arrive, Recv, ReadEnds, Got
<1>7. QED
  BY <1>3, <1>4, <1>5, <1>6
\* What a buffer followed by others starts with.
LEMMA FrontIs ==
    ASSUME RecvInv
    PROVE  LET later == Join(Join(chunk, kqueue), tosend)
           IN  later \in Seq(Byte) /\ Rest = Join(rbuffer, later)
<1>1. /\ tosend \in Seq(Byte) /\ kqueue \in Seq(Byte) /\ chunk \in Seq(Byte)
      /\ rbuffer \in Seq(Byte)
  BY DEF RecvInv, TypeOK
<1>2. \A a, b \in Seq(Byte) : Join(a, b) \in Seq(Byte)
  BY ConcatProperties DEF Join
<1>3. \A a, b, c \in Seq(Byte) : Join(Join(a, b), c) = Join(a, Join(b, c))
  BY ConcatAssociative DEF Join
<1>4. Rest = Join(Join(Join(rbuffer, chunk), kqueue), tosend)
  BY DEF Rest, Join
<1>5. QED
  BY <1>1, <1>2, <1>3, <1>4

\* The message that receive() cuts off is the next one of the stream, and
\* what is left starts with the one after it.
LEMMA NextIsCut ==
    ASSUME RecvInv, InOrder, Whole, ParseMessage
    PROVE  InOrder' /\ Whole'
<1> DEFINE n == Len(Got)
           m == Stream[n + 1]
           l == len(rbuffer)
           later == Join(Join(chunk, kqueue), tosend)
<1>1. /\ rbuffer \in Seq(Byte) /\ rlist \in Seq(Message) /\ delivered \in Seq(Message)
      /\ Got \in Seq(Message) /\ Rest \in Seq(Byte)
  BY GotRest DEF RecvInv, TypeOK
<1>2. n \in Nat /\ Len(Rest) \in Nat /\ Len(Stream) \in Nat /\ Len(Wire) \in Nat
  BY <1>1, LenProperties, RecvAssumption, WireAssumption
<1>3. /\ reason = "none" /\ Enough(rbuffer) /\ l > 0
      /\ rlist' = Append(rlist, rbuffer[1][1])
      /\ rbuffer' = SubSeq(rbuffer, l + 1, Len(rbuffer))
      /\ UNCHANGED <<tosend, kqueue, chunk, delivered, reason>>
  BY DEF ParseMessage, remote, RecvInv, FailedCloses
<1>4. /\ Len(rbuffer) \in Nat /\ Len(rbuffer) > 0 /\ l \in Nat /\ l <= Len(rbuffer)
  BY <1>1, <1>3, EnoughIs
<1>5. later \in Seq(Byte) /\ Rest = Join(rbuffer, later)
  BY FrontIs
<1> HIDE DEF later
<1>6. Len(Rest) >= Len(rbuffer) /\ Rest[1] = rbuffer[1]
  <2>1. /\ Len(Join(rbuffer, later)) = Len(rbuffer) + Len(later)
        /\ \A i \in 1 .. Len(rbuffer) + Len(later) : Join(rbuffer, later)[i] =
                IF i <= Len(rbuffer) THEN rbuffer[i] ELSE later[i - Len(rbuffer)]
    BY <1>1, <1>5, ConcatProperties DEF Join
  <2>2. Len(later) \in Nat
    BY <1>5, LenProperties
  <2>3. QED
    BY <1>4, <1>5, <2>1, <2>2
<1>7. /\ Len(Rest) = Len(Wire) - Start[n + 1]
      /\ \A i \in 1 .. Len(Rest) : Rest[i] = Wire[Start[n + 1] + i]
  BY <1>3 DEF Whole
<1>8. n < Len(Stream)
  BY <1>2, <1>4, <1>6, <1>7, WireAssumption DEF InOrder
<1>9. /\ Start[n + 1] \in Nat /\ Start[(n + 1) + 1] = Start[n + 1] + Size[m]
      /\ m \in Message /\ Size[m] \in Nat /\ Size[m] > 0
  <2>1. m \in Message
    BY <1>2, <1>8, RecvAssumption, ElementOfSeq
  <2>2. Size[m] \in Nat /\ Size[m] > 0
    BY <2>1, RecvAssumption
  <2>3. n + 1 \in 1 .. Len(Stream) /\ n + 1 \in 1 .. Len(Stream) + 1
    BY <1>2, <1>8
  <2>4. QED
    BY <2>1, <2>2, <2>3, WireAssumption
<1>10. rbuffer[1] = <<m, 1>>
  <2>1. n + 1 \in 1 .. Len(Stream) /\ 1 \in 1 .. Size[m]
    BY <1>2, <1>8, <1>9
  <2>2. Wire[Start[n + 1] + 1] = MessageBytes(m)[1]
    BY <2>1, WireAssumption
  <2>3. MessageBytes(m)[1] = <<m, 1>>
    BY <2>1 DEF MessageBytes
  <2>4. QED
    BY <1>2, <1>4, <1>6, <1>7, <2>2, <2>3
<1>11. l = Size[m] /\ m \notin Illegal
  BY <1>3, <1>10 DEF len
<1>12. /\ Got' = Append(Got, m)
  <2>1. rlist' = Append(rlist, m)
    BY <1>3, <1>10
  <2>2. Got' = delivered \o Append(rlist, m)
    BY <1>3, <2>1 DEF Got
  <2>3. delivered \o Append(rlist, m) = Append(delivered \o rlist, m)
    <3>1. \A a, b, c \in Seq(Message) : Join(Join(a, b), c) = Join(a, Join(b, c))
      BY ConcatAssociative DEF Join
    <3>2. \A a \in Seq(Message) : Append(a, m) = Join(a, <<m>>)
      BY <1>9, AppendIsConcat DEF Join
    <3>3. <<m>> \in Seq(Message) /\ Join(delivered, rlist) \in Seq(Message)
      BY <1>1, <1>9 DEF Got, Join
    <3>4. Append(rlist, m) = Join(rlist, <<m>>)
      BY <1>1, <3>2, Zenon
    <3>5. Append(Join(delivered, rlist), m) = Join(Join(delivered, rlist), <<m>>)
      BY <3>2, <3>3, Zenon
    <3>6. Join(Join(delivered, rlist), <<m>>) = Join(delivered, Join(rlist, <<m>>))
      BY <1>1, <3>1, <3>3, Zenon
    <3>7. QED
      BY <3>4, <3>5, <3>6, Zenon DEF Join
  <2>4. QED
    BY <2>2, <2>3 DEF Got
<1>13. /\ Len(Got') = n + 1
       /\ \A i \in 1 .. n + 1 : Got'[i] = IF i = n + 1 THEN m ELSE Got[i]
  BY <1>1, <1>2, <1>9, <1>12, AppendProperties
<1>14. InOrder'
  <2>1. Len(Got)' <= Len(Stream)
    BY <1>2, <1>8, <1>13
  <2>2. \A i \in 1 .. n + 1 : Got'[i] = Stream[i] /\ Got'[i] \notin Illegal
    BY <1>2, <1>11, <1>13 DEF InOrder
  <2>3. QED
    BY <1>13, <2>1, <2>2 DEF InOrder
<1>15. Rest' = SubSeq(Rest, l + 1, Len(Rest))
  <2>1. Rest' = Join(Join(Join(rbuffer', chunk), kqueue), tosend)
    BY <1>3 DEF Rest, Join
  <2>2. Rest' = Join(rbuffer', later)
    <3>1. /\ tosend \in Seq(Byte) /\ kqueue \in Seq(Byte) /\ chunk \in Seq(Byte)
          /\ rbuffer' \in Seq(Byte)
      BY <1>1, <1>3, <1>4, Cut DEF RecvInv, TypeOK
    <3>2. \A a, b \in Seq(Byte) : Join(a, b) \in Seq(Byte)
      BY ConcatProperties DEF Join
    <3>3. \A a, b, c \in Seq(Byte) : Join(Join(a, b), c) = Join(a, Join(b, c))
      BY ConcatAssociative DEF Join
    <3>4. QED
      BY <2>1, <3>1, <3>2, <3>3 DEF later
  <2>3. Join(SubSeq(rbuffer, l + 1, Len(rbuffer)), later)
            = SubSeq(Join(rbuffer, later), l + 1, Len(Join(rbuffer, later)))
    BY <1>1, <1>4, <1>5, DropFront DEF Join
  <2>4. QED
    BY <1>3, <1>5, <2>2, <2>3
<1> DEFINE r == SubSeq(Rest, l + 1, Len(Rest))
<1> HIDE DEF l, m, n
<1>a. l \in Nat /\ l <= Len(Rest) /\ Rest \in Seq(Byte)
  BY <1>1, <1>2, <1>4, <1>6
<1>16. Len(r) = Len(Rest) - l /\ \A i \in 1 .. Len(Rest) - l : r[i] = Rest[l + i]
  BY <1>a, Cut
<1> HIDE DEF r
<1>17. /\ Len(r) = Len(Wire) - Start[(n + 1) + 1]
       /\ \A i \in 1 .. Len(r) : r[i] = Wire[Start[(n + 1) + 1] + i]
  <2>1. Len(r) = Len(Wire) - Start[(n + 1) + 1]
    BY <1>2, <1>7, <1>9, <1>11, <1>16
  <2>2. ASSUME NEW i \in 1 .. Len(r) PROVE r[i] = Wire[Start[(n + 1) + 1] + i]
    <3>1. /\ i \in 1 .. Len(Rest) - l /\ l + i \in 1 .. Len(Rest)
          /\ Start[n + 1] + (l + i) = Start[(n + 1) + 1] + i
      <4>1. Len(r) = Len(Rest) - l /\ Start[(n + 1) + 1] = Start[n + 1] + l
        BY <1>9, <1>11, <1>16
      <4>2. i \in Nat /\ 1 <= i /\ i <= Len(Rest) - l
        BY <1>2, <1>a, <4>1
      <4>3. QED
        BY <1>2, <1>9, <1>a, <4>1, <4>2
    <3>2. QED
      BY <1>7, <1>16, <3>1
  <2>3. QED
    BY <2>1, <2>2
<1>18. Whole'
  BY <1>13, <1>15, <1>17 DEF Whole, r
<1>19. QED
  BY <1>14, <1>18
\* Handing a message over keeps the order.
LEMMA PushStays ==
    ASSUME RecvInv, PushMessage
    PROVE  Got' = Got
<1>1. rlist \in Seq(Message) /\ delivered \in Seq(Message) /\ rlist # <<>>
  BY DEF RecvInv, TypeOK, PushMessage
<1>2. Head(rlist) \in Message /\ Tail(rlist) \in Seq(Message) /\ rlist = <<Head(rlist)>> \o Tail(rlist)
  BY <1>1, HeadTailProperties
<1>3. <<Head(rlist)>> \in Seq(Message) /\ Append(delivered, Head(rlist)) = delivered \o <<Head(rlist)>>
  BY <1>1, <1>2, AppendIsConcat
<1>4. (delivered \o <<Head(rlist)>>) \o Tail(rlist) = delivered \o (<<Head(rlist)>> \o Tail(rlist))
  BY <1>1, <1>2, <1>3, ConcatAssociative
<1>5. Got' = Append(delivered, Head(rlist)) \o Tail(rlist)
  BY DEF PushMessage, Got
<1>6. QED
  BY <1>2, <1>3, <1>4, <1>5 DEF Got

\* Every step keeps the messages in order and the bytes complete.
LEMMA FramedKept ==
    RecvInv /\ InOrder /\ Whole /\ [Next]_vars => InOrder' /\ Whole'
<1> SUFFICES ASSUME RecvInv, InOrder, Whole, [Next]_vars PROVE InOrder' /\ Whole'
  OBVIOUS
<1>1. ASSUME Got' = Got, reason' # "none" \/ (reason' = reason /\ Rest' = Rest)
      PROVE  InOrder' /\ Whole'
  BY <1>1 DEF InOrder, Whole
<1> USE DEF remote
<1>2. CASE \E k \in 1 .. KernelRoom : Arrive(k)
  BY <1>1, <1>2, BytesStay
<1>3. CASE \E how \in {"fin", "reset"} : PeerEnds(how)
  BY <1>1, <1>3 DEF PeerEnds, Got, Rest
<1>4. CASE Poll
  <2>1. chunk = <<>>
    BY <1>4 DEF Poll, RecvInv, Between
  <2>2. UNCHANGED <<tosend, kqueue, chunk, rbuffer, rlist, delivered>>
    BY <1>4, <2>1 DEF Poll
  <2>3. reason' = "poll error" \/ reason' = reason
    BY <1>4 DEF Poll
  <2>4. Got' = Got /\ Rest' = Rest
    BY <2>2 DEF Got, Rest
  <2>5. QED
    BY <1>1, <2>3, <2>4
<1>5. ASSUME NEW why \in {"lost connection", "error"}, ReadFails(why) PROVE InOrder' /\ Whole'
  BY <1>1, <1>5 DEF ReadFails, Got
<1>6. ASSUME ReadEnds PROVE InOrder' /\ Whole'
  BY <1>1, <1>6, BytesStay
<1>7. CASE RecvEmpty \/ RecvZero
  BY <1>5, <1>6, <1>7 DEF RecvEmpty, RecvZero
<1>8. CASE \E k \in 1 .. ReadLen : Recv(k)
  BY <1>1, <1>8, BytesStay
<1>9. CASE ParseMessage
  BY <1>9, NextIsCut
<1>10. CASE ParseIllegal
  BY <1>1, <1>10 DEF ParseIllegal, Got
<1>11. CASE ParseEnds
  BY <1>1, <1>11 DEF ParseEnds, Got, Rest
<1>12. CASE PushMessage
  <2>1. Rest' = Rest /\ reason' = reason
    BY <1>12 DEF PushMessage, Rest
  <2>2. QED
    BY <1>1, <1>12, <2>1, PushStays
<1>13. CASE PushEnds
  BY <1>1, <1>13 DEF PushEnds, Got, Rest
<1>14. CASE CloseSocket
  <2>1. reason' # "none"
    BY <1>14 DEF CloseSocket, RecvInv, FailedCloses
  <2>2. Got' = delivered /\ delivered \in Seq(Message) /\ rlist \in Seq(Message)
    <3>1. delivered \in Seq(Message) /\ rlist \in Seq(Message)
      BY DEF RecvInv, TypeOK
    <3>2. Got' = delivered \o <<>>
      BY <1>14 DEF CloseSocket, Got
    <3>3. QED
      BY <3>1, <3>2, ConcatEmptySeq
  <2>3. /\ Len(Got) = Len(delivered) + Len(rlist)
        /\ \A i \in 1 .. Len(delivered) : Got[i] = delivered[i]
    BY GotRest
  <2>4. Len(delivered) \in Nat /\ Len(rlist) \in Nat /\ Len(Stream) \in Nat
    BY <2>2, LenProperties, RecvAssumption
  <2>5. Len(delivered) <= Len(Stream)
    BY <2>3, <2>4 DEF InOrder
  <2>6. \A i \in 1 .. Len(delivered) : delivered[i] = Stream[i] /\ delivered[i] \notin Illegal
    BY <2>3, <2>4 DEF InOrder
  <2>7. InOrder'
    BY <2>2, <2>5, <2>6 DEF InOrder
  <2>8. QED
    BY <2>1, <2>7 DEF Whole
<1>15. CASE UNCHANGED vars
  BY <1>1, <1>15 DEF vars, Got, Rest
<1>16. QED
  BY <1>2, <1>3, <1>4, <1>7, <1>8, <1>9, <1>10, <1>11, <1>12, <1>13, <1>14, <1>15
     DEF Next, NetStep, PeerStep, Idle

\* The order of the messages, with the invariant it needs.
LEMMA FramedInvariant == Spec => [](RecvInv /\ InOrder /\ Whole)
<1>1. Init => InOrder /\ Whole
  <2> SUFFICES ASSUME Init PROVE InOrder /\ Whole
    OBVIOUS
  <2>1. /\ <<>> \in Seq(Message) /\ Len(<<>>) = 0 /\ <<>> \in Seq(Byte)
        /\ Wire \in Seq(Byte) /\ Start[1] = 0
    BY EmptySeq, WireAssumption
  <2>2. Got = <<>> \o <<>> /\ Rest = Join(Join(Join(<<>>, <<>>), <<>>), Wire)
    BY DEF Init, Got, Rest, Join
  <2>3. \A b \in Seq(Byte) : Join(<<>>, b) = b
    BY ConcatEmptySeq DEF Join
  <2>4. Got = <<>> /\ Rest = Wire
    BY <2>1, <2>2, <2>3, ConcatEmptySeq
  <2>5. Len(Stream) \in Nat /\ Len(Wire) \in Nat
    BY <2>1, RecvAssumption, LenProperties
  <2>6. InOrder
    BY <2>1, <2>4, <2>5 DEF InOrder
  <2>7. Whole
    BY <2>1, <2>4, <2>5 DEF Whole
  <2>8. QED
    BY <2>6, <2>7
<1>2. QED
  BY <1>1, FramedKept, RecvInvariant, PTL DEF Spec

\* However the stream of the peer is cut into pieces and reads, the services
\* get its messages whole, in order and once, none of them illegal, and no
\* byte disappears while the connection is up.
THEOREM MessagesFramed == Spec => []FramedInOrder
<1>1. RecvInv /\ InOrder /\ Whole => FramedInOrder
  <2> SUFFICES ASSUME RecvInv, InOrder, Whole PROVE FramedInOrder
    OBVIOUS
  <2>1. /\ Got \in Seq(Message) /\ Len(Got) = Len(delivered) + Len(rlist)
        /\ \A i \in 1 .. Len(delivered) : Got[i] = delivered[i]
        /\ Rest \in Seq(Byte) /\ delivered \in Seq(Message) /\ rlist \in Seq(Message)
    BY GotRest DEF RecvInv, TypeOK
  <2>2. /\ Len(Got) \in Nat /\ Len(delivered) \in Nat /\ Len(rlist) \in Nat
        /\ Len(Stream) \in Nat /\ Len(Wire) \in Nat /\ Stream \in Seq(Message)
        /\ Len(Rest) \in Nat /\ Wire \in Seq(Byte)
    BY <2>1, LenProperties, RecvAssumption, WireAssumption
  <2>3. IsPrefix(Got, Stream)
    <3> DEFINE p == SubSeq(Stream, 1, Len(Got))
    <3>1. \A i \in 1 .. Len(Got) : Stream[i] \in Message
      BY <2>2, ElementOfSeq DEF InOrder
    <3>2. /\ p \in Seq(Message) /\ Len(p) = IF 1 <= Len(Got) THEN Len(Got) - 1 + 1 ELSE 0
          /\ \A i \in 1 .. Len(Got) - 1 + 1 : p[i] = Stream[1 + i - 1]
      BY <2>2, <3>1, SubSeqProperties
    <3> HIDE DEF p
    <3>3. Len(p) = Len(Got)
      BY <2>2, <3>2
    <3>4. \A i \in 1 .. Len(Got) : Got[i] = p[i]
      BY <2>2, <3>2 DEF InOrder
    <3>5. Got = p
      BY <2>1, <3>2, <3>3, <3>4, SeqEqual
    <3>6. SubSeq(Got, 1, Len(Got)) = Got
      BY <2>1, SubSeqFull
    <3>7. QED
      BY <3>5, <3>6 DEF InOrder, IsPrefix, p
  <2>4. ToSet(delivered) \cap Illegal = {}
    <3>1. \A i \in 1 .. Len(delivered) : delivered[i] \notin Illegal
      BY <2>1, <2>2 DEF InOrder
    <3>2. DOMAIN delivered = 1 .. Len(delivered)
      BY <2>1
    <3>3. QED
      BY <3>1, <3>2 DEF ToSet
  <2>5. ASSUME reason = "none" PROVE Rest = SubSeq(Wire, Start[Len(Got) + 1] + 1, Len(Wire))
    <3> DEFINE k == Start[Len(Got) + 1]
    <3>1. Len(Rest) = Len(Wire) - k /\ \A i \in 1 .. Len(Rest) : Rest[i] = Wire[k + i]
      BY <2>5 DEF Whole
    <3>2. k \in Nat
      <4>1. Len(Got) + 1 \in 1 .. Len(Stream) + 1
        BY <2>2 DEF InOrder
      <4>2. QED
        BY <4>1, WireAssumption
    <3> HIDE DEF k
    <3>3. k <= Len(Wire)
      BY <2>2, <3>1, <3>2
    <3> DEFINE q == SubSeq(Wire, k + 1, Len(Wire))
    <3>4. q \in Seq(Byte) /\ Len(q) = Len(Wire) - k /\ \A i \in 1 .. Len(Wire) - k : q[i] = Wire[k + i]
      BY <2>2, <3>2, <3>3, Cut
    <3> HIDE DEF q
    <3>5. Rest = q
      BY <2>1, <3>1, <3>4, SeqEqual
    <3>6. QED
      BY <3>5 DEF q, k
  <2>6. QED
    BY <2>3, <2>4, <2>5 DEF FramedInOrder, Got, Rest
<1>2. QED
  BY <1>1, FramedInvariant, PTL
=============================================================================
