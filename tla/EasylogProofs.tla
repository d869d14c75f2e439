--------------------------- MODULE EasylogProofs ---------------------------
(***************************************************************************)
(* Proofs about Easylog, for any number of threads and lines.              *)
(***************************************************************************)
EXTENDS Easylog, SequenceTheorems, TLAPS

\* A thread in log_message has its line, and logProcess one while it writes.
LinesOK ==
    /\ \A t \in Thread : pc[t] \in {"push", "notify"} => line[t] \in Line
    /\ lpc = "write" <=> hand \in Line

LogTypes == TypeOK /\ LinesOK

\* The variables keep their types, and only logProcess takes from the queue.
LEMMA TypesKept == LogTypes /\ [Next]_vars => LogTypes'
<1> USE LogAssumption DEF LogTypes, TypeOK, LinesOK, LogPc, CallerPc, Goto, history, Running
<1> SUFFICES ASSUME LogTypes, [Next]_vars PROVE LogTypes'
  OBVIOUS
<1>1. ASSUME TestQueue PROVE LogTypes'
  BY <1>1 DEF TestQueue
<1>2. ASSUME Pop PROVE LogTypes'
  <2>1. Head(logQueue) \in Line /\ Tail(logQueue) \in Seq(Line)
    BY <1>2 DEF Pop
  <2>2. QED
    BY <1>2, <2>1 DEF Pop
<1>3. ASSUME Write PROVE LogTypes'
  <2>1. Append(written, hand) \in Seq(Line)
    BY <1>3 DEF Write
  <2>2. QED
    BY <1>3, <2>1 DEF Write
<1>4. ASSUME TestStop \/ Wait \/ SpuriousWakeup PROVE LogTypes'
  BY <1>4 DEF TestStop, Wait, SpuriousWakeup
<1>5. ASSUME NEW t \in Logger, NEW l \in Line, Log(t, l) PROVE LogTypes'
  <2>1. t \in Thread
    BY DEF Thread
  <2>2. QED
    BY <1>5, <2>1 DEF Log
<1>6. ASSUME NEW t \in Thread, Push(t) PROVE LogTypes'
  <2>1. line[t] \in Line
    BY <1>6 DEF Push
  <2>2. /\ Append(logQueue, line[t]) \in Seq(Line) /\ Append(pushed, line[t]) \in Seq(Line)
        /\ Append(logQueue, line[t]) # <<>>
    BY <2>1, AppendProperties
  <2>3. QED
    BY <1>6, <2>1, <2>2 DEF Push
<1>7. ASSUME NEW t \in Thread, Notify(t) PROVE LogTypes'
  BY <1>7 DEF Notify, NotifyAll
<1>8. ASSUME CallStop PROVE LogTypes'
  BY <1>8 DEF CallStop
<1>9. ASSUME NEW t \in Thread, StoreStop(t) PROVE LogTypes'
  BY <1>9 DEF StoreStop
<1>10. ASSUME NEW t \in Thread, NotifyStop(t) PROVE LogTypes'
  BY <1>10 DEF NotifyStop, NotifyAll
<1>11. ASSUME NEW t \in Thread, Join(t) \/ DeleteThread(t) PROVE LogTypes'
  BY <1>11 DEF Join, DeleteThread
<1>12. ASSUME NEW t \in Thread, JoinTwice(t) \/ Abort(t) PROVE LogTypes'
  BY <1>12 DEF JoinTwice, Abort
<1>13. CASE UNCHANGED vars
  BY <1>13 DEF vars
<1>14. QED
  BY <1>1, <1>2, <1>3, <1>4, <1>5, <1>6, <1>7, <1>8, <1>9, <1>10, <1>11, <1>12, <1>13
     DEF Next, LogStep, CallerStep, Idle
-----------------------------------------------------------------------------
(* The order of the lines.                                                  *)

\* A line at the front of the queue, in hand, or just written.
LEMMA FrontMoves ==
    ASSUME NEW S, NEW w \in Seq(S), NEW q \in Seq(S)
    PROVE  /\ q # <<>> => (w \o <<>>) \o q = (w \o <<Head(q)>>) \o Tail(q)
           /\ \A h \in S : (w \o <<h>>) \o q = (Append(w, h) \o <<>>) \o q
<1>1. q # <<>> => Head(q) \in S /\ Tail(q) \in Seq(S) /\ q = <<Head(q)>> \o Tail(q)
  BY HeadTailProperties
<1>2. \A h \in S : <<h>> \in Seq(S) /\ Append(w, h) = w \o <<h>> /\ Append(w, h) \in Seq(S)
  BY AppendIsConcat
<1>3. w \o <<>> = w
  BY ConcatEmptySeq
<1>4. ASSUME q # <<>> PROVE w \o q = (w \o <<Head(q)>>) \o Tail(q)
  <2>1. <<Head(q)>> \in Seq(S)
    BY <1>1, <1>2, <1>4
  <2>2. (w \o <<Head(q)>>) \o Tail(q) = w \o (<<Head(q)>> \o Tail(q))
    BY <1>1, <1>4, <2>1, ConcatAssociative
  <2>3. QED
    BY <1>1, <1>4, <2>2
<1>5. \A h \in S : Append(w, h) \o <<>> = w \o <<h>>
  BY <1>2, ConcatEmptySeq
<1>6. QED
  BY <1>3, <1>4, <1>5

\* The back of the queue is the back of everything that was queued.
LEMMA BackMoves ==
    ASSUME NEW S, NEW w \in Seq(S), NEW q \in Seq(S), NEW l \in S
    PROVE  w \o Append(q, l) = Append(w \o q, l)
<1>1. <<l>> \in Seq(S)
  OBVIOUS
<1>2. Append(q, l) = q \o <<l>>
  BY AppendIsConcat
<1>3. w \o q \in Seq(S)
  BY ConcatProperties
<1>4. Append(w \o q, l) = (w \o q) \o <<l>>
  BY <1>3, AppendIsConcat
<1>5. (w \o q) \o <<l>> = w \o (q \o <<l>>)
  BY <1>1, ConcatAssociative
<1>6. QED
  BY <1>2, <1>4, <1>5

InHand == IF hand = None THEN <<>> ELSE <<hand>>

\* Every step keeps the order of the lines.
LEMMA OrderKept == LogTypes /\ WrittenInOrder /\ [Next]_vars => WrittenInOrder'
<1> SUFFICES ASSUME LogTypes, WrittenInOrder, [Next]_vars PROVE WrittenInOrder'
  OBVIOUS
<1>t. /\ logQueue \in Seq(Line) /\ written \in Seq(Line) /\ pushed \in Seq(Line)
      /\ InHand \in Seq(Line) /\ None \notin Line
  BY LogAssumption, EmptySeq DEF LogTypes, TypeOK, InHand
<1>i. pushed = (written \o InHand) \o logQueue
  BY DEF WrittenInOrder, InHand
<1>1. ASSUME Pop PROVE WrittenInOrder'
  <2>1. /\ InHand = <<>> /\ logQueue # <<>>
        /\ hand' = Head(logQueue) /\ logQueue' = Tail(logQueue)
        /\ written' = written /\ pushed' = pushed
    BY <1>1, LogAssumption DEF Pop, LogTypes, TypeOK, LinesOK, InHand, history
  <2>2. Head(logQueue) \in Line
    BY <1>t, <2>1
  <2>3. (written \o <<>>) \o logQueue = (written \o <<Head(logQueue)>>) \o Tail(logQueue)
    BY <1>t, <2>1, FrontMoves
  <2>4. pushed = (written \o <<>>) \o logQueue
    BY <1>i, <2>1
  <2>5. pushed' = (written \o <<Head(logQueue)>>) \o Tail(logQueue)
    BY <2>1, <2>3, <2>4
  <2>6. hand' # None /\ pushed' = (written' \o <<hand'>>) \o logQueue'
    BY <1>t, <2>1, <2>2, <2>5
  <2>7. QED
    BY <2>6 DEF WrittenInOrder
<1>2. ASSUME Write PROVE WrittenInOrder'
  <2>1. /\ hand \in Line /\ InHand = <<hand>> /\ hand' = None
        /\ written' = Append(written, hand) /\ pushed' = pushed /\ logQueue' = logQueue
    BY <1>2, LogAssumption DEF Write, LogTypes, LinesOK, InHand
  <2>2. (written \o <<hand>>) \o logQueue = (Append(written, hand) \o <<>>) \o logQueue
    BY <1>t, <2>1, FrontMoves
  <2>3. pushed = (written \o <<hand>>) \o logQueue
    BY <1>i, <2>1
  <2>4. pushed' = (written' \o <<>>) \o logQueue'
    BY <2>1, <2>2, <2>3
  <2>5. QED
    BY <2>1, <2>4 DEF WrittenInOrder
<1>3. ASSUME NEW t \in Thread, Push(t) PROVE WrittenInOrder'
  <2>1. /\ line[t] \in Line /\ InHand' = InHand /\ written' = written
        /\ pushed' = Append(pushed, line[t]) /\ logQueue' = Append(logQueue, line[t])
    BY <1>3 DEF Push, LogTypes, LinesOK, InHand
  <2>2. written \o InHand \in Seq(Line)
    BY <1>t, ConcatProperties
  <2>3. pushed' = (written' \o InHand') \o logQueue'
    BY <1>t, <1>i, <2>1, <2>2, BackMoves
  <2>4. QED
    BY <2>3 DEF WrittenInOrder, InHand
<1>4. CASE UNCHANGED <<logQueue, hand, pushed, written>>
  BY <1>4 DEF WrittenInOrder
<1>5. QED
  <2>1. Pop \/ Write \/ (\E t \in Thread : Push(t)) \/ UNCHANGED <<logQueue, hand, pushed, written>>
    BY DEF Next, LogStep, CallerStep, Idle, vars, history, TestQueue, TestStop, Wait,
       SpuriousWakeup, CallStop, Notify, NotifyAll, StoreStop, NotifyStop, Join, JoinTwice,
       DeleteThread, Abort, Log
  <2>2. QED
    BY <1>1, <1>2, <1>3, <1>4, <2>1
\* The types and the order of the lines hold throughout.
LEMMA LogInvariant == Spec => [](LogTypes /\ WrittenInOrder)
<1>1. ASSUME Init PROVE LogTypes /\ WrittenInOrder
  <2>1. <<>> \in Seq(Line) /\ <<>> = (<<>> \o <<>>) \o <<>>
    BY EmptySeq, ConcatEmptySeq
  <2>2. WrittenInOrder
    BY <1>1, <2>1 DEF Init, WrittenInOrder
  <2>3. /\ pc \in [Thread -> CallerPc] /\ line \in [Thread -> Line \cup {None}]
        /\ lpc \in LogPc /\ LinesOK
    BY <1>1, LogAssumption DEF Init, LinesOK, CallerPc, LogPc
  <2>4. stop \in BOOLEAN /\ missed \in BOOLEAN
    BY <1>1, Zenon DEF Init
  <2>5. TypeOK
    BY <1>1, <2>1, <2>3, <2>4 DEF Init, TypeOK
  <2>6. QED
    BY <2>2, <2>3, <2>5 DEF LogTypes
<1>2. QED
  BY <1>1, TypesKept, OrderKept, PTL DEF Spec

\* logProcess pops no empty queue, and the variables have their types.
THEOREM LogTypeCorrect == Spec => []TypeOK
<1>1. LogTypes /\ WrittenInOrder => TypeOK
  BY DEF LogTypes
<1>2. QED
  BY <1>1, LogInvariant, PTL

\* Lines are written in the order in which they were queued, none twice and
\* none left out before one that is written, whatever the threads do.
THEOREM LinesInOrder == Spec => []WrittenInOrder
  BY LogInvariant, PTL

-----------------------------------------------------------------------------
(* Which lines are lost, and when logProcess sleeps on work.                *)

\* From its test of the queue on until the next one, logProcess has behind it
\* only lines queued in the meantime.
BehindTest ==
    lpc \in {"teststop", "wait", "blocked", "exit"} =>
        \A i \in DOMAIN logQueue : logQueue[i] \in late

\* Between its tests and its wait as well, logProcess misses a queued line or
\* _stop only if a notification is still to come or was missed.
Waking == \E t \in Thread : pc[t] \in {"notify", "wake"}
AboutToSleep ==
    /\ lpc \in {"wait", "blocked"} /\ (logQueue # <<>> \/ stop) => missed \/ Waking
    /\ lpc = "teststop" /\ ~stop /\ logQueue # <<>> => missed \/ Waking

\* Every step keeps both.
LEMMA SleepKept ==
    LogTypes /\ BehindTest /\ AboutToSleep /\ [Next]_vars => BehindTest' /\ AboutToSleep'
<1> USE DEF LogTypes, TypeOK, Goto, history
<1> SUFFICES ASSUME LogTypes, BehindTest, AboutToSleep, [Next]_vars
             PROVE  BehindTest' /\ AboutToSleep'
  OBVIOUS
<1>1. ASSUME TestQueue PROVE BehindTest' /\ AboutToSleep'
  BY <1>1 DEF TestQueue, BehindTest, AboutToSleep
<1>2. ASSUME Pop \/ Write PROVE BehindTest' /\ AboutToSleep'
  BY <1>2 DEF Pop, Write, BehindTest, AboutToSleep
<1>3. ASSUME TestStop \/ Wait \/ SpuriousWakeup PROVE BehindTest' /\ AboutToSleep'
  BY <1>3 DEF TestStop, Wait, SpuriousWakeup, BehindTest, AboutToSleep, Waking
<1>4. ASSUME NEW t \in Thread, Push(t) PROVE BehindTest' /\ AboutToSleep'
  <2>1. line[t] \in Line /\ logQueue \in Seq(Line)
    BY <1>4 DEF Push, LinesOK
  <2>2. /\ DOMAIN Append(logQueue, line[t]) = 1 .. Len(logQueue) + 1
        /\ DOMAIN logQueue = 1 .. Len(logQueue) /\ Len(logQueue) \in Nat
        /\ \A i \in 1 .. Len(logQueue) : Append(logQueue, line[t])[i] = logQueue[i]
        /\ Append(logQueue, line[t])[Len(logQueue) + 1] = line[t]
    BY <2>1
  <2>3. BehindTest'
    BY <1>4, <2>2 DEF Push, BehindTest
  <2>4. Waking'
    BY <1>4 DEF Push, Waking
  <2>5. QED
    BY <2>3, <2>4 DEF AboutToSleep
<1>5. ASSUME NEW t \in Thread, Notify(t) \/ NotifyStop(t) PROVE BehindTest' /\ AboutToSleep'
  <2>1. BehindTest'
    BY <1>5 DEF Notify, NotifyStop, NotifyAll, BehindTest
  <2>2. \/ missed'
        \/ lpc' \notin {"wait", "blocked", "teststop"}
        \/ lpc' = "teststop" /\ stop'
    BY <1>5 DEF Notify, NotifyStop, NotifyAll, LogPc
  <2>3. QED
    BY <2>1, <2>2 DEF AboutToSleep
<1>6. ASSUME NEW t \in Thread, StoreStop(t) PROVE BehindTest' /\ AboutToSleep'
  <2>1. Waking'
    BY <1>6 DEF StoreStop, Waking
  <2>2. QED
    BY <1>6, <2>1 DEF StoreStop, BehindTest, AboutToSleep
<1>7. CASE /\ UNCHANGED <<logQueue, stop, lpc, late, missed>>
           /\ \A t \in Thread : pc[t] \in {"notify", "wake"} => pc'[t] = pc[t]
  BY <1>7 DEF BehindTest, AboutToSleep, Waking
<1>8. ASSUME \/ CallStop
             \/ \E t \in Thread : Join(t) \/ JoinTwice(t) \/ DeleteThread(t) \/ Abort(t)
             \/ \E t \in Logger, l \in Line : Log(t, l)
             \/ UNCHANGED vars
      PROVE  BehindTest' /\ AboutToSleep'
  BY <1>7, <1>8 DEF CallStop, Join, JoinTwice, DeleteThread, Abort, Log, vars, Thread
<1>9. QED
  BY <1>1, <1>2, <1>3, <1>4, <1>5, <1>6, <1>8 DEF Next, LogStep, CallerStep, Idle

\* Both hold throughout.
LEMMA SleepInvariant == Spec => [](BehindTest /\ AboutToSleep)
<1>1. Init => BehindTest /\ AboutToSleep
  BY DEF Init, BehindTest, AboutToSleep
<1>2. QED
  BY <1>1, LogInvariant, SleepKept, PTL DEF Spec

\* When logProcess has ended, the lines it left were queued after its last
\* look at the queue.
THEOREM OnlyLateLost == Spec => []LostOnlyLate
<1>1. BehindTest => LostOnlyLate
  BY DEF BehindTest, LostOnlyLate, ToSet
<1>2. QED
  BY <1>1, SleepInvariant, PTL

\* logProcess sleeps on a queued line or on _stop only after a notification
\* that came between its tests and its wait, or while one is still to come.
THEOREM SleepsAfterMiss == Spec => []SleepNeedsMiss
<1>1. AboutToSleep => SleepNeedsMiss
  BY DEF AboutToSleep, SleepNeedsMiss, Waking
<1>2. QED
  BY <1>1, SleepInvariant, PTL
=============================================================================
