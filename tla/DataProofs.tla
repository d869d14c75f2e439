----------------------------- MODULE DataProofs -----------------------------
(***************************************************************************)
(* Proofs about the components that no other thread and no network is      *)
(* part of: the byte buffer, the clock and its timers, the answer of the   *)
(* login service, and the decoder of JSON.  They hold for every chunk      *)
(* size, interval, outcome and text.  Spec, Init and Next are the buffer's.*)
(***************************************************************************)
EXTENDS ByteBuffer, ClockTimer, Jscode, JsonDecode, FiniteSetTheorems, SequenceTheorems, TLAPS

-----------------------------------------------------------------------------
(* The byte buffer: indices in order, room for what was promised, and the *)
(* readable bytes are those written and not consumed.                      *)

BufferInv == TypeOK /\ ReservedFits /\ Contents

\* What reserve(n) promises: the capacity does not shrink and leaves room for
\* n bytes after the write index.
LEMMA ReserveMakesRoom ==
    ASSUME TypeOK, NEW n \in Nat
    PROVE  /\ newCapacity(n) \in Nat
           /\ newCapacity(n) >= capacity
           /\ windex + n <= newCapacity(n)
BY BufferAssumption DEF TypeOK, newCapacity, blank

\* realloc keeps what is readable.
LEMMA ReallocKeeps ==
    ASSUME TypeOK, NEW n \in Nat
    PROVE  /\ Realloc(n) \in [0 .. newCapacity(n) - 1 -> Nat]
           /\ \A j \in 0 .. windex - 1 : Realloc(n)[j] = mem[j]
<1>0. windex <= capacity /\ windex \in Nat /\ capacity \in Nat
    BY DEF TypeOK
<1>1. /\ newCapacity(n) \in Nat /\ capacity <= newCapacity(n)
      /\ windex <= capacity /\ windex \in Nat /\ capacity \in Nat
    BY <1>0, ReserveMakesRoom
<1>2. ASSUME NEW j \in 0 .. newCapacity(n) - 1
      PROVE  (IF j < capacity THEN mem[j] ELSE Junk) \in Nat
    <2>1. CASE j < capacity
        BY <2>1, <1>1 DEF TypeOK
    <2>2. CASE ~ (j < capacity)
        BY <2>2 DEF Junk
    <2>3. QED
        BY <2>1, <2>2
<1>3. Realloc(n) \in [0 .. newCapacity(n) - 1 -> Nat]
    BY <1>2 DEF Realloc
<1>4. ASSUME NEW j \in 0 .. windex - 1
      PROVE  Realloc(n)[j] = mem[j]
    <2>1. j \in 0 .. newCapacity(n) - 1 /\ j < capacity
        BY <1>1
    <2>2. QED
        BY <2>1 DEF Realloc
<1>5. QED
    BY <1>3, <1>4

\* Copying k bytes into a block with room for them leaves what was readable
\* and puts the new bytes behind it.
LEMMA CopiedContents ==
    ASSUME TypeOK, Contents, NEW c \in Nat, NEW k \in Nat, windex + k <= c,
           NEW m \in [0 .. c - 1 -> Nat], \A j \in 0 .. windex - 1 : m[j] = mem[j]
    PROVE  /\ Copied(m, c, k) \in [0 .. c - 1 -> Nat]
           /\ \A j \in rindex .. windex + k - 1 :
                Copied(m, c, k)[j] = consumed + (j - rindex) + 1
<1>1. Copied(m, c, k) \in [0 .. c - 1 -> Nat]
    BY DEF TypeOK, Copied, NextByte, size
<1>2. ASSUME NEW j \in rindex .. windex + k - 1
      PROVE  Copied(m, c, k)[j] = consumed + (j - rindex) + 1
    <2>1. j \in 0 .. c - 1
        BY DEF TypeOK
    <2>2. CASE j < windex
        BY <2>1, <2>2 DEF TypeOK, Contents, Copied
    <2>3. CASE windex <= j
        BY <2>1, <2>3 DEF TypeOK, Copied, NextByte, size
    <2>4. QED
        BY <2>1, <2>2, <2>3 DEF TypeOK
<1>3. QED
    BY <1>1, <1>2

\* The invariant holds of a new buffer and is kept by every operation.
LEMMA BufferInvInit == Init => BufferInv
BY BufferAssumption DEF Init, BufferInv, TypeOK, ReservedFits, Contents, Junk

\* Every operation of the buffer keeps the invariant.
LEMMA BufferInvNext == BufferInv /\ [Next]_vars => BufferInv'
<1> SUFFICES ASSUME BufferInv, [Next]_vars
             PROVE  BufferInv'
    OBVIOUS
<1> USE DEF BufferInv
<1>1. ASSUME NEW n \in 0 .. MaxReserve, wbuffer(n)
      PROVE  BufferInv'
    <2>1. n \in Nat
        BY BufferAssumption
    <2> DEFINE c == newCapacity(n)
    <2>5. c \in Nat /\ capacity <= c /\ windex + n <= c
        BY <2>1, ReserveMakesRoom
    <2>6. Realloc(n) \in [0 .. c - 1 -> Nat]
        BY <2>1, ReallocKeeps
    <2>7. /\ capacity' = c /\ mem' = Realloc(n) /\ offered' = n
          /\ UNCHANGED <<rindex, windex, consumed>>
        BY <1>1 DEF wbuffer
    <2> HIDE DEF c
    <2>2. TypeOK' /\ ReservedFits'
        BY <2>1, <2>5, <2>6, <2>7 DEF TypeOK, ReservedFits
    <2>3. Contents'
        BY <1>1, <2>1, ReallocKeeps DEF wbuffer, TypeOK, Contents
    <2>4. QED
        BY <2>2, <2>3
<1>2. ASSUME NEW k \in 0 .. MaxReserve, wlength(k)
      PROVE  BufferInv'
    <2>1. k \in Nat /\ windex + k <= capacity
        BY <1>2, BufferAssumption DEF wlength, TypeOK, ReservedFits
    <2>2. /\ mem' \in [0 .. capacity - 1 -> Nat]
          /\ \A j \in rindex .. windex + k - 1 : mem'[j] = consumed + (j - rindex) + 1
        BY <1>2, <2>1, CopiedContents DEF wlength, TypeOK
    <2>3. QED
        BY <1>2, <2>1, <2>2 DEF wlength, TypeOK, ReservedFits, Contents
<1>3. ASSUME NEW k \in 0 .. MaxReserve, append(k)
      PROVE  BufferInv'
    <2>1. k \in Nat
        BY BufferAssumption
    <2>2. /\ newCapacity(k) \in Nat /\ windex + k <= newCapacity(k)
          /\ Realloc(k) \in [0 .. newCapacity(k) - 1 -> Nat]
          /\ \A j \in 0 .. windex - 1 : Realloc(k)[j] = mem[j]
        BY <2>1, ReserveMakesRoom, ReallocKeeps
    <2>3. /\ mem' \in [0 .. newCapacity(k) - 1 -> Nat]
          /\ \A j \in rindex .. windex + k - 1 : mem'[j] = consumed + (j - rindex) + 1
        BY <1>3, <2>1, <2>2, CopiedContents DEF append
    <2>4. QED
        BY <1>3, <2>1, <2>2, <2>3 DEF append, TypeOK, ReservedFits, Contents
<1>4. ASSUME NEW k \in 0 .. MaxCapacity, rlength(k)
      PROVE  BufferInv'
    BY <1>4, BufferAssumption DEF rlength, size, TypeOK, ReservedFits, Contents
<1>5. CASE reset
    BY <1>5 DEF reset, size, TypeOK, ReservedFits, Contents
<1>6. CASE clear
    BY <1>6 DEF clear, size, TypeOK, ReservedFits, Contents
<1>7. CASE UNCHANGED vars
    BY <1>7 DEF vars, TypeOK, ReservedFits, Contents
<1>8. QED
    BY <1>1, <1>2, <1>3, <1>4, <1>5, <1>6, <1>7 DEF Next

\* The buffer keeps its promises in every reachable state: what wbuffer(n)
\* hands out may be written, and what is readable is what was written and not
\* consumed, in order.
THEOREM BufferCorrect == Spec => [](TypeOK /\ ReservedFits /\ Contents)
<1>1. Init => BufferInv
    BY BufferInvInit
<1>2. BufferInv /\ [Next]_vars => BufferInv'
    BY BufferInvNext
<1>3. BufferInv => TypeOK /\ ReservedFits /\ Contents
    BY DEF BufferInv
<1>4. QED
    BY <1>1, <1>2, <1>3, PTL DEF Spec

\* The n bytes wbuffer(n) hands out lie in the block, whether reserve() grew it
\* or found more than n bytes free and left it as it is.
THEOREM ReservationsFit == Spec => []ReservedFits
<1>1. TypeOK /\ ReservedFits /\ Contents => ReservedFits
    OBVIOUS
<1>2. QED
    BY <1>1, BufferCorrect, PTL

\* What can be read is what was written and not consumed, in order, after any
\* sequence of operations.
THEOREM ContentsKept == Spec => []Contents
<1>1. TypeOK /\ ReservedFits /\ Contents => Contents
    OBVIOUS
<1>2. QED
    BY <1>1, BufferCorrect, PTL

-----------------------------------------------------------------------------
(* The clock and its timers.  A word that is stored late can take the clock *)
(* back; nothing else can, so that the words the timer starts with, those   *)
(* it is asked with and those of the clock are in order until then.         *)

\* What gettimeofday can have sampled by now.
Sampling == [uptime : 0 .. uptime, offset : Int]

\* Words of a reading, each of some sampling.
SomeWords(r) == DOMAIN r \subseteq Words /\ r \in [DOMAIN r -> Sampling]

ClockTypes ==
    /\ uptime \in 0 .. MaxUptime /\ offset \in Int /\ interval \in Intervals
    /\ late \in BOOLEAN
    /\ tv \in [Words -> Sampling] /\ started \in [Words -> Sampling]
    /\ DOMAIN unstored = Callers /\ \A c \in Callers : SomeWords(unstored[c])
    /\ SomeWords(got)

InOrder ==
    ~late => \A w \in Words :
        /\ started[w].uptime <= tv[w].uptime
        /\ w \in DOMAIN got => /\ started[w].uptime <= got[w].uptime
                               /\ got[w].uptime <= tv[w].uptime

ClockInv == ClockTypes /\ InOrder /\ scale = milliseconds(started)

\* What div and % give, with a positive divisor.
LEMMA Division ==
    ASSUME NEW a \in Int, NEW n \in Nat \ {0}
    PROVE  a \div n \in Int /\ a % n \in Int /\ (a \div n) * n + (a % n) = a
OBVIOUS

\* The word of a small number is the number, that of a small negative one is
\* what is missing to a full turn.
LEMMA SmallModulus ==
    ASSUME NEW a \in Nat, NEW n \in Nat, a < n
    PROVE  a % n = a
OBVIOUS

LEMMA NegativeModulus ==
    ASSUME NEW a \in Int, NEW n \in Nat, a < 0, 0 <= a + n
    PROVE  a % n = a + n
OBVIOUS

\* A reading whose words are of one sampling is the time of day at it.
LEMMA WholeReading ==
    ASSUME NEW r, r["sec"] \in Sampling, Untorn(r)
    PROVE  milliseconds(r) = r["sec"].uptime + r["sec"].offset
<1>1. OfDay(r["sec"]) \in Int
    BY DEF OfDay, Sampling
<1>2. (OfDay(r["sec"]) \div PerSecond) * PerSecond + (OfDay(r["sec"]) % PerSecond)
        = OfDay(r["sec"])
    BY <1>1, Division, ClockAssumption
<1>3. QED
    BY <1>2 DEF Untorn, milliseconds, OfDay

\* The clock is created with a reading of its first moment, and the timer
\* starts with it.
LEMMA ClockInitial == ClockInit => ClockInv
<1> SUFFICES ASSUME ClockInit PROVE ClockInv
    OBVIOUS
<1>1. /\ uptime = 0 /\ offset = Start /\ late = FALSE /\ interval \in Intervals
      /\ tv = [w \in Words |-> Now] /\ started = tv
      /\ unstored = [c \in Callers |-> Nothing] /\ got = Nothing /\ scale = Start
    BY DEF ClockInit, Reading
<1>2. Now \in Sampling /\ Now.uptime = 0 /\ Now.offset = Start
    BY <1>1, ClockAssumption DEF Now, Sampling
<1>3. DOMAIN Nothing = {} /\ SomeWords(Nothing)
    BY DEF Nothing, SomeWords
<1>4. ClockTypes
    <2>1. tv \in [Words -> Sampling] /\ started \in [Words -> Sampling]
        BY <1>1, <1>2
    <2>2. DOMAIN unstored = Callers /\ \A c \in Callers : SomeWords(unstored[c])
        BY <1>1, <1>3
    <2>3. uptime \in 0 .. MaxUptime /\ offset \in Int
        BY <1>1, ClockAssumption
    <2>4. QED
        BY <1>1, <1>3, <2>1, <2>2, <2>3 DEF ClockTypes
<1>5. InOrder
    BY <1>1, <1>2, <1>3 DEF InOrder
<1>6. started["sec"] \in Sampling /\ Untorn(started) /\ started["sec"] = Now
    BY <1>1, <1>2 DEF Untorn, Words
<1>7. milliseconds(started) = Start
    BY <1>2, <1>6, WholeReading, ClockAssumption
<1>8. QED
    BY <1>1, <1>4, <1>5, <1>7 DEF ClockInv

\* Time passing, the threads in gettimeofday and the owner of the timer keep
\* the readings in order, and scale the value of the one that was started with.
LEMMA ClockStep == ClockInv /\ [ClockNext]_clockVars => ClockInv'
<1> SUFFICES ASSUME ClockInv, [ClockNext]_clockVars PROVE ClockInv'
    OBVIOUS
<1>0. ClockTypes /\ InOrder /\ scale = milliseconds(started)
    BY DEF ClockInv
<1>1. CASE Tick
    <2>1. /\ UNCHANGED <<offset, tv, unstored, late, got, scale, started, interval>>
          /\ uptime' = uptime + 1 /\ uptime < MaxUptime
        BY <1>1 DEF Tick, tvVars, readVars, timerVars
    <2>2. Sampling \subseteq Sampling'
        BY <2>1, <1>0 DEF Sampling, ClockTypes
    <2>3. uptime' \in 0 .. MaxUptime
        BY <2>1, <1>0, ClockAssumption DEF ClockTypes
    <2>4. ClockTypes'
        BY <2>1, <2>2, <2>3, <1>0 DEF ClockTypes, SomeWords
    <2>5. QED
        BY <2>1, <2>4, <1>0 DEF ClockInv, InOrder, milliseconds, OfDay
<1>2. CASE SetTime
    <2>1. UNCHANGED <<uptime, tv, unstored, late, got, scale, started, interval>>
        BY <1>2 DEF SetTime, tvVars, readVars, timerVars
    <2>2. offset' \in Int
        BY <1>2, <1>0, ClockAssumption DEF SetTime, ClockTypes, OfDay, Now
    <2>3. QED
        BY <2>1, <2>2, <1>0 DEF ClockInv, ClockTypes, SomeWords, Sampling, InOrder,
                                milliseconds, OfDay
<1>3. ASSUME NEW c \in Callers, SampleTime(c) PROVE ClockInv'
    <2>1. /\ UNCHANGED <<uptime, offset, tv, late, got, scale, started, interval>>
          /\ unstored' = [unstored EXCEPT ![c] = Reading(Now)]
        BY <1>3 DEF SampleTime, timeVars, readVars, timerVars
    <2>2. SomeWords(Reading(Now))
        BY <1>0 DEF SomeWords, Reading, Now, Sampling, ClockTypes
    <2>3. QED
        BY <2>1, <2>2, <1>0 DEF ClockInv, ClockTypes, SomeWords, Sampling, InOrder,
                                milliseconds, OfDay
<1>4. ASSUME NEW c \in Callers, NEW w \in Words, StoreWord(c, w) PROVE ClockInv'
    <2>1. /\ UNCHANGED <<uptime, offset, got, scale, started, interval>>
          /\ w \in DOMAIN unstored[c]
          /\ tv' = [tv EXCEPT ![w] = unstored[c][w]]
          /\ unstored' = [unstored EXCEPT
                            ![c] = [v \in DOMAIN unstored[c] \ {w} |-> unstored[c][v]]]
          /\ late' = (late \/ unstored[c][w].uptime < tv[w].uptime)
        BY <1>4 DEF StoreWord, timeVars, readVars, timerVars
    <2>2. unstored[c][w] \in Sampling /\ tv \in [Words -> Sampling]
        BY <2>1, <1>0 DEF ClockTypes, SomeWords
    <2>3. tv' \in [Words -> Sampling]
        BY <2>1, <2>2
    <2>4. ClockTypes'
        BY <2>1, <2>3, <1>0 DEF ClockTypes, SomeWords, Sampling
    <2>5. \A s \in Sampling : s.uptime \in Int
        BY <1>0 DEF ClockTypes, Sampling
    <2>6. ASSUME NEW v \in Words
          PROVE  /\ started[v].uptime \in Int /\ tv[v].uptime \in Int /\ tv'[v].uptime \in Int
                 /\ v \in DOMAIN got => got[v].uptime \in Int
        BY <2>1, <2>2, <2>5, <1>0 DEF ClockTypes, SomeWords
    <2>7. ASSUME ~late', NEW v \in Words PROVE tv[v].uptime <= tv'[v].uptime
        <3>1. ~(unstored[c][w].uptime < tv[w].uptime)
            BY <2>1, <2>7
        <3>2. unstored[c][w].uptime \in Int /\ tv[w].uptime \in Int
            BY <2>2, <2>5
        <3>3. CASE v = w
            BY <2>1, <2>2, <3>1, <3>2, <3>3
        <3>4. CASE v # w
            BY <2>1, <2>2, <2>6, <3>4
        <3>5. QED
            BY <3>3, <3>4
    <2>8. ASSUME ~late', NEW v \in Words
          PROVE  /\ started[v].uptime <= tv'[v].uptime
                 /\ v \in DOMAIN got => /\ started[v].uptime <= got[v].uptime
                                        /\ got[v].uptime <= tv'[v].uptime
        <3>1. /\ started[v].uptime <= tv[v].uptime
              /\ v \in DOMAIN got => /\ started[v].uptime <= got[v].uptime
                                     /\ got[v].uptime <= tv[v].uptime
            BY <2>1, <2>8, <1>0 DEF InOrder
        <3>2. tv[v].uptime <= tv'[v].uptime
            BY <2>7, <2>8
        <3>3. /\ started[v].uptime \in Int /\ tv[v].uptime \in Int /\ tv'[v].uptime \in Int
              /\ v \in DOMAIN got => got[v].uptime \in Int
            BY <2>6
        <3>4. QED
            BY <3>1, <3>2, <3>3
    <2>9. InOrder'
        BY <2>1, <2>8 DEF InOrder
    <2>10. QED
        BY <2>1, <2>4, <2>9, <1>0 DEF ClockInv, milliseconds, OfDay
<1>5. CASE CallTimer
    <2>1. UNCHANGED <<uptime, offset, tv, unstored, late, scale, started, interval>> /\ got' = Nothing
        BY <1>5 DEF CallTimer, timeVars, tvVars, timerVars
    <2>2. QED
        BY <2>1, <1>0 DEF ClockInv, ClockTypes, SomeWords, Sampling, InOrder, Nothing,
                          milliseconds, OfDay
<1>6. ASSUME NEW w \in Words, LoadWord(w) PROVE ClockInv'
    <2>1. /\ UNCHANGED <<uptime, offset, tv, unstored, late, scale, started, interval>>
          /\ got' = [v \in DOMAIN got \cup {w} |-> IF v = w THEN tv[w] ELSE got[v]]
        BY <1>6 DEF LoadWord, timeVars, tvVars, timerVars
    <2>2. tv[w] \in Sampling
        BY <1>0 DEF ClockTypes
    <2>3. SomeWords(got)'
        BY <2>1, <2>2, <1>0 DEF ClockTypes, SomeWords, Sampling
    <2>4. ClockTypes'
        BY <2>1, <2>3, <1>0 DEF ClockTypes, SomeWords, Sampling
    <2>5. InOrder'
        BY <2>1, <2>2, <1>0 DEF InOrder, Sampling
    <2>6. QED
        BY <2>1, <2>4, <2>5, <1>0 DEF ClockInv, milliseconds, OfDay
<1>7. CASE Ask
    <2>1. /\ UNCHANGED <<uptime, offset, tv, unstored, late, scale, started, interval>>
          /\ got' = got \/ got' = Nothing
        BY <1>7 DEF Ask, timeVars, tvVars, timerVars
    <2>2. QED
        BY <2>1, <1>0 DEF ClockInv, ClockTypes, SomeWords, Sampling, InOrder, Nothing,
                          milliseconds, OfDay
<1>8. CASE Fire \/ resetScale
    <2>1. /\ UNCHANGED <<uptime, offset, tv, unstored, late, interval>>
          /\ DOMAIN got = Words /\ got' = Nothing
          /\ scale' = milliseconds(got) /\ started' = got
        BY <1>8 DEF Fire, resetScale, timeVars, tvVars, IsRead
    <2>2. got \in [Words -> Sampling]
        BY <2>1, <1>0 DEF ClockTypes, SomeWords
    <2>3. ClockTypes'
        BY <2>1, <2>2, <1>0 DEF ClockTypes, SomeWords, Sampling, Nothing
    <2>4. InOrder'
        BY <2>1, <1>0 DEF InOrder, Nothing
    <2>5. QED
        BY <2>1, <2>3, <2>4 DEF ClockInv, milliseconds, OfDay
<1>9. CASE resetInterval \/ UNCHANGED clockVars
    <2>1. UNCHANGED <<uptime, offset, tv, unstored, late, got, scale, started>>
        BY <1>9 DEF resetInterval, clockVars, timeVars, tvVars, readVars, timerVars
    <2>2. interval' \in Intervals
        BY <1>9, <1>0 DEF resetInterval, clockVars, timerVars, ClockTypes
    <2>3. QED
        BY <2>1, <2>2, <1>0 DEF ClockInv, ClockTypes, SomeWords, Sampling, InOrder,
                                milliseconds, OfDay
<1>10. QED
    BY <1>1, <1>2, <1>3, <1>4, <1>5, <1>6, <1>7, <1>8, <1>9 DEF ClockNext

\* Readings stay in order until a word is stored late.
THEOREM ClockInvariant == ClockSpec => []ClockInv
BY ClockInitial, ClockStep, PTL DEF ClockSpec

\* A timer whose scale and reading are each of one sampling answers by the time
\* that really passed between them, or by a difference that has run over.
LEMMA AskExact ==
    ASSUME ClockInv, Ask, Untorn(got), Untorn(started), got["sec"].offset = started["sec"].offset
    PROVE  /\ (purpose' = "fire") <=> (Passed >= interval \/ Passed < 0)
           /\ Passed < 0 => late
<1>1. /\ got["sec"] \in Sampling /\ started["sec"] \in Sampling
      /\ "sec" \in Words /\ "sec" \in DOMAIN got
    BY DEF ClockInv, ClockTypes, SomeWords, Ask, IsRead, Words
<1>2. /\ interval \in Nat /\ uptime \in 0 .. MaxUptime /\ ClockMod \in Nat /\ MaxUptime \in Nat
      /\ MaxUptime + interval < ClockMod /\ MaxUptime < ClockMod
    BY ClockAssumption DEF ClockInv, ClockTypes
<1>3. milliseconds(got) - scale = Passed
    <2>1. milliseconds(got) = got["sec"].uptime + got["sec"].offset
        BY <1>1, WholeReading
    <2>2. scale = started["sec"].uptime + started["sec"].offset
        BY <1>1, WholeReading DEF ClockInv
    <2>3. QED
        BY <1>1, <2>1, <2>2 DEF Passed, Sampling
<1>4. Passed \in Int /\ -MaxUptime <= Passed /\ Passed <= MaxUptime
    BY <1>1, <1>2 DEF Passed, Sampling
<1>5. CASE Passed >= 0
    <2>1. Elapsed = Passed
        BY <1>2, <1>3, <1>4, <1>5, SmallModulus DEF Elapsed
    <2>2. QED
        BY <1>2, <1>4, <1>5, <2>1 DEF Ask
<1>6. CASE Passed < 0
    <2>1. Elapsed = Passed + ClockMod
        BY <1>2, <1>3, <1>4, <1>6, NegativeModulus DEF Elapsed
    <2>2. Elapsed >= interval
        BY <1>2, <1>4, <2>1
    <2>3. late
        BY <1>1, <1>6 DEF Passed, ClockInv, InOrder, Sampling, ClockTypes
    <2>4. QED
        BY <1>6, <2>2, <2>3 DEF Ask
<1>7. QED
    BY <1>4, <1>5, <1>6

\* Timer::operator() is exact when its two readings are each of one sampling
\* and the time of day was the same, but for the early answer after a reading
\* that was stored late; for every interval, every word width that holds the
\* times, and every interleaving of the words that threads store and load.
THEOREM TimersExact == ClockSpec => TimerExact
<1>1. ClockInv /\ [ClockNext]_clockVars =>
        [Ask /\ Untorn(got) /\ Untorn(started) /\ got["sec"].offset = started["sec"].offset
           => /\ (purpose' = "fire") <=> (Passed >= interval \/ Passed < 0)
              /\ Passed < 0 => late]_clockVars
    BY AskExact
<1>2. QED
    BY <1>1, ClockInvariant, PTL DEF ClockSpec, TimerExact

-----------------------------------------------------------------------------
(* The answer of the login service.                                        *)

Outcomes == {"parse", "assert", "errcode", "session_key", "openid", "error"}

\* The context lives exactly while curl has handed over nothing, and every
\* piece or failure that released it was reported.
JscodeInv ==
    /\ reports \in Seq(Outcomes) /\ pieces \in Nat /\ rc \in BOOLEAN
    /\ call = "idle" => context = "none" /\ pieces = 0
    /\ call # "returned" => rc
    /\ call = "transfer" => (context = "released" <=> pieces > 0)
    /\ end = "none" =>
          /\ pieces < 2
          /\ pieces = 1 \/ ~rc => Len(reports) = 1
          /\ pieces = 0 /\ rc => Len(reports) = 0
    /\ JscodeReports

\* Whatever a piece holds, one outcome is reported or the library asserts.
LEMMA OneReport ==
    ASSUME NEW kind \in {"invalid", "other", "object"}, NEW o \in Objects
    PROVE  \E r \in Outcomes : Reported(kind, o) = <<r>>
<1>2. Outcome(o) \in {<<"assert">>, <<"errcode">>, <<"session_key">>, <<"openid">>}
    BY Zenon DEF Outcome
<1>3. Reported(kind, o) \in {<<"parse">>, <<"assert">>, <<"errcode">>, <<"session_key">>, <<"openid">>}
    BY <1>2, Zenon DEF Reported
<1>4. QED
    BY <1>3, Zenon DEF Outcomes

\* No call, piece of the answer or end of the transfer breaks the invariant.
LEMMA JscodeStep == JscodeInv /\ [JscodeNext]_jscodeVars => JscodeInv'
<1> SUFFICES ASSUME JscodeInv, [JscodeNext]_jscodeVars PROVE JscodeInv'
    OBVIOUS
<1>1. ASSUME end = "none", NEW ok \in BOOLEAN, decode_jscode(ok) PROVE JscodeInv'
    BY <1>1 DEF JscodeInv, decode_jscode, JscodeReports
<1>2. ASSUME end = "none", NEW ok \in BOOLEAN, Finish(ok) PROVE JscodeInv'
    <2>1. call = "transfer" /\ call' = "returned" /\ rc' = ok /\ pieces' = pieces /\ rc = TRUE
        BY <1>2 DEF JscodeInv, Finish
    <2>2. CASE ok
        <3>1. UNCHANGED <<context, reports, end>>
            BY <1>2, <2>2 DEF Finish
        <3>2. QED
            BY <2>1, <2>2, <3>1, <1>2 DEF JscodeInv, JscodeReports
    <2>3. CASE ~ok
        <3>1. /\ reports' = Append(reports, "error") /\ context' = "released"
              /\ end' = IF context = "released" THEN "released_twice" ELSE end
            BY <1>2, <2>3 DEF Finish
        <3>2. reports' \in Seq(Outcomes) /\ Len(reports') = Len(reports) + 1
            BY <3>1 DEF JscodeInv, Outcomes
        <3>3. QED
            BY <2>1, <2>3, <3>1, <3>2, <1>2 DEF JscodeInv, JscodeReports
    <2>4. QED
        BY <2>2, <2>3
<1>3. ASSUME end = "none", NEW kind \in {"invalid", "other", "object"}, NEW o \in Objects,
             curlWriteCallback(kind, o)
      PROVE  JscodeInv'
    <2>1. call = "transfer" /\ call' = call /\ rc' = rc /\ pieces' = pieces + 1 /\ rc = TRUE
        BY <1>3 DEF JscodeInv, curlWriteCallback
    <2>2. CASE context = "released"
        <3>1. end' = "used_after_release" /\ UNCHANGED <<context, reports>>
            BY <1>3, <2>2 DEF curlWriteCallback
        <3>2. QED
            BY <2>1, <2>2, <3>1, <1>3 DEF JscodeInv, JscodeReports
    <2>3. CASE context # "released"
        <3>1. pieces = 0 /\ Len(reports) = 0
            BY <2>1, <2>3, <1>3 DEF JscodeInv
        <3>2. PICK r \in Outcomes : Reported(kind, o) = <<r>>
            BY OneReport
        <3>3. /\ context' = "released"
              /\ \/ end' = "assert" /\ reports' = reports
                 \/ end' = end /\ reports' = reports \o <<r>>
            BY <1>3, <2>3, <3>2 DEF curlWriteCallback
        <3>4. CASE end' = "assert" /\ reports' = reports
            BY <2>1, <3>1, <3>3, <3>4, <1>3 DEF JscodeInv, JscodeReports
        <3>5. CASE end' = end /\ reports' = reports \o <<r>>
            <4>1. reports' \in Seq(Outcomes) /\ Len(reports') = 1
                BY <3>1, <3>5 DEF JscodeInv
            <4>2. QED
                BY <2>1, <3>1, <3>3, <3>5, <4>1, <1>3 DEF JscodeInv, JscodeReports
        <3>6. QED
            BY <3>3, <3>4, <3>5
    <2>4. QED
        BY <2>2, <2>3
<1>4. CASE UNCHANGED jscodeVars
    BY <1>4 DEF JscodeInv, JscodeReports, jscodeVars
<1>5. QED
    BY <1>1, <1>2, <1>3, <1>4 DEF JscodeNext

\* decode_jscode, for every answer in any number of pieces: the context is used
\* or released again only after a second piece or a failure behind a piece; in
\* every other course the Lua function is told one outcome, or none when the
\* answer was empty or the transfer could not begin.
THEOREM OutcomeReportedOnce == JscodeSpec => []JscodeReports
<1>1. JscodeInit => JscodeInv
    BY DEF JscodeInit, JscodeInv, JscodeReports
<1>2. JscodeInv => JscodeReports
    BY DEF JscodeInv
<1>3. QED
    BY <1>1, <1>2, JscodeStep, PTL DEF JscodeSpec

-----------------------------------------------------------------------------
(* The decoder of JSON.  Two machines are kept in step: the parser with    *)
(* its stack of modes, and the callback with the Lua stack and three stacks *)
(* of its own; the proof follows both through every entry of the table.    *)

Fields == {"ok", "ub", "lua", "key_lvl", "cur_state", "state_stack", "array_idx",
           "array_stack", "state", "type", "escaped", "high", "stack", "buf"}

Modes == {"DONE", "KEY", "OBJECT", "ARRAY"}
Kinds == {"NONE", "TABLE", "ARRAY"}
Kind(mode) == IF mode = "DONE" THEN "NONE" ELSE IF mode = "ARRAY" THEN "ARRAY" ELSE "TABLE"

IsSeq(s) == \E S : s \in Seq(S)

\* How often m occurs in s.
Places(s, m) == {i \in 1 .. Len(s) : s[i] = m}
Count(s, m) == Cardinality(Places(s, m))

\* Only so many places hold m.
LEMMA CountNat ==
    ASSUME NEW s, IsSeq(s), NEW m
    PROVE  IsFiniteSet(Places(s, m)) /\ Count(s, m) \in Nat
<1>1. Len(s) \in Nat
    BY DEF IsSeq
<1>2. IsFiniteSet(1 .. Len(s))
    BY <1>1, FS_Interval
<1>3. IsFiniteSet(Places(s, m))
    BY <1>2, FS_Subset DEF Places
<1>4. QED
    BY <1>3, FS_CardinalityType DEF Count

\* Appending counts one more, if it is m.
LEMMA CountAppend ==
    ASSUME NEW S, NEW s \in Seq(S), NEW x \in S, NEW m
    PROVE  Count(Append(s, x), m) = Count(s, m) + IF x = m THEN 1 ELSE 0
<1>1. IsFiniteSet(Places(s, m)) /\ Count(s, m) \in Nat
    BY CountNat DEF IsSeq
<1>2. CASE x = m
    <2>1. Places(Append(s, x), m) = Places(s, m) \cup {Len(s) + 1}
        BY <1>2 DEF Places
    <2>2. Len(s) + 1 \notin Places(s, m)
        BY DEF Places
    <2>3. QED
        BY <1>1, <1>2, <2>1, <2>2, FS_AddElement DEF Count
<1>3. CASE x # m
    <2>1. Places(Append(s, x), m) = Places(s, m)
        BY <1>3 DEF Places
    <2>2. QED
        BY <1>1, <1>3, <2>1 DEF Count
<1>4. QED
    BY <1>2, <1>3

\* What Front and Last are.
LEMMA FrontLast ==
    ASSUME NEW S, NEW s \in Seq(S), Len(s) > 0
    PROVE  /\ Front(s) \in Seq(S) /\ Len(Front(s)) = Len(s) - 1 /\ Last(s) \in S
           /\ \A i \in 1 .. Len(s) - 1 : Front(s)[i] = s[i]
           /\ Last(s) = s[Len(s)]
<1>0. Len(s) \in Nat /\ Len(s) >= 1 /\ s \in [1 .. Len(s) -> S]
    OBVIOUS
<1>1. Front(s) \in Seq(S) /\ Len(Front(s)) = Len(s) - 1
    BY <1>0, SubSeqProperties DEF Front
<1>2. ASSUME NEW i \in 1 .. Len(s) - 1
      PROVE  Front(s)[i] = s[i]
    BY DEF Front
<1>3. Last(s) = s[Len(s)] /\ Last(s) \in S
    BY <1>0 DEF Last
<1>4. QED
    BY <1>1, <1>2, <1>3

\* A sequence is its front and its last element.
LEMMA AppendLast ==
    ASSUME NEW S, NEW s \in Seq(S), Len(s) > 0
    PROVE  s = Append(Front(s), Last(s))
<1> DEFINE t == Append(Front(s), Last(s))
<1>0. Len(s) \in Nat /\ Len(s) >= 1
    OBVIOUS
<1>1. /\ Front(s) \in Seq(S) /\ Len(Front(s)) = Len(s) - 1 /\ Last(s) \in S
      /\ \A i \in 1 .. Len(s) - 1 : Front(s)[i] = s[i]
      /\ Last(s) = s[Len(s)]
    BY FrontLast
<1>2. t \in Seq(S) /\ Len(t) = Len(Front(s)) + 1
    BY <1>1, AppendProperties, Zenon
<1>3. ASSUME NEW i \in 1 .. Len(s) PROVE t[i] = s[i]
    BY <1>0, <1>1
<1> HIDE DEF t
<1>4. Len(t) = Len(s)
    BY <1>0, <1>1, <1>2
<1>5. s = t
    BY <1>2, <1>3, <1>4, SeqEqual
<1>6. QED
    BY <1>5 DEF t

\* The last element counts for one, if it is m.
LEMMA CountFront ==
    ASSUME NEW S, NEW s \in Seq(S), Len(s) > 0, NEW m
    PROVE  Count(s, m) = Count(Front(s), m) + IF Last(s) = m THEN 1 ELSE 0
<1>1. /\ Front(s) \in Seq(S) /\ Last(s) \in S
      /\ Count(s, m) = Count(Append(Front(s), Last(s)), m)
    BY FrontLast, AppendLast
<1>2. QED
    BY <1>1, CountAppend

\* Pushing a value on the Lua stack leaves the others in place.
LEMMA LuaAppend ==
    ASSUME NEW s, IsSeq(s), NEW x
    PROVE  /\ IsSeq(Append(s, x)) /\ Len(s) \in Nat /\ Len(Append(s, x)) = Len(s) + 1
           /\ \A i \in 1 .. Len(s) : Append(s, x)[i] = s[i]
           /\ Append(s, x)[Len(s) + 1] = x
<1>1. PICK S : s \in Seq(S)
    BY DEF IsSeq
<1>2. PICK T : s \in Seq(T) /\ x \in T
    <2>1. s \in Seq(S \cup {x}) /\ x \in S \cup {x}
        BY <1>1, SeqMonotonic
    <2>2. QED
        BY <2>1
<1>3. /\ Append(s, x) \in Seq(T) /\ Len(Append(s, x)) = Len(s) + 1
      /\ \A i \in 1 .. Len(s) : Append(s, x)[i] = s[i]
      /\ Append(s, x)[Len(s) + 1] = x
    BY <1>2, AppendProperties
<1>4. Len(s) \in Nat
    BY <1>1
<1>5. QED
    BY <1>3, <1>4, Zenon DEF IsSeq

\* Popping leaves the values below in place.
LEMMA LuaCut ==
    ASSUME NEW s, IsSeq(s), NEW n \in 0 .. Len(s)
    PROVE  /\ IsSeq(SubSeq(s, 1, n)) /\ Len(SubSeq(s, 1, n)) = n
           /\ \A i \in 1 .. n : SubSeq(s, 1, n)[i] = s[i]
<1>1. PICK S : s \in Seq(S)
    BY DEF IsSeq
<1>2. /\ SubSeq(s, 1, n) \in Seq(S) /\ Len(SubSeq(s, 1, n)) = n
      /\ \A i \in 1 .. n : SubSeq(s, 1, n)[i] = s[i]
    BY <1>1, SubSeqProperties
<1>3. QED
    BY <1>2 DEF IsSeq

\* The step from q to r changes no fields but F.
Change(q, r, F) == DOMAIN r = Fields /\ \A f \in Fields \ F : r[f] = q[f]

\* Two steps change what each of them changes.
LEMMA ChangeTrans ==
    ASSUME NEW q, NEW r, NEW s, NEW F, NEW G, Change(q, r, F), Change(r, s, G)
    PROVE  Change(q, s, F \cup G)
BY DEF Change

\* A step that changes few fields changes no others of more.
LEMMA ChangeMore ==
    ASSUME NEW q, NEW r, NEW F, NEW G, Change(q, r, F), F \subseteq G
    PROVE  Change(q, r, G)
BY DEF Change

\* A step that does nothing.
LEMMA NoChange ==
    ASSUME NEW q, DOMAIN q = Fields, NEW F
    PROVE  Change(q, q, F)
BY DEF Change

\* A rejection says so and changes nothing else.
LEMMA Failing ==
    ASSUME NEW q, DOMAIN q = Fields
    PROVE  /\ Change(q, Fail(q), {"ok"}) /\ Fail(q).ok = FALSE
           /\ Change(q, Undefined(q), {"ok", "ub"}) /\ Undefined(q).ok = FALSE
BY DEF Change, Fail, Undefined, Fields

\* lua_push changes the Lua stack only.
LEMMA Pushing ==
    ASSUME NEW q, DOMAIN q = Fields, NEW v
    PROVE  Change(q, lua_push(q, v), {"lua"}) /\ lua_push(q, v).lua = Append(q.lua, v)
BY DEF Change, lua_push, Fields

\* The index of an element is pushed in an array only.
LEMMA Indexing ==
    ASSUME NEW q, DOMAIN q = Fields
    PROVE  /\ Change(q, NextIndex(q), {"lua", "array_idx"})
           /\ q.cur_state # "ARRAY" => NextIndex(q) = q
           /\ q.cur_state = "ARRAY" => \E v : NextIndex(q).lua = Append(q.lua, v)
BY DEF Change, NextIndex, lua_push, Fields

\* lua_settable changes the Lua stack, or fails on it.
LEMMA Setting ==
    ASSUME NEW q, DOMAIN q = Fields
    PROVE  Change(q, lua_settable(q), {"lua", "ok", "ub"})
BY DEF Change, lua_settable, Undefined, Fields

\* lua_settable with a table in its place takes the key and the value away and
\* leaves the table there.
LEMMA SettingTable ==
    ASSUME NEW q, DOMAIN q = Fields, IsSeq(q.lua), Len(q.lua) >= 3, q.lua[Len(q.lua) - 2][1] = "tab"
    PROVE  /\ Change(q, lua_settable(q), {"lua"})
           /\ IsSeq(lua_settable(q).lua) /\ Len(lua_settable(q).lua) = Len(q.lua) - 2
           /\ \A i \in 1 .. Len(q.lua) - 3 : lua_settable(q).lua[i] = q.lua[i]
           /\ lua_settable(q).lua[Len(q.lua) - 2][1] = "tab"
<1> DEFINE n == Len(q.lua)
           v == Table(Assign(q.lua[n - 2][2], q.lua[n - 1], q.lua[n]))
           cut == SubSeq(q.lua, 1, n - 3)
<1>1. n \in Nat /\ n - 3 \in 0 .. n
    BY DEF IsSeq
<1>2. lua_settable(q) = [q EXCEPT !.lua = Append(cut, v)]
    BY <1>1 DEF lua_settable
<1>3. /\ IsSeq(cut) /\ Len(cut) = n - 3
      /\ \A i \in 1 .. n - 3 : cut[i] = q.lua[i]
    BY <1>1, LuaCut
<1>4. v[1] = "tab"
    BY DEF Table
<1>5. /\ IsSeq(Append(cut, v)) /\ Len(Append(cut, v)) = Len(cut) + 1
      /\ \A i \in 1 .. Len(cut) : Append(cut, v)[i] = cut[i]
      /\ Append(cut, v)[Len(cut) + 1] = v
    BY <1>3, LuaAppend
<1>6. Change(q, lua_settable(q), {"lua"}) /\ lua_settable(q).lua = Append(cut, v)
    BY <1>2 DEF Change, Fields
<1> HIDE DEF n, v, cut
<1>7. /\ IsSeq(Append(cut, v)) /\ Len(Append(cut, v)) = n - 2
      /\ \A i \in 1 .. n - 3 : Append(cut, v)[i] = q.lua[i]
      /\ Append(cut, v)[n - 2] = v
    BY <1>1, <1>3, <1>5
<1>8. QED
    BY <1>4, <1>6, <1>7 DEF n

-----------------------------------------------------------------------------
ParserTypes(q) ==
    /\ DOMAIN q = Fields /\ q.ok = TRUE /\ q.ub = FALSE
    /\ q.stack \in Seq(Modes) /\ q.state_stack \in Seq(Kinds)
    /\ IsSeq(q.array_stack) /\ IsSeq(q.lua) /\ q.key_lvl \in Nat

\* The stacks of the parser and of the callback agree.
Nested(q) ==
    /\ Len(q.stack) > 0
    /\ \A i \in 1 .. Len(q.stack) : /\ q.stack[i] = "DONE" <=> i = 1
                                    /\ q.stack[i] = "KEY" => i = Len(q.stack)
    /\ q.cur_state = Kind(Mode(q))
    /\ Len(q.state_stack) = Len(q.stack) - 1
    /\ \A i \in 1 .. Len(q.state_stack) : q.state_stack[i] = Kind(q.stack[i])
    /\ Len(q.array_stack) = Count(q.stack, "ARRAY")

\* A container opens: both stacks grow by one.
LEMMA PushNested ==
    ASSUME NEW q, ParserTypes(q), Nested(q), Mode(q) # "KEY", NEW m \in {"KEY", "ARRAY"},
           NEW r, r.stack = Append(q.stack, m), r.cur_state = Kind(m),
           r.state_stack = Append(q.state_stack, q.cur_state),
           Len(r.array_stack) = Len(q.array_stack) + IF m = "ARRAY" THEN 1 ELSE 0
    PROVE  /\ Nested(r) /\ r.stack \in Seq(Modes) /\ r.state_stack \in Seq(Kinds)
           /\ Len(r.stack) = Len(q.stack) + 1 /\ Mode(r) = m /\ Front(r.stack) = q.stack
<1> DEFINE n == Len(q.stack)
<1>0. /\ q.stack \in Seq(Modes) /\ q.state_stack \in Seq(Kinds) /\ m \in Modes
      /\ n \in Nat /\ n > 0 /\ Len(q.state_stack) = n - 1
    BY DEF ParserTypes, Nested, Modes
<1>1. q.cur_state \in Kinds /\ q.cur_state = Kind(q.stack[n])
    BY DEF Nested, Mode, Last, Kind, Kinds
<1>2. /\ r.stack \in Seq(Modes) /\ Len(r.stack) = n + 1
      /\ \A i \in 1 .. n : r.stack[i] = q.stack[i]
      /\ r.stack[n + 1] = m
    BY <1>0, AppendProperties
<1>3. /\ r.state_stack \in Seq(Kinds) /\ Len(r.state_stack) = n
      /\ \A i \in 1 .. n - 1 : r.state_stack[i] = q.state_stack[i]
      /\ r.state_stack[n] = q.cur_state
    <2>1. /\ r.state_stack \in Seq(Kinds) /\ Len(r.state_stack) = Len(q.state_stack) + 1
          /\ \A i \in 1 .. Len(q.state_stack) : r.state_stack[i] = q.state_stack[i]
          /\ r.state_stack[Len(q.state_stack) + 1] = q.cur_state
        BY <1>0, <1>1, AppendProperties
    <2>2. QED
        BY <1>0, <2>1
<1>4. Len(r.array_stack) = Count(r.stack, "ARRAY")
    <2>1. Count(Append(q.stack, m), "ARRAY") = Count(q.stack, "ARRAY") + IF m = "ARRAY" THEN 1 ELSE 0
        BY <1>0, CountAppend
    <2>2. QED
        BY <2>1 DEF Nested
<1>5. Mode(r) = m
    BY <1>2 DEF Mode, Last
<1>6. \A i \in 1 .. n + 1 : (r.stack[i] = "DONE" <=> i = 1) /\ (r.stack[i] = "KEY" => i = n + 1)
    <2>1. q.stack[n] # "KEY"
        BY DEF Mode, Last
    <2>2. \A i \in 1 .. n : (q.stack[i] = "DONE" <=> i = 1) /\ (q.stack[i] = "KEY" => i = n)
        BY DEF Nested
    <2>3. QED
        BY <1>0, <1>2, <2>1, <2>2
<1>7. \A i \in 1 .. n : r.state_stack[i] = Kind(r.stack[i])
    <2>1. \A i \in 1 .. n - 1 : q.state_stack[i] = Kind(q.stack[i])
        BY <1>0 DEF Nested
    <2>2. QED
        BY <1>0, <1>1, <1>2, <1>3, <2>1
<1>8. Front(r.stack) = q.stack
    <2>0. r.stack \in Seq(Modes) /\ Len(r.stack) > 0
        BY <1>0, <1>2
    <2>1. /\ Front(r.stack) \in Seq(Modes) /\ Len(Front(r.stack)) = Len(r.stack) - 1
          /\ \A i \in 1 .. Len(r.stack) - 1 : Front(r.stack)[i] = r.stack[i]
        BY <2>0, FrontLast, Zenon
    <2>2. Len(Front(r.stack)) = n /\ \A i \in 1 .. n : Front(r.stack)[i] = q.stack[i]
        BY <1>0, <1>2, <2>1
    <2>3. QED
        BY <1>0, <2>1, <2>2, SeqEqual
<1>9. Nested(r)
    BY <1>0, <1>2, <1>3, <1>4, <1>5, <1>6, <1>7 DEF Nested
<1>10. QED
    BY <1>2, <1>3, <1>5, <1>8, <1>9

\* A container closes: both stacks shrink by one, to an object or array or to
\* the bottom.
LEMMA PopNested ==
    ASSUME NEW q, ParserTypes(q), Nested(q), Mode(q) # "DONE",
           NEW r, r.stack = Front(q.stack), r.cur_state = Last(q.state_stack),
           r.state_stack = Front(q.state_stack),
           Len(r.array_stack) = Len(q.array_stack) - IF Mode(q) = "ARRAY" THEN 1 ELSE 0
    PROVE  /\ Nested(r) /\ r.stack \in Seq(Modes) /\ r.state_stack \in Seq(Kinds)
           /\ Len(r.stack) = Len(q.stack) - 1 /\ Mode(r) # "KEY"
           /\ Mode(r) = "DONE" <=> Len(r.stack) = 1
<1> DEFINE n == Len(q.stack)
<1>0. /\ q.stack \in Seq(Modes) /\ q.state_stack \in Seq(Kinds)
      /\ n \in Nat /\ n > 1 /\ Len(q.state_stack) = n - 1
    BY DEF ParserTypes, Nested, Mode, Last
<1>a. Len(q.stack) > 0 /\ Len(q.state_stack) > 0
    BY <1>0
<1>1. /\ r.stack \in Seq(Modes) /\ Len(r.stack) = n - 1
      /\ \A i \in 1 .. n - 1 : r.stack[i] = q.stack[i]
    BY <1>0, <1>a, FrontLast, Zenon
<1>2. /\ r.state_stack \in Seq(Kinds) /\ Len(r.state_stack) = n - 2
      /\ \A i \in 1 .. n - 2 : r.state_stack[i] = q.state_stack[i]
      /\ r.cur_state = q.state_stack[n - 1]
    <2>1. /\ r.state_stack \in Seq(Kinds) /\ Len(r.state_stack) = Len(q.state_stack) - 1
          /\ \A i \in 1 .. Len(q.state_stack) - 1 : r.state_stack[i] = q.state_stack[i]
          /\ r.cur_state = q.state_stack[Len(q.state_stack)]
        BY <1>0, <1>a, FrontLast, Zenon
    <2>2. QED
        BY <1>0, <2>1
<1>3. Mode(r) = q.stack[n - 1]
    BY <1>0, <1>1 DEF Mode, Last
<1>4. Len(r.array_stack) = Count(r.stack, "ARRAY")
    <2>1. Count(q.stack, "ARRAY") = Count(Front(q.stack), "ARRAY") + IF Last(q.stack) = "ARRAY" THEN 1 ELSE 0
        BY <1>0, CountFront
    <2>2. Count(Front(q.stack), "ARRAY") \in Nat
        BY <1>1, CountNat DEF IsSeq
    <2>3. QED
        BY <2>1, <2>2 DEF Nested, Mode
<1>5. \A i \in 1 .. n - 1 : (r.stack[i] = "DONE" <=> i = 1) /\ r.stack[i] # "KEY"
    BY <1>0, <1>1, SMTT(60) DEF Nested
<1>6. \A i \in 1 .. n - 1 : q.state_stack[i] = Kind(r.stack[i])
    BY <1>0, <1>1 DEF Nested
<1>7. Nested(r)
    BY <1>0, <1>1, <1>2, <1>3, <1>4, <1>5, <1>6, SMTT(60) DEF Nested
<1>8. Mode(r) # "KEY" /\ (Mode(r) = "DONE" <=> n - 1 = 1)
    <2>1. n - 1 \in 1 .. n - 1
        BY <1>0
    <2>2. QED
        BY <1>3, <1>5, <1>1, <2>1
<1>9. QED
    BY <1>1, <1>2, <1>7, <1>8

\* A key becomes a member or the member the next key: the stacks keep their size.
LEMMA SwapNested ==
    ASSUME NEW q, ParserTypes(q), Nested(q), Mode(q) \in {"KEY", "OBJECT"},
           NEW m \in {"KEY", "OBJECT"},
           NEW r, r.stack = Append(Front(q.stack), m), r.cur_state = q.cur_state,
           r.state_stack = q.state_stack, r.array_stack = q.array_stack
    PROVE  /\ Nested(r) /\ r.stack \in Seq(Modes)
           /\ Len(r.stack) = Len(q.stack) /\ Mode(r) = m /\ Front(r.stack) = Front(q.stack)
<1> DEFINE n == Len(q.stack)
<1>0. /\ q.stack \in Seq(Modes) /\ m \in Modes
      /\ n \in Nat /\ n > 1 /\ Len(q.state_stack) = n - 1
    BY DEF ParserTypes, Nested, Mode, Last, Modes
<1>a. Len(q.stack) > 0
    BY <1>0
<1>1. /\ Front(q.stack) \in Seq(Modes) /\ Len(Front(q.stack)) = n - 1
      /\ \A i \in 1 .. n - 1 : Front(q.stack)[i] = q.stack[i]
    BY <1>0, <1>a, FrontLast, Zenon
<1>2. /\ r.stack \in Seq(Modes) /\ Len(r.stack) = n
      /\ \A i \in 1 .. n - 1 : r.stack[i] = q.stack[i]
      /\ r.stack[n] = m
    <2>1. /\ r.stack \in Seq(Modes) /\ Len(r.stack) = Len(Front(q.stack)) + 1
          /\ \A i \in 1 .. Len(Front(q.stack)) : r.stack[i] = Front(q.stack)[i]
          /\ r.stack[Len(Front(q.stack)) + 1] = m
        BY <1>0, <1>1, AppendProperties
    <2>2. QED
        BY <1>0, <1>1, <2>1
<1>3. Mode(r) = m /\ Kind(m) = "TABLE" /\ Kind(Mode(q)) = "TABLE" /\ Mode(q) = q.stack[n]
    BY <1>2 DEF Mode, Last, Kind
<1>4. Count(r.stack, "ARRAY") = Count(q.stack, "ARRAY")
    <2>1. Count(q.stack, "ARRAY") = Count(Front(q.stack), "ARRAY") + 0
        BY <1>0, CountFront DEF Mode
    <2>2. Count(r.stack, "ARRAY") = Count(Front(q.stack), "ARRAY") + 0
        BY <1>0, <1>1, CountAppend
    <2>3. QED
        BY <2>1, <2>2
<1>5. \A i \in 1 .. n : (r.stack[i] = "DONE" <=> i = 1) /\ (r.stack[i] = "KEY" => i = n)
    BY <1>0, <1>2 DEF Nested
<1>6. \A i \in 1 .. n - 1 : q.state_stack[i] = Kind(r.stack[i])
    BY <1>0, <1>2 DEF Nested
<1>7. Front(r.stack) = Front(q.stack)
    <2>0. r.stack \in Seq(Modes) /\ Len(r.stack) > 0
        BY <1>0, <1>2
    <2>1. /\ Front(r.stack) \in Seq(Modes) /\ Len(Front(r.stack)) = Len(r.stack) - 1
          /\ \A i \in 1 .. Len(r.stack) - 1 : Front(r.stack)[i] = r.stack[i]
        BY <2>0, FrontLast, Zenon
    <2>2. /\ Len(Front(r.stack)) = Len(Front(q.stack))
          /\ \A i \in 1 .. Len(Front(r.stack)) : Front(r.stack)[i] = Front(q.stack)[i]
        BY <1>0, <1>1, <1>2, <2>1
    <2>3. QED
        BY <1>1, <2>1, <2>2, SeqEqual
<1>8. Nested(r)
    BY <1>0, <1>2, <1>3, <1>4, <1>5, <1>6 DEF Nested
<1>9. QED
    BY <1>2, <1>3, <1>7, <1>8

-----------------------------------------------------------------------------
\* The Lua stack holds a table for every open container, with the key or the
\* index of each inner one between, and on top w keys that wait for a value;
\* key_lvl counts the keys.
Held(q, w) ==
    /\ w \in {0, 1}
    /\ q.key_lvl = Count(Front(q.stack), "OBJECT") + w
    /\ Len(q.stack) > 1 => Len(q.lua) = 2 * Len(q.stack) - 3 + w
    /\ Len(q.stack) = 1 => Len(q.lua) \in {0, 1} /\ w = 0
    /\ \A i \in Nat : 2 * i + 1 <= Len(q.lua) => q.lua[2 * i + 1][1] = "tab"

Context(q, w) == ParserTypes(q) /\ Nested(q) /\ Held(q, w)

\* Held inside a container, from its parts.
LEMMA HeldInside ==
    ASSUME NEW r, NEW w \in {0, 1}, Len(r.stack) \in Nat, Len(r.stack) > 1,
           r.key_lvl = Count(Front(r.stack), "OBJECT") + w,
           Len(r.lua) = 2 * Len(r.stack) - 3 + w,
           \A i \in Nat : 2 * i + 1 <= Len(r.lua) => r.lua[2 * i + 1][1] = "tab"
    PROVE  Held(r, w)
<1>1. Len(r.stack) # 1
    <2>1. \A j \in Nat : j > 1 => j # 1
        OBVIOUS
    <2>2. QED
        BY <2>1, Zenon
<1>2. QED
    BY <1>1, Zenon DEF Held

\* Held outside all containers, from its parts.
LEMMA HeldOutside ==
    ASSUME NEW r, Len(r.stack) = 1, Len(r.lua) = 1,
           r.key_lvl = Count(Front(r.stack), "OBJECT") + 0,
           \A i \in Nat : 2 * i + 1 <= Len(r.lua) => r.lua[2 * i + 1][1] = "tab"
    PROVE  Held(r, 0)
<1>1. ~(Len(r.stack) > 1) /\ Len(r.lua) \in {0, 1} /\ 0 \in {0, 1}
    OBVIOUS
<1>2. QED
    BY <1>1, Zenon DEF Held

\* The sizes and types that follow from Context.
LEMMA Sizes ==
    ASSUME NEW q, NEW w, Context(q, w)
    PROVE  /\ Len(q.stack) \in Nat /\ Len(q.stack) > 0 /\ Len(q.lua) \in Nat
           /\ q.stack \in Seq(Modes) /\ Mode(q) \in Modes
           /\ Mode(q) = "DONE" => Len(q.stack) = 1
           /\ Mode(q) # "DONE" => Len(q.stack) > 1
           /\ Count(q.stack, "OBJECT") = Count(Front(q.stack), "OBJECT") + IF Mode(q) = "OBJECT" THEN 1 ELSE 0
           /\ Count(Front(q.stack), "OBJECT") \in Nat
<1>1. /\ Len(q.stack) \in Nat /\ Len(q.stack) > 0 /\ Len(q.lua) \in Nat
      /\ q.stack \in Seq(Modes)
    BY DEF Context, ParserTypes, Nested, IsSeq
<1>2. Front(q.stack) \in Seq(Modes) /\ Last(q.stack) \in Modes /\ Last(q.stack) = q.stack[Len(q.stack)]
    BY <1>1, FrontLast, Zenon
<1>3. Mode(q) = "DONE" <=> Len(q.stack) = 1
    <2>1. \A i \in 1 .. Len(q.stack) : q.stack[i] = "DONE" <=> i = 1
        BY DEF Context, Nested
    <2>2. Len(q.stack) \in 1 .. Len(q.stack)
        BY <1>1
    <2>3. q.stack[Len(q.stack)] = "DONE" <=> Len(q.stack) = 1
        BY <2>1, <2>2, Zenon
    <2>4. QED
        BY <1>2, <2>3 DEF Mode
<1>a. Mode(q) # "DONE" => Len(q.stack) > 1
    <2>1. ASSUME NEW n \in Nat, n > 0, n # 1 PROVE n > 1
        BY <2>1
    <2>2. QED
        BY <1>1, <1>3, <2>1
<1>4. Count(q.stack, "OBJECT") = Count(Front(q.stack), "OBJECT") + IF Last(q.stack) = "OBJECT" THEN 1 ELSE 0
    BY <1>1, CountFront
<1>5. Count(Front(q.stack), "OBJECT") \in Nat
    BY <1>2, CountNat DEF IsSeq
<1>6. QED
    BY <1>1, <1>2, <1>3, <1>a, <1>4, <1>5 DEF Mode

\* Where a value may start.
MayStart(q, w) ==
    \/ Mode(q) = "DONE" /\ q.lua = <<>>
    \/ Mode(q) = "ARRAY" /\ w = 0
    \/ Mode(q) = "OBJECT" /\ w = 1

\* A container was opened where a value may start: its table is on the Lua stack
\* and waits for nothing.
LEMMA Opened ==
    ASSUME NEW q, NEW w, Context(q, w), MayStart(q, w), NEW m \in {"KEY", "ARRAY"},
           NEW r, DOMAIN r = Fields, r.ok = q.ok, r.ub = q.ub, r.key_lvl = q.key_lvl,
           r.stack = Append(q.stack, m), r.cur_state = Kind(m),
           r.state_stack = Append(q.state_stack, q.cur_state),
           IsSeq(r.array_stack),
           Len(r.array_stack) = Len(q.array_stack) + IF m = "ARRAY" THEN 1 ELSE 0,
           NEW mid, r.lua = Append(mid, NewTable),
           IF Mode(q) = "ARRAY" THEN \E v : mid = Append(q.lua, v) ELSE mid = q.lua
    PROVE  Context(r, 0) /\ Mode(r) = m
<1> DEFINE n == Len(q.stack)
           k == Len(q.lua)
<1>0. ParserTypes(q) /\ Nested(q) /\ Held(q, w)
    BY DEF Context
<1>1. /\ n \in Nat /\ n > 0 /\ k \in Nat
      /\ Count(q.stack, "OBJECT") = Count(Front(q.stack), "OBJECT") + IF Mode(q) = "OBJECT" THEN 1 ELSE 0
      /\ Count(Front(q.stack), "OBJECT") \in Nat
    BY Sizes
<1>m. (Mode(q) = "DONE" => n = 1) /\ (Mode(q) # "DONE" => n > 1)
    BY Sizes, Zenon
<1>2. /\ Nested(r) /\ r.stack \in Seq(Modes) /\ r.state_stack \in Seq(Kinds)
      /\ Len(r.stack) = n + 1 /\ Mode(r) = m /\ Front(r.stack) = q.stack
    <2>1. Mode(q) # "KEY"
        BY DEF MayStart
    <2>2. QED
        BY <1>0, <2>1, PushNested
<1>3. /\ IsSeq(mid) /\ Len(mid) = k + IF Mode(q) = "ARRAY" THEN 1 ELSE 0
      /\ \A i \in 1 .. k : mid[i] = q.lua[i]
    <2>1. IsSeq(q.lua)
        BY <1>0 DEF ParserTypes
    <2>2. CASE Mode(q) = "ARRAY"
        <3>1. PICK v : mid = Append(q.lua, v)
            BY <2>2
        <3>2. QED
            BY <2>1, <2>2, <3>1, LuaAppend
    <2>3. CASE Mode(q) # "ARRAY"
        BY <1>1, <2>1, <2>3
    <2>4. QED
        BY <2>2, <2>3
<1>4. /\ IsSeq(r.lua) /\ Len(r.lua) = Len(mid) + 1
      /\ \A i \in 1 .. Len(mid) : r.lua[i] = mid[i]
      /\ r.lua[Len(mid) + 1] = NewTable
    <2> DEFINE a == Append(mid, NewTable)
    <2>1. /\ IsSeq(a) /\ Len(a) = Len(mid) + 1
          /\ \A i \in 1 .. Len(mid) : a[i] = mid[i]
          /\ a[Len(mid) + 1] = NewTable
        BY <1>3, LuaAppend, ZenonT(60)
    <2>2. r.lua = a
        OBVIOUS
    <2> HIDE DEF a
    <2>3. QED
        BY <2>1, <2>2
<1>5. ParserTypes(r)
    BY <1>0, <1>2, <1>4 DEF ParserTypes
<1>6. r.key_lvl = Count(Front(r.stack), "OBJECT") + 0
    <2>1. CASE Mode(q) = "DONE"
        <3>1. n = 1 /\ w = 0
            BY <1>0, <1>m, <2>1, Zenon DEF Held
        <3>2. QED
            BY <1>0, <1>1, <1>2, <2>1, <3>1 DEF Held
    <2>2. CASE Mode(q) = "ARRAY"
        BY <1>0, <1>1, <1>2, <2>2 DEF Held, MayStart
    <2>3. CASE Mode(q) = "OBJECT"
        BY <1>0, <1>1, <1>2, <2>3 DEF Held, MayStart
    <2>4. QED
        BY <2>1, <2>2, <2>3 DEF MayStart
<1>7. Len(r.lua) = 2 * (n + 1) - 3 /\ Len(r.lua) = Len(mid) + 1
    <2>1. q.lua = <<>> => k = 0
        OBVIOUS
    <2>2. /\ w \in {0, 1} /\ n > 1 => k = 2 * n - 3 + w
          /\ n = 1 => w = 0
        BY <1>0 DEF Held
    <2> HIDE DEF n, k
    <2>3. CASE Mode(q) = "DONE"
        BY <1>1, <1>m, <1>3, <1>4, <2>1, <2>3 DEF MayStart
    <2>4. CASE Mode(q) = "ARRAY"
        BY <1>1, <1>m, <1>3, <1>4, <2>2, <2>4 DEF MayStart
    <2>5. CASE Mode(q) = "OBJECT"
        BY <1>1, <1>m, <1>3, <1>4, <2>2, <2>5 DEF MayStart
    <2>6. QED
        BY <2>3, <2>4, <2>5 DEF MayStart
<1>8. ASSUME NEW i \in Nat, 2 * i + 1 <= Len(r.lua)
      PROVE  r.lua[2 * i + 1][1] = "tab"
    <2>1. NewTable[1] = "tab"
        BY DEF NewTable, Table
    <2>2. CASE 2 * i + 1 = Len(mid) + 1
        BY <2>1, <2>2, <1>4
    <2>3. CASE 2 * i + 1 # Len(mid) + 1
        <3>1. 2 * i + 1 <= k /\ 2 * i + 1 \in 1 .. k /\ 2 * i + 1 \in 1 .. Len(mid)
            <4> HIDE DEF n, k
            <4>1. Len(mid) = k \/ Len(mid) = k + 1
                BY <1>1, <1>3
            <4>2. 2 * i + 1 <= Len(mid) /\ Len(mid) = 2 * n - 2
                BY <1>1, <1>7, <1>8, <2>3, <4>1
            <4>3. 2 * i + 1 <= k
                BY <1>1, <4>1, <4>2
            <4>4. QED
                BY <1>1, <4>1, <4>2, <4>3
        <3>2. r.lua[2 * i + 1] = q.lua[2 * i + 1]
            BY <1>3, <1>4, <3>1
        <3>3. q.lua[2 * i + 1][1] = "tab"
            BY <1>0, <3>1 DEF Held
        <3>4. QED
            BY <3>2, <3>3
    <2>4. QED
        BY <2>2, <2>3
<1>9. Held(r, 0)
    <2>1. Len(r.stack) \in Nat /\ Len(r.stack) > 1 /\ Len(r.lua) = 2 * Len(r.stack) - 3 + 0
        BY <1>1, <1>2, <1>7
    <2>2. 0 \in {0, 1}
        OBVIOUS
    <2>3. QED
        BY <1>6, <1>8, <2>1, <2>2, HeldInside, Zenon
<1>10. QED
    BY <1>2, <1>5, <1>9 DEF Context

\* With a key and a value above the innermost table, lua_settable sets a field.
LEMMA SetInto ==
    ASSUME NEW x, DOMAIN x = Fields, IsSeq(x.lua), NEW n \in Nat, n > 1,
           Len(x.lua) = 2 * n - 1,
           \A i \in Nat : 2 * i + 1 <= 2 * n - 3 => x.lua[2 * i + 1][1] = "tab"
    PROVE  /\ Change(x, lua_settable(x), {"lua"})
           /\ IsSeq(lua_settable(x).lua) /\ Len(lua_settable(x).lua) = 2 * n - 3
           /\ \A i \in Nat : 2 * i + 1 <= Len(lua_settable(x).lua) =>
                 lua_settable(x).lua[2 * i + 1][1] = "tab"
<1> DEFINE y == lua_settable(x)
           k == Len(x.lua)
<1>1. k >= 3 /\ k - 2 = 2 * (n - 2) + 1 /\ n - 2 \in Nat
    OBVIOUS
<1>2. x.lua[k - 2][1] = "tab"
    <2>1. 2 * (n - 2) + 1 <= 2 * n - 3
        OBVIOUS
    <2>2. x.lua[2 * (n - 2) + 1][1] = "tab"
        BY <1>1, <2>1
    <2>3. QED
        BY <1>1, <2>2
<1>3. /\ Change(x, y, {"lua"}) /\ IsSeq(y.lua) /\ Len(y.lua) = k - 2
      /\ \A i \in 1 .. k - 3 : y.lua[i] = x.lua[i]
      /\ y.lua[k - 2][1] = "tab"
    BY <1>1, <1>2, SettingTable
<1> HIDE DEF y
<1>4. Len(y.lua) = 2 * n - 3
    BY <1>3
<1>5. ASSUME NEW i \in Nat, 2 * i + 1 <= Len(y.lua)
      PROVE  y.lua[2 * i + 1][1] = "tab"
    <2>1. CASE 2 * i + 1 = k - 2
        BY <1>3, <2>1
    <2>2. CASE 2 * i + 1 # k - 2
        <3>1. 2 * i + 1 \in 1 .. k - 3 /\ 2 * i + 1 <= 2 * n - 3
            BY <1>4, <1>5, <2>2
        <3>2. QED
            BY <1>3, <3>1
    <2>3. QED
        BY <2>1, <2>2
<1>6. QED
    BY <1>3, <1>4, <1>5 DEF y

\* A value goes into the innermost container.
LEMMA ScalarContext ==
    ASSUME NEW q, NEW w, Context(q, w), NEW v,
           \/ Mode(q) = "OBJECT" /\ w = 1
           \/ Mode(q) = "ARRAY" /\ w = 0
    PROVE  /\ Context(Scalar(q, v), 0)
           /\ Change(q, Scalar(q, v), {"lua", "key_lvl", "array_idx"})
<1> DEFINE n == Len(q.stack)
           r == Scalar(q, v)
           x == lua_push(NextIndex(q), v)
           y == lua_settable(x)
<1>0. ParserTypes(q) /\ Nested(q) /\ Held(q, w) /\ DOMAIN q = Fields /\ IsSeq(q.lua)
    BY DEF Context, ParserTypes
<1>1. /\ n \in Nat /\ n > 0 /\ Len(q.lua) \in Nat
      /\ Count(Front(q.stack), "OBJECT") \in Nat
    BY Sizes
<1>m. (Mode(q) = "DONE" => n = 1) /\ (Mode(q) # "DONE" => n > 1)
    BY Sizes, Zenon
<1>2. /\ n > 1 /\ Len(q.lua) = 2 * n - 3 + w
      /\ \A i \in Nat : 2 * i + 1 <= Len(q.lua) => q.lua[2 * i + 1][1] = "tab"
      /\ q.key_lvl = Count(Front(q.stack), "OBJECT") + w
    <2>1. n > 1
        BY <1>m, Zenon
    <2>2. QED
        BY <1>0, <2>1, Zenon DEF Held
<1>3. /\ Mode(q) = "OBJECT" => q.cur_state = "TABLE"
      /\ Mode(q) = "ARRAY" => q.cur_state = "ARRAY"
    BY <1>0 DEF Nested, Kind
<1>4. PICK mid : /\ NextIndex(q).lua = mid /\ Change(q, NextIndex(q), {"lua", "array_idx"})
                 /\ IsSeq(mid) /\ Len(mid) = 2 * n - 2
                 /\ \A i \in 1 .. Len(q.lua) : mid[i] = q.lua[i]
    <2>1. Change(q, NextIndex(q), {"lua", "array_idx"})
        BY <1>0, Indexing
    <2>2. CASE Mode(q) = "OBJECT"
        <3>1. NextIndex(q) = q
            BY <1>0, <1>3, <2>2, Indexing
        <3>2. QED
            BY <1>0, <1>2, <2>1, <2>2, <3>1
    <2>3. CASE Mode(q) = "ARRAY"
        <3>1. PICK u : NextIndex(q).lua = Append(q.lua, u)
            BY <1>0, <1>3, <2>3, Indexing
        <3> DEFINE a == Append(q.lua, u)
        <3>2. /\ IsSeq(a) /\ Len(a) = Len(q.lua) + 1
              /\ \A i \in 1 .. Len(q.lua) : a[i] = q.lua[i]
            BY <1>0, LuaAppend
        <3>3. NextIndex(q).lua = a
            BY <3>1
        <3> HIDE DEF a
        <3>4. Len(a) = 2 * n - 2
            BY <1>1, <1>2, <2>3, <3>2
        <3>5. QED
            BY <2>1, <3>2, <3>3, <3>4
    <2>4. QED
        BY <2>2, <2>3
<1>5. /\ Change(q, x, {"lua", "array_idx"}) /\ IsSeq(x.lua) /\ Len(x.lua) = 2 * n - 1
      /\ \A i \in Nat : 2 * i + 1 <= 2 * n - 3 => x.lua[2 * i + 1][1] = "tab"
    <2> DEFINE a == Append(mid, v)
    <2>1. Change(NextIndex(q), x, {"lua"}) /\ x.lua = a
        <3>1. DOMAIN NextIndex(q) = Fields
            BY <1>4 DEF Change
        <3>2. QED
            BY <1>4, <3>1, Pushing
    <2>2. Change(q, x, {"lua", "array_idx"})
        BY <1>4, <2>1 DEF Change
    <2>3. /\ IsSeq(a) /\ Len(a) = Len(mid) + 1
          /\ \A i \in 1 .. Len(mid) : a[i] = mid[i]
        BY <1>4, LuaAppend
    <2> HIDE DEF a, x, n
    <2>4. Len(a) = 2 * n - 1
        BY <1>1, <1>4, <2>3
    <2>5. ASSUME NEW i \in Nat, 2 * i + 1 <= 2 * n - 3
          PROVE  a[2 * i + 1][1] = "tab"
        <3>1. 2 * i + 1 <= Len(q.lua) /\ 2 * i + 1 \in 1 .. Len(q.lua) /\ 2 * i + 1 \in 1 .. Len(mid)
            BY <1>1, <1>2, <1>4, <2>5
        <3>2. a[2 * i + 1] = q.lua[2 * i + 1]
            BY <1>4, <2>3, <3>1
        <3>3. QED
            BY <1>2, <3>1, <3>2
    <2>6. QED
        BY <2>1, <2>2, <2>3, <2>4, <2>5
<1>6. DOMAIN x = Fields
    BY <1>5 DEF Change
<1>7. /\ Change(x, y, {"lua"}) /\ IsSeq(y.lua) /\ Len(y.lua) = 2 * n - 3
      /\ \A i \in Nat : 2 * i + 1 <= Len(y.lua) => y.lua[2 * i + 1][1] = "tab"
    <2> HIDE DEF x, n
    <2>1. QED
        BY <1>1, <1>2, <1>5, <1>6, SetInto
<1>8. Change(q, y, {"lua", "array_idx"})
    <2> HIDE DEF x, y
    <2>1. QED
        BY <1>5, <1>7 DEF Change
<1>9. /\ Change(q, r, {"lua", "key_lvl", "array_idx"}) /\ r.lua = y.lua
      /\ r.key_lvl = Count(Front(q.stack), "OBJECT")
    <2>1. CASE Mode(q) = "OBJECT"
        <3>1. NextIndex(q) = q
            BY <1>0, <1>3, <2>1, Indexing
        <3>2. q.key_lvl > 0 /\ y.key_lvl = q.key_lvl /\ DOMAIN y = Fields /\ w = 1
            <4> HIDE DEF y
            <4>1. QED
                BY <1>1, <1>2, <1>8, <2>1 DEF Change, Fields
        <3>3. r = WithKey(y)
            BY <1>3, <2>1, <3>1, <3>2 DEF Scalar
        <3> HIDE DEF y, r
        <3>4. r = [y EXCEPT !.key_lvl = @ - 1]
            BY <3>2, <3>3 DEF WithKey
        <3>5. r.lua = y.lua /\ Change(y, r, {"key_lvl"}) /\ r.key_lvl = q.key_lvl - 1
            BY <3>2, <3>4 DEF Change, Fields
        <3>6. Change(q, r, {"lua", "key_lvl", "array_idx"})
            BY <1>8, <3>5 DEF Change
        <3>7. QED
            BY <1>1, <1>2, <3>2, <3>5, <3>6
    <2>2. CASE Mode(q) = "ARRAY"
        <3>1. r = y
            BY <1>3, <2>2 DEF Scalar
        <3>2. w = 0 /\ y.key_lvl = q.key_lvl
            <4> HIDE DEF y
            <4>1. QED
                BY <1>8, <2>2 DEF Change, Fields
        <3> HIDE DEF y, r
        <3>3. QED
            BY <1>1, <1>2, <1>8, <3>1, <3>2 DEF Change
    <2>3. QED
        BY <2>1, <2>2
<1> HIDE DEF r, x, y
<1>10. /\ r.ok = q.ok /\ r.ub = q.ub /\ r.stack = q.stack /\ r.state_stack = q.state_stack
       /\ r.array_stack = q.array_stack /\ r.cur_state = q.cur_state /\ DOMAIN r = Fields
    BY <1>9 DEF Change, Fields
<1>11. ParserTypes(r)
    BY <1>0, <1>1, <1>7, <1>9, <1>10 DEF ParserTypes
<1>12. Nested(r)
    BY <1>0, <1>10 DEF Nested, Mode
<1>13. Held(r, 0)
    <2>1. /\ Len(r.stack) \in Nat /\ Len(r.stack) > 1 /\ 0 \in {0, 1}
          /\ r.key_lvl = Count(Front(r.stack), "OBJECT") + 0
          /\ Len(r.lua) = 2 * Len(r.stack) - 3 + 0
          /\ \A i \in Nat : 2 * i + 1 <= Len(r.lua) => r.lua[2 * i + 1][1] = "tab"
        BY <1>1, <1>2, <1>7, <1>9, <1>10
    <2>2. QED
        BY <2>1, HeldInside, Zenon
<1>14. QED
    BY <1>9, <1>11, <1>12, <1>13 DEF Context, r

\* A key waits for its value.
LEMMA KeyContext ==
    ASSUME NEW q, Context(q, 0), Mode(q) = "KEY", NEW bytes
    PROVE  /\ Context(Key(q, bytes), 1)
           /\ Change(q, Key(q, bytes), {"lua", "key_lvl"})
<1> DEFINE n == Len(q.stack)
           r == Key(q, bytes)
           a == Append(q.lua, Str(bytes))
<1>0. ParserTypes(q) /\ Nested(q) /\ Held(q, 0) /\ DOMAIN q = Fields /\ IsSeq(q.lua)
    BY DEF Context, ParserTypes
<1>1. /\ n \in Nat /\ n > 0 /\ Len(q.lua) \in Nat
      /\ Count(Front(q.stack), "OBJECT") \in Nat
    BY Sizes
<1>m. (Mode(q) = "DONE" => n = 1) /\ (Mode(q) # "DONE" => n > 1)
    BY Sizes, Zenon
<1>2. /\ n > 1 /\ Len(q.lua) = 2 * n - 3 + 0
      /\ \A i \in Nat : 2 * i + 1 <= Len(q.lua) => q.lua[2 * i + 1][1] = "tab"
      /\ q.key_lvl = Count(Front(q.stack), "OBJECT") + 0
    <2>1. n > 1
        BY <1>m, Zenon
    <2>2. QED
        BY <1>0, <2>1, Zenon DEF Held
<1>3. Change(q, r, {"lua", "key_lvl"}) /\ r.lua = a /\ r.key_lvl = q.key_lvl + 1
    BY <1>0 DEF Key, lua_push, Change, Fields
<1>4. /\ IsSeq(a) /\ Len(a) = Len(q.lua) + 1
      /\ \A i \in 1 .. Len(q.lua) : a[i] = q.lua[i]
    BY <1>0, LuaAppend
<1> HIDE DEF r, a
<1>5. /\ r.ok = q.ok /\ r.ub = q.ub /\ r.stack = q.stack /\ r.state_stack = q.state_stack
      /\ r.array_stack = q.array_stack /\ r.cur_state = q.cur_state /\ DOMAIN r = Fields
    BY <1>3 DEF Change, Fields
<1>6. ParserTypes(r)
    BY <1>0, <1>1, <1>2, <1>3, <1>4, <1>5 DEF ParserTypes
<1>7. Nested(r)
    BY <1>0, <1>5 DEF Nested, Mode
<1>8. ASSUME NEW i \in Nat, 2 * i + 1 <= Len(r.lua)
      PROVE  r.lua[2 * i + 1][1] = "tab"
    <2> HIDE DEF n
    <2>1. 2 * i + 1 <= Len(q.lua) /\ 2 * i + 1 \in 1 .. Len(q.lua)
        BY <1>1, <1>2, <1>3, <1>4, <1>8
    <2>2. QED
        BY <1>2, <1>3, <1>4, <2>1
<1>9. Held(r, 1)
    <2>1. /\ Len(r.stack) \in Nat /\ Len(r.stack) > 1 /\ 1 \in {0, 1}
          /\ r.key_lvl = Count(Front(r.stack), "OBJECT") + 1
          /\ Len(r.lua) = 2 * Len(r.stack) - 3 + 1
        BY <1>1, <1>2, <1>3, <1>4, <1>5
    <2>2. QED
        BY <1>8, <2>1, HeldInside, Zenon
<1>10. QED
    BY <1>3, <1>6, <1>7, <1>9 DEF Context, r

\* The innermost container becomes a value of the one around it.
LEMMA Closed ==
    ASSUME NEW q, Context(q, 0), Mode(q) # "DONE",
           NEW x, DOMAIN x = Fields, x.ok = q.ok, x.ub = q.ub, x.lua = q.lua,
           x.key_lvl = q.key_lvl, x.stack = q.stack,
           x.cur_state = Last(q.state_stack), x.state_stack = Front(q.state_stack),
           IsSeq(x.array_stack),
           Len(x.array_stack) = Len(q.array_stack) - IF Mode(q) = "ARRAY" THEN 1 ELSE 0,
           NEW r, r = [Enclose(x) EXCEPT !.stack = Front(@)]
    PROVE  /\ Enclose(x).ok = TRUE /\ Enclose(x).ub = FALSE /\ DOMAIN Enclose(x) = Fields
           /\ Enclose(x).stack = q.stack
           /\ Context(r, 0) /\ Mode(r) \in {"DONE", "OBJECT", "ARRAY"}
           /\ Change(x, Enclose(x), {"lua", "key_lvl"})
           /\ Mode(r) = "DONE" => Len(r.lua) = 1
<1> DEFINE n == Len(q.stack)
           m == Len(q.stack) - 1
           z == Enclose(x)
           h == [x EXCEPT !.stack = Front(@)]
<1>0. ParserTypes(q) /\ Nested(q) /\ Held(q, 0) /\ x.ok = TRUE /\ x.ub = FALSE /\ IsSeq(x.lua)
    BY DEF Context, ParserTypes
<1>1. /\ n \in Nat /\ n > 0 /\ Len(q.lua) \in Nat
      /\ Count(q.stack, "OBJECT") = Count(Front(q.stack), "OBJECT") + IF Mode(q) = "OBJECT" THEN 1 ELSE 0
      /\ Count(Front(q.stack), "OBJECT") \in Nat
    BY Sizes
<1>m. (Mode(q) = "DONE" => n = 1) /\ (Mode(q) # "DONE" => n > 1)
    BY Sizes, Zenon
<1>2. /\ n > 1 /\ Len(q.lua) = 2 * n - 3 + 0
      /\ \A i \in Nat : 2 * i + 1 <= Len(q.lua) => q.lua[2 * i + 1][1] = "tab"
      /\ q.key_lvl = Count(Front(q.stack), "OBJECT") + 0
    <2>1. n > 1
        BY <1>m, Zenon
    <2>2. QED
        BY <1>0, <2>1, Zenon DEF Held
<1>3. h.stack = Front(q.stack) /\ Change(x, h, {"stack"})
    BY DEF Change, Fields
<1>4. /\ Nested(h) /\ h.stack \in Seq(Modes) /\ h.state_stack \in Seq(Kinds)
      /\ Len(h.stack) = m /\ Mode(h) # "KEY"
    <2>1. /\ h.cur_state = Last(q.state_stack) /\ h.state_stack = Front(q.state_stack)
          /\ h.array_stack = x.array_stack
        BY <1>3 DEF Change, Fields
    <2> HIDE DEF h
    <2>2. QED
        BY <1>0, <1>3, <2>1, PopNested
<1>b. (Mode(h) = "DONE" => m = 1) /\ (Mode(h) # "DONE" => m # 1)
    <2>1. /\ h.cur_state = Last(q.state_stack) /\ h.state_stack = Front(q.state_stack)
          /\ h.array_stack = x.array_stack
        BY <1>3 DEF Change, Fields
    <2> HIDE DEF h
    <2>2. Mode(h) = "DONE" <=> Len(h.stack) = 1
        BY <1>0, <1>3, <2>1, PopNested
    <2>3. QED
        BY <1>4, <2>2
<1> HIDE DEF h
<1>5. /\ Mode(h) \in Modes /\ x.cur_state = Kind(Mode(h)) /\ m \in Nat /\ m > 0
      /\ Count(h.stack, "OBJECT") = Count(Front(h.stack), "OBJECT") + IF Mode(h) = "OBJECT" THEN 1 ELSE 0
      /\ Count(Front(h.stack), "OBJECT") \in Nat
    <2>1. m \in Nat /\ m > 0
        BY <1>1, <1>2
    <2>2. Len(h.stack) > 0
        BY <1>4, <2>1
    <2>3. Last(h.stack) \in Modes /\ Front(h.stack) \in Seq(Modes)
        BY <1>4, <2>2, FrontLast, Zenon
    <2>4. Count(h.stack, "OBJECT") = Count(Front(h.stack), "OBJECT") + IF Last(h.stack) = "OBJECT" THEN 1 ELSE 0
        BY <1>4, <2>2, CountFront
    <2>5. Count(Front(h.stack), "OBJECT") \in Nat
        BY <2>3, CountNat DEF IsSeq
    <2>6. x.cur_state = Kind(Mode(h))
        BY <1>3, <1>4 DEF Nested, Change, Fields
    <2>7. QED
        BY <2>1, <2>3, <2>4, <2>5, <2>6 DEF Mode
<1>6. /\ Change(x, z, {"lua", "key_lvl"}) /\ IsSeq(z.lua)
      /\ Len(z.lua) = IF m = 1 THEN 1 ELSE 2 * m - 3
      /\ \A i \in Nat : 2 * i + 1 <= Len(z.lua) => z.lua[2 * i + 1][1] = "tab"
      /\ z.key_lvl = Count(Front(h.stack), "OBJECT")
    <2>1. CASE Mode(h) = "DONE"
        <3>1. z = x
            BY <1>5, <2>1 DEF Enclose, Kind
        <3> HIDE DEF z
        <3>2. m = 1 /\ Len(q.lua) = 1
            <4>1. m = 1
                BY <1>b, <2>1, Zenon
            <4>2. Len(q.lua) = 2 * (m + 1) - 3
                BY <1>1, <1>2
            <4> HIDE DEF m
            <4>3. QED
                BY <4>1, <4>2
        <3>3. z.key_lvl = Count(Front(h.stack), "OBJECT")
            BY <1>2, <1>3, <1>5, <2>1, <3>1
        <3>4. QED
            BY <1>0, <1>2, <2>1, <3>1, <3>2, <3>3 DEF Change
    <2>2. CASE Mode(h) # "DONE"
        <3> DEFINE y == lua_settable(x)
        <3>1. m > 1 /\ Len(x.lua) = 2 * m - 1
              /\ \A i \in Nat : 2 * i + 1 <= 2 * m - 3 => x.lua[2 * i + 1][1] = "tab"
            <4>1. m > 1
                <5>1. \A j \in Nat : j > 0 /\ j # 1 => j > 1
                    OBVIOUS
                <5>2. QED
                    BY <1>b, <1>5, <2>2, <5>1, Zenon
            <4>2. Len(x.lua) = 2 * m - 1
                BY <1>1, <1>2
            <4>3. \A i \in Nat : 2 * i + 1 <= 2 * m - 3 => x.lua[2 * i + 1][1] = "tab"
                BY <1>1, <1>2
            <4>4. QED
                BY <4>1, <4>2, <4>3
        <3>2. /\ Change(x, y, {"lua"}) /\ IsSeq(y.lua) /\ Len(y.lua) = 2 * m - 3
              /\ \A i \in Nat : 2 * i + 1 <= Len(y.lua) => y.lua[2 * i + 1][1] = "tab"
            <4> HIDE DEF m
            <4>1. QED
                BY <1>0, <1>5, <3>1, SetInto
        <3>3. CASE Mode(h) = "ARRAY"
            <4>1. z = y
                BY <1>5, <3>3 DEF Enclose, Kind
            <4>2. z.key_lvl = Count(Front(h.stack), "OBJECT")
                <5>1. y.key_lvl = x.key_lvl
                    BY <3>2 DEF Change, Fields
                <5> HIDE DEF y, z
                <5>2. QED
                    BY <1>2, <1>3, <1>5, <3>3, <4>1, <5>1
            <4>3. Change(x, z, {"lua", "key_lvl"})
                <5> HIDE DEF y, z
                <5>1. QED
                    BY <3>2, <4>1 DEF Change
            <4> HIDE DEF y, z, m
            <4>4. QED
                BY <3>1, <3>2, <4>1, <4>2, <4>3
        <3>4. CASE Mode(h) = "OBJECT"
            <4> DEFINE k == [x EXCEPT !.key_lvl = @ - 1]
            <4>1. x.key_lvl = Count(Front(h.stack), "OBJECT") + 1 /\ x.key_lvl > 0
                BY <1>2, <1>3, <1>5, <3>4
            <4>2. /\ DOMAIN k = Fields /\ Change(x, k, {"key_lvl"}) /\ k.lua = x.lua
                  /\ k.key_lvl = x.key_lvl - 1 /\ k.ok = TRUE
                BY <1>0 DEF Change, Fields
            <4>3. z = lua_settable(k)
                <5>1. WithKey(x) = k
                    BY <4>1 DEF WithKey
                <5>2. Enclose(x) = Then(WithKey(x), lua_settable)
                    BY <1>5, <3>4 DEF Enclose, Kind
                <5> HIDE DEF k
                <5>3. QED
                    BY <4>2, <5>1, <5>2 DEF Then
            <4> HIDE DEF k, z
            <4>4. /\ Change(k, z, {"lua"}) /\ IsSeq(z.lua) /\ Len(z.lua) = 2 * m - 3
                  /\ \A i \in Nat : 2 * i + 1 <= Len(z.lua) => z.lua[2 * i + 1][1] = "tab"
                <5> HIDE DEF m
                <5>1. /\ DOMAIN k = Fields /\ IsSeq(k.lua) /\ m \in Nat /\ m > 1
                      /\ Len(k.lua) = 2 * m - 1
                      /\ \A i \in Nat : 2 * i + 1 <= 2 * m - 3 => k.lua[2 * i + 1][1] = "tab"
                    BY <1>0, <1>5, <3>1, <4>2
                <5>2. QED
                    BY <4>3, <5>1, SetInto, Zenon
            <4>5. Change(x, z, {"lua", "key_lvl"}) /\ z.key_lvl = x.key_lvl - 1
                BY <4>2, <4>4 DEF Change, Fields
            <4>6. z.key_lvl = Count(Front(h.stack), "OBJECT")
                BY <1>5, <4>1, <4>5
            <4> HIDE DEF m
            <4>7. QED
                BY <3>1, <4>4, <4>5, <4>6
        <3>5. QED
            BY <1>4, <1>5, <2>2, <3>3, <3>4 DEF Modes
    <2>3. QED
        BY <2>1, <2>2
<1> HIDE DEF z
<1>7. /\ DOMAIN z = Fields /\ z.ok = TRUE /\ z.ub = FALSE /\ z.stack = q.stack
      /\ z.cur_state = h.cur_state /\ z.state_stack = h.state_stack
      /\ z.array_stack = h.array_stack
    BY <1>0, <1>3, <1>6 DEF Change, Fields
<1>8. /\ DOMAIN r = Fields /\ r.ok = TRUE /\ r.ub = FALSE /\ r.stack = h.stack
      /\ r.cur_state = h.cur_state /\ r.state_stack = h.state_stack
      /\ r.array_stack = h.array_stack /\ r.lua = z.lua /\ r.key_lvl = z.key_lvl
    <2>1. r = [z EXCEPT !.stack = Front(@)]
        BY DEF z
    <2>2. QED
        BY <1>3, <1>7, <2>1 DEF Fields
<1>9. ParserTypes(r)
    <2>1. IsSeq(r.array_stack)
        BY <1>3, <1>8 DEF Change, Fields
    <2>2. QED
        BY <1>4, <1>5, <1>6, <1>8, <2>1 DEF ParserTypes
<1>10. Nested(r) /\ Mode(r) = Mode(h)
    BY <1>4, <1>8, SMTT(60) DEF Nested, Mode
<1>11. Held(r, 0)
    <2>1. /\ Len(r.stack) = m /\ r.key_lvl = Count(Front(r.stack), "OBJECT") + 0
          /\ \A i \in Nat : 2 * i + 1 <= Len(r.lua) => r.lua[2 * i + 1][1] = "tab"
        BY <1>4, <1>5, <1>6, <1>8
    <2>2. CASE m = 1
        <3>1. Len(r.stack) = 1 /\ Len(r.lua) = 1
            BY <1>6, <1>8, <2>1, <2>2
        <3>2. QED
            BY <2>1, <3>1, HeldOutside, Zenon
    <2>3. CASE m # 1
        <3>1. /\ Len(r.stack) \in Nat /\ Len(r.stack) > 1 /\ 0 \in {0, 1}
              /\ Len(r.lua) = 2 * Len(r.stack) - 3 + 0
            <4> HIDE DEF m
            <4>1. m \in Nat /\ m > 1
                BY <1>5, <2>3
            <4>2. QED
                BY <1>6, <1>8, <2>1, <2>3, <4>1
        <3>2. QED
            BY <2>1, <3>1, HeldInside, Zenon
    <2>4. QED
        BY <2>2, <2>3
<1>12. Context(r, 0)
    BY <1>9, <1>10, <1>11 DEF Context
<1>13. Mode(r) \in {"DONE", "OBJECT", "ARRAY"} /\ (Mode(r) = "DONE" => Len(r.lua) = 1)
    <2>a. Mode(r) \in Modes
        BY <1>12, Sizes, Zenon
    <2>1. Mode(h) = "DONE" => Len(z.lua) = 1
        BY <1>b, <1>6
    <2>2. QED
        BY <1>4, <1>8, <1>10, <2>a, <2>1 DEF Modes
<1>14. QED
    BY <1>6, <1>7, <1>12, <1>13, Zenon DEF z

-----------------------------------------------------------------------------
StringStates == {"ST", "ES", "U1", "U2", "U3", "U4", "D1", "D2"}
NumberStates == {"MI", "ZE", "IT", "FR", "E1", "E2", "E3", "FX"}
WordStates == {"T1", "T2", "T3", "F1", "F2", "F3", "F4", "N1", "N2", "N3"}
Literal == NumberStates \cup WordStates
\* The states between the tokens, but for OK.
Between == {"GO", "OB", "KE", "CO", "VA", "AR"}
States == Between \cup {"OK"} \cup StringStates \cup Literal
\* A value may end here.
Ended == {"OK", "ZE", "IT", "FR", "E3", "FX"}
BracketClasses == {"LCURB", "RCURB", "LSQRB", "RSQRB"}

\* The rows of the table.
LEMMA TableStates == DOMAIN state_transition_table = States
BY DEF state_transition_table, States, Between, StringStates, Literal, NumberStates, WordStates

\* A lookup that does not reject found an entry of the row.
LEMMA FromRow ==
    ASSUME NEW s, NEW k, Lookup(s, k) # "__"
    PROVE  \E e \in state_transition_table[s] : k \in e[1] /\ Lookup(s, k) = e[2]
BY DEF Lookup

Quiet(k) == k # "QUOTE" /\ k \notin BracketClasses

\* The entries of the table that are states.
LEMMA Transitions ==
    ASSUME NEW s \in States, NEW k, Lookup(s, k) \in States
    PROVE  \/ s \in Between /\ Lookup(s, k) = s /\ Quiet(k)
           \/ s = "OK" /\ Lookup(s, k) = s /\ Quiet(k)
           \/ s \in Literal /\ Lookup(s, k) \in Literal \cup {"OK"} /\ Quiet(k)
           \/ s \in {"ST", "U1", "U2", "U3"} /\ Lookup(s, k) \in {"ST", "U2", "U3", "U4"}
              /\ k \notin {"QUOTE", "BACKS"}
           \/ s = "ES" /\ Lookup(s, k) \in {"ST", "U1"}
           \/ s = "D1" /\ Lookup(s, k) = "D2" /\ k = "BACKS"
           \/ s = "D2" /\ Lookup(s, k) = "U1"
BY FromRow, TableStates DEF state_transition_table, AfterValue, BeforeValue, Quiet, BracketClasses, Blank, Digit, Exponent, Hex, Escapable, States, Between, StringStates, Literal, NumberStates, WordStates

\* The entries of the table that are actions, and the rows and classes they are in.
LEMMA Actions ==
    ASSUME NEW s \in States, NEW k, Lookup(s, k) \notin States \cup {"__"}
    PROVE  \/ Lookup(s, k) = "UC" /\ s = "U4" /\ k \notin {"QUOTE", "BACKS"}
           \/ Lookup(s, k) = "EX" /\ s = "ST" /\ k = "BACKS"
           \/ Lookup(s, k) = "-4" /\ s = "ST" /\ k = "QUOTE"
           \/ Lookup(s, k) = "SB" /\ s \in {"OB", "KE", "VA", "AR"} /\ k = "QUOTE"
           \/ Lookup(s, k) \in {"MX", "ZX", "IX", "NU", "FA", "TR"} /\ s \in {"VA", "AR"} /\ Quiet(k)
           \/ Lookup(s, k) \in {"DE", "DF"} /\ s \in {"ZE", "IT"} /\ Quiet(k)
           \/ Lookup(s, k) = "-9" /\ s = "OB" /\ k = "RCURB"
           \/ Lookup(s, k) = "-8" /\ s \in Ended /\ k = "RCURB"
           \/ Lookup(s, k) = "-7" /\ s \in Ended \cup {"AR"} /\ k = "RSQRB"
           \/ Lookup(s, k) = "-6" /\ s \in {"GO", "VA", "AR"} /\ k = "LCURB"
           \/ Lookup(s, k) = "-5" /\ s \in {"GO", "VA", "AR"} /\ k = "LSQRB"
           \/ Lookup(s, k) = "-3" /\ s \in Ended /\ Quiet(k)
           \/ Lookup(s, k) = "-2" /\ s = "CO" /\ Quiet(k)
BY FromRow, TableStates DEF state_transition_table, AfterValue, BeforeValue, Quiet, BracketClasses, Blank, Digit, Exponent, Hex, Escapable, States, Between, StringStates, Literal, NumberStates, WordStates, Ended

\* Only the characters that open and close something have their classes.
LEMMA Special ==
    ASSUME NEW c \in 1 .. 127
    PROVE  /\ ascii_class(c) = "QUOTE" => c = 34
           /\ ascii_class(c) = "BACKS" => c = 92
           /\ ascii_class(c) = "LSQRB" => c = 91
           /\ ascii_class(c) = "RSQRB" => c = 93
           /\ ascii_class(c) = "LCURB" => c = 123
           /\ ascii_class(c) = "RCURB" => c = 125
BY ZenonT(60) DEF ascii_class, Quote, Backslash

\* The classes of the characters that open and close something.
LEMMA SpecialClasses ==
    /\ ascii_class(34) = "QUOTE" /\ ascii_class(92) = "BACKS"
    /\ ascii_class(91) = "LSQRB" /\ ascii_class(93) = "RSQRB"
    /\ ascii_class(123) = "LCURB" /\ ascii_class(125) = "RCURB"
BY DEF ascii_class, Quote, Backslash

-----------------------------------------------------------------------------
\* The operations on the parse buffer change nothing else.
LEMMA Buffers ==
    ASSUME NEW q, DOMAIN q = Fields, NEW c
    PROVE  /\ Change(q, parse_buffer_clear(q), {"buf"})
           /\ Change(q, parse_buffer_pop_back_char(q), {"buf"})
           /\ Change(q, parse_buffer_push_back_char(q, c), {"buf"})
BY DEF Change, Fields, parse_buffer_clear, parse_buffer_pop_back_char, parse_buffer_push_back_char

\* A character that is added changes the buffer and ends an escape.
LEMMA AddingChar ==
    ASSUME NEW q, DOMAIN q = Fields, q.ok = TRUE, NEW c, NEW k
    PROVE  /\ Change(q, add_char_to_parse_buffer(q, c, k), {"buf", "escaped", "ok"})
           /\ add_char_to_parse_buffer(q, c, k).ok \in BOOLEAN
<1>1. /\ Change(q, add_escaped_char_to_parse_buffer(q, c), {"buf", "escaped", "ok"})
      /\ add_escaped_char_to_parse_buffer(q, c).ok \in BOOLEAN
    BY DEF Change, Fields, add_escaped_char_to_parse_buffer, Fail
<1>2. Change(q, parse_buffer_push_back_char(q, c), {"buf"})
    BY Buffers
<1>3. parse_buffer_push_back_char(q, c).ok = TRUE
    BY <1>2 DEF Change, Fields
<1>4. add_char_to_parse_buffer(q, c, k) \in
        {add_escaped_char_to_parse_buffer(q, c), parse_buffer_push_back_char(q, c), q}
    BY DEF add_char_to_parse_buffer
<1>5. QED
    BY <1>1, <1>2, <1>3, <1>4 DEF Change

\* Decoding \uXXXX changes the buffer and the high surrogate, or rejects.
LEMMA DecodingUnicode ==
    ASSUME NEW q, DOMAIN q = Fields, q.ok = TRUE
    PROVE  Change(q, decode_unicode_char(q), {"buf", "high", "ok"}) /\ decode_unicode_char(q).ok \in BOOLEAN
<1>1. ASSUME NEW x, DOMAIN x = Fields, NEW uc, NEW trail
      PROVE  Change(x, Emit(x, uc, trail), {"buf"}) /\ Emit(x, uc, trail).ok = x.ok
    BY <1>1, Zenon DEF Change, Fields, Emit
<1> DEFINE uc == CodeUnit(q.buf)
           cut == [q EXCEPT !.buf = SubSeq(@, 1, Len(@) - 6)]
           pair == [cut EXCEPT !.high = 0]
           half == [cut EXCEPT !.high = uc]
           point == SurrogatePair(q.high, uc)
<1>2. /\ Change(q, cut, {"buf", "high", "ok"}) /\ Change(q, pair, {"buf", "high", "ok"})
      /\ Change(q, half, {"buf", "high", "ok"}) /\ Change(q, Fail(cut), {"buf", "high", "ok"})
    BY Zenon DEF Change, Fields, Fail
<1>a. cut.ok = TRUE /\ pair.ok = TRUE /\ half.ok = TRUE /\ Fail(cut).ok = FALSE
    BY Zenon DEF Fields, Fail
<1>3. decode_unicode_char(q) \in {Emit(pair, point, 3), Fail(cut), Emit(cut, uc, 0),
                                  Emit(cut, uc, 1), half, Emit(cut, uc, 2)}
    BY SMTT(20) DEF decode_unicode_char
<1> HIDE DEF uc, cut, pair, half, point
<1>4. /\ Emit(pair, point, 3).ok = TRUE /\ Emit(cut, uc, 0).ok = TRUE
      /\ Emit(cut, uc, 1).ok = TRUE /\ Emit(cut, uc, 2).ok = TRUE
    BY <1>1, <1>2, <1>a DEF Change
<1>5. decode_unicode_char(q).ok \in BOOLEAN
    BY <1>a, <1>3, <1>4
<1>6. QED
    BY <1>1, <1>2, <1>3, <1>5 DEF Change

\* After \uXXXX the string goes on, or the low surrogate is expected.
LEMMA ReadingUnicode ==
    ASSUME NEW q, DOMAIN q = Fields, q.ok = TRUE
    PROVE  /\ Change(q, UnicodeRead(q), {"buf", "high", "ok", "state"})
           /\ UnicodeRead(q).ok \in BOOLEAN
           /\ UnicodeRead(q).ok => UnicodeRead(q).state \in {"D1", "ST"}
<1> DEFINE r == decode_unicode_char(q)
<1>1. Change(q, r, {"buf", "high", "ok"}) /\ r.ok \in BOOLEAN
    BY DecodingUnicode
<1>2. UnicodeRead(q) = IF r.ok THEN Goto(r, IF r.high # 0 THEN "D1" ELSE "ST") ELSE r
    BY DEF UnicodeRead
<1> HIDE DEF r
<1>3. QED
    BY <1>1, <1>2 DEF Change, Fields, Goto

\* What the callbacks may change.
Inner == {"ok", "ub", "lua", "key_lvl", "cur_state", "state_stack", "array_idx", "array_stack", "buf"}

\* The callback for a value leaves the fields of the parser alone.
LEMMA ScalarChange ==
    ASSUME NEW q, DOMAIN q = Fields, NEW v
    PROVE  Change(q, Scalar(q, v), Inner)
<1>1. /\ Change(q, NextIndex(q), {"lua", "array_idx"})
      /\ Change(q, lua_push(q, v), {"lua"})
    BY Indexing, Pushing
<1>2. Change(NextIndex(q), lua_push(NextIndex(q), v), {"lua"})
    BY <1>1, Pushing DEF Change
<1>3. Change(lua_push(q, v), lua_settable(lua_push(q, v)), {"lua", "ok", "ub"})
    BY <1>1, Setting DEF Change
<1>4. Change(lua_push(NextIndex(q), v), lua_settable(lua_push(NextIndex(q), v)), {"lua", "ok", "ub"})
    BY <1>2, Setting DEF Change
<1>5. ASSUME NEW x, DOMAIN x = Fields
      PROVE  Change(x, WithKey(x), {"key_lvl", "ok"})
    BY <1>5 DEF Change, Fields, WithKey, Fail
<1>6. Change(lua_settable(lua_push(q, v)), WithKey(lua_settable(lua_push(q, v))), {"key_lvl", "ok"})
    BY <1>3, <1>5 DEF Change
<1>7. Change(q, lua_settable(lua_push(NextIndex(q), v)), Inner)
    BY <1>1, <1>2, <1>4 DEF Change, Inner
<1>8. Change(q, WithKey(lua_settable(lua_push(q, v))), Inner)
    BY <1>1, <1>3, <1>6 DEF Change, Inner
<1>9. Change(q, Fail(q), Inner)
    BY Failing DEF Change, Inner
<1>10. Scalar(q, v) \in {lua_settable(lua_push(NextIndex(q), v)),
                         WithKey(lua_settable(lua_push(q, v))), Fail(q)}
    BY DEF Scalar
<1>11. QED
    BY <1>7, <1>8, <1>9, <1>10

\* Setting a finished container into the one around it leaves them alone as well.
LEMMA EncloseChange ==
    ASSUME NEW q, DOMAIN q = Fields
    PROVE  Change(q, Enclose(q), Inner)
<1>1. Change(q, WithKey(q), {"key_lvl", "ok"})
    BY DEF Change, Fields, WithKey, Fail
<1>2. Change(WithKey(q), lua_settable(WithKey(q)), {"lua", "ok", "ub"})
    BY <1>1, Setting DEF Change
<1>3. Change(q, lua_settable(q), {"lua", "ok", "ub"})
    BY Setting
<1>4. Enclose(q) \in {lua_settable(WithKey(q)), WithKey(q), lua_settable(q), q}
    BY DEF Enclose, Then
<1>5. QED
    BY <1>1, <1>2, <1>3, <1>4 DEF Change, Inner

\* What the end of a container pops, and that it pops only that.
LEMMA PopChange ==
    ASSUME NEW q, DOMAIN q = Fields
    PROVE  /\ Change(q, PopState(q), Inner) /\ Change(q, PopIndex(q), Inner)
           /\ q.state_stack # <<>> =>
                 /\ Change(q, PopState(q), {"cur_state", "state_stack"})
                 /\ PopState(q).cur_state = Last(q.state_stack)
                 /\ PopState(q).state_stack = Front(q.state_stack)
           /\ q.array_stack # <<>> =>
                 /\ Change(q, PopIndex(q), {"array_idx", "array_stack"})
                 /\ PopIndex(q).array_stack = Front(q.array_stack)
<1>1. Change(q, Undefined(q), {"ok", "ub"})
    BY Failing
<1>2. Change(q, PopState(q), Inner)
    BY <1>1 DEF Change, Fields, Inner, PopState
<1>3. Change(q, PopIndex(q), Inner)
    BY <1>1 DEF Change, Fields, Inner, PopIndex
<1>4. ASSUME q.state_stack # <<>>
      PROVE  /\ Change(q, PopState(q), {"cur_state", "state_stack"})
             /\ PopState(q).cur_state = Last(q.state_stack)
             /\ PopState(q).state_stack = Front(q.state_stack)
    BY <1>4 DEF Change, Fields, PopState
<1>5. ASSUME q.array_stack # <<>>
      PROVE  /\ Change(q, PopIndex(q), {"array_idx", "array_stack"})
             /\ PopIndex(q).array_stack = Front(q.array_stack)
    BY <1>5 DEF Change, Fields, PopIndex
<1>6. QED
    BY <1>2, <1>3, <1>4, <1>5

\* The callbacks for the end of a container leave the fields of the parser alone.
LEMMA EndChange ==
    ASSUME NEW q, DOMAIN q = Fields
    PROVE  Change(q, ObjectEnd(q), Inner) /\ Change(q, ArrayEnd(q), Inner)
<1>1. \A x : DOMAIN x = Fields =>
         /\ Change(x, PopState(x), Inner) /\ Change(x, PopIndex(x), Inner)
         /\ Change(x, Enclose(x), Inner)
    BY PopChange, EncloseChange
<1> DEFINE a == PopState(q)
           b == PopIndex(a)
           d == IF a.ok THEN b ELSE a
<1>2. ObjectEnd(q) = IF a.ok THEN Enclose(a) ELSE a
    BY DEF ObjectEnd, Then
<1>3. ArrayEnd(q) = IF d.ok THEN Enclose(d) ELSE d
    BY DEF ArrayEnd, Then
<1>4. Change(q, a, Inner)
    BY <1>1
<1>5. Change(q, d, Inner)
    BY <1>1, <1>4 DEF Change
<1> HIDE DEF a, d
<1>6. QED
    BY <1>1, <1>2, <1>3, <1>4, <1>5 DEF Change

\* The type of a finished literal is handed over, if there is one.
LEMMA FlushChange ==
    ASSUME NEW q, DOMAIN q = Fields
    PROVE  Change(q, parse_parse_buffer(q), Inner)
<1> DEFINE x == IF q.type = "NONE" THEN q ELSE Scalar(q, LiteralValue(q))
<1>1. Change(q, x, Inner)
    BY ScalarChange, NoChange
<1>2. parse_parse_buffer(q) = IF x.ok THEN parse_buffer_clear(x) ELSE x
    BY DEF parse_parse_buffer, Then
<1> HIDE DEF x
<1>3. DOMAIN x = Fields
    BY <1>1 DEF Change
<1>4. Change(x, parse_buffer_clear(x), {"buf"})
    BY <1>3, Buffers
<1>5. QED
    BY <1>1, <1>2, <1>4 DEF Change, Inner

\* A closing bracket that does not match the innermost mode rejects.
LEMMA Mismatch ==
    ASSUME NEW q, DOMAIN q = Fields
    PROVE  /\ Mode(q) # "OBJECT" => ObjectClosed(q).ok = FALSE /\ DOMAIN ObjectClosed(q) = Fields
           /\ Mode(q) # "ARRAY" => ArrayClosed(q).ok = FALSE /\ DOMAIN ArrayClosed(q) = Fields
<1> DEFINE x == parse_buffer_pop_back_char(q)
           y == parse_parse_buffer(x)
<1>1. Change(q, y, Inner)
    <2>1. Change(q, x, {"buf"})
        BY Buffers
    <2> HIDE DEF x
    <2>2. Change(x, y, Inner)
        BY <2>1, FlushChange DEF Change
    <2>3. QED
        BY <2>1, <2>2 DEF Change, Inner
<1>2. /\ ObjectClosed(q) = Close(y, ObjectEnd, "OBJECT")
      /\ ArrayClosed(q) = Close(y, ArrayEnd, "ARRAY")
    BY DEF ObjectClosed, ArrayClosed
<1> HIDE DEF y
<1>3. y.stack = q.stack /\ DOMAIN y = Fields
    BY <1>1 DEF Change, Inner, Fields
<1>4. ASSUME Mode(q) # "OBJECT"
      PROVE  ObjectClosed(q).ok = FALSE /\ DOMAIN ObjectClosed(q) = Fields
    <2> DEFINE z == IF y.ok THEN ObjectEnd(y) ELSE y
               e == IF z.ok THEN pop(z, "OBJECT") ELSE z
    <2>1. Change(y, z, Inner)
        BY <1>3, EndChange, NoChange
    <2>2. ObjectClosed(q) = IF e.ok THEN Typed(e, "NONE", "OK") ELSE e
        BY <1>2 DEF Close, Then
    <2> HIDE DEF z
    <2>3. Last(z.stack) # "OBJECT" /\ DOMAIN z = Fields
        BY <1>3, <1>4, <2>1 DEF Change, Inner, Fields, Mode
    <2>4. pop(z, "OBJECT") = Fail(z)
        BY <2>3 DEF pop
    <2>5. Fail(z).ok = FALSE /\ DOMAIN Fail(z) = Fields
        BY <2>3, Failing DEF Change
    <2>6. e.ok = FALSE /\ DOMAIN e = Fields
        <3>1. CASE z.ok
            BY <3>1, <2>4, <2>5
        <3>2. CASE ~z.ok
            BY <3>2, <2>3
        <3>3. QED
            BY <3>1, <3>2
    <2> HIDE DEF e
    <2>7. QED
        BY <2>2, <2>6
<1>5. ASSUME Mode(q) # "ARRAY"
      PROVE  ArrayClosed(q).ok = FALSE /\ DOMAIN ArrayClosed(q) = Fields
    <2> DEFINE z == IF y.ok THEN ArrayEnd(y) ELSE y
               e == IF z.ok THEN pop(z, "ARRAY") ELSE z
    <2>1. Change(y, z, Inner)
        BY <1>3, EndChange, NoChange
    <2>2. ArrayClosed(q) = IF e.ok THEN Typed(e, "NONE", "OK") ELSE e
        BY <1>2 DEF Close, Then
    <2> HIDE DEF z
    <2>3. Last(z.stack) # "ARRAY" /\ DOMAIN z = Fields
        BY <1>3, <1>5, <2>1 DEF Change, Inner, Fields, Mode
    <2>4. pop(z, "ARRAY") = Fail(z)
        BY <2>3 DEF pop
    <2>5. Fail(z).ok = FALSE /\ DOMAIN Fail(z) = Fields
        BY <2>3, Failing DEF Change
    <2>6. e.ok = FALSE /\ DOMAIN e = Fields
        <3>1. CASE z.ok
            BY <3>1, <2>4, <2>5
        <3>2. CASE ~z.ok
            BY <3>2, <2>3
        <3>3. QED
            BY <3>1, <3>2
    <2> HIDE DEF e
    <2>7. QED
        BY <2>2, <2>6
<1>6. QED
    BY <1>4, <1>5

-----------------------------------------------------------------------------
\* A value is expected, or being read.
InValue(q, w) == (Mode(q) = "OBJECT" /\ w = 1) \/ (Mode(q) = "ARRAY" /\ w = 0)

\* What the state says of the mode, the literal in the buffer and the keys.
Position(q, w) ==
    \/ q.state = "GO" /\ q.type = "NONE" /\ Mode(q) = "DONE" /\ q.lua = <<>>
    \/ q.state \in {"OB", "KE"} /\ q.type = "NONE" /\ Mode(q) = "KEY" /\ w = 0
    \/ q.state = "CO" /\ q.type = "NONE" /\ Mode(q) = "KEY" /\ w = 1
    \/ q.state = "VA" /\ q.type = "NONE" /\ InValue(q, w)
    \/ q.state = "AR" /\ q.type = "NONE" /\ Mode(q) = "ARRAY" /\ w = 0
    \/ q.state \in StringStates /\ q.type = "STRING" /\ Mode(q) = "KEY" /\ w = 0
    \/ q.state \in StringStates /\ q.type = "STRING" /\ InValue(q, w)
    \/ q.state \in Literal \cup {"OK"} /\ q.type \notin {"NONE", "STRING"} /\ InValue(q, w)
    \/ q.state = "OK" /\ q.type = "NONE" /\ Mode(q) \in {"OBJECT", "ARRAY"} /\ w = 0
    \/ q.state = "OK" /\ q.type = "NONE" /\ Mode(q) = "DONE" /\ w = 0 /\ Len(q.lua) = 1

Bracket(mode) == IF mode = "ARRAY" THEN 91 ELSE 123

\* The reader of strings and brackets is where the parser is.
Scanned(q, s) ==
    /\ s \in [esc : BOOLEAN, str : BOOLEAN, open : Seq(Int)]
    /\ s.str <=> q.state \in StringStates
    /\ s.esc <=> q.state \in {"ES", "D2"}
    /\ Len(s.open) = Len(q.stack) - 1
    /\ \A i \in 1 .. Len(s.open) : s.open[i] = Bracket(q.stack[i + 1])

\* The parser after a character that it accepted, and one that it rejected.
Accepted(r, s) == \E w : Context(r, w) /\ Position(r, w) /\ Scanned(r, s)
Rejected(r, s, c) ==
    /\ DOMAIN r = Fields /\ r.ok = FALSE
    /\ r.ub = FALSE \/ (c \in {93, 125} /\ (s.open = <<>> \/ Last(s.open) # c - 2))

\* A step that touches neither of the stacks keeps the context.
LEMMA Keeps ==
    ASSUME NEW q, NEW w, Context(q, w), NEW r,
           Change(q, r, {"buf", "state", "type", "escaped", "high", "array_idx", "ok"}), r.ok = TRUE
    PROVE  Context(r, w) /\ r.stack = q.stack /\ r.lua = q.lua /\ Mode(r) = Mode(q)
<1>1. /\ DOMAIN r = Fields /\ r.ub = q.ub /\ r.stack = q.stack /\ r.lua = q.lua
      /\ r.state_stack = q.state_stack /\ r.array_stack = q.array_stack
      /\ r.key_lvl = q.key_lvl /\ r.cur_state = q.cur_state
    BY DEF Change, Fields
<1>2. Mode(r) = Mode(q)
    BY <1>1 DEF Mode
<1>3. ParserTypes(r)
    BY <1>1 DEF Context, ParserTypes
<1>4. Nested(r)
    BY <1>1, <1>2 DEF Context, Nested
<1>5. Held(r, w)
    BY <1>1 DEF Context, Held
<1>6. QED
    BY <1>1, <1>2, <1>3, <1>4, <1>5 DEF Context

\* The literal that ends before a comma or a bracket is handed over.
LEMMA Flush ==
    ASSUME NEW q, NEW w, Context(q, w),
           \/ q.type = "NONE" /\ w = 0
           \/ q.type # "NONE" /\ InValue(q, w)
    PROVE  /\ Context(parse_parse_buffer(q), 0)
           /\ Change(q, parse_parse_buffer(q), {"lua", "key_lvl", "array_idx", "buf"})
           /\ q.type = "NONE" => Change(q, parse_parse_buffer(q), {"buf"})
<1> DEFINE x == IF q.type = "NONE" THEN q ELSE Scalar(q, LiteralValue(q))
           r == parse_parse_buffer(q)
<1>0. DOMAIN q = Fields /\ q.ok = TRUE
    BY DEF Context, ParserTypes
<1>1. /\ Context(x, 0) /\ Change(q, x, {"lua", "key_lvl", "array_idx"})
      /\ q.type = "NONE" => x = q
    <2>1. CASE q.type = "NONE"
        BY <1>0, <2>1, NoChange
    <2>2. CASE q.type # "NONE"
        <3>1. x = Scalar(q, LiteralValue(q))
            BY <2>2
        <3>2. QED
            BY <2>2, <3>1, ScalarContext DEF InValue
    <2>3. QED
        BY <2>1, <2>2
<1>2. r = IF x.ok THEN parse_buffer_clear(x) ELSE x
    BY DEF parse_parse_buffer, Then
<1> HIDE DEF x, r
<1>3. DOMAIN x = Fields /\ x.ok = TRUE
    BY <1>1 DEF Context, ParserTypes
<1>4. r = parse_buffer_clear(x) /\ Change(x, r, {"buf"})
    BY <1>2, <1>3, Buffers
<1>5. r.ok = TRUE
    BY <1>3, <1>4 DEF Change, Fields
<1>6. Change(x, r, {"buf", "state", "type", "escaped", "high", "array_idx", "ok"})
    BY <1>4, ChangeMore
<1>7. Context(r, 0)
    BY <1>1, <1>5, <1>6, Keeps
<1>8. Change(q, r, {"lua", "key_lvl", "array_idx", "buf"})
    BY <1>1, <1>4 DEF Change
<1>9. q.type = "NONE" => Change(q, r, {"buf"})
    BY <1>1, <1>4
<1>10. QED
    BY <1>7, <1>8, <1>9 DEF r

-----------------------------------------------------------------------------
ScannedTypes == [esc : BOOLEAN, str : BOOLEAN, open : Seq(Int)]

\* What the reader of strings and brackets makes of a character.
LEMMA ScanCases ==
    ASSUME NEW s \in ScannedTypes, NEW c \in 1 .. 127
    PROVE  /\ s.esc => ScanNext(s, c) = [s EXCEPT !.esc = FALSE]
           /\ ~s.esc /\ s.str /\ c = 92 => ScanNext(s, c) = [s EXCEPT !.esc = TRUE]
           /\ ~s.esc /\ c = 34 => ScanNext(s, c) = [s EXCEPT !.str = ~s.str]
           /\ ~s.esc /\ s.str /\ c \notin {34, 92} => ScanNext(s, c) = s
           /\ ~s.esc /\ ~s.str /\ c \notin {34, 91, 93, 123, 125} => ScanNext(s, c) = s
           /\ ~s.esc /\ ~s.str /\ c \in {91, 123} =>
                 ScanNext(s, c) = [s EXCEPT !.open = Append(@, c)]
           /\ ~s.esc /\ ~s.str /\ c \in {93, 125} /\ s.open # <<>> =>
                 ScanNext(s, c) = [s EXCEPT !.open = Front(@)]
BY DEF ScanNext, Quote, Backslash

\* The reader stays with the parser when no bracket opens or closes.
LEMMA SameBrackets ==
    ASSUME NEW q, NEW s, Scanned(q, s), NEW r, r.stack = q.stack,
           NEW esc \in BOOLEAN, NEW str \in BOOLEAN, NEW t,
           t = [esc |-> esc, str |-> str, open |-> s.open],
           str <=> r.state \in StringStates, esc <=> r.state \in {"ES", "D2"}
    PROVE  Scanned(r, t)
BY Zenon DEF Scanned

\* The fields of the reader.
LEMMA ScannedRecord ==
    ASSUME NEW s \in ScannedTypes
    PROVE  /\ s = [esc |-> s.esc, str |-> s.str, open |-> s.open]
           /\ \A b : [s EXCEPT !.esc = b] = [esc |-> b, str |-> s.str, open |-> s.open]
           /\ \A b : [s EXCEPT !.str = b] = [esc |-> s.esc, str |-> b, open |-> s.open]
           /\ \A b : [s EXCEPT !.open = b] = [esc |-> s.esc, str |-> s.str, open |-> b]
BY DEF ScannedTypes

\* A character of a class that is quiet is neither a quote nor a bracket.
LEMMA QuietChar ==
    ASSUME NEW c \in 1 .. 127, Quiet(ascii_class(c))
    PROVE  c \notin {34, 91, 93, 123, 125}
BY SpecialClasses DEF Quiet, BracketClasses

\* What a character leaves unchanged in the eyes of the reader.
LEMMA QuietScan ==
    ASSUME NEW q, NEW s, Scanned(q, s), NEW c \in 1 .. 127, NEW r, r.stack = q.stack,
           \/ Quiet(ascii_class(c)) /\ q.state \notin StringStates /\ r.state \notin StringStates
           \/ ascii_class(c) \notin {"QUOTE", "BACKS"} /\ q.state \in StringStates \ {"ES", "D2"}
              /\ r.state \in StringStates \ {"ES", "D2"}
    PROVE  Scanned(r, ScanNext(s, c))
<1>1. s \in ScannedTypes /\ s.esc = FALSE /\ s.esc \in BOOLEAN /\ s.str \in BOOLEAN
    BY DEF Scanned, ScannedTypes, StringStates
<1>2. /\ s.str <=> r.state \in StringStates
      /\ s.esc <=> r.state \in {"ES", "D2"}
    BY <1>1 DEF Scanned, StringStates
<1>3. ScanNext(s, c) = s
    <2>1. CASE s.str
        <3>1. c \notin {34, 92}
            BY <2>1, SpecialClasses DEF Scanned
        <3>2. QED
            BY <1>1, <2>1, <3>1, ScanCases
    <2>2. CASE ~s.str
        <3>1. c \notin {34, 91, 93, 123, 125}
            BY <2>2, QuietChar DEF Scanned
        <3>2. QED
            BY <1>1, <2>2, <3>1, ScanCases
    <2>3. QED
        BY <2>1, <2>2
<1>4. s = [esc |-> s.esc, str |-> s.str, open |-> s.open]
    BY <1>1, ScannedRecord
<1>5. QED
    BY <1>1, <1>2, <1>3, <1>4, SameBrackets, Zenon

\* Going to a state changes the state, and the type if it is given.
LEMMA SmallChanges ==
    ASSUME NEW q, NEW w, Context(q, w), NEW t, NEW y
    PROVE  /\ Change(q, Goto(q, y), {"state"}) /\ Goto(q, y).state = y
           /\ Change(q, Typed(q, t, y), {"state", "type"})
           /\ Typed(q, t, y).state = y /\ Typed(q, t, y).type = t
BY DEF Context, ParserTypes, Change, Fields, Goto, Typed

\* The table gives a state: the literal or the string goes on.
LEMMA GotoStep ==
    ASSUME NEW q, NEW w, Context(q, w), Position(q, w), NEW s, Scanned(q, s),
           NEW c \in 1 .. 127, NEW y, y = Lookup(q.state, ascii_class(c)), y \in States
    PROVE  Accepted(Goto(q, y), ScanNext(s, c))
<1> DEFINE r == Goto(q, y)
           k == ascii_class(c)
<1>1. Change(q, r, {"state"}) /\ r.state = y
    BY SmallChanges
<1>2. r.ok = TRUE /\ r.type = q.type
    BY <1>1 DEF Change, Fields, Context, ParserTypes
<1>3. Context(r, w) /\ r.stack = q.stack /\ r.lua = q.lua /\ Mode(r) = Mode(q)
    <2>1. Change(q, r, {"buf", "state", "type", "escaped", "high", "array_idx", "ok"})
        BY <1>1, ChangeMore
    <2> HIDE DEF r
    <2>2. QED
        BY <1>2, <2>1, Keeps
<1> HIDE DEF r
<1>4. InValue(r, w) <=> InValue(q, w)
    BY <1>3 DEF InValue
<1>5. q.state \in States
    BY DEF Position, States, Between
<1>6. \/ q.state \in Between \cup {"OK"} /\ y = q.state /\ Quiet(k)
      \/ q.state \in Literal /\ y \in Literal \cup {"OK"} /\ Quiet(k)
      \/ q.state \in {"ST", "U1", "U2", "U3"} /\ y \in {"ST", "U2", "U3", "U4"}
         /\ k \notin {"QUOTE", "BACKS"}
      \/ q.state = "ES" /\ y \in {"ST", "U1"}
      \/ q.state = "D1" /\ y = "D2" /\ k = "BACKS"
      \/ q.state = "D2" /\ y = "U1"
    BY <1>5, Transitions
<1>7. Position(r, w)
    <2>1. CASE y = q.state
        BY <1>1, <1>2, <1>3, <1>4, <2>1 DEF Position
    <2>2. CASE q.state \in Literal /\ y \in Literal \cup {"OK"}
        <3>1. q.type \notin {"NONE", "STRING"} /\ InValue(q, w)
            BY <2>2 DEF Position, Literal, NumberStates, WordStates, StringStates
        <3>2. QED
            BY <1>1, <1>2, <1>4, <2>2, <3>1 DEF Position
    <2>3. CASE q.state \in StringStates /\ y \in StringStates
        <3>1. /\ q.type = "STRING"
              /\ (Mode(q) = "KEY" /\ w = 0) \/ InValue(q, w)
            BY <2>3 DEF Position, Literal, NumberStates, WordStates, StringStates
        <3>2. QED
            BY <1>1, <1>2, <1>3, <1>4, <2>3, <3>1 DEF Position
    <2>4. QED
        BY <1>6, <2>1, <2>2, <2>3 DEF StringStates
<1>8. Scanned(r, ScanNext(s, c))
    <2>0. s \in ScannedTypes /\ s.str \in BOOLEAN
        BY DEF Scanned, ScannedTypes
    <2>1. CASE \/ q.state \in Between \cup {"OK"} /\ y = q.state /\ Quiet(k)
               \/ q.state \in Literal /\ y \in Literal \cup {"OK"} /\ Quiet(k)
        <3>1. q.state \notin StringStates /\ y \notin StringStates
            BY <2>1 DEF Between, StringStates, Literal, NumberStates, WordStates
        <3>2. QED
            BY <1>1, <1>3, <2>1, <3>1, QuietScan
    <2>2. CASE q.state \in {"ST", "U1", "U2", "U3"} /\ y \in {"ST", "U2", "U3", "U4"}
               /\ k \notin {"QUOTE", "BACKS"}
        <3>1. q.state \in StringStates \ {"ES", "D2"} /\ y \in StringStates \ {"ES", "D2"}
            BY <2>2 DEF StringStates
        <3>2. QED
            BY <1>1, <1>3, <2>2, <3>1, QuietScan
    <2>3. CASE (q.state = "ES" /\ y \in {"ST", "U1"}) \/ (q.state = "D2" /\ y = "U1")
        <3>1. s.esc /\ s.str
            BY <2>3 DEF Scanned, StringStates
        <3>a. ScanNext(s, c) = [s EXCEPT !.esc = FALSE]
            BY <2>0, <3>1, ScanCases
        <3>2. ScanNext(s, c) = [esc |-> FALSE, str |-> s.str, open |-> s.open]
            BY <2>0, <3>a, ScannedRecord, Zenon
        <3>3. (s.str <=> y \in StringStates) /\ (FALSE <=> y \in {"ES", "D2"})
            BY <2>3, <3>1 DEF StringStates
        <3>4. QED
            BY <1>1, <1>3, <2>0, <3>2, <3>3, SameBrackets, ZenonT(60)
    <2>4. CASE q.state = "D1" /\ y = "D2" /\ k = "BACKS"
        <3>1. ~s.esc /\ s.str /\ c = 92
            BY <2>4, Special DEF Scanned, StringStates
        <3>a. ScanNext(s, c) = [s EXCEPT !.esc = TRUE]
            BY <2>0, <3>1, ScanCases
        <3>2. ScanNext(s, c) = [esc |-> TRUE, str |-> s.str, open |-> s.open]
            BY <2>0, <3>a, ScannedRecord, Zenon
        <3>3. (s.str <=> y \in StringStates) /\ (TRUE <=> y \in {"ES", "D2"})
            BY <2>4, <3>1 DEF StringStates
        <3>4. QED
            BY <1>1, <1>3, <2>0, <3>2, <3>3, SameBrackets, ZenonT(60)
    <2> HIDE DEF k
    <2>5. QED
        BY <1>6, <2>1, <2>2, <2>3, <2>4, Zenon
<1>9. QED
    BY <1>3, <1>7, <1>8 DEF Accepted, r

\* The fourth digit of \uXXXX.
LEMMA UnicodeStep ==
    ASSUME NEW q, NEW w, Context(q, w), Position(q, w), NEW s, Scanned(q, s),
           NEW c \in 1 .. 127, q.state = "U4", ascii_class(c) \notin {"QUOTE", "BACKS"}
    PROVE  Accepted(UnicodeRead(q), ScanNext(s, c)) \/ Rejected(UnicodeRead(q), s, c)
<1> DEFINE r == UnicodeRead(q)
<1>0. DOMAIN q = Fields /\ q.ub = FALSE /\ q.ok = TRUE
    BY DEF Context, ParserTypes
<1>1. /\ Change(q, r, {"buf", "high", "ok", "state"}) /\ (r.ok => r.state \in {"D1", "ST"})
      /\ r.ok \in BOOLEAN
    BY <1>0, ReadingUnicode
<1> HIDE DEF r
<1>3. CASE r.ok = FALSE
    BY <1>0, <1>1, <1>3 DEF Rejected, Change, Fields, r
<1>4. CASE r.ok = TRUE
    <2>1. Change(q, r, {"buf", "state", "type", "escaped", "high", "array_idx", "ok"})
        BY <1>1, ChangeMore
    <2>2. Context(r, w) /\ r.stack = q.stack /\ r.lua = q.lua /\ Mode(r) = Mode(q)
        BY <1>4, <2>1, Keeps
    <2>3. r.type = q.type /\ r.state \in {"D1", "ST"}
        BY <1>1, <1>4 DEF Change, Fields
    <2>4. /\ q.type = "STRING"
          /\ (Mode(q) = "KEY" /\ w = 0) \/ InValue(q, w)
        BY DEF Position, Literal, NumberStates, WordStates, StringStates
    <2>5. Position(r, w)
        BY <2>2, <2>3, <2>4 DEF Position, InValue, StringStates
    <2>6. q.state \in StringStates \ {"ES", "D2"} /\ r.state \in StringStates \ {"ES", "D2"}
        BY <2>3 DEF StringStates
    <2>7. Scanned(r, ScanNext(s, c))
        BY <2>2, <2>6, QuietScan
    <2>8. QED
        BY <2>2, <2>5, <2>7 DEF Accepted, r
<1>5. QED
    BY <1>1, <1>3, <1>4

\* A backslash in a string.
LEMMA EscapeStep ==
    ASSUME NEW q, NEW w, Context(q, w), Position(q, w), NEW s, Scanned(q, s),
           NEW c \in 1 .. 127, q.state = "ST", ascii_class(c) = "BACKS"
    PROVE  Accepted(Goto([q EXCEPT !.escaped = TRUE], "ES"), ScanNext(s, c))
<1> DEFINE r == Goto([q EXCEPT !.escaped = TRUE], "ES")
<1>0. DOMAIN q = Fields /\ q.ok = TRUE
    BY DEF Context, ParserTypes
<1>1. Change(q, r, {"escaped", "state"}) /\ r.state = "ES"
    BY <1>0 DEF Change, Fields, Goto
<1> HIDE DEF r
<1>2. Change(q, r, {"buf", "state", "type", "escaped", "high", "array_idx", "ok"})
    BY <1>1, ChangeMore
<1>3. r.ok = TRUE /\ r.type = q.type
    BY <1>0, <1>1 DEF Change, Fields
<1>4. Context(r, w) /\ r.stack = q.stack /\ r.lua = q.lua /\ Mode(r) = Mode(q)
    BY <1>2, <1>3, Keeps
<1>5. /\ q.type = "STRING"
      /\ (Mode(q) = "KEY" /\ w = 0) \/ InValue(q, w)
    BY DEF Position, Literal, NumberStates, WordStates, StringStates
<1>6. Position(r, w)
    BY <1>1, <1>3, <1>4, <1>5 DEF Position, InValue, StringStates
<1>7. s \in ScannedTypes /\ s.str \in BOOLEAN /\ s.str /\ ~s.esc /\ c = 92
    BY Special DEF Scanned, ScannedTypes, StringStates
<1>8. ScanNext(s, c) = [s EXCEPT !.esc = TRUE]
    BY <1>7, ScanCases
<1>9. ScanNext(s, c) = [esc |-> TRUE, str |-> s.str, open |-> s.open]
    BY <1>7, <1>8, ScannedRecord, Zenon
<1>10. (s.str <=> r.state \in StringStates) /\ (TRUE <=> r.state \in {"ES", "D2"})
    BY <1>1, <1>7 DEF StringStates
<1>11. Scanned(r, ScanNext(s, c))
    BY <1>4, <1>7, <1>9, <1>10, SameBrackets, ZenonT(60)
<1>12. QED
    BY <1>4, <1>6, <1>11 DEF Accepted, r

\* A number or a word starts, or a number becomes a float.
LEMMA LiteralStep ==
    ASSUME NEW q, NEW w, Context(q, w), Position(q, w), NEW s, Scanned(q, s),
           NEW c \in 1 .. 127, q.state \in {"VA", "AR", "ZE", "IT"}, Quiet(ascii_class(c)),
           NEW t, t \notin {"NONE", "STRING"}, NEW y \in Literal
    PROVE  Accepted(Typed(q, t, y), ScanNext(s, c))
<1> DEFINE r == Typed(q, t, y)
<1>1. Change(q, r, {"state", "type"}) /\ r.state = y /\ r.type = t
    BY SmallChanges
<1> HIDE DEF r
<1>2. Change(q, r, {"buf", "state", "type", "escaped", "high", "array_idx", "ok"})
    BY <1>1, ChangeMore
<1>3. r.ok = TRUE
    BY <1>1 DEF Change, Fields, Context, ParserTypes
<1>4. Context(r, w) /\ r.stack = q.stack /\ r.lua = q.lua /\ Mode(r) = Mode(q)
    BY <1>2, <1>3, Keeps
<1>5. InValue(q, w)
    BY DEF Position, InValue, Literal, NumberStates, WordStates, StringStates
<1>6. Position(r, w)
    BY <1>1, <1>4, <1>5 DEF Position, InValue
<1>7. q.state \notin StringStates /\ r.state \notin StringStates
    BY <1>1 DEF StringStates, Literal, NumberStates, WordStates
<1>8. Scanned(r, ScanNext(s, c))
    BY <1>4, <1>7, QuietScan
<1>9. QED
    BY <1>4, <1>6, <1>8 DEF Accepted, r

\* A quote that starts a string.
LEMMA StringStep ==
    ASSUME NEW q, NEW w, Context(q, w), Position(q, w), NEW s, Scanned(q, s),
           NEW c \in 1 .. 127, q.state \in {"OB", "KE", "VA", "AR"}, ascii_class(c) = "QUOTE"
    PROVE  Accepted(Typed(parse_buffer_clear(q), "STRING", "ST"), ScanNext(s, c))
<1> DEFINE r == Typed(parse_buffer_clear(q), "STRING", "ST")
<1>0. DOMAIN q = Fields /\ q.ok = TRUE
    BY DEF Context, ParserTypes
<1>1. Change(q, r, {"buf", "state", "type"}) /\ r.state = "ST" /\ r.type = "STRING"
    BY <1>0 DEF Change, Fields, Typed, parse_buffer_clear
<1> HIDE DEF r
<1>2. Change(q, r, {"buf", "state", "type", "escaped", "high", "array_idx", "ok"})
    BY <1>1, ChangeMore
<1>3. r.ok = TRUE
    BY <1>0, <1>1 DEF Change, Fields
<1>4. Context(r, w) /\ r.stack = q.stack /\ r.lua = q.lua /\ Mode(r) = Mode(q)
    BY <1>2, <1>3, Keeps
<1>5. (Mode(q) = "KEY" /\ w = 0) \/ InValue(q, w)
    BY DEF Position, InValue, Literal, NumberStates, WordStates, StringStates
<1>6. Position(r, w)
    BY <1>1, <1>4, <1>5 DEF Position, InValue, StringStates
<1>7. s \in ScannedTypes /\ s.esc \in BOOLEAN /\ ~s.str /\ ~s.esc /\ c = 34
    BY Special DEF Scanned, ScannedTypes, StringStates
<1>8. ScanNext(s, c) = [s EXCEPT !.str = ~s.str]
    BY <1>7, ScanCases
<1>9. ScanNext(s, c) = [esc |-> s.esc, str |-> ~s.str, open |-> s.open]
    BY <1>7, <1>8, ScannedRecord, Zenon
<1>10. (~s.str <=> r.state \in StringStates) /\ (s.esc <=> r.state \in {"ES", "D2"})
    BY <1>1, <1>7 DEF StringStates
<1>11. Scanned(r, ScanNext(s, c))
    BY <1>4, <1>7, <1>9, <1>10, SameBrackets, ZenonT(60)
<1>12. QED
    BY <1>4, <1>6, <1>11 DEF Accepted, r

\* The last character of the buffer belongs to what follows.
LEMMA PoppedBack ==
    ASSUME NEW q, NEW w, Context(q, w)
    PROVE  /\ Context(parse_buffer_pop_back_char(q), w)
           /\ Change(q, parse_buffer_pop_back_char(q), {"buf"})
           /\ Mode(parse_buffer_pop_back_char(q)) = Mode(q)
           /\ InValue(parse_buffer_pop_back_char(q), w) <=> InValue(q, w)
<1> DEFINE x == parse_buffer_pop_back_char(q)
<1>0. DOMAIN q = Fields /\ q.ok = TRUE
    BY DEF Context, ParserTypes
<1>1. Change(q, x, {"buf"})
    BY <1>0, Buffers
<1> HIDE DEF x
<1>2. Change(q, x, {"buf", "state", "type", "escaped", "high", "array_idx", "ok"}) /\ x.ok = TRUE
    BY <1>0, <1>1, ChangeMore DEF Change, Fields
<1>3. Context(x, w) /\ Mode(x) = Mode(q)
    BY <1>2, Keeps
<1>4. InValue(x, w) <=> InValue(q, w)
    BY <1>3 DEF InValue
<1>5. QED
    BY <1>1, <1>3, <1>4 DEF x

\* The quote that ends a string: a key, or a value.
LEMMA StringEndStep ==
    ASSUME NEW q, NEW w, Context(q, w), Position(q, w), NEW s, Scanned(q, s),
           NEW c \in 1 .. 127, q.state = "ST", ascii_class(c) = "QUOTE"
    PROVE  Accepted(StringEnd(q), ScanNext(s, c))
<1> DEFINE x == parse_buffer_pop_back_char(q)
           r == StringEnd(q)
<1>1. /\ Context(x, w) /\ Change(q, x, {"buf"}) /\ Mode(x) = Mode(q)
      /\ InValue(x, w) <=> InValue(q, w)
    BY PoppedBack, Zenon
<1>2. r = CASE Mode(x) = "KEY" -> parse_buffer_clear(Typed(Key(x, x.buf), "NONE", "CO"))
            [] Mode(x) \in {"ARRAY", "OBJECT"} ->
                 Then(parse_parse_buffer(x), LAMBDA z : Typed(z, "NONE", "OK"))
            [] OTHER -> Fail(x)
    BY DEF StringEnd
<1> HIDE DEF x, r
<1>3. /\ x.stack = q.stack /\ x.type = "STRING"
      /\ (Mode(q) = "KEY" /\ w = 0) \/ InValue(q, w)
    BY <1>1 DEF Position, Literal, NumberStates, WordStates, StringStates, Change, Fields
<1>4. /\ r.stack = q.stack /\ r.state \in {"OK", "CO"}
      /\ \E v : Context(r, v) /\ Position(r, v)
    <2>1. CASE Mode(q) = "KEY" /\ w = 0
        <3> DEFINE y == Key(x, x.buf)
        <3>1. Context(y, 1) /\ Change(x, y, {"lua", "key_lvl"})
            BY <1>1, <2>1, KeyContext
        <3>2. r = parse_buffer_clear(Typed(y, "NONE", "CO"))
            BY <1>1, <1>2, <2>1
        <3> HIDE DEF y
        <3>3. DOMAIN y = Fields /\ y.ok = TRUE
            BY <3>1 DEF Context, ParserTypes
        <3>4. Change(y, r, {"state", "type", "buf"}) /\ r.state = "CO" /\ r.type = "NONE"
            BY <3>2, <3>3 DEF Change, Fields, Typed, parse_buffer_clear
        <3>5. Change(y, r, {"buf", "state", "type", "escaped", "high", "array_idx", "ok"}) /\ r.ok = TRUE
            BY <3>3, <3>4, ChangeMore DEF Change, Fields
        <3>6. Context(r, 1) /\ r.stack = y.stack /\ Mode(r) = Mode(y)
            BY <3>1, <3>5, Keeps
        <3>7. r.stack = q.stack
            BY <1>3, <3>1, <3>6 DEF Change, Fields
        <3>8. Mode(r) = "KEY"
            BY <2>1, <3>7 DEF Mode
        <3>9. Position(r, 1)
            BY <3>4, <3>8 DEF Position
        <3>10. QED
            BY <3>4, <3>6, <3>7, <3>9
    <2>2. CASE InValue(q, w)
        <3> DEFINE y == parse_parse_buffer(x)
        <3>1. Context(y, 0) /\ Change(x, y, {"lua", "key_lvl", "array_idx", "buf"})
            BY <1>1, <1>3, <2>2, Flush
        <3>a. DOMAIN y = Fields /\ y.ok = TRUE
            BY <3>1 DEF Context, ParserTypes
        <3>2. r = Typed(y, "NONE", "OK")
            <4>1. Mode(x) # "KEY" /\ Mode(x) \in {"ARRAY", "OBJECT"}
                BY <1>1, <2>2 DEF InValue
            <4>2. r = IF y.ok THEN Typed(y, "NONE", "OK") ELSE y
                BY <1>2, <4>1 DEF Then
            <4>3. QED
                BY <3>a, <4>2
        <3> HIDE DEF y
        <3>4. Change(y, r, {"state", "type"}) /\ r.state = "OK" /\ r.type = "NONE"
            BY <3>2, <3>1, SmallChanges
        <3>5. Change(y, r, {"buf", "state", "type", "escaped", "high", "array_idx", "ok"}) /\ r.ok = TRUE
            BY <3>a, <3>4, ChangeMore DEF Change, Fields
        <3>6. Context(r, 0) /\ r.stack = y.stack /\ Mode(r) = Mode(y)
            BY <3>1, <3>5, Keeps
        <3>7. r.stack = q.stack
            BY <1>3, <3>1, <3>6 DEF Change, Fields
        <3>8. Mode(r) \in {"OBJECT", "ARRAY"}
            BY <2>2, <3>7 DEF Mode, InValue
        <3>9. Position(r, 0)
            BY <3>4, <3>8 DEF Position
        <3>10. QED
            BY <3>4, <3>6, <3>7, <3>9
    <2>3. QED
        BY <1>3, <2>1, <2>2
<1>5. s \in ScannedTypes /\ s.esc \in BOOLEAN /\ s.str /\ ~s.esc /\ c = 34 /\ s.str = TRUE
    BY Special DEF Scanned, ScannedTypes, StringStates
<1>6. ScanNext(s, c) = [s EXCEPT !.str = ~s.str]
    BY <1>5, ScanCases
<1>7. ScanNext(s, c) = [esc |-> s.esc, str |-> ~s.str, open |-> s.open]
    BY <1>5, <1>6, ScannedRecord, Zenon
<1>8. (~s.str <=> r.state \in StringStates) /\ (s.esc <=> r.state \in {"ES", "D2"})
    BY <1>4, <1>5 DEF StringStates
<1>9. Scanned(r, ScanNext(s, c))
    BY <1>4, <1>5, <1>7, <1>8, SameBrackets, ZenonT(60)
<1>10. QED
    BY <1>4, <1>9 DEF Accepted, r

-----------------------------------------------------------------------------
\* The brackets follow the stack of modes.
LEMMA OpenScan ==
    ASSUME NEW q, NEW w, Context(q, w), NEW s, Scanned(q, s), q.state \notin StringStates,
           NEW c \in {91, 123}, NEW m \in Modes, c = Bracket(m),
           NEW r, r.stack = Append(q.stack, m), r.state \notin StringStates
    PROVE  Scanned(r, ScanNext(s, c))
<1> DEFINE n == Len(q.stack)
           o == Append(s.open, c)
<1>0. /\ s \in ScannedTypes /\ s.esc = FALSE /\ s.str = FALSE /\ s.open \in Seq(Int)
      /\ Len(s.open) = n - 1 /\ \A i \in 1 .. Len(s.open) : s.open[i] = Bracket(q.stack[i + 1])
    BY DEF Scanned, ScannedTypes, StringStates
<1>1. q.stack \in Seq(Modes) /\ n \in Nat /\ n > 0
    BY Sizes
<1>2. /\ Len(r.stack) = n + 1 /\ r.stack[n + 1] = m
      /\ \A i \in 1 .. n : r.stack[i] = q.stack[i]
    BY <1>1, AppendProperties
<1>3. /\ o \in Seq(Int) /\ Len(o) = Len(s.open) + 1 /\ o[Len(s.open) + 1] = c
      /\ \A i \in 1 .. Len(s.open) : o[i] = s.open[i]
    BY <1>0, AppendProperties
<1>4. ScanNext(s, c) = [s EXCEPT !.open = o]
    <2>1. c \in 1 .. 127
        OBVIOUS
    <2> HIDE DEF o
    <2>2. QED
        BY <1>0, <2>1, ScanCases DEF o
<1>5. ScanNext(s, c) = [esc |-> s.esc, str |-> s.str, open |-> o]
    BY <1>0, <1>4, ScannedRecord, Zenon
<1> HIDE DEF o
<1>6. Len(o) = n
    <2>1. Len(o) = (n - 1) + 1
        BY <1>0, <1>3
    <2>2. QED
        BY <1>1, <2>1
<1>7. ASSUME NEW i \in 1 .. Len(o) PROVE o[i] = Bracket(r.stack[i + 1])
    <2>1. CASE i = n
        <3>1. o[i] = c
            BY <1>0, <1>1, <1>3, <2>1
        <3>2. r.stack[i + 1] = m
            BY <1>2, <2>1
        <3>3. QED
            BY <3>1, <3>2
    <2>2. CASE i # n
        <3>1. i \in 1 .. Len(s.open) /\ i + 1 \in 1 .. n
            <4> HIDE DEF n
            <4>1. QED
                BY <1>0, <1>1, <1>6, <2>2
        <3>2. o[i] = s.open[i] /\ s.open[i] = Bracket(q.stack[i + 1])
            BY <1>0, <1>3, <3>1
        <3>3. r.stack[i + 1] = q.stack[i + 1]
            BY <1>2, <3>1
        <3>4. QED
            BY <3>2, <3>3
    <2>3. QED
        BY <2>1, <2>2
<1>8. r.state \notin {"ES", "D2"}
    BY DEF StringStates
<1> DEFINE t == ScanNext(s, c)
<1>9. t.esc = FALSE /\ t.str = FALSE /\ t.open = o /\ t \in ScannedTypes
    <2>1. t = [esc |-> FALSE, str |-> FALSE, open |-> o]
        BY <1>0, <1>5
    <2> HIDE DEF t
    <2>2. QED
        BY <1>3, <2>1 DEF ScannedTypes
<1> HIDE DEF t, n
<1>10. Len(t.open) = Len(r.stack) - 1
    BY <1>1, <1>2, <1>6, <1>9 DEF n
<1>11. Scanned(r, t)
    BY <1>7, <1>8, <1>9, <1>10 DEF Scanned, ScannedTypes
<1>12. QED
    BY <1>11 DEF t

\* FrontLast for the codes of the brackets.
LEMMA FrontInt ==
    ASSUME NEW u \in Seq(Int), Len(u) > 0
    PROVE  /\ Front(u) \in Seq(Int) /\ Len(Front(u)) = Len(u) - 1
           /\ \A i \in 1 .. Len(u) - 1 : Front(u)[i] = u[i]
BY FrontLast

\* FrontLast for the stack of modes.
LEMMA FrontModes ==
    ASSUME NEW u \in Seq(Modes), Len(u) > 0
    PROVE  /\ Front(u) \in Seq(Modes) /\ Len(Front(u)) = Len(u) - 1
           /\ \A i \in 1 .. Len(u) - 1 : Front(u)[i] = u[i]
<1> HIDE DEF Modes
<1> QED
    BY FrontLast

\* A closing bracket takes the last one away on both sides.
LEMMA CloseScan ==
    ASSUME NEW q, NEW w, Context(q, w), NEW s, Scanned(q, s), q.state \notin StringStates,
           Mode(q) # "DONE", NEW c \in {93, 125},
           NEW r, r.stack = Front(q.stack), r.state \notin StringStates
    PROVE  Scanned(r, ScanNext(s, c))
<1> DEFINE n == Len(q.stack)
           o == Front(s.open)
<1>0. /\ s \in ScannedTypes /\ s.esc = FALSE /\ s.str = FALSE /\ s.open \in Seq(Int)
      /\ Len(s.open) = n - 1 /\ \A i \in 1 .. Len(s.open) : s.open[i] = Bracket(q.stack[i + 1])
    BY DEF Scanned, ScannedTypes, StringStates
<1>1. q.stack \in Seq(Modes) /\ n \in Nat /\ n > 1 /\ Len(q.stack) > 0
    BY Sizes
<1>2. /\ Len(r.stack) = n - 1 /\ \A i \in 1 .. n - 1 : r.stack[i] = q.stack[i]
    <2> DEFINE k == Front(q.stack)
    <2>1. /\ k \in Seq(Modes) /\ Len(k) = Len(q.stack) - 1
          /\ \A i \in 1 .. Len(q.stack) - 1 : k[i] = q.stack[i]
        BY <1>1, FrontModes
    <2>2. r.stack = k
        OBVIOUS
    <2> HIDE DEF k
    <2>3. QED
        BY <2>1, <2>2
<1>a. Len(s.open) > 0 /\ s.open # <<>>
    BY <1>0, <1>1
<1>3. /\ o \in Seq(Int) /\ Len(o) = Len(s.open) - 1
      /\ \A i \in 1 .. Len(s.open) - 1 : o[i] = s.open[i]
    BY <1>0, <1>a, FrontInt
<1>4. ScanNext(s, c) = [s EXCEPT !.open = o]
    <2>1. c \in 1 .. 127
        OBVIOUS
    <2> HIDE DEF o
    <2>2. QED
        BY <1>0, <1>a, <2>1, ScanCases DEF o
<1>5. ScanNext(s, c) = [esc |-> s.esc, str |-> s.str, open |-> o]
    BY <1>0, <1>4, ScannedRecord, Zenon
<1> HIDE DEF o
<1>6. Len(o) = n - 2 /\ Len(s.open) = n - 1
    <2>1. Len(o) = (n - 1) - 1
        BY <1>0, <1>3
    <2>2. QED
        BY <1>0, <1>1, <2>1
<1>7. ASSUME NEW i \in 1 .. Len(o) PROVE o[i] = Bracket(r.stack[i + 1])
    <2>1. i \in 1 .. Len(s.open) /\ i \in 1 .. Len(s.open) - 1 /\ i + 1 \in 1 .. n - 1
        <3> HIDE DEF n
        <3>1. QED
            BY <1>1, <1>6
    <2>2. QED
        BY <1>0, <1>2, <1>3, <2>1
<1>8. r.state \notin {"ES", "D2"}
    BY DEF StringStates
<1> DEFINE t == ScanNext(s, c)
<1>9. t.esc = FALSE /\ t.str = FALSE /\ t.open = o /\ t \in ScannedTypes
    <2>1. t = [esc |-> FALSE, str |-> FALSE, open |-> o]
        BY <1>0, <1>5
    <2> HIDE DEF t
    <2>2. QED
        BY <1>3, <2>1 DEF ScannedTypes
<1> HIDE DEF t, n
<1>10. Len(t.open) = Len(r.stack) - 1
    BY <1>1, <1>2, <1>6, <1>9 DEF n
<1>11. Scanned(r, t)
    BY <1>7, <1>8, <1>9, <1>10 DEF Scanned, ScannedTypes
<1>12. QED
    BY <1>11 DEF t

\* A comma or a colon is no bracket.
LEMMA SwapScan ==
    ASSUME NEW q, NEW w, Context(q, w), NEW s, Scanned(q, s), q.state \notin StringStates,
           Mode(q) \in {"KEY", "OBJECT"}, NEW m \in {"KEY", "OBJECT"},
           NEW c \in 1 .. 127, Quiet(ascii_class(c)),
           NEW r, r.stack = Append(Front(q.stack), m), r.state \notin StringStates
    PROVE  Scanned(r, ScanNext(s, c))
<1> DEFINE n == Len(q.stack)
<1>0. /\ s \in ScannedTypes /\ s.esc = FALSE /\ s.str = FALSE /\ s.open \in Seq(Int)
      /\ Len(s.open) = n - 1 /\ \A i \in 1 .. Len(s.open) : s.open[i] = Bracket(q.stack[i + 1])
    BY DEF Scanned, ScannedTypes, StringStates
<1>1. q.stack \in Seq(Modes) /\ n \in Nat /\ n > 0 /\ m \in Modes
    BY Sizes DEF Modes
<1>2. /\ Front(q.stack) \in Seq(Modes) /\ Len(Front(q.stack)) = n - 1
      /\ \A i \in 1 .. n - 1 : Front(q.stack)[i] = q.stack[i]
      /\ Mode(q) = q.stack[n]
    BY <1>1, FrontLast, Zenon DEF Mode
<1>3. /\ Len(r.stack) = Len(Front(q.stack)) + 1 /\ r.stack[Len(Front(q.stack)) + 1] = m
      /\ \A i \in 1 .. Len(Front(q.stack)) : r.stack[i] = Front(q.stack)[i]
    BY <1>1, <1>2, AppendProperties
<1>4. /\ Len(r.stack) = n /\ r.stack[n] = m
      /\ \A i \in 1 .. n - 1 : r.stack[i] = q.stack[i]
    BY <1>1, <1>2, <1>3
<1>5. c \notin {34, 91, 93, 123, 125}
    BY QuietChar
<1>6. ScanNext(s, c) = s
    BY <1>0, <1>5, ScanCases
<1>7. ASSUME NEW i \in 1 .. Len(s.open) PROVE s.open[i] = Bracket(r.stack[i + 1])
    <2>1. s.open[i] = Bracket(q.stack[i + 1])
        BY <1>0
    <2>2. CASE i = n - 1
        <3>1. i + 1 = n
            BY <1>1, <2>2
        <3>2. Bracket(q.stack[n]) = Bracket(m)
            BY <1>2 DEF Bracket
        <3>3. QED
            BY <1>4, <2>1, <3>1, <3>2, Zenon
    <2>3. CASE i # n - 1
        <3>1. i + 1 \in 1 .. n - 1
            <4> HIDE DEF n
            <4>1. QED
                BY <1>0, <1>1, <2>3
        <3>2. QED
            BY <1>4, <2>1, <3>1
    <2>4. QED
        BY <2>2, <2>3
<1>8. s.esc <=> r.state \in {"ES", "D2"}
    BY <1>0 DEF StringStates
<1>9. Len(s.open) = Len(r.stack) - 1
    BY <1>0, <1>4
<1>10. s.str <=> r.state \in StringStates
    BY <1>0
<1>11. QED
    BY <1>0, <1>6, <1>7, <1>8, <1>9, <1>10, Zenon DEF Scanned, ScannedTypes

-----------------------------------------------------------------------------
\* Both callbacks push the index of the container and a new table.
LEMMA Begins ==
    ASSUME NEW x, NEW w, Context(x, w)
    PROVE  \E mid :
              /\ IF Mode(x) = "ARRAY" THEN \E v : mid = Append(x.lua, v) ELSE mid = x.lua
              /\ Change(x, ObjectBegin(x), {"lua", "array_idx", "state_stack", "cur_state"})
              /\ ObjectBegin(x).lua = Append(mid, NewTable) /\ ObjectBegin(x).cur_state = "TABLE"
              /\ ObjectBegin(x).state_stack = Append(x.state_stack, x.cur_state)
              /\ Change(x, ArrayBegin(x), {"lua", "array_idx", "state_stack", "cur_state", "array_stack"})
              /\ ArrayBegin(x).lua = Append(mid, NewTable) /\ ArrayBegin(x).cur_state = "ARRAY"
              /\ ArrayBegin(x).state_stack = Append(x.state_stack, x.cur_state)
              /\ \E i : ArrayBegin(x).array_stack = Append(x.array_stack, i)
<1> DEFINE y == NextIndex(x)
           z == lua_push(y, NewTable)
           mid == y.lua
<1>0. DOMAIN x = Fields /\ x.cur_state = Kind(Mode(x)) /\ Mode(x) \in Modes
    BY Sizes DEF Context, ParserTypes, Nested
<1>1. x.cur_state = "ARRAY" <=> Mode(x) = "ARRAY"
    BY <1>0 DEF Kind, Modes
<1>2. /\ Change(x, y, {"lua", "array_idx"})
      /\ x.cur_state # "ARRAY" => y = x
      /\ x.cur_state = "ARRAY" => \E v : y.lua = Append(x.lua, v)
    BY <1>0, Indexing
<1>3. IF Mode(x) = "ARRAY" THEN \E v : mid = Append(x.lua, v) ELSE mid = x.lua
    BY <1>1, <1>2
<1>4. Change(y, z, {"lua"}) /\ z.lua = Append(mid, NewTable)
    <2>1. DOMAIN y = Fields
        BY <1>2 DEF Change
    <2> HIDE DEF y
    <2>2. QED
        BY <2>1, Pushing
<1>5. /\ ObjectBegin(x) = [z EXCEPT !.state_stack = Append(@, z.cur_state), !.cur_state = "TABLE"]
      /\ ArrayBegin(x) = [z EXCEPT !.state_stack = Append(@, z.cur_state),
                                   !.cur_state = "ARRAY",
                                   !.array_stack = Append(@, Char(z.array_idx)),
                                   !.array_idx = 1]
    BY DEF ObjectBegin, ArrayBegin
<1> HIDE DEF y, z
<1>6. /\ DOMAIN z = Fields /\ \A f \in Fields \ {"lua", "array_idx"} : z[f] = x[f]
    BY <1>2, <1>4 DEF Change
<1>7. z.state_stack = x.state_stack /\ z.cur_state = x.cur_state /\ z.array_stack = x.array_stack
    BY <1>6 DEF Fields
<1>8. /\ Change(x, ObjectBegin(x), {"lua", "array_idx", "state_stack", "cur_state"})
      /\ ObjectBegin(x).lua = z.lua /\ ObjectBegin(x).cur_state = "TABLE"
      /\ ObjectBegin(x).state_stack = Append(x.state_stack, x.cur_state)
    <2> DEFINE o == ObjectBegin(x)
               st == Append(z.state_stack, z.cur_state)
    <2>1. o = [z EXCEPT !.state_stack = st, !.cur_state = "TABLE"] /\ st = Append(x.state_stack, x.cur_state)
        BY <1>5, <1>7
    <2> HIDE DEF o, st
    <2>2. /\ DOMAIN o = Fields /\ \A f \in Fields \ {"state_stack", "cur_state"} : o[f] = z[f]
          /\ o.lua = z.lua /\ o.cur_state = "TABLE" /\ o.state_stack = st
        BY <1>6, <2>1 DEF Fields
    <2>3. QED
        BY <1>6, <2>1, <2>2 DEF Change, o
<1>9. /\ Change(x, ArrayBegin(x), {"lua", "array_idx", "state_stack", "cur_state", "array_stack"})
      /\ ArrayBegin(x).lua = z.lua /\ ArrayBegin(x).cur_state = "ARRAY"
      /\ ArrayBegin(x).state_stack = Append(x.state_stack, x.cur_state)
      /\ ArrayBegin(x).array_stack = Append(x.array_stack, Char(z.array_idx))
    <2> DEFINE o == ArrayBegin(x)
               st == Append(z.state_stack, z.cur_state)
               ix == Append(z.array_stack, Char(z.array_idx))
    <2>1. /\ o = [z EXCEPT !.state_stack = st, !.cur_state = "ARRAY", !.array_stack = ix, !.array_idx = 1]
          /\ st = Append(x.state_stack, x.cur_state) /\ ix = Append(x.array_stack, Char(z.array_idx))
        BY <1>5, <1>7
    <2> HIDE DEF o, st, ix
    <2>2. /\ DOMAIN o = Fields
          /\ \A f \in Fields \ {"state_stack", "cur_state", "array_stack", "array_idx"} : o[f] = z[f]
          /\ o.lua = z.lua /\ o.cur_state = "ARRAY" /\ o.state_stack = st /\ o.array_stack = ix
        BY <1>6, <2>1 DEF Fields
    <2>3. QED
        BY <1>6, <2>1, <2>2 DEF Change, o
<1> HIDE DEF mid
<1>10. QED
    BY <1>3, <1>4, <1>8, <1>9, Zenon

\* A bracket that opens a container.
LEMMA OpenStep ==
    ASSUME NEW q, NEW w, Context(q, w), Position(q, w), NEW s, Scanned(q, s),
           q.state \in {"GO", "VA", "AR"}
    PROVE  /\ Accepted(ObjectOpened(q), ScanNext(s, 123))
           /\ Accepted(ArrayOpened(q), ScanNext(s, 91))
<1> DEFINE x == parse_buffer_pop_back_char(q)
<1>1. Context(x, w) /\ Change(q, x, {"buf"}) /\ Mode(x) = Mode(q)
    BY PoppedBack, Zenon
<1>2. ObjectOpened(q) = Goto(push(ObjectBegin(x), "KEY"), "OB")
    BY DEF ObjectOpened
<1>3. ArrayOpened(q) = Goto(push(ArrayBegin(x), "ARRAY"), "AR")
    BY DEF ArrayOpened
<1> HIDE DEF x
<1>4. PICK mid :
         /\ IF Mode(x) = "ARRAY" THEN \E v : mid = Append(x.lua, v) ELSE mid = x.lua
         /\ Change(x, ObjectBegin(x), {"lua", "array_idx", "state_stack", "cur_state"})
         /\ ObjectBegin(x).lua = Append(mid, NewTable) /\ ObjectBegin(x).cur_state = "TABLE"
         /\ ObjectBegin(x).state_stack = Append(x.state_stack, x.cur_state)
         /\ Change(x, ArrayBegin(x), {"lua", "array_idx", "state_stack", "cur_state", "array_stack"})
         /\ ArrayBegin(x).lua = Append(mid, NewTable) /\ ArrayBegin(x).cur_state = "ARRAY"
         /\ ArrayBegin(x).state_stack = Append(x.state_stack, x.cur_state)
         /\ \E i : ArrayBegin(x).array_stack = Append(x.array_stack, i)
    BY <1>1, Begins, Zenon
<1>5. /\ DOMAIN x = Fields /\ x.ok = TRUE /\ x.ub = FALSE /\ IsSeq(x.array_stack)
      /\ x.stack = q.stack /\ x.lua = q.lua /\ x.type = q.type
    BY <1>1 DEF Context, ParserTypes, Change, Fields
<1>6. /\ q.type = "NONE" /\ q.state \notin StringStates
      /\ (Mode(q) = "DONE" /\ q.lua = <<>>) \/ InValue(q, w)
    BY DEF Position, InValue, Literal, NumberStates, WordStates, StringStates
<1>7. MayStart(x, w)
    BY <1>1, <1>5, <1>6 DEF MayStart, InValue
<1>8. Accepted(ObjectOpened(q), ScanNext(s, 123))
    <2> DEFINE y == ObjectBegin(x)
               r == Goto(push(y, "KEY"), "OB")
    <2>1. /\ DOMAIN y = Fields /\ y.ok = TRUE /\ y.ub = FALSE /\ y.key_lvl = x.key_lvl
          /\ y.stack = x.stack /\ y.array_stack = x.array_stack /\ y.type = x.type
        BY <1>4, <1>5 DEF Change, Fields
    <2> HIDE DEF y
    <2>2. /\ DOMAIN r = Fields /\ r.ok = y.ok /\ r.ub = y.ub /\ r.key_lvl = y.key_lvl
          /\ r.stack = Append(y.stack, "KEY") /\ r.array_stack = y.array_stack
          /\ r.type = y.type /\ r.lua = y.lua /\ r.cur_state = y.cur_state
          /\ r.state_stack = y.state_stack /\ r.state = "OB"
        BY <2>1, Zenon DEF Goto, push, Fields
    <2>3. /\ r.lua = Append(mid, NewTable) /\ r.cur_state = "TABLE"
          /\ r.state_stack = Append(x.state_stack, x.cur_state)
        BY <1>4, <2>2 DEF y
    <2> HIDE DEF r
    <2>4. r.cur_state = Kind("KEY")
        BY <2>3 DEF Kind
    <2>5. r.stack = Append(x.stack, "KEY") /\ r.ok = x.ok /\ r.ub = x.ub /\ r.key_lvl = x.key_lvl
        BY <1>5, <2>1, <2>2
    <2>6. IsSeq(r.array_stack) /\ Len(r.array_stack) = Len(x.array_stack) + 0
        BY <1>5, <2>1, <2>2, LuaAppend
    <2>7. Context(r, 0) /\ Mode(r) = "KEY"
        BY <1>1, <1>4, <1>7, <2>2, <2>3, <2>4, <2>5, <2>6, Opened, ZenonT(60)
    <2>8. Position(r, 0)
        BY <1>5, <1>6, <2>1, <2>2, <2>7 DEF Position
    <2>9. Scanned(r, ScanNext(s, 123))
        <3>1. 123 = Bracket("KEY") /\ "KEY" \in Modes /\ r.state \notin StringStates
            BY <2>2 DEF Bracket, Modes, StringStates
        <3>2. r.stack = Append(q.stack, "KEY")
            BY <1>5, <2>5
        <3>3. QED
            BY <1>6, <3>1, <3>2, OpenScan
    <2>10. QED
        BY <1>2, <2>7, <2>8, <2>9 DEF Accepted, r, y
<1>9. Accepted(ArrayOpened(q), ScanNext(s, 91))
    <2> DEFINE y == ArrayBegin(x)
               r == Goto(push(y, "ARRAY"), "AR")
    <2>1. /\ DOMAIN y = Fields /\ y.ok = TRUE /\ y.ub = FALSE /\ y.key_lvl = x.key_lvl
          /\ y.stack = x.stack /\ y.type = x.type
        BY <1>4, <1>5 DEF Change, Fields
    <2> HIDE DEF y
    <2>2. /\ DOMAIN r = Fields /\ r.ok = y.ok /\ r.ub = y.ub /\ r.key_lvl = y.key_lvl
          /\ r.stack = Append(y.stack, "ARRAY") /\ r.array_stack = y.array_stack
          /\ r.type = y.type /\ r.lua = y.lua /\ r.cur_state = y.cur_state
          /\ r.state_stack = y.state_stack /\ r.state = "AR"
        BY <2>1, Zenon DEF Goto, push, Fields
    <2>3. /\ r.lua = Append(mid, NewTable) /\ r.cur_state = "ARRAY"
          /\ r.state_stack = Append(x.state_stack, x.cur_state)
          /\ \E i : r.array_stack = Append(x.array_stack, i)
        BY <1>4, <2>2 DEF y
    <2> HIDE DEF r
    <2>4. r.cur_state = Kind("ARRAY")
        BY <2>3 DEF Kind
    <2>5. r.stack = Append(x.stack, "ARRAY") /\ r.ok = x.ok /\ r.ub = x.ub /\ r.key_lvl = x.key_lvl
        BY <1>5, <2>1, <2>2
    <2>6. IsSeq(r.array_stack) /\ Len(r.array_stack) = Len(x.array_stack) + 1
        BY <1>5, <2>3, LuaAppend
    <2>7. Context(r, 0) /\ Mode(r) = "ARRAY"
        BY <1>1, <1>4, <1>7, <2>2, <2>3, <2>4, <2>5, <2>6, Opened, ZenonT(60)
    <2>8. Position(r, 0)
        BY <1>5, <1>6, <2>1, <2>2, <2>7 DEF Position
    <2>9. Scanned(r, ScanNext(s, 91))
        <3>1. 91 = Bracket("ARRAY") /\ "ARRAY" \in Modes /\ r.state \notin StringStates
            BY <2>2 DEF Bracket, Modes, StringStates
        <3>2. r.stack = Append(q.stack, "ARRAY")
            BY <1>5, <2>5
        <3>3. QED
            BY <1>6, <3>1, <3>2, OpenScan
    <2>10. QED
        BY <1>3, <2>7, <2>8, <2>9 DEF Accepted, r, y
<1>10. QED
    BY <1>8, <1>9

-----------------------------------------------------------------------------
\* A comma or a colon changes the innermost mode from object to key or back.
LEMMA Swapped ==
    ASSUME NEW q, NEW w, Context(q, w), Mode(q) \in {"KEY", "OBJECT"}, NEW m \in {"KEY", "OBJECT"},
           NEW r, Change(q, r, {"stack", "state", "type"}), r.stack = Append(Front(q.stack), m)
    PROVE  Context(r, w) /\ Mode(r) = m
<1>0. ParserTypes(q) /\ Nested(q) /\ Held(q, w)
    BY DEF Context
<1>1. /\ DOMAIN r = Fields /\ r.ok = q.ok /\ r.ub = q.ub /\ r.lua = q.lua /\ r.key_lvl = q.key_lvl
      /\ r.cur_state = q.cur_state /\ r.state_stack = q.state_stack /\ r.array_stack = q.array_stack
    BY DEF Change, Fields
<1>2. /\ Nested(r) /\ r.stack \in Seq(Modes)
      /\ Len(r.stack) = Len(q.stack) /\ Mode(r) = m /\ Front(r.stack) = Front(q.stack)
    BY <1>0, <1>1, SwapNested
<1>3. ParserTypes(r)
    BY <1>0, <1>1, <1>2 DEF ParserTypes
<1>4. Held(r, w)
    BY <1>0, <1>1, <1>2, Zenon DEF Held
<1>5. QED
    BY <1>2, <1>3, <1>4 DEF Context

\* The innermost mode is replaced.
LEMMA PopPush ==
    ASSUME NEW q, NEW w, Context(q, w), NEW m, Mode(q) = m, NEW k
    PROVE  /\ pop(q, m).ok = TRUE
           /\ Change(q, push(pop(q, m), k), {"stack"})
           /\ push(pop(q, m), k).stack = Append(Front(q.stack), k)
<1>a. q.stack \in Seq(Modes) /\ Len(q.stack) > 0
    BY Sizes, Zenon
<1>1. DOMAIN q = Fields /\ q.ok = TRUE /\ q.stack # <<>>
    BY <1>a DEF Context, ParserTypes
<1>2. pop(q, m) = [q EXCEPT !.stack = Front(@)]
    BY <1>1 DEF pop, Mode
<1>3. QED
    BY <1>1, <1>2 DEF push, Change, Fields

\* A colon behind a key.
LEMMA ColonStep ==
    ASSUME NEW q, NEW w, Context(q, w), Position(q, w), NEW s, Scanned(q, s),
           NEW c \in 1 .. 127, q.state = "CO", Quiet(ascii_class(c))
    PROVE  Accepted(Colon(q), ScanNext(s, c))
<1> DEFINE x == parse_buffer_pop_back_char(q)
           y == push(pop(x, "KEY"), "OBJECT")
           r == Goto(y, "VA")
<1>1. Context(x, w) /\ Change(q, x, {"buf"}) /\ Mode(x) = Mode(q)
    BY PoppedBack, Zenon
<1>2. q.type = "NONE" /\ Mode(q) = "KEY" /\ w = 1 /\ q.state \notin StringStates
    BY DEF Position, Literal, NumberStates, WordStates, StringStates
<1>3. pop(x, "KEY").ok = TRUE /\ Change(x, y, {"stack"}) /\ y.stack = Append(Front(x.stack), "OBJECT")
    <2> HIDE DEF x
    <2>1. QED
        BY <1>1, <1>2, PopPush
<1>4. Colon(q) = r
    <2>1. Colon(q) = IF pop(x, "KEY").ok THEN r ELSE pop(x, "KEY")
        BY DEF Colon, Then
    <2> HIDE DEF x, r
    <2>2. QED
        BY <1>3, <2>1
<1> HIDE DEF x, y
<1>5. Change(y, r, {"state"}) /\ r.state = "VA"
    BY <1>3 DEF Change, Fields, Goto
<1> HIDE DEF r
<1>6. Change(x, r, {"stack", "state", "type"}) /\ r.stack = Append(Front(x.stack), "OBJECT")
    BY <1>3, <1>5 DEF Change, Fields
<1>7. Context(r, 1) /\ Mode(r) = "OBJECT"
    BY <1>1, <1>2, <1>6, Swapped
<1>8. r.type = "NONE" /\ x.stack = q.stack
    BY <1>1, <1>2, <1>3, <1>5 DEF Change, Fields
<1>9. Position(r, 1)
    BY <1>5, <1>7, <1>8 DEF Position, InValue
<1>10. r.state \notin StringStates
    BY <1>5 DEF StringStates
<1>11. Scanned(r, ScanNext(s, c))
    BY <1>2, <1>6, <1>8, <1>10, SwapScan
<1>12. QED
    BY <1>4, <1>7, <1>9, <1>11 DEF Accepted

\* Where a value may have ended, the literal in the buffer can be handed over.
LEMMA Handed ==
    ASSUME NEW q, NEW w, Context(q, w), Position(q, w), q.state \in Ended \cup {"AR"}
    PROVE  LET y == parse_parse_buffer(parse_buffer_pop_back_char(q))
           IN  /\ Context(y, 0) /\ y.stack = q.stack /\ Mode(y) = Mode(q)
               /\ Mode(q) \in {"DONE", "OBJECT", "ARRAY"} /\ q.state \notin StringStates
<1> DEFINE x == parse_buffer_pop_back_char(q)
           y == parse_parse_buffer(x)
<1>1. /\ Context(x, w) /\ Change(q, x, {"buf"}) /\ Mode(x) = Mode(q)
      /\ InValue(x, w) <=> InValue(q, w)
    BY PoppedBack, Zenon
<1> HIDE DEF x
<1>2. /\ (q.type = "NONE" /\ w = 0) \/ (q.type # "NONE" /\ InValue(q, w))
      /\ Mode(q) \in {"DONE", "OBJECT", "ARRAY"} /\ q.state \notin StringStates
    BY DEF Position, InValue, Ended, Literal, NumberStates, WordStates, StringStates
<1>3. x.type = q.type /\ x.stack = q.stack
    BY <1>1 DEF Change, Fields
<1>4. Context(y, 0) /\ Change(x, y, {"lua", "key_lvl", "array_idx", "buf"})
    BY <1>1, <1>2, <1>3, Flush
<1> HIDE DEF y
<1>5. y.stack = q.stack /\ Mode(y) = Mode(q)
    BY <1>3, <1>4 DEF Change, Fields, Mode
<1>6. QED
    BY <1>2, <1>4, <1>5 DEF x, y

\* A comma behind a value.
LEMMA CommaStep ==
    ASSUME NEW q, NEW w, Context(q, w), Position(q, w), NEW s, Scanned(q, s),
           NEW c \in 1 .. 127, q.state \in Ended, Quiet(ascii_class(c))
    PROVE  Accepted(Comma(q), ScanNext(s, c)) \/ Rejected(Comma(q), s, c)
<1> DEFINE y == parse_parse_buffer(parse_buffer_pop_back_char(q))
           r == Comma(q)
<1>1. /\ Context(y, 0) /\ y.stack = q.stack /\ Mode(y) = Mode(q)
      /\ Mode(q) \in {"DONE", "OBJECT", "ARRAY"} /\ q.state \notin StringStates
    BY Handed, Zenon
<1>2. r = CASE ~y.ok -> y
            [] y.ok /\ Mode(y) = "OBJECT" -> Typed(push(pop(y, "OBJECT"), "KEY"), "NONE", "KE")
            [] y.ok /\ Mode(y) = "ARRAY" -> Typed(y, "NONE", "VA")
            [] OTHER -> Fail(y)
    BY DEF Comma
<1> HIDE DEF y, r
<1>3. DOMAIN y = Fields /\ y.ok = TRUE /\ y.ub = FALSE
    BY <1>1 DEF Context, ParserTypes
<1>4. CASE Mode(y) = "OBJECT"
    <2> DEFINE z == push(pop(y, "OBJECT"), "KEY")
    <2>1. r = Typed(z, "NONE", "KE")
        BY <1>2, <1>3, <1>4
    <2>2. Change(y, z, {"stack"}) /\ z.stack = Append(Front(y.stack), "KEY")
        BY <1>1, <1>4, PopPush
    <2> HIDE DEF z
    <2>3. Change(z, r, {"state", "type"}) /\ r.state = "KE" /\ r.type = "NONE"
        BY <2>1, <2>2 DEF Change, Fields, Typed
    <2>4. Change(y, r, {"stack", "state", "type"}) /\ r.stack = Append(Front(y.stack), "KEY")
        BY <2>2, <2>3 DEF Change, Fields
    <2>5. Context(r, 0) /\ Mode(r) = "KEY"
        BY <1>1, <1>4, <2>4, Swapped
    <2>6. Position(r, 0)
        BY <2>3, <2>5 DEF Position
    <2>7. r.state \notin StringStates
        BY <2>3 DEF StringStates
    <2>8. Scanned(r, ScanNext(s, c))
        BY <1>1, <1>4, <2>4, <2>7, SwapScan
    <2>9. QED
        BY <2>5, <2>6, <2>8 DEF Accepted, r
<1>5. CASE Mode(y) = "ARRAY"
    <2>1. r = Typed(y, "NONE", "VA")
        BY <1>2, <1>3, <1>5
    <2>2. Change(y, r, {"state", "type"}) /\ r.state = "VA" /\ r.type = "NONE"
        BY <1>1, <2>1, SmallChanges
    <2>3. Change(y, r, {"buf", "state", "type", "escaped", "high", "array_idx", "ok"}) /\ r.ok = TRUE
        BY <1>3, <2>2, ChangeMore DEF Change, Fields
    <2>4. Context(r, 0) /\ r.stack = q.stack /\ Mode(r) = "ARRAY"
        BY <1>1, <1>5, <2>3, Keeps
    <2>5. Position(r, 0)
        BY <2>2, <2>4 DEF Position, InValue
    <2>6. r.state \notin StringStates
        BY <2>2 DEF StringStates
    <2>7. Scanned(r, ScanNext(s, c))
        BY <1>1, <2>4, <2>6, QuietScan
    <2>8. QED
        BY <2>4, <2>5, <2>7 DEF Accepted, r
<1>6. CASE Mode(y) = "DONE"
    <2>1. r = Fail(y)
        BY <1>2, <1>3, <1>6
    <2>2. Change(y, r, {"ok"}) /\ r.ok = FALSE
        BY <1>3, <2>1, Failing
    <2>3. Rejected(r, s, c)
        BY <1>3, <2>2 DEF Rejected, Change, Fields
    <2>4. QED
        BY <2>3 DEF r
<1>7. QED
    BY <1>1, <1>4, <1>5, <1>6

-----------------------------------------------------------------------------
\* The bracket that is open last is the one of the innermost mode.
LEMMA LastBracket ==
    ASSUME NEW q, NEW w, Context(q, w), NEW s, Scanned(q, s)
    PROVE  /\ Mode(q) = "DONE" => s.open = <<>>
           /\ Mode(q) # "DONE" => Last(s.open) = Bracket(Mode(q))
<1> DEFINE n == Len(q.stack)
<1>1. /\ q.stack \in Seq(Modes) /\ n \in Nat /\ n > 0 /\ Len(q.stack) > 0
      /\ Mode(q) = "DONE" => n = 1
      /\ Mode(q) # "DONE" => n > 1
    BY Sizes, Zenon
<1>2. /\ s.open \in Seq(Int) /\ Len(s.open) = n - 1
      /\ \A i \in 1 .. Len(s.open) : s.open[i] = Bracket(q.stack[i + 1])
    BY DEF Scanned
<1>3. Mode(q) = q.stack[n]
    BY <1>1, FrontLast, Zenon DEF Mode
<1>4. ASSUME Mode(q) = "DONE" PROVE s.open = <<>>
    BY <1>1, <1>2, <1>4
<1>5. ASSUME Mode(q) # "DONE" PROVE Last(s.open) = Bracket(Mode(q))
    <2>1. n - 1 \in 1 .. Len(s.open) /\ (n - 1) + 1 = n
        BY <1>1, <1>2, <1>5
    <2>2. s.open[n - 1] = Bracket(q.stack[n])
        BY <1>2, <2>1
    <2>3. Last(s.open) = s.open[n - 1]
        BY <1>2 DEF Last
    <2>4. QED
        BY <1>3, <2>2, <2>3
<1>6. QED
    BY <1>4, <1>5

\* The container is set into the one around it, and its mode is popped.
LEMMA Finished ==
    ASSUME NEW q, Context(q, 0), Mode(q) # "DONE",
           NEW x, DOMAIN x = Fields, x.ok = q.ok, x.ub = q.ub, x.lua = q.lua,
           x.key_lvl = q.key_lvl, x.stack = q.stack,
           x.cur_state = Last(q.state_stack), x.state_stack = Front(q.state_stack),
           IsSeq(x.array_stack),
           Len(x.array_stack) = Len(q.array_stack) - IF Mode(q) = "ARRAY" THEN 1 ELSE 0
    PROVE  LET d == pop(Enclose(x), Mode(q))
               r == Typed(d, "NONE", "OK")
           IN  /\ Enclose(x).ok = TRUE /\ d.ok = TRUE
               /\ Context(r, 0) /\ Position(r, 0) /\ r.stack = Front(q.stack) /\ r.state = "OK"
<1> DEFINE e == Enclose(x)
           z == [e EXCEPT !.stack = Front(@)]
           r == Typed(z, "NONE", "OK")
<1>1. /\ e.ok = TRUE /\ e.ub = FALSE /\ DOMAIN e = Fields /\ e.stack = q.stack
      /\ Context(z, 0) /\ Mode(z) \in {"DONE", "OBJECT", "ARRAY"} /\ (Mode(z) = "DONE" => Len(z.lua) = 1)
    <2>1. z = [Enclose(x) EXCEPT !.stack = Front(@)]
        OBVIOUS
    <2> HIDE DEF z
    <2>2. /\ Enclose(x).ok = TRUE /\ Enclose(x).ub = FALSE /\ DOMAIN Enclose(x) = Fields
          /\ Enclose(x).stack = q.stack
          /\ Context(z, 0) /\ Mode(z) \in {"DONE", "OBJECT", "ARRAY"}
          /\ Mode(z) = "DONE" => Len(z.lua) = 1
        BY <2>1, Closed
    <2>3. QED
        BY <2>2
<1>2. q.stack \in Seq(Modes) /\ Len(q.stack) > 0
    BY Sizes, Zenon
<1>3. q.stack # <<>>
    BY <1>2
<1> HIDE DEF e
<1>4. pop(e, Mode(q)) = z
    BY <1>1, <1>3 DEF pop, Mode
<1>5. z.stack = Front(q.stack)
    BY <1>1 DEF Fields
<1> HIDE DEF z
<1>6. z.ok = TRUE /\ Mode(z) \in Modes
    BY <1>1, Sizes DEF Context, ParserTypes
<1>7. Change(z, r, {"state", "type"}) /\ r.state = "OK" /\ r.type = "NONE"
    BY <1>1, SmallChanges
<1> HIDE DEF r
<1>8. Change(z, r, {"buf", "state", "type", "escaped", "high", "array_idx", "ok"}) /\ r.ok = TRUE
    BY <1>6, <1>7, ChangeMore DEF Change, Fields
<1>9. Context(r, 0) /\ r.stack = z.stack /\ r.lua = z.lua /\ Mode(r) = Mode(z)
    BY <1>1, <1>8, Keeps
<1>10. Position(r, 0)
    BY <1>1, <1>6, <1>7, <1>9 DEF Position, Modes
<1>11. QED
    BY <1>1, <1>4, <1>5, <1>6, <1>7, <1>9, <1>10 DEF e, r

\* A bracket that matches the innermost mode ends the container.
LEMMA Closes ==
    ASSUME NEW q, Context(q, 0), Mode(q) # "DONE", NEW r,
           \/ Mode(q) # "ARRAY" /\ r = Close(q, ObjectEnd, Mode(q))
           \/ Mode(q) = "ARRAY" /\ r = Close(q, ArrayEnd, Mode(q))
    PROVE  Context(r, 0) /\ Position(r, 0) /\ r.stack = Front(q.stack) /\ r.state = "OK"
<1> DEFINE a == PopState(q)
           b == PopIndex(a)
<1>0. /\ DOMAIN q = Fields /\ q.ok = TRUE /\ q.state_stack \in Seq(Kinds) /\ IsSeq(q.array_stack)
      /\ Len(q.state_stack) = Len(q.stack) - 1
      /\ Len(q.array_stack) = Count(q.stack, "ARRAY")
    BY DEF Context, ParserTypes, Nested
<1>1. Len(q.stack) \in Nat /\ Len(q.stack) > 1 /\ q.stack \in Seq(Modes) /\ Len(q.stack) > 0
    BY Sizes, Zenon
<1>2. q.state_stack # <<>>
    BY <1>0, <1>1
<1>3. /\ Change(q, a, {"cur_state", "state_stack"})
      /\ a.cur_state = Last(q.state_stack) /\ a.state_stack = Front(q.state_stack)
    BY <1>0, <1>2, PopChange
<1> HIDE DEF a
<1>4. /\ DOMAIN a = Fields /\ a.ok = TRUE /\ a.ub = q.ub /\ a.lua = q.lua /\ a.ok = q.ok
      /\ a.key_lvl = q.key_lvl /\ a.stack = q.stack /\ a.array_stack = q.array_stack
    BY <1>0, <1>3 DEF Change, Fields
<1>5. CASE Mode(q) # "ARRAY"
    <2> DEFINE e == Enclose(a)
               d == pop(e, Mode(q))
    <2>1. Len(a.array_stack) = Len(q.array_stack) - 0
        BY <1>0, <1>4, LuaAppend
    <2>2. /\ e.ok = TRUE /\ d.ok = TRUE
          /\ Context(Typed(d, "NONE", "OK"), 0) /\ Position(Typed(d, "NONE", "OK"), 0)
          /\ Typed(d, "NONE", "OK").stack = Front(q.stack) /\ Typed(d, "NONE", "OK").state = "OK"
        BY <1>0, <1>3, <1>4, <1>5, <2>1, Finished
    <2>3. ObjectEnd(q) = IF a.ok THEN e ELSE a
        BY DEF ObjectEnd, Then, a
    <2> HIDE DEF e
    <2>4. ObjectEnd(q) = e
        BY <1>4, <2>3
    <2>5. r = Typed(d, "NONE", "OK")
        <3>1. r = Close(q, ObjectEnd, Mode(q))
            BY <1>5
        <3>2. Then(q, ObjectEnd) = e
            BY <1>0, <2>4 DEF Then
        <3>3. QED
            BY <2>2, <3>1, <3>2 DEF Close
    <2>6. QED
        BY <2>2, <2>5
<1>6. CASE Mode(q) = "ARRAY"
    <2> DEFINE e == Enclose(b)
               d == pop(e, Mode(q))
    <2>1. Len(q.array_stack) \in Nat /\ Len(q.array_stack) > 0
        <3>1. Count(q.stack, "ARRAY") = Count(Front(q.stack), "ARRAY") + 1
            BY <1>1, <1>6, CountFront DEF Mode
        <3>2. Front(q.stack) \in Seq(Modes)
            BY <1>1, FrontLast, Zenon
        <3>3. Count(Front(q.stack), "ARRAY") \in Nat
            BY <3>2, CountNat DEF IsSeq
        <3>4. QED
            BY <1>0, <3>1, <3>3
    <2>2. PICK S : q.array_stack \in Seq(S)
        BY <1>0 DEF IsSeq
    <2>3. /\ Front(q.array_stack) \in Seq(S) /\ Len(Front(q.array_stack)) = Len(q.array_stack) - 1
        BY <2>1, <2>2, FrontLast, Zenon
    <2>a. a.array_stack # <<>>
        BY <1>4, <2>1, <2>2
    <2>4. /\ Change(a, b, {"array_idx", "array_stack"})
          /\ b.array_stack = Front(a.array_stack)
        BY <1>4, <2>a, PopChange
    <2> HIDE DEF b
    <2>5. /\ DOMAIN b = Fields /\ b.ok = q.ok /\ b.ok = TRUE /\ b.ub = q.ub /\ b.lua = q.lua
          /\ b.key_lvl = q.key_lvl /\ b.stack = q.stack
          /\ b.cur_state = Last(q.state_stack) /\ b.state_stack = Front(q.state_stack)
        BY <1>3, <1>4, <2>4 DEF Change, Fields
    <2>6. IsSeq(b.array_stack) /\ Len(b.array_stack) = Len(q.array_stack) - 1
        BY <1>4, <2>3, <2>4, Zenon DEF IsSeq
    <2>7. /\ e.ok = TRUE /\ d.ok = TRUE
          /\ Context(Typed(d, "NONE", "OK"), 0) /\ Position(Typed(d, "NONE", "OK"), 0)
          /\ Typed(d, "NONE", "OK").stack = Front(q.stack) /\ Typed(d, "NONE", "OK").state = "OK"
        BY <1>6, <2>5, <2>6, Finished
    <2> HIDE DEF e
    <2>8. ArrayEnd(q) = e
        <3>1. Then(PopState(q), PopIndex) = b
            BY <1>4 DEF Then, a, b
        <3>2. ArrayEnd(q) = Then(b, Enclose)
            BY <3>1 DEF ArrayEnd
        <3>3. QED
            BY <2>5, <3>2 DEF Then, e
    <2>9. r = Typed(d, "NONE", "OK")
        <3>1. r = Close(q, ArrayEnd, Mode(q))
            BY <1>6
        <3>2. Then(q, ArrayEnd) = e
            BY <1>0, <2>8 DEF Then
        <3>3. QED
            BY <2>7, <3>1, <3>2 DEF Close
    <2>10. QED
        BY <2>7, <2>9
<1>7. QED
    BY <1>5, <1>6

\* A closing bracket: it ends the innermost container, or it is rejected,
\* and only a bracket that does not match can reach below the stacks.
LEMMA CloseStep ==
    ASSUME NEW q, NEW w, Context(q, w), Position(q, w), NEW s, Scanned(q, s)
    PROVE  /\ q.state \in Ended =>
                 Accepted(ObjectClosed(q), ScanNext(s, 125)) \/ Rejected(ObjectClosed(q), s, 125)
           /\ q.state \in Ended \cup {"AR"} =>
                 Accepted(ArrayClosed(q), ScanNext(s, 93)) \/ Rejected(ArrayClosed(q), s, 93)
<1> DEFINE y == parse_parse_buffer(parse_buffer_pop_back_char(q))
<1>0. /\ ObjectClosed(q) = Close(y, ObjectEnd, "OBJECT")
      /\ ArrayClosed(q) = Close(y, ArrayEnd, "ARRAY")
    BY DEF ObjectClosed, ArrayClosed
<1>1. ASSUME q.state \in Ended \cup {"AR"}
      PROVE  /\ Context(y, 0) /\ y.stack = q.stack /\ Mode(y) = Mode(q)
             /\ Mode(q) \in {"DONE", "OBJECT", "ARRAY"} /\ q.state \notin StringStates
    BY <1>1, Handed, Zenon
<1> HIDE DEF y
<1>2. DOMAIN q = Fields
    BY DEF Context, ParserTypes
<1>3. ASSUME q.state \in Ended
      PROVE  Accepted(ObjectClosed(q), ScanNext(s, 125)) \/ Rejected(ObjectClosed(q), s, 125)
    <2> DEFINE r == ObjectClosed(q)
    <2> HIDE DEF r
    <2>1. CASE Mode(q) = "OBJECT"
        <3>1. r = Close(y, ObjectEnd, "OBJECT")
            BY <1>0 DEF r
        <3>2. Context(r, 0) /\ Position(r, 0) /\ r.stack = Front(y.stack) /\ r.state = "OK"
            BY <1>1, <1>3, <2>1, <3>1, Closes
        <3>3. r.stack = Front(q.stack) /\ r.state \notin StringStates /\ q.state \notin StringStates
            BY <1>1, <1>3, <3>2 DEF StringStates
        <3>4. Scanned(r, ScanNext(s, 125))
            BY <2>1, <3>3, CloseScan
        <3>5. QED
            BY <3>2, <3>4 DEF Accepted, r
    <2>2. CASE Mode(q) # "OBJECT"
        <3>1. r.ok = FALSE /\ DOMAIN r = Fields
            BY <1>2, <2>2, Mismatch DEF r
        <3>2. s.open = <<>> \/ Last(s.open) # 125 - 2
            <4>1. CASE Mode(q) = "DONE"
                BY <4>1, LastBracket
            <4>2. CASE Mode(q) = "ARRAY"
                <5>1. Last(s.open) = 91
                    BY <4>2, LastBracket DEF Bracket
                <5>2. QED
                    BY <5>1
            <4>3. QED
                BY <1>1, <1>3, <2>2, <4>1, <4>2
        <3>3. QED
            BY <3>1, <3>2 DEF Rejected, r
    <2>3. QED
        BY <2>1, <2>2
<1>4. ASSUME q.state \in Ended \cup {"AR"}
      PROVE  Accepted(ArrayClosed(q), ScanNext(s, 93)) \/ Rejected(ArrayClosed(q), s, 93)
    <2> DEFINE r == ArrayClosed(q)
    <2> HIDE DEF r
    <2>1. CASE Mode(q) = "ARRAY"
        <3>1. r = Close(y, ArrayEnd, "ARRAY")
            BY <1>0 DEF r
        <3>2. Context(r, 0) /\ Position(r, 0) /\ r.stack = Front(y.stack) /\ r.state = "OK"
            BY <1>1, <1>4, <2>1, <3>1, Closes
        <3>3. r.stack = Front(q.stack) /\ r.state \notin StringStates /\ q.state \notin StringStates
            BY <1>1, <1>4, <3>2 DEF StringStates
        <3>4. Scanned(r, ScanNext(s, 93))
            BY <2>1, <3>3, CloseScan
        <3>5. QED
            BY <3>2, <3>4 DEF Accepted, r
    <2>2. CASE Mode(q) # "ARRAY"
        <3>1. r.ok = FALSE /\ DOMAIN r = Fields
            BY <1>2, <2>2, Mismatch DEF r
        <3>2. s.open = <<>> \/ Last(s.open) # 93 - 2
            <4>1. CASE Mode(q) = "DONE"
                BY <4>1, LastBracket
            <4>2. CASE Mode(q) = "OBJECT"
                <5>1. Last(s.open) = 123
                    BY <4>2, LastBracket DEF Bracket
                <5>2. QED
                    BY <5>1
            <4>3. QED
                BY <1>1, <1>4, <2>2, <4>1, <4>2
        <3>3. QED
            BY <3>1, <3>2 DEF Rejected, r
    <2>3. QED
        BY <2>1, <2>2
<1>5. QED
    BY <1>3, <1>4

\* {} closes the object whose first key was expected.
LEMMA EmptyObjectStep ==
    ASSUME NEW q, NEW w, Context(q, w), Position(q, w), NEW s, Scanned(q, s), q.state = "OB"
    PROVE  Accepted(EmptyObject(q), ScanNext(s, 125))
<1> DEFINE y == parse_buffer_clear(q)
           r == EmptyObject(q)
<1>0. DOMAIN q = Fields /\ q.ok = TRUE
    BY DEF Context, ParserTypes
<1>1. Mode(q) = "KEY" /\ w = 0 /\ q.state \notin StringStates
    BY DEF Position, Literal, NumberStates, WordStates, StringStates
<1>2. Change(q, y, {"buf"})
    BY <1>0, Buffers
<1>3. r = Close(y, ObjectEnd, "KEY")
    BY DEF EmptyObject
<1> HIDE DEF y, r
<1>4. Change(q, y, {"buf", "state", "type", "escaped", "high", "array_idx", "ok"}) /\ y.ok = TRUE
    BY <1>0, <1>2, ChangeMore DEF Change, Fields
<1>5. Context(y, 0) /\ y.stack = q.stack /\ Mode(y) = "KEY"
    BY <1>1, <1>4, Keeps
<1>6. Context(r, 0) /\ Position(r, 0) /\ r.stack = Front(y.stack) /\ r.state = "OK"
    BY <1>3, <1>5, Closes
<1>7. r.stack = Front(q.stack) /\ r.state \notin StringStates
    BY <1>5, <1>6 DEF StringStates
<1>8. Scanned(r, ScanNext(s, 125))
    BY <1>1, <1>7, CloseScan
<1>9. QED
    BY <1>6, <1>8 DEF Accepted, r

-----------------------------------------------------------------------------
\* One action of the table.
LEMMA PerformStep ==
    ASSUME NEW q, NEW w, Context(q, w), Position(q, w), NEW s, Scanned(q, s),
           NEW c \in 1 .. 127, NEW y, y = Lookup(q.state, ascii_class(c)), y \notin States
    PROVE  Accepted(Perform(q, y), ScanNext(s, c)) \/ Rejected(Perform(q, y), s, c)
<1> DEFINE k == ascii_class(c)
<1>0. q.state \in States
    BY DEF Position, States, Between
<1>1. /\ DOMAIN q = Fields /\ q.ok = TRUE /\ q.ub = FALSE
    BY DEF Context, ParserTypes
<1>2. CASE y = "__"
    <2>1. Perform(q, y) = Fail(q)
        BY <1>2 DEF Perform
    <2>2. Rejected(Fail(q), s, c)
        BY <1>1, Failing DEF Rejected, Change, Fields
    <2>3. QED
        BY <2>1, <2>2
<1>3. CASE y # "__"
    <2>0. \/ y = "UC" /\ q.state = "U4" /\ k \notin {"QUOTE", "BACKS"}
          \/ y = "EX" /\ q.state = "ST" /\ k = "BACKS"
          \/ y = "-4" /\ q.state = "ST" /\ k = "QUOTE"
          \/ y = "SB" /\ q.state \in {"OB", "KE", "VA", "AR"} /\ k = "QUOTE"
          \/ y \in {"MX", "ZX", "IX", "NU", "FA", "TR"} /\ q.state \in {"VA", "AR"} /\ Quiet(k)
          \/ y \in {"DE", "DF"} /\ q.state \in {"ZE", "IT"} /\ Quiet(k)
          \/ y = "-9" /\ q.state = "OB" /\ k = "RCURB"
          \/ y = "-8" /\ q.state \in Ended /\ k = "RCURB"
          \/ y = "-7" /\ q.state \in Ended \cup {"AR"} /\ k = "RSQRB"
          \/ y = "-6" /\ q.state \in {"GO", "VA", "AR"} /\ k = "LCURB"
          \/ y = "-5" /\ q.state \in {"GO", "VA", "AR"} /\ k = "LSQRB"
          \/ y = "-3" /\ q.state \in Ended /\ Quiet(k)
          \/ y = "-2" /\ q.state = "CO" /\ Quiet(k)
        <3>1. Lookup(q.state, k) \notin States \cup {"__"}
            BY <1>3
        <3> HIDE DEF k
        <3>2. QED
            BY <1>0, <3>1, Actions DEF k
    <2>1. CASE y = "UC" /\ q.state = "U4" /\ k \notin {"QUOTE", "BACKS"}
        <3>1. Perform(q, y) = UnicodeRead(q)
            BY <2>1 DEF Perform
        <3>2. QED
            BY <2>1, <3>1, UnicodeStep
    <2>2. CASE y = "EX" /\ q.state = "ST" /\ k = "BACKS"
        <3>1. Perform(q, y) = Goto([q EXCEPT !.escaped = TRUE], "ES")
            BY <2>2 DEF Perform
        <3>2. QED
            BY <2>2, <3>1, EscapeStep
    <2>3. CASE y = "-4" /\ q.state = "ST" /\ k = "QUOTE"
        <3>1. Perform(q, y) = StringEnd(q)
            BY <2>3 DEF Perform
        <3>2. QED
            BY <2>3, <3>1, StringEndStep
    <2>4. CASE y = "SB" /\ q.state \in {"OB", "KE", "VA", "AR"} /\ k = "QUOTE"
        <3>1. Perform(q, y) = Typed(parse_buffer_clear(q), "STRING", "ST")
            BY <2>4 DEF Perform
        <3>2. QED
            BY <2>4, <3>1, StringStep
    <2>5. CASE \/ y \in {"MX", "ZX", "IX", "NU", "FA", "TR"} /\ q.state \in {"VA", "AR"} /\ Quiet(k)
               \/ y \in {"DE", "DF"} /\ q.state \in {"ZE", "IT"} /\ Quiet(k)
        <3>1. PICK t \in {"INTEGER", "FLOAT", "NULL", "FALSE", "TRUE"}, z \in Literal :
                 Perform(q, y) = Typed(q, t, z)
            <4>1. /\ y = "MX" => Perform(q, y) = Typed(q, "INTEGER", "MI")
                  /\ y = "ZX" => Perform(q, y) = Typed(q, "INTEGER", "ZE")
                  /\ y = "IX" => Perform(q, y) = Typed(q, "INTEGER", "IT")
                  /\ y = "DE" => Perform(q, y) = Typed(q, "FLOAT", "E1")
                  /\ y = "DF" => Perform(q, y) = Typed(q, "FLOAT", "FX")
                  /\ y = "NU" => Perform(q, y) = Typed(q, "NULL", "N1")
                  /\ y = "FA" => Perform(q, y) = Typed(q, "FALSE", "F1")
                  /\ y = "TR" => Perform(q, y) = Typed(q, "TRUE", "T1")
                BY DEF Perform
            <4>2. {"MI", "ZE", "IT", "E1", "FX", "N1", "F1", "T1"} \subseteq Literal
                BY DEF Literal, NumberStates, WordStates
            <4>3. y \in {"MX", "ZX", "IX", "NU", "FA", "TR", "DE", "DF"}
                BY <2>5
            <4>4. QED
                BY <4>1, <4>2, <4>3
        <3>2. t \notin {"NONE", "STRING"}
            OBVIOUS
        <3>3. Quiet(k) /\ q.state \in {"VA", "AR", "ZE", "IT"}
            BY <2>5
        <3>4. QED
            BY <3>1, <3>2, <3>3, LiteralStep
    <2>6. CASE y = "-9" /\ q.state = "OB" /\ k = "RCURB"
        <3>1. Perform(q, y) = EmptyObject(q) /\ c = 125
            BY <2>6, Special DEF Perform
        <3>2. QED
            BY <2>6, <3>1, EmptyObjectStep
    <2>7. CASE y = "-8" /\ q.state \in Ended /\ k = "RCURB"
        <3>1. Perform(q, y) = ObjectClosed(q) /\ c = 125
            BY <2>7, Special DEF Perform
        <3>2. QED
            BY <2>7, <3>1, CloseStep
    <2>8. CASE y = "-7" /\ q.state \in Ended \cup {"AR"} /\ k = "RSQRB"
        <3>1. Perform(q, y) = ArrayClosed(q) /\ c = 93
            BY <2>8, Special DEF Perform
        <3>2. QED
            BY <2>8, <3>1, CloseStep
    <2>9. CASE y = "-6" /\ q.state \in {"GO", "VA", "AR"} /\ k = "LCURB"
        <3>1. Perform(q, y) = ObjectOpened(q) /\ c = 123
            BY <2>9, Special DEF Perform
        <3>2. QED
            BY <2>9, <3>1, OpenStep
    <2>10. CASE y = "-5" /\ q.state \in {"GO", "VA", "AR"} /\ k = "LSQRB"
        <3>1. Perform(q, y) = ArrayOpened(q) /\ c = 91
            BY <2>10, Special DEF Perform
        <3>2. QED
            BY <2>10, <3>1, OpenStep
    <2>11. CASE y = "-3" /\ q.state \in Ended /\ Quiet(k)
        <3>1. Perform(q, y) = Comma(q)
            BY <2>11 DEF Perform
        <3>2. QED
            BY <2>11, <3>1, CommaStep
    <2>12. CASE y = "-2" /\ q.state = "CO" /\ Quiet(k)
        <3>1. Perform(q, y) = Colon(q)
            BY <2>12 DEF Perform
        <3>2. QED
            BY <2>12, <3>1, ColonStep
    <2> HIDE DEF k
    <2>13. QED
        BY <2>0, <2>1, <2>2, <2>3, <2>4, <2>5, <2>6, <2>7, <2>8, <2>9, <2>10, <2>11, <2>12, Zenon
<1>4. QED
    BY <1>2, <1>3

\* One character.
LEMMA CharStep ==
    ASSUME NEW q, NEW s, Accepted(q, s), NEW c \in 1 .. 127
    PROVE  \/ Accepted(JSON_parser_char(q, c), ScanNext(s, c))
           \/ Rejected(JSON_parser_char(q, c), s, c)
<1> DEFINE k == ascii_class(c)
           x == add_char_to_parse_buffer(q, c, k)
           next == Lookup(q.state, k)
           r == JSON_parser_char(q, c)
<1>1. PICK w : Context(q, w) /\ Position(q, w) /\ Scanned(q, s)
    BY DEF Accepted
<1>2. DOMAIN q = Fields /\ q.ok = TRUE /\ q.ub = FALSE
    BY <1>1 DEF Context, ParserTypes
<1>3. CASE k = "__"
    <2>1. Fail(q).ok = FALSE /\ DOMAIN Fail(q) = Fields /\ Fail(q).ub = FALSE
        BY <1>2, Failing DEF Change, Fields
    <2>2. r = Fail(q)
        BY <1>3, <2>1 DEF JSON_parser_char
    <2>3. Rejected(r, s, c)
        BY <2>1, <2>2 DEF Rejected
    <2>4. QED
        BY <2>3
<1>4. CASE k # "__"
    <2>1. Change(q, x, {"buf", "escaped", "ok"}) /\ x.ok \in BOOLEAN
        BY <1>2, AddingChar
    <2>2. r = CASE ~x.ok -> x
                [] x.ok /\ next \in DOMAIN state_transition_table -> Goto(x, next)
                [] OTHER -> Perform(x, next)
        BY <1>4 DEF JSON_parser_char
    <2> HIDE DEF k, x, next, r
    <2>3. CASE x.ok = FALSE
        <3>1. r = x
            BY <2>2, <2>3
        <3>2. Rejected(r, s, c)
            BY <1>2, <2>1, <2>3, <3>1 DEF Rejected, Change, Fields
        <3>3. QED
            BY <3>2 DEF r
    <2>4. CASE x.ok = TRUE
        <3>1. Change(q, x, {"buf", "state", "type", "escaped", "high", "array_idx", "ok"})
            BY <2>1, ChangeMore
        <3>2. Context(x, w) /\ x.stack = q.stack /\ x.lua = q.lua /\ Mode(x) = Mode(q)
            BY <1>1, <2>4, <3>1, Keeps
        <3>3. x.state = q.state /\ x.type = q.type
            BY <2>1 DEF Change, Fields
        <3>4. Position(x, w)
            BY <1>1, <3>2, <3>3 DEF Position, InValue
        <3>5. Scanned(x, s)
            BY <1>1, <3>2, <3>3 DEF Scanned
        <3>6. next = Lookup(x.state, ascii_class(c))
            BY <3>3 DEF next, k
        <3>7. CASE next \in States
            <4>1. r = Goto(x, next)
                BY <2>2, <2>4, <3>7, TableStates
            <4>2. Accepted(r, ScanNext(s, c))
                BY <3>2, <3>4, <3>5, <3>6, <3>7, <4>1, GotoStep
            <4>3. QED
                BY <4>2 DEF r
        <3>8. CASE next \notin States
            <4>1. r = Perform(x, next)
                BY <2>2, <2>4, <3>8, TableStates
            <4>2. Accepted(r, ScanNext(s, c)) \/ Rejected(r, s, c)
                BY <3>2, <3>4, <3>5, <3>6, <3>8, <4>1, PerformStep
            <4>3. QED
                BY <4>2 DEF r
        <3>9. QED
            BY <3>7, <3>8
    <2>5. QED
        BY <2>1, <2>3, <2>4
<1>5. QED
    BY <1>3, <1>4

-----------------------------------------------------------------------------
\* Nothing is in the empty sequence.
LEMMA CountEmpty ==
    ASSUME NEW m
    PROVE  Count(<<>>, m) = 0
<1>1. Places(<<>>, m) = {}
    BY DEF Places
<1>2. QED
    BY <1>1, FS_EmptySet DEF Count

\* A new parser is in a state of the invariant.
LEMMA Fresh ==
    Accepted(new_JSON_parser, [esc |-> FALSE, str |-> FALSE, open |-> <<>>])
<1> DEFINE q == new_JSON_parser
           s == [esc |-> FALSE, str |-> FALSE, open |-> <<>>]
<1>1. /\ DOMAIN q = Fields
      /\ q.ok = TRUE /\ q.ub = FALSE /\ q.lua = <<>> /\ q.key_lvl = 0 /\ q.cur_state = "NONE"
      /\ q.state_stack = <<>> /\ q.array_stack = <<>>
      /\ q.state = "GO" /\ q.type = "NONE" /\ q.stack = <<"DONE">>
    BY DEF new_JSON_parser, luaT_json_parser_ctx_create, Fields
<1> HIDE DEF q
<1>2. /\ "DONE" \in Modes /\ q.stack \in Seq(Modes) /\ Len(q.stack) = 1 /\ q.stack[1] = "DONE"
    BY <1>1 DEF Modes
<1>3. Mode(q) = "DONE"
    BY <1>1 DEF Mode, Last
<1>4. Front(q.stack) = <<>>
    <2>1. Front(q.stack) \in Seq(Modes) /\ Len(Front(q.stack)) = 1 - 1
        BY <1>2, FrontLast
    <2>2. QED
        BY <2>1
<1>5. Count(Front(q.stack), "OBJECT") = 0 /\ Count(q.stack, "ARRAY") = 0
    <2>1. Count(q.stack, "ARRAY") = Count(Front(q.stack), "ARRAY") + 0
        BY <1>2, <1>3, CountFront DEF Mode
    <2>2. QED
        BY <1>4, <2>1, CountEmpty
<1>6. ParserTypes(q)
    <2>1. q.state_stack \in Seq(Kinds) /\ IsSeq(q.array_stack) /\ IsSeq(q.lua)
        BY <1>1 DEF IsSeq
    <2>2. QED
        BY <1>1, <1>2, <2>1 DEF ParserTypes
<1>7. Nested(q)
    BY <1>1, <1>2, <1>3, <1>5 DEF Nested, Kind
<1>8. Held(q, 0)
    BY <1>1, <1>2, <1>5 DEF Held
<1>9. Position(q, 0)
    BY <1>1, <1>3 DEF Position
<1>10. Scanned(q, s)
    BY <1>1, <1>2 DEF Scanned, StringStates
<1>11. QED
    BY <1>6, <1>7, <1>8, <1>9, <1>10 DEF Accepted, Context, q

\* At the end of a text that is complete, the stacks are empty and one table
\* is left.
LEMMA Complete ==
    ASSUME NEW q, NEW s, Accepted(q, s), JSON_parser_done(q)
    PROVE  /\ Len(q.lua) = 1 /\ q.lua[1][1] = "tab"
           /\ q.key_lvl = 0 /\ q.state_stack = <<>> /\ q.array_stack = <<>>
           /\ s.str = FALSE /\ s.open = <<>>
<1>1. PICK w : Context(q, w) /\ Position(q, w) /\ Scanned(q, s)
    BY DEF Accepted
<1>2. DOMAIN q = Fields /\ q.state_stack \in Seq(Kinds) /\ IsSeq(q.array_stack)
    BY <1>1 DEF Context, ParserTypes
<1>3. q.state = "OK" /\ Mode(q) = "DONE"
    <2>1. pop(q, "DONE").ok
        BY DEF JSON_parser_done
    <2>2. Fail(q).ok = FALSE
        BY <1>2, Failing
    <2>3. QED
        BY <2>1, <2>2 DEF JSON_parser_done, pop, Mode
<1>4. w = 0 /\ Len(q.lua) = 1
    BY <1>1, <1>3 DEF Position, StringStates, InValue
<1>5. q.stack \in Seq(Modes) /\ Len(q.stack) = 1 /\ Len(q.stack) > 0
    BY <1>1, <1>3, Sizes, Zenon
<1>6. Front(q.stack) = <<>>
    <2>1. Front(q.stack) \in Seq(Modes) /\ Len(Front(q.stack)) = 1 - 1
        BY <1>5, FrontLast
    <2>2. QED
        BY <2>1
<1>7. Count(Front(q.stack), "OBJECT") = 0 /\ Count(q.stack, "ARRAY") = 0
    <2>1. Count(q.stack, "ARRAY") = Count(Front(q.stack), "ARRAY") + 0
        BY <1>3, <1>5, CountFront DEF Mode
    <2>2. QED
        BY <1>6, <2>1, CountEmpty
<1>8. q.key_lvl = 0
    BY <1>1, <1>4, <1>7 DEF Context, Held
<1>9. q.state_stack = <<>> /\ q.array_stack = <<>>
    <2>1. Len(q.state_stack) = 0 /\ Len(q.array_stack) = 0
        BY <1>1, <1>5, <1>7 DEF Context, Nested
    <2>2. QED
        BY <1>2, <2>1 DEF IsSeq
<1>10. q.lua[1][1] = "tab"
    <2>1. 2 * 0 + 1 <= Len(q.lua) /\ 2 * 0 + 1 = 1
        BY <1>4
    <2>2. q.lua[2 * 0 + 1][1] = "tab"
        BY <1>1, <2>1 DEF Context, Held
    <2>3. QED
        BY <2>1, <2>2
<1>11. s.open = <<>> /\ s.str = FALSE
    BY <1>1, <1>3, LastBracket DEF Scanned, StringStates
<1>12. QED
    BY <1>4, <1>8, <1>9, <1>10, <1>11

\* The inductive invariant of the decoder.
DecodeInv ==
    /\ text \in Seq(1 .. 127)
    /\ result = "reading" => Accepted(p, scanned)
    /\ UnderflowNeedsMismatch
    /\ AcceptedBalanced

\* luaT_json_parser_decode starts in the invariant.
LEMMA DecodeInitial == DecodeInit => DecodeInv
<1> SUFFICES ASSUME DecodeInit PROVE DecodeInv
    OBVIOUS
<1>1. Accepted(p, scanned) /\ text \in Seq(1 .. 127)
    BY Fresh DEF DecodeInit
<1>2. p.ub = FALSE
    BY <1>1 DEF Accepted, Context, ParserTypes
<1>3. QED
    BY <1>1, <1>2 DEF DecodeInit, DecodeInv, UnderflowNeedsMismatch, AcceptedBalanced

\* No character, and not the end of the text, breaks the invariant.
LEMMA DecodeStep == DecodeInv /\ [DecodeNext]_decodeVars => DecodeInv'
<1> SUFFICES ASSUME DecodeInv, [DecodeNext]_decodeVars PROVE DecodeInv'
    OBVIOUS
<1>1. ASSUME NEW c \in 1 .. 127, Read(c) PROVE DecodeInv'
    <2> DEFINE q == JSON_parser_char(p, c)
    <2>1. /\ result = "reading" /\ text' = Append(text, c)
          /\ scanned' = IF q.ok THEN ScanNext(scanned, c) ELSE scanned
          /\ p' = IF q.ok THEN q ELSE [q EXCEPT !.lua = <<>>]
          /\ result' = IF q.ok THEN "reading" ELSE "false"
        BY <1>1 DEF Read
    <2>2. text \in Seq(1 .. 127) /\ Accepted(p, scanned)
        BY <2>1 DEF DecodeInv
    <2>3. Accepted(q, ScanNext(scanned, c)) \/ Rejected(q, scanned, c)
        BY <2>2, CharStep
    <2> HIDE DEF q
    <2>4. text' \in Seq(1 .. 127) /\ Last(text') = c
        BY <2>1, <2>2 DEF Last
    <2>5. CASE Accepted(q, ScanNext(scanned, c))
        <3>1. q.ok = TRUE /\ q.ub = FALSE
            BY <2>5 DEF Accepted, Context, ParserTypes
        <3>2. p' = q /\ scanned' = ScanNext(scanned, c) /\ result' = "reading"
            BY <2>1, <3>1
        <3>3. Accepted(p', scanned') /\ p'.ub = FALSE
            BY <2>5, <3>1, <3>2
        <3>4. QED
            BY <2>4, <3>2, <3>3 DEF DecodeInv, UnderflowNeedsMismatch, AcceptedBalanced
    <2>6. CASE Rejected(q, scanned, c)
        <3>1. /\ DOMAIN q = Fields /\ q.ok = FALSE
              /\ q.ub = FALSE \/ (c \in {93, 125} /\ (scanned.open = <<>> \/ Last(scanned.open) # c - 2))
            BY <2>6 DEF Rejected
        <3>2. scanned' = scanned /\ result' = "false" /\ p' = [q EXCEPT !.lua = <<>>]
            BY <2>1, <3>1
        <3>3. p'.ub = q.ub
            BY <3>1, <3>2 DEF Fields
        <3>4. UnderflowNeedsMismatch'
            BY <2>4, <3>1, <3>2, <3>3 DEF UnderflowNeedsMismatch
        <3>5. QED
            BY <2>4, <3>2, <3>4 DEF DecodeInv, AcceptedBalanced
    <2>7. QED
        BY <2>3, <2>5, <2>6
<1>2. ASSUME FinishText PROVE DecodeInv'
    <2> DEFINE done == JSON_parser_done(p)
    <2>1. /\ result = "reading" /\ result' = IF done THEN "true" ELSE "false"
          /\ p' = IF done THEN p ELSE [p EXCEPT !.lua = <<>>]
          /\ text' = text /\ scanned' = scanned
        BY <1>2 DEF FinishText
    <2>2. text \in Seq(1 .. 127) /\ Accepted(p, scanned)
        BY <2>1 DEF DecodeInv
    <2>3. DOMAIN p = Fields /\ p.ub = FALSE
        BY <2>2 DEF Accepted, Context, ParserTypes
    <2>4. p'.ub = FALSE
        BY <2>1, <2>3 DEF Fields
    <2>5. AcceptedBalanced'
        <3>1. CASE done
            <4>1. /\ Len(p.lua) = 1 /\ p.lua[1][1] = "tab"
                  /\ p.key_lvl = 0 /\ p.state_stack = <<>> /\ p.array_stack = <<>>
                  /\ scanned.str = FALSE /\ scanned.open = <<>>
                BY <2>2, <3>1, Complete
            <4>2. p' = p /\ scanned' = scanned
                BY <2>1, <3>1
            <4>3. QED
                BY <4>1, <4>2 DEF AcceptedBalanced
        <3>2. CASE ~done
            BY <2>1, <3>2 DEF AcceptedBalanced
        <3>3. QED
            BY <3>1, <3>2
    <2>6. QED
        BY <2>1, <2>2, <2>4, <2>5 DEF DecodeInv, UnderflowNeedsMismatch
<1>3. ASSUME UNCHANGED decodeVars PROVE DecodeInv'
    BY <1>3, Zenon DEF decodeVars, DecodeInv, UnderflowNeedsMismatch, AcceptedBalanced
<1>4. QED
    BY <1>1, <1>2, <1>3 DEF DecodeNext

\* The callbacks for closing brackets are called before the parser checks the
\* bracket (json_parser.cpp), and pop their stacks unchecked: for every text
\* this reaches below a stack, or sets a field of what is no table, only for a
\* bracket that does not match the innermost one that is open.
THEOREM MismatchOnly == DecodeSpec => []UnderflowNeedsMismatch
<1>1. DecodeInv => UnderflowNeedsMismatch
    BY DEF DecodeInv
<1>2. QED
    BY DecodeInitial, DecodeStep, <1>1, PTL DEF DecodeSpec

\* For every text, however deep, that luaT_json_parser_decode accepts: the Lua
\* stack holds one table and nothing else, and the stacks of the callback and
\* its count of pending keys end empty with those of the parser.
THEOREM Balanced == DecodeSpec => []AcceptedBalanced
<1>1. DecodeInv => AcceptedBalanced
    BY DEF DecodeInv
<1>2. QED
    BY DecodeInitial, DecodeStep, <1>1, PTL DEF DecodeSpec
=============================================================================
