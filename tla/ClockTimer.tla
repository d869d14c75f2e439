----------------------------- MODULE ClockTimer -----------------------------
(***************************************************************************)
(* The clock of the process and the timers on it (time/Time.cpp,           *)
(* time/Timer.h).  sTime keeps the time of the last call of now(), in two  *)
(* words which every thread writes and reads without a lock; a Timer       *)
(* measures by it.  The owner of the timer asks it whether it is due;      *)
(* another thread (the log, a service) calls now() as well.                *)
(*                                                                         *)
(* gettimeofday samples the time first and stores the words later, one by  *)
(* one; milliseconds() loads them one by one.  A word is represented by    *)
(* the sampling it was stored by.  The time of day may be set; `uptime' is *)
(* the time that really passed.                                            *)
(***************************************************************************)
EXTENDS Integers

CONSTANTS
    PerSecond,    \* milliseconds in a second
    ClockMod,     \* 2^w of u64
    Start,        \* the time of day at the start
    MaxUptime,    \* how long the machine is watched
    MaxSets,      \* how often the time of day is set
    Intervals     \* _interval_milliseconds of timers

\* A u64 of milliseconds does not run over while the machine is watched, not
\* even with the longest interval on top.
ASSUME ClockAssumption ==
    /\ PerSecond \in Nat \ {0} /\ Intervals \subseteq Nat /\ Start \in Int
    /\ MaxUptime \in Nat /\ ClockMod \in Nat
    /\ \A i \in Intervals \cup {0} : MaxUptime + i < ClockMod

VARIABLES
    uptime,       \* real time since the start
    offset,       \* time of day minus uptime
    sets,         \* times the time of day was set
    tv,           \* _tv: the sampling each word was stored by
    unstored,     \* in gettimeofday: the words a thread has yet to store
    purpose,      \* what the owner is reading the clock for, or "none"
    got,          \* the words it has loaded, the sampling each is of
    scale,        \* _last_scale
    started,      \* history: the reading that scale was taken from
    late,         \* history: a word was stored over one of a later sampling
    interval      \* _interval_milliseconds

timeVars == <<uptime, offset, sets>>
tvVars == <<tv, unstored, late>>
readVars == <<purpose, got>>
timerVars == <<scale, started, interval>>
clockVars == <<timeVars, tvVars, readVars, timerVars>>

Words == {"sec", "usec"}
Callers == {"owner", "other"}
Reading(s) == [w \in Words |-> s]
Nothing == [w \in {} |-> 0]

Now == [uptime |-> uptime, offset |-> offset]
OfDay(s) == s.uptime + s.offset

\* milliseconds(), from the words that were loaded.
milliseconds(r) ==
    (OfDay(r["sec"]) \div PerSecond) * PerSecond + (OfDay(r["usec"]) % PerSecond)

ClockInit ==
    /\ uptime = 0 /\ offset = Start /\ sets = 0
    /\ tv = Reading(Now)
    /\ unstored = [c \in Callers |-> Nothing]
    /\ purpose = "none" /\ got = Nothing
    /\ scale = Start /\ started = tv /\ late = FALSE
    /\ interval \in Intervals

\* Time passes.
Tick ==
    /\ uptime < MaxUptime
    /\ uptime' = uptime + 1
    /\ UNCHANGED <<offset, sets, tvVars, readVars, timerVars>>

\* The time of day is set, back or forward.
SetTime ==
    /\ sets < MaxSets
    /\ \E t \in {Start - 1, OfDay(Now) + PerSecond} : offset' = t - uptime
    /\ sets' = sets + 1
    /\ UNCHANGED <<uptime, tvVars, readVars, timerVars>>

\* now(): gettimeofday samples the time.
SampleTime(c) ==
    /\ unstored[c] = Nothing
    /\ c = "owner" => purpose = "none"
    /\ unstored' = [unstored EXCEPT ![c] = Reading(Now)]
    /\ UNCHANGED <<tv, late, timeVars, readVars, timerVars>>

\* now(): gettimeofday stores a word.
StoreWord(c, w) ==
    /\ w \in DOMAIN unstored[c]
    /\ tv' = [tv EXCEPT ![w] = unstored[c][w]]
    /\ unstored' = [unstored EXCEPT ![c] = [v \in DOMAIN @ \ {w} |-> @[v]]]
    /\ late' = (late \/ unstored[c][w].uptime < tv[w].uptime)
    /\ UNCHANGED <<timeVars, readVars, timerVars>>

\* The owner calls operator() or resetScale(); both read the clock first.
CallTimer ==
    /\ unstored["owner"] = Nothing /\ purpose = "none"
    /\ purpose' \in {"ask", "reset"}
    /\ got' = Nothing
    /\ UNCHANGED <<timeVars, tvVars, timerVars>>

\* milliseconds() loads a word.
LoadWord(w) ==
    /\ purpose # "none" /\ w \notin DOMAIN got
    /\ got' = [v \in DOMAIN got \cup {w} |-> IF v = w THEN tv[w] ELSE got[v]]
    /\ UNCHANGED <<purpose, timeVars, tvVars, timerVars>>

IsRead == DOMAIN got = Words

Elapsed == (milliseconds(got) - scale) % ClockMod

\* operator(): the comparison.  A timer that is due reads the clock again,
\* unless the compiler keeps the words it has.
Ask ==
    /\ purpose = "ask" /\ IsRead
    /\ IF Elapsed >= interval
       THEN purpose' = "fire" /\ got' \in {got, Nothing}
       ELSE purpose' = "none" /\ got' = Nothing
    /\ UNCHANGED <<timeVars, tvVars, timerVars>>

\* Variant: a timer that was due is not started again.
FireOn ==
    /\ purpose = "fire" /\ IsRead
    /\ started' = got
    /\ purpose' = "none" /\ got' = Nothing
    /\ UNCHANGED <<scale, interval, timeVars, tvVars>>

\* operator(): a timer that is due starts again.
Fire ==
    /\ purpose = "fire" /\ IsRead
    /\ scale' = milliseconds(got) /\ started' = got
    /\ purpose' = "none" /\ got' = Nothing
    /\ UNCHANGED <<interval, timeVars, tvVars>>

resetScale ==
    /\ purpose = "reset" /\ IsRead
    /\ scale' = milliseconds(got) /\ started' = got
    /\ purpose' = "none" /\ got' = Nothing
    /\ UNCHANGED <<interval, timeVars, tvVars>>

resetInterval ==
    /\ unstored["owner"] = Nothing /\ purpose = "none"
    /\ interval' \in Intervals
    /\ UNCHANGED <<scale, started, timeVars, tvVars, readVars>>

ClockNext ==
    \/ Tick \/ SetTime
    \/ \E c \in Callers : SampleTime(c) \/ \E w \in Words : StoreWord(c, w)
    \/ CallTimer \/ \E w \in Words : LoadWord(w)
    \/ Ask \/ Fire \/ resetScale \/ resetInterval

ClockSpec == ClockInit /\ [][ClockNext]_clockVars

-----------------------------------------------------------------------------
\* Both words of a reading are of one sampling.
Untorn(r) == r["sec"] = r["usec"]

Passed == got["sec"].uptime - started["sec"].uptime

\* Timer::operator(), asked with a reading of one sampling and started with
\* another, the time of day being the same: the timer is due exactly when its
\* interval has passed between the samplings, or when the second is the older
\* one, for the unsigned difference runs over then.  That takes a thread that
\* was held up in gettimeofday, between sampling and storing, while another
\* thread stored a later time.
TimerExact ==
    [][Ask /\ Untorn(got) /\ Untorn(started) /\ got["sec"].offset = started["sec"].offset
         => /\ (purpose' = "fire") <=> (Passed >= interval \/ Passed < 0)
            /\ Passed < 0 => late]_clockVars
=============================================================================
