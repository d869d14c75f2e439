------------------------------ MODULE Easylog ------------------------------
(***************************************************************************)
(* The asynchronous log (logger/Easylog.cpp with ENABLE_ASYNC_SEND).  Any  *)
(* thread hands a line to log_message, which queues it and notifies; one   *)
(* thread, logProcess, writes the lines.  A line of level PANIC, which is  *)
(* also what a failed assertion logs, stops the log and aborts; main stops *)
(* the log at the end of the shutdown.                                     *)
(*                                                                         *)
(* logProcess tests the queue and _stop without the mutex, and its wait    *)
(* has no predicate; nobody takes the mutex to notify.  _stop is a plain   *)
(* bool: a read sees the last value written.                               *)
(***************************************************************************)
EXTENDS Naturals, Sequences, SequencesExt

CONSTANTS
    Logger,     \* threads that log
    Stopper,    \* main, which calls stop() once
    Line,       \* the lines they log
    Panicking,  \* the lines of level PANIC
    None        \* no line

ASSUME LogAssumption ==
    /\ Stopper \notin Logger
    /\ Panicking \subseteq Line
    /\ None \notin Line

Thread == Logger \cup {Stopper}

VARIABLES
    logQueue,   \* _logQueue
    stop,       \* _stop
    lpc,        \* where logProcess is
    hand,       \* the line it took
    pc,         \* where a thread is in log_message and stop()
    line,       \* the line it logs
    fresh,      \* lines not logged yet
    ended,      \* how the process ended: "no", "abort" or "fault"
    pushed,     \* history: the lines in the order they were queued
    written,    \* history: the lines in the order they were written
    late,       \* history: lines queued after the last test of the queue
    missed      \* history: a notification found logProcess about to wait

history == <<pushed, written, late, missed>>
vars == <<logQueue, stop, lpc, hand, pc, line, fresh, ended, history>>

LogPc == {"test", "pop", "write", "teststop", "wait", "blocked", "exit"}
CallerPc == {"idle", "push", "notify", "stop", "wake", "join", "delete", "abort", "done"}

Init ==
    /\ logQueue = <<>>
    /\ stop = FALSE
    /\ lpc = "test"
    /\ hand = None
    /\ pc = [t \in Thread |-> "idle"]
    /\ line = [t \in Thread |-> None]
    /\ fresh = Line
    /\ ended = "no"
    /\ pushed = <<>>
    /\ written = <<>>
    /\ late = {}
    /\ missed = FALSE

Goto(t, label) == pc' = [pc EXCEPT ![t] = label]
Running == ended = "no"

-----------------------------------------------------------------------------
(* logProcess.                                                              *)

\* Variant: _stop is looked at first.
TestQueueStop ==
    /\ Running /\ lpc = "test"
    /\ lpc' = IF stop THEN "exit" ELSE IF logQueue # <<>> THEN "pop" ELSE "wait"
    /\ late' = {}
    /\ UNCHANGED <<logQueue, stop, hand, pc, line, fresh, ended, pushed, written, missed>>

\* if (!_logQueue.empty())
TestQueue ==
    /\ Running /\ lpc = "test"
    /\ lpc' = IF logQueue # <<>> THEN "pop" ELSE "teststop"
    /\ late' = {}
    /\ UNCHANGED <<logQueue, stop, hand, pc, line, fresh, ended, pushed, written, missed>>

\* Variant: the newest line is taken.
PopBack ==
    /\ Running /\ lpc = "pop"
    /\ hand' = Last(logQueue)
    /\ logQueue' = Front(logQueue)
    /\ lpc' = "write"
    /\ UNCHANGED <<stop, pc, line, fresh, ended, history>>

Pop ==
    /\ Running /\ lpc = "pop"
    /\ hand' = Head(logQueue)
    /\ logQueue' = Tail(logQueue)
    /\ lpc' = "write"
    /\ UNCHANGED <<stop, pc, line, fresh, ended, history>>

\* send_to_stdout, send_to_file, and the line is deleted.
Write ==
    /\ Running /\ lpc = "write"
    /\ written' = Append(written, hand)
    /\ hand' = None
    /\ lpc' = "test"
    /\ UNCHANGED <<logQueue, stop, pc, line, fresh, ended, pushed, late, missed>>

\* if (isstop()) break;
TestStop ==
    /\ Running /\ lpc = "teststop"
    /\ lpc' = IF stop THEN "exit" ELSE "wait"
    /\ UNCHANGED <<logQueue, stop, hand, pc, line, fresh, ended, history>>

\* The mutex is taken and wait() blocks.
Wait ==
    /\ Running /\ lpc = "wait"
    /\ lpc' = "blocked"
    /\ UNCHANGED <<logQueue, stop, hand, pc, line, fresh, ended, history>>

SpuriousWakeup ==
    /\ Running /\ lpc = "blocked"
    /\ lpc' = "test"
    /\ UNCHANGED <<logQueue, stop, hand, pc, line, fresh, ended, history>>

-----------------------------------------------------------------------------
(* log_message and stop().                                                  *)

\* log_message does nothing once the log is stopped, not even abort.
Log(t, l) ==
    /\ Running /\ t \in Logger /\ pc[t] = "idle" /\ l \in fresh
    /\ fresh' = fresh \ {l}
    /\ IF stop
       THEN UNCHANGED <<pc, line>>
       ELSE Goto(t, "push") /\ line' = [line EXCEPT ![t] = l]
    /\ UNCHANGED <<logQueue, stop, lpc, hand, ended, history>>

Push(t) ==
    /\ Running /\ pc[t] = "push"
    /\ logQueue' = Append(logQueue, line[t])
    /\ pushed' = Append(pushed, line[t])
    /\ late' = late \cup {line[t]}
    /\ Goto(t, "notify")
    /\ UNCHANGED <<stop, lpc, hand, line, fresh, ended, written, missed>>

\* notify_all: logProcess wakes if it is blocked.
NotifyAll ==
    /\ lpc' = IF lpc = "blocked" THEN "test" ELSE lpc
    /\ missed' = (missed \/ lpc = "wait" \/ (lpc = "teststop" /\ ~stop))

\* Variant: only the first line of a queue is worth a notification.
NotifyFirst(t) ==
    /\ Running /\ pc[t] = "notify"
    /\ IF Len(logQueue) = 1 THEN NotifyAll ELSE UNCHANGED <<lpc, missed>>
    /\ Goto(t, IF line[t] \in Panicking THEN "stop" ELSE "idle")
    /\ line' = [line EXCEPT ![t] = IF line[t] \in Panicking THEN line[t] ELSE None]
    /\ UNCHANGED <<logQueue, stop, hand, fresh, ended, pushed, written, late>>

\* The notification of log_message; after it a PANIC calls stop().
Notify(t) ==
    /\ Running /\ pc[t] = "notify"
    /\ NotifyAll
    /\ Goto(t, IF line[t] \in Panicking THEN "stop" ELSE "idle")
    /\ line' = [line EXCEPT ![t] = IF line[t] \in Panicking THEN line[t] ELSE None]
    /\ UNCHANGED <<logQueue, stop, hand, fresh, ended, pushed, written, late>>

\* main calls stop().
CallStop ==
    /\ Running /\ pc[Stopper] = "idle"
    /\ Goto(Stopper, "stop")
    /\ UNCHANGED <<logQueue, stop, lpc, hand, line, fresh, ended, history>>

StoreStop(t) ==
    /\ Running /\ pc[t] = "stop"
    /\ stop' = TRUE
    /\ Goto(t, "wake")
    /\ UNCHANGED <<logQueue, lpc, hand, line, fresh, ended, history>>

\* Variant: stop() does not notify.
NotifyStopForgotten(t) ==
    /\ Running /\ pc[t] = "wake"
    /\ Goto(t, "join")
    /\ UNCHANGED <<logQueue, stop, lpc, hand, line, fresh, ended, history>>

NotifyStop(t) ==
    /\ Running /\ pc[t] = "wake"
    /\ NotifyAll
    /\ Goto(t, "join")
    /\ UNCHANGED <<logQueue, stop, hand, line, fresh, ended, pushed, written, late>>

\* join(), when _logthread is there and nobody else has joined it.
Others(t, labels) == \E u \in Thread \ {t} : pc[u] \in labels
Join(t) ==
    /\ Running /\ pc[t] = "join"
    /\ lpc = "exit"
    /\ ~Others(t, {"join", "delete"})
    /\ Goto(t, "delete")
    /\ UNCHANGED <<logQueue, stop, lpc, hand, line, fresh, ended, history>>

\* Two threads are in stop() at once: the thread is joined twice or deleted
\* while it is being joined.
JoinTwice(t) ==
    /\ Running /\ pc[t] = "join"
    /\ Others(t, {"join", "delete"})
    /\ ended' = "fault"
    /\ UNCHANGED <<logQueue, stop, lpc, hand, pc, line, fresh, history>>

\* SafeDelete(_logthread); a PANIC goes on to abort().
DeleteThread(t) ==
    /\ Running /\ pc[t] = "delete"
    /\ Goto(t, IF t = Stopper THEN "done" ELSE "abort")
    /\ UNCHANGED <<logQueue, stop, lpc, hand, line, fresh, ended, history>>

Abort(t) ==
    /\ Running /\ pc[t] = "abort"
    /\ ended' = "abort"
    /\ UNCHANGED <<logQueue, stop, lpc, hand, pc, line, fresh, history>>

-----------------------------------------------------------------------------
LogStep == TestQueue \/ Pop \/ Write \/ TestStop \/ Wait

CallerStep(t) ==
    \/ Push(t) \/ Notify(t)
    \/ StoreStop(t) \/ NotifyStop(t) \/ Join(t) \/ JoinTwice(t)
    \/ DeleteThread(t) \/ Abort(t)

\* The process has ended, or everybody waits.
Idle ==
    /\ ~Running \/ lpc \in {"blocked", "exit"}
    /\ UNCHANGED vars

Next ==
    \/ LogStep
    \/ SpuriousWakeup
    \/ CallStop
    \/ \E t \in Thread : CallerStep(t)
    \/ \E t \in Logger, l \in Line : Log(t, l)
    \/ Idle

Spec == Init /\ [][Next]_vars

(* The threads run; wait() need not wake by itself, and nobody has to log   *)
(* or to stop.                                                              *)
Fairness == WF_vars(LogStep) /\ \A t \in Thread : WF_vars(CallerStep(t))

FairSpec == Spec /\ Fairness

-----------------------------------------------------------------------------
(* Properties.                                                              *)

\* Every variable has its type; pop_front is not applied to an empty queue.
TypeOK ==
    /\ logQueue \in Seq(Line)
    /\ stop \in BOOLEAN
    /\ lpc \in LogPc
    /\ lpc = "pop" => logQueue # <<>>
    /\ hand \in Line \cup {None}
    /\ pc \in [Thread -> CallerPc]
    /\ line \in [Thread -> Line \cup {None}]
    /\ fresh \in SUBSET Line
    /\ ended \in {"no", "abort", "fault"}
    /\ pushed \in Seq(Line)
    /\ written \in Seq(Line)
    /\ late \in SUBSET Line
    /\ missed \in BOOLEAN

\* Lines are written in the order in which they were queued, none twice and
\* none left out before one that is written, while threads keep queueing.
WrittenInOrder ==
    pushed = written \o (IF hand = None THEN <<>> ELSE <<hand>>) \o logQueue

\* When logProcess has ended because of _stop, only lines queued after its
\* last look at the queue are lost.  A PANIC line can be among them: the
\* thread that panics queues it and then stops the log itself.
LostOnlyLate == lpc = "exit" => ToSet(logQueue) \subseteq late

\* logProcess sleeps on a queued line, or on _stop, only if a notification
\* came between its tests and its wait, or is still to come.
SleepNeedsMiss ==
    lpc = "blocked" /\ (logQueue # <<>> \/ stop) =>
        missed \/ \E t \in Thread : pc[t] \in {"notify", "wake"}

\* stop() returns, and a PANIC ends in abort(), unless a notification was
\* missed; or the process dies in stop() because two threads were in it.
StopEnds == stop ~> missed \/ ended # "no" \/ pc[Stopper] = "done"

\* A queued line is written, unless a notification was missed or the log has
\* been stopped.
LineWritten ==
    \A l \in Line : Contains(pushed, l) ~> Contains(written, l) \/ missed \/ stop

=============================================================================
