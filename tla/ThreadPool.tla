----------------------------- MODULE ThreadPool -----------------------------
(***************************************************************************)
(* The thread pool (tools/ThreadPool): a queue of tasks under a mutex, a   *)
(* condition variable, worker threads, add() and stop().                   *)
(*                                                                         *)
(* A condition variable is the set of threads blocked on it.  wait() gives *)
(* up the mutex and blocks in one step, and the evaluation of its predicate*)
(* is a step of its own that happens while the mutex is held.  add()       *)
(* notifies after it has released the mutex; stop() stores the flag and    *)
(* notifies without ever taking it.                                        *)
(***************************************************************************)
EXTENDS Sequences, FiniteSets, Naturals

CONSTANTS
    Worker,      \* the threads init() may spawn; it spawns one or more of them
    Adder,       \* the threads that call add(): main, the network thread, workers
    Task,        \* the tasks they will add
    Endless,     \* tasks that run until the process halts: NetworkManager::run
    None         \* no thread, no task

ASSUME PoolAssumption ==
    /\ None \notin Worker \cup Adder \cup Task
    /\ Worker \cap Adder = {}
    /\ Endless \subseteq Task

VARIABLES
    stop,        \* _stop
    mutex,       \* the thread that holds _mtx, or None
    tasks,       \* _tasks
    blocked,     \* workers blocked in _cond.wait
    wpc,         \* where a worker is in the loop of init()
    job,         \* the task it took
    apc,         \* where an adder is in add()
    arg,         \* the task it is adding
    spc,         \* where the thread that shuts down is in stop()
    todo,        \* tasks not added yet
    started,     \* tasks that some worker started
    refused,     \* tasks add() threw runtime_error for
    missed       \* history: workers that the notify_all of stop() came too early for

poolVars == <<tasks, todo, started, refused>>
vars == <<stop, mutex, blocked, wpc, job, apc, arg, spc, missed, poolVars>>

WorkerPc == {"none", "test", "lock", "pred", "block", "wait", "relock", "leave", "pop", "run", "exit"}
AdderPc == {"idle", "lock", "push", "notify"}
StopPc == {"running", "notify", "join", "joined"}

\* init(n) has spawned n threads for a positive n (`-t 1' makes it one), and
\* as many as there are processors, at least two, for any other.
Init ==
    /\ stop = FALSE
    /\ mutex = None
    /\ tasks = <<>>
    /\ blocked = {}
    /\ \E spawned \in SUBSET Worker \ {{}} :
        wpc = [w \in Worker |-> IF w \in spawned THEN "test" ELSE "none"]
    /\ job = [w \in Worker |-> None]
    /\ apc = [a \in Adder |-> "idle"]
    /\ arg = [a \in Adder |-> None]
    /\ spc = "running"
    /\ todo = Task
    /\ started = {}
    /\ refused = {}
    /\ missed = {}

WGoto(w, label) == wpc' = [wpc EXCEPT ![w] = label]
AGoto(a, label) == apc' = [apc EXCEPT ![a] = label]

-----------------------------------------------------------------------------
(* The loop of a worker.                                                    *)

\* while (!this->_stop.load(...))
WorkerTest(w) ==
    /\ wpc[w] = "test"
    /\ WGoto(w, IF stop THEN "exit" ELSE "lock")
    /\ UNCHANGED <<stop, mutex, blocked, job, apc, arg, spc, missed, poolVars>>

\* Variant: if (empty) wait() in place of the predicate, not tested again.
WorkerLockOnce(w) ==
    /\ wpc[w] \in {"lock", "relock"}
    /\ mutex = None
    /\ mutex' = w
    /\ WGoto(w, IF wpc[w] = "lock" THEN "pred" ELSE "leave")
    /\ UNCHANGED <<stop, blocked, job, apc, arg, spc, missed, poolVars>>

\* unique_lock, or the mutex taken again after wait() was woken.
WorkerLock(w) ==
    /\ wpc[w] \in {"lock", "relock"}
    /\ mutex = None
    /\ mutex' = w
    /\ WGoto(w, "pred")
    /\ UNCHANGED <<stop, blocked, job, apc, arg, spc, missed, poolVars>>

\* The predicate of wait(): _stop || !_tasks.empty(), with the mutex held.
WorkerPred(w) ==
    /\ wpc[w] = "pred"
    /\ WGoto(w, IF stop \/ tasks # <<>> THEN "leave" ELSE "block")
    /\ UNCHANGED <<stop, mutex, blocked, job, apc, arg, spc, missed, poolVars>>

\* wait() releases the mutex and blocks.
WorkerBlock(w) ==
    /\ wpc[w] = "block"
    /\ blocked' = blocked \cup {w}
    /\ mutex' = None
    /\ WGoto(w, "wait")
    /\ UNCHANGED <<stop, job, apc, arg, spc, missed, poolVars>>

\* A condition variable may wake without being notified.
SpuriousWakeup(w) ==
    /\ w \in blocked
    /\ blocked' = blocked \ {w}
    /\ WGoto(w, "relock")
    /\ UNCHANGED <<stop, mutex, job, apc, arg, spc, missed, poolVars>>

\* if (this->_stop.load(...)) return; the mutex is released on the way out.
WorkerLeave(w) ==
    /\ wpc[w] = "leave"
    /\ IF stop
       THEN WGoto(w, "exit") /\ mutex' = None
       ELSE WGoto(w, "pop") /\ UNCHANGED mutex
    /\ UNCHANGED <<stop, blocked, job, apc, arg, spc, missed, poolVars>>

\* Variant: front() without pop().
WorkerPopFrontOnly(w) ==
    /\ wpc[w] = "pop"
    /\ job' = [job EXCEPT ![w] = Head(tasks)]
    /\ started' = started \cup {Head(tasks)}
    /\ mutex' = None
    /\ WGoto(w, "run")
    /\ UNCHANGED <<stop, blocked, apc, arg, spc, missed, tasks, todo, refused>>

\* The front task is taken, the mutex released and the task called.
WorkerPop(w) ==
    /\ wpc[w] = "pop"
    /\ job' = [job EXCEPT ![w] = Head(tasks)]
    /\ tasks' = Tail(tasks)
    /\ started' = started \cup {Head(tasks)}
    /\ mutex' = None
    /\ WGoto(w, "run")
    /\ UNCHANGED <<stop, blocked, apc, arg, spc, missed, todo, refused>>

\* The task returns; an endless one only once the process halts, which
\* precedes stop().
WorkerFinish(w) ==
    /\ wpc[w] = "run"
    /\ job[w] \in Endless => stop
    /\ job' = [job EXCEPT ![w] = None]
    /\ WGoto(w, "test")
    /\ UNCHANGED <<stop, mutex, blocked, apc, arg, spc, missed, poolVars>>

-----------------------------------------------------------------------------
(* add().                                                                   *)

AddCall(a, t) ==
    /\ apc[a] = "idle" /\ t \in todo
    /\ arg' = [arg EXCEPT ![a] = t]
    /\ todo' = todo \ {t}
    /\ AGoto(a, "lock")
    /\ UNCHANGED <<stop, mutex, blocked, wpc, job, spc, missed, tasks, started, refused>>

AddLock(a) ==
    /\ apc[a] = "lock"
    /\ mutex = None
    /\ mutex' = a
    /\ AGoto(a, "push")
    /\ UNCHANGED <<stop, blocked, wpc, job, arg, spc, missed, poolVars>>

\* throw if stopped, else emplace; the lock_guard ends either way.
AddPush(a) ==
    /\ apc[a] = "push"
    /\ mutex' = None
    /\ IF stop
       THEN /\ refused' = refused \cup {arg[a]}
            /\ arg' = [arg EXCEPT ![a] = None]
            /\ AGoto(a, "idle")
            /\ UNCHANGED tasks
       ELSE /\ tasks' = Append(tasks, arg[a])
            /\ AGoto(a, "notify")
            /\ UNCHANGED <<arg, refused>>
    /\ UNCHANGED <<stop, blocked, wpc, job, spc, missed, todo, started>>

\* Variant: nobody is notified.
AddNotifyNobody(a) ==
    /\ apc[a] = "notify"
    /\ arg' = [arg EXCEPT ![a] = None]
    /\ AGoto(a, "idle")
    /\ UNCHANGED <<stop, mutex, blocked, wpc, job, spc, missed, poolVars>>

\* _cond.notify_one(): some blocked worker, if there is one.
AddNotify(a) ==
    /\ apc[a] = "notify"
    /\ \/ blocked = {} /\ UNCHANGED <<blocked, wpc>>
       \/ \E w \in blocked : blocked' = blocked \ {w} /\ WGoto(w, "relock")
    /\ arg' = [arg EXCEPT ![a] = None]
    /\ AGoto(a, "idle")
    /\ UNCHANGED <<stop, mutex, job, spc, missed, poolVars>>

-----------------------------------------------------------------------------
(* stop(), called by main.                                                  *)

StopStore ==
    /\ spc = "running"
    /\ stop' = TRUE
    /\ spc' = "notify"
    /\ UNCHANGED <<mutex, blocked, wpc, job, apc, arg, missed, poolVars>>

\* Variant: notify_one instead of notify_all.
StopNotifyOne ==
    /\ spc = "notify"
    /\ IF blocked = {} THEN UNCHANGED <<blocked, wpc>>
       ELSE \E w \in blocked : blocked' = blocked \ {w} /\ WGoto(w, "relock")
    /\ missed' = {w \in Worker : wpc[w] = "block"}
    /\ spc' = "join"
    /\ UNCHANGED <<stop, mutex, job, apc, arg, poolVars>>

\* _cond.notify_all().  A worker that has evaluated the predicate before the
\* store and has not blocked yet is not woken by it.
StopNotify ==
    /\ spc = "notify"
    /\ blocked' = {}
    /\ wpc' = [w \in Worker |-> IF w \in blocked THEN "relock" ELSE wpc[w]]
    /\ missed' = {w \in Worker : wpc[w] = "block"}
    /\ spc' = "join"
    /\ UNCHANGED <<stop, mutex, job, apc, arg, poolVars>>

\* join() of every thread.
StopJoin ==
    /\ spc = "join"
    /\ \A w \in Worker : wpc[w] \in {"exit", "none"}
    /\ spc' = "joined"
    /\ UNCHANGED <<stop, mutex, blocked, wpc, job, apc, arg, missed, poolVars>>

-----------------------------------------------------------------------------
WorkerStep(w) ==
    \/ WorkerTest(w) \/ WorkerLock(w) \/ WorkerPred(w) \/ WorkerBlock(w)
    \/ WorkerLeave(w) \/ WorkerPop(w) \/ WorkerFinish(w)

AdderStep(a) == AddLock(a) \/ AddPush(a) \/ AddNotify(a)

StopStep == StopNotify \/ StopJoin

\* With nothing left to add and nobody stopping the pool, its workers sleep.
Idle ==
    /\ \A w \in Worker : wpc[w] \in {"none", "wait", "exit", "run"}
    /\ \A a \in Adder : apc[a] = "idle"
    /\ UNCHANGED vars

Next ==
    \/ \E w \in Worker : WorkerStep(w) \/ SpuriousWakeup(w)
    \/ \E a \in Adder : AdderStep(a) \/ \E t \in Task : AddCall(a, t)
    \/ StopStore
    \/ StopStep
    \/ Idle

Spec == Init /\ [][Next]_vars

(* Threads run and tasks return, but nobody has to call add() or stop(),    *)
(* and a blocked worker need not wake on its own.  std::mutex promises no   *)
(* thread that it will get the lock, so weak fairness is all there is.      *)
Fairness ==
    /\ \A w \in Worker : WF_vars(WorkerStep(w))
    /\ \A a \in Adder : WF_vars(AdderStep(a))
    /\ WF_vars(StopStep)

FairSpec == Spec /\ Fairness

-----------------------------------------------------------------------------
(* Properties.                                                              *)

\* Every variable has its type, and a worker has a task exactly while it runs
\* one.
TypeOK ==
    /\ stop \in BOOLEAN
    /\ mutex \in Worker \cup Adder \cup {None}
    /\ tasks \in Seq(Task)
    /\ blocked \in SUBSET Worker
    /\ wpc \in [Worker -> WorkerPc]
    /\ job \in [Worker -> Task \cup {None}]
    /\ \A w \in Worker : wpc[w] = "run" <=> job[w] \in Task
    /\ apc \in [Adder -> AdderPc]
    /\ arg \in [Adder -> Task \cup {None}]
    /\ spc \in StopPc
    /\ todo \in SUBSET Task
    /\ started \in SUBSET Task
    /\ refused \in SUBSET Task
    /\ missed \in SUBSET Worker

\* front() and pop() of the worker are never applied to an empty queue, though
\* its wait() also returns for _stop and wakes spuriously.
PopFindsTask == \A w \in Worker : wpc[w] = "pop" => tasks # <<>>

\* After the notify_all of stop() no worker sleeps, or is about to, but those
\* it came too early for: every other worker sees _stop and leaves.
AsleepWasMissed ==
    spc \in {"join", "joined"} =>
        \A w \in Worker : wpc[w] \in {"block", "wait"} => w \in missed

\* The pool is a FIFO mailbox of tasks: each is queued once or refused, taken
\* in the order of the queue by one worker, and called once.
Queued(t) == \E i \in DOMAIN tasks : tasks[i] = t
Called(t) == \E w \in Worker : job[w] = t

TaskStage(t) ==
    IF Called(t) THEN "taken"
    ELSE IF t \in started \cup refused THEN "released"
    ELSE IF Queued(t) THEN "posted"
    ELSE "new"

Q == INSTANCE Mailbox WITH
        Service <- {"pool"},
        Message <- Task,
        box <- [s \in {"pool"} |-> tasks],
        stage <- [t \in Task |-> TaskStage(t)]

ImplementsQueue == Q!MailboxSpec

\* A queued task is started, unless the pool is stopped first or every thread
\* it has is given up for good to an endless task: NetworkManager::run starves
\* the services of a pool of one thread, and of no larger one.
Occupied(w) == wpc[w] = "run" /\ job[w] \in Endless
Starved == \A w \in Worker : wpc[w] = "none" \/ Occupied(w)
TaskStarts ==
    \A t \in Task : Queued(t) ~> (t \in started \/ stop \/ Starved)

\* The one way for stop() to hang in join(): a worker that had found _stop
\* false blocks after notify_all, which stop() calls without the mutex.
StopJoins == spc = "join" ~> (spc = "joined" \/ missed # {})

=============================================================================
