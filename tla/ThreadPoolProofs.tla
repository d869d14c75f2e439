-------------------------- MODULE ThreadPoolProofs --------------------------
(***************************************************************************)
(* Proofs about ThreadPool, for any number of workers, adders and tasks.   *)
(***************************************************************************)
EXTENDS ThreadPool, TLAPS

(* Where the threads hold the mutex.                                        *)
WorkerHolds(w) == wpc[w] \in {"pred", "block", "leave", "pop"}
AdderHolds(a) == apc[a] = "push"

(* The mutex is held by the thread whose code is between its lock and its   *)
(* unlock, and by no other.                                                 *)
MutexExact ==
    /\ \A w \in Worker : WorkerHolds(w) <=> mutex = w
    /\ \A a \in Adder : AdderHolds(a) <=> mutex = a

\* A worker is blocked exactly while it is in wait(), and an adder has a task
\* exactly while it is in add().
PlacesOK ==
    /\ \A w \in Worker : w \in blocked <=> wpc[w] = "wait"
    /\ \A a \in Adder : apc[a] # "idle" <=> arg[a] \in Task

(* What the predicate of wait() has established still holds where the       *)
(* worker relies on it: the queue is only emptied with the mutex held, and  *)
(* _stop is never cleared.                                                  *)
PredicateKept ==
    /\ \A w \in Worker : wpc[w] = "leave" => stop \/ tasks # <<>>
    /\ \A w \in Worker : wpc[w] = "pop" => tasks # <<>>

PoolInv == TypeOK /\ PlacesOK /\ MutexExact /\ PredicateKept

\* The variables keep their types through every step.
LEMMA PoolTypes == PoolInv /\ [Next]_vars => TypeOK' /\ PlacesOK'
<1> USE PoolAssumption DEF PoolInv, TypeOK, PlacesOK, PredicateKept, WorkerPc, AdderPc,
        StopPc, WGoto, AGoto, poolVars
<1> SUFFICES ASSUME PoolInv, [Next]_vars PROVE TypeOK' /\ PlacesOK'
  OBVIOUS
<1>1. ASSUME NEW w \in Worker, WorkerTest(w) PROVE TypeOK' /\ PlacesOK'
  BY <1>1 DEF WorkerTest
<1>2. ASSUME NEW w \in Worker, WorkerLock(w) PROVE TypeOK' /\ PlacesOK'
  BY <1>2 DEF WorkerLock
<1>3. ASSUME NEW w \in Worker, WorkerPred(w) PROVE TypeOK' /\ PlacesOK'
  BY <1>3 DEF WorkerPred
<1>4. ASSUME NEW w \in Worker, WorkerBlock(w) PROVE TypeOK' /\ PlacesOK'
  BY <1>4 DEF WorkerBlock
<1>5. ASSUME NEW w \in Worker, SpuriousWakeup(w) PROVE TypeOK' /\ PlacesOK'
  BY <1>5 DEF SpuriousWakeup
<1>6. ASSUME NEW w \in Worker, WorkerLeave(w) PROVE TypeOK' /\ PlacesOK'
  BY <1>6 DEF WorkerLeave
<1>7. ASSUME NEW w \in Worker, WorkerPop(w) PROVE TypeOK' /\ PlacesOK'
  <2>1. Head(tasks) \in Task /\ Tail(tasks) \in Seq(Task)
    BY <1>7 DEF WorkerPop
  <2>2. QED
    BY <1>7, <2>1 DEF WorkerPop
<1>8. ASSUME NEW w \in Worker, WorkerFinish(w) PROVE TypeOK' /\ PlacesOK'
  BY <1>8 DEF WorkerFinish
<1>9. ASSUME NEW a \in Adder, NEW t \in Task, AddCall(a, t) PROVE TypeOK' /\ PlacesOK'
  BY <1>9 DEF AddCall
<1>10. ASSUME NEW a \in Adder, AddLock(a) PROVE TypeOK' /\ PlacesOK'
  BY <1>10 DEF AddLock
<1>11. ASSUME NEW a \in Adder, AddPush(a) PROVE TypeOK' /\ PlacesOK'
  <2>1. arg[a] \in Task /\ Append(tasks, arg[a]) \in Seq(Task)
    BY <1>11 DEF AddPush
  <2>2. CASE stop
    BY <1>11, <2>1, <2>2 DEF AddPush
  <2>3. CASE ~stop
    BY <1>11, <2>1, <2>3 DEF AddPush
  <2>4. QED
    BY <2>2, <2>3
<1>12. ASSUME NEW a \in Adder, AddNotify(a) PROVE TypeOK' /\ PlacesOK'
  <2>1. TypeOK' /\ \A b \in Adder : apc'[b] # "idle" <=> arg'[b] \in Task
    BY <1>12 DEF AddNotify
  <2>2. \A w \in Worker : w \in blocked' <=> wpc'[w] = "wait"
    BY <1>12 DEF AddNotify
  <2>3. QED
    BY <2>1, <2>2
<1>13. ASSUME StopStore PROVE TypeOK' /\ PlacesOK'
  BY <1>13 DEF StopStore
<1>14. ASSUME StopNotify PROVE TypeOK' /\ PlacesOK'
  BY <1>14 DEF StopNotify
<1>15. ASSUME StopJoin PROVE TypeOK' /\ PlacesOK'
  BY <1>15 DEF StopJoin
<1>16. CASE UNCHANGED vars
  BY <1>16 DEF vars
<1>17. QED
  BY <1>1, <1>2, <1>3, <1>4, <1>5, <1>6, <1>7, <1>8, <1>9, <1>10, <1>11, <1>12,
     <1>13, <1>14, <1>15, <1>16 DEF Next, WorkerStep, AdderStep, StopStep, Idle

\* The mutex excludes, whatever wakes the workers.
LEMMA MutexKept == PoolInv /\ [Next]_vars => MutexExact'
<1> USE PoolAssumption DEF PoolInv, TypeOK, PlacesOK, MutexExact, WorkerHolds, AdderHolds,
        WGoto, AGoto
<1> SUFFICES ASSUME PoolInv, [Next]_vars PROVE MutexExact'
  OBVIOUS
<1>1. ASSUME NEW w \in Worker, WorkerStep(w) \/ SpuriousWakeup(w) PROVE MutexExact'
  BY <1>1 DEF WorkerStep, SpuriousWakeup, WorkerTest, WorkerLock, WorkerPred, WorkerBlock,
     WorkerLeave, WorkerPop, WorkerFinish
<1>2. ASSUME NEW a \in Adder, AdderStep(a) PROVE MutexExact'
  BY <1>2 DEF AdderStep, AddLock, AddPush, AddNotify
<1>3. ASSUME NEW a \in Adder, NEW t \in Task, AddCall(a, t) PROVE MutexExact'
  BY <1>3 DEF AddCall
<1>4. ASSUME StopStore \/ StopStep PROVE MutexExact'
  BY <1>4 DEF StopStore, StopStep, StopNotify, StopJoin
<1>5. CASE UNCHANGED vars
  BY <1>5 DEF vars
<1>6. QED
  BY <1>1, <1>2, <1>3, <1>4, <1>5 DEF Next, Idle

\* What the predicate found is still so when the worker acts on it.
LEMMA PredicateStable == PoolInv /\ [Next]_vars => PredicateKept'
<1> USE PoolAssumption DEF PoolInv, TypeOK, PlacesOK, PredicateKept, WGoto, AGoto, poolVars
<1> SUFFICES ASSUME PoolInv, [Next]_vars PROVE PredicateKept'
  OBVIOUS
<1>1. ASSUME NEW w \in Worker, WorkerStep(w) \/ SpuriousWakeup(w), ~WorkerPop(w)
      PROVE  PredicateKept'
  BY <1>1 DEF WorkerStep, SpuriousWakeup, WorkerTest, WorkerLock, WorkerPred, WorkerBlock,
     WorkerLeave, WorkerFinish
<1>2. ASSUME NEW w \in Worker, WorkerPop(w) PROVE PredicateKept'
  <2>1. \A u \in Worker \ {w} : ~WorkerHolds(u)
    BY <1>2 DEF WorkerPop, MutexExact, WorkerHolds
  <2>2. QED
    BY <1>2, <2>1 DEF WorkerPop, WorkerHolds
<1>3. ASSUME NEW a \in Adder, AddPush(a) PROVE PredicateKept'
  <2>1. Append(tasks, arg[a]) # <<>>
    BY <1>3 DEF AddPush
  <2>2. QED
    BY <1>3, <2>1 DEF AddPush
<1>4. ASSUME NEW a \in Adder, AddLock(a) \/ AddNotify(a) PROVE PredicateKept'
  BY <1>4 DEF AddLock, AddNotify
<1>5. ASSUME NEW a \in Adder, NEW t \in Task, AddCall(a, t) PROVE PredicateKept'
  BY <1>5 DEF AddCall
<1>6. ASSUME StopStore \/ StopStep PROVE PredicateKept'
  BY <1>6 DEF StopStore, StopStep, StopNotify, StopJoin
<1>7. CASE UNCHANGED vars
  BY <1>7 DEF vars
<1>8. QED
  BY <1>1, <1>2, <1>3, <1>4, <1>5, <1>6, <1>7 DEF Next, Idle, AdderStep

\* The whole invariant holds from the start on.
LEMMA PoolInvariant == Spec => []PoolInv
<1>1. ASSUME Init PROVE PoolInv
  <2>1. TypeOK
    <3>1. \A w \in Worker : wpc[w] = "run" <=> job[w] \in Task
      BY <1>1, PoolAssumption DEF Init
    <3>2. /\ wpc \in [Worker -> WorkerPc] /\ apc \in [Adder -> AdderPc]
          /\ job \in [Worker -> Task \cup {None}] /\ arg \in [Adder -> Task \cup {None}]
      BY <1>1 DEF Init, WorkerPc, AdderPc
    <3>3. spc \in StopPc /\ tasks \in Seq(Task)
      BY <1>1, <<>> \in Seq(Task) DEF Init, StopPc
    <3>4. stop \in BOOLEAN
      BY <1>1, Zenon DEF Init
    <3>5. QED
      BY <1>1, <3>1, <3>2, <3>3, <3>4 DEF Init, TypeOK
  <2>2. PlacesOK /\ MutexExact /\ PredicateKept
    BY <1>1, PoolAssumption DEF Init, PlacesOK, MutexExact, PredicateKept, WorkerHolds,
       AdderHolds
  <2>3. QED
    BY <2>1, <2>2 DEF PoolInv
<1>2. PoolInv /\ [Next]_vars => PoolInv'
  BY PoolTypes, MutexKept, PredicateStable DEF PoolInv
<1>3. QED
  BY <1>1, <1>2, PTL DEF Spec

\* front() and pop() of a worker never meet an empty queue, though wait() also
\* returns for _stop and wakes spuriously, and any number of workers compete.
THEOREM PopsFindTasks == Spec => []PopFindsTask
<1>1. PoolInv => PopFindsTask
  BY DEF PoolInv, PredicateKept, PopFindsTask
<1>2. QED
  BY <1>1, PoolInvariant, PTL

\* At most one thread is inside a critical section of the pool.
THEOREM PoolExclusion ==
    Spec => []( /\ \A u, w \in Worker : WorkerHolds(u) /\ WorkerHolds(w) => u = w
                /\ \A a, b \in Adder : AdderHolds(a) /\ AdderHolds(b) => a = b
                /\ \A w \in Worker, a \in Adder : ~(WorkerHolds(w) /\ AdderHolds(a)) )
<1>1. PoolInv => /\ \A u, w \in Worker : WorkerHolds(u) /\ WorkerHolds(w) => u = w
                 /\ \A a, b \in Adder : AdderHolds(a) /\ AdderHolds(b) => a = b
                 /\ \A w \in Worker, a \in Adder : ~(WorkerHolds(w) /\ AdderHolds(a))
  BY PoolAssumption DEF PoolInv, MutexExact
<1>2. QED
  BY <1>1, PoolInvariant, PTL
-----------------------------------------------------------------------------
(* stop() and the workers that sleep.                                       *)

\* _stop is set by stop(), before it notifies, and stays.
StopStored == stop <=> spc # "running"

\* Once stop() has notified, no worker can fall asleep that was not about to.
LEMMA AsleepInductive ==
    PoolInv /\ StopStored /\ AsleepWasMissed /\ [Next]_vars
        => StopStored' /\ AsleepWasMissed'
<1> USE PoolAssumption DEF PoolInv, TypeOK, PlacesOK, StopStored, AsleepWasMissed, WGoto,
        AGoto, StopPc
<1> SUFFICES ASSUME PoolInv, StopStored, AsleepWasMissed, [Next]_vars
             PROVE  StopStored' /\ AsleepWasMissed'
  OBVIOUS
<1>1. ASSUME NEW w \in Worker, WorkerStep(w) \/ SpuriousWakeup(w)
      PROVE  StopStored' /\ AsleepWasMissed'
  BY <1>1 DEF WorkerStep, SpuriousWakeup, WorkerTest, WorkerLock, WorkerPred, WorkerBlock,
     WorkerLeave, WorkerPop, WorkerFinish
<1>2. ASSUME NEW a \in Adder, AdderStep(a) PROVE StopStored' /\ AsleepWasMissed'
  BY <1>2 DEF AdderStep, AddLock, AddPush, AddNotify
<1>3. ASSUME NEW a \in Adder, NEW t \in Task, AddCall(a, t)
      PROVE  StopStored' /\ AsleepWasMissed'
  BY <1>3 DEF AddCall
<1>4. ASSUME StopStore PROVE StopStored' /\ AsleepWasMissed'
  BY <1>4 DEF StopStore
<1>5. ASSUME StopNotify PROVE StopStored' /\ AsleepWasMissed'
  BY <1>5 DEF StopNotify
<1>6. ASSUME StopJoin PROVE StopStored' /\ AsleepWasMissed'
  BY <1>6 DEF StopJoin
<1>7. CASE UNCHANGED vars
  BY <1>7 DEF vars
<1>8. QED
  BY <1>1, <1>2, <1>3, <1>4, <1>5, <1>6, <1>7 DEF Next, Idle, StopStep

\* Every worker that sleeps after the notify_all of stop(), the only ones its
\* join() can hang on, had evaluated the predicate of wait() before the store.
THEOREM OnlyMissedSleep == Spec => []AsleepWasMissed
<1>1. Init => StopStored /\ AsleepWasMissed
  BY DEF Init, StopStored, AsleepWasMissed
<1>2. QED
  BY <1>1, PoolInvariant, AsleepInductive, PTL DEF Spec

-----------------------------------------------------------------------------
(* The pool is a FIFO mailbox of tasks.                                     *)

Adding(a) == apc[a] \in {"lock", "push"}

\* A task not added yet, one being added, a queued one, a started one and a
\* refused one are different tasks.
OneStage ==
    /\ \A a \in Adder : Adding(a) => arg[a] \notin todo \cup started \cup refused
    /\ \A a \in Adder : Adding(a) => ~Queued(arg[a])
    /\ todo \cap (started \cup refused) = {}
    /\ \A t \in Task : Queued(t) => t \notin todo \cup started \cup refused
    /\ started \cap refused = {}

\* No task is twice in the queue, in two calls of add() or in two workers.
NoCopies ==
    /\ \A i, j \in DOMAIN tasks : tasks[i] = tasks[j] => i = j
    /\ \A a, b \in Adder : Adding(a) /\ Adding(b) /\ arg[a] = arg[b] => a = b
    /\ \A u, w \in Worker : job[u] = job[w] => u = w \/ job[u] = None
    /\ \A w \in Worker : job[w] # None => job[w] \in started

QueueInv == OneStage /\ NoCopies

\* The steps that move no task.
LEMMA TasksUnmoved ==
    ASSUME QueueInv, UNCHANGED <<tasks, todo, started, refused, job>>,
           \A a \in Adder : Adding(a)' => Adding(a) /\ arg'[a] = arg[a]
    PROVE  QueueInv' /\ UNCHANGED Q!mailboxVars
<1>1. \A t \in Task : (Queued(t)' <=> Queued(t)) /\ (Called(t)' <=> Called(t))
  BY DEF Queued, Called
<1>2. \A a \in Adder : Adding(a)' => (Queued(arg[a])' <=> Queued(arg[a]))
  BY DEF Queued
<1>3. QueueInv'
  BY <1>1, <1>2 DEF QueueInv, OneStage, NoCopies
<1>4. \A t \in Task : TaskStage(t)' = TaskStage(t)
  BY <1>1 DEF TaskStage
<1>5. QED
  BY <1>3, <1>4 DEF Q!mailboxVars

\* add() is called with a task that nobody has added.
LEMMA CalledAdd ==
    ASSUME PoolInv, QueueInv, NEW a \in Adder, NEW t \in Task, AddCall(a, t)
    PROVE  QueueInv' /\ UNCHANGED Q!mailboxVars
<1>1. /\ t \in todo /\ todo' = todo \ {t}
      /\ arg' = [arg EXCEPT ![a] = t] /\ apc' = [apc EXCEPT ![a] = "lock"]
      /\ arg \in [Adder -> Task \cup {None}] /\ apc \in [Adder -> AdderPc]
      /\ apc[a] = "idle"
      /\ UNCHANGED <<tasks, started, refused, job>>
  BY DEF AddCall, AGoto, PoolInv, TypeOK
<1>2. \A x \in Task : (Queued(x)' <=> Queued(x)) /\ (Called(x)' <=> Called(x))
  BY <1>1 DEF Queued, Called
<1>3. \A b \in Adder : Adding(b)' => IF b = a THEN arg'[b] = t ELSE Adding(b) /\ arg'[b] = arg[b]
  BY <1>1 DEF Adding
<1>4. \A b \in Adder : Adding(b) => arg[b] \in Task
  BY DEF Adding, PoolInv, PlacesOK
<1>5. OneStage'
  BY <1>1, <1>2, <1>3, <1>4 DEF QueueInv, OneStage
<1>6. NoCopies'
  BY <1>1, <1>3 DEF QueueInv, OneStage, NoCopies
<1>7. \A x \in Task : TaskStage(x)' = TaskStage(x)
  BY <1>1, <1>2 DEF TaskStage
<1>8. QED
  BY <1>1, <1>5, <1>6, <1>7 DEF QueueInv, Q!mailboxVars

\* add() throws: the task will never run.
LEMMA RefusedAdd ==
    ASSUME PoolInv, QueueInv, NEW a \in Adder, AddPush(a), stop
    PROVE  QueueInv' /\ Q!Release(arg[a])
<1> DEFINE t == arg[a]
<1>1. /\ t \in Task /\ Adding(a) /\ refused' = refused \cup {t}
      /\ apc' = [apc EXCEPT ![a] = "idle"] /\ apc \in [Adder -> AdderPc]
      /\ arg' = [arg EXCEPT ![a] = None] /\ arg \in [Adder -> Task \cup {None}]
      /\ UNCHANGED <<tasks, started, todo, job>>
  BY DEF AddPush, AGoto, PoolInv, TypeOK, PlacesOK, Adding
<1>2. \A x \in Task : (Queued(x)' <=> Queued(x)) /\ (Called(x)' <=> Called(x))
  BY <1>1 DEF Queued, Called
<1>3. \A b \in Adder : Adding(b)' => b # a /\ Adding(b) /\ arg'[b] = arg[b]
  BY <1>1 DEF Adding
<1>4. \A b \in Adder : Adding(b) => arg[b] \in Task
  BY DEF Adding, PoolInv, PlacesOK
<1>5. ~Queued(t) /\ ~Called(t) /\ t \notin todo \cup started \cup refused
  BY <1>1, PoolAssumption DEF QueueInv, OneStage, NoCopies, Called
<1>6. OneStage'
  BY <1>1, <1>2, <1>3, <1>4, <1>5 DEF QueueInv, OneStage, NoCopies
<1>7. NoCopies'
  BY <1>1, <1>3 DEF QueueInv, NoCopies
<1>8. /\ TaskStage(t) = "new"
      /\ \A x \in Task : TaskStage(x)' = IF x = t THEN "released" ELSE TaskStage(x)
  BY <1>1, <1>2, <1>5 DEF TaskStage
<1>9. QED
  BY <1>1, <1>6, <1>7, <1>8 DEF QueueInv, Q!Release
\* add() queues its task at the back.
LEMMA PushedTask ==
    ASSUME PoolInv, QueueInv, NEW a \in Adder, AddPush(a), ~stop
    PROVE  QueueInv' /\ Q!Post("pool", arg[a])
<1> DEFINE t == arg[a]
<1>1. /\ t \in Task /\ Adding(a) /\ tasks' = Append(tasks, t) /\ tasks \in Seq(Task)
      /\ apc' = [apc EXCEPT ![a] = "notify"] /\ apc \in [Adder -> AdderPc]
      /\ UNCHANGED <<arg, started, todo, job, refused>>
  BY DEF AddPush, AGoto, PoolInv, TypeOK, PlacesOK, Adding
<1> HIDE DEF t
<1>2. /\ Len(tasks) \in Nat /\ DOMAIN tasks = 1 .. Len(tasks)
      /\ DOMAIN tasks' = 1 .. Len(tasks) + 1
      /\ \A i \in DOMAIN tasks : tasks'[i] = tasks[i]
      /\ tasks'[Len(tasks) + 1] = t
  BY <1>1
<1>3. \A i \in DOMAIN tasks' : i \in DOMAIN tasks \/ i = Len(tasks) + 1
  BY <1>2
<1>4. \A x \in Task : Queued(x)' <=> Queued(x) \/ x = t
  BY <1>2, <1>3 DEF Queued
<1>5. \A x \in Task : Called(x)' <=> Called(x)
  BY <1>1 DEF Called
<1>6. \A b \in Adder : Adding(b)' => b # a /\ Adding(b) /\ arg[b] \in Task
  BY <1>1 DEF Adding, PoolInv, PlacesOK
<1>7. ~Queued(t) /\ ~Called(t) /\ t \notin todo \cup started \cup refused
  BY <1>1, PoolAssumption DEF QueueInv, OneStage, NoCopies, Called, t
<1>8. OneStage'
  BY <1>1, <1>4, <1>6, <1>7 DEF QueueInv, OneStage, NoCopies, t
<1>9. NoCopies'
  <2>1. \A i \in DOMAIN tasks : tasks[i] # t
    BY <1>7 DEF Queued
  <2>2. \A i, j \in DOMAIN tasks' : tasks'[i] = tasks'[j] => i = j
    BY <1>2, <1>3, <2>1 DEF QueueInv, NoCopies
  <2>3. QED
    BY <1>1, <1>6, <2>2 DEF QueueInv, NoCopies
<1>10. /\ TaskStage(t) = "new"
       /\ \A x \in Task : TaskStage(x)' = IF x = t THEN "posted" ELSE TaskStage(x)
  BY <1>1, <1>4, <1>5, <1>7 DEF TaskStage
<1>11. QED
  BY <1>1, <1>8, <1>9, <1>10 DEF QueueInv, Q!Post, t

\* A worker takes the oldest task.
LEMMA PoppedTask ==
    ASSUME PoolInv, QueueInv, NEW w \in Worker, WorkerPop(w)
    PROVE  QueueInv' /\ Head(tasks) \in Task /\ Q!Take("pool", Head(tasks))
<1> DEFINE t == Head(tasks)
<1>1. /\ tasks \in Seq(Task) /\ tasks # <<>> /\ tasks' = Tail(tasks)
      /\ job \in [Worker -> Task \cup {None}] /\ job' = [job EXCEPT ![w] = t]
      /\ job[w] = None /\ started' = started \cup {t}
      /\ UNCHANGED <<apc, arg, todo, refused>>
  BY DEF WorkerPop, PoolInv, TypeOK, PredicateKept
<1>2. /\ Len(tasks) \in Nat \ {0} /\ DOMAIN tasks = 1 .. Len(tasks)
      /\ DOMAIN tasks' = 1 .. Len(tasks) - 1
      /\ \A i \in DOMAIN tasks' : tasks'[i] = tasks[i + 1]
      /\ t = tasks[1] /\ t \in Task
  BY <1>1
<1> HIDE DEF t
<1>3. /\ 1 \in DOMAIN tasks
      /\ \A i \in DOMAIN tasks' : i + 1 \in DOMAIN tasks /\ i + 1 # 1
      /\ \A i \in DOMAIN tasks : i # 1 => i - 1 \in DOMAIN tasks' /\ tasks'[i - 1] = tasks[i]
  BY <1>2
<1>4. \A x \in Task : Queued(x)' <=> Queued(x) /\ x # t
  <2>1. \A i \in DOMAIN tasks : tasks[i] = t => i = 1
    BY <1>2, <1>3 DEF QueueInv, NoCopies
  <2>2. QED
    BY <1>2, <1>3, <2>1 DEF Queued
<1>5. Queued(t) /\ t \notin todo \cup started \cup refused /\ ~Called(t)
  <2>1. Queued(t)
    BY <1>2, <1>3 DEF Queued
  <2>2. QED
    BY <1>2, <2>1, PoolAssumption DEF QueueInv, OneStage, NoCopies, Called
<1>6. \A x \in Task : Called(x)' <=> Called(x) \/ x = t
  BY <1>1, PoolAssumption DEF Called
<1>7. \A a \in Adder : Adding(a)' => Adding(a) /\ arg[a] \in Task /\ arg[a] # t
  BY <1>1, <1>5 DEF Adding, PoolInv, PlacesOK, QueueInv, OneStage
<1>8. OneStage'
  BY <1>1, <1>4, <1>5, <1>7 DEF QueueInv, OneStage
<1>9. NoCopies'
  <2>1. \A i, j \in DOMAIN tasks' : tasks'[i] = tasks'[j] => i = j
    <3>1. \A i, j \in DOMAIN tasks' : tasks'[i] = tasks'[j] => i + 1 = j + 1
      BY <1>2, <1>3 DEF QueueInv, NoCopies
    <3>2. QED
      BY <1>2, <3>1
  <2>2. \A u, v \in Worker : job'[u] = job'[v] => u = v \/ job'[u] = None
    BY <1>1, <1>5 DEF QueueInv, NoCopies, Called
  <2>3. \A v \in Worker : job'[v] # None => job'[v] \in started'
    BY <1>1 DEF QueueInv, NoCopies
  <2>4. QED
    BY <1>1, <1>7, <2>1, <2>2, <2>3 DEF QueueInv, NoCopies
<1>10. /\ TaskStage(t) = "posted"
       /\ \A x \in Task : TaskStage(x)' = IF x = t THEN "taken" ELSE TaskStage(x)
  BY <1>1, <1>4, <1>5, <1>6 DEF TaskStage
<1>11. QED
  BY <1>1, <1>2, <1>8, <1>9, <1>10 DEF QueueInv, Q!Take, t

\* A task that returned is done with.
LEMMA FinishedTask ==
    ASSUME PoolInv, QueueInv, NEW w \in Worker, WorkerFinish(w)
    PROVE  QueueInv' /\ job[w] \in Task /\ Q!Release(job[w])
<1> DEFINE t == job[w]
<1>1. /\ t \in Task /\ job \in [Worker -> Task \cup {None}]
      /\ job' = [job EXCEPT ![w] = None]
      /\ UNCHANGED <<tasks, apc, arg, todo, started, refused>>
  BY DEF WorkerFinish, PoolInv, TypeOK, poolVars
<1>2. \A x \in Task : Queued(x)' <=> Queued(x)
  BY <1>1 DEF Queued
<1>3. \A x \in Task : Called(x)' <=> Called(x) /\ x # t
  BY <1>1, PoolAssumption DEF Called, QueueInv, NoCopies
<1>4. \A a \in Adder : Adding(a)' => Adding(a) /\ arg[a] \in Task
  BY <1>1 DEF Adding, PoolInv, PlacesOK
<1>5. OneStage'
  BY <1>1, <1>2, <1>4 DEF QueueInv, OneStage
<1>6. NoCopies'
  BY <1>1, <1>4, PoolAssumption DEF QueueInv, NoCopies
<1>7. Called(t) /\ t \in started
  BY <1>1, PoolAssumption DEF Called, QueueInv, NoCopies
<1>8. /\ TaskStage(t) = "taken"
      /\ \A x \in Task : TaskStage(x)' = IF x = t THEN "released" ELSE TaskStage(x)
  BY <1>1, <1>2, <1>3, <1>7 DEF TaskStage
<1>9. QED
  BY <1>1, <1>5, <1>6, <1>8 DEF QueueInv, Q!Release

\* Every step of the threads is a step of the mailbox or leaves it alone.
LEMMA QueueStep ==
    ASSUME PoolInv, QueueInv, [Next]_vars
    PROVE  QueueInv' /\ [Q!MailboxNext]_(Q!mailboxVars)
<1> USE DEF Q!MailboxNext
<1>1. ASSUME NEW a \in Adder, AddPush(a)
      PROVE  QueueInv' /\ [Q!MailboxNext]_(Q!mailboxVars)
  <2>1. arg[a] \in Task
    BY <1>1 DEF AddPush, PoolInv, PlacesOK
  <2>2. QED
    BY <1>1, <2>1, PushedTask, RefusedAdd
<1>2. ASSUME NEW w \in Worker, WorkerPop(w)
      PROVE  QueueInv' /\ [Q!MailboxNext]_(Q!mailboxVars)
  BY <1>2, PoppedTask
<1>3. ASSUME NEW w \in Worker, WorkerFinish(w)
      PROVE  QueueInv' /\ [Q!MailboxNext]_(Q!mailboxVars)
  BY <1>3, FinishedTask
<1>4. ASSUME NEW a \in Adder, NEW t \in Task, AddCall(a, t)
      PROVE  QueueInv' /\ [Q!MailboxNext]_(Q!mailboxVars)
  BY <1>4, CalledAdd
<1>5. CASE /\ \A a \in Adder : ~AddPush(a) /\ \A t \in Task : ~AddCall(a, t)
           /\ \A w \in Worker : ~WorkerPop(w) /\ ~WorkerFinish(w)
  <2>1. UNCHANGED <<tasks, todo, started, refused, job>>
    BY <1>5 DEF Next, WorkerStep, AdderStep, StopStep, Idle, vars, poolVars, WorkerTest,
       WorkerLock, WorkerPred, WorkerBlock, SpuriousWakeup, WorkerLeave, AddLock, AddNotify,
       StopStore, StopNotify, StopJoin
  <2>2. \A a \in Adder : Adding(a)' => Adding(a) /\ arg'[a] = arg[a]
    BY <1>5 DEF Next, WorkerStep, AdderStep, StopStep, Idle, vars, WorkerTest,
       WorkerLock, WorkerPred, WorkerBlock, SpuriousWakeup, WorkerLeave, AddLock, AddNotify,
       StopStore, StopNotify, StopJoin, Adding, AGoto, PoolInv, TypeOK
  <2>3. QED
    BY <2>1, <2>2, TasksUnmoved
<1>6. QED
  BY <1>1, <1>2, <1>3, <1>4, <1>5

\* The pool implements a FIFO mailbox: tasks start in the order in which they
\* were queued, each at most once, and a task that add() refused never.
THEOREM QueueImplemented == Spec => ImplementsQueue
<1>1. ASSUME Init PROVE QueueInv /\ Q!MailboxInit
  <2>1. \A t \in Task : ~Queued(t) /\ ~Called(t)
    BY <1>1, PoolAssumption DEF Init, Queued, Called
  <2>2. \A a \in Adder : ~Adding(a)
    BY <1>1 DEF Init, Adding
  <2>3. QueueInv
    BY <1>1, <2>1, <2>2 DEF Init, QueueInv, OneStage, NoCopies
  <2>4. QED
    BY <1>1, <2>1, <2>3 DEF Init, Q!MailboxInit, TaskStage
<1>2. PoolInv /\ QueueInv /\ [Next]_vars => QueueInv' /\ [Q!MailboxNext]_(Q!mailboxVars)
  BY QueueStep
<1>3. QED
  BY <1>1, <1>2, PoolInvariant, PTL DEF Spec, ImplementsQueue, Q!MailboxSpec
=============================================================================
