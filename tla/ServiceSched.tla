---------------------------- MODULE ServiceSched ----------------------------
(***************************************************************************)
(* Scheduling of Lua services on the thread pool: Runnable::schedule,      *)
(* Service (run, message queue, stop) and ServiceManager (pushMessage,     *)
(* schedule, newservice, exitservice).                                     *)
(*                                                                         *)
(* Threads:                                                                *)
(*   "main"  the loop of main.cpp, which calls ServiceManager::schedule()  *)
(*           every millisecond;                                            *)
(*   "net"   NetworkManager::run, which calls pushMessage for each message *)
(*           read from a socket;                                           *)
(*   Worker  the threads of the pool left for services (NetworkManager::run*)
(*           never returns and keeps one thread of the pool for itself).   *)
(*                                                                         *)
(* Every read or write of memory shared by threads is a step of its own;   *)
(* an operation under a lock (Spinlocker, std::mutex) is one step.  Lua    *)
(* code is opaque: a script takes a while, may call cc.newservice, which   *)
(* runs the script of the new service before it returns, and may call      *)
(* cc.exitservice last.                                                    *)
(*                                                                         *)
(* A failed assertion aborts the process, and a use of freed memory leaves *)
(* its behaviour undefined: both end the behaviour modelled, with the kind *)
(* recorded in fault.                                                      *)
(***************************************************************************)
EXTENDS Sequences, FiniteSets, Naturals

CONSTANTS
    Service,        \* the services that newservice may create
    InitService,    \* the one ServiceManager::init made: its Lua code routes messages
    Message,        \* the messages the network thread will receive
    Worker,         \* the threads of the pool that serve services
    None            \* nullptr

ASSUME ServiceAssumption ==
    /\ InitService \in Service
    /\ None \notin Service \cup Message
    /\ "net" \notin Worker

VARIABLES
    registered,  \* ServiceManager::_services; a service is deleted as it is erased
    made,        \* services that were created
    creating,    \* the services whose init() a thread is in, innermost first
    failed,      \* history: services whose init() failed, deleted by newservice
    stopped,     \* Service::_isstop
    running,     \* Runnable::_isrunning
    queue,       \* Service::_msgQueue
    tasks,       \* ThreadPool::_tasks: the service each queued task will run
    pc,          \* where "main" and "net" are in ServiceManager and Runnable
    target,      \* the Service* they hold
    shutlist,    \* main's two lists of this tick, less what it has dealt with
    schelist,
    netmsg,      \* the message pushMessage was called with
    wpc,         \* where a worker is in the task it took
    wsvc,        \* the service of that task
    hand,        \* the message Service::run took from the queue
    fresh,       \* messages not received yet
    released,    \* messages given to release_message
    fault,       \* what ended the process, or "none"
    raced        \* history: services whose _isrunning was set when already set

mainVars == <<shutlist, schelist>>
netVars == <<netmsg, fresh>>
workerVars == <<wpc, wsvc, hand>>
newVars == <<made, creating, failed>>
mapVars == <<registered, newVars>>
vars == <<mapVars, stopped, running, queue, tasks, pc, target, mainVars,
          netVars, workerVars, released, fault, raced>>

Scheduler == {"main", "net"}
Caller == {"net"} \cup Worker      \* the threads that run scripts
SchedulerPc == {"idle", "dispatch", "lookup", "push", "need", "check", "set", "add"}
WorkerPc == {"idle", "loop", "peek", "assert", "pop", "handle", "done"}
Fault == {"none", "assert", "popempty", "uaf"}

\* The start-up has created the init service and others.
Init ==
    /\ registered \in SUBSET Service /\ InitService \in registered
    /\ made = registered
    /\ creating = [t \in Caller |-> <<>>]
    /\ failed = {}
    /\ stopped = {}
    /\ running = [s \in Service |-> FALSE]
    /\ queue = [s \in Service |-> <<>>]
    /\ tasks = <<>>
    /\ pc = [t \in Scheduler |-> "idle"]
    /\ target = [t \in Scheduler |-> None]
    /\ shutlist = {} /\ schelist = {}
    /\ netmsg = None
    /\ wpc = [w \in Worker |-> "idle"]
    /\ wsvc = [w \in Worker |-> None]
    /\ hand = [w \in Worker |-> None]
    /\ fresh = Message
    /\ released = {}
    /\ fault = "none"
    /\ raced = {}

Goto(t, label) == pc' = [pc EXCEPT ![t] = label]
WGoto(w, label) == wpc' = [wpc EXCEPT ![w] = label]

-----------------------------------------------------------------------------
(* ServiceManager::schedule(Service* ) and Runnable::schedule, which main   *)
(* and the network thread both run.                                         *)

\* need_schedule(): the service is not stopped and has a message.
NeedSchedule(t) ==
    /\ pc[t] = "need" /\ target[t] \in registered
    /\ Goto(t, IF target[t] \notin stopped /\ queue[target[t]] # <<>>
               THEN "check" ELSE "idle")
    /\ UNCHANGED <<mapVars, stopped, running, queue, tasks, target, mainVars,
                   netVars, workerVars, released, fault, raced>>

\* if (!this->_isrunning): an unlocked read, apart from the write below.
CheckRunning(t) ==
    /\ pc[t] = "check" /\ target[t] \in registered
    /\ Goto(t, IF running[target[t]] THEN "idle" ELSE "set")
    /\ UNCHANGED <<mapVars, stopped, running, queue, tasks, target, mainVars,
                   netVars, workerVars, released, fault, raced>>

\* this->_isrunning = true
SetRunning(t) ==
    /\ pc[t] = "set" /\ target[t] \in registered
    /\ running' = [running EXCEPT ![target[t]] = TRUE]
    /\ raced' = IF running[target[t]] THEN raced \cup {target[t]} ELSE raced
    /\ Goto(t, "add")
    /\ UNCHANGED <<mapVars, stopped, queue, tasks, target, mainVars, netVars,
                   workerVars, released, fault>>

\* Variant: looks at the queue again after the flag was set, and gives up.
AddTaskIfPending(t) ==
    /\ pc[t] = "add"
    /\ tasks' = IF queue[target[t]] # <<>> THEN Append(tasks, target[t]) ELSE tasks
    /\ Goto(t, "idle")
    /\ UNCHANGED <<mapVars, stopped, running, queue, target, mainVars, netVars,
                   workerVars, released, fault, raced>>

\* sThreadPool.add(...), under the mutex of the pool.
AddTask(t) ==
    /\ pc[t] = "add"
    /\ tasks' = Append(tasks, target[t])
    /\ Goto(t, "idle")
    /\ UNCHANGED <<mapVars, stopped, running, queue, target, mainVars, netVars,
                   workerVars, released, fault, raced>>

-----------------------------------------------------------------------------
(* ServiceManager::schedule(), one call of it for each turn of main's loop. *)

\* Variant: a stopped service is put in both lists.
MainSnapshotBoth ==
    /\ pc["main"] = "idle" /\ shutlist = {} /\ schelist = {}
    /\ shutlist' = registered \cap stopped
    /\ schelist' = registered
    /\ UNCHANGED <<mapVars, stopped, running, queue, tasks, pc, target, netVars,
                   workerVars, released, fault, raced>>

\* Variant: stopped services are skipped instead of collected.
MainSnapshotLiveOnly ==
    /\ pc["main"] = "idle" /\ shutlist = {} /\ schelist = {}
    /\ shutlist' = {}
    /\ schelist' = registered \ stopped
    /\ UNCHANGED <<mapVars, stopped, running, queue, tasks, pc, target, netVars,
                   workerVars, released, fault, raced>>

\* traverse() copies the services into the two lists under the lock of the map.
MainSnapshot ==
    /\ pc["main"] = "idle" /\ shutlist = {} /\ schelist = {}
    /\ shutlist' = registered \cap stopped
    /\ schelist' = registered \ stopped
    /\ UNCHANGED <<mapVars, stopped, running, queue, tasks, pc, target, netVars,
                   workerVars, released, fault, raced>>

\* eraseKey and SafeDelete of a stopped service, whatever its task is doing.
MainReap(s) ==
    /\ pc["main"] = "idle" /\ s \in shutlist \cap registered
    /\ registered' = registered \ {s}
    /\ shutlist' = shutlist \ {s}
    /\ UNCHANGED <<newVars, stopped, running, queue, tasks, pc, target, schelist, netVars,
                   workerVars, released, fault, raced>>

\* Variant: main leaves scheduling to pushMessage and only reaps.
MainPickNothing(s) ==
    /\ pc["main"] = "idle" /\ shutlist = {} /\ s \in schelist
    /\ schelist' = schelist \ {s}
    /\ UNCHANGED <<mapVars, stopped, running, queue, tasks, pc, target, shutlist,
                   netVars, workerVars, released, fault, raced>>

\* The next service of schelist, once shutlist is done.
MainPick(s) ==
    /\ pc["main"] = "idle" /\ shutlist = {} /\ s \in schelist
    /\ schelist' = schelist \ {s}
    /\ target' = [target EXCEPT !["main"] = s]
    /\ Goto("main", "need")
    /\ UNCHANGED <<mapVars, stopped, running, queue, tasks, shutlist, netVars,
                   workerVars, released, fault, raced>>

-----------------------------------------------------------------------------
(* ServiceManager::pushMessage on the network thread.                       *)

\* The exit_failure path: release_message(msg).
Reject ==
    /\ released' = released \cup {netmsg}
    /\ netmsg' = None
    /\ Goto("net", "idle")

\* pushMessage(m) is called, and finds the init service or gives up.
NetReceive(m) ==
    /\ pc["net"] = "idle" /\ netmsg = None /\ m \in fresh
    /\ fresh' = fresh \ {m}
    /\ IF InitService \in registered
       THEN /\ netmsg' = m
            /\ Goto("net", "dispatch")
            /\ UNCHANGED released
       ELSE /\ released' = released \cup {m}
            /\ UNCHANGED <<netmsg, pc>>
    /\ UNCHANGED <<mapVars, stopped, running, queue, tasks, target, mainVars,
                   workerVars, fault, raced>>

\* initservice->dispatch: its Lua code names a service, or fails.
NetDispatch ==
    /\ pc["net"] = "dispatch" /\ creating["net"] = <<>>
    /\ InitService \in registered \ stopped
    /\ stopped' \in {stopped, stopped \cup {InitService}}
    /\ \/ \E s \in Service :
            /\ target' = [target EXCEPT !["net"] = s]
            /\ Goto("net", "lookup")
            /\ UNCHANGED <<released, netmsg>>
       \/ Reject /\ UNCHANGED target
    /\ UNCHANGED <<mapVars, running, queue, tasks, mainVars, fresh,
                   workerVars, fault, raced>>

\* getService(sid), under the lock of the map.
NetLookup ==
    /\ pc["net"] = "lookup"
    /\ IF target["net"] \in registered
       THEN Goto("net", "push") /\ UNCHANGED <<released, netmsg>>
       ELSE Reject
    /\ UNCHANGED <<mapVars, stopped, running, queue, tasks, target, mainVars,
                   fresh, workerVars, fault, raced>>

\* service->pushMessage(msg), under the lock of the queue.
NetPush ==
    /\ pc["net"] = "push" /\ target["net"] \in registered
    /\ queue' = [queue EXCEPT ![target["net"]] = Append(@, netmsg)]
    /\ netmsg' = None
    /\ Goto("net", "need")
    /\ UNCHANGED <<mapVars, stopped, running, tasks, target, mainVars, fresh,
                   workerVars, released, fault, raced>>

-----------------------------------------------------------------------------
(* A worker: the loop of ThreadPool::init, the lambda of Runnable::schedule *)
(* and Service::run.                                                        *)

TakeTask(w) ==
    /\ wpc[w] = "idle" /\ tasks # <<>>
    /\ wsvc' = [wsvc EXCEPT ![w] = Head(tasks)]
    /\ tasks' = Tail(tasks)
    /\ WGoto(w, "loop")
    /\ UNCHANGED <<mapVars, stopped, running, queue, pc, target, mainVars,
                   netVars, hand, released, fault, raced>>

\* Variant: _isrunning is cleared before the run instead of after it.
RunLoopClearing(w) ==
    /\ wpc[w] = "loop" /\ wsvc[w] \in registered
    /\ WGoto(w, IF wsvc[w] \in stopped THEN "done" ELSE "peek")
    /\ running' = [running EXCEPT ![wsvc[w]] = FALSE]
    /\ UNCHANGED <<mapVars, stopped, queue, tasks, pc, target, mainVars,
                   netVars, wsvc, hand, released, fault, raced>>

\* while (!this->isstop())
RunLoop(w) ==
    /\ wpc[w] = "loop" /\ wsvc[w] \in registered
    /\ WGoto(w, IF wsvc[w] \in stopped THEN "done" ELSE "peek")
    /\ UNCHANGED <<mapVars, stopped, running, queue, tasks, pc, target, mainVars,
                   netVars, wsvc, hand, released, fault, raced>>

\* Variant: getMessage pops without looking whether the queue is empty.
RunPeekNever(w) ==
    /\ wpc[w] = "peek" /\ wsvc[w] \in registered
    /\ WGoto(w, "assert")
    /\ UNCHANGED <<mapVars, stopped, running, queue, tasks, pc, target, mainVars,
                   netVars, wsvc, hand, released, fault, raced>>

\* getMessage(): _msgQueue.empty(), without the lock.
RunPeek(w) ==
    /\ wpc[w] = "peek" /\ wsvc[w] \in registered
    /\ WGoto(w, IF queue[wsvc[w]] = <<>> THEN "done" ELSE "assert")
    /\ UNCHANGED <<mapVars, stopped, running, queue, tasks, pc, target, mainVars,
                   netVars, wsvc, hand, released, fault, raced>>

\* pop_front(): assert(this->empty() == false), without the lock.
RunAssert(w) ==
    /\ wpc[w] = "assert" /\ wsvc[w] \in registered
    /\ IF queue[wsvc[w]] = <<>>
       THEN fault' = "assert" /\ UNCHANGED wpc
       ELSE WGoto(w, "pop") /\ UNCHANGED fault
    /\ UNCHANGED <<mapVars, stopped, running, queue, tasks, pc, target, mainVars,
                   netVars, wsvc, hand, released, raced>>

\* Variant: front() without pop_front().
RunPopFrontOnly(w) ==
    /\ wpc[w] = "pop" /\ wsvc[w] \in registered
    /\ queue[wsvc[w]] # <<>>
    /\ hand' = [hand EXCEPT ![w] = Head(queue[wsvc[w]])]
    /\ WGoto(w, "handle")
    /\ UNCHANGED <<mapVars, stopped, running, queue, tasks, pc, target, mainVars,
                   netVars, wsvc, released, fault, raced>>

\* pop_front(): front() and pop_front() of the list under the lock; both are
\* undefined when the list was emptied since the assertion was evaluated.
RunPop(w) ==
    /\ wpc[w] = "pop" /\ wsvc[w] \in registered
    /\ IF queue[wsvc[w]] = <<>>
       THEN fault' = "popempty" /\ UNCHANGED <<queue, hand, wpc>>
       ELSE /\ hand' = [hand EXCEPT ![w] = Head(queue[wsvc[w]])]
            /\ queue' = [queue EXCEPT ![wsvc[w]] = Tail(@)]
            /\ WGoto(w, "handle")
            /\ UNCHANGED fault
    /\ UNCHANGED <<mapVars, stopped, running, tasks, pc, target, mainVars,
                   netVars, wsvc, released, raced>>

\* msgParser(msg) returns and run() releases the message.  The handler may
\* have called cc.exitservice, i.e. Service::stop on its own service.
RunHandle(w) ==
    /\ wpc[w] = "handle" /\ creating[w] = <<>> /\ wsvc[w] \in registered \ stopped
    /\ released' = released \cup {hand[w]}
    /\ hand' = [hand EXCEPT ![w] = None]
    /\ WGoto(w, "loop")
    /\ stopped' \in {stopped, stopped \cup {wsvc[w]}}
    /\ UNCHANGED <<mapVars, running, queue, tasks, pc, target, mainVars, netVars,
                   wsvc, fault, raced>>

\* runnable->_isrunning = false, whichever task set it.
RunDone(w) ==
    /\ wpc[w] = "done" /\ wsvc[w] \in registered
    /\ running' = [running EXCEPT ![wsvc[w]] = FALSE]
    /\ wsvc' = [wsvc EXCEPT ![w] = None]
    /\ WGoto(w, "idle")
    /\ UNCHANGED <<mapVars, stopped, queue, tasks, pc, target, mainVars, netVars,
                   hand, released, fault, raced>>

-----------------------------------------------------------------------------
(* newservice, called by a script: a handler, the dispatch function of the  *)
(* init service or the entry script of a service that is being created.     *)
(* Ids and _autoid are in Lifecycle.                                        *)

InScript(t) ==
    \/ creating[t] # <<>>
    \/ IF t = "net" THEN pc["net"] = "dispatch" ELSE wpc[t] = "handle"

\* The service whose script t is running.
Script(t) ==
    IF creating[t] # <<>> THEN Head(creating[t])
    ELSE IF t = "net" THEN InitService ELSE wsvc[t]

\* The service is in the map before init() has made its Lua state and run its
\* entry script.
CallNewService(t, s) ==
    /\ InScript(t) /\ Script(t) \in registered \ stopped
    /\ s \notin made
    /\ made' = made \cup {s}
    /\ registered' = registered \cup {s}
    /\ creating' = [creating EXCEPT ![t] = <<s>> \o @]
    /\ UNCHANGED <<failed, stopped, running, queue, tasks, pc, target, mainVars, netVars,
                   workerVars, released, fault, raced>>

\* The entry script calls cc.exitservice.
InitExits(t) ==
    /\ creating[t] # <<>> /\ Head(creating[t]) \in registered \ stopped
    /\ stopped' = stopped \cup {Head(creating[t])}
    /\ UNCHANGED <<mapVars, running, queue, tasks, pc, target, mainVars,
                   netVars, workerVars, released, fault, raced>>

\* init() returned true, and newservice returns to the script that called it.
InitDone(t) ==
    /\ creating[t] # <<>> /\ Head(creating[t]) \in registered
    /\ creating' = [creating EXCEPT ![t] = Tail(@)]
    /\ UNCHANGED <<registered, made, failed, stopped, running, queue, tasks, pc, target,
                   mainVars, netVars, workerVars, released, fault, raced>>

\* init() returned false: eraseKey and SafeDelete, whoever else has found the
\* service in the map meanwhile.
InitFails(t) ==
    /\ creating[t] # <<>> /\ Head(creating[t]) \in registered
    /\ registered' = registered \ {Head(creating[t])}
    /\ failed' = failed \cup {Head(creating[t])}
    /\ creating' = [creating EXCEPT ![t] = Tail(@)]
    /\ UNCHANGED <<made, stopped, running, queue, tasks, pc, target, mainVars, netVars,
                   workerVars, released, fault, raced>>

-----------------------------------------------------------------------------
(* Uses of a service that was deleted, by main or by newservice, and of a   *)
(* Lua state that Service::stop has closed or Service::init not made yet.   *)

Initializing(s) == \E t \in Caller : \E i \in DOMAIN creating[t] : creating[t][i] = s

UseAfterFree ==
    /\ \/ \E t \in Scheduler :
            /\ pc[t] \in {"push", "need", "check", "set"}
            /\ target[t] \notin registered
       \/ pc["main"] = "idle" /\ ~(shutlist \subseteq registered)
       \/ \E w \in Worker :
            /\ wpc[w] # "idle" /\ creating[w] = <<>>
            /\ wsvc[w] \notin registered
       \/ \E t \in Caller :
            /\ InScript(t)
            /\ \/ Script(t) \notin registered \ stopped
               \/ creating[t] = <<>> /\ Initializing(Script(t))
    /\ fault' = "uaf"
    /\ UNCHANGED <<mapVars, stopped, running, queue, tasks, pc, target, mainVars,
                   netVars, workerVars, released, raced>>

\* The process is gone.
Dead == fault # "none" /\ UNCHANGED vars

-----------------------------------------------------------------------------
Schedule(t) == NeedSchedule(t) \/ CheckRunning(t) \/ SetRunning(t) \/ AddTask(t)

Main ==
    \/ MainSnapshot
    \/ \E s \in Service : MainReap(s) \/ MainPick(s)
    \/ Schedule("main")

InitReturns(t) == InitDone(t) \/ InitFails(t)

NetStep == NetDispatch \/ InitReturns("net") \/ NetLookup \/ NetPush \/ Schedule("net")

Net == NetStep \/ \E m \in Message : NetReceive(m)

Work(w) ==
    \/ TakeTask(w) \/ RunLoop(w) \/ RunPeek(w) \/ RunAssert(w) \/ RunPop(w)
    \/ RunHandle(w) \/ InitReturns(w) \/ RunDone(w)

\* What a script may do and need not.
Call(t) == InitExits(t) \/ \E s \in Service : CallNewService(t, s)

Next ==
    \/ /\ fault = "none"
       /\ \/ Main \/ Net
          \/ \E w \in Worker : Work(w)
          \/ \E t \in Caller : Call(t)
          \/ UseAfterFree
    \/ Dead

Spec == Init /\ [][Next]_vars

(* The kernel keeps scheduling every thread, and scripts return.  Nothing   *)
(* obliges a client to send.                                                *)
Fairness ==
    /\ WF_vars(fault = "none" /\ Main)
    /\ WF_vars(fault = "none" /\ NetStep)
    /\ \A w \in Worker : WF_vars(fault = "none" /\ Work(w))
    /\ WF_vars(fault = "none" /\ UseAfterFree)

FairSpec == Spec /\ Fairness

-----------------------------------------------------------------------------
(* Properties.                                                              *)

\* Where the runs of service s are: promised by a scheduler that has set
\* _isrunning, waiting in the pool, or active on a worker.
Claiming(s) == {t \in Scheduler : pc[t] = "add" /\ target[t] = s}
Queued(s) == {i \in DOMAIN tasks : tasks[i] = s}
Active(s) == {w \in Worker : wpc[w] # "idle" /\ wsvc[w] = s}

\* Every variable holds a value of the C++ type it stands for.
TypeOK ==
    /\ registered \in SUBSET Service
    /\ made \in SUBSET Service
    /\ creating \in [Caller -> Seq(Service)]
    /\ failed \in SUBSET Service
    /\ stopped \in SUBSET Service
    /\ running \in [Service -> BOOLEAN]
    /\ queue \in [Service -> Seq(Message)]
    /\ tasks \in Seq(Service)
    /\ pc \in [Scheduler -> SchedulerPc]
    /\ target \in [Scheduler -> Service \cup {None}]
    /\ shutlist \in SUBSET Service
    /\ schelist \in SUBSET Service
    /\ netmsg \in Message \cup {None}
    /\ wpc \in [Worker -> WorkerPc]
    /\ wsvc \in [Worker -> Service \cup {None}]
    /\ hand \in [Worker -> Message \cup {None}]
    /\ fresh \in SUBSET Message
    /\ released \in SUBSET Message
    /\ fault \in Fault
    /\ raced \in SUBSET Service

\* _isrunning never blocks a service for good: while it is set, a task that
\* will clear it is on its way (Runnable::schedule, both writers of the flag
\* and any number of overlapping runs included).
FlagHasTask ==
    \A s \in Service :
        running[s] => Claiming(s) # {} \/ Queued(s) # {} \/ Active(s) # {}

\* Overlapping runs of one service, which share its Lua state, come from one
\* interleaving only: two threads both passing the test of _isrunning in
\* Runnable::schedule before either sets it.  Until that happens to s, there
\* is at most one run of s, counting those promised and those queued.
AtMostOneRun(s) ==
    /\ \A t, u \in Claiming(s) : t = u
    /\ \A i, j \in Queued(s) : i = j
    /\ \A v, w \in Active(s) : v = w
    /\ Claiming(s) = {} \/ Queued(s) = {}
    /\ Claiming(s) = {} \/ Active(s) = {}
    /\ Queued(s) = {} \/ Active(s) = {}

ExclusiveUnlessRaced == \A s \in Service \ raced : AtMostOneRun(s)

\* The unlocked empty() of getMessage and of pop_front's assertion are enough
\* for a single consumer: they let an empty list be popped, or the assertion
\* fail, only after the race above.
PopNeedsRace == fault \in {"assert", "popempty"} => raced # {}

\* ServiceManager::schedule() deletes services while its own lists still hold
\* pointers: none of these dangles by main's own doing.  The one service main
\* may find deleted is one whose init() failed on another thread after
\* traverse() had seen it in the map.
MainNeverDangling ==
    /\ shutlist \cup schelist \subseteq registered \cup failed
    /\ pc["main"] # "idle" => target["main"] \in registered \cup failed

\* LockfreeQueue.h:56, assert(this->empty() == false) of pop_front, holds
\* whenever it is evaluated.
PopFrontAssert == fault # "assert"

InQueue(m, s) == \E i \in DOMAIN queue[s] : queue[s][i] = m
InBox(m) == \E s \in Service : InQueue(m, s)
InHand(m) == \E w \in Worker : hand[w] = m

\* The queue, the messages in hand and the released ones make up a mailbox:
\* each message is queued for one service, taken in order, by one run only
\* even when runs overlap, and released once, by the side that owns it.
MessageStage(m) ==
    IF m \in released THEN "released"
    ELSE IF InHand(m) THEN "taken"
    ELSE IF InBox(m) THEN "posted"
    ELSE "new"

M == INSTANCE Mailbox WITH
        box <- queue,
        stage <- [m \in Message |-> MessageStage(m)]

ImplementsMailbox == M!MailboxSpec

\* No message is forgotten in a queue: pushMessage may find the flag set by a
\* run that has already seen the queue empty, and the polling of main makes
\* up for it.  The queue of a service that exits or fails is given up.
QueueDrains ==
    \A s \in Service, m \in Message :
        InQueue(m, s) ~>
            (~InQueue(m, s) \/ s \in stopped \/ s \notin registered \/ fault # "none")

\* A service that called exitservice is deleted, whatever was scheduled.
StoppedIsReaped ==
    \A s \in Service :
        s \in stopped ~> (s \notin registered \/ fault # "none")

=============================================================================
