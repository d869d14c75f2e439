------------------------------ MODULE Lifecycle ------------------------------
(***************************************************************************)
(* The life of the process and of its services: main() from the creation   *)
(* of the pool to its return, ServiceManager (newservice, exitservice, the *)
(* reaping of stopped services, stop), the loop of the network thread and  *)
(* Poll::stop, and the signal handler.                                     *)
(*                                                                         *)
(* Service objects are numbered as they are allocated.  Lua scripts are    *)
(* opaque: while one runs it may create services, listen, send, and exit   *)
(* its service once.  What other modules detail is one step here: a message *)
(* for a service becomes a task (ServiceSched, which also shows that two    *)
(* runs of a service may overlap), the pool stops (ThreadPool), and one     *)
(* socket stands for the table (SocketTable).  A use of a deleted object    *)
(* and a failed assertion end the behaviour.                                *)
(***************************************************************************)
EXTENDS Naturals, Sequences, FiniteSets, Functions

CONSTANTS
    Main, Net,      \* main() and the thread in NetworkManager::run
    Worker,         \* the other threads of the pool
    MaxService,     \* bound: services allocated
    MaxEvent,       \* bound: messages that arrive
    None            \* nullptr, and _initid before it is set

Thread == {Main, Net} \cup Worker
Object == 1 .. MaxService
Id == 0 .. MaxService - 1

ASSUME LifecycleAssumption ==
    /\ Main # Net /\ {Main, Net} \cap Worker = {} /\ IsFiniteSet(Worker)
    /\ MaxService \in Nat \ {0} /\ MaxEvent \in Nat
    /\ None \notin Object \cup Id

VARIABLES
    pc,          \* where each thread is
    halt,        \* sConfig.halt
    services,    \* ServiceManager::_services, from id to object
    autoid,      \* ServiceManager::_autoid
    initid,      \* ServiceManager::_initid
    made,        \* the number of Service objects allocated
    sid,         \* Service::id
    stopped,     \* Service::_isstop
    deleted,     \* objects given to delete
    tasks,       \* ThreadPool::_tasks: services with a message to handle
    reg,         \* the local variable sid of a thread in newservice
    frames,      \* the services whose init() a thread is in, innermost first
    ptr,         \* the Service* a worker or the network thread holds
    shutlist, schelist,   \* the lists of ServiceManager::schedule()
    sock,        \* "none", "open" or "deleted": the socket table
    events,      \* messages still to arrive
    wake,        \* stdout in the epoll set: "none", "pending" or, a regular file, "refused"
    poolstop,    \* ThreadPool::_stop
    missed,      \* pool threads that blocked after the notify_all of stop()
    fault,       \* what ended the process, or "none"
    raced,       \* history: two calls of newservice read the same _autoid
    busy         \* history: work was queued or running as main left its loop

idVars == <<services, autoid, initid, made, sid, reg, raced>>
lifeVars == <<stopped, deleted>>
tickVars == <<shutlist, schelist>>
netVars == <<sock, events, wake>>
stopVars == <<poolstop, missed, busy>>
vars == <<pc, halt, idVars, lifeVars, tasks, frames, ptr, tickVars, netVars,
          stopVars, fault>>

MainPc == {"setid", "loop", "tick", "halt", "drain", "pollstop", "delsock",
           "poolstop", "join", "exited"}
NetPc == {"queued", "test", "wait", "find", "recv", "route", "dispatch", "push",
          "returned"}
WorkerPc == {"idle", "run", "over", "send", "ended"}
ScriptPc == {"id", "store", "assert", "insert", "script"}
Calling == {"id", "store", "assert", "insert"}
Fault == {"none", "uaf", "idassert", "exitassert"}

\* main() runs from ThreadPool::init on; the network thread's task is queued.
Init ==
    /\ pc = [t \in Thread |-> IF t = Main THEN "id" ELSE IF t = Net THEN "queued" ELSE "idle"]
    /\ halt = FALSE
    /\ services = <<>> /\ autoid = 0 /\ initid = None /\ made = 0
    /\ sid = [o \in Object |-> 0]
    /\ stopped = {} /\ deleted = {}
    /\ tasks = {}
    /\ reg = [t \in Thread |-> 0]
    /\ frames = [t \in Thread |-> <<>>]
    /\ ptr = [t \in Thread |-> None]
    /\ shutlist = {} /\ schelist = {}
    /\ sock = "none" /\ events = MaxEvent /\ wake = "none"
    /\ poolstop = FALSE /\ missed = {}
    /\ fault = "none" /\ raced = FALSE /\ busy = FALSE

Goto(t, label) == pc' = [pc EXCEPT ![t] = label]

\* The process ends here.
Fails(kind) ==
    /\ fault' = kind
    /\ UNCHANGED <<pc, halt, idVars, lifeVars, tasks, frames, ptr, tickVars,
                   netVars, stopVars>>

\* The map without a key, as eraseKey leaves it.
EraseKey(k) == Restrict(services, DOMAIN services \ {k})

\* Thread t is done with the pointer it held.
Drop(t) == ptr' = [ptr EXCEPT ![t] = None]

\* A use of object o through a pointer: it fails once o was deleted.
Dangling(o) == o \in deleted /\ Fails("uaf")

-----------------------------------------------------------------------------
(* ServiceManager::newservice, called by main and by scripts.              *)

\* cc.newservice
CallNewService(t) ==
    /\ pc[t] = "script"
    /\ made + Cardinality({u \in Thread : pc[u] \in Calling}) < MaxService
    /\ Goto(t, "id")
    /\ UNCHANGED <<halt, idVars, lifeVars, tasks, frames, ptr, tickVars,
                   netVars, stopVars, fault>>

\* this->_autoid++ is a read and a write of a plain int.
ReadId(t) ==
    /\ pc[t] = "id"
    /\ reg' = [reg EXCEPT ![t] = autoid]
    /\ raced' = (raced \/ \E u \in Thread : pc[u] = "store")
    /\ Goto(t, "store")
    /\ UNCHANGED <<halt, services, autoid, initid, made, sid, lifeVars, tasks,
                   frames, ptr, tickVars, netVars, stopVars, fault>>

StoreId(t) ==
    /\ pc[t] = "store"
    /\ autoid' = reg[t] + 1
    /\ Goto(t, "assert")
    /\ UNCHANGED <<halt, services, initid, made, sid, reg, raced, lifeVars, tasks,
                   frames, ptr, tickVars, netVars, stopVars, fault>>

\* assert(this->getService(sid) == nullptr)
AssertFree(t) ==
    /\ pc[t] = "assert"
    /\ \/ reg[t] \in DOMAIN services /\ Fails("idassert")
       \/ /\ reg[t] \notin DOMAIN services
          /\ Goto(t, "insert")
          /\ UNCHANGED <<halt, idVars, lifeVars, tasks, frames, ptr, tickVars,
                         netVars, stopVars, fault>>

\* new Service(sid) and insert(), which keeps the entry a key has; init() begins.
Insert(t) ==
    /\ pc[t] = "insert"
    /\ made' = made + 1
    /\ sid' = [sid EXCEPT ![made + 1] = reg[t]]
    /\ services' = IF reg[t] \in DOMAIN services THEN services
                   ELSE [k \in DOMAIN services \cup {reg[t]} |->
                            IF k = reg[t] THEN made + 1 ELSE services[k]]
    /\ frames' = [frames EXCEPT ![t] = <<made + 1>> \o @]
    /\ reg' = [reg EXCEPT ![t] = 0]
    /\ Goto(t, "script")
    /\ UNCHANGED <<halt, autoid, initid, raced, lifeVars, tasks, ptr,
                   tickVars, netVars, stopVars, fault>>

\* Where a thread continues after newservice: main() or the calling script.
Return(t, label) ==
    /\ frames' = [frames EXCEPT ![t] = Tail(@)]
    /\ Goto(t, IF t = Main /\ Len(frames[t]) = 1 THEN label ELSE "script")

\* init() succeeds: the service stays.
InitDone(t) ==
    /\ pc[t] = "script" /\ frames[t] # <<>>
    /\ Return(t, "setid")
    /\ UNCHANGED <<halt, idVars, lifeVars, tasks, ptr, tickVars, netVars,
                   stopVars, fault>>

\* Variant: the service that failed stays in the map.
InitFailsKeepingKey(t) ==
    /\ pc[t] = "script" /\ frames[t] # <<>>
    /\ \/ Dangling(Head(frames[t]))
       \/ /\ Head(frames[t]) \notin deleted
          /\ deleted' = deleted \cup {Head(frames[t])}
          /\ Return(t, "halt")
          /\ UNCHANGED <<halt, idVars, stopped, tasks, ptr, tickVars, netVars,
                         stopVars, fault>>

\* init() fails, for lack of a protocol or in the script: eraseKey and delete.
InitFails(t) ==
    /\ pc[t] = "script" /\ frames[t] # <<>>
    /\ \/ Dangling(Head(frames[t]))
       \/ /\ Head(frames[t]) \notin deleted
          /\ services' = EraseKey(sid[Head(frames[t])])
          /\ deleted' = deleted \cup {Head(frames[t])}
          /\ Return(t, "halt")
          /\ UNCHANGED <<halt, autoid, initid, made, sid, reg, raced, stopped,
                         tasks, ptr, tickVars, netVars, stopVars, fault>>

\* cc.exitservice: the service of the running script, found by its id, stops.
ExitService(t) ==
    LET o == IF frames[t] # <<>> THEN Head(frames[t]) ELSE ptr[t] IN
    /\ pc[t] = "script" /\ o \notin stopped
    /\ \/ sid[o] \notin DOMAIN services /\ Fails("exitassert")
       \/ /\ sid[o] \in DOMAIN services
          /\ stopped' = stopped \cup {services[sid[o]]}
          /\ UNCHANGED <<pc, halt, idVars, deleted, tasks, frames, ptr, tickVars,
                         netVars, stopVars, fault>>

\* cc.newserver: there is a socket the network thread can find.
Listen(t) ==
    /\ pc[t] = "script" /\ sock = "none"
    /\ sock' = "open"
    /\ UNCHANGED <<pc, halt, idVars, lifeVars, tasks, frames, ptr, tickVars,
                   events, wake, stopVars, fault>>

ScriptStep(t) ==
    \/ CallNewService(t) \/ ReadId(t) \/ StoreId(t) \/ AssertFree(t) \/ Insert(t)
    \/ InitDone(t) \/ InitFails(t) \/ ExitService(t) \/ Listen(t)

-----------------------------------------------------------------------------
(* main()                                                                  *)

SetInitId ==
    /\ pc[Main] = "setid"
    /\ initid' = sid[1]
    /\ Goto(Main, "loop")
    /\ UNCHANGED <<halt, services, autoid, made, sid, reg, raced, lifeVars, tasks,
                   frames, ptr, tickVars, netVars, stopVars, fault>>

\* ServiceManager::init failed: sConfig.syshalt(0).
Halt ==
    /\ pc[Main] = "halt"
    /\ halt' = TRUE
    /\ Goto(Main, "loop")
    /\ UNCHANGED <<idVars, lifeVars, tasks, frames, ptr, tickVars, netVars,
                   stopVars, fault>>

\* while (!sConfig.halt): schedule() copies the map into its two lists.
Tick ==
    /\ pc[Main] = "loop" /\ ~halt
    /\ shutlist' = Range(services) \cap stopped
    /\ schelist' = Range(services) \ stopped
    /\ Goto(Main, "tick")
    /\ UNCHANGED <<halt, idVars, lifeVars, tasks, frames, ptr, netVars, stopVars,
                   fault>>

\* A stopped service is erased by its id and deleted.
Reap(o) ==
    /\ pc[Main] = "tick" /\ o \in shutlist
    /\ \/ Dangling(o)
       \/ /\ o \notin deleted
          /\ services' = EraseKey(sid[o])
          /\ deleted' = deleted \cup {o}
          /\ shutlist' = shutlist \ {o}
          /\ UNCHANGED <<pc, halt, autoid, initid, made, sid, reg, raced, stopped,
                         tasks, frames, ptr, schelist, netVars, stopVars, fault>>

\* schedule(service) for the others: need_schedule() reads each of them.  A
\* message was made a task as it came (Push).
ScheduleListed(o) ==
    /\ pc[Main] = "tick" /\ shutlist = {} /\ o \in schelist
    /\ \/ Dangling(o)
       \/ /\ o \notin deleted
          /\ schelist' = schelist \ {o}
          /\ UNCHANGED <<pc, halt, idVars, lifeVars, tasks, frames, ptr, shutlist,
                         netVars, stopVars, fault>>

EndTick ==
    /\ pc[Main] = "tick" /\ shutlist = {} /\ schelist = {}
    /\ Goto(Main, "loop")
    /\ UNCHANGED <<halt, idVars, lifeVars, tasks, frames, ptr, tickVars, netVars,
                   stopVars, fault>>

\* The network thread has events at hand, a worker has a task or one is queued.
Active ==
    \/ pc[Net] \in {"find", "recv", "route", "dispatch", "push"}
    \/ \E w \in Worker : pc[w] # "idle"
    \/ tasks # {}

LeaveLoop ==
    /\ pc[Main] = "loop" /\ halt
    /\ busy' = Active
    /\ Goto(Main, "drain")
    /\ UNCHANGED <<halt, idVars, lifeVars, tasks, frames, ptr, tickVars, netVars,
                   poolstop, missed, fault>>

\* ServiceManager::stop: pop_front() and delete, until the map is empty.
Drain(k) ==
    /\ pc[Main] = "drain" /\ k \in DOMAIN services
    /\ services' = EraseKey(k)
    /\ deleted' = deleted \cup {services[k]}
    /\ UNCHANGED <<pc, halt, autoid, initid, made, sid, reg, raced, stopped, tasks,
                   frames, ptr, tickVars, netVars, stopVars, fault>>

Drained ==
    /\ pc[Main] = "drain" /\ DOMAIN services = {}
    /\ Goto(Main, "pollstop")
    /\ UNCHANGED <<halt, idVars, lifeVars, tasks, frames, ptr, tickVars, netVars,
                   stopVars, fault>>

\* Variant: the sockets are deleted and nothing wakes the network thread.
PollStopSilent ==
    /\ pc[Main] = "pollstop"
    /\ Goto(Main, "delsock")
    /\ UNCHANGED <<halt, idVars, lifeVars, tasks, frames, ptr, tickVars, netVars,
                   stopVars, fault>>

\* Poll::stop adds stdout to the epoll set, which reports it writable at once;
\* epoll refuses a regular file, and stop() does not look at the answer.
PollStop ==
    /\ pc[Main] = "pollstop"
    /\ wake' \in {"pending", "refused"}
    /\ Goto(Main, "delsock")
    /\ UNCHANGED <<halt, idVars, lifeVars, tasks, frames, ptr, tickVars, sock,
                   events, stopVars, fault>>

\* NetworkManager::stop deletes the sockets and clears their slots.
DeleteSockets ==
    /\ pc[Main] = "delsock"
    /\ sock' = IF sock = "open" THEN "deleted" ELSE sock
    /\ Goto(Main, "poolstop")
    /\ UNCHANGED <<halt, idVars, lifeVars, tasks, frames, ptr, tickVars, events,
                   wake, stopVars, fault>>

\* ThreadPool::stop sets its flag and notifies; a thread between its test and
\* its wait misses that.
PoolStop ==
    /\ pc[Main] = "poolstop"
    /\ poolstop' = TRUE
    /\ missed' \in SUBSET {t \in Worker \cup {Net} : pc[t] \in {"idle", "queued"}}
    /\ Goto(Main, "join")
    /\ UNCHANGED <<halt, idVars, lifeVars, tasks, frames, ptr, tickVars, netVars,
                   busy, fault>>

\* All threads are joined, and main() returns.
Join ==
    /\ pc[Main] = "join"
    /\ pc[Net] = "returned" /\ \A w \in Worker : pc[w] = "ended"
    /\ Goto(Main, "exited")
    /\ UNCHANGED <<halt, idVars, lifeVars, tasks, frames, ptr, tickVars, netVars,
                   stopVars, fault>>

MainStep ==
    \/ ScriptStep(Main) \/ SetInitId \/ Halt
    \/ Tick \/ EndTick \/ \E o \in Object : Reap(o) \/ ScheduleListed(o)
    \/ LeaveLoop \/ Drained \/ \E k \in Id : Drain(k)
    \/ PollStop \/ DeleteSockets \/ PoolStop \/ Join

-----------------------------------------------------------------------------
(* The network thread                                                      *)

\* A thread of the pool takes the task of NetworkManager::init, or returns.
NetTask ==
    /\ pc[Net] = "queued" /\ Net \notin missed
    /\ Goto(Net, IF poolstop THEN "returned" ELSE "test")
    /\ UNCHANGED <<halt, idVars, lifeVars, tasks, frames, ptr, tickVars, netVars,
                   stopVars, fault>>

\* while (!sConfig.halt)
TestHalt ==
    /\ pc[Net] = "test"
    /\ Goto(Net, IF halt THEN "returned" ELSE "wait")
    /\ UNCHANGED <<halt, idVars, lifeVars, tasks, frames, ptr, tickVars, netVars,
                   stopVars, fault>>

\* Variant: the events are handled whether or not the system halts.
PollRunAlways ==
    /\ pc[Net] = "wait" /\ (wake = "pending" \/ (sock = "open" /\ events > 0))
    /\ Goto(Net, IF events > 0 THEN "find" ELSE "test")
    /\ UNCHANGED <<halt, idVars, lifeVars, tasks, frames, ptr, tickVars, netVars,
                   stopVars, fault>>

\* Poll::run: epoll_wait returns; halt is tested before any event is handled.
PollRun ==
    /\ pc[Net] = "wait" /\ (wake = "pending" \/ (sock = "open" /\ events > 0))
    /\ Goto(Net, IF halt THEN "test" ELSE "find")
    /\ UNCHANGED <<halt, idVars, lifeVars, tasks, frames, ptr, tickVars, netVars,
                   stopVars, fault>>

\* readSocket: the slot of the descriptor.
FindSocket ==
    /\ pc[Net] = "find"
    /\ Goto(Net, IF sock = "open" THEN "recv" ELSE "test")
    /\ UNCHANGED <<halt, idVars, lifeVars, tasks, frames, ptr, tickVars, netVars,
                   stopVars, fault>>

\* socket->receive() and getMessage(): one more message, or no more.
Receive ==
    /\ pc[Net] = "recv"
    /\ \/ sock = "deleted" /\ Fails("uaf")
       \/ /\ sock = "open"
          /\ \/ events > 0 /\ events' = events - 1 /\ Goto(Net, "route")
             \/ events' = events /\ Goto(Net, "test")
          /\ UNCHANGED <<halt, idVars, lifeVars, tasks, frames, ptr, tickVars,
                         sock, wake, stopVars, fault>>

\* pushMessage: the service that routes, if it is there by now and still.
FindInitService ==
    /\ pc[Net] = "route"
    /\ IF initid \in DOMAIN services
       THEN ptr' = [ptr EXCEPT ![Net] = services[initid]] /\ Goto(Net, "dispatch")
       ELSE ptr' = ptr /\ Goto(Net, "recv")
    /\ UNCHANGED <<halt, idVars, lifeVars, tasks, frames, tickVars, netVars,
                   stopVars, fault>>

\* Its script names any service, or none that is there.
Dispatch ==
    /\ pc[Net] = "dispatch"
    /\ \/ Dangling(ptr[Net])
       \/ /\ ptr[Net] \notin deleted
          /\ \/ \E o \in Range(services) :
                   ptr' = [ptr EXCEPT ![Net] = o] /\ Goto(Net, "push")
             \/ Drop(Net) /\ Goto(Net, "recv")
          /\ UNCHANGED <<halt, idVars, lifeVars, tasks, frames, tickVars, netVars,
                         stopVars, fault>>

\* service->pushMessage(msg) and schedule(service)
Push ==
    /\ pc[Net] = "push"
    /\ \/ Dangling(ptr[Net])
       \/ /\ ptr[Net] \notin deleted
          /\ tasks' = IF ptr[Net] \in stopped THEN tasks ELSE tasks \cup {ptr[Net]}
          /\ Drop(Net)
          /\ Goto(Net, "recv")
          /\ UNCHANGED <<halt, idVars, lifeVars, frames, tickVars, netVars,
                         stopVars, fault>>

NetStep ==
    \/ NetTask \/ TestHalt \/ PollRun \/ FindSocket \/ Receive
    \/ FindInitService \/ Dispatch \/ Push

-----------------------------------------------------------------------------
(* The workers                                                             *)

\* A queued task is run, unless the pool stops.
TakeTask(w) ==
    /\ pc[w] = "idle" /\ ~poolstop
    /\ \E o \in tasks : ptr' = [ptr EXCEPT ![w] = o] /\ tasks' = tasks \ {o}
    /\ Goto(w, "run")
    /\ UNCHANGED <<halt, idVars, lifeVars, frames, tickVars, netVars, stopVars,
                   fault>>

\* Service::run: a message is handled, unless the service stopped.
RunService(w) ==
    /\ pc[w] = "run"
    /\ \/ Dangling(ptr[w])
       \/ /\ ptr[w] \notin deleted
          /\ Goto(w, IF ptr[w] \in stopped THEN "over" ELSE "script")
          /\ UNCHANGED <<halt, idVars, lifeVars, tasks, frames, ptr, tickVars,
                         netVars, stopVars, fault>>

\* The handler returns; it may have looked up a socket first, to send on it.
EndHandler(w) ==
    /\ pc[w] = "script" /\ frames[w] = <<>>
    /\ \/ Goto(w, "over")
       \/ sock = "open" /\ Goto(w, "send")
    /\ UNCHANGED <<halt, idVars, lifeVars, tasks, frames, ptr, tickVars, netVars,
                   stopVars, fault>>

\* socket->sendMessage
SendMessage(w) ==
    /\ pc[w] = "send"
    /\ \/ sock = "deleted" /\ Fails("uaf")
       \/ /\ sock = "open"
          /\ Goto(w, "over")
          /\ UNCHANGED <<halt, idVars, lifeVars, tasks, frames, ptr, tickVars,
                         netVars, stopVars, fault>>

\* Service::run tests isstop() again and the task clears _isrunning.
EndRun(w) ==
    /\ pc[w] = "over"
    /\ \/ Dangling(ptr[w])
       \/ /\ ptr[w] \notin deleted
          /\ Drop(w)
          /\ Goto(w, "idle")
          /\ UNCHANGED <<halt, idVars, lifeVars, tasks, frames, tickVars, netVars,
                         stopVars, fault>>

EndWorker(w) ==
    /\ pc[w] = "idle" /\ poolstop /\ w \notin missed
    /\ Goto(w, "ended")
    /\ UNCHANGED <<halt, idVars, lifeVars, tasks, frames, ptr, tickVars, netVars,
                   stopVars, fault>>

WorkerStep(w) ==
    \/ ScriptStep(w) \/ TakeTask(w) \/ RunService(w) \/ EndHandler(w)
    \/ SendMessage(w) \/ EndRun(w) \/ EndWorker(w)

-----------------------------------------------------------------------------
\* SIGINT, SIGTERM or SIGQUIT; the handler may interrupt epoll_wait (EINTR).
Signal ==
    /\ ~halt
    /\ halt' = TRUE
    /\ \/ pc' = pc
       \/ pc[Net] = "wait" /\ Goto(Net, "test")
    /\ UNCHANGED <<idVars, lifeVars, tasks, frames, ptr, tickVars, netVars,
                   stopVars, fault>>

Next ==
    /\ fault = "none"
    /\ MainStep \/ NetStep \/ Signal \/ \E w \in Worker : WorkerStep(w)

Spec == Init /\ [][Next]_vars

-----------------------------------------------------------------------------
\* Each variable has its type, and a thread is where its code is.
TypeOK ==
    /\ pc[Main] \in MainPc \cup ScriptPc /\ pc[Net] \in NetPc
    /\ \A w \in Worker : pc[w] \in WorkerPc \cup ScriptPc
    /\ DOMAIN pc = Thread
    /\ halt \in BOOLEAN /\ raced \in BOOLEAN /\ busy \in BOOLEAN
    /\ DOMAIN services \subseteq Id /\ Range(services) \subseteq 1 .. made
    /\ autoid \in 0 .. MaxService /\ initid \in Id \cup {None} /\ made \in 0 .. MaxService
    /\ sid \in [Object -> Id]
    /\ stopped \cup deleted \cup tasks \subseteq 1 .. made
    /\ reg \in [Thread -> 0 .. MaxService]
    /\ \A t \in Thread : frames[t] \in Seq(1 .. made)
    /\ \A t \in Thread : ptr[t] \in 1 .. made \cup {None}
    /\ shutlist \cup schelist \subseteq 1 .. made
    /\ sock \in {"none", "open", "deleted"} /\ events \in 0 .. MaxEvent
    /\ wake \in {"none", "pending", "refused"}
    /\ poolstop \in BOOLEAN /\ missed \subseteq Worker \cup {Net}
    /\ fault \in Fault

\* newservice asserts that its id is free, although _autoid++ is no atomic
\* step: as long as no two calls read the same value, no id is given twice, an
\* id finds its own service, which is not deleted, and every service that was
\* not deleted is found by its id, whatever inits fail and while main() reaps
\* and drains the map.
IdsExact ==
    ~raced =>
        /\ fault # "idassert"
        /\ \A k \in DOMAIN services : sid[services[k]] = k /\ services[k] \notin deleted
        /\ 1 .. made \ deleted = Range(services)

ShuttingDown == pc[Main] \in {"drain", "pollstop", "delsock", "poolstop", "join", "exited"}

\* main() deletes services and sockets before it joins the threads that use
\* them.  If nothing was running or queued as it left its loop, no thread gets
\* to use one of them: Poll::run tests halt before it handles events.
CleanShutdown == ShuttingDown /\ fault # "none" => busy

Finished(t) == pc[t] \in {"returned", "ended"}

\* Thread t of the pool has a step where it is.
HasStep(t) ==
    \/ pc[t] = "queued" /\ t \notin missed
    \/ pc[t] = "wait" /\ (wake = "pending" \/ (sock = "open" /\ events > 0))
    \/ pc[t] = "idle" /\ (IF poolstop THEN t \notin missed ELSE tasks # {})
    \/ pc[t] \in {"recv", "send"} /\ sock # "none"
    \/ pc[t] \notin {"queued", "wait", "idle", "recv", "send"} /\ ~Finished(t)

\* While main() joins the pool, each of its threads has a step until it is
\* finished, unless it missed the notification of ThreadPool::stop or is the
\* network thread that Poll::stop could not wake.
PoolMoves ==
    pc[Main] = "join" =>
        \A t \in Worker \cup {Net} :
            Finished(t) \/ HasStep(t) \/ t \in missed \/ (t = Net /\ wake = "refused")

\* main() never waits for ever, and so returns once halt is set, unless one of
\* these two happened: nothing is repeated after halt, so that a wait without
\* end is a state without a next step, and there is a next step exactly when a
\* thread of the pool has one or all are finished.
JoinEnds ==
    /\ PoolMoves
    /\ pc[Main] = "join" /\ fault = "none" =>
          (ENABLED Next <=> \/ \A t \in Worker \cup {Net} : Finished(t)
                            \/ \E t \in Worker \cup {Net} : HasStep(t))
=============================================================================
