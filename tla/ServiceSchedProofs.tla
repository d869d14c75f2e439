------------------------- MODULE ServiceSchedProofs -------------------------
(***************************************************************************)
(* Proofs about ServiceSched, for any number of services, messages and     *)
(* workers.                                                                *)
(***************************************************************************)
EXTENDS ServiceSched, TLAPS

(* The pointers a thread is about to use are not null.                      *)
PointersOK ==
    /\ \A t \in Scheduler :
          pc[t] \in {"lookup", "push", "need", "check", "set", "add"} => target[t] \in Service
    /\ pc["net"] \in {"dispatch", "lookup", "push"} => netmsg \in Message
    /\ \A w \in Worker : wpc[w] # "idle" => wsvc[w] \in Service
    /\ \A w \in Worker : wpc[w] = "handle" => hand[w] \in Message

TypeInv == TypeOK /\ PointersOK

\* newservice and exitservice touch nothing but the table of services.
LEMMA ScriptFrame ==
    ASSUME NEW t \in Caller, Call(t) \/ InitReturns(t)
    PROVE  UNCHANGED <<running, queue, tasks, pc, target, mainVars, netVars, workerVars,
                       released, fault, raced>>
  BY DEF Call, InitReturns, CallNewService, InitExits, InitDone, InitFails

\* The variables keep the types of the C++ members they stand for, through
\* every step of every thread.
LEMMA TypeInductive == TypeInv /\ [Next]_vars => TypeInv'
<1> USE ServiceAssumption DEF TypeInv, TypeOK, PointersOK, Scheduler, SchedulerPc,
                 WorkerPc, Fault, Goto, WGoto, mainVars, netVars, workerVars, newVars, mapVars
<1> SUFFICES ASSUME TypeInv, [Next]_vars
             PROVE  TypeInv'
  OBVIOUS
<1>1. ASSUME NEW t \in Scheduler, NeedSchedule(t) PROVE TypeInv'
  BY <1>1 DEF NeedSchedule
<1>2. ASSUME NEW t \in Scheduler, CheckRunning(t) PROVE TypeInv'
  BY <1>2 DEF CheckRunning
<1>3. ASSUME NEW t \in Scheduler, SetRunning(t) PROVE TypeInv'
  BY <1>3 DEF SetRunning
<1>4. ASSUME NEW t \in Scheduler, AddTask(t) PROVE TypeInv'
  BY <1>4 DEF AddTask
<1>5. ASSUME MainSnapshot PROVE TypeInv'
  BY <1>5 DEF MainSnapshot
<1>6. ASSUME NEW s \in Service, MainReap(s) PROVE TypeInv'
  BY <1>6 DEF MainReap
<1>7. ASSUME NEW s \in Service, MainPick(s) PROVE TypeInv'
  BY <1>7 DEF MainPick
<1>8. ASSUME NEW m \in Message, NetReceive(m) PROVE TypeInv'
  BY <1>8 DEF NetReceive
<1>9. ASSUME NetDispatch PROVE TypeInv'
  BY <1>9 DEF NetDispatch, Reject
<1>10. ASSUME NetLookup PROVE TypeInv'
  BY <1>10 DEF NetLookup, Reject
<1>11. ASSUME NetPush PROVE TypeInv'
  BY <1>11 DEF NetPush
<1>12. ASSUME NEW w \in Worker, TakeTask(w) PROVE TypeInv'
  BY <1>12 DEF TakeTask
<1>13. ASSUME NEW w \in Worker, RunLoop(w) PROVE TypeInv'
  BY <1>13 DEF RunLoop
<1>14. ASSUME NEW w \in Worker, RunPeek(w) PROVE TypeInv'
  BY <1>14 DEF RunPeek
<1>15. ASSUME NEW w \in Worker, RunAssert(w) PROVE TypeInv'
  BY <1>15 DEF RunAssert
<1>16. ASSUME NEW w \in Worker, RunPop(w) PROVE TypeInv'
  <2>1. wsvc[w] \in Service /\ queue[wsvc[w]] \in Seq(Message)
    BY <1>16 DEF RunPop
  <2>2. CASE queue[wsvc[w]] = <<>>
    BY <1>16, <2>2 DEF RunPop
  <2>3. CASE queue[wsvc[w]] # <<>>
    <3>1. Head(queue[wsvc[w]]) \in Message /\ Tail(queue[wsvc[w]]) \in Seq(Message)
      BY <2>1, <2>3
    <3>a. /\ hand' = [hand EXCEPT ![w] = Head(queue[wsvc[w]])]
          /\ queue' = [queue EXCEPT ![wsvc[w]] = Tail(queue[wsvc[w]])]
      BY <1>16, <2>3 DEF RunPop
    <3>b. queue \in [Service -> Seq(Message)] /\ hand \in [Worker -> Message \cup {None}]
      OBVIOUS
    <3>2. /\ queue' \in [Service -> Seq(Message)]
          /\ hand' \in [Worker -> Message \cup {None}]
          /\ hand'[w] \in Message
      <4> HIDE DEF TypeInv, TypeOK, PointersOK
      <4> QED BY <3>a, <3>b, <2>1, <3>1
    <3>3. TypeOK'
      BY <1>16, <2>3, <3>2 DEF RunPop
    <3>4. PointersOK'
      BY <1>16, <2>3, <3>1, <3>2 DEF RunPop
    <3>5. QED
      BY <3>3, <3>4
  <2>4. QED
    BY <2>2, <2>3
<1>17. ASSUME NEW w \in Worker, RunHandle(w) PROVE TypeInv'
  BY <1>17 DEF RunHandle
<1>18. ASSUME NEW w \in Worker, RunDone(w) PROVE TypeInv'
  BY <1>18 DEF RunDone
<1>19. ASSUME UseAfterFree PROVE TypeInv'
  BY <1>19 DEF UseAfterFree
<1>20. ASSUME UNCHANGED vars PROVE TypeInv'
  BY <1>20 DEF vars
<1>21. ASSUME NEW t \in Caller, Call(t) \/ InitReturns(t) PROVE TypeInv'
  <2>1. UNCHANGED <<running, queue, tasks, pc, target, mainVars, netVars, workerVars,
                    released, fault, raced>>
    BY <1>21, ScriptFrame
  <2>2. /\ registered' \in SUBSET Service /\ made' \in SUBSET Service
        /\ creating' \in [Caller -> Seq(Service)]
        /\ failed' \in SUBSET Service /\ stopped' \in SUBSET Service
    <3>1. /\ creating \in [Caller -> Seq(Service)]
          /\ registered \in SUBSET Service /\ made \in SUBSET Service
          /\ failed \in SUBSET Service /\ stopped \in SUBSET Service
      OBVIOUS
    <3> HIDE DEF TypeInv, TypeOK, PointersOK
    <3>2. ASSUME NEW s \in Service, CallNewService(t, s)
          PROVE  /\ registered' \in SUBSET Service /\ made' \in SUBSET Service
                 /\ creating' \in [Caller -> Seq(Service)]
                 /\ failed' = failed /\ stopped' = stopped
      BY <3>1, <3>2 DEF CallNewService
    <3>3. ASSUME creating[t] # <<>>
          PROVE  Head(creating[t]) \in Service /\ Tail(creating[t]) \in Seq(Service)
      BY <3>1, <3>3
    <3>4. CASE InitExits(t) \/ InitDone(t) \/ InitFails(t)
      BY <3>1, <3>3, <3>4 DEF InitExits, InitDone, InitFails
    <3>5. QED
      BY <1>21, <3>1, <3>2, <3>4 DEF Call, InitReturns
  <2>3. QED
    BY <2>1, <2>2
<1>22. QED
  BY <1>1, <1>2, <1>3, <1>4, <1>5, <1>6, <1>7, <1>8, <1>9, <1>10, <1>11, <1>12, <1>13,
     <1>14, <1>15, <1>16, <1>17, <1>18, <1>19, <1>20, <1>21
     DEF Next, Main, Net, NetStep, Schedule, Work, Dead, Caller

-----------------------------------------------------------------------------
(* Where runs are, after each step.  Four actions move a run: SetRunning    *)
(* promises one, AddTask queues it, TakeTask starts it and RunDone ends it. *)

\* Every other step leaves the three places of a run as they were.
LEMMA RunsUnmoved ==
    ASSUME TypeInv,
           \/ \E t \in Scheduler : NeedSchedule(t) \/ CheckRunning(t)
           \/ MainSnapshot
           \/ \E s \in Service : MainReap(s) \/ MainPick(s)
           \/ \E m \in Message : NetReceive(m)
           \/ NetDispatch \/ NetLookup \/ NetPush
           \/ \E w \in Worker : RunLoop(w) \/ RunPeek(w) \/ RunAssert(w) \/ RunPop(w)
                                \/ RunHandle(w)
           \/ \E t \in Caller : Call(t) \/ InitReturns(t)
           \/ UseAfterFree
           \/ UNCHANGED vars
    PROVE  \A s \in Service : /\ Claiming(s)' = Claiming(s)
                             /\ Queued(s)' = Queued(s)
                             /\ Active(s)' = Active(s)
<1> USE DEF TypeInv, TypeOK, Scheduler, Goto, WGoto, Claiming, Queued, Active
<1>1. /\ \A t \in Scheduler : pc'[t] = "add" <=> pc[t] = "add"
      /\ \A t \in Scheduler : pc[t] = "add" => target'[t] = target[t]
  BY ScriptFrame DEF NeedSchedule, CheckRunning, MainSnapshot, MainReap, MainPick,
       NetReceive, NetDispatch, NetLookup, NetPush, Reject, RunLoop, RunPeek, RunAssert,
       RunPop, RunHandle, UseAfterFree, workerVars, vars
<1>2. tasks' = tasks
  BY ScriptFrame DEF NeedSchedule, CheckRunning, MainSnapshot, MainReap, MainPick,
       NetReceive, NetDispatch, NetLookup, NetPush, Reject, RunLoop, RunPeek, RunAssert,
       RunPop, RunHandle, UseAfterFree, workerVars, vars
<1>3. /\ \A w \in Worker : wpc'[w] = "idle" <=> wpc[w] = "idle"
      /\ wsvc' = wsvc
  BY ScriptFrame DEF NeedSchedule, CheckRunning, MainSnapshot, MainReap, MainPick,
       NetReceive, NetDispatch, NetLookup, NetPush, Reject, RunLoop, RunPeek, RunAssert,
       RunPop, RunHandle, UseAfterFree, vars, workerVars
<1>4. QED
  BY <1>1, <1>2, <1>3

LEMMA SetRunningMoves ==
    ASSUME TypeInv, NEW t \in Scheduler, SetRunning(t), NEW s \in Service
    PROVE  /\ Claiming(s)' = Claiming(s) \cup (IF s = target[t] THEN {t} ELSE {})
           /\ Queued(s)' = Queued(s)
           /\ Active(s)' = Active(s)
  BY DEF TypeInv, TypeOK, Goto, SetRunning, Claiming, Queued, Active, workerVars

LEMMA AddTaskMoves ==
    ASSUME TypeInv, NEW t \in Scheduler, AddTask(t), NEW s \in Service
    PROVE  /\ Claiming(s)' = Claiming(s) \ {t}
           /\ Queued(s)' = Queued(s) \cup (IF s = target[t] THEN {Len(tasks) + 1} ELSE {})
           /\ Active(s)' = Active(s)
<1> USE DEF TypeInv, TypeOK, PointersOK, Goto, AddTask, Claiming, Queued, Active,
            workerVars
<1>1. Claiming(s)' = Claiming(s) \ {t} /\ Active(s)' = Active(s)
  OBVIOUS
<1>2. Queued(s)' = Queued(s) \cup (IF s = target[t] THEN {Len(tasks) + 1} ELSE {})
  <2>1. tasks \in Seq(Service) /\ target[t] \in Service /\ tasks' = Append(tasks, target[t])
    OBVIOUS
  <2>2. /\ DOMAIN tasks' = DOMAIN tasks \cup {Len(tasks) + 1}
        /\ Len(tasks) + 1 \notin DOMAIN tasks
        /\ \A i \in DOMAIN tasks : tasks'[i] = tasks[i]
        /\ tasks'[Len(tasks) + 1] = target[t]
    <3> HIDE DEF TypeInv, TypeOK, PointersOK, Goto, AddTask, Claiming, Queued, Active
    <3> QED BY <2>1
  <2>3. QED
    <3> HIDE DEF TypeInv, TypeOK, PointersOK, Goto, AddTask, Claiming, Active
    <3> QED BY <2>2
<1>3. QED
  BY <1>1, <1>2

LEMMA TakeTaskMoves ==
    ASSUME TypeInv, NEW w \in Worker, TakeTask(w), NEW s \in Service
    PROVE  /\ Claiming(s)' = Claiming(s)
           /\ Queued(s)' = {i - 1 : i \in Queued(s) \ {1}}
           /\ Active(s)' = Active(s) \cup (IF 1 \in Queued(s) THEN {w} ELSE {})
           /\ w \notin Active(s)
<1> USE DEF TypeInv, TypeOK, WGoto, TakeTask, Claiming, Queued, Active
<1>1. Claiming(s)' = Claiming(s)
  OBVIOUS
<1>2. /\ tasks \in Seq(Service) /\ tasks # <<>> /\ tasks' = Tail(tasks)
      /\ wsvc' = [wsvc EXCEPT ![w] = Head(tasks)]
      /\ wpc' = [wpc EXCEPT ![w] = "loop"]
      /\ wpc[w] = "idle"
  OBVIOUS
<1>3. Head(tasks) = tasks[1] /\ 1 \in DOMAIN tasks
  <2> HIDE DEF TypeInv, TypeOK, TakeTask, Claiming, Queued, Active
  <2> QED BY <1>2
<1>4. Active(s)' = Active(s) \cup (IF 1 \in Queued(s) THEN {w} ELSE {}) /\ w \notin Active(s)
  BY <1>2, <1>3
<1>5. Queued(s)' = {i - 1 : i \in Queued(s) \ {1}}
  <2>1. /\ Len(tasks) \in Nat /\ DOMAIN tasks = 1..Len(tasks)
        /\ DOMAIN tasks' = 1..(Len(tasks) - 1)
        /\ \A i \in 1..(Len(tasks) - 1) : tasks'[i] = tasks[i + 1]
    <3> HIDE DEF TypeInv, TypeOK, TakeTask, Claiming, Queued, Active
    <3> QED BY <1>2
  <2>2. QED
    <3> HIDE DEF TypeInv, TypeOK, TakeTask, Claiming, Active
    <3> QED BY <2>1
<1>6. QED
  BY <1>1, <1>4, <1>5

LEMMA RunDoneMoves ==
    ASSUME TypeInv, NEW w \in Worker, RunDone(w), NEW s \in Service
    PROVE  /\ Claiming(s)' = Claiming(s)
           /\ Queued(s)' = Queued(s)
           /\ Active(s)' = Active(s) \ {w}
  BY DEF TypeInv, TypeOK, WGoto, RunDone, Claiming, Queued, Active

-----------------------------------------------------------------------------
(* The inductive invariant.  FlagHasTask says that a set flag has a run, and *)
(* RunHasFlag the converse while no race happened: together they let        *)
(* CheckRunning, when it sees the flag clear, conclude that there is no run.*)

HasRun(s) == Claiming(s) # {} \/ Queued(s) # {} \/ Active(s) # {}

RunHasFlag == \A s \in Service \ raced : HasRun(s) => running[s]

\* A run that found its queue non-empty still has it non-empty.
PeekedNonEmpty ==
    \A w \in Worker :
        wpc[w] \in {"assert", "pop"} /\ wsvc[w] \notin raced => queue[wsvc[w]] # <<>>

SchedInv ==
    /\ TypeInv
    /\ FlagHasTask
    /\ RunHasFlag
    /\ ExclusiveUnlessRaced
    /\ PeekedNonEmpty
    /\ PopNeedsRace

\* The steps that move no run change neither flags nor the race history.
LEMMA FlagsUnmoved ==
    ASSUME [Next]_vars,
           \A t \in Scheduler : ~SetRunning(t),
           \A w \in Worker : ~RunDone(w)
    PROVE  running' = running /\ raced' = raced
  BY ScriptFrame DEF Next, Main, Net, NetStep, Schedule, Work, Dead, vars, Caller,
       NeedSchedule, CheckRunning, AddTask, MainSnapshot, MainReap, MainPick, NetReceive,
       NetDispatch, NetLookup, NetPush, Reject, TakeTask, RunLoop, RunPeek, RunAssert,
       RunPop, RunHandle, UseAfterFree, Scheduler

\* One step preserves what relates _isrunning to the runs of a service.
LEMMA RunsInductive ==
    ASSUME TypeInv, FlagHasTask, RunHasFlag, ExclusiveUnlessRaced, [Next]_vars
    PROVE  FlagHasTask' /\ RunHasFlag' /\ ExclusiveUnlessRaced'
<1> USE DEF FlagHasTask, RunHasFlag, ExclusiveUnlessRaced, AtMostOneRun, HasRun
<1>1. ASSUME NEW t \in Scheduler, SetRunning(t)
      PROVE  FlagHasTask' /\ RunHasFlag' /\ ExclusiveUnlessRaced'
  <2>1. /\ target[t] \in Service
        /\ running' = [running EXCEPT ![target[t]] = TRUE]
        /\ raced' = IF running[target[t]] THEN raced \cup {target[t]} ELSE raced
        /\ running \in [Service -> BOOLEAN]
    BY <1>1 DEF SetRunning, TypeInv, TypeOK
  <2>2. ASSUME NEW s \in Service
        PROVE  /\ running'[s] => HasRun(s)'
               /\ s \notin raced' => AtMostOneRun(s)' /\ (HasRun(s)' => running'[s])
    <3>1. /\ Claiming(s)' = Claiming(s) \cup (IF s = target[t] THEN {t} ELSE {})
          /\ Queued(s)' = Queued(s)
          /\ Active(s)' = Active(s)
      BY <1>1, SetRunningMoves
    <3>2. CASE s = target[t]
      BY <2>1, <3>1, <3>2
    <3>3. CASE s # target[t]
      BY <2>1, <3>1, <3>3
    <3>4. QED
      BY <3>2, <3>3
  <2>3. QED
    BY <2>2
<1>2. ASSUME NEW t \in Scheduler, AddTask(t)
      PROVE  FlagHasTask' /\ RunHasFlag' /\ ExclusiveUnlessRaced'
  <2>1. /\ running' = running /\ raced' = raced
        /\ \A s \in Service : t \in Claiming(s) <=> s = target[t]
    BY <1>2 DEF AddTask, Claiming
  <2>2. ASSUME NEW s \in Service
        PROVE  /\ running'[s] => HasRun(s)'
               /\ s \notin raced' => AtMostOneRun(s)' /\ (HasRun(s)' => running'[s])
    <3>1. /\ Claiming(s)' = Claiming(s) \ {t}
          /\ Queued(s)' = Queued(s) \cup (IF s = target[t] THEN {Len(tasks) + 1} ELSE {})
          /\ Active(s)' = Active(s)
      BY <1>2, AddTaskMoves
    <3>2. CASE s = target[t]
      BY <2>1, <3>1, <3>2
    <3>3. CASE s # target[t]
      BY <2>1, <3>1, <3>3
    <3>4. QED
      BY <3>2, <3>3
  <2>3. QED
    BY <2>2
<1>3. ASSUME NEW w \in Worker, TakeTask(w)
      PROVE  FlagHasTask' /\ RunHasFlag' /\ ExclusiveUnlessRaced'
  <2>1. running' = running /\ raced' = raced
    BY <1>3 DEF TakeTask
  <2>2. ASSUME NEW s \in Service
        PROVE  /\ running'[s] => HasRun(s)'
               /\ s \notin raced' => AtMostOneRun(s)' /\ (HasRun(s)' => running'[s])
    <3>1. /\ Claiming(s)' = Claiming(s)
          /\ Queued(s)' = {i - 1 : i \in Queued(s) \ {1}}
          /\ Active(s)' = Active(s) \cup (IF 1 \in Queued(s) THEN {w} ELSE {})
      BY <1>3, TakeTaskMoves
    <3>2. CASE 1 \in Queued(s)
      BY <2>1, <3>1, <3>2
    <3>3. CASE 1 \notin Queued(s)
      <4>1. Active(s)' = Active(s) /\ (Queued(s)' = {} <=> Queued(s) = {})
        BY <3>1, <3>3
      <4>2. (\A i, j \in Queued(s) : i = j) => (\A i, j \in Queued(s)' : i = j)
        BY <3>1, <3>3
      <4>3. QED
        BY <2>1, <3>1, <4>1, <4>2
    <3>4. QED
      BY <3>2, <3>3
  <2>3. QED
    BY <2>2
<1>4. ASSUME NEW w \in Worker, RunDone(w)
      PROVE  FlagHasTask' /\ RunHasFlag' /\ ExclusiveUnlessRaced'
  <2>1. /\ running' = [running EXCEPT ![wsvc[w]] = FALSE]
        /\ raced' = raced
        /\ running \in [Service -> BOOLEAN]
        /\ \A s \in Service : w \in Active(s) <=> s = wsvc[w]
    BY <1>4 DEF RunDone, Active, TypeInv, TypeOK
  <2>2. ASSUME NEW s \in Service
        PROVE  /\ running'[s] => HasRun(s)'
               /\ s \notin raced' => AtMostOneRun(s)' /\ (HasRun(s)' => running'[s])
    <3>1. /\ Claiming(s)' = Claiming(s)
          /\ Queued(s)' = Queued(s)
          /\ Active(s)' = Active(s) \ {w}
      BY <1>4, RunDoneMoves
    <3>2. CASE s = wsvc[w]
      BY <2>1, <3>1, <3>2
    <3>3. CASE s # wsvc[w]
      BY <2>1, <3>1, <3>3
    <3>4. QED
      BY <3>2, <3>3
  <2>3. QED
    BY <2>2
<1>5. CASE /\ \A t \in Scheduler : ~SetRunning(t) /\ ~AddTask(t)
           /\ \A w \in Worker : ~TakeTask(w) /\ ~RunDone(w)
  <2>1. running' = running /\ raced' = raced
    BY <1>5, FlagsUnmoved
  <2>2. \A s \in Service : /\ Claiming(s)' = Claiming(s)
                          /\ Queued(s)' = Queued(s)
                          /\ Active(s)' = Active(s)
    BY <1>5, RunsUnmoved, ScriptFrame DEF Next, Main, Net, NetStep, Schedule, Work, Dead,
         Scheduler, Caller
  <2>3. QED
    BY <2>1, <2>2
<1>6. QED
  BY <1>1, <1>2, <1>3, <1>4, <1>5

\* A list that was appended to is not empty.
LEMMA AppendNotEmpty ==
    ASSUME NEW S, NEW q \in Seq(S), NEW x \in S
    PROVE  Append(q, x) # <<>>
<1>1. Len(Append(q, x)) = Len(q) + 1 /\ Len(q) \in Nat
  OBVIOUS
<1>2. Len(<<>>) = 0
  OBVIOUS
<1>3. QED
  BY <1>1, <1>2

\* Between RunPeek and RunPop only the run itself pops, unless runs overlap.
LEMMA PeekedInductive ==
    ASSUME TypeInv, ExclusiveUnlessRaced, PeekedNonEmpty, [Next]_vars
    PROVE  PeekedNonEmpty'
<1> USE DEF PeekedNonEmpty, TypeInv, TypeOK
<1>1. raced \subseteq raced'
  BY ScriptFrame DEF Next, Main, Net, NetStep, Schedule, Work, Dead, vars, Caller,
       NeedSchedule, CheckRunning, SetRunning, AddTask, MainSnapshot, MainReap, MainPick,
       NetReceive, NetDispatch, NetLookup, NetPush, Reject, TakeTask, RunLoop, RunPeek,
       RunAssert, RunPop, RunHandle, RunDone, UseAfterFree
<1>2. ASSUME NEW v \in Worker, RunPop(v)
      PROVE  PeekedNonEmpty'
  <2>1. SUFFICES ASSUME NEW w \in Worker, wpc'[w] \in {"assert", "pop"}, wsvc'[w] \notin raced'
                 PROVE  queue'[wsvc'[w]] # <<>>
    OBVIOUS
  <2>2. /\ wsvc' = wsvc /\ wsvc[v] \in Service /\ wpc[v] = "pop"
        /\ \/ queue' = queue /\ wpc' = wpc
           \/ /\ queue' = [queue EXCEPT ![wsvc[v]] = Tail(@)]
              /\ wpc' = [wpc EXCEPT ![v] = "handle"]
    BY <1>2 DEF RunPop, WGoto
  <2>3. CASE queue' = queue /\ wpc' = wpc
    BY <1>1, <2>1, <2>2, <2>3
  <2>4. CASE /\ queue' = [queue EXCEPT ![wsvc[v]] = Tail(@)]
             /\ wpc' = [wpc EXCEPT ![v] = "handle"]
    <3>1. w # v /\ wpc[w] = wpc'[w]
      BY <2>1, <2>4
    <3>2. wsvc[w] # wsvc[v]
      BY <1>1, <2>1, <2>2, <3>1 DEF ExclusiveUnlessRaced, AtMostOneRun, Active
    <3>3. QED
      BY <1>1, <2>1, <2>2, <2>4, <3>1, <3>2
  <2>5. QED
    BY <2>2, <2>3, <2>4
<1>3. ASSUME NEW v \in Worker, RunPeek(v)
      PROVE  PeekedNonEmpty'
  BY <1>1, <1>3 DEF RunPeek, WGoto
<1>4. ASSUME NetPush
      PROVE  PeekedNonEmpty'
  <2>1. /\ wpc' = wpc /\ wsvc' = wsvc
        /\ target["net"] \in Service /\ netmsg \in Message
        /\ queue' = [queue EXCEPT ![target["net"]] = Append(@, netmsg)]
    BY <1>4 DEF NetPush, PointersOK, workerVars
  <2>2. \A s \in Service : queue[s] # <<>> => queue'[s] # <<>>
    <3>1. \A q \in Seq(Message) : Append(q, netmsg) # <<>>
      BY <2>1, AppendNotEmpty
    <3>2. queue \in [Service -> Seq(Message)]
      OBVIOUS
    <3>3. QED
      <4> HIDE DEF PeekedNonEmpty, TypeInv, TypeOK
      <4> QED BY <2>1, <3>1, <3>2
  <2>3. \A w \in Worker : wpc[w] \in {"assert", "pop"} => wsvc[w] \in Service
    BY DEF PointersOK
  <2>4. QED
    BY <1>1, <2>1, <2>2, <2>3
<1>5. CASE /\ \A v \in Worker : ~RunPop(v) /\ ~RunPeek(v)
           /\ ~NetPush
  <2>1. queue' = queue
    BY <1>5, ScriptFrame DEF Next, Main, Net, NetStep, Schedule, Work, Dead, vars, Caller,
         NeedSchedule, CheckRunning, SetRunning, AddTask, MainSnapshot, MainReap,
         MainPick, NetReceive, NetDispatch, NetLookup, Reject, TakeTask, RunLoop,
         RunAssert, RunHandle, RunDone, UseAfterFree
  <2>2. \A w \in Worker :
           wpc'[w] \in {"assert", "pop"} => wpc[w] \in {"assert", "pop"} /\ wsvc'[w] = wsvc[w]
    <3>1. CASE \E t \in Caller : Call(t) \/ InitReturns(t)
      <4>1. wpc' = wpc /\ wsvc' = wsvc
        BY <3>1, ScriptFrame DEF workerVars
      <4>2. QED
        BY <4>1
    <3>2. ASSUME NEW v \in Worker,
                 TakeTask(v) \/ RunLoop(v) \/ RunAssert(v) \/ RunHandle(v) \/ RunDone(v)
          PROVE  \A w \in Worker :
                    wpc'[w] \in {"assert", "pop"} =>
                        wpc[w] \in {"assert", "pop"} /\ wsvc'[w] = wsvc[w]
      BY <3>2 DEF TakeTask, RunLoop, RunAssert, RunHandle, RunDone, WGoto
    <3>3. CASE /\ ~ \E t \in Caller : Call(t) \/ InitReturns(t)
               /\ ~ \E v \in Worker :
                      TakeTask(v) \/ RunLoop(v) \/ RunAssert(v) \/ RunHandle(v) \/ RunDone(v)
      <4>1. wpc' = wpc /\ wsvc' = wsvc
        BY <1>5, <3>3 DEF Next, Main, Net, NetStep, Schedule, Work, Dead, vars, Caller,
             NeedSchedule, CheckRunning, SetRunning, AddTask, MainSnapshot, MainReap,
             MainPick, NetReceive, NetDispatch, NetLookup, UseAfterFree, workerVars
      <4>2. QED
        BY <4>1
    <3>4. QED
      BY <3>1, <3>2, <3>3
  <2>3. QED
    BY <1>1, <2>1, <2>2
<1>6. QED
  BY <1>2, <1>3, <1>4, <1>5

\* The assertion and the pop fail only after a race.
LEMMA PopInductive ==
    ASSUME TypeInv, PeekedNonEmpty, PopNeedsRace, [Next]_vars
    PROVE  PopNeedsRace'
<1> USE DEF PopNeedsRace
<1>1. ASSUME NEW w \in Worker, RunAssert(w) \/ RunPop(w)
      PROVE  PopNeedsRace'
  BY <1>1 DEF RunAssert, RunPop, PeekedNonEmpty
<1>2. CASE \A w \in Worker : ~RunAssert(w) /\ ~RunPop(w)
  <2>1. (fault' = fault \/ fault' = "uaf") /\ raced \subseteq raced'
    BY <1>2, ScriptFrame DEF Next, Main, Net, NetStep, Schedule, Work, Dead, vars, Caller,
         NeedSchedule, CheckRunning, SetRunning, AddTask, MainSnapshot, MainReap,
         MainPick, NetReceive, NetDispatch, NetLookup, NetPush, Reject, TakeTask, RunLoop,
         RunPeek, RunHandle, RunDone, UseAfterFree
  <2>2. QED
    BY <2>1
<1>3. QED
  BY <1>1, <1>2

\* At start-up nothing is scheduled and every queue is empty.
LEMMA InitEstablishes == Init => SchedInv
<1> SUFFICES ASSUME Init PROVE SchedInv
  OBVIOUS
<1>1. TypeInv
  BY ServiceAssumption DEF Init, TypeInv, TypeOK, PointersOK, Scheduler, SchedulerPc,
       WorkerPc, Fault
<1>2. \A s \in Service : Claiming(s) = {} /\ Queued(s) = {} /\ Active(s) = {} /\ ~running[s]
  BY DEF Init, Claiming, Queued, Active
<1>3. QED
  BY <1>1, <1>2 DEF Init, SchedInv, FlagHasTask, RunHasFlag, HasRun, ExclusiveUnlessRaced,
                    AtMostOneRun, PeekedNonEmpty, PopNeedsRace

\* The parts together: a step of any thread keeps the invariant.
LEMMA SchedInductive == SchedInv /\ [Next]_vars => SchedInv'
  BY TypeInductive, RunsInductive, PeekedInductive, PopInductive DEF SchedInv

\* The inductive invariant holds throughout; the theorems below are parts of it.
THEOREM SchedInvariant == Spec => []SchedInv
<1>1. Init => SchedInv
  BY InitEstablishes
<1>2. SchedInv /\ [Next]_vars => SchedInv'
  BY SchedInductive
<1>3. QED
  BY <1>1, <1>2, PTL DEF Spec

\* The variables hold values of their C++ types.
THEOREM TypeCorrect == Spec => []TypeOK
<1>1. SchedInv => TypeOK
  BY DEF SchedInv, TypeInv
<1>2. QED
  BY <1>1, SchedInvariant, PTL

\* A service whose _isrunning is set has a run that will clear it: the flag
\* never shuts a service out, however many threads schedule it.
THEOREM FlagNeverStuck == Spec => []FlagHasTask
<1>1. SchedInv => FlagHasTask
  BY DEF SchedInv
<1>2. QED
  BY <1>1, SchedInvariant, PTL

\* Runs of one service, and with them uses of its Lua state by workers, do
\* not overlap before two threads pass the test of Runnable::schedule together.
THEOREM ExclusiveRuns == Spec => []ExclusiveUnlessRaced
<1>1. SchedInv => ExclusiveUnlessRaced
  BY DEF SchedInv
<1>2. QED
  BY <1>1, SchedInvariant, PTL

\* An empty queue is popped, or the assertion of pop_front fails, only after
\* that race.
THEOREM PopFailsOnlyAfterRace == Spec => []PopNeedsRace
<1>1. SchedInv => PopNeedsRace
  BY DEF SchedInv
<1>2. QED
  BY <1>1, SchedInvariant, PTL

-----------------------------------------------------------------------------
(* Main's pointers.  Main deletes services, and so does a newservice whose  *)
(* init() failed, which may be on any other thread: what main's lists and   *)
(* its target need is that main does not delete what it will still use.     *)

\* A service is in one of main's two lists at most.
ListsDisjoint == shutlist \cap schelist = {}

\* What the other threads do to the table of services.
LEMMA OthersKeepServices ==
    ASSUME NEW t \in Caller, Call(t) \/ InitReturns(t)
    PROVE  registered \cup failed \subseteq registered' \cup failed'
<1>1. ASSUME NEW s \in Service, CallNewService(t, s)
      PROVE  registered \cup failed \subseteq registered' \cup failed'
  BY <1>1 DEF CallNewService
<1>2. CASE InitExits(t) \/ InitDone(t)
  BY <1>2 DEF InitExits, InitDone, mapVars, newVars
<1>3. CASE InitFails(t)
  BY <1>3 DEF InitFails
<1>4. QED
  BY <1>1, <1>2, <1>3 DEF Call, InitReturns

\* A tick of main keeps its pointers good: the service that is deleted is in
\* neither list afterwards, and main deletes nothing while it holds a target.
LEMMA MainInductive ==
    ASSUME TypeInv, MainNeverDangling, ListsDisjoint, [Next]_vars
    PROVE  MainNeverDangling' /\ ListsDisjoint'
<1> USE DEF MainNeverDangling, ListsDisjoint, TypeInv, TypeOK, Scheduler, Goto, mapVars, newVars
<1>1. ASSUME MainSnapshot PROVE MainNeverDangling' /\ ListsDisjoint'
  BY <1>1 DEF MainSnapshot
<1>2. ASSUME NEW s \in Service, MainReap(s) PROVE MainNeverDangling' /\ ListsDisjoint'
  BY <1>2 DEF MainReap
<1>3. ASSUME NEW s \in Service, MainPick(s) PROVE MainNeverDangling' /\ ListsDisjoint'
  BY <1>3 DEF MainPick
<1>4. ASSUME Schedule("main") PROVE MainNeverDangling' /\ ListsDisjoint'
  BY <1>4 DEF Schedule, NeedSchedule, CheckRunning, SetRunning, AddTask, mainVars
<1>5. ASSUME \/ NetDispatch \/ NetLookup \/ NetPush \/ Schedule("net")
             \/ \E m \in Message : NetReceive(m)
      PROVE MainNeverDangling' /\ ListsDisjoint'
  <2>1. /\ registered' = registered /\ failed' = failed
        /\ shutlist' = shutlist /\ schelist' = schelist
        /\ pc'["main"] = pc["main"] /\ target'["main"] = target["main"]
    BY <1>5 DEF Schedule, NeedSchedule, CheckRunning, SetRunning, AddTask,
                NetDispatch, NetLookup, NetPush, NetReceive, Reject, mainVars
  <2>2. QED
    BY <2>1
<1>6. ASSUME \/ \E w \in Worker : \/ TakeTask(w) \/ RunLoop(w) \/ RunPeek(w) \/ RunAssert(w)
                                  \/ RunPop(w) \/ RunHandle(w) \/ RunDone(w)
             \/ UseAfterFree
             \/ UNCHANGED vars
      PROVE  MainNeverDangling' /\ ListsDisjoint'
  BY <1>6 DEF TakeTask, RunLoop, RunPeek, RunAssert, RunPop, RunHandle, RunDone,
              UseAfterFree, vars, mainVars
<1>7. ASSUME NEW t \in Caller, Call(t) \/ InitReturns(t)
      PROVE  MainNeverDangling' /\ ListsDisjoint'
  <2>1. UNCHANGED <<pc, target, shutlist, schelist>>
    BY <1>7, ScriptFrame DEF mainVars
  <2>2. registered \cup failed \subseteq registered' \cup failed'
    BY <1>7, OthersKeepServices
  <2>3. QED
    BY <2>1, <2>2
<1>8. QED
  BY <1>1, <1>2, <1>3, <1>4, <1>5, <1>6, <1>7 DEF Next, Main, Net, NetStep, Work, Dead,
       Caller

\* ServiceManager::schedule() never uses a service it has deleted, whatever
\* services exit meanwhile; what it may find deleted is a service whose init()
\* failed on another thread.
THEOREM MainPointersLive == Spec => []MainNeverDangling
<1>1. Init => MainNeverDangling /\ ListsDisjoint
  BY DEF Init, MainNeverDangling, ListsDisjoint, Scheduler
<1>2. /\ SchedInv /\ MainNeverDangling /\ ListsDisjoint
      /\ [Next]_vars
      => MainNeverDangling' /\ ListsDisjoint'
  BY MainInductive DEF SchedInv
<1>3. QED
  BY <1>1, <1>2, SchedInvariant, PTL DEF Spec

-----------------------------------------------------------------------------
(* The refinement of Mailbox.                                               *)

\* A message is at one place: not received yet, at pushMessage, in a queue, in
\* the hand of a worker, or released; in a queue it is once.
OnePlace ==
    \A m \in Message :
        /\ m \in fresh => m # netmsg /\ ~InBox(m) /\ ~InHand(m) /\ m \notin released
        /\ m = netmsg => ~InBox(m) /\ ~InHand(m) /\ m \notin released
        /\ InBox(m) => ~InHand(m) /\ m \notin released
        /\ InHand(m) => m \notin released

QueuedOnce ==
    \A r, s \in Service : \A i \in DOMAIN queue[r], j \in DOMAIN queue[s] :
        queue[r][i] = queue[s][j] => r = s /\ i = j

HeldOnce ==
    /\ \A v, w \in Worker : hand[v] = hand[w] /\ hand[v] # None => v = w
    /\ \A w \in Worker : wpc[w] # "handle" => hand[w] = None

MailInv == OnePlace /\ QueuedOnce /\ HeldOnce

\* The lists after a message was put at the back of one.
LEMMA AppendedQueues ==
    ASSUME queue \in [Service -> Seq(Message)], NEW s \in Service, NEW x \in Message,
           queue' = [queue EXCEPT ![s] = Append(@, x)]
    PROVE  /\ \A r \in Service : \A i \in DOMAIN queue[r] :
                 i \in DOMAIN queue'[r] /\ queue'[r][i] = queue[r][i]
           /\ \A r \in Service : \A i \in DOMAIN queue'[r] :
                 \/ i \in DOMAIN queue[r]
                 \/ r = s /\ i = Len(queue[s]) + 1 /\ queue'[r][i] = x
           /\ Len(queue[s]) + 1 \in DOMAIN queue'[s] /\ queue'[s][Len(queue[s]) + 1] = x
<1>1. queue[s] \in Seq(Message) /\ queue'[s] = Append(queue[s], x)
  OBVIOUS
<1>2. /\ DOMAIN Append(queue[s], x) = DOMAIN queue[s] \cup {Len(queue[s]) + 1}
      /\ \A i \in DOMAIN queue[s] : Append(queue[s], x)[i] = queue[s][i]
      /\ Append(queue[s], x)[Len(queue[s]) + 1] = x
  BY <1>1
<1>3. \A r \in Service : r # s => queue'[r] = queue[r]
  OBVIOUS
<1>4. QED
  BY <1>1, <1>2, <1>3

\* The lists after the front of one was taken.
LEMMA TailedQueues ==
    ASSUME queue \in [Service -> Seq(Message)], NEW s \in Service, queue[s] # <<>>,
           queue' = [queue EXCEPT ![s] = Tail(@)]
    PROVE  /\ 1 \in DOMAIN queue[s] /\ Head(queue[s]) = queue[s][1] /\ queue[s][1] \in Message
           /\ \A i \in DOMAIN queue'[s] :
                 i + 1 \in DOMAIN queue[s] /\ i + 1 # 1 /\ queue'[s][i] = queue[s][i + 1]
           /\ \A i \in DOMAIN queue[s] :
                 i # 1 => i - 1 \in DOMAIN queue'[s] /\ queue'[s][i - 1] = queue[s][i]
           /\ \A r \in Service : r # s => queue'[r] = queue[r]
<1>1. queue[s] \in Seq(Message) /\ queue'[s] = Tail(queue[s])
  OBVIOUS
<1>2. /\ Len(queue[s]) \in Nat \ {0} /\ DOMAIN queue[s] = 1 .. Len(queue[s])
      /\ DOMAIN Tail(queue[s]) = 1 .. Len(queue[s]) - 1
      /\ \A i \in 1 .. Len(queue[s]) - 1 : Tail(queue[s])[i] = queue[s][i + 1]
      /\ Head(queue[s]) = queue[s][1]
      /\ queue[s][1] \in Message
  BY <1>1
<1>3. \A r \in Service : r # s => queue'[r] = queue[r]
  OBVIOUS
<1>4. QED
  BY <1>1, <1>2, <1>3

\* A message that leaves pushMessage, or was never let in, is released.
LEMMA RejectedMail ==
    ASSUME TypeInv, MailInv, NEW m \in Message,
           m = netmsg \/ m \in fresh,
           released' = released \cup {m},
           fresh' \subseteq fresh, m \notin fresh',
           netmsg' \in {netmsg, None}, netmsg' # m,
           UNCHANGED <<queue, hand, wpc>>
    PROVE  MailInv' /\ M!Release(m)
<1> USE DEF MailInv, TypeInv, TypeOK
<1>1. /\ \A x \in Message : InBox(x)' <=> InBox(x)
      /\ \A x \in Message : InHand(x)' <=> InHand(x)
  BY DEF InBox, InHand, InQueue
<1>2. OnePlace'
  BY <1>1, ServiceAssumption DEF OnePlace
<1>3. QueuedOnce' /\ HeldOnce'
  BY DEF QueuedOnce, HeldOnce
<1>4. /\ MessageStage(m) = "new"
      /\ \A x \in Message : MessageStage(x)' = IF x = m THEN "released" ELSE MessageStage(x)
  BY <1>1 DEF MessageStage, OnePlace
<1>5. QED
  BY <1>2, <1>3, <1>4 DEF M!Release

\* The steps that move no message.
LEMMA MailUnmoved ==
    ASSUME MailInv, UNCHANGED <<fresh, netmsg, queue, hand, released>>,
           \A w \in Worker : wpc'[w] = "handle" <=> wpc[w] = "handle"
    PROVE  MailInv' /\ UNCHANGED M!mailboxVars
<1>1. \A m \in Message : (InBox(m)' <=> InBox(m)) /\ (InHand(m)' <=> InHand(m))
  BY DEF InBox, InHand, InQueue
<1>2. MailInv'
  BY <1>1 DEF MailInv, OnePlace, QueuedOnce, HeldOnce
<1>3. \A m \in Message : MessageStage(m)' = MessageStage(m)
  BY <1>1 DEF MessageStage
<1>4. QED
  BY <1>2, <1>3 DEF M!mailboxVars

\* service->pushMessage posts the message.
LEMMA PushedMail ==
    ASSUME TypeInv, MailInv, NetPush
    PROVE  MailInv' /\ M!Post(target["net"], netmsg)
<1> DEFINE s == target["net"]
<1>1. /\ s \in Service /\ netmsg \in Message
      /\ queue \in [Service -> Seq(Message)]
      /\ queue' = [queue EXCEPT ![s] = Append(@, netmsg)]
      /\ netmsg' = None /\ None \notin Message
      /\ UNCHANGED <<fresh, hand, wpc, released>>
  BY ServiceAssumption DEF NetPush, TypeInv, TypeOK, PointersOK, Scheduler, workerVars
<1> HIDE DEF s
<1>2. /\ \A r \in Service : \A i \in DOMAIN queue[r] :
            i \in DOMAIN queue'[r] /\ queue'[r][i] = queue[r][i]
      /\ \A r \in Service : \A i \in DOMAIN queue'[r] :
            \/ i \in DOMAIN queue[r]
            \/ r = s /\ i = Len(queue[s]) + 1 /\ queue'[r][i] = netmsg
      /\ Len(queue[s]) + 1 \in DOMAIN queue'[s] /\ queue'[s][Len(queue[s]) + 1] = netmsg
  BY <1>1, AppendedQueues
<1>3. \A x \in Message : InBox(x)' <=> InBox(x) \/ x = netmsg
  BY <1>1, <1>2 DEF InBox, InQueue
<1>4. \A x \in Message : InHand(x)' <=> InHand(x)
  BY <1>1 DEF InHand
<1>5. ~InBox(netmsg) /\ ~InHand(netmsg) /\ netmsg \notin released /\ netmsg \notin fresh
  BY <1>1 DEF MailInv, OnePlace
<1>6. OnePlace'
  BY <1>1, <1>3, <1>4, <1>5 DEF MailInv, OnePlace
<1>7. QueuedOnce'
  <2>1. \A r \in Service : \A i \in DOMAIN queue[r] : queue[r][i] # netmsg
    BY <1>5 DEF InBox, InQueue
  <2>2. QED
    BY <1>2, <2>1 DEF MailInv, QueuedOnce
<1>8. HeldOnce'
  BY <1>1 DEF MailInv, HeldOnce
<1>9. /\ MessageStage(netmsg) = "new"
      /\ \A x \in Message : MessageStage(x)' = IF x = netmsg THEN "posted" ELSE MessageStage(x)
  BY <1>1, <1>3, <1>4, <1>5 DEF MessageStage, MailInv, OnePlace
<1>10. QED
  BY <1>1, <1>6, <1>7, <1>8, <1>9 DEF MailInv, M!Post, s

\* pop_front under the lock takes the oldest message.
LEMMA PoppedMail ==
    ASSUME TypeInv, MailInv, NEW w \in Worker, RunPop(w), queue[wsvc[w]] # <<>>
    PROVE  MailInv' /\ M!Take(wsvc[w], Head(queue[wsvc[w]]))
<1> DEFINE s == wsvc[w]
           x == Head(queue[s])
<1>1. /\ s \in Service /\ queue[s] # <<>>
      /\ queue \in [Service -> Seq(Message)]
      /\ queue' = [queue EXCEPT ![s] = Tail(@)]
      /\ hand \in [Worker -> Message \cup {None}]
      /\ hand' = [hand EXCEPT ![w] = x]
      /\ wpc \in [Worker -> WorkerPc] /\ wpc[w] = "pop"
      /\ wpc' = [wpc EXCEPT ![w] = "handle"]
      /\ UNCHANGED <<fresh, netmsg, released>>
      /\ None \notin Message
  BY ServiceAssumption DEF RunPop, TypeInv, TypeOK, PointersOK, WGoto, netVars
<1> HIDE DEF s
<1>2. /\ 1 \in DOMAIN queue[s] /\ Head(queue[s]) = queue[s][1] /\ queue[s][1] \in Message
      /\ \A i \in DOMAIN queue'[s] :
            i + 1 \in DOMAIN queue[s] /\ i + 1 # 1 /\ queue'[s][i] = queue[s][i + 1]
      /\ \A i \in DOMAIN queue[s] :
            i # 1 => i - 1 \in DOMAIN queue'[s] /\ queue'[s][i - 1] = queue[s][i]
      /\ \A r \in Service : r # s => queue'[r] = queue[r]
  BY <1>1, TailedQueues
<1>3. x \in Message /\ InBox(x) /\ ~InHand(x) /\ x \notin released
  BY <1>1, <1>2 DEF MailInv, OnePlace, InBox, InQueue
<1>4. hand[w] = None
  BY <1>1 DEF MailInv, HeldOnce
<1> HIDE DEF x
<1>5. \A y \in Message : InBox(y)' <=> InBox(y) /\ y # x
  <2>1. \A r \in Service : \A i \in DOMAIN queue[r] : queue[r][i] = x => r = s /\ i = 1
    BY <1>1, <1>2 DEF MailInv, QueuedOnce, x
  <2>2. ASSUME NEW y \in Message, InBox(y), y # x PROVE InBox(y)'
    <3>0. PICK r \in Service : \E i \in DOMAIN queue[r] : queue[r][i] = y
      BY <2>2 DEF InBox, InQueue
    <3>1. PICK i \in DOMAIN queue[r] : queue[r][i] = y
      BY <3>0
    <3>2. CASE r = s
      BY <1>2, <2>2, <3>1, <3>2 DEF InBox, InQueue, x
    <3>3. CASE r # s
      BY <1>2, <3>1, <3>3 DEF InBox, InQueue
    <3>4. QED
      BY <3>2, <3>3
  <2>3. ASSUME NEW y \in Message, InBox(y)' PROVE InBox(y) /\ y # x
    <3>0. PICK r \in Service : \E i \in DOMAIN queue'[r] : queue'[r][i] = y
      BY <2>3 DEF InBox, InQueue
    <3>1. PICK i \in DOMAIN queue'[r] : queue'[r][i] = y
      BY <3>0
    <3>2. CASE r = s
      BY <1>2, <2>1, <3>1, <3>2 DEF InBox, InQueue
    <3>3. CASE r # s
      BY <1>2, <2>1, <3>1, <3>3 DEF InBox, InQueue
    <3>4. QED
      BY <3>2, <3>3
  <2>4. QED
    BY <2>2, <2>3
<1>6. \A y \in Message : InHand(y)' <=> InHand(y) \/ y = x
  BY <1>1, <1>4 DEF InHand
<1>7. OnePlace'
  BY <1>1, <1>3, <1>5, <1>6 DEF MailInv, OnePlace
<1>8. QueuedOnce'
  <2>1. ASSUME NEW q \in Service, NEW r \in Service,
               NEW i \in DOMAIN queue'[q], NEW j \in DOMAIN queue'[r],
               queue'[q][i] = queue'[r][j]
        PROVE  q = r /\ i = j
    <3> DEFINE k == IF q = s THEN i + 1 ELSE i
               l == IF r = s THEN j + 1 ELSE j
    <3>1. k \in DOMAIN queue[q] /\ queue[q][k] = queue'[q][i]
      BY <1>2
    <3>2. l \in DOMAIN queue[r] /\ queue[r][l] = queue'[r][j]
      BY <1>2
    <3>3. q = r /\ k = l
      BY <2>1, <3>1, <3>2 DEF MailInv, QueuedOnce
    <3>4. CASE q = s
      <4>1. queue'[s] \in Seq(Message)
        BY <1>1
      <4>2. i \in Nat /\ j \in Nat
        BY <3>3, <3>4, <4>1
      <4>3. QED
        BY <3>3, <3>4, <4>2
    <3>5. CASE q # s
      BY <3>3, <3>5
    <3>6. QED
      BY <3>4, <3>5
  <2>2. QED
    BY <2>1 DEF QueuedOnce
<1>9. HeldOnce'
  BY <1>1, <1>3, <1>4 DEF MailInv, HeldOnce, InHand
<1>10. /\ MessageStage(x) = "posted"
       /\ \A y \in Message : MessageStage(y)' = IF y = x THEN "taken" ELSE MessageStage(y)
  BY <1>1, <1>3, <1>5, <1>6 DEF MessageStage, MailInv, OnePlace
<1>11. QED
  BY <1>1, <1>3, <1>7, <1>8, <1>9, <1>10 DEF MailInv, M!Take, s, x

\* Service::run releases the message when the handler has returned.
LEMMA HandledMail ==
    ASSUME TypeInv, MailInv, NEW w \in Worker, RunHandle(w)
    PROVE  MailInv' /\ M!Release(hand[w])
<1> DEFINE x == hand[w]
<1>1. /\ x \in Message /\ None \notin Message
      /\ hand \in [Worker -> Message \cup {None}]
      /\ hand' = [hand EXCEPT ![w] = None]
      /\ wpc \in [Worker -> WorkerPc]
      /\ wpc' = [wpc EXCEPT ![w] = "loop"]
      /\ released' = released \cup {x}
      /\ UNCHANGED <<fresh, netmsg, queue>>
  BY ServiceAssumption DEF RunHandle, TypeInv, TypeOK, PointersOK, WGoto, netVars
<1>2. InHand(x)
  BY DEF InHand
<1>3. ~InBox(x) /\ x # netmsg /\ x \notin fresh /\ x \notin released
  BY <1>1, <1>2 DEF MailInv, OnePlace
<1>4. \A y \in Message : InHand(y)' <=> InHand(y) /\ y # x
  BY <1>1 DEF InHand, MailInv, HeldOnce
<1>5. \A y \in Message : InBox(y)' <=> InBox(y)
  BY <1>1 DEF InBox, InQueue
<1>6. QueuedOnce' /\ HeldOnce'
  BY <1>1 DEF MailInv, QueuedOnce, HeldOnce
<1>7. OnePlace'
  BY <1>1, <1>3, <1>4, <1>5 DEF MailInv, OnePlace
<1>8. /\ MessageStage(x) = "taken"
      /\ \A y \in Message : MessageStage(y)' = IF y = x THEN "released" ELSE MessageStage(y)
  BY <1>1, <1>2, <1>3, <1>4, <1>5 DEF MessageStage
<1>9. QED
  BY <1>1, <1>6, <1>7, <1>8 DEF MailInv, M!Release

\* Every step of the threads is a step of the mailbox or leaves it alone.
LEMMA MailStep ==
    ASSUME TypeInv, MailInv, [Next]_vars
    PROVE  MailInv' /\ [M!MailboxNext]_(M!mailboxVars)
<1> USE DEF M!MailboxNext
<1>1. ASSUME NEW m \in Message, NetReceive(m)
      PROVE  MailInv' /\ [M!MailboxNext]_(M!mailboxVars)
  <2>1. CASE InitService \in registered
    <3>1. /\ netmsg = None /\ netmsg' = m /\ m \in fresh /\ fresh' = fresh \ {m}
          /\ UNCHANGED <<queue, hand, wpc, released>>
      BY <1>1, <2>1 DEF NetReceive, workerVars
    <3>2. \A y \in Message : (InBox(y)' <=> InBox(y)) /\ (InHand(y)' <=> InHand(y))
      BY <3>1 DEF InBox, InHand, InQueue
    <3>3. MailInv'
      BY <3>1, <3>2 DEF MailInv, OnePlace, QueuedOnce, HeldOnce
    <3>4. \A y \in Message : MessageStage(y)' = MessageStage(y)
      BY <3>1, <3>2 DEF MessageStage
    <3>5. QED
      BY <3>1, <3>3, <3>4 DEF M!mailboxVars
  <2>2. CASE InitService \notin registered
    <3>1. MailInv' /\ M!Release(m)
      <4>1. /\ m \in fresh /\ released' = released \cup {m} /\ fresh' = fresh \ {m}
            /\ netmsg' = netmsg /\ netmsg = None /\ None \notin Message
            /\ UNCHANGED <<queue, hand, wpc>>
        BY <1>1, <2>2, ServiceAssumption DEF NetReceive, workerVars
      <4>2. QED
        BY <4>1, RejectedMail
    <3>2. QED
      BY <3>1
  <2>3. QED
    BY <2>1, <2>2
<1>2. ASSUME Reject, UNCHANGED <<queue, fresh, hand, wpc>>, pc["net"] \in {"dispatch", "lookup"}
      PROVE  MailInv' /\ [M!MailboxNext]_(M!mailboxVars)
  <2>1. /\ netmsg \in Message /\ released' = released \cup {netmsg} /\ netmsg' = None
        /\ None \notin Message
    BY <1>2, ServiceAssumption DEF Reject, TypeInv, PointersOK
  <2>2. netmsg \notin fresh
    BY <2>1 DEF MailInv, OnePlace
  <2>3. MailInv' /\ M!Release(netmsg)
    BY <1>2, <2>1, <2>2, RejectedMail
  <2>4. QED
    BY <2>1, <2>3
<1>3. ASSUME NetDispatch
      PROVE  MailInv' /\ [M!MailboxNext]_(M!mailboxVars)
  <2>1. CASE Reject
    BY <1>2, <1>3, <2>1 DEF NetDispatch, workerVars
  <2>2. CASE UNCHANGED <<released, netmsg>>
    BY <1>3, <2>2, MailUnmoved DEF NetDispatch, workerVars
  <2>3. QED
    BY <1>3, <2>1, <2>2 DEF NetDispatch
<1>4. ASSUME NetLookup
      PROVE  MailInv' /\ [M!MailboxNext]_(M!mailboxVars)
  <2>1. CASE Reject
    BY <1>2, <1>4, <2>1 DEF NetLookup, workerVars
  <2>2. CASE UNCHANGED <<released, netmsg>>
    BY <1>4, <2>2, MailUnmoved DEF NetLookup, workerVars
  <2>3. QED
    BY <1>4, <2>1, <2>2 DEF NetLookup
<1>5. ASSUME NetPush
      PROVE  MailInv' /\ [M!MailboxNext]_(M!mailboxVars)
  <2>1. target["net"] \in Service /\ netmsg \in Message
    BY <1>5 DEF NetPush, TypeInv, PointersOK, Scheduler
  <2>2. QED
    BY <1>5, <2>1, PushedMail
<1>6. ASSUME NEW w \in Worker, RunPop(w)
      PROVE  MailInv' /\ [M!MailboxNext]_(M!mailboxVars)
  <2>1. CASE queue[wsvc[w]] = <<>>
    BY <1>6, <2>1, MailUnmoved DEF RunPop, netVars
  <2>2. CASE queue[wsvc[w]] # <<>>
    <3>1. wsvc[w] \in Service /\ queue[wsvc[w]] \in Seq(Message)
      BY <1>6 DEF RunPop, TypeInv, TypeOK
    <3>2. Head(queue[wsvc[w]]) \in Message
      BY <2>2, <3>1
    <3>3. QED
      BY <1>6, <2>2, <3>1, <3>2, PoppedMail
  <2>3. QED
    BY <2>1, <2>2
<1>7. ASSUME NEW w \in Worker, RunHandle(w)
      PROVE  MailInv' /\ [M!MailboxNext]_(M!mailboxVars)
  <2>1. hand[w] \in Message
    BY <1>7 DEF RunHandle, TypeInv, PointersOK
  <2>2. QED
    BY <1>7, <2>1, HandledMail
<1>8. CASE /\ \A m \in Message : ~NetReceive(m)
           /\ ~NetDispatch /\ ~NetLookup /\ ~NetPush
           /\ \A w \in Worker : ~RunPop(w) /\ ~RunHandle(w)
  <2>1. UNCHANGED <<fresh, netmsg, queue, hand, released>>
    BY <1>8, ScriptFrame DEF Next, Main, Net, NetStep, Schedule, Work, Dead, vars, Caller,
         NeedSchedule, CheckRunning, SetRunning, AddTask, MainSnapshot, MainReap,
         MainPick, TakeTask, RunLoop, RunPeek, RunAssert, RunDone, UseAfterFree, netVars,
         workerVars
  <2>2. \A w \in Worker : wpc'[w] = "handle" <=> wpc[w] = "handle"
    <3>1. CASE \E t \in Caller : Call(t) \/ InitReturns(t)
      BY <3>1, ScriptFrame DEF workerVars
    <3>2. CASE ~ \E t \in Caller : Call(t) \/ InitReturns(t)
      BY <1>8, <3>2 DEF Next, Main, Net, NetStep, Schedule, Work, Dead, vars, Caller,
           NeedSchedule, CheckRunning, SetRunning, AddTask, MainSnapshot, MainReap,
           MainPick, TakeTask, RunLoop, RunPeek, RunAssert, RunDone, UseAfterFree,
           workerVars, WGoto, TypeInv, TypeOK
    <3>3. QED
      BY <3>1, <3>2
  <2>3. QED
    BY <2>1, <2>2, MailUnmoved
<1>9. QED
  BY <1>1, <1>3, <1>4, <1>5, <1>6, <1>7, <1>8

\* The scheduling of services implements FIFO mailboxes with one owner of each
\* message at a time, the race of Runnable::schedule included.
THEOREM MailboxImplemented == Spec => ImplementsMailbox
<1>1. Init => MailInv /\ M!MailboxInit
  <2> SUFFICES ASSUME Init PROVE MailInv /\ M!MailboxInit
    OBVIOUS
  <2>1. \A m \in Message : ~InBox(m) /\ ~InHand(m)
    BY ServiceAssumption DEF Init, InBox, InQueue, InHand
  <2>2. MailInv
    BY <2>1, ServiceAssumption DEF Init, MailInv, OnePlace, QueuedOnce, HeldOnce
  <2>3. QED
    BY <2>1, <2>2 DEF Init, M!MailboxInit, MessageStage
<1>2. TypeInv /\ MailInv /\ [Next]_vars => MailInv' /\ [M!MailboxNext]_(M!mailboxVars)
  BY MailStep
<1>3. SchedInv => TypeInv
  BY DEF SchedInv
<1>4. QED
  BY <1>1, <1>2, <1>3, SchedInvariant, PTL DEF Spec, ImplementsMailbox, M!MailboxSpec
=============================================================================
