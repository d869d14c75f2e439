--------------------------- MODULE LifecycleProofs ---------------------------
(***************************************************************************)
(* Proofs about Lifecycle, for any number of workers, services and         *)
(* messages.                                                               *)
(***************************************************************************)
EXTENDS Lifecycle, FiniteSetTheorems, SequenceTheorems, TLAPS

\* A thread is where its code is.
PlacesOK ==
    /\ pc \in [Thread -> MainPc \cup NetPc \cup WorkerPc \cup ScriptPc]
    /\ pc[Main] \in MainPc \cup ScriptPc /\ pc[Net] \in NetPc
    /\ \A w \in Worker : pc[w] \in WorkerPc \cup ScriptPc

Callers == {u \in Thread : pc[u] \in Calling}

\* There is a number left for each service that newservice is about to make.
RoomLeft == made \in Nat /\ made + Cardinality(Callers) <= MaxService

\* The services a thread or a list names are allocated.
Allocated ==
    /\ \A t \in Thread : frames[t] \in Seq(1 .. made)
    /\ shutlist \subseteq 1 .. made /\ deleted \subseteq 1 .. made
    /\ \A k \in DOMAIN services : services[k] \in 1 .. made

DataOK ==
    /\ PlacesOK /\ RoomLeft /\ Allocated
    /\ autoid \in Nat /\ reg \in [Thread -> Nat] /\ sid \in [Object -> Nat]
    /\ frames \in [Thread -> Seq(Nat)] /\ raced \in BOOLEAN

\* Where newservice has an id that no service has yet.
HasId(t) == pc[t] \in {"assert", "insert"}

\* The ids that are read, stored, held by newservice and given to services.
IdsRight ==
    /\ \A t \in Thread : pc[t] = "store" => reg[t] = autoid
    /\ \A t, u \in Thread : pc[t] = "store" /\ pc[u] = "store" => t = u
    /\ \A t \in Thread : HasId(t) => reg[t] < autoid /\ \A o \in 1 .. made : sid[o] # reg[t]
    /\ \A t, u \in Thread : t # u /\ HasId(t) /\ HasId(u) => reg[t] # reg[u]
    /\ \A o \in 1 .. made : sid[o] < autoid
    /\ \A o, p \in 1 .. made : sid[o] = sid[p] => o = p

\* The map has the services that are not deleted, each under its id.
MapRight ==
    /\ \A k \in DOMAIN services : services[k] \notin deleted /\ sid[services[k]] = k
    /\ \A o \in 1 .. made : o \notin deleted => sid[o] \in DOMAIN services

LifeInv == DataOK /\ (~raced => IdsRight /\ MapRight /\ fault # "idassert")
-----------------------------------------------------------------------------
\* A thread that calls newservice, or is done with making a service.
LEMMA CallersMove ==
    ASSUME PlacesOK, NEW t \in Thread
    PROVE  /\ IsFiniteSet(Callers) /\ Cardinality(Callers) \in Nat
           /\ Cardinality(Callers \cup {t}) =
                IF t \in Callers THEN Cardinality(Callers) ELSE Cardinality(Callers) + 1
           /\ Cardinality(Callers \ {t}) =
                IF t \in Callers THEN Cardinality(Callers) - 1 ELSE Cardinality(Callers)
<1>1. IsFiniteSet(Thread)
  <2>1. IsFiniteSet(Worker \cup {Main})
    BY LifecycleAssumption, FS_AddElement
  <2>2. IsFiniteSet((Worker \cup {Main}) \cup {Net})
    BY <2>1, FS_AddElement
  <2>3. (Worker \cup {Main}) \cup {Net} = Thread
    BY DEF Thread
  <2>4. QED
    BY <2>2, <2>3
<1>2. IsFiniteSet(Callers)
  BY <1>1, FS_Subset DEF Callers
<1>3. QED
  BY <1>2, FS_CardinalityType, FS_AddElement, FS_RemoveElement

\* The services that are allocated are objects, and have numbers as ids.
LEMMA IdsAreNumbers ==
    ASSUME DataOK
    PROVE  made <= MaxService /\ \A o \in 1 .. made : o \in Object /\ sid[o] \in Nat
<1>1. Main \in Thread
  BY DEF Thread
<1>2. Cardinality(Callers) \in Nat
  BY <1>1, CallersMove DEF DataOK
<1>3. made \in Nat /\ made <= MaxService /\ MaxService \in Nat
  BY <1>2, LifecycleAssumption DEF DataOK, RoomLeft
<1>4. \A o \in 1 .. made : o \in Object
  BY <1>3 DEF Object
<1>5. QED
  BY <1>3, <1>4 DEF DataOK

\* A step outside newservice that deletes nothing.
LEMMA Elsewhere ==
    ASSUME LifeInv, PlacesOK', UNCHANGED <<services, autoid, made, sid, reg, raced, deleted>>,
           frames' \in [Thread -> Seq(Nat)],
           \A t \in Thread : frames'[t] \in Seq(1 .. made),
           shutlist' \subseteq 1 .. made,
           fault' = fault \/ fault' # "idassert",
           \A t \in Thread : pc'[t] = pc[t] \/ (pc[t] \notin Calling /\ pc'[t] \notin Calling)
    PROVE  LifeInv'
<1>1. Callers' = Callers
  BY DEF Callers
<1>2. DataOK'
  BY <1>1 DEF LifeInv, DataOK, RoomLeft, Allocated
<1>3. \A t \in Thread : pc'[t] \in Calling => pc'[t] = pc[t]
  OBVIOUS
<1>4. IdsRight => IdsRight'
  BY <1>3 DEF IdsRight, HasId, Calling
<1>5. MapRight => MapRight'
  BY DEF MapRight
<1>6. QED
  BY <1>2, <1>4, <1>5 DEF LifeInv

\* A service is erased from the map by its id and deleted.
LEMMA Deletion ==
    ASSUME LifeInv, PlacesOK', NEW o \in 1 .. made, NEW k,
           services' = EraseKey(k), deleted' = deleted \cup {o},
           ~raced => o \notin deleted /\ k = sid[o],
           UNCHANGED <<autoid, made, sid, reg, raced, fault>>,
           frames' \in [Thread -> Seq(Nat)],
           \A t \in Thread : frames'[t] \in Seq(1 .. made),
           shutlist' \subseteq 1 .. made,
           \A t \in Thread : pc'[t] = pc[t] \/ (pc[t] \notin Calling /\ pc'[t] \notin Calling)
    PROVE  LifeInv'
<1>1. Callers' = Callers
  BY DEF Callers
<1>2. DOMAIN services' = DOMAIN services \ {k} /\ \A j \in DOMAIN services' : services'[j] = services[j]
  BY DEF EraseKey, Restrict
<1>3. DataOK'
  BY <1>1, <1>2 DEF LifeInv, DataOK, RoomLeft, Allocated
<1>4. \A t \in Thread : pc'[t] \in Calling => pc'[t] = pc[t]
  OBVIOUS
<1>5. IdsRight => IdsRight'
  BY <1>4 DEF IdsRight, HasId, Calling
<1>6. ASSUME ~raced PROVE MapRight'
  BY <1>2, <1>6 DEF MapRight, LifeInv, IdsRight
<1>7. QED
  BY <1>3, <1>5, <1>6 DEF LifeInv
\* Each thread stays in its code.
LEMMA PlacesKept == PlacesOK /\ [Next]_vars => PlacesOK'
<1> SUFFICES ASSUME PlacesOK, [Next]_vars PROVE PlacesOK'
  OBVIOUS
<1>d. Main # Net /\ Main \notin Worker /\ Net \notin Worker
  BY LifecycleAssumption
<1>t. Main \in Thread /\ Net \in Thread /\ \A w \in Worker : w \in Thread
  BY DEF Thread
<1>m. ASSUME NEW l \in MainPc \cup ScriptPc, Goto(Main, l) PROVE PlacesOK'
  BY <1>m, <1>d, <1>t DEF PlacesOK, Goto
<1>n. ASSUME NEW l \in NetPc, Goto(Net, l) PROVE PlacesOK'
  BY <1>n, <1>d, <1>t DEF PlacesOK, Goto
<1>w. ASSUME NEW w \in Worker, NEW l \in WorkerPc \cup ScriptPc, Goto(w, l) PROVE PlacesOK'
  BY <1>w, <1>d, <1>t DEF PlacesOK, Goto
<1>u. ASSUME pc' = pc PROVE PlacesOK'
  BY <1>u DEF PlacesOK
<1> USE DEF MainPc, NetPc, WorkerPc, ScriptPc, Dangling, Fails
<1>1. ASSUME NEW t \in {Main} \cup Worker, ScriptStep(t) PROVE PlacesOK'
  <2>1. \/ pc' = pc
        \/ \E l \in ScriptPc : Goto(t, l)
        \/ t = Main /\ \E l \in MainPc : Goto(Main, l)
    BY <1>1 DEF ScriptStep, CallNewService, ReadId, StoreId, AssertFree, Insert, InitDone,
       InitFails, ExitService, Listen, Return
  <2>2. QED
    BY <1>m, <1>w, <1>u, <2>1
<1>2. ASSUME MainStep PROVE PlacesOK'
  <2>1. ScriptStep(Main) \/ pc' = pc \/ \E l \in MainPc : Goto(Main, l)
    BY <1>2 DEF MainStep, SetInitId, Halt, Tick, EndTick, Reap, ScheduleListed, LeaveLoop,
       Drained, Drain, PollStop, DeleteSockets, PoolStop, Join
  <2>2. QED
    BY <1>1, <1>m, <1>u, <2>1
<1>3. ASSUME NetStep PROVE PlacesOK'
  <2>1. pc' = pc \/ \E l \in NetPc : Goto(Net, l)
    BY <1>3 DEF NetStep, NetTask, TestHalt, PollRun, FindSocket, Receive, FindInitService,
       Dispatch, Push
  <2>2. QED
    BY <1>n, <1>u, <2>1
<1>4. ASSUME NEW w \in Worker, WorkerStep(w) PROVE PlacesOK'
  <2>1. ScriptStep(w) \/ pc' = pc \/ \E l \in WorkerPc \cup ScriptPc : Goto(w, l)
    BY <1>4 DEF WorkerStep, TakeTask, RunService, EndHandler, SendMessage, EndRun, EndWorker
  <2>2. QED
    BY <1>1, <1>w, <1>u, <2>1
<1>5. ASSUME Signal PROVE PlacesOK'
  BY <1>5, <1>n, <1>u DEF Signal
<1>6. CASE UNCHANGED vars
  BY <1>6, <1>u DEF vars
<1>7. QED
  BY <1>2, <1>3, <1>4, <1>5, <1>6 DEF Next

\* newservice from its call to the assertion.
LEMMA GettingId ==
    ASSUME LifeInv, PlacesOK', NEW t \in Thread,
           CallNewService(t) \/ ReadId(t) \/ StoreId(t) \/ AssertFree(t)
    PROVE  LifeInv'
<1> USE DEF Goto, idVars, lifeVars, tickVars
<1>t. /\ pc \in [Thread -> MainPc \cup NetPc \cup WorkerPc \cup ScriptPc]
      /\ reg \in [Thread -> Nat] /\ autoid \in Nat /\ made \in Nat /\ DataOK /\ PlacesOK
  BY DEF LifeInv, DataOK, PlacesOK, RoomLeft
<1>1. CASE CallNewService(t)
  <2>1. /\ pc[t] = "script" /\ made + Cardinality(Callers) < MaxService
        /\ \A u \in Thread : pc'[u] = IF u = t THEN "id" ELSE pc[u]
        /\ UNCHANGED <<services, autoid, made, sid, reg, raced, deleted, frames, shutlist, fault>>
    BY <1>1, <1>t DEF CallNewService, Callers
  <2>2. Callers' = Callers \cup {t} /\ t \notin Callers
    BY <2>1 DEF Callers, Calling
  <2>3. RoomLeft'
    BY <1>t, <2>1, <2>2, CallersMove, LifecycleAssumption DEF RoomLeft
  <2>4. DataOK'
    BY <1>t, <2>1, <2>3 DEF DataOK, Allocated
  <2>5. IdsRight => IdsRight'
    BY <2>1 DEF IdsRight, HasId
  <2>6. MapRight => MapRight'
    BY <2>1 DEF MapRight
  <2>7. QED
    BY <2>1, <2>4, <2>5, <2>6 DEF LifeInv
<1>2. CASE ReadId(t)
  <2>1. /\ pc[t] = "id"
        /\ \A u \in Thread : pc'[u] = IF u = t THEN "store" ELSE pc[u]
        /\ \A u \in Thread : reg'[u] = IF u = t THEN autoid ELSE reg[u]
        /\ reg' \in [Thread -> Nat]
        /\ UNCHANGED <<services, autoid, made, sid, deleted, frames, shutlist, fault>>
    BY <1>2, <1>t DEF ReadId
  <2>r. /\ raced' \in BOOLEAN
        /\ ~raced' => ~raced /\ \A u \in Thread : pc[u] # "store"
    BY <1>2 DEF ReadId
  <2>2. Callers' = Callers
    BY <2>1 DEF Callers, Calling
  <2>3. DataOK'
    BY <1>t, <2>1, <2>r, <2>2 DEF DataOK, Allocated, RoomLeft
  <2>5. ASSUME ~raced' PROVE IdsRight' /\ MapRight' /\ fault' # "idassert"
    <3>1. IdsRight /\ MapRight /\ fault # "idassert" /\ \A u \in Thread : pc[u] # "store"
      BY <2>5, <2>r DEF LifeInv
    <3>2. IdsRight'
      BY <2>1, <3>1 DEF IdsRight, HasId
    <3>3. QED
      BY <2>1, <3>1, <3>2 DEF MapRight
  <2>6. QED
    BY <2>3, <2>5 DEF LifeInv
<1>3. CASE StoreId(t)
  <2>1. /\ pc[t] = "store" /\ autoid' = reg[t] + 1
        /\ \A u \in Thread : pc'[u] = IF u = t THEN "assert" ELSE pc[u]
        /\ UNCHANGED <<services, made, sid, reg, raced, deleted, frames, shutlist, fault>>
    BY <1>3, <1>t DEF StoreId
  <2>2. Callers' = Callers
    BY <2>1 DEF Callers, Calling
  <2>3. DataOK'
    BY <1>t, <2>1, <2>2 DEF DataOK, Allocated, RoomLeft
  <2>5. ASSUME IdsRight PROVE IdsRight'
    <3>1. autoid' = autoid + 1 /\ reg[t] = autoid
      BY <2>1, <2>5 DEF IdsRight
    <3>2. \A o \in 1 .. made : sid[o] \in Nat
      BY <1>t, IdsAreNumbers
    <3>3. QED
      BY <1>t, <2>1, <2>5, <3>1, <3>2 DEF IdsRight, HasId
  <2>6. QED
    BY <2>1, <2>3, <2>5 DEF LifeInv, MapRight
<1>4. CASE AssertFree(t) /\ reg[t] \in DOMAIN services
  <2>1. /\ pc[t] = "assert"
        /\ UNCHANGED <<pc, services, autoid, made, sid, reg, raced, deleted, frames, shutlist>>
    BY <1>4 DEF AssertFree, Fails
  <2>2. raced
    <3>1. SUFFICES ASSUME IdsRight, MapRight PROVE FALSE
      BY DEF LifeInv
    <3>2. services[reg[t]] \in 1 .. made
      BY <1>4, <1>t DEF DataOK, Allocated
    <3>3. QED
      BY <1>4, <2>1, <3>1, <3>2 DEF IdsRight, MapRight, HasId
  <2>3. Callers' = Callers
    BY <2>1 DEF Callers
  <2>4. DataOK'
    BY <1>t, <2>1, <2>3 DEF DataOK, Allocated, RoomLeft
  <2>5. QED
    BY <2>1, <2>2, <2>4 DEF LifeInv
<1>5. CASE AssertFree(t) /\ reg[t] \notin DOMAIN services
  <2>1. /\ pc[t] = "assert"
        /\ \A u \in Thread : pc'[u] = IF u = t THEN "insert" ELSE pc[u]
        /\ UNCHANGED <<services, autoid, made, sid, reg, raced, deleted, frames, shutlist, fault>>
    BY <1>5, <1>t DEF AssertFree
  <2>2. Callers' = Callers
    BY <2>1 DEF Callers, Calling
  <2>3. DataOK'
    BY <1>t, <2>1, <2>2 DEF DataOK, Allocated, RoomLeft
  <2>4. IdsRight => IdsRight'
    BY <2>1 DEF IdsRight, HasId
  <2>5. QED
    BY <2>1, <2>3, <2>4 DEF LifeInv, MapRight
<1>6. QED
  BY <1>1, <1>2, <1>3, <1>4, <1>5
\* new Service(sid) and insert().
LEMMA Inserted ==
    ASSUME LifeInv, PlacesOK', NEW t \in Thread, Insert(t)
    PROVE  LifeInv'
<1> USE DEF Goto, idVars, lifeVars, tickVars
<1> DEFINE n == made + 1
<1>t. /\ pc \in [Thread -> MainPc \cup NetPc \cup WorkerPc \cup ScriptPc]
      /\ reg \in [Thread -> Nat] /\ autoid \in Nat /\ made \in Nat /\ DataOK /\ PlacesOK
      /\ sid \in [Object -> Nat] /\ frames \in [Thread -> Seq(Nat)]
      /\ MaxService \in Nat
  BY LifecycleAssumption DEF LifeInv, DataOK, PlacesOK, RoomLeft
<1>1. /\ pc[t] = "insert"
      /\ \A u \in Thread : pc'[u] = IF u = t THEN "script" ELSE pc[u]
      /\ \A u \in Thread : reg'[u] = IF u = t THEN 0 ELSE reg[u]
      /\ reg' \in [Thread -> Nat]
      /\ made' = n
      /\ UNCHANGED <<autoid, raced, deleted, shutlist, fault>>
  BY <1>t DEF Insert
<1>2. Callers' = Callers \ {t} /\ t \in Callers
  BY <1>1 DEF Callers, Calling
<1>3. RoomLeft' /\ n \in Object
  <2>1. /\ Cardinality(Callers) \in Nat /\ Cardinality(Callers') = Cardinality(Callers) - 1
        /\ made + Cardinality(Callers) <= MaxService
    BY <1>t, <1>2, CallersMove DEF DataOK, RoomLeft
  <2>2. Cardinality(Callers') \in Nat
    <3>1. Cardinality(Callers) # 0
      <4>1. IsFiniteSet(Callers)
        BY <1>t, CallersMove
      <4>2. QED
        BY <1>2, <4>1, FS_EmptySet
    <3>2. QED
      BY <2>1, <3>1
  <2>3. RoomLeft'
    BY <1>t, <1>1, <2>1, <2>2 DEF RoomLeft
  <2>4. n \in Object
    BY <1>t, <2>1, <2>2 DEF Object
  <2>5. QED
    BY <2>3, <2>4
<1>4. /\ sid' \in [Object -> Nat] /\ sid'[n] = reg[t]
      /\ \A o \in 1 .. made : sid'[o] = sid[o] /\ o # n
  BY <1>t, <1>3, IdsAreNumbers DEF Insert
<1>5. /\ frames' \in [Thread -> Seq(Nat)] /\ \A u \in Thread : frames'[u] \in Seq(1 .. n)
  <2>1. \A u \in Thread : frames[u] \in Seq(1 .. n)
    <3>1. 1 .. made \subseteq 1 .. n
      BY <1>t
    <3>2. QED
      BY <1>t, <3>1, SeqMonotonic DEF DataOK, Allocated
  <2>2. <<n>> \in Seq(1 .. n) /\ <<n>> \in Seq(Nat)
    BY <1>t
  <2>3. <<n>> \o frames[t] \in Seq(1 .. n) /\ <<n>> \o frames[t] \in Seq(Nat)
    BY <1>t, <2>1, <2>2, ConcatProperties
  <2>4. frames' = [frames EXCEPT ![t] = <<n>> \o frames[t]]
    BY DEF Insert
  <2>5. QED
    BY <1>t, <2>1, <2>3, <2>4
<1>6. /\ DOMAIN services' = DOMAIN services \cup {reg[t]}
      /\ reg[t] \notin DOMAIN services => services'[reg[t]] = n
      /\ \A k \in DOMAIN services : services'[k] = services[k]
  BY DEF Insert
<1>7. 1 .. n = (1 .. made) \cup {n}
  BY <1>t
<1>8. Allocated'
  <2>1. \A k \in DOMAIN services : services[k] \in 1 .. n
    BY <1>7 DEF LifeInv, DataOK, Allocated
  <2>2. \A k \in DOMAIN services' : services'[k] \in 1 .. n
    BY <1>6, <1>7, <2>1
  <2>3. shutlist' \subseteq 1 .. n /\ deleted' \subseteq 1 .. n
    BY <1>1, <1>7 DEF LifeInv, DataOK, Allocated
  <2>4. QED
    BY <1>1, <1>5, <2>2, <2>3 DEF Allocated
<1>9. DataOK'
  BY <1>t, <1>1, <1>3, <1>4, <1>5, <1>8 DEF DataOK
<1>10. ASSUME ~raced' PROVE IdsRight' /\ MapRight' /\ fault' # "idassert"
  <2>1. IdsRight /\ MapRight /\ fault # "idassert"
    BY <1>1, <1>10 DEF LifeInv
  <2>2. /\ reg[t] < autoid /\ \A o \in 1 .. made : sid[o] # reg[t]
        /\ \A u \in Thread : u # t /\ HasId(u) => reg[u] # reg[t]
    BY <1>1, <2>1 DEF IdsRight, HasId
  <2>3. \A k \in DOMAIN services : services[k] \in 1 .. made /\ services[k] \notin deleted
                                  /\ sid[services[k]] = k
    BY <2>1 DEF MapRight, LifeInv, DataOK, Allocated
  <2>4. reg[t] \notin DOMAIN services
    BY <2>2, <2>3
  <2>5. n \notin deleted
    BY <1>t DEF DataOK, Allocated
  <2> HIDE DEF n
  <2>6. \A u \in Thread : HasId(u)' => u # t /\ HasId(u) /\ reg'[u] = reg[u]
    BY <1>1 DEF HasId
  <2>7. IdsRight'
    <3>1. \A u \in Thread : pc'[u] = "store" => pc[u] = "store" /\ reg'[u] = reg[u]
      BY <1>1
    <3>2. \A u \in Thread : HasId(u)' =>
            reg'[u] < autoid' /\ \A o \in 1 .. made' : sid'[o] # reg'[u]
      BY <1>1, <1>4, <1>7, <2>1, <2>2, <2>6 DEF IdsRight
    <3>3. \A o \in 1 .. made' : sid'[o] < autoid'
      BY <1>1, <1>4, <1>7, <2>1, <2>2 DEF IdsRight
    <3>4. \A o, p \in 1 .. made' : sid'[o] = sid'[p] => o = p
      BY <1>1, <1>4, <1>7, <2>1, <2>2 DEF IdsRight
    <3>5. \A u, v \in Thread : u # v /\ HasId(u)' /\ HasId(v)' => reg'[u] # reg'[v]
      BY <2>1, <2>6 DEF IdsRight
    <3>6. QED
      BY <1>1, <2>1, <3>1, <3>2, <3>3, <3>4, <3>5 DEF IdsRight
  <2>8. MapRight'
    <3>1. \A k \in DOMAIN services' : services'[k] \notin deleted' /\ sid'[services'[k]] = k
      BY <1>1, <1>4, <1>6, <2>3, <2>4, <2>5
    <3>2. \A o \in 1 .. made' : o \notin deleted' => sid'[o] \in DOMAIN services'
      BY <1>1, <1>4, <1>6, <1>7, <2>1 DEF MapRight
    <3>3. QED
      BY <3>1, <3>2 DEF MapRight
  <2>9. QED
    BY <1>1, <2>1, <2>7, <2>8
<1>11. QED
  BY <1>9, <1>10 DEF LifeInv
\* The inductive invariant: what newservice, the reaping and the shutdown do
\* to the ids and to the map of services.
LEMMA LifeInductive == LifeInv /\ [Next]_vars => LifeInv'
<1> SUFFICES ASSUME LifeInv, [Next]_vars PROVE LifeInv'
  OBVIOUS
<1>p. PlacesOK /\ PlacesOK'
  BY PlacesKept DEF LifeInv, DataOK
<1>t. /\ Main \in Thread /\ Net \in Thread /\ \A w \in Worker : w \in Thread
      /\ pc \in [Thread -> MainPc \cup NetPc \cup WorkerPc \cup ScriptPc]
      /\ frames \in [Thread -> Seq(Nat)] /\ \A t \in Thread : frames[t] \in Seq(1 .. made)
      /\ shutlist \subseteq 1 .. made
      /\ \A k \in DOMAIN services : services[k] \in 1 .. made
  BY <1>p DEF Thread, PlacesOK, LifeInv, DataOK, Allocated
<1> USE DEF Goto, idVars, lifeVars, tickVars, Dangling, Fails
\* A step of thread t that is not one of newservice and deletes nothing.
<1>q. ASSUME NEW t \in Thread, NEW l,
             UNCHANGED <<services, autoid, made, sid, reg, raced, deleted, frames>>,
             shutlist' \subseteq 1 .. made,
             fault' = fault \/ fault' = "uaf" \/ fault' = "exitassert",
             pc' = pc \/ (pc[t] \notin Calling /\ l \notin Calling /\ Goto(t, l))
      PROVE  LifeInv'
  <2>1. \A u \in Thread : pc'[u] = pc[u] \/ (pc[u] \notin Calling /\ pc'[u] \notin Calling)
    BY <1>q, <1>t
  <2>2. QED
    BY <1>p, <1>q, <1>t, <2>1, Elsewhere
\* The stack of a thread without its innermost service.
<1>f. ASSUME NEW t \in Thread, frames[t] # <<>>, NEW l, Return(t, l)
      PROVE  /\ frames' \in [Thread -> Seq(Nat)] /\ \A u \in Thread : frames'[u] \in Seq(1 .. made)
             /\ Head(frames[t]) \in 1 .. made
  <2>1. /\ Head(frames[t]) \in 1 .. made /\ Tail(frames[t]) \in Seq(1 .. made)
        /\ Tail(frames[t]) \in Seq(Nat)
    BY <1>f, <1>t, HeadTailProperties
  <2>2. QED
    BY <1>f, <1>t, <2>1 DEF Return
<1>1. ASSUME NEW t \in Thread, InitDone(t) PROVE LifeInv'
  <2>1. /\ frames' \in [Thread -> Seq(Nat)] /\ \A u \in Thread : frames'[u] \in Seq(1 .. made)
    BY <1>1, <1>f DEF InitDone
  <2>2. \A u \in Thread : pc'[u] = pc[u] \/ (pc[u] \notin Calling /\ pc'[u] \notin Calling)
    BY <1>1, <1>t DEF InitDone, Return, Calling
  <2>3. /\ UNCHANGED <<services, autoid, made, sid, reg, raced, deleted, shutlist, fault>>
    BY <1>1 DEF InitDone
  <2>4. QED
    BY <1>p, <1>t, <2>1, <2>2, <2>3, Elsewhere
<1>2. ASSUME NEW t \in Thread, InitFails(t) PROVE LifeInv'
  <2> DEFINE o == Head(frames[t])
  <2>1. CASE Dangling(o)
    <3>1. /\ UNCHANGED <<services, autoid, made, sid, reg, raced, deleted, frames, shutlist, pc>>
          /\ fault' = "uaf"
      BY <2>1
    <3>2. QED
      BY <1>q, <1>t, <3>1
  <2>2. CASE ~Dangling(o)
    <3>1. /\ pc[t] = "script" /\ frames[t] # <<>> /\ o \notin deleted
          /\ services' = EraseKey(sid[o]) /\ deleted' = deleted \cup {o} /\ Return(t, "halt")
          /\ UNCHANGED <<autoid, made, sid, reg, raced, shutlist, fault>>
      BY <1>2, <2>2 DEF InitFails
    <3>2. /\ frames' \in [Thread -> Seq(Nat)] /\ \A u \in Thread : frames'[u] \in Seq(1 .. made)
          /\ o \in 1 .. made
      BY <1>f, <3>1
    <3>3. \A u \in Thread : pc'[u] = pc[u] \/ (pc[u] \notin Calling /\ pc'[u] \notin Calling)
      BY <1>t, <3>1 DEF Return, Calling
    <3> HIDE DEF o
    <3>4. QED
      BY <1>p, <1>t, <3>1, <3>2, <3>3, Deletion
  <2>3. QED
    BY <2>1, <2>2
<1>3. ASSUME NEW t \in Thread, ExitService(t) \/ Listen(t) PROVE LifeInv'
  <2>1. /\ UNCHANGED <<services, autoid, made, sid, reg, raced, deleted, frames, shutlist, pc>>
        /\ fault' = fault \/ fault' = "exitassert"
    BY <1>3 DEF ExitService, Listen
  <2>2. QED
    BY <1>q, <1>t, <2>1
<1>4. ASSUME NEW t \in Thread, ScriptStep(t) PROVE LifeInv'
  BY <1>1, <1>2, <1>3, <1>4, <1>p, GettingId, Inserted DEF ScriptStep
<1>5. ASSUME NEW o \in Object, Reap(o) PROVE LifeInv'
  <2>1. CASE Dangling(o)
    <3>1. /\ UNCHANGED <<services, autoid, made, sid, reg, raced, deleted, frames, shutlist, pc>>
          /\ fault' = "uaf"
      BY <2>1
    <3>2. QED
      BY <1>q, <1>t, <3>1
  <2>2. CASE ~Dangling(o)
    <3>1. /\ o \in shutlist /\ o \notin deleted
          /\ services' = EraseKey(sid[o]) /\ deleted' = deleted \cup {o}
          /\ shutlist' = shutlist \ {o}
          /\ UNCHANGED <<pc, autoid, made, sid, reg, raced, frames, fault>>
      BY <1>5, <2>2 DEF Reap
    <3>2. o \in 1 .. made /\ shutlist' \subseteq 1 .. made
      BY <1>t, <3>1
    <3>3. QED
      BY <1>p, <1>t, <3>1, <3>2, Deletion
  <2>3. QED
    BY <2>1, <2>2
<1>6. ASSUME NEW k \in Id, Drain(k) PROVE LifeInv'
  <2> DEFINE o == services[k]
  <2>1. /\ k \in DOMAIN services
        /\ services' = EraseKey(k) /\ deleted' = deleted \cup {o}
        /\ UNCHANGED <<pc, autoid, made, sid, reg, raced, frames, shutlist, fault>>
    BY <1>6 DEF Drain
  <2>2. o \in 1 .. made
    BY <1>t, <2>1
  <2>3. ~raced => o \notin deleted /\ k = sid[o]
    BY <2>1 DEF LifeInv, MapRight
  <2> HIDE DEF o
  <2>4. QED
    BY <1>p, <1>t, <2>1, <2>2, <2>3, Deletion
<1>7. ASSUME Tick PROVE LifeInv'
  <2>1. shutlist' \subseteq 1 .. made
    BY <1>7, <1>t DEF Tick, Range
  <2>2. QED
    BY <1>7, <1>q, <1>t, <2>1 DEF Tick, Calling
<1>8. ASSUME SetInitId \/ Halt \/ EndTick \/ LeaveLoop \/ Drained \/ PollStop \/ DeleteSockets
             \/ PoolStop \/ Join
      PROVE  LifeInv'
  <2>1. /\ UNCHANGED <<services, autoid, made, sid, reg, raced, deleted, frames, shutlist, fault>>
    BY <1>8 DEF SetInitId, Halt, EndTick, LeaveLoop, Drained, PollStop, DeleteSockets, PoolStop, Join
  <2>2. \E l \in MainPc : pc[Main] \notin Calling /\ l \notin Calling /\ Goto(Main, l)
    BY <1>8 DEF SetInitId, Halt, EndTick, LeaveLoop, Drained, PollStop, DeleteSockets, PoolStop,
       Join, Calling, MainPc
  <2>3. QED
    BY <1>q, <1>t, <2>1, <2>2
<1>9. ASSUME NEW o \in Object, ScheduleListed(o) PROVE LifeInv'
  <2>1. /\ UNCHANGED <<services, autoid, made, sid, reg, raced, deleted, frames, shutlist, pc>>
        /\ fault' = fault \/ fault' = "uaf"
    BY <1>9 DEF ScheduleListed
  <2>2. QED
    BY <1>q, <1>t, <2>1
<1>10. ASSUME NetStep PROVE LifeInv'
  <2>1. /\ UNCHANGED <<services, autoid, made, sid, reg, raced, deleted, frames, shutlist>>
        /\ fault' = fault \/ fault' = "uaf"
    BY <1>10 DEF NetStep, NetTask, TestHalt, PollRun, FindSocket, Receive, FindInitService,
       Dispatch, Push
  <2>2. pc' = pc \/ \E l \in NetPc : pc[Net] \notin Calling /\ l \notin Calling /\ Goto(Net, l)
    BY <1>10 DEF NetStep, NetTask, TestHalt, PollRun, FindSocket, Receive, FindInitService,
       Dispatch, Push, Calling, NetPc
  <2>3. QED
    BY <1>q, <1>t, <2>1, <2>2
<1>11. ASSUME NEW w \in Worker, WorkerStep(w) PROVE LifeInv'
  <2>1. CASE ScriptStep(w)
    BY <1>4, <1>t, <2>1
  <2>2. CASE ~ScriptStep(w)
    <3>1. /\ UNCHANGED <<services, autoid, made, sid, reg, raced, deleted, frames, shutlist>>
          /\ fault' = fault \/ fault' = "uaf"
      BY <1>11, <2>2 DEF WorkerStep, TakeTask, RunService, EndHandler, SendMessage, EndRun, EndWorker
    <3>2. pc' = pc \/ \E l \in WorkerPc \cup {"script"} :
              pc[w] \notin Calling /\ l \notin Calling /\ Goto(w, l)
      BY <1>11, <2>2 DEF WorkerStep, TakeTask, RunService, EndHandler, SendMessage, EndRun,
         EndWorker, Calling, WorkerPc
    <3>3. QED
      BY <1>q, <1>t, <3>1, <3>2
  <2>3. QED
    BY <2>1, <2>2
<1>12. ASSUME Signal PROVE LifeInv'
  <2>1. /\ UNCHANGED <<services, autoid, made, sid, reg, raced, deleted, frames, shutlist, fault>>
        /\ pc' = pc \/ (pc[Net] = "wait" /\ Goto(Net, "test"))
    BY <1>12 DEF Signal
  <2>2. QED
    BY <1>q, <1>t, <2>1 DEF Calling
<1>13. CASE UNCHANGED vars
  BY <1>13, <1>q, <1>t DEF vars
<1>14. MainStep => LifeInv'
  BY <1>t, <1>4, <1>5, <1>6, <1>7, <1>8, <1>9 DEF MainStep
<1>15. QED
  BY <1>10, <1>11, <1>12, <1>13, <1>14 DEF Next

\* Init establishes the invariant.
LEMMA LifeInit == Init => LifeInv
<1> SUFFICES ASSUME Init PROVE LifeInv
  OBVIOUS
<1>1. /\ Main \in Thread /\ Net \in Thread /\ \A w \in Worker : w \in Thread
      /\ Main # Net /\ Main \notin Worker /\ Net \notin Worker /\ MaxService \in Nat \ {0}
  BY LifecycleAssumption DEF Thread
<1>2. raced \in BOOLEAN
  BY Zenon DEF Init
<1>3. pc = [t \in Thread |-> IF t = Main THEN "id" ELSE IF t = Net THEN "queued" ELSE "idle"]
  BY DEF Init
<1>4. PlacesOK
  BY <1>1, <1>3 DEF PlacesOK, MainPc, NetPc, WorkerPc, ScriptPc
<1>5. Callers = {Main}
  BY <1>1, <1>3 DEF Callers, Calling
<1>6. RoomLeft
  <2>1. Cardinality(Callers) = 1
    BY <1>5, FS_Singleton
  <2>2. made = 0
    BY DEF Init
  <2>3. QED
    BY <1>1, <2>1, <2>2 DEF RoomLeft
<1>7. <<>> \in Seq(Nat) /\ <<>> \in Seq(1 .. made) /\ DOMAIN <<>> = {} /\ 1 .. made = {}
  BY EmptySeq DEF Init
<1>8. Allocated /\ frames \in [Thread -> Seq(Nat)]
  BY <1>7 DEF Allocated, Init
<1>9. DataOK
  BY <1>2, <1>4, <1>6, <1>8 DEF DataOK, Init
<1>10. IdsRight /\ MapRight /\ fault # "idassert"
  BY <1>1, <1>3, <1>7 DEF IdsRight, MapRight, HasId, Init
<1>11. QED
  BY <1>9, <1>10 DEF LifeInv

\* The ids and the map, in every reachable state.
LEMMA LifeInvariant == Spec => []LifeInv
BY LifeInit, LifeInductive, PTL DEF Spec

\* As long as no two calls of newservice read the same _autoid, its assertion
\* holds, an id finds its own service, and the map has every service that was
\* not deleted.
THEOREM IdsStayExact == Spec => []IdsExact
<1>1. LifeInv => IdsExact
  <2> SUFFICES ASSUME LifeInv, ~raced PROVE IdsExact
    BY DEF IdsExact
  <2>1. IdsRight /\ MapRight /\ fault # "idassert"
    BY DEF LifeInv
  <2>2. \A k \in DOMAIN services : services[k] \in 1 .. made
    BY DEF LifeInv, DataOK, Allocated
  <2>3. \A o \in 1 .. made \ deleted : sid[o] \in DOMAIN services /\ services[sid[o]] = o
    BY <2>1, <2>2 DEF IdsRight, MapRight
  <2>4. 1 .. made \ deleted = Range(services)
    BY <2>1, <2>2, <2>3 DEF MapRight, Range
  <2>5. QED
    BY <2>1, <2>4 DEF IdsExact, MapRight
<1>2. QED
  BY <1>1, LifeInvariant, PTL
-----------------------------------------------------------------------------
(* The shutdown.                                                            *)

\* Once main() has left its loop with nothing at work, the network thread
\* handles no event and the workers get no task.
Quiet ==
    /\ pc[Net] \in {"queued", "test", "wait", "returned"}
    /\ \A w \in Worker : pc[w] \in {"idle", "ended"}
    /\ tasks = {}

QuietUnlessBusy ==
    ShuttingDown =>
        /\ halt
        /\ fault # "none" => busy
        /\ ~busy => Quiet

\* Every step of the shutdown keeps the other threads quiet.
LEMMA QuietKept == PlacesOK /\ QuietUnlessBusy /\ [Next]_vars => QuietUnlessBusy'
<1> SUFFICES ASSUME PlacesOK, QuietUnlessBusy, [Next]_vars PROVE QuietUnlessBusy'
  OBVIOUS
<1>t. /\ Main \in Thread /\ Net \in Thread /\ \A w \in Worker : w \in Thread
      /\ Main # Net /\ Main \notin Worker /\ Net \notin Worker
      /\ pc \in [Thread -> MainPc \cup NetPc \cup WorkerPc \cup ScriptPc]
      /\ pc[Net] \in NetPc
  BY LifecycleAssumption DEF Thread, PlacesOK
<1>u. CASE UNCHANGED vars
  BY <1>u DEF vars, QuietUnlessBusy, Quiet, ShuttingDown, stopVars
<1>n. ASSUME Next, fault = "none" PROVE QuietUnlessBusy'
  <2> USE DEF Goto, Fails, Dangling, stopVars, QuietUnlessBusy
  <2>1. CASE ~ShuttingDown
    <3>1. CASE LeaveLoop
      <4>1. /\ halt' = halt /\ halt /\ fault' = fault /\ tasks' = tasks /\ busy' = Active
            /\ \A t \in Thread : t # Main => pc'[t] = pc[t]
        BY <1>t, <3>1 DEF LeaveLoop
      <4>2. ~Active => Quiet
        BY <1>t DEF Active, Quiet, NetPc
      <4>3. Quiet => Quiet'
        BY <1>t, <4>1 DEF Quiet
      <4>4. QED
        BY <1>n, <4>1, <4>2, <4>3
    <3>2. CASE ~LeaveLoop
      <4>1. pc'[Main] = pc[Main] \/ pc'[Main] \in ScriptPc \cup {"setid", "loop", "tick", "halt"}
        <5>1. ASSUME NEW t \in Thread, NEW l, Goto(t, l), t # Main PROVE pc'[Main] = pc[Main]
          BY <1>t, <5>1
        <5>2. ASSUME NEW t \in Thread, ScriptStep(t)
              PROVE  pc'[Main] = pc[Main] \/ pc'[Main] \in ScriptPc \cup {"setid", "halt"}
          BY <1>t, <5>2 DEF ScriptStep, CallNewService, ReadId, StoreId, AssertFree, Insert,
             InitDone, InitFails, ExitService, Listen, Return, ScriptPc
        <5>3. CASE MainStep
          BY <1>t, <2>1, <3>2, <5>2, <5>3 DEF MainStep, SetInitId, Halt, Tick, EndTick, Reap,
             ScheduleListed, Drained, Drain, PollStop, DeleteSockets, PoolStop, Join, ShuttingDown
        <5>4. CASE NetStep
          <6>1. pc' = pc \/ \E l \in NetPc : Goto(Net, l)
            BY <5>4 DEF NetStep, NetTask, TestHalt, PollRun, FindSocket, Receive,
               FindInitService, Dispatch, Push, NetPc
          <6>2. QED
            BY <1>t, <5>1, <6>1
        <5>5. ASSUME NEW w \in Worker, WorkerStep(w)
              PROVE  pc'[Main] = pc[Main] \/ pc'[Main] \in ScriptPc \cup {"setid", "halt"}
          <6>1. ScriptStep(w) \/ pc' = pc \/ \E l \in WorkerPc \cup ScriptPc : Goto(w, l)
            BY <5>5 DEF WorkerStep, TakeTask, RunService, EndHandler, SendMessage, EndRun,
               EndWorker, WorkerPc, ScriptPc
          <6>2. QED
            BY <1>t, <5>1, <5>2, <6>1
        <5>6. CASE Signal
          BY <1>t, <5>1, <5>6 DEF Signal
        <5>7. QED
          BY <1>n, <5>3, <5>4, <5>5, <5>6 DEF Next
      <4>2. ~ShuttingDown'
        BY <2>1, <4>1 DEF ShuttingDown, ScriptPc
      <4>3. QED
        BY <4>2
    <3>3. QED
      BY <3>1, <3>2
  <2>2. CASE ShuttingDown
    <3>1. halt /\ (~busy => Quiet)
      BY <2>2
    <3>2. ASSUME busy PROVE QuietUnlessBusy'
      <4>1. busy' = busy
        BY <1>n, <2>2, <3>2 DEF Next, MainStep, NetStep, WorkerStep, ScriptStep, Signal,
           CallNewService, ReadId, StoreId, AssertFree, Insert, InitDone, InitFails, ExitService,
           Listen, SetInitId, Halt, Tick, EndTick, Reap, ScheduleListed, LeaveLoop, Drained, Drain,
           PollStop, DeleteSockets, PoolStop, Join, NetTask, TestHalt, PollRun, FindSocket,
           Receive, FindInitService, Dispatch, Push, TakeTask, RunService, EndHandler,
           SendMessage, EndRun, EndWorker, ShuttingDown
      <4>2. halt'
        BY <1>n, <2>2, <3>1 DEF Next, MainStep, NetStep, WorkerStep, ScriptStep, Signal,
           CallNewService, ReadId, StoreId, AssertFree, Insert, InitDone, InitFails, ExitService,
           Listen, SetInitId, Halt, Tick, EndTick, Reap, ScheduleListed, LeaveLoop, Drained, Drain,
           PollStop, DeleteSockets, PoolStop, Join, NetTask, TestHalt, PollRun, FindSocket,
           Receive, FindInitService, Dispatch, Push, TakeTask, RunService, EndHandler,
           SendMessage, EndRun, EndWorker
      <4>3. QED
        BY <3>2, <4>1, <4>2
    <3>3. ASSUME ~busy PROVE QuietUnlessBusy'
      <4>1. /\ halt /\ pc[Net] \in {"queued", "test", "wait", "returned"} /\ tasks = {}
            /\ \A w \in Worker : pc[w] \in {"idle", "ended"}
        BY <3>1, <3>3 DEF Quiet
      <4>2. CASE MainStep
        <5>1. ~ScriptStep(Main)
          BY <2>2 DEF ScriptStep, CallNewService, ReadId, StoreId, AssertFree, Insert, InitDone,
             InitFails, ExitService, Listen, ShuttingDown
        <5>2. /\ UNCHANGED <<halt, fault, tasks, busy>>
              /\ pc' = pc \/ \E l \in MainPc : Goto(Main, l)
          BY <2>2, <4>2, <5>1 DEF MainStep, SetInitId, Halt, Tick, EndTick, Reap, ScheduleListed,
             LeaveLoop, Drained, Drain, PollStop, DeleteSockets, PoolStop, Join, ShuttingDown, MainPc
        <5>3. \A t \in Thread : t # Main => pc'[t] = pc[t]
          BY <1>t, <5>2
        <5>4. QED
          BY <1>n, <1>t, <4>1, <5>2, <5>3 DEF Quiet
      <4>3. CASE NetStep
        <5>1. /\ UNCHANGED <<halt, fault, tasks, busy>>
              /\ \E l \in {"test", "wait", "returned"} : Goto(Net, l)
          BY <4>1, <4>3 DEF NetStep, NetTask, TestHalt, PollRun, FindSocket, Receive,
             FindInitService, Dispatch, Push
        <5>2. QED
          BY <1>n, <1>t, <4>1, <5>1 DEF Quiet
      <4>4. ASSUME NEW w \in Worker, WorkerStep(w) PROVE QuietUnlessBusy'
        <5>1. pc[w] \in {"idle", "ended"}
          BY <4>1
        <5>2. EndWorker(w)
          BY <4>1, <4>4, <5>1 DEF WorkerStep, TakeTask, RunService, EndHandler, SendMessage,
             EndRun, ScriptStep, CallNewService, ReadId, StoreId, AssertFree, Insert, InitDone,
             InitFails, ExitService, Listen
        <5>3. QED
          BY <1>n, <1>t, <4>1, <5>2 DEF EndWorker, Quiet
      <4>5. ~Signal
        BY <4>1 DEF Signal
      <4>6. QED
        BY <1>n, <4>2, <4>3, <4>4, <4>5 DEF Next
    <3>4. QED
      BY <3>2, <3>3
  <2>3. QED
    BY <2>1, <2>2
<1>1. QED
  BY <1>u, <1>n DEF Next

\* main() deletes services and sockets before it joins the threads that use
\* them; when nothing was running or queued as it left its loop, no thread
\* gets to use one, and no assertion fails.
THEOREM ShutdownIsClean == Spec => []CleanShutdown
<1>1. Init => PlacesOK /\ QuietUnlessBusy
  <2> SUFFICES ASSUME Init PROVE PlacesOK /\ QuietUnlessBusy
    OBVIOUS
  <2>1. PlacesOK
    BY LifeInit DEF LifeInv, DataOK
  <2>2. pc[Main] = "id"
    BY DEF Init, Thread
  <2>3. QED
    BY <2>1, <2>2 DEF QuietUnlessBusy, ShuttingDown
<1>2. QuietUnlessBusy => CleanShutdown
  BY DEF QuietUnlessBusy, CleanShutdown
<1>3. QED
  BY <1>1, <1>2, PlacesKept, QuietKept, PTL DEF Spec
-----------------------------------------------------------------------------
(* The join.                                                               *)

\* What main() has done by now, and that threads at work on a socket found
\* one.
StopsDone ==
    /\ sock \in {"none", "open", "deleted"} /\ wake \in {"none", "pending", "refused"}
    /\ pc[Main] \in {"delsock", "poolstop", "join", "exited"} => wake # "none"
    /\ pc[Main] \in {"join", "exited"} => poolstop
    /\ pc[Net] \in {"recv", "route", "dispatch", "push"} => sock # "none"
    /\ \A w \in Worker : pc[w] = "send" => sock # "none"

\* A socket table that was filled, a wakeup and a stop of the pool stay.
LEMMA StopsStay ==
    ASSUME StopsDone, Next
    PROVE  /\ sock' \in {"none", "open", "deleted"} /\ wake' \in {"none", "pending", "refused"}
           /\ sock # "none" => sock' # "none"
           /\ wake # "none" => wake' # "none"
           /\ poolstop => poolstop'
<1> USE DEF StopsDone, netVars, stopVars, Fails, Dangling
<1>1. ASSUME NEW t \in Thread, ScriptStep(t)
      PROVE  /\ UNCHANGED <<wake, poolstop>>
             /\ sock' = sock \/ (sock = "none" /\ sock' = "open")
  BY <1>1 DEF ScriptStep, CallNewService, ReadId, StoreId, AssertFree, Insert, InitDone,
     InitFails, ExitService, Listen
<1>t. Main \in Thread /\ \A w \in Worker : w \in Thread
  BY DEF Thread
<1>2. CASE MainStep
  BY <1>1, <1>t, <1>2 DEF MainStep, SetInitId, Halt, Tick, EndTick, Reap, ScheduleListed,
     LeaveLoop, Drained, Drain, PollStop, DeleteSockets, PoolStop, Join
<1>3. CASE NetStep
  BY <1>3 DEF NetStep, NetTask, TestHalt, PollRun, FindSocket, Receive, FindInitService,
     Dispatch, Push
<1>4. ASSUME NEW w \in Worker, WorkerStep(w) PROVE UNCHANGED wake /\ UNCHANGED poolstop
                                /\ (sock' = sock \/ (sock = "none" /\ sock' = "open"))
  BY <1>1, <1>t, <1>4 DEF WorkerStep, TakeTask, RunService, EndHandler, SendMessage, EndRun,
     EndWorker
<1>5. CASE Signal
  BY <1>5 DEF Signal
<1>6. QED
  BY <1>2, <1>3, <1>4, <1>5 DEF Next

\* Every step keeps it.
LEMMA StopsKept == PlacesOK /\ StopsDone /\ [Next]_vars => StopsDone'
<1> SUFFICES ASSUME PlacesOK, StopsDone, [Next]_vars PROVE StopsDone'
  OBVIOUS
<1>t. /\ Main \in Thread /\ Net \in Thread /\ \A w \in Worker : w \in Thread
      /\ Main # Net /\ Main \notin Worker /\ Net \notin Worker
      /\ pc \in [Thread -> MainPc \cup NetPc \cup WorkerPc \cup ScriptPc]
  BY LifecycleAssumption DEF Thread, PlacesOK
<1>u. CASE UNCHANGED vars
  BY <1>u DEF vars, StopsDone, netVars, stopVars
<1>n. CASE Next
  <2>0. /\ sock' \in {"none", "open", "deleted"} /\ wake' \in {"none", "pending", "refused"}
        /\ sock # "none" => sock' # "none"
        /\ wake # "none" => wake' # "none"
        /\ poolstop => poolstop'
    BY <1>n, StopsStay
  <2> DEFINE Late == {"delsock", "poolstop", "join", "exited"}
             AtSocket == {"recv", "route", "dispatch", "push"}
  <2>s. ASSUME NEW t \in Thread, ScriptStep(t)
        PROVE  pc' = pc \/ \E l \in ScriptPc \cup {"setid", "halt"} : Goto(t, l)
    BY <2>s DEF ScriptStep, CallNewService, ReadId, StoreId, AssertFree, Insert, InitDone,
       InitFails, ExitService, Listen, Return, Goto, Fails, Dangling, ScriptPc
  <2>1. \A t \in Thread : \A l : Goto(t, l) => pc'[t] = l /\ \A u \in Thread : u # t => pc'[u] = pc[u]
    BY <1>t DEF Goto
  <2>2. CASE MainStep
    <3>1. pc' = pc \/ \E l : Goto(Main, l)
      BY <1>t, <2>2, <2>s DEF MainStep, SetInitId, Halt, Tick, EndTick, Reap, ScheduleListed,
         LeaveLoop, Drained, Drain, PollStop, DeleteSockets, PoolStop, Join, Fails, Dangling
    <3>2. \A u \in Thread : u # Main => pc'[u] = pc[u]
      BY <1>t, <2>1, <3>1
    <3>3. /\ pc'[Main] \in Late => wake' # "none"
          /\ pc'[Main] \in {"join", "exited"} => poolstop'
      <4>1. CASE ScriptStep(Main)
        <5>1. pc' = pc \/ pc'[Main] \in ScriptPc \cup {"setid", "halt"}
          BY <1>t, <2>1, <2>s, <4>1
        <5>2. QED
          BY <2>0, <5>1 DEF StopsDone, ScriptPc
      <4>2. CASE ~ScriptStep(Main)
        BY <1>t, <2>0, <2>1, <2>2, <4>2 DEF StopsDone, MainStep, SetInitId, Halt, Tick, EndTick,
           Reap, ScheduleListed, LeaveLoop, Drained, Drain, PollStop, DeleteSockets, PoolStop,
           Join, Fails, Dangling
      <4>3. QED
        BY <4>1, <4>2
    <3>4. QED
      BY <1>t, <2>0, <3>2, <3>3 DEF StopsDone
  <2>3. CASE NetStep
    <3>1. pc' = pc \/ \E l : Goto(Net, l)
      BY <2>3 DEF NetStep, NetTask, TestHalt, PollRun, FindSocket, Receive, FindInitService,
         Dispatch, Push, Fails, Dangling
    <3>2. \A u \in Thread : u # Net => pc'[u] = pc[u]
      BY <1>t, <2>1, <3>1
    <3>3. pc'[Net] \in AtSocket => pc[Net] \in AtSocket \/ sock = "open"
      BY <1>t, <2>1, <2>3 DEF NetStep, NetTask, TestHalt, PollRun, FindSocket, Receive,
         FindInitService, Dispatch, Push, Fails, Dangling
    <3>4. QED
      BY <1>t, <2>0, <3>2, <3>3 DEF StopsDone
  <2>4. ASSUME NEW w \in Worker, WorkerStep(w) PROVE StopsDone'
    <3>1. pc' = pc \/ \E l : Goto(w, l)
      BY <1>t, <2>4, <2>s DEF WorkerStep, TakeTask, RunService, EndHandler, SendMessage, EndRun,
         EndWorker, Fails, Dangling
    <3>2. \A u \in Thread : u # w => pc'[u] = pc[u]
      BY <1>t, <2>1, <3>1
    <3>3. pc'[w] = "send" => pc[w] = "send" \/ sock = "open"
      <4>1. CASE ScriptStep(w)
        <5>1. pc' = pc \/ pc'[w] \in ScriptPc \cup {"setid", "halt"}
          BY <1>t, <2>1, <2>s, <4>1
        <5>2. QED
          BY <5>1 DEF ScriptPc
      <4>2. CASE ~ScriptStep(w)
        BY <1>t, <2>1, <2>4, <4>2 DEF WorkerStep, TakeTask, RunService, EndHandler, SendMessage,
           EndRun, EndWorker, Fails, Dangling
      <4>3. QED
        BY <4>1, <4>2
    <3>4. QED
      BY <1>t, <2>0, <3>2, <3>3 DEF StopsDone
  <2>5. CASE Signal
    <3>1. \A u \in Thread : pc'[u] = pc[u] \/ (u = Net /\ pc'[u] = "test")
      BY <1>t, <2>1, <2>5 DEF Signal
    <3>2. QED
      BY <1>t, <2>0, <3>1 DEF StopsDone
  <2>6. QED
    BY <1>n, <2>2, <2>3, <2>4, <2>5 DEF Next
<1>1. QED
  BY <1>u, <1>n

\* main() joins the pool with its stop flag set and the network thread woken,
\* if epoll took stdout: whatever the threads were at, each of them goes on
\* until it is finished, but for those that missed the notification.
THEOREM PoolKeepsMoving == Spec => []PoolMoves
<1>1. Init => PlacesOK /\ StopsDone
  <2> SUFFICES ASSUME Init PROVE PlacesOK /\ StopsDone
    OBVIOUS
  <2>1. PlacesOK
    BY LifeInit DEF LifeInv, DataOK
  <2>2. /\ pc[Main] = "id" /\ pc[Net] = "queued" /\ \A w \in Worker : pc[w] = "idle"
        /\ sock = "none" /\ wake = "none"
    BY LifecycleAssumption DEF Init, Thread
  <2>3. QED
    BY <2>1, <2>2 DEF StopsDone
<1>2. PlacesOK /\ StopsDone => PoolMoves
  <2> SUFFICES ASSUME PlacesOK, StopsDone, pc[Main] = "join", NEW t \in Worker \cup {Net},
                      t \notin missed, ~(t = Net /\ wake = "refused"), ~Finished(t)
               PROVE  HasStep(t)
    BY DEF PoolMoves
  <2>1. poolstop /\ wake # "none"
    BY DEF StopsDone
  <2>2. CASE t = Net
    BY <2>1, <2>2 DEF StopsDone, HasStep, PlacesOK, NetPc
  <2>3. CASE t \in Worker
    BY <2>1, <2>3 DEF StopsDone, HasStep, PlacesOK, WorkerPc, ScriptPc
  <2>4. QED
    BY <2>2, <2>3
<1>3. QED
  BY <1>1, <1>2, PlacesKept, StopsKept, PTL DEF Spec
=============================================================================
