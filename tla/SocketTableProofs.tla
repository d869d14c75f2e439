------------------------- MODULE SocketTableProofs -------------------------
(***************************************************************************)
(* Proofs about SocketTable, for any set of descriptors, any number of     *)
(* sockets and of threads that handle them.                                *)
(***************************************************************************)
EXTENDS SocketTable, TLAPS

CloserPc == {"remove", "lookup", "delete", "clear"}
NewPc == {"connect", "register", "poll"}

\* A thread has a descriptor it was called with, and one it registers, exactly
\* where its code uses them; the network thread keeps both in its accept loop.
LocalsOK ==
    /\ \A t \in Thread :
        /\ pc[t] \in {"find", "use", "accept"} \cup CloserPc => s[t] \in Fd
        /\ newfd[t] # Null <=> pc[t] \in NewPc
        /\ newsocket[t] # Null <=> pc[t] \in NewPc
    /\ pc[Net] \in {"register", "poll"} => s[Net] \in Fd /\ socket[Net] # Null
    /\ pc[Net] # "connect"
    /\ \A w \in Worker : pc[w] # "accept" /\ (pc[w] \in NewPc => s[w] = Null)

TableTypes == TypeOK /\ LocalsOK /\ fault \in {"none", "use of a deleted socket",
    "assertion in readSocket", "assertion in newsocket", "delete of a deleted socket"}

\* No thread is closing a descriptor that another one uses, closes or registers.
Apart ==
    \A t, u \in Thread :
        t # u /\ pc[t] \in CloserPc => s[u] # s[t] /\ newfd[u] # s[t]

\* Where thread t is using the socket it has looked up.
InUse(t) == pc[t] \in {"use", "accept"} \/ (t = Net /\ pc[t] \in {"register", "poll"})

\* Each open descriptor belongs to one live object.
OneObject ==
    /\ \A o \in live : fdOf[o] \in open
    /\ \A o, p \in live : fdOf[o] = fdOf[p] => o = p
    /\ \A d \in open : \E o \in live : fdOf[o] = d

\* A slot holds the live object of its descriptor, but for the moment between
\* the deletion of the object and the clearing of the slot; a live object is
\* in its slot or on its way there.
SlotsRight ==
    /\ \A d \in Fd : sockets[d] # Null =>
          \/ sockets[d] \in live /\ fdOf[sockets[d]] = d
          \/ \E t \in Thread : pc[t] = "clear" /\ s[t] = d
    /\ \A o \in live : sockets[fdOf[o]] = o \/ \E t \in Thread : newsocket[t] = o

\* What a thread that registers an object knows of it.
NewRight ==
    /\ \A t \in Thread : pc[t] \in NewPc =>
          /\ newsocket[t] \in live /\ fdOf[newsocket[t]] = newfd[t]
          /\ pc[t] \in {"connect", "register"} => sockets[newfd[t]] = Null
          /\ pc[t] = "poll" => sockets[newfd[t]] = newsocket[t]
    /\ \A t, u \in Thread : t # u /\ pc[t] \in NewPc => newfd[t] # newfd[u]

\* What a thread that uses or deletes an object knows of it, and that a thread
\* about to clear a slot has its descriptor closed.
HeldRight ==
    /\ \A t \in Thread : InUse(t) \/ pc[t] = "delete" =>
          /\ socket[t] \in live /\ fdOf[socket[t]] = s[t] /\ sockets[s[t]] = socket[t]
    /\ \A t \in Thread : pc[t] = "clear" => s[t] \notin open

\* An open descriptor is polled, but while it is registered or closed.
PolledRight ==
    \A d \in open : d \in polled \/ \E t \in Thread : Closing(t, d) \/ newfd[t] = d

Agree == Apart /\ OneObject /\ SlotsRight /\ NewRight /\ HeldRight /\ PolledRight

TableInv == TableTypes /\ (fault # "none" => overlap) /\ (~overlap => Agree)
-----------------------------------------------------------------------------
\* The variables keep their types, and a thread has the locals its place needs.
LEMMA TypesKept == TableTypes /\ [Next]_vars => TableTypes'
<1> USE TableAssumption DEF TableTypes, TypeOK, LocalsOK, TablePc, CloserPc, NewPc, Goto,
        Return, Call, objects, locals
<1> SUFFICES ASSUME TableTypes, [Next]_vars PROVE TableTypes'
  OBVIOUS
<1>n. Net \in Thread /\ \A w \in Worker : w \in Thread /\ w # Net
  BY DEF Thread
<1>t. \A t \in Thread : t = Net \/ t \in Worker
  BY DEF Thread
<1>o. CASE UNCHANGED vars
  BY <1>o DEF vars
<1>a. ASSUME overlap' = (overlap \/ Overlapping') PROVE overlap' \in BOOLEAN
  BY <1>a
<1> HIDE DEF TableTypes
\* Thread t returns, and the table is as it was or polls one more.
<1>r. ASSUME NEW t \in Thread, Return(t), polled' \in SUBSET open, overlap' \in BOOLEAN,
             UNCHANGED <<sockets, open, batch, fault, unused, live, fdOf, servers>>
      PROVE  TableTypes'
  BY <1>r, <1>n, <1>t DEF TableTypes
<1>1. ASSUME NEW t \in Thread, Find(t), overlap' \in BOOLEAN PROVE TableTypes'
  <2>1. CASE sockets[s[t]] = Null
    BY <1>1, <1>r, <2>1 DEF Find, TableTypes
  <2>2. CASE sockets[s[t]] # Null
    <3>1. /\ socket' = [socket EXCEPT ![t] = sockets[s[t]]] /\ pc' = [pc EXCEPT ![t] = "use"]
          /\ pc[t] = "find"
          /\ UNCHANGED <<sockets, open, polled, batch, fault, objects, s, newfd, newsocket>>
      BY <1>1, <2>2 DEF Find
    <3>2. s[t] \in Fd /\ sockets \in [Fd -> Object \cup {Null}]
      BY <3>1 DEF TableTypes
    <3>3. sockets[s[t]] \in Object
      BY <2>2, <3>2
    <3>4. QED
      BY <1>1, <1>n, <1>t, <3>1, <3>3 DEF TableTypes
  <2>3. QED
    BY <2>1, <2>2
<1>2. ASSUME NEW t \in Thread, Use(t) \/ UseFails(t), overlap' \in BOOLEAN PROVE TableTypes'
  <2>1. CASE UseFails(t)
    BY <1>2, <1>n, <1>t, <2>1 DEF UseFails, TableTypes
  <2>2. CASE Use(t) /\ t = Net /\ socket[t] \in servers
    <3>1. /\ pc' = [pc EXCEPT ![Net] = "accept"] /\ pc[Net] = "use"
          /\ UNCHANGED <<sockets, open, polled, batch, fault, objects, s, socket, newfd, newsocket>>
      BY <2>2 DEF Use
    <3>2. QED
      BY <1>2, <1>n, <1>t, <3>1 DEF TableTypes
  <2>3. CASE Use(t) /\ ~(t = Net /\ socket[t] \in servers)
    BY <1>2, <1>r, <2>3 DEF Use, TableTypes
  <2>4. QED
    BY <1>2, <2>1, <2>2, <2>3
<1>3. ASSUME NEW t \in Thread, UseDeleted(t) \/ SlotTaken(t) \/ DeleteDeleted(t) \/ AcceptDeleted,
             overlap' \in BOOLEAN
      PROVE  TableTypes'
  BY <1>3 DEF UseDeleted, SlotTaken, DeleteDeleted, AcceptDeleted, Fail, TableTypes
<1>4. ASSUME NEW t \in Thread, Register(t), overlap' \in BOOLEAN PROVE TableTypes'
  BY <1>4, <1>n, <1>t DEF Register, TableTypes
<1>5. ASSUME NEW t \in Thread, PollAdd(t), overlap' \in BOOLEAN PROVE TableTypes'
  <2>1. polled' \in SUBSET open'
    BY <1>5 DEF PollAdd, TableTypes
  <2>2. CASE t = Net
    <3>1. /\ pc' = [pc EXCEPT ![Net] = "accept"] /\ pc[Net] = "poll"
          /\ newfd' = [newfd EXCEPT ![Net] = Null] /\ newsocket' = [newsocket EXCEPT ![Net] = Null]
          /\ UNCHANGED <<sockets, open, batch, fault, objects, s, socket>>
      BY <1>5, <2>2 DEF PollAdd
    <3>2. QED
      BY <1>5, <1>n, <1>t, <2>1, <3>1 DEF TableTypes
  <2>3. CASE t # Net
    BY <1>5, <1>r, <2>1, <2>3 DEF PollAdd, TableTypes
  <2>4. QED
    BY <2>2, <2>3
<1>6. ASSUME NEW t \in Thread, Connected(t), overlap' \in BOOLEAN PROVE TableTypes'
  BY <1>6, <1>n, <1>t DEF Connected, TableTypes
<1>7. ASSUME NEW t \in Thread, ConnectFails(t), overlap' \in BOOLEAN PROVE TableTypes'
  BY <1>7, <1>n, <1>t DEF ConnectFails, Destroy, TableTypes
<1>8. ASSUME NEW t \in Thread, PollRemove(t), overlap' \in BOOLEAN PROVE TableTypes'
  BY <1>8, <1>n, <1>t DEF PollRemove, TableTypes
<1>9. ASSUME NEW t \in Thread, Lookup(t), overlap' \in BOOLEAN PROVE TableTypes'
  BY <1>9, <1>n, <1>t DEF Lookup, TableTypes
<1>10. ASSUME NEW t \in Thread, Delete(t), overlap' \in BOOLEAN PROVE TableTypes'
  BY <1>10, <1>n, <1>t DEF Delete, Destroy, TableTypes
<1>11. ASSUME NEW t \in Thread, Clear(t), overlap' \in BOOLEAN PROVE TableTypes'
  BY <1>11, <1>n, <1>t DEF Clear, TableTypes
<1>12. ASSUME NEW ready \in SUBSET Fd, EpollWait(ready), overlap' \in BOOLEAN PROVE TableTypes'
  BY <1>12 DEF EpollWait, TableTypes
<1>13. ASSUME NEW d \in Fd, NEW label \in {"find", "remove"}, Event(d, label), overlap' \in BOOLEAN
       PROVE  TableTypes'
  BY <1>13, <1>n, <1>t DEF Event, TableTypes
<1>14. ASSUME NEW w \in Worker, NEW d \in Fd, NEW label \in {"find", "remove"},
              HandlerCall(w, d, label), overlap' \in BOOLEAN
       PROVE  TableTypes'
  BY <1>14, <1>n, <1>t DEF HandlerCall, TableTypes
<1>15. ASSUME NEW w \in Worker, NEW o \in Object, NEW server \in BOOLEAN,
              NewSocket(w, o, server), overlap' \in BOOLEAN
       PROVE  TableTypes'
  <2>1. PICK d \in Fd \ open :
              /\ o \in unused
              /\ open' = open \cup {d} /\ unused' = unused \ {o} /\ live' = live \cup {o}
              /\ fdOf' = [fdOf EXCEPT ![o] = d]
              /\ newfd' = [newfd EXCEPT ![w] = d] /\ newsocket' = [newsocket EXCEPT ![w] = o]
    BY <1>15, <1>n DEF NewSocket, Create, TableTypes
  <2>2. servers' \in SUBSET (Object \ unused')
    BY <1>15, <2>1 DEF NewSocket, TableTypes
  <2>3. /\ pc[w] = "idle" /\ pc' = [pc EXCEPT ![w] = "connect"]
        /\ UNCHANGED <<sockets, polled, batch, fault, s, socket>>
    BY <1>15 DEF NewSocket
  <2>4. /\ pc' \in [Thread -> TablePc] /\ fdOf' \in [Object -> Fd \cup {Null}]
        /\ newfd' \in [Thread -> Fd \cup {Null}] /\ newsocket' \in [Thread -> Object \cup {Null}]
        /\ pc'[w] = "connect" /\ newfd'[w] \in Fd /\ newsocket'[w] \in Object /\ s'[w] = Null
        /\ \A u \in Thread : u # w => /\ pc'[u] = pc[u] /\ newfd'[u] = newfd[u]
                                      /\ newsocket'[u] = newsocket[u]
    BY <1>n, <2>1, <2>3 DEF TableTypes
  <2>l. LocalsOK /\ TypeOK
    BY DEF TableTypes
  <2>5. ASSUME NEW u \in Thread
        PROVE  /\ pc'[u] \in {"find", "use", "accept"} \cup CloserPc => s'[u] \in Fd
               /\ newfd'[u] # Null <=> pc'[u] \in NewPc
               /\ newsocket'[u] # Null <=> pc'[u] \in NewPc
               /\ pc'[u] = "idle" => s'[u] = Null /\ newfd'[u] = Null
               /\ pc'[u] \in {"use", "accept", "delete"} => socket'[u] # Null
    <3>1. CASE u = w
      BY <2>4, <3>1
    <3>2. CASE u # w
      BY <2>3, <2>4, <2>l, <3>2
    <3>3. QED
      BY <3>1, <3>2
  <2>6. /\ pc'[Net] \in {"register", "poll"} => s'[Net] \in Fd /\ socket'[Net] # Null
        /\ pc'[Net] # "connect"
    BY <1>n, <2>3, <2>4, <2>l
  <2>7. \A v \in Worker : pc'[v] # "accept" /\ (pc'[v] \in NewPc => s'[v] = Null)
    BY <1>n, <2>3, <2>4, <2>l
  <2>8. LocalsOK'
    BY <2>5, <2>6, <2>7
  <2>9. /\ open' \in SUBSET Fd /\ polled' \in SUBSET open' /\ unused' \in SUBSET Object
        /\ live' \in SUBSET (Object \ unused')
    BY <2>1, <2>3, <2>l
  <2>10. TypeOK'
    BY <1>15, <2>2, <2>3, <2>4, <2>5, <2>9, <2>l
  <2>11. QED
    BY <2>3, <2>8, <2>10 DEF TableTypes
<1>16. ASSUME AcceptEnds, overlap' \in BOOLEAN PROVE TableTypes'
  BY <1>16, <1>n, <1>t DEF AcceptEnds, TableTypes
<1>17. ASSUME NEW o \in Object, Accept(o), overlap' \in BOOLEAN PROVE TableTypes'
  <2>1. PICK d \in Fd \ open :
              /\ o \in unused
              /\ open' = open \cup {d} /\ unused' = unused \ {o} /\ live' = live \cup {o}
              /\ fdOf' = [fdOf EXCEPT ![o] = d]
              /\ newfd' = [newfd EXCEPT ![Net] = d] /\ newsocket' = [newsocket EXCEPT ![Net] = o]
    BY <1>17, <1>n DEF Accept, Create, TableTypes
  <2>2. QED
    BY <1>17, <1>n, <1>t, <2>1 DEF Accept, TableTypes
<1>18. QED
  BY <1>o, <1>a, <1>n, <1>1, <1>2, <1>3, <1>4, <1>5, <1>6, <1>7, <1>8, <1>9, <1>10, <1>11, <1>12,
     <1>13, <1>14, <1>15, <1>16, <1>17 DEF Next, ThreadStep, NetStep, HandlerStep, Stopped
-----------------------------------------------------------------------------
(* Each step keeps the table in order, as long as no two threads overlap.   *)

\* What the lemmas below use of the types.
LEMMA TableFacts ==
    ASSUME TableTypes
    PROVE  /\ sockets \in [Fd -> Object \cup {Null}] /\ open \subseteq Fd /\ polled \subseteq open
           /\ live \subseteq Object /\ fdOf \in [Object -> Fd \cup {Null}] /\ pc \in [Thread -> TablePc]
           /\ s \in [Thread -> Fd \cup {Null}] /\ socket \in [Thread -> Object \cup {Null}]
           /\ newfd \in [Thread -> Fd \cup {Null}] /\ newsocket \in [Thread -> Object \cup {Null}]
           /\ LocalsOK /\ Net \in Thread
           /\ \A u \in Thread : pc[u] = "idle" => s[u] = Null
BY DEF TableTypes, TypeOK, Thread

\* The calls and the steps that only move a thread.
LEMMA MovesKeep ==
    ASSUME TableTypes, Agree, Apart', NEW t \in Thread,
           \/ Find(t) \/ Use(t) \/ UseFails(t) \/ Connected(t) \/ PollRemove(t)
           \/ \E d \in Fd, label \in {"find", "remove"} : t \in Worker /\ HandlerCall(t, d, label)
           \/ \E d \in Fd, label \in {"find", "remove"} : t = Net /\ Event(d, label)
           \/ t = Net /\ AcceptEnds
    PROVE  Agree'
<1> USE TableAssumption DEF Goto, Return, Call, objects
<1>t. /\ sockets \in [Fd -> Object \cup {Null}] /\ open \subseteq Fd /\ polled \subseteq open
      /\ live \subseteq Object /\ fdOf \in [Object -> Fd \cup {Null}] /\ pc \in [Thread -> TablePc]
      /\ s \in [Thread -> Fd \cup {Null}] /\ socket \in [Thread -> Object \cup {Null}]
      /\ newfd \in [Thread -> Fd \cup {Null}] /\ newsocket \in [Thread -> Object \cup {Null}]
      /\ LocalsOK /\ Net \in Thread
      /\ \A u \in Thread : pc[u] = "idle" => s[u] = Null
  BY TableFacts
<1>u. UNCHANGED <<sockets, open, live, fdOf>>
  BY DEF Find, Use, UseFails, Connected, PollRemove, HandlerCall, Event, AcceptEnds
<1>1. /\ \A u \in Thread : u # t => /\ pc'[u] = pc[u] /\ s'[u] = s[u] /\ socket'[u] = socket[u]
                                    /\ newfd'[u] = newfd[u] /\ newsocket'[u] = newsocket[u]
      /\ pc[t] # "clear" /\ pc'[t] # "clear"
      /\ newfd'[t] = newfd[t] /\ newsocket'[t] = newsocket[t]
  BY <1>t DEF Find, Use, UseFails, Connected, PollRemove, HandlerCall, Event, AcceptEnds, LocalsOK, NewPc
<1>2. OneObject'
  BY <1>u DEF Agree, OneObject
<1>3. SlotsRight'
  BY <1>u, <1>1 DEF Agree, SlotsRight
<1>4. NewRight'
  BY <1>t, <1>u, <1>1 DEF Agree, NewRight, NewPc, Find, Use, UseFails, Connected, PollRemove, HandlerCall, Event, AcceptEnds, LocalsOK
<1>5. HeldRight'
  <2>1. ASSUME NEW u \in Thread, u # t, InUse(u)' \/ pc'[u] = "delete"
        PROVE  socket'[u] \in live' /\ fdOf'[socket'[u]] = s'[u] /\ sockets'[s'[u]] = socket'[u]
    BY <1>u, <1>1, <2>1 DEF Agree, HeldRight, InUse
  <2>2. CASE Find(t)
    <3>1. CASE sockets[s[t]] = Null
      BY <1>t, <1>u, <1>1, <2>1, <2>2, <3>1 DEF Agree, HeldRight, InUse, Find
    <3>2. CASE sockets[s[t]] # Null
      <4>1. s[t] \in Fd /\ pc[t] = "find"
        BY <1>t, <2>2 DEF Find, LocalsOK
      <4>2. sockets[s[t]] \in live /\ fdOf[sockets[s[t]]] = s[t]
        BY <3>2, <4>1 DEF Agree, SlotsRight, Apart, CloserPc
      <4>3. socket'[t] = sockets[s[t]] /\ s'[t] = s[t] /\ pc'[t] = "use"
        BY <1>t, <2>2, <3>2 DEF Find
      <4>4. QED
        BY <1>u, <1>1, <2>1, <4>2, <4>3 DEF Agree, HeldRight
    <3>3. QED
      BY <3>1, <3>2
  <2>3. CASE ~Find(t)
    <3>1. InUse(t)' \/ pc'[t] = "delete" => InUse(t) /\ socket'[t] = socket[t] /\ s'[t] = s[t]
      BY <1>t, <2>3 DEF InUse, Use, UseFails, Connected, PollRemove, HandlerCall, Event,
         AcceptEnds, LocalsOK
    <3>2. QED
      BY <1>u, <1>1, <2>1, <3>1 DEF Agree, HeldRight
  <2>4. QED
    BY <2>2, <2>3
<1>6. PolledRight'
  BY <1>t, <1>u, <1>1 DEF Agree, PolledRight, Find, Use, UseFails, Connected, PollRemove, HandlerCall, Event, AcceptEnds, LocalsOK, Closing
<1>7. QED
  BY <1>2, <1>3, <1>4, <1>5, <1>6 DEF Agree
\* An object is put into its slot, which is empty.
LEMMA RegisterKeeps ==
    ASSUME TableTypes, Agree, Apart', NEW t \in Thread, Register(t)
    PROVE  Agree'
<1> USE TableAssumption DEF Goto, objects
<1>t. /\ sockets \in [Fd -> Object \cup {Null}] /\ open \subseteq Fd /\ live \subseteq Object
      /\ fdOf \in [Object -> Fd \cup {Null}] /\ pc \in [Thread -> TablePc] /\ LocalsOK
      /\ newfd \in [Thread -> Fd \cup {Null}] /\ newsocket \in [Thread -> Object \cup {Null}]
  BY TableFacts
<1>1. /\ pc[t] = "register" /\ newfd[t] \in Fd /\ newsocket[t] \in live
      /\ fdOf[newsocket[t]] = newfd[t] /\ sockets[newfd[t]] = Null
  BY <1>t DEF Register, Agree, NewRight, NewPc, LocalsOK
<1>2. /\ \A d \in Fd : sockets'[d] = IF d = newfd[t] THEN newsocket[t] ELSE sockets[d]
      /\ \A u \in Thread : pc'[u] = IF u = t THEN "poll" ELSE pc[u]
      /\ UNCHANGED <<open, polled, live, fdOf, s, socket, newfd, newsocket>>
  BY <1>t, <1>1 DEF Register
<1>3. OneObject'
  BY <1>2 DEF Agree, OneObject
<1>4. SlotsRight'
  <2>1. \A d \in Fd : sockets'[d] # Null =>
          \/ sockets'[d] \in live' /\ fdOf'[sockets'[d]] = d
          \/ \E u \in Thread : pc'[u] = "clear" /\ s'[u] = d
    BY <1>1, <1>2 DEF Agree, SlotsRight
  <2>2. \A o \in live : fdOf[o] \in Fd
    BY <1>t DEF Agree, OneObject
  <2>3. \A o \in live' : sockets'[fdOf'[o]] = o \/ \E u \in Thread : newsocket'[u] = o
    <3> SUFFICES ASSUME NEW o \in live
                 PROVE  sockets'[fdOf[o]] = o \/ \E u \in Thread : newsocket[u] = o
      BY <1>2
    <3>1. sockets[fdOf[o]] = o \/ \E u \in Thread : newsocket[u] = o
      BY DEF Agree, SlotsRight
    <3>2. sockets[fdOf[o]] = o => fdOf[o] # newfd[t]
      BY <1>t, <1>1
    <3>3. QED
      BY <1>2, <2>2, <3>1, <3>2
  <2>4. QED
    BY <2>1, <2>3 DEF SlotsRight
<1>5. NewRight'
  <2>1. \A u \in Thread : pc[u] \in NewPc => newfd[u] \in Fd
    BY <1>t DEF LocalsOK
  <2>2. \A u \in Thread : pc'[u] \in NewPc => pc[u] \in NewPc
    BY <1>1, <1>2 DEF NewPc
  <2>3. \A u, v \in Thread : u # v /\ pc'[u] \in NewPc => newfd'[u] # newfd'[v]
    BY <1>2, <2>2 DEF Agree, NewRight
  <2>4. ASSUME NEW u \in Thread, pc'[u] \in NewPc
        PROVE  /\ newsocket'[u] \in live' /\ fdOf'[newsocket'[u]] = newfd'[u]
               /\ pc'[u] \in {"connect", "register"} => sockets'[newfd'[u]] = Null
               /\ pc'[u] = "poll" => sockets'[newfd'[u]] = newsocket'[u]
    <3>1. CASE u = t
      BY <1>1, <1>2, <3>1
    <3>2. CASE u # t
      <4>1. newfd[t] # newfd[u] /\ newfd[u] \in Fd
        BY <2>1, <2>2, <2>4, <3>2 DEF Agree, NewRight
      <4>2. sockets'[newfd[u]] = sockets[newfd[u]] /\ pc'[u] = pc[u]
        BY <1>2, <3>2, <4>1
      <4>3. QED
        BY <1>2, <2>2, <2>4, <4>2 DEF Agree, NewRight
    <3>3. QED
      BY <3>1, <3>2
  <2>5. QED
    BY <2>3, <2>4 DEF NewRight
<1>6. HeldRight'
  <2>1. \A u \in Thread : InUse(u)' \/ pc'[u] = "delete" => InUse(u) \/ pc[u] = "delete"
    BY <1>1, <1>2 DEF InUse
  <2>2. \A u \in Thread : InUse(u) \/ pc[u] = "delete" => s[u] # newfd[t] /\ s[u] \in Fd
    BY <1>t, <1>1 DEF Agree, HeldRight, LocalsOK, InUse, CloserPc
  <2>3. QED
    BY <1>1, <1>2, <2>1, <2>2 DEF Agree, HeldRight
<1>7. PolledRight'
  BY <1>1, <1>2 DEF Agree, PolledRight, Closing
<1>8. QED
  BY <1>3, <1>4, <1>5, <1>6, <1>7 DEF Agree

\* What was registered is polled, and its thread is done with it.
LEMMA PollAddKeeps ==
    ASSUME TableTypes, Agree, Apart', NEW t \in Thread, PollAdd(t)
    PROVE  Agree'
<1> USE TableAssumption DEF Goto, objects, Return
<1>t. /\ sockets \in [Fd -> Object \cup {Null}] /\ open \subseteq Fd /\ live \subseteq Object
      /\ fdOf \in [Object -> Fd \cup {Null}] /\ pc \in [Thread -> TablePc] /\ LocalsOK
      /\ newfd \in [Thread -> Fd \cup {Null}] /\ newsocket \in [Thread -> Object \cup {Null}]
      /\ s \in [Thread -> Fd \cup {Null}] /\ socket \in [Thread -> Object \cup {Null}]
  BY TableFacts
<1>1. /\ pc[t] = "poll" /\ newfd[t] \in Fd /\ newsocket[t] \in live
      /\ fdOf[newsocket[t]] = newfd[t] /\ sockets[newfd[t]] = newsocket[t]
  BY <1>t DEF PollAdd, Agree, NewRight, NewPc, LocalsOK
<1>2. /\ pc'[t] = IF t = Net THEN "accept" ELSE "idle"
      /\ newfd'[t] = Null /\ newsocket'[t] = Null
      /\ t = Net => s'[t] = s[t] /\ socket'[t] = socket[t]
      /\ \A u \in Thread : u # t => /\ pc'[u] = pc[u] /\ s'[u] = s[u] /\ socket'[u] = socket[u]
                                    /\ newfd'[u] = newfd[u] /\ newsocket'[u] = newsocket[u]
      /\ polled' = polled \cup ({newfd[t]} \cap open)
      /\ UNCHANGED <<sockets, open, live, fdOf>>
  BY <1>t, <1>1 DEF PollAdd
<1>3. OneObject'
  BY <1>2 DEF Agree, OneObject
<1>4. SlotsRight'
  BY <1>1, <1>2 DEF Agree, SlotsRight
<1>5. NewRight'
  <2>1. \A u \in Thread : pc[u] \in NewPc => newfd[u] \in Fd
    BY <1>t DEF LocalsOK
  <2>2. QED
    BY <1>1, <1>2, <2>1 DEF Agree, NewRight, NewPc
<1>6. HeldRight'
  BY <1>1, <1>2 DEF Agree, HeldRight, InUse
<1>7. PolledRight'
  BY <1>1, <1>2 DEF Agree, PolledRight, Closing
<1>8. QED
  BY <1>3, <1>4, <1>5, <1>6, <1>7 DEF Agree
\* The slot of a descriptor that is being closed is read: what it holds is the
\* live object of the descriptor, or nothing and the descriptor is not open.
LEMMA LookupKeeps ==
    ASSUME TableTypes, Agree, Apart', NEW t \in Thread, Lookup(t)
    PROVE  Agree'
<1> USE TableAssumption DEF Goto, objects
<1>t. /\ sockets \in [Fd -> Object \cup {Null}] /\ open \subseteq Fd /\ live \subseteq Object
      /\ fdOf \in [Object -> Fd \cup {Null}] /\ pc \in [Thread -> TablePc] /\ LocalsOK
      /\ newfd \in [Thread -> Fd \cup {Null}] /\ newsocket \in [Thread -> Object \cup {Null}]
      /\ s \in [Thread -> Fd \cup {Null}] /\ socket \in [Thread -> Object \cup {Null}]
  BY TableFacts
<1>1. pc[t] = "lookup" /\ s[t] \in Fd
  BY <1>t DEF Lookup, LocalsOK, CloserPc
<1>2. /\ socket'[t] = sockets[s[t]]
      /\ pc'[t] = IF sockets[s[t]] = Null THEN "clear" ELSE "delete"
      /\ \A u \in Thread : u # t => pc'[u] = pc[u] /\ socket'[u] = socket[u]
      /\ UNCHANGED <<sockets, open, polled, live, fdOf, s, newfd, newsocket>>
  BY <1>t, <1>1 DEF Lookup
<1>a. \A u \in Thread : u # t => s[u] # s[t] /\ newfd[u] # s[t]
  BY <1>1 DEF Agree, Apart, CloserPc
<1>3. OneObject'
  BY <1>2 DEF Agree, OneObject
<1>4. SlotsRight'
  BY <1>1, <1>2 DEF Agree, SlotsRight
<1>5. NewRight'
  BY <1>1, <1>2 DEF Agree, NewRight, NewPc
<1>6. HeldRight'
  <2>1. CASE sockets[s[t]] # Null
    <3>1. sockets[s[t]] \in live /\ fdOf[sockets[s[t]]] = s[t]
      BY <1>1, <1>a, <2>1 DEF Agree, SlotsRight
    <3>2. QED
      BY <1>1, <1>2, <2>1, <3>1 DEF Agree, HeldRight, InUse
  <2>2. CASE sockets[s[t]] = Null
    <3>1. s[t] \notin open
      <4>1. SUFFICES ASSUME NEW o \in live, fdOf[o] = s[t] PROVE FALSE
        BY DEF Agree, OneObject
      <4>2. PICK u \in Thread : newsocket[u] = o
        BY <1>t, <2>2, <4>1 DEF Agree, SlotsRight
      <4>3. pc[u] \in NewPc
        BY <1>t, <4>1, <4>2 DEF LocalsOK
      <4>4. newfd[u] = s[t]
        BY <4>1, <4>2, <4>3 DEF Agree, NewRight
      <4>5. QED
        BY <1>1, <1>a, <4>3, <4>4 DEF NewPc
    <3>2. QED
      BY <1>1, <1>2, <2>2, <3>1 DEF Agree, HeldRight, InUse
  <2>3. QED
    BY <2>1, <2>2
<1>7. PolledRight'
  BY <1>1, <1>2 DEF Agree, PolledRight, Closing
<1>8. QED
  BY <1>3, <1>4, <1>5, <1>6, <1>7 DEF Agree

\* The object of a descriptor that no other thread uses is deleted.
LEMMA DeleteKeeps ==
    ASSUME TableTypes, Agree, Apart', NEW t \in Thread, Delete(t)
    PROVE  Agree'
<1> USE TableAssumption DEF Goto, objects
<1>t. /\ sockets \in [Fd -> Object \cup {Null}] /\ open \subseteq Fd /\ live \subseteq Object
      /\ fdOf \in [Object -> Fd \cup {Null}] /\ pc \in [Thread -> TablePc] /\ LocalsOK
      /\ newfd \in [Thread -> Fd \cup {Null}] /\ newsocket \in [Thread -> Object \cup {Null}]
      /\ s \in [Thread -> Fd \cup {Null}] /\ socket \in [Thread -> Object \cup {Null}]
  BY TableFacts
<1>1. /\ pc[t] = "delete" /\ s[t] \in Fd
      /\ socket[t] \in live /\ fdOf[socket[t]] = s[t] /\ sockets[s[t]] = socket[t]
  BY <1>t DEF Delete, LocalsOK, CloserPc, Agree, HeldRight
<1>2. /\ \A u \in Thread : pc'[u] = IF u = t THEN "clear" ELSE pc[u]
      /\ live' = live \ {socket[t]} /\ open' = open \ {s[t]} /\ polled' = polled \ {s[t]}
      /\ UNCHANGED <<sockets, fdOf, s, socket, newfd, newsocket>>
  BY <1>t, <1>1 DEF Delete, Destroy
<1>a. \A u \in Thread : u # t => s[u] # s[t] /\ newfd[u] # s[t]
  BY <1>1 DEF Agree, Apart, CloserPc
<1>b. newfd[t] = Null /\ newsocket[t] = Null
  BY <1>t, <1>1 DEF LocalsOK, NewPc
<1>3. OneObject'
  BY <1>1, <1>2 DEF Agree, OneObject
<1>4. SlotsRight'
  <2>1. ASSUME NEW d \in Fd, sockets'[d] # Null
        PROVE  \/ sockets'[d] \in live' /\ fdOf'[sockets'[d]] = d
               \/ \E u \in Thread : pc'[u] = "clear" /\ s'[u] = d
    <3>1. CASE d = s[t]
      BY <1>2, <3>1
    <3>2. CASE d # s[t]
      <4>1. \/ sockets[d] \in live /\ fdOf[sockets[d]] = d
            \/ \E u \in Thread : pc[u] = "clear" /\ s[u] = d
        BY <1>2, <2>1 DEF Agree, SlotsRight
      <4>2. QED
        BY <1>1, <1>2, <3>2, <4>1
    <3>3. QED
      BY <3>1, <3>2
  <2>2. \A o \in live' : sockets'[fdOf'[o]] = o \/ \E u \in Thread : newsocket'[u] = o
    BY <1>2 DEF Agree, SlotsRight
  <2>3. QED
    BY <2>1, <2>2 DEF SlotsRight
<1>5. NewRight'
  BY <1>1, <1>2, <1>a DEF Agree, NewRight, NewPc
<1>6. HeldRight'
  <2>1. ASSUME NEW u \in Thread, InUse(u)' \/ pc'[u] = "delete"
        PROVE  socket'[u] \in live' /\ fdOf'[socket'[u]] = s'[u] /\ sockets'[s'[u]] = socket'[u]
    <3>1. u # t /\ (InUse(u) \/ pc[u] = "delete")
      BY <1>1, <1>2, <2>1 DEF InUse
    <3>2. socket[u] \in live /\ fdOf[socket[u]] = s[u] /\ sockets[s[u]] = socket[u]
      BY <3>1 DEF Agree, HeldRight
    <3>3. QED
      BY <1>1, <1>2, <1>a, <3>1, <3>2
  <2>2. \A u \in Thread : pc'[u] = "clear" => s'[u] \notin open'
    BY <1>1, <1>2 DEF Agree, HeldRight
  <2>3. QED
    BY <2>1, <2>2 DEF HeldRight
<1>7. PolledRight'
  BY <1>1, <1>2 DEF Agree, PolledRight, Closing
<1>8. QED
  BY <1>3, <1>4, <1>5, <1>6, <1>7 DEF Agree

\* The slot of a descriptor that has been closed is emptied.
LEMMA ClearKeeps ==
    ASSUME TableTypes, Agree, Apart', NEW t \in Thread, Clear(t)
    PROVE  Agree'
<1> USE TableAssumption DEF Goto, objects, Return
<1>t. /\ sockets \in [Fd -> Object \cup {Null}] /\ open \subseteq Fd /\ live \subseteq Object
      /\ fdOf \in [Object -> Fd \cup {Null}] /\ pc \in [Thread -> TablePc] /\ LocalsOK
      /\ newfd \in [Thread -> Fd \cup {Null}] /\ newsocket \in [Thread -> Object \cup {Null}]
      /\ s \in [Thread -> Fd \cup {Null}] /\ socket \in [Thread -> Object \cup {Null}]
  BY TableFacts
<1>1. /\ pc[t] = "clear" /\ s[t] \in Fd /\ s[t] \notin open
      /\ newfd[t] = Null /\ newsocket[t] = Null
  BY <1>t DEF Clear, LocalsOK, CloserPc, NewPc, Agree, HeldRight
<1>2. /\ \A d \in Fd : sockets'[d] = IF d = s[t] THEN Null ELSE sockets[d]
      /\ pc'[t] = "idle" /\ newfd'[t] = Null /\ newsocket'[t] = Null
      /\ \A u \in Thread : u # t => /\ pc'[u] = pc[u] /\ s'[u] = s[u] /\ socket'[u] = socket[u]
                                    /\ newfd'[u] = newfd[u] /\ newsocket'[u] = newsocket[u]
      /\ UNCHANGED <<open, polled, live, fdOf>>
  BY <1>t, <1>1 DEF Clear
<1>a. \A u \in Thread : u # t => s[u] # s[t] /\ newfd[u] # s[t]
  BY <1>1 DEF Agree, Apart, CloserPc
<1>3. OneObject'
  BY <1>2 DEF Agree, OneObject
<1>4. SlotsRight'
  <2>1. ASSUME NEW d \in Fd, sockets'[d] # Null
        PROVE  \/ sockets'[d] \in live' /\ fdOf'[sockets'[d]] = d
               \/ \E u \in Thread : pc'[u] = "clear" /\ s'[u] = d
    <3>1. d # s[t] /\ sockets'[d] = sockets[d]
      BY <1>2, <2>1
    <3>2. \/ sockets[d] \in live /\ fdOf[sockets[d]] = d
          \/ \E u \in Thread : pc[u] = "clear" /\ s[u] = d
      BY <2>1, <3>1 DEF Agree, SlotsRight
    <3>3. QED
      BY <1>2, <3>1, <3>2
  <2>2. ASSUME NEW o \in live' PROVE sockets'[fdOf'[o]] = o \/ \E u \in Thread : newsocket'[u] = o
    <3>1. o \in live /\ fdOf[o] \in Fd /\ fdOf[o] # s[t] /\ fdOf' = fdOf
      BY <1>t, <1>1, <1>2, <2>2 DEF Agree, OneObject
    <3>2. sockets[fdOf[o]] = o \/ \E u \in Thread : newsocket[u] = o
      BY <3>1 DEF Agree, SlotsRight
    <3>3. sockets'[fdOf[o]] = sockets[fdOf[o]]
      BY <1>2, <3>1
    <3>4. o # Null
      BY <1>t, <3>1
    <3>5. ASSUME NEW u \in Thread, newsocket[u] = o PROVE newsocket'[u] = o
      BY <1>1, <1>2, <3>4, <3>5
    <3>6. QED
      BY <3>1, <3>2, <3>3, <3>5
  <2>3. QED
    BY <2>1, <2>2 DEF SlotsRight
<1>5. NewRight'
  <2>1. \A u \in Thread : pc[u] \in NewPc => newfd[u] \in Fd
    BY <1>t DEF LocalsOK
  <2>2. QED
    BY <1>1, <1>2, <1>a, <2>1 DEF Agree, NewRight, NewPc
<1>6. HeldRight'
  <2>1. ASSUME NEW u \in Thread, InUse(u)' \/ pc'[u] = "delete"
        PROVE  socket'[u] \in live' /\ fdOf'[socket'[u]] = s'[u] /\ sockets'[s'[u]] = socket'[u]
    <3>1. u # t /\ (InUse(u) \/ pc[u] = "delete")
      BY <1>1, <1>2, <2>1 DEF InUse
    <3>2. socket[u] \in live /\ fdOf[socket[u]] = s[u] /\ sockets[s[u]] = socket[u] /\ s[u] \in Fd
      BY <1>t, <3>1 DEF Agree, HeldRight, LocalsOK, InUse, CloserPc
    <3>3. QED
      BY <1>1, <1>2, <1>a, <3>1, <3>2
  <2>2. \A u \in Thread : pc'[u] = "clear" => s'[u] \notin open'
    BY <1>1, <1>2 DEF Agree, HeldRight
  <2>3. QED
    BY <2>1, <2>2 DEF HeldRight
<1>7. PolledRight'
  BY <1>1, <1>2 DEF Agree, PolledRight, Closing
<1>8. QED
  BY <1>3, <1>4, <1>5, <1>6, <1>7 DEF Agree
\* newserver() or newclient() gives its object up: nobody has seen it.
LEMMA ConnectFailsKeeps ==
    ASSUME TableTypes, Agree, Apart', NEW t \in Thread, ConnectFails(t)
    PROVE  Agree'
<1> USE TableAssumption DEF Goto, objects, Return
<1>t. /\ sockets \in [Fd -> Object \cup {Null}] /\ open \subseteq Fd /\ live \subseteq Object
      /\ fdOf \in [Object -> Fd \cup {Null}] /\ pc \in [Thread -> TablePc] /\ LocalsOK
      /\ newfd \in [Thread -> Fd \cup {Null}] /\ newsocket \in [Thread -> Object \cup {Null}]
      /\ s \in [Thread -> Fd \cup {Null}] /\ socket \in [Thread -> Object \cup {Null}]
  BY TableFacts
<1>1. /\ pc[t] = "connect" /\ t # Net /\ newfd[t] \in Fd /\ newsocket[t] \in live
      /\ fdOf[newsocket[t]] = newfd[t] /\ sockets[newfd[t]] = Null
  BY <1>t DEF ConnectFails, LocalsOK, NewPc, Agree, NewRight
<1>2. /\ pc'[t] = "idle" /\ newfd'[t] = Null /\ newsocket'[t] = Null
      /\ \A u \in Thread : u # t => /\ pc'[u] = pc[u] /\ s'[u] = s[u] /\ socket'[u] = socket[u]
                                    /\ newfd'[u] = newfd[u] /\ newsocket'[u] = newsocket[u]
      /\ live' = live \ {newsocket[t]} /\ open' = open \ {newfd[t]}
      /\ polled' = polled \ {newfd[t]}
      /\ UNCHANGED <<sockets, fdOf>>
  BY <1>t, <1>1 DEF ConnectFails, Destroy
<1>3. OneObject'
  BY <1>1, <1>2 DEF Agree, OneObject
<1>4. SlotsRight'
  <2>1. ASSUME NEW d \in Fd, sockets'[d] # Null
        PROVE  \/ sockets'[d] \in live' /\ fdOf'[sockets'[d]] = d
               \/ \E u \in Thread : pc'[u] = "clear" /\ s'[u] = d
    <3>1. \/ sockets[d] \in live /\ fdOf[sockets[d]] = d
          \/ \E u \in Thread : pc[u] = "clear" /\ s[u] = d
      BY <1>2, <2>1 DEF Agree, SlotsRight
    <3>2. d # newfd[t]
      BY <1>1, <1>2, <2>1
    <3>3. QED
      BY <1>1, <1>2, <3>1, <3>2
  <2>2. \A o \in live' : sockets'[fdOf'[o]] = o \/ \E u \in Thread : newsocket'[u] = o
    BY <1>2 DEF Agree, SlotsRight
  <2>3. QED
    BY <2>1, <2>2 DEF SlotsRight
<1>5. NewRight'
  <2>1. \A u \in Thread : pc[u] \in NewPc => newfd[u] \in Fd
    BY <1>t DEF LocalsOK
  <2>2. \A u \in Thread : u # t /\ pc[u] \in NewPc => newsocket[u] # newsocket[t]
    BY <1>1 DEF Agree, NewRight, NewPc
  <2>3. QED
    BY <1>1, <1>2, <2>1, <2>2 DEF Agree, NewRight, NewPc
<1>6. HeldRight'
  <2>1. ASSUME NEW u \in Thread, InUse(u)' \/ pc'[u] = "delete"
        PROVE  socket'[u] \in live' /\ fdOf'[socket'[u]] = s'[u] /\ sockets'[s'[u]] = socket'[u]
    <3>1. u # t /\ (InUse(u) \/ pc[u] = "delete")
      BY <1>1, <1>2, <2>1 DEF InUse
    <3>2. socket[u] \in live /\ fdOf[socket[u]] = s[u] /\ sockets[s[u]] = socket[u]
      BY <3>1 DEF Agree, HeldRight
    <3>3. socket[u] # newsocket[t]
      BY <1>t, <1>1, <3>2
    <3>4. QED
      BY <1>2, <3>1, <3>2, <3>3
  <2>2. \A u \in Thread : pc'[u] = "clear" => s'[u] \notin open'
    BY <1>1, <1>2 DEF Agree, HeldRight
  <2>3. QED
    BY <2>1, <2>2 DEF HeldRight
<1>7. PolledRight'
  BY <1>1, <1>2 DEF Agree, PolledRight, Closing
<1>8. QED
  BY <1>3, <1>4, <1>5, <1>6, <1>7 DEF Agree

\* The kernel gives out a descriptor whose slot is empty: accept(),
\* newserver() and newclient().
LEMMA CreateKeeps ==
    ASSUME TableTypes, Agree, Apart', NEW t \in Thread, NEW o \in Object, NEW label,
           \/ t = Net /\ pc[t] = "accept" /\ label = "register"
           \/ t # Net /\ pc[t] = "idle" /\ label = "connect",
           Create(t, o), Goto(t, label), UNCHANGED <<sockets, polled, s, socket>>
    PROVE  Agree'
<1> USE TableAssumption DEF Goto
<1>t. /\ sockets \in [Fd -> Object \cup {Null}] /\ open \subseteq Fd /\ live \subseteq Object
      /\ fdOf \in [Object -> Fd \cup {Null}] /\ pc \in [Thread -> TablePc] /\ LocalsOK
      /\ newfd \in [Thread -> Fd \cup {Null}] /\ newsocket \in [Thread -> Object \cup {Null}]
      /\ s \in [Thread -> Fd \cup {Null}] /\ socket \in [Thread -> Object \cup {Null}]
  BY TableFacts
<1>d. PICK d \in Fd \ open :
         /\ o \in unused
         /\ open' = open \cup {d} /\ live' = live \cup {o}
         /\ fdOf' = [fdOf EXCEPT ![o] = d]
         /\ newfd' = [newfd EXCEPT ![t] = d] /\ newsocket' = [newsocket EXCEPT ![t] = o]
  BY DEF Create
<1>1. o \notin live
  BY <1>d DEF TableTypes, TypeOK
<1>2. /\ pc'[t] = label /\ newfd'[t] = d /\ newsocket'[t] = o
      /\ \A u \in Thread : u # t => pc'[u] = pc[u] /\ newfd'[u] = newfd[u]
                                    /\ newsocket'[u] = newsocket[u]
      /\ fdOf'[o] = d /\ \A p \in live : fdOf'[p] = fdOf[p]
  BY <1>t, <1>d, <1>1
<1>3. sockets[d] = Null
  <2>1. ~(sockets[d] \in live /\ fdOf[sockets[d]] = d)
    BY <1>d DEF Agree, OneObject
  <2>2. ASSUME NEW u \in Thread, pc[u] = "clear", s[u] = d PROVE FALSE
    BY <1>2, <2>2 DEF Apart, CloserPc
  <2>3. QED
    BY <2>1, <2>2 DEF Agree, SlotsRight
<1>4. \A u \in Thread : pc[u] \in NewPc => newfd[u] # d /\ newfd[u] \in Fd
  BY <1>t, <1>d DEF Agree, NewRight, OneObject, LocalsOK
<1>5. newsocket[t] = Null /\ newfd[t] = Null
  BY <1>t DEF LocalsOK, NewPc
<1>6. OneObject'
  BY <1>d, <1>1, <1>2 DEF Agree, OneObject
<1>7. SlotsRight'
  <2>1. ASSUME NEW e \in Fd, sockets'[e] # Null
        PROVE  \/ sockets'[e] \in live' /\ fdOf'[sockets'[e]] = e
               \/ \E u \in Thread : pc'[u] = "clear" /\ s'[u] = e
    <3>1. \/ sockets[e] \in live /\ fdOf[sockets[e]] = e
          \/ \E u \in Thread : pc[u] = "clear" /\ s[u] = e
      BY <2>1 DEF Agree, SlotsRight
    <3>2. QED
      BY <1>d, <1>2, <3>1
  <2>2. ASSUME NEW p \in live' PROVE sockets'[fdOf'[p]] = p \/ \E u \in Thread : newsocket'[u] = p
    <3>1. CASE p = o
      BY <1>2, <3>1
    <3>2. CASE p \in live
      <4>1. sockets[fdOf[p]] = p \/ \E u \in Thread : newsocket[u] = p
        BY <3>2 DEF Agree, SlotsRight
      <4>2. p # Null
        BY <1>t, <3>2
      <4>3. QED
        BY <1>2, <1>5, <3>2, <4>1, <4>2
    <3>3. QED
      BY <1>d, <2>2, <3>1, <3>2
  <2>3. QED
    BY <2>1, <2>2 DEF SlotsRight
<1>8. NewRight'
  <2>1. ASSUME NEW u \in Thread, pc'[u] \in NewPc
        PROVE  /\ newsocket'[u] \in live' /\ fdOf'[newsocket'[u]] = newfd'[u]
               /\ pc'[u] \in {"connect", "register"} => sockets'[newfd'[u]] = Null
               /\ pc'[u] = "poll" => sockets'[newfd'[u]] = newsocket'[u]
    <3>1. CASE u = t
      BY <1>d, <1>2, <1>3, <3>1
    <3>2. CASE u # t
      <4>1. /\ newsocket[u] \in live /\ fdOf[newsocket[u]] = newfd[u]
            /\ pc[u] \in {"connect", "register"} => sockets[newfd[u]] = Null
            /\ pc[u] = "poll" => sockets[newfd[u]] = newsocket[u]
        BY <1>2, <2>1, <3>2 DEF Agree, NewRight
      <4>2. QED
        BY <1>d, <1>2, <3>2, <4>1
    <3>3. QED
      BY <3>1, <3>2
  <2>2. ASSUME NEW u \in Thread, NEW v \in Thread, u # v, pc'[u] \in NewPc
        PROVE  newfd'[u] # newfd'[v]
    <3>1. CASE u = t
      <4>1. newfd[v] # d
        BY <1>t, <1>4, <1>d DEF LocalsOK
      <4>2. QED
        BY <1>2, <2>2, <3>1, <4>1
    <3>2. CASE u # t
      BY <1>2, <1>4, <2>2, <3>2 DEF Agree, NewRight
    <3>3. QED
      BY <3>1, <3>2
  <2>3. QED
    BY <2>1, <2>2 DEF NewRight
<1>9. HeldRight'
  <2>1. ASSUME NEW u \in Thread, InUse(u)' \/ pc'[u] = "delete"
        PROVE  socket'[u] \in live' /\ fdOf'[socket'[u]] = s'[u] /\ sockets'[s'[u]] = socket'[u]
    <3>1. InUse(u) \/ pc[u] = "delete"
      BY <1>2, <2>1 DEF InUse
    <3>2. socket[u] \in live /\ fdOf[socket[u]] = s[u] /\ sockets[s[u]] = socket[u]
      BY <3>1 DEF Agree, HeldRight
    <3>3. QED
      BY <1>d, <1>2, <3>2
  <2>2. ASSUME NEW u \in Thread, pc'[u] = "clear" PROVE s'[u] \notin open'
    <3>1. u # t /\ pc[u] = "clear"
      BY <1>2, <2>2
    <3>2. s[u] # d
      BY <1>2, <2>2, <3>1 DEF Apart, CloserPc
    <3>3. QED
      BY <1>d, <3>1, <3>2 DEF Agree, HeldRight
  <2>3. QED
    BY <2>1, <2>2 DEF HeldRight
<1>10. PolledRight'
  BY <1>t, <1>d, <1>2, <1>5 DEF Agree, PolledRight, Closing
<1>11. QED
  BY <1>6, <1>7, <1>8, <1>9, <1>10 DEF Agree
\* While the table is in order no step fails.
LEMMA NoFault ==
    ASSUME TableTypes, Agree, NEW t \in Thread
    PROVE  ~UseDeleted(t) /\ ~SlotTaken(t) /\ ~DeleteDeleted(t) /\ ~AcceptDeleted
<1>1. Net \in Thread
  BY DEF Thread
<1>2. QED
  BY <1>1 DEF UseDeleted, SlotTaken, DeleteDeleted, AcceptDeleted, Agree, HeldRight, NewRight,
     InUse, NewPc

\* The history variable sees every overlap.
LEMMA ApartSeen ==
    ASSUME TableTypes', ~Overlapping' PROVE Apart'
<1>1. \A t \in Thread : pc'[t] \in CloserPc => s'[t] \in Fd
  BY DEF TableTypes, LocalsOK
<1>2. QED
  BY <1>1 DEF Overlapping, Apart, Closing, Using, CloserPc

\* The inductive invariant: until two threads overlap on a descriptor, the
\* table, the objects, the descriptors and what each thread holds agree.
LEMMA TableInvariant == Spec => []TableInv
<1>1. Init => TableInv
  <2> SUFFICES ASSUME Init PROVE TableInv
    OBVIOUS
  <2> USE TableAssumption
  <2> DEFINE server == CHOOSE o \in Object : TRUE
  <2>1. server \in Object
    OBVIOUS
  <2> HIDE DEF server
  <2>2. /\ sockets = [d \in Fd |-> IF d = Listener THEN server ELSE Null]
        /\ open = {Listener} /\ polled = {Listener}
        /\ unused = Object \ {server} /\ live = {server} /\ servers = {server}
        /\ fdOf = [o \in Object |-> IF o = server THEN Listener ELSE Null]
        /\ batch = {} /\ pc = [t \in Thread |-> "idle"] /\ s = [t \in Thread |-> Null]
        /\ socket = [t \in Thread |-> Null] /\ newfd = [t \in Thread |-> Null]
        /\ newsocket = [t \in Thread |-> Null]
        /\ fault = "none"
    BY DEF Init, server
  <2>3. overlap \in BOOLEAN
    BY Zenon DEF Init
  <2>4. Net \in Thread /\ \A w \in Worker : w \in Thread
    BY DEF Thread
  <2>5. TypeOK
    BY <2>1, <2>2, <2>3, <2>4 DEF TypeOK, TablePc
  <2>6. LocalsOK
    BY <2>2, <2>4 DEF LocalsOK, CloserPc, NewPc
  <2>7. Apart /\ NewRight /\ HeldRight /\ PolledRight
    BY <2>2, <2>4 DEF Apart, NewRight, HeldRight, PolledRight, CloserPc, NewPc, InUse
  <2>8. OneObject /\ SlotsRight
    BY <2>1, <2>2 DEF OneObject, SlotsRight
  <2>9. QED
    BY <2>2, <2>5, <2>6, <2>7, <2>8 DEF TableInv, TableTypes, Agree
<1>2. TableInv /\ [Next]_vars => TableInv'
  <2> SUFFICES ASSUME TableInv, [Next]_vars PROVE TableInv'
    OBVIOUS
  <2> USE DEF objects
  <2>t. TableTypes /\ TableTypes'
    BY TypesKept DEF TableInv
  <2>o. CASE UNCHANGED vars
    <3>1. UNCHANGED <<sockets, open, polled, unused, live, fdOf, servers, batch, pc, s, socket,
                      newfd, newsocket, fault, overlap>>
      BY <2>o DEF vars, locals
    <3>2. Agree => Agree'
      BY <3>1 DEF Agree, Apart, OneObject, SlotsRight, NewRight, HeldRight, PolledRight, InUse, Closing
    <3>3. QED
      BY <2>t, <3>1, <3>2 DEF TableInv
  <2>n. CASE ~UNCHANGED vars
    <3>1. /\ \/ \E t \in Thread : ThreadStep(t)
             \/ NetStep
             \/ \E w \in Worker : HandlerStep(w)
          /\ overlap' = (overlap \/ Overlapping')
      BY <2>n DEF Next, Stopped
    <3>2. CASE overlap'
      BY <2>t, <3>2 DEF TableInv
    <3>3. CASE ~overlap'
      <4>1. ~overlap /\ ~Overlapping'
        BY <3>1, <3>3
      <4>2. Agree /\ Apart' /\ fault = "none"
        BY <2>t, <4>1, ApartSeen DEF TableInv
      <4>n. Net \in Thread /\ \A w \in Worker : w \in Thread /\ w # Net
        BY TableAssumption DEF Thread
      <4>3. ASSUME NEW t \in Thread, ThreadStep(t) PROVE Agree' /\ fault' = "none"
        <5>1. Agree'
          BY <2>t, <4>2, <4>3, NoFault, MovesKeep, RegisterKeeps, PollAddKeeps, LookupKeeps,
             DeleteKeeps, ClearKeeps, ConnectFailsKeeps DEF ThreadStep
        <5>2. fault' = fault
          BY <2>t, <4>2, <4>3, NoFault DEF ThreadStep, Find, Use, UseFails, Register, PollAdd,
             Connected, ConnectFails, PollRemove, Lookup, Delete, Clear
        <5>3. QED
          BY <4>2, <5>1, <5>2
      <4>4. ASSUME NetStep PROVE Agree' /\ fault' = "none"
        <5>1. CASE \E ready \in SUBSET Fd : EpollWait(ready)
          <6>1. UNCHANGED <<sockets, open, polled, live, fdOf, pc, s, socket, newfd, newsocket, fault>>
            BY <5>1 DEF EpollWait, locals
          <6>2. QED
            BY <4>2, <6>1 DEF Agree, OneObject, SlotsRight, NewRight, HeldRight, PolledRight,
               InUse, Closing
        <5>2. CASE (\E d \in Fd, label \in {"find", "remove"} : Event(d, label)) \/ AcceptEnds
          <6>1. Agree'
            BY <2>t, <4>2, <4>n, <5>2, MovesKeep
          <6>2. QED
            BY <4>2, <5>2, <6>1 DEF Event, AcceptEnds
        <5>3. ASSUME NEW o \in Object, Accept(o) PROVE Agree' /\ fault' = "none"
          <6>1. /\ pc[Net] = "accept" /\ Create(Net, o) /\ Goto(Net, "register")
                /\ UNCHANGED <<sockets, polled, s, socket>> /\ fault' = fault
            BY <5>3 DEF Accept
          <6>2. QED
            BY <2>t, <4>2, <4>n, <6>1, CreateKeeps
        <5>4. ~AcceptDeleted
          BY <2>t, <4>2, <4>n, NoFault
        <5>5. QED
          BY <4>4, <5>1, <5>2, <5>3, <5>4 DEF NetStep
      <4>5. ASSUME NEW w \in Worker, HandlerStep(w) PROVE Agree' /\ fault' = "none"
        <5>1. CASE \E d \in Fd, label \in {"find", "remove"} : HandlerCall(w, d, label)
          <6>1. Agree'
            BY <2>t, <4>2, <4>n, <5>1, MovesKeep
          <6>2. QED
            BY <4>2, <5>1, <6>1 DEF HandlerCall
        <5>2. ASSUME NEW o \in Object, NEW server \in BOOLEAN, NewSocket(w, o, server)
              PROVE  Agree' /\ fault' = "none"
          <6>1. /\ pc[w] = "idle" /\ Create(w, o) /\ Goto(w, "connect")
                /\ UNCHANGED <<sockets, polled, s, socket>> /\ fault' = fault
            BY <5>2 DEF NewSocket
          <6>2. QED
            BY <2>t, <4>2, <4>n, <6>1, CreateKeeps
        <5>3. QED
          BY <4>5, <5>1, <5>2 DEF HandlerStep
      <4>6. QED
        BY <2>t, <3>1, <4>3, <4>4, <4>5 DEF TableInv
    <3>4. QED
      BY <3>2, <3>3
  <2>3. QED
    BY <2>o, <2>n
<1>3. QED
  BY <1>1, <1>2, PTL DEF Spec

\* No assertion of the table fails and no deleted socket is used or deleted,
\* unless two threads overlapped on a descriptor, one of them closing it.
THEOREM FaultsNeedOverlap == Spec => []FaultNeedsOverlap
<1>1. TableInv => FaultNeedsOverlap
  BY DEF TableInv, FaultNeedsOverlap
<1>2. QED
  BY <1>1, TableInvariant, PTL

\* Up to such an overlap the table, the descriptors and the epoll set agree on
\* every descriptor nobody is changing, and no socket object is lost.
THEOREM TableAgrees == Spec => []TableExact
<1>1. TableInv => TableExact
  <2> SUFFICES ASSUME TableInv, ~overlap PROVE TableExact
    BY DEF TableExact
  <2>1. TableTypes /\ Agree
    BY DEF TableInv
  <2>2. /\ polled \subseteq open /\ open \subseteq Fd /\ live \subseteq Object
        /\ LocalsOK /\ Null \notin Object
    BY <2>1, TableFacts, TableAssumption
  <2>3. ASSUME NEW d \in Fd, ~Changing(d)
        PROVE  /\ sockets[d] # Null <=> d \in open
               /\ d \in open <=> d \in polled
               /\ d \in open => sockets[d] \in live /\ fdOf[sockets[d]] = d
    <3>1. sockets[d] # Null => sockets[d] \in live /\ fdOf[sockets[d]] = d
      BY <2>1, <2>3 DEF Agree, SlotsRight, Changing, Closing
    <3>2. d \in open => d \in polled
      BY <2>1, <2>3 DEF Agree, PolledRight, Changing
    <3>3. ASSUME d \in open PROVE sockets[d] # Null
      <4>1. PICK o \in live : fdOf[o] = d
        BY <2>1, <3>3 DEF Agree, OneObject
      <4>2. ASSUME NEW u \in Thread, newsocket[u] = o PROVE FALSE
        BY <2>1, <2>2, <2>3, <4>1, <4>2 DEF Agree, NewRight, LocalsOK, Changing
      <4>3. QED
        BY <2>1, <2>2, <4>1, <4>2 DEF Agree, SlotsRight
    <3>4. QED
      BY <2>1, <2>2, <3>1, <3>2, <3>3 DEF Agree, OneObject
  <2>4. QED
    BY <2>1, <2>3 DEF TableExact, Agree, SlotsRight
<1>2. QED
  BY <1>1, TableInvariant, PTL
=============================================================================
