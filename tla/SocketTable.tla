---------------------------- MODULE SocketTable ----------------------------
(***************************************************************************)
(* The table of sockets (net/NetworkManager) and what the network thread   *)
(* and the handlers on pool threads do with it: accept, newserver,         *)
(* newclient, the lookups of sendMessage and of the event functions, and   *)
(* closeSocket.  No lock protects the table.  Each access to a slot, to    *)
(* the epoll set or to the descriptors of the process is a step.           *)
(*                                                                         *)
(* A socket object is a model value; descriptors are numbers, and the      *)
(* kernel gives out the lowest one that is free.  What send and receive do *)
(* with an object is in SocketSend and SocketRecv; here they use it, and   *)
(* succeed or fail.                                                        *)
(***************************************************************************)
EXTENDS Integers, FiniteSets

CONSTANTS
    Fd,        \* descriptors the process may have, a range of numbers
    Listener,  \* the descriptor of a server that is listening at the start
    Object,    \* socket objects; none is used twice
    Net,       \* the network thread
    Worker,    \* pool threads that run handlers
    Null       \* no object, no descriptor

ASSUME TableAssumption ==
    /\ Fd \subseteq Nat /\ IsFiniteSet(Fd)
    /\ Listener \in Fd
    /\ Object # {}
    /\ Net \notin Worker
    /\ Null \notin Fd \cup Object

Thread == Worker \cup {Net}

VARIABLES
    sockets,   \* _sockets
    open,      \* descriptors of the process
    polled,    \* descriptors in the epoll set
    unused,    \* objects not created yet
    live,      \* objects created and not deleted
    fdOf,      \* _fd of an object
    servers,   \* objects that are servers
    batch,     \* events of the last epoll_wait still to be handled
    pc,        \* where a thread is
    s,         \* the descriptor it was called with
    socket,    \* the object it looked up
    newfd,     \* the descriptor it is registering
    newsocket, \* and its object
    fault,     \* the assertion that failed or the deleted object used
    overlap    \* history: a descriptor was used by two threads, one closing it

locals == <<pc, s, socket, newfd, newsocket>>
objects == <<unused, live, fdOf, servers>>
vars == <<sockets, open, polled, batch, fault, overlap, objects, locals>>

TablePc == {"idle", "find", "use", "accept", "connect", "register", "poll",
            "remove", "lookup", "delete", "clear"}

\* The listening server was made by newserver.
Init ==
    LET server == CHOOSE o \in Object : TRUE
    IN /\ sockets = [d \in Fd |-> IF d = Listener THEN server ELSE Null]
       /\ open = {Listener}
       /\ polled = {Listener}
       /\ unused = Object \ {server}
       /\ live = {server}
       /\ fdOf = [o \in Object |-> IF o = server THEN Listener ELSE Null]
       /\ servers = {server}
       /\ batch = {}
       /\ pc = [t \in Thread |-> "idle"]
       /\ s = [t \in Thread |-> Null]
       /\ socket = [t \in Thread |-> Null]
       /\ newfd = [t \in Thread |-> Null]
       /\ newsocket = [t \in Thread |-> Null]
       /\ fault = "none"
       /\ overlap = FALSE

Goto(t, label) == pc' = [pc EXCEPT ![t] = label]

\* Thread t returns from its call.
Return(t) ==
    /\ Goto(t, "idle")
    /\ s' = [s EXCEPT ![t] = Null]
    /\ socket' = [socket EXCEPT ![t] = Null]
    /\ newfd' = [newfd EXCEPT ![t] = Null]
    /\ newsocket' = [newsocket EXCEPT ![t] = Null]

\* Thread t is called with descriptor d and starts at label.
Call(t, d, label) ==
    /\ s' = [s EXCEPT ![t] = d]
    /\ Goto(t, label)
    /\ UNCHANGED <<socket, newfd, newsocket>>

Fail(what) ==
    /\ fault' = what
    /\ UNCHANGED <<sockets, open, polled, batch, objects, locals>>

\* The kernel opens a descriptor and thread t makes object o for it.
Create(t, o) ==
    /\ o \in unused
    /\ \E d \in Fd \ open :
       /\ \A e \in Fd \ open : d <= e
       /\ open' = open \cup {d}
       /\ unused' = unused \ {o}
       /\ live' = live \cup {o}
       /\ fdOf' = [fdOf EXCEPT ![o] = d]
       /\ newfd' = [newfd EXCEPT ![t] = d]
       /\ newsocket' = [newsocket EXCEPT ![t] = o]

\* delete o: its descriptor is closed, which takes it out of the epoll set.
Destroy(o) ==
    /\ live' = live \ {o}
    /\ open' = open \ {fdOf[o]}
    /\ polled' = polled \ {fdOf[o]}

-----------------------------------------------------------------------------
(* The calls.                                                               *)

\* epoll_wait returns events of some descriptors.
EpollWait(ready) ==
    /\ pc[Net] = "idle" /\ batch = {}
    /\ ready # {} /\ ready \subseteq polled
    /\ batch' = ready
    /\ UNCHANGED <<sockets, open, polled, fault, objects, locals>>

\* The next event of the batch: readSocket and writeSocket look the socket up,
\* errorSocket closes it.
Event(d, label) ==
    /\ pc[Net] = "idle" /\ d \in batch
    /\ batch' = batch \ {d}
    /\ Call(Net, d, label)
    /\ UNCHANGED <<sockets, open, polled, fault, objects>>

\* A handler calls sendMessage or closeSocket with a descriptor it was given.
HandlerCall(w, d, label) ==
    /\ w \in Worker /\ pc[w] = "idle"
    /\ Call(w, d, label)
    /\ UNCHANGED <<sockets, open, polled, batch, fault, objects>>

\* newserver() and newclient(): a descriptor and an object come first.
NewSocket(w, o, server) ==
    /\ w \in Worker /\ pc[w] = "idle"
    /\ Create(w, o)
    /\ servers' = IF server THEN servers \cup {o} ELSE servers
    /\ Goto(w, "connect")
    /\ UNCHANGED <<sockets, polled, batch, fault, s, socket>>

\* listen() or connect() succeeds.
Connected(w) ==
    /\ pc[w] = "connect"
    /\ Goto(w, "register")
    /\ UNCHANGED <<sockets, open, polled, batch, fault, objects, s, socket, newfd, newsocket>>

\* listen() or connect() fails: SafeDelete, return -1.
ConnectFails(w) ==
    /\ pc[w] = "connect"
    /\ Destroy(newsocket[w])
    /\ Return(w)
    /\ UNCHANGED <<sockets, batch, fault, unused, fdOf, servers>>

-----------------------------------------------------------------------------
(* Use of a socket.                                                         *)

\* socket = this->_sockets[s]; nothing is done when there is none.
Find(t) ==
    /\ pc[t] = "find"
    /\ IF sockets[s[t]] = Null
       THEN Return(t)
       ELSE /\ socket' = [socket EXCEPT ![t] = sockets[s[t]]]
            /\ Goto(t, "use")
            /\ UNCHANGED <<s, newfd, newsocket>>
    /\ UNCHANGED <<sockets, open, polled, batch, fault, objects>>

UseDeleted(t) ==
    /\ pc[t] = "use" /\ socket[t] \notin live
    /\ Fail("use of a deleted socket")

\* receive() or send() returns true; a server is asked for a connection.
Use(t) ==
    /\ pc[t] = "use" /\ socket[t] \in live
    /\ IF t = Net /\ socket[t] \in servers
       THEN Goto(t, "accept") /\ UNCHANGED <<s, socket, newfd, newsocket>>
       ELSE Return(t)
    /\ UNCHANGED <<sockets, open, polled, batch, fault, objects>>

\* receive() or send() returns false: closeSocket.
UseFails(t) ==
    /\ pc[t] = "use" /\ socket[t] \in live
    /\ ~(t = Net /\ socket[t] \in servers)
    /\ Goto(t, "remove")
    /\ UNCHANGED <<sockets, open, polled, batch, fault, objects, s, socket, newfd, newsocket>>

AcceptDeleted ==
    /\ pc[Net] = "accept" /\ socket[Net] \notin live
    /\ Fail("use of a deleted socket")

\* accept() returns a connection.
Accept(o) ==
    /\ pc[Net] = "accept" /\ socket[Net] \in live
    /\ Create(Net, o)
    /\ Goto(Net, "register")
    /\ UNCHANGED <<sockets, polled, batch, fault, servers, s, socket>>

\* accept() returns -1.
AcceptEnds ==
    /\ pc[Net] = "accept" /\ socket[Net] \in live
    /\ Return(Net)
    /\ UNCHANGED <<sockets, open, polled, batch, fault, objects>>

\* assert(this->_sockets[newfd] == nullptr), of the network thread and of
\* newserver() and newclient().
SlotTaken(t) ==
    /\ pc[t] = "register" /\ sockets[newfd[t]] # Null
    /\ Fail(IF t = Net THEN "assertion in readSocket" ELSE "assertion in newsocket")

Register(t) ==
    /\ pc[t] = "register" /\ sockets[newfd[t]] = Null
    /\ sockets' = [sockets EXCEPT ![newfd[t]] = newsocket[t]]
    /\ Goto(t, "poll")
    /\ UNCHANGED <<open, polled, batch, fault, objects, s, socket, newfd, newsocket>>

\* Variant: the loop of readSocket does not add what it accepted.
PollAddForgotten(t) ==
    /\ pc[t] = "poll"
    /\ IF t = Net
       THEN Goto(t, "accept") /\ UNCHANGED <<s, socket, newfd, newsocket, polled>>
       ELSE Return(t) /\ polled' = polled \cup ({newfd[t]} \cap open)
    /\ UNCHANGED <<sockets, open, batch, fault, objects>>

\* _poll.addSocket(newfd), which fails if newfd has been closed; the network
\* thread accepts the next connection.
PollAdd(t) ==
    /\ pc[t] = "poll"
    /\ polled' = polled \cup ({newfd[t]} \cap open)
    /\ IF t = Net
       THEN /\ Goto(t, "accept")
            /\ newfd' = [newfd EXCEPT ![t] = Null]
            /\ newsocket' = [newsocket EXCEPT ![t] = Null]
            /\ UNCHANGED <<s, socket>>
       ELSE Return(t)
    /\ UNCHANGED <<sockets, open, batch, fault, objects>>

-----------------------------------------------------------------------------
(* closeSocket.                                                             *)

PollRemove(t) ==
    /\ pc[t] = "remove"
    /\ polled' = polled \ {s[t]}
    /\ Goto(t, "lookup")
    /\ UNCHANGED <<sockets, open, batch, fault, objects, s, socket, newfd, newsocket>>

\* The slot is read; an empty one is only reported.
Lookup(t) ==
    /\ pc[t] = "lookup"
    /\ socket' = [socket EXCEPT ![t] = sockets[s[t]]]
    /\ Goto(t, IF sockets[s[t]] = Null THEN "clear" ELSE "delete")
    /\ UNCHANGED <<sockets, open, polled, batch, fault, objects, s, newfd, newsocket>>

DeleteDeleted(t) ==
    /\ pc[t] = "delete" /\ socket[t] \notin live
    /\ Fail("delete of a deleted socket")

Delete(t) ==
    /\ pc[t] = "delete" /\ socket[t] \in live
    /\ Destroy(socket[t])
    /\ Goto(t, "clear")
    /\ UNCHANGED <<sockets, batch, fault, unused, fdOf, servers, s, socket, newfd, newsocket>>

\* Variant: the slot is left as it is.
ClearForgotten(t) ==
    /\ pc[t] = "clear"
    /\ Return(t)
    /\ UNCHANGED <<sockets, open, polled, batch, fault, objects>>

\* this->_sockets[s] = nullptr
Clear(t) ==
    /\ pc[t] = "clear"
    /\ sockets' = [sockets EXCEPT ![s[t]] = Null]
    /\ Return(t)
    /\ UNCHANGED <<open, polled, batch, fault, objects>>

-----------------------------------------------------------------------------
ThreadStep(t) ==
    \/ Find(t) \/ UseDeleted(t) \/ Use(t) \/ UseFails(t)
    \/ SlotTaken(t) \/ Register(t) \/ PollAdd(t) \/ Connected(t) \/ ConnectFails(t)
    \/ PollRemove(t) \/ Lookup(t) \/ DeleteDeleted(t) \/ Delete(t) \/ Clear(t)

NetStep ==
    \/ \E ready \in SUBSET Fd : EpollWait(ready)
    \/ \E d \in Fd, label \in {"find", "remove"} : Event(d, label)
    \/ AcceptDeleted \/ AcceptEnds
    \/ \E o \in Object : Accept(o)

HandlerStep(w) ==
    \/ \E d \in Fd, label \in {"find", "remove"} : HandlerCall(w, d, label)
    \/ \E o \in Object, server \in BOOLEAN : NewSocket(w, o, server)

\* Thread t is closing descriptor d, or is using or registering it.
Closing(t, d) == pc[t] \in {"remove", "lookup", "delete", "clear"} /\ s[t] = d
Using(t, d) == s[t] = d \/ newfd[t] = d

Overlapping ==
    \E t, u \in Thread, d \in Fd : t # u /\ Closing(t, d) /\ Using(u, d)

\* After a fault nothing is claimed about the process.
Stopped == fault # "none" /\ UNCHANGED vars

Next ==
    \/ /\ fault = "none"
       /\ \/ \E t \in Thread : ThreadStep(t)
          \/ NetStep
          \/ \E w \in Worker : HandlerStep(w)
       /\ overlap' = (overlap \/ Overlapping')
    \/ Stopped

Spec == Init /\ [][Next]_vars

-----------------------------------------------------------------------------
(* Properties.                                                              *)

\* Every variable has its type, and a thread has the locals its place needs.
TypeOK ==
    /\ sockets \in [Fd -> Object \cup {Null}]
    /\ open \in SUBSET Fd
    /\ polled \in SUBSET open
    /\ unused \in SUBSET Object
    /\ live \in SUBSET (Object \ unused)
    /\ fdOf \in [Object -> Fd \cup {Null}]
    /\ servers \in SUBSET (Object \ unused)
    /\ batch \in SUBSET Fd
    /\ pc \in [Thread -> TablePc]
    /\ s \in [Thread -> Fd \cup {Null}]
    /\ socket \in [Thread -> Object \cup {Null}]
    /\ newfd \in [Thread -> Fd \cup {Null}]
    /\ newsocket \in [Thread -> Object \cup {Null}]
    /\ \A t \in Thread :
        /\ pc[t] = "idle" => s[t] = Null /\ newfd[t] = Null
        /\ pc[t] \in {"use", "accept", "delete"} => socket[t] # Null
        /\ pc[t] \in {"connect", "register", "poll"} =>
            newfd[t] # Null /\ newsocket[t] # Null
    /\ overlap \in BOOLEAN

\* No assertion fails and no deleted socket is used or deleted again, unless
\* some descriptor was closed by one thread while another was using, closing
\* or registering it; stale events of a batch and stale descriptors of
\* handlers do no such harm by themselves.
FaultNeedsOverlap == fault # "none" => overlap

\* Up to such an overlap the table, the descriptors and the epoll set agree
\* on every descriptor that no thread is closing or registering, and no
\* socket object is lost.
Changing(d) == \E t \in Thread : Closing(t, d) \/ newfd[t] = d
TableExact ==
    ~overlap =>
        /\ \A d \in Fd : ~Changing(d) =>
            /\ sockets[d] # Null <=> d \in open
            /\ d \in open <=> d \in polled
            /\ d \in open => sockets[d] \in live /\ fdOf[sockets[d]] = d
        /\ \A o \in live : sockets[fdOf[o]] = o \/ \E t \in Thread : newsocket[t] = o

=============================================================================
