# tnode: a verification project

tnode is a small Lua service host. A main thread polls a table of *services*, each
a Lua state with a queue of messages; a thread pool runs the services that have
work; one task of the pool runs the network loop, which reads framed messages from
sockets, asks the first service where each message belongs, and queues it there.
Lua handlers answer through the same sockets.

The modules in this directory are translated from the C++ under `src/src`. The
vendored libraries under `src/deps` and the kernel are modelled only by how the
code uses them.

## 1. Inventory

| Part | State | Operations | Talks to |
|---|---|---|---|
| Service scheduling (`tools/Runnable.h`, `service/Service.*`, `service/ServiceManager.*`, `tools/LockfreeQueue.h`, `tools/LockfreeMap.h`) | `_services`, `_initid`, `_autoid`; per service `_isrunning`, `_isstop`, `_msgQueue`, Lua state | `pushMessage`, `schedule`, `newservice`, `exitservice`, `run`, `stop` | thread pool (tasks), network thread (messages), Lua (handlers, `dispatch`) |
| Thread pool (`tools/ThreadPool.*`) | `_tasks`, `_stop`, mutex, condition variable | `init`, `add`, `stop` | everything that is scheduled |
| Sockets (`net/Socket.cpp`) | `_rbuffer`, `_rlist`; `_slist`, `_wbuffer`, `_slocker` | `receive`, `getMessage`, `send` | kernel, byte buffer |
| Socket table (`net/NetworkManager.*`, `net/Poll.*`, `net/SocketServer.cpp`, `net/SocketClient.cpp`) | `_sockets[fd]`, epoll set | `run`, `sendMessage`, `newserver`, `newclient`, `closeSocket`, `stop` | called by the network thread and by Lua handlers on pool threads |
| Byte buffer (`tools/ByteBuffer.*`) | `_rindex`, `_windex`, capacity | `append`, `read`, `wbuffer`, `wlength`, `rlength`, `shrink`, `reserve` | sockets |
| Asynchronous log (`logger/Easylog.*`) | `_logQueue`, stop flag, condition variable, thread | log, panic, `stop` | every thread |
| Process lifecycle (`service/main.cpp`, `config/Config.*`) | `halt`, `terminate_reason`, guard process | signal handler, `syshalt`, shutdown sequence, fork and wait | all of the above |
| Registry, XML (`tools/Registry.*`, `xml/*`, `config/Config.cpp`, `lua/luaT_xml_parser.cpp`) | keys and texts; a document parsed in place | set, get, remove, load a file, Lua table of a file | configuration, scripts |
| Clock, timers (`time/*`) | the two words of the last time read; start and interval of a timer | `now`, difference, interval test | main loop, log |
| Message parser (`lua/MessageParser.cpp`) | descriptors, one `Message` per id | `loadmsg`, `regmsg`, `encode`, `decode` | services |
| JSON (`json/*`, `lua/luaT_json_parser.cpp`) | automaton state and mode stack, table builder | decode, encode, escapes | Lua |
| HTTP parser (`tools/HttpParser.*`) | none between calls | `parse` | no caller in the repository |
| Text helpers (`tools/Tools.cpp`, `tools/base64.cpp`) | none, or the context of a request | base64, DES, split, UTF-8 test, `decode_jscode` | scripts |

What is hard here:

* **Unsynchronised tests.** `_isrunning` is tested and set in two steps by two
  threads; `LockfreeQueue::empty` is read outside its lock; `closeSocket` frees
  before it clears.
* **Lost wakeups.** `ThreadPool::stop` and the log's `notify_all` do not take the
  mutex; the log waits without a predicate; output resumes only on an edge of
  `EPOLLOUT`; network shutdown depends on waking `epoll_wait`.
* **Ownership of messages.** A message goes from the socket to `pushMessage`, to a
  queue, to a handler, and each side must release it exactly once.
* **Lifetime.** Services and sockets are deleted by one thread while others hold
  plain pointers; a service can be found in the table before its `init()` has made its
  Lua state, and is deleted when `init()` fails; an XML document is read after the buffer it lies in was released;
  the context of a request is released by the first piece of its answer.
* **Objects used again.** One message object per id serves every encode and decode of
  a service, failed ones included.
* **Tables and widths.** The JSON automaton and the callback that builds Lua values
  keep two stacks that must agree, and an array index is saved in a char; numbers
  pass through text and unsigned differences.

Every such place is listed, at its line, under `hazards` in `PROJECT.json`.

What makes each part correct:

* scheduling: one run of a service at a time, no queued message forgotten, no
  message handled or released twice, and main uses no service it deleted itself;
* pool: a worker pops only what is there, every task starts that finds a thread free
  of endless ones, `stop` joins;
* sending: messages leave whole, in order and once, and output that waits is
  always resumed; receiving: services get exactly the messages that arrived, in
  order; buffer: what is read is what was written;
* socket table: a slot, a descriptor and an entry of the epoll set belong
  together, and only live sockets are used;
* log: lines are written in order, none is lost but those of the very end, and
  `stop` ends; shutdown: nothing deleted is used, and `main` returns;
* registry, parsers and codecs: they compute what their reference definition says,
  and decoding inverts encoding.

## 2. Modules

### ServiceSched: scheduling of services

`"main"` and `"net"` are the two threads that schedule; `Worker` is the set of pool
threads left for services. Each read or write of shared memory in
`Runnable::schedule`, `ServiceManager::pushMessage`, `ServiceManager::schedule` and
`Service::run` is an action; what happens under a lock is one action.

| Model | Code |
|---|---|
| `registered` | keys of `_services`; erasing and deleting a service are one step, as nothing can tell them apart but a lookup, which commutes |
| `stopped`, `running`, `queue` | `_isstop`, `_isrunning`, `_msgQueue` |
| `creating` | per thread the services whose `init()` it is in; an entry script may call `newservice` again |
| `made`, `failed` | the services that were created; history: those whose `init()` failed, erased and deleted by `newservice` |
| `tasks` | the queue of the pool (its mutex and condition variable are in ThreadPool) |
| `pc`, `target`, `shutlist`, `schelist`, `netmsg` | locals of main and of the network thread |
| `wpc`, `wsvc`, `hand` | locals of a worker |
| `fault` | why the process ended: the assertion of `pop_front`, a pop from an empty list, or a use of a deleted service or of a Lua state that is closed or not made yet |
| `raced` | history: services whose `_isrunning` was set while set |

Undefined behaviour ends the modelled behaviour (`fault`): nothing is claimed about
the process after it. The one exception is the return of a handler that called
`cc.exitservice`, whose Lua state is closed under it: the model continues, so that
what main and the other runs then do is explored.

Handlers, `dispatch` and entry scripts may call `cc.newservice`, which puts the service
into the table first, then runs `init()` and its script (`CallNewService`, `InitDone`,
`InitFails`). Ids are left to Lifecycle.

`Mailbox` is the abstract specification: FIFO mailboxes, at most one taker of each
message, one release. `ServiceSched` implements it (`ImplementsMailbox`) through the
mapping in `MessageStage`.

### ThreadPool

The loop of the workers, `add()` and `stop()`, with the mutex, the condition
variable (set of blocked threads, spurious wakeups) and the evaluation of wait's
predicate as separate steps. `init()` made any number of threads from one on: `-t 1` gives
a pool of one (`Config.cpp:31`). `Endless` holds the task that occupies a thread for
good (`NetworkManager::run`). `ImplementsQueue` maps the pool to a `Mailbox` with one
box: a task is queued or refused, taken in the order of the queue, and called once.

### SocketSend and ByteStream: sending

Handlers (`Sender`) push a message on `_slist` and call `send()`; the network thread
calls it on an edge of `EPOLLOUT`. The spin lock, each `::send` (some bytes, `EAGAIN`,
an error), the copy of the rest of a message into `_wbuffer` and each push and pop of
the list are actions. The kernel is a buffer of `Capacity` bytes; a `::send` that
finds it full arms the edge, which fires while the peer drains it. Bytes are pairs of
a message and a position. `ByteStream` is what senders rely on: the bytes of the
accepted messages, in order, until the connection breaks. It keeps a queue of
messages (`queue`) and the bytes left of the one being sent (`rest`); the next message
is begun when `rest` is empty. `ImplementsStream` maps `queue` to `_slist` and `rest` to
what is left in `_wbuffer` or of the message in hand.

### ByteBuffer

`_rindex`, `_windex`, capacity and memory, and the operations `wbuffer`, `wlength`,
`rlength`, `append`, `reserve` and `shrink` with `realloc`, which may fail. The i-th
byte ever written is the number i, so that `Contents` can say that the readable bytes
are exactly those written and not consumed, in order.

### SocketRecv: receiving and framing

The network thread's `receive()` on an edge of `EPOLLIN`: the loop of `readBytes` with
its length argument, cutting messages off the front of `_rbuffer`, the illegal length,
and the hand-over to `pushMessage`. The peer sends the bytes `Wire` in pieces of any size
and may end the stream or reset at any point. `Wire` and `Start`, where each message
begins in it, are constants that `WireAssumption` ties to the messages: concatenating a
sequence of messages would be a recursion. `_rbuffer` is the sequence of its unread bytes,
which is what ByteBuffer shows of it.

### SocketTable

`_sockets[fd]`, the open descriptors (the kernel gives out the lowest free one) and the
epoll set, used without a lock by the network thread (accept, events of a batch that
may be stale) and by handlers (`sendMessage`, `closeSocket`, `newserver`, `newclient`).
Each access to a slot, a descriptor or the epoll set is a step. A use of a deleted
socket or a failed assertion ends the behaviour; the history variable records whether
two threads had overlapped on a descriptor one of them was closing.

### Easylog

`log_message`, `logProcess`, `stop()` and the panic that stops the log and aborts. The
tests of the queue and of the stop flag, the wait, the notifications, the join and the
deletion of the thread object are steps; two threads in `stop()` at once are possible,
because every failed assertion panics.

### Lifecycle

`main()` from the start of its threads to its return. It composes coarse versions of
the parts above: services with their ids and objects (`newservice`, `init`,
`exitservice`, reaping, `ServiceManager::stop`), the loop of the network thread with its
tests of `halt`, the workers, one socket, and the pool's stop.

| Model | Code |
|---|---|
| `services`, `autoid`, `initid`, `sid` | `_services`, `_autoid`, `_initid`, `Service::id` |
| `made`, `deleted`, `stopped` | objects allocated, deleted, with `_isstop` |
| `frames`, `reg` | the calls of `newservice` a thread is in (an entry script may create services), and the id it read |
| `tasks` | a message for a service is a task at once; a worker may therefore run a service that is running, which the race of ServiceSched makes possible |
| `wake` | what adding stdout to the epoll set did: an event, or `EPERM` for a regular file, which `Poll::stop` ignores |
| `missed` | pool threads that miss the notification of `ThreadPool::stop`, as ThreadPool shows they can |
| `raced`, `busy` | history: two `newservice` read one id; work was under way as main left its loop |

### Guard

The loop of `Config::init` with `-d -g`: fork, which may fail, wait, and the comparison
of the wait status. The child is in its init stage, runs, or has ended; an exit code
appears in the status times 256, as `waitpid` reports it.

### JsonLua, JsonParser, JsonDecode, JsonReference, JsonCodec

`JsonParser` is the automaton of `json_parser.cpp`: the classes of characters, the
table of states, the stack of modes, the parse buffer and the actions under their
numbers and names. It has the configuration of its only user (no comments, unbounded
depth, floats converted by the parser). `JsonLua` is the callback that its events call:
values, keys and containers on the Lua stack, the stack of container kinds and the
stack of array indices. Everything one decoding call owns is the record `p`; a pop of an
empty `std::stack` is recorded in `p.ub` and ends the call. `JsonDecode` is the machine:
`Read` is one turn of the loop of `luaT_json_parser_decode` and `FinishText` the end of
input; its history `scanned` is what somebody who knows only strings and brackets makes of
the same characters. `JsonReference` gives the value of a text by recursive descent and
knows neither table nor stacks. `JsonCodec` adds the encoder and drives the machine for
TLC: `ReadAny` feeds any character of an alphabet, `ReadPending` the next one of a text that
`encode` wrote. Numbers keep the characters they were written with, so that conversions are
compared by what they accept. A byte that starts no UTF-8 character makes `encode` index its
hexadecimal digits far out of bounds; what it reads there is `Wild` in the text, and
`ReadWild` puts any character in its place, ends the text or ends the process.

### MessageParser

Message types are constants; `regmsg`, `encode` and `decode` of the service's shared
objects are actions. Filling an object and reading it back go field by field, over
repeated fields and messages in messages, with the early returns that leave an object
half filled. Serialization is external: a field of a proto2 message has explicit
presence, one of a proto3 message is set only when it is not 0 or empty, and `HasField`,
which `decode` asks, says so (the repository's types are of both kinds: `rc.proto` and
`common.proto`, `echo.proto` and `AddressBook.proto`). Whether a field has presence is part
of its type. The bytes pass through Lua as C strings.

### HttpParser

`parse()` starts anew on what has arrived and is not consumed; the caller, which the
repository does not have, consumes what it returns. Bytes are delimiters, `x`, or
stand for a word.

### TextTools and Jscode

The conversions as operators over sequences of bytes: base64 in both directions, the
block loop of DES around an external cipher, `splitString` and the test for UTF-8, each
with what it is for (`...Agrees`). `Jscode` is `decode_jscode`: the context, the
callback that takes each piece of the answer for the whole one, and the report to the
caller's function. No code of the repository calls it.

### Configuration

The registry maps keys to texts; a typed value goes in by formatting and comes out by
parsing in the width of its type. `load` walks a document and writes the attributes it
finds; `decode` makes the Lua table. `XmlParser::open` releases the buffer it parsed in
place: any name or text may be overwritten before it is read, which the model does up
to `MaxOverwritten` times and records in `intact`.

### ClockTimer

`sTime` is two words that every thread writes without a lock. `gettimeofday` samples the
time (`SampleTime`) and stores the words later, one at a time and in either order
(`StoreWord`); `milliseconds()` loads them one at a time (`LoadWord`); all of this
interleaves with the same on another thread. A word is represented by the sampling it
belongs to, which is the time since the start and what the time of day was ahead of it; the
words of the code are functions of it (`OfDay`, `milliseconds`). The time of day advances and
may be set. The history `late` says that a word was stored over one of a later sampling.
`Timer` has no user in the repository; its operations are actions all the same, and whether
a timer that is due reads the clock again or keeps the words it has is the compiler's
choice.

### MCData

The parts that are used by one thread at a time share one run. A behaviour has one
`subject`, chosen in the initial state, and the others rest: the state space is the union
of theirs, and each property is about one subject.

## 3. Runs

Each MC module fixes the constants of one module; its `.cfg` names the properties.

| Run | Instance | What it shows |
|---|---|---|
| `sched_safety` | 2 services, one of which a script may create, 2 workers, 2 messages | `FlagHasTask`: a set `_isrunning` has a run that will clear it. `ExclusiveUnlessRaced`, `PopNeedsRace`: overlapping runs and pops of an empty queue happen only after the check-then-set race. `MainNeverDangling`: the services main points to are in the table, but for those a failing `newservice` has deleted on another thread. `ImplementsMailbox` |
| `sched_live` | 1 service, 2 workers, 2 messages | `QueueDrains`: a message queued while a run is ending is picked up by main's next tick. `StoppedIsReaped` |
| `sched_popassert` | 1 service, 1 message | the assertion of `pop_front` fails (finding) |
| `pool` | 1 or 2 workers, 2 adders, 3 tasks, one endless | `PopFindsTask`, `ImplementsQueue` (tasks start in order, each once); `TaskStarts`, unless all threads of the pool are held by endless tasks, which a pool of one thread is for good; `StopJoins`, unless a worker blocks between its test of `_stop` and its wait, which the code does not exclude |
| `send` | 2 senders, 3 messages of 1, 2 and 3 bytes, kernel buffer of 2 | `OwnedOnce`, `OutputArmed`, `ImplementsStream` (no message inside another), `AcceptedIsSent` |
| `recv` | 4 messages of 3 and 5 bytes, the last illegal; reads of 4 | `FramedInOrder`, `InputArmed`, `ArrivedIsDelivered` |
| `recv_lost` | the same | a full read with bytes left is taken for a lost connection (finding) |
| `table` | 2 descriptors, 3 sockets, 2 handlers | `FaultNeedsOverlap`, `TableExact`: without two threads on one descriptor being closed, nothing deleted is used and slot, descriptor and epoll entry agree |
| `log` | 2 threads, 3 lines, one panics | `WrittenInOrder`, `LostOnlyLate`, `SleepNeedsMiss`; `StopEnds` and `LineWritten`, unless a notification falls between the log thread's tests and its wait, or two threads are in `stop()` |
| `lifecycle` | 2 workers, 3 services, 2 messages | `IdsExact`: unless two `newservice` overlap in `_autoid++`, ids find their own live service, whatever inits fail, to the end of the shutdown. `CleanShutdown`: main deletes before it joins, and this is harmless only when nothing was running. `JoinEnds`: the shutdown ends, unless stdout is a regular file or a pool thread misses the notification; and `HasStep`, which its proved part `PoolMoves` uses, is exactly what ENABLED says |
| `data` | see the bounds below | `ReservedFits`, `Contents`: the byte buffer. `JsonAccepts`, `JsonBuilds`: the automaton accepts what the grammar accepts, and builds its value, unless an array follows more elements than a char counts. `UnderflowNeedsMismatch`: the callback pops an empty stack only for a bracket that does not match. `EncodeDecodes`: tables whose texts are UTF-8 survive encoding, with texts cut at a NUL and characters above U+FFFF in two pieces; inf, nan and some of those characters are written as texts that are rejected. `MessageDecodes`: nothing of an earlier or failed use of a message object shows in a later one, and the fields that come back are those that are on the wire: not the zeros and empty strings of proto3. `HttpChunking`: requests do not depend on how their bytes arrive. `TextAgrees`: conversions do what they are for. `ConfigExact`: the registry holds what was written first and reads back what was set, unless the released buffer was overwritten. `TimerExact`: a timer with untorn readings at one time of day is exact, but for one that fires early because a thread had stored an older time late. `JscodeReports`: one answer, one report, unless it comes in pieces or fails halfway |
| `guard` | 3 forks, signals 1, 9 and 11 | the guard forks again after a child that failed to initialise (finding) |

Every property has a variant of one action, a plausible mistake, under which TLC finds
it violated; the variants stand before the definitions they replace.

Met while modelling, without a run of their own:

* `closeSocket` closes the descriptor before it clears the slot, so that the assertion
  on accept (`NetworkManager.cpp:30`) can fail when two threads overlap;
  `FaultNeedsOverlap` says that it takes the overlap.
* The signal handler sets `halt` directly, so `terminate_reason` (`Config.h:29`,
  "> 0: Signal terminated") stays 0; the `reload` flag of SIGHUP is never read.
* `XmlParser.cpp:22` releases the buffer the document points into.
* A closing bracket reaches the callback before the parser checks it, and the callback
  pops stacks that may be empty (`luaT_json_parser.cpp`).
* Characters above U+FFFF are escaped as one number and not as a surrogate pair
  (`luaT_json_parser.cpp:486`).
* `Tools.cpp:937` tests `document["session_key"].IsString()` where its neighbours test
  the negation, so that success is never reported.
* A byte that is no UTF-8 is a negative `char`, and `hexdigits` is indexed far out of
  bounds with it (`luaT_json_parser.cpp:497`).
* `traverseDirectory` returns after its first subdirectory.
* A proto3 field that is set to 0 or to an empty string comes back as nil
  (`MessageParser.cpp:492`).
* With `-t 1` the network loop takes the only thread of the pool, and no service runs.
* `newservice` makes a service visible before its Lua state exists, and deletes one that
  fails although other threads may have found it (`ServiceManager.cpp:50-54`).

### Bounds, and why they are enough

The races of this code are between two threads and one object: two workers (or two
handlers, adders, senders) besides main and the network thread make each of them
happen. Two messages are needed for a message to come while a run is ending, two
services for a script of one to create the other, three
services for two `newservice` calls to overlap in scripts of one that exists. Sizes in
bytes are chosen around the limits: below, at and above the kernel buffer, the read
length and the chunk. Two descriptors, one of them the server's, make descriptors be
used again at once. `MaxBytes`, `MaxService` and `MaxEvent` cap what would grow for
ever. Symmetry is used for workers and messages in runs without liveness only.

`data`: buffer chunks of 2 bytes, reservations up to 3, capacity up to 9 and 8 bytes
passing through. JSON texts of up to 8 characters over 16 characters outside strings and
3 inside, which is every class that starts a different row of the table but those of
`true`, `false` and hexadecimal digits (their rows are walked by the encoded samples);
an array index is saved in `CharBits` 3 bits, in which an array behind two elements of an
array (8 characters) is the first whose next index does not fit. 5 calls on two message objects are two
registrations, a use that fails, an encode and a decode. 3 operations on the registry are a
load, a change and a look. A second has 2 milliseconds so that torn readings happen at
once; the clock runs for 2 (`MaxUptime`), so that an interval of 1 or of 2 may have passed or
not and a time stored late may be older by 1 or by 2, and it is set once (`MaxSets`). An answer has up to 2 pieces.
Deadlock is not checked in `data` and `guard`: a text, an answer and a guard end.

### Fairness

Threads are scheduled by the kernel, so each thread's next step is weakly fair, which
includes that a Lua handler returns; spin locks are never held across a wait. Nothing
makes a peer send, a signal come, a script call anything or main stop. `send` also
assumes that the peer reads and that the network thread serves a reported edge;
`recv` only the network thread. `lifecycle` needs no fairness: after `halt` nothing
repeats, so that `JoinEnds` looks for states without a next step. `data` and `guard` state
no liveness.

## 4. Proofs

Proved by TLAPS for every value of the constants that meets the named assumptions.

**ServiceSchedProofs** (assumes `ServiceAssumption`: the init service is a service, and
`None` is neither a service nor a message). `SchedInvariant` states `SchedInv`, and
`TypeCorrect`, `FlagNeverStuck`, `ExclusiveRuns` and `PopFailsOnlyAfterRace` follow.
None of the three safety properties is inductive alone:

* `TypeInv` strengthens `TypeOK` with what the places of the threads imply (a thread
  past its lookup holds a service);
* a run of a service is a scheduler about to add its task, a queued task or a worker.
  `FlagHasTask` (flag set implies a run) needs `RunHasFlag` (outside the race, a run
  implies the flag), because clearing the flag ends the only run only if runs are
  exclusive;
* `PopNeedsRace` needs `PeekedNonEmpty`: between a worker's look at the queue and its
  pop, the queue keeps an element unless another run of the service, hence the race,
  is there.

The proof that a step keeps `SchedInv` goes action by action; the lemmas `...Moves` say
how an action moves runs between the three places, `RunsUnmoved` and `FlagsUnmoved`
settle the actions that move none.

`MainPointersLive` (`MainNeverDangling`) adds `ListsDisjoint`: a service is in one of
main's two lists, so that deleting the one list leaves the other usable. Scripts only add
to the table or move a service from it to `failed` (`OthersKeepServices`), and touch
nothing of the scheduling (`ScriptFrame`).
`MailboxImplemented` is the refinement of Mailbox, from `MailInv`: a message is at one
place (not received, at `pushMessage`, in one queue at one position, in one hand, or
released). It holds after the race too: each pop is under the
lock, and one that finds the queue empty ends the behaviour.

**ThreadPoolProofs** (`PoolAssumption`: workers and adders are different threads).
`PoolInv` says that the mutex is held by exactly the thread whose code is inside
(`MutexExact`) and that what wait's predicate found still holds where the worker relies
on it (`PredicateKept`); the second is not inductive without the first.
`PopsFindTasks` and `PoolExclusion` follow. `OnlyMissedSleep` is the safety part of
`StopJoins`, proved only: after `notify_all` no worker is asleep or about to be but one that
had tested `_stop` before it was stored (`AsleepWasMissed`). It needs only that `_stop` is set as long as `stop()` is past its store. `QueueImplemented` is the
refinement of Mailbox, from `QueueInv`: a task is at one stage and in one place.

**SocketSendProofs** (`SendAssumption`: messages are not empty, the kernel buffer has
room for a byte). `SendInv` is types, `LockExact` and what the places in `send()` say of
`_wbuffer`. `OutputStaysArmed` is about states with nobody in `send()`; its invariant
`OutputCovered` follows the output through the threads that are: something left behind
after `::send` has `EAGAIN` and hence the edge behind it, and a message pushed on `_slist`
has the thread that pushed it on its way to the lock. `OneOwner` adds that a message not
handed over is nowhere. `StreamImplemented` is the refinement of ByteStream: copying the
rest into `_wbuffer` and switching from it to the list are stuttering steps, and only the
holder of the lock, of which there is one, moves bytes.

**SocketRecvProofs** (`RecvAssumption`: a message has its length field, messages differ;
`WireAssumption`). `RecvInv` has, besides the types, what holds between calls (`Between`,
`FailedCloses`), that once `readBytes()` saw the kernel empty an arrival brings a new edge
(`Armed`), and that `receive()` succeeds only with every complete message cut off
(`AllCut`); `InputStaysArmed` is its case for the waiting thread. `MessagesFramed` is
`InOrder` (the messages cut off are the first ones of the stream) and `Whole` (what is in
`_rbuffer`, in the read, in the kernel and with the peer is, in this order, the rest of
`Wire`). The lemmas about concatenation move bytes across these borders.

**SocketTableProofs** (`TableAssumption`: finitely many descriptors, one of them the
server's). Both theorems come from `TableInv`: faults take an overlap, and without one
`Agree` holds. `Agree` says that no thread closes what another one uses (`Apart`), that an
open descriptor has one live object (`OneObject`), that slots hold it but between deletion
and clearing (`SlotsRight`), and what each place in the code knows of its locals
(`NewRight`, `HeldRight`, `PolledRight`). None of them is inductive without the others.

**EasylogProofs** (`LogAssumption`). `LinesInOrder`: lines written, in hand and queued are,
in this order, the lines queued so far. `OnlyLateLost` and `SleepsAfterMiss` rest on
`BehindTest` and `AboutToSleep`, which say of the steps between the log thread's tests and
its wait what the properties say of its end and its sleep. `LogTypeCorrect` implies that
it pops no empty queue.

**LifecycleProofs** (`LifecycleAssumption`: finitely many workers, as the pool has, and
distinct threads). `IdsStayExact`: while no two `newservice` read the same `_autoid`
(`IdsRight`), ids are below `_autoid` and different, and the map has each service that is
not deleted under its id (`MapRight`). That a number is left for each call that is about
to allocate (`RoomLeft`) counts the threads in such a call, for which their set has to be
finite. `ShutdownIsClean` rests on `QuietUnlessBusy`: when main leaves its loop with no work
under way, the network thread handles no event and no worker gets a task any more.
`PoolKeepsMoving` is the part of `JoinEnds` that needs no ENABLED: at the join every thread
that is not finished has a step (`HasStep` writes the guards out, and the run checks that
against ENABLED), unless it missed the notification or could not be woken. Its invariant
`StopsDone` has the order of main's stops, and that a thread at work on a socket found the
table filled, which no step undoes.

**DataProofs** is about the components that one thread uses at a time, and the clock.

*ByteBuffer* (`BufferAssumption`: a positive chunk size). `BufferCorrect`
states types, `ReservedFits` and `Contents` together, which is inductive, and
`ReservationsFit` and `ContentsKept` name the two. `ReserveMakesRoom` and `ReallocKeeps` are
about the arithmetic of growing in chunks, `CopiedContents` about a copy behind the write
index.

*ClockTimer* (`ClockAssumption`: a second has a positive number of units, and the machine is
watched for less than a u64 of milliseconds counts, the interval on top). The invariant
`ClockInv` (`ClockInvariant`) has the types, that the timer's scale is the reading it was
started with, and `InOrder`: as long as no word was stored over one of a later sampling, the
words the timer was started with, those loaded since and those of the clock are of samplings
taken in this order. `WholeReading` says that a reading of one sampling is the time of day
at it, so that two such readings at one time of day differ by what passed between the
samplings; `Ask` takes the difference modulo 2^w, which is exact from 0 on and, below 0,
larger than any interval (`SmallModulus`, `NegativeModulus`). `InOrder` is what makes the
latter take a late store. It needs no bound on the number of settings or readings.

*Jscode* (no assumption). `OutcomeReportedOnce` rests on what the state of the context says
of the number of pieces and of reports (`JscodeInv`).

*JsonDecode* (no assumption). Three machines run in step: the automaton with its stack of
modes, the callback with its two `std::stack`s and the Lua stack, and the scan for brackets.
The invariant `DecodeInv` says that a text still being read has been `Accepted` so far: for
some `w`, 1 when a key waits for its value and else 0,

* `Nested`: the stack of modes is `DONE` below the containers that are open, `KEY` can only
  be its top, the kinds of the callback's stack are those of the modes, and each array among
  the modes has its saved index;
* `Held`: the Lua stack has a table for each open container, each with the key or the
  index it will have in the one around it below it, and `w` key on top; `key_lvl` counts
  the keys;
* `Position`: what the state of the automaton says of the literal in hand, of the innermost
  container and of `w`;
* `Scanned`: the scan has the same brackets open, and is in a string or behind a backslash
  when the automaton is.

None of these is inductive without the others: a comma or a closing bracket emits the value
that is still in the buffer, which fits the Lua stack only if the automaton's state says that a
value may end there. Closing brackets are the hard steps, because the callback runs before
the parser looks: for a bracket that matches, `Context` (the types, `Nested` and `Held`) holds
again with one container less; for one that does not, either nothing undefined happens and the
pop of the mode fails, or the callback underflows, and then `Scanned` gives the mismatch.
`MismatchOnly` and `Balanced` (`AcceptedBalanced`, the first conjunct of `JsonBuilds`) are the
conclusions, for texts of any length and depth over the characters 1 to 127, behind which the
loop ends. The other lemmas are about the rows of the table (which actions a state has,
and which states they lead to) and about the ends of sequences. Which value the table holds is
not part of it.

Only model-checked:

* liveness (`QueueDrains`, `StoppedIsReaped`, `TaskStarts`, `StopJoins`, `AcceptedIsSent`,
  `ArrivedIsDelivered`, `StopEnds`, `LineWritten`), and of `JoinEnds` the comparison with
  ENABLED: out of the prover's reach;
* what recursive definitions compute: `JsonAccepts` and the value in `JsonBuilds` (against a
  recursive descent), `EncodeDecodes`, `MessageDecodes`, `HttpChunking`, `TextAgrees` and
  `ConfigExact`. Each needs induction over data. `JsonReference`, `JsonCodec`, `MessageParser`,
  `HttpParser`, `TextTools` and `Configuration` have RECURSIVE operators, with which the
  prover loses its SMT backend; `Configuration`'s conversions also compare powers of 2, and
  that those are monotonic is itself an induction.

## 5. Not modelled

* Vendored code (`deps`), the Lua virtual machine, protobuf and rapidxml; what a script
  does with a Lua state that was closed under it.
* Connecting (`net/Helper.cpp`): system calls with an alarm and no state of the program's
  own. SocketTable has its outcomes. Socket options.
* `loadmsg` and directory traversal; the message types are constants.
* Formatting of log lines, levels, colours, and the splitting of log files.
* Hashes, digests, random values, path names, formatting of times; the float and double
  overloads of the registry; `dump()`.
* The command line, `daemon()`, and what nothing calls: `regtimer`, `setSocketPollout`,
  `connectSelect`.
* The wrappers of `luaT_reg_functions.cpp` that only check arguments and call a library.

## 6. Plan

Built, in this order: ServiceSched with Mailbox, ThreadPool, SocketSend with ByteStream,
ByteBuffer, SocketRecv, SocketTable, Easylog, Lifecycle, the JSON modules, MessageParser,
HttpParser, TextTools, Configuration, ClockTimer, Jscode, Guard. The
safety invariants and refinements of the concurrent components are proved (section 4).
What could be added, in order of use:

1. The registry of `Configuration` as a module of its own, without the XML file: what was
   written first stays until it is removed, over a recursive function instead of RECURSIVE
   operators.
2. That the index the callback saves in a char is the true one below 2^(CharBits - 1): the
   numeric part of `JsonBuilds`, from `Held` and the domains of the tables.
3. A `Connect` module (wait and time-out of a connection), once `connectSelect` has a caller.
