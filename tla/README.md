# A TLA+ model of tcp_ip_network

`tcp_ip_network` is a collection of network programs written while learning: a
reactor server in C++ that grew over five versions (`tcp/tcpCPP/v1` to `v5`),
the small thread programs it was put together from, and the exercises of a book
on TCP/IP programming (`TCP-IP-NetworkNote`, `epoll`, `select`, `process`). The
programs are short; what is hard in them is what happens *between* their
threads, processes, signals and connections. That is what this directory
models.

Three results to start with:

* the task queue, the thread pool and the reactor of v5, the threaded, forking and event-loop servers, the small thread, pipe and
  signal programs, reading, writing and the datagrams do what their callers rely on, for every number of threads,
  connections, descriptors, messages and places (37 theorems, checked by TLAPS), with two exceptions:
  `Threadpool::stop()` can hang (`pool_stop_hangs`), and a reply may be written to another
  client (`reactor_stray_reply`);
* the reactor keeps its map, the kernel's descriptors and its objects in
  agreement although descriptors are reused and objects die in other threads, and
  a reply goes astray only if its own client has closed before;
* of the other programs modelled - nearly all of the repository - most keep their
  promises under all interleavings, whatever the network does; those that do not
  are listed under "What does not hold".

Contents: [inventory](#inventory), [modules](#modules), [modelling
decisions](#modelling-decisions), [runs](#runs), [fairness](#fairness), [what
does not hold](#what-does-not-hold), [proofs](#proofs), [not
modelled](#not-modelled), [plan](#plan).

Paths are relative to the repository's root; `v5` is `tcp/tcpCPP/v5`, `Note` is
`TCP-IP-NetworkNote`.

## Inventory

### The server of v5

| part | state | operations |
|---|---|---|
| `TaskQueue`, `MutexLock`, `Condition` | the queue, `_flag`, a mutex, two condition variables | `push`, `pop`, `wakeup`, `empty` |
| `Threadpool`, `Thread` | `_isExit`, the threads | `start`, `addTask`, `threadFunc`, `stop` |
| `EpollPoller` | `connMap_`, `eventsList_`, `_pendingFunctors`, the eventfd, epoll's registrations | `loop`, `waitEpollfd`, `handleConnection`, `handleMessage`, `runInLoop`, `doPendingFunctors`, `wakeup` |
| `TcpConnection`, `Socket` | the descriptor, the callbacks; alive while somebody holds a `shared_ptr` | constructor, destructor (closes the descriptor), `receive`, `send`, `sendInLoop` |
| `SocketIO` | the receive buffer of the socket, the caller's buffer | `readn`, `readline`, `writen`, `recv_peek` |
| `Acceptor`, `TcpServer`, `InetAddress` | the listening socket | `ready`, `accept`, `start` |
| `test_server.cc` | the global pool | `onConnection`, `onMessage`, `onClose`, `Task::process` |

*How they interact.* `main()` starts the pool's workers and runs the IO thread's
loop. The IO thread accepts, reads a line, wraps the line and a `shared_ptr` to
the connection into a task and calls `addTask()`, which blocks while the queue is
full. A worker takes the task and calls `sendInLoop()`, which pushes a functor
under a mutex and writes the eventfd; the eventfd wakes the IO thread, which swaps the
vector of functors out and runs them; they write the replies. A connection is removed from
`connMap_` when its client closes, but tasks may hold it longer.

*What is hard.* `wakeup()` of the queue takes no lock and `_flag` is read twice.
`stop()` polls the queue without its mutex and does not know what the workers
hold. Objects are destroyed, and their descriptors closed, by whichever thread
lets go last, in the middle of a batch of events; the kernel gives the number
to the next client. A functor holds a raw pointer. The IO thread waits for the
workers (full queue) and the workers' replies wait for the IO thread.

*Correct means.* No accepted task is lost, doubled or left by `stop()`; one
signal per push or pop is enough; the queue is FIFO whatever its inside does;
map, kernel and epoll agree on what a descriptor is; an object lives exactly as
long as it has an owner; every line is answered; every closed connection is
given up; a reply goes to who asked.

### The thread programs beside it

* `tcp/tcpCPP/eventfd`: a sub-thread polls an eventfd and runs a callback. State:
  `_isStarted` (never initialised), the counter. Hard: `start()` in the sub-thread sets
  the flag that `stop()` clears; wakeups add up while a callback runs.
  Correct: no wakeup is forgotten, `stop()` returns.
* `tcp/tcpCPP/timer`: the same with a timerfd. Hard: `stop()` disarms the timer, which
  takes back an expiry that `poll()` has already reported.
* `productConsumer`: a monitor with two condition variables, producers and consumers
  of a fixed number of rounds. Correct: FIFO for each pair, all threads joined.

### The servers of the book and their relatives

* **A thread per client**: `Note/ch18/chat_server.c` (a table of sockets, its count and
  a mutex; every message is written to everybody), `Note/ch18/homework/echo_threadserv.c`
  (one buffer for all threads, under a mutex). Hard: the argument of
  `pthread_create` is the address of a variable `main()` overwrites; removal from the table; writes under the mutex, which wait for a client that
  does not read and raise SIGPIPE for one that left.
* **One thread with an event loop**: four echo servers and two chat servers with epoll,
  `tcp/tcp_epoll/server.c`, and two with `select()`; seven of them exist twice (`Note/ch17`,
  `tcp/tcpC/tcp_epoll`), up to layout, an address and the order of declarations. Hard: the events of
  a batch are handled one after the other while connections are opened and closed;
  edge-triggered events come once; the chat servers use one index for the
  events and for the table; one `write()` too many to a client that left ends the server for all.
* **A process per client**: `process/echo_mpserver.c`, `Note/ch10/echo_mpserv.c`,
  `Note/ch10/test_server.c`; two more also store what is said, through a pipe to one more
  process (`process/pip/echo_storeserv.c`, `Note/ch11/echo_storeserv.c`). Hard: signals merge and
  interrupt system calls, descriptors are copied, a pipe has no message borders and fills up, and SIGPIPE may end a child between its two writes.

### Streams, datagrams, pipes, signals

* **Earlier reactors**: `v4` is `v5` but for its layout and `Thread`; `v2` and `v3` are the IO thread
  without pool, functors and eventfd, which replies at once; `v1` is one connection with
  blocking calls. `SocketIO`, `SocketUtil`, `Acceptor`, `Socket` and `InetAddress` say the same in all of them.
* **Reading and writing** (`SocketIO`): `readline()` peeks, looks for a newline and reads up to it; `writen()`
  writes until all is written or a call fails. Hard: every call may take or give a part, fail, or meet the end of the
  stream or a reset; an error is reported as the number 1.
* **Sequential servers and clients** (`Note` ch01 to ch18, `tcp/tcpC`, the clients of `process`, `select`, `epoll`): one client
  after the other, sometimes with two processes or threads on one side (`process/echo_mpclient.c`, the
  `sep_*` programs, `chat_clnt.c`). State: the stream and where each end is. Hard: a stream has no message borders, an end
  is shut down in one direction only, a reset kills the writer.
* **Datagrams** (`Note` ch06, ch14, `multibroadcast`): echo, connected echo, chat, the bound hosts, news for many
  receivers. Hard: loss, duplication, reordering, refusal, and no timeout anywhere.
* **Pipes** (`Note/ch11`, `process/pip/pipe1.c`): parent and child with one pipe or two. Hard: with one pipe, who reads
  what whom has written depends on a `sleep()`.
* **Chat over two FIFOs** (`select/selectChat`). Hard: each `open()` waits for the other end; then each waits for user and peer.
* **Threads that share a variable** (`Note/ch18`): without a lock, with a mutex, with two semaphores; `main()` that
  sleeps or joins.
* **Children and alarms** (`Note/ch10`, `process`): `wait()`, `waitpid()`, zombies, handlers of SIGCHLD, SIGALRM and SIGINT.
  Hard: signals merge, and cut short what they interrupt.

*Correct means.* No byte is lost or doubled between the ends; a program that counts bytes, lines or operands gets whole
messages; every session, process and thread ends and is waited for; a wrong sum, a stale answer or a zombie has one of
the causes that the model names and no other.

### The rest

A web server, conversions of addresses and names, exercises about descriptors and options: see [not modelled](#not-modelled).

## Modules

| module | of | abstract counterpart |
|---|---|---|
| `BoundedQueue` | what a bounded blocking queue promises | - |
| `TaskQueue` | `v5/TaskQueue.cc`, `MutexLock.cc`, `Condition.cc` | implements `BoundedQueue` |
| `Threadpool` | `v5/Threadpool.cc`, `Thread.cc`; EXTENDS `TaskQueue` | each of its steps is one of `TaskQueue` or leaves the queue alone |
| `Reactor` | `EpollPoller`, `TcpConnection`, `Acceptor` and `test_server.cc` of `v2` to `v5`; INSTANCEs `BoundedQueue` for the pool's queue | - |
| `SocketReader` | `SocketIO::readline`, `readn`, `TcpConnection::receive`, `isConnectionClosed`; `v1`'s loop | - |
| `SocketWriter` | `SocketIO::writen`, `TcpConnection::send` | - |
| `Sessions` | the sequential servers and the clients | - |
| `Datagrams` | `Note/ch06`, `Note/ch14`, `multibroadcast` | - |
| `EventfdThread`, `TimerThread` | `tcp/tcpCPP/eventfd`, `tcp/tcpCPP/timer` | - |
| `ProducerConsumer` | `productConsumer` | implements `BoundedQueue` |
| `ThreadServer` | the two servers with threads | - |
| `EventServer` | the nine servers with an event loop, and the seven copies of them | - |
| `ForkServer` | the five servers that fork | - |
| `Pipes`, `FifoChat` | `pipe*.c` and `test0*.c`; `select/selectChat` | - |
| `Counters` | threads that count, with and without mutex and semaphores | - |
| `Children`, `Alarms` | `fork()` and `wait()`; signal handlers and sleeps | - |
| `SmallPrograms` | eight models that share nothing, one at a time: `ProducerConsumer`, `EventfdThread`, `TimerThread`, `Pipes`, `FifoChat`, `Counters`, `Children`, `Alarms` | - |
| `Sockets` | four models that share nothing, one at a time: `Sessions`, `SocketReader`, `SocketWriter`, `Datagrams` | - |
| `Threadpool_proofs` (with those of `TaskQueue`), `Reactor_proofs`, `ThreadServer_proofs`, `ForkServer_proofs`, `EventServer_proofs`, `SmallPrograms_proofs`, `Sessions_proofs`, `Sockets_proofs` | theorems | - |
| `MC*` | instances for TLC, one `.cfg` for each run | - |

How state and actions correspond to the code: a variable has the name of the
member or local variable it stands for wherever there is one (`que`, `flag`, `connMap`,
`clnt_cnt`); variables like `op`, `stage`, `ioAt`, `pc` say where a thread is; an action has
the name of the function, or of what a stretch of a function does. Operators
introduced as "Mutant of X" are not part of any specification: each is a
plausible mistake in `X`, kept to show that a property notices it.

`Reactor` composes with the pool through the abstraction: `TaskQueue` is shown to
implement `BoundedQueue` (by TLC and by proof), `Threadpool` to use its queue only
the way `TaskQueue` allows, and `Reactor` sees `BoundedQueue`. That keeps `Reactor` at the
level of one action for `push()` and one for `pop()`.

`EventServer`, `ThreadServer` and `ForkServer` each cover programs that share
their structure and differ in a few places. A program is the set or record of what
distinguishes it; the initial state chooses one, so one run explores them all.
`Reactor` does so with the versions of the server (`version`). `SmallPrograms` and `Sockets` put models side by side that share nothing: the
initial state chooses one, the variables of the others stand still, and a property or a theorem about the whole is one about each.

A program of `Sessions`, `Pipes`, `Children` and `Alarms` is straight-line code with loops around system calls. There it is a
sequence of instructions, one for each call that another process can notice, and an action executes the next one; each
program is a definition of its own, so that it can be compared with its source.

## Modelling decisions

* **Grain.** Whatever the code does under a mutex that guards all it touches is one
  action; a system call is one action; an unsynchronised read or write is one
  action. Where a mutex guards less than is touched (`TaskQueue`, with `_flag`) the critical
  section is cut at each such access. `ProducerConsumer` has nothing outside the
  monitor, so its critical sections are atomic.
* **Condition variables.** `signal` wakes any one sleeper, `broadcast` all, and a
  spurious wakeup may come at any time.
* **Data races.** `_flag`: each read may see the old or the new value, and the second read in
  `pop()` may be merged with the first by the compiler. `_isStarted`
  starts with either value. `TaskQueue::empty()` outside the mutex is an atomic read of
  whether the queue is empty. `MutexLock::_isLocking` is written and never acted upon; it is left out.
* **Tasks** may be added again once nobody holds them; so a small set of names
  gives runs of any length.
* **Use after free.** A functor whose connection is destroyed sends to the old descriptor number
  (closed, or another connection's by now) or to that of an object built in the same memory (`SendTargets`
  in `Reactor`); any later connection is possible.
* **Descriptors** are handed out lowest first and reused at once, as the kernel does.
* **Batches.** epoll returns what is ready in any order; `select()` is walked through in
  descriptor order. An edge-triggered event is a member of `edge` until it is reported.
* **Writes.** In `SocketWriter` a write takes what the send buffer has room for, waits or fails when it is full, and fails when the
  peer is gone. `Sessions` writes a message at once, cuts it anywhere on its way, and a write after a reset
  kills the writer. In `Reactor` a reply is one write, and one to a client that has reset its
  connection may raise SIGPIPE. Pipes have a capacity, and a write waits for it.
* **Writes of the servers to their clients** (`ThreadServer`, `EventServer`, `ForkServer`). Clients read what they are sent or not: a socket
  holds `SockCap` messages that its client has not read (`unread`), and a further write waits, or is dropped where the socket does not block. A client may
  leave at any moment. No program of the repository handles or blocks SIGPIPE or sends with MSG_NOSIGNAL, so `err` of the server's end follows the kernel: a write to a client
  that has left succeeds, and its host answers with a reset, sooner or later (`WriteUnheard`); after that the next write raises SIGPIPE (`WriteKills`, `EchoKills`).
  If the client left with something unread the reset is there at once: it is reported to one call, a `read()` or a `write()` that returns -1 (`ReadFails`,
  `WriteFails`), and the next write raises SIGPIPE, while `read()` then finds the end of the stream. Input that came before the client left is still
  read. The servers go on after a failed `read()`, and their write of -1 bytes is refused;
  `tcp/tcp_epoll` writes `strlen()` of its buffer, and a write of no bytes does raise SIGPIPE. SIGPIPE ends the process: the whole server, or one child.
* **Failing calls.** `tcp/tcp_epoll/server.c` exits when `accept()` or `epoll_ctl()` fails and closes the socket when `write()` fails (`AcceptFails`, `WriteFails`). The other servers
  with threads or an event loop do not look at the result of `accept()`; its failure is left out there. The forking servers try `accept()` again.
* **Reads from the pipe** take everything in it. The code's buffers hold a few writes of
  short texts; a longer content would be cut at some byte, which
  the model does not do.
* **Reset.** In `SocketReader` and `Sessions` a reset may throw away what was received and not read; in `Sessions` it
  comes of closing an end with unread bytes.
* **Messages** of `Sessions` are numbers of bytes, and byte `j` of a message of `n` is `<<j, n>>`: enough to see borders,
  order and loss.
* **The network** of `Datagrams` is a bag: any datagram may come next, `MaxLost` may vanish and `MaxDups` be doubled.
* **Time.** How long a `sleep()` lasts is left open, except where a program relies on it; there a choice in the
  initial state says whether it is long enough (`timely` in `Pipes`).
* **Shared variables** without a lock (`Counters`): a load and a store, and a compiler may add several numbers in between.

Every bound is a constant of its module: `MaxLines`, `MaxMsgs`, `MaxTexts`, `MaxBytes`, `Replies` (what
is sent), `SockCap` (what a socket holds of it unread), `MaxWakeups`, `MaxExpiries`, `MaxKeys` (signals), `MaxLost`, `MaxDups` (the network), `PipeCap`, `Room`, `MaxReads` (10 in the code), `QueSize`
(10), `MaxLen` (65536), `MaxRounds` (5 clients, 3 rounds), `NUM_THREAD` (100), `Rounds` (50000000), `MaxFd`.

## Runs

Twelve runs: nine must pass, three must find the violation. The number in
parentheses is that of the distinct states.

**`task_queue`** (53 149): three threads, two products, capacity 2; every thread may call `push`, `pop` and
`wakeup` in any order. Three threads are the least for a signal to be stolen: one
sleeps, one signals, one is faster. `ExitConditionStands`: `front()` never meets
an empty queue although `_flag` is read twice. `SignalsSuffice`: one signal per product and per place suffices.
`ImplementsBoundedQueue`: the refinement. `TypeOK`.

**`thread_pool`** (1 449): the pool as the repository uses it, one thread that starts, adds
and stops; two workers, three tasks, capacity 2, so that the queue is full, empty and
in between while `stop()` polls. `TasksAccountedFor`, `StopDrains`
(safety), `PoolProgress` (every task runs, `addTask()` returns), `StopReturnsUnlessMissed` (liveness). The last says that the window
between the test of `_flag` and the wait is the only reason for `stop()` to hang.

**`pool_stop_hangs`** (violation of `StopReturns`): and that window is real.

**`reactor_patient`** (201 863): two clients that wait for their answers, two lines each, two
workers, a queue of one (so the IO thread does block), with and without pool. `EveryLineAnswered`, `ClosedIsReclaimed`.

**`reactor_rude`** (2 027 805, up to the symmetry of clients and of workers; safety only): three clients that close or reset whenever they like, two descriptors (so the third
connection reuses one, or finds none), two workers, with and without pool. `DescriptorsAgree`, `OwnershipSound`, `PendingAnnounced`,
`KnownEndings` (the asserts hold; the process ends only by running out of descriptors
or by SIGPIPE, each in the circumstances stated), `StraysAreOfTheGone` (a client that stays loses no
reply).

**`reactor_stray_reply`** (violation of `RepliesReachTheirClient`): two such clients suffice for a
reply to go to the wrong one.

**`small_programs`** (12 310): eight small models, one at a time. `productConsumer` has two threads on each side, two rounds, capacity 2; the
eventfd thread four wakeups, the timer thread four expiries (enough for several to pile up during a
callback and for more after it); users type two lines;
three threads count twice (two kinds of them, one kind twice); Ctrl-C is pressed four times.
`NothingForgotten`: the first three keep the order of the products and account for every signal. `OneMachineSafe`: pipes, FIFOs, sums, children and
sleeps. `ImplementsBoundedQueue`: `productConsumer`. `NobodyStuck`: every program comes to its end.

**`sockets`** (113 600): four models, one at a time. The sessions: two clients, which type two lines each; every server of `Sessions` with every client it is meant
for. Two clients are what a server must outlive and serve in turn. `WholeMessages`: what a program takes for a message is one, in all programs that read
until it is: those that read to the end of the stream and then show what they have (`DoShow`), those that count bytes (`Counted`, when the count of a loop like that of `echo_client2` is
full), and those that read a line (`Judge` in `LineTake` and `LineEnd`, when `fgets()` returns). A part taken for a message enters its reader in `torn`; the programs of
`ReadOnce` take whatever one `read()` returns, and are known to. `ServerSurvives`: SIGPIPE ends a server only if its client is one that leaves before it has read all it is due (item 12 below). `FarewellArrives`: after the half-close the thanks arrive.
`readline()`: five bytes, newlines or not, a buffer of four, so that lines are
shorter and longer than it; the peer closes or resets between any two system calls. `StreamConserved`, `OneLineAtMost`, `EverythingRead`.
`writen()`: three replies of three bytes into a buffer of four, so that replies are cut. `RepliesInSequence`: the peer reads
the replies in order, each byte once, and what is missing is the end of a reply given up. Datagrams: two clients with two messages each; the
network loses one, doubles one and reorders them. `DatagramsAccountedFor`: every answer, missing line or stray zero is explained by what the network
did. `EverySessionEnds`: sessions and clients come to an end, or wait for a datagram that was lost.

**`thread_servers`** (59 112): two clients, two messages, room for one unread message in a socket, both programs, with the argument race; clients leave at any moment, with
or without having read what they were sent. So writes wait under the mutex, and the message after the reset ends the server.
`CountMatchesThreads` (the count that bounds the writes stays right whatever the
table holds and whichever socket the threads serve), `MessagesUnmixed` (any two clients get the messages in one order; the echo server's one
buffer holds what the writing thread has read), `ConnectorsGetAThread`: whoever connects gets a thread, if every client that stays goes on reading. The premise is needed, for one client that does not
read keeps the mutex with its writer and `main()` waits for it; and SIGPIPE may end the server before, which takes a client that left (`KilledByALeaver`).

**`thread_server_argument`** (violation of `ThreadServesItsClient`): the race itself.

**`event_servers`** (173 316): two clients, three messages, room for one unread message in a socket, all programs (seven different ones). Two clients give batches with a
removal in front of another event, and a descriptor that is reused while the batch is worked through; three messages of one client are what it takes for
an echo to meet a client that left, the reset to come, and the next echo to raise SIGPIPE. `CountIsRegistered`, `UnreadIsAnnounced`, `BatchMovesForward` (the
clobbered index never goes back, so that nothing is read twice). `EveryMessageIsRead`: if all clients read what they are sent, or leave, whatever is sent is read,
unless SIGPIPE or the exits of `tcp/tcp_epoll` end the server first, or `tcp/tcp_epoll` closes the connection of a client that left too early.
`KilledByTheHasty`: an echo server ends by SIGPIPE only if some client left before it had read all its answers.
For the chat servers there is no such condition: they write to everybody in their table, and a client that leaves when nothing is on its way can end them too,
if two messages of others come before its end is handled.

**`fork_servers`** (145 374): two clients, two texts, room for one unread echo in a socket, a pipe of two writes, a storing process of ch11 that ends after one read, all five
programs; `fork()` may fail, signals merge and interrupt. Two texts of one client are what it takes for SIGPIPE to end a child that has read the
second. `ZombiesAreOfMergedSignals` (a child killed by a signal is one more to reap), `ConnectionEndsWithItsChild`. `TextsConserved`: each text is in exactly one of five places, one of them `lost`, with a
child that was killed between its read and its write to the pipe; only texts of clients that left too early get there (`hasty`). `EveryoneIsServed`: who connects gets a child, whatever other
clients do; and the child of a client that reads its echoes, or leaves, reads and passes on all it gets, unless the storing process has ended before or SIGPIPE ends the child because its client left too early. (The
excuse for a storing process that has ended is never needed at these bounds: the pipe has room for the one text that is then left.)

Deadlock is checked in `task_queue`. The other programs end, or wait for
clients that have all left; there liveness properties take its place.

## Fairness

Weak fairness for every step of a thread or process: it is scheduled. Strong
fairness where a step waits for something that others take and give back: a
contended mutex (`Threadpool`, `ThreadServer`: pthread mutexes promise no order, but one
that is free again and again is obtained in the end) and room in a
pipe, and the parent in `ForkServer`, which signal handlers interrupt again and again. In `ProducerConsumer` the critical
sections are atomic, so weak fairness of a thread includes its getting the mutex. In `SmallPrograms` and `Sockets` each model
keeps its own fairness, with the name of the model that runs added to each action. `SocketWriter` is checked for safety only.

No fairness for the clients of the large servers, who need not send or leave, for the network, for spurious wakeups, for
callers of `stop()`, `addTask()` or `wakeup()`, nor for the kernel's timer. `poll()` with a
timeout of five seconds returns in the end, which is the fairness of `PollTimeout`.

## What does not hold

Shown by a run:

1. `Threadpool::stop()` may hang (`pool_stop_hangs`). `TaskQueue::wakeup()` clears `_flag` and
   broadcasts without the mutex (`v5/TaskQueue.cc:68`). A worker that has tested `_flag` and has not reached
   `wait()` misses the broadcast, and `join()` waits for it.
2. A reply may reach another client (`reactor_stray_reply`). `v5/TcpConnection.cc:111` binds
   `this`; the task that held the `shared_ptr` is gone when the functor runs.
3. Two threads may serve one client and none the other (`thread_server_argument`).
   `Note/ch18/chat_server.c:55` passes the address of a variable that `accept()` overwrites.

Found while modelling, stated in the modules and not part of a run:

4. Stopping a timer may hang: `timer/Timer.cc:94` disarms it between the `poll()` and the blocking `read()` of the
   sub-thread (`StopReturns` in `TimerThread`; the run checks that this is the only way).
5. In `eventfd` and `timer` a `stop()` that overtakes the sub-thread's `_isStarted = true` is lost; the
   run checks `stop()` of a thread that has begun.
6. `chat_server.c:77` increments before it copies: the socket that left stays in the table and its
   neighbour is dropped (`ConnectedStayInTable`). The chat servers with epoll have the same loop and look for the wrong socket besides
   (`Matches` in `EventServer`).
7. `epoll/epollchat/chat_epETserv.c:92`: the index is clobbered when a client leaves, and the events jumped
   over, edge-triggered, do not come again (`skipped` in `EventServer`).
8. `epoll/echo_EDGEserv.c:9` expects that what one read leaves behind triggers an event again; the event
   is edge-triggered (`RestTriggersAgain`).
9. One `waitpid()` per signal leaves a zombie for each SIGCHLD merged with another
   (`process/echo_mpserver.c:23`; the comment at line 83 says it prevents zombies). `ZombiesAreOfMergedSignals` states the exact number.
10. The storing process of `process/pip/echo_storeserv.c:59` recognises "open" and "q" only when read alone; texts that
    arrive together with one are stored in the wrong file or thrown away (`dropped`). The one of `Note/ch11` ends after ten reads,
    and its children then wait for room in the pipe.
11. A client that leaves early can end a server for all others. In the event loops an echo that meets the reset of a client raises SIGPIPE
    (`WriteKills` in `EventServer`; `epoll/echo_epLTserv.c:80` echoes what it has read piece by piece), and so does a broadcast of the chat servers (`chat_epLTserv.c:116`,
    `Note/ch18/chat_server.c:92`); `tcp/tcp_epoll/server.c:124` looks for an error of `write()` that SIGPIPE does not let it see, and even without anything to write. In the forking servers only the child
    ends, but in the storing ones with a text in its hand that it has read and not yet written to the pipe (`process/pip/echo_storeserv.c:92`; `lost` in `ForkServer`).
    `process/echo_mpserver.c:113` and `select/echo_selectserver.c:180` also clear the buffer between reading and writing, so that zeros are echoed; the content of an echo is not in the models.
12. `Note/ch04/echo_server.c` can be killed by SIGPIPE: its client takes what one `read()` returns for the whole echo, and quits
    with the rest under way. `Note/ch15/echo_stdserv.c` echoes its old buffer once more at the end of the stream. `kehou6`'s server
    that reads half a file name looks for a file of that name, and resets the client.
13. `op_server` and the loop of `echo_client2` count bytes and do not look for the end of the stream: they spin when it comes early. `file_client` spins
    when `connect()` fails. The server of `sep_*` that closes both its streams cannot hear the farewell (`FarewellArrives` has the one that can).
14. `Note/ch06`: `uchar_client` sends its whole buffer, and the server then writes its zero behind the array; the client with a connected socket
    writes `message[-1]` after ECONNREFUSED (`outside` in `Datagrams`).
15. `feof()` is asked before the `fgets()` that fails: the last line of the news is sent twice (`Note/ch14`).
16. The `break` of `select/selectChat/a.c:51` is commented out: after the other has left, the program spins on a descriptor it has closed (`spin` in `FifoChat`).
17. `thread3.c` and `thread4.c` lose additions; `ResultsKnown` bounds how many. In `pipe2.c` and `test02` with a short `sleep()` the child reads its own message, and the parent waits for ever.
18. `process/signal/signal.c:60` says that `signal()` has returned `timeout02`; it returned `timeout01` (`called` in `Alarms`). `kehou5` leaves the newline
    of an answer in its input. `remove_zomebie` reaps one child for each signal delivered, like the forking servers.

Hazards for which no property can be stated, because the code makes no provision: the 257th client of `chat_server.c`, a client
that does not read while the mutex is held (`chat_server.c:92`; the premise of `ConnectorsGetAThread`), the `break` out of a locked mutex (`echo_threadserv.c:64`,
modelled by `BreakLocked`), what item 8 leaves unread. The order of two replies to one client (`v5/TcpConnection.cc:109`) is left open by the
program: two workers hold the two lines.

## Proofs

TLAPS checks the following for all values of the constants. The assumptions are those the modules declare: capacities and sizes are at
least 1 (a buffer of `readline()` has room for a byte and its zero), the sets of threads, workers and clients are finite, `NULL` and the server are
not among the names, workers are not adders, the IO thread is no worker, the words of the storing process are not texts, and the table of the chat server
has room for all clients that come (`MAX_CLNT`).

*`Threadpool_proofs`.* First the queue, for any threads. `IndInv` is its inductive invariant: the types, `LockDiscipline` (between
lock and unlock exactly the holder of the mutex), `CapacityRespected`, `ExitConditionStands`, `SleepersInPlace`. No
part is inductive alone: what `pop()` takes is a product because the queue is not empty, that is so
because nobody ran between its test and `front()`, and that is the lock discipline. Theorems: `TypeCorrect`, `MutualExclusion`, `NeverOverfull`,
`NoFrontOfEmpty`, `SleepersBelong` and the refinement `TaskQueueRefinement`: each step maps to
a step of `BoundedQueue` or a stutter.
Then signals are counted. `EnoughPoppersAwake`, `EnoughPushersAwake`: while somebody sleeps in `pop()`, the
products are no more than the threads awake in `pop()`. A push adds one product and wakes one sleeper; a pop
takes one product and one awake thread away; a thread goes to sleep only when there is no product. Cardinalities
are compared through the subset facts of the library's `FiniteSetTheorems`. `OneSignalIsEnough` states both, `SignalsSuffice`.
None of this uses what `Threadpool` assumes of its threads.

By its definition each step of the pool is a step of the queue or leaves it alone (the lemma `PoolStepsTheQueue`). So `IndInv`
holds in the pool. On top of it, `StageInv` (who can hold a product at which point of the code) and `TaskInv` (each
accepted task in the queue once or in one worker's hand, no product in two places) are inductive together and give
`NoTaskLost`. With only the stopping thread adding tasks, `StopInv` (the queue found empty stays empty, the adder is in no push) gives
`StopLeavesNothing`: `stop()` returns with nothing left to do. The assumption is needed: another thread's task added after
the poll would stay.

*`Reactor_proofs`.* `IndInv` is the conjunction of the types, `HandsInv` (what a thread can have in its hand at which point of the code),
`ClientsInv` (who is connected), `MapInv` (`connMap_`, descriptors and registrations), `BatchInv` (the rest of a batch is without
repetition, and about connections that are in the map), `OwnershipSound`, `DeathInv` (which heirs a destroyed connection can have), `FunctorsInv`, `EndInv`, `PendingAnnounced` and
`StraysHaveLeft`. They lean on each other: a batch names no stale descriptor because only the IO thread takes a connection out of the map; a connection
in the map is alive because the map owns it; a descriptor given to a new client is in no table because its last owner is gone, and so
is out of the map. Queue, functors and batch enter as the sets of their elements. The lowest free descriptor exists by well-founded
induction on the naturals, and that `accept()` fails only with `MaxFd` live connections follows from an injection into the descriptors.
Theorems: `TablesAgree`, `OwnersKeepAlive`, `NoFunctorForgotten`, `EndingsKnown`.
That a client that stays loses no reply needs a count: `Accounted` says that the replies a client has got, and the lines of it in the socket, in
a hand, in the queue, in a worker and in the two vectors of functors (`Owed`) are together no more than the lines it has sent. Each step moves one line from one place to
the next (`Account`); so a client's replies never exceed its lines, and a reply can be missing only because it went astray. `OnlyTheGoneAreMissed` states `StraysAreOfTheGone`.

*`ThreadServer_proofs`.* `Places` says at which point which thread is, `Guarded` that the table is touched by the holder of the mutex alone,
`CountRight` that `clnt_cnt` is the cardinality of the set of clients accepted and not yet removed. The argument race is part of the model, and the
proof shows that the count does not depend on which socket a thread reads: `CountIsThreads`. `OneOrder` proves `MessagesUnmixed` from that and `OrderInv`:
messages are numbered as they are sent (`Old`), each is in one inbox or in one thread's hand (`ReadOnce`), what is in an inbox or in the hand of a thread that is not
sending has been heard by nobody (`Unheard`), and behind the message being sent nobody has heard another (`SendingLast`). The order of two messages is
then that of their turns with the mutex, for every client that hears both. A write reaches at most one connection, once (`WriteReaches`, `HeardOnly`), or none: that
clients stop reading, leave, or end the server changes no order. `AllEnd`: SIGPIPE ends all threads together.

*`ForkServer_proofs`.* `ForkedOnce` (one `fork()` for each client, after its `accept()`) and `CopiesCounted` (a connection has as many
descriptors as its child and the loop of the parent hold) carry `CopiesClosed`. For `ZombiesCounted` each exit adds one zombie and either a pending signal or a merged one, each
delivery takes one of both away, so the handler's `waitpid()` always finds a child. `NoTextLostOrDoubled` rests on `FlowInv`: the places a text passes (inbox, child, pipe,
file or waste, or lost with a child) are disjoint, and of the texts of one client those further on are the earlier ones; a read of the pipe moves all it takes on at once, and SIGPIPE moves what the child has just read
from the inbox to the lost (`EchoKillsKeepsFlow`, `LostApart`). `SocketsInv`: only the socket of a client that left is reset, and a client that left while its child had still something to read is hasty; so
what is lost belongs to the hasty (`LostOfHasty`). `StorerInv` says where the storing
process is, and that the one of ch11 ends after its last read.

*`EventServer_proofs`.* `OwnDescriptors` (no two connections share one; the lowest free one exists as in `Reactor_proofs`) and `CountIsRegistered` bound a batch:
it has at most one event more than there are sockets (`BatchFits`), because distinct events have distinct descriptors. So with `i` behind `clnt_cnt` the walk is over,
a removal ends the batch (`RemovalEndsTheBatch`), and no event is handled twice: `CountRegistered`, `ForwardOnly`. `Announced` follows each event that is jumped over (`JumpedOver`).
`PatientClientsAreSafe` rests on `HastyPays`: the socket of a client that is not hasty has no error, and if the client has left, nothing is owed to it, neither unread input nor an answer about to be written (`NothingOwed`).

*`SmallPrograms_proofs`.* One inductive invariant for each of the eight models; a step of one leaves the variables of the others alone, so their conjunction is inductive.
`productConsumer`: `TypeOK` with `ProductInHand` (a producer in its loop has made a product) is inductive (`TypeCorrect`), each critical
section then maps to one step of `BoundedQueue`, each sleep to a stutter (`QueueRefinement`), and `OrderInv` (the queue and what each consumer has are in the order of each producer, and
the first lie behind the second) keeps the products in order. `EventfdInv`, `TimerInv`: what was written, or expired, is what was read and what the counter holds. They give
`NothingIsForgotten`.
`PipesInv` follows who may read what whom has written (`TurnsInv`, `SleepsInv`, `ClosesInv`: by turns, by a sleep that is long enough, by closed ends). `ChatInv`: each line typed is shown, under way or to be written.
`CountersInv`: under the mutex the sum is that of the numbers added (`Exact`); without it each number changes the variable at most once (`Bounded`, `LastNumberIn`), with semaphores it is handed over
(`HandOver`). `ChildrenInv` counts zombies against pending, handled and merged signals. `AlarmsInv` says which alarm is to come where a sleep begins. They give `OneMachineStandsSafe`. `Sum` is a
recursive function; what is proved of it (one number changed, numbers left out) goes by the least counterexample, as the library's induction theorems are not available.

*`Sockets_proofs`.* In the same way, one invariant for each model. `ReaderInv`: what the callers have, what was lost with an unfinished line, what the buffer holds and
what lies in the socket are consecutive pieces of the stream (`ReaderFlow`), what was peeked is the beginning of the last piece as long as no reset has come (`ReaderCall`), and the buffer has no newline in it yet
(`NoNewlineYet`). `NoByteLostOrDoubled`, `LinesOneByOne`. `WriterInv`: for some cut of the replies (`Cut`) the peer's bytes and those in the send buffer are the first parts of the replies, one after the other; each write
makes the last part longer (`PartsMore`). `RepliesInOrder`. `DatagramsInv`: `TalkInv` counts the datagrams of each client (its question or its answer is under way, or one of them was lost), `NewsMail` each
line of the news: copies under way and heard are those sent, less those lost, and those doubled. `NoDatagramUnaccounted`.

*`Sessions_proofs`.* `SessionInv` is inductive for any number of clients, lines and rounds, whichever of the twenty pairs of programs meets. Its first part holds for all pairs:
`SessionTypes`, `Positions` (where a server can be while it has a connection), and `Connections` (what a connection is like before it is made, while it waits in the queue, and when it is served).
A program is data, so the steps are proved once for each instruction (what a step does to its process and to the two ends of the connection), with the facts about a program they
need (`Serves`, `Calls`, `Helps`) proved for each program from its text. From the side of one client a step is then somebody else's, its own, or the server's.
The second part is what a pair needs. `Patience`: where the client waits for what the server owes it, so that neither end is reset. Where the bytes are: `Text` (in the client's buffer and on their way to it) is nothing or whole
messages for the clients that read to the end; `Coming3` is the request of the calculator on its way; `Way` counts the bytes of an echo going round; `LineIs` says on which of the three
legs a line is, with buffers of stdio on both sides. `Spared` names the pairs whose server no SIGPIPE reaches. Of a process that takes whatever one `read()` returns no account of the
bytes is kept, and what it tears off reaches the other side only where `WholeMessages` says so.
`WholeMessages` is judged in three places, when a program shows what it has read, when its count is full, and when `fgets()` returns (`Takes`): `TornBy` says that `torn` grows there only, and by a
process that has the wrong bytes at hand (`Ill`); for each pair the account of the bytes shows that a process that reads until a message is complete has not (`ServerWhole`, `ClientWhole`).
Theorems: `SessionInvariant`, `MessagesStayWhole`, `ServersSurvive`, `FarewellsArrive`.

Sequences that the prover cannot compute are avoided in the definitions: texts of one kind are selected by their positions, and sums are recursive functions, because
`SelectSeq` and the folds take operators as parameters.

Only model-checked: all liveness (fairness and `ENABLED` are outside what the prover handles).

## Not modelled

* `Note`'s web server: a thread for each request parses one line with stdio and sends a file. The threads share nothing but the
  address of `main()`'s variable, the race of `thread_server_argument`; the rest is text.
* Conversion of addresses and names: calls of the library with their result printed.
* `process/pip/echo_mpclient.c` calls a `write_routine()` that no file defines, so it does not link.
* Copies of files, printed descriptor numbers and socket options, urgent data, `readv()` and `writev()` (parts of `Note` ch01, ch02, ch09, ch13, ch15,
  ch16): one process, and nothing that another could disturb.
* `unloop()`, `shutdown()`, `TcpServer::stop()`: no caller.
* The order of two replies to one client, which the program leaves open.
* Startup (bind, listen, options): straight-line code that ends the process on an error.

## Plan

1. *Done*: the task queue, its abstraction, the pool, the reactor, the thread programs, the three families of servers, reading; proofs about queue and pool.
2. *Done*: the earlier reactors; writing; clients and sequential servers; datagrams; pipes, FIFOs, counting threads, children, alarms.
3. *Done*: proofs about `Reactor`, `ThreadServer`, `ForkServer`, `EventServer`, and about each of the small programs and sockets.
4. *Done*: the invariants of `Sessions`, each pair of programs with its own account of the bytes under way. What is left to TLC is liveness.
