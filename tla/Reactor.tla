------------------------------ MODULE Reactor ------------------------------
(***************************************************************************)
(* The servers of tcp/tcpCPP/v2 to v5: one IO thread, in                   *)
(* EpollPoller::loop(), the worker threads of the pool, and the clients at *)
(* the other end of the connections.  The callbacks are those of           *)
(* test_server.cc: the IO thread reads a line and hands it to the pool as  *)
(* a task; the worker that runs it sends the reply back through            *)
(* runInLoop(), as a functor that the IO thread executes when the eventfd  *)
(* wakes it.  In v2 and v3, which have no pool, onMessage() sends the      *)
(* reply at once.                                                          *)
(*                                                                         *)
(* A connection object lives as long as somebody holds a shared_ptr to it: *)
(* connMap_, a Task in the pool's queue, a Task a thread has in hand.  A   *)
(* functor holds a bare pointer.  When the last shared_ptr goes the object *)
(* is destroyed and its descriptor is closed, in the thread that let go.   *)
(*                                                                         *)
(* The pool's queue is the abstract BoundedQueue, which TaskQueue          *)
(* implements; it is never closed here, since the server runs for ever.    *)
(***************************************************************************)
EXTENDS Naturals, Sequences, FiniteSets

CONSTANTS
    Conns,      \* the connections clients may open, one TcpConnection each
    MaxFd,      \* descriptors 1..MaxFd are left for connections
    Workers,    \* the threads of the pool
    io,         \* the IO thread
    QueSize,    \* capacity of the pool's queue
    MaxLines,   \* bound: the lines each client sends
    Patient,    \* TRUE: clients close only when all their lines are answered
    NULL

ASSUME SizesAssumption == MaxFd \in Nat /\ QueSize \in Nat \ {0} /\ MaxLines \in Nat
ASSUME NamesAssumption == NULL \notin Conns /\ io \notin Workers /\ Patient \in BOOLEAN

Fds     == 1..MaxFd
NoFd    == 0
\* listenfd_ and eventfd_, which epoll reports next to the connections.
Listen  == MaxFd + 1
Eventfd == MaxFd + 2

(* The versions: "pool" if replies come from a pool of threads. *)
v2 == [pool |-> FALSE]
v3 == v2
v4 == [pool |-> TRUE]
v5 == v4

Versions == {v2, v3, v4, v5}

VARIABLES
    version,
    peer,       \* each client: "away", "here" (connected), "gone" (closed)
    backlog,    \* connections the kernel completed, not yet accepted
    inbox,      \* lines in the receive buffer of each connection
    sent,       \* lines each client has sent so far
    replies,    \* replies that reached each client, to its own lines
    reset,      \* the client's end has answered with RST
    strayed,    \* <<c, d>>: a reply meant for c was written to d's socket
    obj,        \* TcpConnection: "none", "live", "dead" (destroyed)
    fd,         \* sockfd_ of each connection
    heirs,      \* the connections built after each one was destroyed
    connMap,    \* connMap_, by descriptor
    watched,    \* the connection descriptors registered with epoll
    batch,      \* the events of eventsList_ not yet handled
    ioAt,       \* where the IO thread is
    pending,    \* _pendingFunctors: the connections whose send() is wanted
    running,    \* tmp of doPendingFunctors()
    rung,       \* the eventfd's counter is not zero
    workAt,     \* where each worker is
    items, open, mode, hand,    \* the pool's queue
    down        \* "up", or what ended the process

clientVars == <<peer, sent>>
netVars    == <<backlog, inbox, replies, reset, strayed>>
connVars   == <<obj, fd, heirs, connMap, watched>>
loopVars   == <<batch, ioAt, running>>
bellVars   == <<pending, rung>>
queueVars  == <<items, open, mode, hand>>
vars == <<clientVars, netVars, connVars, loopVars, bellVars, queueVars,
          workAt, down, version>>

TaskQ == INSTANCE BoundedQueue WITH
            Clients <- Workers \cup {io}, Items <- Conns, Capacity <- QueSize

Live == {c \in Conns : obj[c] = "live"}

(* Mutant of FreeFds: the highest descriptor is never handed out. *)
FreeFdsButLast == (Fds \ {MaxFd}) \ {fd[c] : c \in Live}

(* Descriptors not in use; the kernel hands out the lowest. *)
FreeFds == Fds \ {fd[c] : c \in Live}
Lowest(S) == CHOOSE f \in S : \A g \in S : f <= g

Init ==
    /\ version \in Versions
    /\ peer = [c \in Conns |-> "away"]
    /\ backlog = << >>
    /\ inbox = [c \in Conns |-> 0]
    /\ sent = [c \in Conns |-> 0]
    /\ replies = [c \in Conns |-> 0]
    /\ reset = [c \in Conns |-> FALSE]
    /\ strayed = {}
    /\ obj = [c \in Conns |-> "none"]
    /\ fd = [c \in Conns |-> NoFd]
    /\ heirs = [c \in Conns |-> {}]
    /\ connMap = [f \in Fds |-> NULL]
    /\ watched = {}
    /\ batch = {}
    /\ ioAt = "wait"
    /\ pending = << >>
    /\ running = << >>
    /\ rung = FALSE
    /\ workAt = [w \in Workers |-> "loop"]
    /\ TaskQ!Init
    /\ down = "up"

-----------------------------------------------------------------------------
(* The clients. *)

Connect(c) ==
    /\ peer[c] = "away"
    /\ peer' = [peer EXCEPT ![c] = "here"]
    /\ backlog' = Append(backlog, c)
    /\ UNCHANGED <<sent, inbox, replies, reset, strayed, connVars, loopVars,
                   bellVars, queueVars, workAt, down>>

SendLine(c) ==
    /\ peer[c] = "here"
    /\ sent[c] < MaxLines
    /\ sent' = [sent EXCEPT ![c] = @ + 1]
    /\ inbox' = [inbox EXCEPT ![c] = @ + 1]
    /\ UNCHANGED <<peer, backlog, replies, reset, strayed, connVars, loopVars,
                   bellVars, queueVars, workAt, down>>

(* A client that closes with data unread sends RST instead of FIN. *)
Close(c) ==
    /\ peer[c] = "here"
    /\ Patient => obj[c] = "live" /\ replies[c] = sent[c]
    /\ peer' = [peer EXCEPT ![c] = "gone"]
    /\ \E rst \in IF Patient THEN {FALSE} ELSE BOOLEAN :
            reset' = [reset EXCEPT ![c] = rst]
    /\ UNCHANGED <<sent, backlog, inbox, replies, strayed, connVars, loopVars,
                   bellVars, queueVars, workAt, down>>

-----------------------------------------------------------------------------
(***************************************************************************)
(* write() of a reply meant for c to the socket of d (NULL: the descriptor *)
(* is closed, EBADF).  The peer answers a write after its close() with     *)
(* RST; a write after RST fails, and raises SIGPIPE, which nobody ignores, *)
(* unless the pending socket error is reported first.  Errors are dropped. *)
(***************************************************************************)
Write(c, d, isReply) ==
    IF d = NULL THEN UNCHANGED <<replies, reset, strayed, down>>
    ELSE
    /\ strayed' = IF c = d THEN strayed ELSE strayed \cup {<<c, d>>}
    /\ \/ /\ peer[d] = "here"
          /\ replies' = IF isReply /\ c = d THEN [replies EXCEPT ![c] = @ + 1]
                        ELSE replies
          /\ UNCHANGED <<reset, down>>
       \/ /\ peer[d] = "gone"
          /\ ~reset[d]
          /\ reset' = [reset EXCEPT ![d] = TRUE]
          /\ UNCHANGED <<replies, down>>
       \/ /\ peer[d] = "gone"
          /\ reset[d]
          /\ down' \in {"up", "sigpipe"}
          /\ UNCHANGED <<replies, reset>>

(* The shared_ptrs to c that are left when the map and the hands are these. *)
Held(c, map, items_, hand_) ==
    \/ \E f \in Fds : map[f] = c
    \/ \E i \in 1..Len(items_) : items_[i] = c
    \/ \E x \in Workers \cup {io} : hand_[x] = c

(* Mutant of Release: destroyed whoever else holds it. *)
ReleaseAtOnce(c) ==
    obj' = IF c \in Conns THEN [obj EXCEPT ![c] = "dead"] ELSE obj

(* Mutant of Release: never destroyed. *)
ReleaseNever(c) == obj' = obj

(* c loses a shared_ptr: ~TcpConnection() and close() if it was the last.  *)
Release(c) ==
    obj' = IF c \in Conns /\ ~Held(c, connMap', items', hand')
           THEN [obj EXCEPT ![c] = "dead"] ELSE obj

-----------------------------------------------------------------------------
(* The IO thread: loop() and waitEpollfd(). *)

(* EPOLLIN, level-triggered: data, FIN or RST; a closed descriptor is silent. *)
ReadyConns ==
    {f \in watched : \E c \in Live : fd[c] = f /\ (inbox[c] > 0 \/ peer[c] = "gone")}

ReadyEvents ==
    ReadyConns \cup (IF backlog # << >> THEN {Listen} ELSE {})
               \cup (IF rung THEN {Eventfd} ELSE {})

(* epoll_wait() returns all that is ready; the timeout returns nothing. *)
EpollWait ==
    /\ down = "up"
    /\ ioAt = "wait"
    /\ ReadyEvents # {}
    /\ batch' = ReadyEvents
    /\ ioAt' = "batch"
    /\ UNCHANGED <<clientVars, netVars, connVars, running, bellVars, queueVars,
                   workAt, down>>

(* The for loop is over: back to epoll_wait(). *)
BatchDone ==
    /\ down = "up"
    /\ ioAt = "batch"
    /\ batch = {}
    /\ ioAt' = "wait"
    /\ UNCHANGED <<clientVars, netVars, connVars, batch, running, bellVars,
                   queueVars, workAt, down>>

Dispatch(e) ==
    /\ down = "up"
    /\ ioAt = "batch"
    /\ e \in batch
    /\ batch' = batch \ {e}

(***************************************************************************)
(* handleConnection(): accept, register, construct, insert, greet.  The    *)
(* assert on the insertion (line 136) ends the process when it fails.      *)
(***************************************************************************)
HandleConnection ==
    /\ Dispatch(Listen)
    /\ FreeFds # {}
    /\ LET c == Head(backlog)
           f == Lowest(FreeFds)
       IN  /\ watched' = watched \cup {f}
           /\ fd' = [fd EXCEPT ![c] = f]
           /\ obj' = [obj EXCEPT ![c] = "live"]
           /\ heirs' = [d \in Conns |-> IF obj[d] = "dead" THEN heirs[d] \cup {c}
                                        ELSE heirs[d]]
           /\ IF connMap[f] = NULL
              THEN /\ connMap' = [connMap EXCEPT ![f] = c]
                   /\ Write(c, c, FALSE)
              ELSE /\ down' = "assert"
                   /\ UNCHANGED <<connMap, replies, reset, strayed>>
    /\ backlog' = Tail(backlog)
    /\ UNCHANGED <<clientVars, inbox, ioAt, running, bellVars, queueVars, workAt>>

(* No descriptor left: accept() fails, and adding -1 to epoll exits. *)
AcceptFails ==
    /\ Dispatch(Listen)
    /\ FreeFds = {}
    /\ down' = "exit"
    /\ UNCHANGED <<clientVars, netVars, connVars, ioAt, running, bellVars,
                   queueVars, workAt>>

(* isConnectionClosed(): nothing to peek at, or no such socket. *)
IsConnectionClosed(f) == \A c \in Live : fd[c] = f => inbox[c] = 0

(* Mutant of HandleClose: erased, but still registered with epoll. *)
HandleCloseNoDel(f) ==
    /\ Dispatch(f)
    /\ IsConnectionClosed(f)
    /\ connMap[f] # NULL
    /\ connMap' = [connMap EXCEPT ![f] = NULL]
    /\ UNCHANGED <<watched, queueVars, down>>
    /\ Release(connMap[f])
    /\ UNCHANGED <<clientVars, netVars, fd, heirs, ioAt, running, bellVars, workAt>>

(* handleMessage() of a closed connection: deregister and erase it. *)
HandleClose(f) ==
    /\ Dispatch(f)
    /\ IsConnectionClosed(f)
    /\ IF connMap[f] = NULL                \* assert(it != connMap_.end())
       THEN down' = "assert" /\ UNCHANGED <<watched, connMap, obj, queueVars>>
       ELSE /\ watched' = watched \ {f}
            /\ connMap' = [connMap EXCEPT ![f] = NULL]
            /\ UNCHANGED <<queueVars, down>>
            /\ Release(connMap[f])
    /\ UNCHANGED <<clientVars, netVars, fd, heirs, ioAt, running, bellVars, workAt>>

(* handleMessage(), onMessage(): receive() a line, then addTask(). *)
HandleMessage(f) ==
    /\ version.pool
    /\ Dispatch(f)
    /\ ~IsConnectionClosed(f)
    /\ IF connMap[f] = NULL                \* assert(it != connMap_.end())
       THEN down' = "assert" /\ UNCHANGED <<inbox, ioAt, queueVars>>
       ELSE /\ inbox' = [inbox EXCEPT ![connMap[f]] = @ - 1]
            /\ TaskQ!Offer(io, connMap[f])
            /\ ioAt' = "addTask"
            /\ UNCHANGED down
    /\ UNCHANGED <<clientVars, backlog, replies, reset, strayed, connVars,
                   running, bellVars, workAt>>

(* onMessage() of v2 and v3: receive() a line, then send(). *)
HandleMessageNow(f) ==
    /\ ~version.pool
    /\ Dispatch(f)
    /\ ~IsConnectionClosed(f)
    /\ IF connMap[f] = NULL                \* assert(it != connMap_.end())
       THEN down' = "assert" /\ UNCHANGED <<inbox, replies, reset, strayed>>
       ELSE /\ inbox' = [inbox EXCEPT ![connMap[f]] = @ - 1]
            /\ Write(connMap[f], connMap[f], TRUE)
    /\ UNCHANGED <<clientVars, backlog, connVars, ioAt, running, bellVars,
                   queueVars, workAt>>

(* push() returns once the queue has room; the IO thread waits for it. *)
AddTask ==
    /\ down = "up"
    /\ ioAt = "addTask"
    /\ TaskQ!Put(io)
    /\ ioAt' = "batch"
    /\ UNCHANGED <<clientVars, netVars, connVars, batch, running, bellVars,
                   workAt, down>>

(* The eventfd: handleRead() takes the counter to zero. *)
HandleRead ==
    /\ Dispatch(Eventfd)
    /\ rung' = FALSE
    /\ ioAt' = "swap"
    /\ UNCHANGED <<clientVars, netVars, connVars, running, pending, queueVars,
                   workAt, down>>

(* doPendingFunctors(): the swap under the mutex, then one by one. *)
SwapFunctors ==
    /\ down = "up"
    /\ ioAt = "swap"
    /\ running' = pending
    /\ pending' = << >>
    /\ ioAt' = "functors"
    /\ UNCHANGED <<clientVars, netVars, connVars, batch, rung, queueVars,
                   workAt, down>>

(* Mutant of SendTargets: the descriptor is looked up when the reply is sent. *)
SendTargetsAnyone(c) == Live \cup {NULL}

(***************************************************************************)
(* A functor calls send() on its bare pointer.  If the object is destroyed *)
(* the descriptor is read from freed memory: it is the old number, which   *)
(* is closed or by now a later connection's, or whatever an object that    *)
(* was built in the same place has there.                                  *)
(***************************************************************************)
SendTargets(c) == IF c \in Live THEN {c} ELSE (heirs[c] \cap Live) \cup {NULL}

RunFunctor ==
    /\ down = "up"
    /\ ioAt = "functors"
    /\ running # << >>
    /\ \E d \in SendTargets(Head(running)) : Write(Head(running), d, TRUE)
    /\ running' = Tail(running)
    /\ UNCHANGED <<clientVars, backlog, inbox, connVars, batch, ioAt, bellVars,
                   queueVars, workAt>>

(* Mutant of FunctorsDone: handleRead() comes after doPendingFunctors(). *)
FunctorsDoneThenRead ==
    /\ down = "up"
    /\ ioAt = "functors"
    /\ running = << >>
    /\ ioAt' = "batch"
    /\ rung' = FALSE
    /\ UNCHANGED <<clientVars, netVars, connVars, batch, running, pending,
                   queueVars, workAt, down>>

FunctorsDone ==
    /\ down = "up"
    /\ ioAt = "functors"
    /\ running = << >>
    /\ ioAt' = "batch"
    /\ UNCHANGED <<clientVars, netVars, connVars, batch, running, bellVars,
                   queueVars, workAt, down>>

-----------------------------------------------------------------------------
(* A worker: threadFunc() of the pool and Task::process(). *)

(* The last iteration's Task is destroyed; pop() is called for the next. *)
GetTask(w) ==
    /\ version.pool
    /\ down = "up"
    /\ workAt[w] = "loop"
    /\ TaskQ!Ask(w)
    /\ workAt' = [workAt EXCEPT ![w] = "pop"]
    /\ UNCHANGED connMap
    /\ Release(hand[w])
    /\ UNCHANGED <<clientVars, netVars, fd, heirs, watched, loopVars, bellVars, down>>

TakeTask(w) ==
    /\ down = "up"
    /\ workAt[w] = "pop"
    /\ TaskQ!Take(w)
    /\ workAt' = [workAt EXCEPT ![w] = "process"]
    /\ UNCHANGED <<clientVars, netVars, connVars, loopVars, bellVars, down>>

(* sendInLoop(), runInLoop(): push the functor under the mutex ... *)
RunInLoop(w) ==
    /\ down = "up"
    /\ workAt[w] = "process"
    /\ pending' = Append(pending, hand[w])
    /\ workAt' = [workAt EXCEPT ![w] = "wakeup"]
    /\ UNCHANGED <<clientVars, netVars, connVars, loopVars, rung, queueVars, down>>

(* Mutant of Wakeup: the eventfd is not written. *)
WakeupForgotten(w) ==
    /\ down = "up"
    /\ workAt[w] = "wakeup"
    /\ workAt' = [workAt EXCEPT ![w] = "loop"]
    /\ UNCHANGED <<clientVars, netVars, connVars, loopVars, bellVars, queueVars, down>>

(* ... and wakeup() after it: the write adds one to the counter. *)
Wakeup(w) ==
    /\ down = "up"
    /\ workAt[w] = "wakeup"
    /\ rung' = TRUE
    /\ workAt' = [workAt EXCEPT ![w] = "loop"]
    /\ UNCHANGED <<clientVars, netVars, connVars, loopVars, pending, queueVars, down>>

-----------------------------------------------------------------------------
ClientStep(c) ==
    /\ UNCHANGED version
    /\ Connect(c) \/ SendLine(c) \/ Close(c)

IOStep ==
    /\ UNCHANGED version
    /\ \/ EpollWait \/ BatchDone \/ HandleConnection \/ AcceptFails
       \/ \E f \in Fds : HandleClose(f) \/ HandleMessage(f) \/ HandleMessageNow(f)
       \/ AddTask \/ HandleRead \/ SwapFunctors \/ RunFunctor \/ FunctorsDone

WorkerStep(w) ==
    /\ UNCHANGED version
    /\ GetTask(w) \/ TakeTask(w) \/ RunInLoop(w) \/ Wakeup(w)

Next ==
    \/ \E c \in Conns : ClientStep(c)
    \/ IOStep
    \/ \E w \in Workers : WorkerStep(w)

(* The threads are scheduled; clients do as they please. *)
Fairness == WF_vars(IOStep) /\ \A w \in Workers : WF_vars(WorkerStep(w))

Spec     == Init /\ [][Next]_vars
FairSpec == Spec /\ Fairness

-----------------------------------------------------------------------------
(* The value every variable may have. *)
TypeOK ==
    /\ version \in Versions
    /\ peer \in [Conns -> {"away", "here", "gone"}]
    /\ backlog \in Seq(Conns)
    /\ inbox \in [Conns -> 0..MaxLines]
    /\ sent \in [Conns -> 0..MaxLines]
    /\ replies \in [Conns -> Nat]
    /\ reset \in [Conns -> BOOLEAN]
    /\ strayed \subseteq Conns \X Conns
    /\ obj \in [Conns -> {"none", "live", "dead"}]
    /\ fd \in [Conns -> Fds \cup {NoFd}]
    /\ heirs \in [Conns -> SUBSET Conns]
    /\ connMap \in [Fds -> Conns \cup {NULL}]
    /\ watched \subseteq Fds
    /\ batch \subseteq Fds \cup {Listen, Eventfd}
    /\ ioAt \in {"wait", "batch", "addTask", "swap", "functors"}
    /\ pending \in Seq(Conns) /\ running \in Seq(Conns)
    /\ rung \in BOOLEAN
    /\ workAt \in [Workers -> {"loop", "pop", "process", "wakeup"}]
    /\ down \in {"up", "exit", "assert", "sigpipe"}

(***************************************************************************)
(* Other threads may close descriptors, and the kernel hands them out      *)
(* again, in the middle of a batch of events; yet connMap_, the kernel's   *)
(* table and epoll's registrations never disagree about a descriptor, and  *)
(* an event reported is one of a registered connection.                    *)
(* The variables also keep their types.                                    *)
(***************************************************************************)
DescriptorsAgree ==
    /\ TypeOK
    /\ \A c, d \in Live : fd[c] = fd[d] => c = d
    /\ \A f \in Fds :
        /\ f \in watched <=> connMap[f] # NULL
        /\ connMap[f] # NULL => connMap[f] \in Live /\ fd[connMap[f]] = f
    /\ \A f \in Fds : down = "up" /\ f \in batch => connMap[f] # NULL

(***************************************************************************)
(* A connection object exists exactly as long as somebody holds a          *)
(* shared_ptr to it: tasks in the queue and in the workers' hands never    *)
(* refer to a destroyed one, and none is leaked, descriptor and all.       *)
(***************************************************************************)
OwnershipSound == \A c \in Conns : c \in Live <=> Held(c, connMap, items, hand)

(***************************************************************************)
(* No wakeup is lost between runInLoop() and doPendingFunctors(): while    *)
(* functors are pending the eventfd is readable, or about to be written,   *)
(* or the IO thread is on its way to the swap.                             *)
(***************************************************************************)
PendingAnnounced ==
    pending # << >> => \/ rung
                       \/ \E w \in Workers : workAt[w] = "wakeup"
                       \/ ioAt = "swap"
                       \/ down # "up"

(***************************************************************************)
(* Both asserts of EpollPoller.cc (136, 147) hold.                         *)
(* The server ends by itself only when a client arrives and every          *)
(* descriptor belongs to a connection that still has an owner, or when it  *)
(* writes to a connection its client has reset.                            *)
(***************************************************************************)
KnownEndings ==
    /\ down # "assert"
    /\ down = "exit" => backlog # << >> /\ Cardinality(Live) = MaxFd
    /\ down = "sigpipe" => \E c \in Conns : reset[c] /\ peer[c] = "gone"

(***************************************************************************)
(* Every line a patient client sends is answered in the end: through the   *)
(* pool's queue, a worker, the functors and the eventfd.                   *)
(***************************************************************************)
EveryLineAnswered ==
    \A c \in Conns : sent[c] > replies[c] ~> replies[c] = sent[c]

(***************************************************************************)
(* A connection whose client closed is given up in the end: its object is  *)
(* destroyed and its descriptor is free again.                             *)
(***************************************************************************)
ClosedIsReclaimed ==
    \A c \in Conns : peer[c] = "gone" ~> (obj[c] = "dead" \/ down # "up")

(***************************************************************************)
(* A reply is only ever written to the connection its query came from: the *)
(* task holds that connection and answers on it (test_server.cc:21).       *)
(***************************************************************************)
RepliesReachTheirClient == strayed = {}

(***************************************************************************)
(* A reply goes astray only when its own client had closed before it was   *)
(* written, so a client that stays never loses one; and never without the  *)
(* pool, as the IO thread then replies on the connection it has read from. *)
(***************************************************************************)
StraysHaveLeft ==
    /\ \A s \in strayed : peer[s[1]] = "gone"
    /\ strayed # {} => version.pool

(* On the way through queue, worker and functor no line is answered twice. *)
RepliesEarned == \A c \in Conns : replies[c] <= sent[c]

StraysAreOfTheGone == StraysHaveLeft /\ RepliesEarned
=============================================================================
