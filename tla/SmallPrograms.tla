--------------------------- MODULE SmallPrograms ---------------------------
(***************************************************************************)
(* The small programs: productConsumer, the eventfd thread, the timer      *)
(* thread, pipes, the chat over two FIFOs, threads that count, children    *)
(* and alarms.  They share nothing; the initial state chooses one.         *)
(***************************************************************************)
EXTENDS ProducerConsumer

CONSTANTS
    MaxWakeups, MaxExpiries,                    \* eventfd and timer
    MaxLines,                                   \* the chat
    NUM_THREAD, Rounds,                         \* threads that count
    MaxKeys                                     \* alarms

VARIABLES
    program,
    isStarted, counter, sub, mainThread, sent, served,
    tStarted, armed, expired, tSub, tMain, ticks, tServed,
    piping, timely, calls, ends, pipe, heard, killed,
    chatPc, todo, fds, stdin, eof, typed, fifo, written, lines,
    counting, cMain, created, cPc, left, reg, num, holder, sem_one, sem_two, added,
    forking, cAt, kid, gval, pending, handling, merged, unset,
    alarming, aAt, asleep, handler, saved, aArmed, due, keys, asks, answer, replies, early, full, called

E == INSTANCE EventfdThread WITH main <- mainThread

T == INSTANCE TimerThread WITH isStarted <- tStarted, sub <- tSub, main <- tMain, served <- tServed

P == INSTANCE Pipes WITH program <- piping, at <- calls

F == INSTANCE FifoChat WITH pc <- chatPc, heard <- lines

N == INSTANCE Counters WITH prog <- counting, main <- cMain, pc <- cPc

K == INSTANCE Children WITH prog <- forking, at <- cAt

A == INSTANCE Alarms WITH prog <- alarming, at <- aAt, armed <- aArmed, stdin <- answer

ASSUME ProgramsAssumption ==
    /\ MaxWakeups \in Nat /\ MaxExpiries \in Nat
    /\ N!CountersAssumption

eventfd   == <<isStarted, counter, sub, mainThread, sent, served>>
timer     == <<tStarted, armed, expired, tSub, tMain, ticks, tServed>>
pipes     == <<piping, timely, calls, ends, pipe, heard, killed>>
fifoChat  == <<chatPc, todo, fds, stdin, eof, typed, fifo, written, lines>>
counters  == <<counting, cMain, created, cPc, left, reg, num, holder, sem_one, sem_two, added>>
children  == <<forking, cAt, kid, gval, pending, handling, merged, unset>>
alarms    == <<alarming, aAt, asleep, handler, saved, aArmed, due, keys, asks, answer, replies, early, full, called>>

allVars == <<program, vars, eventfd, timer, pipes, fifoChat, counters, children, alarms>>

ProgramsInit ==
    /\ program \in {"productConsumer", "eventfd", "timer", "pipes", "fifoChat", "counters", "children", "alarms"}
    /\ Init /\ E!Init /\ T!Init /\ P!Init /\ F!Init /\ N!Init /\ K!Init /\ A!Init
    /\ program # "eventfd" => ~isStarted
    /\ program # "timer" => ~tStarted
    /\ program # "pipes" => piping = P!pipe1 /\ timely
    /\ program # "counters" => counting = N!mutex
    /\ program # "children" => forking = K!fork
    /\ program # "alarms" => alarming = A!signal

ProgramsNext ==
    /\ UNCHANGED program
    /\ \/ program = "productConsumer" /\ Next /\ UNCHANGED <<eventfd, timer, pipes, fifoChat, counters, children, alarms>>
       \/ program = "eventfd" /\ E!Next
          /\ UNCHANGED <<vars, timer, pipes, fifoChat, counters, children, alarms>>
       \/ program = "timer" /\ T!Next
          /\ UNCHANGED <<vars, eventfd, pipes, fifoChat, counters, children, alarms>>
       \/ program = "pipes" /\ P!Next
          /\ UNCHANGED <<vars, eventfd, timer, fifoChat, counters, children, alarms>>
       \/ program = "fifoChat" /\ F!Next
          /\ UNCHANGED <<vars, eventfd, timer, pipes, counters, children, alarms>>
       \/ program = "counters" /\ N!Next
          /\ UNCHANGED <<vars, eventfd, timer, pipes, fifoChat, children, alarms>>
       \/ program = "children" /\ K!Next
          /\ UNCHANGED <<vars, eventfd, timer, pipes, fifoChat, counters, alarms>>
       \/ program = "alarms" /\ A!Next
          /\ UNCHANGED <<vars, eventfd, timer, pipes, fifoChat, counters, children>>

(* The fairness of the program that runs: its own, with its name added to  *)
(* each action.                                                            *)
ProgramsSpec ==
    /\ ProgramsInit /\ [][ProgramsNext]_allVars
    /\ WF_vars(program = "productConsumer" /\ MainStep)
    /\ \A p \in Producers : WF_vars(program = "productConsumer" /\ ProducerStep(p))
    /\ \A c \in Consumers : WF_vars(program = "productConsumer" /\ ConsumerStep(c))
    /\ WF_eventfd(program = "eventfd" /\ E!SubStep)
    /\ WF_eventfd(program = "eventfd" /\ E!Join)
    /\ WF_timer(program = "timer" /\ T!SubStep)
    /\ WF_timer(program = "timer" /\ T!MainStep)
    /\ \A p \in P!Procs : WF_pipes(program = "pipes" /\ P!Step(p))
    /\ WF_fifoChat(program = "fifoChat" /\ F!Opens)
    /\ WF_fifoChat(program = "fifoChat" /\ F!a_loop)
    /\ WF_fifoChat(program = "fifoChat" /\ F!b_loop)
    /\ WF_counters(program = "counters" /\ N!MainStep)
    /\ \A t \in N!Threads : WF_counters(program = "counters" /\ N!ThreadStep(t))
    /\ WF_children(program = "children" /\ K!ParentStep)
    /\ \A k \in K!Kids : WF_children(program = "children" /\ K!ChildEnds(k))
    /\ WF_alarms(program = "alarms" /\ A!Calls)
    /\ WF_alarms(program = "alarms" /\ A!HandleAlarm)
    /\ WF_alarms(program = "alarms" /\ A!Expire)

(***************************************************************************)
(* productConsumer, eventfd, timer: they keep their types; the products of *)
(* one producer reach each consumer in order; the counters of eventfd and  *)
(* timerfd account for all that was signalled, so a blocking read() is     *)
(* entered only when there is something to read, or stop() has disarmed    *)
(* the timer.                                                              *)
(***************************************************************************)
NothingForgotten ==
    /\ TypeOK /\ E!TypeOK /\ T!TypeOK
    /\ OrderKept
    /\ E!NoWakeupForgotten /\ T!ReadBlocksOnlyDisarmed /\ T!NoExpiryForgotten

(***************************************************************************)
(* Processes and threads of one machine: a message through a pipe reaches  *)
(* the other process, lines through FIFOs arrive in order, the sums of the *)
(* threads are right or wrong by a known amount, zombies are those of      *)
(* merged signals, and signals cut every sleep short (see Pipes, FifoChat, *)
(* Counters, Children and Alarms).                                         *)
(***************************************************************************)
OneMachineSafe ==
    /\ P!OneAnswerEach
    /\ F!LinesConserved
    /\ N!ResultsKnown
    /\ K!ChildrenAccountedFor
    /\ A!SleepsInterrupted

(* The program that was chosen comes to its end (or, of the chat, begins). *)
(* The eventfd and the timer thread only end when they are stopped.        *)
Arrived ==
    /\ program = "productConsumer" => main = "ended"
    /\ program = "pipes" => P!BothOver
    /\ program = "fifoChat" => F!Begun
    /\ program = "counters" => cMain = "ended"
    /\ program = "children" => K!NoneLeft
    /\ program = "alarms" => A!Ended

(***************************************************************************)
(* No program waits for ever: threads, children and clients end and are    *)
(* joined or collected; a callback follows each signal before stop();      *)
(* stop() of a thread that has begun returns; and who chats notices that   *)
(* the other has left.                                                     *)
(***************************************************************************)
NobodyStuck ==
    /\ <>Arrived
    /\ E!WakeupIsServed /\ T!ExpiryIsServed
    /\ E!StopReturnsOnceBegun /\ T!StopReturnsUnlessRobbed
    /\ F!OtherNotices
=============================================================================
