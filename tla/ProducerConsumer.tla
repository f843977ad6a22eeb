-------------------------- MODULE ProducerConsumer --------------------------
(***************************************************************************)
(* productConsumer: producers push and consumers pop a fixed number of     *)
(* products each through a bounded queue made of one mutex and two         *)
(* condition variables; main starts all threads and joins them.            *)
(*                                                                         *)
(* pushProduct() and popProduct() hold the mutex from their first line to  *)
(* their last except while they wait, and nothing is read outside of it,   *)
(* so one action runs from taking the mutex to the wait or the return.     *)
(***************************************************************************)
EXTENDS Naturals, Sequences, FiniteSets

CONSTANTS
    Producers, Consumers,   \* the threads
    Loops,                  \* rounds of each thread: cnt, 5 in the code
    QueSize,                \* _queSize, 10 in the code
    NULL                    \* no product

Threads  == Producers \cup Consumers
Products == Producers \X (1..Loops)

ASSUME QueSizeAssumption == QueSize \in Nat \ {0}
ASSUME LoopsAssumption   == Loops \in Nat \ {0}
ASSUME ThreadsAssumption ==
    /\ IsFiniteSet(Threads)
    /\ Producers \cap Consumers = {}
    /\ Cardinality(Producers) = Cardinality(Consumers)
ASSUME NULLAssumption    == NULL \notin Products

VARIABLES
    que,        \* _que
    notFull,    \* the threads blocked in _condNotFull.condWait()
    notEmpty,   \* the threads blocked in _condNotEmpty.condWait()
    pc,         \* where each thread is
    cnt,        \* rounds each thread has left
    product,    \* the local variable product of each thread
    received,   \* what each consumer has popped, in order
    main        \* what main() is doing

vars == <<que, notFull, notEmpty, pc, cnt, product, received, main>>

isEmpty == que = << >>

isFull  == Len(que) = QueSize

Awake(t) == t \notin notFull \cup notEmpty

(* pthread_cond_signal wakes one of the sleepers, if there is one. *)
Notified(sleepers) ==
    IF sleepers = {} THEN {{}} ELSE {sleepers \ {t} : t \in sleepers}

Init ==
    /\ que = << >>
    /\ notFull = {}
    /\ notEmpty = {}
    /\ pc = [t \in Threads |-> "unborn"]
    /\ cnt = [t \in Threads |-> Loops]
    /\ product = [t \in Threads |-> NULL]
    /\ received = [c \in Consumers |-> << >>]
    /\ main = "starting"

-----------------------------------------------------------------------------
(* main() and Thread. *)

StartThread(t) ==
    /\ main = "starting"
    /\ pc[t] = "unborn"
    /\ pc' = [pc EXCEPT ![t] = "loop"]
    /\ main' = IF \A u \in Threads \ {t} : pc[u] # "unborn"
                 THEN "joinProducers" ELSE "starting"
    /\ UNCHANGED <<que, notFull, notEmpty, cnt, product, received>>

JoinThreads(group, from, to) ==
    /\ main = from
    /\ \A t \in group : pc[t] = "done"
    /\ main' = to
    /\ UNCHANGED <<que, notFull, notEmpty, pc, cnt, product, received>>

-----------------------------------------------------------------------------
(* Producer::run(), Consumer::run(): while (cnt--). *)

LeaveLoop(t) ==
    /\ pc[t] = "loop"
    /\ cnt[t] = 0
    /\ pc' = [pc EXCEPT ![t] = "done"]
    /\ UNCHANGED <<que, notFull, notEmpty, cnt, product, received, main>>

Produce(p) ==
    /\ pc[p] = "loop"
    /\ cnt[p] > 0
    /\ cnt' = [cnt EXCEPT ![p] = @ - 1]
    /\ product' = [product EXCEPT ![p] = <<p, cnt[p]>>]
    /\ pc' = [pc EXCEPT ![p] = "push"]
    /\ UNCHANGED <<que, notFull, notEmpty, received, main>>

Consume(c) ==
    /\ pc[c] = "loop"
    /\ cnt[c] > 0
    /\ cnt' = [cnt EXCEPT ![c] = @ - 1]
    /\ product' = [product EXCEPT ![c] = NULL]
    /\ pc' = [pc EXCEPT ![c] = "pop"]
    /\ UNCHANGED <<que, notFull, notEmpty, received, main>>

-----------------------------------------------------------------------------
(* TaskQueue::pushProduct(), TaskQueue::popProduct(). *)

PushWait(p) ==
    /\ pc[p] = "push" /\ Awake(p)
    /\ isFull
    /\ notFull' = notFull \cup {p}
    /\ UNCHANGED <<que, notEmpty, pc, cnt, product, received, main>>

PushStore(p) ==
    /\ pc[p] = "push" /\ Awake(p)
    /\ ~isFull
    /\ que' = Append(que, product[p])
    /\ notEmpty' \in Notified(notEmpty)
    /\ pc' = [pc EXCEPT ![p] = "loop"]
    /\ product' = [product EXCEPT ![p] = NULL]
    /\ UNCHANGED <<notFull, cnt, received, main>>

PopWait(c) ==
    /\ pc[c] = "pop" /\ Awake(c)
    /\ isEmpty
    /\ notEmpty' = notEmpty \cup {c}
    /\ UNCHANGED <<que, notFull, pc, cnt, product, received, main>>

(* Mutant of PopTake: copies the front and does not pop it. *)
PopTakeKeeps(c) ==
    /\ pc[c] = "pop" /\ Awake(c)
    /\ ~isEmpty
    /\ product' = [product EXCEPT ![c] = Head(que)]
    /\ received' = [received EXCEPT ![c] = Append(@, Head(que))]
    /\ notFull' \in Notified(notFull)
    /\ pc' = [pc EXCEPT ![c] = "loop"]
    /\ UNCHANGED <<que, notEmpty, cnt, main>>

(* Mutant of PopTake: signals the other condition variable. *)
PopTakeSignalsNotEmpty(c) ==
    /\ pc[c] = "pop" /\ Awake(c)
    /\ ~isEmpty
    /\ product' = [product EXCEPT ![c] = Head(que)]
    /\ received' = [received EXCEPT ![c] = Append(@, Head(que))]
    /\ que' = Tail(que)
    /\ notEmpty' \in Notified(notEmpty)
    /\ pc' = [pc EXCEPT ![c] = "loop"]
    /\ UNCHANGED <<notFull, cnt, main>>

PopTake(c) ==
    /\ pc[c] = "pop" /\ Awake(c)
    /\ ~isEmpty
    /\ product' = [product EXCEPT ![c] = Head(que)]
    /\ received' = [received EXCEPT ![c] = Append(@, Head(que))]
    /\ que' = Tail(que)
    /\ notFull' \in Notified(notFull)
    /\ pc' = [pc EXCEPT ![c] = "loop"]
    /\ UNCHANGED <<notEmpty, cnt, main>>

(* condWait() may return although nobody signalled. *)
SpuriousWakeup(t) ==
    /\ ~Awake(t)
    /\ notFull' = notFull \ {t}
    /\ notEmpty' = notEmpty \ {t}
    /\ UNCHANGED <<que, pc, cnt, product, received, main>>

-----------------------------------------------------------------------------
ProducerStep(p) == LeaveLoop(p) \/ Produce(p) \/ PushWait(p) \/ PushStore(p)

ConsumerStep(c) == LeaveLoop(c) \/ Consume(c) \/ PopWait(c) \/ PopTake(c)

MainStep ==
    \/ \E t \in Threads : StartThread(t)
    \/ JoinThreads(Producers, "joinProducers", "joinConsumers")
    \/ JoinThreads(Consumers, "joinConsumers", "ended")

Next ==
    \/ MainStep
    \/ \E p \in Producers : ProducerStep(p)
    \/ \E c \in Consumers : ConsumerStep(c)
    \/ \E t \in Threads : SpuriousWakeup(t)

(* Every thread is scheduled and gets the mutex in the end. *)
Fairness ==
    /\ WF_vars(MainStep)
    /\ \A p \in Producers : WF_vars(ProducerStep(p))
    /\ \A c \in Consumers : WF_vars(ConsumerStep(c))

Spec == Init /\ [][Next]_vars /\ Fairness

-----------------------------------------------------------------------------
(* The value every variable may have. *)
TypeOK ==
    /\ que \in Seq(Products) /\ Len(que) <= QueSize
    /\ notFull \subseteq Producers
    /\ notEmpty \subseteq Consumers
    /\ pc \in [Threads -> {"unborn", "loop", "push", "pop", "done"}]
    /\ cnt \in [Threads -> 0..Loops]
    /\ product \in [Threads -> Products \cup {NULL}]
    /\ received \in [Consumers -> Seq(Products)]
    /\ main \in {"starting", "joinProducers", "joinConsumers", "ended"}

(***************************************************************************)
(* The products of one producer reach each consumer in the order in which  *)
(* run() made them (cnt counts down), whoever else pops in between.        *)
(***************************************************************************)
OrderKept ==
    \A c \in Consumers : \A i, j \in 1..Len(received[c]) :
        i < j /\ received[c][i][1] = received[c][j][1]
            => received[c][i][2] > received[c][j][2]

(***************************************************************************)
(* One condSignal() per product and per place is enough even with spurious *)
(* wakeups and several threads on each side: all threads end and are       *)
(* joined.                                                                 *)
(***************************************************************************)
AllJoined == <>(main = "ended")

(* The queue as its callers see it: pushes and pops are atomic and FIFO. *)
BQ == INSTANCE BoundedQueue WITH
        Clients  <- Threads,
        Items    <- Products,
        Capacity <- QueSize,
        items    <- que,
        open     <- TRUE,
        mode     <- [t \in Threads |-> IF pc[t] = "push" THEN "putting"
                                       ELSE IF pc[t] = "pop" THEN "taking" ELSE "idle"],
        hand     <- product

(***************************************************************************)
(* TaskQueue implements the atomic bounded FIFO queue: it never holds more *)
(* than _queSize products, and each product goes to one consumer.          *)
(***************************************************************************)
ImplementsBoundedQueue == BQ!Spec
=============================================================================
