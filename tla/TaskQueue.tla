----------------------------- MODULE TaskQueue -----------------------------
(***************************************************************************)
(* The bounded task queue of tcp/tcpCPP/v5 (TaskQueue.cc): one mutex, two  *)
(* condition variables, a std::queue and the flag _flag that wakeup()      *)
(* clears.                                                                 *)
(*                                                                         *)
(* push() and pop() hold the mutex from their first line to their return,  *)
(* except while they wait; wakeup() takes no lock at all.  So the steps of *)
(* push() that only touch what the mutex guards are one action, and pop()  *)
(* is cut between each read of _flag and what it does next, where          *)
(* wakeup() may come in.                                                   *)
(***************************************************************************)
EXTENDS Naturals, Sequences, FiniteSets

CONSTANTS
    Threads,    \* the threads that call the queue
    Tasks,      \* the products: std::function objects
    QueSize,    \* _queSize
    NULL        \* the empty std::function; also "no thread holds the mutex"

ASSUME QueSizeAssumption == QueSize \in Nat \ {0}
ASSUME NULLAssumption    == NULL \notin Threads /\ NULL \notin Tasks
ASSUME ThreadsAssumption == IsFiniteSet(Threads)

VARIABLES
    mutex,      \* the thread that holds _mutex, or NULL
    que,        \* _que
    flag,       \* _flag
    notFull,    \* the threads blocked in _notFull.wait()
    notEmpty,   \* the threads blocked in _notEmpty.wait()
    op,         \* where each thread is inside the queue
    slot        \* what each thread passes to push() or got from pop()

vars == <<mutex, que, flag, notFull, notEmpty, op, slot>>

(***************************************************************************)
(* op[t] = "push" and "pop": t is about to take the mutex, for the first   *)
(* time or because its wait() returned; it may also still be asleep in a   *)
(* wait set.                                                               *)
(***************************************************************************)
PushOps     == {"push", "pushTest"}
PopOps      == {"pop", "popTest", "popSleep", "popTake", "popNull"}
LockedOps   == {"pushTest", "popTest", "popSleep", "popTake", "popNull"}
Ops         == {"out", "wakeup", "notifyall"} \cup PushOps \cup PopOps

full  == Len(que) = QueSize
empty == que = << >>

(* Mutant of Notified: the signal is forgotten. *)
NobodyNotified(sleepers) == {sleepers}

(* pthread_cond_signal: wakes one of the sleepers, if there is one. *)
Notified(sleepers) ==
    IF sleepers = {} THEN {{}} ELSE {sleepers \ {t} : t \in sleepers}

Asleep == notFull \cup notEmpty

Goto(t, label) == op' = [op EXCEPT ![t] = label]

(* _mutex, taken and given back by the MutexLockGuard. *)
Lock(t) == mutex = NULL /\ mutex' = t
Unlock  == mutex' = NULL

Init ==
    /\ mutex = NULL
    /\ que = << >>
    /\ flag = TRUE
    /\ notFull = {}
    /\ notEmpty = {}
    /\ op = [t \in Threads |-> "out"]
    /\ slot = [t \in Threads |-> NULL]

-----------------------------------------------------------------------------
(* Calls from the code that uses the queue. *)

CallPush(t, p) ==
    /\ op[t] = "out"
    /\ Goto(t, "push")
    /\ slot' = [slot EXCEPT ![t] = p]
    /\ UNCHANGED <<mutex, que, flag, notFull, notEmpty>>

CallPop(t) ==
    /\ op[t] = "out"
    /\ Goto(t, "pop")
    /\ slot' = [slot EXCEPT ![t] = NULL]
    /\ UNCHANGED <<mutex, que, flag, notFull, notEmpty>>

CallWakeup(t) ==
    /\ op[t] = "out"
    /\ Goto(t, "wakeup")
    /\ UNCHANGED <<mutex, que, flag, notFull, notEmpty, slot>>

(* The caller lets go of the std::function that pop() returned. *)
Discard(t) ==
    /\ op[t] = "out"
    /\ slot' = [slot EXCEPT ![t] = NULL]
    /\ UNCHANGED <<mutex, que, flag, notFull, notEmpty, op>>

-----------------------------------------------------------------------------
(* push() *)

(* The MutexLockGuard, or the return from _notFull.wait(). *)
PushLock(t) ==
    /\ op[t] = "push"
    /\ t \notin notFull
    /\ Lock(t)
    /\ Goto(t, "pushTest")
    /\ UNCHANGED <<que, flag, notFull, notEmpty, slot>>

(* Mutant of PushWait: the product is moved away before the wait. *)
PushWaitMoved(t) ==
    /\ op[t] = "pushTest"
    /\ full
    /\ notFull' = notFull \cup {t}
    /\ Unlock
    /\ slot' = [slot EXCEPT ![t] = NULL]
    /\ Goto(t, "push")
    /\ UNCHANGED <<que, flag, notEmpty>>

PushWait(t) ==
    /\ op[t] = "pushTest"
    /\ full
    /\ notFull' = notFull \cup {t}
    /\ Unlock
    /\ Goto(t, "push")
    /\ UNCHANGED <<que, flag, notEmpty, slot>>

(* Mutant of PushStore: notifies only when the queue was empty. *)
PushStoreFirstOnly(t) ==
    /\ op[t] = "pushTest"
    /\ ~full
    /\ que' = Append(que, slot[t])
    /\ notEmpty' \in IF empty THEN Notified(notEmpty) ELSE {notEmpty}
    /\ Unlock
    /\ slot' = [slot EXCEPT ![t] = NULL]
    /\ Goto(t, "out")
    /\ UNCHANGED <<flag, notFull>>

PushStore(t) ==
    /\ op[t] = "pushTest"
    /\ ~full
    /\ que' = Append(que, slot[t])
    /\ notEmpty' \in Notified(notEmpty)
    /\ Unlock
    /\ slot' = [slot EXCEPT ![t] = NULL]
    /\ Goto(t, "out")
    /\ UNCHANGED <<flag, notFull>>

-----------------------------------------------------------------------------
(* pop() *)

PopLock(t) ==
    /\ op[t] = "pop"
    /\ t \notin notEmpty
    /\ Lock(t)
    /\ Goto(t, "popTest")
    /\ UNCHANGED <<que, flag, notFull, notEmpty, slot>>

(* Mutant of PopTest: an if that looks at _flag only. *)
PopTestFlagOnly(t) ==
    /\ op[t] = "popTest"
    /\ Goto(t, IF flag THEN "popTake" ELSE "popNull")
    /\ UNCHANGED <<mutex, que, flag, notFull, notEmpty, slot>>

(* The condition of the while; what follows it is decided by this read. *)
PopTest(t) ==
    /\ op[t] = "popTest"
    /\ \/ flag /\ empty  /\ Goto(t, "popSleep")
       \/ flag /\ ~empty /\ Goto(t, "popTake")
       \/ ~flag          /\ Goto(t, "popNull")
    /\ UNCHANGED <<mutex, que, flag, notFull, notEmpty, slot>>

PopWait(t) ==
    /\ op[t] = "popSleep"
    /\ notEmpty' = notEmpty \cup {t}
    /\ Unlock
    /\ Goto(t, "pop")
    /\ UNCHANGED <<que, flag, notFull, slot>>

(* Mutant of PopTake: notifies only when the queue was full. *)
PopTakeFirstOnly(t) ==
    /\ op[t] = "popTake"
    /\ slot' = [slot EXCEPT ![t] = Head(que)]
    /\ que' = Tail(que)
    /\ notFull' \in IF full THEN Notified(notFull) ELSE {notFull}
    /\ Unlock
    /\ Goto(t, "out")
    /\ UNCHANGED <<flag, notEmpty>>

(* Mutant of PopTake: front() without pop(). *)
PopTakeKeeps(t) ==
    /\ op[t] = "popTake"
    /\ slot' = [slot EXCEPT ![t] = Head(que)]
    /\ notFull' \in Notified(notFull)
    /\ Unlock
    /\ Goto(t, "out")
    /\ UNCHANGED <<que, flag, notEmpty>>

(***************************************************************************)
(* if(_flag): a second, unsynchronised read.  The compiler may reuse the   *)
(* value the loop condition read, so a thread that saw TRUE there takes a  *)
(* product even if _flag is FALSE by now, or sees the new value and        *)
(* returns NULL (PopNull).                                                 *)
(***************************************************************************)
PopTake(t) ==
    /\ op[t] = "popTake"
    /\ slot' = [slot EXCEPT ![t] = Head(que)]
    /\ que' = Tail(que)
    /\ notFull' \in Notified(notFull)
    /\ Unlock
    /\ Goto(t, "out")
    /\ UNCHANGED <<flag, notEmpty>>

PopNull(t) ==
    /\ \/ op[t] = "popNull"
       \/ op[t] = "popTake" /\ ~flag
    /\ Unlock
    /\ Goto(t, "out")
    /\ UNCHANGED <<que, flag, notFull, notEmpty, slot>>

(* pthread_cond_wait may return with nobody having signalled. *)
SpuriousWakeup(t) ==
    /\ t \in Asleep
    /\ notFull' = notFull \ {t}
    /\ notEmpty' = notEmpty \ {t}
    /\ UNCHANGED <<mutex, que, flag, op, slot>>

-----------------------------------------------------------------------------
(* wakeup(): two steps, neither of them under the mutex. *)

ClearFlag(t) ==
    /\ op[t] = "wakeup"
    /\ flag' = FALSE
    /\ Goto(t, "notifyall")
    /\ UNCHANGED <<mutex, que, notFull, notEmpty, slot>>

(* Mutant of NotifyAll: notify() instead of notifyall(). *)
NotifyAllOne(t) ==
    /\ op[t] = "notifyall"
    /\ notEmpty' \in Notified(notEmpty)
    /\ Goto(t, "out")
    /\ UNCHANGED <<mutex, que, flag, notFull, slot>>

NotifyAll(t) ==
    /\ op[t] = "notifyall"
    /\ notEmpty' = {}
    /\ Goto(t, "out")
    /\ UNCHANGED <<mutex, que, flag, notFull, slot>>

-----------------------------------------------------------------------------
(* The steps a thread takes by itself once it is inside the queue. *)
Step(t) ==
    \/ PushLock(t) \/ PushWait(t) \/ PushStore(t)
    \/ PopLock(t) \/ PopTest(t) \/ PopWait(t) \/ PopTake(t) \/ PopNull(t)
    \/ ClearFlag(t) \/ NotifyAll(t)

Next ==
    \E t \in Threads :
        \/ \E p \in Tasks : CallPush(t, p)
        \/ CallPop(t)
        \/ CallWakeup(t)
        \/ Discard(t)
        \/ SpuriousWakeup(t)
        \/ Step(t)

Spec == Init /\ [][Next]_vars

-----------------------------------------------------------------------------
(* The values the variables may have; push() always has a product to store. *)
TypeOK ==
    /\ mutex \in Threads \cup {NULL}
    /\ que \in Seq(Tasks)
    /\ flag \in BOOLEAN
    /\ notFull \subseteq Threads
    /\ notEmpty \subseteq Threads
    /\ op \in [Threads -> Ops]
    /\ slot \in [Threads -> Tasks \cup {NULL}]
    /\ \A t \in Threads : op[t] \in PushOps => slot[t] \in Tasks

(***************************************************************************)
(* A thread is between the lock and the unlock of push() or pop() exactly  *)
(* when it holds the mutex; so no two threads are there at once, and none  *)
(* of the returns, waits and early exits leaves the mutex locked.          *)
(***************************************************************************)
LockDiscipline == \A t \in Threads : mutex = t <=> op[t] \in LockedOps

(* push() never grows the queue past _queSize, whoever wakes up spuriously. *)
CapacityRespected == Len(que) <= QueSize

(***************************************************************************)
(* What made pop() leave its loop still holds when it acts, although other *)
(* threads run and _flag is read again in between: _que.front() is never   *)
(* reached with an empty queue, and NULL is returned only after wakeup().  *)
(***************************************************************************)
ExitConditionStands ==
    \A t \in Threads :
        /\ op[t] = "popTake" => ~empty
        /\ op[t] = "popNull" => ~flag

(***************************************************************************)
(* A thread that sleeps in pop() or has decided to is there because the    *)
(* queue was empty, and one in push() because it was full: threads sit in  *)
(* the wait set of the operation they are in.                              *)
(***************************************************************************)
SleepersInPlace ==
    /\ \A t \in notEmpty : op[t] = "pop"
    /\ \A t \in notFull  : op[t] = "push"
    /\ \A t \in Threads  : op[t] = "popSleep" => empty

AwakePoppers == {t \in Threads : op[t] \in PopOps /\ t \notin notEmpty}
AwakePushers == {t \in Threads : op[t] \in PushOps /\ t \notin notFull}

(***************************************************************************)
(* One signal per product is enough: while a thread sleeps on _notEmpty,   *)
(* every queued product has a thread awake in pop() to fetch it.           *)
(***************************************************************************)
NoProductWithoutPopper ==
    flag /\ notEmpty # {} => Len(que) <= Cardinality(AwakePoppers)

(***************************************************************************)
(* Likewise for push(): while a thread sleeps on _notFull, every free      *)
(* place has a thread awake in push() that may fill it.  A signal that a   *)
(* faster thread makes useless is never one too few.                       *)
(***************************************************************************)
NoPlaceWithoutPusher ==
    notFull # {} => QueSize - Len(que) <= Cardinality(AwakePushers)

(***************************************************************************)
(* One notify() per push() and per pop() is never one too few.             *)
(***************************************************************************)
SignalsSuffice == NoProductWithoutPopper /\ NoPlaceWithoutPusher

-----------------------------------------------------------------------------
(* What a caller of the queue is waiting for. *)
ModeOf(label) ==
    IF label \in PushOps THEN "putting"
    ELSE IF label \in PopOps THEN "taking" ELSE "idle"

BQ == INSTANCE BoundedQueue WITH
        Clients  <- Threads,
        Items    <- Tasks,
        Capacity <- QueSize,
        items    <- que,
        open     <- flag,
        mode     <- [t \in Threads |-> ModeOf(op[t])],
        hand     <- slot

(***************************************************************************)
(* The queue with its mutex, condition variables and racy wakeup() is an   *)
(* atomic FIFO queue: a product taken is the oldest one, goes to one       *)
(* popper only, and pop() returns NULL only after wakeup() cleared _flag.  *)
(***************************************************************************)
ImplementsBoundedQueue == BQ!Spec
=============================================================================
