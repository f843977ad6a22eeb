------------------------------ MODULE Counters ------------------------------
(***************************************************************************)
(* The programs of TCP-IP-NetworkNote/ch18 whose threads share a variable: *)
(* thread3.c and thread4.c without a lock, mutex.c with one, semaphore.c   *)
(* with two semaphores; and thread1.c and thread2.c, whose main() sleeps   *)
(* or joins.                                                               *)
(*                                                                         *)
(* Each thread has a sequence of numbers to add.  num += x is a load and a *)
(* store, and a compiler may add several numbers in between.               *)
(***************************************************************************)
EXTENDS Integers, Sequences, SequencesExt, FiniteSetsExt

CONSTANTS
    NUM_THREAD,     \* threads of mutex.c and thread4.c, 100 in the code
    Rounds          \* times a thread adds, 50000000 in the code; 5 elsewhere

(* To be assumed where the constants get their values. *)
CountersAssumption == NUM_THREAD \in Nat \ {0, 1} /\ Rounds \in Nat \ {0}

mutex == "mutex"
semaphore == "semaphore"
thread1 == "thread1"
thread2 == "thread2"
thread3 == "thread3"
thread4 == "thread4"
Programs == {mutex, semaphore, thread1, thread2, thread3, thread4}

Threads == 1 .. NUM_THREAD

VARIABLES
    prog,
    main,       \* "create", "wait" (sleep or join), "ended"
    created,    \* threads created so far
    pc,         \* where each thread is
    left,       \* the numbers each thread has still to add
    reg,        \* what it has loaded
    num,        \* the shared variable
    holder,     \* who has the mutex, or 0
    sem_one, sem_two,
    added       \* what accu() has added

threadVars == <<pc, left, reg, num, holder, sem_one, sem_two, added>>
vars == <<prog, main, created, threadVars>>

(* Thread i + 1 of the code's i. *)
Used == IF prog \in {mutex, thread4} THEN Threads ELSE IF prog \in {thread1, thread2} THEN {1} ELSE {1, 2}

(* thread_des() for even i, thread_inc() for odd i. *)
thread_inc == [k \in 1 .. Rounds |-> 1]
thread_des == [k \in 1 .. Rounds |-> -1]
(* thread_summation(): two ranges, one behind the other. *)
thread_summation(t) == [k \in 1 .. Rounds |-> (t - 1) * Rounds + k]

Numbers(p, t) ==
    IF p \in {mutex, thread4} THEN IF t % 2 = 0 THEN thread_inc ELSE thread_des
    ELSE IF p = thread3 THEN thread_summation(t)
    ELSE [k \in 1 .. Rounds |-> k]

Sum(s) ==
    LET sum[n \in 0 .. Len(s)] == IF n = 0 THEN 0 ELSE sum[n - 1] + s[n]
    IN  sum[Len(s)]

Init ==
    /\ prog \in Programs
    /\ main = "create"
    /\ created = 0
    /\ pc = [t \in Threads |-> "unborn"]
    /\ left = [t \in Threads |-> Numbers(prog, t)]
    /\ reg = [t \in Threads |-> 0]
    /\ num = 0
    /\ holder = 0
    /\ sem_one = 0
    /\ sem_two = 1
    /\ added = << >>

-----------------------------------------------------------------------------
(* main(). *)

Create ==
    /\ main = "create"
    /\ created' = created + 1
    /\ pc' = [pc EXCEPT ![created + 1] = "begin"]
    /\ main' = IF created + 1 = Max(Used) THEN "wait" ELSE "create"
    /\ UNCHANGED <<prog, left, reg, num, holder, sem_one, sem_two, added>>

(* The joins; thread1.c only sleeps, and its end takes the thread along. *)
End ==
    /\ main = "wait"
    /\ prog = thread1 \/ \A t \in Used : pc[t] = "done"
    /\ main' = "ended"
    /\ pc' = [t \in Threads |-> IF t \in Used THEN "done" ELSE pc[t]]
    /\ UNCHANGED <<prog, created, left, reg, num, holder, sem_one, sem_two, added>>

-----------------------------------------------------------------------------
(* The threads. *)

Go(t, to) == pc' = [pc EXCEPT ![t] = to]

(* Mutant of Enter: pthread_mutex_lock() forgotten. *)
EnterUnlocked(t) ==
    /\ pc[t] = "begin" /\ prog \in {mutex, thread3, thread4}
    /\ Go(t, "load")
    /\ UNCHANGED <<prog, main, created, left, reg, num, holder, sem_one, sem_two, added>>

(* mutex.c: pthread_mutex_lock() around the whole loop. *)
Enter(t) ==
    /\ pc[t] = "begin" /\ prog \in {mutex, thread3, thread4}
    /\ prog = mutex => holder = 0
    /\ holder' = IF prog = mutex THEN t ELSE 0
    /\ Go(t, "load")
    /\ UNCHANGED <<prog, main, created, left, reg, num, sem_one, sem_two, added>>

Load(t) ==
    /\ pc[t] = "load" /\ left[t] # << >>
    /\ reg' = [reg EXCEPT ![t] = num]
    /\ Go(t, "store")
    /\ UNCHANGED <<prog, main, created, left, num, holder, sem_one, sem_two, added>>

Store(t) ==
    /\ pc[t] = "store"
    /\ \E k \in 1 .. Len(left[t]) :
          /\ num' = reg[t] + Sum(SubSeq(left[t], 1, k))
          /\ left' = [left EXCEPT ![t] = SubSeq(@, k + 1, Len(@))]
    /\ reg' = [reg EXCEPT ![t] = 0]
    /\ Go(t, "load")
    /\ UNCHANGED <<prog, main, created, holder, sem_one, sem_two, added>>

Leave(t) ==
    /\ pc[t] = "load" /\ left[t] = << >>
    /\ holder' = 0
    /\ Go(t, "done")
    /\ UNCHANGED <<prog, main, created, left, reg, num, sem_one, sem_two, added>>

(* semaphore.c: read() puts a number, ... *)
ReadNumber(t) ==
    /\ prog = semaphore /\ t = 1 /\ pc[t] = "begin"
    /\ left[t] # << >>
    /\ sem_two > 0
    /\ sem_two' = sem_two - 1
    /\ num' = Head(left[t])
    /\ Go(t, "post")
    /\ UNCHANGED <<prog, main, created, left, reg, holder, sem_one, added>>

(* ... accu() takes it; each posts the semaphore of the other. *)
Accumulate(t) ==
    /\ prog = semaphore /\ t = 2 /\ pc[t] = "begin"
    /\ left[t] # << >>
    /\ sem_one > 0
    /\ sem_one' = sem_one - 1
    /\ added' = Append(added, num)
    /\ Go(t, "post")
    /\ UNCHANGED <<prog, main, created, left, reg, num, holder, sem_two>>

Post(t) ==
    /\ prog = semaphore /\ pc[t] = "post"
    /\ IF t = 1 THEN sem_one' = sem_one + 1 /\ UNCHANGED sem_two
                ELSE sem_two' = sem_two + 1 /\ UNCHANGED sem_one
    /\ left' = [left EXCEPT ![t] = Tail(@)]
    /\ Go(t, "begin")
    /\ UNCHANGED <<prog, main, created, reg, num, holder, added>>

(* thread1.c, thread2.c: sleep and write a line. *)
Round(t) ==
    /\ prog \in {thread1, thread2} /\ pc[t] = "begin"
    /\ left[t] # << >>
    /\ left' = [left EXCEPT ![t] = Tail(@)]
    /\ UNCHANGED <<prog, main, created, pc, reg, num, holder, sem_one, sem_two, added>>

Return(t) ==
    /\ prog \in {semaphore, thread1, thread2} /\ pc[t] = "begin"
    /\ left[t] = << >>
    /\ Go(t, "done")
    /\ UNCHANGED <<prog, main, created, left, reg, num, holder, sem_one, sem_two, added>>

MainStep == Create \/ End

ThreadStep(t) ==
    \/ Enter(t) \/ Load(t) \/ Store(t) \/ Leave(t)
    \/ ReadNumber(t) \/ Accumulate(t) \/ Post(t)
    \/ Round(t) \/ Return(t)

Next == MainStep \/ \E t \in Threads : ThreadStep(t)

Spec == Init /\ [][Next]_vars /\ WF_vars(MainStep) /\ \A t \in Threads : WF_vars(ThreadStep(t))

-----------------------------------------------------------------------------
Result(p) == main = "ended" /\ prog = p

(***************************************************************************)
(* With the mutex nothing is lost, whatever the order of the threads.      *)
(* Without it updates are lost, but not all: the sum of thread3.c has at   *)
(* least the last number of one of the ranges in it, and thread4.c is off  *)
(* by at most what one kind of threads adds.  The semaphores hand over     *)
(* each number once and in order.  The thread of thread2.c is finished     *)
(* when main() goes on.                                                    *)
(***************************************************************************)
ResultsKnown ==
    /\ Result(mutex) => num = Sum([t \in Threads |-> Sum(Numbers(mutex, t))])
    /\ Result(thread3) =>
          /\ num >= Rounds
          /\ num <= Sum(Numbers(thread3, 1)) + Sum(Numbers(thread3, 2))
    /\ Result(thread4) =>
          /\ num <= Rounds * (NUM_THREAD \div 2)
          /\ num >= -(Rounds * ((NUM_THREAD + 1) \div 2))
    /\ prog = semaphore =>
          /\ IsPrefix(added, Numbers(semaphore, 1))
          /\ Result(semaphore) => added = Numbers(semaphore, 1)
    /\ Result(thread2) => left[1] = << >>

(* main() comes to its end: nobody waits for a semaphore or for the mutex  *)
(* for ever.                                                               *)
MainEnds == <>(main = "ended")
=============================================================================
