--------------------------- MODULE EventfdThread ---------------------------
(***************************************************************************)
(* tcp/tcpCPP/eventfd: a sub-thread polls an eventfd and runs a callback   *)
(* when another thread has written to it.  The main thread starts it,      *)
(* wakes it up any number of times and stops it by clearing _isStarted,    *)
(* which the sub-thread itself sets when it begins and the constructor     *)
(* leaves uninitialised.                                                   *)
(***************************************************************************)
EXTENDS Naturals

CONSTANT MaxWakeups     \* bound: the calls of wakeup()

VARIABLES
    isStarted,  \* Eventfd::_isStarted
    counter,    \* the eventfd's counter
    sub,        \* where the sub-thread is in Eventfd::start()
    main,       \* what the main thread has done
    sent,       \* calls of wakeup() so far
    served      \* of these, the ones a callback has begun after

vars == <<isStarted, counter, sub, main, sent, served>>

(* The constructor; _isStarted holds whatever the memory held. *)
Init ==
    /\ isStarted \in BOOLEAN
    /\ counter = 0
    /\ sub = "unborn"
    /\ main = "new"
    /\ sent = 0
    /\ served = 0

-----------------------------------------------------------------------------
(* The main thread. *)

Start ==
    /\ main = "new"
    /\ main' = "started"
    /\ sub' = "begin"
    /\ UNCHANGED <<isStarted, counter, sent, served>>

(* Mutant of Wakeup: sets the counter instead of adding to it. *)
WakeupLost ==
    /\ main = "started"
    /\ sent < MaxWakeups
    /\ sent' = sent + 1
    /\ counter' = 1
    /\ UNCHANGED <<isStarted, sub, main, served>>

(* write() adds one to the counter. *)
Wakeup ==
    /\ main = "started"
    /\ sent < MaxWakeups
    /\ sent' = sent + 1
    /\ counter' = counter + 1
    /\ UNCHANGED <<isStarted, sub, main, served>>

(* EventfdThread::stop(): clear _isStarted if it is set, then join. *)
Stop ==
    /\ main = "started"
    /\ main' = "join"
    /\ isStarted' = FALSE
    /\ UNCHANGED <<counter, sub, sent, served>>

Join ==
    /\ main = "join"
    /\ sub = "done"
    /\ main' = "ended"
    /\ UNCHANGED <<isStarted, counter, sub, sent, served>>

-----------------------------------------------------------------------------
(* The sub-thread: Eventfd::start(). *)

Begin ==
    /\ sub = "begin"
    /\ isStarted' = TRUE
    /\ sub' = "test"
    /\ UNCHANGED <<counter, main, sent, served>>

Test ==
    /\ sub = "test"
    /\ sub' = IF isStarted THEN "poll" ELSE "done"
    /\ UNCHANGED <<isStarted, counter, main, sent, served>>

(* Mutant of PollTimeout: poll(..., -1) never times out. *)
PollForever ==
    /\ sub = "poll"
    /\ counter > 0
    /\ sub' = "test"
    /\ UNCHANGED <<isStarted, counter, main, sent, served>>

(* poll() returns 0 after five seconds, or -1 with EINTR. *)
PollTimeout ==
    /\ sub = "poll"
    /\ counter = 0
    /\ sub' = "test"
    /\ UNCHANGED <<isStarted, counter, main, sent, served>>

PollReady ==
    /\ sub = "poll"
    /\ counter > 0
    /\ sub' = "read"
    /\ UNCHANGED <<isStarted, counter, main, sent, served>>

(* read() takes the whole counter, so wakeups coalesce; then the callback. *)
HandleRead ==
    /\ sub = "read"
    /\ counter > 0
    /\ counter' = 0
    /\ served' = sent
    /\ sub' = "test"
    /\ UNCHANGED <<isStarted, main, sent>>

-----------------------------------------------------------------------------
SubStep == Begin \/ Test \/ PollTimeout \/ PollReady \/ HandleRead

Next == Start \/ Wakeup \/ Stop \/ Join \/ SubStep

(* Both threads are scheduled; nobody has to call wakeup() or stop(). *)
Fairness == WF_vars(SubStep) /\ WF_vars(Join)

Spec == Init /\ [][Next]_vars /\ Fairness

-----------------------------------------------------------------------------
(* The value every variable may have. *)
TypeOK ==
    /\ isStarted \in BOOLEAN
    /\ counter \in 0..MaxWakeups
    /\ sub \in {"unborn", "begin", "test", "poll", "read", "done"}
    /\ main \in {"new", "started", "join", "ended"}
    /\ sent \in 0..MaxWakeups
    /\ served \in 0..MaxWakeups

(***************************************************************************)
(* Coalescing loses nothing: the counter holds exactly the wakeups that no *)
(* callback has begun after, so a blocking read() never waits for ever.    *)
(***************************************************************************)
NoWakeupForgotten ==
    /\ sent = served + counter
    /\ sub = "read" => counter > 0

(* Each wakeup is followed by a callback unless the thread is stopped first. *)
WakeupIsServed ==
    \A n \in 1..MaxWakeups : sent = n ~> (served >= n \/ main # "started")

(***************************************************************************)
(* Once the sub-thread has begun, stop() returns within one poll timeout.  *)
(* A stop() that comes before Eventfd::start() set _isStarted is lost.     *)
(***************************************************************************)
StopReturnsOnceBegun == (main = "join" /\ ~isStarted /\ sub # "begin") ~> main = "ended"
=============================================================================
