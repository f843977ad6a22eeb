---------------------------- MODULE TimerThread ----------------------------
(***************************************************************************)
(* tcp/tcpCPP/timer: a sub-thread arms a timerfd, polls it and runs a      *)
(* callback at each expiry.  The main thread stops it by clearing          *)
(* _isStarted and then disarming the timer, which also discards expiries   *)
(* that have not been read.                                                *)
(***************************************************************************)
EXTENDS Naturals

CONSTANT MaxExpiries    \* bound: the expiries of the timer

VARIABLES
    isStarted,  \* Timer::_isStarted
    armed,      \* the timer is running
    expired,    \* expiries the timerfd has not delivered yet
    sub,        \* where the sub-thread is in Timer::start()
    main,       \* what the main thread has done
    ticks,      \* expiries so far
    served      \* of these, the ones a callback has begun after

history == <<ticks, served>>
vars == <<isStarted, armed, expired, sub, main, history>>

(* The constructor; _isStarted holds whatever the memory held. *)
Init ==
    /\ isStarted \in BOOLEAN
    /\ armed = FALSE
    /\ expired = 0
    /\ sub = "unborn"
    /\ main = "new"
    /\ ticks = 0
    /\ served = 0

(* timerfd_settime(): a zero value disarms; unread expiries are dropped. *)
SetTimerFd(on) == armed' = on /\ expired' = 0

(* The kernel: an armed interval timer expires again and again. *)
Expire ==
    /\ armed
    /\ ticks < MaxExpiries
    /\ ticks' = ticks + 1
    /\ expired' = expired + 1
    /\ UNCHANGED <<isStarted, armed, sub, main, served>>

-----------------------------------------------------------------------------
(* The main thread: TimerThread::start() and stop(). *)

Start ==
    /\ main = "new"
    /\ main' = "started"
    /\ sub' = "arm"
    /\ UNCHANGED <<isStarted, armed, expired, history>>

(* stop() of a timer whose _isStarted reads FALSE goes straight to join(). *)
StopIdle ==
    /\ main = "started"
    /\ ~isStarted
    /\ main' = "join"
    /\ UNCHANGED <<isStarted, armed, expired, sub, history>>

Stop ==
    /\ main = "started"
    /\ isStarted
    /\ isStarted' = FALSE
    /\ main' = "disarm"
    /\ UNCHANGED <<armed, expired, sub, history>>

Disarm ==
    /\ main = "disarm"
    /\ SetTimerFd(FALSE)
    /\ main' = "join"
    /\ UNCHANGED <<isStarted, sub, history>>

Join ==
    /\ main = "join"
    /\ sub = "done"
    /\ main' = "ended"
    /\ UNCHANGED <<isStarted, armed, expired, sub, history>>

-----------------------------------------------------------------------------
(* The sub-thread: Timer::start(). *)

Arm ==
    /\ sub = "arm"
    /\ SetTimerFd(TRUE)
    /\ sub' = "begin"
    /\ UNCHANGED <<isStarted, main, history>>

Begin ==
    /\ sub = "begin"
    /\ isStarted' = TRUE
    /\ sub' = "test"
    /\ UNCHANGED <<armed, expired, main, history>>

Test ==
    /\ sub = "test"
    /\ sub' = IF isStarted THEN "poll" ELSE "done"
    /\ UNCHANGED <<isStarted, armed, expired, main, history>>

(* poll() returns 0 after five seconds, or -1 with EINTR. *)
PollTimeout ==
    /\ sub = "poll"
    /\ expired = 0
    /\ sub' = "test"
    /\ UNCHANGED <<isStarted, armed, expired, main, history>>

PollReady ==
    /\ sub = "poll"
    /\ expired > 0
    /\ sub' = "read"
    /\ UNCHANGED <<isStarted, armed, expired, main, history>>

(* Mutant of HandleRead: an exception of the callback ends the thread. *)
HandleReadLast ==
    /\ sub = "read"
    /\ expired > 0
    /\ expired' = 0
    /\ served' = ticks
    /\ sub' = "done"
    /\ UNCHANGED <<isStarted, armed, main, ticks>>

(* The blocking read() of handleRead() takes the count; then the callback. *)
HandleRead ==
    /\ sub = "read"
    /\ expired > 0
    /\ expired' = 0
    /\ served' = ticks
    /\ sub' = "test"
    /\ UNCHANGED <<isStarted, armed, main, ticks>>

-----------------------------------------------------------------------------
SubStep == Arm \/ Begin \/ Test \/ PollTimeout \/ PollReady \/ HandleRead

MainStep == Disarm \/ Join

Next == Expire \/ Start \/ StopIdle \/ Stop \/ MainStep \/ SubStep

(* Both threads are scheduled; nobody has to stop the timer. *)
Fairness == WF_vars(SubStep) /\ WF_vars(MainStep)

Spec == Init /\ [][Next]_vars /\ Fairness

-----------------------------------------------------------------------------
(* The value every variable may have. *)
TypeOK ==
    /\ isStarted \in BOOLEAN
    /\ armed \in BOOLEAN
    /\ expired \in 0..MaxExpiries
    /\ sub \in {"unborn", "arm", "begin", "test", "poll", "read", "done"}
    /\ main \in {"new", "started", "disarm", "join", "ended"}
    /\ ticks \in 0..MaxExpiries
    /\ served \in 0..MaxExpiries

(***************************************************************************)
(* Until stop() has disarmed the timer, handleRead() is entered only when  *)
(* its read() has something to return.                                     *)
(***************************************************************************)
ReadBlocksOnlyDisarmed == (sub = "read" /\ expired = 0) => main \in {"join", "ended"}

(***************************************************************************)
(* Expiries that pile up during a slow callback are not lost: until stop() *)
(* disarms the timer, the count in the timerfd is exactly the expiries no  *)
(* callback has begun after.                                               *)
(***************************************************************************)
NoExpiryForgotten == main \in {"join", "ended"} \/ ticks = served + expired

(* Each expiry is followed by a callback unless the timer is stopped first. *)
ExpiryIsServed ==
    \A n \in 1..MaxExpiries : ticks = n ~> (served >= n \/ main # "started")

(* stop() has cleared a flag that start() will not set again. *)
StopsABegunTimer == main = "disarm" /\ ~isStarted /\ sub \notin {"unborn", "arm", "begin"}

(***************************************************************************)
(* Stopping a running timer returns within one poll timeout, unless        *)
(* disarming took away the expiry a blocking read() was about to return.   *)
(***************************************************************************)
StopReturnsUnlessRobbed ==
    StopsABegunTimer ~> (main = "ended" \/ (sub = "read" /\ expired = 0))

(***************************************************************************)
(* TestTimer.cc ends with timer.stop() on a running timer and leaves the   *)
(* scope: stop() returns.                                                  *)
(***************************************************************************)
StopReturns == StopsABegunTimer ~> main = "ended"
=============================================================================
