----------------------------- MODULE Threadpool -----------------------------
(***************************************************************************)
(* The thread pool of tcp/tcpCPP/v5 (Threadpool.cc, Thread.cc) on top of   *)
(* its TaskQueue, whose variables and operations it takes over: Pool...    *)
(* names what the pool adds to Init, Next, Spec and TypeOK of the queue.   *)
(*                                                                         *)
(* Workers run threadFunc(); adders call addTask(); the main thread starts *)
(* the pool, may add tasks too, and stops it: the destructor calls stop()  *)
(* when nobody has.  stage is each thread's position in the pool's code,   *)
(* op (of TaskQueue) its position in the queue's.                          *)
(*                                                                         *)
(* A task is a value of Tasks that an adder may pick again once it has     *)
(* been executed, so behaviours are infinite though Tasks is finite.       *)
(***************************************************************************)
EXTENDS TaskQueue

CONSTANTS
    Workers,    \* _threads
    Adders,     \* the threads that call addTask(); main may be one
    main        \* the thread that calls start() and stop()

ASSUME WorkersAssumption ==
    /\ Threads = Workers \cup Adders \cup {main}
    /\ Workers # {}
    /\ Workers \cap (Adders \cup {main}) = {}

VARIABLES
    isExit,     \* _isExit
    stage,      \* where each thread is in Threadpool's functions
    undone      \* the tasks push() has accepted and no worker has finished

poolVars == <<isExit, stage, undone>>
allVars  == <<vars, poolVars>>

MainStages   == {"start", "idle", "drain", "wakeup", "stopped"}
WorkerStages == {"unborn", "loop", "task", "done"}

PoolInit ==
    /\ Init
    /\ isExit = FALSE
    /\ stage = [t \in Threads |->
                    IF t \in Workers THEN "unborn"
                    ELSE IF t = main THEN "start" ELSE "idle"]
    /\ undone = {}

Enter(t, label) == stage' = [stage EXCEPT ![t] = label]

-----------------------------------------------------------------------------
(* The main thread. *)

(* start(): pthread_create for one worker after the other. *)
Start(w) ==
    /\ stage[main] = "start"
    /\ stage[w] = "unborn"
    /\ stage' = [stage EXCEPT
            ![w]    = "loop",
            ![main] = IF \E v \in Workers \ {w} : stage[v] = "unborn"
                      THEN "start" ELSE "idle"]
    /\ UNCHANGED <<vars, isExit, undone>>

(* stop(): the guard if(!_isExit), then the polling loop. *)
Stop ==
    /\ stage[main] = "idle"
    /\ op[main] = "out"
    /\ ~isExit
    /\ Enter(main, "drain")
    /\ UNCHANGED <<vars, isExit, undone>>

(* Mutant of SetExit: the queue is not looked at. *)
SetExitAtOnce ==
    /\ stage[main] = "drain"
    /\ isExit' = TRUE
    /\ Enter(main, "wakeup")
    /\ CallWakeup(main)
    /\ UNCHANGED undone

(* _taskque.empty(), read without the mutex, was true: leave the loop. *)
SetExit ==
    /\ stage[main] = "drain"
    /\ empty
    /\ isExit' = TRUE
    /\ Enter(main, "wakeup")
    /\ CallWakeup(main)
    /\ UNCHANGED undone

(* join() of every worker; it returns when all have left threadFunc(). *)
Join ==
    /\ stage[main] = "wakeup"
    /\ op[main] = "out"
    /\ \A w \in Workers : stage[w] = "done"
    /\ Enter(main, "stopped")
    /\ UNCHANGED <<vars, isExit, undone>>

-----------------------------------------------------------------------------
(* addTask(task); a task somebody still holds is not added a second time. *)

AddTask(a, task) ==
    /\ stage[a] = "idle"
    /\ task \notin undone
    /\ \A t \in Threads : slot[t] # task
    /\ CallPush(a, task)
    /\ UNCHANGED poolVars

(* push() stores the task: from now on the pool owes its execution. *)
Accept(a) ==
    /\ PushStore(a)
    /\ undone' = undone \cup {slot[a]}
    /\ UNCHANGED <<isExit, stage>>

-----------------------------------------------------------------------------
(* threadFunc() *)

(* while(!_isExit) ... getTask() *)
GetTask(w) ==
    /\ stage[w] = "loop"
    /\ ~isExit
    /\ Enter(w, "task")
    /\ CallPop(w)
    /\ UNCHANGED <<isExit, undone>>

(* Mutant of LeaveLoop: the loop may be left before _isExit is set. *)
LeaveLoopEarly(w) ==
    /\ stage[w] = "loop"
    /\ Enter(w, "done")
    /\ UNCHANGED <<vars, isExit, undone>>

LeaveLoop(w) ==
    /\ stage[w] = "loop"
    /\ isExit
    /\ Enter(w, "done")
    /\ UNCHANGED <<vars, isExit, undone>>

(* Mutant of RunTask: the task is run and kept. *)
RunTaskKeeps(w) ==
    /\ stage[w] = "task"
    /\ op[w] = "out"
    /\ Enter(w, "loop")
    /\ undone' = undone \ {slot[w]}
    /\ UNCHANGED <<vars, isExit>>

(* if(task) task(); then the local std::function is destroyed. *)
RunTask(w) ==
    /\ stage[w] = "task"
    /\ op[w] = "out"
    /\ Enter(w, "loop")
    /\ undone' = undone \ {slot[w]}
    /\ Discard(w)
    /\ UNCHANGED isExit

-----------------------------------------------------------------------------
(* Steps inside the queue that the pool's own state takes no part in. *)
QueueStep(t) ==
    /\ \/ PushLock(t) \/ PushWait(t)
       \/ PopLock(t) \/ PopTest(t) \/ PopWait(t)
       \/ PopTake(t) \/ PopNull(t)
       \/ ClearFlag(t) \/ NotifyAll(t)
    /\ UNCHANGED poolVars

Spurious(t) == SpuriousWakeup(t) /\ UNCHANGED poolVars

MainStep   == (\E w \in Workers : Start(w)) \/ SetExit \/ Join
WorkerStep(w) == GetTask(w) \/ LeaveLoop(w) \/ RunTask(w)

PoolNext ==
    \/ MainStep
    \/ Stop
    \/ \E w \in Workers : WorkerStep(w)
    \/ \E a \in Adders : Accept(a) \/ \E task \in Tasks : AddTask(a, task)
    \/ \E t \in Threads : QueueStep(t) \/ Spurious(t)

(***************************************************************************)
(* Every thread is scheduled again and again; pthread mutexes promise no   *)
(* order, so taking one that is contended needs strong fairness: a thread  *)
(* that finds it free infinitely often gets it once.  Nobody is obliged to *)
(* call addTask() or stop(), and no spurious wakeup ever has to come.      *)
(***************************************************************************)
Fairness ==
    /\ WF_allVars(MainStep)
    /\ \A w \in Workers : WF_allVars(WorkerStep(w))
    /\ \A a \in Adders : WF_allVars(Accept(a))
    /\ \A t \in Threads :
        /\ WF_allVars(QueueStep(t))
        /\ SF_allVars(PushLock(t) /\ UNCHANGED poolVars)
        /\ SF_allVars(PopLock(t) /\ UNCHANGED poolVars)

PoolSpec == PoolInit /\ [][PoolNext]_allVars
FairSpec == PoolSpec /\ Fairness

-----------------------------------------------------------------------------
(* The value every variable may have. *)
PoolTypeOK ==
    /\ TypeOK
    /\ isExit \in BOOLEAN
    /\ stage \in [Threads -> MainStages \cup WorkerStages]
    /\ undone \subseteq Tasks

InHand(w) == {slot[w]} \ {NULL}

(***************************************************************************)
(* No accepted task is lost or doubled between push() and the worker that  *)
(* runs it: each is in the queue once or in the hand of one worker.        *)
(* The variables also keep their types.                                    *)
(***************************************************************************)
TasksAccountedFor ==
    /\ PoolTypeOK
    /\ undone = {que[i] : i \in 1..Len(que)} \cup UNION {InHand(w) : w \in Workers}
    /\ \A i, j \in 1..Len(que) : que[i] = que[j] => i = j
    /\ \A w \in Workers :
        /\ \A i \in 1..Len(que) : slot[w] # que[i]
        /\ \A v \in Workers \ {w} : InHand(v) \cap InHand(w) = {}

(***************************************************************************)
(* stop() polls the queue without the lock and never looks at the workers, *)
(* yet when it returns nothing is left to do ("要确认所有的任务全部执行完毕",*)
(* Threadpool.cc:48), provided that only the stopping thread adds tasks.   *)
(***************************************************************************)
StopDrains == stage[main] = "stopped" => undone = {}

(***************************************************************************)
(* Every accepted task is eventually executed, even when stop() runs       *)
(* meanwhile (only main adds tasks).                                       *)
(***************************************************************************)
EveryTaskRuns == \A task \in Tasks : task \in undone ~> task \notin undone

(***************************************************************************)
(* The thread that calls addTask() on a full queue gets through in the     *)
(* end, also while the pool is being drained (only main adds tasks).       *)
(***************************************************************************)
AdderGetsThrough ==
    \A a \in Adders : op[a] \in PushOps ~> op[a] = "out"

(* The pool never stands still with work to do: both of the above. *)
PoolProgress == EveryTaskRuns /\ AdderGetsThrough

(***************************************************************************)
(* stop() returns if, when _flag is cleared, no worker is between its test *)
(* of _flag and its wait: that window is all that can hang join().         *)
(***************************************************************************)
StopReturnsUnlessMissed ==
    (op[main] = "notifyall" /\ \A w \in Workers : op[w] # "popSleep")
        ~> stage[main] = "stopped"

(***************************************************************************)
(* stop() announces that it wakes all the sub-threads ("唤醒所有子线程",     *)
(* Threadpool.cc:54) and joins them: so it returns.                        *)
(***************************************************************************)
StopReturns == stage[main] = "drain" ~> stage[main] = "stopped"
=============================================================================
