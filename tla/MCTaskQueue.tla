---------------------------- MODULE MCTaskQueue ----------------------------
(* Instance of TaskQueue for TLC: three threads, two different products. *)
EXTENDS TaskQueue
CONSTANTS t1, t2, t3, a, b
MCThreads == {t1, t2, t3}
MCTasks == {a, b}
=============================================================================
