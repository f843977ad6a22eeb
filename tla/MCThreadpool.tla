---------------------------- MODULE MCThreadpool ----------------------------
(* Instances of Threadpool for TLC. *)
EXTENDS Threadpool
CONSTANTS m, w1, w2, a, b, c
MCThreads == {m, w1, w2}
MCMain    == m
MCWorkers == {w1, w2}
OnlyMain  == {m}
MCTasks   == {a, b, c}
TwoTasks  == {a, b}
=============================================================================
