------------------------------ MODULE Children ------------------------------
(***************************************************************************)
(* Parents and their children: the programs of TCP-IP-NetworkNote/ch10 and *)
(* of process that fork() and then wait(), poll with waitpid(), leave      *)
(* zombies, or collect them in a handler of SIGCHLD.                       *)
(*                                                                         *)
(* A program is what the parent does.  Children sleep and exit; how long   *)
(* anybody sleeps is left open.                                            *)
(***************************************************************************)
EXTENDS Integers, Sequences, FiniteSets

Kids == {1, 2}

Fork == "fork"      \* the next child
Sleep == "sleep"
Wait == "wait"      \* wait(): until a child has ended
Poll == "poll"      \* while (!waitpid(WNOHANG)) sleep(3);

(* "handler": a handler of SIGCHLD calls waitpid(WNOHANG) once.  "change"  *)
(* and "kidChange": what parent and child add to gval, 11 before the fork. *)
Program(parent, handler, change, kidChange) ==
    [parent |-> parent, handler |-> handler, change |-> change, kidChange |-> kidChange]

fork           == Program(<<Fork>>, FALSE, -2, 2)
process_fork   == fork
kehou3         == Program(<<Fork>>, FALSE, 0, 0)
(* Mutant of wait: waits for one child. *)
waitOnce       == Program(<<Fork, Fork, Wait, Sleep>>, FALSE, 0, 0)
wait           == Program(<<Fork, Fork, Wait, Wait, Sleep>>, FALSE, 0, 0)
waitpid        == Program(<<Fork, Poll>>, FALSE, 0, 0)
zombie         == Program(<<Fork, Sleep>>, FALSE, 0, 0)
remove_zomebie == Program(<<Fork, Fork, Sleep, Sleep, Sleep, Sleep, Sleep>>, TRUE, 0, 0)
clear_zombie   == remove_zomebie

Programs == {fork, kehou3, wait, waitpid, zombie, remove_zomebie}

VARIABLES
    prog,
    at,         \* calls the parent has made
    kid,        \* each child: "unborn", "running", "zombie", "reaped", "adopted"
    gval,       \* the variable of the parent, 0, and of each child
    pending,    \* SIGCHLD is pending
    handling,   \* the parent is in its handler
    merged,     \* children that ended while SIGCHLD was pending
    unset       \* history: status was looked at though no child was collected

vars == <<prog, at, kid, gval, pending, handling, merged, unset>>

Init ==
    /\ prog \in Programs
    /\ at = 0
    /\ kid = [k \in Kids |-> "unborn"]
    /\ gval = [k \in {0} \cup Kids |-> 11]
    /\ pending = FALSE
    /\ handling = FALSE
    /\ merged = 0
    /\ unset = FALSE

Over == at > Len(prog.parent)
At(op) == at < Len(prog.parent) /\ ~handling /\ prog.parent[at + 1] = op
Zombies == {k \in Kids : kid[k] = "zombie"}
Number == Cardinality({k \in Kids : kid[k] # "unborn"})

-----------------------------------------------------------------------------
(* The child gets a copy of the variable; each then changes its own. *)
DoFork ==
    /\ At(Fork)
    /\ LET k == Number + 1
       IN  /\ kid' = [kid EXCEPT ![k] = "running"]
           /\ gval' = [gval EXCEPT ![0] = @ + prog.change, ![k] = gval[0] + prog.kidChange]
    /\ at' = at + 1
    /\ UNCHANGED <<prog, pending, handling, merged, unset>>

SleepOver ==
    /\ At(Sleep)
    /\ at' = at + 1
    /\ UNCHANGED <<prog, kid, gval, pending, handling, merged, unset>>

(* wait(), and waitpid() when it finds a child; otherwise the loop sleeps. *)
Collect ==
    /\ At(Wait) \/ At(Poll)
    /\ \E k \in Zombies : kid' = [kid EXCEPT ![k] = "reaped"]
    /\ at' = at + 1
    /\ UNCHANGED <<prog, gval, pending, handling, merged, unset>>

(* The parent ends; init takes over its children. *)
ParentEnds ==
    /\ at = Len(prog.parent) /\ ~handling
    /\ at' = at + 1
    /\ kid' = [k \in Kids |-> IF kid[k] = "zombie" THEN "reaped"
                              ELSE IF kid[k] = "running" THEN "adopted" ELSE kid[k]]
    /\ pending' = FALSE
    /\ merged' = 0
    /\ UNCHANGED <<prog, gval, handling, unset>>

ChildEnds(k) ==
    /\ kid[k] \in {"running", "adopted"}
    /\ kid' = [kid EXCEPT ![k] = IF @ = "running" THEN "zombie" ELSE "reaped"]
    /\ IF prog.handler /\ kid[k] = "running"
         THEN /\ pending' = TRUE
              /\ merged' = IF pending THEN merged + 1 ELSE merged
         ELSE UNCHANGED <<pending, merged>>
    /\ UNCHANGED <<prog, at, gval, handling, unset>>

(* The handler runs, once at a time. *)
Deliver ==
    /\ pending /\ ~handling /\ at <= Len(prog.parent)
    /\ pending' = FALSE
    /\ handling' = TRUE
    /\ UNCHANGED <<prog, at, kid, gval, merged, unset>>

(* waitpid() in the handler; a sleep() that it has interrupted is over. *)
HandlerReaps ==
    /\ handling
    /\ IF Zombies = {}
         THEN unset' = TRUE /\ UNCHANGED kid
         ELSE \E k \in Zombies : kid' = [kid EXCEPT ![k] = "reaped"] /\ UNCHANGED unset
    /\ handling' = FALSE
    /\ \/ UNCHANGED at
       \/ /\ at < Len(prog.parent) /\ prog.parent[at + 1] = Sleep
          /\ at' = at + 1
    /\ UNCHANGED <<prog, gval, pending, merged>>

ParentStep == DoFork \/ SleepOver \/ Collect \/ ParentEnds \/ Deliver \/ HandlerReaps

Next == ParentStep \/ \E k \in Kids : ChildEnds(k)

Spec == Init /\ [][Next]_vars /\ WF_vars(ParentStep) /\ \A k \in Kids : WF_vars(ChildEnds(k))

-----------------------------------------------------------------------------
(***************************************************************************)
(* A zombie is one whose SIGCHLD is pending or being handled, or was       *)
(* merged with another; so the handler always finds a child, and looks at  *)
(* a status that waitpid() has written.  wait.c has collected both before  *)
(* it sleeps.  After the fork() each process has a variable of its own.    *)
(***************************************************************************)
ChildrenAccountedFor ==
    /\ ~unset
    /\ prog.handler /\ ~Over =>
          Cardinality(Zombies) = (IF pending THEN 1 ELSE 0) + (IF handling THEN 1 ELSE 0) + merged
    /\ prog \in {wait, waitpid} /\ ~handling /\ (Over \/ At(Sleep)) => \A k \in Kids : kid[k] \in {"reaped", "unborn"}
    /\ Number > 0 => gval[0] = 11 + Number * prog.change /\ gval[1] = 11 + prog.kidChange

(* Parent and children end, and in the end there is no zombie left. *)
NoneLeft == Over /\ \A k \in Kids : kid[k] \in {"reaped", "unborn"}

AllCollected == <>NoneLeft
=============================================================================
