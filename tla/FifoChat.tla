------------------------------ MODULE FifoChat ------------------------------
(***************************************************************************)
(* select/selectChat: a.c and b.c talk over two FIFOs and wait for their   *)
(* user and for each other with select().  Lines are written without their *)
(* newline, so a read() returns all lines that are there as one.           *)
(***************************************************************************)
EXTENDS Naturals, Sequences

CONSTANT MaxLines   \* bound: lines a user types

Procs == {"a", "b"}
Other(p) == IF p = "a" THEN "b" ELSE "a"

VARIABLES
    pc,         \* "open1", "open2", "select", "ready", "spin", "done", "killed"
    todo,       \* what select() has reported and is still to be handled
    fds,        \* the descriptors a process has open: "r", "w"
    stdin,      \* lines in front of each process
    eof,        \* users who have ended their input
    typed,      \* lines each user has typed
    fifo,       \* what each process has not read yet of the other's lines
    written,    \* the lines each process has written
    heard       \* the lines each process has read

vars == <<pc, todo, fds, stdin, eof, typed, fifo, written, heard>>

Init ==
    /\ pc = [p \in Procs |-> "open1"]
    /\ todo = [p \in Procs |-> << >>]
    /\ fds = [p \in Procs |-> {}]
    /\ stdin = [p \in Procs |-> 0]
    /\ eof = {}
    /\ typed = [p \in Procs |-> 0]
    /\ fifo = [p \in Procs |-> << >>]
    /\ written = [p \in Procs |-> << >>]
    /\ heard = [p \in Procs |-> << >>]

(* The order in which the FIFOs are opened: the one that p reads, "r", or  *)
(* the one that it writes, "w".                                            *)
a_opens == <<"r", "w">>
(* Mutant of b_opens: each opens its own FIFO for reading first. *)
b_opensLikeA == <<"r", "w">>
b_opens == <<"w", "r">>

Opening(p) ==
    LET order == IF p = "a" THEN a_opens ELSE b_opens
    IN  IF pc[p] = "open1" THEN order[1] ELSE IF pc[p] = "open2" THEN order[2] ELSE "none"

(* open() of a FIFO returns when its other end is opened too. *)
Open(p) ==
    /\ Opening(p) = "r" /\ Opening(Other(p)) = "w"
    /\ pc' = [q \in Procs |-> IF pc[q] = "open1" THEN "open2" ELSE "select"]
    /\ fds' = [q \in Procs |-> fds[q] \cup {Opening(q)}]
    /\ UNCHANGED <<todo, stdin, eof, typed, fifo, written, heard>>

-----------------------------------------------------------------------------
(* The users. *)

TypeLine(p) ==
    /\ p \notin eof /\ typed[p] < MaxLines
    /\ typed' = [typed EXCEPT ![p] = @ + 1]
    /\ stdin' = [stdin EXCEPT ![p] = @ + 1]
    /\ UNCHANGED <<pc, todo, fds, eof, fifo, written, heard>>

TypeEof(p) ==
    /\ p \notin eof
    /\ eof' = eof \cup {p}
    /\ UNCHANGED <<pc, todo, fds, stdin, typed, fifo, written, heard>>

-----------------------------------------------------------------------------
(* What select() reports: "fifo" also at its end. *)
Ends(p) == fifo[p] = << >> /\ "w" \notin fds[Other(p)]
FifoReady(p) == fifo[p] # << >> \/ Ends(p)
StdinReady(p) == stdin[p] > 0 \/ p \in eof

(* a.c looks at the FIFO first, b.c at the user. *)
InOrder(p) == IF p = "a" THEN <<"fifo", "stdin">> ELSE <<"stdin", "fifo">>

Select(p) ==
    /\ pc[p] = "select"
    /\ FifoReady(p) \/ StdinReady(p)
    /\ todo' = [todo EXCEPT ![p] =
            IF FifoReady(p) /\ StdinReady(p) THEN InOrder(p)
            ELSE IF FifoReady(p) THEN <<"fifo">> ELSE <<"stdin">>]
    /\ pc' = [pc EXCEPT ![p] = "ready"]
    /\ UNCHANGED <<fds, stdin, eof, typed, fifo, written, heard>>

(* On to the next descriptor of the set, or to select(), which fails for   *)
(* ever on a descriptor that is closed: a loop without an end.             *)
Handled(p, open) ==
    /\ todo' = [todo EXCEPT ![p] = Tail(@)]
    /\ pc' = [pc EXCEPT ![p] = IF Len(todo[p]) > 1 THEN "ready" ELSE IF open THEN "select" ELSE "spin"]

Leave(p, how) ==
    /\ pc' = [pc EXCEPT ![p] = how]
    /\ todo' = [todo EXCEPT ![p] = << >>]
    /\ fds' = [fds EXCEPT ![p] = {}]

Facing(p, what) == pc[p] = "ready" /\ Head(todo[p]) = what

ReadFifo(p) ==
    /\ Facing(p, "fifo")
    /\ fifo[p] # << >>
    /\ heard' = [heard EXCEPT ![p] = @ \o fifo[p]]
    /\ fifo' = [fifo EXCEPT ![p] = << >>]
    /\ Handled(p, TRUE)
    /\ UNCHANGED <<fds, stdin, eof, typed, written>>

(* Mutant of FifoEnds: whatever the FIFO still holds. *)
FifoEndsEarly(p) ==
    /\ Facing(p, "fifo")
    /\ "w" \notin fds[Other(p)]
    /\ IF p = "a"
         THEN Handled(p, FALSE) /\ fds' = [fds EXCEPT ![p] = {}]
         ELSE Leave(p, "done")
    /\ UNCHANGED <<stdin, eof, typed, fifo, written, heard>>

(* read() returns 0.  b.c breaks out of its loop, a.c does not. *)
FifoEnds(p) ==
    /\ Facing(p, "fifo")
    /\ Ends(p)
    /\ IF p = "a"
         THEN Handled(p, FALSE) /\ fds' = [fds EXCEPT ![p] = {}]
         ELSE Leave(p, "done")
    /\ UNCHANGED <<stdin, eof, typed, fifo, written, heard>>

(* A line goes to the other, if the descriptor is still open; SIGPIPE if   *)
(* nobody reads there any more.                                            *)
PassLine(p) ==
    /\ Facing(p, "stdin") /\ stdin[p] > 0
    /\ stdin' = [stdin EXCEPT ![p] = @ - 1]
    /\ LET line == typed[p] - stdin[p] + 1
       IN  IF "w" \notin fds[p] THEN Handled(p, FALSE) /\ UNCHANGED <<fds, fifo, written>>
           ELSE IF "r" \notin fds[Other(p)] THEN Leave(p, "killed") /\ UNCHANGED <<fifo, written>>
           ELSE /\ fifo' = [fifo EXCEPT ![Other(p)] = Append(@, line)]
                /\ written' = [written EXCEPT ![p] = Append(@, line)]
                /\ Handled(p, TRUE)
                /\ UNCHANGED fds
    /\ UNCHANGED <<eof, typed, heard>>

StdinEnds(p) ==
    /\ Facing(p, "stdin") /\ stdin[p] = 0
    /\ Leave(p, "done")
    /\ UNCHANGED <<stdin, eof, typed, fifo, written, heard>>

Step(p) == Select(p) \/ ReadFifo(p) \/ FifoEnds(p) \/ PassLine(p) \/ StdinEnds(p)

(* The loop of each program. *)
a_loop == Step("a")
b_loop == Step("b")

Opens == \E p \in Procs : Open(p)

Next == Opens \/ a_loop \/ b_loop \/ \E p \in Procs : TypeLine(p) \/ TypeEof(p)

Spec == Init /\ [][Next]_vars /\ WF_vars(Opens) /\ WF_vars(a_loop) /\ WF_vars(b_loop)

-----------------------------------------------------------------------------
Over(p) == pc[p] \in {"done", "killed"}

(***************************************************************************)
(* Lines reach the other in order, each once; and who is left behind (and  *)
(* has not been killed while writing) has read all that was written to it. *)
(***************************************************************************)
LinesConserved ==
    \A p \in Procs :
        /\ written[Other(p)] = heard[p] \o fifo[p]
        /\ pc[p] = "spin" => fifo[p] = << >> /\ Over(Other(p))
        /\ pc[p] = "done" /\ p \notin eof => fifo[p] = << >> /\ Over(Other(p))

(* The opens meet, and the chat begins. *)
Begun == \A p \in Procs : pc[p] \notin {"open1", "open2"}

ChatBegins == <>Begun

(* When b.c is over a.c is over or runs in circles; when a.c is over so is *)
(* b.c, in the end.                                                        *)
OtherNotices ==
    /\ Over("b") ~> (Over("a") \/ pc["a"] = "spin")
    /\ Over("a") ~> Over("b")
=============================================================================
