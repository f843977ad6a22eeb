------------------------------- MODULE Pipes -------------------------------
(***************************************************************************)
(* Parent and child with one pipe or two: TCP-IP-NetworkNote/ch11 and      *)
(* process/pip/pipe1.c.  A program is the calls that its two processes     *)
(* make after the fork(), when both hold both ends of every pipe.          *)
(*                                                                         *)
(* A message is who wrote it.  A read() takes all that is in the pipe.     *)
(* The programs that use one pipe for both directions count on a sleep()   *)
(* being long enough: "timely" says whether it is.                         *)
(***************************************************************************)
EXTENDS Naturals, Sequences

Procs == {"parent", "child"}
Other(p) == IF p = "parent" THEN "child" ELSE "parent"
PipeNames == {1, 2}

W(f)    == [op |-> "write", pipe |-> f, end |-> "w"]
R(f)    == [op |-> "read", pipe |-> f, end |-> "r"]
X(f, e) == [op |-> "close", pipe |-> f, end |-> e]
Sleep   == [op |-> "sleep", pipe |-> 1, end |-> "r"]

pipe1  == [child |-> <<W(1)>>, parent |-> <<R(1)>>]
pipe2  == [child |-> <<W(1), Sleep, R(1)>>, parent |-> <<R(1), W(1), Sleep>>]
pipe3  == [child |-> <<W(1), R(2)>>, parent |-> <<R(1), W(2)>>]
(* for (i = 0; i < 3; ++i) *)
kehou4 == [child |-> <<W(1), R(2), W(1), R(2), W(1), R(2)>>,
           parent |-> <<R(1), W(2), R(1), W(2), R(1), W(2)>>]
test01 == pipe1
test02 == pipe2
(* Mutant of test03: the child closes the ends it needs. *)
test03Crossed ==
    [child |-> <<X(1, "r"), W(1), X(2, "r"), R(2)>>, parent |-> <<X(1, "w"), R(1), X(2, "r"), W(2)>>]
test03 ==
    [child |-> <<X(1, "r"), W(1), X(2, "w"), R(2)>>, parent |-> <<X(1, "w"), R(1), X(2, "r"), W(2)>>]

Programs == {pipe1, pipe2, pipe3, kehou4, test03}

VARIABLES
    program, timely,
    at,         \* calls each process has made
    ends,       \* the ends of pipes each process has open
    pipe,       \* what is in each pipe
    heard,      \* what each read() of a process has returned
    killed      \* processes that SIGPIPE has ended

vars == <<program, timely, at, ends, pipe, heard, killed>>

Init ==
    /\ program \in Programs /\ timely \in BOOLEAN
    /\ at = [p \in Procs |-> 0]
    /\ ends = [p \in Procs |-> PipeNames \X {"r", "w"}]
    /\ pipe = [f \in PipeNames |-> << >>]
    /\ heard = [p \in Procs |-> << >>]
    /\ killed = {}

Done(p) == at[p] = Len(program[p]) \/ p \in killed
Call(p) == program[p][at[p] + 1]
At(p, op) == ~Done(p) /\ Call(p).op = op

(* The processes that have this end open; one that is done has none. *)
Holders(f, e) == {p \in Procs : ~Done(p) /\ <<f, e>> \in ends[p]}

(* A read() that returns, with a message or at the end of the pipe. *)
Readable(p) == pipe[Call(p).pipe] # << >> \/ Holders(Call(p).pipe, "w") = {}

Write(p) ==
    /\ At(p, "write")
    /\ IF Holders(Call(p).pipe, "r") = {}
         THEN killed' = killed \cup {p} /\ UNCHANGED <<at, pipe>>
         ELSE /\ pipe' = [pipe EXCEPT ![Call(p).pipe] = Append(@, p)]
              /\ at' = [at EXCEPT ![p] = @ + 1]
              /\ UNCHANGED killed
    /\ UNCHANGED <<program, timely, ends, heard>>

Read(p) ==
    /\ At(p, "read")
    /\ Readable(p)
    /\ heard' = [heard EXCEPT ![p] = Append(@, pipe[Call(p).pipe])]
    /\ pipe' = [pipe EXCEPT ![Call(p).pipe] = << >>]
    /\ at' = [at EXCEPT ![p] = @ + 1]
    /\ UNCHANGED <<program, timely, ends, killed>>

Close(p) ==
    /\ At(p, "close")
    /\ ends' = [ends EXCEPT ![p] = @ \ {<<Call(p).pipe, Call(p).end>>}]
    /\ at' = [at EXCEPT ![p] = @ + 1]
    /\ UNCHANGED <<program, timely, pipe, heard, killed>>

(* A sleep that is long enough ends when the other process waits or sleeps. *)
Awaken(p) ==
    /\ At(p, "sleep")
    /\ LET q == Other(p)
       IN  timely => Done(q) \/ At(q, "sleep") \/ (At(q, "read") /\ ~Readable(q))
    /\ at' = [at EXCEPT ![p] = @ + 1]
    /\ UNCHANGED <<program, timely, ends, pipe, heard, killed>>

Step(p) == Write(p) \/ Read(p) \/ Close(p) \/ Awaken(p)

Next == \E p \in Procs : Step(p)

Spec == Init /\ [][Next]_vars /\ \A p \in Procs : WF_vars(Step(p))

-----------------------------------------------------------------------------
(* Programs that wait by sleeping instead of on a pipe of their own. *)
Trusting == pipe2

(***************************************************************************)
(* Each read() returns one message, and it is the other's; nobody is       *)
(* killed.  With one pipe for both directions this needs the sleep().      *)
(***************************************************************************)
OneAnswerEach ==
    /\ killed = {}
    /\ (program = Trusting => timely) =>
          \A p \in Procs : \A i \in DOMAIN heard[p] : heard[p][i] = <<Other(p)>>

(* Both end; but the parent waits for ever when the child has read its own *)
(* message, as process/pip/pipe1.c:37 says.                                *)
BothOver ==
    \/ \A p \in Procs : Done(p)
    \/ program = Trusting /\ ~timely /\ heard["child"] = << <<"child">> >>

BothEnd == <>BothOver
=============================================================================
