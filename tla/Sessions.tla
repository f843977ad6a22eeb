------------------------------ MODULE Sessions ------------------------------
(***************************************************************************)
(* Sessions over a byte stream between the servers of the book that serve  *)
(* one client after the other and the clients of the repository:           *)
(* TCP-IP-NetworkNote ch01, ch02, ch04, ch05, ch07, ch09, ch10, ch13,      *)
(* ch15 to ch18, tcp/tcpC, tcp/tcp_epoll, process, select, epoll.          *)
(*                                                                         *)
(* Each program is a sequence of instructions, one for each system call    *)
(* (or stdio call) that touches its connection; "pc" is the index of the   *)
(* next.  What they have in common is the stream between them: it keeps no *)
(* borders, a read() returns what has arrived so far, an end may be shut   *)
(* in one direction, and closing an end with unread bytes resets the       *)
(* connection, after which a write() kills the writer.                     *)
(*                                                                         *)
(* A message of n bytes is Msg(n); byte j of it is <<j, n>>.  Startup      *)
(* (socket, bind, listen) is done when a program begins, and the           *)
(* listening socket closes when the server ends.                           *)
(***************************************************************************)
EXTENDS Naturals, Sequences, FiniteSets

CONSTANTS
    Server, Clients, NULL,
    MaxLines,   \* bound: lines a user types before quitting
    MaxRounds   \* the 5 clients a server serves, the 3 rounds of kehou5

ASSUME SessionsAssumption ==
    /\ Server \notin Clients /\ NULL \notin Clients
    /\ MaxLines \in Nat /\ MaxRounds \in Nat \ {0}

(* A client may consist of two processes, or two threads. *)
S == <<Server, 1>>
Procs == {S} \cup (Clients \X {1, 2})

-----------------------------------------------------------------------------
(* Instructions.  "to" is where a read goes on at the end of the stream, a *)
(* prompt when the user quits; "errs" where a failed call may go on, 0     *)
(* being the end of the program.                                           *)

I(op, n, to, errs) == [op |-> op, n |-> n, to |-> to, errs |-> errs]

All == 9    \* a buffer larger than anything sent

Accept           == I("accept", 0, 0, {})
Connect(errs)    == I("connect", 0, 0, errs)
Fork             == I("fork", 0, 0, {})          \* fork() or pthread_create()
Type(quit)       == I("type", 0, quit, {})       \* fgets(stdin); 0: no way to quit
Put(n)           == I("put", n, 0, {})           \* write() of a message; 0: as long as what was read
Echo(to)         == I("echo", 0, to, {})         \* write() of what was read
Read(n, to, errs) == I("read", n, to, errs)
Body(n, to)      == I("body", n, to, {to})       \* read() of as many bytes as the header says
Fill(n, errs)    == I("fill", n, 0, errs)        \* read() until n bytes, one message, have come
Gather(to, errs) == I("fill", All, to, errs)     \* read() until the end
Line(to, errs)   == I("line", 0, to, errs)       \* fgets() from the connection, of one message
Peek             == I("peek", 0, 0, {})          \* recv() with MSG_PEEK and MSG_DONTWAIT
IfEof(to)        == I("feof", 0, to, {})
Show             == I("show", 0, 0, {})          \* takes what read() returned for one message
Choose(to)       == I("choose", 0, to, {})       \* depends on what the model leaves out
Goto(to)         == I("goto", 0, to, {})
Again(to)        == I("again", 0, to, {})        \* for (i = 0; i < 5; i++)
Shut             == I("shut", 0, 0, {})          \* shutdown(SHUT_WR)
Close            == I("close", 0, 0, {})
Exit             == I("exit", 0, 0, {})
ExitAll          == I("exitall", 0, 0, {})       \* exit() in one of two threads
Join             == I("join", 0, 0, {})          \* pthread_join() of a thread that exits the process

-----------------------------------------------------------------------------
(* The servers.  "exit" closes what is open. *)

hello_server      == <<Accept, Put(2), Exit>>
ch04_hello_server == hello_server
ch02_tcp_server   == hello_server
c2_tcp_server     == hello_server
c3_server         == hello_server
c1_server         == <<Accept, Put(2), Put(2), Read(All, 6, {4}), Goto(4), Exit>>
(* A failed read() leads to a write() of -1 bytes, which does nothing. *)
echo_server       == <<Accept, Read(All, 4, {2}), Echo(2), Close, Again(1), Exit>>
reuseadr_eserver  == <<Accept, Read(All, 4, {2}), Echo(2), Exit>>
(* The first byte is the number of operands. *)
op_server         == <<Accept, Read(1, 3, {3}), Fill(3, {3}), Show, Put(2), Close, Again(1), Exit>>
My_op_server      == <<Accept, Read(All, 3, {3}), Show, Put(0), Exit>>
tcp_server_kehou5 == <<Accept, Put(1), Put(2), Read(1, 5, {5}), Body(2, 6), Show, Again(2), Exit>>
(* The file may be missing, which ends in fclose(NULL). *)
tcp_server_kehou6 == <<Accept, Read(All, 3, {3}), Show, Choose(7), Put(2), Put(2), Exit>>
file_server       == <<Accept, Put(2), Put(2), Shut, Read(All, 6, {6}), Show, Exit>>
peek_recv         == <<Accept, Peek, Read(All, 4, {4}), Show, Exit>>
(* At the end of the stream fgets() leaves the buffer as it was. *)
echo_stdserv      == <<Accept, IfEof(5), Line(4, {4}), Echo(2), Close, Again(1), Exit>>
(* fclose(writefp) closes the descriptor, so that fgets(readfp) fails. *)
sep_serv          == <<Accept, Put(2), Exit>>
sep_serv2         == <<Accept, Put(2), Shut, Line(5, {5}), Exit>>

(* The clients. *)

hello_client      == <<Connect({0}), Read(All, 3, {0}), Show, Exit>>
ch04_hello_client == hello_client
tcp_client        == <<Connect({0}), Gather(3, {0}), Show, Exit>>
c2_tcp_client     == tcp_client
c3_client         == tcp_client
c1_client         == <<Connect({0}), Read(All, 3, {3}), Show, Type(0), Put(2), Goto(4)>>
echo_client       == <<Connect({0}), Type(7), Put(2), Read(All, 5, {5}), Show, Goto(2), Exit>>
ch18_echo_client  == echo_client
process_client    == echo_client
select_client     == echo_client
echo_client2      == <<Connect({0}), Type(6), Put(2), Fill(2, {0}), Goto(2), Exit>>
op_client         == <<Connect({0}), Put(3), Read(All, 4, {4}), Show, Exit>>
My_op_client      == <<Connect({0}), Put(2), Read(All, 4, {4}), Show, Exit>>
tcp_client_kehou5 == <<Connect({0}), Read(1, 3, {3}), Body(2, 4), Show, Put(1), Put(2), Again(2), Exit>>
(* A failed read() leads to an fwrite() of -1 bytes: it may crash.  Neither *)
(* this client nor the next two look at the result of connect().            *)
tcp_client_kehou6 == <<Connect({2}), Put(2), Gather(4, {0, 3}), Show, Exit>>
file_client       == <<Connect({2}), Gather(3, {0, 2}), Show, Put(2), Exit>>
peek_send         == <<Connect({0}), Put(2), Exit>>
stdio_client      == <<Connect({0}), Type(6), Put(2), Line(5, {5}), Goto(2), Exit>>
sep_clnt          == <<Connect({2}), Line(4, {4}), Goto(2), Put(2), Exit>>
(* The one that reads and the one that writes. *)
mpclient_reader   == <<Connect({0}), Fork, Read(All, 5, {4}), Goto(3), Exit>>
mpclient_writer   == <<Type(4), Put(2), Goto(1), Shut, Exit>>
process_writer    == <<Type(4), Put(2), Goto(1), Put(1), Shut, Exit>>
chat_recv_msg     == <<Connect({0}), Fork, Read(All, 3, {5}), Goto(3), Join>>
chat_send_msg     == <<Type(4), Put(2), Goto(1), ExitAll>>
epoll_chat_recv   == chat_recv_msg
ch17_chat_recv    == chat_recv_msg
tcp_epoll_client  == <<Connect({0}), Type(0), Put(2), Read(All, 6, {0}), Goto(2), Exit>>
tcpC_epoll_client == tcp_epoll_client

-----------------------------------------------------------------------------
(* Which programs meet.  The clients of the concurrent servers meet        *)
(* echo_server, which is such a server to the one client it serves.        *)

Meet(server, client) == [server |-> server, client |-> client, second |-> << >>, threads |-> FALSE]

Pairs == [
    hello     |-> Meet(hello_server, hello_client),
    hello2    |-> Meet(ch02_tcp_server, tcp_client),
    welcome   |-> Meet(c1_server, c1_client),
    echo      |-> Meet(echo_server, echo_client),
    echo2     |-> Meet(echo_server, echo_client2),
    reuse     |-> Meet(reuseadr_eserver, echo_client),
    op        |-> Meet(op_server, op_client),
    myop      |-> Meet(My_op_server, My_op_client),
    kehou5    |-> Meet(tcp_server_kehou5, tcp_client_kehou5),
    kehou6    |-> Meet(tcp_server_kehou6, tcp_client_kehou6),
    file      |-> Meet(file_server, file_client),
    peek      |-> Meet(peek_recv, peek_send),
    stdio     |-> Meet(echo_stdserv, stdio_client),
    sep       |-> Meet(sep_serv, sep_clnt),
    sep2      |-> Meet(sep_serv2, sep_clnt),
    mp        |-> [server |-> echo_server, client |-> mpclient_reader, second |-> mpclient_writer, threads |-> FALSE],
    mpq       |-> [server |-> echo_server, client |-> mpclient_reader, second |-> process_writer, threads |-> FALSE],
    stdmp     |-> [server |-> echo_stdserv, client |-> mpclient_reader, second |-> mpclient_writer, threads |-> FALSE],
    chat      |-> [server |-> echo_server, client |-> chat_recv_msg, second |-> chat_send_msg, threads |-> TRUE],
    epoll     |-> Meet(echo_server, tcp_epoll_client)]

(* The programs that take what one read() returns for a message. *)
ReadOnce == {hello_client, c1_client, echo_client, op_client, My_op_server, My_op_client,
             tcp_server_kehou5, tcp_client_kehou5, tcp_server_kehou6, file_server, peek_recv}

VARIABLES
    pair,       \* the programs that run, a name in Pairs
    proc,       \* for each process: pc, the buffers, the end-of-file flag, the loop's counter
    conn,       \* for each client: "new", "queued", "served" or "refused"
    typed,      \* for each client: the lines its user has typed
    fds,        \* for each client: which of its processes hold the descriptor
    net,        \* for each connection: its two ends
    serving,    \* the client whose connection the server holds, or NULL
    torn,       \* history: processes that have taken something else for one message
    killed      \* history: processes that SIGPIPE has ended

vars == <<pair, proc, conn, typed, fds, net, serving, torn, killed>>

Msg(n) == [j \in 1 .. n |-> <<j, n>>]
IsMsg(b) == \E n \in 1 .. 3 : b = Msg(n)
IsLast(x) == x[1] = x[2]

(* Complete messages, one after the other. *)
IsMsgs(b) ==
    /\ b # << >> => b[1][1] = 1 /\ IsLast(b[Len(b)])
    /\ \A i \in 1 .. Len(b) - 1 :
          IF IsLast(b[i]) THEN b[i + 1][1] = 1 ELSE b[i + 1] = <<b[i][1] + 1, b[i][2]>>

(* The two ends of a connection. *)
Ends(side, mine, theirs) == [z \in {"server", "client"} |-> IF z = side THEN mine ELSE theirs]

OpenEnd == [in |-> << >>, open |-> TRUE, shut |-> FALSE, err |-> "none"]

(* Bound: of the clients that are two processes, one comes. *)
Coming == IF Pairs[pair].second = << >> THEN Clients ELSE {CHOOSE c \in Clients : TRUE}

Init ==
    /\ pair \in DOMAIN Pairs
    /\ proc = [p \in Procs |-> [pc |-> IF p = S \/ p \in Coming \X {1} THEN 1 ELSE 0, buf |-> << >>, ahead |-> << >>,
                                eof |-> FALSE, round |-> 1]]
    /\ conn = [c \in Clients |-> "new"]
    /\ typed = [c \in Clients |-> 0]
    /\ fds = [c \in Clients |-> {}]
    /\ net = [c \in Clients |-> Ends("server", OpenEnd, OpenEnd)]
    /\ serving = NULL
    /\ torn = {}
    /\ killed = {}

-----------------------------------------------------------------------------
(* A process and its end of the connection. *)

Script(p) == IF p = S THEN Pairs[pair].server ELSE IF p[2] = 1 THEN Pairs[pair].client ELSE Pairs[pair].second
Instr(p)  == Script(p)[proc[p].pc]
At(p, op) == proc[p].pc # 0 /\ Instr(p).op = op

SideOf(p) == IF p = S THEN "server" ELSE "client"
Other(side) == IF side = "server" THEN "client" ELSE "server"
ConnOf(p) == IF p = S THEN serving ELSE p[1]
Mine(p)   == net[ConnOf(p)][SideOf(p)]
Theirs(p) == net[ConnOf(p)][Other(SideOf(p))]

(* What a read() finds. *)
Data(p) == Mine(p).in # << >>
Failed(p) == ~ Data(p) /\ Mine(p).err \in {"reset", "unconnected"}
Ended(p) ==
    /\ ~ Data(p)
    /\ \/ Mine(p).err = "pipe"
       \/ Mine(p).err = "none" /\ (Theirs(p).shut \/ ~ Theirs(p).open)

(* Continue at "to" with the buffer b. *)
GoOn(p, to, b) == proc' = [proc EXCEPT ![p].pc = to, ![p].buf = b]
Continue(p) == GoOn(p, proc[p].pc + 1, proc[p].buf)

(* An error is reported once; then the connection is at its end. *)
Reported(p) ==
    net' = [net EXCEPT ![ConnOf(p)][SideOf(p)].err = IF @ = "reset" THEN "pipe" ELSE @]

(* The connections after one of the ends of c has been closed.  Unread     *)
(* bytes reset it, and the reset may take some of the other's bytes along. *)
Closings(n, c, side) ==
    LET me == n[c][side]
        peer == n[c][Other(side)]
        gone == [me EXCEPT !.open = FALSE, !.in = << >>]
        failure == IF me.shut THEN "pipe" ELSE "reset"
        after == IF me.in # << >> /\ me.err = "none" /\ peer.open
                 THEN {[peer EXCEPT !.err = failure, !.in = SubSeq(@, 1, k)] : k \in 0 .. Len(peer.in)}
                 ELSE {peer}
    IN  {[n EXCEPT ![c] = Ends(side, gone, e)] : e \in after}

(* The end of the listening socket resets the connections in its queue. *)
Unlistened ==
    [c \in Clients |->
        IF conn[c] = "queued"
        THEN Ends("client", [net[c].client EXCEPT !.err = IF net[c].client.shut THEN "pipe" ELSE "reset"],
                            [net[c].server EXCEPT !.open = FALSE, !.in = << >>])
        ELSE net[c]]

(* The processes in D, of one program, close their connection. *)
Release(D, n) ==
    LET p == CHOOSE q \in D : TRUE
        c == ConnOf(p)
    IN  IF p = S
        THEN /\ serving' = NULL
             /\ net' \in IF c = NULL THEN {n} ELSE Closings(n, c, "server")
             /\ UNCHANGED fds
        ELSE /\ fds' = [fds EXCEPT ![c] = {k \in @ : <<c, k>> \notin D}]
             /\ net' \in IF fds[c] # {} /\ fds'[c] = {} THEN Closings(n, c, "client") ELSE {n}
             /\ UNCHANGED serving

End(D) ==
    /\ proc' = [q \in Procs |-> IF q \in D THEN [proc[q] EXCEPT !.pc = 0] ELSE proc[q]]
    /\ Release(D, IF S \in D THEN Unlistened ELSE net)

Together(p) == IF p # S /\ Pairs[pair].threads THEN {<<p[1], 1>>, <<p[1], 2>>} ELSE {p}

-----------------------------------------------------------------------------
(* The calls. *)

DoAccept(c) ==
    /\ At(S, "accept")
    /\ conn[c] = "queued"
    /\ conn' = [conn EXCEPT ![c] = "served"]
    /\ serving' = c
    /\ proc' = [proc EXCEPT ![S].pc = @ + 1, ![S].ahead = << >>, ![S].eof = FALSE]
    /\ UNCHANGED <<pair, typed, fds, net, torn, killed>>

DoConnect(p) ==
    /\ At(p, "connect")
    /\ proc[S].pc # 0
    /\ conn' = [conn EXCEPT ![p[1]] = "queued"]
    /\ fds' = [fds EXCEPT ![p[1]] = {1}]
    /\ Continue(p)
    /\ UNCHANGED <<pair, typed, net, serving, torn, killed>>

(* The server has ended. *)
ConnectFails(p) ==
    /\ At(p, "connect")
    /\ proc[S].pc = 0
    /\ conn' = [conn EXCEPT ![p[1]] = "refused"]
    /\ net' = [net EXCEPT ![p[1]].client.err = "unconnected"]
    /\ \E to \in Instr(p).errs : GoOn(p, to, << >>)
    /\ UNCHANGED <<pair, typed, fds, serving, torn, killed>>

(* The second process or thread; the descriptor of a thread is the same. *)
DoFork(p) ==
    /\ At(p, "fork")
    /\ proc' = [proc EXCEPT ![p].pc = @ + 1, ![<<p[1], 2>>].pc = 1]
    /\ fds' = [fds EXCEPT ![p[1]] = {1, 2}]
    /\ UNCHANGED <<pair, conn, typed, net, serving, torn, killed>>

TypeLine(p) ==
    /\ At(p, "type")
    /\ typed[p[1]] < MaxLines
    /\ typed' = [typed EXCEPT ![p[1]] = @ + 1]
    /\ GoOn(p, proc[p].pc + 1, << >>)
    /\ UNCHANGED <<pair, conn, fds, net, serving, torn, killed>>

TypeQuit(p) ==
    /\ At(p, "type")
    /\ Instr(p).to # 0
    /\ GoOn(p, Instr(p).to, << >>)
    /\ UNCHANGED <<pair, conn, typed, fds, net, serving, torn, killed>>

(* What p writes next, and where it goes on. *)
Writes(p) == At(p, "put") \/ At(p, "echo")
Output(p) ==
    LET i == Instr(p)
    IN  IF i.op = "echo" THEN proc[p].buf
        ELSE IF i.n = 0 THEN Msg(Len(proc[p].buf)) ELSE Msg(i.n)
AfterWrite(p) == IF At(p, "echo") THEN Instr(p).to ELSE proc[p].pc + 1

(* Bytes for an end that is closed get a reset in return, sooner or later; *)
(* a write() that meets the reset fails.                                   *)
Write(p) ==
    /\ Writes(p)
    /\ LET c == ConnOf(p)
           e == Mine(p).err
       IN  \/ /\ Output(p) = << >>
              /\ UNCHANGED net
           \/ /\ Output(p) # << >> /\ e = "none" /\ Theirs(p).open
              /\ net' = [net EXCEPT ![c][Other(SideOf(p))].in = @ \o Output(p)]
           \/ /\ Output(p) # << >> /\ e = "none" /\ ~ Theirs(p).open
              /\ \E f \in {"none", "pipe"} : net' = [net EXCEPT ![c][SideOf(p)].err = f]
           \/ /\ Output(p) # << >> /\ e = "reset"
              /\ Reported(p)
    /\ GoOn(p, AfterWrite(p), proc[p].buf)
    /\ UNCHANGED <<pair, conn, typed, fds, serving, torn, killed>>

(* SIGPIPE. *)
WriteKills(p) ==
    /\ Writes(p)
    /\ Output(p) # << >>
    /\ Mine(p).err \in {"pipe", "unconnected"}
    /\ killed' = killed \cup Together(p)
    /\ End(Together(p))
    /\ UNCHANGED <<pair, conn, typed, torn>>

(* The first k bytes leave the receive buffer. *)
Taken(p, k) == net' = [net EXCEPT ![ConnOf(p)][SideOf(p)].in = SubSeq(@, k + 1, Len(@))]

(* "body": the last header says how many bytes follow; anything else than  *)
(* a header is some number.                                                *)
MostOf(p) ==
    IF Instr(p).op = "body" /\ proc[p].buf # Msg(1) THEN 1 .. All ELSE {Instr(p).n}

ReadSome(p) ==
    /\ At(p, "read") \/ At(p, "body")
    /\ Data(p)
    /\ \E k \in 1 .. Len(Mine(p).in) :
          /\ \E most \in MostOf(p) : k <= most
          /\ Taken(p, k)
          /\ GoOn(p, proc[p].pc + 1, SubSeq(Mine(p).in, 1, k))
    /\ UNCHANGED <<pair, conn, typed, fds, serving, torn, killed>>

ReadEnd(p) ==
    /\ At(p, "read") \/ At(p, "body")
    /\ Ended(p)
    /\ GoOn(p, Instr(p).to, << >>)
    /\ UNCHANGED <<pair, conn, typed, fds, net, serving, torn, killed>>

(* p takes b for a message. *)
Judge(p, b) == torn' = IF b = << >> \/ IsMsg(b) THEN torn ELSE torn \cup {p}

(* The count of a loop that waits for n bytes is the length of a message. *)
Counted(p, b) == IF Instr(p).n # All THEN Judge(p, b) ELSE UNCHANGED torn

(* Mutant of FillSome: one read() has to do. *)
FillSomeOnce(p) ==
    /\ At(p, "fill")
    /\ Data(p)
    /\ \E k \in 1 .. Len(Mine(p).in) :
          /\ Taken(p, k)
          /\ LET b == proc[p].buf \o SubSeq(Mine(p).in, 1, k)
             IN  Counted(p, b) /\ GoOn(p, proc[p].pc + 1, b)
    /\ UNCHANGED <<pair, conn, typed, fds, serving, killed>>

FillSome(p) ==
    /\ At(p, "fill")
    /\ Data(p)
    /\ \E k \in 1 .. Len(Mine(p).in) :
          /\ Taken(p, k)
          /\ LET b == proc[p].buf \o SubSeq(Mine(p).in, 1, k)
             IN  IF Len(b) >= Instr(p).n
                 THEN Counted(p, b) /\ GoOn(p, proc[p].pc + 1, b)
                 ELSE UNCHANGED torn /\ GoOn(p, proc[p].pc, b)
    /\ UNCHANGED <<pair, conn, typed, fds, serving, killed>>

(* A loop that waits for a number of bytes spins at the end of the stream. *)
FillEnd(p) ==
    /\ At(p, "fill")
    /\ Ended(p)
    /\ Instr(p).to # 0
    /\ GoOn(p, Instr(p).to, proc[p].buf)
    /\ UNCHANGED <<pair, conn, typed, fds, net, serving, torn, killed>>

(* A failed read(): the loop, the program, or its next instruction. *)
ReadFails(p) ==
    /\ \E op \in {"read", "body", "fill", "line"} : At(p, op)
    /\ At(p, "line") => ~ \E i \in DOMAIN proc[p].ahead : IsLast(proc[p].ahead[i])
    /\ Failed(p)
    /\ \E to \in Instr(p).errs :
          IF to = 0
          THEN End({p})
          ELSE /\ proc' = [proc EXCEPT ![p].pc = to, ![p].ahead = << >>,
                                       ![p].buf = IF At(p, "line") \/ At(p, "fill") THEN @ ELSE << >>]
               /\ Reported(p)
               /\ UNCHANGED <<fds, serving>>
    /\ UNCHANGED <<pair, conn, typed, torn, killed>>

(* fgets(): a line from the stream's buffer, ... *)
LineTake(p) ==
    /\ At(p, "line")
    /\ \E i \in DOMAIN proc[p].ahead :
          /\ IsLast(proc[p].ahead[i])
          /\ \A j \in 1 .. i - 1 : ~ IsLast(proc[p].ahead[j])
          /\ Judge(p, SubSeq(proc[p].ahead, 1, i))
          /\ proc' = [proc EXCEPT ![p].pc = @ + 1, ![p].buf = SubSeq(proc[p].ahead, 1, i),
                                  ![p].ahead = SubSeq(@, i + 1, Len(@))]
    /\ UNCHANGED <<pair, conn, typed, fds, net, serving, killed>>

(* ... more for the buffer, ... *)
LineFetch(p) ==
    /\ At(p, "line")
    /\ ~ \E i \in DOMAIN proc[p].ahead : IsLast(proc[p].ahead[i])
    /\ Data(p)
    /\ \E k \in 1 .. Len(Mine(p).in) :
          /\ Taken(p, k)
          /\ proc' = [proc EXCEPT ![p].ahead = @ \o SubSeq(Mine(p).in, 1, k)]
    /\ UNCHANGED <<pair, conn, typed, fds, serving, torn, killed>>

(* ... what is left at the end, or NULL. *)
LineEnd(p) ==
    /\ At(p, "line")
    /\ ~ \E i \in DOMAIN proc[p].ahead : IsLast(proc[p].ahead[i])
    /\ Ended(p)
    /\ proc' = [proc EXCEPT ![p].eof = TRUE, ![p].ahead = << >>,
                            ![p].pc = IF proc[p].ahead = << >> THEN Instr(p).to ELSE @ + 1,
                            ![p].buf = IF proc[p].ahead = << >> THEN @ ELSE proc[p].ahead]
    /\ Judge(p, proc[p].ahead)
    /\ UNCHANGED <<pair, conn, typed, fds, net, serving, killed>>

(* The loop around a peek that does not block ends when there is a byte. *)
DoPeek(p) ==
    /\ At(p, "peek")
    /\ Data(p)
    /\ Continue(p)
    /\ UNCHANGED <<pair, conn, typed, fds, net, serving, torn, killed>>

(* What was read() is taken for a message (by Gather, for some messages). *)
DoShow(p) ==
    /\ At(p, "show")
    /\ LET b == proc[p].buf
           gathered == Script(p)[proc[p].pc - 1].n = All /\ Script(p)[proc[p].pc - 1].op = "fill"
       IN  torn' = IF b = << >> \/ IsMsg(b) \/ (gathered /\ IsMsgs(b)) THEN torn ELSE torn \cup {p}
    /\ Continue(p)
    /\ UNCHANGED <<pair, conn, typed, fds, net, serving, killed>>

Jump(p) ==
    /\ \/ At(p, "goto") /\ GoOn(p, Instr(p).to, proc[p].buf)
       \/ At(p, "feof") /\ GoOn(p, IF proc[p].eof THEN Instr(p).to ELSE proc[p].pc + 1, proc[p].buf)
       \/ At(p, "choose") /\ \E to \in {Instr(p).to, proc[p].pc + 1} : GoOn(p, to, proc[p].buf)
       \/ /\ At(p, "again")
          /\ IF proc[p].round < MaxRounds
             THEN proc' = [proc EXCEPT ![p].pc = Instr(p).to, ![p].round = @ + 1]
             ELSE Continue(p)
    /\ UNCHANGED <<pair, conn, typed, fds, net, serving, torn, killed>>

(* Mutant of DoShut: forgotten. *)
DoShutNot(p) ==
    /\ At(p, "shut")
    /\ Continue(p)
    /\ UNCHANGED <<pair, conn, typed, fds, net, serving, torn, killed>>

(* Mutant of DoShut: close(), where the other direction is still needed. *)
DoShutBoth(p) ==
    /\ At(p, "shut")
    /\ End({p})
    /\ UNCHANGED <<pair, conn, typed, torn, killed>>

DoShut(p) ==
    /\ At(p, "shut")
    /\ net' = [net EXCEPT ![ConnOf(p)][SideOf(p)].shut = TRUE]
    /\ Continue(p)
    /\ UNCHANGED <<pair, conn, typed, fds, serving, torn, killed>>

DoClose(p) ==
    /\ At(p, "close")
    /\ Release({p}, net)
    /\ Continue(p)
    /\ UNCHANGED <<pair, conn, typed, torn, killed>>

DoExit(p) ==
    /\ \/ At(p, "exit") /\ End({p})
       \/ At(p, "exitall") /\ End(Together(p))
    /\ UNCHANGED <<pair, conn, typed, torn, killed>>

Step(p) ==
    \/ DoConnect(p) \/ ConnectFails(p) \/ DoFork(p) \/ TypeLine(p) \/ TypeQuit(p)
    \/ Write(p) \/ WriteKills(p)
    \/ ReadSome(p) \/ ReadEnd(p) \/ FillSome(p) \/ FillEnd(p) \/ ReadFails(p)
    \/ LineTake(p) \/ LineFetch(p) \/ LineEnd(p) \/ DoPeek(p) \/ DoShow(p)
    \/ Jump(p) \/ DoShut(p) \/ DoClose(p) \/ DoExit(p)

Next ==
    \/ \E c \in Clients : DoAccept(c)
    \/ \E p \in Procs : Step(p)

(* Processes run, and users type until they quit. *)
Fairness ==
    /\ WF_vars(\E c \in Clients : DoAccept(c))
    /\ \A p \in Procs : WF_vars(Step(p))

Spec == Init /\ [][Next]_vars /\ Fairness

-----------------------------------------------------------------------------
(* A program that reads until a message is complete (by count, by line, or *)
(* up to the end of the stream) never takes a part of one, or two, for a   *)
(* message, however the stream is cut; unless its server has, and closes   *)
(* on the rest of a message, which resets the connection.                  *)
WholeMessages == \A p \in torn : Script(p) \in ReadOnce \/ (p # S /\ S \in torn)

(* SIGPIPE ends a server only if its client is one that does not wait for  *)
(* all it is due before it leaves.                                         *)
Impolite == ReadOnce \cup {chat_recv_msg}
ServerSurvives == S \in killed => Pairs[pair].client \in Impolite

(* A server that has shut down only its direction of the stream gets the   *)
(* client's last words (ch07/file_server.c, ch16/sep_serv2.c).             *)
FarewellArrives ==
    pair \in {"file", "sep2"} /\ proc[S].pc = 0 => S \notin killed /\ proc[S].buf # << >>

(* Everybody comes to an end, but where users cannot quit, and where a     *)
(* refused client reads from a socket without a connection for ever.       *)
Over(p) ==
    \/ proc[p].pc = 0
    \/ IF p = S THEN At(S, "accept") ELSE conn[p[1]] = "refused"
SessionOver == pair \notin {"welcome", "epoll"} => \A p \in Procs : Over(p)
SessionsEnd == <>SessionOver
=============================================================================
