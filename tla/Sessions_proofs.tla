--------------------------- MODULE Sessions_proofs ---------------------------
(***************************************************************************)
(* What holds between the servers and the clients of Sessions, for any     *)
(* number of clients, lines and rounds, and for each of the pairs.         *)
(*                                                                         *)
(* The invariant, Session, has a part for all pairs: the types, where the  *)
(* processes stand (Positions), and what a connection is like before it is *)
(* made, in the queue, and served (Connections).  On top of it, each pair  *)
(* has what its programs need: that a client waits where it is to wait     *)
(* (Patience), that nobody shuts a direction that is still used (Unshut),  *)
(* and which bytes are in the client's buffer and on their way to it       *)
(* (Text), or on their way round (Round, LineIs), and that the lines that  *)
(* are on their way are whole (Lined, Rowed).                              *)
(*                                                                         *)
(* The first half says what each step does, as equations on fields: to a   *)
(* process, to the two ends of a connection, and then to one client,       *)
(* through whose eyes a step is somebody else's (Still, Left), its own     *)
(* (Own) or the server's (Served, DoAccept).  The second half goes through *)
(* the pairs.                                                              *)
(***************************************************************************)
EXTENDS Sessions, TLAPS

Byte == Nat \X Nat
(* Sessions *)

P1(d) == <<d, 1>>
P2(d) == <<d, 2>>

End0 == [in : Seq(Byte), open : BOOLEAN, shut : BOOLEAN, err : {"none", "reset", "pipe", "unconnected"}]
Process == [pc : Nat, buf : Seq(Byte), ahead : Seq(Byte), eof : BOOLEAN, round : Nat]

(* Where a server has a connection. *)
Holding(s) == {i \in 2 .. Len(s) : \A j \in 1 .. i - 1 : s[j].op # "close"}

SessionTypes ==
    /\ pair \in DOMAIN Pairs
    /\ proc \in [Procs -> Process]
    /\ conn \in [Clients -> {"new", "queued", "served", "refused"}]
    /\ fds \in [Clients -> SUBSET {1, 2}]
    /\ net \in [Clients -> [{"server", "client"} -> End0]]
    /\ serving \in Clients \cup {NULL}

(* Where the processes are. *)
Positions ==
    /\ \A p \in Procs : proc[p].pc \in 0 .. Len(Script(p))
    /\ proc[S].pc \in Holding(Script(S)) <=> serving # NULL

Here(d) == (conn[d] = "queued" /\ proc[S].pc # 0) \/ serving = d

Connections(d) ==
    /\ conn[d] = "new" =>
        /\ net[d] = Ends("server", OpenEnd, OpenEnd)
        /\ fds[d] = {} /\ proc[P1(d)].pc \in {0, 1} /\ proc[P2(d)].pc = 0
        /\ proc[P1(d)].buf = << >> /\ proc[P1(d)].ahead = << >>
    /\ proc[P1(d)].pc = 1 => conn[d] = "new"
    /\ serving = d => conn[d] = "served"
    /\ Here(d) => net[d].server.open
    /\ conn[d] = "queued" /\ proc[S].pc # 0 =>
        /\ ~ net[d].server.shut /\ net[d].server.err = "none"
        /\ net[d].client.in = << >> /\ net[d].client.err = "none"

-----------------------------------------------------------------------------
Stays(x) ==
    IF x \in {"hello2", "file"} THEN {2}
    ELSE IF x \in {"kehou6", "sep", "sep2"} THEN {2, 3}
    ELSE IF x \in {"mp", "mpq", "stdmp"} THEN {2, 3, 4}
    ELSE {2, 3, 4, 5}
Patients == {"hello2", "file", "kehou6", "sep", "sep2", "mp", "mpq", "stdmp", "epoll"}

Patience(d) ==
    Here(d) /\ ~ net[d].server.shut =>
        /\ proc[P1(d)].pc \in Stays(pair)
        /\ 1 \in fds[d] /\ net[d].client.open
        /\ net[d].client.err = "none" /\ net[d].server.err = "none"

Twice == Msg(2) \o Msg(2)
Whole == {<< >>, Msg(2), Twice}

Text(d) == proc[P1(d)].buf \o net[d].client.in

Hello2(d) ==
    /\ net[d].server.in = << >>
    /\ proc[P1(d)].pc \in {1, 2, 3} => Text(d) \in Whole
    /\ Here(d) => Text(d) = IF serving = d /\ proc[S].pc = 3 THEN Msg(2) ELSE << >>
    /\ proc[P1(d)].pc = 3 => net[d].client.in = << >>

Kehou6(d) ==
    /\ Here(d) /\ (serving = d => proc[S].pc = 2) => net[d].server.in = IF proc[P1(d)].pc = 3 THEN Msg(2) ELSE << >>
    /\ Here(d) /\ (serving = d => proc[S].pc <= 5) => Text(d) = << >>
    /\ serving = d =>
        /\ proc[S].pc >= 3 => proc[P1(d)].pc = 3
        /\ proc[S].pc = 3 => \/ net[d].server.in = << >>
                             \/ proc[S].buf # << >> /\ ~ IsMsg(proc[S].buf)
        /\ proc[S].pc > 3 => net[d].server.in = << >> \/ S \in torn
        /\ proc[S].pc = 6 => Text(d) = Msg(2)
        /\ proc[S].pc = 7 => Text(d) \in {<< >>, Twice}
    /\ proc[P1(d)].pc \in {2, 3, 4} /\ serving # d => Text(d) \in Whole \/ S \in torn
    /\ proc[P1(d)].pc = 4 => net[d].client.in = << >> \/ S \in torn

FileSaid == IF proc[S].pc = 2 THEN << >> ELSE IF proc[S].pc = 3 THEN Msg(2) ELSE Twice
File(d) ==
    /\ proc[P1(d)].pc \in {1, 2, 3, 4} => net[d].server.in = << >>
    /\ proc[P1(d)].pc \in {1, 2, 3} => Text(d) \in Whole
    /\ Here(d) /\ proc[P1(d)].pc \in {2, 3} => Text(d) = IF serving = d THEN FileSaid ELSE << >>
    /\ proc[P1(d)].pc \in {3, 4, 5} => net[d].client.in = << >>
    /\ serving = d =>
        /\ net[d].server.shut <=> proc[S].pc >= 5
        /\ net[d].server.err = "none"
        /\ proc[P1(d)].pc \in {2, 3, 4, 5} => net[d].client.open /\ net[d].client.err = "none"
        /\ proc[S].pc = 5 /\ proc[P1(d)].pc \in {5, 0} => net[d].server.in # << >>
        /\ proc[S].pc >= 6 => proc[P1(d)].pc \in {5, 0}
FileTold == proc[S].pc \in {0, 6, 7} => proc[S].buf # << >>

Sep2(d) ==
    /\ Here(d) /\ proc[P1(d)].pc \in {2, 3, 4} => net[d].server.in = << >>
    /\ serving = d =>
        /\ net[d].server.shut <=> proc[S].pc >= 4
        /\ net[d].server.err = "none"
        /\ proc[P1(d)].pc \in {2, 3, 4, 5} => net[d].client.open /\ net[d].client.err = "none"
        /\ proc[P1(d)].pc \in {4, 5} => net[d].client.in = << >>
        /\ proc[P1(d)].pc \in {2, 3, 4} => proc[S].ahead = << >>
        /\ proc[S].pc = 4 /\ proc[P1(d)].pc \in {5, 0} => proc[S].ahead # << >> \/ net[d].server.in # << >>
        /\ proc[S].pc = 5 => proc[P1(d)].pc \in {5, 0}
Sep2Told == proc[S].pc \in {0, 5} => proc[S].buf # << >>

(* The three bytes of the request, in the buffer and on the way; the buffer's, all of them. *)
Coming3(d) == proc[S].buf \o net[d].server.in = Msg(3) /\ Len(proc[S].buf) < 3
Came3 == proc[S].buf = Msg(3)
Op(d) ==
    Here(d) /\ (serving = d => proc[S].pc <= 5) =>
        /\ proc[P1(d)].pc \in {2, 3} /\ net[d].client.open
        /\ net[d].client.err = "none" /\ net[d].server.err = "none" /\ net[d].client.in = << >>
        /\ (serving = d => proc[S].pc = 2) => net[d].server.in = IF proc[P1(d)].pc = 2 THEN << >> ELSE Msg(3)
        /\ serving = d => /\ proc[S].pc = 3 => proc[P1(d)].pc = 3 /\ Coming3(d)
                          /\ proc[S].pc = 4 => Came3

(* The bytes that have come back to echo_client2, that the server has in hand, and that are on their way to it. *)
Turned(d) == IF serving = d /\ proc[S].pc = 3 THEN proc[S].buf ELSE << >>
Round(d) == (Text(d) \o Turned(d)) \o net[d].server.in
Begun == {<< >>, <<<<1, 2>>>>, Msg(2)}
Bits(d) ==
    /\ proc[P1(d)].pc = 3 => Text(d) = << >>
    /\ proc[P1(d)].pc \in {2, 5} => net[d].client.in = << >>
    /\ proc[P1(d)].pc = 4 => Text(d) \in Begun
Trip(d) ==
    /\ net[d].server.err = "none" /\ net[d].client.err = "none"
    /\ proc[P1(d)].pc # 0 => net[d].client.open
    /\ serving = d /\ proc[S].pc = 3 => Turned(d) # << >>
    /\ IF proc[P1(d)].pc = 4
       THEN Round(d) = Msg(2)
       ELSE net[d].client.in = << >> /\ Turned(d) = << >> /\ net[d].server.in = << >>
Echo2(d) == Bits(d) /\ (Here(d) => Trip(d))

(* The line on its way to the server, in the server's buffer, and on its way back. *)
Sent(d) == (IF serving = d THEN proc[S].ahead ELSE << >>) \o net[d].server.in
Reply(d) == IF serving = d /\ proc[S].pc = 4 /\ ~ proc[S].eof THEN proc[S].buf ELSE << >>
Back(d) == proc[P1(d)].ahead \o net[d].client.in
LineIs(d, x, y, z) == Sent(d) = x /\ Reply(d) = y /\ Back(d) = z
NoLine(d) == LineIs(d, << >>, << >>, << >>)
OneLine(d) == LineIs(d, Msg(2), << >>, << >>) \/ LineIs(d, << >>, Msg(2), << >>) \/ LineIs(d, << >>, << >>, Msg(2))
Stdio(d) ==
    Here(d) =>
        /\ proc[P1(d)].pc # 0 => net[d].client.open
        /\ net[d].client.err = "none"
        /\ net[d].server.err # "none" => serving = d /\ proc[S].eof /\ proc[S].pc \in {2, 5}
        /\ serving = d => /\ proc[S].pc = 3 => ~ proc[S].eof
                          /\ proc[S].eof => proc[P1(d)].pc = 0 /\ ~ net[d].client.open
        /\ proc[P1(d)].pc = 4 => OneLine(d)
        /\ proc[P1(d)].pc # 4 => NoLine(d)

(* Lines of two bytes, and nothing else; what the client that reads lines has to read, and what the server has. *)
Rows(b) == \E n \in Nat : Len(b) = 2 * n /\ \A i \in 1 .. n : b[2 * i - 1] = <<1, 2>> /\ b[2 * i] = <<2, 2>>
Reading(x) == IF x = "stdio" THEN 1 .. 6 ELSE 1 .. 3
Lined(d) ==
    proc[P1(d)].pc \in Reading(pair) => Rows(Back(d)) /\ (pair = "sep" /\ Here(d) => net[d].server.in = << >>)
Rowed(d) == Here(d) => Rows(Sent(d))

-----------------------------------------------------------------------------
(* What p takes for a message may be torn. *)
Marks(p) == killed' = killed /\ (torn' = torn \/ torn' = torn \cup {p})

(* The programs. *)

Advance == {"accept", "connect", "fork", "type", "put", "read", "body", "fill", "line", "peek", "feof", "show",
            "choose", "again", "shut", "close"}
Jumps == {"type", "echo", "read", "body", "fill", "line", "feof", "choose", "goto", "again"}

(* Where a program may go on after its instruction i, if it does not end. *)
Follows(s, i, j) ==
    \/ s[i].op \in Advance /\ j = i + 1
    \/ s[i].op \in Jumps /\ j = s[i].to
    \/ s[i].op \in {"fill", "line"} /\ j = i
    \/ j \in s[i].errs

Program(s) ==
    /\ Len(s) \in Nat
    /\ \A i \in 1 .. Len(s) : /\ s[i].n \in Nat /\ s[i].to \in 0 .. Len(s) /\ s[i].errs \subseteq 0 .. Len(s)
                              /\ s[i].op \in Advance => i < Len(s)

Serves(s) ==
    /\ Program(s) /\ Len(s) >= 2
    /\ \A i \in 1 .. Len(s) : (s[i].op = "accept" <=> i = 1) /\ s[i].op \notin {"connect", "fork", "type", "exitall", "join"}
    /\ 2 \in Holding(s)
    /\ \A i \in 1 .. Len(s) : s[i].op \in Jumps /\ s[i].op # "fill" => s[i].to # 0
    /\ \A i \in 1 .. Len(s) : 0 \notin s[i].errs
    /\ \A i \in Holding(s) : s[i].op # "close" => \A j \in 1 .. Len(s) : Follows(s, i, j) => j \in Holding(s)
    /\ \A i \in 2 .. Len(s) : /\ i \notin Holding(s) => s[i].op \in {"again", "exit"}
                              /\ i \notin Holding(s) \/ s[i].op = "close" =>
                                    \A j \in 1 .. Len(s) : Follows(s, i, j) => j \notin Holding(s)

Calls(s) ==
    /\ Program(s) /\ Len(s) >= 1
    /\ \A i \in 1 .. Len(s) : (s[i].op = "connect" <=> i = 1) /\ s[i].op \notin {"accept", "close", "peek"}
                              /\ ~ Follows(s, i, 1)

NoFork(s) == \A i \in 1 .. Len(s) : s[i].op # "fork"

Helps(s) ==
    /\ Program(s)
    /\ \A i \in 1 .. Len(s) : s[i].op \notin {"accept", "close", "connect", "fork", "show", "fill", "line"}

LEMMA HelloServerText ==
    /\ Len(hello_server) = 3
    /\ hello_server[1] = I("accept", 0, 0, {}) /\ hello_server[2] = I("put", 2, 0, {})
    /\ hello_server[3] = I("exit", 0, 0, {})
  BY DEF hello_server, Accept, Exit, Put

LEMMA HelloServer == Serves(hello_server)
  <1>1. Holding(hello_server) = 2 .. 3
    BY HelloServerText DEF Holding, I
  <1>2. Program(hello_server)
    BY HelloServerText DEF Program, I, Advance
  <1> QED BY HelloServerText, <1>1, <1>2 DEF Serves, I, Follows, Advance, Jumps

LEMMA C1ServerText ==
    /\ Len(c1_server) = 6
    /\ c1_server[1] = I("accept", 0, 0, {}) /\ c1_server[2] = I("put", 2, 0, {}) /\ c1_server[3] = I("put", 2, 0, {})
    /\ c1_server[4] = I("read", 9, 6, {4}) /\ c1_server[5] = I("goto", 0, 4, {}) /\ c1_server[6] = I("exit", 0, 0, {})
  BY DEF c1_server, Accept, All, Exit, Goto, Put, Read

LEMMA C1Server == Serves(c1_server)
  <1>1. Holding(c1_server) = 2 .. 6
    BY C1ServerText DEF Holding, I
  <1>2. Program(c1_server)
    BY C1ServerText DEF Program, I, Advance
  <1> QED BY C1ServerText, <1>1, <1>2 DEF Serves, I, Follows, Advance, Jumps

LEMMA EchoServerText ==
    /\ Len(echo_server) = 6
    /\ echo_server[1] = I("accept", 0, 0, {}) /\ echo_server[2] = I("read", 9, 4, {2}) /\ echo_server[3] = I("echo", 0, 2, {})
    /\ echo_server[4] = I("close", 0, 0, {}) /\ echo_server[5] = I("again", 0, 1, {}) /\ echo_server[6] = I("exit", 0, 0, {})
  BY DEF echo_server, Accept, Again, All, Close, Echo, Exit, Read

LEMMA EchoServer == Serves(echo_server)
  <1>1. Holding(echo_server) = 2 .. 4
    BY EchoServerText DEF Holding, I
  <1>2. Program(echo_server)
    BY EchoServerText DEF Program, I, Advance
  <1> QED BY EchoServerText, <1>1, <1>2 DEF Serves, I, Follows, Advance, Jumps

LEMMA ReuseadrEserverText ==
    /\ Len(reuseadr_eserver) = 4
    /\ reuseadr_eserver[1] = I("accept", 0, 0, {}) /\ reuseadr_eserver[2] = I("read", 9, 4, {2})
    /\ reuseadr_eserver[3] = I("echo", 0, 2, {})
    /\ reuseadr_eserver[4] = I("exit", 0, 0, {})
  BY DEF reuseadr_eserver, Accept, All, Echo, Exit, Read

LEMMA ReuseadrEserver == Serves(reuseadr_eserver)
  <1>1. Holding(reuseadr_eserver) = 2 .. 4
    BY ReuseadrEserverText DEF Holding, I
  <1>2. Program(reuseadr_eserver)
    BY ReuseadrEserverText DEF Program, I, Advance
  <1> QED BY ReuseadrEserverText, <1>1, <1>2 DEF Serves, I, Follows, Advance, Jumps

LEMMA OpServerText ==
    /\ Len(op_server) = 8
    /\ op_server[1] = I("accept", 0, 0, {}) /\ op_server[2] = I("read", 1, 3, {3}) /\ op_server[3] = I("fill", 3, 0, {3})
    /\ op_server[4] = I("show", 0, 0, {}) /\ op_server[5] = I("put", 2, 0, {}) /\ op_server[6] = I("close", 0, 0, {})
    /\ op_server[7] = I("again", 0, 1, {}) /\ op_server[8] = I("exit", 0, 0, {})
  BY DEF op_server, Accept, Again, All, Close, Exit, Fill, Put, Read, Show

LEMMA OpServer == Serves(op_server)
  <1>1. Holding(op_server) = 2 .. 6
    BY OpServerText DEF Holding, I
  <1>2. Program(op_server)
    BY OpServerText DEF Program, I, Advance
  <1> QED BY OpServerText, <1>1, <1>2 DEF Serves, I, Follows, Advance, Jumps

LEMMA MyOpServerText ==
    /\ Len(My_op_server) = 5
    /\ My_op_server[1] = I("accept", 0, 0, {}) /\ My_op_server[2] = I("read", 9, 3, {3})
    /\ My_op_server[3] = I("show", 0, 0, {})
    /\ My_op_server[4] = I("put", 0, 0, {}) /\ My_op_server[5] = I("exit", 0, 0, {})
  BY DEF My_op_server, Accept, All, Exit, Put, Read, Show

LEMMA MyOpServer == Serves(My_op_server)
  <1>1. Holding(My_op_server) = 2 .. 5
    BY MyOpServerText DEF Holding, I
  <1>2. Program(My_op_server)
    BY MyOpServerText DEF Program, I, Advance
  <1> QED BY MyOpServerText, <1>1, <1>2 DEF Serves, I, Follows, Advance, Jumps

LEMMA TcpServerKehou5Text ==
    /\ Len(tcp_server_kehou5) = 8
    /\ tcp_server_kehou5[1] = I("accept", 0, 0, {}) /\ tcp_server_kehou5[2] = I("put", 1, 0, {})
    /\ tcp_server_kehou5[3] = I("put", 2, 0, {})
    /\ tcp_server_kehou5[4] = I("read", 1, 5, {5}) /\ tcp_server_kehou5[5] = I("body", 2, 6, {6})
    /\ tcp_server_kehou5[6] = I("show", 0, 0, {})
    /\ tcp_server_kehou5[7] = I("again", 0, 2, {}) /\ tcp_server_kehou5[8] = I("exit", 0, 0, {})
  BY DEF tcp_server_kehou5, Accept, Again, All, Body, Exit, Put, Read, Show

LEMMA TcpServerKehou5 == Serves(tcp_server_kehou5)
  <1>1. Holding(tcp_server_kehou5) = 2 .. 8
    BY TcpServerKehou5Text DEF Holding, I
  <1>2. Program(tcp_server_kehou5)
    BY TcpServerKehou5Text DEF Program, I, Advance
  <1> QED BY TcpServerKehou5Text, <1>1, <1>2 DEF Serves, I, Follows, Advance, Jumps

LEMMA TcpServerKehou6Text ==
    /\ Len(tcp_server_kehou6) = 7
    /\ tcp_server_kehou6[1] = I("accept", 0, 0, {}) /\ tcp_server_kehou6[2] = I("read", 9, 3, {3})
    /\ tcp_server_kehou6[3] = I("show", 0, 0, {})
    /\ tcp_server_kehou6[4] = I("choose", 0, 7, {}) /\ tcp_server_kehou6[5] = I("put", 2, 0, {})
    /\ tcp_server_kehou6[6] = I("put", 2, 0, {})
    /\ tcp_server_kehou6[7] = I("exit", 0, 0, {})
  BY DEF tcp_server_kehou6, Accept, All, Choose, Exit, Put, Read, Show

LEMMA TcpServerKehou6 == Serves(tcp_server_kehou6)
  <1>1. Holding(tcp_server_kehou6) = 2 .. 7
    BY TcpServerKehou6Text DEF Holding, I
  <1>2. Program(tcp_server_kehou6)
    BY TcpServerKehou6Text DEF Program, I, Advance
  <1> QED BY TcpServerKehou6Text, <1>1, <1>2 DEF Serves, I, Follows, Advance, Jumps

LEMMA FileServerText ==
    /\ Len(file_server) = 7
    /\ file_server[1] = I("accept", 0, 0, {}) /\ file_server[2] = I("put", 2, 0, {}) /\ file_server[3] = I("put", 2, 0, {})
    /\ file_server[4] = I("shut", 0, 0, {}) /\ file_server[5] = I("read", 9, 6, {6}) /\ file_server[6] = I("show", 0, 0, {})
    /\ file_server[7] = I("exit", 0, 0, {})
  BY DEF file_server, Accept, All, Exit, Put, Read, Show, Shut

LEMMA FileServer == Serves(file_server)
  <1>1. Holding(file_server) = 2 .. 7
    BY FileServerText DEF Holding, I
  <1>2. Program(file_server)
    BY FileServerText DEF Program, I, Advance
  <1> QED BY FileServerText, <1>1, <1>2 DEF Serves, I, Follows, Advance, Jumps

LEMMA PeekRecvText ==
    /\ Len(peek_recv) = 5
    /\ peek_recv[1] = I("accept", 0, 0, {}) /\ peek_recv[2] = I("peek", 0, 0, {}) /\ peek_recv[3] = I("read", 9, 4, {4})
    /\ peek_recv[4] = I("show", 0, 0, {}) /\ peek_recv[5] = I("exit", 0, 0, {})
  BY DEF peek_recv, Accept, All, Exit, Peek, Read, Show

LEMMA PeekRecv == Serves(peek_recv)
  <1>1. Holding(peek_recv) = 2 .. 5
    BY PeekRecvText DEF Holding, I
  <1>2. Program(peek_recv)
    BY PeekRecvText DEF Program, I, Advance
  <1> QED BY PeekRecvText, <1>1, <1>2 DEF Serves, I, Follows, Advance, Jumps

LEMMA EchoStdservText ==
    /\ Len(echo_stdserv) = 7
    /\ echo_stdserv[1] = I("accept", 0, 0, {}) /\ echo_stdserv[2] = I("feof", 0, 5, {})
    /\ echo_stdserv[3] = I("line", 0, 4, {4})
    /\ echo_stdserv[4] = I("echo", 0, 2, {}) /\ echo_stdserv[5] = I("close", 0, 0, {})
    /\ echo_stdserv[6] = I("again", 0, 1, {})
    /\ echo_stdserv[7] = I("exit", 0, 0, {})
  BY DEF echo_stdserv, Accept, Again, Close, Echo, Exit, IfEof, Line

LEMMA EchoStdserv == Serves(echo_stdserv)
  <1>1. Holding(echo_stdserv) = 2 .. 5
    BY EchoStdservText DEF Holding, I
  <1>2. Program(echo_stdserv)
    BY EchoStdservText DEF Program, I, Advance
  <1> QED BY EchoStdservText, <1>1, <1>2 DEF Serves, I, Follows, Advance, Jumps

LEMMA SepServText ==
    /\ Len(sep_serv) = 3
    /\ sep_serv[1] = I("accept", 0, 0, {}) /\ sep_serv[2] = I("put", 2, 0, {}) /\ sep_serv[3] = I("exit", 0, 0, {})
  BY DEF sep_serv, Accept, Exit, Put

LEMMA SepServ == Serves(sep_serv)
  <1>1. Holding(sep_serv) = 2 .. 3
    BY SepServText DEF Holding, I
  <1>2. Program(sep_serv)
    BY SepServText DEF Program, I, Advance
  <1> QED BY SepServText, <1>1, <1>2 DEF Serves, I, Follows, Advance, Jumps

LEMMA SepServ2Text ==
    /\ Len(sep_serv2) = 5
    /\ sep_serv2[1] = I("accept", 0, 0, {}) /\ sep_serv2[2] = I("put", 2, 0, {}) /\ sep_serv2[3] = I("shut", 0, 0, {})
    /\ sep_serv2[4] = I("line", 0, 5, {5}) /\ sep_serv2[5] = I("exit", 0, 0, {})
  BY DEF sep_serv2, Accept, Exit, Line, Put, Shut

LEMMA SepServ2 == Serves(sep_serv2)
  <1>1. Holding(sep_serv2) = 2 .. 5
    BY SepServ2Text DEF Holding, I
  <1>2. Program(sep_serv2)
    BY SepServ2Text DEF Program, I, Advance
  <1> QED BY SepServ2Text, <1>1, <1>2 DEF Serves, I, Follows, Advance, Jumps

LEMMA HelloClientText ==
    /\ Len(hello_client) = 4
    /\ hello_client[1] = I("connect", 0, 0, {0}) /\ hello_client[2] = I("read", 9, 3, {0})
    /\ hello_client[3] = I("show", 0, 0, {})
    /\ hello_client[4] = I("exit", 0, 0, {})
  BY DEF hello_client, All, Connect, Exit, Read, Show

LEMMA HelloClient == Calls(hello_client) /\ NoFork(hello_client)
  <1>1. Program(hello_client)
    BY HelloClientText DEF Program, I, Advance
  <1> QED BY HelloClientText, <1>1 DEF Calls, I, Follows, Advance, Jumps, NoFork

LEMMA TcpClientText ==
    /\ Len(tcp_client) = 4
    /\ tcp_client[1] = I("connect", 0, 0, {0}) /\ tcp_client[2] = I("fill", 9, 3, {0}) /\ tcp_client[3] = I("show", 0, 0, {})
    /\ tcp_client[4] = I("exit", 0, 0, {})
  BY DEF tcp_client, All, Connect, Exit, Gather, Show

LEMMA TcpClient == Calls(tcp_client) /\ NoFork(tcp_client)
  <1>1. Program(tcp_client)
    BY TcpClientText DEF Program, I, Advance
  <1> QED BY TcpClientText, <1>1 DEF Calls, I, Follows, Advance, Jumps, NoFork

LEMMA C1ClientText ==
    /\ Len(c1_client) = 6
    /\ c1_client[1] = I("connect", 0, 0, {0}) /\ c1_client[2] = I("read", 9, 3, {3}) /\ c1_client[3] = I("show", 0, 0, {})
    /\ c1_client[4] = I("type", 0, 0, {}) /\ c1_client[5] = I("put", 2, 0, {}) /\ c1_client[6] = I("goto", 0, 4, {})
  BY DEF c1_client, All, Connect, Goto, Put, Read, Show, Type

LEMMA C1Client == Calls(c1_client) /\ NoFork(c1_client)
  <1>1. Program(c1_client)
    BY C1ClientText DEF Program, I, Advance
  <1> QED BY C1ClientText, <1>1 DEF Calls, I, Follows, Advance, Jumps, NoFork

LEMMA EchoClientText ==
    /\ Len(echo_client) = 7
    /\ echo_client[1] = I("connect", 0, 0, {0}) /\ echo_client[2] = I("type", 0, 7, {}) /\ echo_client[3] = I("put", 2, 0, {})
    /\ echo_client[4] = I("read", 9, 5, {5}) /\ echo_client[5] = I("show", 0, 0, {}) /\ echo_client[6] = I("goto", 0, 2, {})
    /\ echo_client[7] = I("exit", 0, 0, {})
  BY DEF echo_client, All, Connect, Exit, Goto, Put, Read, Show, Type

LEMMA EchoClient == Calls(echo_client) /\ NoFork(echo_client)
  <1>1. Program(echo_client)
    BY EchoClientText DEF Program, I, Advance
  <1> QED BY EchoClientText, <1>1 DEF Calls, I, Follows, Advance, Jumps, NoFork

LEMMA EchoClient2Text ==
    /\ Len(echo_client2) = 6
    /\ echo_client2[1] = I("connect", 0, 0, {0}) /\ echo_client2[2] = I("type", 0, 6, {})
    /\ echo_client2[3] = I("put", 2, 0, {})
    /\ echo_client2[4] = I("fill", 2, 0, {0}) /\ echo_client2[5] = I("goto", 0, 2, {})
    /\ echo_client2[6] = I("exit", 0, 0, {})
  BY DEF echo_client2, Connect, Exit, Fill, Goto, Put, Type

LEMMA EchoClient2 == Calls(echo_client2) /\ NoFork(echo_client2)
  <1>1. Program(echo_client2)
    BY EchoClient2Text DEF Program, I, Advance
  <1> QED BY EchoClient2Text, <1>1 DEF Calls, I, Follows, Advance, Jumps, NoFork

LEMMA OpClientText ==
    /\ Len(op_client) = 5
    /\ op_client[1] = I("connect", 0, 0, {0}) /\ op_client[2] = I("put", 3, 0, {}) /\ op_client[3] = I("read", 9, 4, {4})
    /\ op_client[4] = I("show", 0, 0, {}) /\ op_client[5] = I("exit", 0, 0, {})
  BY DEF op_client, All, Connect, Exit, Put, Read, Show

LEMMA OpClient == Calls(op_client) /\ NoFork(op_client)
  <1>1. Program(op_client)
    BY OpClientText DEF Program, I, Advance
  <1> QED BY OpClientText, <1>1 DEF Calls, I, Follows, Advance, Jumps, NoFork

LEMMA MyOpClientText ==
    /\ Len(My_op_client) = 5
    /\ My_op_client[1] = I("connect", 0, 0, {0}) /\ My_op_client[2] = I("put", 2, 0, {})
    /\ My_op_client[3] = I("read", 9, 4, {4})
    /\ My_op_client[4] = I("show", 0, 0, {}) /\ My_op_client[5] = I("exit", 0, 0, {})
  BY DEF My_op_client, All, Connect, Exit, Put, Read, Show

LEMMA MyOpClient == Calls(My_op_client) /\ NoFork(My_op_client)
  <1>1. Program(My_op_client)
    BY MyOpClientText DEF Program, I, Advance
  <1> QED BY MyOpClientText, <1>1 DEF Calls, I, Follows, Advance, Jumps, NoFork

LEMMA TcpClientKehou5Text ==
    /\ Len(tcp_client_kehou5) = 8
    /\ tcp_client_kehou5[1] = I("connect", 0, 0, {0}) /\ tcp_client_kehou5[2] = I("read", 1, 3, {3})
    /\ tcp_client_kehou5[3] = I("body", 2, 4, {4})
    /\ tcp_client_kehou5[4] = I("show", 0, 0, {}) /\ tcp_client_kehou5[5] = I("put", 1, 0, {})
    /\ tcp_client_kehou5[6] = I("put", 2, 0, {})
    /\ tcp_client_kehou5[7] = I("again", 0, 2, {}) /\ tcp_client_kehou5[8] = I("exit", 0, 0, {})
  BY DEF tcp_client_kehou5, Again, All, Body, Connect, Exit, Put, Read, Show

LEMMA TcpClientKehou5 == Calls(tcp_client_kehou5) /\ NoFork(tcp_client_kehou5)
  <1>1. Program(tcp_client_kehou5)
    BY TcpClientKehou5Text DEF Program, I, Advance
  <1> QED BY TcpClientKehou5Text, <1>1 DEF Calls, I, Follows, Advance, Jumps, NoFork

LEMMA TcpClientKehou6Text ==
    /\ Len(tcp_client_kehou6) = 5
    /\ tcp_client_kehou6[1] = I("connect", 0, 0, {2}) /\ tcp_client_kehou6[2] = I("put", 2, 0, {})
    /\ tcp_client_kehou6[3] = I("fill", 9, 4, {0, 3})
    /\ tcp_client_kehou6[4] = I("show", 0, 0, {}) /\ tcp_client_kehou6[5] = I("exit", 0, 0, {})
  BY DEF tcp_client_kehou6, All, Connect, Exit, Gather, Put, Show

LEMMA TcpClientKehou6 == Calls(tcp_client_kehou6) /\ NoFork(tcp_client_kehou6)
  <1>1. Program(tcp_client_kehou6)
    BY TcpClientKehou6Text DEF Program, I, Advance
  <1> QED BY TcpClientKehou6Text, <1>1 DEF Calls, I, Follows, Advance, Jumps, NoFork

LEMMA FileClientText ==
    /\ Len(file_client) = 5
    /\ file_client[1] = I("connect", 0, 0, {2}) /\ file_client[2] = I("fill", 9, 3, {0, 2})
    /\ file_client[3] = I("show", 0, 0, {})
    /\ file_client[4] = I("put", 2, 0, {}) /\ file_client[5] = I("exit", 0, 0, {})
  BY DEF file_client, All, Connect, Exit, Gather, Put, Show

LEMMA FileClient == Calls(file_client) /\ NoFork(file_client)
  <1>1. Program(file_client)
    BY FileClientText DEF Program, I, Advance
  <1> QED BY FileClientText, <1>1 DEF Calls, I, Follows, Advance, Jumps, NoFork

LEMMA PeekSendText ==
    /\ Len(peek_send) = 3
    /\ peek_send[1] = I("connect", 0, 0, {0}) /\ peek_send[2] = I("put", 2, 0, {}) /\ peek_send[3] = I("exit", 0, 0, {})
  BY DEF peek_send, Connect, Exit, Put

LEMMA PeekSend == Calls(peek_send) /\ NoFork(peek_send)
  <1>1. Program(peek_send)
    BY PeekSendText DEF Program, I, Advance
  <1> QED BY PeekSendText, <1>1 DEF Calls, I, Follows, Advance, Jumps, NoFork

LEMMA StdioClientText ==
    /\ Len(stdio_client) = 6
    /\ stdio_client[1] = I("connect", 0, 0, {0}) /\ stdio_client[2] = I("type", 0, 6, {})
    /\ stdio_client[3] = I("put", 2, 0, {})
    /\ stdio_client[4] = I("line", 0, 5, {5}) /\ stdio_client[5] = I("goto", 0, 2, {})
    /\ stdio_client[6] = I("exit", 0, 0, {})
  BY DEF stdio_client, Connect, Exit, Goto, Line, Put, Type

LEMMA StdioClient == Calls(stdio_client) /\ NoFork(stdio_client)
  <1>1. Program(stdio_client)
    BY StdioClientText DEF Program, I, Advance
  <1> QED BY StdioClientText, <1>1 DEF Calls, I, Follows, Advance, Jumps, NoFork

LEMMA SepClntText ==
    /\ Len(sep_clnt) = 5
    /\ sep_clnt[1] = I("connect", 0, 0, {2}) /\ sep_clnt[2] = I("line", 0, 4, {4}) /\ sep_clnt[3] = I("goto", 0, 2, {})
    /\ sep_clnt[4] = I("put", 2, 0, {}) /\ sep_clnt[5] = I("exit", 0, 0, {})
  BY DEF sep_clnt, Connect, Exit, Goto, Line, Put

LEMMA SepClnt == Calls(sep_clnt) /\ NoFork(sep_clnt)
  <1>1. Program(sep_clnt)
    BY SepClntText DEF Program, I, Advance
  <1> QED BY SepClntText, <1>1 DEF Calls, I, Follows, Advance, Jumps, NoFork

LEMMA MpclientReaderText ==
    /\ Len(mpclient_reader) = 5
    /\ mpclient_reader[1] = I("connect", 0, 0, {0}) /\ mpclient_reader[2] = I("fork", 0, 0, {})
    /\ mpclient_reader[3] = I("read", 9, 5, {4})
    /\ mpclient_reader[4] = I("goto", 0, 3, {}) /\ mpclient_reader[5] = I("exit", 0, 0, {})
  BY DEF mpclient_reader, All, Connect, Exit, Fork, Goto, Read

LEMMA MpclientReader == Calls(mpclient_reader)
  <1>1. Program(mpclient_reader)
    BY MpclientReaderText DEF Program, I, Advance
  <1> QED BY MpclientReaderText, <1>1 DEF Calls, I, Follows, Advance, Jumps

LEMMA ChatRecvMsgText ==
    /\ Len(chat_recv_msg) = 5
    /\ chat_recv_msg[1] = I("connect", 0, 0, {0}) /\ chat_recv_msg[2] = I("fork", 0, 0, {})
    /\ chat_recv_msg[3] = I("read", 9, 3, {5})
    /\ chat_recv_msg[4] = I("goto", 0, 3, {}) /\ chat_recv_msg[5] = I("join", 0, 0, {})
  BY DEF chat_recv_msg, All, Connect, Fork, Goto, Join, Read

LEMMA ChatRecvMsg == Calls(chat_recv_msg)
  <1>1. Program(chat_recv_msg)
    BY ChatRecvMsgText DEF Program, I, Advance
  <1> QED BY ChatRecvMsgText, <1>1 DEF Calls, I, Follows, Advance, Jumps

LEMMA TcpEpollClientText ==
    /\ Len(tcp_epoll_client) = 6
    /\ tcp_epoll_client[1] = I("connect", 0, 0, {0}) /\ tcp_epoll_client[2] = I("type", 0, 0, {})
    /\ tcp_epoll_client[3] = I("put", 2, 0, {})
    /\ tcp_epoll_client[4] = I("read", 9, 6, {0}) /\ tcp_epoll_client[5] = I("goto", 0, 2, {})
    /\ tcp_epoll_client[6] = I("exit", 0, 0, {})
  BY DEF tcp_epoll_client, All, Connect, Exit, Goto, Put, Read, Type

LEMMA TcpEpollClient == Calls(tcp_epoll_client) /\ NoFork(tcp_epoll_client)
  <1>1. Program(tcp_epoll_client)
    BY TcpEpollClientText DEF Program, I, Advance
  <1> QED BY TcpEpollClientText, <1>1 DEF Calls, I, Follows, Advance, Jumps, NoFork

LEMMA MpclientWriterText ==
    /\ Len(mpclient_writer) = 5
    /\ mpclient_writer[1] = I("type", 0, 4, {}) /\ mpclient_writer[2] = I("put", 2, 0, {})
    /\ mpclient_writer[3] = I("goto", 0, 1, {})
    /\ mpclient_writer[4] = I("shut", 0, 0, {}) /\ mpclient_writer[5] = I("exit", 0, 0, {})
  BY DEF mpclient_writer, Exit, Goto, Put, Shut, Type

LEMMA MpclientWriter == Helps(mpclient_writer)
  <1>1. Program(mpclient_writer)
    BY MpclientWriterText DEF Program, I, Advance
  <1> QED BY MpclientWriterText, <1>1 DEF Helps, I

LEMMA ProcessWriterText ==
    /\ Len(process_writer) = 6
    /\ process_writer[1] = I("type", 0, 4, {}) /\ process_writer[2] = I("put", 2, 0, {})
    /\ process_writer[3] = I("goto", 0, 1, {})
    /\ process_writer[4] = I("put", 1, 0, {}) /\ process_writer[5] = I("shut", 0, 0, {})
    /\ process_writer[6] = I("exit", 0, 0, {})
  BY DEF process_writer, Exit, Goto, Put, Shut, Type

LEMMA ProcessWriter == Helps(process_writer)
  <1>1. Program(process_writer)
    BY ProcessWriterText DEF Program, I, Advance
  <1> QED BY ProcessWriterText, <1>1 DEF Helps, I

LEMMA ChatSendMsgText ==
    /\ Len(chat_send_msg) = 4
    /\ chat_send_msg[1] = I("type", 0, 4, {}) /\ chat_send_msg[2] = I("put", 2, 0, {}) /\ chat_send_msg[3] = I("goto", 0, 1, {})
    /\ chat_send_msg[4] = I("exitall", 0, 0, {})
  BY DEF chat_send_msg, ExitAll, Goto, Put, Type

LEMMA ChatSendMsg == Helps(chat_send_msg)
  <1>1. Program(chat_send_msg)
    BY ChatSendMsgText DEF Program, I, Advance
  <1> QED BY ChatSendMsgText, <1>1 DEF Helps, I

LEMMA NoProgram == Helps(<< >>)
  <1>1. Len(<< >>) = 0
    OBVIOUS
  <1> QED BY <1>1 DEF Helps, Program

(* Which programs meet. *)
PairNames == {"hello", "hello2", "welcome", "echo", "echo2", "reuse", "op", "myop", "kehou5", "kehou6", "file",
              "peek", "stdio", "sep", "sep2", "mp", "mpq", "stdmp", "chat", "epoll"}

LEMMA PairsAre ==
    /\ DOMAIN Pairs = PairNames
    /\ Pairs["hello"] = Meet(hello_server, hello_client)
    /\ Pairs["hello2"] = Meet(hello_server, tcp_client)
    /\ Pairs["welcome"] = Meet(c1_server, c1_client)
    /\ Pairs["echo"] = Meet(echo_server, echo_client)
    /\ Pairs["echo2"] = Meet(echo_server, echo_client2)
    /\ Pairs["reuse"] = Meet(reuseadr_eserver, echo_client)
    /\ Pairs["op"] = Meet(op_server, op_client)
    /\ Pairs["myop"] = Meet(My_op_server, My_op_client)
    /\ Pairs["kehou5"] = Meet(tcp_server_kehou5, tcp_client_kehou5)
    /\ Pairs["kehou6"] = Meet(tcp_server_kehou6, tcp_client_kehou6)
    /\ Pairs["file"] = Meet(file_server, file_client)
    /\ Pairs["peek"] = Meet(peek_recv, peek_send)
    /\ Pairs["stdio"] = Meet(echo_stdserv, stdio_client)
    /\ Pairs["sep"] = Meet(sep_serv, sep_clnt)
    /\ Pairs["sep2"] = Meet(sep_serv2, sep_clnt)
    /\ Pairs["mp"] = [server |-> echo_server, client |-> mpclient_reader, second |-> mpclient_writer, threads |-> FALSE]
    /\ Pairs["mpq"] = [server |-> echo_server, client |-> mpclient_reader, second |-> process_writer, threads |-> FALSE]
    /\ Pairs["stdmp"] = [server |-> echo_stdserv, client |-> mpclient_reader, second |-> mpclient_writer, threads |-> FALSE]
    /\ Pairs["chat"] = [server |-> echo_server, client |-> chat_recv_msg, second |-> chat_send_msg, threads |-> TRUE]
    /\ Pairs["epoll"] = Meet(echo_server, tcp_epoll_client)
  <1>1. DOMAIN Pairs = PairNames
    BY DEF Pairs, PairNames
  <1>2. Pairs["hello"] = Meet(hello_server, hello_client)
    BY DEF Pairs
  <1>3. Pairs["hello2"] = Meet(hello_server, tcp_client)
    BY DEF Pairs, ch02_tcp_server
  <1>4. Pairs["welcome"] = Meet(c1_server, c1_client)
    BY DEF Pairs
  <1>5. Pairs["echo"] = Meet(echo_server, echo_client)
    BY DEF Pairs
  <1>6. Pairs["echo2"] = Meet(echo_server, echo_client2)
    BY DEF Pairs
  <1>7. Pairs["reuse"] = Meet(reuseadr_eserver, echo_client)
    BY DEF Pairs
  <1>8. Pairs["op"] = Meet(op_server, op_client)
    BY DEF Pairs
  <1>9. Pairs["myop"] = Meet(My_op_server, My_op_client)
    BY DEF Pairs
  <1>10. Pairs["kehou5"] = Meet(tcp_server_kehou5, tcp_client_kehou5)
    BY DEF Pairs
  <1>11. Pairs["kehou6"] = Meet(tcp_server_kehou6, tcp_client_kehou6)
    BY DEF Pairs
  <1>12. Pairs["file"] = Meet(file_server, file_client)
    BY DEF Pairs
  <1>13. Pairs["peek"] = Meet(peek_recv, peek_send)
    BY DEF Pairs
  <1>14. Pairs["stdio"] = Meet(echo_stdserv, stdio_client)
    BY DEF Pairs
  <1>15. Pairs["sep"] = Meet(sep_serv, sep_clnt)
    BY DEF Pairs
  <1>16. Pairs["sep2"] = Meet(sep_serv2, sep_clnt)
    BY DEF Pairs
  <1>17. Pairs["mp"] = [server |-> echo_server, client |-> mpclient_reader, second |-> mpclient_writer, threads |-> FALSE]
    BY DEF Pairs
  <1>18. Pairs["mpq"] = [server |-> echo_server, client |-> mpclient_reader, second |-> process_writer, threads |-> FALSE]
    BY DEF Pairs
  <1>19. Pairs["stdmp"] = [server |-> echo_stdserv, client |-> mpclient_reader, second |-> mpclient_writer, threads |-> FALSE]
    BY DEF Pairs
  <1>20. Pairs["chat"] = [server |-> echo_server, client |-> chat_recv_msg, second |-> chat_send_msg, threads |-> TRUE]
    BY DEF Pairs
  <1>21. Pairs["epoll"] = Meet(echo_server, tcp_epoll_client)
    BY DEF Pairs
  <1> QED BY <1>1, <1>2, <1>3, <1>4, <1>5, <1>6, <1>7, <1>8, <1>9, <1>10, <1>11, <1>12, <1>13, <1>14, <1>15, <1>16,
       <1>17, <1>18, <1>19, <1>20, <1>21, Zenon

LEMMA Programs ==
    ASSUME NEW x \in DOMAIN Pairs
    PROVE  /\ Serves(Pairs[x].server) /\ Calls(Pairs[x].client) /\ Helps(Pairs[x].second)
           /\ NoFork(Pairs[x].client) \/ Len(Pairs[x].second) >= 1

  <1>1. ASSUME NEW s, NEW c, Pairs[x] = Meet(s, c)
        PROVE  Pairs[x].server = s /\ Pairs[x].client = c /\ Pairs[x].second = << >>
    BY <1>1 DEF Meet
  <1>2. Len(mpclient_writer) >= 1 /\ Len(process_writer) >= 1 /\ Len(chat_send_msg) >= 1
    BY DEF mpclient_writer, process_writer, chat_send_msg
  <1> DEFINE G == /\ Serves(Pairs[x].server) /\ Calls(Pairs[x].client) /\ Helps(Pairs[x].second)
                  /\ NoFork(Pairs[x].client) \/ Len(Pairs[x].second) >= 1
  <1>3. ASSUME x = "hello" PROVE G
    BY <1>3, PairsAre, <1>1, HelloServer, HelloClient, NoProgram
  <1>4. ASSUME x = "hello2" PROVE G
    BY <1>4, PairsAre, <1>1, HelloServer, TcpClient, NoProgram
  <1>5. ASSUME x = "welcome" PROVE G
    BY <1>5, PairsAre, <1>1, C1Server, C1Client, NoProgram
  <1>6. ASSUME x = "echo" PROVE G
    BY <1>6, PairsAre, <1>1, EchoServer, EchoClient, NoProgram
  <1>7. ASSUME x = "echo2" PROVE G
    BY <1>7, PairsAre, <1>1, EchoServer, EchoClient2, NoProgram
  <1>8. ASSUME x = "reuse" PROVE G
    BY <1>8, PairsAre, <1>1, ReuseadrEserver, EchoClient, NoProgram
  <1>9. ASSUME x = "op" PROVE G
    BY <1>9, PairsAre, <1>1, OpServer, OpClient, NoProgram
  <1>10. ASSUME x = "myop" PROVE G
    BY <1>10, PairsAre, <1>1, MyOpServer, MyOpClient, NoProgram
  <1>11. ASSUME x = "kehou5" PROVE G
    BY <1>11, PairsAre, <1>1, TcpServerKehou5, TcpClientKehou5, NoProgram
  <1>12. ASSUME x = "kehou6" PROVE G
    BY <1>12, PairsAre, <1>1, TcpServerKehou6, TcpClientKehou6, NoProgram
  <1>13. ASSUME x = "file" PROVE G
    BY <1>13, PairsAre, <1>1, FileServer, FileClient, NoProgram
  <1>14. ASSUME x = "peek" PROVE G
    BY <1>14, PairsAre, <1>1, PeekRecv, PeekSend, NoProgram
  <1>15. ASSUME x = "stdio" PROVE G
    BY <1>15, PairsAre, <1>1, EchoStdserv, StdioClient, NoProgram
  <1>16. ASSUME x = "sep" PROVE G
    BY <1>16, PairsAre, <1>1, SepServ, SepClnt, NoProgram
  <1>17. ASSUME x = "sep2" PROVE G
    BY <1>17, PairsAre, <1>1, SepServ2, SepClnt, NoProgram
  <1>18. ASSUME x = "mp" PROVE G
    BY <1>18, PairsAre, <1>2, EchoServer, MpclientReader, MpclientWriter
  <1>19. ASSUME x = "mpq" PROVE G
    BY <1>19, PairsAre, <1>2, EchoServer, MpclientReader, ProcessWriter
  <1>20. ASSUME x = "stdmp" PROVE G
    BY <1>20, PairsAre, <1>2, EchoStdserv, MpclientReader, MpclientWriter
  <1>21. ASSUME x = "chat" PROVE G
    BY <1>21, PairsAre, <1>2, EchoServer, ChatRecvMsg, ChatSendMsg
  <1>22. ASSUME x = "epoll" PROVE G
    BY <1>22, PairsAre, <1>1, EchoServer, TcpEpollClient, NoProgram
  <1> HIDE DEF G
  <1>23. G
    BY PairsAre, <1>3, <1>4, <1>5, <1>6, <1>7, <1>8, <1>9, <1>10, <1>11, <1>12, <1>13, <1>14, <1>15, <1>16,
       <1>17, <1>18, <1>19, <1>20, <1>21, <1>22 DEF PairNames
  <1> QED BY <1>23 DEF G
-----------------------------------------------------------------------------
(* A process, its instruction and its connection. *)

Names == SessionTypes /\ Positions

LEMMA Apart ==
    /\ S \in Procs /\ Server \notin Clients /\ NULL \notin Clients
    /\ \A d \in Clients : /\ P1(d) \in Procs /\ P2(d) \in Procs /\ P1(d) # S /\ P2(d) # S /\ P1(d) # P2(d)
                          /\ P1(d)[1] = d /\ P2(d)[1] = d /\ P1(d)[2] = 1 /\ P2(d)[2] = 2
    /\ \A p \in Procs : p # S => p[1] \in Clients /\ (p = P1(p[1]) \/ p = P2(p[1]))
    /\ \A c, d \in Clients : c # d => {P1(c), P2(c)} \cap {P1(d), P2(d)} = {}
  BY SessionsAssumption DEF Procs, S, P1, P2

LEMMA Scripts ==
    ASSUME Names
    PROVE  /\ Serves(Script(S))
           /\ \A d \in Clients : /\ Calls(Script(P1(d))) /\ Helps(Script(P2(d)))
                                 /\ NoFork(Script(P1(d))) \/ Len(Script(P2(d))) >= 1
           /\ \A p \in Procs : Program(Script(p))
  <1>1. pair \in DOMAIN Pairs
    BY DEF Names, SessionTypes
  <1>2. Script(S) = Pairs[pair].server
    BY DEF Script
  <1>3. ASSUME NEW d \in Clients
        PROVE  Script(P1(d)) = Pairs[pair].client /\ Script(P2(d)) = Pairs[pair].second
    BY Apart DEF Script
  <1>4. \A p \in Procs : p = S \/ \E d \in Clients : p = P1(d) \/ p = P2(d)
    BY Apart
  <1>5. /\ Serves(Script(S))
        /\ \A d \in Clients : /\ Calls(Script(P1(d))) /\ Helps(Script(P2(d)))
                              /\ NoFork(Script(P1(d))) \/ Len(Script(P2(d))) >= 1
    BY <1>1, <1>2, <1>3, Programs
  <1>6. \A p \in Procs : Program(Script(p))
    BY <1>4, <1>5 DEF Serves, Calls, Helps
  <1> QED BY <1>5, <1>6

LEMMA Standing ==
    ASSUME Names, NEW p \in Procs, NEW op, At(p, op)
    PROVE  /\ proc[p].pc \in 1 .. Len(Script(p)) /\ Len(Script(p)) \in Nat
           /\ Script(p)[proc[p].pc].op = op /\ Instr(p) = Script(p)[proc[p].pc]
           /\ proc[p] \in Process
           /\ p # S => p[1] \in Clients
  <1>1. proc[p].pc \in 0 .. Len(Script(p)) /\ proc[p] \in Process /\ Len(Script(p)) \in Nat
    BY Scripts DEF Names, SessionTypes, Positions, Program
  <1> QED BY <1>1, Apart DEF At, Instr

(* Who uses a connection has one. *)
LEMMA Connected ==
    ASSUME Names, NEW p \in Procs, NEW op, At(p, op), op \notin {"accept", "again", "exit"}
    PROVE  /\ ConnOf(p) \in Clients
           /\ p = S => serving = ConnOf(p) /\ proc[S].pc \in Holding(Script(S))
  <1>1. CASE p # S
    BY <1>1, Apart DEF ConnOf
  <1>2. CASE p = S
    <2>1. proc[S].pc \in 1 .. Len(Script(S)) /\ Script(S)[proc[S].pc].op = op
      BY <1>2, Standing
    <2>2. proc[S].pc # 1
      BY <2>1, Scripts DEF Serves
    <2>3. proc[S].pc \in 2 .. Len(Script(S))
      BY <2>1, <2>2, Scripts DEF Serves, Program
    <2>4. proc[S].pc \in Holding(Script(S))
      BY <2>1, <2>3, Scripts DEF Serves
    <2>5. serving \in Clients
      BY <2>4 DEF Names, Positions, SessionTypes
    <2> QED BY <1>2, <2>4, <2>5 DEF ConnOf
  <1> QED BY <1>1, <1>2

(* The two ends of the connection of a process. *)
LEMMA TwoEnds ==
    ASSUME Names, NEW p \in Procs, ConnOf(p) \in Clients
    PROVE  /\ SideOf(p) \in {"server", "client"} /\ Other(SideOf(p)) \in {"server", "client"} /\ Other(SideOf(p)) # SideOf(p)
           /\ Mine(p) = net[ConnOf(p)][SideOf(p)] /\ Theirs(p) = net[ConnOf(p)][Other(SideOf(p))]
           /\ Mine(p) \in End0 /\ Theirs(p) \in End0
           /\ p = S => SideOf(p) = "server" /\ Other(SideOf(p)) = "client" /\ ConnOf(p) = serving
           /\ p # S => SideOf(p) = "client" /\ Other(SideOf(p)) = "server" /\ ConnOf(p) = p[1]
  BY DEF Names, SessionTypes, SideOf, Other, Mine, Theirs, ConnOf

-----------------------------------------------------------------------------
(* What a step does to a process. *)

(* All but the position and the buffer stays. *)
LEMMA GoneOn ==
    ASSUME SessionTypes, NEW p \in Procs, NEW to \in Nat, NEW b \in Seq(Byte), GoOn(p, to, b)
    PROVE  /\ proc' \in [Procs -> Process]
           /\ proc'[p].pc = to /\ proc'[p].buf = b
           /\ proc'[p].ahead = proc[p].ahead /\ proc'[p].eof = proc[p].eof /\ proc'[p].round = proc[p].round
           /\ \A q \in Procs : q # p => proc'[q] = proc[q]
  <1>1. proc \in [Procs -> Process] /\ proc' = [proc EXCEPT ![p].pc = to, ![p].buf = b]
    BY DEF SessionTypes, GoOn
  <1> QED BY <1>1 DEF Process

LEMMA MsgBytes ==
    ASSUME NEW n \in Nat
    PROVE  Msg(n) \in Seq(Byte) /\ Len(Msg(n)) = n /\ \A j \in 1 .. n : Msg(n)[j] = <<j, n>>
  BY DEF Msg, Byte

LEMMA OutputBytes ==
    ASSUME Names, NEW p \in Procs, Writes(p)
    PROVE  Output(p) \in Seq(Byte)
  <1>1. PICK op \in {"put", "echo"} : At(p, op)
    BY DEF Writes
  <1>2. Instr(p) = Script(p)[proc[p].pc] /\ Instr(p).n \in Nat /\ proc[p].buf \in Seq(Byte)
    BY <1>1, Standing, Scripts DEF Program, Process
  <1>3. Len(proc[p].buf) \in Nat
    BY <1>2
  <1> QED BY <1>2, <1>3, MsgBytes DEF Output

(* Where it may go on. *)
LEMMA Instruction ==
    ASSUME Names, NEW p \in Procs, NEW op, At(p, op)
    PROVE  /\ SessionTypes /\ proc[p].pc \in Nat /\ proc[p].pc + 1 \in Nat
           /\ Instr(p).op = op /\ Instr(p).to \in Nat /\ Instr(p).n \in Nat
           /\ proc[p].buf \in Seq(Byte) /\ proc[p].ahead \in Seq(Byte) /\ proc[p].round \in Nat /\ proc[p].eof \in BOOLEAN
           /\ op \in Advance => Follows(Script(p), proc[p].pc, proc[p].pc + 1)
           /\ op \in Jumps => Follows(Script(p), proc[p].pc, Instr(p).to)
           /\ op \in {"fill", "line"} => Follows(Script(p), proc[p].pc, proc[p].pc)
           /\ \A j \in Instr(p).errs : j \in Nat /\ Follows(Script(p), proc[p].pc, j)
  <1>1. PICK s : /\ s = Script(p) /\ Program(s) /\ Instr(p) = s[proc[p].pc] /\ proc[p].pc \in 1 .. Len(s)
                 /\ Instr(p).op = op /\ Len(s) \in Nat
    BY Standing, Scripts
  <1>2. proc[p].pc \in Nat /\ proc[p].pc + 1 \in Nat
    BY <1>1
  <1>3. SessionTypes /\ proc[p] \in Process
    BY Standing DEF Names
  <1> QED BY <1>1, <1>2, <1>3 DEF Follows, Program, Process

-----------------------------------------------------------------------------
(* What a step does to a connection. *)

Sides == {"server", "client"}
Nets == [Clients -> [Sides -> End0]]

(* Of the end s of c only x has changed, where x is a field. *)
Others(c, s) ==
    /\ net' \in Nets
    /\ \A d \in Clients : d # c => net'[d] = net[d]
    /\ \A o \in Sides : o # s => net'[c][o] = net[c][o]

LEMMA InSet ==
    ASSUME SessionTypes, NEW c \in Clients, NEW s \in Sides, NEW x \in Seq(Byte),
           net' = [net EXCEPT ![c][s].in = x]
    PROVE  /\ Others(c, s) /\ net'[c][s].in = x
           /\ net'[c][s].open = net[c][s].open /\ net'[c][s].shut = net[c][s].shut /\ net'[c][s].err = net[c][s].err
  <1>1. net[c][s] \in End0
    BY DEF SessionTypes, Sides
  <1>2. PICK e \in End0 : e = [net[c][s] EXCEPT !.in = x]
    BY <1>1 DEF End0
  <1>3. e.in = x /\ e.open = net[c][s].open /\ e.shut = net[c][s].shut /\ e.err = net[c][s].err
    BY <1>1, <1>2 DEF End0
  <1>4. net \in Nets /\ net[c] \in [Sides -> End0]
    BY DEF SessionTypes, Nets, Sides
  <1>5. PICK two : two = [net[c] EXCEPT ![s].in = x]
    OBVIOUS
  <1>6. two \in [Sides -> End0] /\ two[s] = e /\ \A o \in Sides : o # s => two[o] = net[c][o]
    BY <1>2, <1>4, <1>5
  <1>7. net' \in Nets /\ net'[c] = two /\ \A d \in Clients : d # c => net'[d] = net[d]
    BY <1>4, <1>5, <1>6 DEF Nets
  <1> QED BY <1>3, <1>6, <1>7 DEF Others

(* The end s of c keeps all but its error. *)
ErrOnly(c, s) ==
    /\ Others(c, s)
    /\ net'[c][s].open = net[c][s].open /\ net'[c][s].shut = net[c][s].shut /\ net'[c][s].in = net[c][s].in

LEMMA ErrSet ==
    ASSUME SessionTypes, NEW c \in Clients, NEW s \in Sides, NEW x \in {"none", "reset", "pipe", "unconnected"},
           net' = [net EXCEPT ![c][s].err = x]
    PROVE  ErrOnly(c, s) /\ net'[c][s].err = x
  <1>1. net[c][s] \in End0
    BY DEF SessionTypes, Sides
  <1>2. PICK e \in End0 : e = [net[c][s] EXCEPT !.err = x]
    BY <1>1 DEF End0
  <1>3. e.err = x /\ e.open = net[c][s].open /\ e.shut = net[c][s].shut /\ e.in = net[c][s].in
    BY <1>1, <1>2 DEF End0
  <1>4. net \in Nets /\ net[c] \in [Sides -> End0]
    BY DEF SessionTypes, Nets, Sides
  <1>5. PICK two : two = [net[c] EXCEPT ![s].err = x]
    OBVIOUS
  <1>6. two \in [Sides -> End0] /\ two[s] = e /\ \A o \in Sides : o # s => two[o] = net[c][o]
    BY <1>2, <1>4, <1>5
  <1>7. net' \in Nets /\ net'[c] = two /\ \A d \in Clients : d # c => net'[d] = net[d]
    BY <1>4, <1>5, <1>6 DEF Nets
  <1> QED BY <1>3, <1>6, <1>7 DEF Others, ErrOnly

LEMMA ShutSet ==
    ASSUME SessionTypes, NEW c \in Clients, NEW s \in Sides,
           net' = [net EXCEPT ![c][s].shut = TRUE]
    PROVE  /\ Others(c, s) /\ net'[c][s].shut = TRUE
           /\ net'[c][s].open = net[c][s].open /\ net'[c][s].err = net[c][s].err /\ net'[c][s].in = net[c][s].in
  <1>1. net[c][s] \in End0
    BY DEF SessionTypes, Sides
  <1>2. PICK e \in End0 : e = [net[c][s] EXCEPT !.shut = TRUE]
    BY <1>1 DEF End0
  <1>3. e.shut = TRUE /\ e.open = net[c][s].open /\ e.err = net[c][s].err /\ e.in = net[c][s].in
    BY <1>1, <1>2 DEF End0
  <1>4. net \in Nets /\ net[c] \in [Sides -> End0]
    BY DEF SessionTypes, Nets, Sides
  <1>5. PICK two : two = [net[c] EXCEPT ![s].shut = TRUE]
    OBVIOUS
  <1>6. two \in [Sides -> End0] /\ two[s] = e /\ \A o \in Sides : o # s => two[o] = net[c][o]
    BY <1>2, <1>4, <1>5
  <1>7. net' \in Nets /\ net'[c] = two /\ \A d \in Clients : d # c => net'[d] = net[d]
    BY <1>4, <1>5, <1>6 DEF Nets
  <1> QED BY <1>3, <1>6, <1>7 DEF Others

(* The end side of c, open in n, is closed in r. *)
ClosedAt(n, r, c, side) ==
    /\ ~ r[c][side].open /\ r[c][side].in = << >> /\ r[c][side].shut = n[c][side].shut /\ r[c][side].err = n[c][side].err
    /\ r[c][Other(side)].open = n[c][Other(side)].open /\ r[c][Other(side)].shut = n[c][Other(side)].shut
    /\ \/ r[c][Other(side)] = n[c][Other(side)]
       \/ /\ n[c][side].in # << >> /\ n[c][side].err = "none" /\ n[c][Other(side)].open
          /\ r[c][Other(side)].err \in {"reset", "pipe"}
          /\ \E k \in 0 .. Len(n[c][Other(side)].in) : r[c][Other(side)].in = SubSeq(n[c][Other(side)].in, 1, k)

Closed(n, r, c, side) ==
    r \in Nets /\ (\A d \in Clients : d # c => r[d] = n[d]) /\ ClosedAt(n, r, c, side)

Resets(n, c, side) == n[c][side].in # << >> /\ n[c][side].err = "none" /\ n[c][Other(side)].open
FailureOf(e) == IF e.shut THEN "pipe" ELSE "reset"
Cut0(e, f, k) == [e EXCEPT !.err = f, !.in = SubSeq(@, 1, k)]

LEMMA ClosingsClose ==
    ASSUME NEW n \in Nets, NEW c \in Clients, NEW side \in Sides, NEW r \in Closings(n, c, side)
    PROVE  Closed(n, r, c, side)
  <1>1. PICK o \in Sides : o = Other(side) /\ o # side
    BY DEF Other, Sides
  <1>2. PICK me \in End0, you \in End0 : me = n[c][side] /\ you = n[c][o]
    BY DEF Nets
  <1>3. PICK gone \in End0 : gone = [me EXCEPT !.open = FALSE, !.in = << >>]
    <2>1. << >> \in Seq(Byte)
      OBVIOUS
    <2>2. PICK none \in Seq(Byte) : none = << >>
      BY <2>1
    <2>3. [me EXCEPT !.open = FALSE, !.in = none] \in End0
      BY <1>2 DEF End0
    <2> QED BY <2>2, <2>3
  <1>4. ~ gone.open /\ gone.in = << >> /\ gone.shut = me.shut /\ gone.err = me.err
    BY <1>3 DEF End0
  <1>5. PICK e : /\ r = [n EXCEPT ![c] = Ends(side, gone, e)]
                 /\ IF Resets(n, c, side) THEN \E k \in 0 .. Len(you.in) : e = Cut0(you, FailureOf(me), k) ELSE e = you
    <2>1. r \in {[n EXCEPT ![c] = Ends(side, [n[c][side] EXCEPT !.open = FALSE, !.in = << >>], e)] : e \in
                    IF Resets(n, c, side)
                    THEN {Cut0(n[c][Other(side)], FailureOf(n[c][side]), k) : k \in 0 .. Len(n[c][Other(side)].in)}
                    ELSE {n[c][Other(side)]}}
      BY DEF Closings, Resets, FailureOf, Cut0
    <2>2. PICK e : /\ r = [n EXCEPT ![c] = Ends(side, [n[c][side] EXCEPT !.open = FALSE, !.in = << >>], e)]
                   /\ e \in IF Resets(n, c, side)
                            THEN {Cut0(n[c][Other(side)], FailureOf(n[c][side]), k) : k \in 0 .. Len(n[c][Other(side)].in)}
                            ELSE {n[c][Other(side)]}
      BY <2>1
    <2>3. IF Resets(n, c, side)
          THEN \E k \in 0 .. Len(n[c][Other(side)].in) : e = Cut0(n[c][Other(side)], FailureOf(n[c][side]), k)
          ELSE e = n[c][Other(side)]
      BY <2>2
    <2> QED BY <1>1, <1>2, <1>3, <2>2, <2>3, Zenon
  <1>6. /\ e \in End0 /\ e.open = you.open /\ e.shut = you.shut
        /\ \/ e = you
           \/ /\ Resets(n, c, side) /\ e.err \in {"reset", "pipe"}
              /\ \E k \in 0 .. Len(you.in) : e.in = SubSeq(you.in, 1, k)
    <2>1. CASE ~ Resets(n, c, side)
      BY <1>5, <2>1
    <2>2. CASE Resets(n, c, side)
      <3>1. PICK k \in 0 .. Len(you.in) : e = Cut0(you, FailureOf(me), k)
        BY <1>5, <2>2
      <3>2. PICK f \in {"reset", "pipe"} : f = FailureOf(me)
        BY DEF FailureOf
      <3>3. SubSeq(you.in, 1, k) \in Seq(Byte)
        BY <3>1 DEF End0
      <3>4. e.in = SubSeq(you.in, 1, k) /\ e.err = f /\ e.open = you.open /\ e.shut = you.shut /\ e \in End0
        BY <3>1, <3>2, <3>3 DEF End0, Cut0
      <3> QED BY <2>2, <3>1, <3>2, <3>4
    <2> QED BY <2>1, <2>2
  <1>7. Ends(side, gone, e) \in [Sides -> End0] /\ Ends(side, gone, e)[side] = gone /\ Ends(side, gone, e)[o] = e
    BY <1>1, <1>6 DEF Ends, Sides
  <1>8. r \in Nets /\ (\A d \in Clients : d # c => r[d] = n[d]) /\ r[c][side] = gone /\ r[c][o] = e
    BY <1>5, <1>7 DEF Nets
  <1> QED BY <1>1, <1>2, <1>4, <1>6, <1>8 DEF Closed, ClosedAt, Resets

(* The listening socket is closed. *)
LEMMA UnlistenedIs ==
    ASSUME SessionTypes
    PROVE  /\ Unlistened \in Nets
           /\ \A d \in Clients : conn[d] # "queued" => Unlistened[d] = net[d]
           /\ \A d \in Clients : conn[d] = "queued" =>
                 /\ ~ Unlistened[d].server.open
                 /\ Unlistened[d].server.in = << >> /\ Unlistened[d].server.shut = net[d].server.shut
                 /\ Unlistened[d].server.err = net[d].server.err
                 /\ Unlistened[d].client.in = net[d].client.in /\ Unlistened[d].client.open = net[d].client.open
                 /\ Unlistened[d].client.shut = net[d].client.shut
  <1>1. net \in Nets
    BY DEF SessionTypes, Nets, Sides
  <1>2. ASSUME NEW d \in Clients, conn[d] # "queued"
        PROVE  Unlistened[d] = net[d]
    BY <1>2 DEF Unlistened
  <1>3. ASSUME NEW d \in Clients, conn[d] = "queued"
        PROVE  /\ Unlistened[d] \in [Sides -> End0]
               /\ ~ Unlistened[d].server.open
               /\ Unlistened[d].server.in = << >> /\ Unlistened[d].server.shut = net[d].server.shut
               /\ Unlistened[d].server.err = net[d].server.err
               /\ Unlistened[d].client.in = net[d].client.in /\ Unlistened[d].client.open = net[d].client.open
               /\ Unlistened[d].client.shut = net[d].client.shut
    <2>1. PICK f \in {"reset", "pipe"} : f = IF net[d].client.shut THEN "pipe" ELSE "reset"
      OBVIOUS
    <2>2. net[d].client \in End0 /\ net[d].server \in End0
      BY <1>1 DEF Nets, Sides
    <2>3. << >> \in Seq(Byte)
      OBVIOUS
    <2>4. PICK none \in Seq(Byte) : none = << >>
      BY <2>3
    <2>5. PICK a : a = [net[d].client EXCEPT !.err = f]
      OBVIOUS
    <2>6. a \in End0 /\ a.in = net[d].client.in /\ a.open = net[d].client.open /\ a.shut = net[d].client.shut
      BY <2>1, <2>2, <2>5 DEF End0
    <2>7. PICK b : b = [net[d].server EXCEPT !.open = FALSE, !.in = none]
      OBVIOUS
    <2>8. b \in End0 /\ ~ b.open /\ b.in = none /\ b.shut = net[d].server.shut /\ b.err = net[d].server.err
      BY <2>2, <2>4, <2>7 DEF End0
    <2>9. Unlistened[d] = Ends("client", [net[d].client EXCEPT !.err = IF net[d].client.shut THEN "pipe" ELSE "reset"],
                                         [net[d].server EXCEPT !.open = FALSE, !.in = << >>])
      BY <1>3 DEF Unlistened
    <2>10. Unlistened[d] = Ends("client", a, b)
      BY <2>1, <2>4, <2>5, <2>7, <2>9, Zenon
    <2>11. Unlistened[d] \in [Sides -> End0] /\ Unlistened[d].client = a /\ Unlistened[d].server = b
      BY <2>6, <2>8, <2>10 DEF Ends, Sides
    <2> QED BY <2>4, <2>6, <2>8, <2>11
  <1>4. Unlistened \in Nets
    <2>1. ASSUME NEW d \in Clients PROVE Unlistened[d] \in [Sides -> End0]
      BY <1>1, <1>2, <1>3 DEF Nets
    <2>2. Unlistened = [d \in Clients |-> Unlistened[d]]
      BY DEF Unlistened
    <2> QED BY <2>1, <2>2 DEF Nets
  <1> QED BY <1>2, <1>3, <1>4

LEMMA ServerReleases ==
    ASSUME SessionTypes, NEW n \in Nets, Release({S}, n)
    PROVE  /\ serving' = NULL /\ fds' = fds /\ net' \in Nets
           /\ \A d \in Clients : d # serving => net'[d] = n[d]
           /\ serving \in Clients => Closed(n, net', serving, "server")
  <1>1. (CHOOSE q \in {S} : TRUE) = S
    OBVIOUS
  <1>2. /\ serving' = NULL /\ fds' = fds
        /\ net' \in IF serving = NULL THEN {n} ELSE Closings(n, serving, "server")
    BY <1>1 DEF Release, ConnOf
  <1>3. CASE serving = NULL
    BY <1>2, <1>3, Apart
  <1>4. CASE serving \in Clients
    <2>1. net' \in Closings(n, serving, "server")
      BY <1>2, <1>4, Apart
    <2>2. Closed(n, net', serving, "server")
      BY <1>4, <2>1, ClosingsClose DEF Sides
    <2> QED BY <1>2, <1>4, <2>2 DEF Closed
  <1> QED BY <1>3, <1>4 DEF SessionTypes

LEMMA ClientReleases ==
    ASSUME SessionTypes, NEW n \in Nets, NEW d \in Clients, NEW Q, Q # {}, Q \subseteq {P1(d), P2(d)}, Release(Q, n)
    PROVE  /\ serving' = serving
           /\ fds' \in [Clients -> SUBSET {1, 2}] /\ \A c \in Clients : c # d => fds'[c] = fds[c]
           /\ fds'[d] = {k \in fds[d] : <<d, k>> \notin Q}
           /\ \/ fds[d] # {} /\ fds'[d] = {} /\ Closed(n, net', d, "client")
              \/ ~ (fds[d] # {} /\ fds'[d] = {}) /\ net' = n
  <1>1. (CHOOSE q \in Q : TRUE) \in Q
    OBVIOUS
  <1>2. PICK p : p = (CHOOSE q \in Q : TRUE) /\ p # S /\ p[1] = d
    BY <1>1, Apart
  <1>3. /\ serving' = serving
        /\ fds' = [fds EXCEPT ![d] = {k \in @ : <<d, k>> \notin Q}]
        /\ net' \in IF fds[d] # {} /\ fds'[d] = {} THEN Closings(n, d, "client") ELSE {n}
    BY <1>2 DEF Release, ConnOf
  <1>4. fds \in [Clients -> SUBSET {1, 2}]
    BY DEF SessionTypes
  <1>5. /\ fds' \in [Clients -> SUBSET {1, 2}] /\ \A c \in Clients : c # d => fds'[c] = fds[c]
        /\ fds'[d] = {k \in fds[d] : <<d, k>> \notin Q}
    BY <1>3, <1>4
  <1>6. CASE fds[d] # {} /\ fds'[d] = {}
    BY <1>3, <1>5, <1>6, ClosingsClose DEF Sides
  <1>7. CASE ~ (fds[d] # {} /\ fds'[d] = {})
    BY <1>3, <1>5, <1>7
  <1> QED BY <1>3, <1>5, <1>6, <1>7

(* The processes in Q end. *)
Ended0(Q) ==
    /\ proc' \in [Procs -> Process]
    /\ \A q \in Procs : q \notin Q => proc'[q] = proc[q]
    /\ \A q \in Q : /\ proc'[q].pc = 0 /\ proc'[q].buf = proc[q].buf /\ proc'[q].ahead = proc[q].ahead
                    /\ proc'[q].eof = proc[q].eof /\ proc'[q].round = proc[q].round

LEMMA EndsProcs ==
    ASSUME SessionTypes, NEW Q, Q \subseteq Procs, End(Q)
    PROVE  Ended0(Q)
  <1>1. proc \in [Procs -> Process] /\ proc' = [q \in Procs |-> IF q \in Q THEN [proc[q] EXCEPT !.pc = 0] ELSE proc[q]]
    BY DEF SessionTypes, End
  <1>2. ASSUME NEW q \in Procs, q \notin Q PROVE proc'[q] = proc[q] /\ proc'[q] \in Process
    BY <1>1, <1>2
  <1>3. ASSUME NEW q \in Q
        PROVE  /\ proc'[q] \in Process /\ proc'[q].pc = 0 /\ proc'[q].buf = proc[q].buf /\ proc'[q].ahead = proc[q].ahead
               /\ proc'[q].eof = proc[q].eof /\ proc'[q].round = proc[q].round
    <2>1. q \in Procs /\ proc[q] \in Process /\ proc'[q] = [proc[q] EXCEPT !.pc = 0]
      BY <1>1, <1>3
    <2> QED BY <2>1 DEF Process
  <1>4. proc' \in [Procs -> Process]
    <2>1. ASSUME NEW q \in Procs PROVE proc'[q] \in Process
      BY <1>2, <1>3
    <2>2. proc' = [q \in Procs |-> proc'[q]]
      BY <1>1
    <2> QED BY <2>1, <2>2
  <1> QED BY <1>2, <1>3, <1>4 DEF Ended0

LEMMA ServerEnds ==
    ASSUME SessionTypes, End({S})
    PROVE  /\ Ended0({S}) /\ serving' = NULL /\ fds' = fds /\ net' \in Nets
           /\ \A d \in Clients : d # serving => net'[d] = Unlistened[d]
           /\ serving \in Clients /\ conn[serving] # "queued" => ClosedAt(net, net', serving, "server")
  <1>1. Ended0({S})
    BY EndsProcs, Apart
  <1>2. Unlistened \in Nets /\ Release({S}, Unlistened)
    BY UnlistenedIs DEF End
  <1>3. /\ serving' = NULL /\ fds' = fds /\ net' \in Nets
        /\ \A d \in Clients : d # serving => net'[d] = Unlistened[d]
        /\ serving \in Clients => Closed(Unlistened, net', serving, "server")
    BY <1>2, ServerReleases
  <1>4. ASSUME serving \in Clients, conn[serving] # "queued" PROVE ClosedAt(net, net', serving, "server")
    <2>1. PICK u : u = Unlistened
      OBVIOUS
    <2>2. u[serving] = net[serving] /\ ClosedAt(u, net', serving, "server")
      BY <1>3, <1>4, <2>1, UnlistenedIs DEF Closed
    <2> QED BY <2>2, Zenon DEF ClosedAt
  <1> QED BY <1>1, <1>3, <1>4

LEMMA ClientEnds ==
    ASSUME SessionTypes, NEW d \in Clients, NEW Q, Q # {}, Q \subseteq {P1(d), P2(d)}, End(Q)
    PROVE  /\ Ended0(Q) /\ serving' = serving
           /\ fds' \in [Clients -> SUBSET {1, 2}] /\ \A c \in Clients : c # d => fds'[c] = fds[c]
           /\ fds'[d] = {k \in fds[d] : <<d, k>> \notin Q}
           /\ \/ fds[d] # {} /\ fds'[d] = {} /\ Closed(net, net', d, "client")
              \/ ~ (fds[d] # {} /\ fds'[d] = {}) /\ net' = net
  <1>1. Q \subseteq Procs /\ S \notin Q
    BY Apart
  <1>2. Ended0(Q)
    BY <1>1, EndsProcs
  <1>3. net \in Nets
    BY DEF SessionTypes, Nets, Sides
  <1>4. Release(Q, net)
    BY <1>1 DEF End
  <1> QED BY <1>2, <1>3, <1>4, ClientReleases

-----------------------------------------------------------------------------
(* What each action does, one component after the other. *)

(* p goes on, and changes nothing but itself and its connection. *)
Local(p) ==
    /\ proc' \in [Procs -> Process] /\ \A q \in Procs : q # p => proc'[q] = proc[q]
    /\ Follows(Script(p), proc[p].pc, proc'[p].pc)
    /\ proc'[p].round >= proc[p].round
    /\ net' \in Nets /\ \A d \in Clients : d # ConnOf(p) => net'[d] = net[d]
    /\ UNCHANGED <<pair, conn, fds, serving>>

Kept(p) == proc'[p].ahead = proc[p].ahead /\ proc'[p].eof = proc[p].eof

(* The end s of c keeps all but its bytes. *)
BytesOnly(c, s) ==
    /\ Others(c, s)
    /\ net'[c][s].open = net[c][s].open /\ net'[c][s].shut = net[c][s].shut /\ net'[c][s].err = net[c][s].err

Took(p, k) ==
    /\ k \in 1 .. Len(Mine(p).in)
    /\ BytesOnly(ConnOf(p), SideOf(p))
    /\ net'[ConnOf(p)][SideOf(p)].in = SubSeq(Mine(p).in, k + 1, Len(Mine(p).in))

LEMMA SameNet ==
    ASSUME SessionTypes, net' = net
    PROVE  net' \in Nets /\ \A d \in Clients : net'[d] = net[d]
  BY DEF SessionTypes, Nets, Sides

(* A process goes on without its connection. *)
LEMMA Steps ==
    ASSUME Names, NEW p \in Procs, NEW to \in Nat, NEW b \in Seq(Byte), GoOn(p, to, b),
           Follows(Script(p), proc[p].pc, to), net' = net, UNCHANGED <<pair, conn, fds, serving>>
    PROVE  Local(p) /\ Kept(p) /\ proc'[p].pc = to /\ proc'[p].buf = b
  <1>1. SessionTypes /\ proc[p] \in Process
    BY DEF Names, SessionTypes
  <1>2. /\ proc' \in [Procs -> Process]
        /\ proc'[p].pc = to /\ proc'[p].buf = b
        /\ proc'[p].ahead = proc[p].ahead /\ proc'[p].eof = proc[p].eof /\ proc'[p].round = proc[p].round
        /\ \A q \in Procs : q # p => proc'[q] = proc[q]
    BY <1>1, GoneOn
  <1>3. net' \in Nets /\ \A d \in Clients : net'[d] = net[d]
    BY <1>1, SameNet
  <1>4. proc'[p].round >= proc[p].round
    BY <1>1, <1>2 DEF Process
  <1> QED BY <1>2, <1>3, <1>4 DEF Local, Kept

(* A sequence in two parts. *)
LEMMA Parted ==
    ASSUME NEW E, NEW s \in Seq(E), NEW k \in 1 .. Len(s)
    PROVE  /\ SubSeq(s, 1, k) \in Seq(E) /\ Len(SubSeq(s, 1, k)) = k
           /\ SubSeq(s, k + 1, Len(s)) \in Seq(E) /\ Len(SubSeq(s, k + 1, Len(s))) = Len(s) - k
           /\ s = SubSeq(s, 1, k) \o SubSeq(s, k + 1, Len(s))
  <1>1. /\ SubSeq(s, 1, k) \in Seq(E) /\ Len(SubSeq(s, 1, k)) = k
        /\ SubSeq(s, k + 1, Len(s)) \in Seq(E) /\ Len(SubSeq(s, k + 1, Len(s))) = Len(s) - k
    OBVIOUS
  <1>2. SubSeq(s, 1, k) \o SubSeq(s, k + 1, Len(s)) = SubSeq(s, 1, Len(s))
    OBVIOUS
  <1>3. SubSeq(s, 1, Len(s)) = s
    OBVIOUS
  <1> QED BY <1>1, <1>2, <1>3

LEMMA PartedBytes ==
    \A s \in Seq(Byte) : \A k \in 1 .. Len(s) :
        /\ SubSeq(s, 1, k) \in Seq(Byte) /\ Len(SubSeq(s, 1, k)) = k
        /\ SubSeq(s, k + 1, Len(s)) \in Seq(Byte) /\ Len(SubSeq(s, k + 1, Len(s))) = Len(s) - k
        /\ s = SubSeq(s, 1, k) \o SubSeq(s, k + 1, Len(s))
  BY Parted

LEMMA TakenIs ==
    ASSUME Names, NEW p \in Procs, ConnOf(p) \in Clients, NEW k \in 1 .. Len(Mine(p).in), Taken(p, k)
    PROVE  /\ Took(p, k) /\ net' \in Nets /\ \A d \in Clients : d # ConnOf(p) => net'[d] = net[d]
           /\ SubSeq(Mine(p).in, 1, k) \in Seq(Byte) /\ Len(SubSeq(Mine(p).in, 1, k)) = k
           /\ Mine(p).in = SubSeq(Mine(p).in, 1, k) \o SubSeq(Mine(p).in, k + 1, Len(Mine(p).in))
  <1>1. PICK c \in Clients, s \in Sides : c = ConnOf(p) /\ s = SideOf(p) /\ Mine(p) = net[c][s]
    BY TwoEnds DEF Sides
  <1>2. PICK in \in Seq(Byte) : in = Mine(p).in
    BY TwoEnds DEF End0
  <1>3. PICK x : x = SubSeq(in, k + 1, Len(in))
    OBVIOUS
  <1>4. /\ x \in Seq(Byte) /\ SubSeq(in, 1, k) \in Seq(Byte) /\ Len(SubSeq(in, 1, k)) = k
        /\ in = SubSeq(in, 1, k) \o x
    <2>1. k \in 1 .. Len(in)
      BY <1>2, Zenon
    <2> QED BY <1>3, <2>1, Parted
  <1>5. net' = [net EXCEPT ![c][s].in = x]
    BY <1>1, <1>2, <1>3 DEF Taken
  <1>6. /\ Others(c, s) /\ net'[c][s].in = x
        /\ net'[c][s].open = net[c][s].open /\ net'[c][s].shut = net[c][s].shut /\ net'[c][s].err = net[c][s].err
    BY <1>4, <1>5, InSet DEF Names
  <1> QED BY <1>1, <1>2, <1>3, <1>4, <1>6 DEF Took, BytesOnly, Others

(* A process goes on, and its connection changes as well. *)
LEMMA StepsNet ==
    ASSUME Names, NEW p \in Procs, NEW to \in Nat, NEW b \in Seq(Byte), GoOn(p, to, b),
           Follows(Script(p), proc[p].pc, to),
           net' \in Nets, \A d \in Clients : d # ConnOf(p) => net'[d] = net[d], UNCHANGED <<pair, conn, fds, serving>>
    PROVE  Local(p) /\ Kept(p) /\ proc'[p].pc = to /\ proc'[p].buf = b
  <1>1. SessionTypes /\ proc[p] \in Process
    BY DEF Names, SessionTypes
  <1>2. /\ proc' \in [Procs -> Process]
        /\ proc'[p].pc = to /\ proc'[p].buf = b
        /\ proc'[p].ahead = proc[p].ahead /\ proc'[p].eof = proc[p].eof /\ proc'[p].round = proc[p].round
        /\ \A q \in Procs : q # p => proc'[q] = proc[q]
    BY <1>1, GoneOn
  <1>4. proc'[p].round >= proc[p].round
    BY <1>1, <1>2 DEF Process
  <1> QED BY <1>2, <1>4 DEF Local, Kept

WriteNet(p) ==
    LET c == ConnOf(p)
        me == SideOf(p)
        you == Other(SideOf(p))
    IN  \/ Output(p) = << >> /\ net' = net
        \/ /\ Output(p) # << >> /\ Mine(p).err = "none" /\ Theirs(p).open
           /\ BytesOnly(c, you) /\ net'[c][you].in = Theirs(p).in \o Output(p)
        \/ /\ Output(p) # << >> /\ Mine(p).err = "none" /\ ~ Theirs(p).open
           /\ ErrOnly(c, me) /\ net'[c][me].err \in {"none", "pipe"}
        \/ /\ Output(p) # << >> /\ Mine(p).err = "reset"
           /\ ErrOnly(c, me) /\ net'[c][me].err = "pipe"

LEMMA WriteIs ==
    ASSUME Names, NEW p \in Procs, Write(p)
    PROVE  /\ ConnOf(p) \in Clients /\ Local(p) /\ Kept(p)
           /\ proc'[p].pc = AfterWrite(p) /\ proc'[p].buf = proc[p].buf
           /\ Output(p) \in Seq(Byte) /\ WriteNet(p)
           /\ UNCHANGED <<torn, killed>>
  <1>1. PICK op \in {"put", "echo"} : At(p, op)
    BY DEF Write, Writes
  <1>2. PICK s : /\ s = Script(p) /\ Program(s) /\ Instr(p) = s[proc[p].pc] /\ proc[p].pc \in 1 .. Len(s)
                 /\ Instr(p).op = op /\ proc[p].buf \in Seq(Byte) /\ Len(s) \in Nat
    BY <1>1, Standing, Scripts DEF Process
  <1>3. ConnOf(p) \in Clients
    BY <1>1, Connected
  <1>4. Output(p) \in Seq(Byte) /\ SessionTypes
    BY OutputBytes DEF Write, Names
  <1>5. AfterWrite(p) \in Nat /\ Follows(s, proc[p].pc, AfterWrite(p))
    <2>1. CASE op = "echo"
      BY <1>1, <1>2, <2>1 DEF AfterWrite, Follows, Jumps, Program
    <2>2. CASE op = "put"
      <3>1. AfterWrite(p) = proc[p].pc + 1
        BY <1>1, <2>2 DEF AfterWrite, At
      <3> QED BY <1>2, <2>2, <3>1 DEF Follows, Advance
    <2> QED BY <2>1, <2>2
  <1>6. PICK c \in Clients, me \in Sides, you \in Sides :
            /\ c = ConnOf(p) /\ me = SideOf(p) /\ you = Other(SideOf(p))
            /\ Mine(p) = net[c][me] /\ Theirs(p) = net[c][you] /\ Mine(p) \in End0 /\ Theirs(p) \in End0
    BY <1>3, TwoEnds DEF Sides
  <1>7. WriteNet(p) /\ net' \in Nets /\ \A d \in Clients : d # c => net'[d] = net[d]
    <2>1. \/ Output(p) = << >> /\ net' = net
          \/ /\ Output(p) # << >> /\ Mine(p).err = "none" /\ Theirs(p).open
             /\ net' = [net EXCEPT ![c][you].in = net[c][you].in \o Output(p)]
          \/ /\ Output(p) # << >> /\ Mine(p).err = "none" /\ ~ Theirs(p).open
             /\ \E f \in {"none", "pipe"} : net' = [net EXCEPT ![c][me].err = f]
          \/ /\ Output(p) # << >> /\ Mine(p).err = "reset"
             /\ net' = [net EXCEPT ![c][me].err = IF net[c][me].err = "reset" THEN "pipe" ELSE net[c][me].err]
      BY <1>6 DEF Write, Reported
    <2>2. CASE Output(p) = << >> /\ net' = net
      BY <1>4, <2>2, SameNet DEF WriteNet
    <2>3. CASE /\ Output(p) # << >> /\ Mine(p).err = "none" /\ Theirs(p).open
               /\ net' = [net EXCEPT ![c][you].in = net[c][you].in \o Output(p)]
      <3>1. PICK x \in Seq(Byte) : x = net[c][you].in \o Output(p)
        <4>1. PICK old \in Seq(Byte), out \in Seq(Byte) : old = net[c][you].in /\ out = Output(p)
          BY <1>4, <1>6 DEF End0
        <4>2. old \o out \in Seq(Byte)
          OBVIOUS
        <4>3. net[c][you].in \o Output(p) \in Seq(Byte)
          BY <4>1, <4>2, Zenon
        <4> QED BY <4>3, Zenon
      <3>2. BytesOnly(c, you) /\ net'[c][you].in = x
        <4>1. net' = [net EXCEPT ![c][you].in = x]
          BY <2>3, <3>1, Zenon
        <4> QED BY <1>4, <4>1, InSet DEF BytesOnly
      <3>3. BytesOnly(ConnOf(p), Other(SideOf(p))) /\ net'[ConnOf(p)][Other(SideOf(p))].in = Theirs(p).in \o Output(p)
        BY <1>6, <3>1, <3>2, Zenon
      <3>4. WriteNet(p)
        BY <2>3, <3>3 DEF WriteNet
      <3> QED BY <3>2, <3>4 DEF BytesOnly, Others
    <2>4. CASE /\ Output(p) # << >> /\ Mine(p).err = "none" /\ ~ Theirs(p).open
               /\ \E f \in {"none", "pipe"} : net' = [net EXCEPT ![c][me].err = f]
      <3>1. PICK f \in {"none", "pipe"} : net' = [net EXCEPT ![c][me].err = f]
        BY <2>4
      <3>2. ErrOnly(c, me) /\ net'[c][me].err = f
        BY <1>4, <3>1, ErrSet, Zenon
      <3>3. ErrOnly(ConnOf(p), SideOf(p)) /\ net'[ConnOf(p)][SideOf(p)].err \in {"none", "pipe"}
        BY <1>6, <3>2
      <3>4. WriteNet(p)
        BY <2>4, <3>3 DEF WriteNet
      <3> QED BY <3>2, <3>4 DEF ErrOnly, Others
    <2>5. CASE /\ Output(p) # << >> /\ Mine(p).err = "reset"
               /\ net' = [net EXCEPT ![c][me].err = IF net[c][me].err = "reset" THEN "pipe" ELSE net[c][me].err]
      <3>1. net' = [net EXCEPT ![c][me].err = "pipe"]
        BY <1>6, <2>5
      <3>2. ErrOnly(c, me) /\ net'[c][me].err = "pipe"
        BY <1>4, <3>1, ErrSet, Zenon
      <3>3. ErrOnly(ConnOf(p), SideOf(p)) /\ net'[ConnOf(p)][SideOf(p)].err = "pipe"
        BY <1>6, <3>2
      <3>4. WriteNet(p)
        BY <2>5, <3>3 DEF WriteNet
      <3> QED BY <3>2, <3>4 DEF ErrOnly, Others
    <2> QED BY <2>1, <2>2, <2>3, <2>4, <2>5
  <1>8. GoOn(p, AfterWrite(p), proc[p].buf) /\ UNCHANGED <<pair, conn, fds, serving, torn, killed>>
    BY DEF Write
  <1>9. Local(p) /\ Kept(p) /\ proc'[p].pc = AfterWrite(p) /\ proc'[p].buf = proc[p].buf
    <2>1. \A d \in Clients : d # ConnOf(p) => net'[d] = net[d]
      BY <1>6, <1>7
    <2> QED BY <1>2, <1>5, <1>7, <1>8, <2>1, StepsNet
  <1> QED BY <1>3, <1>4, <1>7, <1>8, <1>9

LEMMA ReadSomeIs ==
    ASSUME Names, NEW p \in Procs, ReadSome(p)
    PROVE  /\ ConnOf(p) \in Clients /\ Local(p) /\ Kept(p) /\ Data(p)
           /\ proc'[p].pc = proc[p].pc + 1
           /\ \E k \in 1 .. Len(Mine(p).in) :
                 /\ Took(p, k) /\ proc'[p].buf = SubSeq(Mine(p).in, 1, k) /\ (At(p, "read") => k <= Instr(p).n)
           /\ UNCHANGED <<torn, killed>>
  <1>1. PICK op \in {"read", "body"} : At(p, op)
    BY DEF ReadSome
  <1>2. PICK s : /\ s = Script(p) /\ Program(s) /\ Instr(p) = s[proc[p].pc] /\ proc[p].pc \in 1 .. Len(s)
                 /\ Instr(p).op = op /\ Len(s) \in Nat
    BY <1>1, Standing, Scripts DEF Process
  <1>3. ConnOf(p) \in Clients
    BY <1>1, Connected
  <1>4. PICK k \in 1 .. Len(Mine(p).in) :
            /\ \E most \in MostOf(p) : k <= most
            /\ Taken(p, k) /\ GoOn(p, proc[p].pc + 1, SubSeq(Mine(p).in, 1, k))
    BY DEF ReadSome
  <1>5. /\ Took(p, k) /\ net' \in Nets /\ \A d \in Clients : d # ConnOf(p) => net'[d] = net[d]
        /\ SubSeq(Mine(p).in, 1, k) \in Seq(Byte)
    BY <1>3, <1>4, TakenIs
  <1>6. proc[p].pc + 1 \in Nat /\ Follows(s, proc[p].pc, proc[p].pc + 1)
    BY <1>2 DEF Follows, Advance
  <1>7. At(p, "read") => k <= Instr(p).n
    BY <1>4 DEF MostOf, At
  <1>8. UNCHANGED <<pair, conn, fds, serving, torn, killed>> /\ Data(p)
    BY DEF ReadSome
  <1>9. /\ Local(p) /\ Kept(p) /\ proc'[p].pc = proc[p].pc + 1
        /\ proc'[p].buf = SubSeq(Mine(p).in, 1, k)
    BY <1>2, <1>4, <1>5, <1>6, <1>8, StepsNet
  <1> QED BY <1>3, <1>5, <1>7, <1>8, <1>9

LEMMA ReadEndIs ==
    ASSUME Names, NEW p \in Procs, ReadEnd(p)
    PROVE  /\ ConnOf(p) \in Clients /\ Local(p) /\ Kept(p) /\ Ended(p)
           /\ proc'[p].pc = Instr(p).to /\ proc'[p].buf = << >> /\ net' = net
           /\ UNCHANGED <<torn, killed>>
  <1>1. PICK op \in {"read", "body"} : At(p, op)
    BY DEF ReadEnd
  <1>2. PICK s : /\ s = Script(p) /\ Program(s) /\ Instr(p) = s[proc[p].pc] /\ proc[p].pc \in 1 .. Len(s)
                 /\ Instr(p).op = op /\ Len(s) \in Nat
    BY <1>1, Standing, Scripts DEF Process
  <1>3. ConnOf(p) \in Clients
    BY <1>1, Connected
  <1>4. Instr(p).to \in Nat /\ Follows(s, proc[p].pc, Instr(p).to) /\ << >> \in Seq(Byte)
    BY <1>2 DEF Follows, Jumps, Program
  <1>5. GoOn(p, Instr(p).to, << >>) /\ net' = net /\ UNCHANGED <<pair, conn, fds, serving, torn, killed>> /\ Ended(p)
    BY DEF ReadEnd
  <1>6. /\ Local(p) /\ Kept(p) /\ proc'[p].pc = Instr(p).to /\ proc'[p].buf = << >>
    BY <1>2, <1>4, <1>5, Steps
  <1> QED BY <1>3, <1>5, <1>6

LEMMA FillSomeIs ==
    ASSUME Names, NEW p \in Procs, FillSome(p)
    PROVE  /\ ConnOf(p) \in Clients /\ Local(p) /\ Kept(p) /\ Data(p)
           /\ \E k \in 1 .. Len(Mine(p).in) :
                 /\ Took(p, k) /\ proc'[p].buf = proc[p].buf \o SubSeq(Mine(p).in, 1, k)
                 /\ proc'[p].pc = IF Len(proc[p].buf) + k >= Instr(p).n THEN proc[p].pc + 1 ELSE proc[p].pc
           /\ Marks(p) /\ (Instr(p).n = All => torn' = torn)
  <1>1. At(p, "fill") /\ Data(p) /\ UNCHANGED <<pair, conn, fds, serving, killed>>
    BY DEF FillSome
  <1>2. ConnOf(p) \in Clients
    BY <1>1, Connected
  <1>3. PICK k \in 1 .. Len(Mine(p).in) : \E b :
            /\ Taken(p, k) /\ b = proc[p].buf \o SubSeq(Mine(p).in, 1, k)
            /\ IF Len(b) >= Instr(p).n THEN Counted(p, b) /\ GoOn(p, proc[p].pc + 1, b)
               ELSE UNCHANGED torn /\ GoOn(p, proc[p].pc, b)
    BY DEF FillSome
  <1>3b. PICK b :
            /\ Taken(p, k) /\ b = proc[p].buf \o SubSeq(Mine(p).in, 1, k)
            /\ IF Len(b) >= Instr(p).n THEN Counted(p, b) /\ GoOn(p, proc[p].pc + 1, b)
               ELSE UNCHANGED torn /\ GoOn(p, proc[p].pc, b)
    BY <1>3
  <1>3a. /\ Taken(p, k) /\ b = proc[p].buf \o SubSeq(Mine(p).in, 1, k)
         /\ GoOn(p, IF Len(b) >= Instr(p).n THEN proc[p].pc + 1 ELSE proc[p].pc, b)
    BY <1>3b
  <1>3c. Marks(p) /\ (Instr(p).n = All => torn' = torn)
    BY <1>1, <1>3b DEF Marks, Counted, Judge
  <1>4. /\ Took(p, k) /\ net' \in Nets /\ \A d \in Clients : d # ConnOf(p) => net'[d] = net[d]
        /\ SubSeq(Mine(p).in, 1, k) \in Seq(Byte) /\ Len(SubSeq(Mine(p).in, 1, k)) = k
    BY <1>2, <1>3a, TakenIs
  <1>5. /\ proc[p].buf \in Seq(Byte) /\ Instr(p).n \in Nat /\ proc[p].pc \in Nat /\ proc[p].pc + 1 \in Nat
        /\ Follows(Script(p), proc[p].pc, proc[p].pc + 1) /\ Follows(Script(p), proc[p].pc, proc[p].pc)
    BY <1>1, Instruction DEF Advance
  <1>6. b \in Seq(Byte) /\ Len(b) = Len(proc[p].buf) + k
    <2>1. PICK old \in Seq(Byte), new \in Seq(Byte) : old = proc[p].buf /\ new = SubSeq(Mine(p).in, 1, k) /\ Len(new) = k
      BY <1>4, <1>5
    <2>2. old \o new \in Seq(Byte) /\ Len(old \o new) = Len(old) + Len(new)
      OBVIOUS
    <2> QED BY <1>3a, <2>1, <2>2, Zenon
  <1>7. PICK to \in Nat : /\ to = IF Len(proc[p].buf) + k >= Instr(p).n THEN proc[p].pc + 1 ELSE proc[p].pc
                          /\ GoOn(p, to, b) /\ Follows(Script(p), proc[p].pc, to)
    BY <1>3a, <1>5, <1>6
  <1>8. Local(p) /\ Kept(p) /\ proc'[p].pc = to /\ proc'[p].buf = b
    BY <1>1, <1>4, <1>6, <1>7, StepsNet
  <1> QED BY <1>1, <1>2, <1>3a, <1>3c, <1>4, <1>7, <1>8, Zenon

LEMMA FillEndIs ==
    ASSUME Names, NEW p \in Procs, FillEnd(p)
    PROVE  /\ ConnOf(p) \in Clients /\ Local(p) /\ Kept(p) /\ Ended(p)
           /\ proc'[p].pc = Instr(p).to /\ Instr(p).to # 0 /\ proc'[p].buf = proc[p].buf /\ net' = net
           /\ UNCHANGED <<torn, killed>>
  <1>1. /\ At(p, "fill") /\ Ended(p) /\ Instr(p).to # 0 /\ GoOn(p, Instr(p).to, proc[p].buf)
        /\ net' = net /\ UNCHANGED <<pair, conn, fds, serving, torn, killed>>
    BY DEF FillEnd
  <1>2. ConnOf(p) \in Clients
    BY <1>1, Connected
  <1>3. Instr(p).to \in Nat /\ Follows(Script(p), proc[p].pc, Instr(p).to) /\ proc[p].buf \in Seq(Byte)
    BY <1>1, Instruction DEF Jumps
  <1>4. Local(p) /\ Kept(p) /\ proc'[p].pc = Instr(p).to /\ proc'[p].buf = proc[p].buf
    BY <1>1, <1>3, Steps
  <1> QED BY <1>1, <1>2, <1>4

LEMMA ReadFailsIs ==
    ASSUME Names, NEW p \in Procs, ReadFails(p)
    PROVE  /\ ConnOf(p) \in Clients /\ Failed(p)
           /\ UNCHANGED <<pair, conn, torn, killed>>
           /\ \E op \in {"read", "body", "fill", "line"} : At(p, op)
           /\ \/ 0 \in Instr(p).errs /\ End({p})
              \/ /\ Local(p) /\ proc'[p].pc \in Instr(p).errs \ {0} /\ proc'[p].ahead = << >> /\ proc'[p].eof = proc[p].eof
                 /\ proc'[p].buf = IF At(p, "line") \/ At(p, "fill") THEN proc[p].buf ELSE << >>
                 /\ \/ Mine(p).err = "reset" /\ ErrOnly(ConnOf(p), SideOf(p)) /\ net'[ConnOf(p)][SideOf(p)].err = "pipe"
                    \/ Mine(p).err # "reset" /\ ErrOnly(ConnOf(p), SideOf(p)) /\ net'[ConnOf(p)][SideOf(p)].err = Mine(p).err
  <1>1. PICK op \in {"read", "body", "fill", "line"} : At(p, op)
    BY DEF ReadFails
  <1>2. Failed(p) /\ UNCHANGED <<pair, conn, torn, killed>>
    BY DEF ReadFails
  <1>3. ConnOf(p) \in Clients
    BY <1>1, Connected
  <1>4. PICK to \in Instr(p).errs :
            IF to = 0 THEN End({p})
            ELSE /\ proc' = [proc EXCEPT ![p].pc = to, ![p].ahead = << >>,
                                         ![p].buf = IF At(p, "line") \/ At(p, "fill") THEN @ ELSE << >>]
                 /\ Reported(p)
                 /\ UNCHANGED <<fds, serving>>
    BY DEF ReadFails
  <1>5. CASE to = 0
    BY <1>1, <1>2, <1>3, <1>4, <1>5
  <1>6. CASE to # 0
    <2>1. to \in Nat /\ Follows(Script(p), proc[p].pc, to) /\ proc[p].buf \in Seq(Byte) /\ proc[p].round \in Nat /\ SessionTypes
      BY <1>1, Instruction
    <2>2. << >> \in Seq(Byte)
      OBVIOUS
    <2>3. PICK b \in Seq(Byte) : b = IF At(p, "line") \/ At(p, "fill") THEN proc[p].buf ELSE << >>
      BY <2>1, <2>2
    <2>4. PICK none \in Seq(Byte) : none = << >>
      BY <2>2
    <2>5. proc' = [proc EXCEPT ![p].pc = to, ![p].ahead = none, ![p].buf = b]
      BY <1>4, <1>6, <2>3, <2>4, Zenon
    <2>6. /\ proc' \in [Procs -> Process] /\ proc'[p].pc = to /\ proc'[p].buf = b /\ proc'[p].ahead = none
          /\ proc'[p].eof = proc[p].eof /\ proc'[p].round = proc[p].round
          /\ \A q \in Procs : q # p => proc'[q] = proc[q]
      <3>1. proc \in [Procs -> Process]
        BY <2>1 DEF SessionTypes
      <3>2. PICK r : r = [proc[p] EXCEPT !.pc = to, !.ahead = none, !.buf = b]
        OBVIOUS
      <3>3. /\ r \in Process /\ r.pc = to /\ r.buf = b /\ r.ahead = none
            /\ r.eof = proc[p].eof /\ r.round = proc[p].round
        BY <2>1, <3>1, <3>2 DEF Process
      <3>4. proc' = [proc EXCEPT ![p] = r]
        BY <2>5, <3>1, <3>2 DEF Process
      <3> QED BY <3>1, <3>3, <3>4
    <2>7. PICK c \in Clients, me \in Sides :
            c = ConnOf(p) /\ me = SideOf(p) /\ Mine(p) = net[c][me] /\ Mine(p) \in End0
      BY <1>3, TwoEnds DEF Sides
    <2>8. PICK x \in {"none", "reset", "pipe", "unconnected"} : x = IF Mine(p).err = "reset" THEN "pipe" ELSE Mine(p).err
      BY <2>7 DEF End0
    <2>9. net' = [net EXCEPT ![c][me].err = x]
      BY <1>4, <1>6, <2>7, <2>8 DEF Reported
    <2>10. ErrOnly(c, me) /\ net'[c][me].err = x
      BY <2>1, <2>9, ErrSet, Zenon
    <2>11. net' \in Nets /\ \A d \in Clients : d # ConnOf(p) => net'[d] = net[d]
      BY <2>7, <2>10 DEF ErrOnly, Others
    <2>12. Local(p)
      BY <1>2, <1>4, <1>6, <2>1, <2>6, <2>11 DEF Local
    <2>13. \/ Mine(p).err = "reset" /\ ErrOnly(ConnOf(p), SideOf(p)) /\ net'[ConnOf(p)][SideOf(p)].err = "pipe"
           \/ Mine(p).err # "reset" /\ ErrOnly(ConnOf(p), SideOf(p)) /\ net'[ConnOf(p)][SideOf(p)].err = Mine(p).err
      BY <2>7, <2>8, <2>10
    <2>14. proc'[p].pc \in Instr(p).errs \ {0} /\ proc'[p].ahead = << >>
      BY <1>6, <2>4, <2>6
    <2>15. proc'[p].eof = proc[p].eof /\ proc'[p].buf = IF At(p, "line") \/ At(p, "fill") THEN proc[p].buf ELSE << >>
      BY <2>3, <2>6
    <2> QED BY <1>1, <1>2, <1>3, <2>12, <2>13, <2>14, <2>15
  <1> QED BY <1>5, <1>6

(* p is r from now on. *)
LEMMA Becomes ==
    ASSUME Names, NEW p \in Procs, NEW r \in Process, proc' = [proc EXCEPT ![p] = r]
    PROVE  proc' \in [Procs -> Process] /\ proc'[p] = r /\ \A q \in Procs : q # p => proc'[q] = proc[q]
  BY DEF Names, SessionTypes

LEMMA LineTakeIs ==
    ASSUME Names, NEW p \in Procs, LineTake(p)
    PROVE  /\ ConnOf(p) \in Clients /\ At(p, "line") /\ Local(p) /\ net' = net /\ proc'[p].eof = proc[p].eof
           /\ proc'[p].pc = proc[p].pc + 1
           /\ \E i \in 1 .. Len(proc[p].ahead) :
                 /\ IsLast(proc[p].ahead[i]) /\ \A j \in 1 .. i - 1 : ~ IsLast(proc[p].ahead[j])
                 /\ proc'[p].buf = SubSeq(proc[p].ahead, 1, i)
                 /\ proc'[p].ahead = SubSeq(proc[p].ahead, i + 1, Len(proc[p].ahead))
           /\ Marks(p)
  <1>1. At(p, "line") /\ net' = net /\ UNCHANGED <<pair, conn, fds, serving, killed>> /\ Marks(p)
    BY DEF LineTake, Marks, Judge
  <1>2. ConnOf(p) \in Clients
    BY <1>1, Connected
  <1>3. /\ SessionTypes /\ proc[p].pc + 1 \in Nat /\ Follows(Script(p), proc[p].pc, proc[p].pc + 1)
        /\ proc[p].ahead \in Seq(Byte) /\ proc[p].round \in Nat
    BY <1>1, Instruction DEF Advance
  <1>4. PICK a \in Seq(Byte) : a = proc[p].ahead
    BY <1>3
  <1>5. PICK i \in 1 .. Len(a) :
            /\ IsLast(a[i]) /\ \A j \in 1 .. i - 1 : ~ IsLast(a[j])
            /\ proc' = [proc EXCEPT ![p].pc = @ + 1, ![p].buf = SubSeq(a, 1, i), ![p].ahead = SubSeq(@, i + 1, Len(@))]
    <2>1. PICK i \in DOMAIN proc[p].ahead :
            /\ IsLast(proc[p].ahead[i]) /\ \A j \in 1 .. i - 1 : ~ IsLast(proc[p].ahead[j])
            /\ proc' = [proc EXCEPT ![p].pc = @ + 1, ![p].buf = SubSeq(proc[p].ahead, 1, i), ![p].ahead = SubSeq(@, i + 1, Len(@))]
      BY Zenon DEF LineTake
    <2>2. i \in DOMAIN a /\ IsLast(a[i]) /\ \A j \in 1 .. i - 1 : ~ IsLast(a[j])
      BY <1>4, <2>1, Zenon
    <2>3. proc' = [proc EXCEPT ![p].pc = @ + 1, ![p].buf = SubSeq(a, 1, i), ![p].ahead = SubSeq(@, i + 1, Len(@))]
      BY <1>4, <2>1, Zenon
    <2>4. i \in 1 .. Len(a)
      BY <2>2
    <2> QED BY <2>2, <2>3, <2>4, Zenon
  <1>6. PICK x \in Seq(Byte), y \in Seq(Byte) : x = SubSeq(a, 1, i) /\ y = SubSeq(a, i + 1, Len(a))
    <2>1. PICK x : x = SubSeq(a, 1, i)
      OBVIOUS
    <2>2. PICK y : y = SubSeq(a, i + 1, Len(a))
      OBVIOUS
    <2>3. x \in Seq(Byte) /\ y \in Seq(Byte)
      BY <1>5, <2>1, <2>2, Parted
    <2> QED BY <2>1, <2>2, <2>3
  <1>7. proc \in [Procs -> Process]
    BY <1>3 DEF SessionTypes
  <1>8. PICK r : r = [proc[p] EXCEPT !.pc = proc[p].pc + 1, !.buf = x, !.ahead = y]
    OBVIOUS
  <1>9. r \in Process /\ r.pc = proc[p].pc + 1 /\ r.buf = x /\ r.ahead = y /\ r.eof = proc[p].eof /\ r.round = proc[p].round
    BY <1>3, <1>7, <1>8 DEF Process
  <1>10. proc' = [proc EXCEPT ![p] = r]
    <2>1. proc' = [proc EXCEPT ![p].pc = proc[p].pc + 1, ![p].buf = x, ![p].ahead = y]
      BY <1>4, <1>5, <1>6, <1>7 DEF Process
    <2> QED BY <2>1, <1>7, <1>8 DEF Process
  <1>11. proc' \in [Procs -> Process] /\ proc'[p] = r /\ \A q \in Procs : q # p => proc'[q] = proc[q]
    BY <1>9, <1>10, Becomes
  <1>12. net' \in Nets /\ \A d \in Clients : net'[d] = net[d]
    BY <1>1, <1>3, SameNet
  <1>13. Local(p)
    BY <1>1, <1>3, <1>9, <1>11, <1>12 DEF Local
  <1> QED BY <1>1, <1>2, <1>4, <1>5, <1>6, <1>9, <1>11, <1>13, Zenon

LEMMA LineFetchIs ==
    ASSUME Names, NEW p \in Procs, LineFetch(p)
    PROVE  /\ ConnOf(p) \in Clients /\ At(p, "line") /\ Local(p) /\ Data(p)
           /\ proc'[p].pc = proc[p].pc /\ proc'[p].eof = proc[p].eof /\ proc'[p].buf = proc[p].buf
           /\ \A i \in 1 .. Len(proc[p].ahead) : ~ IsLast(proc[p].ahead[i])
           /\ \E k \in 1 .. Len(Mine(p).in) : Took(p, k) /\ proc'[p].ahead = proc[p].ahead \o SubSeq(Mine(p).in, 1, k)
           /\ UNCHANGED <<torn, killed>>
  <1>1. At(p, "line") /\ Data(p) /\ UNCHANGED <<pair, conn, fds, serving, torn, killed>>
    BY DEF LineFetch
  <1>2. ConnOf(p) \in Clients
    BY <1>1, Connected
  <1>3. /\ SessionTypes /\ proc[p].pc \in Nat /\ Follows(Script(p), proc[p].pc, proc[p].pc)
        /\ proc[p].ahead \in Seq(Byte) /\ proc[p].round \in Nat
    BY <1>1, Instruction
  <1>4. PICK a \in Seq(Byte) : a = proc[p].ahead
    BY <1>3
  <1>5. \A i \in 1 .. Len(a) : ~ IsLast(a[i])
    BY <1>4 DEF LineFetch
  <1>6. PICK k \in 1 .. Len(Mine(p).in) :
            Taken(p, k) /\ proc' = [proc EXCEPT ![p].ahead = @ \o SubSeq(Mine(p).in, 1, k)]
    BY DEF LineFetch
  <1>7. /\ Took(p, k) /\ net' \in Nets /\ \A d \in Clients : d # ConnOf(p) => net'[d] = net[d]
        /\ SubSeq(Mine(p).in, 1, k) \in Seq(Byte)
    BY <1>2, <1>6, TakenIs
  <1>8. PICK x \in Seq(Byte) : x = SubSeq(Mine(p).in, 1, k)
    BY <1>7
  <1>9. PICK y \in Seq(Byte) : y = a \o x
    <2>1. a \o x \in Seq(Byte)
      OBVIOUS
    <2> QED BY <2>1
  <1>10. proc \in [Procs -> Process]
    BY <1>3 DEF SessionTypes
  <1>11. PICK r : r = [proc[p] EXCEPT !.ahead = y]
    OBVIOUS
  <1>12. /\ r \in Process /\ r.pc = proc[p].pc /\ r.buf = proc[p].buf /\ r.ahead = y
         /\ r.eof = proc[p].eof /\ r.round = proc[p].round
    BY <1>10, <1>11 DEF Process
  <1>13. proc' = [proc EXCEPT ![p] = r]
    <2>1. proc' = [proc EXCEPT ![p].ahead = proc[p].ahead \o SubSeq(Mine(p).in, 1, k)]
      BY <1>6
    <2>2. proc' = [proc EXCEPT ![p].ahead = y]
      BY <2>1, <1>4, <1>8, <1>9, Zenon
    <2> QED BY <2>2, <1>10, <1>11 DEF Process
  <1>14. proc' \in [Procs -> Process] /\ proc'[p] = r /\ \A q \in Procs : q # p => proc'[q] = proc[q]
    BY <1>12, <1>13, Becomes
  <1>15. Local(p)
    <2>1. proc'[p].round >= proc[p].round
      BY <1>3, <1>12, <1>14
    <2> QED BY <1>1, <1>3, <1>7, <1>12, <1>14, <2>1 DEF Local
  <1>16. proc'[p].ahead = proc[p].ahead \o SubSeq(Mine(p).in, 1, k)
    BY <1>4, <1>8, <1>9, <1>12, <1>14, Zenon
  <1>17. /\ proc'[p].pc = proc[p].pc /\ proc'[p].eof = proc[p].eof /\ proc'[p].buf = proc[p].buf
         /\ \A i \in 1 .. Len(proc[p].ahead) : ~ IsLast(proc[p].ahead[i])
    BY <1>4, <1>5, <1>12, <1>14, Zenon
  <1> QED BY <1>1, <1>2, <1>7, <1>15, <1>16, <1>17

LEMMA LineEndIs ==
    ASSUME Names, NEW p \in Procs, LineEnd(p)
    PROVE  /\ ConnOf(p) \in Clients /\ At(p, "line") /\ Local(p) /\ Ended(p) /\ net' = net
           /\ proc'[p].eof /\ proc'[p].ahead = << >>
           /\ proc'[p].pc = IF proc[p].ahead = << >> THEN Instr(p).to ELSE proc[p].pc + 1
           /\ proc'[p].buf = IF proc[p].ahead = << >> THEN proc[p].buf ELSE proc[p].ahead
           /\ Marks(p)
  <1>1. At(p, "line") /\ Ended(p) /\ net' = net /\ UNCHANGED <<pair, conn, fds, serving, killed>> /\ Marks(p)
    BY DEF LineEnd, Marks, Judge
  <1>2. ConnOf(p) \in Clients
    BY <1>1, Connected
  <1>3. /\ SessionTypes /\ proc[p].pc + 1 \in Nat /\ Follows(Script(p), proc[p].pc, proc[p].pc + 1)
        /\ Instr(p).to \in Nat /\ Follows(Script(p), proc[p].pc, Instr(p).to)
        /\ proc[p].ahead \in Seq(Byte) /\ proc[p].round \in Nat /\ proc[p].buf \in Seq(Byte)
    BY <1>1, Instruction DEF Advance, Jumps
  <1>4. << >> \in Seq(Byte)
    OBVIOUS
  <1>5. PICK none \in Seq(Byte) : none = << >>
    BY <1>4
  <1>6. PICK to \in Nat : /\ to = IF proc[p].ahead = << >> THEN Instr(p).to ELSE proc[p].pc + 1
                          /\ Follows(Script(p), proc[p].pc, to)
    BY <1>3
  <1>7. PICK b \in Seq(Byte) : b = IF proc[p].ahead = << >> THEN proc[p].buf ELSE proc[p].ahead
    BY <1>3
  <1>8. proc \in [Procs -> Process]
    BY <1>3 DEF SessionTypes
  <1>9. PICK r : r = [proc[p] EXCEPT !.eof = TRUE, !.ahead = none, !.pc = to, !.buf = b]
    OBVIOUS
  <1>10. r \in Process /\ r.pc = to /\ r.buf = b /\ r.ahead = none /\ r.eof = TRUE /\ r.round = proc[p].round
    BY <1>8, <1>9 DEF Process
  <1>11. proc' = [proc EXCEPT ![p] = r]
    <2>1. proc' = [proc EXCEPT ![p].eof = TRUE, ![p].ahead = << >>,
                               ![p].pc = IF proc[p].ahead = << >> THEN Instr(p).to ELSE @ + 1,
                               ![p].buf = IF proc[p].ahead = << >> THEN @ ELSE proc[p].ahead]
      BY DEF LineEnd
    <2>2. proc' = [proc EXCEPT ![p].eof = TRUE, ![p].ahead = none, ![p].pc = to, ![p].buf = b]
      BY <2>1, <1>5, <1>6, <1>7, <1>8 DEF Process
    <2> QED BY <2>2, <1>8, <1>9 DEF Process
  <1>12. proc' \in [Procs -> Process] /\ proc'[p] = r /\ \A q \in Procs : q # p => proc'[q] = proc[q]
    BY <1>10, <1>11, Becomes
  <1>13. net' \in Nets /\ \A d \in Clients : net'[d] = net[d]
    BY <1>1, <1>3, SameNet
  <1>14. Local(p)
    <2>1. proc'[p].round >= proc[p].round
      BY <1>3, <1>10, <1>12
    <2> QED BY <1>1, <1>6, <1>10, <1>12, <1>13, <2>1 DEF Local
  <1>15. /\ proc'[p].eof /\ proc'[p].ahead = << >>
         /\ proc'[p].pc = IF proc[p].ahead = << >> THEN Instr(p).to ELSE proc[p].pc + 1
         /\ proc'[p].buf = IF proc[p].ahead = << >> THEN proc[p].buf ELSE proc[p].ahead
    BY <1>5, <1>6, <1>7, <1>10, <1>12, Zenon
  <1> QED BY <1>1, <1>2, <1>14, <1>15

LEMMA DoPeekIs ==
    ASSUME Names, NEW p \in Procs, DoPeek(p)
    PROVE  /\ At(p, "peek") /\ Local(p) /\ Kept(p) /\ net' = net
           /\ proc'[p].pc = proc[p].pc + 1 /\ proc'[p].buf = proc[p].buf /\ UNCHANGED <<torn, killed>>
  <1>1. /\ At(p, "peek") /\ GoOn(p, proc[p].pc + 1, proc[p].buf)
        /\ net' = net /\ UNCHANGED <<pair, conn, fds, serving, torn, killed>>
    BY DEF DoPeek, Continue
  <1>2. proc[p].pc + 1 \in Nat /\ Follows(Script(p), proc[p].pc, proc[p].pc + 1) /\ proc[p].buf \in Seq(Byte)
    BY <1>1, Instruction DEF Advance
  <1>3. Local(p) /\ Kept(p) /\ proc'[p].pc = proc[p].pc + 1 /\ proc'[p].buf = proc[p].buf
    BY <1>1, <1>2, Steps
  <1> QED BY <1>1, <1>3

(* Is b, which was read before the instruction of p, no more and no less than messages? *)
Gathered(p) == Script(p)[proc[p].pc - 1].n = All /\ Script(p)[proc[p].pc - 1].op = "fill"
Right(p) == proc[p].buf = << >> \/ IsMsg(proc[p].buf) \/ (Gathered(p) /\ IsMsgs(proc[p].buf))

LEMMA DoShowIs ==
    ASSUME Names, NEW p \in Procs, DoShow(p)
    PROVE  /\ ConnOf(p) \in Clients /\ At(p, "show") /\ Local(p) /\ Kept(p) /\ net' = net
           /\ proc'[p].pc = proc[p].pc + 1 /\ proc'[p].buf = proc[p].buf
           /\ (Right(p) /\ torn' = torn) \/ (~ Right(p) /\ torn' = torn \cup {p})
           /\ killed' = killed
  <1>1. /\ At(p, "show") /\ GoOn(p, proc[p].pc + 1, proc[p].buf)
        /\ torn' = IF Right(p) THEN torn ELSE torn \cup {p}
        /\ net' = net /\ UNCHANGED <<pair, conn, fds, serving, killed>>
    BY DEF DoShow, Continue, Right, Gathered
  <1>2. proc[p].pc + 1 \in Nat /\ Follows(Script(p), proc[p].pc, proc[p].pc + 1) /\ proc[p].buf \in Seq(Byte)
    BY <1>1, Instruction DEF Advance
  <1>3. Local(p) /\ Kept(p) /\ proc'[p].pc = proc[p].pc + 1 /\ proc'[p].buf = proc[p].buf
    BY <1>1, <1>2, Steps
  <1>4. ConnOf(p) \in Clients
    BY <1>1, Connected
  <1> QED BY <1>1, <1>3, <1>4

LEMMA JumpIs ==
    ASSUME Names, NEW p \in Procs, Jump(p)
    PROVE  /\ Local(p) /\ Kept(p) /\ net' = net /\ proc'[p].buf = proc[p].buf /\ UNCHANGED <<torn, killed>>
           /\ \/ At(p, "goto") /\ proc'[p].pc = Instr(p).to
              \/ At(p, "feof") /\ proc'[p].pc = IF proc[p].eof THEN Instr(p).to ELSE proc[p].pc + 1
              \/ At(p, "choose") /\ proc'[p].pc \in {Instr(p).to, proc[p].pc + 1}
              \/ At(p, "again") /\ proc'[p].pc \in {Instr(p).to, proc[p].pc + 1}
  <1>1. net' = net /\ UNCHANGED <<pair, conn, fds, serving, torn, killed>>
    BY DEF Jump
  <1>2. ASSUME NEW op \in {"goto", "feof", "choose", "again"}, At(p, op)
        PROVE  /\ proc[p].buf \in Seq(Byte) /\ proc[p].pc + 1 \in Nat /\ Instr(p).to \in Nat
               /\ Follows(Script(p), proc[p].pc, Instr(p).to)
               /\ op # "goto" => Follows(Script(p), proc[p].pc, proc[p].pc + 1)
    BY <1>2, Instruction DEF Advance, Jumps
  <1>3. ASSUME At(p, "goto"), GoOn(p, Instr(p).to, proc[p].buf)
        PROVE  Local(p) /\ Kept(p) /\ proc'[p].buf = proc[p].buf /\ proc'[p].pc = Instr(p).to
    BY <1>1, <1>2, <1>3, Steps
  <1>4. ASSUME At(p, "feof"), GoOn(p, IF proc[p].eof THEN Instr(p).to ELSE proc[p].pc + 1, proc[p].buf)
        PROVE  /\ Local(p) /\ Kept(p) /\ proc'[p].buf = proc[p].buf
               /\ proc'[p].pc = IF proc[p].eof THEN Instr(p).to ELSE proc[p].pc + 1
    <2>1. PICK to \in Nat : /\ to = IF proc[p].eof THEN Instr(p).to ELSE proc[p].pc + 1
                            /\ Follows(Script(p), proc[p].pc, to) /\ GoOn(p, to, proc[p].buf)
      BY <1>2, <1>4
    <2> QED BY <1>1, <1>2, <1>4, <2>1, Steps
  <1>5. ASSUME At(p, "choose"), \E to \in {Instr(p).to, proc[p].pc + 1} : GoOn(p, to, proc[p].buf)
        PROVE  Local(p) /\ Kept(p) /\ proc'[p].buf = proc[p].buf /\ proc'[p].pc \in {Instr(p).to, proc[p].pc + 1}
    <2>1. PICK to \in Nat : /\ to \in {Instr(p).to, proc[p].pc + 1}
                            /\ Follows(Script(p), proc[p].pc, to) /\ GoOn(p, to, proc[p].buf)
      BY <1>2, <1>5
    <2> QED BY <1>1, <1>2, <1>5, <2>1, Steps
  <1>6. ASSUME At(p, "again"), IF proc[p].round < MaxRounds
                               THEN proc' = [proc EXCEPT ![p].pc = Instr(p).to, ![p].round = @ + 1]
                               ELSE GoOn(p, proc[p].pc + 1, proc[p].buf)
        PROVE  Local(p) /\ Kept(p) /\ proc'[p].buf = proc[p].buf /\ proc'[p].pc \in {Instr(p).to, proc[p].pc + 1}
    <2>1. CASE proc[p].round < MaxRounds
      <3>1. proc \in [Procs -> Process] /\ SessionTypes
        BY DEF Names, SessionTypes
      <3>2. PICK r : r = [proc[p] EXCEPT !.pc = Instr(p).to, !.round = proc[p].round + 1]
        OBVIOUS
      <3>3. /\ r \in Process /\ r.pc = Instr(p).to /\ r.buf = proc[p].buf /\ r.ahead = proc[p].ahead
            /\ r.eof = proc[p].eof /\ r.round >= proc[p].round
        <4>1. PICK n \in Nat : n = proc[p].round
          BY <3>1 DEF Process
        <4>2. PICK to \in Nat : to = Instr(p).to
          BY <1>2, <1>6
        <4>3. PICK m1 \in Nat : m1 = n + 1 /\ m1 >= n
          OBVIOUS
        <4>4. r = [proc[p] EXCEPT !.pc = to, !.round = m1]
          BY <3>2, <4>1, <4>2, <4>3, Zenon
        <4>5. /\ r \in Process /\ r.pc = to /\ r.buf = proc[p].buf /\ r.ahead = proc[p].ahead
              /\ r.eof = proc[p].eof /\ r.round = m1
          BY <3>1, <4>4 DEF Process
        <4> QED BY <4>1, <4>2, <4>3, <4>5, Zenon
      <3>4. proc' = [proc EXCEPT ![p] = r]
        BY <1>6, <2>1, <3>1, <3>2 DEF Process
      <3>5. proc' \in [Procs -> Process] /\ proc'[p] = r /\ \A q \in Procs : q # p => proc'[q] = proc[q]
        BY <3>3, <3>4, Becomes
      <3>6. net' \in Nets /\ \A d \in Clients : net'[d] = net[d]
        BY <1>1, <3>1, SameNet
      <3> QED BY <1>1, <1>2, <1>6, <3>3, <3>5, <3>6 DEF Local, Kept
    <2>2. CASE ~ (proc[p].round < MaxRounds)
      BY <1>1, <1>2, <1>6, <2>2, Steps
    <2> QED BY <2>1, <2>2
  <1>7. \/ At(p, "goto") /\ GoOn(p, Instr(p).to, proc[p].buf)
        \/ At(p, "feof") /\ GoOn(p, IF proc[p].eof THEN Instr(p).to ELSE proc[p].pc + 1, proc[p].buf)
        \/ At(p, "choose") /\ \E to \in {Instr(p).to, proc[p].pc + 1} : GoOn(p, to, proc[p].buf)
        \/ At(p, "again") /\ IF proc[p].round < MaxRounds
                             THEN proc' = [proc EXCEPT ![p].pc = Instr(p).to, ![p].round = @ + 1]
                             ELSE GoOn(p, proc[p].pc + 1, proc[p].buf)
    BY Zenon DEF Jump, Continue
  <1> QED BY <1>1, <1>3, <1>4, <1>5, <1>6, <1>7

LEMMA DoShutIs ==
    ASSUME Names, NEW p \in Procs, DoShut(p)
    PROVE  /\ ConnOf(p) \in Clients /\ At(p, "shut") /\ Local(p) /\ Kept(p)
           /\ proc'[p].pc = proc[p].pc + 1 /\ proc'[p].buf = proc[p].buf /\ UNCHANGED <<torn, killed>>
           /\ Others(ConnOf(p), SideOf(p)) /\ net'[ConnOf(p)][SideOf(p)].shut = TRUE
           /\ net'[ConnOf(p)][SideOf(p)].in = Mine(p).in /\ net'[ConnOf(p)][SideOf(p)].open = Mine(p).open
           /\ net'[ConnOf(p)][SideOf(p)].err = Mine(p).err
  <1>1. /\ At(p, "shut") /\ GoOn(p, proc[p].pc + 1, proc[p].buf)
        /\ UNCHANGED <<pair, conn, fds, serving, torn, killed>>
    BY DEF DoShut, Continue
  <1>2. ConnOf(p) \in Clients
    BY <1>1, Connected
  <1>3. proc[p].pc + 1 \in Nat /\ Follows(Script(p), proc[p].pc, proc[p].pc + 1) /\ proc[p].buf \in Seq(Byte) /\ SessionTypes
    BY <1>1, Instruction DEF Advance
  <1>4. PICK c \in Clients, me \in Sides : c = ConnOf(p) /\ me = SideOf(p) /\ Mine(p) = net[c][me]
    BY <1>2, TwoEnds DEF Sides
  <1>5. net' = [net EXCEPT ![c][me].shut = TRUE]
    BY <1>4 DEF DoShut
  <1>6. /\ Others(c, me) /\ net'[c][me].shut = TRUE
        /\ net'[c][me].open = net[c][me].open /\ net'[c][me].err = net[c][me].err /\ net'[c][me].in = net[c][me].in
    BY <1>3, <1>5, ShutSet
  <1>7. net' \in Nets /\ \A d \in Clients : d # ConnOf(p) => net'[d] = net[d]
    BY <1>4, <1>6 DEF Others
  <1>8. Local(p) /\ Kept(p) /\ proc'[p].pc = proc[p].pc + 1 /\ proc'[p].buf = proc[p].buf
    BY <1>1, <1>3, <1>7, StepsNet
  <1> QED BY <1>1, <1>2, <1>4, <1>6, <1>8

LEMMA TypeLineIs ==
    ASSUME Names, NEW p \in Procs, TypeLine(p) \/ TypeQuit(p)
    PROVE  /\ ConnOf(p) \in Clients /\ At(p, "type") /\ Local(p) /\ Kept(p) /\ net' = net
           /\ proc'[p].pc = proc[p].pc + 1 \/ (proc'[p].pc = Instr(p).to /\ Instr(p).to # 0)
           /\ proc'[p].buf = << >> /\ UNCHANGED <<torn, killed>>
  <1>1. /\ At(p, "type") /\ net' = net /\ UNCHANGED <<pair, conn, fds, serving, torn, killed>>
    BY DEF TypeLine, TypeQuit
  <1>2. ConnOf(p) \in Clients
    BY <1>1, Connected
  <1>3. PICK to : /\ GoOn(p, to, << >>) /\ (to = proc[p].pc + 1 \/ (to = Instr(p).to /\ Instr(p).to # 0))
    BY DEF TypeLine, TypeQuit
  <1>4. /\ to \in Nat /\ Follows(Script(p), proc[p].pc, to)
    BY <1>1, <1>3, Instruction DEF Advance, Jumps
  <1>5. << >> \in Seq(Byte)
    OBVIOUS
  <1>6. Local(p) /\ Kept(p) /\ proc'[p].pc = to /\ proc'[p].buf = << >>
    BY <1>1, <1>3, <1>4, <1>5, Steps
  <1> QED BY <1>1, <1>2, <1>3, <1>6

(* Who does what: clients connect, their first process forks, the server accepts and closes. *)
LEMMA Parts0 ==
    ASSUME Names, NEW p \in Procs, NEW op, At(p, op)
    PROVE  /\ p = S => op \notin {"connect", "fork", "type", "exitall", "join"} /\ (op = "accept" <=> proc[S].pc = 1)
           /\ p # S => op \notin {"accept", "close"}
           /\ op = "connect" => p = P1(p[1]) /\ proc[p].pc = 1
           /\ op = "fork" => p = P1(p[1]) /\ Len(Script(P2(p[1]))) >= 1
           /\ p = P1(p[1]) /\ p # S /\ proc[p].pc = 1 => op = "connect"
           /\ op \in {"show", "fill", "line"} => p = S \/ p = P1(p[1])
  <1>1. proc[p].pc \in 1 .. Len(Script(p)) /\ Script(p)[proc[p].pc].op = op /\ (p # S => p[1] \in Clients)
    BY Standing
  <1>2. CASE p = S
    <2>1. Serves(Script(S))
      BY Scripts
    <2> QED BY <1>1, <1>2, <2>1 DEF Serves
  <1>3. CASE p # S
    <2>1. PICK d \in Clients : d = p[1] /\ (p = P1(d) \/ p = P2(d))
      BY <1>1, <1>3, Apart
    <2>2. /\ Calls(Script(P1(d))) /\ Helps(Script(P2(d)))
          /\ NoFork(Script(P1(d))) \/ Len(Script(P2(d))) >= 1
      BY Scripts
    <2>3. CASE p = P1(d)
      BY <1>1, <1>3, <2>1, <2>2, <2>3 DEF Calls, NoFork
    <2>4. CASE p = P2(d)
      <3>1. P1(d) # P2(d)
        BY Apart
      <3> QED BY <1>1, <1>3, <2>1, <2>2, <2>4, <3>1 DEF Helps
    <2> QED BY <2>1, <2>3, <2>4
  <1> QED BY <1>2, <1>3

LEMMA DoCloseIs ==
    ASSUME Names, NEW p \in Procs, DoClose(p)
    PROVE  /\ p = S /\ At(S, "close") /\ serving \in Clients
           /\ proc' \in [Procs -> Process] /\ \A q \in Procs : q # S => proc'[q] = proc[q]
           /\ proc'[S].pc = proc[S].pc + 1 /\ proc'[S].buf = proc[S].buf /\ Kept(S)
           /\ Follows(Script(S), proc[S].pc, proc'[S].pc)
           /\ serving' = NULL /\ Closed(net, net', serving, "server")
           /\ UNCHANGED <<pair, conn, fds, torn, killed>>
  <1>1. At(p, "close") /\ Release({p}, net) /\ GoOn(p, proc[p].pc + 1, proc[p].buf) /\ UNCHANGED <<pair, conn, torn, killed>>
    BY DEF DoClose, Continue
  <1>2. p = S
    BY <1>1, Parts0
  <1>3. serving \in Clients
    BY <1>1, <1>2, Connected
  <1>4. /\ SessionTypes /\ proc[p].pc + 1 \in Nat /\ proc[p].buf \in Seq(Byte)
        /\ Follows(Script(p), proc[p].pc, proc[p].pc + 1)
    BY <1>1, Instruction DEF Advance
  <1>5. net \in Nets
    BY <1>4 DEF SessionTypes, Nets, Sides
  <1>6. serving' = NULL /\ fds' = fds /\ Closed(net, net', serving, "server")
    BY <1>1, <1>2, <1>3, <1>4, <1>5, ServerReleases
  <1>7. /\ proc' \in [Procs -> Process]
        /\ proc'[p].pc = proc[p].pc + 1 /\ proc'[p].buf = proc[p].buf
        /\ proc'[p].ahead = proc[p].ahead /\ proc'[p].eof = proc[p].eof
        /\ \A q \in Procs : q # p => proc'[q] = proc[q]
    BY <1>1, <1>4, GoneOn
  <1> QED BY <1>1, <1>2, <1>3, <1>4, <1>6, <1>7 DEF Kept

(* A process ends, with the others that share its fate. *)
Fate(p, Q) == p \in Q /\ End(Q) /\ (p = S => Q = {S}) /\ (p # S => Q \subseteq {P1(p[1]), P2(p[1])})

LEMMA TogetherIs ==
    ASSUME NEW p \in Procs, End(Together(p))
    PROVE  Fate(p, Together(p))
  <1>1. p = S => Together(p) = {S}
    BY DEF Together
  <1>2. p # S => p \in Together(p) /\ Together(p) \subseteq {P1(p[1]), P2(p[1])}
    <2>1. p # S => p = P1(p[1]) \/ p = P2(p[1])
      BY Apart
    <2> QED BY <2>1 DEF Together, P1, P2
  <1> QED BY <1>1, <1>2 DEF Fate

LEMMA DoExitIs ==
    ASSUME Names, NEW p \in Procs, DoExit(p)
    PROVE  /\ At(p, "exit") \/ At(p, "exitall")
           /\ \E Q \in {{p}, Together(p)} : Fate(p, Q) /\ (At(p, "exit") => Q = {p})
           /\ UNCHANGED <<pair, conn, torn, killed>>
  <1>1. ASSUME End({p}) PROVE Fate(p, {p})
    <2>1. p # S => p = P1(p[1]) \/ p = P2(p[1])
      BY Apart
    <2> QED BY <1>1, <2>1 DEF Fate
  <1>2. CASE At(p, "exit") /\ End({p})
    BY <1>1, <1>2 DEF DoExit
  <1>3. CASE At(p, "exitall") /\ End(Together(p))
    <2>1. Fate(p, Together(p))
      BY <1>3, TogetherIs
    <2>2. ~ At(p, "exit")
      BY <1>3 DEF At
    <2> QED BY <1>3, <2>1, <2>2 DEF DoExit
  <1> QED BY <1>2, <1>3 DEF DoExit

LEMMA WriteKillsIs ==
    ASSUME Names, NEW p \in Procs, WriteKills(p)
    PROVE  /\ ConnOf(p) \in Clients /\ Writes(p) /\ Output(p) # << >> /\ Mine(p).err \in {"pipe", "unconnected"}
           /\ Fate(p, Together(p)) /\ killed' = killed \cup Together(p)
           /\ UNCHANGED <<pair, conn, torn>>
  <1>1. PICK op \in {"put", "echo"} : At(p, op)
    BY DEF WriteKills, Writes
  <1>2. ConnOf(p) \in Clients
    BY <1>1, Connected
  <1>3. Fate(p, Together(p))
    BY TogetherIs DEF WriteKills
  <1> QED BY <1>2, <1>3 DEF WriteKills

LEMMA DoAcceptIs ==
    ASSUME Names, NEW c \in Clients, DoAccept(c)
    PROVE  /\ At(S, "accept") /\ conn[c] = "queued"
           /\ conn' \in [Clients -> {"new", "queued", "served", "refused"}]
           /\ conn'[c] = "served" /\ \A d \in Clients : d # c => conn'[d] = conn[d]
           /\ serving' = c /\ serving = NULL
           /\ proc' \in [Procs -> Process] /\ \A q \in Procs : q # S => proc'[q] = proc[q]
           /\ proc[S].pc = 1 /\ proc'[S].pc = 2 /\ proc'[S].buf = proc[S].buf /\ proc'[S].ahead = << >> /\ ~ proc'[S].eof
           /\ 2 \in Holding(Script(S)) /\ 2 <= Len(Script(S))
           /\ net' = net /\ UNCHANGED <<pair, fds, torn, killed>>
  <1>1. /\ At(S, "accept") /\ conn[c] = "queued" /\ conn' = [conn EXCEPT ![c] = "served"] /\ serving' = c
        /\ proc' = [proc EXCEPT ![S].pc = @ + 1, ![S].ahead = << >>, ![S].eof = FALSE]
        /\ net' = net /\ UNCHANGED <<pair, fds, torn, killed>>
    BY DEF DoAccept
  <1>2. S \in Procs
    BY Apart
  <1>3. proc[S].pc = 1
    BY <1>1, <1>2, Parts0
  <1>4. serving = NULL /\ 2 \in Holding(Script(S)) /\ 2 <= Len(Script(S))
    <2>1. 1 \notin Holding(Script(S))
      BY DEF Holding
    <2> QED BY <1>3, <2>1, Scripts DEF Names, Positions, Serves
  <1>5. SessionTypes
    BY DEF Names
  <1>6. /\ conn' \in [Clients -> {"new", "queued", "served", "refused"}]
        /\ conn'[c] = "served" /\ \A d \in Clients : d # c => conn'[d] = conn[d]
    BY <1>1, <1>5 DEF SessionTypes
  <1>7. << >> \in Seq(Byte)
    OBVIOUS
  <1>8. PICK none \in Seq(Byte) : none = << >>
    BY <1>7
  <1>9. proc \in [Procs -> Process]
    BY <1>5 DEF SessionTypes
  <1>10. PICK r : r = [proc[S] EXCEPT !.pc = 2, !.ahead = none, !.eof = FALSE]
    OBVIOUS
  <1>11. r \in Process /\ r.pc = 2 /\ r.buf = proc[S].buf /\ r.ahead = none /\ r.eof = FALSE
    BY <1>2, <1>9, <1>10 DEF Process
  <1>12. proc' = [proc EXCEPT ![S] = r]
    <2>1. proc' = [proc EXCEPT ![S].pc = 2, ![S].ahead = none, ![S].eof = FALSE]
      BY <1>1, <1>2, <1>3, <1>8, <1>9 DEF Process
    <2> QED BY <2>1, <1>2, <1>9, <1>10 DEF Process
  <1>13. proc' \in [Procs -> Process] /\ proc'[S] = r /\ \A q \in Procs : q # S => proc'[q] = proc[q]
    BY <1>2, <1>11, <1>12, Becomes
  <1> QED BY <1>1, <1>3, <1>4, <1>6, <1>8, <1>11, <1>13

LEMMA DoConnectIs ==
    ASSUME Names, NEW p \in Procs, DoConnect(p)
    PROVE  /\ p # S /\ p[1] \in Clients /\ p = P1(p[1]) /\ proc[p].pc = 1 /\ At(p, "connect") /\ proc[S].pc # 0
           /\ conn' \in [Clients -> {"new", "queued", "served", "refused"}]
           /\ conn'[p[1]] = "queued" /\ \A d \in Clients : d # p[1] => conn'[d] = conn[d]
           /\ fds' \in [Clients -> SUBSET {1, 2}]
           /\ fds'[p[1]] = {1} /\ \A d \in Clients : d # p[1] => fds'[d] = fds[d]
           /\ proc' \in [Procs -> Process] /\ \A q \in Procs : q # p => proc'[q] = proc[q]
           /\ proc'[p].pc = 2 /\ proc'[p].buf = proc[p].buf /\ Kept(p)
           /\ 2 <= Len(Script(p))
           /\ net' = net /\ UNCHANGED <<pair, serving, torn, killed>>
  <1>1. /\ At(p, "connect") /\ proc[S].pc # 0
        /\ conn' = [conn EXCEPT ![p[1]] = "queued"] /\ fds' = [fds EXCEPT ![p[1]] = {1}]
        /\ GoOn(p, proc[p].pc + 1, proc[p].buf) /\ net' = net /\ UNCHANGED <<pair, serving, torn, killed>>
    BY DEF DoConnect, Continue
  <1>2. p # S /\ p = P1(p[1]) /\ proc[p].pc = 1
    BY <1>1, Parts0
  <1>3. p[1] \in Clients
    BY <1>2, Apart
  <1>4. /\ SessionTypes /\ proc[p].pc + 1 \in Nat /\ proc[p].buf \in Seq(Byte)
    BY <1>1, Instruction
  <1>5. /\ proc' \in [Procs -> Process]
        /\ proc'[p].pc = proc[p].pc + 1 /\ proc'[p].buf = proc[p].buf
        /\ proc'[p].ahead = proc[p].ahead /\ proc'[p].eof = proc[p].eof
        /\ \A q \in Procs : q # p => proc'[q] = proc[q]
    BY <1>1, <1>4, GoneOn
  <1>6. /\ conn' \in [Clients -> {"new", "queued", "served", "refused"}]
        /\ conn'[p[1]] = "queued" /\ \A d \in Clients : d # p[1] => conn'[d] = conn[d]
        /\ fds' \in [Clients -> SUBSET {1, 2}]
        /\ fds'[p[1]] = {1} /\ \A d \in Clients : d # p[1] => fds'[d] = fds[d]
    BY <1>1, <1>3, <1>4 DEF SessionTypes
  <1>7. 2 <= Len(Script(p))
    <2>1. Script(p)[1].op = "connect" /\ proc[p].pc \in 1 .. Len(Script(p)) /\ Len(Script(p)) \in Nat
      BY <1>1, <1>2, Standing
    <2>2. Program(Script(p))
      BY Scripts
    <2> QED BY <1>2, <2>1, <2>2 DEF Program, Advance
  <1> QED BY <1>1, <1>2, <1>3, <1>5, <1>6, <1>7 DEF Kept

LEMMA ConnectFailsIs ==
    ASSUME Names, NEW p \in Procs, ConnectFails(p)
    PROVE  /\ p # S /\ p[1] \in Clients /\ p = P1(p[1]) /\ proc[p].pc = 1 /\ At(p, "connect") /\ proc[S].pc = 0
           /\ conn' \in [Clients -> {"new", "queued", "served", "refused"}]
           /\ conn'[p[1]] = "refused" /\ \A d \in Clients : d # p[1] => conn'[d] = conn[d]
           /\ proc' \in [Procs -> Process] /\ \A q \in Procs : q # p => proc'[q] = proc[q]
           /\ proc'[p].pc \in Instr(p).errs /\ proc'[p].buf = << >> /\ Kept(p)
           /\ ErrOnly(p[1], "client") /\ net'[p[1]].client.err = "unconnected"
           /\ UNCHANGED <<pair, fds, serving, torn, killed>>
  <1>1. /\ At(p, "connect") /\ proc[S].pc = 0
        /\ conn' = [conn EXCEPT ![p[1]] = "refused"] /\ net' = [net EXCEPT ![p[1]].client.err = "unconnected"]
        /\ UNCHANGED <<pair, fds, serving, torn, killed>>
    BY DEF ConnectFails
  <1>2. p # S /\ p = P1(p[1]) /\ proc[p].pc = 1
    BY <1>1, Parts0
  <1>3. p[1] \in Clients
    BY <1>2, Apart
  <1>4. PICK to \in Instr(p).errs : GoOn(p, to, << >>)
    BY DEF ConnectFails
  <1>5. SessionTypes /\ to \in Nat
    BY <1>1, <1>4, Instruction
  <1>6. << >> \in Seq(Byte)
    OBVIOUS
  <1>7. /\ proc' \in [Procs -> Process]
        /\ proc'[p].pc = to /\ proc'[p].buf = << >>
        /\ proc'[p].ahead = proc[p].ahead /\ proc'[p].eof = proc[p].eof
        /\ \A q \in Procs : q # p => proc'[q] = proc[q]
    BY <1>4, <1>5, <1>6, GoneOn
  <1>8. /\ conn' \in [Clients -> {"new", "queued", "served", "refused"}]
        /\ conn'[p[1]] = "refused" /\ \A d \in Clients : d # p[1] => conn'[d] = conn[d]
    BY <1>1, <1>3, <1>5 DEF SessionTypes
  <1>9. ErrOnly(p[1], "client") /\ net'[p[1]].client.err = "unconnected"
    <2>1. net' = [net EXCEPT ![p[1]]["client"].err = "unconnected"]
      BY <1>1
    <2>2. "client" \in Sides
      BY DEF Sides
    <2> QED
      <3>1. PICK c \in Clients, s \in Sides, x \in {"none", "reset", "pipe", "unconnected"} :
               c = p[1] /\ s = "client" /\ x = "unconnected"
        BY <1>3, <2>2
      <3>2. net' = [net EXCEPT ![c][s].err = x]
        BY <2>1, <3>1
      <3>3. ErrOnly(c, s) /\ net'[c][s].err = x
        BY <1>5, <3>2, ErrSet, Zenon
      <3>4. ErrOnly(p[1], "client")
        BY <3>1, <3>3, Zenon
      <3>5. net'[p[1]].client.err = "unconnected"
        BY <3>1, <3>3
      <3> QED BY <3>4, <3>5
  <1> QED BY <1>1, <1>2, <1>3, <1>4, <1>7, <1>8, <1>9 DEF Kept

LEMMA DoForkIs ==
    ASSUME Names, NEW p \in Procs, DoFork(p)
    PROVE  /\ p # S /\ p[1] \in Clients /\ p = P1(p[1]) /\ At(p, "fork")
           /\ proc' \in [Procs -> Process] /\ \A q \in Procs \ {p, P2(p[1])} : proc'[q] = proc[q]
           /\ proc'[p].pc = proc[p].pc + 1 /\ proc'[p].buf = proc[p].buf /\ Kept(p)
           /\ proc'[P2(p[1])].pc = 1 /\ Len(Script(P2(p[1]))) >= 1
           /\ proc'[p].pc <= Len(Script(p)) /\ proc[p].pc # 1 /\ Follows(Script(p), proc[p].pc, proc'[p].pc)
           /\ fds' \in [Clients -> SUBSET {1, 2}]
           /\ fds'[p[1]] = {1, 2} /\ \A d \in Clients : d # p[1] => fds'[d] = fds[d]
           /\ net' = net /\ UNCHANGED <<pair, conn, serving, torn, killed>>
  <1>1. /\ At(p, "fork")
        /\ proc' = [proc EXCEPT ![p].pc = @ + 1, ![<<p[1], 2>>].pc = 1]
        /\ fds' = [fds EXCEPT ![p[1]] = {1, 2}]
        /\ net' = net /\ UNCHANGED <<pair, conn, serving, torn, killed>>
    BY DEF DoFork
  <1>2. p = P1(p[1]) /\ Len(Script(P2(p[1]))) >= 1 /\ p # S
    BY <1>1, Parts0
  <1>3. p[1] \in Clients
    BY <1>2, Apart
  <1>4. /\ SessionTypes /\ proc[p].pc + 1 \in Nat /\ Follows(Script(p), proc[p].pc, proc[p].pc + 1)
    BY <1>1, Instruction DEF Advance
  <1>5. PICK q \in Procs : q = P2(p[1]) /\ q # p
    BY <1>2, <1>3, Apart
  <1>6. proc \in [Procs -> Process]
    BY <1>4 DEF SessionTypes
  <1>7. PICK r : r = [proc[p] EXCEPT !.pc = proc[p].pc + 1]
    OBVIOUS
  <1>8. r \in Process /\ r.pc = proc[p].pc + 1 /\ r.buf = proc[p].buf /\ r.ahead = proc[p].ahead /\ r.eof = proc[p].eof
    BY <1>4, <1>6, <1>7 DEF Process
  <1>9. PICK w : w = [proc[q] EXCEPT !.pc = 1]
    OBVIOUS
  <1>10. w \in Process /\ w.pc = 1
    BY <1>6, <1>9 DEF Process
  <1>11. proc' = [proc EXCEPT ![p] = r, ![q] = w]
    BY <1>1, <1>5, <1>6, <1>7, <1>9 DEF P2, Process
  <1>12. proc' \in [Procs -> Process] /\ proc'[p] = r /\ proc'[q] = w /\ \A z \in Procs \ {p, q} : proc'[z] = proc[z]
    BY <1>5, <1>6, <1>8, <1>10, <1>11
  <1>13. /\ fds' \in [Clients -> SUBSET {1, 2}]
         /\ fds'[p[1]] = {1, 2} /\ \A d \in Clients : d # p[1] => fds'[d] = fds[d]
    BY <1>1, <1>3, <1>4 DEF SessionTypes
  <1>14. proc[p].pc + 1 <= Len(Script(p)) /\ proc[p].pc # 1
    <2>1. Program(Script(p)) /\ Calls(Script(P1(p[1])))
      BY <1>3, Scripts
    <2>2. proc[p].pc \in 1 .. Len(Script(p)) /\ Len(Script(p)) \in Nat /\ Script(p)[proc[p].pc].op = "fork"
      BY <1>1, Standing
    <2>3. proc[p].pc # 1
      BY <1>2, <2>1, <2>2 DEF Calls
    <2>4. proc[p].pc < Len(Script(p))
      BY <2>1, <2>2 DEF Program, Advance
    <2> QED BY <2>2, <2>3, <2>4
  <1> QED BY <1>1, <1>2, <1>3, <1>4, <1>5, <1>8, <1>10, <1>12, <1>13, <1>14 DEF Kept

-----------------------------------------------------------------------------
(* The steps in which a process goes on, and those in which it ends. *)
Moves(p) ==
    \/ Write(p) \/ ReadSome(p) \/ ReadEnd(p) \/ FillSome(p) \/ FillEnd(p) \/ (ReadFails(p) /\ proc'[p].pc # 0)
    \/ LineTake(p) \/ LineFetch(p) \/ LineEnd(p) \/ DoPeek(p) \/ DoShow(p) \/ Jump(p) \/ DoShut(p)
    \/ TypeLine(p) \/ TypeQuit(p)

Perishes(p) == WriteKills(p) \/ DoExit(p) \/ (ReadFails(p) /\ proc'[p].pc = 0)

(* What becomes of the connection of p when p goes on. *)
NetOf(p) ==
    \/ net' = net
    \/ BytesOnly(ConnOf(p), SideOf(p)) /\ Data(p)
    \/ BytesOnly(ConnOf(p), Other(SideOf(p))) /\ Mine(p).err = "none" /\ Theirs(p).open
    \/ /\ ErrOnly(ConnOf(p), SideOf(p))
       /\ IF Mine(p).err = "none" THEN ~ Theirs(p).open ELSE Mine(p).err \in {"reset", "unconnected"}
    \/ /\ Others(ConnOf(p), SideOf(p)) /\ At(p, "shut") /\ net'[ConnOf(p)][SideOf(p)].in = Mine(p).in
       /\ net'[ConnOf(p)][SideOf(p)].open = Mine(p).open /\ net'[ConnOf(p)][SideOf(p)].err = Mine(p).err
       /\ net'[ConnOf(p)][SideOf(p)].shut = TRUE

Moving == {"put", "echo", "read", "body", "fill", "line", "peek", "show", "goto", "feof", "choose", "again", "shut", "type"}

LEMMA ReadGoesOn ==
    ASSUME Names, NEW p \in Procs, ReadFails(p), proc'[p].pc # 0
    PROVE  /\ ConnOf(p) \in Clients /\ Failed(p) /\ Local(p)
           /\ proc'[p].pc \in Instr(p).errs /\ proc'[p].ahead = << >> /\ proc'[p].eof = proc[p].eof
           /\ proc'[p].buf = IF At(p, "line") \/ At(p, "fill") THEN proc[p].buf ELSE << >>
           /\ ErrOnly(ConnOf(p), SideOf(p)) /\ net'[ConnOf(p)][SideOf(p)].err = IF Mine(p).err = "reset" THEN "pipe" ELSE Mine(p).err
  <1>1. ~ End({p})
    <2>1. SessionTypes /\ {p} \subseteq Procs
      BY DEF Names
    <2>2. End({p}) => proc'[p].pc = 0
      BY <2>1, EndsProcs DEF Ended0
    <2> QED BY <2>2
  <1> QED BY <1>1, ReadFailsIs

LEMMA MovesIs ==
    ASSUME Names, NEW p \in Procs, Moves(p)
    PROVE  /\ \E op \in Moving : At(p, op)
           /\ Local(p) /\ NetOf(p) /\ killed' = killed /\ torn \subseteq torn' /\ torn' \subseteq torn \cup {p}
           /\ (net' = net \/ ConnOf(p) \in Clients)
           /\ p = S => proc'[p].pc # 0
  <1> DEFINE Goal == /\ \E op \in Moving : At(p, op)
                     /\ Local(p) /\ NetOf(p) /\ killed' = killed /\ torn \subseteq torn' /\ torn' \subseteq torn \cup {p}
                     /\ (net' = net \/ ConnOf(p) \in Clients)
                     /\ p = S => proc'[p].pc # 0
  <1>1. ASSUME NEW op \in Moving, At(p, op), op # "fill", Local(p), p = S PROVE proc'[p].pc # 0
    <2>1. PICK s : s = Script(S) /\ Serves(s) /\ proc[S].pc \in 1 .. Len(s) /\ s[proc[S].pc].op = op
      BY <1>1, Standing, Scripts
    <2>2. Follows(s, proc[S].pc, proc'[S].pc)
      BY <1>1, <2>1 DEF Local
    <2> QED BY <1>1, <2>1, <2>2 DEF Serves, Follows
  <1>2. ASSUME NEW op \in Moving, At(p, op), Local(p), NetOf(p), killed' = killed, torn' = torn \/ torn' = torn \cup {p},
               net' = net \/ ConnOf(p) \in Clients, p = S /\ op = "fill" => proc'[p].pc # 0
        PROVE  Goal
    <2>1. torn \subseteq torn' /\ torn' \subseteq torn \cup {p}
      BY <1>2
    <2>2. p = S => proc'[p].pc # 0
      BY <1>1, <1>2
    <2> QED BY <1>2, <2>1, <2>2
  <1>3. net' = net => NetOf(p)
    BY DEF NetOf
  <1> SUFFICES Goal
    OBVIOUS
  <1> HIDE DEF Goal
  <1>4. CASE Write(p)
    <2>1. PICK op \in {"put", "echo"} : At(p, op) /\ op \in Moving
      BY <1>4 DEF Write, Writes, Moving
    <2>2. /\ Local(p) /\ killed' = killed /\ torn' = torn /\ ConnOf(p) \in Clients
          /\ WriteNet(p)
      BY <1>4, WriteIs
    <2>3. NetOf(p)
      BY <2>2 DEF WriteNet, NetOf
    <2> QED BY <1>2, <2>1, <2>2, <2>3
  <1>5. CASE ReadSome(p)
    <2>1. PICK op \in {"read", "body"} : At(p, op) /\ op \in Moving
      BY <1>5 DEF ReadSome, Moving
    <2>2. /\ Local(p) /\ killed' = killed /\ torn' = torn /\ ConnOf(p) \in Clients
          /\ Data(p) /\ (\E k : Took(p, k))
      BY <1>5, ReadSomeIs
    <2>3. NetOf(p)
      BY <2>2 DEF Took, NetOf
    <2> QED BY <1>2, <2>1, <2>2, <2>3
  <1>6. CASE ReadEnd(p)
    <2>1. PICK op \in {"read", "body"} : At(p, op) /\ op \in Moving
      BY <1>6 DEF ReadEnd, Moving
    <2>2. /\ Local(p) /\ killed' = killed /\ torn' = torn
          /\ net' = net
      BY <1>6, ReadEndIs
    <2>3. NetOf(p)
      BY <2>2, <1>3
    <2> QED BY <1>2, <2>1, <2>2, <2>3
  <1>7. CASE FillSome(p)
    <2>1. PICK op \in {"fill"} : At(p, op) /\ op \in Moving
      BY <1>7 DEF FillSome, Moving
    <2>2. /\ Local(p) /\ Marks(p) /\ ConnOf(p) \in Clients
          /\ Data(p) /\ (\E k : Took(p, k))
      BY <1>7, FillSomeIs
    <2>3. NetOf(p)
      BY <2>2 DEF Took, NetOf
    <2>4. p = S => proc'[p].pc # 0
      <3>1. proc[p].pc \in Nat \ {0}
        BY <2>1, Standing
      <3>2. proc'[p].pc \in {proc[p].pc, proc[p].pc + 1}
        BY <1>7, FillSomeIs
      <3> QED BY <3>1, <3>2
    <2> QED BY <1>2, <2>1, <2>2, <2>3, <2>4 DEF Marks
  <1>8. CASE FillEnd(p)
    <2>1. PICK op \in {"fill"} : At(p, op) /\ op \in Moving
      BY <1>8 DEF FillEnd, Moving
    <2>2. /\ Local(p) /\ killed' = killed /\ torn' = torn
          /\ net' = net
      BY <1>8, FillEndIs
    <2>3. NetOf(p)
      BY <2>2, <1>3
    <2>4. p = S => proc'[p].pc # 0
      BY <1>8, FillEndIs
    <2> QED BY <1>2, <2>1, <2>2, <2>3, <2>4
  <1>9. CASE ReadFails(p) /\ proc'[p].pc # 0
    <2>1. PICK op \in {"read", "body", "fill", "line"} : At(p, op) /\ op \in Moving
      BY <1>9 DEF ReadFails, Moving
    <2>2. /\ Local(p) /\ killed' = killed /\ torn' = torn /\ ConnOf(p) \in Clients
          /\ Failed(p) /\ ErrOnly(ConnOf(p), SideOf(p))
      BY <1>9, ReadGoesOn, ReadFailsIs
    <2>3. NetOf(p)
      BY <2>2 DEF Failed, NetOf
    <2>4. p = S => proc'[p].pc # 0
      BY <1>9
    <2> QED BY <1>2, <2>1, <2>2, <2>3, <2>4
  <1>10. CASE LineTake(p)
    <2>1. PICK op \in {"line"} : At(p, op) /\ op \in Moving
      BY <1>10 DEF LineTake, Moving
    <2>2. /\ Local(p) /\ Marks(p)
          /\ net' = net
      BY <1>10, LineTakeIs
    <2>3. NetOf(p)
      BY <2>2, <1>3
    <2> QED BY <1>2, <2>1, <2>2, <2>3 DEF Marks
  <1>11. CASE LineFetch(p)
    <2>1. PICK op \in {"line"} : At(p, op) /\ op \in Moving
      BY <1>11 DEF LineFetch, Moving
    <2>2. /\ Local(p) /\ killed' = killed /\ torn' = torn /\ ConnOf(p) \in Clients
          /\ Data(p) /\ (\E k : Took(p, k))
      BY <1>11, LineFetchIs
    <2>3. NetOf(p)
      BY <2>2 DEF Took, NetOf
    <2> QED BY <1>2, <2>1, <2>2, <2>3
  <1>12. CASE LineEnd(p)
    <2>1. PICK op \in {"line"} : At(p, op) /\ op \in Moving
      BY <1>12 DEF LineEnd, Moving
    <2>2. /\ Local(p) /\ Marks(p)
          /\ net' = net
      BY <1>12, LineEndIs
    <2>3. NetOf(p)
      BY <2>2, <1>3
    <2> QED BY <1>2, <2>1, <2>2, <2>3 DEF Marks
  <1>13. CASE DoPeek(p)
    <2>1. PICK op \in {"peek"} : At(p, op) /\ op \in Moving
      BY <1>13 DEF DoPeek, Moving
    <2>2. /\ Local(p) /\ killed' = killed /\ torn' = torn
          /\ net' = net
      BY <1>13, DoPeekIs
    <2>3. NetOf(p)
      BY <2>2, <1>3
    <2> QED BY <1>2, <2>1, <2>2, <2>3
  <1>14. CASE DoShow(p)
    <2>1. PICK op \in {"show"} : At(p, op) /\ op \in Moving
      BY <1>14 DEF DoShow, Moving
    <2>2. /\ Local(p) /\ killed' = killed /\ (torn' = torn \/ torn' = torn \cup {p})
          /\ net' = net
      BY <1>14, DoShowIs
    <2>3. NetOf(p)
      BY <2>2, <1>3
    <2> QED BY <1>2, <2>1, <2>2, <2>3
  <1>15. CASE Jump(p)
    <2>1. PICK op \in {"goto", "feof", "choose", "again"} : At(p, op) /\ op \in Moving
      BY <1>15 DEF Jump, Moving
    <2>2. /\ Local(p) /\ killed' = killed /\ torn' = torn
          /\ net' = net
      BY <1>15, JumpIs
    <2>3. NetOf(p)
      BY <2>2, <1>3
    <2> QED BY <1>2, <2>1, <2>2, <2>3
  <1>16. CASE DoShut(p)
    <2>1. PICK op \in {"shut"} : At(p, op) /\ op \in Moving
      BY <1>16 DEF DoShut, Moving
    <2>2. /\ Local(p) /\ killed' = killed /\ torn' = torn /\ ConnOf(p) \in Clients
          /\ At(p, "shut") /\ Others(ConnOf(p), SideOf(p)) /\ net'[ConnOf(p)][SideOf(p)].in = Mine(p).in
          /\ net'[ConnOf(p)][SideOf(p)].open = Mine(p).open /\ net'[ConnOf(p)][SideOf(p)].err = Mine(p).err
          /\ net'[ConnOf(p)][SideOf(p)].shut = TRUE
      BY <1>16, DoShutIs
    <2>3. NetOf(p)
      BY <2>2 DEF NetOf
    <2> QED BY <1>2, <2>1, <2>2, <2>3
  <1>17. CASE TypeLine(p) \/ TypeQuit(p)
    <2>1. PICK op \in {"type"} : At(p, op) /\ op \in Moving
      BY <1>17 DEF TypeLine, TypeQuit, Moving
    <2>2. /\ Local(p) /\ killed' = killed /\ torn' = torn
          /\ net' = net
      BY <1>17, TypeLineIs
    <2>3. NetOf(p)
      BY <2>2, <1>3
    <2> QED BY <1>2, <2>1, <2>2, <2>3
  <1> QED BY <1>4, <1>5, <1>6, <1>7, <1>8, <1>9, <1>10, <1>11, <1>12, <1>13, <1>14, <1>15, <1>16, <1>17 DEF Moves

LEMMA PerishesIs ==
    ASSUME Names, NEW p \in Procs, Perishes(p)
    PROVE  /\ \E op \in {"put", "echo", "read", "body", "fill", "line", "exit", "exitall"} : At(p, op)
           /\ \E Q \in {{p}, Together(p)} : Fate(p, Q)
           /\ UNCHANGED <<pair, conn, torn>> /\ (killed' = killed \/ (WriteKills(p) /\ killed' = killed \cup Together(p)))
  <1>1. CASE WriteKills(p)
    <2>1. \E op \in {"put", "echo"} : At(p, op)
      BY <1>1 DEF WriteKills, Writes
    <2> QED BY <1>1, <2>1, WriteKillsIs
  <1>2. CASE DoExit(p)
    BY <1>2, DoExitIs
  <1>3. CASE ReadFails(p) /\ proc'[p].pc = 0
    <2>1. /\ \E op \in {"read", "body", "fill", "line"} : At(p, op)
          /\ UNCHANGED <<pair, conn, torn, killed>>
      BY <1>3 DEF ReadFails
    <2>2. End({p})
      BY <1>3, ReadFailsIs
    <2>3. p # S => p = P1(p[1]) \/ p = P2(p[1])
      BY Apart
    <2>4. Fate(p, {p})
      BY <2>2, <2>3 DEF Fate
    <2> QED BY <2>1, <2>4
  <1> QED BY <1>1, <1>2, <1>3 DEF Perishes

LEMMA StepIs ==
    ASSUME Names, NEW p \in Procs, Step(p)
    PROVE  Moves(p) \/ Perishes(p) \/ DoConnect(p) \/ ConnectFails(p) \/ DoFork(p) \/ DoClose(p)
  BY Zenon DEF Step, Moves, Perishes

(* The instructions of the server and its positions. *)
LEMMA ServerGoes ==
    ASSUME Names, NEW op, At(S, op), op # "accept", NEW j \in 1 .. Len(Script(S)), Follows(Script(S), proc[S].pc, j)
    PROVE  IF op = "close" THEN j \notin Holding(Script(S))
           ELSE j \in Holding(Script(S)) <=> proc[S].pc \in Holding(Script(S))
  <1>1. PICK s : s = Script(S) /\ Serves(s) /\ proc[S].pc \in 1 .. Len(s) /\ s[proc[S].pc].op = op /\ Len(s) \in Nat
    BY Standing, Scripts, Apart DEF Serves, Program
  <1>2. proc[S].pc # 1
    BY <1>1 DEF Serves
  <1>3. proc[S].pc \in 2 .. Len(s)
    BY <1>1, <1>2
  <1>4. CASE op = "close"
    BY <1>1, <1>3, <1>4 DEF Serves
  <1>5. CASE op # "close"
    BY <1>1, <1>3, <1>5 DEF Serves
  <1> QED BY <1>1, <1>4, <1>5

LEMMA Destination ==
    ASSUME NEW s, Program(s), NEW i \in 1 .. Len(s), NEW j, Follows(s, i, j)
    PROVE  j \in 0 .. Len(s)
  BY DEF Follows, Program

LEMMA NamesAfter ==
    ASSUME Names, pair' = pair, proc' \in [Procs -> Process],
           conn' \in [Clients -> {"new", "queued", "served", "refused"}], fds' \in [Clients -> SUBSET {1, 2}],
           net' \in Nets, serving' \in Clients \cup {NULL},
           \A p \in Procs : proc'[p].pc \in 0 .. Len(Script(p)),
           proc'[S].pc \in Holding(Script(S)) <=> serving' # NULL
    PROVE  Names'
  <1>1. \A p \in Procs : Script(p)' = Script(p)
    BY DEF Script
  <1>2. S \in Procs /\ S' = S
    BY Apart DEF S
  <1>3. Script(S)' = Script(S)
    BY <1>1, <1>2
  <1>4. SessionTypes'
    BY DEF Names, SessionTypes, Nets, Sides
  <1>5. Positions'
    BY <1>1, <1>3 DEF Positions
  <1> QED BY <1>4, <1>5 DEF Names

LEMMA MovesNames ==
    ASSUME Names, NEW p \in Procs, Moves(p)
    PROVE  Names'
  <1>1. PICK op \in Moving : At(p, op)
    BY MovesIs
  <1>2. /\ Local(p) /\ (p = S => proc'[p].pc # 0)
    BY MovesIs
  <1>3. /\ SessionTypes /\ pair' = pair /\ proc' \in [Procs -> Process] /\ conn' = conn /\ fds' = fds /\ net' \in Nets
        /\ serving' = serving /\ \A q \in Procs : q # p => proc'[q] = proc[q]
    BY <1>2 DEF Local, Names
  <1>4. proc'[p].pc \in 0 .. Len(Script(p))
    BY <1>1, <1>2, Standing, Scripts, Destination DEF Local
  <1>5. \A q \in Procs : proc'[q].pc \in 0 .. Len(Script(q))
    BY <1>3, <1>4 DEF Names, Positions
  <1>6. proc'[S].pc \in Holding(Script(S)) <=> proc[S].pc \in Holding(Script(S))
    <2>1. CASE p # S
      BY <1>3, <2>1, Apart
    <2>2. CASE p = S
      <3>1. proc'[S].pc \in 1 .. Len(Script(S))
        BY <1>2, <1>4, <2>2, Scripts DEF Program
      <3>2. op \notin {"accept", "close"} /\ At(S, op) /\ Follows(Script(S), proc[S].pc, proc'[S].pc)
        BY <1>1, <1>2, <2>2 DEF Moving, Local
      <3> QED BY <3>1, <3>2, ServerGoes
    <2> QED BY <2>1, <2>2
  <1>7. /\ conn' \in [Clients -> {"new", "queued", "served", "refused"}] /\ fds' \in [Clients -> SUBSET {1, 2}]
        /\ serving' \in Clients \cup {NULL}
    BY <1>3 DEF SessionTypes
  <1>8. proc'[S].pc \in Holding(Script(S)) <=> serving' # NULL
    BY <1>3, <1>6 DEF Names, Positions
  <1> QED BY <1>3, <1>5, <1>7, <1>8, NamesAfter

(* The processes in Q, of one program, end. *)
LEMMA FateIs ==
    ASSUME Names, NEW p \in Procs, NEW Q, Fate(p, Q)
    PROVE  /\ Q \subseteq Procs /\ Ended0(Q)
           /\ p = S => /\ serving' = NULL /\ fds' = fds /\ net' \in Nets
                       /\ \A d \in Clients : d # serving => net'[d] = Unlistened[d]
           /\ p # S => /\ p[1] \in Clients /\ S \notin Q /\ serving' = serving
                       /\ fds' \in [Clients -> SUBSET {1, 2}] /\ \A c \in Clients : c # p[1] => fds'[c] = fds[c]
                       /\ fds'[p[1]] = {k \in fds[p[1]] : <<p[1], k>> \notin Q}
                       /\ \/ fds[p[1]] # {} /\ fds'[p[1]] = {} /\ Closed(net, net', p[1], "client")
                          \/ ~ (fds[p[1]] # {} /\ fds'[p[1]] = {}) /\ net' = net
  <1>1. CASE p = S
    <2>1. Q = {S} /\ End({S}) /\ SessionTypes
      BY <1>1 DEF Fate, Names
    <2> QED BY <1>1, <2>1, ServerEnds, Apart
  <1>2. CASE p # S
    <2>1. PICK d \in Clients : d = p[1]
      BY <1>2, Apart
    <2>2. Q # {} /\ Q \subseteq {P1(d), P2(d)} /\ End(Q) /\ SessionTypes
      BY <1>2, <2>1 DEF Fate, Names
    <2>3. Q \subseteq Procs /\ S \notin Q
      BY <2>1, <2>2, Apart
    <2> QED BY <1>2, <2>1, <2>2, <2>3, ClientEnds
  <1> QED BY <1>1, <1>2

LEMMA FateNames ==
    ASSUME Names, NEW p \in Procs, NEW Q, Fate(p, Q), UNCHANGED <<pair, conn>>
    PROVE  Names'
  <1>1. Q \subseteq Procs /\ Ended0(Q) /\ SessionTypes
    BY FateIs DEF Names
  <1>2. \A q \in Procs : proc'[q].pc \in 0 .. Len(Script(q))
    BY <1>1, Scripts DEF Ended0, Names, Positions, Program
  <1>3. proc' \in [Procs -> Process] /\ conn' \in [Clients -> {"new", "queued", "served", "refused"}]
    BY <1>1 DEF Ended0, SessionTypes
  <1>4. CASE p = S
    <2>1. serving' = NULL /\ fds' = fds /\ net' \in Nets
      BY <1>4, FateIs
    <2>2. proc'[S].pc = 0
      BY <1>1, <1>4 DEF Fate, Ended0
    <2>3. 0 \notin Holding(Script(S))
      BY DEF Holding
    <2> QED BY <1>1, <1>2, <1>3, <2>1, <2>2, <2>3, NamesAfter DEF SessionTypes
  <1>5. CASE p # S
    <2>1. serving' = serving /\ fds' \in [Clients -> SUBSET {1, 2}] /\ S \notin Q
      BY <1>5, FateIs
    <2>2. net' \in Nets
      BY <1>1, <1>5, FateIs, SameNet DEF Closed
    <2>3. proc'[S] = proc[S]
      BY <1>1, <2>1, Apart DEF Ended0
    <2> QED BY <1>1, <1>2, <1>3, <2>1, <2>2, <2>3, NamesAfter DEF SessionTypes, Names, Positions
  <1> QED BY <1>4, <1>5

LEMMA NamesKept ==
    ASSUME Names, Next
    PROVE  Names'
  <1>0. SessionTypes /\ Positions
    BY DEF Names
  <1>1. ASSUME NEW c \in Clients, DoAccept(c) PROVE Names'
    <2>1. /\ conn' \in [Clients -> {"new", "queued", "served", "refused"}]
          /\ serving' = c
          /\ proc' \in [Procs -> Process] /\ (\A q \in Procs : q # S => proc'[q] = proc[q]) /\ proc'[S].pc = 2
          /\ 2 \in Holding(Script(S)) /\ 2 <= Len(Script(S)) /\ net' = net /\ UNCHANGED <<pair, fds>>
      BY <1>1, DoAcceptIs
    <2>2. \A p \in Procs : proc'[p].pc \in 0 .. Len(Script(p))
      BY <1>0, <2>1, Scripts DEF Positions, Program
    <2>3. c # NULL
      BY Apart
    <2>4. net' \in Nets
      BY <1>0, <2>1, SameNet
    <2> QED BY <1>0, <2>1, <2>2, <2>3, <2>4, NamesAfter DEF SessionTypes
  <1>2. ASSUME NEW p \in Procs, Moves(p) PROVE Names'
    BY <1>2, MovesNames
  <1>3. ASSUME NEW p \in Procs, Perishes(p) PROVE Names'
    <2>1. PICK Q : Fate(p, Q) /\ UNCHANGED <<pair, conn>>
      BY <1>3, PerishesIs
    <2> QED BY <2>1, FateNames
  <1>4. ASSUME NEW p \in Procs, DoConnect(p) PROVE Names'
    <2>1. /\ p # S /\ conn' \in [Clients -> {"new", "queued", "served", "refused"}] /\ fds' \in [Clients -> SUBSET {1, 2}]
          /\ proc' \in [Procs -> Process] /\ (\A q \in Procs : q # p => proc'[q] = proc[q])
          /\ proc'[p].pc = 2 /\ 2 <= Len(Script(p)) /\ net' = net /\ UNCHANGED <<pair, serving>>
      BY <1>4, DoConnectIs
    <2>2. \A q \in Procs : proc'[q].pc \in 0 .. Len(Script(q))
      BY <1>0, <2>1, Scripts DEF Positions, Program
    <2>3. net' \in Nets
      BY <1>0, <2>1, SameNet
    <2>4. proc'[S] = proc[S]
      BY <2>1, Apart
    <2> QED BY <1>0, <2>1, <2>2, <2>3, <2>4, NamesAfter DEF SessionTypes, Positions
  <1>5. ASSUME NEW p \in Procs, ConnectFails(p) PROVE Names'
    <2>1. /\ p # S /\ conn' \in [Clients -> {"new", "queued", "served", "refused"}]
          /\ proc' \in [Procs -> Process] /\ (\A q \in Procs : q # p => proc'[q] = proc[q])
          /\ proc'[p].pc \in Instr(p).errs /\ net' \in Nets /\ UNCHANGED <<pair, fds, serving>> /\ At(p, "connect")
      BY <1>5, ConnectFailsIs DEF ErrOnly, Others
    <2>2. Instr(p).errs \subseteq 0 .. Len(Script(p))
      BY <2>1, Standing, Scripts DEF Program
    <2>3. \A q \in Procs : proc'[q].pc \in 0 .. Len(Script(q))
      BY <1>0, <2>1, <2>2 DEF Positions
    <2>4. proc'[S] = proc[S]
      BY <2>1, Apart
    <2> QED BY <1>0, <2>1, <2>3, <2>4, NamesAfter DEF SessionTypes, Positions
  <1>6. ASSUME NEW p \in Procs, DoFork(p) PROVE Names'
    <2>1. /\ p # S /\ p[1] \in Clients /\ fds' \in [Clients -> SUBSET {1, 2}]
          /\ proc' \in [Procs -> Process] /\ (\A q \in Procs \ {p, P2(p[1])} : proc'[q] = proc[q])
          /\ proc'[p].pc = proc[p].pc + 1 /\ proc'[p].pc <= Len(Script(p))
          /\ proc'[P2(p[1])].pc = 1 /\ Len(Script(P2(p[1]))) >= 1
          /\ net' = net /\ UNCHANGED <<pair, conn, serving>>
      BY <1>6, DoForkIs
    <2>2. \A q \in Procs : Len(Script(q)) \in Nat
      BY Scripts DEF Program
    <2>3. ASSUME NEW q \in Procs PROVE proc'[q].pc \in 0 .. Len(Script(q))
      <3>1. CASE q = p
        BY <1>0, <2>1, <2>2, <3>1 DEF Positions, SessionTypes, Process
      <3>2. CASE q # p /\ q = P2(p[1])
        BY <2>1, <2>2, <3>2
      <3>3. CASE q \notin {p, P2(p[1])}
        BY <1>0, <2>1, <3>3 DEF Positions
      <3> QED BY <3>1, <3>2, <3>3
    <2>4. net' \in Nets
      BY <1>0, <2>1, SameNet
    <2>5. proc'[S] = proc[S]
      BY <2>1, Apart
    <2> QED BY <1>0, <2>1, <2>3, <2>4, <2>5, NamesAfter DEF SessionTypes, Positions
  <1>7. ASSUME NEW p \in Procs, DoClose(p) PROVE Names'
    <2>1. /\ p = S /\ At(S, "close")
          /\ proc' \in [Procs -> Process] /\ (\A q \in Procs : q # S => proc'[q] = proc[q])
          /\ Follows(Script(S), proc[S].pc, proc'[S].pc) /\ proc'[S].pc = proc[S].pc + 1
          /\ serving' = NULL /\ net' \in Nets /\ UNCHANGED <<pair, conn, fds>>
      BY <1>7, DoCloseIs DEF Closed
    <2>2. proc[S].pc \in 1 .. Len(Script(S)) /\ Program(Script(S)) /\ Len(Script(S)) \in Nat
      BY <2>1, Standing, Scripts, Apart
    <2>3. proc'[S].pc \in 0 .. Len(Script(S))
      BY <2>1, <2>2, Destination
    <2>4. proc'[S].pc \in 1 .. Len(Script(S))
      BY <2>1, <2>2, <2>3
    <2>5. proc'[S].pc \notin Holding(Script(S))
      BY <2>1, <2>4, ServerGoes
    <2>6. \A q \in Procs : proc'[q].pc \in 0 .. Len(Script(q))
      BY <1>0, <2>1, <2>3 DEF Positions
    <2> QED BY <1>0, <2>1, <2>5, <2>6, NamesAfter DEF SessionTypes
  <1>8. (\E c \in Clients : DoAccept(c)) \/ \E p \in Procs : Step(p)
    BY DEF Next
  <1> QED BY <1>1, <1>2, <1>3, <1>4, <1>5, <1>6, <1>7, <1>8, StepIs

-----------------------------------------------------------------------------
(* What the steps mean for one client. *)

(* Somebody else's step. *)
Still(d) ==
    /\ proc'[P1(d)] = proc[P1(d)] /\ proc'[P2(d)] = proc[P2(d)]
    /\ conn'[d] = conn[d] /\ fds'[d] = fds[d] /\ net'[d] = net[d]
    /\ (serving' = d <=> serving = d)
    /\ serving = d => proc'[S] = proc[S]
    /\ (proc'[S].pc = 0 <=> proc[S].pc = 0)

(* The server ends, and does not hold the connection of d. *)
Left(d) ==
    /\ proc'[P1(d)] = proc[P1(d)] /\ proc'[P2(d)] = proc[P2(d)]
    /\ conn'[d] = conn[d] /\ fds'[d] = fds[d] /\ net'[d] = Unlistened[d]
    /\ serving # d /\ serving' = NULL /\ proc'[S].pc = 0

(* A step of the server that serves d. *)
Served(d) ==
    /\ serving = d /\ (Moves(S) \/ Perishes(S) \/ DoClose(S))
    /\ proc'[P1(d)] = proc[P1(d)] /\ proc'[P2(d)] = proc[P2(d)]
    /\ conn'[d] = conn[d] /\ fds'[d] = fds[d]

(* A step of d. *)
Own(d, p) ==
    /\ p \in {P1(d), P2(d)}
    /\ Moves(p) \/ Perishes(p) \/ DoConnect(p) \/ ConnectFails(p) \/ DoFork(p)
    /\ proc'[S] = proc[S] /\ serving' = serving

LEMMA ForOne ==
    ASSUME Names, NEW d \in Clients, Next
    PROVE  Still(d) \/ Left(d) \/ Served(d) \/ DoAccept(d) \/ \E p \in Procs : Own(d, p)
  <1> DEFINE G == Still(d) \/ Left(d) \/ Served(d) \/ DoAccept(d) \/ \E p \in Procs : Own(d, p)
  <1>0. /\ P1(d) \in Procs /\ P2(d) \in Procs /\ P1(d) # S /\ P2(d) # S /\ S \in Procs /\ d # NULL
        /\ P1(d)[1] = d /\ P2(d)[1] = d
    BY Apart
  <1>1. ASSUME NEW c \in Clients, DoAccept(c) PROVE G
    <2>1. CASE c = d
      BY <1>1, <2>1
    <2>2. CASE c # d
      <3>1. /\ conn'[d] = conn[d] /\ serving' = c /\ serving = NULL /\ (\A q \in Procs : q # S => proc'[q] = proc[q])
            /\ proc[S].pc = 1 /\ proc'[S].pc = 2 /\ net' = net /\ fds' = fds
        BY <1>1, <2>2, DoAcceptIs
      <3>2. Still(d)
        BY <1>0, <2>2, <3>1 DEF Still
      <3> QED BY <3>2
    <2> QED BY <2>1, <2>2
  <1>2. ASSUME Moves(S) PROVE G
    <2>1. Local(S) /\ (net' = net \/ ConnOf(S) \in Clients) /\ proc'[S].pc # 0 /\ \E op \in Moving : At(S, op)
      BY <1>0, <1>2, MovesIs
    <2>2. /\ (\A q \in Procs : q # S => proc'[q] = proc[q]) /\ proc[S].pc # 0
          /\ (\A c \in Clients : c # serving => net'[c] = net[c]) /\ UNCHANGED <<conn, fds, serving>>
      BY <2>1 DEF Local, ConnOf, At
    <2>3. CASE serving = d
      BY <1>0, <1>2, <2>2, <2>3 DEF Served
    <2>4. CASE serving # d
      BY <1>0, <2>1, <2>2, <2>4 DEF Still
    <2> QED BY <2>3, <2>4
  <1>3. ASSUME Perishes(S) PROVE G
    <2>1. PICK Q : Fate(S, Q) /\ UNCHANGED <<pair, conn>>
      BY <1>0, <1>3, PerishesIs
    <2>2. /\ Ended0(Q) /\ serving' = NULL /\ fds' = fds /\ (\A c \in Clients : c # serving => net'[c] = Unlistened[c]) /\ Q = {S}
      BY <1>0, <2>1, FateIs DEF Fate
    <2>3. (\A q \in Procs : q # S => proc'[q] = proc[q]) /\ proc'[S].pc = 0
      BY <2>2 DEF Ended0
    <2>4. CASE serving = d
      BY <1>0, <1>3, <2>1, <2>2, <2>3, <2>4 DEF Served
    <2>5. CASE serving # d
      BY <1>0, <2>1, <2>2, <2>3, <2>5 DEF Left
    <2> QED BY <2>4, <2>5
  <1>4. ASSUME NEW p \in Procs, DoClose(p) PROVE G
    <2>1. /\ p = S /\ At(S, "close") /\ proc'[S].pc = proc[S].pc + 1 /\ (\A q \in Procs : q # S => proc'[q] = proc[q])
          /\ serving' = NULL /\ Closed(net, net', serving, "server") /\ UNCHANGED <<conn, fds>>
      BY <1>4, DoCloseIs
    <2>2. proc[S].pc # 0 /\ proc'[S].pc # 0
      BY <1>0, <2>1, Instruction DEF At
    <2>3. CASE serving = d
      BY <1>0, <1>4, <2>1, <2>3 DEF Served
    <2>4. CASE serving # d
      <3>1. net'[d] = net[d]
        BY <2>1, <2>4 DEF Closed
      <3> QED BY <1>0, <2>1, <2>2, <2>4, <3>1 DEF Still
    <2> QED BY <2>3, <2>4
  <1>5. ASSUME NEW p \in Procs, p # S, Moves(p) \/ Perishes(p) \/ DoConnect(p) \/ ConnectFails(p) \/ DoFork(p)
        PROVE  G
    <2>1. PICK e \in Clients : e = p[1] /\ (p = P1(e) \/ p = P2(e)) /\ P1(e) # S /\ P2(e) # S
      BY <1>5, Apart
    <2>2. /\ serving' = serving /\ proc'[S] = proc[S]
          /\ \A c \in Clients : c # e => /\ conn'[c] = conn[c] /\ fds'[c] = fds[c] /\ net'[c] = net[c]
                                         /\ proc'[P1(c)] = proc[P1(c)] /\ proc'[P2(c)] = proc[P2(c)]
      <3>0. \A c \in Clients : c # e => /\ P1(c) \in Procs /\ P2(c) \in Procs
                                        /\ P1(c) \notin {P1(e), P2(e)} /\ P2(c) \notin {P1(e), P2(e)}
        BY Apart
      <3>1. CASE Moves(p)
        <4>1. Local(p) /\ ConnOf(p) = e
          BY <1>5, <2>1, <3>1, MovesIs DEF ConnOf
        <4> QED BY <1>0, <1>5, <2>1, <3>0, <4>1 DEF Local
      <3>2. CASE Perishes(p)
        <4>1. PICK Q : Fate(p, Q) /\ UNCHANGED <<pair, conn>>
          BY <3>2, PerishesIs
        <4>2. /\ Ended0(Q) /\ S \notin Q /\ serving' = serving /\ \A c \in Clients : c # e => fds'[c] = fds[c] /\ net'[c] = net[c]
          BY <1>5, <2>1, <4>1, FateIs DEF Closed
        <4>3. Q \subseteq {P1(e), P2(e)}
          BY <1>5, <2>1, <4>1 DEF Fate
        <4> QED BY <1>0, <3>0, <4>1, <4>2, <4>3 DEF Ended0
      <3>3. CASE DoConnect(p)
        BY <1>0, <1>5, <2>1, <3>0, <3>3, DoConnectIs
      <3>4. CASE ConnectFails(p)
        <4>1. /\ serving' = serving /\ fds' = fds /\ (\A q \in Procs : q # p => proc'[q] = proc[q])
              /\ (\A c \in Clients : c # e => conn'[c] = conn[c] /\ net'[c] = net[c])
          BY <2>1, <3>4, ConnectFailsIs DEF ErrOnly, Others
        <4> QED BY <1>0, <1>5, <2>1, <3>0, <4>1
      <3>5. CASE DoFork(p)
        BY <1>0, <1>5, <2>1, <3>0, <3>5, DoForkIs
      <3> QED BY <1>5, <3>1, <3>2, <3>3, <3>4, <3>5
    <2>3. CASE e = d
      BY <1>5, <2>1, <2>2, <2>3 DEF Own
    <2>4. CASE e # d
      BY <2>2, <2>4 DEF Still
    <2> QED BY <2>3, <2>4
  <1>6. ASSUME NEW p \in Procs, Step(p) PROVE G
    <2>1. CASE p # S
      <3>1. DoClose(p) => p = S
        BY DoCloseIs
      <3> QED BY <1>5, <1>6, <2>1, <3>1, StepIs
    <2>2. CASE p = S
      <3>1. ~ DoConnect(S) /\ ~ ConnectFails(S) /\ ~ DoFork(S)
        BY <1>0, DoConnectIs, ConnectFailsIs, DoForkIs
      <3> QED BY <1>2, <1>3, <1>4, <1>6, <2>2, <3>1, StepIs
    <2> QED BY <2>1, <2>2
  <1>7. (\E c \in Clients : DoAccept(c)) \/ \E p \in Procs : Step(p)
    BY DEF Next
  <1> QED BY <1>1, <1>6, <1>7

LEMMA TornGrows ==
    ASSUME Names, Next
    PROVE  torn \subseteq torn'
  <1>1. ASSUME NEW p \in Procs, Step(p) PROVE torn \subseteq torn'
    <2>1. CASE Moves(p)
      BY <2>1, MovesIs
    <2>2. CASE Perishes(p)
      BY <2>2, PerishesIs
    <2>3. CASE DoConnect(p) \/ ConnectFails(p) \/ DoFork(p) \/ DoClose(p)
      BY <2>3 DEF DoConnect, ConnectFails, DoFork, DoClose
    <2> QED BY <1>1, <2>1, <2>2, <2>3, StepIs
  <1>2. ASSUME NEW c \in Clients, DoAccept(c) PROVE torn \subseteq torn'
    BY <1>2 DEF DoAccept
  <1> QED BY <1>1, <1>2 DEF Next

(* NetOf, seen from the two ends. *)
LEMMA NetOfClient ==
    ASSUME Names, NEW p \in Procs, p # S, NEW d \in Clients, d = p[1], NetOf(p)
    PROVE  /\ net'[d].server.open = net[d].server.open /\ net'[d].server.shut = net[d].server.shut
           /\ net'[d].server.err = net[d].server.err /\ net'[d].client.open = net[d].client.open
           /\ \/ net'[d] = net[d]
              \/ /\ net[d].client.in # << >> /\ net'[d].server = net[d].server
                 /\ net'[d].client.shut = net[d].client.shut /\ net'[d].client.err = net[d].client.err
              \/ net'[d].client = net[d].client /\ net[d].client.err = "none" /\ net[d].server.open
              \/ /\ net'[d].server = net[d].server /\ net'[d].client.in = net[d].client.in /\ net'[d].client.shut = net[d].client.shut
                 /\ IF net[d].client.err = "none" THEN ~ net[d].server.open ELSE net[d].client.err \in {"reset", "unconnected"}
              \/ /\ net'[d].server = net[d].server /\ net'[d].client.in = net[d].client.in /\ net'[d].client.err = net[d].client.err
                 /\ At(p, "shut") /\ net'[d].client.shut = TRUE
  <1>1. /\ ConnOf(p) = d /\ SideOf(p) = "client" /\ Other(SideOf(p)) = "server"
        /\ Mine(p) = net[d].client /\ Theirs(p) = net[d].server
    BY DEF ConnOf, SideOf, Other, Mine, Theirs
  <1>2. "client" \in Sides /\ "server" \in Sides /\ "client" # "server"
    BY DEF Sides
  <1>3. CASE net' = net
    BY <1>3
  <1>4. CASE BytesOnly(d, "client") /\ net[d].client.in # << >>
    BY <1>2, <1>4 DEF BytesOnly, Others
  <1>5. CASE BytesOnly(d, "server") /\ net[d].client.err = "none" /\ net[d].server.open
    BY <1>2, <1>5 DEF BytesOnly, Others
  <1>6. CASE /\ ErrOnly(d, "client")
             /\ IF net[d].client.err = "none" THEN ~ net[d].server.open ELSE net[d].client.err \in {"reset", "unconnected"}
    BY <1>2, <1>6 DEF ErrOnly, Others
  <1>7. CASE /\ Others(d, "client") /\ At(p, "shut") /\ net'[d].client.in = net[d].client.in
             /\ net'[d].client.open = net[d].client.open /\ net'[d].client.err = net[d].client.err
             /\ net'[d].client.shut = TRUE
    BY <1>2, <1>7 DEF Others
  <1>8. \/ net' = net
        \/ BytesOnly(d, "client") /\ net[d].client.in # << >>
        \/ BytesOnly(d, "server") /\ net[d].client.err = "none" /\ net[d].server.open
        \/ /\ ErrOnly(d, "client")
           /\ IF net[d].client.err = "none" THEN ~ net[d].server.open ELSE net[d].client.err \in {"reset", "unconnected"}
        \/ /\ Others(d, "client") /\ At(p, "shut") /\ net'[d].client.in = net[d].client.in
           /\ net'[d].client.open = net[d].client.open /\ net'[d].client.err = net[d].client.err /\ net'[d].client.shut = TRUE
    <2>1. \/ net' = net
          \/ BytesOnly(ConnOf(p), SideOf(p)) /\ Mine(p).in # << >>
          \/ BytesOnly(ConnOf(p), Other(SideOf(p))) /\ Mine(p).err = "none" /\ Theirs(p).open
          \/ /\ ErrOnly(ConnOf(p), SideOf(p))
             /\ IF Mine(p).err = "none" THEN ~ Theirs(p).open ELSE Mine(p).err \in {"reset", "unconnected"}
          \/ /\ Others(ConnOf(p), SideOf(p)) /\ At(p, "shut") /\ net'[ConnOf(p)][SideOf(p)].in = Mine(p).in
             /\ net'[ConnOf(p)][SideOf(p)].open = Mine(p).open /\ net'[ConnOf(p)][SideOf(p)].err = Mine(p).err
             /\ net'[ConnOf(p)][SideOf(p)].shut = TRUE
      BY Zenon DEF NetOf, Data
    <2> QED BY <1>1, <2>1
  <1> QED BY <1>3, <1>4, <1>5, <1>6, <1>7, <1>8

LEMMA NetOfServer ==
    ASSUME Names, serving \in Clients, NetOf(S)
    PROVE  /\ net'[serving].server.open = net[serving].server.open /\ net'[serving].client.open = net[serving].client.open
           /\ net'[serving].client.err = net[serving].client.err /\ net'[serving].client.shut = net[serving].client.shut
           /\ \/ net'[serving] = net[serving]
              \/ /\ net[serving].server.in # << >> /\ net'[serving].client = net[serving].client
                 /\ net'[serving].server.shut = net[serving].server.shut /\ net'[serving].server.err = net[serving].server.err
              \/ /\ net'[serving].server = net[serving].server /\ net[serving].server.err = "none" /\ net[serving].client.open
              \/ /\ net'[serving].client = net[serving].client /\ net'[serving].server.in = net[serving].server.in
                 /\ net'[serving].server.shut = net[serving].server.shut
                 /\ IF net[serving].server.err = "none" THEN ~ net[serving].client.open
                    ELSE net[serving].server.err \in {"reset", "unconnected"}
              \/ /\ net'[serving].client = net[serving].client /\ net'[serving].server.in = net[serving].server.in
                 /\ net'[serving].server.err = net[serving].server.err /\ At(S, "shut")
                 /\ net'[serving].server.shut = TRUE
  <1> DEFINE d == serving
  <1>1. /\ ConnOf(S) = d /\ SideOf(S) = "server" /\ Other(SideOf(S)) = "client"
        /\ Mine(S) = net[d].server /\ Theirs(S) = net[d].client
    BY DEF ConnOf, SideOf, Other, Mine, Theirs
  <1>2. "client" \in Sides /\ "server" \in Sides /\ "client" # "server"
    BY DEF Sides
  <1>3. CASE net' = net
    BY <1>3
  <1>4. CASE BytesOnly(d, "server") /\ net[d].server.in # << >>
    BY <1>2, <1>4 DEF BytesOnly, Others
  <1>5. CASE BytesOnly(d, "client") /\ net[d].server.err = "none" /\ net[d].client.open
    BY <1>2, <1>5 DEF BytesOnly, Others
  <1>6. CASE /\ ErrOnly(d, "server")
             /\ IF net[d].server.err = "none" THEN ~ net[d].client.open ELSE net[d].server.err \in {"reset", "unconnected"}
    BY <1>2, <1>6 DEF ErrOnly, Others
  <1>7. CASE /\ Others(d, "server") /\ At(S, "shut") /\ net'[d].server.in = net[d].server.in
             /\ net'[d].server.open = net[d].server.open /\ net'[d].server.err = net[d].server.err
             /\ net'[d].server.shut = TRUE
    BY <1>2, <1>7 DEF Others
  <1>8. \/ net' = net
        \/ BytesOnly(d, "server") /\ net[d].server.in # << >>
        \/ BytesOnly(d, "client") /\ net[d].server.err = "none" /\ net[d].client.open
        \/ /\ ErrOnly(d, "server")
           /\ IF net[d].server.err = "none" THEN ~ net[d].client.open ELSE net[d].server.err \in {"reset", "unconnected"}
        \/ /\ Others(d, "server") /\ At(S, "shut") /\ net'[d].server.in = net[d].server.in
           /\ net'[d].server.open = net[d].server.open /\ net'[d].server.err = net[d].server.err /\ net'[d].server.shut = TRUE
    <2>1. \/ net' = net
          \/ BytesOnly(ConnOf(S), SideOf(S)) /\ Mine(S).in # << >>
          \/ BytesOnly(ConnOf(S), Other(SideOf(S))) /\ Mine(S).err = "none" /\ Theirs(S).open
          \/ /\ ErrOnly(ConnOf(S), SideOf(S))
             /\ IF Mine(S).err = "none" THEN ~ Theirs(S).open ELSE Mine(S).err \in {"reset", "unconnected"}
          \/ /\ Others(ConnOf(S), SideOf(S)) /\ At(S, "shut") /\ net'[ConnOf(S)][SideOf(S)].in = Mine(S).in
             /\ net'[ConnOf(S)][SideOf(S)].open = Mine(S).open /\ net'[ConnOf(S)][SideOf(S)].err = Mine(S).err
             /\ net'[ConnOf(S)][SideOf(S)].shut = TRUE
      BY Zenon DEF NetOf, Data
    <2> QED BY <1>1, <2>1
  <1> QED BY <1>3, <1>4, <1>5, <1>6, <1>7, <1>8

LEMMA ConnectionsKept ==
    ASSUME Names, NEW d \in Clients, Connections(d), Next
    PROVE  Connections(d)'
  <1>0. /\ P1(d) \in Procs /\ P2(d) \in Procs /\ P1(d) # S /\ P2(d) # S /\ S \in Procs /\ d # NULL
        /\ P1(d)[1] = d /\ P2(d)[1] = d /\ P1(d) # P2(d)
    BY Apart
  <1>1. CASE Still(d)
    <2>1. Here(d)' <=> Here(d)
      BY <1>1 DEF Still, Here
    <2> QED BY <1>1, <2>1 DEF Still, Connections
  <1>2. CASE Left(d)
    <2>1. ~ Here(d)'
      BY <1>0, <1>2 DEF Left, Here
    <2>2. conn[d] # "queued" => net'[d] = net[d]
      BY <1>2, UnlistenedIs DEF Left, Names
    <2> QED BY <1>0, <1>2, <2>1, <2>2 DEF Left, Connections
  <1>3. CASE DoAccept(d)
    <2>1. /\ conn[d] = "queued" /\ conn'[d] = "served" /\ serving' = d /\ (\A q \in Procs : q # S => proc'[q] = proc[q])
          /\ net' = net /\ proc[S].pc = 1
      BY <1>3, DoAcceptIs
    <2>2. net'[d].server.open
      BY <2>1 DEF Connections, Here
    <2> QED BY <1>0, <2>1, <2>2 DEF Connections
  <1>4. CASE Served(d)
    <2>1. conn'[d] = "served" /\ proc'[P1(d)] = proc[P1(d)]
      BY <1>4 DEF Served, Connections
    <2>2. Here(d)' => net'[d].server.open
      <3>1. CASE Moves(S)
        <4>1. NetOf(S) /\ net[d].server.open
          BY <1>0, <1>4, <3>1, MovesIs DEF Served, Connections, Here
        <4> QED BY <1>4, <4>1, NetOfServer DEF Served
      <3>2. CASE Perishes(S) \/ DoClose(S)
        <4>1. serving' = NULL
          BY <1>0, <3>2, PerishesIs, FateIs, DoCloseIs
        <4> QED BY <1>0, <2>1, <4>1 DEF Here
      <3> QED BY <1>4, <3>1, <3>2 DEF Served
    <2> QED BY <1>4, <2>1, <2>2 DEF Served, Connections
  <1>5. ASSUME NEW p \in Procs, Own(d, p) PROVE Connections(d)'
    <2>1. /\ p \in {P1(d), P2(d)} /\ p # S /\ p[1] = d /\ proc'[S] = proc[S] /\ serving' = serving
      BY <1>0, <1>5 DEF Own
    <2>2. ASSUME NEW op, At(p, op), op # "connect"
          PROVE  conn[d] # "new" /\ proc[P1(d)].pc # 1
      <3>1. proc[p].pc # 0
        BY <2>2 DEF At
      <3>2. p = P1(d) => proc[p].pc # 1
        BY <2>1, <2>2, Parts0 DEF At
      <3> QED BY <2>1, <3>1, <3>2 DEF Connections
    <2>3. CASE Moves(p)
      <3>1. PICK op \in Moving : At(p, op)
        BY <2>3, MovesIs
      <3>2. Local(p) /\ NetOf(p)
        BY <2>3, MovesIs
      <3>3. op # "connect" /\ op # "accept"
        BY <3>1 DEF Moving
      <3>4. conn[d] # "new" /\ proc[P1(d)].pc # 1
        BY <2>2, <3>1, <3>3
      <3>5. proc'[P1(d)].pc # 1
        <4>1. CASE p = P1(d)
          <5>1. Calls(Script(p)) /\ proc[p].pc \in 1 .. Len(Script(p))
            BY <3>1, <4>1, Scripts, Standing
          <5> QED BY <3>2, <4>1, <5>1 DEF Calls, Local
        <4>2. CASE p # P1(d)
          BY <1>0, <3>2, <3>4, <4>2 DEF Local
        <4> QED BY <4>1, <4>2
      <3>6. conn' = conn /\ (Here(d)' <=> Here(d))
        BY <2>1, <3>2 DEF Local, Here
      <3>7. net'[d].server.open = net[d].server.open
        BY <2>1, <3>2, NetOfClient
      <3>8. conn[d] = "queued" /\ proc[S].pc # 0 =>
              /\ ~ net'[d].server.shut /\ net'[d].server.err = "none"
              /\ net'[d].client.in = << >> /\ net'[d].client.err = "none"
        <4>1. CASE conn[d] = "queued" /\ proc[S].pc # 0
          <5>1. /\ ~ net[d].server.shut /\ net[d].server.err = "none"
                /\ net[d].client.in = << >> /\ net[d].client.err = "none" /\ net[d].server.open
            BY <4>1 DEF Connections, Here
          <5> QED BY <2>1, <3>2, <5>1, NetOfClient
        <4> QED BY <4>1
      <3> QED BY <2>1, <3>4, <3>5, <3>6, <3>7, <3>8 DEF Connections
    <2>4. CASE Perishes(p)
      <3>1. PICK op \in {"put", "echo", "read", "body", "fill", "line", "exit", "exitall"} : At(p, op)
        BY <2>4, PerishesIs
      <3>2. PICK Q : Fate(p, Q) /\ UNCHANGED <<pair, conn>>
        BY <2>4, PerishesIs
      <3>3. /\ Ended0(Q) /\ (net' = net \/ Closed(net, net', d, "client"))
        BY <2>1, <3>2, FateIs
      <3>4. conn[d] # "new" /\ proc[P1(d)].pc # 1
        BY <2>2, <3>1
      <3>5. proc'[P1(d)].pc # 1
        BY <1>0, <3>3, <3>4 DEF Ended0
      <3>6. conn' = conn /\ (Here(d)' <=> Here(d))
        BY <2>1, <3>2 DEF Here
      <3>7. net'[d].server.open = net[d].server.open
        BY <3>3 DEF Closed, ClosedAt, Other
      <3>8. conn[d] = "queued" /\ proc[S].pc # 0 =>
              /\ ~ net'[d].server.shut /\ net'[d].server.err = "none"
              /\ net'[d].client.in = << >> /\ net'[d].client.err = "none"
        BY <3>3 DEF Closed, ClosedAt, Other, Connections
      <3> QED BY <2>1, <3>4, <3>5, <3>6, <3>7, <3>8 DEF Connections
    <2>5. CASE DoConnect(p)
      <3>1. /\ p = P1(d) /\ proc[p].pc = 1 /\ conn'[d] = "queued" /\ proc'[p].pc = 2 /\ net' = net
        BY <2>1, <2>5, DoConnectIs
      <3>2. /\ net[d] = Ends("server", OpenEnd, OpenEnd) /\ conn[d] = "new" /\ serving # d
        BY <3>1 DEF Connections
      <3>3. /\ net[d].server = OpenEnd /\ net[d].client = OpenEnd
        BY <3>2 DEF Ends
      <3> QED BY <2>1, <3>1, <3>2, <3>3 DEF Connections, OpenEnd
    <2>6. CASE ConnectFails(p)
      <3>1. /\ p = P1(d) /\ proc[p].pc = 1 /\ conn'[d] = "refused" /\ proc'[p].pc \in Instr(p).errs /\ At(p, "connect")
        BY <2>1, <2>6, ConnectFailsIs
      <3>2. conn[d] = "new" /\ serving # d
        BY <3>1 DEF Connections
      <3>3. proc'[p].pc # 1
        <4>1. Calls(Script(p)) /\ proc[p].pc \in 1 .. Len(Script(p)) /\ Instr(p) = Script(p)[proc[p].pc]
          BY <3>1, Scripts, Standing
        <4> QED BY <3>1, <4>1 DEF Calls, Follows
      <3> QED BY <2>1, <3>1, <3>2, <3>3 DEF Connections, Here
    <2>7. CASE DoFork(p)
      <3>1. /\ At(p, "fork") /\ p = P1(d) /\ proc'[p].pc = proc[p].pc + 1 /\ conn' = conn /\ net' = net
        BY <2>1, <2>7, DoForkIs
      <3>2. conn[d] # "new" /\ proc[p].pc # 0 /\ proc[p].pc \in Nat
        BY <2>2, <3>1, Instruction DEF At
      <3> QED BY <2>1, <3>1, <3>2 DEF Connections, Here
    <2> QED BY <1>5, <2>3, <2>4, <2>5, <2>6, <2>7 DEF Own
  <1> QED BY <1>1, <1>2, <1>3, <1>4, <1>5, ForOne

-----------------------------------------------------------------------------
(* What a process does is what its instruction says. *)
LEMMA MovesBy ==
    ASSUME NEW p, NEW op, At(p, op), Moves(p)
    PROVE  /\ op \in {"put", "echo"} => Write(p)
           /\ op \in {"read", "body"} => ReadSome(p) \/ ReadEnd(p) \/ (ReadFails(p) /\ proc'[p].pc # 0)
           /\ op = "fill" => FillSome(p) \/ FillEnd(p) \/ (ReadFails(p) /\ proc'[p].pc # 0)
           /\ op = "line" => LineTake(p) \/ LineFetch(p) \/ LineEnd(p) \/ (ReadFails(p) /\ proc'[p].pc # 0)
           /\ op = "show" => DoShow(p)
           /\ op = "shut" => DoShut(p)
           /\ op \in {"goto", "feof", "choose", "again"} => Jump(p)
           /\ op = "type" => TypeLine(p) \/ TypeQuit(p)
           /\ op \notin {"accept", "connect", "fork", "close", "exit", "exitall", "join"}
  <1>1. ASSUME NEW o, At(p, o) PROVE o = op
    BY <1>1 DEF At
  <1> QED
    BY <1>1, Zenon DEF Moves, Write, Writes, ReadSome, ReadEnd, FillSome, FillEnd, ReadFails, LineTake, LineFetch, LineEnd,
                DoPeek, DoShow, Jump, DoShut, TypeLine, TypeQuit

LEMMA PerishesBy ==
    ASSUME NEW p, NEW op, At(p, op), Perishes(p)
    PROVE  /\ op \in {"put", "echo"} => WriteKills(p)
           /\ op \in {"read", "body", "fill", "line"} => ReadFails(p) /\ proc'[p].pc = 0
           /\ op \in {"put", "echo", "read", "body", "fill", "line", "exit", "exitall"}
  <1>1. ASSUME NEW o, At(p, o) PROVE o = op
    BY <1>1 DEF At
  <1> QED BY <1>1, Zenon DEF Perishes, WriteKills, Writes, ReadFails, DoExit

-----------------------------------------------------------------------------
(* A client of Patients waits in Stays for the server's last word. *)
Remains(s, T) ==
    /\ 2 \in T /\ T \subseteq 2 .. Len(s)
    /\ \A i \in T : /\ s[i].op \in {"fork", "type", "put", "read", "line", "goto", "fill"}
                    /\ s[i].op \in {"fork", "type", "put", "read", "line"} => i + 1 \in T
                    /\ s[i].op = "type" => s[i].to = 0
                    /\ s[i].op = "goto" => s[i].to \in T
                    /\ s[i].op = "fill" => s[i].n = 9

LEMMA StaysPut ==
    ASSUME NEW x \in Patients
    PROVE  x \in DOMAIN Pairs /\ Remains(Pairs[x].client, Stays(x)) /\ ~ Pairs[x].threads
  <1>1. Remains(tcp_client, {2})
    <2> DEFINE s == tcp_client
    <2>1. Len(s) = 4 /\ s[2] = I("fill", 9, 3, {0})
      BY TcpClientText
    <2> HIDE DEF s
    <2>2. Remains(s, {2})
      BY <2>1 DEF Remains, I
    <2> QED BY <2>2 DEF s
  <1>2. Remains(file_client, {2})
    <2> DEFINE s == file_client
    <2>1. Len(s) = 5 /\ s[2] = I("fill", 9, 3, {0, 2})
      BY FileClientText
    <2> HIDE DEF s
    <2>2. Remains(s, {2})
      BY <2>1 DEF Remains, I
    <2> QED BY <2>2 DEF s
  <1>3. Remains(tcp_client_kehou6, {2, 3})
    <2> DEFINE s == tcp_client_kehou6
    <2>1. Len(s) = 5 /\ s[2] = I("put", 2, 0, {}) /\ s[3] = I("fill", 9, 4, {0, 3})
      BY TcpClientKehou6Text
    <2> HIDE DEF s
    <2>2. Remains(s, {2, 3})
      BY <2>1 DEF Remains, I
    <2> QED BY <2>2 DEF s
  <1>4. Remains(sep_clnt, {2, 3})
    <2> DEFINE s == sep_clnt
    <2>1. Len(s) = 5 /\ s[2] = I("line", 0, 4, {4}) /\ s[3] = I("goto", 0, 2, {})
      BY SepClntText
    <2> HIDE DEF s
    <2>2. Remains(s, {2, 3})
      BY <2>1 DEF Remains, I
    <2> QED BY <2>2 DEF s
  <1>5. Remains(mpclient_reader, {2, 3, 4})
    <2> DEFINE s == mpclient_reader
    <2>1. Len(s) = 5 /\ s[2] = I("fork", 0, 0, {}) /\ s[3] = I("read", 9, 5, {4}) /\ s[4] = I("goto", 0, 3, {})
      BY MpclientReaderText
    <2> HIDE DEF s
    <2>2. Remains(s, {2, 3, 4})
      BY <2>1 DEF Remains, I
    <2> QED BY <2>2 DEF s
  <1>6. Remains(tcp_epoll_client, {2, 3, 4, 5})
    <2> DEFINE s == tcp_epoll_client
    <2>1. Len(s) = 6 /\ s[2] = I("type", 0, 0, {}) /\ s[3] = I("put", 2, 0, {}) /\ s[4] = I("read", 9, 6, {0}) /\ s[5] = I("goto", 0, 2, {})
      BY TcpEpollClientText
    <2> HIDE DEF s
    <2>2. Remains(s, {2, 3, 4, 5})
      BY <2>1 DEF Remains, I
    <2> QED BY <2>2 DEF s
  <1>7. CASE x = "hello2"
    <2>1. Pairs["hello2"].client = tcp_client /\ ~ Pairs["hello2"].threads
      BY PairsAre DEF Meet
    <2>2. Stays("hello2") = {2} /\ "hello2" \in PairNames
      BY DEF Stays, PairNames
    <2> QED BY <1>1, <1>7, <2>1, <2>2, PairsAre
  <1>8. CASE x = "file"
    <2>1. Pairs["file"].client = file_client /\ ~ Pairs["file"].threads
      BY PairsAre DEF Meet
    <2>2. Stays("file") = {2} /\ "file" \in PairNames
      BY DEF Stays, PairNames
    <2> QED BY <1>2, <1>8, <2>1, <2>2, PairsAre
  <1>9. CASE x = "kehou6"
    <2>1. Pairs["kehou6"].client = tcp_client_kehou6 /\ ~ Pairs["kehou6"].threads
      BY PairsAre DEF Meet
    <2>2. Stays("kehou6") = {2, 3} /\ "kehou6" \in PairNames
      BY DEF Stays, PairNames
    <2> QED BY <1>3, <1>9, <2>1, <2>2, PairsAre
  <1>10. CASE x = "sep"
    <2>1. Pairs["sep"].client = sep_clnt /\ ~ Pairs["sep"].threads
      BY PairsAre DEF Meet
    <2>2. Stays("sep") = {2, 3} /\ "sep" \in PairNames
      BY DEF Stays, PairNames
    <2> QED BY <1>4, <1>10, <2>1, <2>2, PairsAre
  <1>11. CASE x = "sep2"
    <2>1. Pairs["sep2"].client = sep_clnt /\ ~ Pairs["sep2"].threads
      BY PairsAre DEF Meet
    <2>2. Stays("sep2") = {2, 3} /\ "sep2" \in PairNames
      BY DEF Stays, PairNames
    <2> QED BY <1>4, <1>11, <2>1, <2>2, PairsAre
  <1>12. CASE x = "mp"
    <2>1. Pairs["mp"].client = mpclient_reader /\ ~ Pairs["mp"].threads
      BY PairsAre DEF Meet
    <2>2. Stays("mp") = {2, 3, 4} /\ "mp" \in PairNames
      BY DEF Stays, PairNames
    <2> QED BY <1>5, <1>12, <2>1, <2>2, PairsAre
  <1>13. CASE x = "mpq"
    <2>1. Pairs["mpq"].client = mpclient_reader /\ ~ Pairs["mpq"].threads
      BY PairsAre DEF Meet
    <2>2. Stays("mpq") = {2, 3, 4} /\ "mpq" \in PairNames
      BY DEF Stays, PairNames
    <2> QED BY <1>5, <1>13, <2>1, <2>2, PairsAre
  <1>14. CASE x = "stdmp"
    <2>1. Pairs["stdmp"].client = mpclient_reader /\ ~ Pairs["stdmp"].threads
      BY PairsAre DEF Meet
    <2>2. Stays("stdmp") = {2, 3, 4} /\ "stdmp" \in PairNames
      BY DEF Stays, PairNames
    <2> QED BY <1>5, <1>14, <2>1, <2>2, PairsAre
  <1>15. CASE x = "epoll"
    <2>1. Pairs["epoll"].client = tcp_epoll_client /\ ~ Pairs["epoll"].threads
      BY PairsAre DEF Meet
    <2>2. Stays("epoll") = {2, 3, 4, 5} /\ "epoll" \in PairNames
      BY DEF Stays, PairNames
    <2> QED BY <1>6, <1>15, <2>1, <2>2, PairsAre
  <1> QED BY <1>7, <1>8, <1>9, <1>10, <1>11, <1>12, <1>13, <1>14, <1>15 DEF Patients

LEMMA AtFirst ==
    ASSUME Init
    PROVE  /\ Names /\ torn = {} /\ killed = {} /\ serving = NULL /\ proc[S].pc = 1 /\ proc[S].buf = << >>
           /\ \A d \in Clients : /\ Connections(d) /\ conn[d] = "new" /\ ~ Here(d)
                                 /\ net[d].server = OpenEnd /\ net[d].client = OpenEnd
                                 /\ proc[P1(d)].pc \in {0, 1} /\ proc[P1(d)].buf = << >> /\ proc[P1(d)].ahead = << >>
  <1>1. << >> \in Seq(Byte)
    OBVIOUS
  <1>2. proc \in [Procs -> Process]
    BY <1>1 DEF Init, Process
  <1>3. OpenEnd \in End0
    BY <1>1 DEF OpenEnd, End0
  <1>4. SessionTypes
    BY <1>2, <1>3 DEF Init, SessionTypes, Ends
  <1>5. \A p \in Procs : /\ proc[p].pc \in {0, 1} /\ proc[p].buf = << >> /\ proc[p].ahead = << >>
                         /\ proc[p].pc = 1 => p = S \/ p \in Coming \X {1}
    BY DEF Init
  <1>6. proc[S].pc = 1
    BY Apart DEF Init
  <1>8. Positions
    <2>1. ASSUME NEW p \in Procs PROVE proc[p].pc \in 0 .. Len(Script(p))
      <3>1. CASE p = S
        <4>1. Serves(Script(S))
          BY <1>4, Programs DEF Script, SessionTypes
        <4> QED BY <1>6, <3>1, <4>1 DEF Serves, Program
      <3>2. CASE p # S /\ proc[p].pc = 1
        <4>1. p[2] = 1
          BY <1>5, <3>2
        <4>2. Calls(Script(p))
          BY <1>4, <3>2, <4>1, Programs DEF Script, SessionTypes
        <4> QED BY <3>2, <4>2 DEF Calls, Program
      <3>3. CASE p # S /\ proc[p].pc = 0
        <4>1. Program(Script(p))
          BY <1>4, <3>3, Programs DEF Script, SessionTypes, Calls, Helps
        <4> QED BY <3>3, <4>1 DEF Program
      <3> QED BY <1>5, <3>1, <3>2, <3>3
    <2>2. 1 \notin Holding(Script(S))
      BY DEF Holding
    <2> QED BY <1>6, <2>1, <2>2 DEF Positions, Init
  <1>9. ASSUME NEW d \in Clients
        PROVE  /\ Connections(d) /\ conn[d] = "new" /\ ~ Here(d)
               /\ net[d].server = OpenEnd /\ net[d].client = OpenEnd
               /\ proc[P1(d)].pc \in {0, 1} /\ proc[P1(d)].buf = << >> /\ proc[P1(d)].ahead = << >>
    <2>1. P1(d) \in Procs /\ P2(d) \in Procs /\ P1(d) # S /\ P2(d) # S /\ P2(d)[2] = 2 /\ d # NULL
      BY Apart
    <2>2. proc[P2(d)].pc = 0
      <3>1. P2(d) \notin Coming \X {1}
        BY DEF P2
      <3> QED BY <1>5, <2>1, <3>1
    <2>3. conn[d] = "new" /\ fds[d] = {} /\ net[d] = Ends("server", OpenEnd, OpenEnd) /\ serving = NULL
      BY DEF Init
    <2>4. net[d].server = OpenEnd /\ net[d].client = OpenEnd
      BY <2>3 DEF Ends
    <2> QED BY <1>5, <2>1, <2>2, <2>3, <2>4 DEF Connections, Here
  <1> QED BY <1>4, <1>5, <1>6, <1>8, <1>9, Apart DEF Names, Init

(* "fill" never gets the nine bytes it has room for. *)
Brief(d) == At(P1(d), "fill") => Len(proc[P1(d)].buf) + Len(net[d].client.in) < 9

(* Whether the server is concerned with d, before and after a step of d. *)
LEMMA HereStays ==
    ASSUME Names, NEW d \in Clients, Connections(d), NEW p \in Procs, Own(d, p)
    PROVE  IF DoConnect(p) THEN conn[d] = "new" /\ ~ Here(d)
           ELSE IF ConnectFails(p) THEN ~ Here(d)' ELSE Here(d)' <=> Here(d)
  <1>1. /\ p # S /\ p[1] = d /\ proc'[S] = proc[S] /\ serving' = serving
    BY Apart DEF Own
  <1>2. CASE DoConnect(p)
    <2>1. p = P1(d) /\ proc[p].pc = 1
      BY <1>1, <1>2, DoConnectIs
    <2> QED BY <1>2, <2>1 DEF Connections, Here
  <1>3. CASE ~ DoConnect(p) /\ ConnectFails(p)
    <2>1. p = P1(d) /\ proc[p].pc = 1 /\ conn'[d] = "refused"
      BY <1>1, <1>3, ConnectFailsIs
    <2>2. serving # d
      BY <2>1 DEF Connections
    <2> QED BY <1>1, <1>3, <2>1, <2>2 DEF Here
  <1>4. CASE ~ DoConnect(p) /\ ~ ConnectFails(p)
    <2>1. conn' = conn
      <3>1. CASE Moves(p)
        BY <3>1, MovesIs DEF Local
      <3>2. CASE Perishes(p)
        BY <3>2, PerishesIs
      <3>3. CASE DoFork(p)
        BY <3>3, DoForkIs
      <3> QED BY <1>4, <3>1, <3>2, <3>3 DEF Own
    <2> QED BY <1>1, <1>4, <2>1 DEF Here
  <1> QED BY <1>2, <1>3, <1>4

LEMMA PairStays ==
    ASSUME Names, Next
    PROVE  pair' = pair
  <1>1. ASSUME NEW p \in Procs, Step(p) PROVE pair' = pair
    <2>1. CASE Moves(p)
      BY <2>1, MovesIs DEF Local
    <2>2. CASE Perishes(p)
      BY <2>2, PerishesIs
    <2>3. CASE DoConnect(p) \/ ConnectFails(p) \/ DoFork(p) \/ DoClose(p)
      BY <2>3 DEF DoConnect, ConnectFails, DoFork, DoClose
    <2> QED BY <1>1, <2>1, <2>2, <2>3, StepIs
  <1>2. ASSUME NEW c \in Clients, DoAccept(c) PROVE pair' = pair
    BY <1>2 DEF DoAccept
  <1> QED BY <1>1, <1>2 DEF Next

(* The first process of a patient client. *)
LEMMA Waits ==
    ASSUME Names, NEW d \in Clients, Connections(d), Patience(d), pair \in Patients, Here(d), ~ net[d].server.shut
    PROVE  /\ \E op \in {"fork", "type", "put", "read", "line", "goto", "fill"} : At(P1(d), op)
           /\ \A op : At(P1(d), op) =>
                 /\ op \in {"fork", "type", "put", "read", "line", "goto", "fill"}
                 /\ op \in {"fork", "type", "put", "read", "line"} => proc[P1(d)].pc + 1 \in Stays(pair)
                 /\ op = "type" => Instr(P1(d)).to = 0
                 /\ op = "goto" => Instr(P1(d)).to \in Stays(pair)
                 /\ op = "fill" => Instr(P1(d)).n = 9
           /\ ~ Failed(P1(d)) /\ ~ Ended(P1(d)) /\ Mine(P1(d)).err = "none" /\ Theirs(P1(d)).open
           /\ proc[P1(d)].pc \in Stays(pair) /\ ~ Pairs[pair].threads
  <1>1. P1(d) \in Procs /\ P1(d) # S /\ P1(d)[1] = d /\ P1(d)[2] = 1
    BY Apart
  <1>2. /\ proc[P1(d)].pc \in Stays(pair) /\ net[d].client.err = "none" /\ net[d].server.open
    BY DEF Patience, Connections
  <1>3. Script(P1(d)) = Pairs[pair].client
    BY <1>1 DEF Script
  <1>4. PICK s, T : s = Script(P1(d)) /\ T = Stays(pair) /\ Remains(s, T) /\ ~ Pairs[pair].threads
    BY <1>3, StaysPut
  <1>5. PICK i : i = proc[P1(d)].pc /\ i \in T /\ i # 0
    BY <1>2, <1>4 DEF Remains
  <1>6. Instr(P1(d)) = s[i] /\ \A op : At(P1(d), op) <=> s[i].op = op
    BY <1>4, <1>5 DEF Instr, At
  <1>7. Mine(P1(d)) = net[d].client /\ Theirs(P1(d)) = net[d].server
    BY <1>1 DEF Mine, Theirs, ConnOf, SideOf, Other
  <1>8. ~ Failed(P1(d)) /\ ~ Ended(P1(d)) /\ Mine(P1(d)).err = "none" /\ Theirs(P1(d)).open
    BY <1>2, <1>7 DEF Failed, Ended
  <1> QED BY <1>2, <1>4, <1>5, <1>6, <1>8 DEF Remains

LEMMA PatienceKept ==
    ASSUME Names, NEW d \in Clients, Connections(d), Patience(d), pair \in Patients, Next,
           Here(d) /\ ~ net[d].server.shut => Brief(d)
    PROVE  Patience(d)'
  <1>0. /\ P1(d) \in Procs /\ P2(d) \in Procs /\ P1(d) # S /\ P2(d) # S /\ S \in Procs /\ d # NULL
        /\ P1(d)[1] = d /\ P2(d)[1] = d /\ P1(d) # P2(d) /\ P2(d) = <<d, 2>> /\ P1(d) = <<d, 1>>
    BY Apart DEF P1, P2
  <1>a. pair' = pair /\ Stays(pair)' = Stays(pair)
    BY PairStays DEF Stays
  <1>1. CASE Still(d)
    <2>1. Here(d)' <=> Here(d)
      BY <1>1 DEF Still, Here
    <2> QED BY <1>a, <1>1, <2>1 DEF Still, Patience
  <1>2. CASE Left(d)
    BY <1>0, <1>2 DEF Left, Here, Patience
  <1>3. CASE DoAccept(d)
    <2>1. /\ conn[d] = "queued" /\ (\A q \in Procs : q # S => proc'[q] = proc[q]) /\ fds' = fds
          /\ net' = net /\ proc[S].pc = 1
      BY <1>3, DoAcceptIs
    <2>2. Here(d)
      BY <2>1 DEF Here
    <2> QED BY <1>0, <1>a, <2>1, <2>2 DEF Patience
  <1>4. CASE Served(d)
    <2>1. CASE Moves(S)
      <3>1. serving = d /\ NetOf(S) /\ serving' = serving /\ conn' = conn /\ proc'[P1(d)] = proc[P1(d)] /\ fds'[d] = fds[d]
        BY <1>0, <1>4, <2>1, MovesIs DEF Served, Local
      <3>2. Here(d)
        BY <3>1 DEF Here
      <3>3. /\ net'[d].client.open = net[d].client.open /\ net'[d].client.err = net[d].client.err
            /\ ~ net'[d].server.shut => ~ net[d].server.shut
            /\ ~ net[d].server.shut => net'[d].server.err = "none"
        BY <3>1, <3>2, NetOfServer DEF Patience
      <3> QED BY <1>a, <3>1, <3>2, <3>3 DEF Patience
    <2>2. CASE Perishes(S) \/ DoClose(S)
      <3>1. serving' = NULL
        BY <1>0, <2>2, PerishesIs, FateIs, DoCloseIs
      <3>2. conn'[d] = "served"
        BY <1>4 DEF Served, Connections
      <3> QED BY <1>0, <3>1, <3>2 DEF Here, Patience
    <2> QED BY <1>4, <2>1, <2>2 DEF Served
  <1>5. ASSUME NEW p \in Procs, Own(d, p) PROVE Patience(d)'
    <2>1. /\ p \in {P1(d), P2(d)} /\ p # S /\ p[1] = d /\ proc'[S] = proc[S] /\ serving' = serving
      BY <1>0, <1>5 DEF Own
    <2>2. CASE DoConnect(p)
      <3>1. /\ p = P1(d) /\ fds'[d] = {1} /\ proc'[p].pc = 2 /\ net' = net
        BY <2>1, <2>2, DoConnectIs
      <3>2. net[d] = Ends("server", OpenEnd, OpenEnd)
        BY <1>5, <2>2, HereStays DEF Connections
      <3>3. /\ net[d].server = OpenEnd /\ net[d].client = OpenEnd
        BY <3>2 DEF Ends
      <3>4. 2 \in Stays(pair)
        BY StaysPut DEF Remains
      <3> QED BY <1>a, <3>1, <3>3, <3>4 DEF Patience, OpenEnd
    <2>3. CASE ~ DoConnect(p) /\ ConnectFails(p)
      BY <1>5, <2>3, HereStays DEF Patience
    <2>4. CASE ~ DoConnect(p) /\ ~ ConnectFails(p)
      <3>1. Here(d)' <=> Here(d)
        BY <1>5, <2>4, HereStays
      <3>2. net'[d].server.shut = net[d].server.shut
        <4>1. CASE Moves(p)
          BY <2>1, <4>1, MovesIs, NetOfClient
        <4>2. CASE Perishes(p)
          <5>1. PICK Q : Fate(p, Q)
            BY <4>2, PerishesIs
          <5>2. net' = net \/ Closed(net, net', d, "client")
            BY <2>1, <5>1, FateIs
          <5> QED BY <5>2 DEF Closed, ClosedAt, Other
        <4>3. CASE DoFork(p)
          BY <4>3, DoForkIs
        <4> QED BY <1>5, <2>4, <4>1, <4>2, <4>3 DEF Own
      <3>3. SUFFICES ASSUME Here(d), ~ net[d].server.shut
                     PROVE  /\ proc'[P1(d)].pc \in Stays(pair) /\ 1 \in fds'[d] /\ net'[d].client.open
                            /\ net'[d].client.err = "none" /\ net'[d].server.err = "none"
        BY <1>a, <3>1, <3>2 DEF Patience
      <3>4. /\ proc[P1(d)].pc \in Stays(pair) /\ 1 \in fds[d] /\ net[d].client.open
            /\ net[d].client.err = "none" /\ net[d].server.err = "none" /\ net[d].server.open
        BY <3>3 DEF Patience, Connections
      <3>5. /\ (\A op : At(P1(d), op) =>
                 /\ op \in {"fork", "type", "put", "read", "line", "goto", "fill"}
                 /\ op \in {"fork", "type", "put", "read", "line"} => proc[P1(d)].pc + 1 \in Stays(pair)
                 /\ op = "type" => Instr(P1(d)).to = 0
                 /\ op = "goto" => Instr(P1(d)).to \in Stays(pair)
                 /\ op = "fill" => Instr(P1(d)).n = 9)
            /\ ~ Failed(P1(d)) /\ ~ Ended(P1(d)) /\ Mine(P1(d)).err = "none" /\ ~ Pairs[pair].threads
        BY <3>3, Waits
      <3>6. CASE DoFork(p)
        <4>1. /\ p = P1(d) /\ At(p, "fork") /\ proc'[p].pc = proc[p].pc + 1 /\ fds'[d] = {1, 2} /\ net' = net
          BY <2>1, <3>6, DoForkIs
        <4> QED BY <3>4, <3>5, <4>1
      <3>7. CASE Perishes(p)
        <4>1. PICK op \in {"put", "echo", "read", "body", "fill", "line", "exit", "exitall"} : At(p, op)
          BY <3>7, PerishesIs
        <4>2. p # P1(d)
          <5>1. ~ WriteKills(P1(d))
            BY <3>5, <1>0, WriteKillsIs
          <5>2. ~ ReadFails(P1(d))
            BY <3>5, Zenon DEF ReadFails
          <5> QED BY <3>5, <3>7, <4>1, <5>1, <5>2, PerishesBy
        <4>3. p = P2(d) /\ Together(p) = {p}
          BY <2>1, <3>5, <4>2 DEF Together
        <4>4. PICK Q : Fate(p, Q) /\ Q = {p}
          BY <3>7, <4>3, PerishesIs
        <4>5. fds'[d] = {k \in fds[d] : <<d, k>> \notin Q} /\ Ended0(Q)
              /\ (fds'[d] # {} => net' = net)
          BY <2>1, <4>4, FateIs
        <4>6. 1 \in fds'[d] /\ proc'[P1(d)] = proc[P1(d)]
          BY <1>0, <3>4, <4>3, <4>4, <4>5 DEF Ended0
        <4> QED BY <3>4, <4>5, <4>6
      <3>8. CASE Moves(p)
        <4>1. Local(p) /\ NetOf(p) /\ fds' = fds
          BY <3>8, MovesIs DEF Local
        <4>2. net'[d].client.open /\ net'[d].client.err = "none" /\ net'[d].server.err = "none"
          BY <2>1, <3>4, <4>1, NetOfClient
        <4>3. CASE p = P2(d)
          <5>1. proc'[P1(d)] = proc[P1(d)]
            BY <1>0, <4>1, <4>3 DEF Local
          <5> QED BY <3>4, <4>1, <4>2, <5>1
        <4>4. CASE p = P1(d)
          <5>1. PICK op : At(p, op) /\ op \in Moving
            BY <3>8, MovesIs
          <5>2. op \in {"type", "put", "read", "line", "goto", "fill"}
            BY <3>5, <4>4, <5>1 DEF Moving
          <5>3. ~ ReadFails(p) /\ ~ ReadEnd(p) /\ ~ LineEnd(p) /\ ~ FillEnd(p)
            BY <3>5, <4>4, Zenon DEF ReadFails, ReadEnd, LineEnd, FillEnd
          <5>4. CASE op = "type"
            BY <3>4, <3>5, <3>8, <4>1, <4>2, <4>4, <5>1, <5>4, MovesBy, TypeLineIs
          <5>5. CASE op = "put"
            <6>1. proc'[p].pc = proc[p].pc + 1
              <7>1. ~ At(p, "echo")
                BY <5>1, <5>5 DEF At
              <7> QED BY <3>8, <5>1, <5>5, <7>1, MovesBy, WriteIs DEF AfterWrite
            <6> QED BY <3>4, <3>5, <4>1, <4>2, <4>4, <5>1, <5>5, <6>1
          <5>6. CASE op = "read"
            BY <3>4, <3>5, <3>8, <4>1, <4>2, <4>4, <5>1, <5>3, <5>6, MovesBy, ReadSomeIs
          <5>7. CASE op = "line"
            BY <3>4, <3>5, <3>8, <4>1, <4>2, <4>4, <5>1, <5>3, <5>7, MovesBy, LineTakeIs, LineFetchIs
          <5>8. CASE op = "goto"
            <6>1. proc'[p].pc = Instr(p).to
              BY <3>8, <5>1, <5>8, MovesBy, JumpIs DEF At
            <6> QED BY <3>4, <3>5, <4>1, <4>2, <4>4, <5>1, <5>8, <6>1
          <5>9. CASE op = "fill"
            <6>1. FillSome(p)
              BY <3>8, <5>1, <5>3, <5>9, MovesBy
            <6>2. Mine(p) = net[d].client /\ Instr(p).n = 9
              BY <2>1, <3>5, <4>4, <5>1, <5>9 DEF Mine, ConnOf, SideOf
            <6>3. PICK k \in 1 .. Len(net[d].client.in) :
                     proc'[p].pc = IF Len(proc[p].buf) + k >= 9 THEN proc[p].pc + 1 ELSE proc[p].pc
              BY <6>1, <6>2, FillSomeIs
            <6>4. Len(proc[p].buf) \in Nat /\ Len(net[d].client.in) \in Nat
              <7>1. proc[p] \in Process /\ net[d].client \in End0
                BY DEF Names, SessionTypes
              <7> QED BY <7>1 DEF Process, End0
            <6>5. Len(proc[p].buf) + k < 9
              <7>1. Len(proc[p].buf) + Len(net[d].client.in) < 9
                BY <3>3, <4>4, <5>1, <5>9 DEF Brief
              <7>2. k <= Len(net[d].client.in) /\ k \in Nat
                BY <6>4
              <7>3. PICK a \in Nat, b \in Nat : a = Len(proc[p].buf) /\ b = Len(net[d].client.in)
                BY <6>4, Zenon
              <7>4. a + b < 9 /\ k <= b
                BY <7>1, <7>2, <7>3, Zenon
              <7>5. a + k < 9
                BY <7>2, <7>4
              <7> QED BY <7>3, <7>5, Zenon
            <6> QED BY <3>4, <4>1, <4>2, <4>4, <6>3, <6>4, <6>5
          <5> QED BY <5>2, <5>4, <5>5, <5>6, <5>7, <5>8, <5>9
        <4> QED BY <2>1, <4>3, <4>4
      <3> QED BY <1>5, <2>4, <3>6, <3>7, <3>8 DEF Own
    <2> QED BY <2>2, <2>3, <2>4
  <1> QED BY <1>1, <1>2, <1>3, <1>4, <1>5, ForOne

-----------------------------------------------------------------------------
(* What an instruction does, seen from the end s of the connection of d; o is the other end. *)
Uses(p, d, s, o) ==
    /\ p \in Procs /\ d \in Clients /\ ConnOf(p) = d /\ SideOf(p) = s /\ Other(s) = o
    /\ s \in Sides /\ o \in Sides /\ s # o

LEMMA ClientUses ==
    ASSUME NEW d \in Clients, NEW p \in {P1(d), P2(d)}
    PROVE  Uses(p, d, "client", "server")
  BY Apart DEF Uses, ConnOf, SideOf, Other, Sides

LEMMA ServerUses ==
    ASSUME serving \in Clients
    PROVE  Uses(S, serving, "server", "client")
  BY Apart DEF Uses, ConnOf, SideOf, Other, Sides

(* The end s keeps all but its bytes. *)
Same(d, s) == net'[d][s] = net[d][s]
Rest(d, s) == net'[d][s].open = net[d][s].open /\ net'[d][s].shut = net[d][s].shut /\ net'[d][s].err = net[d][s].err
Flags(d, s) == net'[d][s].open = net[d][s].open /\ net'[d][s].shut = net[d][s].shut /\ net'[d][s].in = net[d][s].in

LEMMA UsesEnds ==
    ASSUME Names, NEW p, NEW d, NEW s, NEW o, Uses(p, d, s, o)
    PROVE  /\ Mine(p) = net[d][s] /\ Theirs(p) = net[d][o] /\ net[d][s] \in End0 /\ net[d][o] \in End0
           /\ net[d][s].in \in Seq(Byte) /\ net[d][o].in \in Seq(Byte)
           /\ proc[p].buf \in Seq(Byte) /\ proc[p].ahead \in Seq(Byte) /\ proc[p].pc \in Nat
  <1>1. Mine(p) = net[d][s] /\ Theirs(p) = net[d][o] /\ net[d][s] \in End0 /\ net[d][o] \in End0
    BY DEF Uses, Mine, Theirs, Names, SessionTypes, Sides
  <1>2. proc[p] \in Process
    BY DEF Uses, Names, SessionTypes
  <1> QED BY <1>1, <1>2 DEF End0, Process

Landed(p, d, s, o) ==
    \/ Output(p) = << >> /\ Same(d, s) /\ Same(d, o)
    \/ /\ Output(p) # << >> /\ net[d][s].err = "none" /\ net[d][o].open
       /\ Same(d, s) /\ Rest(d, o) /\ net'[d][o].in = net[d][o].in \o Output(p)
    \/ /\ Output(p) # << >> /\ net[d][s].err = "none" /\ ~ net[d][o].open
       /\ Same(d, o) /\ Flags(d, s) /\ net'[d][s].err \in {"none", "pipe"}
    \/ /\ Output(p) # << >> /\ net[d][s].err = "reset"
       /\ Same(d, o) /\ Flags(d, s) /\ net'[d][s].err = "pipe"

LEMMA Puts ==
    ASSUME Names, NEW p, NEW d, NEW s, NEW o, Uses(p, d, s, o), NEW op \in {"put", "echo"}, At(p, op), Moves(p)
    PROVE  /\ Local(p) /\ Kept(p) /\ proc'[p].buf = proc[p].buf /\ torn' = torn
           /\ proc'[p].pc = IF op = "echo" THEN Instr(p).to ELSE proc[p].pc + 1
           /\ Landed(p, d, s, o)
  <1>1. p \in Procs /\ Write(p)
    BY MovesBy DEF Uses
  <1>2. /\ Local(p) /\ Kept(p) /\ proc'[p].pc = AfterWrite(p) /\ proc'[p].buf = proc[p].buf /\ WriteNet(p) /\ torn' = torn
    BY <1>1, WriteIs
  <1>3. proc'[p].pc = IF op = "echo" THEN Instr(p).to ELSE proc[p].pc + 1
    BY <1>2 DEF AfterWrite, At
  <1>4. Mine(p) = net[d][s] /\ Theirs(p) = net[d][o]
    BY UsesEnds
  <1>5. \/ Output(p) = << >> /\ net' = net
        \/ /\ Output(p) # << >> /\ net[d][s].err = "none" /\ net[d][o].open
           /\ BytesOnly(d, o) /\ net'[d][o].in = net[d][o].in \o Output(p)
        \/ /\ Output(p) # << >> /\ net[d][s].err = "none" /\ ~ net[d][o].open
           /\ ErrOnly(d, s) /\ net'[d][s].err \in {"none", "pipe"}
        \/ /\ Output(p) # << >> /\ net[d][s].err = "reset"
           /\ ErrOnly(d, s) /\ net'[d][s].err = "pipe"
    BY <1>2, <1>4, Zenon DEF WriteNet, Uses
  <1>6. /\ BytesOnly(d, o) => Same(d, s) /\ Rest(d, o)
        /\ ErrOnly(d, s) => Same(d, o) /\ Flags(d, s)
        /\ net' = net => Same(d, s) /\ Same(d, o)
    BY DEF Uses, BytesOnly, ErrOnly, Others, Same, Rest, Flags
  <1>7. Landed(p, d, s, o)
    BY <1>5, <1>6, Zenon DEF Landed
  <1> QED BY <1>2, <1>3, <1>7

(* A message that is sent takes nothing from what came for its sender. *)
LEMMA Wrote ==
    ASSUME Names, NEW p, NEW d, NEW s, NEW o, Uses(p, d, s, o), At(p, "put"), Moves(p)
    PROVE  proc'[p].pc = proc[p].pc + 1 /\ proc'[p].buf = proc[p].buf /\ net'[d][s].in = net[d][s].in
  <1>1. ASSUME NEW op \in {"put", "echo"}, op = "put"
        PROVE  /\ proc'[p].pc = proc[p].pc + 1 /\ proc'[p].buf = proc[p].buf
               /\ Same(d, s) \/ Flags(d, s)
    <2>1. At(p, op) /\ op # "echo"
      BY <1>1
    <2>2. /\ proc'[p].buf = proc[p].buf /\ Landed(p, d, s, o)
          /\ proc'[p].pc = IF op = "echo" THEN Instr(p).to ELSE proc[p].pc + 1
      BY <2>1, Puts
    <2> QED BY <2>1, <2>2, Zenon DEF Landed
  <1>2. /\ proc'[p].pc = proc[p].pc + 1 /\ proc'[p].buf = proc[p].buf
        /\ Same(d, s) \/ Flags(d, s)
    BY <1>1
  <1> QED BY <1>2 DEF Same, Flags

(* A call that finds k bytes takes them. *)
Gets(d, s, o, k) ==
    /\ k \in 1 .. Len(net[d][s].in) /\ Same(d, o) /\ Rest(d, s)
    /\ net'[d][s].in = SubSeq(net[d][s].in, k + 1, Len(net[d][s].in))
Over0(d, s, o) ==
    /\ net[d][s].in = << >> /\ Same(d, s) /\ Same(d, o)
    /\ net[d][s].err = "pipe" \/ (net[d][s].err = "none" /\ (net[d][o].shut \/ ~ net[d][o].open))
Fails0(d, s, o) ==
    /\ net[d][s].in = << >> /\ net[d][s].err \in {"reset", "unconnected"} /\ Same(d, o) /\ Flags(d, s)
    /\ net'[d][s].err = IF net[d][s].err = "reset" THEN "pipe" ELSE net[d][s].err

LEMMA TookGets ==
    ASSUME Names, NEW p, NEW d, NEW s, NEW o, Uses(p, d, s, o), NEW k, Took(p, k)
    PROVE  Gets(d, s, o, k)
  <1>1. Mine(p) = net[d][s]
    BY UsesEnds
  <1>2. /\ k \in 1 .. Len(net[d][s].in) /\ BytesOnly(d, s)
        /\ net'[d][s].in = SubSeq(net[d][s].in, k + 1, Len(net[d][s].in))
    BY <1>1, Zenon DEF Took, Uses
  <1> QED BY <1>2 DEF Uses, BytesOnly, Others, Gets, Same, Rest

LEMMA EndedOver ==
    ASSUME Names, NEW p, NEW d, NEW s, NEW o, Uses(p, d, s, o), Ended(p), net' = net
    PROVE  Over0(d, s, o)
  <1>1. Mine(p) = net[d][s] /\ Theirs(p) = net[d][o]
    BY UsesEnds
  <1> QED BY <1>1, Zenon DEF Ended, Data, Over0, Same

LEMMA FailedFails ==
    ASSUME Names, NEW p, NEW d, NEW s, NEW o, Uses(p, d, s, o), ReadFails(p), proc'[p].pc # 0
    PROVE  /\ Fails0(d, s, o) /\ Local(p) /\ torn' = torn
           /\ proc'[p].pc \in Instr(p).errs \ {0} /\ proc'[p].ahead = << >> /\ proc'[p].eof = proc[p].eof
           /\ proc'[p].buf = IF At(p, "line") \/ At(p, "fill") THEN proc[p].buf ELSE << >>
  <1>1. Mine(p) = net[d][s] /\ Theirs(p) = net[d][o] /\ p \in Procs
    BY UsesEnds DEF Uses
  <1>2. /\ Failed(p) /\ Local(p)
        /\ proc'[p].pc \in Instr(p).errs /\ proc'[p].ahead = << >> /\ proc'[p].eof = proc[p].eof
        /\ proc'[p].buf = IF At(p, "line") \/ At(p, "fill") THEN proc[p].buf ELSE << >>
        /\ ErrOnly(ConnOf(p), SideOf(p))
        /\ net'[ConnOf(p)][SideOf(p)].err = IF Mine(p).err = "reset" THEN "pipe" ELSE Mine(p).err
    BY <1>1, ReadGoesOn
  <1>3. torn' = torn
    BY <1>1, ReadFailsIs
  <1>4. ErrOnly(d, s) /\ net'[d][s].err = IF net[d][s].err = "reset" THEN "pipe" ELSE net[d][s].err
    BY <1>1, <1>2 DEF Uses
  <1>5. net[d][s].in = << >> /\ net[d][s].err \in {"reset", "unconnected"}
    BY <1>1, <1>2 DEF Failed, Data
  <1>6. Same(d, o) /\ Flags(d, s)
    BY <1>4 DEF Uses, ErrOnly, Others, Same, Flags
  <1> QED BY <1>2, <1>3, <1>4, <1>5, <1>6 DEF Fails0

LEMMA Fills ==
    ASSUME Names, NEW p, NEW d, NEW s, NEW o, Uses(p, d, s, o), At(p, "fill"), Moves(p)
    PROVE  /\ Local(p) /\ Marks(p) /\ (Instr(p).n = All => torn' = torn)
           /\ \/ \E k : /\ Gets(d, s, o, k) /\ Kept(p) /\ proc'[p].buf = proc[p].buf \o SubSeq(net[d][s].in, 1, k)
                        /\ proc'[p].pc = IF Len(proc[p].buf) + k >= Instr(p).n THEN proc[p].pc + 1 ELSE proc[p].pc
              \/ /\ Over0(d, s, o) /\ Kept(p) /\ proc'[p].buf = proc[p].buf /\ proc'[p].pc = Instr(p).to /\ Instr(p).to # 0
              \/ /\ Fails0(d, s, o) /\ proc'[p].buf = proc[p].buf /\ proc'[p].pc \in Instr(p).errs \ {0}
                 /\ proc'[p].ahead = << >> /\ proc'[p].eof = proc[p].eof
  <1>1. p \in Procs /\ Mine(p) = net[d][s]
    BY UsesEnds DEF Uses
  <1>2. CASE FillSome(p)
    <2>1. PICK k : Took(p, k) /\ proc'[p].buf = proc[p].buf \o SubSeq(Mine(p).in, 1, k)
                   /\ proc'[p].pc = IF Len(proc[p].buf) + k >= Instr(p).n THEN proc[p].pc + 1 ELSE proc[p].pc
      BY <1>1, <1>2, FillSomeIs
    <2>2. Gets(d, s, o, k)
      BY <2>1, TookGets
    <2>3. Local(p) /\ Marks(p) /\ (Instr(p).n = All => torn' = torn) /\ Kept(p)
      BY <1>1, <1>2, FillSomeIs
    <2> QED BY <1>1, <2>1, <2>2, <2>3, Zenon
  <1>3. CASE FillEnd(p)
    <2>1. /\ Local(p) /\ Kept(p) /\ Ended(p) /\ proc'[p].pc = Instr(p).to /\ Instr(p).to # 0 /\ proc'[p].buf = proc[p].buf
          /\ net' = net /\ torn' = torn /\ Marks(p)
      BY <1>1, <1>3, FillEndIs DEF Marks
    <2> QED BY <2>1, EndedOver
  <1>4. CASE ReadFails(p) /\ proc'[p].pc # 0
    <2>1. Marks(p) /\ torn' = torn
      BY <1>1, <1>4, ReadFailsIs DEF Marks
    <2> QED BY <1>4, <2>1, FailedFails
  <1> QED BY <1>2, <1>3, <1>4, MovesBy

LEMMA Reads ==
    ASSUME Names, NEW p, NEW d, NEW s, NEW o, Uses(p, d, s, o), At(p, "read"), Moves(p)
    PROVE  /\ Local(p) /\ torn' = torn
           /\ \/ \E k : /\ Gets(d, s, o, k) /\ Kept(p) /\ proc'[p].buf = SubSeq(net[d][s].in, 1, k) /\ k <= Instr(p).n
                        /\ proc'[p].pc = proc[p].pc + 1
              \/ /\ Over0(d, s, o) /\ Kept(p) /\ proc'[p].buf = << >> /\ proc'[p].pc = Instr(p).to
              \/ /\ Fails0(d, s, o) /\ proc'[p].buf = << >> /\ proc'[p].pc \in Instr(p).errs \ {0}
                 /\ proc'[p].ahead = << >> /\ proc'[p].eof = proc[p].eof
  <1>1. p \in Procs /\ Mine(p) = net[d][s]
    BY UsesEnds DEF Uses
  <1>2. CASE ReadSome(p)
    <2>1. PICK k : Took(p, k) /\ proc'[p].buf = SubSeq(Mine(p).in, 1, k) /\ k <= Instr(p).n
      BY <1>1, <1>2, ReadSomeIs
    <2>2. Gets(d, s, o, k)
      BY <2>1, TookGets
    <2>3. Local(p) /\ torn' = torn /\ Kept(p) /\ proc'[p].pc = proc[p].pc + 1
      BY <1>1, <1>2, ReadSomeIs
    <2> QED BY <1>1, <2>1, <2>2, <2>3, Zenon
  <1>3. CASE ReadEnd(p)
    <2>1. /\ Local(p) /\ Kept(p) /\ Ended(p) /\ proc'[p].pc = Instr(p).to /\ proc'[p].buf = << >>
          /\ net' = net /\ torn' = torn
      BY <1>1, <1>3, ReadEndIs
    <2> QED BY <2>1, EndedOver
  <1>4. CASE ReadFails(p) /\ proc'[p].pc # 0
    <2>1. ~ At(p, "line") /\ ~ At(p, "fill")
      BY DEF At
    <2> QED BY <1>4, <2>1, FailedFails
  <1> QED BY <1>2, <1>3, <1>4, MovesBy

(* fgets() takes a line, reads on, comes to the end, or fails. *)
LineTaken(p, d, s, o) ==
    /\ Same(d, s) /\ Same(d, o) /\ proc'[p].pc = proc[p].pc + 1 /\ proc'[p].eof = proc[p].eof
    /\ \E i \in 1 .. Len(proc[p].ahead) :
          /\ IsLast(proc[p].ahead[i]) /\ \A j \in 1 .. i - 1 : ~ IsLast(proc[p].ahead[j])
          /\ proc'[p].buf = SubSeq(proc[p].ahead, 1, i)
          /\ proc'[p].ahead = SubSeq(proc[p].ahead, i + 1, Len(proc[p].ahead))
LineMore(p, d, s, o) ==
    /\ proc'[p].pc = proc[p].pc /\ proc'[p].eof = proc[p].eof /\ proc'[p].buf = proc[p].buf
    /\ \A i \in 1 .. Len(proc[p].ahead) : ~ IsLast(proc[p].ahead[i])
    /\ \E k : Gets(d, s, o, k) /\ proc'[p].ahead = proc[p].ahead \o SubSeq(net[d][s].in, 1, k)
LineOver(p, d, s, o) ==
    /\ Over0(d, s, o) /\ proc'[p].eof /\ proc'[p].ahead = << >>
    /\ proc'[p].pc = IF proc[p].ahead = << >> THEN Instr(p).to ELSE proc[p].pc + 1
    /\ proc'[p].buf = IF proc[p].ahead = << >> THEN proc[p].buf ELSE proc[p].ahead
LineFailed(p, d, s, o) ==
    /\ Fails0(d, s, o) /\ proc'[p].buf = proc[p].buf /\ proc'[p].pc \in Instr(p).errs \ {0}
    /\ proc'[p].ahead = << >> /\ proc'[p].eof = proc[p].eof

LEMMA Lines ==
    ASSUME Names, NEW p, NEW d, NEW s, NEW o, Uses(p, d, s, o), At(p, "line"), Moves(p)
    PROVE  /\ Local(p)
           /\ LineTaken(p, d, s, o) \/ LineMore(p, d, s, o) \/ LineOver(p, d, s, o) \/ LineFailed(p, d, s, o)
  <1>1. p \in Procs /\ Mine(p) = net[d][s]
    BY UsesEnds DEF Uses
  <1>2. CASE LineTake(p)
    <2>1. /\ Local(p) /\ net' = net /\ proc'[p].pc = proc[p].pc + 1 /\ proc'[p].eof = proc[p].eof
          /\ \E i \in 1 .. Len(proc[p].ahead) :
                    /\ IsLast(proc[p].ahead[i]) /\ \A j \in 1 .. i - 1 : ~ IsLast(proc[p].ahead[j])
                    /\ proc'[p].buf = SubSeq(proc[p].ahead, 1, i)
                    /\ proc'[p].ahead = SubSeq(proc[p].ahead, i + 1, Len(proc[p].ahead))
      BY <1>1, <1>2, LineTakeIs, Zenon
    <2>2. Same(d, s) /\ Same(d, o)
      BY <2>1 DEF Same
    <2> QED BY <2>1, <2>2, Zenon DEF LineTaken
  <1>3. CASE LineFetch(p)
    <2>1. /\ Local(p)
          /\ proc'[p].pc = proc[p].pc /\ proc'[p].eof = proc[p].eof /\ proc'[p].buf = proc[p].buf
          /\ \A i \in 1 .. Len(proc[p].ahead) : ~ IsLast(proc[p].ahead[i])
      BY <1>1, <1>3, LineFetchIs, Zenon
    <2>2. PICK k : Took(p, k) /\ proc'[p].ahead = proc[p].ahead \o SubSeq(Mine(p).in, 1, k)
      BY <1>1, <1>3, LineFetchIs, Zenon
    <2>3. Gets(d, s, o, k) /\ proc'[p].ahead = proc[p].ahead \o SubSeq(net[d][s].in, 1, k)
      BY <1>1, <2>2, TookGets
    <2> QED BY <2>1, <2>3, Zenon DEF LineMore
  <1>4. CASE LineEnd(p)
    <2>1. /\ Local(p) /\ Ended(p) /\ net' = net /\ proc'[p].eof /\ proc'[p].ahead = << >>
          /\ proc'[p].pc = IF proc[p].ahead = << >> THEN Instr(p).to ELSE proc[p].pc + 1
          /\ proc'[p].buf = IF proc[p].ahead = << >> THEN proc[p].buf ELSE proc[p].ahead
      BY <1>1, <1>4, LineEndIs
    <2>2. Over0(d, s, o)
      BY <2>1, EndedOver
    <2> QED BY <2>1, <2>2, Zenon DEF LineOver
  <1>5. CASE ReadFails(p) /\ proc'[p].pc # 0
    <2>1. /\ Fails0(d, s, o) /\ Local(p)
          /\ proc'[p].pc \in Instr(p).errs \ {0} /\ proc'[p].ahead = << >> /\ proc'[p].eof = proc[p].eof
          /\ proc'[p].buf = proc[p].buf
      BY <1>5, FailedFails
    <2> QED BY <2>1, Zenon DEF LineFailed
  <1> QED BY <1>2, <1>3, <1>4, <1>5, MovesBy

LEMMA Quiet ==
    ASSUME Names, NEW p, NEW d, NEW s, NEW o, Uses(p, d, s, o),
           NEW op \in {"show", "goto", "feof", "choose", "again", "type"}, At(p, op), Moves(p)
    PROVE  /\ Local(p) /\ Kept(p) /\ Same(d, s) /\ Same(d, o)
           /\ proc'[p].buf = IF op = "type" THEN << >> ELSE proc[p].buf
           /\ op = "show" => proc'[p].pc = proc[p].pc + 1
           /\ op = "goto" => proc'[p].pc = Instr(p).to
           /\ op = "feof" => proc'[p].pc = IF proc[p].eof THEN Instr(p).to ELSE proc[p].pc + 1
           /\ op \in {"choose", "again"} => proc'[p].pc \in {Instr(p).to, proc[p].pc + 1}
           /\ op = "type" => proc'[p].pc = proc[p].pc + 1 \/ (proc'[p].pc = Instr(p).to /\ Instr(p).to # 0)
           /\ IF op = "show" /\ ~ Right(p) THEN torn' = torn \cup {p} ELSE torn' = torn
  <1>1. p \in Procs
    BY DEF Uses
  <1>2. net' = net => Same(d, s) /\ Same(d, o)
    BY DEF Same
  <1>3. CASE op = "show"
    BY <1>1, <1>2, <1>3, MovesBy, DoShowIs
  <1>4. CASE op = "type"
    BY <1>1, <1>2, <1>4, MovesBy, TypeLineIs
  <1>5. CASE op \in {"goto", "feof", "choose", "again"}
    <2>1. /\ Local(p) /\ Kept(p) /\ net' = net /\ proc'[p].buf = proc[p].buf /\ torn' = torn
          /\ \/ At(p, "goto") /\ proc'[p].pc = Instr(p).to
             \/ At(p, "feof") /\ proc'[p].pc = IF proc[p].eof THEN Instr(p).to ELSE proc[p].pc + 1
             \/ At(p, "choose") /\ proc'[p].pc \in {Instr(p).to, proc[p].pc + 1}
             \/ At(p, "again") /\ proc'[p].pc \in {Instr(p).to, proc[p].pc + 1}
      BY <1>1, <1>5, MovesBy, JumpIs
    <2>2. \A x : At(p, x) => x = op
      BY DEF At
    <2> QED BY <1>2, <1>5, <2>1, <2>2
  <1> QED BY <1>3, <1>4, <1>5

LEMMA Shutting ==
    ASSUME Names, NEW p, NEW d, NEW s, NEW o, Uses(p, d, s, o), At(p, "shut"), Moves(p)
    PROVE  /\ Local(p) /\ Kept(p) /\ proc'[p].pc = proc[p].pc + 1 /\ proc'[p].buf = proc[p].buf /\ torn' = torn
           /\ Same(d, o) /\ net'[d][s].shut /\ net'[d][s].in = net[d][s].in
           /\ net'[d][s].open = net[d][s].open /\ net'[d][s].err = net[d][s].err
  <1>1. p \in Procs /\ Mine(p) = net[d][s]
    BY UsesEnds DEF Uses
  <1>2. /\ Local(p) /\ Kept(p) /\ proc'[p].pc = proc[p].pc + 1 /\ proc'[p].buf = proc[p].buf /\ torn' = torn
        /\ Others(ConnOf(p), SideOf(p)) /\ net'[ConnOf(p)][SideOf(p)].shut = TRUE
        /\ net'[ConnOf(p)][SideOf(p)].in = Mine(p).in /\ net'[ConnOf(p)][SideOf(p)].open = Mine(p).open
        /\ net'[ConnOf(p)][SideOf(p)].err = Mine(p).err
    BY <1>1, MovesBy, DoShutIs
  <1> QED BY <1>1, <1>2 DEF Uses, Others, Same

(* The end s closes. *)
Closes(d, s, o) ==
    /\ ~ net'[d][s].open /\ net'[d][s].in = << >> /\ net'[d][s].shut = net[d][s].shut /\ net'[d][s].err = net[d][s].err
    /\ net'[d][o].open = net[d][o].open /\ net'[d][o].shut = net[d][o].shut
    /\ \/ Same(d, o)
       \/ /\ net[d][s].in # << >> /\ net[d][s].err = "none" /\ net[d][o].open /\ net'[d][o].err \in {"reset", "pipe"}
          /\ \E k \in 0 .. Len(net[d][o].in) : net'[d][o].in = SubSeq(net[d][o].in, 1, k)

LEMMA ClosesIs ==
    ASSUME NEW d \in Clients, NEW s \in Sides, NEW o, o = Other(s), ClosedAt(net, net', d, s)
    PROVE  Closes(d, s, o)
  BY Zenon DEF Closes, ClosedAt, Same

(* The server closes the connection of d, at its end or before. *)
LEMMA ServerLeaves ==
    ASSUME Names, NEW d \in Clients, Connections(d), serving = d, Perishes(S) \/ DoClose(S)
    PROVE  /\ serving' = NULL /\ conn' = conn /\ torn' = torn /\ ~ Here(d)' /\ Closes(d, "server", "client")
           /\ proc'[S].buf = proc[S].buf /\ (\A q \in Procs : q # S => proc'[q] = proc[q])
           /\ proc'[S].pc = IF DoClose(S) THEN proc[S].pc + 1 ELSE 0
           /\ fds' = fds
  <1>1. S \in Procs /\ d # NULL /\ conn[d] = "served" /\ "server" \in Sides /\ Other("server") = "client"
    BY Apart DEF Connections, Sides, Other
  <1>2. CASE DoClose(S)
    <2>1. /\ proc'[S].pc = proc[S].pc + 1 /\ proc'[S].buf = proc[S].buf /\ (\A q \in Procs : q # S => proc'[q] = proc[q])
          /\ serving' = NULL /\ Closed(net, net', serving, "server") /\ conn' = conn /\ torn' = torn /\ fds' = fds
      BY <1>1, <1>2, DoCloseIs
    <2>2. Closes(d, "server", "client")
      BY <1>1, <2>1, ClosesIs DEF Closed
    <2> QED BY <1>1, <1>2, <2>1, <2>2 DEF Here
  <1>3. CASE ~ DoClose(S)
    <2>1. PICK Q : Fate(S, Q) /\ conn' = conn /\ torn' = torn
      BY <1>1, <1>3, PerishesIs
    <2>2. Q = {S} /\ End({S}) /\ SessionTypes
      BY <2>1 DEF Fate, Names
    <2>3. /\ Ended0({S}) /\ serving' = NULL /\ fds' = fds /\ ClosedAt(net, net', d, "server")
      BY <1>1, <2>2, ServerEnds
    <2>4. Closes(d, "server", "client")
      BY <1>1, <2>3, ClosesIs
    <2> QED BY <1>1, <1>3, <2>1, <2>3, <2>4 DEF Here, Ended0
  <1> QED BY <1>2, <1>3

(* A process of d ends. *)
LEMMA ClientLeaves ==
    ASSUME Names, NEW d \in Clients, NEW p \in {P1(d), P2(d)}, Perishes(p)
    PROVE  /\ UNCHANGED <<pair, conn, torn, serving>> /\ proc'[S] = proc[S] /\ (Here(d)' <=> Here(d))
           /\ proc'[p].pc = 0 /\ fds'[d] \subseteq fds[d]
           /\ \/ Same(d, "server") /\ Same(d, "client")
              \/ Closes(d, "client", "server")
  <1>1. p \in Procs /\ S \in Procs /\ p # S /\ p[1] = d /\ "client" \in Sides /\ Other("client") = "server"
    BY Apart DEF Sides, Other
  <1>2. PICK Q : Fate(p, Q) /\ UNCHANGED <<pair, conn, torn>>
    BY <1>1, PerishesIs
  <1>3. /\ Ended0(Q) /\ S \notin Q /\ serving' = serving /\ p \in Q /\ fds'[d] = {k \in fds[d] : <<d, k>> \notin Q}
        /\ net' = net \/ Closed(net, net', d, "client")
    BY <1>1, <1>2, FateIs DEF Fate
  <1>4. CASE net' = net
    BY <1>1, <1>2, <1>3, <1>4 DEF Same, Ended0, Here
  <1>5. CASE Closed(net, net', d, "client")
    <2>1. Closes(d, "client", "server")
      BY <1>1, <1>5, ClosesIs DEF Closed
    <2> QED BY <1>1, <1>2, <1>3, <2>1 DEF Ended0, Here
  <1> QED BY <1>3, <1>4, <1>5

-----------------------------------------------------------------------------
(* Where a program stands, and what it does there. *)
LEMMA Place ==
    ASSUME Names, NEW p \in Procs
    PROVE  /\ proc[p].pc \in 0 .. Len(Script(p)) /\ Len(Script(p)) \in Nat
           /\ proc[p].pc # 0 => Instr(p) = Script(p)[proc[p].pc]
           /\ \A op : At(p, op) <=> proc[p].pc # 0 /\ Script(p)[proc[p].pc].op = op
  BY Scripts DEF Names, Positions, Program, At, Instr

(* "to", "errs" and the number of a read are those of the instruction. *)
Stands(p, i, op, n, to, errs) ==
    proc[p].pc = i => At(p, op) /\ Instr(p).op = op /\ Instr(p).n = n /\ Instr(p).to = to /\ Instr(p).errs = errs

LEMMA TcpClientAt ==
    ASSUME Names, NEW p \in Procs, Script(p) = tcp_client
    PROVE  /\ proc[p].pc \in 0 .. 4
           /\ Stands(p, 1, "connect", 0, 0, {0}) /\ Stands(p, 2, "fill", 9, 3, {0}) /\ Stands(p, 3, "show", 0, 0, {})
           /\ Stands(p, 4, "exit", 0, 0, {})
  BY TcpClientText, Place DEF Stands, I

LEMMA TcpClientKehou6At ==
    ASSUME Names, NEW p \in Procs, Script(p) = tcp_client_kehou6
    PROVE  /\ proc[p].pc \in 0 .. 5
           /\ Stands(p, 1, "connect", 0, 0, {2}) /\ Stands(p, 2, "put", 2, 0, {}) /\ Stands(p, 3, "fill", 9, 4, {0, 3})
           /\ Stands(p, 4, "show", 0, 0, {}) /\ Stands(p, 5, "exit", 0, 0, {})
  BY TcpClientKehou6Text, Place DEF Stands, I

LEMMA FileClientAt ==
    ASSUME Names, NEW p \in Procs, Script(p) = file_client
    PROVE  /\ proc[p].pc \in 0 .. 5
           /\ Stands(p, 1, "connect", 0, 0, {2}) /\ Stands(p, 2, "fill", 9, 3, {0, 2}) /\ Stands(p, 3, "show", 0, 0, {})
           /\ Stands(p, 4, "put", 2, 0, {}) /\ Stands(p, 5, "exit", 0, 0, {})
  BY FileClientText, Place DEF Stands, I

LEMMA SepClntAt ==
    ASSUME Names, NEW p \in Procs, Script(p) = sep_clnt
    PROVE  /\ proc[p].pc \in 0 .. 5
           /\ Stands(p, 1, "connect", 0, 0, {2}) /\ Stands(p, 2, "line", 0, 4, {4}) /\ Stands(p, 3, "goto", 0, 2, {})
           /\ Stands(p, 4, "put", 2, 0, {}) /\ Stands(p, 5, "exit", 0, 0, {})
  BY SepClntText, Place DEF Stands, I

LEMMA OpClientAt ==
    ASSUME Names, NEW p \in Procs, Script(p) = op_client
    PROVE  /\ proc[p].pc \in 0 .. 5
           /\ Stands(p, 1, "connect", 0, 0, {0}) /\ Stands(p, 2, "put", 3, 0, {}) /\ Stands(p, 3, "read", 9, 4, {4})
           /\ Stands(p, 4, "show", 0, 0, {}) /\ Stands(p, 5, "exit", 0, 0, {})
  BY OpClientText, Place DEF Stands, I

LEMMA EchoClient2At ==
    ASSUME Names, NEW p \in Procs, Script(p) = echo_client2
    PROVE  /\ proc[p].pc \in 0 .. 6
           /\ Stands(p, 1, "connect", 0, 0, {0}) /\ Stands(p, 2, "type", 0, 6, {}) /\ Stands(p, 3, "put", 2, 0, {})
           /\ Stands(p, 4, "fill", 2, 0, {0}) /\ Stands(p, 5, "goto", 0, 2, {}) /\ Stands(p, 6, "exit", 0, 0, {})
  <1>1. /\ proc[p].pc \in 0 .. 6 /\ Stands(p, 1, "connect", 0, 0, {0})
       /\ Stands(p, 2, "type", 0, 6, {}) /\ Stands(p, 3, "put", 2, 0, {})
    BY EchoClient2Text, Place DEF Stands, I
  <1>2. Stands(p, 4, "fill", 2, 0, {0}) /\ Stands(p, 5, "goto", 0, 2, {}) /\ Stands(p, 6, "exit", 0, 0, {})
    BY EchoClient2Text, Place DEF Stands, I
  <1> QED BY <1>1, <1>2

LEMMA StdioClientAt ==
    ASSUME Names, NEW p \in Procs, Script(p) = stdio_client
    PROVE  /\ proc[p].pc \in 0 .. 6
           /\ Stands(p, 1, "connect", 0, 0, {0}) /\ Stands(p, 2, "type", 0, 6, {}) /\ Stands(p, 3, "put", 2, 0, {})
           /\ Stands(p, 4, "line", 0, 5, {5}) /\ Stands(p, 5, "goto", 0, 2, {}) /\ Stands(p, 6, "exit", 0, 0, {})
  <1>1. /\ proc[p].pc \in 0 .. 6 /\ Stands(p, 1, "connect", 0, 0, {0})
       /\ Stands(p, 2, "type", 0, 6, {}) /\ Stands(p, 3, "put", 2, 0, {})
    BY StdioClientText, Place DEF Stands, I
  <1>2. Stands(p, 4, "line", 0, 5, {5}) /\ Stands(p, 5, "goto", 0, 2, {}) /\ Stands(p, 6, "exit", 0, 0, {})
    BY StdioClientText, Place DEF Stands, I
  <1> QED BY <1>1, <1>2

LEMMA HelloServerAt ==
    ASSUME Names, NEW p \in Procs, Script(p) = hello_server
    PROVE  /\ proc[p].pc \in 0 .. 3
           /\ Stands(p, 1, "accept", 0, 0, {}) /\ Stands(p, 2, "put", 2, 0, {}) /\ Stands(p, 3, "exit", 0, 0, {})
  BY HelloServerText, Place DEF Stands, I

LEMMA TcpServerKehou6At ==
    ASSUME Names, NEW p \in Procs, Script(p) = tcp_server_kehou6
    PROVE  /\ proc[p].pc \in 0 .. 7
           /\ Stands(p, 1, "accept", 0, 0, {}) /\ Stands(p, 2, "read", 9, 3, {3}) /\ Stands(p, 3, "show", 0, 0, {})
           /\ Stands(p, 4, "choose", 0, 7, {}) /\ Stands(p, 5, "put", 2, 0, {}) /\ Stands(p, 6, "put", 2, 0, {})
           /\ Stands(p, 7, "exit", 0, 0, {})
  <1>1. /\ proc[p].pc \in 0 .. 7 /\ Stands(p, 1, "accept", 0, 0, {})
       /\ Stands(p, 2, "read", 9, 3, {3}) /\ Stands(p, 3, "show", 0, 0, {}) /\ Stands(p, 4, "choose", 0, 7, {})
    BY TcpServerKehou6Text, Place DEF Stands, I
  <1>2. Stands(p, 5, "put", 2, 0, {}) /\ Stands(p, 6, "put", 2, 0, {}) /\ Stands(p, 7, "exit", 0, 0, {})
    BY TcpServerKehou6Text, Place DEF Stands, I
  <1> QED BY <1>1, <1>2

LEMMA FileServerAt ==
    ASSUME Names, NEW p \in Procs, Script(p) = file_server
    PROVE  /\ proc[p].pc \in 0 .. 7
           /\ Stands(p, 1, "accept", 0, 0, {}) /\ Stands(p, 2, "put", 2, 0, {}) /\ Stands(p, 3, "put", 2, 0, {})
           /\ Stands(p, 4, "shut", 0, 0, {}) /\ Stands(p, 5, "read", 9, 6, {6}) /\ Stands(p, 6, "show", 0, 0, {})
           /\ Stands(p, 7, "exit", 0, 0, {})
  <1>1. /\ proc[p].pc \in 0 .. 7 /\ Stands(p, 1, "accept", 0, 0, {})
       /\ Stands(p, 2, "put", 2, 0, {}) /\ Stands(p, 3, "put", 2, 0, {}) /\ Stands(p, 4, "shut", 0, 0, {})
    BY FileServerText, Place DEF Stands, I
  <1>2. Stands(p, 5, "read", 9, 6, {6}) /\ Stands(p, 6, "show", 0, 0, {}) /\ Stands(p, 7, "exit", 0, 0, {})
    BY FileServerText, Place DEF Stands, I
  <1> QED BY <1>1, <1>2

LEMMA SepServ2At ==
    ASSUME Names, NEW p \in Procs, Script(p) = sep_serv2
    PROVE  /\ proc[p].pc \in 0 .. 5
           /\ Stands(p, 1, "accept", 0, 0, {}) /\ Stands(p, 2, "put", 2, 0, {}) /\ Stands(p, 3, "shut", 0, 0, {})
           /\ Stands(p, 4, "line", 0, 5, {5}) /\ Stands(p, 5, "exit", 0, 0, {})
  BY SepServ2Text, Place DEF Stands, I

LEMMA OpServerAt ==
    ASSUME Names, NEW p \in Procs, Script(p) = op_server
    PROVE  /\ proc[p].pc \in 0 .. 8
           /\ Stands(p, 1, "accept", 0, 0, {}) /\ Stands(p, 2, "read", 1, 3, {3}) /\ Stands(p, 3, "fill", 3, 0, {3})
           /\ Stands(p, 4, "show", 0, 0, {}) /\ Stands(p, 5, "put", 2, 0, {}) /\ Stands(p, 6, "close", 0, 0, {})
           /\ Stands(p, 7, "again", 0, 1, {}) /\ Stands(p, 8, "exit", 0, 0, {})
  <1>1. /\ proc[p].pc \in 0 .. 8 /\ Stands(p, 1, "accept", 0, 0, {})
       /\ Stands(p, 2, "read", 1, 3, {3}) /\ Stands(p, 3, "fill", 3, 0, {3}) /\ Stands(p, 4, "show", 0, 0, {})
    BY OpServerText, Place DEF Stands, I
  <1>2. Stands(p, 5, "put", 2, 0, {}) /\ Stands(p, 6, "close", 0, 0, {})
    BY OpServerText, Place DEF Stands, I
  <1>3. Stands(p, 7, "again", 0, 1, {}) /\ Stands(p, 8, "exit", 0, 0, {})
    BY OpServerText, Place DEF Stands, I
  <1> QED BY <1>1, <1>2, <1>3

LEMMA EchoServerAt ==
    ASSUME Names, NEW p \in Procs, Script(p) = echo_server
    PROVE  /\ proc[p].pc \in 0 .. 6
           /\ Stands(p, 1, "accept", 0, 0, {}) /\ Stands(p, 2, "read", 9, 4, {2}) /\ Stands(p, 3, "echo", 0, 2, {})
           /\ Stands(p, 4, "close", 0, 0, {}) /\ Stands(p, 5, "again", 0, 1, {}) /\ Stands(p, 6, "exit", 0, 0, {})
  <1>1. /\ proc[p].pc \in 0 .. 6 /\ Stands(p, 1, "accept", 0, 0, {})
       /\ Stands(p, 2, "read", 9, 4, {2}) /\ Stands(p, 3, "echo", 0, 2, {})
    BY EchoServerText, Place DEF Stands, I
  <1>2. Stands(p, 4, "close", 0, 0, {}) /\ Stands(p, 5, "again", 0, 1, {}) /\ Stands(p, 6, "exit", 0, 0, {})
    BY EchoServerText, Place DEF Stands, I
  <1> QED BY <1>1, <1>2

LEMMA EchoStdservAt ==
    ASSUME Names, NEW p \in Procs, Script(p) = echo_stdserv
    PROVE  /\ proc[p].pc \in 0 .. 7
           /\ Stands(p, 1, "accept", 0, 0, {}) /\ Stands(p, 2, "feof", 0, 5, {}) /\ Stands(p, 3, "line", 0, 4, {4})
           /\ Stands(p, 4, "echo", 0, 2, {}) /\ Stands(p, 5, "close", 0, 0, {}) /\ Stands(p, 6, "again", 0, 1, {})
           /\ Stands(p, 7, "exit", 0, 0, {})
  <1>1. /\ proc[p].pc \in 0 .. 7 /\ Stands(p, 1, "accept", 0, 0, {})
       /\ Stands(p, 2, "feof", 0, 5, {}) /\ Stands(p, 3, "line", 0, 4, {4}) /\ Stands(p, 4, "echo", 0, 2, {})
    BY EchoStdservText, Place DEF Stands, I
  <1>2. Stands(p, 5, "close", 0, 0, {}) /\ Stands(p, 6, "again", 0, 1, {}) /\ Stands(p, 7, "exit", 0, 0, {})
    BY EchoStdservText, Place DEF Stands, I
  <1> QED BY <1>1, <1>2

-----------------------------------------------------------------------------
(* Messages. *)
LEMMA Two ==
    /\ Msg(2) \in Seq(Byte) /\ Len(Msg(2)) = 2 /\ Msg(2) # << >> /\ Twice \in Seq(Byte) /\ Len(Twice) = 4 /\ Twice # << >>
    /\ << >> \in Seq(Byte) /\ << >> \o Msg(2) = Msg(2) /\ Msg(2) \o Msg(2) = Twice /\ Msg(2) \o << >> = Msg(2)
    /\ << >> \o << >> = << >>
    /\ \A x \in Whole : x \in Seq(Byte) /\ Len(x) <= 4
  <1>1. PICK w \in Seq(Byte) : w = Msg(2) /\ Len(w) = 2
    BY MsgBytes
  <1>2. << >> \in Seq(Byte)
    OBVIOUS
  <1>3. << >> \o w = w /\ w \o << >> = w /\ << >> \o << >> = << >> /\ Len(<< >>) = 0
    <2>1. Len(<< >>) = 0
      OBVIOUS
    <2>2. << >> \o w = w /\ w \o << >> = w
      BY <1>1
    <2>3. << >> \o << >> = << >>
      BY <1>2
    <2> QED BY <2>1, <2>2, <2>3
  <1>4. w \o w \in Seq(Byte) /\ Len(w \o w) = 4
    <2>1. w \o w \in Seq(Byte) /\ Len(w \o w) = Len(w) + Len(w)
      BY <1>1
    <2>2. Len(w) = 2
      BY <1>1, Zenon
    <2> QED BY <2>1, <2>2
  <1>5. w # << >> /\ w \o w # << >>
    BY <1>1, <1>3, <1>4
  <1>6. Twice = w \o w
    BY <1>1, Zenon DEF Twice
  <1>7. ASSUME NEW x \in Whole PROVE x \in Seq(Byte) /\ Len(x) <= 4
    <2>1. x = << >> \/ x = w \/ x = w \o w
      BY <1>1, <1>6, Zenon DEF Whole
    <2>2. 0 <= 4 /\ 2 <= 4 /\ 4 <= 4
      OBVIOUS
    <2> QED BY <1>1, <1>2, <1>3, <1>4, <2>1, <2>2, Zenon
  <1> QED BY <1>1, <1>2, <1>3, <1>4, <1>5, <1>6, <1>7, Zenon

LEMMA WholeIsRight ==
    ASSUME NEW x \in Whole
    PROVE  x = << >> \/ IsMsg(x) \/ IsMsgs(x)
  <1>1. IsMsg(Msg(2))
    BY DEF IsMsg
  <1>2. CASE x = Twice
    <2>1. PICK w \in Seq(Byte) : w = Msg(2) /\ Len(w) = 2 /\ w[1] = <<1, 2>> /\ w[2] = <<2, 2>>
      <3>1. 2 \in Nat /\ 1 \in 1 .. 2 /\ 2 \in 1 .. 2
        OBVIOUS
      <3> QED BY <3>1, MsgBytes, Zenon
    <2>2. x \in Seq(Byte) /\ Len(x) = 4 /\ x = w \o w
      BY <1>2, <2>1, Two
    <2>3. x[1] = <<1, 2>> /\ x[2] = <<2, 2>> /\ x[3] = <<1, 2>> /\ x[4] = <<2, 2>>
      BY <2>1, <2>2
    <2>4. IsLast(x[4]) /\ ~ IsLast(x[1]) /\ IsLast(x[2]) /\ ~ IsLast(x[3])
      BY <2>3 DEF IsLast
    <2>5. ASSUME NEW i \in 1 .. Len(x) - 1
          PROVE  IF IsLast(x[i]) THEN x[i + 1][1] = 1 ELSE x[i + 1] = <<x[i][1] + 1, x[i][2]>>
      <3>1. i = 1 \/ i = 2 \/ i = 3
        BY <2>2
      <3>2. x[1][1] = 1 /\ x[1][2] = 2 /\ x[3][1] = 1 /\ x[3][2] = 2
        BY <2>3
      <3>a. <<x[1][1] + 1, x[1][2]>> = <<2, 2>> /\ <<x[3][1] + 1, x[3][2]>> = <<2, 2>>
        BY <3>2
      <3>3. CASE i = 1
        <4>1. i + 1 = 2
          BY <3>3
        <4> QED BY <2>3, <2>4, <3>a, <3>3, <4>1, Zenon
      <3>4. CASE i = 2
        BY <2>4, <3>2, <3>4
      <3>5. CASE i = 3
        <4>1. i + 1 = 4
          BY <3>5
        <4> QED BY <2>3, <2>4, <3>a, <3>5, <4>1, Zenon
      <3> QED BY <3>1, <3>3, <3>4, <3>5
    <2>6. x[1][1] = 1 /\ IsLast(x[Len(x)])
      BY <2>2, <2>3, <2>4
    <2>7. IsMsgs(x)
      BY <2>5, <2>6 DEF IsMsgs
    <2> QED BY <2>7
  <1> QED BY <1>1, <1>2 DEF Whole

LEMMA Joined ==
    ASSUME NEW E, NEW b \in Seq(E), NEW s \in Seq(E), NEW k \in 1 .. Len(s)
    PROVE  (b \o SubSeq(s, 1, k)) \o SubSeq(s, k + 1, Len(s)) = b \o s
  <1>1. PICK x, y : x = SubSeq(s, 1, k) /\ y = SubSeq(s, k + 1, Len(s))
    OBVIOUS
  <1>3. x \in Seq(E) /\ y \in Seq(E) /\ s = x \o y
    BY <1>1, Parted
  <1>2. (b \o x) \o y = b \o (x \o y)
    BY <1>3
  <1> QED BY <1>1, <1>3, <1>2, Zenon

LEMMA Longer ==
    ASSUME NEW E, NEW b \in Seq(E), NEW s \in Seq(E), NEW x \in Seq(E)
    PROVE  b \o (s \o x) = (b \o s) \o x
  OBVIOUS

LEMMA NothingCut ==
    ASSUME NEW s, s = << >>, NEW k \in 0 .. Len(s)
    PROVE  SubSeq(s, 1, k) = << >>
  OBVIOUS

(* Bytes go from the stream to the buffer. *)
LEMMA TextStays ==
    ASSUME Names, NEW d \in Clients, NEW k, Gets(d, "client", "server", k),
           proc'[P1(d)].buf = proc[P1(d)].buf \o SubSeq(net[d].client.in, 1, k)
    PROVE  Text(d)' = Text(d)
  <1>1. PICK b \in Seq(Byte), s \in Seq(Byte) : b = proc[P1(d)].buf /\ s = net[d].client.in
    BY ClientUses, UsesEnds
  <1>2. k \in 1 .. Len(s) /\ net'[d].client.in = SubSeq(s, k + 1, Len(s)) /\ proc'[P1(d)].buf = b \o SubSeq(s, 1, k)
    BY <1>1 DEF Gets
  <1>3. (b \o SubSeq(s, 1, k)) \o SubSeq(s, k + 1, Len(s)) = b \o s
    BY <1>2, Joined
  <1> QED BY <1>1, <1>2, <1>3, Zenon DEF Text

(* The server writes x. *)
LEMMA TextGrows ==
    ASSUME Names, NEW d \in Clients, NEW x \in Seq(Byte), net'[d].client.in = net[d].client.in \o x,
           proc'[P1(d)].buf = proc[P1(d)].buf
    PROVE  Text(d)' = Text(d) \o x
  <1>1. PICK b \in Seq(Byte), s \in Seq(Byte) : b = proc[P1(d)].buf /\ s = net[d].client.in
    BY ClientUses, UsesEnds
  <1>2. b \o (s \o x) = (b \o s) \o x
    BY Longer
  <1> QED BY <1>1, <1>2, Zenon DEF Text

LEMMA TextShort ==
    ASSUME Names, NEW d \in Clients, Text(d) \in Whole
    PROVE  /\ Len(proc[P1(d)].buf) + Len(net[d].client.in) <= 4 /\ Len(proc[P1(d)].buf) \in Nat
           /\ Len(net[d].client.in) \in Nat
           /\ net[d].client.in = << >> => proc[P1(d)].buf \in Whole
  <1>1. PICK b \in Seq(Byte), s \in Seq(Byte) : b = proc[P1(d)].buf /\ s = net[d].client.in
    BY ClientUses, UsesEnds
  <1>2. Len(b \o s) <= 4 /\ b \o s \in Whole
    BY <1>1, Two DEF Text
  <1>3. Len(b \o s) = Len(b) + Len(s) /\ b \o << >> = b /\ Len(b) \in Nat /\ Len(s) \in Nat
    OBVIOUS
  <1>4. Len(b) + Len(s) <= 4
    BY <1>2, <1>3
  <1>5. s = << >> => b \in Whole
    BY <1>2, <1>3
  <1> QED BY <1>1, <1>3, <1>4, <1>5, Zenon

-----------------------------------------------------------------------------
(* Whose server never shuts down its direction; and whose client is one process that does not. *)
Talkers == {"hello2", "kehou6", "sep", "mp", "mpq", "stdmp", "epoll", "op", "echo2", "stdio"}
Single == {"hello2", "kehou6", "file", "sep", "sep2", "op", "echo2", "stdio"}
NoShut(s) == \A i \in 1 .. Len(s) : s[i].op # "shut"

LEMMA Unshutting ==
    /\ \A x \in Talkers : NoShut(Pairs[x].server)
    /\ \A x \in Single : Pairs[x].second = << >> /\ ~ Pairs[x].threads /\ NoShut(Pairs[x].client)
  <1>1. NoShut(echo_client2)
    BY EchoClient2Text DEF NoShut, I
  <1>2. NoShut(echo_server)
    BY EchoServerText DEF NoShut, I
  <1>3. NoShut(echo_stdserv)
    BY EchoStdservText DEF NoShut, I
  <1>4. NoShut(file_client)
    BY FileClientText DEF NoShut, I
  <1>5. NoShut(hello_server)
    BY HelloServerText DEF NoShut, I
  <1>6. NoShut(op_client)
    BY OpClientText DEF NoShut, I
  <1>7. NoShut(op_server)
    BY OpServerText DEF NoShut, I
  <1>8. NoShut(sep_clnt)
    BY SepClntText DEF NoShut, I
  <1>9. NoShut(sep_serv)
    BY SepServText DEF NoShut, I
  <1>10. NoShut(stdio_client)
    BY StdioClientText DEF NoShut, I
  <1>11. NoShut(tcp_client)
    BY TcpClientText DEF NoShut, I
  <1>12. NoShut(tcp_client_kehou6)
    BY TcpClientKehou6Text DEF NoShut, I
  <1>13. NoShut(tcp_server_kehou6)
    BY TcpServerKehou6Text DEF NoShut, I
  <1>14. \A x \in Talkers : NoShut(Pairs[x].server)
    BY <1>2, <1>3, <1>5, <1>7, <1>9, <1>13, PairsAre DEF Meet, Talkers
  <1>15. \A x \in Single : NoShut(Pairs[x].client)
    BY <1>1, <1>4, <1>6, <1>8, <1>10, <1>11, <1>12, PairsAre DEF Meet, Single
  <1>16. \A x \in Single : Pairs[x].second = << >> /\ ~ Pairs[x].threads
    BY PairsAre DEF Meet, Single
  <1> QED BY <1>14, <1>15, <1>16

Unshut(d) ==
    /\ pair \in Talkers => ~ net[d].server.shut
    /\ pair \in Single => ~ net[d].client.shut

(* The only process. *)
LEMMA OnlyOne ==
    ASSUME Names, NEW d \in Clients, pair \in Single, NEW p \in Procs, Own(d, p)
    PROVE  p = P1(d) /\ ~ DoFork(p) /\ Together(p) = {p}
  <1>1. P2(d) \in Procs /\ P2(d) # S /\ P2(d)[2] = 2 /\ P2(d)[1] = d
    BY Apart
  <1>2. Script(P2(d)) = << >> /\ ~ Pairs[pair].threads
    BY <1>1, Unshutting DEF Script
  <1>3. ASSUME NEW op PROVE ~ At(P2(d), op)
    <2>1. Len(<< >>) = 0
      OBVIOUS
    <2>2. proc[P2(d)].pc \in 0 .. 0
      BY <1>1, <1>2, <2>1 DEF Names, Positions
    <2> QED BY <2>2 DEF At
  <1>4. ~ DoFork(p)
    <2>1. DoFork(p) => Len(Script(P2(d))) >= 1
      BY Apart, DoForkIs DEF Own
    <2> QED BY <1>2, <2>1
  <1>5. \E op : At(p, op)
    <2>1. CASE Moves(p)
      BY <2>1, MovesIs
    <2>2. CASE Perishes(p)
      BY <2>2, PerishesIs
    <2>3. CASE DoConnect(p) \/ ConnectFails(p)
      BY <2>3 DEF DoConnect, ConnectFails
    <2> QED BY <1>4, <2>1, <2>2, <2>3 DEF Own
  <1>6. p = P1(d)
    BY <1>3, <1>5 DEF Own
  <1> QED BY <1>2, <1>4, <1>6 DEF Together

LEMMA UnshutKept ==
    ASSUME Names, NEW d \in Clients, Connections(d), Unshut(d), Next
    PROVE  Unshut(d)'
  <1>0. pair' = pair /\ \A p \in Procs : proc[p].pc \in 0 .. Len(Script(p)) /\ Len(Script(p)) \in Nat
    BY PairStays, Scripts DEF Names, Positions, Program
  <1>1. ASSUME NEW p \in Procs, NoShut(Script(p)) PROVE ~ At(p, "shut")
    <2>1. proc[p].pc \in 0 .. Len(Script(p)) /\ Len(Script(p)) \in Nat
      BY <1>0
    <2> QED BY <1>1, <2>1 DEF NoShut, At, Instr
  <1>2. SUFFICES ASSUME ~ (net'[d].server.shut = net[d].server.shut /\ net'[d].client.shut = net[d].client.shut)
                 PROVE  Unshut(d)'
    BY <1>0 DEF Unshut
  <1>3. CASE Still(d)
    BY <1>2, <1>3 DEF Still
  <1>4. CASE Left(d)
    BY <1>2, <1>4, UnlistenedIs DEF Left, Names
  <1>5. CASE DoAccept(d)
    BY <1>2, <1>5, DoAcceptIs
  <1>6. CASE Served(d)
    <2>1. ~ (Perishes(S) \/ DoClose(S))
      BY <1>2, <1>6, ServerLeaves DEF Closes, Served
    <2>2. /\ serving = d /\ NetOf(S) /\ S \in Procs
      BY <1>6, <2>1, MovesIs, Apart DEF Served
    <2>3. At(S, "shut") /\ net'[d].client.shut = net[d].client.shut
      BY <1>2, <2>2, NetOfServer
    <2>4. pair \notin Talkers
      BY <1>1, <2>2, <2>3, Unshutting DEF Script
    <2> QED BY <1>0, <2>3, <2>4 DEF Unshut
  <1>7. ASSUME NEW p \in Procs, Own(d, p) PROVE Unshut(d)'
    <2>1. p \in {P1(d), P2(d)} /\ p # S /\ p[1] = d /\ P1(d)[2] = 1
      BY <1>7, Apart DEF Own
    <2>2. ~ Perishes(p)
      BY <1>2, <2>1, ClientLeaves DEF Closes, Same
    <2>3. ~ ConnectFails(p)
      BY <1>2, <2>1, ConnectFailsIs DEF ErrOnly, Others, Sides
    <2>4. Moves(p)
      BY <1>2, <1>7, <2>2, <2>3, DoConnectIs, DoForkIs DEF Own
    <2>5. At(p, "shut") /\ net'[d].server.shut = net[d].server.shut
      BY <1>2, <2>1, <2>4, MovesIs, NetOfClient
    <2>6. pair \notin Single
      <3>1. SUFFICES ASSUME pair \in Single PROVE FALSE
        OBVIOUS
      <3>2. p = P1(d)
        BY <1>7, <3>1, OnlyOne
      <3>3. Script(p) = Pairs[pair].client
        BY <2>1, <3>2 DEF Script
      <3> QED BY <1>1, <2>5, <3>1, <3>3, Unshutting
    <2> QED BY <1>0, <2>5, <2>6 DEF Unshut
  <1> QED BY <1>3, <1>4, <1>5, <1>6, <1>7, ForOne

-----------------------------------------------------------------------------
(* The pairs, one after the other. *)

(* The step of somebody else leaves everything as it is. *)
LEMMA StillHere ==
    ASSUME NEW d \in Clients, Still(d)
    PROVE  /\ Here(d)' <=> Here(d)
           /\ Text(d)' = Text(d) /\ proc'[P1(d)] = proc[P1(d)] /\ net'[d] = net[d] /\ conn'[d] = conn[d] /\ fds'[d] = fds[d]
           /\ (serving' = d) <=> (serving = d)
           /\ serving = d => proc'[S] = proc[S]
  BY DEF Still, Here, Text

LEMMA LeftAlone ==
    ASSUME Names, NEW d \in Clients, Left(d)
    PROVE  /\ ~ Here(d)' /\ serving' # d /\ serving # d
           /\ Text(d)' = Text(d) /\ proc'[P1(d)] = proc[P1(d)] /\ net'[d].client.in = net[d].client.in
           /\ net'[d].server.in \in {<< >>, net[d].server.in}
  <1>1. d # NULL
    BY Apart
  <1>2. net'[d].client.in = net[d].client.in /\ net'[d].server.in \in {<< >>, net[d].server.in}
    BY UnlistenedIs DEF Left, Names
  <1> QED BY <1>1, <1>2 DEF Left, Here, Text

(* The server takes the connection. *)
LEMMA Accepted ==
    ASSUME Names, NEW d \in Clients, DoAccept(d)
    PROVE  /\ Here(d) /\ Here(d)' /\ serving # d /\ serving' = d /\ conn[d] = "queued" /\ proc[S].pc = 1 /\ proc'[S].pc = 2
           /\ proc'[S].buf = proc[S].buf /\ proc'[S].ahead = << >> /\ ~ proc'[S].eof
           /\ Text(d)' = Text(d) /\ proc'[P1(d)] = proc[P1(d)] /\ net'[d] = net[d] /\ fds'[d] = fds[d]
  <1>1. d # NULL /\ P1(d) # S /\ P1(d) \in Procs
    BY Apart
  <1>2. /\ At(S, "accept") /\ conn[d] = "queued" /\ serving' = d /\ serving = NULL /\ proc[S].pc = 1 /\ proc'[S].pc = 2
        /\ proc'[S].buf = proc[S].buf /\ proc'[S].ahead = << >> /\ ~ proc'[S].eof
        /\ proc'[P1(d)] = proc[P1(d)] /\ net' = net /\ fds' = fds
    BY <1>1, DoAcceptIs
  <1>3. Here(d) /\ Here(d)'
    BY <1>2 DEF Here
  <1>4. Text(d)' = Text(d)
    BY <1>2, Zenon DEF Text
  <1> QED BY <1>1, <1>2, <1>3, <1>4

(* A client connects. *)
LEMMA Connects ==
    ASSUME Names, NEW d \in Clients, Connections(d), pair \in Single, NEW p \in Procs, Own(d, p),
           DoConnect(p) \/ ConnectFails(p)
    PROVE  /\ p = P1(d) /\ proc[p].pc = 1 /\ serving # d /\ serving' # d /\ ~ Here(d)
           /\ net[d].server = OpenEnd /\ net[d].client = OpenEnd /\ fds[d] = {}
           /\ Text(d) = << >> /\ Text(d)' = << >> /\ proc[p].ahead = << >> /\ proc'[p].ahead = << >> /\ proc'[p].buf = << >>
           /\ net'[d].server = net[d].server
           /\ net'[d].client.in = << >> /\ ~ net'[d].client.shut /\ (proc'[p].pc = 2 \/ proc'[p].pc \in Instr(p).errs)
           /\ DoConnect(p) => proc'[p].pc = 2 /\ net'[d] = net[d] /\ fds'[d] = {1}
           /\ ~ DoConnect(p) => proc'[p].pc \in Instr(p).errs /\ ~ Here(d)' /\ fds'[d] = {}
  <1>1. p = P1(d) /\ serving' = serving /\ P1(d)[1] = d /\ p # S /\ proc'[S] = proc[S]
    BY OnlyOne, Apart DEF Own
  <1>2. proc[p].pc = 1 /\ conn[d] = "new"
    BY <1>1, DoConnectIs, ConnectFailsIs DEF Connections
  <1>3. net[d] = Ends("server", OpenEnd, OpenEnd) /\ serving # d /\ proc[p].buf = << >> /\ proc[p].ahead = << >> /\ fds[d] = {}
    BY <1>1, <1>2 DEF Connections
  <1>4. net[d].server = OpenEnd /\ net[d].client = OpenEnd /\ OpenEnd.in = << >> /\ OpenEnd.shut = FALSE
    BY <1>3 DEF Ends, OpenEnd
  <1>5. << >> \o << >> = << >>
    BY Two
  <1>6. CASE DoConnect(p)
    BY <1>1, <1>2, <1>3, <1>4, <1>5, <1>6, DoConnectIs DEF Here, Text, Kept
  <1>7. CASE ~ DoConnect(p) /\ ConnectFails(p)
    <2>1. /\ proc'[p].pc \in Instr(p).errs /\ proc'[p].buf = << >> /\ Kept(p) /\ ErrOnly(d, "client") /\ conn'[d] = "refused"
          /\ fds' = fds
      BY <1>1, <1>7, ConnectFailsIs
    <2>2. net'[d].server = net[d].server /\ net'[d].client.in = << >> /\ ~ net'[d].client.shut
      BY <1>4, <2>1 DEF ErrOnly, Others, Sides
    <2> QED BY <1>1, <1>2, <1>3, <1>4, <1>5, <1>7, <2>1, <2>2 DEF Here, Text, Kept
  <1> QED BY <1>6, <1>7

(* A step of the client but the first. *)
LEMMA Runs ==
    ASSUME Names, NEW d \in Clients, Connections(d), pair \in Single, NEW p \in Procs, Own(d, p),
           ~ DoConnect(p), ~ ConnectFails(p)
    PROVE  /\ p = P1(d) /\ Uses(p, d, "client", "server") /\ proc'[S] = proc[S] /\ serving' = serving /\ (Here(d)' <=> Here(d))
           /\ Script(p) = Pairs[pair].client
           /\ Moves(p) => fds' = fds
           /\ ~ Moves(p) => /\ Perishes(p) /\ proc'[p].pc = 0 /\ torn' = torn
                            /\ (Same(d, "server") /\ Same(d, "client")) \/ Closes(d, "client", "server")
  <1>1. p = P1(d) /\ ~ DoFork(p) /\ serving' = serving /\ proc'[S] = proc[S]
    BY OnlyOne DEF Own
  <1>2. Here(d)' <=> Here(d)
    BY HereStays
  <1>3. Uses(p, d, "client", "server")
    BY <1>1, ClientUses
  <1>4. Script(p) = Pairs[pair].client
    BY <1>1, Apart DEF Script
  <1>5. CASE Moves(p)
    BY <1>1, <1>2, <1>3, <1>4, <1>5, MovesIs DEF Local
  <1>6. CASE ~ Moves(p) /\ Perishes(p)
    BY <1>1, <1>2, <1>3, <1>4, <1>6, ClientLeaves
  <1> QED BY <1>1, <1>5, <1>6 DEF Own

(* A step of the server that serves d. *)
LEMMA Works ==
    ASSUME Names, NEW d \in Clients, Connections(d), Served(d)
    PROVE  /\ Uses(S, d, "server", "client") /\ Here(d) /\ net[d].server.open /\ proc'[P1(d)] = proc[P1(d)]
           /\ fds'[d] = fds[d]
           /\ Script(S) = Pairs[pair].server /\ proc[S].pc \notin {0, 1}
           /\ Moves(S) => serving' = d /\ Here(d)'
           /\ ~ Moves(S) =>
                 /\ Perishes(S) \/ DoClose(S)
                 /\ serving' # d /\ ~ Here(d)' /\ Closes(d, "server", "client") /\ proc'[S].buf = proc[S].buf
                 /\ proc'[S].pc = IF DoClose(S) THEN proc[S].pc + 1 ELSE 0
                 /\ torn' = torn
  <1>1. d # NULL /\ serving = d /\ Uses(S, d, "server", "client")
    BY ServerUses, Apart DEF Served
  <1>2. Here(d) /\ net[d].server.open
    BY <1>1 DEF Here, Connections
  <1>3. proc[S].pc \notin {0, 1}
    BY <1>1 DEF Names, Positions, Holding
  <1>4. CASE Moves(S)
    BY <1>1, <1>2, <1>3, <1>4, MovesIs, Apart DEF Local, Here, Served, Script
  <1>5. CASE ~ Moves(S) /\ (Perishes(S) \/ DoClose(S))
    BY <1>1, <1>2, <1>3, <1>5, ServerLeaves DEF Served, Script
  <1> QED BY <1>4, <1>5 DEF Served

LEMMA BothPrograms ==
    ASSUME Names, NEW d \in Clients
    PROVE  /\ P1(d) \in Procs /\ S \in Procs /\ P1(d) # S /\ d # NULL
           /\ Script(P1(d)) = Pairs[pair].client /\ Script(S) = Pairs[pair].server
  BY Apart DEF Script

LEMMA AtWork ==
    ASSUME Names, NEW d \in Clients, serving = d
    PROVE  proc[S].pc \in 2 .. Len(Script(S)) /\ proc[S].pc \in Holding(Script(S))
  <1>1. d # NULL
    BY Apart
  <1> QED BY <1>1 DEF Names, Positions, Holding

LEMMA PutsWhole ==
    ASSUME Names, NEW p, NEW d, NEW s, NEW o, Uses(p, d, s, o), At(p, "put"), NEW n \in Nat \ {0}, Instr(p).n = n, Moves(p),
           net[d][s].err = "none", net[d][o].open
    PROVE  /\ Local(p) /\ Kept(p) /\ proc'[p].buf = proc[p].buf /\ torn' = torn /\ proc'[p].pc = proc[p].pc + 1
           /\ Same(d, s) /\ Rest(d, o) /\ net'[d][o].in = net[d][o].in \o Msg(n)
  <1>1. Output(p) = Msg(n)
    BY DEF Output, At
  <1>2. Len(Msg(n)) = n
    BY MsgBytes
  <1>3. Msg(n) # << >>
    <2>1. Len(<< >>) = 0
      OBVIOUS
    <2> QED BY <1>2, <2>1
  <1>4. "put" \in {"put", "echo"} /\ "put" # "echo"
    OBVIOUS
  <1>5. /\ Local(p) /\ Kept(p) /\ proc'[p].buf = proc[p].buf /\ torn' = torn /\ proc'[p].pc = proc[p].pc + 1
        /\ Same(d, s) /\ Rest(d, o) /\ net'[d][o].in = net[d][o].in \o Output(p)
    <2>1. ASSUME NEW op, op = "put"
          PROVE  /\ Local(p) /\ Kept(p) /\ proc'[p].buf = proc[p].buf /\ torn' = torn /\ proc'[p].pc = proc[p].pc + 1
                 /\ Same(d, s) /\ Rest(d, o) /\ net'[d][o].in = net[d][o].in \o Output(p)
      <3>1. op \in {"put", "echo"} /\ op # "echo" /\ At(p, op)
        BY <1>4, <2>1
      <3>2. Output(p) # << >>
        BY <1>1, <1>3, Zenon
      <3>3. /\ Local(p) /\ Kept(p) /\ proc'[p].buf = proc[p].buf /\ torn' = torn
            /\ proc'[p].pc = IF op = "echo" THEN Instr(p).to ELSE proc[p].pc + 1
            /\ Same(d, s) /\ Rest(d, o) /\ net'[d][o].in = net[d][o].in \o Output(p)
        <4>1. Landed(p, d, s, o)
          BY <3>1, Puts
        <4> QED BY <3>1, <3>2, <4>1, Puts, Zenon DEF Landed
      <3> QED BY <3>1, <3>3, Zenon
    <2> QED BY <2>1
  <1> QED BY <1>1, <1>5, Zenon

LEMMA ServerPuts ==
    ASSUME Names, NEW d \in Clients, Uses(S, d, "server", "client"), At(S, "put"), NEW n \in Nat \ {0},
           Instr(S).n = n, Moves(S),
           net[d].server.err = "none", net[d].client.open
    PROVE  /\ Local(S) /\ Kept(S) /\ proc'[S].buf = proc[S].buf /\ torn' = torn /\ proc'[S].pc = proc[S].pc + 1
           /\ net'[d].server = net[d].server /\ Rest(d, "client") /\ net'[d].client.in = net[d].client.in \o Msg(n)
  <1>1. ASSUME NEW p, p = S, NEW s, s = "server", NEW o, o = "client"
        PROVE  /\ Local(p) /\ Kept(p) /\ proc'[p].buf = proc[p].buf /\ torn' = torn /\ proc'[p].pc = proc[p].pc + 1
               /\ Same(d, s) /\ Rest(d, o) /\ net'[d][o].in = net[d][o].in \o Msg(n)
    <2>1. Uses(p, d, s, o) /\ At(p, "put") /\ Instr(p).n = n /\ Moves(p) /\ net[d][s].err = "none" /\ net[d][o].open
      BY <1>1
    <2> QED BY <2>1, PutsWhole
  <1> QED BY <1>1 DEF Same

LEMMA ClientPuts ==
    ASSUME Names, NEW d \in Clients, Uses(P1(d), d, "client", "server"), At(P1(d), "put"), NEW n \in Nat \ {0},
           Instr(P1(d)).n = n, Moves(P1(d)),
           net[d].client.err = "none", net[d].server.open
    PROVE  /\ Local(P1(d)) /\ Kept(P1(d)) /\ proc'[P1(d)].buf = proc[P1(d)].buf /\ torn' = torn
           /\ proc'[P1(d)].pc = proc[P1(d)].pc + 1
           /\ net'[d].client = net[d].client /\ Rest(d, "server") /\ net'[d].server.in = net[d].server.in \o Msg(n)
  <1>1. ASSUME NEW p, p = P1(d), NEW s, s = "client", NEW o, o = "server"
        PROVE  /\ Local(p) /\ Kept(p) /\ proc'[p].buf = proc[p].buf /\ torn' = torn /\ proc'[p].pc = proc[p].pc + 1
               /\ Same(d, s) /\ Rest(d, o) /\ net'[d][o].in = net[d][o].in \o Msg(n)
    <2>1. Uses(p, d, s, o) /\ At(p, "put") /\ Instr(p).n = n /\ Moves(p) /\ net[d][s].err = "none" /\ net[d][o].open
      BY <1>1
    <2> QED BY <2>1, PutsWhole
  <1> QED BY <1>1 DEF Same

(* A whole text leaves room in the buffer of "fill". *)
LEMMA RoomLeft ==
    ASSUME Names, NEW d \in Clients, NEW k, Gets(d, "client", "server", k), Text(d) \in Whole
    PROVE  ~ (Len(proc[P1(d)].buf) + k >= 9)
  <1>1. \A a, b \in Nat : \A j \in 1 .. b : a + b <= 4 => ~ (a + j >= 9)
    OBVIOUS
  <1>2. k \in 1 .. Len(net[d].client.in)
    BY DEF Gets
  <1> QED BY <1>1, <1>2, TextShort, Zenon

LEMMA Hello2Kept ==
    ASSUME Names, NEW d \in Clients, Connections(d), Unshut(d), Unshut(d)', Patience(d), Patience(d)',
           Hello2(d), pair = "hello2", Next
    PROVE  Hello2(d)'
  <1> DEFINE p == P1(d)
  <1>1. /\ p \in Procs /\ S \in Procs /\ p # S /\ d # NULL /\ Script(p) = tcp_client
        /\ Script(S) = hello_server /\ pair' = pair
        /\ pair \in Single /\ pair \in Talkers /\ Stays(pair) = {2} /\ ~ net[d].server.shut /\ ~ net'[d].server.shut
    BY BothPrograms, PairsAre, PairStays DEF Meet, Single, Talkers, Stays, Unshut
  <1>2. Here(d)' => proc'[p].pc = 2
    BY <1>1 DEF Patience
  <1>3. CASE Still(d)
    BY <1>1, <1>3, StillHere DEF Hello2
  <1>4. CASE Left(d)
    <2>1. /\ ~ Here(d)' /\ serving' # d /\ Text(d)' = Text(d) /\ proc'[p] = proc[p] /\ net'[d].client.in = net[d].client.in
          /\ net'[d].server.in = << >> \/ net'[d].server.in = net[d].server.in
      BY <1>4, LeftAlone
    <2> QED BY <2>1, Zenon DEF Hello2
  <1>5. CASE DoAccept(d)
    <2>1. /\ Here(d) /\ serving # d /\ serving' = d /\ proc'[S].pc = 2
          /\ Text(d)' = Text(d) /\ proc'[p] = proc[p] /\ net'[d] = net[d]
      BY <1>5, Accepted
    <2>2. 2 # 3
      OBVIOUS
    <2> QED BY <2>1, <2>2, Zenon DEF Hello2
  <1>6. CASE Served(d)
    <2>1. /\ Uses(S, d, "server", "client") /\ serving = d /\ Here(d) /\ proc[S].pc \notin {0, 1} /\ proc'[p] = proc[p]
          /\ net[d].server.in = << >>
      BY <1>6, Works DEF Served, Hello2
    <2>2. CASE ~ Moves(S)
      <3>1. ~ Here(d)' /\ Closes(d, "server", "client")
        BY <1>6, <2>2, Works
      <3>2. Same(d, "client") /\ net'[d].server.in = << >>
        BY <2>1, <3>1 DEF Closes
      <3>3. Text(d)' = Text(d)
        BY <2>1, <3>2, Zenon DEF Text, Same
      <3> QED BY <2>1, <3>1, <3>2, <3>3 DEF Hello2, Same
    <2>3. CASE Moves(S)
      <3>1. proc[S].pc \in {2, 3} /\ (proc[S].pc = 2 => At(S, "put") /\ Instr(S).n = 2) /\ (proc[S].pc = 3 => At(S, "exit"))
        BY <1>1, <2>1, HelloServerAt DEF Stands
      <3>2. proc[S].pc = 2 /\ At(S, "put") /\ Instr(S).n = 2
        BY <2>3, <3>1, MovesBy
      <3>4. net[d].server.err = "none" /\ net[d].client.open /\ proc[p].pc = 2
        BY <1>1, <2>1, <3>2 DEF Patience
      <3>7. proc[S].pc # 3
        BY <3>2
      <3>8. Text(d) = << >>
        BY <2>1, <3>7, Zenon DEF Hello2
      <3>5. proc'[S].pc = 3 /\ Same(d, "server") /\ net'[d].client.in = net[d].client.in \o Msg(2)
        <4>1. 2 \in Nat \ {0} /\ 2 + 1 = 3
          OBVIOUS
        <4>2. /\ proc'[S].pc = proc[S].pc + 1 /\ net'[d].server = net[d].server
              /\ net'[d].client.in = net[d].client.in \o Msg(2)
          BY <2>1, <2>3, <3>2, <3>4, <4>1, ServerPuts
        <4> QED BY <3>2, <4>1, <4>2 DEF Same
      <3>6. serving' = d
        BY <1>6, <2>3, Works
      <3>11. Text(d)' = Msg(2)
        <4>1. Text(d)' = Text(d) \o Msg(2)
          BY <2>1, <3>5, TextGrows, Two
        <4> QED BY <3>8, <4>1, Two, Zenon
      <3> QED BY <2>1, <3>4, <3>5, <3>6, <3>11 DEF Hello2, Same, Whole
    <2> QED BY <2>2, <2>3
  <1>7. ASSUME NEW q \in Procs, Own(d, q) PROVE Hello2(d)'
    <2>1. CASE DoConnect(q) \/ ConnectFails(q)
      <3>1. /\ q = p /\ Text(d)' = << >> /\ net[d].server = OpenEnd /\ net[d].client = OpenEnd /\ serving' # d
            /\ proc[p].pc = 1
            /\ net'[d].server = net[d].server /\ net'[d].client.in = << >>
        BY <1>1, <1>7, <2>1, Connects
      <3> QED BY <3>1 DEF Hello2, OpenEnd, Whole
    <2>2. CASE ~ DoConnect(q) /\ ~ ConnectFails(q)
      <3>1. /\ q = p /\ Uses(p, d, "client", "server") /\ (Here(d)' <=> Here(d)) /\ serving' = serving /\ proc'[S] = proc[S]
        BY <1>1, <1>7, <2>2, Runs
      <3>2. CASE ~ Moves(p)
        <4>1. proc'[p].pc = 0 /\ ((Same(d, "server") /\ Same(d, "client")) \/ Closes(d, "client", "server"))
          BY <1>1, <1>7, <2>2, <3>1, <3>2, Runs
        <4>2. net'[d].server.in = << >>
          BY <4>1, NothingCut DEF Hello2, Closes, Same
        <4> QED BY <1>2, <4>1, <4>2 DEF Hello2
      <3>3. CASE Moves(p)
        <4>1. /\ proc[p].pc \in {0, 1, 2, 3, 4} /\ (proc[p].pc = 1 => At(p, "connect")) /\ (proc[p].pc = 4 => At(p, "exit"))
              /\ proc[p].pc = 2 => At(p, "fill") /\ Instr(p).n = 9 /\ Instr(p).to = 3 /\ Instr(p).errs = {0}
              /\ proc[p].pc = 3 => At(p, "show")
              /\ \E op : At(p, op)
          BY <1>1, <3>3, TcpClientAt, MovesIs DEF Stands
        <4>2. proc[p].pc \in {2, 3}
          BY <1>1, <3>3, <4>1, MovesBy, Place
        <4>3. CASE proc[p].pc = 3
          <5>1. At(p, "show")
            BY <4>1, <4>3
          <5>2. proc'[p].pc = 4 /\ Same(d, "server")
            BY <3>1, <3>3, <4>3, <5>1, Quiet
          <5> QED BY <1>2, <5>2 DEF Hello2, Same
        <4>4. CASE proc[p].pc = 2
          <5>1. At(p, "fill") /\ Instr(p).n = 9 /\ Instr(p).to = 3 /\ Instr(p).errs = {0}
            BY <4>1, <4>4
          <5>2. CASE \E k : /\ Gets(d, "client", "server", k) /\ proc'[p].buf = proc[p].buf \o SubSeq(net[d].client.in, 1, k)
                            /\ proc'[p].pc = IF Len(proc[p].buf) + k >= 9 THEN proc[p].pc + 1 ELSE proc[p].pc
            <6>1. PICK k : /\ Gets(d, "client", "server", k) /\ proc'[p].buf = proc[p].buf \o SubSeq(net[d].client.in, 1, k)
                           /\ proc'[p].pc = IF Len(proc[p].buf) + k >= 9 THEN proc[p].pc + 1 ELSE proc[p].pc
              BY <5>2
            <6>2. Text(d)' = Text(d)
              BY <6>1, TextStays
            <6>3. Text(d) \in Whole
              BY <4>4 DEF Hello2
            <6>4. ~ (Len(proc[p].buf) + k >= 9)
              BY <6>1, <6>3, RoomLeft
            <6> QED BY <3>1, <4>4, <6>1, <6>2, <6>4 DEF Hello2, Gets, Same
          <5>3. CASE Over0(d, "client", "server") /\ proc'[p].buf = proc[p].buf /\ proc'[p].pc = 3
            <6>1. Text(d)' = Text(d)
              BY <5>3, Zenon DEF Text, Over0, Same
            <6> QED BY <3>1, <4>4, <5>3, <6>1 DEF Hello2, Over0, Same
          <5> QED BY <3>1, <3>3, <5>1, <5>2, <5>3, Fills
        <4> QED BY <4>2, <4>3, <4>4
      <3> QED BY <3>2, <3>3
    <2> QED BY <2>1, <2>2
  <1> QED BY <1>3, <1>4, <1>5, <1>6, <1>7, ForOne

LEMMA FileServed ==
    ASSUME Names, NEW d \in Clients, Connections(d), Unshut(d), Patience(d), File(d), pair = "file", Served(d), Moves(S)
    PROVE  /\ File(d)' /\ proc'[S].pc \in 3 .. 7 /\ (proc'[S].pc >= 6 => proc[S].pc \in {5, 6})
           /\ proc[S].pc = 5 => proc'[S].buf # << >>
           /\ proc[S].pc = 6 => proc'[S].buf = proc[S].buf
  <1> DEFINE p == P1(d)
  <1>1. /\ p \in Procs /\ S \in Procs /\ p # S /\ Script(p) = file_client /\ Script(S) = file_server
        /\ Stays(pair) = {2} /\ ~ net[d].client.shut
    BY BothPrograms, PairsAre DEF Meet, Single, Stays, Unshut
  <1>2. /\ Uses(S, d, "server", "client") /\ serving = d /\ Here(d) /\ proc'[p] = proc[p] /\ serving' = d /\ Here(d)'
        /\ fds'[d] = fds[d] /\ proc[S].pc \notin {0, 1} /\ net[d].server.open /\ torn \subseteq torn'
    BY Works, MovesIs, <1>1 DEF Served
  <1>3. proc[p].pc \in {0, 2, 3, 4, 5}
    <2>1. proc[p].pc \in 0 .. 5
      BY <1>1, FileClientAt
    <2>2. proc[p].pc # 1
      BY <1>2 DEF Connections
    <2> QED BY <2>1, <2>2
  <1>4. /\ proc[S].pc \in {2, 3, 4, 5, 6}
        /\ proc[S].pc \in {2, 3} => At(S, "put") /\ Instr(S).n = 2
        /\ proc[S].pc = 4 => At(S, "shut")
        /\ proc[S].pc = 5 => At(S, "read") /\ Instr(S).to = 6 /\ Instr(S).errs = {6}
        /\ proc[S].pc = 6 => At(S, "show")
    <2>1. /\ proc[S].pc \in {2, 3, 4, 5, 6, 7}
          /\ proc[S].pc \in {2, 3} => At(S, "put") /\ Instr(S).n = 2
          /\ proc[S].pc = 4 => At(S, "shut")
          /\ proc[S].pc = 5 => At(S, "read") /\ Instr(S).to = 6 /\ Instr(S).errs = {6}
          /\ proc[S].pc = 6 => At(S, "show")
          /\ proc[S].pc = 7 => At(S, "exit")
      BY <1>1, <1>2, FileServerAt DEF Stands
    <2> QED BY <2>1, MovesBy
  <1>5. CASE proc[S].pc \in {2, 3}
    <2>1. At(S, "put") /\ Instr(S).n = 2 /\ 2 \in Nat \ {0}
      BY <1>4, <1>5
    <2>2. ~ net[d].server.shut /\ net[d].server.err = "none" /\ proc[p].pc = 2 /\ net[d].client.open /\ net[d].client.err = "none"
      BY <1>1, <1>2, <1>5 DEF File, Patience
    <2>3. /\ proc'[S].pc = proc[S].pc + 1 /\ net'[d].server = net[d].server /\ Rest(d, "client")
          /\ net'[d].client.in = net[d].client.in \o Msg(2)
      BY <1>2, <2>1, <2>2, ServerPuts
    <2>4. Text(d)' = Text(d) \o Msg(2)
      BY <1>2, <2>3, TextGrows, Two
    <2>5. Text(d)' = IF proc[S].pc = 2 THEN Msg(2) ELSE Twice
      <3>1. Text(d) = IF proc[S].pc = 2 THEN << >> ELSE Msg(2)
        BY <1>2, <1>5, <2>2 DEF File, FileSaid
      <3> QED BY <2>4, <3>1, Two, Zenon
    <2> QED BY <1>1, <1>2, <1>5, <2>2, <2>3, <2>5 DEF File, FileSaid, Rest, Whole
  <1>6. CASE proc[S].pc = 4
    <2>1. At(S, "shut")
      BY <1>4, <1>6
    <2>2. proc[p].pc = 2
      BY <1>1, <1>2, <1>6 DEF File, Patience
    <2>3. /\ proc'[S].pc = 5 /\ Same(d, "client") /\ net'[d].server.shut /\ net'[d].server.in = net[d].server.in
          /\ net'[d].server.err = net[d].server.err
      <3>1. ASSUME NEW s, s = "server", NEW o, o = "client"
            PROVE  /\ proc'[S].pc = proc[S].pc + 1 /\ Same(d, o) /\ net'[d][s].shut /\ net'[d][s].in = net[d][s].in
                   /\ net'[d][s].err = net[d][s].err
        <4>1. Uses(S, d, s, o) /\ At(S, "shut") /\ Moves(S)
          BY <1>2, <2>1, <3>1
        <4> QED BY <4>1, Shutting
      <3>2. 4 + 1 = 5
        OBVIOUS
      <3> QED BY <1>6, <3>1, <3>2
    <2>4. Text(d)' = Text(d)
      BY <1>2, <2>3, Zenon DEF Text, Same
    <2> QED BY <1>1, <1>2, <1>6, <2>2, <2>3, <2>4 DEF File, FileSaid, Same
  <1>7. CASE proc[S].pc = 5
    <2>1. At(S, "read") /\ Instr(S).to = 6 /\ Instr(S).errs = {6}
      BY <1>4, <1>7
    <2>2. net[d].server.err = "none" /\ net[d].server.shut
      BY <1>2, <1>7 DEF File
    <2>3. ~ Fails0(d, "server", "client")
      BY <2>2 DEF Fails0
    <2>4. ~ Over0(d, "server", "client")
      BY <1>1, <1>2, <1>3, <1>7, <2>2 DEF Over0, File
    <2>5. PICK k : Gets(d, "server", "client", k) /\ proc'[S].buf = SubSeq(net[d].server.in, 1, k) /\ proc'[S].pc = 6
      BY <1>2, <1>7, <2>1, <2>3, <2>4, Reads
    <2>6. net[d].server.in # << >> /\ proc'[S].buf # << >>
      <3>1. PICK x \in Seq(Byte) : x = net[d].server.in
        BY <1>2, UsesEnds
      <3>2. k \in 1 .. Len(x)
        BY <2>5, <3>1 DEF Gets
      <3>3. Len(SubSeq(x, 1, k)) = k
        BY <3>1, <3>2
      <3> QED BY <2>5, <3>1, <3>2, <3>3
    <2>7. proc[p].pc \in {0, 5}
      BY <1>3, <2>6 DEF File
    <2>8. Same(d, "client") /\ Rest(d, "server")
      BY <2>5 DEF Gets
    <2> QED BY <1>1, <1>2, <1>7, <2>2, <2>5, <2>6, <2>7, <2>8 DEF File, Same, Rest
  <1>8. CASE proc[S].pc = 6
    <2>1. At(S, "show")
      BY <1>4, <1>8
    <2>2. proc'[S].pc = 7 /\ Same(d, "client") /\ Same(d, "server") /\ proc'[S].buf = proc[S].buf
      BY <1>2, <1>8, <2>1, Quiet
    <2>3. Text(d)' = Text(d)
      BY <1>2, <2>2, Zenon DEF Text, Same
    <2> QED BY <1>1, <1>2, <1>3, <1>8, <2>2, <2>3 DEF File, FileSaid, Same
  <1> QED BY <1>4, <1>5, <1>6, <1>7, <1>8

LEMMA FileOwn ==
    ASSUME Names, NEW d \in Clients, Connections(d), Unshut(d), Patience(d)', File(d), pair = "file", pair' = pair,
           NEW q \in Procs, Own(d, q)
    PROVE  File(d)'
  <1> DEFINE p == P1(d)
  <1>1. /\ p \in Procs /\ S \in Procs /\ p # S /\ Script(p) = file_client /\ pair \in Single
        /\ Stays(pair) = {2} /\ ~ net[d].client.shut
    BY BothPrograms, PairsAre DEF Meet, Single, Stays, Unshut
  <1>2. CASE DoConnect(q) \/ ConnectFails(q)
    <2>1. /\ q = p /\ Text(d)' = << >> /\ net[d].server = OpenEnd /\ serving' # d /\ proc[p].pc = 1
          /\ net'[d].server = net[d].server /\ net'[d].client.in = << >>
      BY <1>1, <1>2, Connects
    <2>3. proc'[p].pc = 2 \/ proc'[p].pc \in Instr(p).errs
      BY <1>1, <1>2, <2>1, Connects
    <2>2. Instr(p).errs = {2}
      BY <1>1, <2>1, FileClientAt DEF Stands
    <2> QED BY <2>1, <2>2, <2>3 DEF File, OpenEnd, Whole
  <1>3. CASE ~ DoConnect(q) /\ ~ ConnectFails(q)
    <2>1. /\ q = p /\ Uses(p, d, "client", "server") /\ (Here(d)' <=> Here(d)) /\ serving' = serving /\ proc'[S] = proc[S]
      BY <1>1, <1>3, Runs
    <2>2. serving = d => net[d].server.open /\ Here(d) /\ proc[p].pc # 1
      BY DEF Here, Connections
    <2>3. /\ proc[p].pc \in {0, 1, 2, 3, 4, 5} /\ (proc[p].pc = 1 => At(p, "connect")) /\ (proc[p].pc = 5 => At(p, "exit"))
          /\ proc[p].pc = 2 => At(p, "fill") /\ Instr(p).n = 9 /\ Instr(p).to = 3 /\ Instr(p).errs = {0, 2}
          /\ proc[p].pc = 3 => At(p, "show")
          /\ proc[p].pc = 4 => At(p, "put") /\ Instr(p).n = 2
      BY <1>1, FileClientAt DEF Stands
    <2>4. CASE ~ Moves(p)
      <3>1. /\ proc'[p].pc = 0 /\ Perishes(p) /\ ((Same(d, "server") /\ Same(d, "client")) \/ Closes(d, "client", "server"))
        BY <1>1, <1>3, <2>1, <2>4, Runs
      <3>2. ASSUME serving = d
            PROVE  net[d].server.shut /\ net'[d].server.shut /\ proc[p].pc = 5 /\ Same(d, "server")
        <4>1. net'[d].server.shut = net[d].server.shut
          BY <3>1 DEF Same, Closes
        <4>2. net'[d].server.shut
          BY <1>1, <2>1, <2>2, <3>1, <3>2 DEF Patience
        <4>3. proc[p].pc = 5
          <5>1. CASE proc[p].pc \in {0, 1, 3}
            <6>1. PICK op \in {"put", "echo", "read", "body", "fill", "line", "exit", "exitall"} : At(p, op)
              BY <1>1, <3>1, PerishesIs
            <6>2. proc[p].pc = 3
              BY <2>2, <3>2, <5>1, <6>1 DEF At
            <6> QED BY <2>3, <6>1, <6>2 DEF At
          <5>2. CASE proc[p].pc = 2
            <6>1. ReadFails(p)
              BY <2>3, <3>1, <5>2, PerishesBy
            <6>2. Failed(p)
              BY <1>1, <6>1, ReadFailsIs
            <6>3. net[d].client.err = "none"
              BY <3>2, <5>2 DEF File
            <6> QED BY <2>1, <6>2, <6>3, UsesEnds DEF Failed
          <5>3. CASE proc[p].pc = 4
            <6>1. WriteKills(p)
              BY <2>3, <3>1, <5>3, PerishesBy
            <6>2. Mine(p).err \in {"pipe", "unconnected"}
              BY <1>1, <6>1, WriteKillsIs
            <6>3. net[d].client.err = "none"
              BY <3>2, <5>3 DEF File
            <6> QED BY <2>1, <6>2, <6>3, UsesEnds
          <5> QED BY <2>3, <5>1, <5>2, <5>3
        <4>4. Same(d, "server")
          BY <3>1, <4>3 DEF Closes, File
        <4> QED BY <4>1, <4>2, <4>3, <4>4
      <3> QED BY <2>1, <3>1, <3>2 DEF File, Same
    <2>5. CASE Moves(p) /\ proc[p].pc = 2
      <3>1. At(p, "fill") /\ Instr(p).n = 9 /\ Instr(p).to = 3 /\ Instr(p).errs = {0, 2} /\ fds' = fds
        BY <1>1, <1>3, <2>1, <2>3, <2>5, Runs
      <3>2. Text(d) \in Whole
        BY <2>5 DEF File
      <3>3. CASE \E k : /\ Gets(d, "client", "server", k) /\ proc'[p].buf = proc[p].buf \o SubSeq(net[d].client.in, 1, k)
                        /\ proc'[p].pc = IF Len(proc[p].buf) + k >= 9 THEN proc[p].pc + 1 ELSE proc[p].pc
        <4>1. PICK k : /\ Gets(d, "client", "server", k) /\ proc'[p].buf = proc[p].buf \o SubSeq(net[d].client.in, 1, k)
                       /\ proc'[p].pc = IF Len(proc[p].buf) + k >= 9 THEN proc[p].pc + 1 ELSE proc[p].pc
          BY <3>3
        <4>2. Text(d)' = Text(d)
          BY <4>1, TextStays
        <4>3. proc'[p].pc = 2
          BY <2>5, <3>2, <4>1, RoomLeft
        <4>4. Same(d, "server") /\ Rest(d, "client")
          BY <4>1 DEF Gets
        <4> QED BY <2>1, <2>2, <2>5, <3>1, <4>2, <4>3, <4>4 DEF File, FileSaid, Same, Rest
      <3>4. CASE Over0(d, "client", "server") /\ proc'[p].buf = proc[p].buf /\ proc'[p].pc = 3
        <4>1. Text(d)' = Text(d) /\ net'[d].client = net[d].client /\ net'[d].server = net[d].server /\ net[d].client.in = << >>
          BY <3>4, Zenon DEF Text, Over0, Same
        <4> QED BY <2>1, <2>2, <2>5, <3>1, <3>4, <4>1 DEF File, FileSaid
      <3>5. CASE Fails0(d, "client", "server") /\ proc'[p].buf = proc[p].buf /\ proc'[p].pc \in {0, 2} \ {0}
        <4>1. /\ net'[d].client.in = net[d].client.in /\ net'[d].server = net[d].server
              /\ net[d].client.err \in {"reset", "unconnected"}
          BY <3>5 DEF Fails0, Flags, Same
        <4>2. Text(d)' = Text(d)
          BY <3>5, <4>1, Zenon DEF Text
        <4>3. serving # d
          BY <2>5, <4>1 DEF File
        <4> QED BY <2>1, <2>5, <3>1, <3>5, <4>1, <4>2, <4>3 DEF File
      <3> QED BY <2>1, <2>5, <3>1, <3>3, <3>4, <3>5, Fills
    <2>6. CASE Moves(p) /\ proc[p].pc = 3
      <3>1. At(p, "show") /\ fds' = fds
        BY <1>1, <1>3, <2>1, <2>3, <2>6, Runs
      <3>2. proc'[p].pc = 4 /\ Same(d, "server") /\ Same(d, "client")
        BY <2>1, <2>6, <3>1, Quiet
      <3> QED BY <2>1, <2>2, <2>6, <3>1, <3>2 DEF File, Same
    <2>7. CASE Moves(p) /\ proc[p].pc = 4
      <3>1. At(p, "put") /\ Instr(p).n = 2 /\ fds' = fds /\ 2 \in Nat \ {0}
        BY <1>1, <1>3, <2>1, <2>3, <2>7, Runs
      <3>2. proc'[p].pc = 5 /\ net'[d].client.in = net[d].client.in
        BY <2>1, <2>7, <3>1, Wrote
      <3>3. ASSUME serving = d
            PROVE  net'[d].client = net[d].client /\ Rest(d, "server") /\ net'[d].server.in # << >>
        <4>1. net[d].client.err = "none" /\ net[d].server.open /\ net[d].server.in = << >>
          BY <2>2, <2>7, <3>3 DEF File
        <4>2. net'[d].client = net[d].client /\ Rest(d, "server") /\ net'[d].server.in = net[d].server.in \o Msg(2)
          BY <2>1, <2>7, <3>1, <4>1, ClientPuts
        <4> QED BY <4>1, <4>2, Two, Zenon
      <3> QED BY <2>1, <2>2, <2>7, <3>1, <3>2, <3>3 DEF File, Rest
    <2>8. Moves(p) => proc[p].pc \in {2, 3, 4}
      BY <1>1, <2>3, MovesBy, MovesIs, Place
    <2> QED BY <2>4, <2>5, <2>6, <2>7, <2>8
  <1> QED BY <1>2, <1>3

LEMMA FileKept ==
    ASSUME Names, NEW d \in Clients, Connections(d), Unshut(d), Patience(d), Patience(d)', File(d), pair = "file", Next
    PROVE  File(d)'
  <1> DEFINE p == P1(d)
  <1>1. pair' = pair
    BY PairStays
  <1>2. CASE Still(d)
    <2>1. FileSaid' = FileSaid \/ serving # d
      BY <1>2 DEF Still, FileSaid
    <2> QED BY <1>2, <2>1, StillHere DEF File
  <1>3. CASE Left(d)
    <2>1. /\ ~ Here(d)' /\ serving' # d /\ Text(d)' = Text(d) /\ proc'[p] = proc[p] /\ net'[d].client.in = net[d].client.in
          /\ net'[d].server.in = << >> \/ net'[d].server.in = net[d].server.in
      BY <1>3, LeftAlone
    <2> QED BY <2>1, Zenon DEF File
  <1>4. CASE DoAccept(d)
    <2>1. /\ Here(d) /\ serving # d /\ serving' = d /\ proc'[S].pc = 2 /\ fds'[d] = fds[d] /\ proc[S].pc = 1
          /\ conn[d] = "queued"
          /\ Text(d)' = Text(d) /\ proc'[p] = proc[p] /\ net'[d] = net[d]
      BY <1>4, Accepted
    <2>2. ~ net[d].server.shut /\ net[d].server.err = "none"
      BY <2>1 DEF Connections
    <2>3. proc[p].pc = 2 /\ net[d].client.open /\ net[d].client.err = "none"
      BY <2>1, <2>2 DEF Patience, Stays
    <2> QED BY <2>1, <2>2, <2>3 DEF File, FileSaid
  <1>5. CASE Served(d)
    <2>1. CASE ~ Moves(S)
      <3>1. /\ ~ Here(d)' /\ Closes(d, "server", "client") /\ serving' # d /\ proc'[p] = proc[p]
        BY <1>5, <2>1, Works
      <3>2. net'[d].server.in = << >>
        BY <3>1 DEF Closes
      <3>3. proc[p].pc \in {1, 2, 3, 4} => net'[d].client = net[d].client
        BY <3>1 DEF Closes, File, Same
      <3>4. proc[p].pc \in {3, 4, 5} => net'[d].client.in = << >>
        BY <3>1, NothingCut DEF Closes, File, Same
      <3>5. proc[p].pc \in {1, 2, 3} => Text(d)' = Text(d)
        BY <3>1, <3>3 DEF Text
      <3> QED BY <3>1, <3>2, <3>4, <3>5 DEF File
    <2>2. CASE Moves(S)
      BY <1>5, <2>2, FileServed
    <2> QED BY <2>1, <2>2
  <1>6. ASSUME NEW q \in Procs, Own(d, q) PROVE File(d)'
    BY <1>1, <1>6, FileOwn
  <1> QED BY <1>2, <1>3, <1>4, <1>5, <1>6, ForOne

LEMMA Sep2Served ==
    ASSUME Names, NEW d \in Clients, Connections(d), Unshut(d), Patience(d), Sep2(d), pair = "sep2", Served(d), Moves(S)
    PROVE  Sep2(d)' /\ proc'[S].pc \in 3 .. 5 /\ (proc'[S].pc = 5 => proc'[S].buf # << >>)
  <1> DEFINE p == P1(d)
  <1>1. /\ p \in Procs /\ S \in Procs /\ p # S /\ Script(p) = sep_clnt /\ Script(S) = sep_serv2
        /\ Stays(pair) = {2, 3} /\ ~ net[d].client.shut
    BY BothPrograms, PairsAre DEF Meet, Single, Stays, Unshut
  <1>2. /\ Uses(S, d, "server", "client") /\ serving = d /\ Here(d) /\ proc'[p] = proc[p] /\ serving' = d /\ Here(d)'
        /\ fds'[d] = fds[d] /\ proc[S].pc \notin {0, 1} /\ net[d].server.open
    BY Works, MovesIs, <1>1 DEF Served
  <1>3. proc[p].pc \in {0, 2, 3, 4, 5}
    <2>1. proc[p].pc \in 0 .. 5
      BY <1>1, SepClntAt
    <2>2. proc[p].pc # 1
      BY <1>2 DEF Connections
    <2> QED BY <2>1, <2>2
  <1>4. /\ proc[S].pc \in {2, 3, 4}
        /\ proc[S].pc = 2 => At(S, "put") /\ Instr(S).n = 2
        /\ proc[S].pc = 3 => At(S, "shut")
        /\ proc[S].pc = 4 => At(S, "line") /\ Instr(S).to = 5 /\ Instr(S).errs = {5}
    <2>1. /\ proc[S].pc \in {2, 3, 4, 5}
          /\ proc[S].pc = 2 => At(S, "put") /\ Instr(S).n = 2
          /\ proc[S].pc = 3 => At(S, "shut")
          /\ proc[S].pc = 4 => At(S, "line") /\ Instr(S).to = 5 /\ Instr(S).errs = {5}
          /\ proc[S].pc = 5 => At(S, "exit")
      BY <1>1, <1>2, SepServ2At DEF Stands
    <2> QED BY <2>1, MovesBy
  <1>5. proc[S].pc \in {2, 3} => proc[p].pc \in {2, 3} /\ net[d].client.open /\ net[d].client.err = "none" /\ ~ net[d].server.shut
    BY <1>1, <1>2 DEF Sep2, Patience
  <1>6. CASE proc[S].pc = 2
    <2>1. At(S, "put") /\ Instr(S).n = 2 /\ 2 \in Nat \ {0}
      BY <1>4, <1>6
    <2>2. net[d].server.err = "none" /\ proc[p].pc \in {2, 3} /\ net[d].client.open /\ net[d].client.err = "none" /\ ~ net[d].server.shut
      BY <1>2, <1>5, <1>6 DEF Sep2
    <2>3. /\ proc'[S].pc = 3 /\ net'[d].server = net[d].server /\ Rest(d, "client") /\ Kept(S)
      BY <1>2, <1>6, <2>1, <2>2, ServerPuts
    <2> QED BY <1>2, <1>6, <2>2, <2>3 DEF Sep2, Rest, Kept
  <1>7. CASE proc[S].pc = 3
    <2>1. At(S, "shut")
      BY <1>4, <1>7
    <2>2. /\ proc'[S].pc = 4 /\ Same(d, "client") /\ net'[d].server.shut /\ net'[d].server.in = net[d].server.in
          /\ net'[d].server.err = net[d].server.err /\ Kept(S)
      <3>1. ASSUME NEW s, s = "server", NEW o, o = "client"
            PROVE  /\ proc'[S].pc = proc[S].pc + 1 /\ Same(d, o) /\ net'[d][s].shut /\ net'[d][s].in = net[d][s].in
                   /\ net'[d][s].err = net[d][s].err /\ Kept(S)
        <4>1. Uses(S, d, s, o) /\ At(S, "shut") /\ Moves(S)
          BY <1>2, <2>1, <3>1
        <4> QED BY <4>1, Shutting
      <3>2. 3 + 1 = 4
        OBVIOUS
      <3> QED BY <1>7, <3>1, <3>2
    <2> QED BY <1>2, <1>5, <1>7, <2>2 DEF Sep2, Same, Kept
  <1>8. CASE proc[S].pc = 4
    <2>1. At(S, "line") /\ Instr(S).to = 5 /\ Instr(S).errs = {5}
      BY <1>4, <1>8
    <2>2. net[d].server.err = "none" /\ net[d].server.shut
      BY <1>2, <1>8 DEF Sep2
    <2>3. PICK a \in Seq(Byte), x \in Seq(Byte) : a = proc[S].ahead /\ x = net[d].server.in
      BY <1>2, UsesEnds
    <2>4. a # << >> \/ x # << >> => proc[p].pc \in {0, 5}
      BY <1>2, <1>3, <2>3 DEF Sep2
    <2>5. CASE LineTaken(S, d, "server", "client")
      <3>1. PICK i \in 1 .. Len(a) : proc'[S].buf = SubSeq(a, 1, i)
        BY <2>3, <2>5 DEF LineTaken
      <3>2. Len(SubSeq(a, 1, i)) = i /\ a # << >>
        OBVIOUS
      <3>3. proc'[S].buf # << >>
        BY <3>1, <3>2
      <3>4. proc'[S].pc = 5 /\ net'[d].server = net[d].server /\ net'[d].client = net[d].client /\ proc[p].pc \in {0, 5}
        BY <1>8, <2>4, <2>5, <3>2 DEF LineTaken, Same
      <3> QED BY <1>2, <1>8, <2>2, <3>3, <3>4 DEF Sep2
    <2>6. CASE LineMore(S, d, "server", "client")
      <3>1. PICK k : Gets(d, "server", "client", k) /\ proc'[S].ahead = a \o SubSeq(x, 1, k)
        BY <2>3, <2>6 DEF LineMore
      <3>2. k \in 1 .. Len(x)
        BY <2>3, <3>1 DEF Gets
      <3>3. x # << >> /\ a \o SubSeq(x, 1, k) # << >>
        <4>1. SubSeq(x, 1, k) \in Seq(Byte) /\ Len(SubSeq(x, 1, k)) = k
          BY <3>2, PartedBytes, Zenon
        <4>4. PICK y \in Seq(Byte) : y = SubSeq(x, 1, k)
          BY <4>1, Zenon
        <4>2. Len(y) = k
          BY <4>1, <4>4, Zenon
        <4>3. a \o y # << >>
          <5>1. Len(a \o y) = Len(a) + Len(y)
            OBVIOUS
          <5>2. Len(a) \in Nat /\ Len(<< >>) = 0
            OBVIOUS
          <5> QED BY <3>2, <4>2, <5>1, <5>2
        <4> QED BY <3>2, <4>3, <4>4
      <3>4. net'[d].client = net[d].client /\ Rest(d, "server") /\ proc'[S].ahead # << >> /\ proc'[S].pc = 4 /\ proc[p].pc \in {0, 5}
        BY <1>8, <2>4, <2>6, <3>1, <3>3 DEF LineMore, Gets, Same
      <3> QED BY <1>2, <1>8, <2>2, <3>4 DEF Sep2, Rest
    <2>7. CASE LineOver(S, d, "server", "client")
      <3>1. x = << >> /\ ~ net[d].client.open /\ Same(d, "server") /\ Same(d, "client")
        BY <1>1, <2>2, <2>3, <2>7 DEF LineOver, Over0
      <3>2. proc[p].pc = 0
        BY <1>2, <1>3, <3>1 DEF Sep2
      <3>3. a # << >>
        BY <1>2, <1>8, <2>3, <3>1, <3>2 DEF Sep2
      <3>4. proc'[S].pc = 5 /\ proc'[S].buf # << >>
        BY <1>8, <2>1, <2>3, <2>7, <3>3 DEF LineOver
      <3> QED BY <1>2, <1>8, <2>2, <3>1, <3>2, <3>4 DEF Sep2, Same
    <2>8. ~ LineFailed(S, d, "server", "client")
      BY <2>2 DEF LineFailed, Fails0
    <2>9. Uses(S, d, "server", "client") /\ At(S, "line") /\ Moves(S)
      BY <1>2, <2>1
    <2>10. LineTaken(S, d, "server", "client") \/ LineMore(S, d, "server", "client") \/ LineOver(S, d, "server", "client")
           \/ LineFailed(S, d, "server", "client")
      BY <2>9, Lines
    <2> QED BY <2>5, <2>6, <2>7, <2>8, <2>10, Zenon
  <1> QED BY <1>4, <1>6, <1>7, <1>8

LEMMA Sep2Own ==
    ASSUME Names, NEW d \in Clients, Connections(d), Unshut(d), Patience(d)', Sep2(d), pair = "sep2", pair' = pair,
           NEW q \in Procs, Own(d, q)
    PROVE  Sep2(d)'
  <1> DEFINE p == P1(d)
  <1>1. /\ p \in Procs /\ S \in Procs /\ p # S /\ Script(p) = sep_clnt /\ pair \in Single
        /\ Stays(pair) = {2, 3} /\ ~ net[d].client.shut
    BY BothPrograms, PairsAre DEF Meet, Single, Stays, Unshut
  <1>2. CASE DoConnect(q) \/ ConnectFails(q)
    <2>1. /\ q = p /\ net[d].server = OpenEnd /\ serving' # d /\ net'[d].server = net[d].server
      BY <1>1, <1>2, Connects
    <2> QED BY <2>1 DEF Sep2, OpenEnd
  <1>3. CASE ~ DoConnect(q) /\ ~ ConnectFails(q)
    <2>1. /\ q = p /\ Uses(p, d, "client", "server") /\ (Here(d)' <=> Here(d)) /\ serving' = serving /\ proc'[S] = proc[S]
      BY <1>1, <1>3, Runs
    <2>2. serving = d => net[d].server.open /\ Here(d) /\ proc[p].pc # 1
      BY DEF Here, Connections
    <2>3. /\ proc[p].pc \in {0, 1, 2, 3, 4, 5} /\ (proc[p].pc = 1 => At(p, "connect")) /\ (proc[p].pc = 5 => At(p, "exit"))
          /\ proc[p].pc = 2 => At(p, "line") /\ Instr(p).to = 4 /\ Instr(p).errs = {4}
          /\ proc[p].pc = 3 => At(p, "goto") /\ Instr(p).to = 2
          /\ proc[p].pc = 4 => At(p, "put") /\ Instr(p).n = 2
      BY <1>1, SepClntAt DEF Stands
    <2>4. CASE ~ Moves(p)
      <3>1. /\ proc'[p].pc = 0 /\ Perishes(p) /\ ((Same(d, "server") /\ Same(d, "client")) \/ Closes(d, "client", "server"))
        BY <1>1, <1>3, <2>1, <2>4, Runs
      <3>2. ASSUME serving = d
            PROVE  proc[p].pc = 5 /\ Same(d, "server")
        <4>1. CASE proc[p].pc \in {0, 1, 3}
          <5>1. PICK op \in {"put", "echo", "read", "body", "fill", "line", "exit", "exitall"} : At(p, op)
            BY <1>1, <3>1, PerishesIs
          <5>2. proc[p].pc = 3
            BY <2>2, <3>2, <4>1, <5>1 DEF At
          <5> QED BY <2>3, <5>1, <5>2 DEF At
        <4>2. CASE proc[p].pc = 2
          <5>1. ReadFails(p)
            BY <2>3, <3>1, <4>2, PerishesBy
          <5>2. Failed(p)
            BY <1>1, <5>1, ReadFailsIs
          <5>3. net[d].client.err = "none"
            BY <3>2, <4>2 DEF Sep2
          <5> QED BY <2>1, <5>2, <5>3, UsesEnds DEF Failed
        <4>3. CASE proc[p].pc = 4
          <5>1. WriteKills(p)
            BY <2>3, <3>1, <4>3, PerishesBy
          <5>2. Mine(p).err \in {"pipe", "unconnected"}
            BY <1>1, <5>1, WriteKillsIs
          <5>3. net[d].client.err = "none"
            BY <3>2, <4>3 DEF Sep2
          <5> QED BY <2>1, <5>2, <5>3, UsesEnds
        <4>4. proc[p].pc = 5 => Same(d, "server")
          BY <3>1, <3>2 DEF Closes, Sep2
        <4> QED BY <2>3, <4>1, <4>2, <4>3, <4>4
      <3> QED BY <2>1, <3>1, <3>2 DEF Sep2, Same
    <2>5. CASE Moves(p) /\ proc[p].pc = 2
      <3>1. Uses(p, d, "client", "server") /\ At(p, "line") /\ Moves(p)
        BY <2>1, <2>3, <2>5
      <3>2. LineTaken(p, d, "client", "server") \/ LineMore(p, d, "client", "server") \/ LineOver(p, d, "client", "server")
            \/ LineFailed(p, d, "client", "server")
        BY <3>1, Lines
      <3>3. CASE LineTaken(p, d, "client", "server") \/ LineMore(p, d, "client", "server")
        <4>1. proc'[p].pc \in {2, 3} /\ Same(d, "server") /\ Rest(d, "client")
          <5>1. CASE LineTaken(p, d, "client", "server")
            <6>1. Same(d, "client") /\ Same(d, "server") /\ proc'[p].pc = proc[p].pc + 1
              BY <5>1, Zenon DEF LineTaken
            <6> QED BY <2>5, <6>1 DEF Same, Rest
          <5>2. CASE LineMore(p, d, "client", "server")
            <6>1. PICK k : Gets(d, "client", "server", k) /\ proc'[p].pc = proc[p].pc
              BY <5>2, Zenon DEF LineMore
            <6> QED BY <2>5, <6>1 DEF Gets
          <5> QED BY <3>3, <5>1, <5>2
        <4> QED BY <2>1, <2>2, <2>5, <4>1 DEF Sep2, Same, Rest
      <3>4. CASE LineOver(p, d, "client", "server")
        <4>1. proc'[p].pc \in {3, 4} /\ Same(d, "server") /\ Same(d, "client") /\ net[d].client.in = << >>
          BY <2>3, <2>5, <3>4 DEF LineOver, Over0
        <4> QED BY <2>1, <2>2, <2>5, <4>1 DEF Sep2, Same
      <3>5. CASE LineFailed(p, d, "client", "server")
        <4>1. proc'[p].pc = 4 /\ Same(d, "server") /\ net[d].client.err # "none"
          BY <2>3, <2>5, <3>5 DEF LineFailed, Fails0
        <4>2. serving # d
          BY <2>5, <4>1 DEF Sep2
        <4> QED BY <2>1, <2>5, <4>1, <4>2 DEF Sep2, Same
      <3> QED BY <3>2, <3>3, <3>4, <3>5
    <2>6. CASE Moves(p) /\ proc[p].pc = 3
      <3>1. At(p, "goto") /\ Instr(p).to = 2
        BY <2>3, <2>6
      <3>2. proc'[p].pc = 2 /\ Same(d, "server") /\ Same(d, "client")
        BY <2>1, <2>6, <3>1, Quiet
      <3> QED BY <2>1, <2>2, <2>6, <3>2 DEF Sep2, Same
    <2>7. CASE Moves(p) /\ proc[p].pc = 4
      <3>1. At(p, "put") /\ Instr(p).n = 2 /\ 2 \in Nat \ {0}
        BY <2>3, <2>7
      <3>2. proc'[p].pc = 5 /\ net'[d].client.in = net[d].client.in
        BY <2>1, <2>7, <3>1, Wrote
      <3>3. ASSUME serving = d
            PROVE  net'[d].client = net[d].client /\ Rest(d, "server") /\ net'[d].server.in # << >>
        <4>1. net[d].client.err = "none" /\ net[d].server.open /\ net[d].server.in = << >>
          BY <2>2, <2>7, <3>3 DEF Sep2
        <4>2. net'[d].client = net[d].client /\ Rest(d, "server") /\ net'[d].server.in = net[d].server.in \o Msg(2)
          BY <2>1, <2>7, <3>1, <4>1, ClientPuts
        <4> QED BY <4>1, <4>2, Two, Zenon
      <3> QED BY <2>1, <2>2, <2>7, <3>2, <3>3 DEF Sep2, Rest
    <2>8. Moves(p) => proc[p].pc \in {2, 3, 4}
      BY <1>1, <2>3, MovesBy, MovesIs, Place
    <2> QED BY <2>4, <2>5, <2>6, <2>7, <2>8
  <1> QED BY <1>2, <1>3

LEMMA Sep2Kept ==
    ASSUME Names, NEW d \in Clients, Connections(d), Unshut(d), Patience(d), Patience(d)', Sep2(d), pair = "sep2", Next
    PROVE  Sep2(d)'
  <1> DEFINE p == P1(d)
  <1>1. pair' = pair
    BY PairStays
  <1>2. CASE Still(d)
    BY <1>2, StillHere DEF Sep2
  <1>3. CASE Left(d)
    <2>1. ~ Here(d)' /\ serving' # d
      BY <1>3, LeftAlone
    <2> QED BY <2>1, Zenon DEF Sep2
  <1>4. CASE DoAccept(d)
    <2>1. /\ Here(d) /\ serving # d /\ serving' = d /\ proc'[S].pc = 2 /\ proc[S].pc = 1 /\ conn[d] = "queued"
          /\ proc'[p] = proc[p] /\ net'[d] = net[d] /\ proc'[S].ahead = << >>
      BY <1>4, Accepted
    <2>2. ~ net[d].server.shut /\ net[d].server.err = "none"
      BY <2>1 DEF Connections
    <2>3. proc[p].pc \in {2, 3} /\ net[d].client.open /\ net[d].client.err = "none"
      BY <2>1, <2>2 DEF Patience, Stays
    <2> QED BY <2>1, <2>2, <2>3 DEF Sep2
  <1>5. CASE Served(d)
    <2>1. CASE ~ Moves(S)
      <3>1. ~ Here(d)' /\ serving' # d
        BY <1>5, <2>1, Works
      <3> QED BY <3>1, Zenon DEF Sep2
    <2>2. CASE Moves(S)
      BY <1>5, <2>2, Sep2Served
    <2> QED BY <2>1, <2>2
  <1>6. ASSUME NEW q \in Procs, Own(d, q) PROVE Sep2(d)'
    BY <1>1, <1>6, Sep2Own
  <1> QED BY <1>2, <1>3, <1>4, <1>5, <1>6, ForOne

-----------------------------------------------------------------------------
(* The steps of the server. *)
LEMMA OthersStep ==
    ASSUME Names, NEW p \in Procs, p # S, Step(p)
    PROVE  proc'[S] = proc[S] /\ (S \in killed' => S \in killed)
  <1>1. S \in Procs /\ ~ DoClose(p)
    BY Apart, DoCloseIs
  <1>2. CASE Moves(p)
    BY <1>1, <1>2, MovesIs DEF Local
  <1>3. CASE Perishes(p)
    <2>1. PICK Q : Fate(p, Q)
      BY <1>3, PerishesIs
    <2>2. Ended0(Q) /\ S \notin Q
      BY <2>1, FateIs
    <2>3. S \notin Together(p)
      BY Apart DEF Together, P1, P2
    <2>4. killed' = killed \/ killed' = killed \cup Together(p)
      BY <1>3, PerishesIs
    <2> QED BY <1>1, <2>2, <2>3, <2>4 DEF Ended0
  <1>4. CASE DoConnect(p)
    BY <1>1, <1>4, DoConnectIs
  <1>5. CASE ConnectFails(p)
    BY <1>1, <1>5, ConnectFailsIs
  <1>6. CASE DoFork(p)
    <2>1. p[1] \in Clients /\ (\A q \in Procs \ {p, P2(p[1])} : proc'[q] = proc[q]) /\ killed' = killed
      BY <1>6, DoForkIs
    <2> QED BY <1>1, <2>1, Apart
  <1> QED BY <1>1, <1>2, <1>3, <1>4, <1>5, <1>6, StepIs

LEMMA ServerSteps ==
    ASSUME Names, Next
    PROVE  \/ \E c \in Clients : DoAccept(c)
           \/ serving \in Clients /\ Served(serving)
           \/ /\ serving = NULL /\ proc'[S].buf = proc[S].buf
              /\ \/ At(S, "again") /\ proc'[S].pc \in {Instr(S).to, proc[S].pc + 1}
                 \/ At(S, "exit") /\ proc'[S].pc = 0
           \/ proc'[S] = proc[S]
  <1>1. S \in Procs /\ ~ DoConnect(S) /\ ~ ConnectFails(S) /\ ~ DoFork(S) /\ NULL \notin Clients
    BY Apart, DoConnectIs, ConnectFailsIs, DoForkIs
  <1>2. (\E c \in Clients : DoAccept(c)) \/ Moves(S) \/ Perishes(S) \/ DoClose(S) \/ proc'[S] = proc[S]
    BY <1>1, StepIs, OthersStep DEF Next
  <1>3. CASE serving \in Clients /\ (Moves(S) \/ Perishes(S) \/ DoClose(S))
    <2>1. P1(serving) \in Procs /\ P2(serving) \in Procs /\ P1(serving) # S /\ P2(serving) # S
      BY <1>3, Apart
    <2>2. CASE Moves(S)
      <3>1. (\A q \in Procs : q # S => proc'[q] = proc[q]) /\ UNCHANGED <<conn, fds>>
        BY <1>1, <2>2, MovesIs DEF Local
      <3> QED BY <1>3, <2>1, <3>1 DEF Served
    <2>3. CASE Perishes(S)
      <3>1. PICK Q : Fate(S, Q) /\ conn' = conn
        BY <1>1, <2>3, PerishesIs
      <3>2. Ended0(Q) /\ fds' = fds /\ Q = {S}
        BY <1>1, <3>1, FateIs DEF Fate
      <3> QED BY <1>3, <2>1, <3>1, <3>2 DEF Served, Ended0
    <2>4. CASE DoClose(S)
      <3>1. (\A q \in Procs : q # S => proc'[q] = proc[q]) /\ UNCHANGED <<conn, fds>>
        BY <1>1, <2>4, DoCloseIs
      <3> QED BY <1>3, <2>1, <3>1 DEF Served
    <2> QED BY <1>3, <2>2, <2>3, <2>4
  <1>4. CASE serving \notin Clients /\ Moves(S)
    <2>1. PICK op \in Moving : At(S, op)
      BY <1>1, <1>4, MovesIs
    <2>2. op = "again"
      BY <1>1, <1>4, <2>1, Connected DEF Moving
    <2>3. Jump(S)
      BY <1>4, <2>1, <2>2, MovesBy
    <2>4. proc'[S].buf = proc[S].buf /\ proc'[S].pc \in {Instr(S).to, proc[S].pc + 1}
      BY <1>1, <2>1, <2>2, <2>3, JumpIs DEF At
    <2> QED BY <1>4, <2>1, <2>2, <2>4 DEF Names, SessionTypes
  <1>5. CASE serving \notin Clients /\ Perishes(S)
    <2>1. PICK op \in {"put", "echo", "read", "body", "fill", "line", "exit", "exitall"} : At(S, op)
      BY <1>1, <1>5, PerishesIs
    <2>2. op = "exit"
      BY <1>1, <1>5, <2>1, Connected
    <2>3. PICK Q : Fate(S, Q)
      BY <1>1, <1>5, PerishesIs
    <2>4. Ended0(Q) /\ Q = {S}
      BY <1>1, <2>3, FateIs DEF Fate
    <2>5. proc'[S].buf = proc[S].buf /\ proc'[S].pc = 0
      BY <2>4 DEF Ended0
    <2> QED BY <1>5, <2>1, <2>2, <2>5 DEF Names, SessionTypes
  <1>6. DoClose(S) => serving \in Clients
    BY <1>1, DoCloseIs
  <1> QED BY <1>2, <1>3, <1>4, <1>5, <1>6

(* Only a write() kills the server, and only while it serves a client. *)
LEMMA KilledBy ==
    ASSUME Names, Next, S \in killed', S \notin killed
    PROVE  WriteKills(S) /\ serving \in Clients
  <1>1. S \in Procs
    BY Apart
  <1>2. ~ \E c \in Clients : DoAccept(c)
    BY DEF DoAccept
  <1>3. Step(S)
    BY <1>2, OthersStep DEF Next
  <1>4. ~ Moves(S) /\ ~ DoConnect(S) /\ ~ ConnectFails(S) /\ ~ DoFork(S) /\ ~ DoClose(S)
    BY <1>1, MovesIs, DoConnectIs, ConnectFailsIs, DoForkIs, DoCloseIs
  <1>5. Perishes(S)
    BY <1>1, <1>3, <1>4, StepIs
  <1>6. WriteKills(S)
    BY <1>1, <1>5, PerishesIs
  <1>7. ConnOf(S) \in Clients
    BY <1>1, <1>6, WriteKillsIs
  <1> QED BY <1>6, <1>7 DEF ConnOf

(* A server without an error, whose instructions give no other reason, ends where it means to. *)
LEMMA EndsAtExit ==
    ASSUME Names, NEW d \in Clients, Served(d), ~ Moves(S), net[d].server.err = "none"
    PROVE  At(S, "exit") \/ At(S, "close")
  <1>1. S \in Procs /\ serving = d
    BY Apart DEF Served
  <1>2. Perishes(S) \/ DoClose(S)
    BY DEF Served
  <1>3. Mine(S).err = "none"
    BY <1>1 DEF Mine, ConnOf, SideOf
  <1>4. ~ WriteKills(S)
    BY <1>1, <1>3, WriteKillsIs
  <1>5. ~ ReadFails(S)
    <2>1. ~ Failed(S)
      BY <1>3 DEF Failed
    <2> QED BY <1>1, <2>1, ReadFailsIs
  <1>6. CASE DoExit(S)
    <2>1. ~ At(S, "exitall")
      BY <1>1, Parts0
    <2> QED BY <1>1, <1>6, <2>1, DoExitIs
  <1> QED BY <1>1, <1>2, <1>4, <1>5, <1>6, DoCloseIs DEF Perishes

LEMMA FileToldKept ==
    ASSUME Names, pair = "file", FileTold, Next,
           \A d \in Clients : Connections(d) /\ Unshut(d) /\ Patience(d) /\ File(d)
    PROVE  FileTold'
  <1>1. S \in Procs /\ Script(S) = file_server
    BY Apart, PairsAre DEF Script, Meet
  <1>2. /\ proc[S].pc \in {0, 1, 2, 3, 4, 5, 6, 7}
        /\ ~ At(S, "close") /\ ~ At(S, "again") /\ (At(S, "exit") => proc[S].pc = 7)
    <2>1. /\ proc[S].pc = 1 => Instr(S).op = "accept"
          /\ proc[S].pc \in {2, 3} => Instr(S).op = "put"
          /\ proc[S].pc = 4 => Instr(S).op = "shut"
          /\ proc[S].pc = 5 => Instr(S).op = "read"
          /\ proc[S].pc = 6 => Instr(S).op = "show"
          /\ proc[S].pc = 7 => Instr(S).op = "exit"
          /\ proc[S].pc \in {0, 1, 2, 3, 4, 5, 6, 7}
      BY <1>1, FileServerAt DEF Stands
    <2> QED BY <2>1 DEF At
  <1>3. CASE \E c \in Clients : DoAccept(c)
    <2>1. proc'[S].pc = 2
      BY <1>3, DoAcceptIs
    <2> QED BY <2>1 DEF FileTold
  <1>4. CASE serving \in Clients /\ Served(serving)
    <2>1. PICK d \in Clients : d = serving
      BY <1>4
    <2>2. Connections(d) /\ Unshut(d) /\ Patience(d) /\ File(d) /\ Served(d) /\ net[d].server.err = "none"
      BY <1>4, <2>1 DEF File
    <2>3. CASE Moves(S)
      <3>1. /\ proc'[S].pc \in 3 .. 7 /\ (proc'[S].pc >= 6 => proc[S].pc \in {5, 6})
            /\ proc[S].pc = 5 => proc'[S].buf # << >>
            /\ proc[S].pc = 6 => proc'[S].buf = proc[S].buf
        BY <2>2, <2>3, FileServed
      <3> QED BY <3>1 DEF FileTold
    <2>4. CASE ~ Moves(S)
      <3>1. proc[S].pc = 7
        BY <1>2, <2>2, <2>4, EndsAtExit
      <3>2. proc'[S].buf = proc[S].buf
        BY <2>2, <2>4, Works
      <3> QED BY <3>1, <3>2 DEF FileTold
    <2> QED BY <2>3, <2>4
  <1>5. CASE proc'[S].buf = proc[S].buf /\ At(S, "exit")
    BY <1>2, <1>5 DEF FileTold
  <1>6. CASE proc'[S] = proc[S]
    BY <1>6 DEF FileTold
  <1> QED BY <1>2, <1>3, <1>4, <1>5, <1>6, ServerSteps

LEMMA Sep2ToldKept ==
    ASSUME Names, pair = "sep2", Sep2Told, Next,
           \A d \in Clients : Connections(d) /\ Unshut(d) /\ Patience(d) /\ Sep2(d)
    PROVE  Sep2Told'
  <1>1. S \in Procs /\ Script(S) = sep_serv2
    BY Apart, PairsAre DEF Script, Meet
  <1>2. ~ At(S, "close") /\ ~ At(S, "again") /\ (At(S, "exit") => proc[S].pc = 5)
    <2>1. /\ proc[S].pc = 1 => Instr(S).op = "accept"
          /\ proc[S].pc = 2 => Instr(S).op = "put"
          /\ proc[S].pc = 3 => Instr(S).op = "shut"
          /\ proc[S].pc = 4 => Instr(S).op = "line"
          /\ proc[S].pc = 5 => Instr(S).op = "exit"
          /\ proc[S].pc \in {0, 1, 2, 3, 4, 5}
      BY <1>1, SepServ2At DEF Stands
    <2> QED BY <2>1 DEF At
  <1>3. CASE \E c \in Clients : DoAccept(c)
    <2>1. proc'[S].pc = 2
      BY <1>3, DoAcceptIs
    <2> QED BY <2>1 DEF Sep2Told
  <1>4. CASE serving \in Clients /\ Served(serving)
    <2>1. PICK d \in Clients : d = serving
      BY <1>4
    <2>2. Connections(d) /\ Unshut(d) /\ Patience(d) /\ Sep2(d) /\ Served(d) /\ net[d].server.err = "none"
      BY <1>4, <2>1 DEF Sep2
    <2>3. CASE Moves(S)
      <3>1. proc'[S].pc \in 3 .. 5 /\ (proc'[S].pc = 5 => proc'[S].buf # << >>)
        BY <2>2, <2>3, Sep2Served
      <3> QED BY <3>1 DEF Sep2Told
    <2>4. CASE ~ Moves(S)
      <3>1. proc[S].pc = 5
        BY <1>2, <2>2, <2>4, EndsAtExit
      <3>2. proc'[S].buf = proc[S].buf
        BY <2>2, <2>4, Works
      <3> QED BY <3>1, <3>2 DEF Sep2Told
    <2> QED BY <2>3, <2>4
  <1>5. CASE proc'[S].buf = proc[S].buf /\ At(S, "exit")
    BY <1>2, <1>5 DEF Sep2Told
  <1>6. CASE proc'[S] = proc[S]
    BY <1>6 DEF Sep2Told
  <1> QED BY <1>2, <1>3, <1>4, <1>5, <1>6, ServerSteps

(* The first byte of Msg(2) alone is no message. *)
LEMMA HalfMsg ==
    ASSUME NEW k \in 1 .. Len(Msg(2))
    PROVE  \/ SubSeq(Msg(2), k + 1, Len(Msg(2))) = << >>
           \/ SubSeq(Msg(2), 1, k) # << >> /\ ~ IsMsg(SubSeq(Msg(2), 1, k))
  <1>1. PICK m \in Seq(Byte) : m = Msg(2) /\ Len(m) = 2 /\ m[1] = <<1, 2>>
    BY Two, MsgBytes
  <1>2. k \in 1 .. Len(m)
    BY <1>1, Zenon
  <1>3. CASE k = 2
    <2>1. Len(SubSeq(m, k + 1, Len(m))) = 0 /\ SubSeq(m, k + 1, Len(m)) \in Seq(Byte)
      <3>1. Len(SubSeq(m, k + 1, Len(m))) = Len(m) - k /\ SubSeq(m, k + 1, Len(m)) \in Seq(Byte)
        BY <1>2, PartedBytes, Zenon
      <3>2. 2 - 2 = 0
        OBVIOUS
      <3> QED BY <1>1, <1>3, <3>1, <3>2, Zenon
    <2>2. SubSeq(m, k + 1, Len(m)) = << >>
      <3>1. PICK y \in Seq(Byte) : y = SubSeq(m, k + 1, Len(m)) /\ Len(y) = 0
        BY <2>1, Zenon
      <3>2. y = << >>
        BY <3>1
      <3> QED BY <3>1, <3>2, Zenon
    <2> QED BY <1>1, <2>2, Zenon
  <1>4. CASE k = 1
    <2>1. SubSeq(m, 1, k) \in Seq(Byte) /\ Len(SubSeq(m, 1, k)) = k
      BY <1>2, PartedBytes, Zenon
    <2>2. SubSeq(m, 1, k)[1] = m[1]
      BY <1>1, <1>4
    <2>3. PICK y \in Seq(Byte) : y = SubSeq(m, 1, k) /\ Len(y) = 1 /\ y[1] = <<1, 2>>
      BY <1>1, <1>4, <2>1, <2>2, Zenon
    <2>7. Len(<< >>) = 0 /\ 0 # 1
      OBVIOUS
    <2>4. y # << >>
      BY <2>3, <2>7, Zenon
    <2>5. ASSUME NEW n \in 1 .. 3, y = Msg(n) PROVE FALSE
      <3>1. n \in Nat /\ 1 \in 1 .. n
        OBVIOUS
      <3>2. Msg(n)[1] = <<1, n>> /\ Len(Msg(n)) = n
        BY <3>1, MsgBytes, Zenon
      <3>3. <<1, n>> = <<1, 2>> /\ n = 1
        BY <2>3, <2>5, <3>2, Zenon
      <3> QED BY <3>3
    <2>6. ~ IsMsg(y)
      BY <2>5 DEF IsMsg
    <2> QED
      <3>1. SubSeq(Msg(2), 1, k) = y
        BY <1>1, <2>3, Zenon
      <3> QED BY <2>4, <2>6, <3>1, Zenon
  <1>5. k = 1 \/ k = 2
    <2>1. k \in 1 .. 2
      BY <1>1, <1>2, Zenon
    <2> QED BY <2>1
  <1> QED BY <1>3, <1>4, <1>5

(* What tcp_server_kehou6 and its client do at each of their positions. *)
LEMMA Kehou6Places ==
    ASSUME Names, NEW d \in Clients, pair = "kehou6"
    PROVE  /\ P1(d) \in Procs /\ S \in Procs /\ P1(d) # S /\ pair \in Single /\ pair \in Talkers
           /\ pair \in Patients /\ Stays(pair) = {2, 3}
           /\ proc[P1(d)].pc \in {0, 1, 2, 3, 4, 5}
           /\ proc[P1(d)].pc = 1 => At(P1(d), "connect") /\ Instr(P1(d)).errs = {2}
           /\ proc[P1(d)].pc = 2 => At(P1(d), "put") /\ Instr(P1(d)).n = 2
           /\ proc[P1(d)].pc = 3 => At(P1(d), "fill") /\ Instr(P1(d)).n = 9 /\ Instr(P1(d)).to = 4 /\ Instr(P1(d)).errs = {0, 3}
           /\ proc[P1(d)].pc = 4 => At(P1(d), "show")
           /\ proc[P1(d)].pc = 5 => At(P1(d), "exit")
           /\ proc[S].pc \in {0, 1, 2, 3, 4, 5, 6, 7}
           /\ proc[S].pc = 2 => At(S, "read") /\ Instr(S).to = 3 /\ Instr(S).errs = {3}
           /\ proc[S].pc = 3 => At(S, "show")
           /\ proc[S].pc = 4 => At(S, "choose") /\ Instr(S).to = 7
           /\ proc[S].pc \in {5, 6} => At(S, "put") /\ Instr(S).n = 2
           /\ proc[S].pc = 7 => At(S, "exit")
  <1> DEFINE p == P1(d)
  <1>1. p \in Procs /\ S \in Procs /\ p # S /\ Script(p) = tcp_client_kehou6 /\ Script(S) = tcp_server_kehou6
    BY BothPrograms, PairsAre DEF Meet
  <1>2. pair \in Single /\ pair \in Talkers /\ pair \in Patients /\ Stays(pair) = {2, 3}
    BY DEF Single, Talkers, Patients, Stays
  <1>3. /\ proc[p].pc \in {0, 1, 2, 3, 4, 5}
        /\ proc[p].pc = 1 => At(p, "connect") /\ Instr(p).errs = {2}
        /\ proc[p].pc = 2 => At(p, "put") /\ Instr(p).n = 2
        /\ proc[p].pc = 3 => At(p, "fill") /\ Instr(p).n = 9 /\ Instr(p).to = 4 /\ Instr(p).errs = {0, 3}
        /\ proc[p].pc = 4 => At(p, "show")
        /\ proc[p].pc = 5 => At(p, "exit")
    BY <1>1, TcpClientKehou6At DEF Stands
  <1>4. /\ proc[S].pc \in {0, 1, 2, 3, 4, 5, 6, 7}
        /\ proc[S].pc = 2 => At(S, "read") /\ Instr(S).to = 3 /\ Instr(S).errs = {3}
        /\ proc[S].pc = 3 => At(S, "show")
        /\ proc[S].pc = 4 => At(S, "choose") /\ Instr(S).to = 7
        /\ proc[S].pc \in {5, 6} => At(S, "put") /\ Instr(S).n = 2
        /\ proc[S].pc = 7 => At(S, "exit")
    BY <1>1, TcpServerKehou6At DEF Stands
  <1> QED BY <1>1, <1>2, <1>3, <1>4

LEMMA Kehou6Served ==
    ASSUME Names, NEW d \in Clients, Connections(d), Unshut(d), Patience(d), Kehou6(d), pair = "kehou6", Served(d), Moves(S)
    PROVE  Kehou6(d)'
  <1> DEFINE p == P1(d)
  <1>1. /\ p \in Procs /\ S \in Procs /\ p # S /\ ~ net[d].server.shut /\ ~ net[d].client.shut
    BY Kehou6Places DEF Unshut
  <1>2. /\ Uses(S, d, "server", "client") /\ serving = d /\ Here(d) /\ proc'[p] = proc[p] /\ serving' = d /\ Here(d)'
        /\ proc[S].pc \notin {0, 1} /\ net[d].server.open /\ torn \subseteq torn'
    BY Works, MovesIs, <1>1 DEF Served
  <1>3. proc[p].pc \in {2, 3} /\ net[d].client.open /\ net[d].client.err = "none" /\ net[d].server.err = "none"
    BY <1>1, <1>2, Kehou6Places DEF Patience
  <1>4. proc[S].pc \in {2, 3, 4, 5, 6}
    <2>1. proc[S].pc \in {2, 3, 4, 5, 6, 7} /\ (proc[S].pc = 7 => At(S, "exit"))
      BY <1>2, Kehou6Places
    <2> QED BY <2>1, MovesBy
  <1>5. CASE proc[S].pc = 2
    <2>1. At(S, "read") /\ Instr(S).to = 3 /\ Instr(S).errs = {3}
      BY <1>5, Kehou6Places
    <2>2. ~ Fails0(d, "server", "client") /\ ~ Over0(d, "server", "client")
      BY <1>1, <1>3 DEF Fails0, Over0
    <2>3. PICK k : Gets(d, "server", "client", k) /\ proc'[S].buf = SubSeq(net[d].server.in, 1, k) /\ proc'[S].pc = 3
      BY <1>2, <1>5, <2>1, <2>2, Reads
    <2>4. Text(d) = << >> /\ net[d].server.in = IF proc[p].pc = 3 THEN Msg(2) ELSE << >>
      BY <1>2, <1>5 DEF Kehou6
    <2>5. net[d].server.in # << >>
      BY <2>3 DEF Gets
    <2>6. proc[p].pc = 3 /\ net[d].server.in = Msg(2)
      BY <1>3, <2>4, <2>5
    <2>7. /\ k \in 1 .. Len(Msg(2)) /\ net'[d].server.in = SubSeq(Msg(2), k + 1, Len(Msg(2)))
          /\ proc'[S].buf = SubSeq(Msg(2), 1, k)
          /\ net'[d].client = net[d].client
      BY <2>3, <2>6 DEF Gets, Same
    <2>8. net'[d].server.in = << >> \/ (proc'[S].buf # << >> /\ ~ IsMsg(proc'[S].buf))
      BY <2>7, HalfMsg, Zenon
    <2>9. Text(d)' = << >>
      BY <1>2, <2>4, <2>7, Zenon DEF Text
    <2> QED BY <1>2, <2>3, <2>6, <2>8, <2>9 DEF Kehou6
  <1>6. CASE proc[S].pc = 3
    <2>1. At(S, "show") /\ proc[p].pc = 3
      BY <1>2, <1>6, Kehou6Places DEF Kehou6
    <2>2. /\ proc'[S].pc = 4 /\ Same(d, "client") /\ Same(d, "server")
          /\ IF ~ Right(S) THEN torn' = torn \cup {S} ELSE torn' = torn
      BY <1>2, <1>6, <2>1, Quiet
    <2>5. Text(d) = << >>
      BY <1>2, <1>6 DEF Kehou6
    <2>3. Text(d)' = << >>
      BY <1>2, <2>2, <2>5, Zenon DEF Text, Same
    <2>4. net[d].server.in = << >> \/ S \in torn'
      <3>1. ~ Gathered(S)
        <4>1. Script(S)[2].op = "read" /\ proc[S].pc - 1 = 2
          BY <1>1, <1>6, BothPrograms, PairsAre, TcpServerKehou6Text DEF Meet, I
        <4> QED BY <4>1 DEF Gathered
      <3>2. net[d].server.in = << >> \/ ~ Right(S)
        BY <1>2, <1>6, <3>1 DEF Kehou6, Right
      <3> QED BY <2>2, <3>2
    <2> QED BY <1>2, <2>1, <2>2, <2>3, <2>4 DEF Kehou6, Same
  <1>7. CASE proc[S].pc = 4
    <2>1. At(S, "choose") /\ Instr(S).to = 7 /\ proc[p].pc = 3 /\ 4 + 1 = 5
      BY <1>2, <1>7, Kehou6Places DEF Kehou6
    <2>2. proc'[S].pc \in {7, 5} /\ Same(d, "client") /\ Same(d, "server")
      BY <1>2, <1>7, <2>1, Quiet
    <2>5. Text(d) = << >>
      BY <1>2, <1>7 DEF Kehou6
    <2>3. Text(d)' = << >>
      BY <1>2, <2>2, <2>5, Zenon DEF Text, Same
    <2> QED BY <1>2, <1>7, <2>1, <2>2, <2>3 DEF Kehou6, Same
  <1>8. CASE proc[S].pc \in {5, 6}
    <2>1. At(S, "put") /\ Instr(S).n = 2 /\ 2 \in Nat \ {0} /\ proc[p].pc = 3
      BY <1>2, <1>8, Kehou6Places DEF Kehou6
    <2>2. /\ proc'[S].pc = proc[S].pc + 1 /\ net'[d].server = net[d].server /\ torn' = torn
          /\ net'[d].client.in = net[d].client.in \o Msg(2)
      BY <1>2, <1>3, <2>1, ServerPuts
    <2>3. Text(d)' = Text(d) \o Msg(2)
      BY <1>2, <2>2, TextGrows, Two
    <2>4. Text(d)' = IF proc[S].pc = 5 THEN Msg(2) ELSE Twice
      <3>1. Text(d) = IF proc[S].pc = 5 THEN << >> ELSE Msg(2)
        BY <1>2, <1>8 DEF Kehou6
      <3> QED BY <2>3, <3>1, Two, Zenon
    <2> QED BY <1>2, <1>8, <2>1, <2>2, <2>4 DEF Kehou6
  <1> QED BY <1>4, <1>5, <1>6, <1>7, <1>8

LEMMA Kehou6Own ==
    ASSUME Names, NEW d \in Clients, Connections(d), Unshut(d), Patience(d), Patience(d)', Unshut(d)',
           Kehou6(d), pair = "kehou6", pair' = pair,
           NEW q \in Procs, Own(d, q), torn \subseteq torn'
    PROVE  Kehou6(d)'
  <1> DEFINE p == P1(d)
  <1>1. /\ p \in Procs /\ S \in Procs /\ p # S /\ pair \in Single
        /\ ~ net[d].server.shut /\ ~ net'[d].server.shut /\ ~ net[d].client.shut
    BY Kehou6Places DEF Unshut
  <1>2. CASE DoConnect(q) \/ ConnectFails(q)
    <2>1. /\ q = p /\ net[d].server = OpenEnd /\ serving' # d /\ net'[d].server = net[d].server /\ Text(d)' = << >>
          /\ proc[p].pc = 1
      BY <1>1, <1>2, Connects
    <2>2. proc'[p].pc = 2 \/ proc'[p].pc \in Instr(p).errs
      BY <1>1, <1>2, <2>1, Connects
    <2>3. proc'[p].pc = 2
      BY <2>1, <2>2, Kehou6Places
    <2> QED BY <2>1, <2>3 DEF Kehou6, OpenEnd, Whole
  <1>3. CASE ~ DoConnect(q) /\ ~ ConnectFails(q)
    <2>1. /\ q = p /\ Uses(p, d, "client", "server") /\ (Here(d)' <=> Here(d)) /\ serving' = serving /\ proc'[S] = proc[S]
      BY <1>1, <1>3, Runs
    <2>2. Here(d) => net[d].server.open /\ proc[p].pc \in {2, 3} /\ net[d].client.err = "none"
      BY <1>1, Kehou6Places DEF Connections, Patience
    <2>9. serving = d => Here(d)
      BY DEF Here
    <2>4. CASE ~ Moves(p)
      <3>1. proc'[p].pc = 0
        BY <1>1, <1>3, <2>1, <2>4, Runs
      <3>2. ~ Here(d)
        BY <1>1, <2>1, <3>1, Kehou6Places DEF Patience
      <3> QED BY <2>1, <2>9, <3>1, <3>2 DEF Kehou6
    <2>5. CASE Moves(p) /\ proc[p].pc = 2
      <3>1. At(p, "put") /\ Instr(p).n = 2 /\ 2 \in Nat \ {0}
        BY <2>5, Kehou6Places
      <3>2. proc'[p].pc = 3 /\ net'[d].client.in = net[d].client.in /\ proc'[p].buf = proc[p].buf
        BY <2>1, <2>5, <3>1, Wrote
      <3>3. Text(d)' = Text(d)
        BY <3>2, Zenon DEF Text
      <3>4. ASSUME Here(d)
            PROVE  net'[d].server.in = Msg(2) /\ (serving = d => proc[S].pc = 2)
        <4>1. serving = d => proc[S].pc = 2
          <5>1. serving = d => proc[S].pc \in {2, 3, 4, 5, 6, 7}
            BY Kehou6Places, AtWork
          <5> QED BY <2>5, <5>1 DEF Kehou6
        <4>2. net[d].client.err = "none" /\ net[d].server.open /\ net[d].server.in = << >>
          BY <2>2, <2>5, <3>4, <4>1 DEF Kehou6
        <4>3. net'[d].server.in = net[d].server.in \o Msg(2)
          BY <2>1, <2>5, <3>1, <4>2, ClientPuts
        <4> QED BY <4>1, <4>2, <4>3, Two, Zenon
      <3> QED BY <2>1, <2>5, <2>9, <3>2, <3>3, <3>4 DEF Kehou6
    <2>6. CASE Moves(p) /\ proc[p].pc = 3
      <3>1. At(p, "fill") /\ Instr(p).n = 9 /\ Instr(p).to = 4 /\ Instr(p).errs = {0, 3}
        BY <2>6, Kehou6Places
      <3>2. Text(d) \in Whole \/ S \in torn
        <4>1. serving = d => proc[S].pc \in {2, 3, 4, 5, 6, 7}
          BY Kehou6Places, AtWork
        <4> QED BY <2>6, <2>9, <4>1 DEF Kehou6, Whole
      <3>3. CASE \E k : /\ Gets(d, "client", "server", k) /\ proc'[p].buf = proc[p].buf \o SubSeq(net[d].client.in, 1, k)
                        /\ proc'[p].pc = IF Len(proc[p].buf) + k >= 9 THEN proc[p].pc + 1 ELSE proc[p].pc
        <4>1. PICK k : /\ Gets(d, "client", "server", k) /\ proc'[p].buf = proc[p].buf \o SubSeq(net[d].client.in, 1, k)
                       /\ proc'[p].pc = IF Len(proc[p].buf) + k >= 9 THEN proc[p].pc + 1 ELSE proc[p].pc
          BY <3>3
        <4>2. Text(d)' = Text(d) /\ net'[d].server = net[d].server
          BY <4>1, TextStays DEF Gets, Same
        <4>3. proc'[p].pc = 3 \/ (proc'[p].pc = 4 /\ S \in torn)
          BY <2>6, <3>2, <4>1, RoomLeft
        <4>4. Here(d) => proc'[p].pc = 3
          <5>1. Here(d)' => proc'[p].pc \in {2, 3}
            BY <1>1, Kehou6Places DEF Patience
          <5> QED BY <2>1, <4>3, <5>1
        <4> QED BY <2>1, <2>6, <2>9, <3>2, <4>2, <4>3, <4>4 DEF Kehou6
      <3>4. CASE Over0(d, "client", "server") /\ proc'[p].buf = proc[p].buf /\ proc'[p].pc = 4
        <4>1. net'[d].client = net[d].client /\ net'[d].server = net[d].server /\ net[d].client.in = << >>
          BY <3>4 DEF Over0, Same
        <4>2. Text(d)' = Text(d)
          BY <3>4, <4>1, Zenon DEF Text
        <4>3. ~ Here(d)
          <5>1. Here(d)' => proc'[p].pc \in {2, 3}
            BY <1>1, Kehou6Places DEF Patience
          <5> QED BY <2>1, <3>4, <5>1
        <4> QED BY <2>1, <2>9, <3>2, <3>4, <4>1, <4>2, <4>3 DEF Kehou6
      <3>5. CASE Fails0(d, "client", "server") /\ proc'[p].buf = proc[p].buf /\ proc'[p].pc \in {0, 3} \ {0}
        <4>1. net'[d].client.in = net[d].client.in /\ net'[d].server = net[d].server /\ proc'[p].pc = 3
          BY <3>5 DEF Fails0, Flags, Same
        <4>2. Text(d)' = Text(d)
          BY <3>5, <4>1, Zenon DEF Text
        <4> QED BY <2>1, <2>6, <2>9, <3>2, <4>1, <4>2 DEF Kehou6
      <3> QED BY <2>1, <2>6, <3>1, <3>3, <3>4, <3>5, Fills
    <2>7. CASE Moves(p) /\ proc[p].pc = 4
      <3>1. At(p, "show") /\ ~ Here(d)
        BY <2>2, <2>7, Kehou6Places
      <3>2. proc'[p].pc = 5
        BY <2>1, <2>7, <3>1, Quiet
      <3> QED BY <2>1, <2>9, <3>1, <3>2 DEF Kehou6
    <2>8. Moves(p) => proc[p].pc \in {2, 3, 4}
      BY <1>1, Kehou6Places, MovesBy, MovesIs, Place
    <2> QED BY <2>4, <2>5, <2>6, <2>7, <2>8
  <1> QED BY <1>2, <1>3

LEMMA Kehou6Kept ==
    ASSUME Names, NEW d \in Clients, Connections(d), Unshut(d), Unshut(d)', Patience(d), Patience(d)',
           Kehou6(d), pair = "kehou6", Next
    PROVE  Kehou6(d)'
  <1> DEFINE p == P1(d)
  <1>1. pair' = pair /\ torn \subseteq torn'
    BY PairStays, TornGrows
  <1>2. CASE Still(d)
    <2>1. /\ (Here(d)' <=> Here(d)) /\ Text(d)' = Text(d) /\ proc'[p] = proc[p] /\ net'[d] = net[d]
          /\ (serving' = d) <=> (serving = d)
          /\ serving = d => proc'[S] = proc[S]
      BY <1>2, StillHere
    <2> QED BY <1>1, <2>1 DEF Kehou6
  <1>3. CASE Left(d)
    <2>1. /\ ~ Here(d)' /\ serving' # d /\ serving # d /\ Text(d)' = Text(d) /\ proc'[p] = proc[p]
          /\ net'[d].client.in = net[d].client.in
      BY <1>3, LeftAlone
    <2> QED BY <1>1, <2>1 DEF Kehou6
  <1>4. CASE DoAccept(d)
    <2>1. /\ Here(d) /\ serving # d /\ serving' = d /\ proc'[S].pc = 2
          /\ Text(d)' = Text(d) /\ proc'[p] = proc[p] /\ net'[d] = net[d]
      BY <1>4, Accepted
    <2>2. proc[p].pc # 4
      BY <1>1, <2>1, Kehou6Places DEF Patience, Unshut
    <2> QED BY <2>1, <2>2 DEF Kehou6
  <1>5. CASE Served(d)
    <2>1. CASE ~ Moves(S)
      <3>1. /\ ~ Here(d)' /\ Closes(d, "server", "client") /\ serving' # d /\ proc'[p] = proc[p] /\ serving = d /\ Here(d)
        BY <1>5, <2>1, Works DEF Served
      <3>2. net[d].server.err = "none" /\ proc[p].pc \in {2, 3}
        BY <3>1, Kehou6Places DEF Patience, Unshut
      <3>3. At(S, "exit") \/ At(S, "close")
        BY <1>5, <2>1, <3>2, EndsAtExit
      <3>4. proc[S].pc = 7
        <4>1. proc[S].pc \in {2, 3, 4, 5, 6, 7}
          BY <1>5, Works, Kehou6Places
        <4> QED BY <3>3, <4>1, Kehou6Places DEF At
      <3>5. Text(d) \in {<< >>, Twice} /\ (net[d].server.in = << >> \/ S \in torn)
        BY <3>1, <3>4 DEF Kehou6
      <3>6. S \in torn \/ net'[d].client = net[d].client
        BY <3>1, <3>5 DEF Closes, Same
      <3>7. S \in torn \/ Text(d)' = Text(d)
        BY <3>1, <3>6 DEF Text
      <3> QED BY <1>1, <3>1, <3>2, <3>5, <3>7 DEF Kehou6, Whole
    <2>2. CASE Moves(S)
      BY <1>5, <2>2, Kehou6Served
    <2> QED BY <2>1, <2>2
  <1>6. ASSUME NEW q \in Procs, Own(d, q) PROVE Kehou6(d)'
    BY <1>1, <1>6, Kehou6Own
  <1> QED BY <1>2, <1>3, <1>4, <1>5, <1>6, ForOne

(* A prefix as long as the whole. *)
LEMMA AllOfIt ==
    ASSUME NEW E, NEW m \in Seq(E), NEW a \in Seq(E), NEW b \in Seq(E), a \o b = m, Len(a) >= Len(m)
    PROVE  a = m
  <1>1. Len(a \o b) = Len(a) + Len(b) /\ Len(a) \in Nat /\ Len(b) \in Nat
    OBVIOUS
  <1>2. Len(b) = 0
    BY <1>1
  <1>3. b = << >>
    BY <1>2
  <1> QED BY <1>3

LEMMA OpPlaces ==
    ASSUME Names, NEW d \in Clients, pair = "op"
    PROVE  /\ P1(d) \in Procs /\ S \in Procs /\ P1(d) # S /\ pair \in Single /\ pair \in Talkers
           /\ proc[P1(d)].pc \in {0, 1, 2, 3, 4, 5}
           /\ proc[P1(d)].pc = 1 => At(P1(d), "connect") /\ Instr(P1(d)).errs = {0}
           /\ proc[P1(d)].pc = 2 => At(P1(d), "put") /\ Instr(P1(d)).n = 3
           /\ proc[P1(d)].pc = 3 => At(P1(d), "read") /\ Instr(P1(d)).to = 4 /\ Instr(P1(d)).errs = {4}
           /\ proc[P1(d)].pc = 4 => At(P1(d), "show")
           /\ proc[P1(d)].pc = 5 => At(P1(d), "exit")
           /\ proc[S].pc \in {0, 1, 2, 3, 4, 5, 6, 7, 8}
           /\ proc[S].pc = 2 => At(S, "read") /\ Instr(S).n = 1 /\ Instr(S).to = 3 /\ Instr(S).errs = {3}
           /\ proc[S].pc = 3 => At(S, "fill") /\ Instr(S).n = 3 /\ Instr(S).to = 0 /\ Instr(S).errs = {3}
           /\ proc[S].pc = 4 => At(S, "show")
           /\ proc[S].pc = 5 => At(S, "put") /\ Instr(S).n = 2
           /\ proc[S].pc = 6 => At(S, "close")
           /\ proc[S].pc = 7 => At(S, "again")
           /\ proc[S].pc = 8 => At(S, "exit")
  <1> DEFINE p == P1(d)
  <1>1. p \in Procs /\ S \in Procs /\ p # S /\ Script(p) = op_client /\ Script(S) = op_server
    BY BothPrograms, PairsAre DEF Meet
  <1>2. pair \in Single /\ pair \in Talkers
    BY DEF Single, Talkers
  <1>3. /\ proc[p].pc \in {0, 1, 2, 3, 4, 5}
        /\ proc[p].pc = 1 => At(p, "connect") /\ Instr(p).errs = {0}
        /\ proc[p].pc = 2 => At(p, "put") /\ Instr(p).n = 3
        /\ proc[p].pc = 3 => At(p, "read") /\ Instr(p).to = 4 /\ Instr(p).errs = {4}
        /\ proc[p].pc = 4 => At(p, "show")
        /\ proc[p].pc = 5 => At(p, "exit")
    BY <1>1, OpClientAt DEF Stands
  <1>4. /\ proc[S].pc \in {0, 1, 2, 3, 4, 5, 6, 7, 8}
        /\ proc[S].pc = 2 => At(S, "read") /\ Instr(S).n = 1 /\ Instr(S).to = 3 /\ Instr(S).errs = {3}
        /\ proc[S].pc = 3 => At(S, "fill") /\ Instr(S).n = 3 /\ Instr(S).to = 0 /\ Instr(S).errs = {3}
        /\ proc[S].pc = 4 => At(S, "show")
        /\ proc[S].pc = 5 => At(S, "put") /\ Instr(S).n = 2
        /\ proc[S].pc = 6 => At(S, "close")
        /\ proc[S].pc = 7 => At(S, "again")
        /\ proc[S].pc = 8 => At(S, "exit")
    BY <1>1, OpServerAt DEF Stands
  <1> QED BY <1>1, <1>2, <1>3, <1>4

(* Of all the server does with the client it serves. *)
LEMMA OpServed ==
    ASSUME Names, NEW d \in Clients, Connections(d), Unshut(d), Op(d), pair = "op", Served(d), Moves(S)
    PROVE  Op(d)'
  <1> DEFINE p == P1(d)
  <1>1. /\ p \in Procs /\ S \in Procs /\ p # S /\ ~ net[d].server.shut /\ ~ net[d].client.shut
    BY OpPlaces DEF Unshut
  <1>2. /\ Uses(S, d, "server", "client") /\ serving = d /\ Here(d) /\ proc'[p] = proc[p] /\ serving' = d /\ Here(d)'
        /\ proc[S].pc \notin {0, 1} /\ net[d].server.open
    BY Works, <1>1 DEF Served
  <1>3. CASE proc[S].pc \in {2, 3}
    <2>1. /\ net[d].client.open /\ net[d].client.err = "none" /\ net[d].server.err = "none" /\ net[d].client.in = << >>
          /\ proc[p].pc \in {2, 3}
      BY <1>2, <1>3 DEF Op
    <2>2. ~ Fails0(d, "server", "client") /\ ~ Over0(d, "server", "client")
      BY <1>1, <2>1 DEF Fails0, Over0
    <2>3. PICK x \in Seq(Byte), b \in Seq(Byte) : x = net[d].server.in /\ b = proc[S].buf
      BY <1>2, UsesEnds
    <2>4. PICK m \in Seq(Byte) : m = Msg(3) /\ Len(m) = 3
      BY MsgBytes
    <2>5. CASE proc[S].pc = 2
      <3>1. At(S, "read") /\ Instr(S).n = 1 /\ Instr(S).to = 3 /\ Instr(S).errs = {3}
        BY <2>5, OpPlaces
      <3>2. PICK k : Gets(d, "server", "client", k) /\ proc'[S].buf = SubSeq(x, 1, k) /\ k <= 1 /\ proc'[S].pc = 3
        BY <1>2, <2>2, <2>3, <2>5, <3>1, Reads
      <3>3. /\ k \in 1 .. Len(x) /\ net'[d].server.in = SubSeq(x, k + 1, Len(x)) /\ net'[d].client = net[d].client
            /\ Rest(d, "server")
        BY <2>3, <3>2 DEF Gets, Same
      <3>4. x # << >>
        BY <3>3
      <3>5. x = m /\ proc[p].pc = 3
        BY <1>2, <2>1, <2>3, <2>4, <2>5, <3>4 DEF Op
      <3>6. /\ SubSeq(x, 1, k) \o SubSeq(x, k + 1, Len(x)) = x /\ Len(SubSeq(x, 1, k)) = k
        BY <3>3, PartedBytes, Zenon
      <3>7. proc'[S].buf \o net'[d].server.in = Msg(3) /\ Len(proc'[S].buf) = k
        BY <2>4, <3>2, <3>3, <3>5, <3>6, Zenon
      <3>8. Len(proc'[S].buf) < 3
        BY <3>2, <3>3, <3>7
      <3>9. Coming3(d)' /\ proc'[S].pc = 3
        BY <3>2, <3>7, <3>8, Zenon DEF Coming3
      <3>10. net'[d].client = net[d].client /\ Rest(d, "server")
        BY <3>3
      <3> QED BY <1>2, <2>1, <3>5, <3>9, <3>10 DEF Op, Rest
    <2>6. CASE proc[S].pc = 3
      <3>1. At(S, "fill") /\ Instr(S).n = 3 /\ Instr(S).to = 0 /\ Instr(S).errs = {3}
        BY <2>6, OpPlaces
      <3>2. PICK k : /\ Gets(d, "server", "client", k) /\ proc'[S].buf = b \o SubSeq(x, 1, k)
                     /\ proc'[S].pc = IF Len(b) + k >= 3 THEN proc[S].pc + 1 ELSE proc[S].pc
        BY <1>2, <2>2, <2>3, <3>1, Fills
      <3>3. /\ k \in 1 .. Len(x) /\ net'[d].server.in = SubSeq(x, k + 1, Len(x)) /\ net'[d].client = net[d].client
            /\ Rest(d, "server")
        BY <2>3, <3>2 DEF Gets, Same
      <3>4. b \o x = m /\ proc[p].pc = 3
        <4>1. Coming3(d) /\ proc[p].pc = 3
          BY <1>2, <2>6 DEF Op
        <4> QED BY <2>3, <2>4, <4>1, Zenon DEF Coming3
      <3>5. PICK y \in Seq(Byte), z \in Seq(Byte) : y = SubSeq(x, 1, k) /\ z = SubSeq(x, k + 1, Len(x)) /\ Len(y) = k
        <4>1. /\ SubSeq(x, 1, k) \in Seq(Byte) /\ Len(SubSeq(x, 1, k)) = k
              /\ SubSeq(x, k + 1, Len(x)) \in Seq(Byte)
          BY <3>3, PartedBytes, Zenon
        <4> QED BY <4>1, Zenon
      <3>6. (b \o y) \o z = m
        BY <3>3, <3>4, <3>5, Joined, Zenon
      <3>7. PICK c \in Seq(Byte) : c = b \o y /\ Len(c) = Len(b) + k /\ c \o z = m
        <4>1. b \o y \in Seq(Byte) /\ Len(b \o y) = Len(b) + Len(y)
          OBVIOUS
        <4> QED BY <3>5, <3>6, <4>1, Zenon
      <3>8. proc'[S].buf = c /\ net'[d].server.in = z
        BY <3>2, <3>3, <3>5, <3>7, Zenon
      <3>11. net'[d].client = net[d].client /\ Rest(d, "server")
        BY <3>3
      <3>9. CASE Len(b) + k >= 3
        <4>1. c = Msg(3)
          BY <2>4, <3>7, <3>9, AllOfIt
        <4>2. proc'[S].pc = 4
          BY <2>6, <3>2, <3>9
        <4>3. Came3'
          BY <3>8, <4>1, Zenon DEF Came3
        <4> QED BY <1>2, <2>1, <3>11, <4>2, <4>3 DEF Op, Rest
      <3>10. CASE ~ (Len(b) + k >= 3)
        <4>1. Len(b) \in Nat /\ k \in Nat
          BY <3>3
        <4>2. Len(c) < 3
          BY <3>7, <3>10, <4>1
        <4>3. proc'[S].pc = 3
          BY <2>6, <3>2, <3>10
        <4>4. c \o z = Msg(3)
          BY <2>4, <3>7, Zenon
        <4>5. Coming3(d)'
          BY <3>8, <4>2, <4>4, Zenon DEF Coming3
        <4>6. proc[p].pc = 3
          BY <3>4
        <4> QED BY <1>2, <2>1, <3>11, <4>3, <4>5, <4>6 DEF Op, Rest
      <3> QED BY <3>9, <3>10
    <2> QED BY <1>3, <2>5, <2>6
  <1>4. CASE proc[S].pc = 4
    <2>1. At(S, "show") /\ 4 + 1 = 5
      BY <1>4, OpPlaces
    <2>2. proc'[S].pc = 5 /\ net'[d].client = net[d].client /\ net'[d].server = net[d].server
      BY <1>2, <1>4, <2>1, Quiet DEF Same
    <2> QED BY <1>2, <1>4, <2>2 DEF Op
  <1>5. CASE proc[S].pc \in {5, 6, 7, 8}
    <2>1. proc'[S].pc = 6
      <3>1. CASE proc[S].pc = 5
        <4>1. At(S, "put") /\ 5 + 1 = 6
          BY <3>1, OpPlaces
        <4> QED BY <1>2, <3>1, <4>1, Wrote
      <3>2. CASE proc[S].pc \in {6, 8}
        BY <3>2, OpPlaces, MovesBy
      <3>3. CASE proc[S].pc = 7
        <4>1. Script(S) = op_server
          BY BothPrograms, PairsAre DEF Meet
        <4>2. proc[S].pc \in Holding(op_server)
          BY <1>2, <4>1, AtWork
        <4> QED BY <3>3, <4>2, OpServerText DEF Holding, I
      <3> QED BY <1>5, <3>1, <3>2, <3>3
    <2> QED BY <1>2, <2>1 DEF Op
  <1> QED BY <1>2, <1>3, <1>4, <1>5, OpPlaces

LEMMA OpOwn ==
    ASSUME Names, NEW d \in Clients, Connections(d), Unshut(d), Op(d), pair = "op", pair' = pair,
           NEW q \in Procs, Own(d, q)
    PROVE  Op(d)'
  <1> DEFINE p == P1(d)
             Early == Here(d) /\ (serving = d => proc[S].pc <= 5)
  <1>1. /\ p \in Procs /\ S \in Procs /\ p # S /\ pair \in Single
        /\ ~ net[d].server.shut /\ ~ net[d].client.shut
    BY OpPlaces DEF Unshut
  <1>2. CASE DoConnect(q) \/ ConnectFails(q)
    <2>1. q = p /\ net[d].server = OpenEnd /\ net[d].client = OpenEnd /\ serving' # d
      BY <1>1, <1>2, Connects
    <2>2. CASE DoConnect(q)
      <3>1. proc'[p].pc = 2 /\ net'[d] = net[d]
        BY <1>1, <2>1, <2>2, Connects
      <3> QED BY <2>1, <3>1 DEF Op, OpenEnd
    <2>3. CASE ~ DoConnect(q)
      <3>1. ~ Here(d)'
        BY <1>1, <1>2, <2>1, <2>3, Connects
      <3> QED BY <3>1 DEF Op
    <2> QED BY <2>2, <2>3
  <1>3. CASE ~ DoConnect(q) /\ ~ ConnectFails(q)
    <2>1. /\ q = p /\ Uses(p, d, "client", "server") /\ (Here(d)' <=> Here(d)) /\ serving' = serving /\ proc'[S] = proc[S]
      BY <1>1, <1>3, Runs
    <2>2. ~ Early => Op(d)'
      BY <2>1 DEF Op
    <2>3. ASSUME Early PROVE Op(d)'
      <3>1. /\ proc[p].pc \in {2, 3} /\ net[d].client.open /\ net[d].client.err = "none" /\ net[d].server.err = "none"
            /\ net[d].client.in = << >> /\ net[d].server.open
        BY <2>3 DEF Op, Connections
      <3>2. Moves(p)
        <4>1. SUFFICES ASSUME ~ Moves(p) PROVE FALSE
          OBVIOUS
        <4>2. Perishes(p)
          BY <1>1, <1>3, <2>1, <4>1, Runs
        <4>3. (At(p, "put") /\ WriteKills(p)) \/ (At(p, "read") /\ ReadFails(p))
          BY <3>1, <4>2, OpPlaces, PerishesBy
        <4>4. Mine(p).err = "none"
          BY <2>1, <3>1, UsesEnds
        <4> QED BY <1>1, <4>3, <4>4, WriteKillsIs, ReadFailsIs DEF Failed
      <3>3. CASE proc[p].pc = 2
        <4>1. At(p, "put") /\ Instr(p).n = 3 /\ 3 \in Nat \ {0} /\ 2 + 1 = 3
          BY <3>3, OpPlaces
        <4>2. /\ proc'[p].pc = 3 /\ net'[d].client = net[d].client /\ Rest(d, "server")
              /\ net'[d].server.in = net[d].server.in \o Msg(3)
          BY <2>1, <3>1, <3>2, <3>3, <4>1, ClientPuts
        <4>3. (serving = d => proc[S].pc = 2) => net'[d].server.in = Msg(3)
          <5>1. (serving = d => proc[S].pc = 2) => net[d].server.in = << >>
            BY <2>3, <3>3 DEF Op
          <5>2. << >> \o Msg(3) = Msg(3)
            BY MsgBytes
          <5> QED BY <4>2, <5>1, <5>2, Zenon
        <4>4. serving = d => proc[S].pc # 3
          BY <2>3, <3>3 DEF Op
        <4>5. Came3' <=> Came3
          BY <2>1, Zenon DEF Came3
        <4> QED
          <5>1. /\ proc'[p].pc = 3 /\ net'[d].client.open /\ net'[d].client.err = "none"
                /\ net'[d].server.err = "none" /\ net'[d].client.in = << >>
            BY <3>1, <4>2 DEF Rest
          <5>2. serving' = serving /\ proc'[S].pc = proc[S].pc
            BY <2>1
          <5>3. 3 \in {2, 3} /\ 3 # 2
            OBVIOUS
          <5> QED
            <6>1. (serving' = d => proc'[S].pc = 2) => net'[d].server.in = IF proc'[p].pc = 2 THEN << >> ELSE Msg(3)
              BY <4>3, <5>1, <5>2
            <6>2. serving = d => (proc[S].pc = 4 => Came3)
              BY <2>3 DEF Op
            <6>3. serving' = d => /\ proc'[S].pc = 3 => proc'[p].pc = 3 /\ Coming3(d)'
                                  /\ proc'[S].pc = 4 => Came3'
              BY <4>4, <4>5, <5>2, <6>2
            <6> QED BY <5>1, <6>1, <6>3, Zenon DEF Op
      <3>4. CASE proc[p].pc = 3
        <4>1. At(p, "read")
          BY <3>4, OpPlaces
        <4>2. ~ Over0(d, "client", "server") /\ ~ Fails0(d, "client", "server")
          BY <1>1, <3>1 DEF Over0, Fails0
        <4>3. PICK k : Gets(d, "client", "server", k)
          BY <2>1, <3>2, <4>1, <4>2, Reads
        <4> QED BY <3>1, <4>3 DEF Gets
      <3> QED BY <3>1, <3>3, <3>4
    <2> QED BY <2>2, <2>3
  <1> QED BY <1>2, <1>3

LEMMA OpKept ==
    ASSUME Names, NEW d \in Clients, Connections(d), Unshut(d), Op(d), pair = "op", Next
    PROVE  Op(d)'
  <1> DEFINE p == P1(d)
  <1>1. pair' = pair
    BY PairStays
  <1>2. CASE Still(d)
    <2>1. /\ (Here(d)' <=> Here(d)) /\ proc'[p] = proc[p] /\ net'[d] = net[d]
          /\ (serving' = d) <=> (serving = d)
          /\ serving = d => proc'[S] = proc[S]
      BY <1>2, StillHere
    <2>2. serving = d => (Coming3(d)' <=> Coming3(d)) /\ (Came3' <=> Came3)
      BY <2>1, Zenon DEF Coming3, Came3
    <2> QED BY <2>1, <2>2 DEF Op
  <1>3. CASE Left(d)
    <2>1. ~ Here(d)'
      BY <1>3, LeftAlone
    <2> QED BY <2>1 DEF Op
  <1>4. CASE DoAccept(d)
    <2>1. /\ Here(d) /\ serving # d /\ serving' = d /\ proc'[S].pc = 2
          /\ proc'[p] = proc[p] /\ net'[d] = net[d]
      BY <1>4, Accepted
    <2> QED BY <2>1 DEF Op
  <1>5. CASE Served(d)
    <2>1. CASE ~ Moves(S)
      <3>1. ~ Here(d)'
        BY <1>5, <2>1, Works
      <3> QED BY <3>1 DEF Op
    <2>2. CASE Moves(S)
      BY <1>5, <2>2, OpServed
    <2> QED BY <2>1, <2>2
  <1>6. ASSUME NEW q \in Procs, Own(d, q) PROVE Op(d)'
    BY <1>1, <1>6, OpOwn
  <1> QED BY <1>2, <1>3, <1>4, <1>5, <1>6, ForOne

LEMMA Echo2Places ==
    ASSUME Names, NEW d \in Clients, pair = "echo2"
    PROVE  /\ P1(d) \in Procs /\ S \in Procs /\ P1(d) # S /\ pair \in Single /\ pair \in Talkers
           /\ proc[P1(d)].pc \in {0, 1, 2, 3, 4, 5, 6}
           /\ proc[P1(d)].pc = 1 => At(P1(d), "connect") /\ Instr(P1(d)).errs = {0}
           /\ proc[P1(d)].pc = 2 => At(P1(d), "type") /\ Instr(P1(d)).to = 6
           /\ proc[P1(d)].pc = 3 => At(P1(d), "put") /\ Instr(P1(d)).n = 2
           /\ proc[P1(d)].pc = 4 => At(P1(d), "fill") /\ Instr(P1(d)).n = 2 /\ Instr(P1(d)).to = 0 /\ Instr(P1(d)).errs = {0}
           /\ proc[P1(d)].pc = 5 => At(P1(d), "goto") /\ Instr(P1(d)).to = 2
           /\ proc[P1(d)].pc = 6 => At(P1(d), "exit")
           /\ serving = d => proc[S].pc \in {2, 3, 4}
           /\ proc[S].pc = 2 => At(S, "read") /\ Instr(S).n = 9 /\ Instr(S).to = 4 /\ Instr(S).errs = {2}
           /\ proc[S].pc = 3 => At(S, "echo") /\ Instr(S).to = 2
           /\ proc[S].pc = 4 => At(S, "close")
  <1> DEFINE p == P1(d)
  <1>1. p \in Procs /\ S \in Procs /\ p # S /\ Script(p) = echo_client2 /\ Script(S) = echo_server
    BY BothPrograms, PairsAre DEF Meet
  <1>2. pair \in Single /\ pair \in Talkers
    BY DEF Single, Talkers
  <1>3. /\ proc[p].pc \in {0, 1, 2, 3, 4, 5, 6}
        /\ proc[p].pc = 1 => At(p, "connect") /\ Instr(p).errs = {0}
        /\ proc[p].pc = 2 => At(p, "type") /\ Instr(p).to = 6
        /\ proc[p].pc = 3 => At(p, "put") /\ Instr(p).n = 2
        /\ proc[p].pc = 4 => At(p, "fill") /\ Instr(p).n = 2 /\ Instr(p).to = 0 /\ Instr(p).errs = {0}
        /\ proc[p].pc = 5 => At(p, "goto") /\ Instr(p).to = 2
        /\ proc[p].pc = 6 => At(p, "exit")
    BY <1>1, EchoClient2At DEF Stands
  <1>4. /\ proc[S].pc = 2 => At(S, "read") /\ Instr(S).n = 9 /\ Instr(S).to = 4 /\ Instr(S).errs = {2}
        /\ proc[S].pc = 3 => At(S, "echo") /\ Instr(S).to = 2
        /\ proc[S].pc = 4 => At(S, "close")
    BY <1>1, EchoServerAt DEF Stands
  <1>5. serving = d => proc[S].pc \in {2, 3, 4}
    <2>1. serving = d => proc[S].pc \in 2 .. 6 /\ proc[S].pc \in Holding(echo_server)
      BY <1>1, AtWork, EchoServerText
    <2>2. 5 \notin Holding(echo_server) /\ 6 \notin Holding(echo_server)
      <3>1. echo_server[4].op = "close" /\ 4 \in 1 .. 5 - 1 /\ 4 \in 1 .. 6 - 1
        BY EchoServerText DEF I
      <3> QED BY <3>1 DEF Holding
    <2> QED BY <2>1, <2>2
  <1> QED BY <1>1, <1>2, <1>3, <1>4, <1>5

LEMMA NothingIn ==
    ASSUME NEW a \in Seq(Byte), NEW x \in Seq(Byte), a \o x = << >>
    PROVE  a = << >> /\ x = << >>
  <1>1. Len(a) + Len(x) = 0 /\ Len(a) \in Nat /\ Len(x) \in Nat
    <2>1. Len(a \o x) = Len(a) + Len(x) /\ Len(a) \in Nat /\ Len(x) \in Nat /\ Len(<< >>) = 0
      OBVIOUS
    <2> QED BY <2>1, Zenon
  <1>2. Len(a) = 0 /\ Len(x) = 0
    BY <1>1
  <1> QED BY <1>2

(* The bytes of a line. *)
LEMMA TwoBytes ==
    \E m \in Seq(Byte) : m = Msg(2) /\ Len(m) = 2 /\ m[1] = <<1, 2>> /\ m[2] = <<2, 2>>
  <1>1. Msg(2) \in Seq(Byte) /\ Len(Msg(2)) = 2 /\ \A j \in 1 .. 2 : Msg(2)[j] = <<j, 2>>
    BY MsgBytes
  <1>2. 1 \in 1 .. 2 /\ 2 \in 1 .. 2
    OBVIOUS
  <1> QED BY <1>1, <1>2, Zenon

(* Lines, one after the other: the next one is whole, and so are the rest. *)
LEMMA RowsFew ==
    Rows(<< >>) /\ Rows(Msg(2))
  <1>1. Rows(<< >>)
    <2>1. Len(<< >>) = 2 * 0 /\ 0 \in Nat /\ 1 .. 0 = {}
      OBVIOUS
    <2> QED BY <2>1 DEF Rows
  <1>2. Rows(Msg(2))
    <2>1. PICK m \in Seq(Byte) : m = Msg(2) /\ Len(m) = 2 /\ m[1] = <<1, 2>> /\ m[2] = <<2, 2>>
      BY TwoBytes
    <2>2. Len(m) = 2 * 1 /\ 1 \in Nat /\ \A i \in 1 .. 1 : m[2 * i - 1] = <<1, 2>> /\ m[2 * i] = <<2, 2>>
      BY <2>1
    <2>3. Rows(m)
      BY <2>2 DEF Rows
    <2> QED BY <2>1, <2>3
  <1> QED BY <1>1, <1>2

LEMMA RowsGrow ==
    ASSUME NEW b \in Seq(Byte), Rows(b)
    PROVE  Rows(b \o Msg(2))
  <1>1. PICK m \in Seq(Byte) : m = Msg(2) /\ Len(m) = 2 /\ m[1] = <<1, 2>> /\ m[2] = <<2, 2>>
    BY TwoBytes
  <1>2. PICK n \in Nat : Len(b) = 2 * n /\ \A i \in 1 .. n : b[2 * i - 1] = <<1, 2>> /\ b[2 * i] = <<2, 2>>
    BY DEF Rows
  <1>3. /\ Len(b \o m) = 2 * (n + 1) /\ n + 1 \in Nat
        /\ \A j \in 1 .. 2 * n : (b \o m)[j] = b[j]
        /\ (b \o m)[2 * n + 1] = m[1] /\ (b \o m)[2 * n + 2] = m[2]
    <2>1. /\ Len(b \o m) = Len(b) + 2 /\ \A j \in 1 .. Len(b) : (b \o m)[j] = b[j]
          /\ (b \o m)[Len(b) + 1] = m[1] /\ (b \o m)[Len(b) + 2] = m[2]
      BY <1>1
    <2>2. Len(b) = 2 * n /\ 2 * n + 2 = 2 * (n + 1) /\ n + 1 \in Nat
      BY <1>2
    <2> QED BY <2>1, <2>2, Zenon
  <1>4. ASSUME NEW i \in 1 .. n + 1 PROVE (b \o m)[2 * i - 1] = <<1, 2>> /\ (b \o m)[2 * i] = <<2, 2>>
    <2>1. CASE i \in 1 .. n
      <3>1. 2 * i - 1 \in 1 .. 2 * n /\ 2 * i \in 1 .. 2 * n
        BY <2>1
      <3> QED BY <1>2, <1>3, <2>1, <3>1, Zenon
    <2>2. CASE i = n + 1
      <3>1. 2 * i - 1 = 2 * n + 1 /\ 2 * i = 2 * n + 2
        BY <2>2
      <3> QED BY <1>1, <1>3, <3>1, Zenon
    <2>3. i \in 1 .. n \/ i = n + 1
      BY <1>2
    <2> QED BY <2>1, <2>2, <2>3
  <1>5. Rows(b \o m)
    BY <1>3, <1>4, Zenon DEF Rows
  <1> QED BY <1>1, <1>5, Zenon

(* Bytes that agree at every place are the same. *)
LEMMA AlikeBytes ==
    ASSUME NEW a \in Seq(Byte), NEW b \in Seq(Byte), Len(a) = Len(b), \A j \in 1 .. Len(a) : a[j] = b[j]
    PROVE  a = b
  OBVIOUS

(* What fgets() takes is the first of them. *)
LEMMA RowsTaken ==
    ASSUME NEW a \in Seq(Byte), NEW x \in Seq(Byte), Rows(a \o x),
           NEW i \in 1 .. Len(a), IsLast(a[i]), \A j \in 1 .. i - 1 : ~ IsLast(a[j])
    PROVE  SubSeq(a, 1, i) = Msg(2) /\ Rows(SubSeq(a, i + 1, Len(a)) \o x)
  <1>1. PICK s \in Seq(Byte) : s = a \o x
    <2>1. a \o x \in Seq(Byte)
      OBVIOUS
    <2> QED BY <2>1, Zenon
  <1>2. PICK n \in Nat : Len(s) = 2 * n /\ \A j \in 1 .. n : s[2 * j - 1] = <<1, 2>> /\ s[2 * j] = <<2, 2>>
    BY <1>1 DEF Rows
  <1>3. Len(s) = Len(a) + Len(x) /\ \A j \in 1 .. Len(a) : a[j] = s[j]
    BY <1>1
  <1>4. 1 \in 1 .. n /\ 2 * 1 - 1 = 1 /\ 2 * 1 = 2
    BY <1>2, <1>3
  <1>5. s[1] = <<1, 2>> /\ s[2] = <<2, 2>>
    BY <1>2, <1>4, Zenon
  <1>6. ~ IsLast(s[1]) /\ IsLast(s[2])
    BY <1>5 DEF IsLast
  <1>7. i = 2
    <2>1. i # 1
      BY <1>3, <1>6
    <2>2. ~ (i > 2)
      <3>1. SUFFICES ASSUME i > 2 PROVE FALSE
        OBVIOUS
      <3>2. 2 \in 1 .. i - 1 /\ 2 \in 1 .. Len(a)
        BY <3>1
      <3> QED BY <1>3, <1>6, <3>2, Zenon
    <2> QED BY <2>1, <2>2
  <1>8. SubSeq(a, 1, i) = Msg(2)
    <2>1. PICK m \in Seq(Byte) : m = Msg(2) /\ Len(m) = 2 /\ m[1] = <<1, 2>> /\ m[2] = <<2, 2>>
      BY TwoBytes
    <2>2. PICK t \in Seq(Byte) : t = SubSeq(a, 1, i) /\ Len(t) = 2 /\ t[1] = a[1] /\ t[2] = a[2]
      <3>1. SubSeq(a, 1, 2) \in Seq(Byte) /\ Len(SubSeq(a, 1, 2)) = 2
        BY <1>7, PartedBytes, Zenon
      <3>2. SubSeq(a, 1, 2)[1] = a[1] /\ SubSeq(a, 1, 2)[2] = a[2]
        BY <1>7
      <3> QED BY <1>7, <3>1, <3>2, Zenon
    <2>3. a[1] = <<1, 2>> /\ a[2] = <<2, 2>>
      <3>1. 1 \in 1 .. Len(a) /\ 2 \in 1 .. Len(a)
        BY <1>7
      <3> QED BY <1>3, <1>5, <3>1, Zenon
    <2>4. \A j \in 1 .. Len(t) : t[j] = m[j]
      <3>1. ASSUME NEW j \in 1 .. Len(t) PROVE j = 1 \/ j = 2
        BY <2>2
      <3>2. t[1] = m[1] /\ t[2] = m[2]
        BY <2>1, <2>2, <2>3, Zenon
      <3> QED BY <3>1, <3>2
    <2>5. t = m
      <3>1. Len(t) = Len(m)
        BY <2>1, <2>2, Zenon
      <3> QED BY <2>4, <3>1, AlikeBytes, Zenon
    <2> QED BY <2>1, <2>2, <2>5, Zenon
  <1>9. PICK t \in Seq(Byte), u \in Seq(Byte) : t = u \o x /\ u = SubSeq(a, i + 1, Len(a)) /\ Len(u) = Len(a) - i
    <2>1. SubSeq(a, i + 1, Len(a)) \in Seq(Byte) /\ Len(SubSeq(a, i + 1, Len(a))) = Len(a) - i
      BY PartedBytes, Zenon
    <2>2. SubSeq(a, i + 1, Len(a)) \o x \in Seq(Byte)
      BY <2>1
    <2> QED BY <2>1, <2>2, Zenon
  <1>10. Len(t) = 2 * (n - 1) /\ \A j \in 1 .. Len(t) : t[j] = s[j + 2]
    <2>1. Len(u) = Len(a) - 2 /\ \A j \in 1 .. Len(u) : u[j] = a[j + 2]
      BY <1>7, <1>9
    <2>2. t = u \o x
      BY <1>9
    <2>3. Len(t) = Len(u) + Len(x)
      BY <2>2
    <2>4. ASSUME NEW j \in 1 .. Len(t) PROVE t[j] = s[j + 2]
      <3>1. CASE j \in 1 .. Len(u)
        BY <1>1, <2>1, <2>2, <3>1
      <3>2. CASE j \notin 1 .. Len(u)
        <4>1. t[j] = x[j - Len(u)]
          BY <2>2, <2>3, <3>2
        <4>2. s[j + 2] = x[(j + 2) - Len(a)]
          <5>1. j + 2 \in Len(a) + 1 .. Len(a) + Len(x)
            <6>1. Len(a) \in Nat /\ Len(u) \in Nat /\ Len(x) \in Nat /\ Len(t) \in Nat
              OBVIOUS
            <6> QED BY <2>1, <2>3, <3>2, <6>1
          <5> QED BY <1>1, <5>1
        <4>3. j - Len(u) = (j + 2) - Len(a)
          <5>1. Len(a) \in Nat /\ Len(u) \in Nat /\ j \in Nat
            BY <2>4
          <5> QED BY <2>1, <5>1
        <4> QED BY <4>1, <4>2, <4>3, Zenon
      <3> QED BY <3>1, <3>2
    <2>5. Len(t) = 2 * (n - 1)
      <3>1. Len(a) \in Nat /\ Len(u) \in Nat /\ Len(x) \in Nat
        OBVIOUS
      <3> QED BY <1>1, <1>2, <1>3, <2>1, <2>3, <3>1
    <2> QED BY <2>4, <2>5
  <1>11. n - 1 \in Nat
    BY <1>4
  <1>12. ASSUME NEW j \in 1 .. n - 1 PROVE t[2 * j - 1] = <<1, 2>> /\ t[2 * j] = <<2, 2>>
    <2>1. /\ 2 * j - 1 \in 1 .. Len(t) /\ 2 * j \in 1 .. Len(t) /\ j + 1 \in 1 .. n
          /\ (2 * j - 1) + 2 = 2 * (j + 1) - 1 /\ 2 * j + 2 = 2 * (j + 1)
      BY <1>10, <1>11
    <2>2. t[2 * j - 1] = s[2 * (j + 1) - 1] /\ t[2 * j] = s[2 * (j + 1)]
      BY <1>10, <2>1
    <2> QED BY <1>2, <2>1, <2>2, Zenon
  <1>13. Rows(t)
    BY <1>10, <1>11, <1>12, Zenon DEF Rows
  <1> QED BY <1>8, <1>9, <1>13, Zenon

(* What is left at the end is nothing. *)
LEMMA RowsOver ==
    ASSUME NEW a \in Seq(Byte), Rows(a), \A j \in 1 .. Len(a) : ~ IsLast(a[j])
    PROVE  a = << >>
  <1>1. PICK n \in Nat : Len(a) = 2 * n /\ \A j \in 1 .. n : a[2 * j - 1] = <<1, 2>> /\ a[2 * j] = <<2, 2>>
    BY DEF Rows
  <1>2. n = 0
    <2>1. SUFFICES ASSUME n # 0 PROVE FALSE
      OBVIOUS
    <2>2. 1 \in 1 .. n /\ 2 * 1 = 2 /\ 2 \in 1 .. Len(a)
      BY <1>1, <2>1
    <2>3. a[2] = <<2, 2>>
      BY <1>1, <2>2, Zenon
    <2>4. IsLast(a[2])
      BY <2>3 DEF IsLast
    <2> QED BY <2>2, <2>4
  <1> QED BY <1>1, <1>2

(* The bytes of a line that has begun to come. *)
LEMMA BegunIs ==
    ASSUME NEW s \in Seq(Byte)
    PROVE  s \in Begun <=> Len(s) <= 2 /\ \A i \in 1 .. Len(s) : s[i] = <<i, 2>>
  <1>1. PICK m \in Seq(Byte) : m = Msg(2) /\ Len(m) = 2 /\ m[1] = <<1, 2>> /\ m[2] = <<2, 2>>
    BY TwoBytes
  <1>2. ASSUME s \in Begun PROVE Len(s) <= 2 /\ \A i \in 1 .. Len(s) : s[i] = <<i, 2>>
    <2>1. CASE s = << >>
      BY <2>1
    <2>2. CASE s = <<<<1, 2>>>>
      BY <2>2
    <2>3. CASE s = m
      <3>0. Len(s) = 2
        BY <1>1, <2>3, Zenon
      <3>1. ASSUME NEW i \in 1 .. Len(s) PROVE i = 1 \/ i = 2
        BY <3>0
      <3>2. ASSUME NEW i \in 1 .. Len(s) PROVE s[i] = <<i, 2>>
        BY <1>1, <2>3, <3>1
      <3>3. Len(s) <= 2
        BY <3>0
      <3> QED BY <3>2, <3>3
    <2> QED BY <1>1, <1>2, <2>1, <2>2, <2>3, Zenon DEF Begun
  <1>3. ASSUME Len(s) <= 2, \A i \in 1 .. Len(s) : s[i] = <<i, 2>> PROVE s \in Begun
    <2>1. Len(s) = 0 \/ Len(s) = 1 \/ Len(s) = 2
      <3>1. Len(s) \in Nat
        OBVIOUS
      <3>2. \A l \in Nat : l <= 2 => l = 0 \/ l = 1 \/ l = 2
        OBVIOUS
      <3> QED BY <1>3, <3>1, <3>2, Zenon
    <2>2. CASE Len(s) = 0
      <3>1. s = << >>
        BY <2>2
      <3> QED BY <3>1 DEF Begun
    <2>3. CASE Len(s) = 1
      <3>1. s[1] = <<1, 2>>
        BY <1>3, <2>3
      <3>2. s = <<<<1, 2>>>>
        <4>1. PICK t \in Seq(Byte) : t = <<<<1, 2>>>> /\ Len(t) = 1 /\ t[1] = <<1, 2>>
          <5>1. <<1, 2>> \in Byte
            BY DEF Byte
          <5>2. <<<<1, 2>>>> \in Seq(Byte) /\ Len(<<<<1, 2>>>>) = 1
            BY <5>1
          <5>3. <<<<1, 2>>>>[1] = <<1, 2>>
            OBVIOUS
          <5> QED BY <5>2, <5>3, Zenon
        <4>2. \A j \in 1 .. Len(s) : s[j] = t[j]
          BY <2>3, <3>1, <4>1
        <4>3. s = t
          BY <2>3, <4>1, <4>2
        <4> QED BY <4>1, <4>3, Zenon
      <3> QED BY <3>2 DEF Begun
    <2>4. CASE Len(s) = 2
      <3>1. s[1] = <<1, 2>> /\ s[2] = <<2, 2>>
        BY <1>3, <2>4
      <3>2. ASSUME NEW j \in 1 .. Len(s) PROVE s[j] = m[j]
        <4>1. j = 1 \/ j = 2
          BY <2>4
        <4> QED BY <1>1, <3>1, <4>1
      <3>3. s = m
        BY <1>1, <2>4, <3>2
      <3> QED BY <1>1, <3>3, Zenon DEF Begun
    <2> QED BY <2>1, <2>2, <2>3, <2>4
  <1> QED BY <1>2, <1>3

(* A first part of it has begun too. *)
LEMMA BegunBy ==
    ASSUME NEW a \in Seq(Byte), NEW x \in Seq(Byte), a \o x \in Begun
    PROVE  a \in Begun
  <1>1. PICK s \in Seq(Byte) : s = a \o x /\ Len(s) = Len(a) + Len(x) /\ \A i \in 1 .. Len(a) : a[i] = s[i]
    <2>1. /\ a \o x \in Seq(Byte) /\ Len(a \o x) = Len(a) + Len(x)
          /\ \A i \in 1 .. Len(a) : a[i] = (a \o x)[i]
      OBVIOUS
    <2> QED BY <2>1, Zenon
  <1>2. Len(s) <= 2 /\ \A i \in 1 .. Len(s) : s[i] = <<i, 2>>
    BY <1>1, BegunIs
  <1>3. Len(a) <= 2 /\ \A i \in 1 .. Len(a) : a[i] = <<i, 2>>
    BY <1>1, <1>2
  <1> QED BY <1>3, BegunIs

LEMMA BegunCut ==
    ASSUME NEW b \in Seq(Byte), NEW s \in Seq(Byte), b \o s \in Begun, NEW k \in 0 .. Len(s)
    PROVE  b \o SubSeq(s, 1, k) \in Begun
  <1>1. CASE k = 0
    <2>1. SubSeq(s, 1, k) = << >> /\ b \o << >> = b
      BY <1>1
    <2> QED BY <2>1, BegunBy, Zenon
  <1>2. CASE k # 0
    <2>1. k \in 1 .. Len(s)
      BY <1>2
    <2>2. SubSeq(s, 1, k) \in Seq(Byte) /\ SubSeq(s, k + 1, Len(s)) \in Seq(Byte)
      BY <2>1, PartedBytes, Zenon
    <2>3. (b \o SubSeq(s, 1, k)) \o SubSeq(s, k + 1, Len(s)) = b \o s
      BY <2>1, Joined
    <2>4. b \o SubSeq(s, 1, k) \in Seq(Byte)
      BY <2>2
    <2> QED BY <2>2, <2>3, <2>4, BegunBy
  <1> QED BY <1>1, <1>2

(* After the second byte comes nothing more. *)
LEMMA NothingMore ==
    ASSUME NEW a \in Seq(Byte), NEW x \in Seq(Byte), a \o x \in Begun, Len(a) >= 2
    PROVE  a = Msg(2) /\ x = << >>
  <1>1. a \in Begun /\ a \o x \in Seq(Byte)
    BY BegunBy
  <1>2. PICK s \in Seq(Byte) : s = a \o x /\ Len(s) = Len(a) + Len(x)
    <2>1. Len(a \o x) = Len(a) + Len(x)
      OBVIOUS
    <2> QED BY <1>1, <2>1, Zenon
  <1>3. x = << >>
    <2>1. Len(s) <= 2
      BY <1>2, BegunIs
    <2>2. Len(x) \in Nat /\ Len(a) \in Nat
      OBVIOUS
    <2>3. Len(x) = 0
      BY <1>2, <2>1, <2>2
    <2> QED BY <2>3
  <1>4. Len(<< >>) = 0 /\ Len(<<<<1, 2>>>>) = 1
    OBVIOUS
  <1>5. a # << >> /\ a # <<<<1, 2>>>>
    <2>1. Len(a) # 0 /\ Len(a) # 1
      <3>1. Len(a) \in Nat
        OBVIOUS
      <3>2. \A l \in Nat : l >= 2 => l # 0 /\ l # 1
        OBVIOUS
      <3> QED BY <3>1, <3>2, Zenon
    <2> QED BY <1>4, <2>1, Zenon
  <1> QED BY <1>1, <1>3, <1>5 DEF Begun

(* The text of echo_client2, whoever is still there. *)
LEMMA Echo2Bits ==
    ASSUME Names, NEW d \in Clients, Connections(d), Bits(d), pair = "echo2", NEW q \in Procs, Own(d, q)
    PROVE  Bits(d)'
  <1> DEFINE p == P1(d)
  <1>1. p \in Procs /\ S \in Procs /\ p # S /\ pair \in Single
    BY Echo2Places
  <1>2. << >> \in Begun
    BY DEF Begun
  <1>3. CASE DoConnect(q) \/ ConnectFails(q)
    <2>1. Text(d)' = << >> /\ net'[d].client.in = << >>
      BY <1>1, <1>3, Connects
    <2> QED BY <1>2, <2>1, Zenon DEF Bits
  <1>4. CASE ~ DoConnect(q) /\ ~ ConnectFails(q)
    <2>1. q = p /\ Uses(p, d, "client", "server")
      BY <1>1, <1>4, Runs
    <2>2. proc[p].buf \in Seq(Byte) /\ net[d].client.in \in Seq(Byte)
      BY <2>1, UsesEnds
    <2>3. CASE ~ Moves(p)
      <3>1. proc'[p].pc = 0
        BY <1>1, <1>4, <2>1, <2>3, Runs
      <3> QED BY <3>1 DEF Bits
    <2>4. CASE Moves(p) /\ proc[p].pc \in {2, 5}
      <3>1. PICK op \in {"show", "goto", "feof", "choose", "again", "type"} : At(p, op) /\ op = IF proc[p].pc = 2 THEN "type" ELSE "goto"
        BY <2>4, Echo2Places
      <3>2. /\ Same(d, "client") /\ proc'[p].buf = IF op = "type" THEN << >> ELSE proc[p].buf
            /\ op = "goto" => proc'[p].pc = Instr(p).to
            /\ op = "type" => proc'[p].pc = proc[p].pc + 1 \/ (proc'[p].pc = Instr(p).to /\ Instr(p).to # 0)
        BY <2>1, <2>4, <3>1, Quiet
      <3>3. IF proc[p].pc = 2 THEN proc'[p].pc \in {3, 6} /\ proc'[p].buf = << >> ELSE proc'[p].pc = 2
        BY <2>4, <3>1, <3>2, Echo2Places
      <3>4. net'[d].client.in = << >>
        BY <2>4, <3>2 DEF Bits, Same
      <3>5. proc'[p].buf = << >> => Text(d)' = << >>
        BY <3>4, Two, Zenon DEF Text
      <3>6. proc'[p].pc # 4 /\ (proc'[p].pc = 3 => proc'[p].buf = << >>)
        BY <2>4, <3>3
      <3> QED BY <3>4, <3>5, <3>6 DEF Bits
    <2>5. CASE Moves(p) /\ proc[p].pc = 3
      <3>1. At(p, "put") /\ 3 + 1 = 4
        BY <2>5, Echo2Places
      <3>2. proc'[p].pc = 4 /\ proc'[p].buf = proc[p].buf /\ net'[d].client.in = net[d].client.in
        BY <2>1, <2>5, <3>1, Wrote
      <3>3. Text(d) = << >>
        BY <2>5 DEF Bits
      <3>4. Text(d)' = << >>
        BY <3>2, <3>3, Zenon DEF Text
      <3> QED BY <1>2, <3>2, <3>4 DEF Bits
    <2>6. CASE Moves(p) /\ proc[p].pc = 4
      <3>1. At(p, "fill") /\ Instr(p).n = 2 /\ Instr(p).to = 0 /\ Instr(p).errs = {0} /\ Text(d) \in Begun
        BY <2>6, Echo2Places DEF Bits
      <3>2. PICK k : /\ Gets(d, "client", "server", k) /\ proc'[p].buf = proc[p].buf \o SubSeq(net[d].client.in, 1, k)
                     /\ proc'[p].pc = IF Len(proc[p].buf) + k >= 2 THEN proc[p].pc + 1 ELSE proc[p].pc
        BY <2>1, <2>6, <3>1, Fills
      <3>3. Text(d)' = Text(d)
        BY <3>2, TextStays
      <3>4. CASE proc'[p].pc = 4
        BY <3>1, <3>3, <3>4 DEF Bits
      <3>5. CASE proc'[p].pc # 4
        <4>1. proc'[p].pc = 5 /\ Len(proc[p].buf) + k >= 2
          BY <2>6, <3>2, <3>5
        <4>2. PICK b \in Seq(Byte), y \in Seq(Byte) : b = proc[p].buf /\ y = net[d].client.in
          BY <2>2
        <4>3. k \in 1 .. Len(y) /\ net'[d].client.in = SubSeq(y, k + 1, Len(y))
          BY <3>2, <4>2 DEF Gets
        <4>4. PICK c \in Seq(Byte), z \in Seq(Byte) : c = SubSeq(y, 1, k) /\ Len(c) = k /\ z = SubSeq(y, k + 1, Len(y))
          BY <4>3, PartedBytes, Zenon
        <4>5. b \o c \in Seq(Byte) /\ Len(b \o c) = Len(b) + Len(c)
          OBVIOUS
        <4>6. Len(b \o c) >= 2
          BY <4>1, <4>2, <4>4, <4>5
        <4>7. Text(d)' = (b \o c) \o z
          BY <3>2, <4>2, <4>3, <4>4, Zenon DEF Text
        <4>8. (b \o c) \o z \in Begun
          BY <3>1, <3>3, <4>7, Zenon
        <4>9. z = << >>
          BY <4>5, <4>6, <4>8, NothingMore
        <4>10. net'[d].client.in = << >>
          BY <4>3, <4>4, <4>9, Zenon
        <4> QED BY <4>1, <4>10 DEF Bits
      <3> QED BY <3>4, <3>5
    <2>7. Moves(p) => proc[p].pc \in {2, 3, 4, 5}
      BY <1>1, Echo2Places, MovesBy, MovesIs, Place
    <2> QED BY <2>3, <2>4, <2>5, <2>6, <2>7
  <1> QED BY <1>3, <1>4

(* What the server does to it. *)
LEMMA Echo2Served ==
    ASSUME Names, NEW d \in Clients, Connections(d), Unshut(d), Echo2(d), pair = "echo2", Served(d), Moves(S)
    PROVE  Echo2(d)'
  <1> DEFINE p == P1(d)
  <1>1. /\ p \in Procs /\ S \in Procs /\ p # S
    BY Echo2Places
  <1>2. /\ Uses(S, d, "server", "client") /\ serving = d /\ Here(d) /\ proc'[p] = proc[p] /\ serving' = d /\ Here(d)'
    BY Works, <1>1 DEF Served
  <1>3. Bits(d) /\ Trip(d)
    BY <1>2 DEF Echo2
  <1>4. /\ net[d].server.err = "none" /\ net[d].client.err = "none"
        /\ proc[p].pc # 0 => net[d].client.open
        /\ proc[S].pc = 3 => Turned(d) # << >>
        /\ proc[p].pc = 4 => Round(d) = Msg(2)
        /\ proc[p].pc # 4 => net[d].client.in = << >> /\ Turned(d) = << >> /\ net[d].server.in = << >>
    BY <1>2, <1>3 DEF Trip
  <1>5. proc[S].pc \in {2, 3}
    <2>1. proc[S].pc # 4
      BY Echo2Places, MovesBy
    <2> QED BY <1>2, <2>1, Echo2Places
  <1>6. PICK b \in Seq(Byte), x \in Seq(Byte), y \in Seq(Byte), c \in Seq(Byte) :
           b = proc[S].buf /\ x = net[d].server.in /\ y = net[d].client.in /\ c = proc[p].buf
    <2>1. Uses(p, d, "client", "server")
      BY ClientUses
    <2> QED BY <1>2, <2>1, UsesEnds
  <1>7. Text(d) = c \o y
    BY <1>6, Zenon DEF Text
  <1>8. CASE proc[S].pc = 2
    <2>1. At(S, "read") /\ Instr(S).to = 4 /\ Instr(S).errs = {2} /\ 2 + 1 = 3
      BY <1>8, Echo2Places
    <2>2. Turned(d) = << >>
      BY <1>8 DEF Turned
    <2>3. ~ Fails0(d, "server", "client")
      BY <1>4 DEF Fails0
    <2>4. CASE \E k : Gets(d, "server", "client", k) /\ proc'[S].buf = SubSeq(net[d].server.in, 1, k) /\ proc'[S].pc = proc[S].pc + 1
      <3>1. PICK k : Gets(d, "server", "client", k) /\ proc'[S].buf = SubSeq(net[d].server.in, 1, k) /\ proc'[S].pc = proc[S].pc + 1
        BY <2>4
      <3>2. /\ k \in 1 .. Len(x) /\ net'[d].server.in = SubSeq(x, k + 1, Len(x)) /\ net'[d].client = net[d].client
            /\ Rest(d, "server") /\ proc'[S].pc = 3 /\ proc'[S].buf = SubSeq(x, 1, k)
        BY <1>6, <1>8, <2>1, <3>1 DEF Gets, Same
      <3>3. Turned(d)' = SubSeq(x, 1, k)
        BY <1>2, <3>2, Zenon DEF Turned
      <3>4. SubSeq(x, 1, k) # << >>
        <4>1. Len(SubSeq(x, 1, k)) = k /\ k # 0
          BY <3>2, PartedBytes
        <4>2. Len(<< >>) = 0
          OBVIOUS
        <4> QED BY <4>1, <4>2, Zenon
      <3>5. proc[p].pc = 4
        <4>1. x # << >>
          BY <3>2
        <4> QED BY <1>4, <1>6, <4>1
      <3>6. Text(d)' = Text(d)
        BY <1>2, <3>2, Zenon DEF Text
      <3>7. Round(d)' = Round(d)
        <4>1. PICK t \in Seq(Byte) : t = Text(d)
          <5>1. c \o y \in Seq(Byte)
            OBVIOUS
          <5> QED BY <1>7, <5>1, Zenon
        <4>2. Round(d) = (t \o << >>) \o x /\ Round(d)' = (t \o SubSeq(x, 1, k)) \o SubSeq(x, k + 1, Len(x))
          BY <1>6, <2>2, <3>2, <3>3, <3>6, <4>1, Zenon DEF Round
        <4>3. t \o << >> = t
          OBVIOUS
        <4>4. (t \o SubSeq(x, 1, k)) \o SubSeq(x, k + 1, Len(x)) = t \o x
          BY <3>2, Joined
        <4> QED BY <4>2, <4>3, <4>4, Zenon
      <3>8. Bits(d)'
        BY <1>2, <1>3, <3>2, <3>6 DEF Bits
      <3>9. Trip(d)'
        BY <1>2, <1>4, <3>2, <3>3, <3>4, <3>5, <3>7 DEF Trip, Rest
      <3> QED BY <3>8, <3>9 DEF Echo2
    <2>5. CASE Over0(d, "server", "client") /\ proc'[S].pc = 4
      <3>1. net'[d].server = net[d].server /\ net'[d].client = net[d].client
        BY <2>5 DEF Over0, Same
      <3>2. Turned(d)' = << >>
        BY <2>5 DEF Turned
      <3>3. Text(d)' = Text(d)
        BY <1>2, <3>1, Zenon DEF Text
      <3>4. Round(d)' = Round(d)
        BY <2>2, <3>1, <3>2, <3>3, Zenon DEF Round
      <3>5. Bits(d)'
        BY <1>2, <1>3, <3>1, <3>3 DEF Bits
      <3>6. Trip(d)'
        BY <1>2, <1>4, <2>5, <3>1, <3>2, <3>4 DEF Trip
      <3> QED BY <3>5, <3>6 DEF Echo2
    <2> QED BY <1>2, <2>1, <2>3, <2>4, <2>5, Reads
  <1>9. CASE proc[S].pc = 3
    <2>1. At(S, "echo") /\ Instr(S).to = 2 /\ Instr(S).op = "echo" /\ "echo" \in {"put", "echo"}
      BY <1>9, Echo2Places DEF At
    <2>2. Turned(d) = b /\ b # << >> /\ Output(S) = b
      BY <1>2, <1>4, <1>6, <1>9, <2>1, Zenon DEF Turned, Output
    <2>3. proc[p].pc = 4 /\ net[d].client.open
      BY <1>4, <2>2
    <2>4. proc'[S].pc = 2 /\ Landed(S, d, "server", "client")
      BY <1>2, <2>1, Puts
    <2>5. net'[d].server = net[d].server /\ Rest(d, "client") /\ net'[d].client.in = y \o b
      BY <1>4, <1>6, <2>2, <2>3, <2>4, Zenon DEF Landed, Same
    <2>6. PICK t \in Seq(Byte) : t = Text(d)
      <3>1. c \o y \in Seq(Byte)
        OBVIOUS
      <3> QED BY <1>7, <3>1, Zenon
    <2>7. Text(d)' = t \o b
      <3>1. proc'[p].buf = proc[p].buf /\ net'[d].client.in = net[d].client.in \o b
        BY <1>2, <1>6, <2>5
      <3> QED BY <2>6, <3>1, TextGrows
    <2>8. Turned(d)' = << >>
      BY <2>4 DEF Turned
    <2>9. Round(d)' = Round(d)
      <3>1. Round(d) = (t \o b) \o x /\ Round(d)' = ((t \o b) \o << >>) \o x
        BY <1>6, <2>2, <2>5, <2>6, <2>7, <2>8, Zenon DEF Round
      <3>2. (t \o b) \o << >> = t \o b
        OBVIOUS
      <3> QED BY <3>1, <3>2, Zenon
    <2>10. Text(d)' \in Begun
      <3>1. t \o b \in Seq(Byte)
        OBVIOUS
      <3>2. (t \o b) \o x \in Begun
        BY <1>4, <1>6, <2>2, <2>3, <2>6, Zenon DEF Begun, Round
      <3> QED BY <2>7, <3>1, <3>2, BegunBy
    <2>11. Bits(d)'
      BY <1>2, <2>3, <2>10 DEF Bits
    <2>12. Trip(d)'
      <3>1. Round(d)' = Msg(2)
        BY <1>4, <2>3, <2>9, Zenon
      <3>2. net'[d].server.err = "none" /\ net'[d].client.err = "none" /\ net'[d].client.open
        BY <1>4, <2>3, <2>5 DEF Rest
      <3>3. proc'[p].pc = 4 /\ proc'[S].pc # 3
        BY <1>2, <2>3, <2>4
      <3> QED BY <3>1, <3>2, <3>3, Zenon DEF Trip
    <2> QED BY <2>11, <2>12 DEF Echo2
  <1> QED BY <1>5, <1>8, <1>9

(* What echo_client2 does to it. *)
LEMMA Echo2Own ==
    ASSUME Names, NEW d \in Clients, Connections(d), Unshut(d), Echo2(d), pair = "echo2", NEW q \in Procs, Own(d, q)
    PROVE  Echo2(d)'
  <1> DEFINE p == P1(d)
  <1>1. /\ p \in Procs /\ S \in Procs /\ p # S /\ pair \in Single
    BY Echo2Places
  <1>2. Bits(d) /\ Bits(d)'
    BY Echo2Bits DEF Echo2
  <1>3. SUFFICES ASSUME Here(d)' PROVE Trip(d)'
    BY <1>2 DEF Echo2
  <1>4. CASE DoConnect(q) \/ ConnectFails(q)
    <2>1. DoConnect(q)
      BY <1>1, <1>3, <1>4, Connects
    <2>2. /\ net[d].server = OpenEnd /\ net[d].client = OpenEnd /\ serving' # d /\ proc'[p].pc = 2 /\ net'[d] = net[d]
      BY <1>1, <2>1, Connects
    <2>3. Turned(d)' = << >>
      BY <2>2 DEF Turned
    <2> QED BY <2>2, <2>3 DEF Trip, OpenEnd
  <1>5. CASE ~ DoConnect(q) /\ ~ ConnectFails(q)
    <2>1. /\ q = p /\ Uses(p, d, "client", "server") /\ Here(d) /\ serving' = serving /\ proc'[S] = proc[S]
      BY <1>1, <1>3, <1>5, Runs
    <2>2. Trip(d) /\ net[d].server.open
      BY <2>1 DEF Echo2, Connections
    <2>3. /\ net[d].server.err = "none" /\ net[d].client.err = "none"
          /\ proc[p].pc # 0 => net[d].client.open
          /\ serving = d /\ proc[S].pc = 3 => Turned(d) # << >>
          /\ proc[p].pc = 4 => Round(d) = Msg(2)
          /\ proc[p].pc # 4 => net[d].client.in = << >> /\ Turned(d) = << >> /\ net[d].server.in = << >>
      BY <2>2 DEF Trip
    <2>4. Turned(d)' = Turned(d)
      BY <2>1, Zenon DEF Turned
    <2>5. Mine(p).err = "none"
      BY <2>1, <2>3, UsesEnds
    <2>6. proc[p].pc # 1
      BY <2>1 DEF Connections, Here
    <2>7. CASE ~ Moves(p)
      <3>1. Perishes(p) /\ proc'[p].pc = 0 /\ ((Same(d, "server") /\ Same(d, "client")) \/ Closes(d, "client", "server"))
        BY <1>1, <1>5, <2>1, <2>7, Runs
      <3>2. PICK op \in {"put", "echo", "read", "body", "fill", "line", "exit", "exitall"} : At(p, op)
        BY <1>1, <3>1, PerishesIs
      <3>3. ~ WriteKills(p) /\ ~ ReadFails(p)
        BY <1>1, <2>5, WriteKillsIs, ReadFailsIs DEF Failed
      <3>4. proc[p].pc = 6
        BY <2>6, <3>1, <3>2, <3>3, Echo2Places, PerishesBy DEF At
      <3>5. net[d].client.in = << >> /\ Turned(d) = << >> /\ net[d].server.in = << >>
        BY <2>3, <3>4
      <3>6. net'[d].server = net[d].server /\ net'[d].client.in = << >> /\ net'[d].client.err = net[d].client.err
        BY <3>1, <3>5 DEF Closes, Same
      <3> QED BY <2>1, <2>3, <2>4, <3>1, <3>5, <3>6 DEF Trip
    <2>8. CASE Moves(p) /\ proc[p].pc \in {2, 5}
      <3>1. PICK op \in {"show", "goto", "feof", "choose", "again", "type"} : At(p, op) /\ op = IF proc[p].pc = 2 THEN "type" ELSE "goto"
        BY <2>8, Echo2Places
      <3>2. /\ Same(d, "client") /\ Same(d, "server")
            /\ op = "goto" => proc'[p].pc = Instr(p).to
            /\ op = "type" => proc'[p].pc = proc[p].pc + 1 \/ (proc'[p].pc = Instr(p).to /\ Instr(p).to # 0)
        BY <2>1, <2>8, <3>1, Quiet
      <3>3. proc'[p].pc \in {2, 3, 6}
        BY <2>8, <3>1, <3>2, Echo2Places
      <3>4. proc'[p].pc # 4 /\ proc[p].pc # 4 /\ proc[p].pc # 0
        BY <2>8, <3>3
      <3> QED BY <2>1, <2>3, <2>4, <3>2, <3>4 DEF Trip, Same
    <2>9. CASE Moves(p) /\ proc[p].pc = 3
      <3>1. At(p, "put") /\ Instr(p).n = 2 /\ 2 \in Nat \ {0} /\ 3 + 1 = 4
        BY <2>9, Echo2Places
      <3>2. /\ proc'[p].pc = 4 /\ net'[d].client = net[d].client /\ Rest(d, "server") /\ proc'[p].buf = proc[p].buf
            /\ net'[d].server.in = net[d].server.in \o Msg(2)
        BY <2>1, <2>2, <2>3, <2>9, <3>1, ClientPuts
      <3>3. Turned(d) = << >> /\ net[d].server.in = << >> /\ net[d].client.open /\ Text(d) = << >>
        BY <1>2, <2>3, <2>9 DEF Bits
      <3>4. net'[d].server.in = Msg(2)
        BY <3>2, <3>3, Two, Zenon
      <3>5. Text(d)' = << >>
        BY <3>2, <3>3, Zenon DEF Text
      <3>6. Round(d)' = Msg(2)
        BY <2>4, <3>3, <3>4, <3>5, Two, Zenon DEF Round
      <3>7. serving' = d /\ proc'[S].pc = 3 => Turned(d)' # << >>
        BY <2>1, <2>3, <2>4
      <3> QED BY <2>3, <3>2, <3>3, <3>6, <3>7 DEF Trip, Rest
    <2>10. CASE Moves(p) /\ proc[p].pc = 4
      <3>1. At(p, "fill") /\ Instr(p).n = 2 /\ Instr(p).to = 0 /\ Instr(p).errs = {0} /\ net[d].client.open
        BY <2>3, <2>10, Echo2Places
      <3>2. PICK k : /\ Gets(d, "client", "server", k) /\ proc'[p].buf = proc[p].buf \o SubSeq(net[d].client.in, 1, k)
                     /\ proc'[p].pc = IF Len(proc[p].buf) + k >= 2 THEN proc[p].pc + 1 ELSE proc[p].pc
        BY <2>1, <2>10, <3>1, Fills
      <3>3. net'[d].server = net[d].server /\ Rest(d, "client") /\ k \in 1 .. Len(net[d].client.in)
        BY <3>2 DEF Gets, Same
      <3>4. Text(d)' = Text(d)
        BY <3>2, TextStays
      <3>5. Round(d)' = Msg(2)
        BY <2>3, <2>4, <2>10, <3>3, <3>4, Zenon DEF Round
      <3>6. serving' = d /\ proc'[S].pc = 3 => Turned(d)' # << >>
        BY <2>1, <2>3, <2>4
      <3>7. ASSUME proc'[p].pc # 4
            PROVE  net'[d].client.in = << >> /\ Turned(d)' = << >> /\ net'[d].server.in = << >>
        <4>1. proc'[p].pc = 5 /\ Len(proc[p].buf) + k >= 2
          BY <2>10, <3>2, <3>7
        <4>2. net'[d].client.in = << >>
          BY <1>2, <4>1 DEF Bits
        <4>3. PICK b \in Seq(Byte), y \in Seq(Byte) : b = proc[p].buf /\ y = net[d].client.in
          BY <2>1, UsesEnds
        <4>4. PICK c \in Seq(Byte) : c = SubSeq(y, 1, k) /\ Len(c) = k
          BY <3>3, <4>3, PartedBytes, Zenon
        <4>5. PICK t \in Seq(Byte) : t = b \o c /\ Len(t) = Len(b) + Len(c)
          <5>1. b \o c \in Seq(Byte) /\ Len(b \o c) = Len(b) + Len(c)
            OBVIOUS
          <5> QED BY <5>1, Zenon
        <4>6. Len(t) >= 2
          BY <4>1, <4>3, <4>4, <4>5
        <4>7. Text(d)' = t
          <5>1. t \o << >> = t
            OBVIOUS
          <5> QED BY <3>2, <4>2, <4>3, <4>4, <4>5, <5>1, Zenon DEF Text
        <4>8. PICK u \in Seq(Byte), x \in Seq(Byte) : u = Turned(d)' /\ x = net'[d].server.in
          <5>1. proc[S].buf \in Seq(Byte) /\ net[d].server.in \in Seq(Byte)
            BY <1>1, <2>1, UsesEnds DEF Names, SessionTypes, Process
          <5> QED BY <2>4, <3>3, <5>1, Two, Zenon DEF Turned
        <4>9. (t \o u) \o x \in Begun
          BY <3>5, <4>7, <4>8, Zenon DEF Round, Begun
        <4>10. t \o u \in Seq(Byte)
          OBVIOUS
        <4>11. t \o u \in Begun
          BY <4>9, <4>10, BegunBy
        <4>12. t = Msg(2) /\ u = << >>
          BY <4>6, <4>11, NothingMore
        <4>13. t \o u = t
          BY <4>12
        <4>14. x = << >>
          BY <4>6, <4>9, <4>13, NothingMore
        <4> QED BY <4>2, <4>8, <4>12, <4>14
      <3>8. proc'[p].pc = 4 => Round(d)' = Msg(2)
        BY <3>5
      <3> QED BY <2>3, <3>1, <3>3, <3>6, <3>7, <3>8 DEF Trip, Rest
    <2>11. Moves(p) => proc[p].pc \in {2, 3, 4, 5}
      BY <1>1, <2>6, Echo2Places, MovesBy, MovesIs, Place
    <2> QED BY <2>7, <2>8, <2>9, <2>10, <2>11
  <1> QED BY <1>4, <1>5

LEMMA Echo2Kept ==
    ASSUME Names, NEW d \in Clients, Connections(d), Unshut(d), Echo2(d), pair = "echo2", Next
    PROVE  Echo2(d)'
  <1> DEFINE p == P1(d)
  <1>1. CASE Still(d) \/ DoAccept(d)
    <2>1. /\ (Here(d)' <=> Here(d)) /\ Text(d)' = Text(d) /\ proc'[p] = proc[p] /\ net'[d] = net[d]
          /\ Turned(d)' = Turned(d) /\ (serving' = d /\ proc'[S].pc = 3 => serving = d /\ proc[S].pc = 3)
      <3>1. CASE Still(d)
        BY <3>1, StillHere DEF Turned
      <3>2. CASE DoAccept(d)
        BY <3>2, Accepted DEF Turned
      <3> QED BY <1>1, <3>1, <3>2
    <2>2. Round(d)' = Round(d)
      BY <2>1, Zenon DEF Round
    <2>3. Bits(d)'
      BY <2>1 DEF Echo2, Bits
    <2>4. Trip(d) => Trip(d)'
      BY <2>1, <2>2 DEF Trip
    <2> QED BY <2>1, <2>3, <2>4 DEF Echo2
  <1>2. CASE Left(d)
    <2>1. ~ Here(d)' /\ Text(d)' = Text(d) /\ proc'[p] = proc[p] /\ net'[d].client.in = net[d].client.in
      BY <1>2, LeftAlone
    <2> QED BY <2>1 DEF Echo2, Bits
  <1>3. CASE Served(d)
    <2>1. CASE ~ Moves(S)
      <3>1. ~ Here(d)' /\ Closes(d, "server", "client") /\ proc'[p] = proc[p]
        BY <1>3, <2>1, Works
      <3>2. PICK b \in Seq(Byte), y \in Seq(Byte) : b = proc[p].buf /\ y = net[d].client.in
        <4>1. Uses(p, d, "client", "server")
          BY ClientUses
        <4> QED BY <4>1, UsesEnds
      <3>3. CASE net'[d].client.in = net[d].client.in
        <4>1. Text(d)' = Text(d)
          BY <3>1, <3>3, Zenon DEF Text
        <4> QED BY <3>1, <3>3, <4>1 DEF Echo2, Bits
      <3>4. ASSUME NEW k \in 0 .. Len(y), net'[d].client.in = SubSeq(y, 1, k)
            PROVE  Echo2(d)'
        <4>1. Text(d) = b \o y /\ Text(d)' = b \o SubSeq(y, 1, k)
          BY <3>1, <3>2, <3>4, Zenon DEF Text
        <4>2. Text(d) \in Begun => Text(d)' \in Begun
          BY <4>1, BegunCut
        <4>3. y = << >> => net'[d].client.in = << >>
          BY <3>4, NothingCut
        <4>4. Text(d) = << >> => Text(d)' = << >>
          BY <4>1, <4>3, <3>4, NothingIn, Two
        <4> QED BY <3>1, <3>2, <4>2, <4>3, <4>4 DEF Echo2, Bits
      <3> QED BY <3>1, <3>2, <3>3, <3>4 DEF Closes, Same
    <2>2. CASE Moves(S)
      BY <1>3, <2>2, Echo2Served
    <2> QED BY <2>1, <2>2
  <1>4. ASSUME NEW q \in Procs, Own(d, q) PROVE Echo2(d)'
    BY <1>4, Echo2Own
  <1> QED BY <1>1, <1>2, <1>3, <1>4, ForOne

(* A line that has come ends the message; nothing comes after it. *)
LEMMA LineSplit ==
    ASSUME NEW a \in Seq(Byte), NEW x \in Seq(Byte), a \o x = Msg(2), NEW i \in 1 .. Len(a), IsLast(a[i])
    PROVE  SubSeq(a, 1, i) = Msg(2) /\ SubSeq(a, i + 1, Len(a)) = << >> /\ x = << >>
  <1>1. PICK m \in Seq(Byte) : m = Msg(2) /\ Len(m) = 2 /\ m[1] = <<1, 2>>
    BY Two, MsgBytes
  <1>2. a \o x = m
    BY <1>1, Zenon
  <1>3. Len(a) + Len(x) = 2 /\ Len(a) \in Nat /\ Len(x) \in Nat
    <2>1. Len(a \o x) = Len(a) + Len(x) /\ Len(a) \in Nat /\ Len(x) \in Nat
      OBVIOUS
    <2> QED BY <1>1, <1>2, <2>1, Zenon
  <1>4. i # 1
    <2>1. SUFFICES ASSUME i = 1 PROVE FALSE
      OBVIOUS
    <2>2. (a \o x)[1] = a[1]
      BY <2>1
    <2>3. a[1] = <<1, 2>>
      BY <1>1, <1>2, <2>2, Zenon
    <2>4. IsLast(<<1, 2>>)
      BY <2>1, <2>3, Zenon
    <2> QED BY <2>4 DEF IsLast
  <1>5. i = 2 /\ Len(a) = 2 /\ Len(x) = 0
    <2>1. PICK m1 \in Nat, n1 \in Nat : m1 = Len(a) /\ n1 = Len(x) /\ m1 + n1 = 2
      BY <1>3, Zenon
    <2>2. i \in 1 .. m1
      BY <2>1
    <2>3. i = 2 /\ m1 = 2 /\ n1 = 0
      BY <1>4, <2>1, <2>2
    <2> QED BY <2>1, <2>3, Zenon
  <1>6. x = << >>
    BY <1>5
  <1>7. a = m
    <2>1. a \o << >> = a
      OBVIOUS
    <2> QED BY <1>2, <1>6, <2>1, Zenon
  <1>8. SubSeq(a, 1, i) = a
    BY <1>5
  <1>9. SubSeq(a, i + 1, Len(a)) = << >>
    BY <1>5
  <1> QED BY <1>1, <1>6, <1>7, <1>8, <1>9, Zenon

(* What echo_stdserv and its client do at each of their positions. *)
LEMMA StdioPlaces ==
    ASSUME Names, NEW d \in Clients, pair = "stdio"
    PROVE  /\ P1(d) \in Procs /\ S \in Procs /\ P1(d) # S /\ pair \in Single /\ pair \in Talkers
           /\ proc[P1(d)].pc \in {0, 1, 2, 3, 4, 5, 6}
           /\ proc[P1(d)].pc = 1 => At(P1(d), "connect") /\ Instr(P1(d)).errs = {0}
           /\ proc[P1(d)].pc = 2 => At(P1(d), "type") /\ Instr(P1(d)).to = 6
           /\ proc[P1(d)].pc = 3 => At(P1(d), "put") /\ Instr(P1(d)).n = 2
           /\ proc[P1(d)].pc = 4 => At(P1(d), "line") /\ Instr(P1(d)).to = 5 /\ Instr(P1(d)).errs = {5}
           /\ proc[P1(d)].pc = 5 => At(P1(d), "goto") /\ Instr(P1(d)).to = 2
           /\ proc[P1(d)].pc = 6 => At(P1(d), "exit")
           /\ serving = d => proc[S].pc \in {2, 3, 4, 5}
           /\ proc[S].pc = 2 => At(S, "feof") /\ Instr(S).to = 5
           /\ proc[S].pc = 3 => At(S, "line") /\ Instr(S).to = 4 /\ Instr(S).errs = {4}
           /\ proc[S].pc = 4 => At(S, "echo") /\ Instr(S).to = 2 /\ Instr(S).op = "echo"
           /\ proc[S].pc = 5 => At(S, "close")
  <1> DEFINE p == P1(d)
  <1>1. p \in Procs /\ S \in Procs /\ p # S /\ Script(p) = stdio_client /\ Script(S) = echo_stdserv
    BY BothPrograms, PairsAre DEF Meet
  <1>2. pair \in Single /\ pair \in Talkers
    BY DEF Single, Talkers
  <1>3. /\ proc[p].pc \in {0, 1, 2, 3, 4, 5, 6}
        /\ proc[p].pc = 1 => At(p, "connect") /\ Instr(p).errs = {0}
        /\ proc[p].pc = 2 => At(p, "type") /\ Instr(p).to = 6
        /\ proc[p].pc = 3 => At(p, "put") /\ Instr(p).n = 2
        /\ proc[p].pc = 4 => At(p, "line") /\ Instr(p).to = 5 /\ Instr(p).errs = {5}
        /\ proc[p].pc = 5 => At(p, "goto") /\ Instr(p).to = 2
        /\ proc[p].pc = 6 => At(p, "exit")
    BY <1>1, StdioClientAt DEF Stands
  <1>4. /\ proc[S].pc = 2 => At(S, "feof") /\ Instr(S).to = 5
        /\ proc[S].pc = 3 => At(S, "line") /\ Instr(S).to = 4 /\ Instr(S).errs = {4}
        /\ proc[S].pc = 4 => At(S, "echo") /\ Instr(S).to = 2 /\ Instr(S).op = "echo"
        /\ proc[S].pc = 5 => At(S, "close")
    BY <1>1, EchoStdservAt DEF Stands
  <1>5. serving = d => proc[S].pc \in {2, 3, 4, 5}
    <2>1. serving = d => proc[S].pc \in 2 .. 7 /\ proc[S].pc \in Holding(echo_stdserv)
      BY <1>1, AtWork, EchoStdservText
    <2>2. 6 \notin Holding(echo_stdserv) /\ 7 \notin Holding(echo_stdserv)
      <3>1. echo_stdserv[5].op = "close" /\ 5 \in 1 .. 6 - 1 /\ 5 \in 1 .. 7 - 1
        BY EchoStdservText DEF I
      <3> QED BY <3>1 DEF Holding
    <2> QED BY <2>1, <2>2
  <1> QED BY <1>1, <1>2, <1>3, <1>4, <1>5

(* Where bytes can be. *)
LEMMA Places ==
    ASSUME Names, NEW d \in Clients
    PROVE  /\ net[d].server.in \in Seq(Byte) /\ net[d].client.in \in Seq(Byte)
           /\ proc[P1(d)].ahead \in Seq(Byte) /\ proc[S].ahead \in Seq(Byte) /\ proc[S].buf \in Seq(Byte)
  <1>1. P1(d) \in Procs /\ S \in Procs
    BY Apart
  <1> QED BY <1>1 DEF Names, SessionTypes, Process, End0

LEMMA StdioServed ==
    ASSUME Names, NEW d \in Clients, Connections(d), Unshut(d), Stdio(d), pair = "stdio", Served(d), Moves(S)
    PROVE  Stdio(d)'
  <1> DEFINE p == P1(d)
  <1>1. /\ p \in Procs /\ S \in Procs /\ p # S /\ ~ net[d].server.shut /\ ~ net[d].client.shut
    BY StdioPlaces DEF Unshut
  <1>2. /\ Uses(S, d, "server", "client") /\ serving = d /\ Here(d) /\ proc'[p] = proc[p] /\ serving' = d /\ Here(d)'
        /\ net[d].server.open
    BY Works, <1>1 DEF Served
  <1>3. PICK a \in Seq(Byte), x \in Seq(Byte), b \in Seq(Byte), r \in Seq(Byte), y \in Seq(Byte) :
           a = proc[S].ahead /\ x = net[d].server.in /\ b = proc[S].buf /\ r = proc[p].ahead /\ y = net[d].client.in
    BY Places
  <1>4. Sent(d) = a \o x /\ Back(d) = r \o y
    BY <1>2, <1>3, Zenon DEF Sent, Back
  <1>5. /\ net[d].client.err = "none"
        /\ proc[p].pc # 0 => net[d].client.open
        /\ net[d].server.err # "none" => proc[S].eof /\ proc[S].pc \in {2, 5}
        /\ proc[S].pc = 3 => ~ proc[S].eof
        /\ proc[S].eof => proc[p].pc = 0 /\ ~ net[d].client.open
        /\ proc[p].pc = 4 => OneLine(d)
        /\ proc[p].pc # 4 => NoLine(d)
    BY <1>2 DEF Stdio
  <1>6. proc[S].pc \in {2, 3, 4}
    <2>1. proc[S].pc # 5
      BY StdioPlaces, MovesBy
    <2> QED BY <1>2, <2>1, StdioPlaces
  <1>7. CASE proc[S].pc = 2
    <2>1. At(S, "feof") /\ Instr(S).to = 5
      BY <1>7, StdioPlaces
    <2>2. /\ Kept(S) /\ Same(d, "server") /\ Same(d, "client") /\ proc'[S].pc = IF proc[S].eof THEN 5 ELSE 3
      <3>1. 2 + 1 = 3
        OBVIOUS
      <3> QED BY <1>2, <1>7, <2>1, <3>1, Quiet
    <2>3. proc'[S].ahead = a /\ proc'[S].eof = proc[S].eof /\ net'[d].server = net[d].server /\ net'[d].client = net[d].client
      BY <1>3, <2>2 DEF Kept, Same
    <2>4. Sent(d)' = Sent(d) /\ Back(d)' = Back(d)
      BY <1>2, <1>3, <2>3, Zenon DEF Sent, Back
    <2>5. Reply(d)' = Reply(d)
      BY <1>7, <2>2 DEF Reply
    <2>6. (proc[p].pc = 4 => OneLine(d)') /\ (proc[p].pc # 4 => NoLine(d)')
      BY <1>5, <2>4, <2>5, Zenon DEF OneLine, NoLine, LineIs
    <2> QED BY <1>2, <1>5, <1>7, <2>2, <2>3, <2>6 DEF Stdio
  <1>8. CASE proc[S].pc = 3
    <2>1. At(S, "line") /\ Instr(S).to = 4 /\ 3 + 1 = 4
      BY <1>8, StdioPlaces
    <2>2. ~ proc[S].eof /\ net[d].server.err = "none"
      BY <1>5, <1>8
    <2>3. Uses(S, d, "server", "client") /\ At(S, "line") /\ Moves(S)
      BY <1>2, <2>1
    <2>4. LineTaken(S, d, "server", "client") \/ LineMore(S, d, "server", "client") \/ LineOver(S, d, "server", "client")
          \/ LineFailed(S, d, "server", "client")
      BY <2>3, Lines
    <2>5. CASE LineTaken(S, d, "server", "client")
      <3>1. PICK i \in 1 .. Len(a) : IsLast(a[i]) /\ proc'[S].buf = SubSeq(a, 1, i) /\ proc'[S].ahead = SubSeq(a, i + 1, Len(a))
        BY <1>3, <2>5 DEF LineTaken
      <3>2. a # << >>
        OBVIOUS
      <3>3. proc[p].pc = 4 /\ a \o x = Msg(2) /\ Back(d) = << >>
        <4>1. a \o x # << >>
          BY <3>2, NothingIn
        <4> QED BY <1>4, <1>5, <4>1, Zenon DEF OneLine, NoLine, LineIs
      <3>4. proc'[S].buf = Msg(2) /\ proc'[S].ahead = << >> /\ x = << >>
        <4>1. SubSeq(a, 1, i) = Msg(2) /\ SubSeq(a, i + 1, Len(a)) = << >> /\ x = << >>
          BY <3>1, <3>3, LineSplit, Zenon
        <4> QED BY <3>1, <4>1, Zenon
      <3>5. /\ proc'[S].pc = 4 /\ ~ proc'[S].eof /\ net'[d].server = net[d].server /\ net'[d].client = net[d].client
        BY <1>8, <2>1, <2>2, <2>5 DEF LineTaken, Same
      <3>6. Sent(d)' = << >>
        BY <1>2, <1>3, <3>4, <3>5, Two, Zenon DEF Sent
      <3>7. Reply(d)' = Msg(2)
        BY <1>2, <3>4, <3>5, Zenon DEF Reply
      <3>8. Back(d)' = << >>
        BY <1>2, <3>3, <3>5, Zenon DEF Back
      <3>9. OneLine(d)'
        BY <3>6, <3>7, <3>8, Zenon DEF OneLine, LineIs
      <3> QED BY <1>2, <1>5, <2>2, <3>3, <3>5, <3>9 DEF Stdio
    <2>6. CASE LineMore(S, d, "server", "client")
      <3>1. PICK k : Gets(d, "server", "client", k) /\ proc'[S].ahead = a \o SubSeq(x, 1, k)
        BY <1>3, <2>6 DEF LineMore
      <3>2. k \in 1 .. Len(x) /\ net'[d].server.in = SubSeq(x, k + 1, Len(x)) /\ net'[d].client = net[d].client /\ Rest(d, "server")
        BY <1>3, <3>1 DEF Gets, Same
      <3>3. proc'[S].pc = 3 /\ ~ proc'[S].eof
        BY <1>8, <2>2, <2>6 DEF LineMore
      <3>4. Sent(d)' = Sent(d)
        <4>1. (a \o SubSeq(x, 1, k)) \o SubSeq(x, k + 1, Len(x)) = a \o x
          BY <3>2, Joined
        <4> QED BY <1>2, <1>4, <3>1, <3>2, <4>1, Zenon DEF Sent
      <3>5. Back(d)' = Back(d)
        BY <1>2, <3>2, Zenon DEF Back
      <3>6. Reply(d)' = Reply(d)
        BY <1>8, <3>3 DEF Reply
      <3>7. (proc[p].pc = 4 => OneLine(d)') /\ (proc[p].pc # 4 => NoLine(d)')
        BY <1>5, <3>4, <3>5, <3>6, Zenon DEF OneLine, NoLine, LineIs
      <3> QED BY <1>2, <1>5, <2>2, <3>2, <3>3, <3>7 DEF Stdio, Rest
    <2>7. CASE LineOver(S, d, "server", "client")
      <3>1. x = << >> /\ ~ net[d].client.open /\ net'[d].server = net[d].server /\ net'[d].client = net[d].client
        BY <1>1, <1>3, <2>2, <2>7 DEF LineOver, Over0, Same
      <3>2. proc[p].pc = 0
        BY <1>5, <3>1
      <3>3. NoLine(d)
        BY <1>5, <3>2
      <3>4. /\ proc'[S].eof /\ proc'[S].ahead = << >> /\ proc'[S].pc = 4
        BY <1>8, <2>1, <2>7 DEF LineOver
      <3>5. Sent(d)' = << >>
        BY <1>2, <1>3, <3>1, <3>4, Two, Zenon DEF Sent
      <3>6. Reply(d)' = << >>
        BY <3>4, Zenon DEF Reply
      <3>7. Back(d)' = Back(d)
        BY <1>2, <3>1, Zenon DEF Back
      <3>8. NoLine(d)'
        BY <3>3, <3>5, <3>6, <3>7, Zenon DEF NoLine, LineIs
      <3> QED BY <1>2, <1>5, <2>2, <3>1, <3>2, <3>4, <3>8 DEF Stdio
    <2>8. ~ LineFailed(S, d, "server", "client")
      BY <2>2 DEF LineFailed, Fails0
    <2> QED BY <2>4, <2>5, <2>6, <2>7, <2>8, Zenon
  <1>9. CASE proc[S].pc = 4
    <2>1. At(S, "echo") /\ Instr(S).to = 2 /\ Instr(S).op = "echo" /\ net[d].server.err = "none"
      BY <1>5, <1>9, StdioPlaces
    <2>2. Output(S) = b
      BY <1>3, <2>1 DEF Output
    <2>3. ASSUME NEW op \in {"put", "echo"}, op = "echo", NEW s, s = "server", NEW o, o = "client"
          PROVE  /\ Kept(S) /\ proc'[S].pc = 2
                 /\ \/ Output(S) = << >> /\ Same(d, s) /\ Same(d, o)
                    \/ Output(S) # << >> /\ net[d][o].open /\ Same(d, s) /\ Rest(d, o) /\ net'[d][o].in = net[d][o].in \o Output(S)
                    \/ Output(S) # << >> /\ ~ net[d][o].open /\ Same(d, o) /\ Flags(d, s)
      <3>1. Uses(S, d, s, o) /\ At(S, op) /\ Moves(S) /\ net[d][s].err = "none"
        BY <1>2, <2>1, <2>3
      <3>2. /\ Kept(S) /\ proc'[S].pc = IF op = "echo" THEN Instr(S).to ELSE proc[S].pc + 1
            /\ \/ Output(S) = << >> /\ Same(d, s) /\ Same(d, o)
               \/ Output(S) # << >> /\ net[d][o].open /\ Same(d, s) /\ Rest(d, o) /\ net'[d][o].in = net[d][o].in \o Output(S)
               \/ Output(S) # << >> /\ ~ net[d][o].open /\ Same(d, o) /\ Flags(d, s)
          <4>1. Kept(S) /\ proc'[S].pc = IF op = "echo" THEN Instr(S).to ELSE proc[S].pc + 1
            BY <3>1, Puts
          <4>2. Landed(S, d, s, o)
            BY <3>1, Puts
          <4> QED BY <3>1, <4>1, <4>2, Zenon DEF Landed
      <3> QED BY <2>1, <2>3, <3>2
    <2>4. /\ Kept(S) /\ proc'[S].pc = 2
          /\ \/ Output(S) = << >> /\ Same(d, "server") /\ Same(d, "client")
             \/ /\ Output(S) # << >> /\ net[d].client.open /\ Same(d, "server") /\ Rest(d, "client")
                /\ net'[d].client.in = net[d].client.in \o Output(S)
             \/ Output(S) # << >> /\ ~ net[d].client.open /\ Same(d, "client") /\ Flags(d, "server")
      BY <2>3
    <2>5. proc'[S].ahead = a /\ proc'[S].eof = proc[S].eof
      BY <1>3, <2>4 DEF Kept
    <2>6. Reply(d)' = << >>
      <3>1. proc'[S].pc = 2
        BY <2>4, Zenon
      <3>2. 2 # 4
        OBVIOUS
      <3> QED BY <3>1, <3>2, Zenon DEF Reply
    <2>7. CASE Output(S) = << >> /\ Same(d, "server") /\ Same(d, "client")
      <3>1. Reply(d) = << >>
        BY <1>3, <2>2, <2>7, Zenon DEF Reply
      <3>2. Sent(d)' = Sent(d) /\ Back(d)' = Back(d)
        BY <1>2, <1>3, <2>5, <2>7, Zenon DEF Sent, Back, Same
      <3>3. (proc[p].pc = 4 => OneLine(d)') /\ (proc[p].pc # 4 => NoLine(d)')
        BY <1>5, <2>6, <3>1, <3>2, Zenon DEF OneLine, NoLine, LineIs
      <3> QED BY <1>2, <1>5, <2>1, <2>4, <2>5, <2>7, <3>3 DEF Stdio, Same
    <2>8. CASE /\ Output(S) # << >> /\ net[d].client.open /\ Same(d, "server") /\ Rest(d, "client")
               /\ net'[d].client.in = net[d].client.in \o Output(S)
      <3>1. ~ proc[S].eof
        BY <1>5, <2>8
      <3>2. Reply(d) = b /\ b # << >>
        BY <1>2, <1>3, <1>9, <2>2, <2>8, <3>1, Zenon DEF Reply
      <3>3. proc[p].pc = 4 /\ a \o x = << >> /\ b = Msg(2) /\ r \o y = << >>
        BY <1>4, <1>5, <3>2, Zenon DEF OneLine, NoLine, LineIs
      <3>4. r = << >> /\ y = << >>
        BY <3>3, NothingIn
      <3>5. net'[d].client.in = Msg(2)
        BY <1>3, <2>2, <2>8, <3>3, <3>4, Two, Zenon
      <3>6. Back(d)' = Msg(2)
        BY <1>2, <1>3, <3>4, <3>5, Two, Zenon DEF Back
      <3>7. Sent(d)' = << >>
        BY <1>2, <1>3, <2>5, <2>8, <3>3, Zenon DEF Sent, Same
      <3>8. OneLine(d)'
        BY <2>6, <3>6, <3>7, Zenon DEF OneLine, LineIs
      <3> QED BY <1>2, <1>5, <2>1, <2>4, <2>5, <2>8, <3>1, <3>3, <3>8 DEF Stdio, Same, Rest
    <2>9. CASE Output(S) # << >> /\ ~ net[d].client.open /\ Same(d, "client") /\ Flags(d, "server")
      <3>1. proc[p].pc = 0
        BY <1>5, <2>9
      <3>2. NoLine(d)
        BY <1>5, <3>1
      <3>3. proc[S].eof
        <4>1. Reply(d) = << >>
          BY <3>2, Zenon DEF NoLine, LineIs
        <4> QED BY <1>2, <1>3, <1>9, <2>2, <2>9, <4>1, Zenon DEF Reply
      <3>4. Sent(d)' = Sent(d) /\ Back(d)' = Back(d)
        BY <1>2, <1>3, <2>5, <2>9, Zenon DEF Sent, Back, Same, Flags
      <3>5. NoLine(d)'
        BY <2>6, <3>2, <3>4, Zenon DEF NoLine, LineIs
      <3> QED
        <4>1. proc'[p].pc = 0 /\ ~ net'[d].client.open /\ net'[d].client.err = "none"
          BY <1>2, <1>5, <2>9, <3>1 DEF Same
        <4>2. serving' = d /\ proc'[S].pc = 2 /\ proc'[S].eof
          BY <1>2, <2>4, <2>5, <3>3
        <4> QED BY <3>5, <4>1, <4>2 DEF Stdio
    <2> QED BY <2>4, <2>7, <2>8, <2>9
  <1> QED BY <1>6, <1>7, <1>8, <1>9

LEMMA StdioOwn ==
    ASSUME Names, NEW d \in Clients, Connections(d), Unshut(d), Stdio(d), pair = "stdio", pair' = pair,
           NEW q \in Procs, Own(d, q)
    PROVE  Stdio(d)'
  <1> DEFINE p == P1(d)
  <1>1. /\ p \in Procs /\ S \in Procs /\ p # S /\ pair \in Single
        /\ ~ net[d].server.shut /\ ~ net[d].client.shut
    BY StdioPlaces DEF Unshut
  <1>2. CASE DoConnect(q) \/ ConnectFails(q)
    <2>1. /\ q = p /\ net[d].server = OpenEnd /\ net[d].client = OpenEnd /\ serving' # d /\ serving # d
          /\ proc'[p].ahead = << >>
      BY <1>1, <1>2, Connects
    <2>2. CASE DoConnect(q)
      <3>1. proc'[p].pc = 2 /\ net'[d] = net[d]
        BY <1>1, <2>1, <2>2, Connects
      <3>2. net'[d].server.in = << >> /\ net'[d].client.in = << >>
        BY <2>1, <3>1 DEF OpenEnd
      <3>3. NoLine(d)'
        BY <2>1, <3>2, Two, Zenon DEF NoLine, LineIs, Sent, Reply, Back
      <3> QED BY <2>1, <3>1, <3>3 DEF Stdio, OpenEnd
    <2>3. CASE ~ DoConnect(q)
      <3>1. ~ Here(d)'
        BY <1>1, <1>2, <2>1, <2>3, Connects
      <3> QED BY <3>1 DEF Stdio
    <2> QED BY <2>2, <2>3
  <1>3. CASE ~ DoConnect(q) /\ ~ ConnectFails(q)
    <2>1. /\ q = p /\ Uses(p, d, "client", "server") /\ (Here(d)' <=> Here(d)) /\ serving' = serving /\ proc'[S] = proc[S]
      BY <1>1, <1>3, Runs
    <2>2. ~ Here(d) => Stdio(d)'
      BY <2>1 DEF Stdio
    <2>3. ASSUME Here(d) PROVE Stdio(d)'
      <3>1. PICK h \in Seq(Byte), x \in Seq(Byte), r \in Seq(Byte), y \in Seq(Byte) :
               /\ h = (IF serving = d THEN proc[S].ahead ELSE << >>) /\ x = net[d].server.in
               /\ r = proc[p].ahead /\ y = net[d].client.in
        BY Places, Two, Zenon
      <3>2. /\ net[d].client.err = "none"
            /\ proc[p].pc # 0 => net[d].client.open
            /\ net[d].server.err # "none" => serving = d /\ proc[S].eof /\ proc[S].pc \in {2, 5}
            /\ serving = d /\ proc[S].pc = 3 => ~ proc[S].eof
            /\ serving = d /\ proc[S].eof => proc[p].pc = 0 /\ ~ net[d].client.open
            /\ proc[p].pc = 4 => OneLine(d)
            /\ proc[p].pc # 4 => NoLine(d)
            /\ net[d].server.open
        BY <2>3 DEF Stdio, Connections
      <3>3. Sent(d) = h \o x /\ Back(d) = r \o y /\ Reply(d)' = Reply(d)
        BY <2>1, <3>1, Zenon DEF Sent, Back, Reply
      <3>4. Mine(p).err = "none"
        BY <2>1, <3>2, UsesEnds
      <3>5. proc[p].pc # 1
        BY <2>3 DEF Connections, Here
      (* What is left to show of a step of a client that is still there. *)
      <3>6. ASSUME proc[p].pc # 0, net'[d].client.open, net'[d].client.err = "none", net'[d].server.err = net[d].server.err,
                   proc'[p].pc = 4 => OneLine(d)', proc'[p].pc # 4 => NoLine(d)'
            PROVE  Stdio(d)'
        BY <2>1, <3>2, <3>6 DEF Stdio
      <3>7. CASE ~ Moves(p)
        <4>1. Perishes(p) /\ proc'[p].pc = 0 /\ ((Same(d, "server") /\ Same(d, "client")) \/ Closes(d, "client", "server"))
              /\ proc'[p].ahead = r
          <5>1. Perishes(p) /\ proc'[p].pc = 0 /\ ((Same(d, "server") /\ Same(d, "client")) \/ Closes(d, "client", "server"))
            BY <1>1, <1>3, <2>1, <3>7, Runs
          <5>2. proc'[p].ahead = proc[p].ahead
            <6>1. PICK Q : Fate(p, Q)
              BY <1>1, <5>1, PerishesIs
            <6>2. Ended0(Q) /\ p \in Q
              BY <1>1, <6>1, FateIs DEF Fate
            <6> QED BY <1>1, <6>2 DEF Ended0
          <5> QED BY <3>1, <5>1, <5>2
        <4>2. PICK op \in {"put", "echo", "read", "body", "fill", "line", "exit", "exitall"} : At(p, op)
          BY <1>1, <4>1, PerishesIs
        <4>3. ~ WriteKills(p) /\ ~ ReadFails(p)
          BY <1>1, <3>4, WriteKillsIs, ReadFailsIs DEF Failed
        <4>4. proc[p].pc = 6
          BY <3>5, <4>1, <4>2, <4>3, StdioPlaces, PerishesBy DEF At
        <4>5. NoLine(d) /\ (serving = d => ~ proc[S].eof)
          BY <3>2, <4>4
        <4>6. r = << >> /\ y = << >> /\ h \o x = << >>
          <5>1. r \o y = << >> /\ h \o x = << >>
            BY <3>3, <4>5, Zenon DEF NoLine, LineIs
          <5> QED BY <5>1, NothingIn
        <4>7. net'[d].server = net[d].server /\ net'[d].client.in = << >> /\ net'[d].client.err = net[d].client.err
          BY <3>1, <4>1, <4>6 DEF Closes, Same
        <4>8. Sent(d)' = << >>
          BY <2>1, <3>1, <4>6, <4>7, Zenon DEF Sent
        <4>9. Back(d)' = << >>
          BY <4>1, <4>6, <4>7, Two, Zenon DEF Back
        <4>10. NoLine(d)'
          BY <3>3, <4>5, <4>8, <4>9, Zenon DEF NoLine, LineIs
        <4> QED BY <2>1, <3>2, <4>1, <4>5, <4>7, <4>10 DEF Stdio
      <3>8. CASE Moves(p) /\ proc[p].pc \in {2, 5}
        <4>1. PICK op \in {"show", "goto", "feof", "choose", "again", "type"} : At(p, op) /\ op = IF proc[p].pc = 2 THEN "type" ELSE "goto"
          BY <3>8, StdioPlaces
        <4>2. /\ Same(d, "client") /\ Same(d, "server") /\ Kept(p)
              /\ op = "goto" => proc'[p].pc = Instr(p).to
              /\ op = "type" => proc'[p].pc = proc[p].pc + 1 \/ (proc'[p].pc = Instr(p).to /\ Instr(p).to # 0)
          BY <2>1, <3>8, <4>1, Quiet
        <4>3. IF proc[p].pc = 2 THEN proc'[p].pc \in {3, 6} ELSE proc'[p].pc = 2
          BY <3>8, <4>1, <4>2, StdioPlaces
        <4>4. Sent(d)' = Sent(d) /\ Back(d)' = Back(d)
          BY <2>1, <4>2, Zenon DEF Sent, Back, Same, Kept
        <4>5. NoLine(d)
          BY <3>2, <3>8
        <4>6. NoLine(d)'
          BY <3>3, <4>4, <4>5, Zenon DEF NoLine, LineIs
        <4>7. proc'[p].pc # 4 /\ proc[p].pc # 0
          BY <3>8, <4>3
        <4> QED BY <3>2, <3>6, <4>2, <4>6, <4>7 DEF Same
      <3>9. CASE Moves(p) /\ proc[p].pc = 3
        <4>1. At(p, "put") /\ Instr(p).n = 2 /\ 2 \in Nat \ {0} /\ 3 + 1 = 4
          BY <3>9, StdioPlaces
        <4>2. /\ proc'[p].pc = 4 /\ net'[d].client = net[d].client /\ Rest(d, "server") /\ Kept(p)
              /\ net'[d].server.in = net[d].server.in \o Msg(2)
          BY <2>1, <3>2, <3>9, <4>1, ClientPuts
        <4>3. NoLine(d)
          BY <3>2, <3>9
        <4>4. h = << >> /\ x = << >>
          <5>1. h \o x = << >>
            BY <3>3, <4>3, Zenon DEF NoLine, LineIs
          <5> QED BY <5>1, NothingIn
        <4>5. net'[d].server.in = Msg(2)
          BY <3>1, <4>2, <4>4, Two, Zenon
        <4>6. Sent(d)' = Msg(2)
          BY <2>1, <3>1, <4>4, <4>5, Two, Zenon DEF Sent
        <4>7. Back(d)' = Back(d)
          BY <4>2, Zenon DEF Back, Kept
        <4>8. OneLine(d)'
          BY <3>3, <4>3, <4>6, <4>7, Zenon DEF OneLine, NoLine, LineIs
        <4>9. net[d].client.open /\ proc[p].pc # 0
          BY <3>2, <3>9
        <4> QED BY <3>2, <3>6, <4>2, <4>8, <4>9 DEF Rest
      <3>10. CASE Moves(p) /\ proc[p].pc = 4
        <4>1. At(p, "line") /\ Instr(p).to = 5
          BY <3>10, StdioPlaces
        <4>2. LineTaken(p, d, "client", "server") \/ LineMore(p, d, "client", "server") \/ LineOver(p, d, "client", "server")
              \/ LineFailed(p, d, "client", "server")
          <5>1. Uses(p, d, "client", "server") /\ At(p, "line") /\ Moves(p)
            BY <2>1, <3>10, <4>1
          <5> QED BY <5>1, Lines
        <4>3. ~ LineFailed(p, d, "client", "server") /\ ~ LineOver(p, d, "client", "server")
          BY <1>1, <3>2 DEF LineFailed, Fails0, LineOver, Over0
        <4>4. OneLine(d) /\ net[d].client.open /\ proc[p].pc # 0
          BY <3>2, <3>10
        <4>5. CASE LineTaken(p, d, "client", "server")
          <5>1. PICK i \in 1 .. Len(r) : IsLast(r[i]) /\ proc'[p].ahead = SubSeq(r, i + 1, Len(r))
            BY <3>1, <4>5 DEF LineTaken
          <5>2. r # << >>
            OBVIOUS
          <5>3. r \o y # << >>
            BY <5>2, NothingIn
          <5>4. r \o y = Msg(2) /\ Sent(d) = << >> /\ Reply(d) = << >>
            BY <3>3, <4>4, <5>3, Zenon DEF OneLine, LineIs
          <5>5. proc'[p].ahead = << >> /\ y = << >>
            <6>1. SubSeq(r, i + 1, Len(r)) = << >> /\ y = << >>
              BY <5>1, <5>4, LineSplit
            <6> QED BY <5>1, <6>1, Zenon
          <5>6. net'[d].server = net[d].server /\ net'[d].client = net[d].client /\ proc'[p].pc = 5
            BY <3>10, <4>5 DEF LineTaken, Same
          <5>7. Sent(d)' = << >>
            BY <2>1, <5>4, <5>6, Zenon DEF Sent
          <5>8. Back(d)' = << >>
            BY <3>1, <5>5, <5>6, Two, Zenon DEF Back
          <5>9. NoLine(d)'
            BY <3>3, <5>4, <5>7, <5>8, Zenon DEF NoLine, LineIs
          <5> QED BY <3>2, <3>6, <4>4, <5>6, <5>9
        <4>6. CASE LineMore(p, d, "client", "server")
          <5>1. PICK k : Gets(d, "client", "server", k) /\ proc'[p].ahead = r \o SubSeq(y, 1, k)
            BY <3>1, <4>6 DEF LineMore
          <5>2. k \in 1 .. Len(y) /\ net'[d].client.in = SubSeq(y, k + 1, Len(y)) /\ net'[d].server = net[d].server /\ Rest(d, "client")
            BY <3>1, <5>1 DEF Gets, Same
          <5>3. proc'[p].pc = 4
            BY <3>10, <4>6 DEF LineMore
          <5>4. Back(d)' = Back(d)
            <6>1. (r \o SubSeq(y, 1, k)) \o SubSeq(y, k + 1, Len(y)) = r \o y
              BY <5>2, Joined
            <6> QED BY <3>3, <5>1, <5>2, <6>1, Zenon DEF Back
          <5>5. Sent(d)' = Sent(d)
            BY <2>1, <5>2, Zenon DEF Sent
          <5>6. OneLine(d)'
            BY <3>3, <4>4, <5>4, <5>5, Zenon DEF OneLine, LineIs
          <5> QED BY <3>2, <3>6, <4>4, <5>2, <5>3, <5>6 DEF Rest
        <4> QED BY <4>2, <4>3, <4>5, <4>6, Zenon
      <3>11. Moves(p) => proc[p].pc \in {2, 3, 4, 5}
        BY <1>1, <3>5, StdioPlaces, MovesBy, MovesIs, Place
      <3> QED BY <3>7, <3>8, <3>9, <3>10, <3>11
    <2> QED BY <2>2, <2>3
  <1> QED BY <1>2, <1>3

LEMMA StdioKept ==
    ASSUME Names, NEW d \in Clients, Connections(d), Unshut(d), Stdio(d), pair = "stdio", Next
    PROVE  Stdio(d)'
  <1> DEFINE p == P1(d)
  <1>1. pair' = pair
    BY PairStays
  <1>2. CASE Still(d)
    <2>1. /\ (Here(d)' <=> Here(d)) /\ proc'[p] = proc[p] /\ net'[d] = net[d]
          /\ (serving' = d) <=> (serving = d)
          /\ serving = d => proc'[S] = proc[S]
      BY <1>2, StillHere
    <2>2. Sent(d)' = Sent(d) /\ Reply(d)' = Reply(d) /\ Back(d)' = Back(d)
      BY <2>1, Zenon DEF Sent, Reply, Back
    <2>3. (OneLine(d)' <=> OneLine(d)) /\ (NoLine(d)' <=> NoLine(d))
      BY <2>2, Zenon DEF OneLine, NoLine, LineIs
    <2> QED BY <2>1, <2>3 DEF Stdio
  <1>3. CASE Left(d)
    <2>1. ~ Here(d)'
      BY <1>3, LeftAlone
    <2> QED BY <2>1 DEF Stdio
  <1>4. CASE DoAccept(d)
    <2>1. /\ Here(d) /\ serving # d /\ serving' = d /\ proc'[S].pc = 2 /\ proc'[S].ahead = << >> /\ ~ proc'[S].eof
          /\ proc'[p] = proc[p] /\ net'[d] = net[d]
      BY <1>4, Accepted
    <2>2. Reply(d) = << >> /\ Reply(d)' = << >>
      BY <2>1 DEF Reply
    <2>3. Sent(d)' = Sent(d) /\ Back(d)' = Back(d)
      BY <2>1, Zenon DEF Sent, Back
    <2>4. (OneLine(d)' <=> OneLine(d)) /\ (NoLine(d)' <=> NoLine(d))
      BY <2>2, <2>3, Zenon DEF OneLine, NoLine, LineIs
    <2> QED BY <2>1, <2>4 DEF Stdio
  <1>5. CASE Served(d)
    <2>1. CASE ~ Moves(S)
      <3>1. ~ Here(d)'
        BY <1>5, <2>1, Works
      <3> QED BY <3>1 DEF Stdio
    <2>2. CASE Moves(S)
      BY <1>5, <2>2, StdioServed
    <2> QED BY <2>1, <2>2
  <1>6. ASSUME NEW q \in Procs, Own(d, q) PROVE Stdio(d)'
    BY <1>1, <1>6, StdioOwn
  <1> QED BY <1>2, <1>3, <1>4, <1>5, <1>6, ForOne

(* What is written to the other end is a line, or is lost; who does not read leaves what there is to read. *)
LEMMA PutOn ==
    ASSUME Names, NEW p, NEW d, NEW s, NEW o, Uses(p, d, s, o), At(p, "put"), Instr(p).n = 2, Moves(p)
    PROVE  net'[d][o].in \in {net[d][o].in, net[d][o].in \o Msg(2)}
  <1>1. Landed(p, d, s, o)
    BY Puts
  <1>2. Output(p) = Msg(2)
    BY DEF Output, At
  <1> QED BY <1>1, <1>2, Zenon DEF Landed, Same, Flags

Idle == {"show", "goto", "feof", "choose", "again", "type"}

LEMMA NotReading ==
    ASSUME Names, NEW p, NEW d, NEW s, NEW o, Uses(p, d, s, o), NEW op \in Idle \cup {"put", "echo", "shut"}, At(p, op), Moves(p)
    PROVE  proc'[p].ahead = proc[p].ahead /\ net'[d][s].in = net[d][s].in
  <1>1. CASE op \in Idle
    BY <1>1, Quiet DEF Idle, Kept, Same
  <1>2. CASE op \in {"put", "echo"}
    <2>1. Kept(p) /\ Landed(p, d, s, o)
      BY <1>2, Puts
    <2> QED BY <2>1, Zenon DEF Kept, Landed, Same, Flags
  <1>3. CASE op = "shut"
    BY <1>3, Shutting DEF Kept
  <1> QED BY <1>1, <1>2, <1>3

LEMMA NotWriting ==
    ASSUME Names, NEW p, NEW d, NEW s, NEW o, Uses(p, d, s, o), NEW op \in Idle \cup {"read", "fill", "line", "shut"}, At(p, op),
           Moves(p)
    PROVE  net'[d][o] = net[d][o]
  <1>1. CASE op \in Idle
    BY <1>1, Quiet DEF Idle, Same
  <1>2. CASE op = "read"
    BY <1>2, Reads DEF Gets, Over0, Fails0, Same
  <1>3. CASE op = "fill"
    BY <1>3, Fills DEF Gets, Over0, Fails0, Same
  <1>4. CASE op = "line"
    BY <1>4, Lines DEF LineTaken, LineMore, LineOver, LineFailed, Gets, Over0, Fails0, Same
  <1>5. CASE op = "shut"
    BY <1>5, Shutting DEF Same
  <1> QED BY <1>1, <1>2, <1>3, <1>4, <1>5

(* fgets() takes lines off lines. *)
LEMMA RowsRead ==
    ASSUME Names, NEW p, NEW d, NEW s, NEW o, Uses(p, d, s, o), At(p, "line"), Moves(p), Rows(proc[p].ahead \o net[d][s].in)
    PROVE  Rows(proc'[p].ahead \o net'[d][s].in)
  <1>1. PICK a \in Seq(Byte), x \in Seq(Byte) : a = proc[p].ahead /\ x = net[d][s].in
    BY UsesEnds
  <1>2. Rows(a \o x)
    BY <1>1, Zenon
  <1>3. CASE LineTaken(p, d, s, o)
    <2>1. PICK i \in 1 .. Len(a) : IsLast(a[i]) /\ (\A j \in 1 .. i - 1 : ~ IsLast(a[j])) /\ proc'[p].ahead = SubSeq(a, i + 1, Len(a))
      BY <1>1, <1>3, Zenon DEF LineTaken
    <2>2. Rows(SubSeq(a, i + 1, Len(a)) \o x)
      BY <1>2, <2>1, RowsTaken
    <2> QED BY <1>1, <1>3, <2>1, <2>2, Zenon DEF LineTaken, Same
  <1>4. CASE LineMore(p, d, s, o)
    <2>1. PICK k : k \in 1 .. Len(x) /\ net'[d][s].in = SubSeq(x, k + 1, Len(x)) /\ proc'[p].ahead = a \o SubSeq(x, 1, k)
      BY <1>1, <1>4, Zenon DEF LineMore, Gets
    <2>2. (a \o SubSeq(x, 1, k)) \o SubSeq(x, k + 1, Len(x)) = a \o x
      BY <2>1, Joined
    <2> QED BY <1>2, <2>1, <2>2, Zenon
  <1>5. CASE LineOver(p, d, s, o) \/ LineFailed(p, d, s, o)
    <2>1. proc'[p].ahead = << >> /\ net'[d][s].in = << >>
      BY <1>5, Zenon DEF LineOver, LineFailed, Over0, Fails0, Same, Flags
    <2> QED BY <2>1, RowsFew, Two, Zenon
  <1> QED BY <1>3, <1>4, <1>5, Lines

LEMMA SepPlaces ==
    ASSUME Names, NEW d \in Clients, pair \in {"sep", "sep2"}
    PROVE  /\ P1(d) \in Procs /\ S \in Procs /\ P1(d) # S /\ pair \in Single
           /\ proc[P1(d)].pc \in {0, 1, 2, 3, 4, 5}
           /\ proc[P1(d)].pc = 1 => At(P1(d), "connect") /\ Instr(P1(d)).errs = {2}
           /\ proc[P1(d)].pc = 2 => At(P1(d), "line") /\ Instr(P1(d)).errs = {4}
           /\ proc[P1(d)].pc = 3 => At(P1(d), "goto")
           /\ proc[P1(d)].pc = 4 => At(P1(d), "put") /\ Instr(P1(d)).n = 2
           /\ proc[P1(d)].pc = 5 => At(P1(d), "exit")
           /\ Moves(S) => \/ At(S, "put") /\ Instr(S).n = 2
                          \/ pair = "sep2" /\ (At(S, "shut") \/ At(S, "line"))
  <1>1. /\ P1(d) \in Procs /\ S \in Procs /\ P1(d) # S /\ pair \in Single
        /\ Script(P1(d)) = sep_clnt /\ Script(S) = IF pair = "sep" THEN sep_serv ELSE sep_serv2
    BY BothPrograms, PairsAre DEF Meet, Single
  <1>2. Moves(S) => At(S, "put") \/ At(S, "shut") \/ At(S, "line")
    <2>1. ASSUME Moves(S) PROVE proc[S].pc # 0 /\ ~ At(S, "accept") /\ ~ At(S, "exit")
      <3>1. ~ At(S, "accept") /\ ~ At(S, "exit")
        BY <2>1, MovesBy
      <3> QED BY <1>1, <2>1, <3>1, MovesIs DEF At
    <2>2. CASE pair = "sep"
      BY <1>1, <2>1, <2>2, Place, SepServText DEF I
    <2>3. CASE pair = "sep2"
      BY <1>1, <2>1, <2>3, SepServ2At DEF Stands
    <2> QED BY <2>2, <2>3
  <1>3. /\ At(S, "put") => Instr(S).n = 2
        /\ pair = "sep" => ~ At(S, "shut") /\ ~ At(S, "line")
    <2>1. CASE pair = "sep"
      BY <1>1, <2>1, Place, SepServText DEF I
    <2>2. CASE pair = "sep2"
      BY <1>1, <2>2, Place, SepServ2Text DEF I
    <2> QED BY <2>1, <2>2
  <1>4. /\ proc[P1(d)].pc \in {0, 1, 2, 3, 4, 5}
        /\ proc[P1(d)].pc = 1 => At(P1(d), "connect") /\ Instr(P1(d)).errs = {2}
        /\ proc[P1(d)].pc = 2 => At(P1(d), "line") /\ Instr(P1(d)).errs = {4}
        /\ proc[P1(d)].pc = 3 => At(P1(d), "goto")
        /\ proc[P1(d)].pc = 4 => At(P1(d), "put") /\ Instr(P1(d)).n = 2
        /\ proc[P1(d)].pc = 5 => At(P1(d), "exit")
    BY <1>1, SepClntAt DEF Stands
  <1> QED BY <1>1, <1>2, <1>3, <1>4

(* The client that reads lines finds lines. *)
LEMMA LinedKept ==
    ASSUME Names, NEW d \in Clients, Connections(d), Lined(d), pair \in {"stdio", "sep", "sep2"},
           pair = "stdio" => Stdio(d) /\ Stdio(d)', pair = "sep2" => Sep2(d), Next
    PROVE  Lined(d)'
  <1> DEFINE p == P1(d)
  <1>1. /\ p \in Procs /\ S \in Procs /\ p # S /\ pair \in Single /\ pair' = pair
    BY SepPlaces, StdioPlaces, PairStays
  <1>2. PICK a \in Seq(Byte), x \in Seq(Byte) : a = proc[p].ahead /\ x = net[d].client.in
    BY Places
  <1>3. ASSUME proc'[p] = proc[p], Here(d)' => Here(d), net'[d].server.in = net[d].server.in \/ ~ Here(d)',
               proc[p].pc \in Reading(pair) => \/ net'[d].client.in = net[d].client.in
                                               \/ net'[d].client.in = net[d].client.in \o Msg(2)
        PROVE  Lined(d)'
    <2>1. SUFFICES ASSUME proc[p].pc \in Reading(pair)
                   PROVE  Rows(Back(d)') /\ (pair = "sep" /\ Here(d)' => net'[d].server.in = << >>)
      BY <1>1, <1>3, Zenon DEF Lined
    <2>2. Rows(Back(d)) /\ (pair = "sep" /\ Here(d) => net[d].server.in = << >>)
      BY <2>1, Zenon DEF Lined
    <2>3. Back(d) = a \o x /\ a \o (x \o Msg(2)) = (a \o x) \o Msg(2) /\ a \o x \in Seq(Byte)
      <3>1. a \o (x \o Msg(2)) = (a \o x) \o Msg(2)
        <4>1. PICK m \in Seq(Byte) : m = Msg(2)
          BY Two
        <4>2. a \o (x \o m) = (a \o x) \o m
          BY Longer
        <4> QED BY <4>1, <4>2, Zenon
      <3>2. a \o x \in Seq(Byte)
        OBVIOUS
      <3> QED BY <1>2, <3>1, <3>2, Zenon DEF Back
    <2>4. Back(d)' = a \o x \/ Back(d)' = (a \o x) \o Msg(2)
      BY <1>2, <1>3, <2>1, <2>3, Zenon DEF Back
    <2>5. Rows(Back(d)')
      BY <2>2, <2>3, <2>4, RowsGrow, Zenon
    <2> QED BY <1>3, <2>2, <2>5, Zenon
  <1>4. CASE Still(d) \/ DoAccept(d) \/ Left(d)
    <2>1. CASE Still(d)
      BY <1>3, <2>1, StillHere
    <2>2. CASE DoAccept(d)
      BY <1>3, <2>2, Accepted
    <2>3. CASE Left(d)
      BY <1>3, <2>3, LeftAlone
    <2> QED BY <1>4, <2>1, <2>2, <2>3
  <1>5. CASE Served(d) /\ ~ Moves(S)
    <2>1. ~ Here(d)' /\ Here(d) /\ serving = d /\ Closes(d, "server", "client") /\ proc'[p] = proc[p] /\ proc[p].pc # 1
      BY <1>5, Works DEF Served, Connections
    <2>2. ASSUME proc[p].pc \in Reading(pair) PROVE net'[d].client.in = net[d].client.in
      <3>1. CASE net[d].server.in = << >>
        BY <2>1, <3>1 DEF Closes, Same
      <3>2. CASE net[d].server.in # << >>
        <4>1. pair # "sep"
          BY <2>1, <2>2, <3>2 DEF Lined
        <4>2. pair # "sep2"
          BY <2>1, <2>2, <3>2 DEF Sep2, Reading
        <4>3. Stdio(d) /\ Sent(d) # << >>
          <5>1. proc[S].ahead \o net[d].server.in # << >>
            BY <3>2, Places, NothingIn
          <5> QED BY <1>1, <2>1, <4>1, <4>2, <5>1 DEF Sent
        <4>4. Back(d) = << >>
          BY <2>1, <4>3 DEF Stdio, OneLine, NoLine, LineIs
        <4>5. x = << >>
          BY <1>2, <4>4, NothingIn DEF Back
        <4> QED BY <1>2, <2>1, <4>5, NothingCut DEF Closes, Same
      <3> QED BY <3>1, <3>2
    <2> QED BY <1>3, <2>1, <2>2
  <1>6. CASE Served(d) /\ Moves(S)
    <2>1. Uses(S, d, "server", "client") /\ Here(d) /\ Here(d)' /\ proc'[p] = proc[p]
      BY <1>6, Works
    <2>2. CASE pair = "stdio"
      <3>1. Back(d)' = << >> \/ Back(d)' = Msg(2)
        BY <2>1, <2>2 DEF Stdio, OneLine, NoLine, LineIs
      <3> QED BY <1>1, <2>2, <3>1, RowsFew DEF Lined
    <2>3. CASE At(S, "put") /\ Instr(S).n = 2
      <3>1. net'[d].client.in \in {net[d].client.in, net[d].client.in \o Msg(2)}
        BY <1>6, <2>1, <2>3, PutOn, Zenon
      <3>2. net'[d].server.in = net[d].server.in
        <4>1. At(S, "put") /\ Moves(S) /\ Uses(S, d, "server", "client")
          BY <1>6, <2>1, <2>3
        <4> QED BY <4>1, Wrote
      <3>3. net'[d].client.in = net[d].client.in \/ net'[d].client.in = net[d].client.in \o Msg(2)
        BY <3>1, Zenon
      <3> QED BY <1>3, <2>1, <3>2, <3>3, Zenon
    <2>4. CASE pair = "sep2" /\ (At(S, "shut") \/ At(S, "line"))
      <3>1. net'[d].client = net[d].client
        BY <1>6, <2>1, <2>4, NotWriting
      <3>2. ASSUME proc[p].pc \in Reading(pair) PROVE Rows(Back(d)')
        <4>1. Back(d)' = Back(d)
          BY <2>1, <3>1, Zenon DEF Back
        <4> QED BY <3>2, <4>1, Zenon DEF Lined
      <3> QED BY <1>1, <2>1, <2>4, <3>2, Zenon DEF Lined
    <2> QED BY <1>6, <2>2, <2>3, <2>4, SepPlaces
  <1>7. ASSUME NEW q \in Procs, Own(d, q) PROVE Lined(d)'
    <2>1. CASE DoConnect(q) \/ ConnectFails(q)
      <3>1. proc'[p].ahead = << >> /\ net'[d].client.in = << >> /\ net'[d].server.in = << >>
        BY <1>1, <1>7, <2>1, Connects DEF OpenEnd
      <3>2. Rows(Back(d)')
        BY <3>1, RowsFew, Two, Zenon DEF Back
      <3> QED BY <3>1, <3>2, Zenon DEF Lined
    <2>2. CASE ~ DoConnect(q) /\ ~ ConnectFails(q)
      <3>1. q = p /\ Uses(p, d, "client", "server") /\ (Here(d)' <=> Here(d)) /\ (~ Moves(p) => proc'[p].pc = 0)
        BY <1>1, <1>7, <2>2, Runs
      <3>2. CASE ~ Moves(p)
        <4>1. proc'[p].pc = 0 /\ 0 \notin Reading(pair)'
          BY <3>1, <3>2 DEF Reading
        <4> QED BY <4>1, Zenon DEF Lined
      <3>3. ASSUME Moves(p), NEW op, At(p, op), op \in Idle \cup {"put", "line"}, proc'[p].pc \in Reading(pair) => proc[p].pc \in Reading(pair),
                   pair = "sep" => op # "put" \/ proc'[p].pc \notin Reading(pair)
            PROVE  Lined(d)'
        <4>1. SUFFICES ASSUME proc[p].pc \in Reading(pair), proc'[p].pc \in Reading(pair)
                       PROVE  Rows(Back(d)') /\ (pair = "sep" /\ Here(d)' => net'[d].server.in = << >>)
          BY <1>1, <3>3, Zenon DEF Lined
        <4>2. Rows(Back(d)) /\ (pair = "sep" /\ Here(d) => net[d].server.in = << >>)
          BY <4>1, Zenon DEF Lined
        <4>3. pair = "sep" => net'[d].server = net[d].server
          BY <3>1, <3>3, <4>1, NotWriting
        <4>4. CASE op = "line"
          BY <3>1, <3>3, <4>2, <4>3, <4>4, RowsRead DEF Back
        <4>5. CASE op # "line"
          <5>1. proc'[p].ahead = proc[p].ahead /\ net'[d].client.in = net[d].client.in
            BY <3>1, <3>3, <4>5, NotReading
          <5>2. Back(d)' = Back(d)
            BY <5>1, Zenon DEF Back
          <5> QED BY <3>1, <4>2, <4>3, <5>2, Zenon
        <4> QED BY <4>4, <4>5
      <3>4. CASE Moves(p) /\ pair = "stdio"
        <4>1. PICK op \in Idle \cup {"put", "line"} : At(p, op) /\ proc[p].pc \in 1 .. 6
          BY <1>1, <3>4, StdioPlaces, MovesBy, MovesIs, Place DEF Idle
        <4> QED BY <3>3, <3>4, <4>1 DEF Reading
      <3>5. CASE Moves(p) /\ pair # "stdio"
        <4>1. proc[p].pc \in {2, 3, 4}
          BY <1>1, <3>5, SepPlaces, MovesBy, MovesIs, Place
        <4>2. CASE proc[p].pc = 4
          <5>1. At(p, "put") /\ proc'[p].pc = 5
            <6>1. At(p, "put") /\ 4 + 1 = 5
              BY <1>1, <3>5, <4>2, SepPlaces
            <6> QED BY <3>1, <3>5, <4>2, <6>1, Wrote
          <5> QED BY <1>1, <3>5, <5>1 DEF Lined, Reading
        <4>3. CASE proc[p].pc \in {2, 3}
          <5>1. (At(p, "line") \/ At(p, "goto")) /\ proc[p].pc \in Reading(pair)
            BY <1>1, <3>5, <4>3, SepPlaces DEF Reading
          <5> QED BY <3>3, <3>5, <5>1 DEF Idle
        <4> QED BY <4>1, <4>2, <4>3
      <3> QED BY <3>2, <3>4, <3>5
    <2> QED BY <2>1, <2>2
  <1> QED BY <1>4, <1>5, <1>6, <1>7, ForOne

(* The server that reads lines finds lines. *)
LEMMA RowedWorks ==
    ASSUME Names, NEW d \in Clients, Connections(d), Rowed(d), pair \in {"sep2", "stdmp"}, Served(d), Moves(S)
    PROVE  Rowed(d)'
  <1>1. Uses(S, d, "server", "client") /\ Here(d) /\ serving = d /\ serving' = d /\ proc[S].pc # 0
    BY Works DEF Served, Uses, ConnOf
  <1>2. Sent(d) = proc[S].ahead \o net[d].server.in /\ Sent(d)' = proc'[S].ahead \o net'[d].server.in /\ Rows(Sent(d))
    BY <1>1 DEF Sent, Rowed
  <1>3. \E op \in {"feof", "echo", "again", "put", "shut", "line"} : At(S, op)
    <2>1. ~ At(S, "accept") /\ ~ At(S, "exit") /\ ~ At(S, "close")
      BY MovesBy
    <2>2. S \in Procs /\ Script(S) = IF pair = "sep2" THEN sep_serv2 ELSE echo_stdserv
      BY BothPrograms, PairsAre DEF Meet
    <2> QED BY <1>1, <2>1, <2>2, SepServ2At, EchoStdservAt DEF Stands
  <1>4. CASE At(S, "line")
    BY <1>1, <1>2, <1>4, RowsRead DEF Rowed
  <1>5. ASSUME NEW op \in {"feof", "echo", "again", "put", "shut"}, At(S, op) PROVE Rowed(d)'
    <2>1. proc'[S].ahead = proc[S].ahead /\ net'[d].server.in = net[d].server.in
      BY <1>1, <1>5, NotReading DEF Idle
    <2> QED BY <1>2, <2>1, Zenon DEF Rowed
  <1> QED BY <1>3, <1>4, <1>5

LEMMA RowedOwn ==
    ASSUME Names, NEW d \in Clients, Connections(d), Rowed(d), Unshut(d)', Patience(d)', pair \in {"sep2", "stdmp"},
           pair = "sep2" => Sep2(d), NEW q \in Procs, Own(d, q), pair' = pair, Here(d)'
    PROVE  Rows(Sent(d)')
  <1>1. PICK a \in Seq(Byte), x \in Seq(Byte) : x = net[d].server.in /\ a = IF serving = d THEN proc[S].ahead ELSE << >>
    BY Places, Two
  <1>2. q \in {P1(d), P2(d)} /\ q # S /\ proc'[S] = proc[S] /\ serving' = serving /\ Uses(q, d, "client", "server")
    BY Apart, ClientUses DEF Own
  <1>3. ASSUME Here(d), net'[d].server.in = x \/ net'[d].server.in = x \o Msg(2) PROVE Rows(Sent(d)')
    <2>1. PICK m \in Seq(Byte) : m = Msg(2)
      BY Two
    <2>2. a \o (x \o m) = (a \o x) \o m
      BY Longer
    <2>3. a \o x \in Seq(Byte)
      OBVIOUS
    <2>4. Sent(d) = a \o x /\ Rows(a \o x)
      BY <1>1, <1>3, Zenon DEF Sent, Rowed
    <2>5. Sent(d)' = a \o x \/ Sent(d)' = (a \o x) \o Msg(2)
      BY <1>1, <1>2, <1>3, <2>1, <2>2, Zenon DEF Sent
    <2> QED BY <2>3, <2>4, <2>5, RowsGrow, Zenon
  <1>9. DoConnect(q) \/ ConnectFails(q) => proc[P1(d)].pc = 1
    <2>1. q[1] = d /\ q \in Procs
      BY <1>2, Apart
    <2> QED BY <2>1, DoConnectIs, ConnectFailsIs, Zenon
  <1>4. CASE DoConnect(q)
    <2>1. net' = net /\ serving # d /\ net[d].server.in = << >>
      <3>1. conn[d] = "new" /\ net' = net
        BY <1>4, <1>9, DoConnectIs DEF Connections
      <3> QED BY <3>1 DEF Connections, Ends, OpenEnd
    <2>2. Sent(d)' = << >>
      BY <1>2, <2>1, Two, Zenon DEF Sent
    <2> QED BY <2>2, RowsFew
  <1>5. CASE ConnectFails(q)
    BY <1>2, <1>5, <1>9, ConnectFailsIs DEF Connections, Here
  <1>6. CASE DoFork(q)
    <2>1. net' = net /\ conn' = conn
      BY <1>6, DoForkIs
    <2> QED BY <1>1, <1>2, <1>3, <2>1, Zenon DEF Here
  <1>7. CASE Perishes(q)
    <2>1. Here(d) /\ (net'[d].server.in = x \/ Closes(d, "client", "server")) /\ proc'[q].pc = 0
      BY <1>1, <1>2, <1>7, ClientLeaves DEF Same
    <2>2. ASSUME Closes(d, "client", "server") PROVE net'[d].server.in = x
      <3>1. net[d].server.shut /\ serving = d
        BY <2>1, <2>2 DEF Closes, Patience, Connections, Here
      <3>2. pair = "sep2"
        BY <2>2, <3>1 DEF Closes, Unshut, Talkers
      <3>3. q = P1(d) /\ proc[q].pc \in {4, 5}
        <4>1. q = P1(d)
          BY <1>2, <3>2, OnlyOne, SepPlaces
        <4>2. proc[q].pc # 2
          <5>1. proc[q].pc = 2 => At(q, "line") /\ Instr(q).errs = {4}
            BY <3>2, <4>1, SepPlaces
          <5>2. At(q, "line") => ReadFails(q)
            BY <1>7, PerishesBy
          <5>3. ReadFails(q) => 0 \in Instr(q).errs \/ proc'[q].pc \in Instr(q).errs \ {0}
            BY ReadFailsIs, Zenon
          <5> QED BY <2>1, <5>1, <5>2, <5>3
        <4>3. proc[q].pc \notin {0, 1, 3}
          BY <1>7, <3>2, <4>1, SepPlaces, PerishesBy, PerishesIs DEF At
        <4> QED BY <3>2, <4>1, <4>2, <4>3, SepPlaces
      <3>4. net[d].client.in = << >>
        BY <3>1, <3>2, <3>3 DEF Sep2
      <3> QED BY <1>1, <2>2, <3>4 DEF Closes, Same
    <2> QED BY <1>3, <2>1, <2>2
  <1>8. CASE Moves(q)
    <2>1. Here(d)
      BY <1>2, <1>8, MovesIs DEF Local, Here
    <2>2. CASE At(q, "put") /\ Instr(q).n = 2
      <3>1. net'[d].server.in \in {x, x \o Msg(2)}
        BY <1>1, <1>2, <1>8, <2>2, PutOn, Zenon
      <3> QED BY <1>3, <2>1, <3>1, Zenon
    <2>3. ASSUME NEW op \in Idle \cup {"read", "fill", "line", "shut"}, At(q, op) PROVE Rows(Sent(d)')
      <3>1. net'[d].server = net[d].server
        BY <1>2, <1>8, <2>3, NotWriting
      <3> QED BY <1>1, <1>3, <2>1, <3>1
    <2>4. ~ At(q, "connect") /\ ~ At(q, "fork") /\ ~ At(q, "exit")
      BY <1>8, MovesBy
    <2>5. CASE pair = "sep2"
      <3>1. q = P1(d)
        BY <1>2, <2>5, OnlyOne, SepPlaces
      <3>2. \E op : At(q, op)
        BY <1>8, MovesIs
      <3> QED BY <2>2, <2>3, <2>4, <2>5, <3>1, <3>2, SepPlaces DEF Idle, At
    <2>6. CASE pair = "stdmp" /\ q = P1(d)
      <3>1. Script(q) = mpclient_reader
        BY <2>6, BothPrograms, PairsAre
      <3>2. proc[q].pc # 0
        BY <1>8, MovesIs DEF At
      <3>3. proc[q].pc \in {1, 2, 3, 4, 5} /\ Instr(q) = mpclient_reader[proc[q].pc]
        BY <3>1, <3>2, Place, MpclientReaderText
      <3>4. At(q, "read") \/ At(q, "goto")
        BY <2>4, <3>3, MpclientReaderText DEF I, At
      <3> QED BY <2>3, <3>4 DEF Idle
    <2>7. CASE pair = "stdmp" /\ q = P2(d)
      <3>1. Script(q) = mpclient_writer
        BY <2>7, Apart, PairsAre DEF Script
      <3>2. proc[q].pc # 0
        BY <1>8, MovesIs DEF At
      <3>3. proc[q].pc \in {1, 2, 3, 4, 5} /\ Instr(q) = mpclient_writer[proc[q].pc]
        BY <3>1, <3>2, Place, MpclientWriterText
      <3>4. (At(q, "put") /\ Instr(q).n = 2) \/ At(q, "type") \/ At(q, "goto") \/ At(q, "shut")
        BY <2>4, <3>3, MpclientWriterText DEF I, At
      <3> QED BY <2>2, <2>3, <3>4 DEF Idle
    <2> QED BY <1>2, <2>5, <2>6, <2>7
  <1> QED BY <1>4, <1>5, <1>6, <1>7, <1>8 DEF Own

LEMMA RowedKept ==
    ASSUME Names, NEW d \in Clients, Connections(d), Rowed(d), Unshut(d)', Patience(d)', pair \in {"sep2", "stdmp"},
           pair = "sep2" => Sep2(d), Next
    PROVE  Rowed(d)'
  <1>1. CASE Still(d) \/ DoAccept(d)
    <2>1. (Here(d)' <=> Here(d)) /\ Sent(d)' = Sent(d)
      <3>1. CASE Still(d)
        BY <3>1, StillHere, Zenon DEF Sent
      <3>2. CASE DoAccept(d)
        BY <3>2, Accepted, Zenon DEF Sent
      <3> QED BY <1>1, <3>1, <3>2
    <2> QED BY <2>1, Zenon DEF Rowed
  <1>2. CASE Left(d)
    BY <1>2, LeftAlone DEF Rowed
  <1>3. CASE Served(d)
    <2>1. CASE ~ Moves(S)
      BY <1>3, <2>1, Works DEF Rowed
    <2> QED BY <1>3, <2>1, RowedWorks
  <1>4. ASSUME NEW q \in Procs, Own(d, q) PROVE Rowed(d)'
    BY <1>4, RowedOwn, PairStays DEF Rowed
  <1> QED BY <1>1, <1>2, <1>3, <1>4, ForOne

-----------------------------------------------------------------------------
(* Where something is taken for a message; who writes, and who does not. *)
Takes(s, T) == \A i \in 1 .. Len(s) : s[i].op \in {"show", "line"} \/ (s[i].op = "fill" /\ s[i].n # All) => s[i].op \in T
ServerTakes(x) == IF x = "op" THEN {"show", "fill"} ELSE IF x \in {"stdio", "stdmp", "sep2"} THEN {"line"} ELSE {}
ClientTakes(x) ==
    IF x \in {"hello2", "kehou6", "file"} THEN {"show"} ELSE IF x = "echo2" THEN {"fill"}
    ELSE IF x \in {"stdio", "sep", "sep2"} THEN {"line"} ELSE {}
Without(s, op) == \A i \in 1 .. Len(s) : s[i].op # op

(* The clients that wait for all they are due. *)
Polite == {"hello2", "kehou6", "file", "sep", "sep2", "mp", "mpq", "stdmp", "epoll", "echo2", "stdio"}

LEMMA Showing ==
    ASSUME NEW x \in PairNames
    PROVE  /\ Pairs[x].server \in ReadOnce \/ Takes(Pairs[x].server, ServerTakes(x))
           /\ Pairs[x].client \in ReadOnce \/ Takes(Pairs[x].client, ClientTakes(x))
           /\ Pairs[x].client \in Impolite \/ x \in Polite \/ x = "peek"
  <1>1. Takes(hello_server, {})
    BY HelloServerText DEF Takes, I, All
  <1>2. Takes(c1_server, {})
    BY C1ServerText DEF Takes, I, All
  <1>3. Takes(echo_server, {})
    BY EchoServerText DEF Takes, I, All
  <1>4. Takes(reuseadr_eserver, {})
    BY ReuseadrEserverText DEF Takes, I, All
  <1>5. Takes(sep_serv, {})
    BY SepServText DEF Takes, I, All
  <1>6. Takes(op_server, {"show", "fill"})
    BY OpServerText DEF Takes, I, All
  <1>7. Takes(echo_stdserv, {"line"})
    BY EchoStdservText DEF Takes, I, All
  <1>8. Takes(sep_serv2, {"line"})
    BY SepServ2Text DEF Takes, I, All
  <1>9. Takes(tcp_client, {"show"})
    BY TcpClientText DEF Takes, I, All
  <1>10. Takes(tcp_client_kehou6, {"show"})
    BY TcpClientKehou6Text DEF Takes, I, All
  <1>11. Takes(file_client, {"show"})
    BY FileClientText DEF Takes, I, All
  <1>12. Takes(echo_client2, {"fill"})
    BY EchoClient2Text DEF Takes, I, All
  <1>13. Takes(stdio_client, {"line"})
    BY StdioClientText DEF Takes, I, All
  <1>14. Takes(sep_clnt, {"line"})
    BY SepClntText DEF Takes, I, All
  <1>15. Takes(peek_send, {})
    BY PeekSendText DEF Takes, I, All
  <1>16. Takes(mpclient_reader, {})
    BY MpclientReaderText DEF Takes, I, All
  <1>17. Takes(chat_recv_msg, {})
    BY ChatRecvMsgText DEF Takes, I, All
  <1>18. Takes(tcp_epoll_client, {})
    BY TcpEpollClientText DEF Takes, I, All
  <1>19. /\ hello_client \in ReadOnce /\ c1_client \in ReadOnce /\ echo_client \in ReadOnce /\ op_client \in ReadOnce
         /\ My_op_server \in ReadOnce /\ My_op_client \in ReadOnce /\ tcp_server_kehou5 \in ReadOnce
         /\ tcp_client_kehou5 \in ReadOnce /\ tcp_server_kehou6 \in ReadOnce /\ file_server \in ReadOnce
         /\ peek_recv \in ReadOnce
    BY Zenon DEF ReadOnce
  <1>20. chat_recv_msg \in Impolite /\ ReadOnce \subseteq Impolite
    BY Zenon DEF Impolite
  <1>21. CASE x \in {"hello", "welcome", "echo", "reuse"}
    BY <1>1, <1>2, <1>3, <1>4, <1>19, <1>20, <1>21,  PairsAre DEF Meet, ServerTakes, ClientTakes
  <1>22. CASE x \in {"op", "myop", "kehou5"}
    BY <1>6, <1>19, <1>20, <1>22,  PairsAre DEF Meet, ServerTakes, ClientTakes
  <1>23. CASE x \in {"hello2", "kehou6", "file"}
    BY <1>1, <1>9, <1>10, <1>11, <1>19, <1>23,  PairsAre DEF Meet, Polite, ServerTakes, ClientTakes
  <1>24. CASE x \in {"echo2", "stdio", "sep", "sep2"}
    BY <1>3, <1>12, <1>7, <1>13, <1>5, <1>8, <1>14, <1>24,  PairsAre DEF Meet, Polite, ServerTakes, ClientTakes
  <1>25. CASE x \in {"mp", "mpq", "stdmp", "epoll"}
    BY <1>3, <1>7, <1>16, <1>18, <1>25,  PairsAre DEF Meet, Polite, ServerTakes, ClientTakes
  <1>26. CASE x \in {"peek", "chat"}
    BY <1>3, <1>15, <1>17, <1>19, <1>20, <1>26,  PairsAre DEF Meet, ServerTakes, ClientTakes
  <1> QED BY <1>21, <1>22, <1>23, <1>24, <1>25, <1>26 DEF PairNames

LEMMA NothingWritten ==
    Without(Pairs["peek"].server, "put") /\ Without(Pairs["peek"].server, "echo")
  <1>1. Pairs["peek"].server = peek_recv
    BY PairsAre DEF Meet
  <1> QED BY <1>1, PeekRecvText DEF Without, I

LEMMA NotFilled ==
    ASSUME NEW x \in {"sep", "sep2", "mp", "mpq", "stdmp", "epoll"}
    PROVE  Without(Pairs[x].client, "fill")
  <1>1. Without(sep_clnt, "fill")
    BY SepClntText DEF Without, I
  <1>2. Without(mpclient_reader, "fill")
    BY MpclientReaderText DEF Without, I
  <1>3. Without(tcp_epoll_client, "fill")
    BY TcpEpollClientText DEF Without, I
  <1> QED BY <1>1, <1>2, <1>3, PairsAre DEF Meet

(* A program without an instruction does not stand at it. *)
LEMMA NotAt ==
    ASSUME Names, NEW p \in Procs, NEW op, Without(Script(p), op)
    PROVE  ~ At(p, op)
  BY Place DEF Without

LEMMA Takers ==
    ASSUME Names, NEW p \in Procs, NEW T, Takes(Script(p), T), NEW op \in {"show", "line", "fill"}, At(p, op),
           op = "fill" => Instr(p).n # All
    PROVE  op \in T
  <1>1. /\ proc[p].pc \in 1 .. Len(Script(p)) /\ Script(p)[proc[p].pc].op = op /\ Instr(p) = Script(p)[proc[p].pc]
    BY Place
  <1> QED BY <1>1, Zenon DEF Takes

-----------------------------------------------------------------------------
(* The invariant.  Of each pair it says what its programs need, and no more. *)
Holds(d) ==
    /\ Connections(d) /\ Unshut(d)
    /\ pair \in Patients => Patience(d)
    /\ pair = "hello2" => Hello2(d)
    /\ pair = "kehou6" => Kehou6(d)
    /\ pair = "file" => File(d)
    /\ pair = "sep2" => Sep2(d)
    /\ pair = "op" => Op(d)
    /\ pair = "echo2" => Echo2(d)
    /\ pair = "stdio" => Stdio(d)
    /\ pair \in {"stdio", "sep", "sep2"} => Lined(d)
    /\ pair \in {"sep2", "stdmp"} => Rowed(d)
Told == (pair = "file" => FileTold) /\ (pair = "sep2" => Sep2Told)
Session == Names /\ Told /\ \A d \in Clients : Holds(d)

LEMMA Briefly ==
    ASSUME Names, NEW d \in Clients, Holds(d), pair \in Patients, Here(d), ~ net[d].server.shut
    PROVE  Brief(d)
  <1>1. /\ P1(d) \in Procs /\ Script(P1(d)) = Pairs[pair].client /\ proc[P1(d)].pc \in Stays(pair)
    BY BothPrograms DEF Holds, Patience
  <1>2. ASSUME Text(d) \in Whole PROVE Brief(d)
    <2>1. /\ Len(proc[P1(d)].buf) \in Nat /\ Len(net[d].client.in) \in Nat
          /\ Len(proc[P1(d)].buf) + Len(net[d].client.in) <= 4
      BY <1>2, TextShort
    <2>2. \A a, b \in Nat : a + b <= 4 => a + b < 9
      OBVIOUS
    <2>3. Len(proc[P1(d)].buf) + Len(net[d].client.in) < 9
      BY <2>1, <2>2, Zenon
    <2> QED BY <2>3, Zenon DEF Brief
  <1>3. CASE pair = "hello2"
    <2>1. proc[P1(d)].pc = 2
      BY <1>1, <1>3 DEF Stays
    <2> QED BY <1>2, <1>3, <2>1 DEF Holds, Hello2
  <1>4. CASE pair = "file"
    <2>1. proc[P1(d)].pc = 2
      BY <1>1, <1>4 DEF Stays
    <2> QED BY <1>2, <1>4, <2>1 DEF Holds, File
  <1>5. CASE pair = "kehou6"
    <2>1. Kehou6(d) /\ << >> \in Whole /\ Msg(2) \in Whole /\ Twice \in Whole
      BY <1>5 DEF Holds, Whole
    <2>2. CASE serving = d => proc[S].pc <= 5
      BY <1>2, <2>1, <2>2 DEF Kehou6
    <2>3. CASE serving = d /\ proc[S].pc \in {6, 7}
      BY <1>2, <2>1, <2>3 DEF Kehou6
    <2>4. proc[S].pc \in {0, 1, 2, 3, 4, 5, 6, 7}
      BY <1>5, Kehou6Places
    <2> QED BY <2>2, <2>3, <2>4
  <1>6. CASE pair \in {"sep", "sep2", "mp", "mpq", "stdmp", "epoll"}
    BY <1>1, <1>6, NotFilled, NotAt DEF Brief
  <1> QED BY <1>3, <1>4, <1>5, <1>6 DEF Patients

LEMMA SessionFirst ==
    ASSUME Init
    PROVE  Session
  <1>1. /\ Names /\ serving = NULL /\ proc[S].pc = 1
    BY AtFirst
  <1>2. Told
    BY <1>1 DEF Told, FileTold, Sep2Told
  <1>3. ASSUME NEW d \in Clients PROVE Holds(d)
    <2>1. /\ Connections(d) /\ ~ Here(d) /\ serving # d /\ net[d].server = OpenEnd /\ net[d].client = OpenEnd
          /\ proc[P1(d)].pc \in {0, 1} /\ proc[P1(d)].buf = << >> /\ proc[P1(d)].ahead = << >>
      BY <1>1, AtFirst, Apart
    <2>2. /\ net[d].server.in = << >> /\ net[d].client.in = << >> /\ ~ net[d].server.shut /\ ~ net[d].client.shut
      BY <2>1 DEF OpenEnd
    <2>3. Text(d) = << >> /\ Text(d) \in Whole
      <3>1. Text(d) = << >>
        BY <2>1, <2>2, Two, Zenon DEF Text
      <3> QED BY <3>1 DEF Whole
    <2>4. Unshut(d) /\ Patience(d)
      BY <2>1, <2>2 DEF Unshut, Patience
    <2>5. Hello2(d)
      BY <2>1, <2>2, <2>3 DEF Hello2
    <2>6. Kehou6(d)
      BY <2>1 DEF Kehou6
    <2>7. File(d)
      BY <2>1, <2>2, <2>3 DEF File
    <2>8. Sep2(d) /\ Op(d) /\ Echo2(d) /\ Stdio(d) /\ Rowed(d)
      BY <2>1 DEF Sep2, Op, Echo2, Bits, Stdio, Rowed
    <2>9. Lined(d)
      <3>1. Rows(Back(d))
        BY <2>1, <2>2, Two, RowsFew, Zenon DEF Back
      <3> QED BY <2>1, <3>1, Zenon DEF Lined
    <2> QED BY <2>1, <2>4, <2>5, <2>6, <2>7, <2>8, <2>9 DEF Holds
  <1> QED BY <1>1, <1>2, <1>3 DEF Session

LEMMA HoldsKept ==
    ASSUME Names, NEW d \in Clients, Holds(d), Next
    PROVE  Holds(d)'
  <1>1. pair' = pair /\ Connections(d) /\ Unshut(d)
    BY PairStays DEF Holds
  <1>2. Connections(d)' /\ Unshut(d)'
    BY <1>1, ConnectionsKept, UnshutKept
  <1>3. ASSUME pair \in Patients PROVE Patience(d) /\ Patience(d)'
    <2>1. Patience(d)
      BY <1>3 DEF Holds
    <2>2. Here(d) /\ ~ net[d].server.shut => Brief(d)
      BY <1>3, Briefly
    <2> QED BY <1>1, <1>3, <2>1, <2>2, PatienceKept
  <1>4. ASSUME pair = "hello2" PROVE Hello2(d)'
    <2>1. Hello2(d) /\ pair \in Patients
      BY <1>4 DEF Holds, Patients
    <2> QED BY <1>1, <1>2, <1>3, <1>4, <2>1, Hello2Kept
  <1>5. ASSUME pair = "kehou6" PROVE Kehou6(d)'
    <2>1. Kehou6(d) /\ pair \in Patients
      BY <1>5 DEF Holds, Patients
    <2> QED BY <1>1, <1>2, <1>3, <1>5, <2>1, Kehou6Kept
  <1>6. ASSUME pair = "file" PROVE File(d)'
    <2>1. File(d) /\ pair \in Patients
      BY <1>6 DEF Holds, Patients
    <2> QED BY <1>1, <1>3, <1>6, <2>1, FileKept
  <1>7. ASSUME pair = "sep2" PROVE Sep2(d)'
    <2>1. Sep2(d) /\ pair \in Patients
      BY <1>7 DEF Holds, Patients
    <2> QED BY <1>1, <1>3, <1>7, <2>1, Sep2Kept
  <1>8. ASSUME pair = "op" PROVE Op(d)'
    BY <1>1, <1>8, OpKept DEF Holds
  <1>9. ASSUME pair = "echo2" PROVE Echo2(d)'
    BY <1>1, <1>9, Echo2Kept DEF Holds
  <1>10. ASSUME pair = "stdio" PROVE Stdio(d)'
    BY <1>1, <1>10, StdioKept DEF Holds
  <1>11. ASSUME pair \in {"stdio", "sep", "sep2"} PROVE Lined(d)'
    BY <1>1, <1>10, <1>11, LinedKept DEF Holds
  <1>12. ASSUME pair \in {"sep2", "stdmp"} PROVE Rowed(d)'
    BY <1>1, <1>2, <1>3, <1>12, RowedKept DEF Holds, Patients
  <1> QED BY <1>1, <1>2, <1>3, <1>4, <1>5, <1>6, <1>7, <1>8, <1>9, <1>10, <1>11, <1>12 DEF Holds

LEMMA SessionKept ==
    ASSUME Session, Next
    PROVE  Session'
  <1>1. Names /\ Names' /\ pair' = pair
    BY NamesKept, PairStays DEF Session
  <1>2. \A d \in Clients : Holds(d) /\ Holds(d)'
    BY <1>1, HoldsKept DEF Session
  <1>3. pair = "file" => FileTold'
    <2>1. SUFFICES ASSUME pair = "file" PROVE FileTold'
      OBVIOUS
    <2>2. \A d \in Clients : Connections(d) /\ Unshut(d) /\ Patience(d) /\ File(d)
      BY <1>2, <2>1 DEF Holds, Patients
    <2> QED BY <1>1, <2>1, <2>2, FileToldKept DEF Session, Told
  <1>4. pair = "sep2" => Sep2Told'
    <2>1. SUFFICES ASSUME pair = "sep2" PROVE Sep2Told'
      OBVIOUS
    <2>2. \A d \in Clients : Connections(d) /\ Unshut(d) /\ Patience(d) /\ Sep2(d)
      BY <1>2, <2>1 DEF Holds, Patients
    <2> QED BY <1>1, <2>1, <2>2, Sep2ToldKept DEF Session, Told
  <1> QED BY <1>1, <1>2, <1>3, <1>4 DEF Session, Told

(* A step that changes nothing. *)
LEMMA SessionStays ==
    ASSUME Session, UNCHANGED vars
    PROVE  Session'
  <1>1. /\ pair' = pair /\ proc' = proc /\ conn' = conn /\ fds' = fds /\ net' = net /\ serving' = serving /\ torn' = torn
    BY DEF vars
  <1>2. Names'
    BY <1>1 DEF Session, Names, SessionTypes, Positions, Script
  <1>3. Told'
    BY <1>1 DEF Session, Told, FileTold, Sep2Told
  <1>4. ASSUME NEW d \in Clients PROVE Holds(d)'
    <2>1. Holds(d)
      BY DEF Session
    <2>2. (Here(d)' <=> Here(d)) /\ Text(d)' = Text(d) /\ Turned(d)' = Turned(d) /\ Round(d)' = Round(d)
      BY <1>1, Zenon DEF Here, Text, Turned, Round
    <2>3. Connections(d)' /\ Unshut(d)' /\ (pair \in Patients => Patience(d)')
      BY <1>1, <2>1, <2>2 DEF Holds, Connections, Unshut, Patience, Stays
    <2>4. /\ pair = "hello2" => Hello2(d)'
          /\ pair = "kehou6" => Kehou6(d)'
          /\ pair = "sep2" => Sep2(d)'
      BY <1>1, <2>1, <2>2 DEF Holds, Hello2, Kehou6, Sep2
    <2>5. pair = "file" => File(d)'
      BY <1>1, <2>1, <2>2 DEF Holds, File, FileSaid
    <2>6. pair = "op" => Op(d)'
      <3>1. (Coming3(d)' <=> Coming3(d)) /\ (Came3' <=> Came3)
        BY <1>1, Zenon DEF Coming3, Came3
      <3> QED BY <1>1, <2>1, <2>2, <3>1 DEF Holds, Op
    <2>7. pair = "echo2" => Echo2(d)'
      BY <1>1, <2>1, <2>2 DEF Holds, Echo2, Bits, Trip
    <2>8. Sent(d)' = Sent(d) /\ Reply(d)' = Reply(d) /\ Back(d)' = Back(d)
      BY <1>1, Zenon DEF Sent, Reply, Back
    <2>9. pair = "stdio" => Stdio(d)'
      <3>1. (OneLine(d)' <=> OneLine(d)) /\ (NoLine(d)' <=> NoLine(d))
        BY <2>8, Zenon DEF OneLine, NoLine, LineIs
      <3> QED BY <1>1, <2>1, <2>2, <3>1 DEF Holds, Stdio
    <2>10. /\ pair \in {"stdio", "sep", "sep2"} => Lined(d)'
           /\ pair \in {"sep2", "stdmp"} => Rowed(d)'
      BY <1>1, <2>1, <2>2, <2>8, Zenon DEF Holds, Lined, Rowed
    <2> QED BY <1>1, <2>3, <2>4, <2>5, <2>6, <2>7, <2>9, <2>10 DEF Holds
  <1> QED BY <1>2, <1>3, <1>4 DEF Session

-----------------------------------------------------------------------------
(* Who takes something wrong for a message: by Show, by its count, or for a line. *)
Ill(b) == b # << >> /\ ~ IsMsg(b)
IllShown(p) == At(p, "show") /\ ~ Right(p)
IllCount(p) ==
    /\ At(p, "fill") /\ Instr(p).n # All
    /\ \E k \in 1 .. Len(Mine(p).in) :
          /\ Len(proc[p].buf \o SubSeq(Mine(p).in, 1, k)) >= Instr(p).n
          /\ Ill(proc[p].buf \o SubSeq(Mine(p).in, 1, k))
IllLine(p) ==
    /\ At(p, "line")
    /\ \/ \E i \in 1 .. Len(proc[p].ahead) :
             /\ IsLast(proc[p].ahead[i]) /\ (\A j \in 1 .. i - 1 : ~ IsLast(proc[p].ahead[j]))
             /\ Ill(SubSeq(proc[p].ahead, 1, i))
       \/ /\ \A i \in 1 .. Len(proc[p].ahead) : ~ IsLast(proc[p].ahead[i])
          /\ Mine(p).in = << >> /\ Ill(proc[p].ahead)

(* Nobody else is torn by a step. *)
LEMMA TornBy ==
    ASSUME Names, Next, NEW p \in torn', p \notin torn
    PROVE  p \in Procs /\ ConnOf(p) \in Clients /\ (IllShown(p) \/ IllCount(p) \/ IllLine(p))
  <1>1. ASSUME NEW c \in Clients, DoAccept(c) PROVE FALSE
    BY <1>1, DoAcceptIs
  <1>2. PICK q \in Procs : Step(q)
    BY <1>1 DEF Next
  <1>3. ASSUME NEW b, Judge(q, b) PROVE q = p /\ Ill(b)
    BY <1>3 DEF Judge, Ill
  <1>4. CASE DoShow(q)
    BY <1>4, DoShowIs DEF IllShown
  <1>5. CASE FillSome(q)
    <2>1. ConnOf(q) \in Clients /\ At(q, "fill")
      BY <1>5, FillSomeIs DEF FillSome
    <2>2. PICK k \in 1 .. Len(Mine(q).in) :
              LET b == proc[q].buf \o SubSeq(Mine(q).in, 1, k)
              IN  IF Len(b) >= Instr(q).n THEN Counted(q, b) ELSE UNCHANGED torn
      BY <1>5 DEF FillSome
    <2>3. PICK b : /\ b = proc[q].buf \o SubSeq(Mine(q).in, 1, k)
                   /\ IF Len(b) >= Instr(q).n THEN Counted(q, b) ELSE UNCHANGED torn
      BY <2>2
    <2>4. Len(b) >= Instr(q).n /\ Instr(q).n # All /\ Judge(q, b)
      BY <2>3 DEF Counted
    <2> QED BY <1>3, <2>1, <2>3, <2>4, Zenon DEF IllCount
  <1>6. CASE LineTake(q)
    <2>1. ConnOf(q) \in Clients /\ At(q, "line") /\ proc[q].ahead \in Seq(Byte)
      BY <1>6, LineTakeIs, Instruction
    <2>2. PICK i \in DOMAIN proc[q].ahead :
              /\ IsLast(proc[q].ahead[i]) /\ (\A j \in 1 .. i - 1 : ~ IsLast(proc[q].ahead[j]))
              /\ Judge(q, SubSeq(proc[q].ahead, 1, i))
      BY <1>6, Zenon DEF LineTake
    <2>3. i \in 1 .. Len(proc[q].ahead)
      BY <2>1, <2>2
    <2> QED BY <1>3, <2>1, <2>2, <2>3, Zenon DEF IllLine
  <1>7. CASE LineEnd(q)
    <2>1. ConnOf(q) \in Clients /\ At(q, "line") /\ proc[q].ahead \in Seq(Byte) /\ Mine(q).in = << >>
      BY <1>7, LineEndIs, Instruction DEF Ended, Data
    <2>2. Judge(q, proc[q].ahead) /\ ~ \E i \in DOMAIN proc[q].ahead : IsLast(proc[q].ahead[i])
      BY <1>7, Zenon DEF LineEnd
    <2>3. \A i \in 1 .. Len(proc[q].ahead) : ~ IsLast(proc[q].ahead[i])
      BY <2>1, <2>2
    <2> QED BY <1>3, <2>1, <2>2, <2>3, Zenon DEF IllLine
  <1>8. CASE ~ (DoShow(q) \/ FillSome(q) \/ LineTake(q) \/ LineEnd(q))
    <2>1. torn' = torn
      BY <1>2, <1>8, Zenon DEF Step, DoConnect, ConnectFails, DoFork, TypeLine, TypeQuit, Write, WriteKills, ReadSome, ReadEnd,
         FillEnd, ReadFails, LineFetch, DoPeek, Jump, DoShut, DoClose, DoExit
    <2> QED BY <2>1
  <1> QED BY <1>4, <1>5, <1>6, <1>7, <1>8

(* What a client gathered to the end is whole. *)
LEMMA GatheredRight ==
    ASSUME Names, NEW d \in Clients, Text(d) \in Whole, net[d].client.in = << >>, Gathered(P1(d))
    PROVE  Right(P1(d))
  <1>1. proc[P1(d)].buf \in Whole
    BY TextShort
  <1>2. proc[P1(d)].buf = << >> \/ IsMsg(proc[P1(d)].buf) \/ IsMsgs(proc[P1(d)].buf)
    BY <1>1, WholeIsRight
  <1> QED BY <1>2, Zenon DEF Right

(* What op_server takes for a message is one. *)
LEMMA OpRight ==
    ASSUME Session, pair = "op", At(S, "show"), serving \in Clients
    PROVE  Right(S)
  <1>1. Names /\ Op(serving) /\ Here(serving)
    BY DEF Session, Holds, Here
  <1>2. proc[S].pc # 1 /\ proc[S].pc # 0
    <2>1. S \in Procs
      BY Apart
    <2> QED BY <1>1, <2>1, Parts0 DEF At
  <1>3. \A op : At(S, op) => op = "show"
    BY DEF At
  <1>4. proc[S].pc = 4
    BY <1>1, <1>2, <1>3, OpPlaces
  <1>5. Came3
    BY <1>1, <1>4 DEF Op
  <1>6. 3 \in 1 .. 3
    OBVIOUS
  <1>7. IsMsg(proc[S].buf)
    BY <1>5, <1>6, Zenon DEF Came3, IsMsg
  <1> QED BY <1>7, Zenon DEF Right

(* What a client takes for a message that it has gathered to the end. *)
LEMMA ClientRight ==
    ASSUME Session, NEW d \in Clients, pair \in {"hello2", "kehou6", "file"}, At(P1(d), "show")
    PROVE  Right(P1(d)) \/ S \in torn
  <1>1. /\ Names /\ Unshut(d) /\ Patience(d) /\ P1(d) \in Procs /\ Script(P1(d)) = Pairs[pair].client
    BY BothPrograms DEF Session, Holds, Patients
  <1>2. proc[P1(d)].pc # 0 /\ \A op : At(P1(d), op) => op = "show"
    BY DEF At
  <1>3. 3 - 1 = 2 /\ 4 - 1 = 3
    OBVIOUS
  <1>4. CASE pair = "hello2"
    <2>1. Script(P1(d)) = tcp_client
      BY <1>1, <1>4, PairsAre DEF Meet
    <2>2. proc[P1(d)].pc = 3
      BY <1>1, <1>2, <2>1, TcpClientAt DEF Stands
    <2>3. Gathered(P1(d))
      BY <1>3, <2>1, <2>2, TcpClientText DEF Gathered, I, All
    <2>4. Text(d) \in Whole /\ net[d].client.in = << >>
      BY <1>4, <2>2 DEF Session, Holds, Hello2
    <2> QED BY <1>1, <2>3, <2>4, GatheredRight
  <1>5. CASE pair = "file"
    <2>1. Script(P1(d)) = file_client
      BY <1>1, <1>5, PairsAre DEF Meet
    <2>2. proc[P1(d)].pc = 3
      BY <1>1, <1>2, <2>1, FileClientAt DEF Stands
    <2>3. Gathered(P1(d))
      BY <1>3, <2>1, <2>2, FileClientText DEF Gathered, I, All
    <2>4. Text(d) \in Whole /\ net[d].client.in = << >>
      BY <1>5, <2>2 DEF Session, Holds, File
    <2> QED BY <1>1, <2>3, <2>4, GatheredRight
  <1>6. CASE pair = "kehou6"
    <2>1. Script(P1(d)) = tcp_client_kehou6
      BY <1>1, <1>6, PairsAre DEF Meet
    <2>2. proc[P1(d)].pc = 4
      BY <1>1, <1>2, <2>1, TcpClientKehou6At DEF Stands
    <2>3. Gathered(P1(d))
      BY <1>3, <2>1, <2>2, TcpClientKehou6Text DEF Gathered, I, All
    <2>4. serving # d
      BY <1>1, <1>6, <2>2 DEF Patience, Here, Unshut, Talkers, Stays
    <2>5. S \in torn \/ (Text(d) \in Whole /\ net[d].client.in = << >>)
      BY <1>6, <2>2, <2>4 DEF Session, Holds, Kehou6
    <2> QED BY <1>1, <2>3, <2>5, GatheredRight
  <1> QED BY <1>4, <1>5, <1>6

(* Who has nothing but lines to read takes lines. *)
LEMMA LinesWhole ==
    ASSUME Names, NEW p, NEW d, NEW s, NEW o, Uses(p, d, s, o), Rows(proc[p].ahead \o net[d][s].in)
    PROVE  ~ IllLine(p)
  <1>1. PICK a \in Seq(Byte), x \in Seq(Byte) : a = proc[p].ahead /\ x = net[d][s].in /\ x = Mine(p).in
    BY UsesEnds
  <1>2. Rows(a \o x)
    BY <1>1, Zenon
  <1>3. ASSUME NEW i \in 1 .. Len(a), IsLast(a[i]), \A j \in 1 .. i - 1 : ~ IsLast(a[j]) PROVE ~ Ill(SubSeq(a, 1, i))
    <2>1. SubSeq(a, 1, i) = Msg(2) /\ 2 \in 1 .. 3
      BY <1>2, <1>3, RowsTaken
    <2> QED BY <2>1, Zenon DEF Ill, IsMsg
  <1>4. ASSUME \A i \in 1 .. Len(a) : ~ IsLast(a[i]), x = << >> PROVE ~ Ill(a)
    <2>1. a \o x = a
      BY <1>4
    <2> QED BY <1>2, <1>4, <2>1, RowsOver, Zenon DEF Ill
  <1> QED BY <1>1, <1>3, <1>4, Zenon DEF IllLine

(* What a server that reads by count or by line takes is whole. *)
LEMMA ServerWhole ==
    ASSUME Session, serving \in Clients
    PROVE  /\ pair = "op" => ~ IllCount(S)
           /\ pair \in {"stdio", "stdmp", "sep2"} => ~ IllLine(S)
  <1> DEFINE d == serving
  <1>1. Names /\ Holds(d) /\ Here(d) /\ S \in Procs /\ ConnOf(S) = d /\ Mine(S) = net[d].server
    BY Apart DEF Session, Here, ConnOf, Mine, SideOf, At
  <1>2. ASSUME pair = "op", IllCount(S) PROVE FALSE
    <2>1. proc[S].pc = 3 /\ Instr(S).n = 3
      BY <1>1, <1>2, OpPlaces, Parts0 DEF IllCount, At
    <2>2. proc[S].buf \o net[d].server.in = Msg(3)
      <3>1. Coming3(d)
        BY <1>1, <1>2, <2>1 DEF Holds, Op
      <3> QED BY <3>1, Zenon DEF Coming3
    <2>3. PICK b \in Seq(Byte), x \in Seq(Byte) : b = proc[S].buf /\ x = net[d].server.in
      BY <1>1, ServerUses, UsesEnds
    <2>4. PICK k \in 1 .. Len(x) : Len(b \o SubSeq(x, 1, k)) >= 3 /\ Ill(b \o SubSeq(x, 1, k))
      BY <1>1, <1>2, <2>1, <2>3, Zenon DEF IllCount
    <2>5. (b \o SubSeq(x, 1, k)) \o SubSeq(x, k + 1, Len(x)) = Msg(3)
      <3>1. b \o x = Msg(3)
        BY <2>2, <2>3, Zenon
      <3> QED BY <3>1, Joined
    <2>6. b \o SubSeq(x, 1, k) \in Seq(Byte) /\ SubSeq(x, k + 1, Len(x)) \in Seq(Byte)
      BY Parted
    <2>7. Msg(3) \in Seq(Byte) /\ Len(Msg(3)) = 3 /\ 3 \in 1 .. 3
      <3>1. 3 \in Nat /\ 3 \in 1 .. 3
        OBVIOUS
      <3> QED BY <3>1, MsgBytes, Zenon
    <2>8. b \o SubSeq(x, 1, k) = Msg(3)
      BY <2>4, <2>5, <2>6, <2>7, AllOfIt
    <2> QED BY <2>4, <2>7, <2>8, Zenon DEF Ill, IsMsg
  <1>3. ASSUME pair \in {"stdio", "stdmp", "sep2"} PROVE ~ IllLine(S)
    <2>1. CASE pair = "stdio"
      <3>1. Sent(d) \in {<< >>, Msg(2)}
        BY <1>1, <2>1, Zenon DEF Holds, Stdio, OneLine, NoLine, LineIs
      <3>2. Rows(Sent(d))
        BY <3>1, RowsFew
      <3> QED BY <1>1, <3>2, ServerUses, LinesWhole DEF Sent
    <2>2. CASE pair \in {"stdmp", "sep2"}
      BY <1>1, <2>2, ServerUses, LinesWhole DEF Holds, Rowed, Sent
    <2> QED BY <1>3, <2>1, <2>2
  <1> QED BY <1>2, <1>3

(* What a client that reads by count or by line takes is whole. *)
LEMMA ClientWhole ==
    ASSUME Session, NEW d \in Clients
    PROVE  /\ pair = "echo2" => ~ IllCount(P1(d))
           /\ pair \in {"stdio", "sep", "sep2"} => ~ IllLine(P1(d))
  <1> DEFINE p == P1(d)
  <1>1. Names /\ Holds(d) /\ p \in Procs /\ ConnOf(p) = d /\ Mine(p) = net[d].client
    BY Apart DEF Session, ConnOf, Mine, SideOf
  <1>2. ASSUME pair = "echo2", IllCount(p) PROVE FALSE
    <2>1. proc[p].pc = 4 /\ Instr(p).n = 2
      BY <1>1, <1>2, Echo2Places DEF IllCount, At
    <2>2. proc[p].buf \o net[d].client.in \in Begun
      BY <1>1, <1>2, <2>1 DEF Holds, Echo2, Bits, Text
    <2>3. PICK b \in Seq(Byte), x \in Seq(Byte) : b = proc[p].buf /\ x = net[d].client.in
      BY <1>1, ClientUses, UsesEnds
    <2>4. PICK k \in 1 .. Len(x) : Len(b \o SubSeq(x, 1, k)) >= 2 /\ Ill(b \o SubSeq(x, 1, k))
      BY <1>1, <1>2, <2>1, <2>3, Zenon DEF IllCount
    <2>5. (b \o SubSeq(x, 1, k)) \o SubSeq(x, k + 1, Len(x)) \in Begun
      BY <2>2, <2>3, Joined
    <2>6. b \o SubSeq(x, 1, k) \in Seq(Byte) /\ SubSeq(x, k + 1, Len(x)) \in Seq(Byte) /\ 2 \in 1 .. 3
      BY Parted
    <2>7. b \o SubSeq(x, 1, k) = Msg(2)
      BY <2>4, <2>5, <2>6, NothingMore
    <2> QED BY <2>4, <2>6, <2>7, Zenon DEF Ill, IsMsg
  <1>3. ASSUME pair \in {"stdio", "sep", "sep2"}, At(p, "line") PROVE Rows(Back(d))
    <2>1. proc[p].pc \in Reading(pair)
      BY <1>1, <1>3, SepPlaces, StdioPlaces DEF At, Reading
    <2> QED BY <1>1, <1>3, <2>1 DEF Holds, Lined
  <1>4. ASSUME pair \in {"stdio", "sep", "sep2"} PROVE ~ IllLine(p)
    BY <1>1, <1>3, <1>4, ClientUses, LinesWhole DEF IllLine, Back
  <1> QED BY <1>2, <1>4

LEMMA WholeKept ==
    ASSUME Session, WholeMessages, Next
    PROVE  WholeMessages'
  <1>1. Names /\ pair' = pair /\ torn \subseteq torn'
    BY PairStays, TornGrows DEF Session
  <1>2. \A p : Script(p)' = Script(p)
    BY <1>1 DEF Script
  <1>3. SUFFICES ASSUME NEW p \in torn' PROVE Script(p) \in ReadOnce \/ (p # S /\ S \in torn')
    BY <1>2 DEF WholeMessages
  <1>4. CASE p \in torn
    BY <1>1, <1>4 DEF WholeMessages
  <1>5. CASE p \notin torn
    <2>1. p \in Procs /\ ConnOf(p) \in Clients
      BY <1>1, <1>5, TornBy
    <2>2. PICK op \in {"show", "line", "fill"} :
              /\ At(p, op) /\ (op = "fill" => Instr(p).n # All)
              /\ (op = "show" => ~ Right(p)) /\ (op = "fill" => IllCount(p)) /\ (op = "line" => IllLine(p))
      BY <1>1, <1>5, TornBy DEF IllShown, IllCount, IllLine
    <2>3. pair \in PairNames
      BY <1>1, PairsAre DEF Names, SessionTypes
    <2>4. CASE p = S
      <3>1. Script(p) = Pairs[pair].server /\ serving \in Clients
        BY <2>1, <2>4 DEF Script, ConnOf
      <3>2. Script(p) \in ReadOnce \/ op \in ServerTakes(pair)
        BY <1>1, <2>1, <2>2, <2>3, <3>1, Showing, Takers
      <3>3. op \notin ServerTakes(pair)
        BY <2>2, <2>4, <3>1, OpRight, ServerWhole DEF ServerTakes
      <3> QED BY <3>2, <3>3
    <2>5. CASE p # S
      <3>1. p[1] \in Clients /\ p = P1(p[1])
        BY <1>1, <2>1, <2>2, <2>5, Apart, Parts0
      <3>2. Script(p) = Pairs[pair].client
        BY <1>1, <3>1, BothPrograms
      <3>3. Script(p) \in ReadOnce \/ op \in ClientTakes(pair)
        BY <1>1, <2>1, <2>2, <2>3, <3>2, Showing, Takers
      <3>4. CASE op = "show" /\ pair \in {"hello2", "kehou6", "file"}
        BY <1>1, <2>2, <2>5, <3>1, <3>4, ClientRight
      <3>5. op \in ClientTakes(pair) => op = "show" /\ pair \in {"hello2", "kehou6", "file"}
        BY <2>2, <3>1, ClientWhole DEF ClientTakes
      <3> QED BY <3>3, <3>4, <3>5
    <2> QED BY <2>4, <2>5
  <1> QED BY <1>4, <1>5

(* SIGPIPE spares the servers of the clients that wait, and a server that writes nothing. *)
Spared == pair \in Polite \cup {"peek"} => S \notin killed

LEMMA SparedKept ==
    ASSUME Session, Spared, Next
    PROVE  Spared'
  <1>1. Names /\ pair' = pair /\ S \in Procs
    BY PairStays, Apart DEF Session
  <1>2. SUFFICES ASSUME pair \in Polite \cup {"peek"}, S \in killed' PROVE FALSE
    BY <1>1 DEF Spared
  <1>3. WriteKills(S) /\ serving \in Clients
    BY <1>1, <1>2, KilledBy DEF Spared
  <1> DEFINE d == serving
  <1>4. /\ Holds(d) /\ Here(d)
    BY <1>3 DEF Session, Here
  <1>5. net[d].server.err # "none" /\ (At(S, "put") \/ At(S, "echo"))
    BY <1>1, <1>3, WriteKillsIs, ServerUses, UsesEnds DEF Writes
  <1>6. CASE pair \in {"hello2", "kehou6", "sep", "mp", "mpq", "stdmp", "epoll"}
    BY <1>4, <1>5, <1>6 DEF Holds, Patience, Patients, Unshut, Talkers
  <1>7. CASE pair \in {"file", "sep2"}
    BY <1>3, <1>4, <1>5, <1>7 DEF Holds, File, Sep2
  <1>8. CASE pair = "echo2"
    BY <1>4, <1>5, <1>8 DEF Holds, Echo2, Trip
  <1>9. CASE pair = "stdio"
    <2>1. proc[S].pc \in {2, 5}
      BY <1>4, <1>5, <1>9 DEF Holds, Stdio
    <2>2. At(S, "feof") \/ At(S, "close")
      BY <1>1, <1>3, <1>9, <2>1, StdioPlaces
    <2> QED BY <1>5, <2>2 DEF At
  <1>10. CASE pair = "peek"
    <2>1. Script(S) = Pairs["peek"].server
      BY <1>10 DEF Script
    <2> QED BY <1>1, <1>5, <2>1, NothingWritten, NotAt
  <1> QED BY <1>2, <1>6, <1>7, <1>8, <1>9, <1>10 DEF Polite

-----------------------------------------------------------------------------
SessionInv == Session /\ WholeMessages /\ Spared

(* The invariant holds in every state of every run, for any number of      *)
(* clients, lines and rounds, and whichever pair of programs meets: types, *)
(* where the processes stand, and of each pair which bytes are on their    *)
(* way and whose turn it is.                                               *)
THEOREM SessionInvariant == Spec => []SessionInv
  <1>1. Init => SessionInv
    BY SessionFirst, AtFirst DEF SessionInv, WholeMessages, Spared
  <1>2. SessionInv /\ [Next]_vars => SessionInv'
    <2>1. ASSUME SessionInv, Next PROVE SessionInv'
      BY <2>1, SessionKept, WholeKept, SparedKept DEF SessionInv
    <2>2. ASSUME SessionInv, UNCHANGED vars PROVE SessionInv'
      <3>1. Session'
        BY <2>2, SessionStays DEF SessionInv
      <3>2. WholeMessages' /\ Spared'
        BY <2>2 DEF SessionInv, WholeMessages, Spared, Script, vars
      <3> QED BY <3>1, <3>2 DEF SessionInv
    <2> QED BY <2>1, <2>2
  <1> QED BY <1>1, <1>2, PTL DEF Spec

(* A program that reads until a message is complete (by count, by line, or *)
(* up to the end of the stream) never takes a part of one, or two, for a   *)
(* message, however the stream is cut; unless its server has, and closes   *)
(* on the rest of a message.                                               *)
THEOREM MessagesStayWhole == Spec => []WholeMessages
  <1>1. SessionInv => WholeMessages
    BY DEF SessionInv
  <1> QED BY <1>1, SessionInvariant, PTL

(* SIGPIPE ends a server only if its client is one that does not wait for  *)
(* all it is due before it leaves (the write()s of the servers of ch01,    *)
(* ch04, ch07, ch15 and ch16, none of which ignores the signal).           *)
THEOREM ServersSurvive == Spec => []ServerSurvives
  <1>1. ASSUME SessionInv PROVE ServerSurvives
    <2>1. pair \in PairNames
      BY <1>1, PairsAre DEF SessionInv, Session, Names, SessionTypes
    <2>2. Pairs[pair].client \in Impolite \/ pair \in Polite \/ pair = "peek"
      BY <2>1, Showing
    <2> QED BY <1>1, <2>2 DEF SessionInv, Spared, ServerSurvives
  <1> QED BY <1>1, SessionInvariant, PTL

(* A server that has shut down only its direction of the stream gets the   *)
(* client's last words (ch07/file_server.c, ch16/sep_serv2.c).             *)
THEOREM FarewellsArrive == Spec => []FarewellArrives
  <1>1. SessionInv => FarewellArrives
    BY DEF SessionInv, Session, Told, FileTold, Sep2Told, Spared, Polite, FarewellArrives
  <1> QED BY <1>1, SessionInvariant, PTL
=============================================================================
