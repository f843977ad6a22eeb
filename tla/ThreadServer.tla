---------------------------- MODULE ThreadServer ----------------------------
(***************************************************************************)
(* The servers with a thread for each client, TCP-IP-NetworkNote/ch18:     *)
(* chat_server.c and homework/echo_threadserv.c.  main() accepts clients   *)
(* and starts the threads.  In the chat server it notes their sockets in   *)
(* clnt_socks[0 .. clnt_cnt - 1]; a thread sends what it reads to all      *)
(* sockets of the table and takes its client out of the table when it      *)
(* leaves.  One mutex guards the table and its count.  In the echo server  *)
(* the threads share one buffer and hold the mutex while they read into it *)
(* and write it back.                                                      *)
(*                                                                         *)
(* The thread of a client is named after the client main() had accepted    *)
(* when it started it; which socket it serves is what it finds in main()'s *)
(* variable clnt_sock when it gets to run.                                 *)
(***************************************************************************)
EXTENDS Naturals, Sequences, FiniteSets

CONSTANTS
    Clients,    \* each connects at most once
    MaxMsgs,    \* bound: the messages all clients send
    MaxFd,      \* descriptors the server has for its clients
    SockCap,    \* bound: messages a socket holds for a client that does not read
    NULL        \* nobody

ASSUME MaxMsgsAssumption == MaxMsgs \in Nat /\ SockCap \in Nat \ {0}
ASSUME ClientsAssumption ==
    /\ IsFiniteSet(Clients)
    /\ NULL \notin Clients
ASSUME MaxFdAssumption == MaxFd \in Nat /\ MaxFd >= Cardinality(Clients)

Programs == {"chat_server", "echo_threadserv"}

MAX_CLNT == Cardinality(Clients)    \* 256 in the code; more clients overflow the array
Fds      == 1..MaxFd
Msgs     == 1..MaxMsgs
CLOSED   == MaxFd + 1               \* accept() has not returned yet

VARIABLES
    program,    \* the one that runs
    conn,       \* each client: "new", "queued", "open", "left"
    nsent,      \* the messages sent so far
    inbox,      \* per connection, what the server has not read yet
    heard,      \* what each client has been sent, in order
    unread,     \* how much of it the client has not read yet
    err,        \* of the server's end: "reset" is reported once, then "pipe"
    fd,         \* the server's descriptor of each connection, 0 when closed
    clnt_sock,  \* main()'s variable
    clnt_socks, \* the table, and the word behind it
    clnt_cnt,
    mutx,       \* the thread that holds the mutex, or NULL
    mainpc,     \* where main() is; "killed" when SIGPIPE has ended the process
    accepted,   \* the client main() has accepted last
    pc,         \* where the thread of each client is
    sock,       \* its local variable clnt_sock
    msg,        \* what it has read last, 0 for nothing or written
    i,          \* its loop variable
    buf         \* the buffer of echo_threadserv.c

clients == <<conn, nsent, inbox>>
sockets == <<heard, unread, err>>
table   == <<clnt_socks, clnt_cnt>>
mains   == <<clnt_sock, mainpc, accepted>>
locals  == <<sock, msg, i>>
vars    == <<program, clients, sockets, fd, table, mutx, mains, pc, locals, buf>>

Init ==
    /\ program \in Programs
    /\ conn = [c \in Clients |-> "new"]
    /\ nsent = 0
    /\ inbox = [c \in Clients |-> << >>]
    /\ heard = [c \in Clients |-> << >>]
    /\ unread = [c \in Clients |-> 0]
    /\ err = [c \in Clients |-> "none"]
    /\ fd = [c \in Clients |-> 0]
    /\ clnt_sock = CLOSED
    /\ clnt_socks = [k \in 0..MAX_CLNT |-> 0]
    /\ clnt_cnt = 0
    /\ mutx = NULL
    /\ mainpc = "accept"
    /\ accepted = NULL
    /\ pc = [c \in Clients |-> "unborn"]
    /\ sock = [c \in Clients |-> 0]
    /\ msg = [c \in Clients |-> 0]
    /\ i = [c \in Clients |-> 0]
    /\ buf = 0

-----------------------------------------------------------------------------
(* The clients and the kernel. *)

FreeFds == Fds \ {fd[c] : c \in Clients}

(* The connections a descriptor stands for: one, or none. *)
Behind(f) == {c \in Clients : fd[c] = f /\ f # 0}

Full(c) == unread[c] = SockCap

(* What the clients do after the end of the server does not matter. *)
Over == mainpc = "killed"

Connect(c) ==
    /\ conn[c] = "new" /\ ~Over
    /\ conn' = [conn EXCEPT ![c] = "queued"]
    /\ UNCHANGED <<program, nsent, inbox, sockets, fd, table, mutx, mains, pc, locals, buf>>

Send(c) ==
    /\ conn[c] = "open" /\ ~Over
    /\ nsent < MaxMsgs
    /\ nsent' = nsent + 1
    /\ inbox' = [inbox EXCEPT ![c] = Append(@, nsent + 1)]
    /\ UNCHANGED <<program, conn, sockets, fd, table, mutx, mains, pc, locals, buf>>

Hear(c) ==
    /\ conn[c] = "open" /\ unread[c] > 0 /\ ~Over
    /\ unread' = [unread EXCEPT ![c] = @ - 1]
    /\ UNCHANGED <<program, clients, heard, err, fd, table, mutx, mains, pc, locals, buf>>

(* If it leaves with something unread, the server's end is reset. *)
Leave(c) ==
    /\ conn[c] = "open" /\ ~Over
    /\ conn' = [conn EXCEPT ![c] = "left"]
    /\ unread' = [unread EXCEPT ![c] = 0]
    /\ err' = IF unread[c] > 0 THEN [err EXCEPT ![c] = "reset"] ELSE err
    /\ UNCHANGED <<program, nsent, inbox, heard, fd, table, mutx, mains, pc, locals, buf>>

-----------------------------------------------------------------------------
(* main() *)

(* The kernel gives the lowest free descriptor. *)
Accept(c) ==
    /\ mainpc = "accept"
    /\ conn[c] = "queued"
    /\ FreeFds # {}
    /\ clnt_sock' = CHOOSE f \in FreeFds : \A g \in FreeFds : f <= g
    /\ fd' = [fd EXCEPT ![c] = clnt_sock']
    /\ conn' = [conn EXCEPT ![c] = "open"]
    /\ accepted' = c
    /\ mainpc' = IF program = "chat_server" THEN "add" ELSE "create"
    /\ UNCHANGED <<program, nsent, inbox, sockets, table, mutx, pc, locals, buf>>

AddClient ==
    /\ mainpc = "add"
    /\ mutx = NULL
    /\ clnt_socks' = [clnt_socks EXCEPT ![clnt_cnt] = clnt_sock]
    /\ clnt_cnt' = clnt_cnt + 1
    /\ mainpc' = "create"
    /\ UNCHANGED <<program, clients, sockets, fd, mutx, clnt_sock, accepted, pc, locals, buf>>

(* pthread_create() passes the address of clnt_sock, not its value. *)
CreateThread ==
    /\ mainpc = "create"
    /\ pc' = [pc EXCEPT ![accepted] = "born"]
    /\ mainpc' = "accept"
    /\ UNCHANGED <<program, clients, sockets, fd, table, mutx, clnt_sock, accepted, locals, buf>>

-----------------------------------------------------------------------------
(***************************************************************************)
(* A write() to connection d that returns.  While the socket is full it    *)
(* waits.  After the client has left it succeeds once more, and sooner or  *)
(* later the client's host answers with a reset; after a reset it fails,   *)
(* which nobody notices.                                                   *)
(***************************************************************************)
WriteTo(d, m) ==
    \/ /\ conn[d] = "open" /\ ~Full(d)
       /\ heard' = [heard EXCEPT ![d] = Append(@, m)]
       /\ unread' = [unread EXCEPT ![d] = @ + 1]
       /\ UNCHANGED err
    \/ /\ conn[d] = "left" /\ err[d] = "none"
       /\ err' \in {err, [err EXCEPT ![d] = "pipe"]}
       /\ UNCHANGED <<heard, unread>>
    \/ /\ err[d] = "reset"
       /\ err' = [err EXCEPT ![d] = "pipe"]
       /\ UNCHANGED <<heard, unread>>

(* Where the thread of c writes to next. *)
Target(c) ==
    CASE pc[c] = "send" /\ i[c] < clnt_cnt /\ msg[c] # 0 -> Behind(clnt_socks[i[c]])
      [] pc[c] = "echo" -> Behind(sock[c])
      [] OTHER -> {}

Write(c, m) ==
    IF Target(c) = {} THEN UNCHANGED sockets ELSE \E d \in Target(c) : WriteTo(d, m)

(* One more write() raises SIGPIPE, which ends the process with all threads. *)
WriteKills(c) ==
    /\ \E d \in Target(c) : err[d] = "pipe"
    /\ pc' = [d \in Clients |-> "killed"]
    /\ mainpc' = "killed"
    /\ UNCHANGED <<program, clients, sockets, fd, table, mutx, clnt_sock, accepted, locals, buf>>

-----------------------------------------------------------------------------
(* handle_clnt() and send_msg() of chat_server.c; Enter is the start of    *)
(* both programs' handle_clnt().                                           *)

(* The thread reads clnt_sock through its argument, racing with main(). *)
Enter(c) ==
    /\ pc[c] = "born"
    /\ sock' = [sock EXCEPT ![c] = clnt_sock]
    /\ pc' = [pc EXCEPT ![c] = IF program = "chat_server" THEN "read" ELSE "lockRead"]
    /\ UNCHANGED <<program, clients, sockets, fd, table, mutx, mains, msg, i, buf>>

ReadMessage(c) ==
    \E d \in Behind(sock[c]) :
        /\ pc[c] = "read"
        /\ inbox[d] # << >>
        /\ msg' = [msg EXCEPT ![c] = Head(inbox[d])]
        /\ inbox' = [inbox EXCEPT ![d] = Tail(@)]
        /\ pc' = [pc EXCEPT ![c] = "lock"]
        /\ UNCHANGED <<program, conn, nsent, sockets, fd, table, mutx, mains, sock, i, buf>>

(***************************************************************************)
(* read() fails on a descriptor another thread has closed, and once after  *)
(* a reset; -1 is not 0.                                                   *)
(***************************************************************************)
ReadFails(c) ==
    /\ pc[c] = "read"
    /\ \/ Behind(sock[c]) = {} /\ UNCHANGED err
       \/ \E d \in Behind(sock[c]) :
            /\ inbox[d] = << >> /\ err[d] = "reset"
            /\ err' = [err EXCEPT ![d] = "pipe"]
    /\ msg' = [msg EXCEPT ![c] = 0]
    /\ pc' = [pc EXCEPT ![c] = "lock"]
    /\ UNCHANGED <<program, clients, heard, unread, fd, table, mutx, mains, sock, i, buf>>

ReadEnd(c) ==
    \E d \in Behind(sock[c]) :
        /\ pc[c] = "read"
        /\ inbox[d] = << >>
        /\ conn[d] = "left" /\ err[d] # "reset"
        /\ pc' = [pc EXCEPT ![c] = "remove"]
        /\ UNCHANGED <<program, clients, sockets, fd, table, mutx, mains, locals, buf>>

(* Mutant of LockForSend: send_msg() without the mutex. *)
EnterSendUnlocked(c) ==
    /\ pc[c] = "lock"
    /\ i' = [i EXCEPT ![c] = 0]
    /\ pc' = [pc EXCEPT ![c] = "send"]
    /\ UNCHANGED <<program, clients, sockets, fd, table, mutx, mains, sock, msg, buf>>

LockForSend(c) ==
    /\ pc[c] = "lock"
    /\ mutx = NULL
    /\ mutx' = c
    /\ i' = [i EXCEPT ![c] = 0]
    /\ pc' = [pc EXCEPT ![c] = "send"]
    /\ UNCHANGED <<program, clients, sockets, fd, table, mains, sock, msg, buf>>

(* One write() of the loop; the count -1 of a failed read is refused. *)
SendToOne(c) ==
    /\ pc[c] = "send"
    /\ i[c] < clnt_cnt
    /\ Write(c, msg[c])
    /\ i' = [i EXCEPT ![c] = @ + 1]
    /\ UNCHANGED <<program, clients, fd, table, mutx, mains, pc, sock, msg, buf>>

(* Mutant of SendDone: returns without the unlock. *)
SendDoneLocked(c) ==
    /\ pc[c] = "send"
    /\ i[c] >= clnt_cnt
    /\ pc' = [pc EXCEPT ![c] = "read"]
    /\ UNCHANGED <<program, clients, sockets, fd, table, mutx, mains, locals, buf>>

SendDone(c) ==
    /\ pc[c] = "send"
    /\ i[c] >= clnt_cnt
    /\ mutx' = NULL
    /\ pc' = [pc EXCEPT ![c] = "read"]
    /\ msg' = [msg EXCEPT ![c] = 0]
    /\ i' = [i EXCEPT ![c] = 0]
    /\ UNCHANGED <<program, clients, sockets, fd, table, mains, sock, buf>>

(***************************************************************************)
(* The removal.  The loop that is to close the gap increments i before it  *)
(* copies, so the entry found stays and the one behind it is overwritten;  *)
(* a full table also copies the word behind it into its last place.        *)
(***************************************************************************)
Without(s) ==
    LET found == {k \in 0..(clnt_cnt - 1) : clnt_socks[k] = s}
        first == CHOOSE k \in found : \A l \in found : k <= l
    IN  IF found = {} THEN clnt_socks
        ELSE [k \in DOMAIN clnt_socks |->
                IF first < k /\ k < clnt_cnt THEN clnt_socks[k + 1] ELSE clnt_socks[k]]

(* Mutant of RemoveClient: the count is forgotten. *)
RemoveClientUncounted(c) ==
    /\ pc[c] = "remove"
    /\ mutx = NULL
    /\ clnt_socks' = Without(sock[c])
    /\ pc' = [pc EXCEPT ![c] = "close"]
    /\ UNCHANGED <<program, clients, sockets, fd, clnt_cnt, mutx, mains, locals, buf>>

RemoveClient(c) ==
    /\ pc[c] = "remove"
    /\ mutx = NULL
    /\ clnt_socks' = Without(sock[c])
    /\ clnt_cnt' = clnt_cnt - 1
    /\ pc' = [pc EXCEPT ![c] = "close"]
    /\ UNCHANGED <<program, clients, sockets, fd, mutx, mains, locals, buf>>

CloseSock(c) ==
    /\ pc[c] = "close"
    /\ fd' = [d \in Clients |-> IF fd[d] = sock[c] THEN 0 ELSE fd[d]]
    /\ pc' = [pc EXCEPT ![c] = "done"]
    /\ sock' = [sock EXCEPT ![c] = 0]
    /\ UNCHANGED <<program, clients, sockets, table, mutx, mains, msg, i, buf>>

-----------------------------------------------------------------------------
(* handle_clnt() of echo_threadserv.c *)

(* Mutant of LockForRead: the buffer is not guarded. *)
EnterReadUnlocked(c) ==
    /\ pc[c] = "lockRead"
    /\ pc' = [pc EXCEPT ![c] = "readLocked"]
    /\ UNCHANGED <<program, clients, sockets, fd, table, mutx, mains, locals, buf>>

LockForRead(c) ==
    /\ pc[c] = "lockRead"
    /\ mutx = NULL
    /\ mutx' = c
    /\ pc' = [pc EXCEPT ![c] = "readLocked"]
    /\ UNCHANGED <<program, clients, sockets, fd, table, mains, locals, buf>>

(* The read() waits for its client with the mutex locked. *)
ReadToBuf(c) ==
    \E d \in Behind(sock[c]) :
        /\ pc[c] = "readLocked"
        /\ inbox[d] # << >>
        /\ buf' = Head(inbox[d])
        /\ msg' = [msg EXCEPT ![c] = Head(inbox[d])]
        /\ inbox' = [inbox EXCEPT ![d] = Tail(@)]
        /\ pc' = [pc EXCEPT ![c] = "echo"]
        /\ UNCHANGED <<program, conn, nsent, sockets, fd, table, mutx, mains, sock, i>>

EchoBuf(c) ==
    /\ pc[c] = "echo"
    /\ Write(c, buf)
    /\ mutx' = NULL
    /\ msg' = [msg EXCEPT ![c] = 0]
    /\ pc' = [pc EXCEPT ![c] = "lockRead"]
    /\ UNCHANGED <<program, clients, fd, table, mains, sock, i, buf>>

(* The break at the end of the file or an error keeps the mutex. *)
BreakLocked(c) ==
    /\ pc[c] = "readLocked"
    /\ \A d \in Behind(sock[c]) : inbox[d] = << >> /\ conn[d] = "left"
    /\ pc' = [pc EXCEPT ![c] = "close"]
    /\ UNCHANGED <<program, clients, sockets, fd, table, mutx, mains, locals, buf>>

-----------------------------------------------------------------------------
ClientStep(c) == Connect(c) \/ Send(c) \/ Hear(c) \/ Leave(c)

MainStep == AddClient \/ CreateThread \/ \E c \in Clients : Accept(c)

ThreadStep(c) ==
    \/ Enter(c)
    \/ ReadMessage(c) \/ ReadFails(c) \/ ReadEnd(c)
    \/ LockForSend(c) \/ SendToOne(c) \/ SendDone(c)
    \/ RemoveClient(c) \/ CloseSock(c)
    \/ LockForRead(c) \/ ReadToBuf(c) \/ EchoBuf(c) \/ BreakLocked(c)
    \/ WriteKills(c)

Next == MainStep \/ \E c \in Clients : ClientStep(c) \/ ThreadStep(c)

(* Every thread runs, and one that waits for the mutex gets it in the end. *)
Fairness ==
    /\ WF_vars(\E c \in Clients : Accept(c))
    /\ SF_vars(AddClient) /\ WF_vars(CreateThread)
    /\ \A c \in Clients :
        /\ SF_vars(LockForSend(c) \/ RemoveClient(c) \/ LockForRead(c))
        /\ WF_vars(Enter(c) \/ ReadMessage(c) \/ ReadFails(c) \/ ReadEnd(c))
        /\ WF_vars(SendToOne(c) \/ SendDone(c) \/ CloseSock(c) \/ WriteKills(c))
        /\ WF_vars(ReadToBuf(c) \/ EchoBuf(c) \/ BreakLocked(c))

SafetySpec == Init /\ [][Next]_vars

Spec == SafetySpec /\ Fairness

-----------------------------------------------------------------------------
(* The value every variable may have. *)
TypeOK ==
    /\ program \in Programs
    /\ conn \in [Clients -> {"new", "queued", "open", "left"}]
    /\ nsent \in 0..MaxMsgs
    /\ inbox \in [Clients -> Seq(Msgs)]
    /\ heard \in [Clients -> Seq(Msgs)]
    /\ unread \in [Clients -> 0..SockCap]
    /\ err \in [Clients -> {"none", "reset", "pipe"}]
    /\ fd \in [Clients -> Fds \cup {0}]
    /\ clnt_sock \in Fds \cup {CLOSED}
    /\ clnt_socks \in [0..MAX_CLNT -> Fds \cup {0}]
    /\ clnt_cnt \in 0..MAX_CLNT
    /\ mutx \in Clients \cup {NULL}
    /\ mainpc \in {"accept", "add", "create", "killed"}
    /\ accepted \in Clients \cup {NULL}
    /\ pc \in [Clients -> {"unborn", "born", "read", "lock", "send", "remove",
                       "lockRead", "readLocked", "echo", "close", "done", "killed"}]
    /\ buf \in 0..MaxMsgs
    /\ sock \in [Clients -> Fds \cup {0}]
    /\ msg \in [Clients -> 0..MaxMsgs]
    /\ i \in [Clients -> 0..MAX_CLNT]

(***************************************************************************)
(* clnt_cnt counts the accepted clients whose threads have not come to     *)
(* their removal, whatever the table holds and whichever sockets they      *)
(* serve: it never runs past the array or below zero.                      *)
(* The variables also keep their types.                                    *)
(***************************************************************************)
Counted(c) ==
    \/ pc[c] \in {"born", "read", "lock", "send", "remove"}
    \/ accepted = c /\ mainpc = "create"

CountMatchesThreads ==
    /\ TypeOK
    /\ program = "chat_server" /\ ~Over =>
        clnt_cnt = Cardinality({c \in Clients : Counted(c)})

(***************************************************************************)
(* send_msg() holds the mutex over all its writes, so any two clients get  *)
(* the messages they both get in the same order.                           *)
(***************************************************************************)
Before(c, m, n) ==
    \E j, k \in 1..Len(heard[c]) : j < k /\ heard[c][j] = m /\ heard[c][k] = n

SameOrder ==
    \A c, d \in Clients, m, n \in Msgs :
        m # n => ~(Before(c, m, n) /\ Before(d, n, m))

(***************************************************************************)
(* echo_threadserv.c: all threads read into one buffer, and yet nobody is  *)
(* sent what another client wrote: when a thread writes, the buffer still  *)
(* holds what the thread has read.                                         *)
(***************************************************************************)
EchoesToTheSender == \A c \in Clients : pc[c] = "echo" => buf = msg[c]

(* What the mutex of each of the two programs is there for. *)
MessagesUnmixed == SameOrder /\ EchoesToTheSender

(***************************************************************************)
(* send_msg() gives the mutex back and main() gets it in the end: whoever  *)
(* connects is accepted, entered in the table and given a thread.  That    *)
(* holds only if every client that stays goes on reading, for main() waits *)
(* for the mutex and the mutex for a write() to a full socket; and unless  *)
(* SIGPIPE ends the server, which takes a client that has left.  In        *)
(* echo_threadserv.c, where a thread that ends keeps the mutex, main()     *)
(* does without it.                                                        *)
(***************************************************************************)
KilledByALeaver == Over /\ \E d \in Clients : conn[d] = "left" /\ err[d] = "pipe"

ConnectorsGetAThread ==
    (\A d \in Clients : []<>(~Full(d))) =>
        \A c \in Clients :
            conn[c] = "queued" ~> pc[c] \notin {"unborn", "killed"} \/ KilledByALeaver

(***************************************************************************)
(* Line 55: a thread is created to serve the new client, clnt_sock being   *)
(* passed to it as argument.                                               *)
(***************************************************************************)
ThreadServesItsClient ==
    \A c \in Clients : pc[c] = "read" => fd[c] = sock[c]

(***************************************************************************)
(* Line 73: what handle_clnt() removes is the client that has no           *)
(* connection any more; a client that is connected stays in the table.     *)
(* (Stated of threads that serve their own client.)                        *)
(***************************************************************************)
InTable(c) == \E k \in 0..(clnt_cnt - 1) : clnt_socks[k] = fd[c]

ConnectedStayInTable ==
    (\A c \in Clients : sock[c] # 0 /\ pc[c] # "done" => sock[c] = fd[c])
        => \A c \in Clients : pc[c] = "read" => InTable(c)
=============================================================================
