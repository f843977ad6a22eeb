----------------------------- MODULE EventServer -----------------------------
(***************************************************************************)
(* The servers with an event loop: two use select(), the others epoll; two *)
(* pass each message on to everybody (epoll/epollchat), the others echo    *)
(* (select, ch12, epoll/echo_*.c, tcp/tcp_epoll).  One thread waits for    *)
(* events and walks through them with the variable i.  The chat servers    *)
(* use the same i again to take a client that left out of their table      *)
(* clnt_socks.                                                             *)
(***************************************************************************)
EXTENDS Naturals, Sequences, FiniteSets, SequencesExt

CONSTANTS
    Clients,        \* each connects at most once
    MaxMsgs,        \* bound: the messages all clients send
    SockCap         \* bound: the messages a socket holds for a client that does not read

ASSUME ClientsAssumption == IsFiniteSet(Clients)
ASSUME MaxMsgsAssumption == MaxMsgs \in Nat
ASSUME SockCapAssumption == SockCap \in Nat \ {0}

MaxFd == Cardinality(Clients)   \* bound: descriptors, and the places of clnt_socks
Fds   == 1..MaxFd
SERV  == MaxFd + 1              \* serv_sock
NONE  == 0                      \* what fresh heap and static memory hold: no client

(***************************************************************************)
(* The programs, by what distinguishes them from the plainest: "edge":     *)
(* edge-triggered events for the clients, "drains": sockets that do not    *)
(* block and a loop to EAGAIN, "chats": a table to send messages to,       *)
(* "sorted": select() and a walk through the descriptors in their order,   *)
(* "checks": it tests accept() and write() for errors.                     *)
(***************************************************************************)
echo_epollserv    == {}
echo_epLTserv     == {}
tcp_epoll         == {"checks"}
echo_EDGEserv     == {"edge"}
echo_epETserv     == {"edge", "drains"}
chat_epLTserv     == {"chats"}
chat_epETserv     == {"edge", "drains", "chats"}
echo_selectserv   == {"sorted"}
echo_selectserver == {"sorted"}

(***************************************************************************)
(* The programs that are in the repository a second time, in the notes on  *)
(* chapter 17 and in tcp/tcpC, built and run on their own.                 *)
(***************************************************************************)
ch17_echo_epollserv == {}
ch17_echo_EPLTserv  == {}
tcpC_tcp_epoll      == {"checks"}
ch17_echo_EDGEserv  == {"edge"}
ch17_echo_EPETserv  == {"edge", "drains"}
ch17_char_EPLTserv  == {"chats"}
ch17_char_EPETserv  == {"edge", "drains", "chats"}

Copies == {ch17_echo_epollserv, ch17_echo_EPLTserv, tcpC_tcp_epoll, ch17_echo_EDGEserv,
           ch17_echo_EPETserv, ch17_char_EPLTserv, ch17_char_EPETserv}

Programs == Copies \cup
            {echo_epollserv, echo_epLTserv, tcp_epoll, echo_EDGEserv, echo_epETserv,
             chat_epLTserv, chat_epETserv, echo_selectserv, echo_selectserver}

VARIABLES
    program,    \* the one that runs
    conn,       \* "new", "queued", "open" once accepted, "closed" by the server
    left,       \* the clients that have closed their end
    nsent,      \* messages sent so far
    inbox,      \* what the server has not read yet
    unread,     \* how many messages for it each client has not read yet
    err,        \* of the server's end: "reset" is reported once, then "pipe"
    hasty,      \* the clients that left before they had all their answers
    fd,         \* the server's descriptor of each connection
    edge,       \* connections with an event epoll_wait() has not reported
    skipped,    \* connections whose last event was reported and not looked at
    ep,         \* ep_events or the copied fd_set, kept from one epoll_wait() to the next
    event_cnt,
    i,
    pc,         \* "wait", "dispatch", "drain" between two reads of one event, "send"
                \* after a read, "killed" by SIGPIPE, "ended" by exit()
    to,         \* the other i, of send_msg()
    clnt_sock,
    clnt_socks,
    clnt_cnt

clients == <<conn, left, nsent, inbox>>
sockets == <<unread, err, hasty>>
events  == <<edge, skipped>>
table   == <<clnt_socks, clnt_cnt>>
vars    == <<program, clients, sockets, fd, events, ep, event_cnt, i, pc, to, clnt_sock, table>>

Init ==
    /\ program \in Programs
    /\ conn = [c \in Clients |-> "new"]
    /\ left = {}
    /\ nsent = 0
    /\ inbox = [c \in Clients |-> << >>]
    /\ unread = [c \in Clients |-> 0]
    /\ err = [c \in Clients |-> "none"]
    /\ hasty = {}
    /\ fd = [c \in Clients |-> NONE]
    /\ edge = {}
    /\ skipped = {}
    /\ ep = [k \in 0..MaxFd |-> NONE]
    /\ event_cnt = 0
    /\ i = 0
    /\ pc = "wait"
    /\ to = 0
    /\ clnt_sock = NONE
    /\ clnt_socks = [k \in 0..MaxFd |-> NONE]
    /\ clnt_cnt = 0

Open      == {c \in Clients : conn[c] = "open"}
Queued    == {c \in Clients : conn[c] = "queued"}
Behind(f) == {c \in Open : fd[c] = f}
LowestFree ==
    CHOOSE f \in Fds : Behind(f) = {} /\ \A g \in 1..(f - 1) : Behind(g) # {}
Readable(c) == inbox[c] # << >> \/ c \in left
Full(c) == unread[c] = SockCap

-----------------------------------------------------------------------------
(* Mutant of Target: the client accepted last, as in the old code of echo_selectserver.c:158. *)
TargetLast == IF "chats" \in program THEN clnt_socks[to] ELSE clnt_sock

(* send_msg() writes to the table, the others to the descriptor of the event. *)
Targets == IF "chats" \in program THEN clnt_cnt ELSE 1
Target  == IF "chats" \in program THEN clnt_socks[to] ELSE ep[i]

-----------------------------------------------------------------------------
(***************************************************************************)
(* The clients; what comes from them is an edge for the server.  A client  *)
(* need not read what it is sent.  If it leaves with something unread, the *)
(* server's end is reset.                                                  *)
(***************************************************************************)

(* What the clients do after the end of the server does not matter. *)
Over == pc \in {"killed", "ended"}

Connect(c) ==
    /\ conn[c] = "new" /\ ~Over
    /\ conn' = [conn EXCEPT ![c] = "queued"]
    /\ UNCHANGED <<program, left, nsent, inbox, sockets, fd, events, ep, event_cnt, i, pc, to, clnt_sock, table>>

Signal(c) ==
    /\ edge' = IF "edge" \in program /\ conn[c] = "open" THEN edge \cup {c} ELSE edge
    /\ skipped' = skipped \ {c}

Send(c) ==
    /\ conn[c] \in {"queued", "open"} /\ c \notin left /\ ~Over
    /\ nsent < MaxMsgs
    /\ nsent' = nsent + 1
    /\ inbox' = [inbox EXCEPT ![c] = Append(@, nsent + 1)]
    /\ Signal(c)
    /\ UNCHANGED <<program, conn, left, sockets, fd, ep, event_cnt, i, pc, to, clnt_sock, table>>

Hear(c) ==
    /\ c \notin left /\ unread[c] > 0 /\ ~Over
    /\ unread' = [unread EXCEPT ![c] = @ - 1]
    /\ UNCHANGED <<program, clients, err, hasty, fd, events, ep, event_cnt, i, pc, to, clnt_sock, table>>

(* The server has not finished with what the client has sent. *)
Owed(c) == inbox[c] # << >> \/ unread[c] > 0 \/ (pc = "send" /\ c \in Behind(ep[i]))

Leave(c) ==
    /\ conn[c] \in {"queued", "open"} /\ c \notin left /\ ~Over
    /\ left' = left \cup {c}
    /\ unread' = [unread EXCEPT ![c] = 0]
    /\ err' = IF unread[c] > 0 THEN [err EXCEPT ![c] = "reset"] ELSE err
    /\ hasty' = IF Owed(c) THEN hasty \cup {c} ELSE hasty
    /\ Signal(c)
    /\ UNCHANGED <<program, conn, nsent, inbox, fd, ep, event_cnt, i, pc, to, clnt_sock, table>>

-----------------------------------------------------------------------------
(***************************************************************************)
(* epoll_wait(): all that is ready, in whatever order it became so.        *)
(* select() also has timeouts, after which the loop only waits again.      *)
(***************************************************************************)

Ready == {c \in Open : Readable(c) /\ ("edge" \in program => c \in edge)}

ReadyFds == {fd[c] : c \in Ready} \cup IF Queued = {} THEN {} ELSE {SERV}

(* serv_sock is the lowest descriptor of all. *)
InOrder(batch) ==
    \A k, l \in 1..Len(batch) : k < l => batch[k] = SERV \/ batch[k] < batch[l]

EpollWait ==
    /\ pc = "wait"
    /\ ReadyFds # {}
    /\ \E batch \in SetToSeqs(ReadyFds) :
        /\ "sorted" \in program => InOrder(batch)
        /\ ep' = [k \in DOMAIN ep |-> IF k < Len(batch) THEN batch[k + 1] ELSE ep[k]]
    /\ event_cnt' = Cardinality(ReadyFds)
    /\ i' = 0
    /\ edge' = {}
    /\ skipped' = skipped \ edge
    /\ pc' = "dispatch"
    /\ UNCHANGED <<program, clients, sockets, fd, to, clnt_sock, table>>

(* The outer loop goes on at index k. *)
GoOnAt(k) ==
    /\ i' = IF k < event_cnt THEN k ELSE 0
    /\ pc' = IF k < event_cnt THEN "dispatch" ELSE "wait"

(* What it jumps over when it goes on there. *)
PassedOver(k) == UNION {Behind(ep[j]) : j \in {j \in 0..(event_cnt - 1) : i < j /\ j < k}}

-----------------------------------------------------------------------------
(* Mutant of Accept: the count is not raised. *)
AcceptUncounted ==
    /\ pc = "dispatch" /\ ep[i] = SERV
    /\ \E c \in Queued :
        /\ clnt_sock' = LowestFree
        /\ conn' = [conn EXCEPT ![c] = "open"]
        /\ fd' = [fd EXCEPT ![c] = clnt_sock']
        /\ edge' = IF "edge" \in program /\ Readable(c) THEN edge \cup {c} ELSE edge
        /\ clnt_socks' = IF "chats" \in program
                            THEN [clnt_socks EXCEPT ![clnt_cnt] = clnt_sock'] ELSE clnt_socks
    /\ GoOnAt(i + 1)
    /\ UNCHANGED <<program, left, nsent, inbox, sockets, skipped, ep, event_cnt, to, clnt_cnt>>

(* accept() with the lowest free descriptor, EPOLL_CTL_ADD, the table. *)
Accept ==
    /\ pc = "dispatch" /\ ep[i] = SERV
    /\ \E c \in Queued :
        /\ clnt_sock' = LowestFree
        /\ conn' = [conn EXCEPT ![c] = "open"]
        /\ fd' = [fd EXCEPT ![c] = clnt_sock']
        /\ edge' = IF "edge" \in program /\ Readable(c) THEN edge \cup {c} ELSE edge
        /\ IF "chats" \in program
             THEN /\ clnt_socks' = [clnt_socks EXCEPT ![clnt_cnt] = clnt_sock']
                  /\ clnt_cnt' = clnt_cnt + 1
             ELSE UNCHANGED table
    /\ GoOnAt(i + 1)
    /\ UNCHANGED <<program, left, nsent, inbox, sockets, skipped, ep, event_cnt, to>>

(* tcp/tcp_epoll: accept() or epoll_ctl() fails, for want of memory or descriptors. *)
AcceptFails ==
    /\ pc = "dispatch" /\ ep[i] = SERV
    /\ "checks" \in program /\ Queued # {}
    /\ pc' = "ended"
    /\ UNCHANGED <<program, clients, sockets, fd, events, ep, event_cnt, i, to, clnt_sock, table>>

-----------------------------------------------------------------------------
(* Mutant of Read: without the loop to EAGAIN the event is passed over. *)
ReadNot ==
    /\ pc \in {"dispatch", "drain"}
    /\ \E c \in Behind(ep[i]) :
        /\ inbox[c] # << >>
        /\ IF "drains" \in program
             THEN inbox' = [inbox EXCEPT ![c] = Tail(@)] /\ pc' = "send" /\ UNCHANGED i
             ELSE GoOnAt(i + 1) /\ UNCHANGED inbox
    /\ UNCHANGED <<program, conn, left, nsent, sockets, fd, events, ep, event_cnt, to, clnt_sock, table>>

(* read() returns what one write() of the client has sent. *)
Read ==
    /\ pc \in {"dispatch", "drain"}
    /\ \E c \in Behind(ep[i]) :
        /\ inbox[c] # << >>
        /\ inbox' = [inbox EXCEPT ![c] = Tail(@)]
    /\ pc' = "send"
    /\ UNCHANGED <<program, conn, left, nsent, sockets, fd, events, ep, event_cnt, i, to, clnt_sock, table>>

ReadAgain ==
    /\ pc \in {"dispatch", "drain"} /\ "drains" \in program
    /\ \E c \in Behind(ep[i]) : ~Readable(c)
    /\ GoOnAt(i + 1)
    /\ UNCHANGED <<program, clients, sockets, fd, events, ep, event_cnt, to, clnt_sock, table>>

(***************************************************************************)
(* read() fails on a connection that was reset.  The programs go on as if  *)
(* they had read -1 bytes, which no write() takes; tcp/tcp_epoll measures  *)
(* its empty buffer, and a write() of no bytes does raise SIGPIPE.         *)
(***************************************************************************)
ReadFails ==
    /\ pc \in {"dispatch", "drain"}
    /\ \E c \in Behind(ep[i]) :
        /\ inbox[c] = << >> /\ err[c] = "reset"
        /\ err' = [err EXCEPT ![c] = "pipe"]
    /\ \/ "checks" \in program /\ pc' = "killed" /\ UNCHANGED i
       \/ "drains" \in program /\ pc' = "drain" /\ UNCHANGED i
       \/ "checks" \notin program /\ "drains" \notin program /\ GoOnAt(i + 1)
    /\ UNCHANGED <<program, clients, unread, hasty, fd, events, ep, event_cnt, to, clnt_sock, table>>

-----------------------------------------------------------------------------
(* Mutant of Written: one read() for each event. *)
WrittenOnce ==
    IF to + 1 < Targets THEN to' = to + 1 /\ UNCHANGED <<i, pc>>
                        ELSE to' = 0 /\ GoOnAt(i + 1)

(* On to the next socket of the table, or the next read(), or the next event. *)
Written ==
    IF to + 1 < Targets THEN to' = to + 1 /\ UNCHANGED <<i, pc>>
    ELSE /\ to' = 0
         /\ IF "drains" \in program THEN pc' = "drain" /\ UNCHANGED i ELSE GoOnAt(i + 1)

(***************************************************************************)
(* write() takes all of a message, if there is room; if there is none, it  *)
(* waits, or, where the socket does not block, the message is dropped.     *)
(***************************************************************************)
Write ==
    /\ pc = "send"
    /\ \E c \in Behind(Target) \ left :
        \/ ~Full(c) /\ unread' = [unread EXCEPT ![c] = @ + 1]
        \/ Full(c) /\ "drains" \in program /\ UNCHANGED unread
    /\ Written
    /\ UNCHANGED <<program, clients, err, hasty, fd, events, ep, event_cnt, clnt_sock, table>>

(* The table may hold descriptors that are closed. *)
WriteNowhere ==
    /\ pc = "send"
    /\ Behind(Target) = {}
    /\ Written
    /\ UNCHANGED <<program, clients, sockets, fd, events, ep, event_cnt, clnt_sock, table>>

(* The client has left: a write() succeeds, and sooner or later its host answers with a reset. *)
WriteUnheard ==
    /\ pc = "send"
    /\ \E c \in Behind(Target) \cap left :
        /\ err[c] = "none"
        /\ \/ UNCHANGED <<err, events>>
           \/ err' = [err EXCEPT ![c] = "pipe"] /\ Signal(c)
    /\ Written
    /\ UNCHANGED <<program, clients, unread, hasty, fd, ep, event_cnt, clnt_sock, table>>

(* write() fails; nobody but tcp/tcp_epoll looks, and closes the descriptor. *)
WriteFails ==
    /\ pc = "send"
    /\ \E c \in Behind(Target) :
        /\ err[c] = "reset"
        /\ IF "checks" \in program
             THEN /\ conn' = [conn EXCEPT ![c] = "closed"]
                  /\ fd' = [fd EXCEPT ![c] = NONE]
                  /\ err' = [err EXCEPT ![c] = "none"]
                  /\ edge' = edge \ {c}
             ELSE err' = [err EXCEPT ![c] = "pipe"] /\ UNCHANGED <<conn, fd, edge>>
    /\ Written
    /\ UNCHANGED <<program, left, nsent, inbox, unread, hasty, skipped, ep, event_cnt, clnt_sock, table>>

(* SIGPIPE, which no program handles. *)
WriteKills ==
    /\ pc = "send"
    /\ \E c \in Behind(Target) : err[c] = "pipe"
    /\ pc' = "killed"
    /\ UNCHANGED <<program, clients, sockets, fd, events, ep, event_cnt, i, to, clnt_sock, table>>

-----------------------------------------------------------------------------
(***************************************************************************)
(* The loop that looks for the socket in the table compares clnt_sock, the *)
(* client accepted last, in LT, and ep_events[i] with i counting through   *)
(* the table in ET.  From where it matches it moves the entries behind the *)
(* next one, as the counter is raised before the copy.                     *)
(***************************************************************************)
Matches(k) == clnt_socks[k] = IF "edge" \in program THEN ep[k] ELSE clnt_sock

Shifted ==
    LET found == {k \in 0..(clnt_cnt - 1) : Matches(k)}
        first == CHOOSE k \in found : \A l \in found : k <= l
    IN  IF found = {} THEN clnt_socks
        ELSE [k \in DOMAIN clnt_socks |->
                IF first < k /\ k < clnt_cnt THEN clnt_socks[k + 1] ELSE clnt_socks[k]]

(* Mutant of CloseClient: starts over at the first event of the batch. *)
CloseClientBack ==
    /\ pc \in {"dispatch", "drain"}
    /\ \E c \in Behind(ep[i]) :
        /\ inbox[c] = << >> /\ c \in left /\ err[c] # "reset"
        /\ conn' = [conn EXCEPT ![c] = "closed"]
        /\ fd' = [fd EXCEPT ![c] = NONE]
        /\ err' = [err EXCEPT ![c] = "none"]
        /\ edge' = edge \ {c}
    /\ IF "chats" \in program
         THEN /\ clnt_socks' = Shifted
              /\ clnt_cnt' = clnt_cnt - 1
              /\ GoOnAt(0)
              /\ skipped' = IF "edge" \in program
                               THEN skipped \cup (PassedOver(0) \ edge) ELSE {}
         ELSE GoOnAt(i + 1) /\ UNCHANGED <<skipped, table>>
    /\ UNCHANGED <<program, left, nsent, inbox, unread, hasty, ep, event_cnt, to, clnt_sock>>

(***************************************************************************)
(* read() returns 0.  In the chat servers, found or not, i ends at         *)
(* clnt_cnt, and the outer loop goes on behind it.                         *)
(***************************************************************************)
CloseClient ==
    /\ pc \in {"dispatch", "drain"}
    /\ \E c \in Behind(ep[i]) :
        /\ inbox[c] = << >> /\ c \in left /\ err[c] # "reset"
        /\ conn' = [conn EXCEPT ![c] = "closed"]
        /\ fd' = [fd EXCEPT ![c] = NONE]
        /\ err' = [err EXCEPT ![c] = "none"]
        /\ edge' = edge \ {c}
    /\ IF "chats" \in program
         THEN /\ clnt_socks' = Shifted
              /\ clnt_cnt' = clnt_cnt - 1
              /\ GoOnAt(clnt_cnt + 1)
              /\ skipped' = IF "edge" \in program
                               THEN skipped \cup (PassedOver(clnt_cnt + 1) \ edge) ELSE {}
         ELSE GoOnAt(i + 1) /\ UNCHANGED <<skipped, table>>
    /\ UNCHANGED <<program, left, nsent, inbox, unread, hasty, ep, event_cnt, to, clnt_sock>>

-----------------------------------------------------------------------------
Server ==
    \/ EpollWait \/ Accept \/ AcceptFails
    \/ Read \/ ReadAgain \/ ReadFails \/ CloseClient
    \/ Write \/ WriteNowhere \/ WriteUnheard \/ WriteFails \/ WriteKills

Next == Server \/ \E c \in Clients : Connect(c) \/ Send(c) \/ Hear(c) \/ Leave(c)

(* The server's only thread runs; the clients need not do anything. *)
Spec == Init /\ [][Next]_vars /\ WF_vars(Server)

-----------------------------------------------------------------------------
(* The value every variable may have. *)
TypeOK ==
    /\ program \in Programs
    /\ conn \in [Clients -> {"new", "queued", "open", "closed"}]
    /\ left \subseteq Clients /\ edge \subseteq Open /\ skipped \subseteq Clients
    /\ nsent \in 0..MaxMsgs
    /\ inbox \in [Clients -> Seq(1..MaxMsgs)]
    /\ unread \in [Clients -> 0..SockCap]
    /\ err \in [Clients -> {"none", "reset", "pipe"}]
    /\ hasty \subseteq left
    /\ fd \in [Clients -> 0..MaxFd]
    /\ ep \in [0..MaxFd -> 0..SERV]
    /\ event_cnt \in 0..(MaxFd + 1)
    /\ i \in 0..MaxFd
    /\ pc \in {"wait", "dispatch", "drain", "send", "killed", "ended"}
    /\ to \in 0..MaxFd
    /\ clnt_sock \in 0..MaxFd
    /\ clnt_socks \in [0..MaxFd -> 0..MaxFd]
    /\ clnt_cnt \in 0..MaxFd

(***************************************************************************)
(* In the chat servers clnt_cnt is the number of sockets registered with   *)
(* epoll, although the table may hold others than those.  It is what the   *)
(* removal leaves i at.                                                    *)
(* The variables also keep their types.                                    *)
(***************************************************************************)
CountIsRegistered ==
    /\ TypeOK
    /\ "chats" \in program => clnt_cnt = Cardinality(Open)

(***************************************************************************)
(* The index that comes back from the removal never points at an event     *)
(* already handled: no descriptor is read or accepted on twice in one      *)
(* batch, so a read() or accept() on a blocking socket never waits.        *)
(***************************************************************************)
BatchMovesForward ==
    [][fd' # fd /\ pc' # "wait" => i' > i]_vars

(* Events of the edge-triggered programs that these two may lose. *)
LosesEvents == "edge" \in program /\ ("chats" \in program \/ "drains" \notin program)

(***************************************************************************)
(* If every client reads what it is sent, or leaves, whatever a client     *)
(* writes is read in the end, also what comes with its close:              *)
(* level-triggered events come again when the chat server skips them, and  *)
(* edge-triggered ones need the loop to EAGAIN.  The two edge-triggered    *)
(* programs that skip events or read once are exempt.  All this is so      *)
(* unless a client that left ends the server with SIGPIPE or is closed     *)
(* for a failed write(), or tcp/tcp_epoll exits.                           *)
(***************************************************************************)
ClientsRead == \A c \in Clients : []<>(~Full(c))

EveryMessageIsRead ==
    ClientsRead =>
        \A c \in Clients :
            inbox[c] # << >> ~>
                (inbox[c] = << >> \/ LosesEvents \/ Over \/ ("checks" \in program /\ c \in hasty))

(***************************************************************************)
(* A client that waits for its answers before it leaves does not bring an  *)
(* echo server down: SIGPIPE needs one that left with a message on its way *)
(* to or from the server.  The chat servers write to everybody in their    *)
(* table, and any client that leaves may be the end of them.               *)
(***************************************************************************)
KilledByTheHasty ==
    pc = "killed" /\ "chats" \notin program => hasty # {}

(***************************************************************************)
(* An open connection with something to read is announced, waits in the    *)
(* batch, or was jumped over by chat_epETserv.c when another client left.  *)
(***************************************************************************)
InBatch(c) == pc # "wait" /\ \E k \in i..(event_cnt - 1) : ep[k] = fd[c]

UnreadIsAnnounced ==
    "edge" \in program /\ "drains" \in program =>
        \A c \in Open : Readable(c) => c \in edge \/ InBatch(c) \/ c \in skipped

(***************************************************************************)
(* echo_EDGEserv.c:9: what one read() leaves behind triggers an event      *)
(* again.                                                                  *)
(***************************************************************************)
RestTriggersAgain ==
    \A c \in Clients :
        program = echo_EDGEserv /\ inbox[c] # << >> ~> inbox[c] = << >>
=============================================================================
