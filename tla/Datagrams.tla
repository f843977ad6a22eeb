----------------------------- MODULE Datagrams -----------------------------
(***************************************************************************)
(* The datagram programs: the echo and chat pairs and the bound hosts of   *)
(* TCP-IP-NetworkNote/ch06, and the news sent to many receivers of ch14    *)
(* and multibroadcast.  Nothing is acknowledged and nobody sets a timeout, *)
(* while the network may lose, duplicate and reorder what is sent.  A      *)
(* server may be started after its clients.                                *)
(***************************************************************************)
EXTENDS Naturals, Sequences, FiniteSets, Bags

CONSTANTS
    Server,     \* uecho_server, uchar_server, bound_host1 or news_sender
    Clients,    \* the programs at the other end
    MaxMsgs,    \* bound: lines a user types; lines of news.txt
    MaxLost,    \* bound: datagrams the network loses
    MaxDups     \* bound: datagrams it duplicates

(* To be assumed where the constants get their values. *)
DatagramsAssumption ==
    /\ Server \notin Clients
    /\ MaxMsgs \in Nat \ {0} /\ MaxLost \in Nat /\ MaxDups \in Nat

Hosts == {Server} \cup Clients

VARIABLES
    prog,       \* which programs run
    net,        \* the bag of datagrams under way
    server,     \* "absent", "recv", "type", "news", "done"
    asked,      \* the request that the user of uchar_server answers
    clnt,       \* each client: "type", "recv", "away" (not in the group), "done"
    nsent,      \* lines each host has sent
    answers,    \* what each host has received, in order
    refused,    \* clients with a pending ECONNREFUSED
    outside,    \* history: hosts that wrote message[str_len] outside message
    unsent,     \* history: clients whose write() has failed
    lost, dups  \* what the network has done so far

hostVars == <<server, asked, clnt, nsent, answers, refused, outside, unsent>>
vars == <<prog, net, hostVars, lost, dups>>

(* The programs of a user, by their server; uecho_con has a client that is *)
(* connected to its server.                                                *)
uecho     == "uecho"
uecho_con == "uecho_con"
uchar     == "uchar"
bound     == "bound"
news      == "news"
Programs  == {uecho, uecho_con, uchar, bound, news}
Talk      == {uecho, uecho_con, uchar}

(* A datagram with line n of host "of"; "full" if it fills the buffer of   *)
(* BUF_SIZE bytes, as fgets() never does.                                  *)
Datagram(from, to, of, n, full) == [from |-> from, to |-> to, of |-> of, n |-> n, full |-> full]

None == Datagram(Server, Server, Server, 0, FALSE)

Init ==
    /\ prog \in Programs
    /\ net = EmptyBag
    /\ server = "absent"
    /\ asked = None
    /\ clnt = [c \in Clients |-> IF prog = news THEN "away" ELSE "type"]
    /\ nsent = [h \in Hosts |-> 0]
    /\ answers = [h \in Hosts |-> << >>]
    /\ refused = {}
    /\ outside = {}
    /\ unsent = {}
    /\ lost = 0
    /\ dups = 0

Put(d) == net (+) SetToBag({d})
Without(d) == net (-) SetToBag({d})

(* What h finds at its socket. *)
Arrived(h) == {d \in BagToSet(net) : d.to = h}
Hears(h, d) == answers' = [answers EXCEPT ![h] = Append(@, d)]

-----------------------------------------------------------------------------
(* The network. *)

Lose(d) ==
    /\ lost < MaxLost
    /\ net' = Without(d)
    /\ lost' = lost + 1
    /\ UNCHANGED <<prog, hostVars, dups>>

Duplicate(d) ==
    /\ dups < MaxDups
    /\ net' = Put(d)
    /\ dups' = dups + 1
    /\ UNCHANGED <<prog, hostVars, lost>>

(* Nobody is bound to the port: thrown away, and a connected socket is told. *)
Unreachable(d) ==
    /\ d.to = Server /\ server \in {"absent", "done"}
    /\ net' = Without(d)
    /\ lost' = lost + 1
    /\ refused' = IF prog = uecho_con THEN refused \cup {d.from} ELSE refused
    /\ UNCHANGED <<prog, server, asked, clnt, nsent, answers, outside, unsent, dups>>

-----------------------------------------------------------------------------
(* uecho_client, uecho_con_client, uchar_client, bound_host2. *)

(* The user types a line, which goes to the server.  uchar_client sends    *)
(* the whole buffer.  A pending error makes write() fail, unnoticed.       *)
ClientSends(c) ==
    /\ prog \in Talk
    /\ clnt[c] = "type" /\ nsent[c] < MaxMsgs
    /\ nsent' = [nsent EXCEPT ![c] = @ + 1]
    /\ IF c \in refused
         THEN UNCHANGED net /\ unsent' = unsent \cup {c}
         ELSE net' = Put(Datagram(c, Server, c, nsent[c] + 1, prog = uchar)) /\ UNCHANGED unsent
    /\ refused' = refused \ {c}
    /\ clnt' = [clnt EXCEPT ![c] = "recv"]
    /\ UNCHANGED <<prog, server, asked, answers, outside, lost, dups>>

ClientQuits(c) ==
    /\ prog \in Talk
    /\ clnt[c] = "type"
    /\ clnt' = [clnt EXCEPT ![c] = "done"]
    /\ UNCHANGED <<prog, net, server, asked, nsent, answers, refused, outside, unsent, lost, dups>>

(* recvfrom() blocks until there is a datagram, whichever it is. *)
ClientReceives(c, d) ==
    /\ clnt[c] = "recv" /\ prog \in Talk
    /\ d \in Arrived(c)
    /\ c \notin refused
    /\ net' = Without(d)
    /\ Hears(c, [of |-> d.of, n |-> d.n, awaited |-> nsent[c]])
    /\ clnt' = [clnt EXCEPT ![c] = "type"]
    /\ UNCHANGED <<prog, server, asked, nsent, refused, outside, unsent, lost, dups>>

(* read() of the connected socket returns -1, and message[-1] = 0. *)
ClientRefused(c) ==
    /\ clnt[c] = "recv"
    /\ c \in refused
    /\ refused' = refused \ {c}
    /\ outside' = outside \cup {c}
    /\ clnt' = [clnt EXCEPT ![c] = "type"]
    /\ UNCHANGED <<prog, net, server, asked, nsent, answers, unsent, lost, dups>>

(* bound_host2: three messages, and the end. *)
bound_host2(c) ==
    /\ prog = bound
    /\ clnt[c] = "type"
    /\ nsent' = [nsent EXCEPT ![c] = @ + 1]
    /\ net' = Put(Datagram(c, Server, c, nsent[c] + 1, FALSE))
    /\ clnt' = [clnt EXCEPT ![c] = IF nsent[c] = 2 THEN "done" ELSE @]
    /\ UNCHANGED <<prog, server, asked, answers, refused, outside, unsent, lost, dups>>

-----------------------------------------------------------------------------
(* uecho_server, uchar_server, bound_host1. *)

ServerStarts ==
    /\ server = "absent"
    /\ server' = IF prog = news THEN "news" ELSE "recv"
    /\ UNCHANGED <<prog, net, asked, clnt, nsent, answers, refused, outside, unsent, lost, dups>>

(* Mutant of Echo: the address of the first client is kept. *)
EchoToFirst(d) ==
    /\ server = "recv" /\ prog \in {uecho, uecho_con}
    /\ d \in Arrived(Server)
    /\ Hears(Server, d)
    /\ net' = Without(d) (+) SetToBag({Datagram(Server, answers'[Server][1].from, d.of, d.n, d.full)})
    /\ UNCHANGED <<prog, server, asked, clnt, nsent, refused, outside, unsent, lost, dups>>

(* recvfrom() and sendto() to where it came from. *)
Echo(d) ==
    /\ server = "recv" /\ prog \in {uecho, uecho_con}
    /\ d \in Arrived(Server)
    /\ Hears(Server, d)
    /\ net' = Without(d) (+) SetToBag({Datagram(Server, d.from, d.of, d.n, d.full)})
    /\ UNCHANGED <<prog, server, asked, clnt, nsent, refused, outside, unsent, lost, dups>>

(* The terminating zero goes behind the bytes received. *)
TakeRequest(d) ==
    /\ server = "recv" /\ prog = uchar
    /\ d \in Arrived(Server)
    /\ Hears(Server, d)
    /\ net' = Without(d)
    /\ asked' = d
    /\ outside' = IF d.full THEN outside \cup {Server} ELSE outside
    /\ server' = "type"
    /\ UNCHANGED <<prog, clnt, nsent, refused, unsent, lost, dups>>

AnswerRequest ==
    /\ server = "type"
    /\ net' = Put(Datagram(Server, asked.from, asked.of, asked.n, FALSE))
    /\ asked' = None
    /\ server' = "recv"
    /\ UNCHANGED <<prog, clnt, nsent, answers, refused, outside, unsent, lost, dups>>

ServerQuits ==
    /\ server = "type"
    /\ asked' = None
    /\ server' = "done"
    /\ UNCHANGED <<prog, net, clnt, nsent, answers, refused, outside, unsent, lost, dups>>

bound_host1(d) ==
    /\ server = "recv" /\ prog = bound
    /\ d \in Arrived(Server)
    /\ Hears(Server, d)
    /\ net' = Without(d)
    /\ server' = IF Len(answers[Server]) = 2 THEN "done" ELSE "recv"
    /\ UNCHANGED <<prog, asked, clnt, nsent, refused, outside, unsent, lost, dups>>

-----------------------------------------------------------------------------
(* The news. *)

(***************************************************************************)
(* while (!feof(fp)) { fgets; sendto; sleep }: the end of the file is      *)
(* noticed only by the fgets() that finds no line, which leaves the last   *)
(* line in buf, to be sent again.  Those who are in the group get a copy.  *)
(***************************************************************************)
news_sender ==
    /\ server = "news"
    /\ LET feof == nsent[Server] = MaxMsgs
           line == IF feof THEN MaxMsgs ELSE nsent[Server] + 1
       IN  /\ net' = net (+) SetToBag({Datagram(Server, c, Server, line, FALSE) : c \in {x \in Clients : clnt[x] = "recv"}})
           /\ nsent' = [nsent EXCEPT ![Server] = @ + 1]
           /\ server' = IF feof THEN "done" ELSE "news"
    /\ UNCHANGED <<prog, asked, clnt, answers, refused, outside, unsent, lost, dups>>

Join(c) ==
    /\ clnt[c] = "away"
    /\ clnt' = [clnt EXCEPT ![c] = "recv"]
    /\ answers' = [answers EXCEPT ![c] = << [of |-> Server, n |-> 0, awaited |-> nsent[Server]] >>]
    /\ UNCHANGED <<prog, net, server, asked, nsent, refused, outside, unsent, lost, dups>>

news_receiver(c, d) ==
    /\ clnt[c] = "recv" /\ prog = news
    /\ d \in Arrived(c)
    /\ Hears(c, [of |-> d.of, n |-> d.n, awaited |-> 0])
    /\ net' = Without(d)
    /\ UNCHANGED <<prog, server, asked, clnt, nsent, refused, outside, unsent, lost, dups>>

(* The same programs for broadcast, and their copies. *)
news_sender_brd == news_sender
news_receiver_brd(c, d) == news_receiver(c, d)
multicast_news_sender == news_sender
multicast_news_receiver(c, d) == news_receiver(c, d)
broadcast_news_sender_brd == news_sender
broadcast_news_receiver_brd(c, d) == news_receiver(c, d)

-----------------------------------------------------------------------------
ClientStep(c) ==
    \/ ClientSends(c) \/ ClientQuits(c) \/ ClientRefused(c) \/ bound_host2(c) \/ Join(c)
    \/ \E d \in BagToSet(net) : ClientReceives(c, d) \/ news_receiver(c, d)

ServerStep ==
    \/ ServerStarts \/ AnswerRequest \/ ServerQuits \/ news_sender
    \/ \E d \in BagToSet(net) : Echo(d) \/ TakeRequest(d) \/ bound_host1(d)

Network == \E d \in BagToSet(net) : Lose(d) \/ Duplicate(d) \/ Unreachable(d)

Next == Network \/ ServerStep \/ \E c \in Clients : ClientStep(c)

Spec == Init /\ [][Next]_vars /\ WF_vars(ServerStep) /\ \A c \in Clients : WF_vars(ClientStep(c))

-----------------------------------------------------------------------------
(* The value every variable may have. *)
TypeOK ==
    /\ prog \in Programs
    /\ server \in {"absent", "recv", "type", "news", "done"}
    /\ clnt \in [Clients -> {"type", "recv", "away", "done"}]
    /\ nsent \in [Hosts -> Nat] /\ refused \subseteq Clients /\ unsent \subseteq Clients

(* Who waits for an answer has a request or an answer under way, unless    *)
(* the network has lost one, the server has quit, or a write() failed.     *)
NobodyWaitsInVain ==
    \A c \in Clients :
        prog \in Talk /\ clnt[c] = "recv" /\ lost = 0 /\ server # "done" /\ c \notin unsent
            => \/ Arrived(c) # {}
               \/ \E d \in Arrived(Server) \cup {asked} : d.from = c

(* A client only hears answers to its own lines, none from the future, and *)
(* an old one only after a duplicate.                                      *)
AnswersMatch ==
    prog \in Talk => \A c \in Clients : \A i \in DOMAIN answers[c] :
        LET a == answers[c][i]
        IN  a.of = c /\ a.n <= a.awaited /\ (dups = 0 => a.n = a.awaited)

(* Times that receiver c has got line k. *)
Copies(c, k) == Cardinality({i \in DOMAIN answers[c] : answers[c][i].n = k})

(* A receiver gets each line sent after it joined once, and the last line  *)
(* twice, when the network keeps to it.                                    *)
NewsOnceButTheLast ==
    prog = news => \A c \in Clients : \A k \in 1 .. MaxMsgs :
        LET due == IF clnt[c] = "away" \/ k <= answers[c][1].awaited THEN 0 ELSE 1
            again == IF k = MaxMsgs /\ clnt[c] = "recv" /\ answers[c][1].awaited <= MaxMsgs THEN 1 ELSE 0
        IN  /\ Copies(c, k) <= due + again + dups
            /\ server = "done" /\ Arrived(c) = {} => Copies(c, k) + lost >= due + again

(* bound_host1 ends with the three messages of one bound_host2 or of more. *)
ThreeOfThree ==
    prog = bound /\ dups = 0 =>
        \A i, j \in DOMAIN answers[Server] : answers[Server][i] = answers[Server][j] => i = j

(* Zeros are written outside of the buffer by uchar_server, whose clients  *)
(* send all of theirs, and by a connected client without a server.         *)
ZerosOutside == outside \subseteq IF prog = uchar THEN {Server} ELSE IF prog = uecho_con THEN Clients ELSE {}

(***************************************************************************)
(* Without acknowledgements the programs stay in step exactly as long as   *)
(* the network neither loses nor duplicates: all of the above.             *)
(***************************************************************************)
DatagramsAccountedFor ==
    /\ TypeOK
    /\ NobodyWaitsInVain /\ AnswersMatch /\ NewsOnceButTheLast /\ ThreeOfThree /\ ZerosOutside

(* Clients with a user end, unless something has been lost: they then wait *)
(* for ever, as recvfrom() has no timeout.                                 *)
QuitOrLost ==
    \/ prog = news \/ lost > 0 \/ server = "done" \/ unsent # {}
    \/ \A c \in Clients : clnt[c] = "done"

ClientsQuit == <>QuitOrLost
=============================================================================
