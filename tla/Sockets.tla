------------------------------- MODULE Sockets -------------------------------
(***************************************************************************)
(* Four models of sockets that share nothing; the initial state chooses    *)
(* one: sessions of the simple servers and clients, readline() and         *)
(* writen() of tcp/tcpCPP, and the programs that send datagrams.           *)
(***************************************************************************)
EXTENDS Sessions

CONSTANTS
    Bytes, Newline, MaxLen, MaxBytes,   \* readline()
    Replies, Size, Room,                \* writen()
    MaxMsgs, MaxLost, MaxDups           \* datagrams

VARIABLES
    model,
    blocking, sent, arrived, peer, pc, buf, peeked, want, got, messages, lost,
    buffer, received, wPeer, wPc, m, done, cut,
    talk, mail, serverAt, asked, clnt, nsent, answers, refused, outside, unsent, vanished, dups

R == INSTANCE SocketReader

W == INSTANCE SocketWriter WITH peer <- wPeer, pc <- wPc

D == INSTANCE Datagrams WITH prog <- talk, net <- mail, server <- serverAt, lost <- vanished

ASSUME SocketsAssumption == R!ReaderAssumption /\ W!WriterAssumption /\ D!DatagramsAssumption

datagrams == <<talk, mail, serverAt, asked, clnt, nsent, answers, refused, outside, unsent, vanished, dups>>

\* "blocking" belongs to the reader and to the writer.
socketVars == <<model, vars, R!vars, W!vars, datagrams>>
reader == R!vars
readerVars == <<sent, arrived, peer, pc, buf, peeked, want, got, messages, lost>>
writerVars == <<buffer, received, wPeer, wPc, m, done, cut>>

SocketsInit ==
    /\ model \in {"sessions", "reader", "writer", "datagrams"}
    /\ Init /\ R!Init /\ W!Init /\ D!Init
    /\ model # "sessions" => pair = "hello"
    /\ model \in {"sessions", "datagrams"} => blocking
    /\ model # "datagrams" => talk = D!uecho

SocketsNext ==
    /\ UNCHANGED model
    /\ \/ model = "sessions" /\ Next /\ UNCHANGED <<blocking, readerVars, writerVars, datagrams>>
       \/ model = "reader" /\ R!Next /\ UNCHANGED <<vars, writerVars, datagrams>>
       \/ model = "writer" /\ W!Next /\ UNCHANGED <<vars, readerVars, datagrams>>
       \/ model = "datagrams" /\ D!Next /\ UNCHANGED <<vars, blocking, readerVars, writerVars>>

(* The fairness of the model that runs: its own, with its name added to    *)
(* each action.  The writer needs none.                                    *)
SocketsSpec ==
    /\ SocketsInit /\ [][SocketsNext]_socketVars
    /\ WF_vars(model = "sessions" /\ \E c \in Clients : DoAccept(c))
    /\ \A p \in Procs : WF_vars(model = "sessions" /\ Step(p))
    /\ WF_reader(model = "reader" /\ R!IOThread)
    /\ WF_datagrams(model = "datagrams" /\ D!ServerStep)
    /\ \A c \in Clients : WF_datagrams(model = "datagrams" /\ D!ClientStep(c))

(* readline(): no byte is doubled, reordered or lost but the start of an   *)
(* unfinished line (see SocketReader).                                     *)
StreamConserved == R!StreamConserved

(* readline(): one line at a time (see SocketReader). *)
OneLineAtMost == R!OneLineAtMost

(* readline(): what has arrived is read (see SocketReader). *)
EverythingRead == R!EverythingRead

(* writen(): the replies in order, each byte once (see SocketWriter). *)
RepliesInSequence == W!RepliesInSequence

(* Answers, news and stray zeros, given what the network did (Datagrams).  *)
DatagramsAccountedFor == D!DatagramsAccountedFor

(* Sessions: clients, servers and users come to an end (see Sessions).     *)
(* Datagrams: so do the clients, or wait for one that was lost.            *)
EverySessionEnds ==
    <>(/\ model = "sessions" => SessionOver
       /\ model = "datagrams" => D!QuitOrLost)
=============================================================================
