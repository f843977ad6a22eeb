----------------------------- MODULE ForkServer -----------------------------
(***************************************************************************)
(* The forking echo servers.  The parent accepts, forks a child for each   *)
(* client and closes its own copy of the socket; the child echoes until    *)
(* the client leaves.  A SIGCHLD handler reaps one child for each signal   *)
(* that is delivered; while it runs a further SIGCHLD is held back, and    *)
(* signals held back are one signal.                                       *)
(*                                                                         *)
(* Two of the programs also write what they echo into one pipe, for a      *)
(* process that stores it in a file.  A pipe keeps no borders between      *)
(* writes: read() returns all that has been written.                       *)
(***************************************************************************)
EXTENDS Naturals, Sequences, FiniteSets, SequencesExt

CONSTANTS
    Clients,    \* each connects at most once
    STORER,     \* the process that stores
    NULL,       \* no client
    MaxTexts,   \* bound: the texts all clients send; they are not "q" or "open"
    PipeCap,    \* bound: writes that fit into the pipe
    SockCap,    \* bound: echoes a socket holds for a client that does not read
    MaxReads,   \* reads of the storing process of ch11; 10 in the code
    OPEN, QUIT  \* the words of the server itself

Children == Clients \cup {STORER}
Texts    == 1..MaxTexts
Words    == Texts \cup {OPEN, QUIT}

ASSUME ClientsAssumption ==
    IsFiniteSet(Clients) /\ STORER \notin Clients /\ NULL \notin Children
ASSUME BoundsAssumption ==
    /\ MaxTexts \in Nat /\ PipeCap \in Nat \ {0}
    /\ SockCap \in Nat \ {0} /\ MaxReads \in Nat \ {0}
ASSUME WordsAssumption == OPEN # QUIT /\ {OPEN, QUIT} \cap Nat = {}

(***************************************************************************)
(* The programs, by what distinguishes them: whether there is a storing    *)
(* process, whether "open" and "q" tell it of each client, and whether it  *)
(* gives up after MaxReads reads.                                          *)
(***************************************************************************)
echo_mpserver       == [stores |-> FALSE, announces |-> FALSE, limited |-> FALSE]
echo_mpserv         == [stores |-> FALSE, announces |-> FALSE, limited |-> FALSE]
test_server         == [stores |-> FALSE, announces |-> FALSE, limited |-> FALSE]
echo_storeserv      == [stores |-> TRUE,  announces |-> TRUE,  limited |-> FALSE]
echo_storeserv_ch11 == [stores |-> TRUE,  announces |-> FALSE, limited |-> TRUE]

Programs == {echo_mpserver, echo_mpserv, test_server, echo_storeserv, echo_storeserv_ch11}

VARIABLES
    program,    \* the one that runs
    conn,       \* "new", "queued", "accepted"; "refused" when fork() failed
    left,       \* clients that have closed their end
    sender,     \* who has sent text 1, 2, ...
    inbox,      \* what the child has not read, per client
    unread,     \* how many echoes each client has not read yet
    err,        \* of the child's socket: "reset" is reported once, then "pipe"
    hasty,      \* clients that left before they had all their echoes
    toStore,    \* what the child has echoed and not yet written to the pipe
    refs,       \* processes that hold the server's end of the connection
    child,      \* "none", "serving", "closing", "zombie", "reaped"
    pc,         \* where the parent is in its loop
    client_fd,  \* the client it has accepted
    pending,    \* a SIGCHLD waits for delivery
    handling,   \* the handler runs
    merged,     \* SIGCHLDs that found one pending
    pipe,       \* the words in the pipe
    store,      \* the storing process: "outer" read, "first" inner read, "inner"
    nreads,     \* its reads, when they are limited
    stored,     \* the texts it has written, in order
    dropped,    \* texts it has read and not written
    lost        \* texts read by children that SIGPIPE ended

clients == <<conn, left, sender, inbox>>
sockets == <<unread, err, hasty>>
parent  == <<pc, client_fd>>
signals == <<pending, handling, merged>>
storing == <<store, nreads, stored, dropped, lost>>
vars    == <<program, clients, sockets, toStore, refs, child, parent, signals, pipe, storing>>

Init ==
    /\ program \in Programs
    /\ conn = [c \in Clients |-> "new"]
    /\ left = {}
    /\ sender = << >>
    /\ inbox = [c \in Clients |-> << >>]
    /\ unread = [c \in Clients |-> 0]
    /\ err = [c \in Clients |-> "none"]
    /\ hasty = {}
    /\ toStore = [c \in Clients |-> << >>]
    /\ refs = [c \in Clients |-> 0]
    /\ child = [c \in Children |-> IF c = STORER /\ program.stores THEN "serving" ELSE "none"]
    /\ pc = "accept"
    /\ client_fd = NULL
    /\ pending = FALSE
    /\ handling = FALSE
    /\ merged = 0
    /\ pipe = << >>
    /\ store = IF program.announces THEN "outer" ELSE "inner"
    /\ nreads = 0
    /\ stored = << >>
    /\ dropped = {}
    /\ lost = {}

Full(c) == unread[c] = SockCap

-----------------------------------------------------------------------------
(* The clients. *)

Connect(c) ==
    /\ conn[c] = "new"
    /\ conn' = [conn EXCEPT ![c] = "queued"]
    /\ UNCHANGED <<program, left, sender, inbox, sockets, toStore, refs, child, parent,
                   signals, pipe, storing>>

Send(c) ==
    /\ conn[c] \in {"queued", "accepted"} /\ c \notin left
    /\ Len(sender) < MaxTexts
    /\ sender' = Append(sender, c)
    /\ inbox' = [inbox EXCEPT ![c] = Append(@, Len(sender'))]
    /\ UNCHANGED <<program, conn, left, sockets, toStore, refs, child, parent, signals, pipe,
                   storing>>

Hear(c) ==
    /\ c \notin left /\ unread[c] > 0
    /\ unread' = [unread EXCEPT ![c] = @ - 1]
    /\ UNCHANGED <<program, clients, err, hasty, toStore, refs, child, parent, signals, pipe,
                   storing>>

(* If it leaves with something unread, the child's end is reset. *)
Leave(c) ==
    /\ conn[c] \in {"queued", "accepted"} /\ c \notin left
    /\ left' = left \cup {c}
    /\ unread' = [unread EXCEPT ![c] = 0]
    /\ err' = IF unread[c] > 0 THEN [err EXCEPT ![c] = "reset"] ELSE err
    /\ hasty' = IF inbox[c] # << >> \/ unread[c] > 0 THEN hasty \cup {c} ELSE hasty
    /\ UNCHANGED <<program, conn, sender, inbox, toStore, refs, child, parent, signals, pipe,
                   storing>>

-----------------------------------------------------------------------------
(* write() to the pipe waits for room for all of it. *)
Room(words) == Len(pipe) + Len(words) <= PipeCap
WritePipe(words) == Room(words) /\ pipe' = pipe \o words

(* The parent's loop; it stands still while the handler runs.  An accept() *)
(* that a signal interrupts is tried again.                                *)

Accept(c) ==
    /\ pc = "accept" /\ ~handling
    /\ conn[c] = "queued"
    /\ conn' = [conn EXCEPT ![c] = "accepted"]
    /\ refs' = [refs EXCEPT ![c] = 1]
    /\ client_fd' = c
    /\ pc' = IF program.announces THEN "announce" ELSE "fork"
    /\ UNCHANGED <<program, left, sender, inbox, sockets, toStore, child, signals, pipe, storing>>

(* write(fds[1], "open", 4) *)
Announce ==
    /\ pc = "announce" /\ ~handling
    /\ WritePipe(<<OPEN>>)
    /\ pc' = "fork"
    /\ UNCHANGED <<program, clients, sockets, toStore, refs, child, client_fd, signals, storing>>

Fork ==
    /\ pc = "fork" /\ ~handling
    /\ child' = [child EXCEPT ![client_fd] = "serving"]
    /\ refs' = [refs EXCEPT ![client_fd] = @ + 1]
    /\ pc' = "close"
    /\ UNCHANGED <<program, clients, sockets, toStore, client_fd, signals, pipe, storing>>

(* Mutant of ForkFails: break instead of continue. *)
ForkFailsBreaks ==
    /\ pc = "fork" /\ ~handling
    /\ conn' = [conn EXCEPT ![client_fd] = "refused"]
    /\ refs' = [refs EXCEPT ![client_fd] = @ - 1]
    /\ client_fd' = NULL
    /\ pc' = "ended"
    /\ UNCHANGED <<program, left, sender, inbox, sockets, toStore, child, signals, pipe, storing>>

(* The socket is closed here or, in the storing programs, by the else. *)
ForkFails ==
    /\ pc = "fork" /\ ~handling
    /\ conn' = [conn EXCEPT ![client_fd] = "refused"]
    /\ refs' = [refs EXCEPT ![client_fd] = @ - 1]
    /\ client_fd' = NULL
    /\ pc' = "accept"
    /\ UNCHANGED <<program, left, sender, inbox, sockets, toStore, child, signals, pipe, storing>>

(* Mutant of CloseInParent: the copy stays open. *)
CloseInParentForgotten ==
    /\ pc = "close" /\ ~handling
    /\ client_fd' = NULL
    /\ pc' = "accept"
    /\ UNCHANGED <<program, clients, sockets, toStore, refs, child, signals, pipe, storing>>

CloseInParent ==
    /\ pc = "close" /\ ~handling
    /\ refs' = [refs EXCEPT ![client_fd] = @ - 1]
    /\ client_fd' = NULL
    /\ pc' = "accept"
    /\ UNCHANGED <<program, clients, sockets, toStore, child, signals, pipe, storing>>

-----------------------------------------------------------------------------
(* Process c becomes a zombie, and the parent gets a SIGCHLD. *)
Exit(c) ==
    /\ child' = [child EXCEPT ![c] = "zombie"]
    /\ pending' = TRUE
    /\ merged' = IF pending THEN merged + 1 ELSE merged
    /\ UNCHANGED handling

(***************************************************************************)
(* The child of client c: the echo of what one read() returned, one text   *)
(* or several, then the write of it to the pipe.  A read is smaller than   *)
(* the pipe.                                                               *)
(***************************************************************************)
Taken(c, n) ==
    /\ child[c] = "serving" /\ toStore[c] = << >>
    /\ n <= PipeCap
    /\ inbox' = [inbox EXCEPT ![c] = SubSeq(@, n + 1, Len(@))]

Echo(c) ==
    /\ err[c] # "pipe"
    /\ \E n \in 1..Len(inbox[c]) :
          /\ Taken(c, n)
          /\ toStore' = IF program.stores
                          THEN [toStore EXCEPT ![c] = SubSeq(inbox[c], 1, n)] ELSE toStore
    /\ \/ c \notin left /\ ~Full(c)     \* when the socket is full the write() waits
          /\ unread' = [unread EXCEPT ![c] = @ + 1] /\ UNCHANGED err
       \/ c \in left /\ err[c] = "none"  \* a reset will answer it, sooner or later
          /\ UNCHANGED unread /\ err' \in {err, [err EXCEPT ![c] = "pipe"]}
       \/ err[c] = "reset"              \* the write() fails, which nobody notices
          /\ UNCHANGED unread /\ err' = [err EXCEPT ![c] = "pipe"]
    /\ UNCHANGED <<program, conn, left, sender, hasty, refs, child, parent, signals, pipe,
                   storing>>

(* SIGPIPE ends the child between read() and the write() to the pipe. *)
EchoKills(c) ==
    /\ err[c] = "pipe"
    /\ \E n \in 1..Len(inbox[c]) :
          /\ Taken(c, n)
          /\ lost' = IF program.stores THEN lost \cup ToSet(SubSeq(inbox[c], 1, n)) ELSE lost
    /\ err' = [err EXCEPT ![c] = "none"]
    /\ refs' = [refs EXCEPT ![c] = @ - 1]
    /\ Exit(c)
    /\ UNCHANGED <<program, conn, left, sender, unread, hasty, toStore, parent, pipe,
                   store, nreads, stored, dropped>>

(* read() fails once after a reset; to write -1 bytes fails, too. *)
ReadFails(c) ==
    /\ child[c] = "serving" /\ toStore[c] = << >>
    /\ inbox[c] = << >> /\ err[c] = "reset"
    /\ err' = [err EXCEPT ![c] = "pipe"]
    /\ UNCHANGED <<program, clients, unread, hasty, toStore, refs, child, parent, signals,
                   pipe, storing>>

(* Mutant of PassOn: does not wait for room. *)
PassOnLossy(c) ==
    /\ toStore[c] # << >>
    /\ pipe' = IF Room(toStore[c]) THEN pipe \o toStore[c] ELSE pipe
    /\ toStore' = [toStore EXCEPT ![c] = << >>]
    /\ UNCHANGED <<program, clients, sockets, refs, child, parent, signals, storing>>

PassOn(c) ==
    /\ toStore[c] # << >>
    /\ WritePipe(toStore[c])
    /\ toStore' = [toStore EXCEPT ![c] = << >>]
    /\ UNCHANGED <<program, clients, sockets, refs, child, parent, signals, storing>>

(* The client has left: "q" to the pipe, then the child ends. *)
SignOff(c) ==
    /\ child[c] = "serving" /\ program.announces
    /\ toStore[c] = << >> /\ inbox[c] = << >> /\ c \in left /\ err[c] # "reset"
    /\ WritePipe(<<QUIT>>)
    /\ child' = [child EXCEPT ![c] = "closing"]
    /\ UNCHANGED <<program, clients, sockets, toStore, refs, parent, signals, storing>>

(* read() returns 0: close, return. *)
ChildExits(c) ==
    /\ child[c] = IF program.announces THEN "closing" ELSE "serving"
    /\ toStore[c] = << >> /\ inbox[c] = << >> /\ c \in left /\ err[c] # "reset"
    /\ err' = [err EXCEPT ![c] = "none"]
    /\ refs' = [refs EXCEPT ![c] = @ - 1]
    /\ Exit(c)
    /\ UNCHANGED <<program, clients, unread, hasty, toStore, parent, pipe, storing>>

-----------------------------------------------------------------------------
(***************************************************************************)
(* SIGCHLD.  Its handler is installed without SA_RESTART: a write() of the *)
(* parent that waits for room in the pipe fails, which nobody notices.     *)
(***************************************************************************)
DeliverSignal ==
    /\ pending /\ ~handling
    /\ pending' = FALSE
    /\ handling' = TRUE
    /\ pc' \in {pc} \cup (IF pc = "announce" /\ ~Room(<<OPEN>>) THEN {"fork"} ELSE {})
    /\ UNCHANGED <<program, clients, sockets, toStore, refs, child, client_fd, merged, pipe,
                   storing>>

(* Mutant of Reap: handles the signal without waitpid(). *)
ReapNobody ==
    /\ handling
    /\ handling' = FALSE
    /\ UNCHANGED <<program, clients, sockets, toStore, refs, child, parent, pending, merged,
                   pipe, storing>>

(* waitpid(-1, &status, WNOHANG), once. *)
Reap ==
    LET zombies == {c \in Children : child[c] = "zombie"}
    IN  /\ handling
        /\ handling' = FALSE
        /\ child' \in IF zombies = {} THEN {child}
                      ELSE {[child EXCEPT ![c] = "reaped"] : c \in zombies}
        /\ UNCHANGED <<program, clients, sockets, toStore, refs, parent, pending, merged, pipe,
                       storing>>

-----------------------------------------------------------------------------
(* The storing process.  Every read() takes all that is in the pipe. *)

TextsOf(words) ==
    LET kept[n \in 0..Len(words)] ==
          IF n = 0 THEN << >>
          ELSE IF words[n] \in Texts THEN Append(kept[n - 1], words[n]) ELSE kept[n - 1]
    IN  kept[Len(words)]

Read == child[STORER] = "serving" /\ pipe # << >> /\ pipe' = << >>

(* The outer read: anything but a lone "open" is thrown away. *)
ReadOpen ==
    /\ store = "outer" /\ pipe = <<OPEN>>
    /\ Read
    /\ store' = "first"
    /\ UNCHANGED <<program, clients, sockets, toStore, refs, child, parent, signals, nreads,
                   stored, dropped, lost>>

ReadOther ==
    /\ store = "outer" /\ pipe # <<OPEN>>
    /\ Read
    /\ dropped' = dropped \cup ToSet(TextsOf(pipe))
    /\ UNCHANGED <<program, clients, sockets, toStore, refs, child, parent, signals, store,
                   nreads, stored, lost>>

IsEnd == program.announces /\ store = "inner" /\ pipe = <<QUIT>>

(***************************************************************************)
(* The inner read: a lone "q" ends the file, except as the first thing     *)
(* after "open", whose tail is still in msgbuf behind it.                  *)
(***************************************************************************)
ReadQuit ==
    /\ IsEnd
    /\ Read
    /\ store' = "outer"
    /\ UNCHANGED <<program, clients, sockets, toStore, refs, child, parent, signals, nreads,
                   stored, dropped, lost>>

ReadText ==
    /\ ~program.limited /\ store \in {"first", "inner"} /\ ~IsEnd
    /\ Read
    /\ stored' = stored \o TextsOf(pipe)
    /\ store' = "inner"
    /\ UNCHANGED <<program, clients, sockets, toStore, refs, child, parent, signals, nreads,
                   dropped, lost>>

(* ch11: stores whatever comes, and exits after the last of its reads. *)
ReadLimited ==
    /\ program.limited
    /\ Read
    /\ stored' = stored \o TextsOf(pipe)
    /\ nreads' = nreads + 1
    /\ IF nreads' = MaxReads THEN Exit(STORER) ELSE UNCHANGED <<child, signals>>
    /\ UNCHANGED <<program, clients, sockets, toStore, refs, parent, store, dropped, lost>>

-----------------------------------------------------------------------------
Client(c) == Connect(c) \/ Send(c) \/ Hear(c) \/ Leave(c)

Parent == Announce \/ Fork \/ ForkFails \/ CloseInParent \/ \E c \in Clients : Accept(c)

Child(c) == Echo(c) \/ EchoKills(c) \/ ReadFails(c) \/ PassOn(c) \/ SignOff(c) \/ ChildExits(c)

Handler == DeliverSignal \/ Reap

Storer == ReadOpen \/ ReadOther \/ ReadQuit \/ ReadText \/ ReadLimited

Next == Parent \/ Handler \/ Storer \/ \E c \in Clients : Client(c) \/ Child(c)

(***************************************************************************)
(* All processes run and signals are delivered.  The parent goes on after  *)
(* each handler, and a write that waits for room gets its turn.            *)
(***************************************************************************)
Fairness ==
    /\ SF_vars(Parent) /\ WF_vars(Handler) /\ WF_vars(Storer)
    /\ \A c \in Clients : SF_vars(Child(c))

Spec == Init /\ [][Next]_vars /\ Fairness

-----------------------------------------------------------------------------
Zombies == {c \in Children : child[c] = "zombie"}

(* The value every variable may have. *)
TypeOK ==
    /\ program \in Programs
    /\ conn \in [Clients -> {"new", "queued", "accepted", "refused"}]
    /\ left \subseteq Clients
    /\ sender \in Seq(Clients)
    /\ inbox \in [Clients -> Seq(Texts)] /\ toStore \in [Clients -> Seq(Texts)]
    /\ unread \in [Clients -> 0..SockCap]
    /\ err \in [Clients -> {"none", "reset", "pipe"}]
    /\ hasty \subseteq left
    /\ refs \in [Clients -> 0..2]
    /\ child \in [Children -> {"none", "serving", "closing", "zombie", "reaped"}]
    /\ pc \in {"accept", "announce", "fork", "close"}
    /\ client_fd \in Clients \cup {NULL}
    /\ pending \in BOOLEAN /\ handling \in BOOLEAN
    /\ merged \in 0..Cardinality(Children)
    /\ pipe \in Seq(Words) /\ Len(pipe) <= PipeCap
    /\ store \in {"outer", "first", "inner"}
    /\ nreads \in 0..MaxReads
    /\ stored \in Seq(Texts) /\ dropped \subseteq Texts /\ lost \subseteq Texts

(***************************************************************************)
(* One waitpid() for each delivered signal always finds a child: the       *)
(* children not reaped are those of the signal in work, of the one         *)
(* pending, and one for each signal that was merged with another.  The     *)
(* last are never reaped, though the comments say of the handler that it   *)
(* prevents zombies (process/echo_mpserver.c:83).                          *)
(***************************************************************************)
ZombiesAreOfMergedSignals ==
    Cardinality(Zombies) =
        merged + (IF pending THEN 1 ELSE 0) + (IF handling THEN 1 ELSE 0)

(***************************************************************************)
(* The client sees the end of the connection when its child is gone: every *)
(* way out of the parent's loop closes the parent's copy once.             *)
(***************************************************************************)
ConnectionEndsWithItsChild ==
    \A c \in Clients \ {client_fd} :
        refs[c] = IF child[c] \in {"serving", "closing"} THEN 1 ELSE 0

(* Signals that interrupt accept() and full pipes hold no client up for ever. *)
ConnectorsGetAChild ==
    \A c \in Clients : conn[c] = "queued" ~> (child[c] # "none" \/ conn[c] = "refused")

(***************************************************************************)
(* A text is with its client's child, in the pipe, stored, thrown away, or *)
(* lost with a child, and in one of these places only, however the pipe    *)
(* merges the writes of several children; the texts of one client are      *)
(* stored in their order.  No child loses a text of a client that waits    *)
(* for its echoes before it leaves.                                        *)
(* The variables also keep their types.                                    *)
(***************************************************************************)
Places(t) ==
    <<\E c \in Clients : t \in ToSet(inbox[c]) \cup ToSet(toStore[c]),
      t \in ToSet(pipe), t \in ToSet(stored), t \in dropped, t \in lost>>

TextsConserved ==
    /\ TypeOK
    /\ program.stores =>
        \A t \in 1..Len(sender) : Cardinality({k \in 1..5 : Places(t)[k]}) = 1
    /\ \A j, k \in 1..Len(stored) :
            j < k => \/ stored[j] < stored[k]
                     \/ sender[stored[j]] # sender[stored[k]]
    /\ \A t \in lost : sender[t] \in hasty

(***************************************************************************)
(* The storing process always comes back to read the pipe, so a full pipe  *)
(* holds up no child for ever: each echoes and passes on all that it gets, *)
(* if its client reads the echoes, unless SIGPIPE ends it because its      *)
(* client left without them.  With ch11's that holds until the storing     *)
(* process has done its reads.                                             *)
(***************************************************************************)
Ended(c) == c \in hasty /\ child[c] \in {"zombie", "reaped"}

ChildrenCatchUp ==
    \A c \in Clients :
        []<>(~Full(c)) =>
            (child[c] = "serving" /\ inbox[c] \o toStore[c] # << >>
                ~> inbox[c] \o toStore[c] = << >> \/ nreads = MaxReads \/ Ended(c))

(***************************************************************************)
(* Nobody is held up for ever, before the fork() or after it.  Before it   *)
(* no client matters: the parent writes to none.                           *)
(***************************************************************************)
EveryoneIsServed == ConnectorsGetAChild /\ ChildrenCatchUp
=============================================================================
