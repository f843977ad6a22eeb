------------------------- MODULE ThreadServer_proofs -------------------------
(***************************************************************************)
(* The servers with a thread for each client, for any number of clients    *)
(* and messages.  The count of the chat server is right although threads   *)
(* may serve the wrong socket and the table may hold the wrong ones: it    *)
(* only depends on where the threads are.  The echo server gets by with    *)
(* one buffer because whoever is between its read() and its write() is the *)
(* thread that holds the mutex.                                            *)
(***************************************************************************)
EXTENDS ThreadServer, FiniteSetTheorems, WellFoundedInduction, TLAPS

(* main() is about to enter or to start the client it has just accepted. *)
AcceptedWaits ==
    mainpc \in {"add", "create"} =>
        /\ accepted \in Clients
        /\ conn[accepted] \notin {"new", "queued"}
        /\ pc[accepted] = "unborn"

(* A thread exists only for clients that were accepted, and then main() has
   a descriptor in clnt_sock. *)
NewAreUnborn ==
    \A c \in Clients : conn[c] \in {"new", "queued"} => pc[c] \in {"unborn", "killed"}

SockIsSet ==
    (mainpc \in {"add", "create"} \/ \E c \in Clients : pc[c] \notin {"unborn", "killed"})
        => clnt_sock \in Fds

(* Each program runs its own handle_clnt(). *)
OwnRoutine ==
    /\ program = "chat_server" =>
        \A c \in Clients : pc[c] \notin {"lockRead", "readLocked", "echo"}
    /\ program = "echo_threadserv" =>
        /\ mainpc # "add"
        /\ \A c \in Clients : pc[c] \notin {"read", "lock", "send", "remove"}

Places == AcceptedWaits /\ NewAreUnborn /\ SockIsSet /\ OwnRoutine

(* Who writes to a client, or reads for it under the mutex, holds it. *)
LockOwner ==
    \A c \in Clients : pc[c] \in {"readLocked", "echo", "send"} => mutx = c

(* Who is about to write has read something. *)
Holding == \A c \in Clients : pc[c] = "echo" => msg[c] \in Msgs

Guarded == LockOwner /\ EchoesToTheSender /\ Holding

CountedClients == {c \in Clients : Counted(c)}

CountRight == program = "chat_server" /\ ~Over => clnt_cnt = Cardinality(CountedClients)

RunInv == TypeOK /\ Places /\ Guarded /\ CountRight

(* The signal ends main() and all threads. *)
AllEnd == \A c \in Clients : pc[c] = "killed" <=> Over

IndInv == RunInv /\ AllEnd

-----------------------------------------------------------------------------
(* The kernel's choice, the lowest descriptor, is one of the free ones. *)
LEMMA LowestIsOne ==
    ASSUME NEW S, S \subseteq Nat, S # {}
    PROVE  (CHOOSE f \in S : \A g \in S : f <= g) \in S
  <1>1. PICK f \in S : \A g \in S : <<g, f>> \notin OpToRel(<, Nat)
    BY WFMin, NatLessThanWellFounded, Zenon
  <1>2. \A g \in S : ~(g < f)
    <2> TAKE g \in S
    <2>1. g \in Nat /\ f \in Nat
      OBVIOUS
    <2> QED
      BY <1>1, <2>1 DEF OpToRel
  <1>3. \A g \in S : f <= g
    BY <1>2
  <1> QED
    BY <1>3, Zenon

(* What is taken from a sequence, and what is left of it. *)
LEMMA HeadTaken ==
    ASSUME NEW S, NEW s \in Seq(S), s # << >>
    PROVE  Head(s) \in S /\ Tail(s) \in Seq(S)
  OBVIOUS

(* The table is an array of descriptors also after a removal. *)
LEMMA TableKept ==
    ASSUME TypeOK, NEW s
    PROVE  Without(s) \in [0..MAX_CLNT -> Fds \cup {0}]
  <1>1. MAX_CLNT \in Nat
    BY ClientsAssumption, FS_CardinalityType DEF MAX_CLNT
  <1> DEFINE closed(first) ==
        [k \in DOMAIN clnt_socks |->
            IF first < k /\ k < clnt_cnt THEN clnt_socks[k + 1] ELSE clnt_socks[k]]
  <1>2. \A first : closed(first) \in [0..MAX_CLNT -> Fds \cup {0}]
    <2> TAKE first
    <2>1. \A k \in 0..MAX_CLNT : k < clnt_cnt => k + 1 \in 0..MAX_CLNT
      BY <1>1 DEF TypeOK
    <2> QED
      BY <1>1, <2>1 DEF TypeOK
  <1>3. clnt_socks \in [0..MAX_CLNT -> Fds \cup {0}]
    BY DEF TypeOK
  <1> HIDE DEF closed
  <1>4. Without(s) = clnt_socks \/ \E first : Without(s) = closed(first)
    BY Zenon DEF Without, closed
  <1> QED
    BY <1>2, <1>3, <1>4

(* The count stays when nobody comes or goes. *)
LEMMA CountStays ==
    ASSUME CountRight, program' = program, clnt_cnt' = clnt_cnt,
           Over' <=> Over, CountedClients' = CountedClients
    PROVE  CountRight'
  BY DEF CountRight

(* The counted clients are finitely many, as all clients are. *)
LEMMA CountedFinite ==
    /\ IsFiniteSet(CountedClients)
    /\ Cardinality(CountedClients) \in Nat
    /\ MAX_CLNT \in Nat
  <1>1. CountedClients \in SUBSET Clients
    BY DEF CountedClients
  <1> QED
    BY <1>1, ClientsAssumption, FS_Subset, FS_CardinalityType DEF MAX_CLNT

LEMMA InitIndInv == Init => IndInv
  <1> SUFFICES ASSUME Init PROVE IndInv
    OBVIOUS
  <1>1. TypeOK
    BY MaxMsgsAssumption, MaxFdAssumption, CountedFinite
    DEF Init, TypeOK, Fds, CLOSED
  <1>2. Places /\ Guarded
    BY DEF Init, Places, AcceptedWaits, NewAreUnborn, SockIsSet, OwnRoutine,
           Guarded, LockOwner, EchoesToTheSender, Holding
  <1>4. AllEnd
    BY DEF Init, AllEnd, Over
  <1>3. CountRight
    <2>1. CountedClients = {}
      BY DEF Init, CountedClients, Counted
    <2> QED
      BY <2>1, FS_EmptySet DEF Init, CountRight
  <1> QED
    BY <1>1, <1>2, <1>3, <1>4 DEF IndInv, RunInv

-----------------------------------------------------------------------------
(* A client joins the queue of the listening socket; no thread is concerned. *)
LEMMA ConnectKeeps ==
    ASSUME IndInv, NEW c \in Clients, Connect(c)
    PROVE  RunInv'
  <1> USE DEF IndInv, RunInv, sockets, Over
  <1>1. TypeOK'
    BY CountedFinite, MaxMsgsAssumption
    DEF Connect, TypeOK, clients, table, mains, locals
  <1>2. Places'
    BY DEF Connect, TypeOK, clients, table, mains, locals, Places,
           AcceptedWaits, NewAreUnborn, SockIsSet, OwnRoutine
  <1>3. Guarded'
    BY DEF Connect, TypeOK, clients, table, mains, locals, Guarded, LockOwner,
           EchoesToTheSender, Holding, Msgs
  <1>4. CountRight'
    <2>1. program = "chat_server" => CountedClients' = CountedClients
      BY DEF Connect, TypeOK, clients, table, mains, locals, CountedClients,
             Counted, Places, AcceptedWaits, OwnRoutine
    <2> QED
      BY <2>1, CountStays DEF Connect, table, CountRight, mains
  <1> QED
    BY <1>1, <1>2, <1>3, <1>4

(* A message of a client waits in its connection. *)
LEMMA SendKeeps ==
    ASSUME IndInv, NEW c \in Clients, Send(c)
    PROVE  RunInv'
  <1> USE DEF IndInv, RunInv, sockets, Over
  <1>0. nsent + 1 \in Msgs /\ Append(inbox[c], nsent + 1) \in Seq(Msgs)
    BY MaxMsgsAssumption DEF Send, TypeOK, Msgs
  <1>1. TypeOK'
    <2>1. nsent' \in 0..MaxMsgs
      BY MaxMsgsAssumption DEF Send, TypeOK
    <2>2. inbox' \in [Clients -> Seq(Msgs)]
      BY <1>0 DEF Send, TypeOK
    <2> QED
      BY <2>1, <2>2 DEF Send, TypeOK, table, mains, locals
  <1>2. Places'
    BY DEF Send, TypeOK, clients, table, mains, locals, Places, AcceptedWaits,
           NewAreUnborn, SockIsSet, OwnRoutine
  <1>3. Guarded'
    BY DEF Send, TypeOK, clients, table, mains, locals, Guarded, LockOwner,
           EchoesToTheSender, Holding, Msgs
  <1>4. CountRight'
    <2>1. program = "chat_server" => CountedClients' = CountedClients
      BY DEF Send, TypeOK, clients, table, mains, locals, CountedClients,
             Counted, Places, AcceptedWaits, OwnRoutine
    <2> QED
      BY <2>1, CountStays DEF Send, table, CountRight, mains
  <1> QED
    BY <1>1, <1>2, <1>3, <1>4

(* A client reads what it has been sent. *)
LEMMA HearKeeps ==
    ASSUME IndInv, NEW c \in Clients, Hear(c)
    PROVE  RunInv'
  <1> USE DEF IndInv, RunInv, sockets, Over
  <1>1. TypeOK'
    <2>1. unread' \in [Clients -> 0..SockCap]
      BY MaxMsgsAssumption DEF Hear, TypeOK
    <2> QED
      BY <2>1 DEF Hear, TypeOK, clients, table, mains, locals
  <1>2. Places'
    BY DEF Hear, TypeOK, clients, table, mains, locals, Places,
           AcceptedWaits, NewAreUnborn, SockIsSet, OwnRoutine
  <1>3. Guarded'
    BY DEF Hear, TypeOK, clients, table, mains, locals, Guarded, LockOwner,
           EchoesToTheSender, Holding, Msgs
  <1>4. CountRight'
    <2>1. program = "chat_server" => CountedClients' = CountedClients
      BY DEF Hear, TypeOK, clients, table, mains, locals, CountedClients,
             Counted, Places, AcceptedWaits, OwnRoutine
    <2> QED
      BY <2>1, CountStays DEF Hear, table, CountRight, mains
  <1> QED
    BY <1>1, <1>2, <1>3, <1>4

(* A client leaves; its thread and the table do not know yet. *)
LEMMA LeaveKeeps ==
    ASSUME IndInv, NEW c \in Clients, Leave(c)
    PROVE  RunInv'
  <1> USE DEF IndInv, RunInv, sockets, Over
  <1>1. TypeOK'
    <2>1. unread' \in [Clients -> 0..SockCap] /\ err' \in [Clients -> {"none", "reset", "pipe"}]
      BY MaxMsgsAssumption DEF Leave, TypeOK
    <2> QED
      BY <2>1 DEF Leave, TypeOK, clients, table, mains, locals
  <1>2. Places'
    BY DEF Leave, TypeOK, clients, table, mains, locals, Places,
           AcceptedWaits, NewAreUnborn, SockIsSet, OwnRoutine
  <1>3. Guarded'
    BY DEF Leave, TypeOK, clients, table, mains, locals, Guarded, LockOwner,
           EchoesToTheSender, Holding, Msgs
  <1>4. CountRight'
    <2>1. program = "chat_server" => CountedClients' = CountedClients
      BY DEF Leave, TypeOK, clients, table, mains, locals, CountedClients,
             Counted, Places, AcceptedWaits, OwnRoutine
    <2> QED
      BY <2>1, CountStays DEF Leave, table, CountRight, mains
  <1> QED
    BY <1>1, <1>2, <1>3, <1>4

(* The thread of the accepted client now stands for it in the count. *)
LEMMA CreateThreadKeeps ==
    ASSUME IndInv, CreateThread
    PROVE  RunInv'
  <1> USE DEF IndInv, RunInv, sockets, Over
  <1>1. TypeOK'
    BY CountedFinite, MaxMsgsAssumption
    DEF CreateThread, TypeOK, clients, table, mains, locals, Places,
        AcceptedWaits
  <1>2. Places'
    BY DEF CreateThread, TypeOK, clients, table, mains, locals, Places,
           AcceptedWaits, NewAreUnborn, SockIsSet, OwnRoutine
  <1>3. Guarded'
    BY DEF CreateThread, TypeOK, clients, table, mains, locals, Guarded,
           LockOwner, EchoesToTheSender, Holding, Msgs
  <1>4. CountRight'
    <2>1. program = "chat_server" => CountedClients' = CountedClients
      BY DEF CreateThread, TypeOK, clients, table, mains, locals,
             CountedClients, Counted, Places, AcceptedWaits, OwnRoutine
    <2> QED
      BY <2>1, CountStays DEF CreateThread, table, CountRight, mains
  <1> QED
    BY <1>1, <1>2, <1>3, <1>4

(* A thread finds some descriptor in clnt_sock, its own or a later one. *)
LEMMA EnterKeeps ==
    ASSUME IndInv, NEW c \in Clients, Enter(c)
    PROVE  RunInv'
  <1> USE DEF IndInv, RunInv, sockets, Over
  <1>1. TypeOK'
    BY CountedFinite, MaxMsgsAssumption
    DEF Enter, TypeOK, clients, table, mains, locals, Places, SockIsSet
  <1>2. Places'
    BY DEF Enter, TypeOK, clients, table, mains, locals, Places,
           AcceptedWaits, NewAreUnborn, SockIsSet, OwnRoutine
  <1>3. Guarded'
    BY DEF Enter, TypeOK, clients, table, mains, locals, Guarded, LockOwner,
           EchoesToTheSender, Holding, Msgs
  <1>4. CountRight'
    <2>1. program = "chat_server" => CountedClients' = CountedClients
      BY DEF Enter, TypeOK, clients, table, mains, locals, CountedClients,
             Counted, Places, AcceptedWaits, OwnRoutine
    <2> QED
      BY <2>1, CountStays DEF Enter, table, CountRight, mains
  <1> QED
    BY <1>1, <1>2, <1>3, <1>4

(* read() of the chat server, from whichever client the descriptor stands for. *)
LEMMA ReadMessageKeeps ==
    ASSUME IndInv, NEW c \in Clients, ReadMessage(c)
    PROVE  RunInv'
  <1> USE DEF IndInv, RunInv, sockets, Over
  <1> PICK d \in Behind(sock[c]) :
        /\ pc[c] = "read" /\ pc' = [pc EXCEPT ![c] = "lock"]
        /\ msg' = [msg EXCEPT ![c] = Head(inbox[d])]
        /\ inbox' = [inbox EXCEPT ![d] = Tail(inbox[d])] /\ inbox[d] # << >>
        /\ UNCHANGED <<program, conn, nsent, sockets, fd, table, mutx, mains, sock, i, buf>>
    BY DEF ReadMessage
  <1>0. /\ d \in Clients /\ Head(inbox[d]) \in 1..MaxMsgs
        /\ Tail(inbox[d]) \in Seq(1..MaxMsgs)
    <2>1. d \in Clients /\ inbox[d] \in Seq(1..MaxMsgs) /\ inbox[d] # << >>
      BY DEF TypeOK, Behind, Msgs
    <2> QED
      BY <2>1, HeadTaken
  <1>1. TypeOK'
    <2>1. msg' \in [Clients -> 0..MaxMsgs]
      <3>1. PICK h : h = Head(inbox[d])
        OBVIOUS
      <3>2. 1..MaxMsgs \subseteq 0..MaxMsgs
        BY MaxMsgsAssumption
      <3>3. h \in 0..MaxMsgs
        BY <1>0, <3>1, <3>2
      <3>4. msg \in [Clients -> 0..MaxMsgs]
        BY DEF TypeOK, locals
      <3>5. msg' = [msg EXCEPT ![c] = h]
        BY <3>1
      <3> QED
        BY <3>3, <3>4, <3>5
    <2>2. inbox' \in [Clients -> Seq(Msgs)]
      BY <1>0 DEF TypeOK, Msgs
    <2> QED
      BY <2>1, <2>2 DEF TypeOK, clients, table, mains, locals
  <1>2. Places'
    BY DEF TypeOK, clients, table, mains, locals, Places, AcceptedWaits,
           NewAreUnborn, SockIsSet, OwnRoutine
  <1>3. Guarded'
    BY <1>0
    DEF TypeOK, clients, table, mains, locals, Guarded, LockOwner,
        EchoesToTheSender, Holding, Msgs
  <1>4. CountRight'
    <2>1. program = "chat_server" => CountedClients' = CountedClients
      BY DEF TypeOK, clients, table, mains, locals, CountedClients, Counted,
             Places, AcceptedWaits, OwnRoutine
    <2> QED
      BY <2>1, CountStays DEF table, CountRight, mains
  <1> QED
    BY <1>1, <1>2, <1>3, <1>4

(* read() on a descriptor that another thread has closed, or after a reset. *)
LEMMA ReadFailsKeeps ==
    ASSUME IndInv, NEW c \in Clients, ReadFails(c)
    PROVE  RunInv'
  <1> USE DEF IndInv, RunInv, sockets, Over
  <1>0. /\ pc[c] = "read" /\ pc' = [pc EXCEPT ![c] = "lock"] /\ msg' = [msg EXCEPT ![c] = 0]
        /\ UNCHANGED <<program, clients, heard, unread, fd, table, mutx, mains, sock, i, buf>>
    BY DEF ReadFails
  <1>1. TypeOK'
    <2>1. msg' \in [Clients -> 0..MaxMsgs]
      BY <1>0, MaxMsgsAssumption DEF TypeOK
    <2>2. err' \in [Clients -> {"none", "reset", "pipe"}]
      <3>1. err' = err \/ \E d \in Clients : err' = [err EXCEPT ![d] = "pipe"]
        BY DEF ReadFails, Behind
      <3> QED
        BY <3>1 DEF TypeOK
    <2> QED
      BY <1>0, <2>1, <2>2 DEF TypeOK, clients, table, mains, locals
  <1>2. Places'
    BY <1>0 DEF TypeOK, clients, table, mains, locals, Places,
           AcceptedWaits, NewAreUnborn, SockIsSet, OwnRoutine
  <1>3. Guarded'
    BY <1>0 DEF TypeOK, clients, table, mains, locals, Guarded,
           LockOwner, EchoesToTheSender, Holding, Msgs
  <1>4. CountRight'
    <2>1. program = "chat_server" => CountedClients' = CountedClients
      BY <1>0 DEF TypeOK, clients, table, mains, locals, CountedClients,
             Counted, Places, AcceptedWaits, OwnRoutine
    <2> QED
      BY <1>0, <2>1, CountStays DEF table, CountRight, mains
  <1> QED
    BY <1>1, <1>2, <1>3, <1>4

(* The end of the stream ends the loop, and the thread is still counted. *)
LEMMA ReadEndKeeps ==
    ASSUME IndInv, NEW c \in Clients, ReadEnd(c)
    PROVE  RunInv'
  <1> USE DEF IndInv, RunInv, sockets, Over
  <1> PICK d \in Behind(sock[c]) :
        /\ pc[c] = "read" /\ pc' = [pc EXCEPT ![c] = "remove"]
        /\ UNCHANGED <<program, clients, sockets, fd, table, mutx, mains, locals, buf>>
    BY DEF ReadEnd
  <1>1. TypeOK'
    BY MaxMsgsAssumption DEF TypeOK, Msgs, clients, table, mains, locals
  <1>2. Places'
    BY DEF TypeOK, clients, table, mains, locals, Places, AcceptedWaits,
           NewAreUnborn, SockIsSet, OwnRoutine
  <1>3. Guarded'
    BY DEF TypeOK, clients, table, mains, locals, Guarded, LockOwner,
           EchoesToTheSender, Holding, Msgs
  <1>4. CountRight'
    <2>1. program = "chat_server" => CountedClients' = CountedClients
      BY DEF TypeOK, clients, table, mains, locals, CountedClients, Counted,
             Places, AcceptedWaits, OwnRoutine
    <2> QED
      BY <2>1, CountStays DEF table, CountRight, mains
  <1> QED
    BY <1>1, <1>2, <1>3, <1>4

(* send_msg() takes the mutex. *)
LEMMA LockForSendKeeps ==
    ASSUME IndInv, NEW c \in Clients, LockForSend(c)
    PROVE  RunInv'
  <1> USE DEF IndInv, RunInv, sockets, Over
  <1>1. TypeOK'
    <2>1. i' \in [Clients -> 0..MAX_CLNT]
      BY CountedFinite DEF LockForSend, TypeOK
    <2> QED
      BY <2>1 DEF LockForSend, TypeOK, clients, table, mains, locals
  <1>2. Places'
    BY DEF LockForSend, TypeOK, clients, table, mains, locals, Places,
           AcceptedWaits, NewAreUnborn, SockIsSet, OwnRoutine
  <1>3. Guarded'
    BY ClientsAssumption
    DEF LockForSend, TypeOK, clients, table, mains, locals, Guarded,
        LockOwner, EchoesToTheSender, Holding, Msgs
  <1>4. CountRight'
    <2>1. program = "chat_server" => CountedClients' = CountedClients
      BY DEF LockForSend, TypeOK, clients, table, mains, locals,
             CountedClients, Counted, Places, AcceptedWaits, OwnRoutine
    <2> QED
      BY <2>1, CountStays DEF LockForSend, table, CountRight, mains
  <1> QED
    BY <1>1, <1>2, <1>3, <1>4

(* The clients in R hear m. *)
Reach(m, R) ==
    heard' = [d \in Clients |-> IF d \in R THEN Append(heard[d], m) ELSE heard[d]]

(* A write() that returns: its client hears the message, or nobody does. *)
LEMMA WriteReaches ==
    ASSUME TypeOK, NEW c \in Clients, NEW m \in Msgs, Write(c, m)
    PROVE  /\ heard' \in [Clients -> Seq(Msgs)]
           /\ unread' \in [Clients -> 0..SockCap]
           /\ err' \in [Clients -> {"none", "reset", "pipe"}]
           /\ \E R : Reach(m, R)
  <1>1. CASE Target(c) = {}
    <2>1. UNCHANGED sockets
      BY <1>1 DEF Write
    <2>2. heard = [d \in Clients |-> heard[d]]
      BY DEF TypeOK
    <2>3. Reach(m, {})
      BY <2>1, <2>2 DEF Reach, sockets
    <2> QED
      BY <2>1, <2>3 DEF sockets, TypeOK
  <1>2. CASE Target(c) # {}
    <2> PICK d \in Target(c) : WriteTo(d, m)
      BY <1>2 DEF Write
    <2>1. Target(c) \subseteq Clients
      BY DEF Target, Behind
    <2>2. heard' = heard \/ heard' = [heard EXCEPT ![d] = Append(heard[d], m)]
      BY DEF WriteTo
    <2>3. heard' \in [Clients -> Seq(Msgs)]
      <3>1. Append(heard[d], m) \in Seq(Msgs)
        BY <2>1 DEF TypeOK
      <3> QED
        BY <2>1, <2>2, <3>1 DEF TypeOK
    <2>4. unread' \in [Clients -> 0..SockCap]
      <3>1. unread[d] # SockCap => unread[d] + 1 \in 0..SockCap
        <4>1. unread[d] \in 0..SockCap /\ SockCap \in Nat
          BY <2>1, MaxMsgsAssumption DEF TypeOK
        <4> QED
          BY <4>1
      <3>2. unread' = unread \/ (unread[d] # SockCap /\ unread' = [unread EXCEPT ![d] = unread[d] + 1])
        BY DEF WriteTo, Full
      <3> QED
        BY <2>1, <3>1, <3>2 DEF TypeOK
    <2>5. err' \in [Clients -> {"none", "reset", "pipe"}]
      <3>1. err' = err \/ err' = [err EXCEPT ![d] = "pipe"]
        BY DEF WriteTo
      <3> QED
        BY <2>1, <3>1 DEF TypeOK
    <2>6. Reach(m, {}) \/ Reach(m, {d})
      <3>1. heard = [e \in Clients |-> heard[e]]
        BY DEF TypeOK
      <3>2. [heard EXCEPT ![d] = Append(heard[d], m)]
              = [e \in Clients |-> IF e \in {d} THEN Append(heard[e], m) ELSE heard[e]]
        BY <3>1
      <3> QED
        BY <2>2, <3>1, <3>2 DEF Reach
    <2> QED
      BY <2>3, <2>4, <2>5, <2>6
  <1> QED
    BY <1>1, <1>2

(* send_msg() has nothing to write when the read() has failed. *)
LEMMA NothingToWrite ==
    ASSUME NEW c \in Clients, pc[c] = "send", msg[c] = 0, NEW m, Write(c, m)
    PROVE  UNCHANGED <<heard, unread, err>>
  <1>1. Target(c) = {}
    BY DEF Target
  <1> QED
    BY <1>1 DEF Write, sockets

(* One write() of send_msg(); the table and the count only are read. *)
LEMMA SendToOneKeeps ==
    ASSUME IndInv, NEW c \in Clients, SendToOne(c)
    PROVE  RunInv'
  <1> USE DEF IndInv, RunInv, sockets, Over
  <1>0. /\ heard' \in [Clients -> Seq(Msgs)]
        /\ unread' \in [Clients -> 0..SockCap]
        /\ err' \in [Clients -> {"none", "reset", "pipe"}]
    <2>0. pc[c] = "send" /\ Write(c, msg[c])
      BY DEF SendToOne
    <2>1. CASE msg[c] = 0
      BY <2>0, <2>1, NothingToWrite DEF TypeOK
    <2>2. CASE msg[c] # 0
      <3>1. msg[c] \in Msgs
        BY <2>2, MaxMsgsAssumption DEF TypeOK, Msgs
      <3> QED
        BY <2>0, <3>1, WriteReaches
    <2> QED
      BY <2>1, <2>2
  <1>1. TypeOK'
    <2>1. msg' \in [Clients -> 0..MaxMsgs]
      BY MaxMsgsAssumption DEF SendToOne, TypeOK, locals
    <2>2. i' \in [Clients -> 0..MAX_CLNT]
      <3>1. i' = [i EXCEPT ![c] = i[c] + 1] /\ i[c] < clnt_cnt
        BY DEF SendToOne
      <3>2. i \in [Clients -> 0..MAX_CLNT] /\ clnt_cnt \in 0..MAX_CLNT /\ MAX_CLNT \in Nat
        BY CountedFinite DEF TypeOK
      <3>3. i[c] + 1 \in 0..MAX_CLNT
        BY <3>1, <3>2
      <3> QED
        BY <3>1, <3>2, <3>3
    <2> QED
      BY <1>0, <2>1, <2>2 DEF SendToOne, TypeOK, clients, table, mains, locals
  <1>2. Places'
    BY DEF SendToOne, TypeOK, clients, table, mains, locals, Places,
           AcceptedWaits, NewAreUnborn, SockIsSet, OwnRoutine
  <1>3. Guarded'
    BY DEF SendToOne, TypeOK, clients, table, mains, locals, Guarded,
           LockOwner, EchoesToTheSender, Holding, Msgs
  <1>4. CountRight'
    <2>1. program = "chat_server" => CountedClients' = CountedClients
      BY DEF SendToOne, TypeOK, clients, table, mains, locals, CountedClients,
             Counted, Places, AcceptedWaits, OwnRoutine
    <2> QED
      BY <2>1, CountStays DEF SendToOne, table, CountRight, mains
  <1> QED
    BY <1>1, <1>2, <1>3, <1>4

(* send_msg() gives the mutex back. *)
LEMMA SendDoneKeeps ==
    ASSUME IndInv, NEW c \in Clients, SendDone(c)
    PROVE  RunInv'
  <1> USE DEF IndInv, RunInv, sockets, Over
  <1>1. TypeOK'
    <2>1. msg' \in [Clients -> 0..MaxMsgs]
      BY MaxMsgsAssumption DEF SendDone, TypeOK, locals
    <2>2. i' \in [Clients -> 0..MAX_CLNT]
      BY CountedFinite DEF SendDone, TypeOK
    <2> QED
      BY <2>1, <2>2 DEF SendDone, TypeOK, clients, table, mains, locals
  <1>2. Places'
    BY DEF SendDone, TypeOK, clients, table, mains, locals, Places,
           AcceptedWaits, NewAreUnborn, SockIsSet, OwnRoutine
  <1>3. Guarded'
    BY DEF SendDone, TypeOK, clients, table, mains, locals, Guarded,
           LockOwner, EchoesToTheSender, Holding, Msgs
  <1>4. CountRight'
    <2>1. program = "chat_server" => CountedClients' = CountedClients
      BY DEF SendDone, TypeOK, clients, table, mains, locals, CountedClients,
             Counted, Places, AcceptedWaits, OwnRoutine
    <2> QED
      BY <2>1, CountStays DEF SendDone, table, CountRight, mains
  <1> QED
    BY <1>1, <1>2, <1>3, <1>4

(* close() after the removal. *)
LEMMA CloseSockKeeps ==
    ASSUME IndInv, NEW c \in Clients, CloseSock(c)
    PROVE  RunInv'
  <1> USE DEF IndInv, RunInv, sockets, Over
  <1>1. TypeOK'
    BY CountedFinite, MaxMsgsAssumption
    DEF CloseSock, TypeOK, clients, table, mains, locals
  <1>2. Places'
    BY DEF CloseSock, TypeOK, clients, table, mains, locals, Places,
           AcceptedWaits, NewAreUnborn, SockIsSet, OwnRoutine
  <1>3. Guarded'
    BY DEF CloseSock, TypeOK, clients, table, mains, locals, Guarded,
           LockOwner, EchoesToTheSender, Holding, Msgs
  <1>4. CountRight'
    <2>1. program = "chat_server" => CountedClients' = CountedClients
      BY DEF CloseSock, TypeOK, clients, table, mains, locals, CountedClients,
             Counted, Places, AcceptedWaits, OwnRoutine
    <2> QED
      BY <2>1, CountStays DEF CloseSock, table, CountRight, mains
  <1> QED
    BY <1>1, <1>2, <1>3, <1>4

(* The echo thread takes the mutex before it reads. *)
LEMMA LockForReadKeeps ==
    ASSUME IndInv, NEW c \in Clients, LockForRead(c)
    PROVE  RunInv'
  <1> USE DEF IndInv, RunInv, sockets, Over
  <1>1. TypeOK'
    BY CountedFinite, MaxMsgsAssumption
    DEF LockForRead, TypeOK, clients, table, mains, locals
  <1>2. Places'
    BY DEF LockForRead, TypeOK, clients, table, mains, locals, Places,
           AcceptedWaits, NewAreUnborn, SockIsSet, OwnRoutine
  <1>3. Guarded'
    BY ClientsAssumption
    DEF LockForRead, TypeOK, clients, table, mains, locals, Guarded,
        LockOwner, EchoesToTheSender, Holding, Msgs
  <1>4. CountRight'
    <2>1. program = "chat_server" => CountedClients' = CountedClients
      BY DEF LockForRead, TypeOK, clients, table, mains, locals,
             CountedClients, Counted, Places, AcceptedWaits, OwnRoutine
    <2> QED
      BY <2>1, CountStays DEF LockForRead, table, CountRight, mains
  <1> QED
    BY <1>1, <1>2, <1>3, <1>4

(* The buffer holds what this thread has read; nobody else is past its read(). *)
LEMMA ReadToBufKeeps ==
    ASSUME IndInv, NEW c \in Clients, ReadToBuf(c)
    PROVE  RunInv'
  <1> USE DEF IndInv, RunInv, sockets, Over
  <1> PICK d \in Behind(sock[c]) :
        /\ pc[c] = "readLocked" /\ pc' = [pc EXCEPT ![c] = "echo"]
        /\ buf' = Head(inbox[d]) /\ msg' = [msg EXCEPT ![c] = Head(inbox[d])]
        /\ inbox' = [inbox EXCEPT ![d] = Tail(inbox[d])] /\ inbox[d] # << >>
        /\ UNCHANGED <<program, conn, nsent, sockets, fd, table, mutx, mains, sock, i>>
    BY DEF ReadToBuf
  <1>0. /\ d \in Clients /\ Head(inbox[d]) \in 1..MaxMsgs
        /\ Tail(inbox[d]) \in Seq(1..MaxMsgs)
    <2>1. d \in Clients /\ inbox[d] \in Seq(1..MaxMsgs) /\ inbox[d] # << >>
      BY DEF TypeOK, Behind, Msgs
    <2> QED
      BY <2>1, HeadTaken
  <1>1. TypeOK'
    <2>0. \A m \in 1..MaxMsgs : m \in 0..MaxMsgs
      BY MaxMsgsAssumption
    <2>1. buf' \in 0..MaxMsgs /\ msg' = [msg EXCEPT ![c] = buf']
      BY <1>0, <2>0, Zenon
    <2>2. msg' \in [Clients -> 0..MaxMsgs]
      BY <2>1 DEF TypeOK
    <2>3. inbox' \in [Clients -> Seq(Msgs)]
      BY <1>0 DEF TypeOK, Msgs
    <2> QED
      BY <2>1, <2>2, <2>3 DEF TypeOK, clients, table, mains, locals
  <1>2. Places'
    BY DEF TypeOK, clients, table, mains, locals, Places, AcceptedWaits,
           NewAreUnborn, SockIsSet, OwnRoutine
  <1>3. Guarded'
    BY <1>0
    DEF TypeOK, clients, table, mains, locals, Guarded, LockOwner,
        EchoesToTheSender, Holding, Msgs
  <1>4. CountRight'
    <2>1. program = "chat_server" => CountedClients' = CountedClients
      BY DEF TypeOK, clients, table, mains, locals, CountedClients, Counted,
             Places, AcceptedWaits, OwnRoutine
    <2> QED
      BY <2>1, CountStays DEF table, CountRight, mains
  <1> QED
    BY <1>1, <1>2, <1>3, <1>4

(* The buffer is written, and the mutex given back. *)
LEMMA EchoBufKeeps ==
    ASSUME IndInv, NEW c \in Clients, EchoBuf(c)
    PROVE  RunInv'
  <1> USE DEF IndInv, RunInv, sockets, Over
  <1>0. /\ heard' \in [Clients -> Seq(Msgs)]
        /\ unread' \in [Clients -> 0..SockCap]
        /\ err' \in [Clients -> {"none", "reset", "pipe"}]
    <2>1. buf \in Msgs
      BY DEF EchoBuf, Guarded, EchoesToTheSender, Holding
    <2> QED
      BY <2>1, WriteReaches DEF EchoBuf
  <1>1. TypeOK'
    <2>1. msg' \in [Clients -> 0..MaxMsgs]
      BY MaxMsgsAssumption DEF EchoBuf, TypeOK, locals
    <2> QED
      BY <1>0, <2>1 DEF EchoBuf, TypeOK, clients, table, mains, locals
  <1>2. Places'
    BY DEF EchoBuf, TypeOK, clients, table, mains, locals, Places,
           AcceptedWaits, NewAreUnborn, SockIsSet, OwnRoutine
  <1>3. Guarded'
    BY DEF EchoBuf, TypeOK, clients, table, mains, locals, Guarded, LockOwner,
           EchoesToTheSender, Holding, Msgs
  <1>4. CountRight'
    <2>1. program = "chat_server" => CountedClients' = CountedClients
      BY DEF EchoBuf, TypeOK, clients, table, mains, locals, CountedClients,
             Counted, Places, AcceptedWaits, OwnRoutine
    <2> QED
      BY <2>1, CountStays DEF EchoBuf, table, CountRight, mains
  <1> QED
    BY <1>1, <1>2, <1>3, <1>4

(* The break of the echo thread leaves the mutex as it is. *)
LEMMA BreakLockedKeeps ==
    ASSUME IndInv, NEW c \in Clients, BreakLocked(c)
    PROVE  RunInv'
  <1> USE DEF IndInv, RunInv, sockets, Over
  <1>1. TypeOK'
    BY CountedFinite, MaxMsgsAssumption
    DEF BreakLocked, TypeOK, clients, table, mains, locals
  <1>2. Places'
    BY DEF BreakLocked, TypeOK, clients, table, mains, locals, Places,
           AcceptedWaits, NewAreUnborn, SockIsSet, OwnRoutine
  <1>3. Guarded'
    BY DEF BreakLocked, TypeOK, clients, table, mains, locals, Guarded,
           LockOwner, EchoesToTheSender, Holding, Msgs
  <1>4. CountRight'
    <2>1. program = "chat_server" => CountedClients' = CountedClients
      BY DEF BreakLocked, TypeOK, clients, table, mains, locals,
             CountedClients, Counted, Places, AcceptedWaits, OwnRoutine
    <2> QED
      BY <2>1, CountStays DEF BreakLocked, table, CountRight, mains
  <1> QED
    BY <1>1, <1>2, <1>3, <1>4

(* SIGPIPE: nobody is left to be counted. *)
LEMMA WriteKillsKeeps ==
    ASSUME IndInv, NEW c \in Clients, WriteKills(c)
    PROVE  RunInv'
  <1> USE DEF IndInv, RunInv, sockets, Over
  <1>1. \A d \in Clients : pc'[d] = "killed"
    BY DEF WriteKills
  <1>2. TypeOK'
    <2>1. pc' \in [Clients -> {"killed"}]
      BY DEF WriteKills
    <2> QED
      BY <2>1 DEF WriteKills, TypeOK, clients, table, locals
  <1>3. Places'
    BY <1>1
    DEF WriteKills, Places, AcceptedWaits, NewAreUnborn, SockIsSet, OwnRoutine
  <1>4. Guarded'
    BY <1>1 DEF Guarded, LockOwner, EchoesToTheSender, Holding
  <1>5. CountRight'
    BY DEF WriteKills, CountRight
  <1> QED
    BY <1>2, <1>3, <1>4, <1>5

(* main() leaves accept() with a descriptor and a client not counted yet. *)
LEMMA AcceptKeeps ==
    ASSUME IndInv, NEW c \in Clients, Accept(c)
    PROVE  RunInv'
  <1> USE DEF IndInv, RunInv, sockets, Over
  <1>0. clnt_sock' \in FreeFds /\ FreeFds \subseteq Fds
    <2>1. FreeFds \subseteq Nat /\ FreeFds \subseteq Fds
      BY MaxFdAssumption DEF FreeFds, Fds
    <2> QED
      BY <2>1, LowestIsOne DEF Accept
  <1>1. TypeOK'
    BY <1>0 DEF Accept, TypeOK, clients, table, mains, locals
  <1>2. Places'
    BY <1>0
    DEF Accept, TypeOK, clients, table, mains, locals, Places, AcceptedWaits,
        NewAreUnborn, SockIsSet, OwnRoutine, AllEnd
  <1>3. Guarded'
    BY DEF Accept, TypeOK, locals, Guarded, LockOwner, EchoesToTheSender,
           Holding
  <1>4. CountRight'
    <2>1. program = "chat_server" => CountedClients' = CountedClients
      BY DEF Accept, TypeOK, CountedClients, Counted, Places, NewAreUnborn
    <2> QED
      BY <2>1, CountStays DEF Accept, table, CountRight, mains
  <1> QED
    BY <1>1, <1>2, <1>3, <1>4

(* The client that is entered was not counted before, so there is room. *)
LEMMA AddClientKeeps ==
    ASSUME IndInv, AddClient
    PROVE  RunInv'
  <1> USE DEF IndInv, RunInv, sockets, Over
  <1>1. /\ program = "chat_server"
        /\ accepted \in Clients /\ accepted \notin CountedClients
        /\ clnt_sock \in Fds
    BY DEF AddClient, TypeOK, Programs, Places, AcceptedWaits, OwnRoutine,
           SockIsSet, CountedClients, Counted
  <1>2. CountedClients' = CountedClients \cup {accepted}
    BY <1>1 DEF AddClient, TypeOK, CountedClients, Counted
  <1>3. clnt_cnt < MAX_CLNT
    <2>1. CountedClients \in SUBSET Clients /\ CountedClients # Clients
      BY <1>1 DEF CountedClients
    <2>2. Cardinality(CountedClients) <= MAX_CLNT /\ Cardinality(CountedClients) # MAX_CLNT
      BY <2>1, ClientsAssumption, FS_Subset DEF MAX_CLNT
    <2>3. clnt_cnt = Cardinality(CountedClients)
      BY <1>1 DEF AddClient, CountRight
    <2> QED
      BY <2>2, <2>3, CountedFinite
  <1>4. TypeOK'
    <2>1. clnt_cnt' \in 0..MAX_CLNT
      BY <1>3, CountedFinite DEF AddClient, TypeOK
    <2>2. clnt_socks' \in [0..MAX_CLNT -> Fds \cup {0}]
      BY <1>1 DEF AddClient, TypeOK
    <2> QED
      BY <2>1, <2>2 DEF AddClient, TypeOK, clients, locals
  <1>5. Places'
    BY <1>1
    DEF AddClient, TypeOK, clients, Places, AcceptedWaits, NewAreUnborn,
        SockIsSet, OwnRoutine
  <1>6. Guarded'
    BY DEF AddClient, TypeOK, locals, Guarded, LockOwner, EchoesToTheSender,
           Holding
  <1>7. CountRight'
    BY <1>1, <1>2, FS_AddElement, CountedFinite DEF AddClient, CountRight
  <1> QED
    BY <1>4, <1>5, <1>6, <1>7

(* The client that is removed was counted, so the count was not zero. *)
LEMMA RemoveClientKeeps ==
    ASSUME IndInv, NEW c \in Clients, RemoveClient(c)
    PROVE  RunInv'
  <1> USE DEF IndInv, RunInv, sockets, Over
  <1>0. ~Over /\ mainpc' = mainpc
    BY DEF RemoveClient, AllEnd, mains
  <1>1. program = "chat_server" /\ c \in CountedClients
    BY DEF RemoveClient, TypeOK, Programs, Places, OwnRoutine, CountedClients,
           Counted
  <1>2. CountedClients' = CountedClients \ {c}
    BY <1>1
    DEF RemoveClient, TypeOK, mains, CountedClients, Counted, Places,
        AcceptedWaits
  <1>3. clnt_cnt > 0
    <2>1. Cardinality(CountedClients) # 0
      BY <1>1, CountedFinite, FS_EmptySet
    <2> QED
      BY <1>0, <1>1, <2>1, CountedFinite DEF CountRight
  <1>4. TypeOK'
    <2>1. clnt_socks' \in [0..MAX_CLNT -> Fds \cup {0}]
      BY TableKept DEF RemoveClient
    <2>2. clnt_cnt' \in 0..MAX_CLNT
      BY <1>3, CountedFinite DEF RemoveClient, TypeOK
    <2> QED
      BY <2>1, <2>2 DEF RemoveClient, TypeOK, clients, mains, locals
  <1>5. Places'
    BY <1>1
    DEF RemoveClient, TypeOK, clients, mains, Places, AcceptedWaits,
        NewAreUnborn, SockIsSet, OwnRoutine
  <1>6. Guarded'
    BY DEF RemoveClient, TypeOK, locals, Guarded, LockOwner,
           EchoesToTheSender, Holding
  <1>7. CountRight'
    BY <1>0, <1>1, <1>2, FS_RemoveElement, CountedFinite
    DEF RemoveClient, CountRight
  <1> QED
    BY <1>4, <1>5, <1>6, <1>7

-----------------------------------------------------------------------------
LEMMA NextKeepsRunInv == IndInv /\ [Next]_vars => RunInv'
  <1> SUFFICES ASSUME IndInv, [Next]_vars PROVE RunInv'
    OBVIOUS
  <1>1. CASE MainStep
    BY <1>1, AddClientKeeps, CreateThreadKeeps, AcceptKeeps DEF MainStep
  <1>2. ASSUME NEW c \in Clients, ClientStep(c) PROVE RunInv'
    BY <1>2, ConnectKeeps, SendKeeps, HearKeeps, LeaveKeeps DEF ClientStep
  <1>3. ASSUME NEW c \in Clients, ThreadStep(c) PROVE RunInv'
    BY <1>3, EnterKeeps, ReadMessageKeeps, ReadFailsKeeps, ReadEndKeeps,
       LockForSendKeeps, SendToOneKeeps, SendDoneKeeps, RemoveClientKeeps,
       CloseSockKeeps, LockForReadKeeps, ReadToBufKeeps, EchoBufKeeps,
       BreakLockedKeeps, WriteKillsKeeps
    DEF ThreadStep
  <1>4. CASE UNCHANGED vars
    <2>1. TypeOK' /\ Places'
      BY <1>4
      DEF vars, clients, sockets, table, mains, locals, IndInv, RunInv, TypeOK, Places,
          AcceptedWaits, NewAreUnborn, SockIsSet, OwnRoutine
    <2>2. Guarded' /\ CountRight'
      BY <1>4
      DEF vars, clients, table, mains, locals, IndInv, RunInv, Guarded, LockOwner,
          EchoesToTheSender, Holding, CountRight, CountedClients, Counted, Over
    <2> QED
      BY <2>1, <2>2 DEF RunInv
  <1> QED
    BY <1>1, <1>2, <1>3, <1>4 DEF Next

LEMMA NextKeepsAllEnd == IndInv /\ [Next]_vars => AllEnd'
  <1> SUFFICES ASSUME IndInv, [Next]_vars PROVE AllEnd'
    OBVIOUS
  <1> PICK S : pc \in [Clients -> S]
    BY DEF IndInv, RunInv, TypeOK
  <1>0. AllEnd
    BY DEF IndInv
  <1>1. CASE MainStep
    <2>1. CASE CreateThread
      <3>1. ~Over /\ ~Over'
        BY <2>1 DEF CreateThread, Over
      <3>2. \A d \in Clients : pc'[d] \in {pc[d], "born"}
        BY <1>0, <2>1 DEF CreateThread
      <3> QED
        BY <1>0, <3>1, <3>2 DEF AllEnd
    <2>2. CASE AddClient \/ \E c \in Clients : Accept(c)
      BY <1>0, <2>2 DEF AddClient, Accept, AllEnd, Over
    <2> QED
      BY <1>1, <2>1, <2>2 DEF MainStep
  <1>2. ASSUME NEW c \in Clients, ClientStep(c) PROVE AllEnd'
    <2>1. UNCHANGED <<pc, mainpc>>
      BY <1>2 DEF ClientStep, Connect, Send, Hear, Leave, mains
    <2> QED
      BY <1>0, <2>1 DEF AllEnd, Over
  <1>3. ASSUME NEW c \in Clients, ThreadStep(c) PROVE AllEnd'
    <2>1. CASE WriteKills(c)
      BY <2>1 DEF WriteKills, AllEnd, Over
    <2>2. CASE ~WriteKills(c)
      <3>1. pc[c] # "killed" /\ mainpc' = mainpc
        BY <1>3, <2>2
        DEF ThreadStep, Enter, ReadMessage, ReadFails, ReadEnd, LockForSend, SendToOne, SendDone,
            RemoveClient, CloseSock, LockForRead, ReadToBuf, EchoBuf, BreakLocked, mains
      <3>2. \A d \in Clients : pc'[d] = pc[d] \/ (d = c /\ pc'[d] # "killed")
        BY <1>0, <1>3, <2>2
        DEF ThreadStep, Enter, ReadMessage, ReadFails, ReadEnd, LockForSend, SendToOne, SendDone,
            RemoveClient, CloseSock, LockForRead, ReadToBuf, EchoBuf, BreakLocked
      <3> QED
        BY <1>0, <3>1, <3>2 DEF AllEnd, Over
    <2> QED
      BY <2>1, <2>2
  <1>4. CASE UNCHANGED vars
    BY <1>0, <1>4 DEF vars, mains, AllEnd, Over
  <1> QED
    BY <1>1, <1>2, <1>3, <1>4 DEF Next

LEMMA NextKeepsIndInv == IndInv /\ [Next]_vars => IndInv'
  BY NextKeepsRunInv, NextKeepsAllEnd DEF IndInv

LEMMA IndInvHolds == SafetySpec => []IndInv
  BY InitIndInv, NextKeepsIndInv, PTL DEF SafetySpec

(* chat_server.c: clnt_cnt is the number of accepted clients whose threads
   have not come to their removal, and stays between zero and MAX_CLNT when
   no more than MAX_CLNT clients connect. *)
THEOREM CountIsThreads == SafetySpec => []CountMatchesThreads
  <1>1. IndInv => CountMatchesThreads
    BY Zenon DEF IndInv, RunInv, CountMatchesThreads, CountRight, CountedClients
  <1> QED
    BY <1>1, IndInvHolds, PTL

-----------------------------------------------------------------------------
(***************************************************************************)
(* The order of the messages.  A message has one place: the connection of  *)
(* its client, or the hands of the thread that has read it.  Nobody has    *)
(* heard it before a thread begins to write it, and that thread holds the  *)
(* mutex until everybody has it; so nothing else gets between.             *)
(***************************************************************************)
MsgPlace == \A c \in Clients : msg[c] # 0 => pc[c] \in {"lock", "send", "echo", "killed"}

(* Messages are numbered as they are sent. *)
Old ==
    \A c \in Clients :
        /\ msg[c] <= nsent
        /\ \A k \in 1..Len(inbox[c]) : inbox[c][k] <= nsent
        /\ \A k \in 1..Len(heard[c]) : heard[c][k] <= nsent

ReadOnce ==
    /\ \A c, d \in Clients : \A j \in 1..Len(inbox[c]), k \in 1..Len(inbox[d]) :
          inbox[c][j] = inbox[d][k] => c = d /\ j = k
    /\ \A c, d \in Clients : \A k \in 1..Len(inbox[c]) : inbox[c][k] # msg[d]
    /\ \A c, d \in Clients : msg[c] = msg[d] /\ msg[c] # 0 => c = d

Unheard ==
    \A c, d \in Clients : \A k \in 1..Len(heard[d]) :
        /\ \A j \in 1..Len(inbox[c]) : inbox[c][j] # heard[d][k]
        /\ pc[c] \notin {"send", "killed"} => msg[c] # heard[d][k]

(* Behind the message that is being sent everybody has heard nothing yet. *)
IsLast(m) ==
    \A d \in Clients : \A j, k \in 1..Len(heard[d]) : j < k /\ heard[d][j] = m => heard[d][k] = m

SendingLast == \A c \in Clients : pc[c] = "send" => IsLast(msg[c])

MessagesInv == MsgPlace /\ Old /\ ReadOnce /\ Unheard /\ SendingLast

OrderInv == MessagesInv /\ SameOrder

LEMMA ElementsTyped ==
    ASSUME NEW S, NEW s \in Seq(S)
    PROVE  Len(s) \in Nat /\ \A k \in 1..Len(s) : s[k] \in S
  OBVIOUS

LEMMA AppendedAt ==
    ASSUME NEW S, NEW s \in Seq(S), NEW x \in S
    PROVE  \A k \in 1..Len(Append(s, x)) :
              \/ k \in 1..Len(s) /\ Append(s, x)[k] = s[k]
              \/ k = Len(s) + 1 /\ Append(s, x)[k] = x
  OBVIOUS

LEMMA TailAt ==
    ASSUME NEW S, NEW s \in Seq(S), s # << >>
    PROVE  \A k \in 1..Len(Tail(s)) : k + 1 \in 1..Len(s) /\ Tail(s)[k] = s[k + 1] /\ k + 1 # 1
  OBVIOUS

(* Messages are positive numbers. *)
LEMMA MessagesTyped ==
    ASSUME IndInv
    PROVE  /\ nsent \in Nat
           /\ \A c \in Clients :
                 /\ msg[c] \in Nat
                 /\ inbox[c] \in Seq(Msgs) /\ Len(inbox[c]) \in Nat
                 /\ heard[c] \in Seq(Msgs) /\ Len(heard[c]) \in Nat
                 /\ \A k \in 1..Len(inbox[c]) : inbox[c][k] \in Nat /\ inbox[c][k] # 0
                 /\ \A k \in 1..Len(heard[c]) : heard[c][k] \in Nat /\ heard[c][k] # 0
  <1>1. \A m \in Msgs : m \in Nat /\ m # 0
    BY MaxMsgsAssumption DEF Msgs
  <1>2. nsent \in Nat /\ \A c \in Clients : msg[c] \in Nat
    BY MaxMsgsAssumption DEF IndInv, RunInv, TypeOK
  <1>3. \A c \in Clients : inbox[c] \in Seq(Msgs) /\ heard[c] \in Seq(Msgs)
    BY DEF IndInv, RunInv, TypeOK
  <1>4. \A c \in Clients :
            /\ Len(inbox[c]) \in Nat /\ \A k \in 1..Len(inbox[c]) : inbox[c][k] \in Msgs
            /\ Len(heard[c]) \in Nat /\ \A k \in 1..Len(heard[c]) : heard[c][k] \in Msgs
    BY <1>3, ElementsTyped, Zenon
  <1> QED
    BY <1>1, <1>2, <1>3, <1>4

(* Steps that only move threads that have no message in their hands. *)
LEMMA MessagesStay ==
    ASSUME IndInv, OrderInv, UNCHANGED <<nsent, inbox, heard, msg>>,
           \A c \in Clients :
                pc'[c] \in {pc[c], "killed"} \/ (pc'[c] # "send" /\ msg[c] = 0)
    PROVE  OrderInv'
  <1>1. MsgPlace'
    BY DEF OrderInv, MessagesInv, MsgPlace
  <1>2. Old' /\ ReadOnce'
    BY DEF OrderInv, MessagesInv, Old, ReadOnce
  <1>3. Unheard'
    <2>1. \A c, d \in Clients : \A k \in 1..Len(heard[d]) :
              pc'[c] \notin {"send", "killed"} => msg[c] # heard[d][k]
      BY MessagesTyped DEF OrderInv, MessagesInv, Unheard
    <2> QED
      BY <2>1 DEF OrderInv, MessagesInv, Unheard
  <1>5. SendingLast'
    BY DEF OrderInv, MessagesInv, SendingLast, IsLast
  <1>4. SameOrder'
    BY DEF OrderInv, SameOrder, Before
  <1> QED
    BY <1>1, <1>2, <1>3, <1>4, <1>5 DEF OrderInv, MessagesInv

LEMMA InitOrderInv == Init => OrderInv
  <1> SUFFICES ASSUME Init PROVE OrderInv
    OBVIOUS
  <1>1. \A c \in Clients : Len(inbox[c]) = 0 /\ Len(heard[c]) = 0 /\ msg[c] = 0 /\ pc[c] = "unborn"
    BY DEF Init
  <1>2. MessagesInv
    BY <1>1 DEF Init, MessagesInv, MsgPlace, Old, ReadOnce, Unheard, SendingLast
  <1>3. SameOrder
    BY <1>1 DEF SameOrder, Before
  <1> QED
    BY <1>2, <1>3 DEF OrderInv

(* The next number is new. *)
LEMMA SendOrders ==
    ASSUME IndInv, OrderInv, NEW c \in Clients, Send(c)
    PROVE  OrderInv'
  <1>2. \A d \in Clients :
            inbox'[d] = IF d = c THEN Append(inbox[d], nsent + 1) ELSE inbox[d]
    BY DEF Send, IndInv, RunInv, TypeOK
  <1>3. UNCHANGED <<heard, pc, msg>> /\ nsent' = nsent + 1
    BY DEF Send, sockets, locals
  <1>4. \A d \in Clients : \A k \in 1..Len(inbox'[d]) :
            \/ k \in 1..Len(inbox[d]) /\ inbox'[d][k] = inbox[d][k]
            \/ d = c /\ k = Len(inbox[d]) + 1 /\ inbox'[d][k] = nsent + 1
    <2> TAKE d \in Clients
    <2>1. CASE d = c
      <3>1. nsent + 1 \in Msgs /\ inbox[c] \in Seq(Msgs)
        BY MaxMsgsAssumption, MessagesTyped DEF Send, IndInv, RunInv, TypeOK, Msgs
      <3>2. inbox'[d] = Append(inbox[c], nsent + 1)
        BY <1>2, <2>1
      <3>3. \A k \in 1..Len(Append(inbox[c], nsent + 1)) :
                \/ k \in 1..Len(inbox[c]) /\ Append(inbox[c], nsent + 1)[k] = inbox[c][k]
                \/ k = Len(inbox[c]) + 1 /\ Append(inbox[c], nsent + 1)[k] = nsent + 1
        BY <3>1, AppendedAt, Zenon
      <3> QED
        BY <2>1, <3>2, <3>3, Zenon
    <2>2. CASE d # c
      BY <1>2, <2>2
    <2> QED
      BY <2>1, <2>2
  <1>1. \A d \in Clients : \A k \in 1..Len(inbox[d]) : inbox[d][k] # nsent + 1
    <2>1. \A d \in Clients : \A k \in 1..Len(inbox[d]) : inbox[d][k] <= nsent /\ inbox[d][k] \in Nat
      BY MessagesTyped DEF OrderInv, MessagesInv, Old
    <2>2. nsent \in Nat
      BY MessagesTyped
    <2> QED
      BY <2>1, <2>2
  <1>5. MsgPlace' /\ SendingLast' /\ SameOrder'
    BY <1>3 DEF OrderInv, MessagesInv, MsgPlace, SendingLast, IsLast, SameOrder, Before
  <1>6. Old'
    <2>1. \A d \in Clients : \A k \in 1..Len(inbox'[d]) : inbox'[d][k] <= nsent + 1
      <3> TAKE d \in Clients
      <3> TAKE k \in 1..Len(inbox'[d])
      <3>1. CASE k \in 1..Len(inbox[d]) /\ inbox'[d][k] = inbox[d][k]
        BY <3>1, MessagesTyped DEF OrderInv, MessagesInv, Old
      <3>2. CASE inbox'[d][k] = nsent + 1
        BY <3>2, MessagesTyped
      <3> QED
        BY <1>4, <3>1, <3>2
    <2>2. \A d \in Clients : msg[d] <= nsent + 1 /\ \A k \in 1..Len(heard[d]) : heard[d][k] <= nsent + 1
      BY MessagesTyped DEF OrderInv, MessagesInv, Old
    <2> QED
      BY <1>3, <2>1, <2>2 DEF Old
  <1>7. ReadOnce'
    <2>1. \A a, b \in Clients : \A j \in 1..Len(inbox'[a]), k \in 1..Len(inbox'[b]) :
              inbox'[a][j] = inbox'[b][k] => a = b /\ j = k
      BY <1>1, <1>4 DEF OrderInv, MessagesInv, ReadOnce
    <2>2. \A a, b \in Clients : \A k \in 1..Len(inbox'[a]) : inbox'[a][k] # msg'[b]
      <3>1. \A b \in Clients : msg[b] # nsent + 1
        BY MessagesTyped DEF OrderInv, MessagesInv, Old
      <3> QED
        BY <1>3, <1>4, <3>1 DEF OrderInv, MessagesInv, ReadOnce
    <2> QED
      BY <2>1, <2>2, <1>3 DEF OrderInv, MessagesInv, ReadOnce
  <1>8. Unheard'
    <2>1. \A d \in Clients : \A k \in 1..Len(heard[d]) : heard[d][k] # nsent + 1
      BY MessagesTyped DEF OrderInv, MessagesInv, Old
    <2> QED
      BY <1>3, <1>4, <2>1 DEF OrderInv, MessagesInv, Unheard
  <1> QED
    BY <1>5, <1>6, <1>7, <1>8 DEF OrderInv, MessagesInv

(* read() of a message: from the connection into the hands of the thread. *)
LEMMA ReadOrders ==
    ASSUME IndInv, OrderInv, NEW c \in Clients, NEW d \in Clients, NEW place \in {"lock", "echo"},
           msg[c] = 0, inbox[d] # << >>,
           msg' = [msg EXCEPT ![c] = Head(inbox[d])],
           inbox' = [inbox EXCEPT ![d] = Tail(inbox[d])],
           pc' = [pc EXCEPT ![c] = place], UNCHANGED <<nsent, heard>>
    PROVE  OrderInv'
  <1>1. inbox[d] \in Seq(Msgs) /\ Len(inbox[d]) \in Nat
    BY MessagesTyped
  <1>2. 1 \in 1..Len(inbox[d]) /\ Head(inbox[d]) = inbox[d][1]
    BY <1>1
  <1>3. \A e \in Clients : \A k \in 1..Len(inbox'[e]) :
            \/ e # d /\ k \in 1..Len(inbox[e]) /\ inbox'[e][k] = inbox[e][k]
            \/ e = d /\ k + 1 \in 1..Len(inbox[e]) /\ inbox'[e][k] = inbox[e][k + 1] /\ k + 1 # 1
    <2> TAKE e \in Clients
    <2>1. CASE e = d
      <3>1. inbox'[e] = Tail(inbox[e])
        BY <2>1 DEF IndInv, RunInv, TypeOK
      <3>2. \A k \in 1..Len(Tail(inbox[e])) :
                k + 1 \in 1..Len(inbox[e]) /\ Tail(inbox[e])[k] = inbox[e][k + 1] /\ k + 1 # 1
        BY <1>1, <2>1, TailAt, Zenon
      <3> QED
        BY <2>1, <3>1, <3>2, Zenon
    <2>2. CASE e # d
      BY <2>2 DEF IndInv, RunInv, TypeOK
    <2> QED
      BY <2>1, <2>2
  <1>4. \A e \in Clients :
            /\ msg'[e] = IF e = c THEN inbox[d][1] ELSE msg[e]
            /\ pc'[e] = IF e = c THEN place ELSE pc[e]
    BY <1>2 DEF IndInv, RunInv, TypeOK
  <1>5. MsgPlace' /\ SendingLast' /\ SameOrder'
    <2>1. MsgPlace'
      BY <1>4 DEF OrderInv, MessagesInv, MsgPlace
    <2>2. \A m : IsLast(m)' <=> IsLast(m)
      BY <1>2 DEF IsLast
    <2>3. SendingLast'
      BY <1>4, <2>2 DEF OrderInv, MessagesInv, SendingLast
    <2>4. SameOrder'
      BY <1>2 DEF OrderInv, SameOrder, Before
    <2> QED
      BY <2>1, <2>3, <2>4
  <1>6. Old'
    BY <1>2, <1>3, <1>4 DEF OrderInv, MessagesInv, Old
  <1>7. ReadOnce'
    <2>1. \A a, b \in Clients : \A j \in 1..Len(inbox'[a]), k \in 1..Len(inbox'[b]) :
              inbox'[a][j] = inbox'[b][k] => a = b /\ j = k
      BY <1>1, <1>3 DEF OrderInv, MessagesInv, ReadOnce
    <2>2. \A a, b \in Clients : \A k \in 1..Len(inbox'[a]) : inbox'[a][k] # msg'[b]
      BY <1>2, <1>3, <1>4 DEF OrderInv, MessagesInv, ReadOnce
    <2>3. \A a, b \in Clients : msg'[a] = msg'[b] /\ msg'[a] # 0 => a = b
      BY <1>2, <1>4 DEF OrderInv, MessagesInv, ReadOnce
    <2> QED
      BY <2>1, <2>2, <2>3 DEF ReadOnce
  <1>8. Unheard'
    BY <1>2, <1>3, <1>4 DEF OrderInv, MessagesInv, Unheard
  <1> QED
    BY <1>5, <1>6, <1>7, <1>8 DEF OrderInv, MessagesInv

LEMMA LockForSendOrders ==
    ASSUME IndInv, OrderInv, NEW c \in Clients, LockForSend(c)
    PROVE  OrderInv'
  <1>1. /\ UNCHANGED <<nsent, inbox, heard, msg>>
        /\ pc[c] = "lock" /\ \A e \in Clients : pc'[e] = IF e = c THEN "send" ELSE pc[e]
    BY DEF LockForSend, clients, sockets, IndInv, RunInv, TypeOK
  <1>2. MsgPlace' /\ Old' /\ ReadOnce'
    BY <1>1 DEF OrderInv, MessagesInv, MsgPlace, Old, ReadOnce
  <1>4. Unheard'
    BY <1>1 DEF OrderInv, MessagesInv, Unheard
  <1>5. SameOrder'
    BY <1>1 DEF OrderInv, SameOrder, Before
  <1>3. SendingLast'
    BY <1>1 DEF OrderInv, MessagesInv, Unheard, SendingLast, IsLast
  <1> QED
    BY <1>2, <1>3, <1>4, <1>5 DEF OrderInv, MessagesInv

(* Nobody hears anything but m. *)
HeardOnly(m) ==
    \A d \in Clients : \A k \in 1..Len(heard'[d]) :
        \/ k \in 1..Len(heard[d]) /\ heard'[d][k] = heard[d][k]
        \/ k = Len(heard[d]) + 1 /\ heard'[d][k] = m

(* Some clients hear a message behind which nothing has been heard. *)
LEMMA HearingOrders ==
    ASSUME IndInv, OrderInv, NEW m \in Msgs, NEW R, IsLast(m), Reach(m, R)
    PROVE  SameOrder' /\ IsLast(m)' /\ HeardOnly(m)
  <1>1. \A d \in Clients : heard[d] \in Seq(Msgs) /\ Len(heard[d]) \in Nat
    BY MessagesTyped
  <1>2. HeardOnly(m)
    <2> SUFFICES ASSUME NEW d \in Clients
                 PROVE  \A k \in 1..Len(heard'[d]) :
                            \/ k \in 1..Len(heard[d]) /\ heard'[d][k] = heard[d][k]
                            \/ k = Len(heard[d]) + 1 /\ heard'[d][k] = m
      BY DEF HeardOnly
    <2> QED
      BY <1>1 DEF Reach
  <1>3. IsLast(m)'
    <2> SUFFICES ASSUME NEW d \in Clients, NEW j \in 1..Len(heard'[d]), NEW k \in 1..Len(heard'[d]),
                        j < k, heard'[d][j] = m, heard'[d][k] # m
                 PROVE  FALSE
      BY DEF IsLast
    <2>1. k \in 1..Len(heard[d]) /\ heard'[d][k] = heard[d][k]
      BY <1>2 DEF HeardOnly
    <2>2. j \in 1..Len(heard[d]) /\ heard'[d][j] = heard[d][j]
      BY <1>1, <1>2, <2>1 DEF HeardOnly
    <2> QED
      BY <2>1, <2>2 DEF IsLast
  <1>4. ASSUME NEW c \in Clients, NEW p \in Msgs, NEW q \in Msgs, Before(c, p, q)'
        PROVE  Before(c, p, q) \/ q = m
    BY <1>1, <1>2, <1>4 DEF HeardOnly, Before
  <1>5. ASSUME NEW c \in Clients, NEW q \in Msgs, q # m
        PROVE  ~Before(c, m, q)'
    BY <1>1, <1>3, <1>5 DEF IsLast, Before
  <1>6. SameOrder'
    BY <1>4, <1>5 DEF OrderInv, SameOrder
  <1> QED
    BY <1>2, <1>3, <1>6

LEMMA SendToOneOrders ==
    ASSUME IndInv, OrderInv, NEW c \in Clients, SendToOne(c)
    PROVE  OrderInv'
  <1>1. UNCHANGED <<nsent, inbox, msg, pc>>
    BY DEF SendToOne, clients
  <1>2. CASE msg[c] = 0
    <2>1. heard' = heard
      BY <1>2, NothingToWrite DEF SendToOne
    <2> QED
      BY <1>1, <2>1, MessagesStay
  <1>3. ASSUME msg[c] # 0 PROVE OrderInv'
    <2>0. msg[c] \in Msgs /\ pc[c] = "send"
      BY <1>3, MaxMsgsAssumption DEF SendToOne, IndInv, RunInv, TypeOK, Msgs
    <2> PICK m \in Msgs : m = msg[c]
      BY <2>0
    <2> PICK R : Reach(m, R)
      BY WriteReaches DEF SendToOne, IndInv, RunInv
    <2>2. IsLast(m)
      BY <2>0 DEF OrderInv, MessagesInv, SendingLast
    <2>3. SameOrder' /\ IsLast(m)' /\ HeardOnly(m)
      BY <2>2, HearingOrders, Zenon
    <2>4. \A e \in Clients : pc[e] = "send" => e = c
      BY <2>0 DEF IndInv, RunInv, Guarded, LockOwner
    <2>5. MsgPlace' /\ ReadOnce'
      BY <1>1 DEF OrderInv, MessagesInv, MsgPlace, ReadOnce
    <2>6. Old'
      BY <1>1, <2>3 DEF HeardOnly, OrderInv, MessagesInv, Old
    <2>7. Unheard'
      <3>1. \A d, e \in Clients : \A k \in 1..Len(heard'[e]) :
               /\ \A j \in 1..Len(inbox[d]) : inbox[d][j] # heard'[e][k]
               /\ pc[d] \notin {"send", "killed"} => msg[d] # heard'[e][k]
        <4> TAKE d, e \in Clients
        <4> TAKE k \in 1..Len(heard'[e])
        <4>1. /\ \A j \in 1..Len(inbox[d]) : inbox[d][j] # m
              /\ pc[d] \notin {"send", "killed"} => msg[d] # m
          BY <1>3, <2>0 DEF OrderInv, MessagesInv, ReadOnce
        <4>2. ASSUME k \in 1..Len(heard[e])
              PROVE  /\ \A j \in 1..Len(inbox[d]) : inbox[d][j] # heard[e][k]
                     /\ pc[d] \notin {"send", "killed"} => msg[d] # heard[e][k]
          BY <4>2 DEF OrderInv, MessagesInv, Unheard
        <4>3. CASE k \in 1..Len(heard[e]) /\ heard'[e][k] = heard[e][k]
          BY <4>2, <4>3
        <4>4. CASE heard'[e][k] = m
          BY <4>1, <4>4
        <4> QED
          BY <2>3, <4>3, <4>4 DEF HeardOnly
      <3> QED
        BY <1>1, <3>1 DEF Unheard
    <2>8. SendingLast'
      BY <1>1, <2>3, <2>4 DEF SendingLast
    <2> QED
      BY <2>3, <2>5, <2>6, <2>7, <2>8 DEF OrderInv, MessagesInv
  <1> QED
    BY <1>2, <1>3

(* The thread is through with its message. *)
LEMMA SendDoneOrders ==
    ASSUME IndInv, OrderInv, NEW c \in Clients, SendDone(c)
    PROVE  OrderInv'
  <1>1. /\ UNCHANGED <<nsent, inbox, heard>> /\ nsent \in Nat
        /\ \A e \in Clients :
              /\ msg'[e] = IF e = c THEN 0 ELSE msg[e]
              /\ pc'[e] = IF e = c THEN "read" ELSE pc[e]
    BY MaxMsgsAssumption DEF SendDone, clients, sockets, IndInv, RunInv, TypeOK
  <1>2. \A e \in Clients : /\ \A k \in 1..Len(heard[e]) : heard[e][k] # 0
                           /\ \A k \in 1..Len(inbox[e]) : inbox[e][k] # 0
    BY MessagesTyped
  <1>3. MsgPlace' /\ Old'
    BY <1>1 DEF OrderInv, MessagesInv, MsgPlace, Old
  <1>5. SendingLast'
    BY <1>1 DEF OrderInv, MessagesInv, SendingLast, IsLast
  <1>7. SameOrder'
    BY <1>1 DEF OrderInv, SameOrder, Before
  <1>4. ReadOnce'
    BY <1>1, <1>2 DEF OrderInv, MessagesInv, ReadOnce
  <1>6. Unheard'
    BY <1>1, <1>2 DEF OrderInv, MessagesInv, Unheard
  <1> QED
    BY <1>3, <1>4, <1>5, <1>6, <1>7 DEF OrderInv, MessagesInv

(* The echo: nobody has heard the message before. *)
LEMMA EchoBufOrders ==
    ASSUME IndInv, OrderInv, NEW c \in Clients, EchoBuf(c)
    PROVE  OrderInv'
  <1> PICK m \in Msgs : m = msg[c]
    BY DEF EchoBuf, IndInv, RunInv, Guarded, Holding
  <1>1. pc[c] = "echo" /\ buf = m /\ m # 0
    BY DEF EchoBuf, IndInv, RunInv, Guarded, EchoesToTheSender, Msgs
  <1> PICK R : Reach(m, R)
    BY <1>1, WriteReaches DEF EchoBuf, IndInv, RunInv
  <1>3. IsLast(m)
    BY <1>1 DEF OrderInv, MessagesInv, Unheard, IsLast
  <1>4. /\ UNCHANGED <<nsent, inbox>> /\ nsent \in Nat
        /\ \A e \in Clients :
              /\ msg'[e] = IF e = c THEN 0 ELSE msg[e]
              /\ pc'[e] = IF e = c THEN "lockRead" ELSE pc[e]
    BY MaxMsgsAssumption DEF EchoBuf, clients, IndInv, RunInv, TypeOK
  <1>5. \A e \in Clients : /\ \A k \in 1..Len(heard[e]) : heard[e][k] # 0
                           /\ \A k \in 1..Len(inbox[e]) : inbox[e][k] # 0
    BY MessagesTyped
  <1>6. SameOrder' /\ HeardOnly(m)
    BY <1>3, HearingOrders, Zenon
  <1>7. \A e \in Clients : pc[e] \notin {"send", "killed"}
    BY <1>1 DEF IndInv, RunInv, Guarded, LockOwner, Places, AllEnd
  <1>9. MsgPlace' /\ SendingLast' /\ ReadOnce'
    BY <1>4, <1>5, <1>7 DEF OrderInv, MessagesInv, MsgPlace, SendingLast, ReadOnce
  <1>10. Old'
    <2>1. \A e \in Clients : \A k \in 1..Len(heard'[e]) : heard'[e][k] <= nsent
      BY <1>6 DEF HeardOnly, OrderInv, MessagesInv, Old
    <2> QED
      BY <1>4, <2>1 DEF OrderInv, MessagesInv, Old
  <1>11. Unheard'
    <2>1. \A d, e \in Clients : \A k \in 1..Len(heard'[e]) :
             /\ \A j \in 1..Len(inbox[d]) : inbox[d][j] # heard'[e][k]
             /\ msg'[d] # heard'[e][k]
      <3> TAKE d, e \in Clients
      <3> TAKE k \in 1..Len(heard'[e])
      <3>1. /\ \A j \in 1..Len(inbox[d]) : inbox[d][j] # m
            /\ msg'[d] # m
        BY <1>1, <1>4 DEF OrderInv, MessagesInv, ReadOnce
      <3>2. ASSUME k \in 1..Len(heard[e])
            PROVE  /\ \A j \in 1..Len(inbox[d]) : inbox[d][j] # heard[e][k]
                   /\ msg'[d] # heard[e][k]
        BY <1>4, <1>5, <1>7, <3>2 DEF OrderInv, MessagesInv, Unheard
      <3>3. CASE k \in 1..Len(heard[e]) /\ heard'[e][k] = heard[e][k]
        BY <3>2, <3>3
      <3>4. CASE heard'[e][k] = m
        BY <3>1, <3>4
      <3> QED
        BY <1>6, <3>3, <3>4 DEF HeardOnly
    <2> QED
      BY <1>4, <2>1 DEF Unheard
  <1> QED
    BY <1>6, <1>9, <1>10, <1>11 DEF OrderInv, MessagesInv

LEMMA NextKeepsOrderInv == IndInv /\ OrderInv /\ [Next]_vars => OrderInv'
  <1> SUFFICES ASSUME IndInv, OrderInv, [Next]_vars PROVE OrderInv'
    OBVIOUS
  <1>0. \A c \in Clients : pc[c] \notin {"lock", "send", "echo", "killed"} => msg[c] = 0
    BY DEF OrderInv, MessagesInv, MsgPlace
  <1>1. CASE MainStep
    <2>1. UNCHANGED <<nsent, inbox, heard, msg>>
      BY <1>1 DEF MainStep, AddClient, CreateThread, Accept, clients, sockets, locals
    <2>2. \A c \in Clients : pc'[c] \in {pc[c], "killed"} \/ (pc'[c] # "send" /\ msg[c] = 0)
      BY <1>0, <1>1
      DEF MainStep, AddClient, CreateThread, Accept, IndInv, RunInv, TypeOK, Places, AcceptedWaits
    <2> QED
      BY <2>1, <2>2, MessagesStay
  <1>2. ASSUME NEW c \in Clients, ClientStep(c) PROVE OrderInv'
    <2>1. CASE Connect(c) \/ Hear(c) \/ Leave(c)
      BY <2>1, MessagesStay DEF Connect, Hear, Leave, clients, sockets, locals
    <2> QED
      BY <1>2, <2>1, SendOrders DEF ClientStep
  <1>3. ASSUME NEW c \in Clients, ThreadStep(c) PROVE OrderInv'
    <2>1. CASE \/ Enter(c) \/ ReadEnd(c) \/ RemoveClient(c) \/ CloseSock(c)
               \/ LockForRead(c) \/ BreakLocked(c)
      <3>1. UNCHANGED <<nsent, inbox, heard, msg>>
        BY <2>1 DEF Enter, ReadEnd, RemoveClient, CloseSock, LockForRead, BreakLocked,
            clients, sockets, locals
      <3>2. msg[c] = 0
        BY <1>0, <2>1 DEF Enter, ReadEnd, RemoveClient, CloseSock, LockForRead, BreakLocked
      <3>3. \A e \in Clients : pc'[e] = pc[e] \/ (e = c /\ pc'[e] # "send")
        BY <2>1
        DEF Enter, ReadEnd, RemoveClient, CloseSock, LockForRead, BreakLocked, IndInv, RunInv, TypeOK
      <3> QED
        BY <3>1, <3>2, <3>3, MessagesStay
    <2>2. CASE ReadMessage(c)
      <3> PICK d \in Behind(sock[c]) :
            /\ pc[c] = "read" /\ inbox[d] # << >>
            /\ msg' = [msg EXCEPT ![c] = Head(inbox[d])]
            /\ inbox' = [inbox EXCEPT ![d] = Tail(inbox[d])]
            /\ pc' = [pc EXCEPT ![c] = "lock"]
            /\ UNCHANGED <<nsent, sockets>>
        BY <2>2 DEF ReadMessage, sockets
      <3> QED
        BY <1>0, ReadOrders DEF Behind, sockets
    <2>5. CASE WriteKills(c)
      BY <2>5, MessagesStay DEF WriteKills, clients, sockets, locals
    <2>3. CASE ReadFails(c)
      <3>1. /\ pc[c] = "read" /\ msg' = [msg EXCEPT ![c] = 0] /\ msg[c] = 0
            /\ UNCHANGED <<nsent, inbox, heard>> /\ pc' = [pc EXCEPT ![c] = "lock"]
        BY <1>0, <2>3 DEF ReadFails, clients
      <3>2. UNCHANGED msg
        BY <3>1 DEF IndInv, RunInv, TypeOK
      <3> QED
        BY <3>1, <3>2, MessagesStay DEF IndInv, RunInv, TypeOK
    <2>4. CASE ReadToBuf(c)
      <3> PICK d \in Behind(sock[c]) :
            /\ pc[c] = "readLocked" /\ inbox[d] # << >>
            /\ msg' = [msg EXCEPT ![c] = Head(inbox[d])]
            /\ inbox' = [inbox EXCEPT ![d] = Tail(inbox[d])]
            /\ pc' = [pc EXCEPT ![c] = "echo"]
            /\ UNCHANGED <<nsent, sockets>>
        BY <2>4 DEF ReadToBuf, sockets
      <3> QED
        BY <1>0, ReadOrders DEF Behind, sockets
    <2> QED
      BY <1>3, <2>1, <2>2, <2>3, <2>4, <2>5, LockForSendOrders, SendToOneOrders,
         SendDoneOrders, EchoBufOrders
      DEF ThreadStep
  <1>4. CASE UNCHANGED vars
    BY <1>4, MessagesStay DEF vars, clients, sockets, locals
  <1> QED
    BY <1>1, <1>2, <1>3, <1>4 DEF Next

(***************************************************************************)
(* chat_server.c: any two clients get the messages they both get in the    *)
(* same order, though threads may serve the wrong client and the table may *)
(* name one twice; and the buffer of echo_threadserv.c holds what the      *)
(* thread that writes it has read.                                         *)
(***************************************************************************)
THEOREM OneOrder == SafetySpec => []MessagesUnmixed
  <1>1. IndInv /\ OrderInv => MessagesUnmixed
    BY DEF IndInv, RunInv, Guarded, OrderInv, MessagesUnmixed
  <1>2. IndInv /\ OrderInv /\ [Next]_vars => OrderInv'
    BY NextKeepsOrderInv
  <1> QED
    BY <1>1, <1>2, InitOrderInv, IndInvHolds, PTL DEF SafetySpec
=============================================================================
