------------------------- MODULE EventServer_proofs -------------------------
(***************************************************************************)
(* The servers with an event loop, for any number of clients and messages. *)
(* The index i, which the chat servers use for two loops at a time, does   *)
(* not lead back: a batch has at most one event more than there are        *)
(* sockets, so with i behind the count the walk is over, and it starts     *)
(* again with a new batch.                                                 *)
(***************************************************************************)
EXTENDS EventServer, FiniteSetTheorems, WellFoundedInduction, TLAPS

(* No two connections have the same descriptor. *)
OwnDescriptors ==
    \A c, d \in Open : fd[c] \in Fds /\ (fd[c] = fd[d] => c = d)

(* The walk is within the batch. *)
InWalk == pc # "wait" => i < event_cnt

(* The batch is of the open connections and serv_sock. *)
BatchFits == "chats" \in program /\ pc # "wait" => event_cnt <= clnt_cnt + 1

IndInv == CountIsRegistered /\ OwnDescriptors /\ InWalk /\ BatchFits

-----------------------------------------------------------------------------
(* The numbers of descriptors. *)
LEMMA Bounds ==
    /\ MaxFd \in Nat /\ Fds = 1..MaxFd /\ SERV = MaxFd + 1
    /\ SERV \notin Fds /\ SERV # NONE /\ NONE \notin Fds
    /\ Fds \subseteq 0..MaxFd /\ NONE \in 0..MaxFd
  <1>1. MaxFd \in Nat
    BY ClientsAssumption, FS_CardinalityType DEF MaxFd
  <1> QED
    BY <1>1 DEF Fds, SERV, NONE

LEMMA OpenFinite ==
    /\ IsFiniteSet(Open) /\ Cardinality(Open) \in Nat /\ Cardinality(Open) <= MaxFd
    /\ (Open = {} <=> Cardinality(Open) = 0)
  <1>1. Open \in SUBSET Clients
    BY DEF Open
  <1> QED
    BY <1>1, ClientsAssumption, FS_Subset, FS_CardinalityType, FS_EmptySet DEF MaxFd

(* There is room for a client that is not connected yet. *)
LEMMA RoomForOne ==
    ASSUME NEW c \in Clients, conn[c] # "open"
    PROVE  Cardinality(Open) < MaxFd
  <1>1. Open \in SUBSET Clients /\ Open # Clients
    BY DEF Open
  <1>2. Cardinality(Open) <= MaxFd /\ Cardinality(Open) # MaxFd
    BY <1>1, ClientsAssumption, FS_Subset DEF MaxFd
  <1> QED
    BY <1>2, OpenFinite, Bounds

(* The descriptors of the connections are no more than the connections. *)
LEMMA Descriptors ==
    ASSUME OwnDescriptors, NEW S \in SUBSET Open
    PROVE  /\ IsFiniteSet({fd[c] : c \in S})
           /\ Cardinality({fd[c] : c \in S}) \in Nat
           /\ Cardinality({fd[c] : c \in S}) <= Cardinality(Open)
           /\ {fd[c] : c \in S} \subseteq Fds
  <1> DEFINE T == {fd[c] : c \in S}
             f == [c \in S |-> fd[c]]
  <1>1. IsFiniteSet(S) /\ Cardinality(S) <= Cardinality(Open)
    BY OpenFinite, FS_Subset
  <1>2. f \in Surjection(S, T)
    BY DEF Surjection
  <1>3. IsFiniteSet(T) /\ Cardinality(T) <= Cardinality(S)
    BY <1>1, <1>2, FS_Surjection
  <1>4. T \subseteq Fds
    BY DEF OwnDescriptors
  <1> QED
    BY <1>1, <1>3, <1>4, OpenFinite, FS_CardinalityType

(* The kernel's choice, the lowest descriptor, is one of the free ones. *)
LEMMA LowestIsFree ==
    ASSUME OwnDescriptors, Cardinality(Open) < MaxFd
    PROVE  LowestFree \in Fds /\ Behind(LowestFree) = {}
  <1> DEFINE free == {f \in Fds : Behind(f) = {}}
  <1>1. free # {}
    <2> SUFFICES ASSUME free = {} PROVE FALSE
      OBVIOUS
    <2>1. Fds \subseteq {fd[c] : c \in Open}
      BY DEF Behind
    <2>2. {fd[c] : c \in Open} = Fds
      BY <2>1, Descriptors
    <2>3. Cardinality(Fds) = MaxFd
      BY Bounds, FS_Interval
    <2>4. Cardinality(Fds) <= Cardinality(Open)
      <3> PICK T : T = {fd[c] : c \in Open}
        OBVIOUS
      <3>1. Cardinality(T) <= Cardinality(Open)
        BY Descriptors
      <3> QED
        BY <2>2, <3>1
    <2> QED
      BY <2>3, <2>4, OpenFinite, Bounds
  <1>2. free \subseteq Nat
    BY Bounds
  <1>3. PICK f \in free : \A g \in free : <<g, f>> \notin OpToRel(<, Nat)
    BY <1>1, <1>2, WFMin, NatLessThanWellFounded, Zenon
  <1>4. \A g \in free : ~(g < f)
    <2> TAKE g \in free
    <2>1. g \in Nat /\ f \in Nat
      BY <1>2
    <2> QED
      BY <1>3, <2>1 DEF OpToRel
  <1>5. f \in Fds /\ Behind(f) = {} /\ \A g \in 1..(f - 1) : Behind(g) # {}
    <2> SUFFICES ASSUME NEW g \in 1..(f - 1) PROVE Behind(g) # {}
      OBVIOUS
    <2>1. g \in Fds /\ g < f
      BY Bounds
    <2> QED
      BY <1>4, <2>1
  <1> QED
    BY <1>5, Zenon DEF LowestFree

(* The batch: each ready descriptor is in it, once. *)
LEMMA ReadyFits ==
    ASSUME OwnDescriptors
    PROVE  /\ IsFiniteSet(ReadyFds)
           /\ Cardinality(ReadyFds) \in Nat
           /\ Cardinality(ReadyFds) <= Cardinality(Open) + 1
           /\ ReadyFds \subseteq 1..SERV
           /\ (ReadyFds # {} => Cardinality(ReadyFds) > 0)
  <1> DEFINE T == {fd[c] : c \in Ready}
  <1>1. Ready \in SUBSET Open
    BY DEF Ready
  <1>2. /\ IsFiniteSet(T) /\ Cardinality(T) \in Nat
        /\ Cardinality(T) <= Cardinality(Open) /\ T \subseteq Fds
    BY <1>1, Descriptors
  <1>3. ReadyFds = T \/ ReadyFds = T \cup {SERV}
    BY DEF ReadyFds
  <1>4. IsFiniteSet(T \cup {SERV}) /\ Cardinality(T \cup {SERV}) \in Nat
        /\ Cardinality(T \cup {SERV}) <= Cardinality(T) + 1
    BY <1>2, FS_AddElement, FS_CardinalityType
  <1>5. T \subseteq 1..SERV /\ SERV \in 1..SERV
    BY <1>2, Bounds
  <1>6. IsFiniteSet(ReadyFds)
    BY <1>2, <1>3, <1>4
  <1>7. ReadyFds # {} => Cardinality(ReadyFds) # 0
    BY <1>6, FS_EmptySet
  <1> QED
    BY <1>2, <1>3, <1>4, <1>5, <1>7, OpenFinite

(* What SetToSeqs() orders is all there. *)
LEMMA InBatchOnce ==
    ASSUME NEW S, IsFiniteSet(S), NEW b \in SetToSeqs(S)
    PROVE  /\ Len(b) = Cardinality(S)
           /\ \A k \in 1..Len(b) : b[k] \in S
           /\ \A x \in S : \E k \in 1..Len(b) : b[k] = x
  <1> PICK n : n = Cardinality(S)
    OBVIOUS
  <1>1. n \in Nat
    BY FS_CardinalityType
  <1>2. b \in [1..n -> S] /\ \A j, k \in 1..n : j # k => b[j] # b[k]
    BY Zenon DEF SetToSeqs
  <1>3. b \in Injection(1..n, S)
    BY <1>2 DEF Injection, IsInjective
  <1>4. Cardinality(1..n) = Cardinality(S)
    BY <1>1, FS_Interval
  <1>5. b \in Surjection(1..n, S)
    BY <1>3, <1>4, FS_Injection
  <1>6. Len(b) = n
    BY <1>1, <1>2
  <1> QED
    BY <1>2, <1>5, <1>6 DEF Surjection
-----------------------------------------------------------------------------
LEMMA InitIndInv == Init => IndInv
  <1> SUFFICES ASSUME Init PROVE IndInv
    OBVIOUS
  <1>1. Open = {}
    BY DEF Init, Open
  <1>2. TypeOK
    BY <1>1, Bounds, MaxMsgsAssumption, SockCapAssumption DEF Init, TypeOK, NONE
  <1>3. "chats" \in program => clnt_cnt = Cardinality(Open)
    BY <1>1, FS_EmptySet DEF Init
  <1> QED
    BY <1>1, <1>2, <1>3
    DEF Init, IndInv, CountIsRegistered, OwnDescriptors, InWalk, BatchFits

(* tcp/tcp_epoll, which alone checks for errors, has no table and no edges. *)
LEMMA ChecksAlone ==
    ASSUME program \in Programs, "checks" \in program
    PROVE  "chats" \notin program /\ "drains" \notin program /\ "edge" \notin program
  BY DEF Programs, Copies, echo_epollserv, echo_epLTserv, tcp_epoll, echo_EDGEserv, echo_epETserv,
         chat_epLTserv, chat_epETserv, echo_selectserv, echo_selectserver, ch17_echo_epollserv,
         ch17_echo_EPLTserv, tcpC_tcp_epoll, ch17_echo_EDGEserv, ch17_echo_EPETserv,
         ch17_char_EPLTserv, ch17_char_EPETserv

(* Where the walk goes on, it is within the batch. *)
LEMMA GoesOn ==
    ASSUME TypeOK, NEW k \in Nat, GoOnAt(k), event_cnt' = event_cnt
    PROVE  /\ i' \in 0..MaxFd /\ pc' \in {"wait", "dispatch"}
           /\ (pc' # "wait" => i' = k /\ k < event_cnt)
  <1>1. event_cnt \in 0..(MaxFd + 1)
    BY DEF TypeOK
  <1> QED
    BY <1>1, Bounds DEF GoOnAt

(* After a write() the server stays with the message, the event or the walk. *)
LEMMA WrittenStays ==
    ASSUME TypeOK, pc = "send", Written
    PROVE  /\ to' \in 0..MaxFd
           /\ GoOnAt(i + 1) \/ (pc' \in {"drain", "send"} /\ i' = i)
           /\ "drains" \in program => pc' \in {"drain", "send"} /\ i' = i
           /\ "chats" \notin program => pc' # "send"
  <1>1. to \in 0..MaxFd /\ clnt_cnt \in 0..MaxFd
    BY DEF TypeOK
  <1>2. CASE to + 1 < Targets
    <2>1. "chats" \in program /\ to + 1 < clnt_cnt
      BY <1>1, <1>2, Bounds DEF Targets
    <2>2. to + 1 \in 0..MaxFd
      BY <1>1, <2>1, Bounds
    <2> QED
      BY <1>2, <2>1, <2>2 DEF Written
  <1>3. CASE ~(to + 1 < Targets)
    <2>1. to' = 0 /\ IF "drains" \in program THEN pc' = "drain" /\ i' = i ELSE GoOnAt(i + 1)
      BY <1>3 DEF Written
    <2>2. GoOnAt(i + 1) => pc' # "send"
      BY DEF GoOnAt
    <2> QED
      BY <2>1, <2>2, Bounds
  <1> QED
    BY <1>2, <1>3

(* The types where the connections stay as they are and the walk goes on. *)
LEMMA ServingKeeps ==
    ASSUME IndInv, pc # "wait",
           UNCHANGED <<program, conn, left, nsent, fd, ep, event_cnt, clnt_sock, table, hasty>>,
           inbox' \in [Clients -> Seq(1..MaxMsgs)],
           unread' \in [Clients -> 0..SockCap],
           err' \in [Clients -> {"none", "reset", "pipe"}],
           edge' \subseteq Open, skipped' \subseteq Clients, to' \in 0..MaxFd,
           \/ GoOnAt(i + 1)
           \/ pc' \in {"drain", "send", "killed", "ended"} /\ i' = i
    PROVE  IndInv'
  <1>1. TypeOK /\ i + 1 \in Nat
    BY DEF IndInv, CountIsRegistered, TypeOK
  <1>2. Open' = Open
    BY DEF Open
  <1>3. /\ i' \in 0..MaxFd /\ pc' \in {"wait", "dispatch", "drain", "send", "killed", "ended"}
        /\ (pc' # "wait" => i' < event_cnt)
    <2>1. CASE GoOnAt(i + 1)
      BY <1>1, <2>1, GoesOn
    <2>2. CASE pc' \in {"drain", "send", "killed", "ended"} /\ i' = i
      BY <1>1, <2>2 DEF IndInv, InWalk, TypeOK
    <2> QED
      BY <2>1, <2>2
  <1>4. TypeOK'
    BY <1>1, <1>2, <1>3 DEF TypeOK, table
  <1>5. OwnDescriptors' /\ InWalk' /\ BatchFits'
    BY <1>2, <1>3 DEF IndInv, OwnDescriptors, InWalk, BatchFits, table
  <1>6. ("chats" \in program => clnt_cnt = Cardinality(Open))'
    BY <1>2 DEF IndInv, CountIsRegistered, table
  <1> QED
    BY <1>4, <1>5, <1>6 DEF IndInv, CountIsRegistered

(* What is left of a sequence. *)
LEMMA TailTyped ==
    ASSUME NEW S, NEW s \in Seq(S), s # << >>
    PROVE  Tail(s) \in Seq(S)
  OBVIOUS

LEMMA ReadKeeps == IndInv /\ (Read \/ ReadAgain \/ ReadFails \/ AcceptFails) => IndInv'
  <1> SUFFICES ASSUME IndInv, Read \/ ReadAgain \/ ReadFails \/ AcceptFails PROVE IndInv'
    OBVIOUS
  <1>1. TypeOK
    BY DEF IndInv, CountIsRegistered
  <1>2. pc # "wait" /\ UNCHANGED <<program, conn, left, nsent, fd, ep, event_cnt, clnt_sock, table, hasty>>
    BY DEF Read, ReadAgain, ReadFails, AcceptFails, clients, sockets
  <1>3. UNCHANGED <<unread, edge, skipped, to>>
    BY DEF Read, ReadAgain, ReadFails, AcceptFails, events, sockets
  <1>4. inbox' \in [Clients -> Seq(1..MaxMsgs)]
    <2>1. CASE Read
      <3> PICK c \in Behind(ep[i]) : inbox[c] # << >> /\ inbox' = [inbox EXCEPT ![c] = Tail(@)]
        BY <2>1 DEF Read
      <3>1. c \in Clients
        BY DEF Behind, Open
      <3>2. Tail(inbox[c]) \in Seq(1..MaxMsgs)
        BY <1>1, <3>1, TailTyped DEF TypeOK
      <3> QED
        BY <1>1, <3>2 DEF TypeOK
    <2>2. CASE ReadAgain \/ ReadFails \/ AcceptFails
      BY <1>1, <2>2 DEF ReadAgain, ReadFails, AcceptFails, clients, TypeOK
    <2> QED
      BY <2>1, <2>2
  <1>5. err' \in [Clients -> {"none", "reset", "pipe"}]
    BY <1>1 DEF Read, ReadAgain, ReadFails, AcceptFails, sockets, TypeOK
  <1>6. GoOnAt(i + 1) \/ (pc' \in {"drain", "send", "killed", "ended"} /\ i' = i)
    BY DEF Read, ReadAgain, ReadFails, AcceptFails
  <1>7. edge' \subseteq Open /\ skipped' \subseteq Clients /\ to' \in 0..MaxFd
        /\ unread' \in [Clients -> 0..SockCap]
    BY <1>1, <1>3 DEF TypeOK
  <1> QED
    BY <1>2, <1>4, <1>5, <1>6, <1>7, ServingKeeps

LEMMA WriteKeeps ==
    IndInv /\ (Write \/ WriteNowhere \/ WriteUnheard \/ WriteKills) => IndInv'
  <1> SUFFICES ASSUME IndInv, Write \/ WriteNowhere \/ WriteUnheard \/ WriteKills PROVE IndInv'
    OBVIOUS
  <1>1. TypeOK
    BY DEF IndInv, CountIsRegistered
  <1>2. /\ UNCHANGED <<program, conn, left, nsent, fd, ep, event_cnt, clnt_sock, table, hasty>>
        /\ pc = "send" /\ inbox' = inbox
    BY DEF Write, WriteNowhere, WriteUnheard, WriteKills, clients, sockets
  <1>3. unread' \in [Clients -> 0..SockCap]
    <2>1. CASE Write
      <3> PICK c \in Behind(Target) \ left :
            \/ ~Full(c) /\ unread' = [unread EXCEPT ![c] = @ + 1]
            \/ unread' = unread
        BY <2>1 DEF Write
      <3>1. c \in Clients /\ unread[c] \in 0..SockCap
        BY <1>1 DEF Behind, Open, TypeOK
      <3>2. ~Full(c) => unread[c] + 1 \in 0..SockCap
        BY <3>1, SockCapAssumption DEF Full
      <3> QED
        BY <1>1, <3>2 DEF TypeOK
    <2>2. CASE WriteNowhere \/ WriteUnheard \/ WriteKills
      BY <1>1, <2>2 DEF WriteNowhere, WriteUnheard, WriteKills, sockets, TypeOK
    <2> QED
      BY <2>1, <2>2
  <1>4. /\ err' \in [Clients -> {"none", "reset", "pipe"}]
        /\ edge' \subseteq Open /\ skipped' \subseteq Clients
    <2>1. CASE WriteUnheard
      <3> PICK c \in Behind(Target) :
            \/ UNCHANGED <<err, events>>
            \/ err' = [err EXCEPT ![c] = "pipe"] /\ Signal(c)
        BY <2>1 DEF WriteUnheard
      <3> QED
        BY <1>1 DEF TypeOK, events, Signal, Open, Behind
    <2>2. CASE Write \/ WriteNowhere \/ WriteKills
      BY <1>1, <2>2 DEF Write, WriteNowhere, WriteKills, sockets, events, TypeOK
    <2> QED
      BY <2>1, <2>2
  <1>5. /\ to' \in 0..MaxFd
        /\ GoOnAt(i + 1) \/ (pc' \in {"drain", "send", "killed", "ended"} /\ i' = i)
    <2>1. CASE WriteKills
      BY <1>1, <2>1 DEF WriteKills, TypeOK
    <2>2. CASE Write \/ WriteNowhere \/ WriteUnheard
      <3>1. Written
        BY <2>2 DEF Write, WriteNowhere, WriteUnheard
      <3> QED
        BY <1>1, <1>2, <3>1, WrittenStays
    <2> QED
      BY <2>1, <2>2
  <1>6. inbox' \in [Clients -> Seq(1..MaxMsgs)]
    BY <1>1, <1>2 DEF TypeOK
  <1> QED
    BY <1>2, <1>3, <1>4, <1>5, <1>6, ServingKeeps

LEMMA EpollWaitKeeps == IndInv /\ EpollWait => IndInv'
  <1> SUFFICES ASSUME IndInv, EpollWait PROVE IndInv'
    OBVIOUS
  <1>1. TypeOK /\ OwnDescriptors
    BY DEF IndInv, CountIsRegistered
  <1> PICK b \in SetToSeqs(ReadyFds) :
        ep' = [k \in DOMAIN ep |-> IF k < Len(b) THEN b[k + 1] ELSE ep[k]]
    BY DEF EpollWait
  <1>2. /\ Len(b) = Cardinality(ReadyFds) /\ Len(b) \in Nat
        /\ 0 < Len(b) /\ Len(b) <= Cardinality(Open) + 1
        /\ \A k \in 1..Len(b) : b[k] \in 1..SERV
    BY <1>1, ReadyFits, InBatchOnce DEF EpollWait
  <1>3. ep' \in [0..MaxFd -> 0..SERV]
    <2>1. \A k \in 0..MaxFd : k < Len(b) => b[k + 1] \in 0..SERV
      BY <1>2, Bounds
    <2> QED
      BY <1>1, <2>1 DEF TypeOK
  <1>4. Open' = Open
    BY DEF EpollWait, clients, Open
  <1>5. TypeOK'
    <2>1. event_cnt' \in 0..(MaxFd + 1) /\ i' \in 0..MaxFd /\ pc' = "dispatch"
      BY <1>2, OpenFinite, Bounds DEF EpollWait
    <2>2. edge' \subseteq Open' /\ skipped' \subseteq Clients
      BY <1>1 DEF EpollWait, TypeOK
    <2> QED
      BY <1>1, <1>3, <2>1, <2>2 DEF EpollWait, clients, sockets, table, TypeOK
  <1>6. /\ pc' # "wait" => i' < event_cnt'
        /\ "chats" \in program' => clnt_cnt' = Cardinality(Open') /\ event_cnt' <= clnt_cnt' + 1
    BY <1>2, <1>4 DEF IndInv, CountIsRegistered, EpollWait, table
  <1>7. OwnDescriptors'
    BY <1>1, <1>4 DEF OwnDescriptors, EpollWait
  <1> QED
    BY <1>5, <1>6, <1>7 DEF IndInv, CountIsRegistered, InWalk, BatchFits

LEMMA AcceptKeeps == IndInv /\ Accept => IndInv'
  <1> SUFFICES ASSUME IndInv, Accept PROVE IndInv'
    OBVIOUS
  <1>1. TypeOK /\ OwnDescriptors
    BY DEF IndInv, CountIsRegistered
  <1> PICK c \in Queued :
        /\ clnt_sock' = LowestFree
        /\ conn' = [conn EXCEPT ![c] = "open"]
        /\ fd' = [fd EXCEPT ![c] = clnt_sock']
        /\ edge' = IF "edge" \in program /\ Readable(c) THEN edge \cup {c} ELSE edge
        /\ IF "chats" \in program
             THEN /\ clnt_socks' = [clnt_socks EXCEPT ![clnt_cnt] = clnt_sock']
                  /\ clnt_cnt' = clnt_cnt + 1
             ELSE UNCHANGED table
    BY DEF Accept
  <1>2. c \in Clients /\ conn[c] = "queued" /\ c \notin Open
    BY DEF Queued, Open
  <1>3. Open' = Open \cup {c}
    BY <1>1, <1>2 DEF TypeOK, Open
  <1>4. Cardinality(Open') = Cardinality(Open) + 1 /\ Cardinality(Open) < MaxFd
    BY <1>2, <1>3, RoomForOne, OpenFinite, FS_AddElement
  <1> PICK f \in Fds : f = LowestFree /\ Behind(f) = {}
    BY <1>1, <1>4, LowestIsFree
  <1>5. fd' = [fd EXCEPT ![c] = f] /\ \A d \in Open : fd[d] # f
    BY DEF Behind
  <1>6. /\ i' \in 0..MaxFd /\ pc' \in {"wait", "dispatch"}
        /\ (pc' # "wait" => i' = i + 1 /\ i + 1 < event_cnt)
    BY <1>1, GoesOn DEF Accept, TypeOK
  <1>7. "chats" \in program => clnt_cnt = Cardinality(Open)
    BY DEF IndInv, CountIsRegistered
  <1>8. TypeOK'
    <2>1. /\ conn' \in [Clients -> {"new", "queued", "open", "closed"}]
          /\ fd' \in [Clients -> 0..MaxFd] /\ clnt_sock' \in 0..MaxFd
      <3>1. f \in 0..MaxFd /\ clnt_sock' = f
        BY Bounds
      <3> QED
        BY <1>1, <1>2, <1>5, <3>1 DEF TypeOK
    <2>2. edge' \subseteq Open'
      BY <1>1, <1>3 DEF TypeOK
    <2>3. clnt_cnt' \in 0..MaxFd /\ clnt_socks' \in [0..MaxFd -> 0..MaxFd]
      <3>1. CASE "chats" \in program
        <4>1. clnt_cnt \in 0..MaxFd /\ clnt_cnt + 1 \in 0..MaxFd
          BY <1>4, <1>7, <3>1, OpenFinite, Bounds
        <4>2. clnt_cnt' \in 0..MaxFd
          BY <1>1, <3>1, <4>1
        <4>3. clnt_socks' \in [0..MaxFd -> 0..MaxFd]
          <5>1. clnt_socks' = [clnt_socks EXCEPT ![clnt_cnt] = f] /\ f \in 0..MaxFd
            BY <1>5, <2>1, <3>1, Bounds
          <5>2. clnt_socks \in [0..MaxFd -> 0..MaxFd]
            BY <1>1 DEF TypeOK
          <5> QED
            BY <4>1, <5>1, <5>2
        <4> QED
          BY <4>2, <4>3
      <3>2. CASE "chats" \notin program
        BY <1>1, <3>2 DEF TypeOK, table
      <3> QED
        BY <3>1, <3>2
    <2>4. UNCHANGED <<program, left, nsent, inbox, unread, err, hasty, skipped, ep, event_cnt, to>>
      BY DEF Accept, sockets
    <2> QED
      BY <1>1, <1>6, <2>1, <2>2, <2>3, <2>4 DEF TypeOK
  <1>9. OwnDescriptors'
    BY <1>1, <1>2, <1>3, <1>5 DEF OwnDescriptors, TypeOK
  <1>10. "chats" \in program' => clnt_cnt' = Cardinality(Open') /\ clnt_cnt' = clnt_cnt + 1
    BY <1>4, <1>7 DEF Accept
  <1>11. InWalk' /\ BatchFits'
    <2>1. program' = program /\ event_cnt' = event_cnt /\ pc # "wait"
      BY DEF Accept
    <2> QED
      <3>1. event_cnt \in Nat /\ clnt_cnt \in Nat
        BY <1>1, Bounds DEF TypeOK
      <3> QED
        BY <1>6, <1>10, <2>1, <3>1 DEF IndInv, InWalk, BatchFits
  <1> QED
    BY <1>8, <1>9, <1>10, <1>11 DEF IndInv, CountIsRegistered

(* A removal leaves i behind the count, and so the walk is over. *)
LEMMA RemovalEndsTheBatch ==
    ASSUME IndInv, CloseClient, "chats" \in program
    PROVE  pc' = "wait"
  <1>1. event_cnt \in Nat /\ clnt_cnt \in Nat
    BY Bounds DEF IndInv, CountIsRegistered, TypeOK
  <1>2. pc # "wait" /\ GoOnAt(clnt_cnt + 1)
    BY DEF CloseClient
  <1>3. ~(clnt_cnt + 1 < event_cnt)
    BY <1>1, <1>2 DEF IndInv, BatchFits
  <1> QED
    BY <1>2, <1>3 DEF GoOnAt

LEMMA ShiftedTyped ==
    ASSUME TypeOK
    PROVE  Shifted \in [0..MaxFd -> 0..MaxFd]
  <1> DEFINE closed(first) ==
        [k \in DOMAIN clnt_socks |->
            IF first < k /\ k < clnt_cnt THEN clnt_socks[k + 1] ELSE clnt_socks[k]]
  <1>1. \A first : closed(first) \in [0..MaxFd -> 0..MaxFd]
    <2> TAKE first
    <2>1. \A k \in 0..MaxFd : k < clnt_cnt => k + 1 \in 0..MaxFd
      BY Bounds DEF TypeOK
    <2> QED
      BY Bounds, <2>1 DEF TypeOK
  <1>2. clnt_socks \in [0..MaxFd -> 0..MaxFd]
    BY DEF TypeOK
  <1> HIDE DEF closed
  <1>3. Shifted = clnt_socks \/ \E first : Shifted = closed(first)
    BY Zenon DEF Shifted, closed
  <1> QED
    BY <1>1, <1>2, <1>3

(* A connection is closed, and the walk goes on or, in the chat servers, ends. *)
LEMMA ClosingKeeps ==
    ASSUME IndInv, NEW c \in Open,
           conn' = [conn EXCEPT ![c] = "closed"],
           fd' = [fd EXCEPT ![c] = NONE],
           err' = [err EXCEPT ![c] = "none"],
           edge' = edge \ {c},
           UNCHANGED <<program, left, nsent, inbox, unread, hasty, ep, event_cnt, clnt_sock>>,
           skipped' \subseteq Clients, to' \in 0..MaxFd, i' \in 0..MaxFd,
           pc' \in {"wait", "dispatch"}, pc' # "wait" => i' < event_cnt,
           IF "chats" \in program
             THEN clnt_socks' = Shifted /\ clnt_cnt' = clnt_cnt - 1 /\ pc' = "wait"
             ELSE UNCHANGED table
    PROVE  IndInv'
  <1>1. TypeOK /\ OwnDescriptors /\ c \in Clients
    BY DEF IndInv, CountIsRegistered, Open
  <1>2. Open' = Open \ {c}
    BY <1>1 DEF TypeOK, Open
  <1>3. Cardinality(Open') = Cardinality(Open) - 1
    BY <1>2, OpenFinite, FS_RemoveElement
  <1>4. "chats" \in program => clnt_cnt = Cardinality(Open)
    BY DEF IndInv, CountIsRegistered
  <1>5. TypeOK'
    <2>1. /\ conn' \in [Clients -> {"new", "queued", "open", "closed"}]
          /\ fd' \in [Clients -> 0..MaxFd] /\ edge' \subseteq Open'
          /\ err' \in [Clients -> {"none", "reset", "pipe"}]
      <3>1. NONE \in 0..MaxFd
        BY Bounds
      <3> QED
        BY <1>1, <1>2, <3>1 DEF TypeOK
    <2>2. clnt_cnt' \in 0..MaxFd /\ clnt_socks' \in [0..MaxFd -> 0..MaxFd]
      <3>1. CASE "chats" \in program
        <4>1. Cardinality(Open) > 0
          BY OpenFinite
        <4>2. Shifted \in [0..MaxFd -> 0..MaxFd]
          BY <1>1, ShiftedTyped
        <4>3. Cardinality(Open) - 1 \in 0..MaxFd
          BY <4>1, OpenFinite, Bounds
        <4> QED
          BY <1>4, <3>1, <4>2, <4>3
      <3>2. CASE "chats" \notin program
        BY <1>1, <3>2 DEF table, TypeOK
      <3> QED
        BY <3>1, <3>2
    <2> QED
      BY <1>1, <2>1, <2>2 DEF TypeOK
  <1>6. OwnDescriptors'
    BY <1>1, <1>2 DEF OwnDescriptors, TypeOK
  <1>7. ("chats" \in program => clnt_cnt = Cardinality(Open))'
    BY <1>3, <1>4
  <1>8. InWalk' /\ BatchFits'
    BY DEF InWalk, BatchFits
  <1> QED
    BY <1>5, <1>6, <1>7, <1>8 DEF IndInv, CountIsRegistered

LEMMA CloseKeeps == IndInv /\ CloseClient => IndInv'
  <1> SUFFICES ASSUME IndInv, CloseClient PROVE IndInv'
    OBVIOUS
  <1>1. TypeOK
    BY DEF IndInv, CountIsRegistered
  <1> PICK c \in Behind(ep[i]) :
        /\ conn' = [conn EXCEPT ![c] = "closed"]
        /\ fd' = [fd EXCEPT ![c] = NONE]
        /\ err' = [err EXCEPT ![c] = "none"]
        /\ edge' = edge \ {c}
    BY DEF CloseClient
  <1>2. c \in Open
    BY DEF Behind
  <1>3. UNCHANGED <<program, left, nsent, inbox, unread, hasty, ep, event_cnt, to, clnt_sock>>
    BY DEF CloseClient
  <1>4. PICK k \in Nat : GoOnAt(k)
    <2>1. clnt_cnt + 1 \in Nat /\ i + 1 \in Nat
      BY <1>1, Bounds DEF TypeOK
    <2>2. GoOnAt(clnt_cnt + 1) \/ GoOnAt(i + 1)
      BY DEF CloseClient
    <2> QED
      BY <2>1, <2>2
  <1>5. i' \in 0..MaxFd /\ pc' \in {"wait", "dispatch"} /\ (pc' # "wait" => i' < event_cnt)
    BY <1>1, <1>3, <1>4, GoesOn
  <1>6. skipped' \subseteq Clients /\ to' \in 0..MaxFd
    <2>1. PassedOver(clnt_cnt + 1) \subseteq Clients
      BY DEF PassedOver, Behind, Open
    <2> QED
      BY <1>1, <1>3, <2>1 DEF CloseClient, TypeOK
  <1>7. IF "chats" \in program
          THEN clnt_socks' = Shifted /\ clnt_cnt' = clnt_cnt - 1 /\ pc' = "wait"
          ELSE UNCHANGED table
    BY RemovalEndsTheBatch DEF CloseClient
  <1> QED
    BY <1>2, <1>3, <1>5, <1>6, <1>7, ClosingKeeps

LEMMA WriteFailsKeeps == IndInv /\ WriteFails => IndInv'
  <1> SUFFICES ASSUME IndInv, WriteFails PROVE IndInv'
    OBVIOUS
  <1>1. TypeOK /\ program \in Programs /\ pc = "send" /\ Written
    BY DEF IndInv, CountIsRegistered, WriteFails, TypeOK
  <1>2. UNCHANGED <<program, left, nsent, inbox, unread, hasty, skipped, ep, event_cnt, clnt_sock, table>>
    BY DEF WriteFails
  <1> PICK c \in Behind(Target) :
        IF "checks" \in program
          THEN /\ conn' = [conn EXCEPT ![c] = "closed"]
               /\ fd' = [fd EXCEPT ![c] = NONE]
               /\ err' = [err EXCEPT ![c] = "none"]
               /\ edge' = edge \ {c}
          ELSE err' = [err EXCEPT ![c] = "pipe"] /\ UNCHANGED <<conn, fd, edge>>
    BY DEF WriteFails
  <1>3. c \in Open /\ c \in Clients
    BY DEF Behind, Open
  <1>4. to' \in 0..MaxFd /\ skipped' \subseteq Clients
    BY <1>1, <1>2, WrittenStays DEF TypeOK
  <1>5. CASE "checks" \in program
    <2>1. "chats" \notin program /\ "drains" \notin program
      BY <1>1, <1>5, ChecksAlone
    <2>2. GoOnAt(i + 1)
      BY <1>1, <2>1, WrittenStays DEF Written, Targets, TypeOK
    <2>3. i + 1 \in Nat
      BY <1>1 DEF TypeOK
    <2>4. i' \in 0..MaxFd /\ pc' \in {"wait", "dispatch"} /\ (pc' # "wait" => i' < event_cnt)
      BY <1>1, <1>2, <2>2, <2>3, GoesOn
    <2>5. UNCHANGED table
      BY <1>2
    <2> QED
      BY <1>2, <1>3, <1>4, <1>5, <2>1, <2>4, <2>5, ClosingKeeps
  <1>6. CASE "checks" \notin program
    <2>1. GoOnAt(i + 1) \/ (pc' \in {"drain", "send"} /\ i' = i)
      BY <1>1, WrittenStays
    <2>2. /\ err' \in [Clients -> {"none", "reset", "pipe"}] /\ edge' \subseteq Open
          /\ inbox' \in [Clients -> Seq(1..MaxMsgs)] /\ unread' \in [Clients -> 0..SockCap]
      BY <1>1, <1>2, <1>3, <1>6 DEF TypeOK
    <2>3. UNCHANGED <<conn, fd>>
      BY <1>6
    <2> QED
      BY <1>1, <1>2, <1>4, <2>1, <2>2, <2>3, ServingKeeps
  <1> QED
    BY <1>5, <1>6

LEMMA NextKeepsIndInv == IndInv /\ [Next]_vars => IndInv'
  <1> SUFFICES ASSUME IndInv, [Next]_vars PROVE IndInv'
    OBVIOUS
  <1>0. TypeOK
    BY DEF IndInv, CountIsRegistered
  <1>1. CASE Server
    BY <1>1, EpollWaitKeeps, AcceptKeeps, CloseKeeps, ReadKeeps, WriteKeeps, WriteFailsKeeps DEF Server
  <1>5. ASSUME NEW c \in Clients, Connect(c) \/ Send(c) \/ Hear(c) \/ Leave(c) PROVE IndInv'
    <2>1. /\ UNCHANGED <<program, fd, ep, event_cnt, i, pc, to, clnt_sock, clnt_socks, clnt_cnt>>
      BY <1>5 DEF Connect, Send, Hear, Leave, table
    <2>2. Open' = Open /\ conn' \in [Clients -> {"new", "queued", "open", "closed"}]
      BY <1>0, <1>5 DEF Connect, Send, Hear, Leave, clients, TypeOK, Open
    <2>3. edge' \subseteq Open /\ skipped' \subseteq Clients
      BY <1>0, <1>5 DEF Connect, Send, Hear, Leave, Signal, events, TypeOK, Open
    <2>6. left' \subseteq Clients /\ hasty' \subseteq left'
      BY <1>0, <1>5 DEF Connect, Send, Hear, Leave, clients, sockets, TypeOK
    <2>7. /\ unread' \in [Clients -> 0..SockCap]
          /\ err' \in [Clients -> {"none", "reset", "pipe"}]
      <3>1. CASE Hear(c)
        <4>1. unread[c] \in 0..SockCap /\ unread[c] > 0
          BY <1>0, <3>1 DEF Hear, TypeOK
        <4>2. unread[c] - 1 \in 0..SockCap
          BY <4>1, SockCapAssumption
        <4> QED
          BY <1>0, <3>1, <4>2 DEF Hear, TypeOK
      <3>2. CASE Connect(c) \/ Send(c)
        BY <1>0, <3>2 DEF Connect, Send, sockets, TypeOK
      <3>3. CASE Leave(c)
        <4>1. 0 \in 0..SockCap
          BY SockCapAssumption
        <4>2. unread' = [unread EXCEPT ![c] = 0]
              /\ err' = IF unread[c] > 0 THEN [err EXCEPT ![c] = "reset"] ELSE err
          BY <3>3 DEF Leave
        <4> QED
          BY <1>0, <4>1, <4>2 DEF TypeOK
      <3> QED
        BY <1>5, <3>1, <3>2, <3>3
    <2>4. nsent' \in 0..MaxMsgs /\ inbox' \in [Clients -> Seq(1..MaxMsgs)]
      <3>1. CASE Send(c)
        <4>1. nsent' \in 1..MaxMsgs /\ nsent' = nsent + 1
          BY <1>0, <3>1, MaxMsgsAssumption DEF Send, TypeOK
        <4>2. Append(inbox[c], nsent') \in Seq(1..MaxMsgs)
          BY <1>0, <4>1 DEF TypeOK
        <4>3. inbox' = [inbox EXCEPT ![c] = Append(inbox[c], nsent')]
          BY <3>1, <4>1 DEF Send
        <4> QED
          BY <1>0, <4>1, <4>2, <4>3 DEF TypeOK
      <3>2. CASE Connect(c) \/ Hear(c) \/ Leave(c)
        BY <1>0, <3>2 DEF Connect, Hear, Leave, clients, TypeOK
      <3> QED
        BY <1>5, <3>1, <3>2
    <2>5. TypeOK'
      BY <1>0, <2>1, <2>2, <2>3, <2>4, <2>6, <2>7 DEF TypeOK
    <2> QED
      BY <2>1, <2>2, <2>5 DEF IndInv, CountIsRegistered, OwnDescriptors, InWalk, BatchFits
  <1>6. CASE UNCHANGED vars
    <2>1. Open' = Open
      BY <1>6 DEF vars, clients, Open
    <2> QED
      BY <1>6, <2>1
      DEF vars, clients, sockets, events, table, IndInv, CountIsRegistered, TypeOK, OwnDescriptors, InWalk, BatchFits
  <1> QED
    BY <1>1, <1>5, <1>6 DEF Next

-----------------------------------------------------------------------------
(* What the walk jumps over is all that the rest of the batch loses. *)
LEMMA JumpedOver ==
    ASSUME IndInv, NEW k \in Nat, GoOnAt(k), i < k, event_cnt' = event_cnt, ep' = ep,
           NEW c \in Open, InBatch(c), fd'[c] = fd[c], ep[i] # fd[c]
    PROVE  InBatch(c)' \/ c \in PassedOver(k)
  <1>1. event_cnt \in Nat /\ i \in Nat
    BY Bounds DEF IndInv, CountIsRegistered, TypeOK
  <1> PICK n \in i..(event_cnt - 1) : ep[n] = fd[c]
    BY DEF InBatch
  <1>2. n # i /\ n \in Nat /\ i < n /\ n < event_cnt
    BY <1>1
  <1>3. CASE n < k
    <2>1. n \in {j \in 0..(event_cnt - 1) : i < j /\ j < k} /\ c \in Behind(ep[n])
      BY <1>1, <1>2, <1>3 DEF Behind
    <2> QED
      BY <2>1 DEF PassedOver
  <1>4. CASE ~(n < k)
    <2>1. i' = k /\ pc' = "dispatch" /\ n \in k..(event_cnt - 1)
      BY <1>1, <1>2, <1>4 DEF GoOnAt
    <2> QED
      BY <2>1 DEF InBatch
  <1> QED
    BY <1>3, <1>4

(* On to the next event nothing is jumped over. *)
LEMMA NothingPassed == ASSUME i \in Nat PROVE PassedOver(i + 1) = {}
  <1>1. {j \in 0..(event_cnt - 1) : i < j /\ j < i + 1} = {}
    OBVIOUS
  <1> QED
    BY <1>1 DEF PassedOver

(* While the server stays with an event, the batch stays as it is. *)
LEMMA BatchStays ==
    ASSUME NEW c, InBatch(c), pc' # "wait", UNCHANGED <<i, event_cnt, ep>>, fd'[c] = fd[c]
    PROVE  InBatch(c)'
  BY DEF InBatch

LEMMA NextKeepsAnnounced ==
    IndInv /\ UnreadIsAnnounced /\ [Next]_vars => UnreadIsAnnounced'
  <1> SUFFICES ASSUME IndInv, UnreadIsAnnounced, [Next]_vars PROVE UnreadIsAnnounced'
    OBVIOUS
  <1>a. program' = program
    <2>1. CASE Server
      BY <2>1 DEF Server, EpollWait, Accept, AcceptFails, Read, ReadAgain, ReadFails, CloseClient,
                  Write, WriteNowhere, WriteUnheard, WriteFails, WriteKills
    <2>2. ASSUME NEW d \in Clients, Connect(d) \/ Send(d) \/ Hear(d) \/ Leave(d)
          PROVE  program' = program
      BY <2>2 DEF Connect, Send, Hear, Leave
    <2>3. CASE UNCHANGED vars
      BY <2>3 DEF vars
    <2> QED
      BY <2>1, <2>2, <2>3 DEF Next
  <1> SUFFICES ASSUME "edge" \in program, "drains" \in program, NEW c \in Open', Readable(c)'
               PROVE  c \in edge' \/ InBatch(c)' \/ c \in skipped'
    BY <1>a DEF UnreadIsAnnounced
  <1>0. TypeOK /\ OwnDescriptors /\ i \in Nat
    BY DEF IndInv, CountIsRegistered, TypeOK
  <1>1. c \in Clients
    BY DEF Open
  <1>2. ASSUME c \in Open, Readable(c) PROVE c \in edge \/ InBatch(c) \/ c \in skipped
    BY <1>2 DEF UnreadIsAnnounced
  <1>3. CASE EpollWait
    <2>1. c \in Open /\ Readable(c) /\ pc = "wait"
      BY <1>3 DEF EpollWait, clients, Open, Readable
    <2>2. c \in edge \/ c \in skipped
      BY <1>2, <2>1 DEF InBatch
    <2>3. CASE c \in edge
      <3> PICK b \in SetToSeqs(ReadyFds) :
            ep' = [k \in DOMAIN ep |-> IF k < Len(b) THEN b[k + 1] ELSE ep[k]]
        BY <1>3 DEF EpollWait
      <3>1. fd[c] \in ReadyFds
        BY <2>1, <2>3 DEF ReadyFds, Ready
      <3>2. /\ Len(b) = Cardinality(ReadyFds) /\ Len(b) \in Nat /\ Len(b) <= MaxFd + 1
            /\ \E l \in 1..Len(b) : b[l] = fd[c]
        BY <1>0, <3>1, ReadyFits, InBatchOnce, OpenFinite, Bounds
      <3> PICK l \in 1..Len(b) : b[l] = fd[c]
        BY <3>2
      <3>3. l - 1 \in 0..MaxFd /\ l - 1 < Len(b) /\ (l - 1) + 1 = l /\ l - 1 \in 0..(Len(b) - 1)
        BY <3>2, Bounds
      <3>4. ep'[l - 1] = fd[c]
        BY <1>0, <3>3 DEF TypeOK
      <3>5. pc' # "wait" /\ i' = 0 /\ event_cnt' = Len(b) /\ fd' = fd
        BY <1>3, <3>2 DEF EpollWait
      <3> QED
        BY <3>3, <3>4, <3>5 DEF InBatch
    <2>4. CASE c \notin edge
      BY <1>3, <2>2, <2>4 DEF EpollWait
    <2> QED
      BY <2>3, <2>4
  <1>4. CASE Accept
    <2> PICK d \in Queued :
          /\ clnt_sock' = LowestFree
          /\ conn' = [conn EXCEPT ![d] = "open"]
          /\ fd' = [fd EXCEPT ![d] = clnt_sock']
          /\ edge' = IF "edge" \in program /\ Readable(d) THEN edge \cup {d} ELSE edge
      BY <1>4 DEF Accept
    <2>1. GoOnAt(i + 1) /\ UNCHANGED <<left, inbox, skipped, ep, event_cnt>> /\ ep[i] = SERV
      BY <1>4 DEF Accept
    <2>2. CASE c = d
      BY <2>1, <2>2 DEF Readable
    <2>3. CASE c # d
      <3>1. c \in Open /\ Readable(c) /\ fd'[c] = fd[c]
        BY <1>0, <2>1, <2>3 DEF Open, Readable, TypeOK
      <3>2. ep[i] # fd[c]
        BY <1>0, <2>1, <3>1, Bounds DEF OwnDescriptors
      <3>3. i + 1 \in Nat /\ i < i + 1
        BY <1>0
      <3>4. c \in edge => c \in edge'
        OBVIOUS
      <3> QED
        BY <1>0, <1>2, <2>1, <3>1, <3>2, <3>3, <3>4, JumpedOver, NothingPassed
    <2> QED
      BY <2>2, <2>3
  <1>5. CASE Read
    <2> PICK d \in Behind(ep[i]) : inbox' = [inbox EXCEPT ![d] = Tail(@)]
      BY <1>5 DEF Read
    <2>1. /\ c \in Open /\ UNCHANGED <<left, fd, edge, skipped, ep, event_cnt, i>>
          /\ pc' # "wait" /\ pc # "wait"
      BY <1>5 DEF Read, Open, events
    <2>2. CASE c = d
      <3>1. i < event_cnt /\ event_cnt \in Nat /\ ep[i] = fd[c]
        <4>1. event_cnt \in Nat
          BY <1>0, Bounds DEF TypeOK
        <4>2. i < event_cnt
          BY <2>1 DEF IndInv, InWalk
        <4>3. ep[i] = fd[c]
          BY <2>2 DEF Behind
        <4> QED
          BY <4>1, <4>2, <4>3
      <3>2. i \in i..(event_cnt - 1)
        BY <1>0, <3>1
      <3> QED
        BY <2>1, <3>1, <3>2 DEF InBatch
    <2>3. CASE c # d
      <3>1. Readable(c)
        BY <1>0, <1>1, <2>1, <2>3 DEF Readable, Behind, Open, TypeOK
      <3> QED
        BY <1>2, <2>1, <3>1, BatchStays
    <2> QED
      BY <2>2, <2>3
  <1>6. CASE AcceptFails \/ ReadFails \/ WriteKills
    <2>1. /\ c \in Open /\ Readable(c)
          /\ UNCHANGED <<fd, edge, skipped, ep, event_cnt, i>> /\ pc' # "wait"
      BY <1>6 DEF AcceptFails, ReadFails, WriteKills, clients, events, Open, Readable
    <2> QED
      BY <1>2, <2>1, BatchStays
  <1>7. CASE ReadAgain
    <2> PICK d \in Behind(ep[i]) : ~Readable(d)
      BY <1>7 DEF ReadAgain
    <2>1. GoOnAt(i + 1) /\ UNCHANGED <<conn, left, inbox, fd, edge, skipped, ep, event_cnt>>
      BY <1>7 DEF ReadAgain, clients, events
    <2>2. c \in Open /\ Readable(c)
      BY <2>1 DEF Open, Readable
    <2>3. ep[i] # fd[c]
      BY <1>0, <2>2 DEF OwnDescriptors, Behind
    <2>4. i + 1 \in Nat /\ i < i + 1
      BY <1>0
    <2> QED
      BY <1>0, <1>2, <2>1, <2>2, <2>3, <2>4, JumpedOver, NothingPassed
  <1>8. CASE CloseClient
    <2> PICK d \in Behind(ep[i]) :
          /\ conn' = [conn EXCEPT ![d] = "closed"]
          /\ fd' = [fd EXCEPT ![d] = NONE]
          /\ edge' = edge \ {d}
      BY <1>8 DEF CloseClient
    <2>1. UNCHANGED <<left, inbox, ep, event_cnt>>
      BY <1>8 DEF CloseClient
    <2>2. c # d /\ c \in Open /\ Readable(c) /\ fd'[c] = fd[c]
      BY <1>0, <2>1 DEF Open, Readable, TypeOK
    <2>3. ep[i] # fd[c] /\ (c \in edge => c \in edge')
      BY <1>0, <2>2 DEF OwnDescriptors, Behind
    <2>5. event_cnt \in Nat /\ clnt_cnt \in Nat /\ i < event_cnt
          /\ ("chats" \in program => event_cnt <= clnt_cnt + 1)
      <3>1. event_cnt \in Nat /\ clnt_cnt \in Nat
        BY <1>0, Bounds DEF TypeOK
      <3>2. pc # "wait"
        BY <1>8 DEF CloseClient
      <3> QED
        BY <3>1, <3>2 DEF IndInv, InWalk, BatchFits
    <2>6. CASE "chats" \in program
      <3>1. /\ GoOnAt(clnt_cnt + 1)
            /\ skipped' = skipped \cup (PassedOver(clnt_cnt + 1) \ edge)
        BY <1>8, <2>6 DEF CloseClient
      <3>2. clnt_cnt + 1 \in Nat /\ i < clnt_cnt + 1
        BY <1>0, <2>5, <2>6
      <3> QED
        BY <1>2, <2>1, <2>2, <2>3, <3>1, <3>2, JumpedOver
    <2>7. CASE "chats" \notin program
      <3>1. GoOnAt(i + 1) /\ skipped' = skipped
        BY <1>8, <2>7 DEF CloseClient
      <3>2. i + 1 \in Nat /\ i < i + 1
        BY <1>0
      <3> QED
        BY <1>0, <1>2, <2>1, <2>2, <2>3, <3>1, <3>2, JumpedOver, NothingPassed
    <2> QED
      BY <2>6, <2>7
  <1>11. CASE Write \/ WriteNowhere \/ WriteUnheard \/ WriteFails
    <2>1. /\ Written /\ pc = "send" /\ UNCHANGED <<left, inbox, ep, event_cnt>>
      BY <1>11 DEF Write, WriteNowhere, WriteUnheard, WriteFails, clients
    <2>2. pc' # "wait" /\ i' = i
      BY <1>0, <2>1, WrittenStays
    <2>3. c \in Open /\ fd'[c] = fd[c] /\ Readable(c)
      <3>1. CASE WriteFails
        <4> PICK d \in Behind(Target) :
              IF "checks" \in program
                THEN conn' = [conn EXCEPT ![d] = "closed"] /\ fd' = [fd EXCEPT ![d] = NONE]
                ELSE UNCHANGED <<conn, fd>>
          BY <3>1 DEF WriteFails
        <4> QED
          BY <1>0, <1>1, <2>1 DEF Open, Readable, Behind, TypeOK
      <3>2. CASE Write \/ WriteNowhere \/ WriteUnheard
        BY <2>1, <3>2 DEF Write, WriteNowhere, WriteUnheard, clients, Open, Readable
      <3> QED
        BY <1>11, <3>1, <3>2
    <2>4. c \in edge \cup skipped => c \in edge' \cup skipped'
      <3>1. CASE WriteUnheard
        <4> PICK d \in Behind(Target) : UNCHANGED events \/ Signal(d)
          BY <3>1 DEF WriteUnheard
        <4> QED
          BY DEF Signal, events, Behind, Open
      <3>2. CASE WriteFails
        <4> PICK d \in Behind(Target) :
              IF "checks" \in program
                THEN conn' = [conn EXCEPT ![d] = "closed"] /\ edge' = edge \ {d}
                ELSE edge' = edge
          BY <3>2 DEF WriteFails
        <4>1. skipped' = skipped
          BY <3>2 DEF WriteFails
        <4> QED
          BY <1>0, <1>1, <4>1 DEF Open, Behind, TypeOK
      <3>3. CASE Write \/ WriteNowhere
        BY <3>3 DEF Write, WriteNowhere, events
      <3> QED
        BY <1>11, <3>1, <3>2, <3>3
    <2> QED
      BY <1>2, <2>1, <2>2, <2>3, <2>4, BatchStays
  <1>9. ASSUME NEW d \in Clients, Connect(d) \/ Send(d) \/ Hear(d) \/ Leave(d)
        PROVE  c \in edge' \/ InBatch(c)' \/ c \in skipped'
    <2>1. UNCHANGED <<fd, ep, event_cnt, i, pc>>
      BY <1>9 DEF Connect, Send, Hear, Leave
    <2>2. CASE Connect(d) \/ Hear(d)
      <3>1. c \in Open /\ Readable(c) /\ UNCHANGED events
        BY <1>0, <2>2 DEF Connect, Hear, clients, Open, Readable, TypeOK
      <3> QED
        BY <1>2, <2>1, <3>1 DEF InBatch, events
    <2>3. CASE Send(d) \/ Leave(d)
      <3>1. c \in Open
        BY <2>3 DEF Send, Leave, Open
      <3>2. CASE c = d
        BY <2>3, <3>1, <3>2 DEF Send, Leave, Signal, Open
      <3>3. CASE c # d
        <4>1. Readable(c)
          BY <1>0, <1>1, <2>3, <3>3 DEF Send, Leave, Readable, TypeOK
        <4>2. (c \in edge => c \in edge') /\ (c \in skipped => c \in skipped')
          BY <2>3, <3>3 DEF Send, Leave, Signal
        <4> QED
          BY <1>2, <2>1, <3>1, <4>1, <4>2 DEF InBatch
      <3> QED
        BY <3>2, <3>3
    <2> QED
      BY <1>9, <2>2, <2>3
  <1>10. CASE UNCHANGED vars
    <2>1. c \in Open /\ Readable(c)
      BY <1>10 DEF vars, clients, Open, Readable
    <2> QED
      BY <1>2, <1>10, <2>1 DEF vars, clients, events, InBatch
  <1> QED
    BY <1>3, <1>4, <1>5, <1>6, <1>7, <1>8, <1>9, <1>10, <1>11 DEF Next, Server

-----------------------------------------------------------------------------
(***************************************************************************)
(* Why only a client that left in haste can end an echo server: the others *)
(* have nothing left to be read or written when they leave.                *)
(***************************************************************************)
NothingOwed(c) == inbox[c] = << >> /\ ~(pc = "send" /\ c \in Behind(ep[i]))

HastyPays ==
    "chats" \notin program =>
        /\ \A c \in Clients : err[c] # "none" => c \in hasty
        /\ \A c \in left \ hasty : NothingOwed(c)
        /\ pc = "killed" => hasty # {}

(* Steps of the server that change no socket and write nothing. *)
LEMMA HastyPaysStill ==
    ASSUME HastyPays, program' = program, left' = left, hasty' = hasty,
           \A c \in Clients : err'[c] # "none" => err[c] # "none",
           \A c \in left : inbox[c] = << >> => inbox'[c] = << >>,
           "chats" \notin program => pc' # "send",
           "chats" \notin program /\ pc' = "killed" => pc = "killed" \/ hasty # {}
    PROVE  HastyPays'
  BY DEF HastyPays, NothingOwed

LEMMA NextKeepsHastyPays == IndInv /\ HastyPays /\ [Next]_vars => HastyPays'
  <1> SUFFICES ASSUME IndInv, HastyPays, [Next]_vars PROVE HastyPays'
    OBVIOUS
  <1>0. TypeOK /\ OwnDescriptors
    BY DEF IndInv, CountIsRegistered
  <1>1. CASE EpollWait \/ Accept \/ AcceptFails \/ ReadAgain \/ CloseClient
    <2>1. UNCHANGED <<program, left, inbox, hasty>> /\ pc' # "send" /\ pc' # "killed"
      BY <1>1 DEF EpollWait, Accept, AcceptFails, ReadAgain, CloseClient, GoOnAt, clients, sockets
    <2>2. \A c \in Clients : err'[c] # "none" => err[c] # "none"
      BY <1>0, <1>1 DEF EpollWait, Accept, AcceptFails, ReadAgain, CloseClient, sockets, TypeOK
    <2> QED
      BY <2>1, <2>2, HastyPaysStill
  <1>2. CASE Read
    <2> PICK d \in Behind(ep[i]) : inbox[d] # << >> /\ inbox' = [inbox EXCEPT ![d] = Tail(@)]
      BY <1>2 DEF Read
    <2>1. UNCHANGED <<program, conn, left, hasty, err, fd, ep, i>> /\ pc' = "send" /\ d \in Open
      BY <1>2 DEF Read, sockets, Behind
    <2> SUFFICES ASSUME "chats" \notin program, NEW c \in left \ hasty PROVE NothingOwed(c)'
      BY <2>1 DEF HastyPays
    <2>2. inbox[c] = << >> /\ c # d /\ c \in Clients
      BY <1>0 DEF HastyPays, NothingOwed, TypeOK
    <2>3. inbox'[c] = << >>
      BY <1>0, <2>2 DEF TypeOK
    <2>4. c \notin Behind(ep[i])'
      BY <1>0, <2>1, <2>2 DEF OwnDescriptors, Behind, Open
    <2> QED
      BY <2>3, <2>4 DEF NothingOwed
  <1>3. CASE ReadFails
    <2> PICK d \in Behind(ep[i]) : err[d] = "reset" /\ err' = [err EXCEPT ![d] = "pipe"]
      BY <1>3 DEF ReadFails
    <2>1. d \in Clients
      BY DEF Behind, Open
    <2>2. UNCHANGED <<program, left, inbox, hasty>> /\ pc' # "send"
      BY <1>3 DEF ReadFails, GoOnAt, clients
    <2>3. "chats" \notin program => hasty # {}
      BY <2>1 DEF HastyPays
    <2>4. \A c \in Clients : err'[c] # "none" => err[c] # "none"
      BY <1>0 DEF TypeOK
    <2> QED
      BY <2>2, <2>3, <2>4, HastyPaysStill
  <1>4. CASE Write \/ WriteNowhere \/ WriteFails
    <2>1. UNCHANGED <<program, left, inbox, hasty>> /\ Written /\ pc = "send"
      BY <1>4 DEF Write, WriteNowhere, WriteFails, clients, sockets
    <2>2. ("chats" \notin program => pc' # "send") /\ pc' # "killed"
      BY <1>0, <2>1, WrittenStays DEF GoOnAt
    <2>3. \A c \in Clients : err'[c] # "none" => err[c] # "none"
      BY <1>0, <1>4 DEF Write, WriteNowhere, WriteFails, sockets, TypeOK
    <2> QED
      BY <2>1, <2>2, <2>3, HastyPaysStill
  <1>5. CASE WriteUnheard
    <2> PICK d \in Behind(Target) \cap left :
          err' = err \/ err' = [err EXCEPT ![d] = "pipe"]
      BY <1>5 DEF WriteUnheard
    <2>1. UNCHANGED <<program, left, inbox, hasty>> /\ Written /\ pc = "send"
      BY <1>5 DEF WriteUnheard, clients
    <2>2. ("chats" \notin program => pc' # "send") /\ pc' # "killed"
      BY <1>0, <2>1, WrittenStays DEF GoOnAt
    <2>3. "chats" \notin program => d \in hasty
      BY <2>1 DEF HastyPays, NothingOwed, Target
    <2>4. \A c \in Clients : err'[c] # "none" => err[c] # "none" \/ c = d
      BY <1>0 DEF TypeOK
    <2> QED
      BY <2>1, <2>2, <2>3, <2>4 DEF HastyPays, NothingOwed
  <1>6. CASE WriteKills
    <2> PICK d \in Behind(Target) : err[d] = "pipe"
      BY <1>6 DEF WriteKills
    <2>1. "chats" \notin program => hasty # {}
      BY DEF HastyPays, Behind, Open
    <2>2. UNCHANGED <<program, left, inbox, hasty, err>> /\ pc' = "killed"
      BY <1>6 DEF WriteKills, clients, sockets
    <2> QED
      BY <2>1, <2>2, HastyPaysStill
  <1>7. ASSUME NEW d \in Clients, Connect(d) \/ Send(d) \/ Hear(d) PROVE HastyPays'
    <2>1. UNCHANGED <<program, left, hasty, err, fd, ep, i, pc>>
      BY <1>7 DEF Connect, Send, Hear, clients, sockets
    <2>2. \A c \in left : inbox'[c] = inbox[c]
      BY <1>0, <1>7 DEF Connect, Send, Hear, clients, TypeOK
    <2>3. Open' = Open
      BY <1>0, <1>7 DEF Connect, Send, Hear, clients, Open, TypeOK
    <2> QED
      BY <2>1, <2>2, <2>3 DEF HastyPays, NothingOwed, Behind
  <1>8. ASSUME NEW d \in Clients, Leave(d) PROVE HastyPays'
    <2>1. UNCHANGED <<program, conn, inbox, fd, ep, i, pc>> /\ left' = left \cup {d}
      BY <1>8 DEF Leave
    <2>2. /\ hasty \subseteq hasty' /\ (Owed(d) => d \in hasty')
          /\ \A c \in Clients : err'[c] # "none" => err[c] # "none" \/ (c = d /\ unread[d] > 0)
      BY <1>0, <1>8 DEF Leave, TypeOK
    <2>3. ~Owed(d) => NothingOwed(d)
      BY DEF Owed, NothingOwed
    <2>4. \A c : NothingOwed(c)' <=> NothingOwed(c)
      BY <2>1 DEF NothingOwed, Behind, Open
    <2>5. unread[d] > 0 => Owed(d)
      BY DEF Owed
    <2> QED
      BY <2>1, <2>2, <2>3, <2>4, <2>5 DEF HastyPays
  <1>9. CASE UNCHANGED vars
    BY <1>9 DEF vars, clients, sockets, HastyPays, NothingOwed, Behind, Open
  <1> QED
    BY <1>1, <1>2, <1>3, <1>4, <1>5, <1>6, <1>7, <1>8, <1>9 DEF Next, Server

(* The step between two batches is the only one that leads back. *)
LEMMA NextMovesForward == IndInv /\ [Next]_vars => (fd' # fd /\ pc' # "wait" => i' > i)
  <1> SUFFICES ASSUME IndInv, [Next]_vars, fd' # fd, pc' # "wait" PROVE i' > i
    OBVIOUS
  <1>1. i \in Nat
    BY Bounds DEF IndInv, CountIsRegistered, TypeOK
  <1>2. Accept \/ CloseClient \/ WriteFails
    BY DEF Next, Server, vars, EpollWait, AcceptFails, Read, ReadAgain, ReadFails, Write,
           WriteNowhere, WriteUnheard, WriteKills, Connect, Send, Hear, Leave
  <1>3. GoOnAt(i + 1)
    <2>1. CASE WriteFails
      <3>1. TypeOK /\ program \in Programs /\ "checks" \in program
        BY <2>1 DEF IndInv, CountIsRegistered, TypeOK, WriteFails
      <3>2. "chats" \notin program /\ "drains" \notin program
        BY <3>1, ChecksAlone
      <3> QED
        BY <2>1, <3>1, <3>2 DEF WriteFails, Written, Targets, TypeOK
    <2> QED
      BY <1>2, <2>1, RemovalEndsTheBatch DEF Accept, CloseClient
  <1> QED
    BY <1>1, <1>3 DEF GoOnAt

-----------------------------------------------------------------------------
(***************************************************************************)
(* The chat servers' clnt_cnt is the number of sockets in epoll, whichever *)
(* entries the broken removal leaves in clnt_socks.                        *)
(***************************************************************************)
THEOREM CountRegistered == Spec => []CountIsRegistered
  <1>1. IndInv => CountIsRegistered
    BY DEF IndInv
  <1> QED
    BY InitIndInv, NextKeepsIndInv, <1>1, PTL DEF Spec

(***************************************************************************)
(* No event of a batch is handled twice, although the removal counts with  *)
(* the index of the walk: it always ends the batch.                        *)
(***************************************************************************)
THEOREM ForwardOnly == Spec => BatchMovesForward
  <1>1. IndInv /\ [Next]_vars => [fd' # fd /\ pc' # "wait" => i' > i]_vars
    BY NextMovesForward
  <1> QED
    BY InitIndInv, NextKeepsIndInv, <1>1, PTL DEF Spec, BatchMovesForward

(***************************************************************************)
(* Edge-triggered and reading until EAGAIN: input that nobody has read has *)
(* an event to come, one in the rest of the batch, or one that a removal   *)
(* jumped over.                                                            *)
(***************************************************************************)
THEOREM Announced == Spec => []UnreadIsAnnounced
  <1>1. Init => UnreadIsAnnounced
    BY DEF Init, UnreadIsAnnounced, Open
  <1> QED
    BY InitIndInv, NextKeepsIndInv, NextKeepsAnnounced, <1>1, PTL DEF Spec

(***************************************************************************)
(* For any number of clients and messages: SIGPIPE ends an echo server     *)
(* only after a client has left with a message on its way.                 *)
(***************************************************************************)
THEOREM PatientClientsAreSafe == Spec => []KilledByTheHasty
  <1>1. Init => HastyPays
    BY DEF Init, HastyPays
  <1>2. HastyPays => KilledByTheHasty
    BY DEF HastyPays, KilledByTheHasty
  <1> QED
    BY InitIndInv, NextKeepsIndInv, NextKeepsHastyPays, <1>1, <1>2, PTL DEF Spec
=============================================================================
