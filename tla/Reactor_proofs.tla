--------------------------- MODULE Reactor_proofs ---------------------------
(***************************************************************************)
(* What the reactor guarantees for any number of connections, descriptors  *)
(* and workers, any capacity of the pool's queue and any number of lines.  *)
(* The claims of Reactor lean on each other: that the map, the kernel and  *)
(* epoll agree needs that objects live as long as they are held, that in   *)
(* turn who holds a task at which point of the code, and that no event is  *)
(* stale needs to know why it was reported.  IndInv is all of that.        *)
(***************************************************************************)
EXTENDS Reactor, FiniteSetTheorems, WellFoundedInduction, TLAPS

Threads == Workers \cup {io}

Elems(s) == {s[i] : i \in 1..Len(s)}

Distinct(s) == \A i, j \in 1..Len(s) : s[i] = s[j] => i = j

(* Where a thread is tells what it does with the queue and what it holds. *)
HandsInv ==
    /\ items \in Seq(Conns)
    /\ mode \in [Threads -> {"idle", "putting", "taking"}]
    /\ hand \in [Threads -> Conns \cup {NULL}]
    /\ mode[io] = IF ioAt = "addTask" THEN "putting" ELSE "idle"
    /\ hand[io] # NULL <=> ioAt = "addTask"
    /\ \A w \in Workers :
        /\ mode[w] = IF workAt[w] = "pop" THEN "taking" ELSE "idle"
        /\ workAt[w] = "pop" => hand[w] = NULL
        /\ workAt[w] \in {"process", "wakeup"} => hand[w] # NULL

(* Connections in the backlog wait to be accepted, once each; what is to be
   read has been sent. *)
ClientsInv ==
    /\ \A c \in Conns : inbox[c] <= sent[c]
    /\ \A c \in Conns : peer[c] = "away" => obj[c] = "none"
    /\ \A c \in Elems(backlog) : obj[c] = "none" /\ peer[c] # "away"
    /\ Distinct(backlog)

(* The map, the kernel's table and epoll's registrations. *)
MapInv ==
    /\ \A c, d \in Live : fd[c] = fd[d] => c = d
    /\ \A c \in Live : fd[c] \in Fds
    /\ \A f \in Fds : f \in watched <=> connMap[f] # NULL
    /\ \A f \in Fds : connMap[f] # NULL => connMap[f] \in Live /\ fd[connMap[f]] = f

(* An event is one of a registered connection that has a line to read or has
   been closed, or there is a connection to accept. *)
BatchInv ==
    /\ \A f \in Fds : f \in batch =>
        /\ connMap[f] # NULL
        /\ inbox[connMap[f]] > 0 \/ peer[connMap[f]] = "gone"
    /\ Listen \in batch => backlog # << >>

(* A connection leaves the map, and dies, only after its client has closed. *)
DeathInv ==
    /\ \A c \in Conns : obj[c] = "dead" => peer[c] = "gone"
    /\ \A c \in Live : peer[c] = "gone" \/ \E f \in Fds : connMap[f] = c

(* A functor is of a connection that exists or has existed, and there are
   none without the pool. *)
FunctorsInv ==
    /\ \A c \in Elems(pending) \cup Elems(running) : obj[c] # "none"
    /\ ~version.pool => /\ \A w \in Workers : workAt[w] = "loop"
                        /\ pending = << >> /\ running = << >>

EndInv ==
    /\ down # "assert"
    /\ down = "exit" => backlog # << >> /\ FreeFds = {}
    /\ down = "sigpipe" => \E c \in Conns : reset[c] /\ peer[c] = "gone"

IndInv ==
    /\ TypeOK /\ HandsInv /\ ClientsInv /\ MapInv /\ BatchInv /\ OwnershipSound
    /\ DeathInv /\ FunctorsInv /\ EndInv /\ PendingAnnounced /\ StraysHaveLeft

-----------------------------------------------------------------------------
(* Sequences as the sets of their elements. *)
LEMMA Appended ==
    ASSUME NEW S, NEW s \in Seq(S), NEW e \in S
    PROVE  /\ Append(s, e) \in Seq(S) /\ Append(s, e) # << >>
           /\ Elems(Append(s, e)) = Elems(s) \cup {e}
           /\ Distinct(s) /\ e \notin Elems(s) => Distinct(Append(s, e))
  <1>1. /\ Append(s, e) \in Seq(S)
        /\ Len(s) \in Nat /\ Len(Append(s, e)) = Len(s) + 1
        /\ \A i \in 1..Len(s) : Append(s, e)[i] = s[i]
        /\ Append(s, e)[Len(s) + 1] = e
    OBVIOUS
  <1>2. Append(s, e) # << >>
    <2>1. Len(<< >>) = 0
      OBVIOUS
    <2> QED
      BY <1>1, <2>1
  <1> DEFINE t == Append(s, e)
  <1> HIDE DEF t
  <1>3. Elems(t) = Elems(s) \cup {e}
    <2>1. \A i \in 1..Len(t) : t[i] \in Elems(s) \cup {e}
      BY <1>1 DEF Elems, t
    <2>2. \A i \in 1..Len(s) : s[i] \in Elems(t)
      <3> TAKE i \in 1..Len(s)
      <3>1. i \in 1..Len(t) /\ t[i] = s[i]
        BY <1>1 DEF t
      <3> QED
        BY <3>1 DEF Elems
    <2>3. e \in Elems(t)
      <3>1. Len(s) + 1 \in 1..Len(t) /\ t[Len(s) + 1] = e
        BY <1>1 DEF t
      <3> QED
        BY <3>1 DEF Elems
    <2> QED
      BY <2>1, <2>2, <2>3 DEF Elems
  <1>4. ASSUME Distinct(s), e \notin Elems(s) PROVE Distinct(t)
    <2> SUFFICES ASSUME NEW i \in 1..Len(t), NEW j \in 1..Len(t), t[i] = t[j]
                 PROVE  i = j
      BY DEF Distinct
    <2>1. i \in 1..Len(s) \/ i = Len(s) + 1
      BY <1>1 DEF t
    <2>2. j \in 1..Len(s) \/ j = Len(s) + 1
      BY <1>1 DEF t
    <2>3. \A k \in 1..Len(s) : t[k] = s[k] /\ s[k] # e
      BY <1>1, <1>4 DEF t, Elems
    <2>4. t[Len(s) + 1] = e
      BY <1>1 DEF t
    <2> QED
      BY <1>4, <2>1, <2>2, <2>3, <2>4 DEF Distinct
  <1> QED
    BY <1>1, <1>2, <1>3, <1>4 DEF t

LEMMA HeadTaken ==
    ASSUME NEW S, NEW s \in Seq(S), s # << >>
    PROVE  /\ Head(s) \in S /\ Tail(s) \in Seq(S)
           /\ Elems(s) = Elems(Tail(s)) \cup {Head(s)}
           /\ Distinct(s) => Distinct(Tail(s)) /\ Head(s) \notin Elems(Tail(s))
  <1>1. /\ Head(s) \in S /\ Head(s) = s[1] /\ 1 \in 1..Len(s)
        /\ Tail(s) \in Seq(S) /\ Len(s) \in Nat /\ Len(Tail(s)) = Len(s) - 1
        /\ \A i \in 1..Len(Tail(s)) : Tail(s)[i] = s[i + 1] /\ i + 1 \in 1..Len(s)
    OBVIOUS
  <1> DEFINE t == Tail(s)
             h == Head(s)
  <1> HIDE DEF t, h
  <1>2. Elems(s) = Elems(t) \cup {h}
    <2>1. \A i \in 1..Len(s) : s[i] \in Elems(t) \cup {h}
      <3> TAKE i \in 1..Len(s)
      <3>1. CASE i = 1
        BY <1>1, <3>1 DEF h
      <3>2. CASE i # 1
        <4>1. i - 1 \in 1..Len(t) /\ i - 1 + 1 = i
          BY <1>1, <3>2 DEF t
        <4>2. t[i - 1] = s[i]
          BY <1>1, <4>1 DEF t
        <4> QED
          BY <4>1, <4>2 DEF Elems
      <3> QED
        BY <3>1, <3>2
    <2>2. \A i \in 1..Len(t) : t[i] \in Elems(s)
      <3> TAKE i \in 1..Len(t)
      <3>1. t[i] = s[i + 1] /\ i + 1 \in 1..Len(s)
        BY <1>1 DEF t
      <3> QED
        BY <3>1 DEF Elems
    <2>3. h \in Elems(s)
      BY <1>1 DEF h, Elems
    <2> QED
      BY <2>1, <2>2, <2>3 DEF Elems
  <1>3. ASSUME Distinct(s) PROVE Distinct(t) /\ h \notin Elems(t)
    <2>1. Distinct(t)
      <3> SUFFICES ASSUME NEW i \in 1..Len(t), NEW j \in 1..Len(t), t[i] = t[j]
                   PROVE  i = j
        BY DEF Distinct
      <3>1. s[i + 1] = s[j + 1] /\ i + 1 \in 1..Len(s) /\ j + 1 \in 1..Len(s)
        BY <1>1 DEF t
      <3>2. i + 1 = j + 1
        BY <1>3, <3>1 DEF Distinct
      <3> QED
        BY <3>2
    <2>2. ASSUME NEW i \in 1..Len(t), t[i] = h PROVE FALSE
      <3>1. s[i + 1] = s[1] /\ i + 1 \in 1..Len(s) /\ 1 \in 1..Len(s) /\ i + 1 # 1
        BY <1>1, <2>2 DEF t, h
      <3> QED
        BY <1>3, <3>1 DEF Distinct
    <2> QED
      BY <2>1, <2>2 DEF Elems
  <1> QED
    BY <1>1, <1>2, <1>3 DEF t, h

LEMMA EmptyElems == Elems(<< >>) = {} /\ Distinct(<< >>)
  BY DEF Elems, Distinct

LEMMA ElemsIn ==
    ASSUME NEW S, NEW s \in Seq(S)
    PROVE  Elems(s) \subseteq S /\ (s # << >> => Elems(s) # {})
  BY DEF Elems

(* The kernel's choice, the lowest descriptor, is one of the free ones. *)
LEMMA LowestIsOne ==
    ASSUME NEW S, S \subseteq Nat, S # {}
    PROVE  Lowest(S) \in S
  <1>1. PICK f \in S : \A g \in S : <<g, f>> \notin OpToRel(<, Nat)
    BY WFMin, NatLessThanWellFounded, Zenon
  <1>2. \A g \in S : ~(g < f)
    <2> TAKE g \in S
    <2>1. g \in Nat /\ f \in Nat
      OBVIOUS
    <2> QED
      BY <1>1, <2>1 DEF OpToRel
  <1>3. \A g \in S : f <= g
    BY <1>2
  <1> QED
    BY <1>3, Zenon DEF Lowest

(* Held() in terms of the elements of the queue. *)
LEMMA HeldBy ==
    ASSUME NEW c, NEW map, NEW s, NEW h
    PROVE  Held(c, map, s, h) <=> \/ \E f \in Fds : map[f] = c
                                  \/ c \in Elems(s)
                                  \/ \E x \in Threads : h[x] = c
  BY DEF Held, Elems, Threads

(* Who gives up a shared_ptr destroys the object if nobody else has one. *)
LEMMA Released ==
    ASSUME TypeOK, OwnershipSound, NEW c, Release(c), c \in Conns => c \in Live,
           \A d \in Conns : d # c =>
                (Held(d, connMap', items', hand') <=> Held(d, connMap, items, hand))
    PROVE  /\ OwnershipSound'
           /\ obj' \in [Conns -> {"none", "live", "dead"}]
           /\ \A d \in Conns : d # c => obj'[d] = obj[d]
           /\ \A d \in Conns : obj'[d] = "none" <=> obj[d] = "none"
           /\ \A d \in Conns : obj'[d] = "dead" => obj[d] = "dead" \/ d = c
           /\ Live' \subseteq Live
           /\ c \in Live /\ Held(c, connMap', items', hand') => c \in Live'
           /\ c \in Live' => Held(c, connMap', items', hand')
  <1>1. CASE c \in Conns /\ ~Held(c, connMap', items', hand')
    <2>1. obj' = [obj EXCEPT ![c] = "dead"]
      BY <1>1 DEF Release
    <2>2. Live' = Live \ {c}
      BY <1>1, <2>1 DEF TypeOK, Live
    <2>3. OwnershipSound'
      BY <1>1, <2>2 DEF OwnershipSound
    <2> QED
      BY <1>1, <2>1, <2>2, <2>3 DEF TypeOK, Live
  <1>2. CASE ~(c \in Conns /\ ~Held(c, connMap', items', hand'))
    <2>1. obj' = obj /\ Live' = Live
      BY <1>2 DEF Release, Live
    <2>2. OwnershipSound'
      BY <1>2, <2>1 DEF OwnershipSound
    <2> QED
      BY <1>2, <2>1, <2>2 DEF TypeOK, Live
  <1> QED
    BY <1>1, <1>2

(* What a write may change, and what it means when it ends the process. *)
LEMMA Written ==
    ASSUME TypeOK, NEW c \in Conns, NEW d \in Conns \cup {NULL}, NEW r,
           Write(c, d, r), down = "up", UNCHANGED peer
    PROVE  /\ replies' \in [Conns -> Nat]
           /\ reset' \in [Conns -> BOOLEAN]
           /\ strayed' \subseteq strayed \cup ({<<c, d>>} \cap (Conns \X Conns))
           /\ c = d => strayed' = strayed
           /\ down' \in {"up", "sigpipe"}
           /\ down' = "sigpipe" => \E e \in Conns : reset'[e] /\ peer'[e] = "gone"
  <1>1. CASE d = NULL
    BY <1>1 DEF Write, TypeOK
  <1>2. CASE d # NULL
    <2>1. d \in Conns
      BY <1>2
    <2>2. strayed' = IF c = d THEN strayed ELSE strayed \cup {<<c, d>>}
      BY <1>2 DEF Write
    <2>3. CASE peer[d] = "here"
      <3>1. replies' = [replies EXCEPT ![c] = @ + 1] \/ replies' = replies
        BY <1>2, <2>3 DEF Write
      <3>2. replies' \in [Conns -> Nat]
        <4>1. replies \in [Conns -> Nat] /\ replies[c] + 1 \in Nat
          BY DEF TypeOK
        <4> QED
          BY <3>1, <4>1
      <3>3. UNCHANGED <<reset, down>>
        BY <1>2, <2>3 DEF Write
      <3> QED
        BY <2>1, <2>2, <3>2, <3>3 DEF TypeOK
    <2>4. CASE peer[d] = "gone" /\ ~reset[d]
      <3>1. reset' = [reset EXCEPT ![d] = TRUE] /\ UNCHANGED <<replies, down>>
        BY <1>2, <2>4, Zenon DEF Write
      <3>2. reset' \in [Conns -> BOOLEAN]
        BY <2>1, <3>1, Zenon DEF TypeOK
      <3> QED
        BY <2>1, <2>2, <3>1, <3>2 DEF TypeOK
    <2>5. CASE peer[d] = "gone" /\ reset[d]
      <3>1. down' \in {"up", "sigpipe"} /\ UNCHANGED <<replies, reset>>
        BY <1>2, <2>5, Zenon DEF Write
      <3>2. reset'[d] /\ peer'[d] = "gone"
        BY <2>5, <3>1
      <3> QED
        BY <2>1, <2>2, <3>1, <3>2 DEF TypeOK
    <2> QED
      BY <1>2, <2>3, <2>4, <2>5 DEF Write
  <1> QED
    BY <1>1, <1>2

LEMMA InitIndInv == Init => IndInv
  <1> SUFFICES ASSUME Init PROVE IndInv
    OBVIOUS
  <1> USE DEF Init, TaskQ!Init
  <1>1. version \in Versions /\ reset \in [Conns -> BOOLEAN]
    BY Zenon
  <1>2. /\ connMap \in [Fds -> Conns \cup {NULL}] /\ heirs \in [Conns -> SUBSET Conns]
        /\ obj \in [Conns -> {"none", "live", "dead"}]
        /\ fd \in [Conns -> Fds \cup {NoFd}]
        /\ rung \in BOOLEAN
    OBVIOUS
  <1>3. TypeOK
    BY <1>1, <1>2, SizesAssumption DEF TypeOK
  <1>4. HandsInv /\ ClientsInv /\ DeathInv /\ FunctorsInv
    BY NamesAssumption, EmptyElems
    DEF HandsInv, ClientsInv, DeathInv, FunctorsInv, Threads, Live
  <1>5. MapInv /\ BatchInv /\ EndInv /\ PendingAnnounced /\ StraysHaveLeft
    BY DEF MapInv, BatchInv, EndInv, PendingAnnounced, StraysHaveLeft, Live
  <1>6. OwnershipSound
    BY NamesAssumption, HeldBy, EmptyElems DEF OwnershipSound, Threads, Live
  <1> QED
    BY <1>3, <1>4, <1>5, <1>6 DEF IndInv

-----------------------------------------------------------------------------
(* A client that connects has no object yet and waits in the backlog once. *)
LEMMA ConnectKeeps ==
    ASSUME IndInv, UNCHANGED version, NEW c \in Conns, Connect(c)
    PROVE  IndInv'
  <1> USE DEF IndInv
  <1>a. /\ backlog \in Seq(Conns) /\ backlog' = Append(backlog, c)
        /\ c \notin Elems(backlog)
    BY DEF Connect, TypeOK, ClientsInv
  <1>b. /\ backlog' \in Seq(Conns) /\ backlog' # << >>
        /\ Elems(backlog') = Elems(backlog) \cup {c}
        /\ Distinct(backlog) => Distinct(backlog')
    BY <1>a, Appended
  <1>1. TypeOK'
    BY <1>b DEF Connect, connVars, loopVars, bellVars, queueVars, TypeOK
  <1>2. ClientsInv'
    BY <1>b
    DEF Connect, connVars, loopVars, bellVars, queueVars, ClientsInv, TypeOK
  <1>3. BatchInv'
    BY <1>b
    DEF Connect, connVars, loopVars, bellVars, queueVars, BatchInv, TypeOK
  <1>4. DeathInv'
    BY DEF Connect, connVars, loopVars, bellVars, queueVars, DeathInv, TypeOK,
           Live
  <1>5. EndInv'
    <2>1. /\ peer' = [peer EXCEPT ![c] = "here"] /\ peer[c] = "away" /\ peer \in [Conns -> {"away", "here", "gone"}]
          /\ reset' = reset /\ down' = down /\ obj' = obj /\ fd' = fd
      BY DEF Connect, connVars, TypeOK
    <2>2. FreeFds' = FreeFds
      BY <2>1, Zenon DEF FreeFds, Live
    <2>3. \A e \in Conns : peer[e] = "gone" => peer'[e] = "gone"
      BY <2>1
    <2> QED
      BY <1>b, <2>1, <2>2, <2>3 DEF EndInv
  <1>6. StraysHaveLeft'
    BY DEF Connect, connVars, loopVars, bellVars, queueVars, StraysHaveLeft,
           TypeOK
  <1>7. HandsInv' /\ MapInv' /\ OwnershipSound' /\ FunctorsInv'
        /\ PendingAnnounced'
    <2>1. UNCHANGED <<obj, fd, heirs, connMap, watched, batch, ioAt, pending, running, rung, items,
                      open, mode, hand, workAt, down>>
      BY DEF Connect, connVars, loopVars, bellVars, queueVars
    <2>2. HandsInv' /\ MapInv'
      BY <2>1 DEF HandsInv, MapInv, Live
    <2>3. OwnershipSound' /\ FunctorsInv' /\ PendingAnnounced'
      BY <2>1 DEF Live, OwnershipSound, Held, FunctorsInv, PendingAnnounced
    <2> QED
      BY <2>2, <2>3
  <1> QED
    BY <1>1, <1>2, <1>3, <1>4, <1>5, <1>6, <1>7

(* One more line in the socket, one more line sent. *)
LEMMA SendLineKeeps ==
    ASSUME IndInv, UNCHANGED version, NEW c \in Conns, SendLine(c)
    PROVE  IndInv'
  <1> USE DEF IndInv
  <1>a. inbox[c] + 1 \in 0..MaxLines /\ sent[c] + 1 \in 0..MaxLines
    BY SizesAssumption DEF SendLine, TypeOK, ClientsInv
  <1>1. TypeOK'
    BY <1>a DEF SendLine, connVars, loopVars, bellVars, queueVars, TypeOK
  <1>2. ClientsInv'
    BY DEF SendLine, connVars, loopVars, bellVars, queueVars, ClientsInv,
           TypeOK
  <1>3. BatchInv'
    BY DEF SendLine, connVars, loopVars, bellVars, queueVars, BatchInv, TypeOK
  <1>4. HandsInv' /\ MapInv' /\ OwnershipSound' /\ DeathInv'
        /\ FunctorsInv' /\ EndInv' /\ PendingAnnounced' /\ StraysHaveLeft'
    BY DEF SendLine, connVars, loopVars, bellVars, queueVars, HandsInv,
           MapInv, Live, OwnershipSound, Held, DeathInv, FunctorsInv, EndInv,
           FreeFds, PendingAnnounced, StraysHaveLeft
  <1> QED
    BY <1>1, <1>2, <1>3, <1>4

(* A client closes; for the rest nothing happens yet. *)
LEMMA CloseKeeps ==
    ASSUME IndInv, UNCHANGED version, NEW c \in Conns, Close(c)
    PROVE  IndInv'
  <1> USE DEF IndInv
  <1>a. /\ peer' = [peer EXCEPT ![c] = "gone"] /\ peer[c] = "here"
        /\ reset' \in [Conns -> BOOLEAN]
        /\ \A e \in Conns \ {c} : reset'[e] = reset[e]
    <2>1. PICK rst \in BOOLEAN : reset' = [reset EXCEPT ![c] = rst]
      BY Zenon DEF Close
    <2>2. reset \in [Conns -> BOOLEAN]
      BY DEF TypeOK
    <2> QED
      BY <2>1, <2>2, Zenon DEF Close
  <1>1. TypeOK'
    <2>1. peer' \in [Conns -> {"away", "here", "gone"}]
      BY <1>a DEF TypeOK
    <2>2. UNCHANGED <<sent, backlog, inbox, replies, strayed, obj, fd, heirs, connMap, watched, batch,
                      ioAt, pending, running, rung, workAt, down>>
      BY DEF Close, connVars, loopVars, bellVars, queueVars
    <2> QED
      BY <1>a, <2>1, <2>2, Zenon DEF TypeOK
  <1>2. ClientsInv'
    <2>1. \A d \in Conns : peer'[d] = "away" <=> peer[d] = "away"
      BY <1>a DEF TypeOK
    <2>2. Elems(backlog) \subseteq Conns
      BY ElemsIn DEF TypeOK
    <2>3. UNCHANGED <<inbox, sent, backlog, obj>>
      BY DEF Close, connVars
    <2> QED
      BY <2>1, <2>2, <2>3 DEF ClientsInv
  <1>3. BatchInv'
    BY DEF Close, connVars, loopVars, bellVars, queueVars, BatchInv, TypeOK
  <1>4. DeathInv'
    BY DEF Close, connVars, loopVars, bellVars, queueVars, DeathInv, TypeOK,
           Live
  <1>5. EndInv'
    BY <1>a DEF Close, connVars, EndInv, FreeFds, Live, TypeOK
  <1>6. StraysHaveLeft'
    BY DEF Close, connVars, loopVars, bellVars, queueVars, StraysHaveLeft,
           TypeOK
  <1>7. HandsInv' /\ MapInv' /\ OwnershipSound' /\ FunctorsInv'
        /\ PendingAnnounced'
    BY DEF Close, connVars, loopVars, bellVars, queueVars, HandsInv, MapInv,
           Live, OwnershipSound, Held, FunctorsInv, PendingAnnounced
  <1> QED
    BY <1>1, <1>2, <1>3, <1>4, <1>5, <1>6, <1>7

(* epoll_wait() reports what is registered and ready at this moment. *)
LEMMA EpollWaitKeeps ==
    ASSUME IndInv, UNCHANGED version, EpollWait
    PROVE  IndInv'
  <1> USE DEF IndInv
  <1>a. /\ batch' = ReadyEvents /\ ReadyConns \subseteq watched
        /\ \A f \in Fds : f \in batch' => f \in ReadyConns
        /\ batch' \subseteq Fds \cup {Listen, Eventfd}
        /\ Listen \in batch' => backlog # << >>
    <2>1. \A f \in Fds : f # Listen /\ f # Eventfd
      BY SizesAssumption DEF Fds, Listen, Eventfd
    <2>2. Listen # Eventfd /\ Listen \notin Fds
      BY SizesAssumption DEF Fds, Listen, Eventfd
    <2>3. batch' = ReadyEvents /\ ReadyConns \subseteq watched /\ watched \subseteq Fds
      BY DEF EpollWait, ReadyConns, TypeOK
    <2> QED
      BY <2>1, <2>2, <2>3 DEF ReadyEvents
  <1>1. TypeOK'
    BY <1>a
    DEF EpollWait, clientVars, netVars, connVars, bellVars, queueVars, TypeOK
  <1>2. HandsInv'
    BY DEF EpollWait, clientVars, netVars, connVars, bellVars, queueVars,
           HandsInv, TypeOK, Threads
  <1>3. BatchInv'
    <2>1. ASSUME NEW f \in Fds, f \in batch'
          PROVE  /\ connMap[f] # NULL
                 /\ inbox[connMap[f]] > 0 \/ peer[connMap[f]] = "gone"
      <3>1. f \in watched /\ f \in ReadyConns
        BY <1>a, <2>1
      <3>2. PICK c \in Live : fd[c] = f /\ (inbox[c] > 0 \/ peer[c] = "gone")
        BY <3>1 DEF ReadyConns
      <3>3. connMap[f] # NULL /\ connMap[f] \in Live /\ fd[connMap[f]] = f
        BY <3>1 DEF MapInv
      <3>4. connMap[f] = c
        BY <3>2, <3>3 DEF MapInv
      <3> QED
        BY <3>2, <3>3, <3>4
    <2> QED
      BY <1>a, <2>1 DEF EpollWait, clientVars, netVars, connVars, BatchInv
  <1>4. PendingAnnounced'
    BY DEF EpollWait, clientVars, netVars, connVars, bellVars, queueVars,
           PendingAnnounced, TypeOK
  <1>5. ClientsInv' /\ MapInv' /\ OwnershipSound' /\ DeathInv'
        /\ FunctorsInv' /\ EndInv' /\ StraysHaveLeft'
    BY DEF EpollWait, clientVars, netVars, connVars, bellVars, queueVars,
           ClientsInv, MapInv, Live, OwnershipSound, Held, DeathInv,
           FunctorsInv, EndInv, FreeFds, StraysHaveLeft
  <1> QED
    BY <1>1, <1>2, <1>3, <1>4, <1>5

(* Back to epoll_wait() with no event left. *)
LEMMA BatchDoneKeeps ==
    ASSUME IndInv, UNCHANGED version, BatchDone
    PROVE  IndInv'
  <1> USE DEF IndInv
  <1>1. TypeOK'
    BY DEF BatchDone, clientVars, netVars, connVars, bellVars, queueVars,
           TypeOK
  <1>2. HandsInv'
    BY DEF BatchDone, clientVars, netVars, connVars, bellVars, queueVars,
           HandsInv, TypeOK, Threads
  <1>3. PendingAnnounced'
    BY DEF BatchDone, clientVars, netVars, connVars, bellVars, queueVars,
           PendingAnnounced, TypeOK
  <1>4. ClientsInv' /\ MapInv' /\ BatchInv' /\ OwnershipSound'
        /\ DeathInv' /\ FunctorsInv' /\ EndInv' /\ StraysHaveLeft'
    BY DEF BatchDone, clientVars, netVars, connVars, bellVars, queueVars,
           ClientsInv, MapInv, Live, BatchInv, OwnershipSound, Held, DeathInv,
           FunctorsInv, EndInv, FreeFds, StraysHaveLeft
  <1> QED
    BY <1>1, <1>2, <1>3, <1>4

(* accept() fails: a client is waiting, and no descriptor is free. *)
LEMMA AcceptFailsKeeps ==
    ASSUME IndInv, UNCHANGED version, AcceptFails
    PROVE  IndInv'
  <1> USE DEF IndInv
  <1>1. TypeOK'
    BY DEF AcceptFails, clientVars, netVars, connVars, bellVars, queueVars,
           Dispatch, TypeOK
  <1>2. BatchInv'
    BY DEF AcceptFails, clientVars, netVars, connVars, bellVars, queueVars,
           Dispatch, BatchInv, TypeOK
  <1>3. EndInv'
    <2>1. backlog' # << >> /\ FreeFds = {}
      BY DEF AcceptFails, netVars, Dispatch, BatchInv
    <2>2. FreeFds' = FreeFds
      BY DEF AcceptFails, connVars, FreeFds, Live
    <2> QED
      BY <2>1, <2>2 DEF AcceptFails, EndInv
  <1>4. PendingAnnounced'
    BY DEF AcceptFails, clientVars, netVars, connVars, bellVars, queueVars,
           Dispatch, PendingAnnounced, TypeOK
  <1>5. HandsInv' /\ ClientsInv' /\ MapInv' /\ OwnershipSound'
        /\ DeathInv' /\ FunctorsInv' /\ StraysHaveLeft'
    BY DEF AcceptFails, clientVars, netVars, connVars, bellVars, queueVars,
           Dispatch, HandsInv, ClientsInv, MapInv, Live, OwnershipSound, Held,
           DeathInv, FunctorsInv, StraysHaveLeft
  <1> QED
    BY <1>1, <1>2, <1>3, <1>4, <1>5

(* The counter goes to zero before the functors are swapped out. *)
LEMMA HandleReadKeeps ==
    ASSUME IndInv, UNCHANGED version, HandleRead
    PROVE  IndInv'
  <1> USE DEF IndInv
  <1>1. TypeOK'
    BY DEF HandleRead, clientVars, netVars, connVars, queueVars, Dispatch,
           TypeOK
  <1>2. HandsInv'
    BY DEF HandleRead, clientVars, netVars, connVars, queueVars, Dispatch,
           HandsInv, TypeOK, Threads
  <1>3. BatchInv'
    BY DEF HandleRead, clientVars, netVars, connVars, queueVars, Dispatch,
           BatchInv, TypeOK
  <1>4. PendingAnnounced'
    BY DEF HandleRead, clientVars, netVars, connVars, queueVars, Dispatch,
           PendingAnnounced, TypeOK
  <1>5. ClientsInv' /\ MapInv' /\ OwnershipSound' /\ DeathInv'
        /\ FunctorsInv' /\ EndInv' /\ StraysHaveLeft'
    BY DEF HandleRead, clientVars, netVars, connVars, queueVars, Dispatch,
           ClientsInv, MapInv, Live, OwnershipSound, Held, DeathInv,
           FunctorsInv, EndInv, FreeFds, StraysHaveLeft
  <1> QED
    BY <1>1, <1>2, <1>3, <1>4, <1>5

(* The swap takes all that is pending. *)
LEMMA SwapFunctorsKeeps ==
    ASSUME IndInv, UNCHANGED version, SwapFunctors
    PROVE  IndInv'
  <1> USE DEF IndInv
  <1>1. TypeOK'
    BY DEF SwapFunctors, clientVars, netVars, connVars, queueVars, TypeOK
  <1>2. HandsInv'
    BY DEF SwapFunctors, clientVars, netVars, connVars, queueVars, HandsInv,
           TypeOK, Threads
  <1>3. FunctorsInv'
    BY EmptyElems
    DEF SwapFunctors, clientVars, netVars, connVars, queueVars, FunctorsInv,
        TypeOK
  <1>4. PendingAnnounced'
    BY DEF SwapFunctors, clientVars, netVars, connVars, queueVars,
           PendingAnnounced, TypeOK
  <1>5. ClientsInv' /\ MapInv' /\ BatchInv' /\ OwnershipSound'
        /\ DeathInv' /\ EndInv' /\ StraysHaveLeft'
    BY DEF SwapFunctors, clientVars, netVars, connVars, queueVars, ClientsInv,
           MapInv, Live, BatchInv, OwnershipSound, Held, DeathInv, EndInv,
           FreeFds, StraysHaveLeft
  <1> QED
    BY <1>1, <1>2, <1>3, <1>4, <1>5

(* The last functor has run. *)
LEMMA FunctorsDoneKeeps ==
    ASSUME IndInv, UNCHANGED version, FunctorsDone
    PROVE  IndInv'
  <1> USE DEF IndInv
  <1>1. TypeOK'
    BY DEF FunctorsDone, clientVars, netVars, connVars, bellVars, queueVars,
           TypeOK
  <1>2. HandsInv'
    BY DEF FunctorsDone, clientVars, netVars, connVars, bellVars, queueVars,
           HandsInv, TypeOK, Threads
  <1>3. PendingAnnounced'
    BY DEF FunctorsDone, clientVars, netVars, connVars, bellVars, queueVars,
           PendingAnnounced, TypeOK
  <1>4. ClientsInv' /\ MapInv' /\ BatchInv' /\ OwnershipSound'
        /\ DeathInv' /\ FunctorsInv' /\ EndInv' /\ StraysHaveLeft'
    BY DEF FunctorsDone, clientVars, netVars, connVars, bellVars, queueVars,
           ClientsInv, MapInv, Live, BatchInv, OwnershipSound, Held, DeathInv,
           FunctorsInv, EndInv, FreeFds, StraysHaveLeft
  <1> QED
    BY <1>1, <1>2, <1>3, <1>4

(* The task goes from the hand of the IO thread into the queue. *)
LEMMA AddTaskKeeps ==
    ASSUME IndInv, UNCHANGED version, AddTask
    PROVE  IndInv'
  <1> USE DEF IndInv
  <1>a. /\ hand[io] \in Conns /\ items \in Seq(Conns) /\ items' = Append(items, hand[io])
        /\ hand' = [hand EXCEPT ![io] = NULL] /\ io \in Threads
    BY DEF AddTask, TaskQ!Put, HandsInv, Threads
  <1>b. items' \in Seq(Conns) /\ Elems(items') = Elems(items) \cup {hand[io]}
    BY <1>a, Appended
  <1>1. TypeOK'
    BY DEF AddTask, clientVars, netVars, connVars, bellVars, TaskQ!Put, TypeOK
  <1>2. HandsInv'
    BY <1>a, <1>b, NamesAssumption DEF AddTask, TaskQ!Put, HandsInv, Threads
  <1>3. OwnershipSound'
    <2>1. \A c \in Conns :
            Held(c, connMap', items', hand') <=> Held(c, connMap, items, hand)
      <3>1. connMap' = connMap
        BY DEF AddTask, connVars
      <3>2. \A c \in Conns : \A x \in Threads :
                hand'[x] = c <=> hand[x] = c /\ x # io
        BY <1>a, NamesAssumption DEF HandsInv
      <3> QED
        BY <1>a, <1>b, <3>1, <3>2, HeldBy
    <2> QED
      BY <2>1 DEF AddTask, connVars, OwnershipSound, Live
  <1>4. PendingAnnounced'
    BY DEF AddTask, clientVars, netVars, connVars, bellVars, TaskQ!Put,
           PendingAnnounced, TypeOK
  <1>5. ClientsInv' /\ MapInv' /\ BatchInv' /\ DeathInv' /\ FunctorsInv'
        /\ EndInv' /\ StraysHaveLeft'
    BY DEF AddTask, clientVars, netVars, connVars, bellVars, ClientsInv,
           MapInv, Live, BatchInv, DeathInv, FunctorsInv, EndInv, FreeFds,
           StraysHaveLeft
  <1> QED
    BY <1>1, <1>2, <1>3, <1>4, <1>5

(* The task goes from the queue into the hand of a worker. *)
LEMMA TakeTaskKeeps ==
    ASSUME IndInv, UNCHANGED version, NEW w \in Workers, TakeTask(w)
    PROVE  IndInv'
  <1> USE DEF IndInv
  <1>a. /\ hand[w] = NULL /\ items \in Seq(Conns) /\ items # << >> /\ w \in Threads
        /\ items' = Tail(items) /\ hand' = [hand EXCEPT ![w] = Head(items)]
    BY DEF TakeTask, TaskQ!Take, HandsInv, Threads
  <1>b. /\ items' \in Seq(Conns) /\ Head(items) \in Conns
        /\ Elems(items) = Elems(items') \cup {Head(items)}
    BY <1>a, HeadTaken
  <1>1. TypeOK'
    BY DEF TakeTask, clientVars, netVars, connVars, loopVars, bellVars,
           TaskQ!Take, TypeOK
  <1>2. HandsInv'
    <2>1. /\ hand' \in [Threads -> Conns \cup {NULL}]
          /\ hand'[io] = hand[io] /\ hand'[w] # NULL
      BY <1>a, <1>b, NamesAssumption DEF HandsInv, Threads
    <2>2. /\ mode' = [mode EXCEPT ![w] = "idle"] /\ ioAt' = ioAt
          /\ workAt' = [workAt EXCEPT ![w] = "process"]
      BY DEF TakeTask, TaskQ!Take, loopVars
    <2> QED
      BY <1>a, <1>b, <2>1, <2>2, NamesAssumption DEF HandsInv, TypeOK, Threads
  <1>3. OwnershipSound'
    <2>1. \A c \in Conns :
            Held(c, connMap', items', hand') <=> Held(c, connMap, items, hand)
      <3>1. connMap' = connMap
        BY DEF TakeTask, connVars
      <3>2. \A c \in Conns : (\E x \in Threads : hand'[x] = c)
                <=> c = Head(items) \/ \E x \in Threads : hand[x] = c
        BY <1>a, NamesAssumption DEF HandsInv
      <3>3. \A c \in Conns : c \in Elems(items) <=> c \in Elems(items') \/ c = Head(items)
        BY <1>b
      <3> QED
        BY <3>1, <3>2, <3>3, HeldBy
    <2> QED
      BY <2>1 DEF TakeTask, connVars, OwnershipSound, Live
  <1>4. FunctorsInv'
    BY DEF TakeTask, clientVars, netVars, connVars, loopVars, bellVars,
           TaskQ!Take, FunctorsInv, TypeOK
  <1>5. PendingAnnounced'
    BY DEF TakeTask, clientVars, netVars, connVars, loopVars, bellVars,
           TaskQ!Take, PendingAnnounced, TypeOK
  <1>6. ClientsInv' /\ MapInv' /\ BatchInv' /\ DeathInv' /\ EndInv'
        /\ StraysHaveLeft'
    BY DEF TakeTask, clientVars, netVars, connVars, loopVars, bellVars,
           ClientsInv, MapInv, Live, BatchInv, DeathInv, EndInv, FreeFds,
           StraysHaveLeft
  <1> QED
    BY <1>1, <1>2, <1>3, <1>4, <1>5, <1>6

(* The functor is of the connection of the task, which the worker still
   holds. *)
LEMMA RunInLoopKeeps ==
    ASSUME IndInv, UNCHANGED version, NEW w \in Workers, RunInLoop(w)
    PROVE  IndInv'
  <1> USE DEF IndInv
  <1>a. /\ hand[w] \in Conns /\ pending \in Seq(Conns)
        /\ pending' = Append(pending, hand[w])
    BY DEF RunInLoop, HandsInv, TypeOK, Threads
  <1>b. /\ pending' \in Seq(Conns) /\ Elems(pending') = Elems(pending) \cup {hand[w]}
    BY <1>a, Appended
  <1>c. obj[hand[w]] = "live"
    <2>1. w \in Threads /\ Held(hand[w], connMap, items, hand)
      BY HeldBy DEF Threads
    <2> QED
      BY <1>a, <2>1 DEF OwnershipSound, Live
  <1>1. TypeOK'
    BY <1>b
    DEF RunInLoop, clientVars, netVars, connVars, loopVars, queueVars, TypeOK
  <1>2. HandsInv'
    BY DEF RunInLoop, clientVars, netVars, connVars, loopVars, queueVars,
           HandsInv, TypeOK, Threads
  <1>3. FunctorsInv'
    BY <1>b, <1>c
    DEF RunInLoop, clientVars, netVars, connVars, loopVars, queueVars,
        FunctorsInv, TypeOK
  <1>4. PendingAnnounced'
    BY DEF RunInLoop, clientVars, netVars, connVars, loopVars, queueVars,
           PendingAnnounced, TypeOK
  <1>5. ClientsInv' /\ MapInv' /\ BatchInv' /\ OwnershipSound'
        /\ DeathInv' /\ EndInv' /\ StraysHaveLeft'
    BY DEF RunInLoop, clientVars, netVars, connVars, loopVars, queueVars,
           ClientsInv, MapInv, Live, BatchInv, OwnershipSound, Held, DeathInv,
           EndInv, FreeFds, StraysHaveLeft
  <1> QED
    BY <1>1, <1>2, <1>3, <1>4, <1>5

(* The eventfd is written after the functor was stored. *)
LEMMA WakeupKeeps ==
    ASSUME IndInv, UNCHANGED version, NEW w \in Workers, Wakeup(w)
    PROVE  IndInv'
  <1> USE DEF IndInv
  <1>1. TypeOK'
    BY DEF Wakeup, clientVars, netVars, connVars, loopVars, queueVars, TypeOK
  <1>2. HandsInv'
    BY DEF Wakeup, clientVars, netVars, connVars, loopVars, queueVars,
           HandsInv, TypeOK, Threads
  <1>3. FunctorsInv'
    BY DEF Wakeup, clientVars, netVars, connVars, loopVars, queueVars,
           FunctorsInv, TypeOK
  <1>4. PendingAnnounced'
    BY DEF Wakeup, clientVars, netVars, connVars, loopVars, queueVars,
           PendingAnnounced, TypeOK
  <1>5. ClientsInv' /\ MapInv' /\ BatchInv' /\ OwnershipSound'
        /\ DeathInv' /\ EndInv' /\ StraysHaveLeft'
    BY DEF Wakeup, clientVars, netVars, connVars, loopVars, queueVars,
           ClientsInv, MapInv, Live, BatchInv, OwnershipSound, Held, DeathInv,
           EndInv, FreeFds, StraysHaveLeft
  <1> QED
    BY <1>1, <1>2, <1>3, <1>4, <1>5

(* The connection behind an event is in the map, has no line left, and so
   has been closed. *)
LEMMA HandleCloseKeeps ==
    ASSUME IndInv, UNCHANGED version, NEW f \in Fds, HandleClose(f)
    PROVE  IndInv'
  <1> USE DEF IndInv
  <1>a. /\ f \in batch /\ batch' = batch \ {f} /\ down = "up" /\ ioAt = "batch"
        /\ connMap[f] \in Conns /\ connMap[f] # NULL
        /\ connMap[f] \in Live /\ fd[connMap[f]] = f
        /\ inbox[connMap[f]] > 0 \/ peer[connMap[f]] = "gone"
    BY NamesAssumption
    DEF HandleClose, Dispatch, BatchInv, MapInv, TypeOK, Live
  <1> DEFINE c == connMap[f]
  <1> HIDE DEF c
  <1>b. /\ c \in Conns /\ c \in Live /\ fd[c] = f /\ obj[c] = "live" /\ c # NULL
        /\ inbox[c] > 0 \/ peer[c] = "gone"
        /\ connMap[f] = c
        /\ \A g \in Fds : g # f => connMap[g] # c
        /\ \A d \in Live : fd[d] = f => d = c
    BY <1>a, NamesAssumption DEF c, Live, MapInv
  <1>c. /\ watched' = watched \ {f} /\ connMap' = [connMap EXCEPT ![f] = NULL]
        /\ UNCHANGED <<queueVars, down>> /\ Release(c)
        /\ UNCHANGED <<clientVars, netVars, fd, heirs, ioAt, running, bellVars, workAt>>
    BY <1>a DEF HandleClose, c
  <1>d. peer[c] = "gone"
    <2>1. IsConnectionClosed(f)
      BY DEF HandleClose
    <2> QED
      BY <1>b, <2>1 DEF IsConnectionClosed
  <1>e. \A d \in Conns : d # c =>
            (Held(d, connMap', items', hand') <=> Held(d, connMap, items, hand))
    <2>1. \A d \in Conns : d # c => \A g \in Fds : connMap'[g] = d <=> connMap[g] = d
      BY <1>b, <1>c, NamesAssumption DEF TypeOK
    <2> QED
      BY <1>c, <2>1, HeldBy DEF queueVars
  <1>f. /\ OwnershipSound'
        /\ obj' \in [Conns -> {"none", "live", "dead"}]
        /\ \A d \in Conns : d # c => obj'[d] = obj[d]
        /\ \A d \in Conns : obj'[d] = "none" <=> obj[d] = "none"
        /\ \A d \in Conns : obj'[d] = "dead" => obj[d] = "dead" \/ d = c
        /\ Live' \subseteq Live
        /\ \A d \in Live : d # c => d \in Live'
    <2>1. /\ OwnershipSound'
          /\ obj' \in [Conns -> {"none", "live", "dead"}]
          /\ \A d \in Conns : d # c => obj'[d] = obj[d]
          /\ \A d \in Conns : obj'[d] = "none" <=> obj[d] = "none"
          /\ \A d \in Conns : obj'[d] = "dead" => obj[d] = "dead" \/ d = c
          /\ Live' \subseteq Live
      BY <1>b, <1>c, <1>e, Released
    <2> QED
      BY <2>1 DEF Live
  <1>1. TypeOK'
    BY <1>a, <1>c, <1>f DEF TypeOK, clientVars, netVars, bellVars
  <1>2. HandsInv'
    BY <1>c DEF HandsInv, queueVars
  <1>3. ClientsInv'
    <2>1. Elems(backlog) \subseteq Conns
      BY ElemsIn DEF TypeOK
    <2>2. UNCHANGED <<inbox, sent, peer, backlog>>
      BY <1>c DEF clientVars, netVars
    <2> QED
      BY <1>f, <2>1, <2>2 DEF ClientsInv
  <1>4. MapInv'
    <2>1. \A g \in Fds : connMap'[g] = IF g = f THEN NULL ELSE connMap[g]
      BY <1>c DEF TypeOK
    <2>2. UNCHANGED fd
      BY <1>c
    <2>3. \A g \in Fds : connMap'[g] # NULL =>
            connMap'[g] \in Live' /\ fd'[connMap'[g]] = g
      BY <1>b, <1>f, <2>1, <2>2 DEF MapInv
    <2> QED
      BY <1>c, <1>f, <2>1, <2>2, <2>3 DEF MapInv
  <1>5. BatchInv'
    <2>1. \A g \in Fds : g # f => connMap'[g] = connMap[g]
      BY <1>c DEF TypeOK
    <2>2. UNCHANGED <<inbox, peer, backlog>>
      BY <1>c DEF clientVars, netVars
    <2> QED
      BY <1>a, <2>1, <2>2 DEF BatchInv
  <1>6. OwnershipSound'
    BY <1>f
  <1>7. DeathInv'
    <2>1. \A g \in Fds : g # f => connMap'[g] = connMap[g]
      BY <1>c DEF TypeOK
    <2>2. UNCHANGED peer
      BY <1>c DEF clientVars
    <2> QED
      BY <1>b, <1>d, <1>f, <2>1, <2>2 DEF DeathInv
  <1>8. FunctorsInv'
    <2>1. Elems(pending) \subseteq Conns /\ Elems(running) \subseteq Conns
      BY ElemsIn DEF TypeOK
    <2> QED
      BY <1>c, <1>f, <2>1 DEF FunctorsInv, bellVars
  <1>9. EndInv'
    BY <1>a, <1>c DEF EndInv
  <1>10. PendingAnnounced'
    BY <1>a, <1>c DEF PendingAnnounced, bellVars
  <1>11. StraysHaveLeft'
    BY <1>c DEF StraysHaveLeft, clientVars, netVars
  <1> QED
    BY <1>1, <1>2, <1>3, <1>4, <1>5, <1>6, <1>7, <1>8, <1>9, <1>10, <1>11

(* A line of a connection in the map; the task is one more shared_ptr to
   it. *)
LEMMA HandleMessageKeeps ==
    ASSUME IndInv, UNCHANGED version, NEW f \in Fds, HandleMessage(f)
    PROVE  IndInv'
  <1> USE DEF IndInv
  <1>a. /\ f \in batch /\ batch' = batch \ {f} /\ down = "up" /\ ioAt = "batch"
        /\ connMap[f] \in Conns /\ connMap[f] # NULL
        /\ connMap[f] \in Live /\ fd[connMap[f]] = f
        /\ inbox[connMap[f]] > 0 \/ peer[connMap[f]] = "gone"
    BY NamesAssumption
    DEF HandleMessage, Dispatch, BatchInv, MapInv, TypeOK, Live
  <1> DEFINE c == connMap[f]
  <1> HIDE DEF c
  <1>b. /\ c \in Conns /\ c \in Live /\ fd[c] = f /\ obj[c] = "live" /\ c # NULL
        /\ inbox[c] > 0 \/ peer[c] = "gone"
        /\ connMap[f] = c
        /\ \A g \in Fds : g # f => connMap[g] # c
        /\ \A d \in Live : fd[d] = f => d = c
    BY <1>a, NamesAssumption DEF c, Live, MapInv
  <1>c. /\ inbox' = [inbox EXCEPT ![c] = @ - 1] /\ inbox[c] # 0
        /\ mode' = [mode EXCEPT ![io] = "putting"] /\ hand' = [hand EXCEPT ![io] = c]
        /\ ioAt' = "addTask"
        /\ UNCHANGED <<items, open, down>>
        /\ UNCHANGED <<clientVars, backlog, replies, reset, strayed, connVars,
                       running, bellVars, workAt>>
    <2>1. ~IsConnectionClosed(f)
      BY DEF HandleMessage
    <2>2. inbox[c] # 0
      BY <1>b, <2>1 DEF IsConnectionClosed
    <2> QED
      BY <1>a, <2>2 DEF HandleMessage, TaskQ!Offer, c
  <1>d. inbox[c] - 1 \in 0..MaxLines
    BY <1>b, <1>c, SizesAssumption DEF TypeOK
  <1>e. hand[io] = NULL /\ io \in Threads /\ hand \in [Threads -> Conns \cup {NULL}]
    BY <1>a DEF HandsInv, Threads
  <1>f. version.pool
    BY DEF HandleMessage
  <1>1. TypeOK'
    BY <1>a, <1>c, <1>d DEF TypeOK, clientVars, connVars, bellVars
  <1>2. HandsInv'
    BY <1>b, <1>c, <1>e, NamesAssumption DEF HandsInv, Threads
  <1>3. ClientsInv'
    <2>1. \A d \in Conns : inbox'[d] <= sent[d]
      BY <1>b, <1>c, <1>d DEF ClientsInv, TypeOK
    <2> QED
      BY <1>c, <2>1 DEF ClientsInv, clientVars, connVars
  <1>4. MapInv'
    BY <1>c DEF MapInv, Live, connVars
  <1>5. BatchInv'
    <2>1. \A g \in Fds : g # f /\ connMap[g] # NULL =>
            inbox'[connMap[g]] = inbox[connMap[g]]
      BY <1>b, <1>c, <1>d DEF TypeOK
    <2> QED
      BY <1>a, <1>c, <2>1 DEF BatchInv, clientVars, connVars
  <1>6. OwnershipSound'
    <2>1. \A d \in Conns : (\E x \in Threads : hand'[x] = d)
            <=> d = c \/ \E x \in Threads : hand[x] = d
      BY <1>b, <1>c, <1>e, NamesAssumption
    <2>2. \A d \in Conns :
            Held(d, connMap', items', hand') <=> Held(d, connMap, items, hand)
      BY <1>b, <1>c, <2>1, HeldBy DEF connVars
    <2> QED
      BY <1>c, <2>2 DEF OwnershipSound, connVars, Live
  <1>7. DeathInv'
    BY <1>c DEF DeathInv, Live, clientVars, connVars
  <1>8. FunctorsInv'
    BY <1>c, <1>f DEF FunctorsInv, bellVars, connVars
  <1>9. EndInv'
    BY <1>a, <1>c DEF EndInv
  <1>10. PendingAnnounced'
    BY <1>a, <1>c DEF PendingAnnounced, bellVars
  <1>11. StraysHaveLeft'
    BY <1>c DEF StraysHaveLeft, clientVars
  <1> QED
    BY <1>1, <1>2, <1>3, <1>4, <1>5, <1>6, <1>7, <1>8, <1>9, <1>10, <1>11

(* Without the pool the reply goes to the connection the line was read
   from. *)
LEMMA HandleMessageNowKeeps ==
    ASSUME IndInv, UNCHANGED version, NEW f \in Fds, HandleMessageNow(f)
    PROVE  IndInv'
  <1> USE DEF IndInv
  <1>a. /\ f \in batch /\ batch' = batch \ {f} /\ down = "up" /\ ioAt = "batch"
        /\ connMap[f] \in Conns /\ connMap[f] # NULL
        /\ connMap[f] \in Live /\ fd[connMap[f]] = f
        /\ inbox[connMap[f]] > 0 \/ peer[connMap[f]] = "gone"
    BY NamesAssumption
    DEF HandleMessageNow, Dispatch, BatchInv, MapInv, TypeOK, Live
  <1> DEFINE c == connMap[f]
  <1> HIDE DEF c
  <1>b. /\ c \in Conns /\ c \in Live /\ fd[c] = f /\ obj[c] = "live" /\ c # NULL
        /\ inbox[c] > 0 \/ peer[c] = "gone"
        /\ connMap[f] = c
        /\ \A g \in Fds : g # f => connMap[g] # c
        /\ \A d \in Live : fd[d] = f => d = c
    BY <1>a, NamesAssumption DEF c, Live, MapInv
  <1>c. /\ inbox' = [inbox EXCEPT ![c] = @ - 1] /\ inbox[c] # 0
        /\ Write(c, c, TRUE)
        /\ UNCHANGED <<clientVars, backlog, connVars, ioAt, running, bellVars,
                       queueVars, workAt>>
    <2>1. ~IsConnectionClosed(f)
      BY DEF HandleMessageNow
    <2>2. inbox[c] # 0
      BY <1>b, <2>1 DEF IsConnectionClosed
    <2> QED
      BY <1>a, <2>2 DEF HandleMessageNow, c
  <1>d. inbox[c] - 1 \in 0..MaxLines
    BY <1>b, <1>c, SizesAssumption DEF TypeOK
  <1>e. /\ replies' \in [Conns -> Nat] /\ reset' \in [Conns -> BOOLEAN]
        /\ strayed' = strayed /\ down' \in {"up", "sigpipe"}
        /\ down' = "sigpipe" => \E d \in Conns : reset'[d] /\ peer'[d] = "gone"
    <2>1. UNCHANGED peer
      BY <1>c DEF clientVars
    <2> QED
      BY <1>a, <1>b, <1>c, <2>1, Written
  <1>1. TypeOK'
    BY <1>a, <1>c, <1>d, <1>e DEF TypeOK, clientVars, connVars, bellVars
  <1>2. HandsInv'
    BY <1>c DEF HandsInv, queueVars
  <1>3. ClientsInv'
    <2>1. \A d \in Conns : inbox'[d] <= sent[d]
      BY <1>b, <1>c, <1>d DEF ClientsInv, TypeOK
    <2> QED
      BY <1>c, <2>1 DEF ClientsInv, clientVars, connVars
  <1>4. MapInv'
    BY <1>c DEF MapInv, Live, connVars
  <1>5. BatchInv'
    <2>1. \A g \in Fds : g # f /\ connMap[g] # NULL =>
            inbox'[connMap[g]] = inbox[connMap[g]]
      BY <1>b, <1>c, <1>d DEF TypeOK
    <2> QED
      BY <1>a, <1>c, <2>1 DEF BatchInv, clientVars, connVars
  <1>6. OwnershipSound'
    BY <1>c DEF OwnershipSound, Live, Held, connVars, queueVars
  <1>7. DeathInv'
    BY <1>c DEF DeathInv, Live, clientVars, connVars
  <1>8. FunctorsInv'
    BY <1>c DEF FunctorsInv, bellVars, connVars
  <1>9. EndInv'
    BY <1>e DEF EndInv
  <1>10. PendingAnnounced'
    BY <1>a, <1>c DEF PendingAnnounced, bellVars
  <1>11. StraysHaveLeft'
    BY <1>c, <1>e DEF StraysHaveLeft, clientVars
  <1> QED
    BY <1>1, <1>2, <1>3, <1>4, <1>5, <1>6, <1>7, <1>8, <1>9, <1>10, <1>11

(* The accepted connection gets a descriptor nobody has, so its place in
   the map is free. *)
LEMMA HandleConnectionKeeps ==
    ASSUME IndInv, UNCHANGED version, HandleConnection
    PROVE  IndInv'
  <1> USE DEF IndInv
  <1> DEFINE c == Head(backlog)
             f == Lowest(FreeFds)
  <1>a. /\ down = "up" /\ ioAt = "batch" /\ batch' = batch \ {Listen}
        /\ backlog \in Seq(Conns) /\ backlog # << >>
    BY DEF HandleConnection, Dispatch, BatchInv, TypeOK
  <1>b. /\ c \in Conns /\ backlog' \in Seq(Conns)
        /\ Elems(backlog) = Elems(backlog') \cup {c}
        /\ Distinct(backlog) => Distinct(backlog') /\ c \notin Elems(backlog')
    <2>1. backlog' = Tail(backlog)
      BY DEF HandleConnection
    <2> QED
      BY <1>a, <2>1, HeadTaken
  <1>c. f \in FreeFds
    <2>1. FreeFds \subseteq Nat /\ FreeFds # {}
      BY SizesAssumption DEF HandleConnection, FreeFds, Fds
    <2> QED
      BY <2>1, LowestIsOne
  <1>d. /\ watched' = watched \cup {f} /\ fd' = [fd EXCEPT ![c] = f]
        /\ obj' = [obj EXCEPT ![c] = "live"]
        /\ heirs' = [d \in Conns |-> IF obj[d] = "dead" THEN heirs[d] \cup {c}
                                      ELSE heirs[d]]
        /\ \/ /\ connMap[f] = NULL
              /\ connMap' = [connMap EXCEPT ![f] = c] /\ Write(c, c, FALSE)
           \/ connMap[f] # NULL
        /\ UNCHANGED <<clientVars, inbox, ioAt, running, bellVars, queueVars, workAt>>
    BY DEF HandleConnection
  <1> HIDE DEF c, f
  <1>e. f \in Fds /\ f # NoFd /\ \A d \in Live : fd[d] # f
    BY <1>c, SizesAssumption DEF FreeFds, Fds, NoFd
  <1>f. /\ connMap[f] = NULL /\ connMap' = [connMap EXCEPT ![f] = c]
        /\ Write(c, c, FALSE)
    <2>1. connMap[f] = NULL
      BY <1>e DEF MapInv
    <2> QED
      BY <1>d, <2>1
  <1>g. /\ replies' \in [Conns -> Nat] /\ reset' \in [Conns -> BOOLEAN]
        /\ strayed' = strayed /\ down' \in {"up", "sigpipe"}
        /\ down' = "sigpipe" => \E d \in Conns : reset'[d] /\ peer'[d] = "gone"
    <2>1. UNCHANGED peer
      BY <1>d DEF clientVars
    <2> QED
      BY <1>a, <1>b, <1>f, <2>1, Written
  <1>h. /\ obj[c] = "none" /\ peer[c] # "away" /\ c \notin Live /\ c # NULL
        /\ Live' = Live \cup {c}
        /\ \A d \in Conns : d # c => obj'[d] = obj[d]
        /\ obj'[c] = "live"
    <2>1. obj[c] = "none" /\ peer[c] # "away" /\ c # NULL
      BY <1>b, NamesAssumption DEF ClientsInv
    <2> QED
      BY <1>b, <1>d, <2>1 DEF TypeOK, Live
  <1>i. /\ \A g \in Fds : connMap'[g] = IF g = f THEN c ELSE connMap[g]
        /\ \A d \in Conns : fd'[d] = IF d = c THEN f ELSE fd[d]
    BY <1>b, <1>d, <1>e, <1>f DEF TypeOK
  <1>1. TypeOK'
    <2>1. /\ fd' \in [Conns -> Fds \cup {NoFd}] /\ connMap' \in [Fds -> Conns \cup {NULL}]
          /\ obj' \in [Conns -> {"none", "live", "dead"}] /\ watched' \subseteq Fds
      BY <1>b, <1>d, <1>e, <1>f DEF TypeOK
    <2>2. heirs' \in [Conns -> SUBSET Conns]
      BY <1>b, <1>d DEF TypeOK
    <2> QED
      BY <1>a, <1>b, <1>d, <1>g, <2>1, <2>2 DEF TypeOK, clientVars, bellVars
  <1>2. HandsInv'
    BY <1>d DEF HandsInv, queueVars
  <1>3. ClientsInv'
    <2>1. Elems(backlog') \subseteq Conns
      BY <1>b, ElemsIn
    <2> QED
      BY <1>b, <1>d, <1>h, <2>1 DEF ClientsInv, clientVars
  <1>4. MapInv'
    <2>1. \A d, e \in Live' : fd'[d] = fd'[e] => d = e
      BY <1>e, <1>h, <1>i DEF MapInv, Live
    <2>2. \A d \in Live' : fd'[d] \in Fds
      BY <1>e, <1>h, <1>i DEF MapInv, Live
    <2>3. \A g \in Fds : g \in watched' <=> connMap'[g] # NULL
      BY <1>d, <1>h, <1>i DEF MapInv
    <2>4. \A g \in Fds : connMap'[g] # NULL =>
            connMap'[g] \in Live' /\ fd'[connMap'[g]] = g
      <3> SUFFICES ASSUME NEW g \in Fds, connMap'[g] # NULL
                   PROVE  connMap'[g] \in Live' /\ fd'[connMap'[g]] = g
        OBVIOUS
      <3>1. CASE g = f
        BY <1>b, <1>h, <1>i, <3>1
      <3>2. CASE g # f
        BY <1>h, <1>i, <3>2 DEF MapInv, Live
      <3> QED
        BY <3>1, <3>2
    <2> QED
      BY <2>1, <2>2, <2>3, <2>4 DEF MapInv
  <1>5. BatchInv'
    <2>1. \A g \in Fds : g \in batch' => g # f
      BY <1>a, <1>f DEF BatchInv
    <2> QED
      BY <1>a, <1>d, <1>i, <2>1 DEF BatchInv, clientVars
  <1>6. OwnershipSound'
    <2>1. Held(c, connMap', items', hand')
      BY <1>e, <1>i, HeldBy
    <2>2. \A d \in Conns : d # c =>
            (Held(d, connMap', items', hand') <=> Held(d, connMap, items, hand))
      <3>1. \A d \in Conns : d # c => \A g \in Fds : connMap'[g] = d <=> connMap[g] = d
        BY <1>f, <1>i, NamesAssumption
      <3> QED
        BY <1>d, <3>1, HeldBy DEF queueVars
    <2> QED
      BY <1>h, <2>1, <2>2 DEF OwnershipSound
  <1>7. DeathInv'
    <2>1. \A d \in Live :
            (\E g \in Fds : connMap[g] = d) => \E g \in Fds : connMap'[g] = d
      BY <1>f, <1>i, NamesAssumption DEF Live
    <2>2. connMap'[f] = c
      BY <1>e, <1>i
    <2> QED
      BY <1>d, <1>e, <1>h, <2>1, <2>2 DEF DeathInv, clientVars
  <1>8. FunctorsInv'
    <2>1. Elems(pending) \subseteq Conns /\ Elems(running) \subseteq Conns
      BY ElemsIn DEF TypeOK
    <2> QED
      BY <1>d, <1>h, <2>1 DEF FunctorsInv, bellVars
  <1>9. EndInv'
    BY <1>g DEF EndInv
  <1>10. PendingAnnounced'
    BY <1>a, <1>d, <1>g DEF PendingAnnounced, bellVars
  <1>11. StraysHaveLeft'
    BY <1>d, <1>g DEF StraysHaveLeft, clientVars
  <1> QED
    BY <1>1, <1>2, <1>3, <1>4, <1>5, <1>6, <1>7, <1>8, <1>9, <1>10, <1>11

(* The reply goes to the connection itself, or that connection is dead and
   its client has closed. *)
LEMMA RunFunctorKeeps ==
    ASSUME IndInv, UNCHANGED version, RunFunctor
    PROVE  IndInv'
  <1> USE DEF IndInv
  <1> DEFINE c == Head(running)
  <1>a. /\ down = "up" /\ ioAt = "functors" /\ running \in Seq(Conns) /\ running # << >>
        /\ running' = Tail(running)
        /\ UNCHANGED <<clientVars, backlog, inbox, connVars, batch, ioAt, bellVars,
                       queueVars, workAt>>
    BY DEF RunFunctor, TypeOK
  <1>b. /\ c \in Conns /\ running' \in Seq(Conns)
        /\ Elems(running) = Elems(running') \cup {c}
    BY <1>a, HeadTaken
  <1>c. PICK d \in SendTargets(c) : Write(c, d, TRUE)
    BY DEF RunFunctor
  <1> HIDE DEF c
  <1>d. d \in Conns \cup {NULL}
    BY <1>b, <1>c DEF SendTargets, TypeOK, Live
  <1>e. d # c => peer[c] = "gone"
    <2>1. obj[c] # "none"
      BY <1>b DEF FunctorsInv
    <2>2. obj[c] \in {"none", "live", "dead"}
      BY <1>b DEF TypeOK
    <2>3. obj[c] = "live" => d = c
      BY <1>b, <1>c DEF SendTargets, Live
    <2> QED
      BY <1>b, <2>1, <2>2, <2>3 DEF DeathInv
  <1>f. version.pool
    BY <1>a DEF FunctorsInv
  <1>g. UNCHANGED peer
    BY <1>a DEF clientVars
  <1>h. /\ replies' \in [Conns -> Nat] /\ reset' \in [Conns -> BOOLEAN]
        /\ strayed' \subseteq strayed \cup ({<<c, d>>} \cap (Conns \X Conns))
        /\ c = d => strayed' = strayed
        /\ down' \in {"up", "sigpipe"}
        /\ down' = "sigpipe" => \E e \in Conns : reset'[e] /\ peer'[e] = "gone"
    BY <1>a, <1>b, <1>c, <1>d, <1>g, Written
  <1>1. TypeOK'
    <2>1. strayed' \subseteq Conns \X Conns
      BY <1>h DEF TypeOK
    <2> QED
      BY <1>a, <1>b, <1>h, <2>1 DEF TypeOK, clientVars, connVars, bellVars
  <1>2. HandsInv'
    BY <1>a DEF HandsInv, queueVars
  <1>3. ClientsInv'
    BY <1>a DEF ClientsInv, clientVars, connVars
  <1>4. MapInv'
    BY <1>a DEF MapInv, Live, connVars
  <1>5. BatchInv'
    BY <1>a DEF BatchInv, clientVars, connVars
  <1>6. OwnershipSound'
    BY <1>a DEF OwnershipSound, Live, Held, connVars, queueVars
  <1>7. DeathInv'
    BY <1>a DEF DeathInv, Live, clientVars, connVars
  <1>8. FunctorsInv'
    BY <1>a, <1>b, <1>f DEF FunctorsInv, bellVars, connVars
  <1>9. EndInv'
    BY <1>h DEF EndInv
  <1>10. PendingAnnounced'
    BY <1>a, <1>h DEF PendingAnnounced, bellVars
  <1>11. StraysHaveLeft'
    <2>1. \A s \in strayed' : s \in strayed \/ s[1] = c
      BY <1>h
    <2>2. c = d => strayed' = strayed
      BY <1>h
    <2> QED
      BY <1>e, <1>f, <1>g, <2>1, <2>2 DEF StraysHaveLeft
  <1> QED
    BY <1>1, <1>2, <1>3, <1>4, <1>5, <1>6, <1>7, <1>8, <1>9, <1>10, <1>11

(* The last shared_ptr to a connection goes only after it has left the map. *)
LEMMA GetTaskKeeps ==
    ASSUME IndInv, UNCHANGED version, NEW w \in Workers, GetTask(w)
    PROVE  IndInv'
  <1> USE DEF IndInv
  <1> DEFINE c == hand[w]
  <1>a. /\ down = "up" /\ workAt[w] = "loop" /\ version.pool /\ w \in Threads /\ w # io
        /\ workAt' = [workAt EXCEPT ![w] = "pop"]
        /\ mode' = [mode EXCEPT ![w] = "taking"] /\ hand' = [hand EXCEPT ![w] = NULL]
        /\ UNCHANGED <<items, open, connMap>> /\ Release(c)
        /\ UNCHANGED <<clientVars, netVars, fd, heirs, watched, loopVars, bellVars, down>>
        /\ c \in Conns \cup {NULL} /\ NULL \notin Conns
    BY NamesAssumption DEF GetTask, TaskQ!Ask, Threads, HandsInv
  <1>b. c \in Conns => c \in Live
    <2>1. c \in Conns => Held(c, connMap, items, hand)
      BY <1>a, HeldBy
    <2> QED
      BY <2>1 DEF OwnershipSound
  <1>c. /\ hand' \in [Threads -> Conns \cup {NULL}]
        /\ \A x \in Threads : hand'[x] = IF x = w THEN NULL ELSE hand[x]
    BY <1>a DEF HandsInv
  <1> HIDE DEF c
  <1>d. \A d \in Conns : d # c =>
            (Held(d, connMap', items', hand') <=> Held(d, connMap, items, hand))
    <2>1. \A d \in Conns : d # c => \A x \in Threads : hand'[x] = d <=> hand[x] = d
      BY <1>a, <1>c DEF c
    <2> QED
      BY <1>a, <2>1, HeldBy
  <1>e. /\ OwnershipSound'
        /\ obj' \in [Conns -> {"none", "live", "dead"}]
        /\ \A d \in Conns : d # c => obj'[d] = obj[d]
        /\ \A d \in Conns : obj'[d] = "none" <=> obj[d] = "none"
        /\ \A d \in Conns : obj'[d] = "dead" => obj[d] = "dead" \/ d = c
        /\ Live' \subseteq Live
        /\ c \in Live /\ Held(c, connMap', items', hand') => c \in Live'
    BY <1>a, <1>b, <1>d, Released
  <1>f. /\ \A d \in Live : d # c => d \in Live'
        /\ \A g \in Fds : connMap[g] = c /\ c \in Live => c \in Live'
    <2>1. \A g \in Fds : connMap[g] = c => Held(c, connMap', items', hand')
      BY <1>a, HeldBy
    <2> QED
      BY <1>e, <2>1 DEF Live
  <1>1. TypeOK'
    BY <1>a, <1>e DEF TypeOK, clientVars, netVars, loopVars, bellVars
  <1>2. HandsInv'
    <2>1. /\ mode' \in [Threads -> {"idle", "putting", "taking"}] /\ mode'[io] = mode[io]
          /\ \A v \in Workers : mode'[v] = IF v = w THEN "taking" ELSE mode[v]
      BY <1>a DEF HandsInv, Threads
    <2>2. \A v \in Workers : workAt'[v] = IF v = w THEN "pop" ELSE workAt[v]
      BY <1>a DEF TypeOK
    <2>3. /\ hand'[io] = hand[io]
          /\ \A v \in Workers : hand'[v] = IF v = w THEN NULL ELSE hand[v]
      BY <1>a, <1>c DEF Threads
    <2> QED
      BY <1>a, <1>c, <2>1, <2>2, <2>3 DEF HandsInv, loopVars
  <1>3. ClientsInv'
    <2>1. Elems(backlog) \subseteq Conns
      BY ElemsIn DEF TypeOK
    <2> QED
      BY <1>a, <1>e, <2>1 DEF ClientsInv, clientVars, netVars
  <1>4. MapInv'
    <2>1. \A g \in Fds : connMap[g] # NULL => connMap[g] \in Live'
      BY <1>f DEF MapInv
    <2> QED
      BY <1>a, <1>e, <2>1 DEF MapInv
  <1>5. BatchInv'
    BY <1>a DEF BatchInv, clientVars, netVars, loopVars
  <1>6. OwnershipSound'
    BY <1>e
  <1>7. DeathInv'
    <2>1. c \in Conns /\ obj'[c] = "dead" => peer[c] = "gone"
      <3>1. c \in Conns /\ obj'[c] = "dead" => c \notin Live'
        BY DEF Live
      <3>2. c \in Conns => peer[c] = "gone" \/ \E g \in Fds : connMap[g] = c
        BY <1>b DEF DeathInv
      <3> QED
        BY <1>b, <1>f, <3>1, <3>2
    <2> QED
      BY <1>a, <1>e, <2>1 DEF DeathInv, clientVars
  <1>8. FunctorsInv'
    <2>1. Elems(pending) \subseteq Conns /\ Elems(running) \subseteq Conns
      BY ElemsIn DEF TypeOK
    <2> QED
      BY <1>a, <1>e, <2>1 DEF FunctorsInv, bellVars, loopVars
  <1>9. EndInv'
    BY <1>a DEF EndInv
  <1>10. PendingAnnounced'
    <2>1. \A v \in Workers : workAt[v] = "wakeup" => workAt'[v] = "wakeup"
      BY <1>a DEF TypeOK
    <2> QED
      BY <1>a, <2>1 DEF PendingAnnounced, bellVars, loopVars
  <1>11. StraysHaveLeft'
    BY <1>a DEF StraysHaveLeft, clientVars, netVars
  <1> QED
    BY <1>1, <1>2, <1>3, <1>4, <1>5, <1>6, <1>7, <1>8, <1>9, <1>10, <1>11

-----------------------------------------------------------------------------
LEMMA NextKeepsIndInv == IndInv /\ [Next]_vars => IndInv'
  <1> SUFFICES ASSUME IndInv, [Next]_vars PROVE IndInv'
    OBVIOUS
  <1>1. ASSUME NEW c \in Conns, ClientStep(c) PROVE IndInv'
    BY <1>1, ConnectKeeps, SendLineKeeps, CloseKeeps DEF ClientStep
  <1>2. CASE IOStep
    BY <1>2, EpollWaitKeeps, BatchDoneKeeps, HandleConnectionKeeps,
       AcceptFailsKeeps, HandleCloseKeeps, HandleMessageKeeps,
       HandleMessageNowKeeps, AddTaskKeeps, HandleReadKeeps,
       SwapFunctorsKeeps, RunFunctorKeeps, FunctorsDoneKeeps
    DEF IOStep
  <1>3. ASSUME NEW w \in Workers, WorkerStep(w) PROVE IndInv'
    BY <1>3, GetTaskKeeps, TakeTaskKeeps, RunInLoopKeeps, WakeupKeeps
    DEF WorkerStep
  <1>4. CASE UNCHANGED vars
    <2>1. UNCHANGED <<clientVars, netVars, connVars, loopVars, bellVars,
                      queueVars, workAt, down, version>>
      BY <1>4 DEF vars
    <2>2. TypeOK' /\ HandsInv' /\ ClientsInv'
      BY <2>1
      DEF IndInv, TypeOK, HandsInv, ClientsInv, clientVars, netVars, connVars,
          loopVars, bellVars, queueVars
    <2>3. MapInv' /\ BatchInv' /\ OwnershipSound' /\ DeathInv'
      BY <2>1
      DEF IndInv, MapInv, BatchInv, OwnershipSound, Held, DeathInv, Live,
          clientVars, netVars, connVars, loopVars, queueVars
    <2>4. FunctorsInv' /\ EndInv' /\ PendingAnnounced' /\ StraysHaveLeft'
      BY <2>1
      DEF IndInv, FunctorsInv, EndInv, FreeFds, Live, PendingAnnounced,
          StraysHaveLeft, clientVars, netVars, connVars, loopVars, bellVars
    <2> QED
      BY <2>2, <2>3, <2>4 DEF IndInv
  <1> QED
    BY <1>1, <1>2, <1>3, <1>4 DEF Next

LEMMA IndInvHolds == Spec => []IndInv
  BY InitIndInv, NextKeepsIndInv, PTL DEF Spec

(* EpollPoller.cc, Acceptor.cc, Socket.cc: whichever thread destroys which
   connection and whenever the kernel hands a descriptor out again, map,
   kernel and epoll agree on it, and no event of a batch is stale. *)
THEOREM TablesAgree == Spec => []DescriptorsAgree
  <1>1. IndInv => DescriptorsAgree
    BY DEF IndInv, DescriptorsAgree, MapInv, BatchInv
  <1> QED
    BY <1>1, IndInvHolds, PTL

(* A TcpConnection exists as long as connMap_, a queued task or a task in
   some thread's hand refers to it, and no longer. *)
THEOREM OwnersKeepAlive == Spec => []OwnershipSound
  <1>1. IndInv => OwnershipSound
    BY DEF IndInv
  <1> QED
    BY <1>1, IndInvHolds, PTL

(* runInLoop() stores before it writes the eventfd, and handleRead() comes
   before the swap: no functor waits without somebody about to see it. *)
THEOREM NoFunctorForgotten == Spec => []PendingAnnounced
  <1>1. IndInv => PendingAnnounced
    BY DEF IndInv
  <1> QED
    BY <1>1, IndInvHolds, PTL

(* No free descriptor means that each belongs to one connection. *)
LEMMA AllInUse ==
    ASSUME MapInv, FreeFds = {}
    PROVE  Cardinality(Live) = MaxFd
  <1> DEFINE owner == [c \in Live |-> fd[c]]
  <1>1. IsFiniteSet(Fds) /\ Cardinality(Fds) = MaxFd
    BY SizesAssumption, FS_Interval DEF Fds
  <1>2. owner \in [Live -> Fds]
    BY DEF MapInv
  <1>3. \A c, d \in Live : owner[c] = owner[d] => c = d
    BY DEF MapInv
  <1>4. \A f \in Fds : \E c \in Live : owner[c] = f
    BY DEF FreeFds
  <1> HIDE DEF owner
  <1>5. owner \in Injection(Live, Fds) /\ owner \in Surjection(Live, Fds)
    BY <1>2, <1>3, <1>4 DEF Injection, IsInjective, Surjection
  <1> QED
    BY <1>1, <1>5, FS_Injection

(* The two asserts hold; accept() fails only when every descriptor belongs
   to a connection that somebody holds, and SIGPIPE comes only of a client
   that has closed and reset. *)
THEOREM EndingsKnown == Spec => []KnownEndings
  <1>1. IndInv => KnownEndings
    BY AllInUse DEF IndInv, EndInv, KnownEndings
  <1> QED
    BY <1>1, IndInvHolds, PTL

-----------------------------------------------------------------------------
(***************************************************************************)
(* No line is answered twice: a line that was sent is in the socket, in    *)
(* the pool's queue or a hand, in a functor, answered or lost, and in one  *)
(* of these places only.                                                   *)
(***************************************************************************)
Count(s, c) == Cardinality({i \in 1..Len(s) : s[i] = c})

(* The workers that have a line of c in hand and no functor for it yet. *)
Processing(c) == {w \in Workers : workAt[w] = "process" /\ hand[w] = c}

InHand(c) == IF hand[io] = c THEN 1 ELSE 0

Total(i, h, q, p, n, u) == i + h + q + p + n + u

Owed(c) ==
    Total(inbox[c], InHand(c), Count(items, c), Cardinality(Processing(c)),
          Count(pending, c), Count(running, c))

Accounted ==
    \A c \in Conns : IsFiniteSet(Processing(c)) /\ replies[c] + Owed(c) <= sent[c]

LEMMA Counted ==
    ASSUME NEW S, NEW s \in Seq(S), NEW c
    PROVE  /\ IsFiniteSet({i \in 1..Len(s) : s[i] = c})
           /\ Count(s, c) \in Nat
           /\ Count(<< >>, c) = 0
  <1>1. Len(s) \in Nat /\ Len(<< >>) = 0
    OBVIOUS
  <1>2. IsFiniteSet(1..Len(s))
    BY <1>1, FS_Interval
  <1>3. IsFiniteSet({i \in 1..Len(s) : s[i] = c})
    BY <1>2, FS_Subset
  <1>4. {i \in 1..0 : << >>[i] = c} = {}
    OBVIOUS
  <1> QED
    BY <1>1, <1>3, <1>4, FS_CardinalityType, FS_EmptySet DEF Count

LEMMA CountAppended ==
    ASSUME NEW S, NEW s \in Seq(S), NEW e \in S, NEW c
    PROVE  Count(Append(s, e), c) = Count(s, c) + (IF e = c THEN 1 ELSE 0)
  <1> DEFINE before == {i \in 1..Len(s) : s[i] = c}
             after == {i \in 1..Len(Append(s, e)) : Append(s, e)[i] = c}
  <1>1. /\ Len(s) \in Nat /\ Len(Append(s, e)) = Len(s) + 1
        /\ \A i \in 1..Len(s) : Append(s, e)[i] = s[i]
        /\ Append(s, e)[Len(s) + 1] = e
    OBVIOUS
  <1>2. \A i : i \in 1..(Len(s) + 1) <=> i \in 1..Len(s) \/ i = Len(s) + 1
    BY <1>1
  <1>3. after = IF e = c THEN before \cup {Len(s) + 1} ELSE before
    BY <1>1, <1>2
  <1>4. Len(s) + 1 \notin before
    BY <1>1
  <1>5. IsFiniteSet(before) /\ Cardinality(before) \in Nat
    BY Counted, FS_CardinalityType
  <1>6. Count(s, c) = Cardinality(before) /\ Count(Append(s, e), c) = Cardinality(after)
    BY DEF Count
  <1> DEFINE new == Len(s) + 1
  <1> HIDE DEF before, after, new
  <1>7. after = (IF e = c THEN before \cup {new} ELSE before) /\ new \notin before
    BY <1>3, <1>4, Zenon DEF new
  <1>8. CASE e = c
    <2>1. Cardinality(before \cup {new}) = Cardinality(before) + 1
      BY <1>5, <1>7, FS_AddElement
    <2> QED
      BY <1>6, <1>7, <1>8, <2>1
  <1>9. CASE e # c
    BY <1>5, <1>6, <1>7, <1>9
  <1> QED
    BY <1>8, <1>9

LEMMA CountTail ==
    ASSUME NEW S, NEW s \in Seq(S), s # << >>, NEW c
    PROVE  Count(s, c) = Count(Tail(s), c) + (IF Head(s) = c THEN 1 ELSE 0)
  <1> DEFINE all == {i \in 1..Len(s) : s[i] = c}
             rest == {i \in 1..Len(Tail(s)) : Tail(s)[i] = c}
             later == all \ {1}
             shift == [i \in rest |-> i + 1]
  <1>1. /\ Head(s) = s[1] /\ 1 \in 1..Len(s) /\ Tail(s) \in Seq(S)
        /\ Len(s) \in Nat /\ Len(Tail(s)) = Len(s) - 1
        /\ \A i \in 1..Len(Tail(s)) : Tail(s)[i] = s[i + 1]
    OBVIOUS
  <1>2. IsFiniteSet(all) /\ IsFiniteSet(rest)
    <2>1. IsFiniteSet(all)
      BY Counted
    <2>2. IsFiniteSet(rest)
      BY <1>1, Counted
    <2> QED
      BY <2>1, <2>2, Zenon
  <1>3. shift \in [rest -> later]
    BY <1>1
  <1>4. \A i, j \in rest : shift[i] = shift[j] => i = j
    BY <1>1
  <1>5. \A j \in later : \E i \in rest : shift[i] = j
    <2> TAKE j \in later
    <2>1. j - 1 \in 1..Len(Tail(s)) /\ j - 1 + 1 = j /\ s[j] = c
      BY <1>1
    <2>2. j - 1 \in rest
      BY <1>1, <2>1
    <2>3. shift[j - 1] = j
      BY <2>1, <2>2
    <2> QED
      BY <2>2, <2>3
  <1>6. Count(s, c) = Cardinality(all) /\ Count(Tail(s), c) = Cardinality(rest)
    BY DEF Count
  <1>7. 1 \in all <=> Head(s) = c
    BY <1>1
  <1> HIDE DEF shift, rest, all
  <1>8. shift \in Bijection(rest, later)
    BY <1>3, <1>4, <1>5 DEF Bijection, Injection, IsInjective, Surjection
  <1>9. Cardinality(later) = Cardinality(rest)
    BY <1>2, <1>8, FS_Bijection DEF ExistsBijection
  <1>10. /\ Cardinality(later) = IF 1 \in all THEN Cardinality(all) - 1
                                 ELSE Cardinality(all)
         /\ Cardinality(all) \in Nat
    BY <1>2, FS_RemoveElement, FS_CardinalityType
  <1> QED
    BY <1>6, <1>7, <1>9, <1>10

(* The accounts in which lines are counted are numbers. *)
LEMMA Numbers ==
    ASSUME IndInv, Accounted, NEW c \in Conns
    PROVE  /\ inbox[c] \in Nat /\ sent[c] \in Nat /\ replies[c] \in Nat
           /\ Count(items, c) \in Nat /\ Count(pending, c) \in Nat
           /\ Count(running, c) \in Nat
           /\ IsFiniteSet(Processing(c)) /\ Cardinality(Processing(c)) \in Nat
           /\ replies[c] + Owed(c) <= sent[c]
  <1>1. /\ items \in Seq(Conns) /\ pending \in Seq(Conns) /\ running \in Seq(Conns)
    BY DEF IndInv, TypeOK, HandsInv
  <1>2. inbox[c] \in Nat /\ sent[c] \in Nat /\ replies[c] \in Nat
    BY SizesAssumption DEF IndInv, TypeOK
  <1>3. IsFiniteSet(Processing(c)) /\ replies[c] + Owed(c) <= sent[c]
    BY DEF Accounted
  <1>4. Cardinality(Processing(c)) \in Nat
    BY <1>3, FS_CardinalityType
  <1> QED
    BY <1>1, <1>2, <1>3, <1>4, Counted

(* The account of one client, in numbers. *)
LEMMA Account ==
    ASSUME IndInv, Accounted, NEW c \in Conns
    PROVE  \E r, i, h, q, p, n, u, s \in Nat :
              /\ r = replies[c] /\ i = inbox[c] /\ h = InHand(c) /\ q = Count(items, c)
              /\ p = Cardinality(Processing(c)) /\ n = Count(pending, c)
              /\ u = Count(running, c) /\ s = sent[c]
              /\ r + Total(i, h, q, p, n, u) <= s
  <1>1. InHand(c) \in Nat
    BY DEF InHand
  <1>2. /\ inbox[c] \in Nat /\ sent[c] \in Nat /\ replies[c] \in Nat
        /\ Count(items, c) \in Nat /\ Count(pending, c) \in Nat
        /\ Count(running, c) \in Nat /\ Cardinality(Processing(c)) \in Nat
        /\ replies[c] + Owed(c) <= sent[c]
    BY Numbers
  <1>3. replies[c] + Total(inbox[c], InHand(c), Count(items, c), Cardinality(Processing(c)),
                           Count(pending, c), Count(running, c)) <= sent[c]
    BY <1>2, Zenon DEF Owed
  <1> QED
    BY <1>1, <1>2, <1>3, Zenon

(* Steps that move no line: the accounts are the same. *)
LEMMA NothingMoved ==
    ASSUME Accounted,
           UNCHANGED <<inbox, sent, replies, hand, items, pending, running>>,
           \A c \in Conns : Processing(c)' = Processing(c)
    PROVE  Accounted'
  BY DEF Accounted, Owed, InHand, Count

LEMMA NobodyProcesses ==
    ASSUME UNCHANGED <<hand, workAt>>
    PROVE  \A c : Processing(c)' = Processing(c)
  BY DEF Processing

(* A reply that is written is one more for its client, at most. *)
LEMMA WrittenOnce ==
    ASSUME TypeOK, NEW c \in Conns, NEW d \in Conns \cup {NULL}, NEW r, Write(c, d, r)
    PROVE  /\ \A e \in Conns : e # c => replies'[e] = replies[e]
           /\ replies'[c] \in {replies[c], replies[c] + 1}
           /\ r = FALSE => replies' = replies
  <1>1. replies' = replies \/ (r # FALSE /\ replies' = [replies EXCEPT ![c] = @ + 1])
    BY Zenon DEF Write
  <1>2. replies \in [Conns -> Nat]
    BY DEF TypeOK
  <1> QED
    BY <1>1, <1>2

LEMMA ClientsAccount ==
    ASSUME IndInv, Accounted, NEW c \in Conns, ClientStep(c)
    PROVE  Accounted'
  <1>1. CASE Connect(c) \/ Close(c)
    BY <1>1, NothingMoved, NobodyProcesses
    DEF Connect, Close, queueVars, bellVars, loopVars
  <1>2. CASE SendLine(c)
    <2>1. /\ sent' = [sent EXCEPT ![c] = @ + 1] /\ inbox' = [inbox EXCEPT ![c] = @ + 1]
          /\ UNCHANGED <<replies, hand, items, pending, running, workAt>>
      BY <1>2 DEF SendLine, queueVars, bellVars, loopVars
    <2> SUFFICES ASSUME NEW d \in Conns
                 PROVE  IsFiniteSet(Processing(d)') /\ replies'[d] + Owed(d)' <= sent'[d]
      BY DEF Accounted
    <2>2. Processing(d)' = Processing(d)
      BY <2>1, NobodyProcesses
    <2>3. /\ sent'[d] = IF d = c THEN sent[c] + 1 ELSE sent[d]
          /\ inbox'[d] = IF d = c THEN inbox[c] + 1 ELSE inbox[d]
      BY <2>1 DEF IndInv, TypeOK
    <2> QED
      <3>1. PICK r, i, h, q, p, n, u, s \in Nat :
              /\ r = replies[d] /\ i = inbox[d] /\ h = InHand(d) /\ q = Count(items, d)
              /\ p = Cardinality(Processing(d)) /\ n = Count(pending, d)
              /\ u = Count(running, d) /\ s = sent[d]
              /\ r + Total(i, h, q, p, n, u) <= s
        BY Account
      <3>2. PICK k \in {0, 1} : k = (IF c = d THEN 1 ELSE 0)
        OBVIOUS
      <3>3. /\ replies'[d] = r /\ sent'[d] = s + k
        BY <3>1, <3>2, <2>1, <2>3
      <3>4. InHand(d)' = h /\ inbox'[d] = i + k
        BY <3>1, <3>2, <2>1, <2>3 DEF InHand
      <3>5. Count(items', d) = q /\ Cardinality(Processing(d)') = p
        BY <3>1, <3>2, <2>1, <2>2
      <3>6. Count(pending', d) = n /\ Count(running', d) = u
        BY <3>1, <3>2, <2>1
      <3>7. Owed(d)' = Total(i + k, h, q, p, n, u)
        BY <3>4, <3>5, <3>6, Zenon DEF Owed
      <3>8. r + Total(i + k, h, q, p, n, u) <= s + k
        BY <3>1 DEF Total
      <3>9. IsFiniteSet(Processing(d)')
        BY <2>2, Numbers
      <3> QED
        BY <3>3, <3>7, <3>8, <3>9, Zenon
  <1> QED
    BY <1>1, <1>2 DEF ClientStep

(* What epoll, accept() and the end of a connection do moves no line. *)
LEMMA LoopAccounts ==
    ASSUME IndInv, Accounted,
           \/ EpollWait \/ BatchDone \/ HandleConnection \/ AcceptFails
           \/ HandleRead \/ FunctorsDone \/ \E f \in Fds : HandleClose(f)
    PROVE  Accounted'
  <1> USE DEF queueVars, bellVars, loopVars, netVars, clientVars
  <1>1. CASE EpollWait \/ BatchDone \/ AcceptFails \/ HandleRead \/ FunctorsDone
    BY <1>1, NothingMoved, NobodyProcesses
    DEF EpollWait, BatchDone, AcceptFails, HandleRead, FunctorsDone
  <1>2. CASE HandleConnection
    <2>1. /\ UNCHANGED <<inbox, sent, hand, items, pending, running, workAt>>
          /\ replies' = replies \/ Write(Head(backlog), Head(backlog), FALSE)
      BY <1>2 DEF HandleConnection
    <2>2. Head(backlog) \in Conns
      <3>1. backlog \in Seq(Conns) /\ backlog # << >>
        BY <1>2 DEF HandleConnection, Dispatch, IndInv, TypeOK, BatchInv
      <3> QED
        BY <3>1, HeadTaken
    <2>3. replies' = replies
      BY <2>1, <2>2, WrittenOnce DEF IndInv
    <2> QED
      BY <2>1, <2>3, NothingMoved, NobodyProcesses
  <1>3. ASSUME NEW f \in Fds, HandleClose(f) PROVE Accounted'
    <2>1. UNCHANGED <<inbox, sent, replies, hand, items, pending, running, workAt>>
      BY <1>3 DEF HandleClose
    <2> QED
      BY <2>1, NothingMoved, NobodyProcesses
  <1> QED
    BY <1>1, <1>2, <1>3

(* A line read is handed to the queue, which takes it over from addTask(). *)
LEMMA QueueAccounts ==
    ASSUME IndInv, Accounted, AddTask \/ \E f \in Fds : HandleMessage(f)
    PROVE  Accounted'
  <1> USE DEF queueVars, bellVars, loopVars, netVars, clientVars
  <1>a. /\ io \in Threads /\ hand \in [Threads -> Conns \cup {NULL}]
        /\ items \in Seq(Conns) /\ inbox \in [Conns -> 0..MaxLines] /\ io \notin Workers
        /\ NULL \notin Conns
    BY NamesAssumption DEF IndInv, HandsInv, Threads, TypeOK
  <1>b. ASSUME UNCHANGED workAt, \A w \in Workers : hand'[w] = hand[w]
        PROVE  \A d : Processing(d)' = Processing(d)
    BY <1>b DEF Processing
  <1>1. ASSUME NEW f \in Fds, HandleMessage(f) PROVE Accounted'
    <2>1. PICK c \in Conns :
            /\ inbox' = [inbox EXCEPT ![c] = @ - 1]
            /\ hand' = [hand EXCEPT ![io] = c] /\ hand[io] = NULL
            /\ UNCHANGED <<sent, replies, items, pending, running, workAt>>
      <3>1. connMap[f] \in Conns
        BY <1>1 DEF HandleMessage, Dispatch, IndInv, BatchInv, TypeOK
      <3>2. connMap[f] # NULL /\ hand[io] = NULL
        BY <1>1 DEF HandleMessage, Dispatch, IndInv, BatchInv, HandsInv
      <3> QED
        BY <1>1, <3>1, <3>2 DEF HandleMessage, TaskQ!Offer
    <2> SUFFICES ASSUME NEW d \in Conns
                 PROVE  IsFiniteSet(Processing(d)') /\ replies'[d] + Owed(d)' <= sent'[d]
      BY DEF Accounted
    <2>2. Processing(d)' = Processing(d)
      BY <1>a, <1>b, <2>1 DEF Threads
    <2>3. inbox'[d] = inbox[d] - (IF d = c THEN 1 ELSE 0)
      BY <1>a, <2>1
    <2>4. hand'[io] = c /\ hand[io] # d
      BY <1>a, <2>1
    <2>5. Count(items, d)' = Count(items, d) /\ Count(pending, d)' = Count(pending, d)
          /\ Count(running, d)' = Count(running, d)
      BY <2>1 DEF Count
    <2> QED
      <3>1. PICK r, i, h, q, p, n, u, s \in Nat :
              /\ r = replies[d] /\ i = inbox[d] /\ h = InHand(d) /\ q = Count(items, d)
              /\ p = Cardinality(Processing(d)) /\ n = Count(pending, d)
              /\ u = Count(running, d) /\ s = sent[d]
              /\ r + Total(i, h, q, p, n, u) <= s
        BY Account
      <3>2. PICK k \in {0, 1} : k = (IF c = d THEN 1 ELSE 0)
        OBVIOUS
      <3>3. /\ replies'[d] = r /\ sent'[d] = s
        BY <3>1, <3>2, <2>1
      <3>4. InHand(d)' = h + k /\ inbox'[d] = i - k
        BY <3>1, <3>2, <2>3, <2>4 DEF InHand
      <3>5. Count(items', d) = q /\ Cardinality(Processing(d)') = p
        BY <3>1, <3>2, <2>2, <2>5
      <3>6. Count(pending', d) = n /\ Count(running', d) = u
        BY <3>1, <3>2, <2>5
      <3>7. Owed(d)' = Total(i - k, h + k, q, p, n, u)
        BY <3>4, <3>5, <3>6, Zenon DEF Owed
      <3>8. r + Total(i - k, h + k, q, p, n, u) <= s
        BY <3>1 DEF Total
      <3>9. IsFiniteSet(Processing(d)')
        BY <2>2, Numbers
      <3> QED
        BY <3>3, <3>7, <3>8, <3>9, Zenon
  <1>2. CASE AddTask
    <2>1. PICK c \in Conns : c = hand[io]
      BY <1>2, <1>a DEF AddTask, IndInv, HandsInv
    <2>2. /\ items' = Append(items, c) /\ hand' = [hand EXCEPT ![io] = NULL]
          /\ UNCHANGED <<inbox, sent, replies, pending, running, workAt>>
      BY <1>2, <2>1 DEF AddTask, TaskQ!Put
    <2> SUFFICES ASSUME NEW d \in Conns
                 PROVE  IsFiniteSet(Processing(d)') /\ replies'[d] + Owed(d)' <= sent'[d]
      BY DEF Accounted
    <2>3. Processing(d)' = Processing(d)
      BY <1>a, <1>b, <2>2 DEF Threads
    <2>4. Count(items', d) = Count(items, d) + (IF c = d THEN 1 ELSE 0)
      BY <1>a, <2>2, CountAppended
    <2>5. hand'[io] # d /\ (hand[io] = d <=> c = d)
      BY <1>a, <2>1, <2>2
    <2>6. Count(pending', d) = Count(pending, d) /\ Count(running', d) = Count(running, d)
      BY <2>2
    <2> QED
      <3>1. PICK r, i, h, q, p, n, u, s \in Nat :
              /\ r = replies[d] /\ i = inbox[d] /\ h = InHand(d) /\ q = Count(items, d)
              /\ p = Cardinality(Processing(d)) /\ n = Count(pending, d)
              /\ u = Count(running, d) /\ s = sent[d]
              /\ r + Total(i, h, q, p, n, u) <= s
        BY Account
      <3>2. PICK k \in {0, 1} : k = (IF c = d THEN 1 ELSE 0)
        OBVIOUS
      <3>3. /\ replies'[d] = r /\ sent'[d] = s
        BY <3>1, <3>2, <2>2
      <3>4. InHand(d)' = h - k /\ inbox'[d] = i
        BY <3>1, <3>2, <2>2, <2>5 DEF InHand
      <3>5. Count(items', d) = q + k /\ Cardinality(Processing(d)') = p
        BY <3>1, <3>2, <2>3, <2>4
      <3>6. Count(pending', d) = n /\ Count(running', d) = u
        BY <3>1, <3>2, <2>6
      <3>7. Owed(d)' = Total(i, h - k, q + k, p, n, u)
        BY <3>4, <3>5, <3>6, Zenon DEF Owed
      <3>8. r + Total(i, h - k, q + k, p, n, u) <= s
        BY <3>1 DEF Total
      <3>9. IsFiniteSet(Processing(d)')
        BY <2>3, Numbers
      <3> QED
        BY <3>3, <3>7, <3>8, <3>9, Zenon
  <1> QED
    BY <1>1, <1>2

(* One line less to read or one functor less to run for one reply at most. *)
LEMMA RepliesAccount ==
    ASSUME IndInv, Accounted, RunFunctor \/ \E f \in Fds : HandleMessageNow(f)
    PROVE  Accounted'
  <1> USE DEF queueVars, bellVars, loopVars, netVars, clientVars
  <1>1. ASSUME NEW f \in Fds, HandleMessageNow(f) PROVE Accounted'
    <2>1. PICK c \in Conns :
            /\ inbox' = [inbox EXCEPT ![c] = @ - 1] /\ Write(c, c, TRUE)
            /\ UNCHANGED <<sent, hand, items, pending, running, workAt>>
      <3>1. connMap[f] \in Conns /\ connMap[f] # NULL
        BY <1>1 DEF HandleMessageNow, Dispatch, IndInv, BatchInv, TypeOK
      <3> QED
        BY <1>1, <3>1 DEF HandleMessageNow
    <2> SUFFICES ASSUME NEW d \in Conns
                 PROVE  IsFiniteSet(Processing(d)') /\ replies'[d] + Owed(d)' <= sent'[d]
      BY DEF Accounted
    <2>2. Processing(d)' = Processing(d)
      BY <2>1, NobodyProcesses
    <2>3. inbox'[d] = inbox[d] - (IF d = c THEN 1 ELSE 0)
      BY <2>1 DEF IndInv, TypeOK
    <2>4. replies'[d] = replies[d] \/ (d = c /\ replies'[d] = replies[d] + 1)
      BY <2>1, WrittenOnce DEF IndInv
    <2>5. /\ Count(items, d)' = Count(items, d) /\ Count(pending, d)' = Count(pending, d)
          /\ Count(running, d)' = Count(running, d) /\ hand'[io] = hand[io]
      BY <2>1 DEF Count
    <2> QED
      <3>1. PICK r, i, h, q, p, n, u, s \in Nat :
              /\ r = replies[d] /\ i = inbox[d] /\ h = InHand(d) /\ q = Count(items, d)
              /\ p = Cardinality(Processing(d)) /\ n = Count(pending, d)
              /\ u = Count(running, d) /\ s = sent[d]
              /\ r + Total(i, h, q, p, n, u) <= s
        BY Account
      <3>2. PICK k \in {0, 1} : k = (IF c = d THEN 1 ELSE 0)
        OBVIOUS
      <3>3. PICK a \in {0, k} : replies'[d] = r + a
        BY <3>1, <3>2, <2>4
      <3>4. /\ replies'[d] = r + a /\ sent'[d] = s
        BY <3>1, <3>2, <3>3, <2>1
      <3>5. InHand(d)' = h /\ inbox'[d] = i - k
        BY <3>1, <3>2, <2>3, <2>5 DEF InHand
      <3>6. Count(items', d) = q /\ Cardinality(Processing(d)') = p
        BY <3>1, <3>2, <2>2, <2>5
      <3>7. Count(pending', d) = n /\ Count(running', d) = u
        BY <3>1, <3>2, <2>5
      <3>8. Owed(d)' = Total(i - k, h, q, p, n, u)
        BY <3>5, <3>6, <3>7, Zenon DEF Owed
      <3>9. (r + a) + Total(i - k, h, q, p, n, u) <= s
        BY <3>1 DEF Total
      <3>10. IsFiniteSet(Processing(d)')
        BY <2>2, Numbers
      <3> QED
        BY <3>4, <3>8, <3>9, <3>10, Zenon
  <1>2. CASE RunFunctor
    <2>1. /\ running \in Seq(Conns) /\ running # << >> /\ running' = Tail(running)
          /\ UNCHANGED <<inbox, sent, hand, items, pending, workAt>>
      BY <1>2 DEF RunFunctor, IndInv, TypeOK
    <2>2. PICK c \in Conns : c = Head(running)
      BY <2>1, HeadTaken
    <2>3. PICK e \in Conns \cup {NULL} : Write(c, e, TRUE)
      BY <1>2, <2>2 DEF RunFunctor, SendTargets, Live
    <2> SUFFICES ASSUME NEW d \in Conns
                 PROVE  IsFiniteSet(Processing(d)') /\ replies'[d] + Owed(d)' <= sent'[d]
      BY DEF Accounted
    <2>4. Processing(d)' = Processing(d)
      BY <2>1, NobodyProcesses
    <2>5. Count(running, d) = Count(running', d) + (IF c = d THEN 1 ELSE 0)
      BY <2>1, <2>2, CountTail
    <2>6. Count(running', d) \in Nat
      BY <2>1, HeadTaken, Counted
    <2>7. replies'[d] = replies[d] \/ (d = c /\ replies'[d] = replies[d] + 1)
      BY <2>3, WrittenOnce DEF IndInv
    <2>8. Count(items', d) = Count(items, d) /\ Count(pending', d) = Count(pending, d)
      BY <2>1
    <2> QED
      <3>1. PICK r, i, h, q, p, n, u, s \in Nat :
              /\ r = replies[d] /\ i = inbox[d] /\ h = InHand(d) /\ q = Count(items, d)
              /\ p = Cardinality(Processing(d)) /\ n = Count(pending, d)
              /\ u = Count(running, d) /\ s = sent[d]
              /\ r + Total(i, h, q, p, n, u) <= s
        BY Account
      <3>2. PICK k \in {0, 1} : k = (IF c = d THEN 1 ELSE 0)
        OBVIOUS
      <3>3. PICK a \in {0, k} : replies'[d] = r + a
        BY <3>1, <3>2, <2>7
      <3>4. /\ replies'[d] = r + a /\ sent'[d] = s
        BY <3>1, <3>2, <3>3, <2>1
      <3>5. InHand(d)' = h /\ inbox'[d] = i
        BY <3>1, <3>2, <2>1 DEF InHand
      <3>6. Count(items', d) = q /\ Cardinality(Processing(d)') = p
        BY <3>1, <3>2, <2>4, <2>8
      <3>7. Count(pending', d) = n /\ Count(running', d) = u - k
        BY <3>1, <3>2, <2>5, <2>6, <2>8
      <3>8. Owed(d)' = Total(i, h, q, p, n, u - k)
        BY <3>5, <3>6, <3>7, Zenon DEF Owed
      <3>9. (r + a) + Total(i, h, q, p, n, u - k) <= s
        BY <3>1 DEF Total
      <3>10. IsFiniteSet(Processing(d)')
        BY <2>4, Numbers
      <3> QED
        BY <3>4, <3>8, <3>9, <3>10, Zenon
  <1> QED
    BY <1>1, <1>2

(* The swap moves every functor, and forgets those that have run. *)
LEMMA SwapAccounts ==
    ASSUME IndInv, Accounted, SwapFunctors
    PROVE  Accounted'
  <1>1. /\ running' = pending /\ pending' = << >>
        /\ UNCHANGED <<inbox, sent, replies, hand, items, workAt>>
    BY DEF SwapFunctors, queueVars, netVars, clientVars
  <1> SUFFICES ASSUME NEW d \in Conns
               PROVE  IsFiniteSet(Processing(d)') /\ replies'[d] + Owed(d)' <= sent'[d]
    BY DEF Accounted
  <1>2. Processing(d)' = Processing(d)
    BY <1>1, NobodyProcesses
  <1>3. Count(pending', d) = 0
    <2>1. << >> \in Seq(Conns)
      OBVIOUS
    <2>2. Count(<< >>, d) = 0
      BY <2>1, Counted
    <2> QED
      BY <1>1, <2>2, Zenon
  <1>4. Count(running', d) = Count(pending, d) /\ Count(items', d) = Count(items, d)
    BY <1>1
  <1>5. PICK r, i, h, q, p, n, u, s \in Nat :
          /\ r = replies[d] /\ i = inbox[d] /\ h = InHand(d) /\ q = Count(items, d)
          /\ p = Cardinality(Processing(d)) /\ n = Count(pending, d)
          /\ u = Count(running, d) /\ s = sent[d]
          /\ r + Total(i, h, q, p, n, u) <= s
    BY Account
  <1>6. replies'[d] = r /\ sent'[d] = s /\ InHand(d)' = h /\ inbox'[d] = i
    BY <1>1, <1>5 DEF InHand
  <1>7. Owed(d)' = Total(i, h, q, p, 0, n)
    BY <1>2, <1>3, <1>4, <1>5, <1>6, Zenon DEF Owed
  <1>8. r + Total(i, h, q, p, 0, n) <= s
    BY <1>5 DEF Total
  <1>9. IsFiniteSet(Processing(d)')
    BY <1>2, Numbers
  <1> QED
    BY <1>6, <1>7, <1>8, <1>9, Zenon

(* A worker takes a line from the queue, and makes one functor of it. *)
LEMMA WorkersAccount ==
    ASSUME IndInv, Accounted, NEW w \in Workers, WorkerStep(w)
    PROVE  Accounted'
  <1> USE DEF queueVars, bellVars, loopVars, netVars, clientVars
  <1>a. /\ w \in Threads /\ io \in Threads /\ w # io
        /\ hand \in [Threads -> Conns \cup {NULL}]
        /\ workAt \in [Workers -> {"loop", "pop", "process", "wakeup"}]
        /\ items \in Seq(Conns) /\ pending \in Seq(Conns)
        /\ NULL \notin Conns
    BY NamesAssumption DEF IndInv, HandsInv, Threads, TypeOK
  <1>1. CASE GetTask(w) \/ Wakeup(w)
    <2>1. UNCHANGED <<inbox, sent, replies, items, pending, running>>
      BY <1>1 DEF GetTask, Wakeup, TaskQ!Ask
    <2>2. /\ \A v \in Workers : (workAt'[v] = "process" <=> workAt[v] = "process")
          /\ \A v \in Threads : hand'[v] = hand[v] \/ (v = w /\ workAt[v] # "process")
      BY <1>1, <1>a DEF GetTask, Wakeup, TaskQ!Ask
    <2>3. \A c \in Conns : Processing(c)' = Processing(c)
      BY <2>2 DEF Processing, Threads
    <2>4. hand'[io] = hand[io]
      BY <1>a, <2>2
    <2> QED
      BY <2>1, <2>3, <2>4 DEF Accounted, Owed, InHand, Count
  <1>2. CASE TakeTask(w)
    <2>1. /\ items # << >> /\ items' = Tail(items)
          /\ hand' = [hand EXCEPT ![w] = Head(items)]
          /\ workAt[w] = "pop" /\ workAt' = [workAt EXCEPT ![w] = "process"]
          /\ UNCHANGED <<inbox, sent, replies, pending, running>>
      BY <1>2 DEF TakeTask, TaskQ!Take
    <2>2. PICK c \in Conns : c = Head(items)
      BY <1>a, <2>1, HeadTaken
    <2> SUFFICES ASSUME NEW d \in Conns
                 PROVE  IsFiniteSet(Processing(d)') /\ replies'[d] + Owed(d)' <= sent'[d]
      BY DEF Accounted
    <2>3. w \notin Processing(d)
          /\ Processing(d)' = IF c = d THEN Processing(d) \cup {w} ELSE Processing(d)
      BY <1>a, <2>1, <2>2 DEF Processing, Threads
    <2>4. Count(items, d) = Count(items', d) + (IF c = d THEN 1 ELSE 0)
      BY <1>a, <2>1, <2>2, CountTail
    <2>5. Count(items', d) \in Nat
      BY <1>a, <2>1, HeadTaken, Counted
    <2>6. /\ IsFiniteSet(Processing(d)')
          /\ Cardinality(Processing(d)')
             = Cardinality(Processing(d)) + (IF c = d THEN 1 ELSE 0)
      BY <2>3, Numbers, FS_AddElement
    <2>7. hand'[io] = hand[io]
      BY <1>a, <2>1
    <2>8. Count(pending', d) = Count(pending, d) /\ Count(running', d) = Count(running, d)
      BY <2>1
    <2> QED
      <3>1. PICK r, i, h, q, p, n, u, s \in Nat :
              /\ r = replies[d] /\ i = inbox[d] /\ h = InHand(d) /\ q = Count(items, d)
              /\ p = Cardinality(Processing(d)) /\ n = Count(pending, d)
              /\ u = Count(running, d) /\ s = sent[d]
              /\ r + Total(i, h, q, p, n, u) <= s
        BY Account
      <3>2. PICK k \in {0, 1} : k = (IF c = d THEN 1 ELSE 0)
        OBVIOUS
      <3>3. /\ replies'[d] = r /\ sent'[d] = s
        BY <3>1, <3>2, <2>1
      <3>4. InHand(d)' = h /\ inbox'[d] = i
        BY <3>1, <3>2, <2>1, <2>7 DEF InHand
      <3>5. Count(items', d) = q - k /\ Cardinality(Processing(d)') = p + k
        BY <3>1, <3>2, <2>4, <2>5, <2>6
      <3>6. Count(pending', d) = n /\ Count(running', d) = u
        BY <3>1, <3>2, <2>8
      <3>7. Owed(d)' = Total(i, h, q - k, p + k, n, u)
        BY <3>4, <3>5, <3>6, Zenon DEF Owed
      <3>8. r + Total(i, h, q - k, p + k, n, u) <= s
        BY <3>1 DEF Total
      <3>9. IsFiniteSet(Processing(d)')
        BY <2>6
      <3> QED
        BY <3>3, <3>7, <3>8, <3>9, Zenon
  <1>3. CASE RunInLoop(w)
    <2>1. /\ pending' = Append(pending, hand[w])
          /\ workAt[w] = "process" /\ workAt' = [workAt EXCEPT ![w] = "wakeup"]
          /\ UNCHANGED <<inbox, sent, replies, hand, items, running>>
      BY <1>3 DEF RunInLoop
    <2>2. PICK c \in Conns : c = hand[w]
      BY <1>a, <2>1 DEF IndInv, HandsInv
    <2> SUFFICES ASSUME NEW d \in Conns
                 PROVE  IsFiniteSet(Processing(d)') /\ replies'[d] + Owed(d)' <= sent'[d]
      BY DEF Accounted
    <2>3. /\ w \in Processing(d) <=> c = d
          /\ Processing(d)' = Processing(d) \ {w}
      BY <1>a, <2>1, <2>2 DEF Processing
    <2>4. Count(pending', d) = Count(pending, d) + (IF c = d THEN 1 ELSE 0)
      BY <1>a, <2>1, <2>2, CountAppended
    <2>5. /\ IsFiniteSet(Processing(d)')
          /\ Cardinality(Processing(d)')
             = Cardinality(Processing(d)) - (IF c = d THEN 1 ELSE 0)
      BY <2>3, Numbers, FS_RemoveElement
    <2>6. Count(items', d) = Count(items, d) /\ Count(running', d) = Count(running, d)
      BY <2>1
    <2> QED
      <3>1. PICK r, i, h, q, p, n, u, s \in Nat :
              /\ r = replies[d] /\ i = inbox[d] /\ h = InHand(d) /\ q = Count(items, d)
              /\ p = Cardinality(Processing(d)) /\ n = Count(pending, d)
              /\ u = Count(running, d) /\ s = sent[d]
              /\ r + Total(i, h, q, p, n, u) <= s
        BY Account
      <3>2. PICK k \in {0, 1} : k = (IF c = d THEN 1 ELSE 0)
        OBVIOUS
      <3>3. /\ replies'[d] = r /\ sent'[d] = s
        BY <3>1, <3>2, <2>1
      <3>4. InHand(d)' = h /\ inbox'[d] = i
        BY <3>1, <3>2, <2>1 DEF InHand
      <3>5. Count(items', d) = q /\ Cardinality(Processing(d)') = p - k
        BY <3>1, <3>2, <2>5, <2>6
      <3>6. Count(pending', d) = n + k /\ Count(running', d) = u
        BY <3>1, <3>2, <2>4, <2>6
      <3>7. Owed(d)' = Total(i, h, q, p - k, n + k, u)
        BY <3>4, <3>5, <3>6, Zenon DEF Owed
      <3>8. r + Total(i, h, q, p - k, n + k, u) <= s
        BY <3>1 DEF Total
      <3>9. IsFiniteSet(Processing(d)')
        BY <2>5
      <3> QED
        BY <3>3, <3>7, <3>8, <3>9, Zenon
  <1> QED
    BY <1>1, <1>2, <1>3 DEF WorkerStep

LEMMA NextKeepsAccounted == IndInv /\ Accounted /\ [Next]_vars => Accounted'
  <1> SUFFICES ASSUME IndInv, Accounted, [Next]_vars PROVE Accounted'
    OBVIOUS
  <1>1. ASSUME NEW c \in Conns, ClientStep(c) PROVE Accounted'
    BY <1>1, ClientsAccount
  <1>2. CASE IOStep
    BY <1>2, LoopAccounts, QueueAccounts, RepliesAccount, SwapAccounts DEF IOStep
  <1>3. ASSUME NEW w \in Workers, WorkerStep(w) PROVE Accounted'
    BY <1>3, WorkersAccount
  <1>4. CASE UNCHANGED vars
    BY <1>4, NothingMoved, NobodyProcesses
    DEF vars, queueVars, bellVars, loopVars, netVars, clientVars
  <1> QED
    BY <1>1, <1>2, <1>3, <1>4 DEF Next

LEMMA InitAccounted == Init => Accounted
  <1> SUFFICES ASSUME Init, NEW c \in Conns
               PROVE  IsFiniteSet(Processing(c)) /\ replies[c] + Owed(c) <= sent[c]
    BY DEF Accounted
  <1>1. Processing(c) = {}
    BY DEF Init, Processing
  <1>2. /\ items = << >> /\ pending = << >> /\ running = << >> /\ hand[io] = NULL
        /\ inbox[c] = 0 /\ replies[c] = 0 /\ sent[c] = 0 /\ c # NULL
    BY NamesAssumption DEF Init, TaskQ!Init
  <1>3. Count(<< >>, c) = 0
    <2>1. << >> \in Seq(Conns)
      OBVIOUS
    <2> QED
      BY <2>1, Counted
  <1>4. Owed(c) = 0
    <2>1. InHand(c) = 0 /\ Cardinality(Processing(c)) = 0
      BY <1>1, <1>2, FS_EmptySet DEF InHand
    <2>2. Owed(c) = Total(0, 0, 0, 0, 0, 0)
      BY <1>2, <1>3, <2>1, Zenon DEF Owed
    <2> QED
      BY <2>2 DEF Total
  <1> QED
    BY <1>1, <1>2, <1>4, FS_EmptySet

(* A reply reaches somebody else only if its own client has closed before,
   and never in the versions that reply from the IO thread; and on its way
   through queue, worker and functors no line is answered a second time. *)
THEOREM OnlyTheGoneAreMissed == Spec => []StraysAreOfTheGone
  <1>1. IndInv /\ Accounted => StraysAreOfTheGone
    <2> SUFFICES ASSUME IndInv, Accounted PROVE StraysAreOfTheGone
      OBVIOUS
    <2>1. StraysHaveLeft
      BY Zenon DEF IndInv
    <2>2. ASSUME NEW c \in Conns PROVE replies[c] <= sent[c]
      <3>1. PICK r, i, h, q, p, n, u, s \in Nat :
               /\ r = replies[c] /\ i = inbox[c] /\ h = InHand(c) /\ q = Count(items, c)
               /\ p = Cardinality(Processing(c)) /\ n = Count(pending, c)
               /\ u = Count(running, c) /\ s = sent[c]
               /\ r + Total(i, h, q, p, n, u) <= s
        BY Account
      <3>2. r <= s
        BY <3>1 DEF Total
      <3> QED
        BY <3>1, <3>2, Zenon
    <2> QED
      BY <2>1, <2>2 DEF StraysAreOfTheGone, RepliesEarned
  <1>2. Spec => []Accounted
    BY IndInvHolds, InitAccounted, NextKeepsAccounted, PTL DEF Spec
  <1> QED
    BY <1>1, <1>2, IndInvHolds, PTL
=============================================================================
