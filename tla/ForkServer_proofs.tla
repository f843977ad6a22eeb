-------------------------- MODULE ForkServer_proofs --------------------------
(***************************************************************************)
(* The forking servers, for any number of clients, texts and writes to the *)
(* pipe: which zombies stay behind, when a connection ends, and that no    *)
(* text is lost on its way to the file or gets there twice.  The first two *)
(* follow from where the parent and its children are (IndInv), the third   *)
(* from who is ahead of whom (FlowInv).                                    *)
(***************************************************************************)
EXTENDS ForkServer, FiniteSetTheorems, WellFoundedInduction, TLAPS

(* The types of the variables that take part. *)
Types ==
    /\ program \in Programs
    /\ conn \in [Clients -> {"new", "queued", "accepted", "refused"}]
    /\ refs \in [Clients -> Nat]
    /\ child \in [Children -> {"none", "serving", "closing", "zombie", "reaped"}]
    /\ pc \in {"accept", "announce", "fork", "close"}
    /\ client_fd \in Clients \cup {NULL}
    /\ pending \in BOOLEAN /\ handling \in BOOLEAN
    /\ merged \in Nat

(* fork() is called once for each client, after it was accepted. *)
ForkedOnce ==
    /\ pc = "accept" <=> client_fd = NULL
    /\ pc \in {"announce", "fork"} => child[client_fd] = "none"
    /\ \A c \in Clients : conn[c] \in {"new", "queued"} => child[c] = "none" /\ c # client_fd

(* Who holds a copy of a connection: its child, and the parent in its loop. *)
Holders(c) ==
    (IF child[c] \in {"serving", "closing"} THEN 1 ELSE 0) + (IF c = client_fd THEN 1 ELSE 0)

CopiesCounted == \A c \in Clients : refs[c] = Holders(c)

IndInv == Types /\ ForkedOnce /\ CopiesCounted /\ ZombiesAreOfMergedSignals

-----------------------------------------------------------------------------
(* The processes are finitely many, and so are the zombies. *)
LEMMA ZombiesFinite == IsFiniteSet(Zombies) /\ Cardinality(Zombies) \in Nat
  <1>1. IsFiniteSet(Children)
    BY ClientsAssumption, FS_AddElement DEF Children
  <1>2. Zombies \in SUBSET Children
    BY DEF Zombies
  <1> QED
    BY <1>1, <1>2, FS_Subset, FS_CardinalityType

LEMMA InitIndInv == Init => IndInv
  <1> SUFFICES ASSUME Init PROVE IndInv
    OBVIOUS
  <1>0. /\ STORER \in Children /\ STORER \notin Clients /\ NULL \notin Clients
        /\ \A c \in Clients : c \in Children /\ child[c] = "none"
    BY ClientsAssumption DEF Init, Children
  <1>1. Types /\ ForkedOnce /\ CopiesCounted
    <2>1. Types
      BY DEF Init, Types
    <2>2. ForkedOnce /\ CopiesCounted
      BY <1>0 DEF Init, ForkedOnce, CopiesCounted, Holders
    <2> QED
      BY <2>1, <2>2
  <1>2. Zombies = {}
    BY DEF Init, Zombies
  <1>3. ZombiesAreOfMergedSignals
    BY <1>2, FS_EmptySet DEF Init, ZombiesAreOfMergedSignals
  <1> QED
    BY <1>1, <1>3 DEF IndInv

(* The zombies stay when neither children nor signals change. *)
LEMMA ZombiesStay ==
    ASSUME ZombiesAreOfMergedSignals, Zombies' = Zombies, UNCHANGED signals
    PROVE  ZombiesAreOfMergedSignals'
  BY DEF ZombiesAreOfMergedSignals, signals

(* A process that ends becomes a zombie, and its signal accounts for it. *)
LEMMA ExitAccounted ==
    ASSUME IndInv, NEW c \in Children, child[c] \in {"serving", "closing"}, Exit(c)
    PROVE  ZombiesAreOfMergedSignals' /\ merged' \in Nat
  <1>1. Zombies' = Zombies \cup {c} /\ c \notin Zombies
    BY DEF IndInv, Types, Exit, Zombies
  <1>2. Cardinality(Zombies') = Cardinality(Zombies) + 1
    BY <1>1, ZombiesFinite, FS_AddElement
  <1>3. merged \in Nat /\ pending \in BOOLEAN /\ handling \in BOOLEAN
    BY DEF IndInv, Types
  <1>4. CASE pending
    BY <1>2, <1>3, <1>4 DEF IndInv, Exit, ZombiesAreOfMergedSignals
  <1>5. CASE ~pending
    BY <1>2, <1>3, <1>5 DEF IndInv, Exit, ZombiesAreOfMergedSignals
  <1> QED
    BY <1>4, <1>5

(* The clients, the echo, and what happens to the pipe. *)
LEMMA TextsApart ==
    ASSUME IndInv, UNCHANGED <<program, refs, child, parent, signals>>,
           \/ UNCHANGED conn
           \/ \E c \in Clients : conn[c] = "new" /\ conn' = [conn EXCEPT ![c] = "queued"]
    PROVE  IndInv'
  <1>1. Types' /\ ForkedOnce'
    BY DEF IndInv, Types, ForkedOnce, parent, signals
  <1>2. CopiesCounted'
    BY DEF IndInv, CopiesCounted, Holders, parent
  <1>3. ZombiesAreOfMergedSignals'
    BY ZombiesStay DEF IndInv, Zombies
  <1> QED
    BY <1>1, <1>2, <1>3 DEF IndInv

LEMMA AcceptKeeps ==
    ASSUME IndInv, NEW c \in Clients, Accept(c)
    PROVE  IndInv'
  <1>1. Types' /\ ForkedOnce' /\ CopiesCounted'
    BY ClientsAssumption
    DEF IndInv, Accept, Types, ForkedOnce, CopiesCounted, Holders, Children, signals
  <1>2. ZombiesAreOfMergedSignals'
    BY ZombiesStay DEF IndInv, Accept, Zombies
  <1> QED
    BY <1>1, <1>2 DEF IndInv

LEMMA AnnounceKeeps ==
    ASSUME IndInv, Announce
    PROVE  IndInv'
  <1>1. Types' /\ ForkedOnce' /\ CopiesCounted'
    BY DEF IndInv, Announce, Types, ForkedOnce, CopiesCounted, Holders, clients, signals
  <1>2. ZombiesAreOfMergedSignals'
    BY ZombiesStay DEF IndInv, Announce, Zombies
  <1> QED
    BY <1>1, <1>2 DEF IndInv

(* The child was not there before, so it was no zombie. *)
LEMMA ForkKeeps ==
    ASSUME IndInv, Fork
    PROVE  IndInv'
  <1>1. client_fd \in Clients /\ child[client_fd] = "none" /\ client_fd # NULL
    BY ClientsAssumption DEF IndInv, Fork, Types, ForkedOnce
  <1>2. Types' /\ ForkedOnce'
    BY <1>1 DEF IndInv, Fork, Types, ForkedOnce, Children, clients, signals
  <1>3. CopiesCounted'
    BY <1>1 DEF IndInv, Fork, Types, CopiesCounted, Holders, Children
  <1>4. ZombiesAreOfMergedSignals'
    BY <1>1, ZombiesStay DEF IndInv, Types, Fork, Zombies, Children
  <1> QED
    BY <1>2, <1>3, <1>4 DEF IndInv

LEMMA ForkFailsKeeps ==
    ASSUME IndInv, ForkFails
    PROVE  IndInv'
  <1>1. client_fd \in Clients /\ child[client_fd] = "none"
    BY DEF IndInv, ForkFails, Types, ForkedOnce
  <1>2. Types' /\ ForkedOnce' /\ CopiesCounted'
    BY <1>1, ClientsAssumption
    DEF IndInv, ForkFails, Types, ForkedOnce, CopiesCounted, Holders, Children, signals
  <1>3. ZombiesAreOfMergedSignals'
    BY ZombiesStay DEF IndInv, ForkFails, Zombies
  <1> QED
    BY <1>2, <1>3 DEF IndInv

LEMMA CloseInParentKeeps ==
    ASSUME IndInv, CloseInParent
    PROVE  IndInv'
  <1>1. client_fd \in Clients
    BY DEF IndInv, CloseInParent, Types, ForkedOnce
  <1>2. Types' /\ ForkedOnce' /\ CopiesCounted'
    BY <1>1, ClientsAssumption
    DEF IndInv, CloseInParent, Types, ForkedOnce, CopiesCounted, Holders, Children, clients, signals
  <1>3. ZombiesAreOfMergedSignals'
    BY ZombiesStay DEF IndInv, CloseInParent, Zombies
  <1> QED
    BY <1>2, <1>3 DEF IndInv

(* The child goes on with its copy until it ends. *)
LEMMA SignOffKeeps ==
    ASSUME IndInv, NEW c \in Clients, SignOff(c)
    PROVE  IndInv'
  <1>1. Types' /\ ForkedOnce' /\ CopiesCounted'
    BY DEF IndInv, SignOff, Types, ForkedOnce, CopiesCounted, Holders, Children, clients, parent, signals
  <1>2. ZombiesAreOfMergedSignals'
    BY ZombiesStay DEF IndInv, Types, SignOff, Zombies, Children
  <1> QED
    BY <1>1, <1>2 DEF IndInv

LEMMA ChildExitsKeeps ==
    ASSUME IndInv, NEW c \in Clients, ChildExits(c)
    PROVE  IndInv'
  <1>1. c \in Children /\ child[c] \in {"serving", "closing"} /\ Exit(c)
    BY DEF ChildExits, Children
  <1>2. ZombiesAreOfMergedSignals' /\ merged' \in Nat
    BY <1>1, ExitAccounted
  <1>3. Types' /\ ForkedOnce'
    BY <1>1, <1>2
    DEF IndInv, ChildExits, Exit, Types, ForkedOnce, CopiesCounted, Holders, Children, clients, parent
  <1>4. CopiesCounted'
    BY <1>1 DEF IndInv, ChildExits, Exit, Types, CopiesCounted, Holders, Children, parent
  <1> QED
    BY <1>2, <1>3, <1>4 DEF IndInv

(* SIGPIPE ends a child, and the kernel closes its copy. *)
LEMMA EchoKillsKeeps ==
    ASSUME IndInv, NEW c \in Clients, EchoKills(c)
    PROVE  IndInv'
  <1>1. /\ c \in Children /\ child[c] = "serving" /\ Exit(c)
        /\ refs' = [refs EXCEPT ![c] = @ - 1] /\ UNCHANGED <<program, conn, parent>>
    BY DEF EchoKills, Taken, Children
  <1>2. ZombiesAreOfMergedSignals' /\ merged' \in Nat
    BY <1>1, ExitAccounted
  <1>3. Types' /\ ForkedOnce'
    BY <1>1, <1>2
    DEF IndInv, Exit, Types, ForkedOnce, CopiesCounted, Holders, Children, parent
  <1>4. CopiesCounted'
    BY <1>1 DEF IndInv, Exit, Types, CopiesCounted, Holders, Children, parent
  <1> QED
    BY <1>2, <1>3, <1>4 DEF IndInv

(* The last read of the storing process of ch11. *)
LEMMA ReadLimitedKeeps ==
    ASSUME IndInv, ReadLimited
    PROVE  IndInv'
  <1>1. CASE UNCHANGED <<child, signals>>
    BY <1>1, TextsApart DEF ReadLimited, clients
  <1>2. CASE Exit(STORER)
    <2>1. STORER \in Children /\ STORER \notin Clients /\ child[STORER] = "serving"
      BY ClientsAssumption DEF ReadLimited, Read, Children
    <2>2. ZombiesAreOfMergedSignals' /\ merged' \in Nat
      BY <1>2, <2>1, ExitAccounted
    <2>3. Types' /\ ForkedOnce' /\ CopiesCounted'
      BY <1>2, <2>1, <2>2
      DEF IndInv, ReadLimited, Exit, Types, ForkedOnce, CopiesCounted, Holders, Children, clients, parent
    <2> QED
      BY <2>2, <2>3 DEF IndInv
  <1> QED
    BY <1>1, <1>2 DEF ReadLimited

(* The signal in delivery accounts for what it accounted for when pending. *)
LEMMA DeliverSignalKeeps ==
    ASSUME IndInv, DeliverSignal
    PROVE  IndInv'
  <1>1. Types' /\ ForkedOnce' /\ CopiesCounted'
    BY DEF IndInv, DeliverSignal, Types, ForkedOnce, CopiesCounted, Holders, clients
  <1>2. Zombies' = Zombies
    BY DEF DeliverSignal, Zombies
  <1>3. ZombiesAreOfMergedSignals'
    BY <1>2 DEF IndInv, Types, DeliverSignal, ZombiesAreOfMergedSignals
  <1> QED
    BY <1>1, <1>3 DEF IndInv

(* waitpid() finds a zombie, because the signal in work accounts for one. *)
LEMMA ReapKeeps ==
    ASSUME IndInv, Reap
    PROVE  IndInv'
  <1>1. Zombies # {}
    <2>1. Cardinality(Zombies) # 0
      BY DEF IndInv, Types, Reap, ZombiesAreOfMergedSignals
    <2> QED
      BY <2>1, FS_EmptySet
  <1>2. PICK c \in Zombies : child' = [child EXCEPT ![c] = "reaped"]
    BY <1>1 DEF Reap, Zombies
  <1>3. c \in Children /\ child[c] = "zombie"
    BY <1>2 DEF Zombies
  <1>4. Types' /\ ForkedOnce' /\ CopiesCounted'
    BY <1>2, <1>3
    DEF IndInv, Reap, Types, ForkedOnce, CopiesCounted, Holders, Children, clients, parent
  <1>5. Zombies' = Zombies \ {c}
    BY <1>2, <1>3 DEF IndInv, Types, Zombies
  <1>6. Cardinality(Zombies') = Cardinality(Zombies) - 1
    BY <1>2, <1>5, ZombiesFinite, FS_RemoveElement
  <1>7. ZombiesAreOfMergedSignals'
    BY <1>6, ZombiesFinite DEF IndInv, Types, Reap, ZombiesAreOfMergedSignals
  <1> QED
    BY <1>4, <1>7 DEF IndInv

LEMMA NextKeeps == IndInv /\ [Next]_vars => IndInv'
  <1> SUFFICES ASSUME IndInv, [Next]_vars PROVE IndInv'
    OBVIOUS
  <1>1. CASE \E c \in Clients : Client(c)
    BY <1>1, TextsApart DEF Client, Connect, Send, Hear, Leave, clients
  <1>2. CASE Parent
    BY <1>2, AcceptKeeps, AnnounceKeeps, ForkKeeps, ForkFailsKeeps, CloseInParentKeeps DEF Parent
  <1>3. CASE \E c \in Clients : Child(c)
    <2> PICK c \in Clients : Child(c)
      BY <1>3
    <2>1. CASE Echo(c)
      BY <2>1, TextsApart DEF Echo
    <2>2. CASE PassOn(c) \/ ReadFails(c)
      BY <2>2, TextsApart DEF PassOn, ReadFails, clients
    <2> QED
      BY <2>1, <2>2, EchoKillsKeeps, SignOffKeeps, ChildExitsKeeps DEF Child
  <1>4. CASE Handler
    BY <1>4, DeliverSignalKeeps, ReapKeeps DEF Handler
  <1>5. CASE Storer
    <2>1. CASE ReadOpen \/ ReadOther \/ ReadQuit \/ ReadText
      BY <2>1, TextsApart DEF ReadOpen, ReadOther, ReadQuit, ReadText, clients
    <2> QED
      BY <1>5, <2>1, ReadLimitedKeeps DEF Storer
  <1>6. CASE UNCHANGED vars
    BY <1>6, TextsApart DEF vars, clients
  <1> QED
    BY <1>1, <1>2, <1>3, <1>4, <1>5, <1>6 DEF Next

LEMMA IndInvHolds == Spec => []IndInv
  BY InitIndInv, NextKeeps, PTL DEF Spec

(***************************************************************************)
(* However children end, signals merge and the handler is delayed: each    *)
(* delivered SIGCHLD finds a child to reap, and the children that are      *)
(* never reaped are exactly those whose signals were merged with another.  *)
(***************************************************************************)
THEOREM ZombiesCounted == Spec => []ZombiesAreOfMergedSignals
  <1>1. IndInv => ZombiesAreOfMergedSignals
    BY DEF IndInv
  <1> QED
    BY <1>1, IndInvHolds, PTL

(***************************************************************************)
(* Whether fork() succeeds or fails, and whatever interrupts the parent:   *)
(* outside of the parent's loop only the child holds its connection, so    *)
(* the client sees the end when the child is gone.                         *)
(***************************************************************************)
THEOREM CopiesClosed == Spec => []ConnectionEndsWithItsChild
  <1>1. IndInv => ConnectionEndsWithItsChild
    BY DEF IndInv, CopiesCounted, Holders, ConnectionEndsWithItsChild
  <1> QED
    BY <1>1, IndInvHolds, PTL

-----------------------------------------------------------------------------
(***************************************************************************)
(* The way of the texts: from the client's socket through its child and    *)
(* the pipe into the file.  The later of two texts of one client is never  *)
(* ahead of the earlier one.                                               *)
(***************************************************************************)

(* Texts from one client, later ones behind earlier ones. *)
Sorted(s, from) ==
    \A i, j \in 1..Len(s) :
        i < j /\ s[i] \in Texts /\ s[j] \in Texts /\ from[s[i]] = from[s[j]] => s[i] < s[j]

Precedes(S, T, from) ==
    \A t \in S, u \in T : t \in Texts /\ u \in Texts /\ from[t] = from[u] => t < u

Sent == 1..Len(sender)
Gone == ToSet(stored) \cup dropped
InFlight == [c \in Clients |-> ToSet(toStore[c]) \cup ToSet(inbox[c])]

FlowTypes ==
    /\ program \in Programs
    /\ sender \in Seq(Clients) /\ Len(sender) <= MaxTexts
    /\ inbox \in [Clients -> Seq(Texts)] /\ toStore \in [Clients -> Seq(Texts)]
    /\ pipe \in Seq(Words) /\ Len(pipe) <= PipeCap
    /\ stored \in Seq(Texts) /\ dropped \subseteq Texts /\ lost \subseteq Texts

(* What is on its way was sent, and what was sent is on its way. *)
Known ==
    /\ Gone \subseteq Sent /\ lost \subseteq Sent
    /\ ToSet(pipe) \cap Texts \subseteq Sent
    /\ \A c \in Clients : \A t \in InFlight[c] : t \in Sent /\ sender[t] = c
    /\ program.stores =>
        \A t \in Sent : t \in Gone \cup ToSet(pipe) \cup lost \/ \E c \in Clients : t \in InFlight[c]

InOrder ==
    /\ Sorted(stored, sender) /\ Sorted(pipe, sender)
    /\ \A c \in Clients : Sorted(toStore[c], sender) /\ Sorted(inbox[c], sender)
    /\ ToSet(stored) \cap dropped = {}
    /\ Precedes(Gone, ToSet(pipe), sender)
    /\ \A c \in Clients :
        /\ Precedes(Gone \cup ToSet(pipe), InFlight[c], sender)
        /\ Precedes(ToSet(toStore[c]), ToSet(inbox[c]), sender)

(* What a child has lost is nowhere else. *)
LostApart ==
    /\ lost \cap (Gone \cup ToSet(pipe)) = {}
    /\ \A c \in Clients : lost \cap InFlight[c] = {}

FlowInv == FlowTypes /\ Known /\ InOrder /\ LostApart

(***************************************************************************)
(* The sockets: only those of clients that left fail, and a client that    *)
(* left with texts its child has not read yet did not wait for its echoes. *)
(***************************************************************************)
SocketsInv ==
    /\ unread \in [Clients -> 0..SockCap]
    /\ err \in [Clients -> {"none", "reset", "pipe"}]
    /\ hasty \subseteq left /\ left \subseteq Clients
    /\ \A c \in Clients : err[c] # "none" => c \in left
    /\ \A c \in left : inbox[c] # << >> => c \in hasty

(* Whoever has lost a text did not wait for its echoes. *)
LostOfHasty == \A t \in lost : sender[t] \in hasty

(* Where the storing process is; that of ch11 ends after its last read. *)
StorerInv ==
    /\ store \in {"outer", "first", "inner"}
    /\ nreads \in 0..MaxReads
    /\ program.limited /\ child[STORER] = "serving" => nreads < MaxReads

-----------------------------------------------------------------------------
(* Sequences of words. *)

LEMMA Elements ==
    ASSUME NEW S, NEW s \in Seq(S)
    PROVE  /\ ToSet(s) \subseteq S
           /\ \A i \in 1..Len(s) : s[i] \in ToSet(s)
           /\ \A e \in ToSet(s) : \E i \in 1..Len(s) : e = s[i]
  BY DEF ToSet

LEMMA NoElements == ToSet(<< >>) = {} /\ \A from : Sorted(<< >>, from)
  BY DEF ToSet, Sorted

LEMMA OneElement ==
    ASSUME NEW w
    PROVE  ToSet(<<w>>) = {w} /\ \A from : Sorted(<<w>>, from)
  BY DEF ToSet, Sorted

(* One sequence behind another. *)
LEMMA Joined ==
    ASSUME NEW S, NEW s \in Seq(S), NEW t \in Seq(S)
    PROVE  /\ s \o t \in Seq(S)
           /\ Len(s \o t) = Len(s) + Len(t)
           /\ ToSet(s \o t) = ToSet(s) \cup ToSet(t)
  <1>1. s \o t \in Seq(S) /\ Len(s \o t) = Len(s) + Len(t)
    OBVIOUS
  <1>2. ASSUME NEW e \in ToSet(s \o t) PROVE e \in ToSet(s) \cup ToSet(t)
    <2> PICK i \in 1..Len(s \o t) : e = (s \o t)[i]
      BY <1>1, Elements
    <2>1. CASE i <= Len(s)
      BY <2>1, Elements
    <2>2. CASE i > Len(s)
      <3>1. i - Len(s) \in 1..Len(t) /\ e = t[i - Len(s)]
        BY <1>1, <2>2
      <3> QED
        BY <3>1, Elements
    <2> QED
      BY <2>1, <2>2
  <1>3. ASSUME NEW e \in ToSet(s) PROVE e \in ToSet(s \o t)
    <2> PICK i \in 1..Len(s) : e = s[i]
      BY Elements
    <2>1. i \in 1..Len(s \o t) /\ (s \o t)[i] = e
      BY <1>1
    <2> QED
      BY <2>1 DEF ToSet
  <1>4. ASSUME NEW e \in ToSet(t) PROVE e \in ToSet(s \o t)
    <2> PICK i \in 1..Len(t) : e = t[i]
      BY Elements
    <2>1. Len(s) + i \in 1..Len(s \o t) /\ (s \o t)[Len(s) + i] = e
      BY <1>1
    <2> QED
      BY <2>1 DEF ToSet
  <1> QED
    BY <1>1, <1>2, <1>3, <1>4

LEMMA JoinedInOrder ==
    ASSUME NEW S, NEW s \in Seq(S), NEW t \in Seq(S), NEW from,
           Sorted(s, from), Sorted(t, from), Precedes(ToSet(s), ToSet(t), from)
    PROVE  Sorted(s \o t, from)
  <1> SUFFICES ASSUME NEW i \in 1..Len(s \o t), NEW j \in 1..Len(s \o t), i < j,
                      (s \o t)[i] \in Texts, (s \o t)[j] \in Texts,
                      from[(s \o t)[i]] = from[(s \o t)[j]]
               PROVE  (s \o t)[i] < (s \o t)[j]
    BY DEF Sorted
  <1>0. Len(s) \in Nat /\ Len(t) \in Nat /\ Len(s \o t) = Len(s) + Len(t)
    OBVIOUS
  <1>1. CASE j <= Len(s)
    <2>1. i \in 1..Len(s) /\ j \in 1..Len(s) /\ (s \o t)[i] = s[i] /\ (s \o t)[j] = s[j]
      BY <1>0, <1>1
    <2> QED
      BY <2>1 DEF Sorted
  <1>2. CASE i > Len(s)
    <2>1. /\ i - Len(s) \in 1..Len(t) /\ j - Len(s) \in 1..Len(t)
          /\ i - Len(s) < j - Len(s)
          /\ (s \o t)[i] = t[i - Len(s)] /\ (s \o t)[j] = t[j - Len(s)]
      BY <1>0, <1>2
    <2> QED
      BY <2>1 DEF Sorted
  <1>3. CASE i <= Len(s) /\ j > Len(s)
    <2>1. /\ i \in 1..Len(s) /\ j - Len(s) \in 1..Len(t)
          /\ (s \o t)[i] = s[i] /\ (s \o t)[j] = t[j - Len(s)]
      BY <1>0, <1>3
    <2>2. (s \o t)[i] \in ToSet(s) /\ (s \o t)[j] \in ToSet(t)
      BY <2>1, Elements
    <2> QED
      BY <2>2 DEF Precedes
  <1> QED
    BY <1>0, <1>1, <1>2, <1>3

(* A sequence of texts cut in two. *)
LEMMA Cut ==
    ASSUME NEW s \in Seq(Texts), NEW n \in 1..Len(s)
    PROVE  /\ SubSeq(s, 1, n) \in Seq(Texts) /\ SubSeq(s, n + 1, Len(s)) \in Seq(Texts)
           /\ ToSet(s) = ToSet(SubSeq(s, 1, n)) \cup ToSet(SubSeq(s, n + 1, Len(s)))
           /\ s = SubSeq(s, 1, n) \o SubSeq(s, n + 1, Len(s))
  <1> DEFINE a == SubSeq(s, 1, n)
             b == SubSeq(s, n + 1, Len(s))
  <1>1. a \in Seq(Texts) /\ b \in Seq(Texts)
    OBVIOUS
  <1>2. s = a \o b
    OBVIOUS
  <1>3. ToSet(s) = ToSet(a) \cup ToSet(b)
    <2> HIDE DEF a, b
    <2>1. ToSet(a \o b) = ToSet(a) \cup ToSet(b)
      BY <1>1, Joined
    <2> QED
      BY <1>2, <2>1, Zenon
  <1> QED
    BY <1>1, <1>2, <1>3

LEMMA CutInOrder ==
    ASSUME NEW s \in Seq(Texts), NEW t \in Seq(Texts), NEW from, Sorted(s \o t, from)
    PROVE  Sorted(s, from) /\ Sorted(t, from) /\ Precedes(ToSet(s), ToSet(t), from)
  <1>0. Len(s) \in Nat /\ Len(t) \in Nat /\ Len(s \o t) = Len(s) + Len(t)
    OBVIOUS
  <1>1. \A i \in 1..Len(s) : i \in 1..Len(s \o t) /\ (s \o t)[i] = s[i]
    BY <1>0
  <1>2. \A i \in 1..Len(t) : Len(s) + i \in 1..Len(s \o t) /\ (s \o t)[Len(s) + i] = t[i]
    BY <1>0
  <1>3. Sorted(s, from)
    BY <1>1 DEF Sorted
  <1>4. Sorted(t, from)
    <2> SUFFICES ASSUME NEW i \in 1..Len(t), NEW j \in 1..Len(t), i < j,
                        t[i] \in Texts, t[j] \in Texts, from[t[i]] = from[t[j]]
                 PROVE  t[i] < t[j]
      BY DEF Sorted
    <2>1. Len(s) + i < Len(s) + j
      BY <1>0
    <2> QED
      BY <1>2, <2>1 DEF Sorted
  <1>5. Precedes(ToSet(s), ToSet(t), from)
    <2> SUFFICES ASSUME NEW e \in ToSet(s), NEW u \in ToSet(t), e \in Texts, u \in Texts,
                        from[e] = from[u]
                 PROVE  e < u
      BY DEF Precedes
    <2> PICK i \in 1..Len(s) : e = s[i]
      BY Elements
    <2> PICK j \in 1..Len(t) : u = t[j]
      BY Elements
    <2>1. i < Len(s) + j
      BY <1>0
    <2> QED
      BY <1>1, <1>2, <2>1 DEF Sorted
  <1> QED
    BY <1>3, <1>4, <1>5

-----------------------------------------------------------------------------
(* What the storing process takes from the words it has read. *)

(* The texts among the words before word n + 1, from those before word n. *)
IsKept(words, kept, N) ==
    /\ kept = [n \in 0..N |-> kept[n]]
    /\ kept[0] = << >>
    /\ \A n \in 1..N : kept[n] = IF words[n] \in Texts THEN Append(kept[n - 1], words[n])
                                 ELSE kept[n - 1]

LEMMA KeptExists ==
    ASSUME NEW words \in Seq(Words), NEW N \in Nat
    PROVE  \E kept : IsKept(words, kept, N)
  <1> DEFINE None == {n \in Nat : ~ \E kept : IsKept(words, kept, n)}
  <1> SUFFICES ASSUME None # {} PROVE FALSE
    OBVIOUS
  <1>1. PICK m \in None : \A n \in None : ~ (<<n, m>> \in OpToRel(<, Nat))
    BY NatLessThanWellFounded, WFMin, Zenon
  <1>2. \A n \in None : ~(n < m)
    BY <1>1 DEF OpToRel
  <1>3. IsKept(words, [n \in 0..0 |-> << >>], 0)
    BY DEF IsKept
  <1>4. m # 0 /\ m \in Nat
    BY <1>3
  <1>5. m - 1 \in Nat /\ m - 1 \notin None
    BY <1>2, <1>4
  <1>6. PICK kept : IsKept(words, kept, m - 1)
    BY <1>5
  <1> DEFINE more == [n \in 0..m |->
                        IF n < m THEN kept[n]
                        ELSE IF words[m] \in Texts THEN Append(kept[m - 1], words[m])
                        ELSE kept[m - 1]]
  <1>7. IsKept(words, more, m)
    <2>1. more = [n \in 0..m |-> more[n]] /\ more[0] = kept[0]
      BY <1>4
    <2>2. ASSUME NEW n \in 1..m
          PROVE  more[n] = IF words[n] \in Texts THEN Append(more[n - 1], words[n])
                           ELSE more[n - 1]
      <3>1. n - 1 \in 0..m /\ more[n - 1] = kept[n - 1]
        BY <1>4
      <3>2. CASE n = m
        BY <3>1, <3>2
      <3>3. CASE n < m
        <4>1. n \in 1..(m - 1) /\ more[n] = kept[n]
          BY <1>4, <3>3
        <4> HIDE DEF more
        <4> QED
          BY <1>6, <3>1, <4>1 DEF IsKept
      <3> QED
        BY <1>4, <3>2, <3>3
    <2> HIDE DEF more
    <2> QED
      BY <1>6, <2>1, <2>2 DEF IsKept
  <1> QED
    BY <1>7

LEMMA TextsOfIsKept ==
    ASSUME NEW words \in Seq(Words)
    PROVE  \E kept : IsKept(words, kept, Len(words)) /\ TextsOf(words) = kept[Len(words)]
  <1> DEFINE Step(kept) ==
               [n \in 0..Len(words) |->
                  IF n = 0 THEN << >>
                  ELSE IF words[n] \in Texts THEN Append(kept[n - 1], words[n]) ELSE kept[n - 1]]
             all == CHOOSE kept : kept = Step(kept)
  <1>0. Len(words) \in Nat
    OBVIOUS
  <1>1. TextsOf(words) = all[Len(words)]
    BY DEF TextsOf
  <1>2. PICK kept : IsKept(words, kept, Len(words))
    BY <1>0, KeptExists
  <1>3. kept = Step(kept)
    BY <1>0, <1>2 DEF IsKept
  <1>4. all = Step(all)
    BY <1>3
  <1>5. IsKept(words, all, Len(words))
    <2> HIDE DEF all
    <2>1. all[0] = << >> /\ all = [n \in 0..Len(words) |-> all[n]]
      BY <1>0, <1>4
    <2>2. ASSUME NEW n \in 1..Len(words)
          PROVE  all[n] = IF words[n] \in Texts THEN Append(all[n - 1], words[n]) ELSE all[n - 1]
      <3>1. n \in 0..Len(words) /\ n # 0
        BY <1>0
      <3>2. all[n] = Step(all)[n]
        BY <1>4, Zenon
      <3> QED
        BY <3>1, <3>2
    <2> QED
      BY <2>1, <2>2 DEF IsKept
  <1> QED
    BY <1>1, <1>5

(***************************************************************************)
(* The texts kept are the texts among the words, in their order.           *)
(***************************************************************************)
LEMMA KeptTexts ==
    ASSUME NEW words \in Seq(Words), NEW kept, IsKept(words, kept, Len(words)),
           NEW from, Sorted(words, from)
    PROVE  /\ kept[Len(words)] \in Seq(Texts)
           /\ ToSet(kept[Len(words)]) = ToSet(words) \cap Texts
           /\ Sorted(kept[Len(words)], from)
  <1> DEFINE N == Len(words)
             Before(n) == {words[i] : i \in 1..n} \cap Texts
             Good(n) == /\ kept[n] \in Seq(Texts)
                        /\ ToSet(kept[n]) = Before(n)
                        /\ Sorted(kept[n], from)
             Bad == {n \in 0..N : ~Good(n)}
  <1>0. N \in Nat
    OBVIOUS
  <1>1. Good(0)
    <2>1. kept[0] = << >>
      BY DEF IsKept
    <2> QED
      BY <2>1, NoElements
  <1>2. ASSUME NEW n \in 1..N, Good(n - 1) PROVE Good(n)
    <2> DEFINE w == words[n]
               k == kept[n - 1]
    <2>0. n - 1 \in Nat /\ Before(n) = Before(n - 1) \cup ({w} \cap Texts)
      BY <1>0
    <2>1. CASE w \notin Texts
      <3>1. kept[n] = k
        BY <2>1 DEF IsKept
      <3>2. Before(n) = Before(n - 1)
        BY <2>0, <2>1
      <3> QED
        BY <1>2, <3>1, <3>2
    <2>2. CASE w \in Texts
      <3>1. kept[n] = Append(k, w)
        BY <2>2 DEF IsKept
      <3>2. k \in Seq(Texts) /\ ToSet(k) = Before(n - 1) /\ Sorted(k, from)
        BY <1>2
      <3> DEFINE one == <<w>>
      <3>3. Append(k, w) = k \o one /\ one \in Seq(Texts)
        BY <2>2, <3>2
      <3>3a. ToSet(one) = {w} /\ Sorted(one, from)
        BY OneElement
      <3> HIDE DEF one, k, w
      <3>4. ToSet(Append(k, w)) = ToSet(k) \cup {w} /\ Append(k, w) \in Seq(Texts)
        BY <3>2, <3>3, <3>3a, Joined
      <3>5. Precedes(ToSet(k), {w}, from)
        <4> SUFFICES ASSUME NEW t \in ToSet(k), t \in Texts, w \in Texts, from[t] = from[w]
                     PROVE  t < w
          BY DEF Precedes
        <4> PICK i \in 1..(n - 1) : t = words[i]
          BY <3>2
        <4>1. i \in 1..N /\ n \in 1..N /\ i < n
          BY <1>0
        <4> QED
          BY <4>1 DEF Sorted, w
      <3>6. Sorted(Append(k, w), from)
        BY <3>2, <3>3, <3>3a, <3>5, JoinedInOrder
      <3> QED
        BY <2>0, <2>2, <3>1, <3>2, <3>4, <3>6
    <2> QED
      BY <2>1, <2>2
  <1> HIDE DEF Good
  <1>3. Bad = {}
    <2> SUFFICES ASSUME Bad # {} PROVE FALSE
      OBVIOUS
    <2>1. Bad \subseteq Nat
      BY <1>0
    <2>2. PICK m \in Bad : \A n \in Bad : ~ (<<n, m>> \in OpToRel(<, Nat))
      BY <2>1, NatLessThanWellFounded, WFMin, Zenon
    <2>3. \A n \in Bad : ~(n < m)
      BY <2>1, <2>2 DEF OpToRel
    <2>4. m \in 1..N
      BY <1>0, <1>1
    <2>5. Good(m - 1)
      BY <1>0, <2>3, <2>4
    <2> QED
      BY <1>2, <2>4, <2>5
  <1>4. Good(N)
    BY <1>0, <1>3
  <1>5. Before(N) = ToSet(words) \cap Texts
    BY Elements DEF ToSet
  <1> QED
    BY <1>4, <1>5 DEF Good

LEMMA TextsOfWords ==
    ASSUME NEW words \in Seq(Words), NEW from, Sorted(words, from)
    PROVE  /\ TextsOf(words) \in Seq(Texts)
           /\ ToSet(TextsOf(words)) = ToSet(words) \cap Texts
           /\ Sorted(TextsOf(words), from)
  BY TextsOfIsKept, KeptTexts

-----------------------------------------------------------------------------
(* How the texts move. *)

LEMMA InitFlow == Init => FlowInv /\ StorerInv
  <1> SUFFICES ASSUME Init PROVE FlowInv /\ StorerInv
    OBVIOUS
  <1>1. FlowTypes
    BY BoundsAssumption DEF Init, FlowTypes, Words
  <1>2. /\ Gone = {} /\ ToSet(pipe) = {} /\ Sent = {}
        /\ \A c \in Clients : InFlight[c] = {} /\ ToSet(inbox[c]) = {}
    BY NoElements DEF Init, Gone, Sent, InFlight
  <1>3. Known /\ LostApart
    BY <1>2 DEF Known, LostApart, Init
  <1>4. InOrder
    <2>1. Sorted(stored, sender) /\ Sorted(pipe, sender)
      BY NoElements DEF Init
    <2>2. \A c \in Clients : Sorted(toStore[c], sender) /\ Sorted(inbox[c], sender)
      BY NoElements DEF Init
    <2>3. ToSet(stored) \cap dropped = {}
      BY DEF Init
    <2> QED
      BY <1>2, <2>1, <2>2, <2>3 DEF InOrder, Precedes
  <1>5. StorerInv
    BY BoundsAssumption DEF Init, StorerInv
  <1> QED
    BY <1>1, <1>3, <1>4, <1>5 DEF FlowInv

LEMMA FlowStays ==
    ASSUME FlowInv, UNCHANGED <<program, sender, inbox, toStore, pipe, stored, dropped, lost>>
    PROVE  FlowInv'
  <1>1. FlowTypes'
    BY DEF FlowInv, FlowTypes
  <1>2. Sent' = Sent /\ Gone' = Gone /\ InFlight' = InFlight
    BY DEF Sent, Gone, InFlight
  <1>3. Known'
    BY <1>2 DEF FlowInv, Known
  <1>4. InOrder'
    BY <1>2 DEF FlowInv, InOrder
  <1>5. LostApart'
    BY <1>2 DEF FlowInv, LostApart
  <1> QED
    BY <1>1, <1>3, <1>4, <1>5 DEF FlowInv

(* Order depends only on who sent the texts in question. *)
LEMMA OrderStays ==
    ASSUME NEW from, NEW after, NEW S, \A t \in S \cap Texts : after[t] = from[t]
    PROVE  /\ \A Q : \A s \in Seq(Q) : ToSet(s) \subseteq S /\ Sorted(s, from) => Sorted(s, after)
           /\ \A A, B : A \subseteq S /\ B \subseteq S /\ Precedes(A, B, from)
                            => Precedes(A, B, after)
  <1>1. ASSUME NEW Q, NEW s \in Seq(Q), ToSet(s) \subseteq S, Sorted(s, from)
        PROVE  Sorted(s, after)
    <2>1. \A i \in 1..Len(s) : s[i] \in Texts => after[s[i]] = from[s[i]]
      BY <1>1, Elements
    <2> QED
      BY <1>1, <2>1 DEF Sorted
  <1>2. ASSUME NEW A, NEW B, A \subseteq S, B \subseteq S, Precedes(A, B, from)
        PROVE  Precedes(A, B, after)
    BY <1>2 DEF Precedes
  <1> QED
    BY <1>1, <1>2

(* A new text is behind all others of its client. *)
LEMMA SendKeeps ==
    ASSUME FlowInv, NEW c \in Clients, Send(c)
    PROVE  FlowInv'
  <1> DEFINE new == Len(sender) + 1
  <1>0. /\ sender \in Seq(Clients) /\ Len(sender) \in Nat /\ Len(sender) < MaxTexts
        /\ inbox \in [Clients -> Seq(Texts)] /\ toStore \in [Clients -> Seq(Texts)]
        /\ pipe \in Seq(Words) /\ stored \in Seq(Texts) /\ dropped \subseteq Texts
    BY DEF FlowInv, FlowTypes, Send
  <1>1. /\ sender' = Append(sender, c) /\ Len(sender') = new /\ sender' \in Seq(Clients)
        /\ sender'[new] = c /\ \A t \in Sent : sender'[t] = sender[t]
    BY <1>0 DEF Send, Sent
  <1>2. new \in Texts /\ new \notin Sent /\ Sent' = Sent \cup {new} /\ \A t \in Sent : t < new
    BY <1>0, <1>1, BoundsAssumption DEF Texts, Sent
  <1>3. inbox' = [inbox EXCEPT ![c] = Append(@, new)]
    BY <1>1 DEF Send
  <1> HIDE DEF new
  <1>4. UNCHANGED <<program, toStore, pipe, stored, dropped, lost>>
    BY DEF Send, storing
  <1>5. ToSet(inbox'[c]) = ToSet(inbox[c]) \cup {new}
        /\ inbox'[c] = inbox[c] \o <<new>> /\ <<new>> \in Seq(Texts)
    <2>1. inbox[c] \in Seq(Texts) /\ inbox'[c] = Append(inbox[c], new)
      BY <1>0, <1>3
    <2> DEFINE one == <<new>>
    <2>2. one \in Seq(Texts) /\ inbox'[c] = inbox[c] \o one
      BY <1>2, <2>1
    <2>3. ToSet(one) = {new}
      BY OneElement
    <2> HIDE DEF one
    <2>4. ToSet(inbox'[c]) = ToSet(inbox[c]) \cup {new}
      BY <2>1, <2>2, <2>3, Joined
    <2> QED
      BY <2>2, <2>4 DEF one
  <1>6. InFlight' = [InFlight EXCEPT ![c] = @ \cup {new}] /\ Gone' = Gone
    BY <1>0, <1>3, <1>4, <1>5 DEF InFlight, Gone
  <1>6a. /\ InFlight'[c] = InFlight[c] \cup {new}
        /\ \A d \in Clients \ {c} : InFlight'[d] = InFlight[d]
    BY <1>6 DEF InFlight
  <1>7. FlowTypes'
    <2>1. Len(sender') <= MaxTexts
      BY <1>1, <1>2, BoundsAssumption DEF Texts
    <2>2. inbox' \in [Clients -> Seq(Texts)]
      BY <1>0, <1>2, <1>3
    <2> QED
      BY <1>1, <1>4, <2>1, <2>2 DEF FlowInv, FlowTypes
  <1>8. Known'
    <2>0. Known
      BY DEF FlowInv
    <2>1. Gone' \subseteq Sent' /\ lost' \subseteq Sent' /\ ToSet(pipe') \cap Texts \subseteq Sent'
      BY <1>2, <1>4, <1>6, <2>0 DEF Known
    <2>2. ASSUME NEW d \in Clients, NEW t \in InFlight'[d]
          PROVE  t \in Sent' /\ sender'[t] = d
      <3>1. CASE t \in InFlight[d]
        BY <1>1, <1>2, <2>0, <3>1 DEF Known
      <3>2. CASE t \notin InFlight[d]
        <4>1. t = new /\ d = c
          BY <1>6a, <2>2, <3>2
        <4> QED
          BY <1>1, <1>2, <4>1
      <3> QED
        BY <3>1, <3>2
    <2>3. new \in InFlight'[c] /\ \A d \in Clients : InFlight[d] \subseteq InFlight'[d]
      BY <1>6a
    <2>4. ASSUME program.stores, NEW t \in Sent'
          PROVE  t \in Gone \cup ToSet(pipe) \cup lost \/ \E d \in Clients : t \in InFlight'[d]
      BY <1>2, <2>0, <2>3, <2>4 DEF Known
    <2> QED
      BY <1>4, <1>6, <2>1, <2>2, <2>4 DEF Known
  <1>9. InOrder'
    <2>0. /\ Known
          /\ \A t \in Sent \cap Texts : sender'[t] = sender[t]
          /\ Gone \cap Texts \subseteq Sent /\ ToSet(stored) \subseteq Gone
          /\ \A d \in Clients : /\ InFlight[d] \subseteq Sent
                                /\ InFlight[d] = ToSet(toStore[d]) \cup ToSet(inbox[d])
      BY <1>1 DEF FlowInv, Known, Gone, InFlight
    <2>1. \A t \in (Sent \cup ToSet(pipe)) \cap Texts : sender'[t] = sender[t]
      BY <2>0, <1>1 DEF Known
    <2>2. /\ \A Q : \A s \in Seq(Q) : ToSet(s) \subseteq Sent \cup ToSet(pipe) /\ Sorted(s, sender)
                                    => Sorted(s, sender')
          /\ \A A, B : A \subseteq Sent \cup ToSet(pipe) /\ B \subseteq Sent \cup ToSet(pipe)
                          /\ Precedes(A, B, sender) => Precedes(A, B, sender')
      BY <2>1, OrderStays
    <2>3. Sorted(stored, sender') /\ Sorted(pipe, sender')
      BY <1>0, <2>0, <2>2 DEF FlowInv, InOrder, Known
    <2>4. \A d \in Clients : Sorted(toStore[d], sender') /\ Sorted(inbox[d], sender')
      BY <1>0, <2>0, <2>2 DEF FlowInv, InOrder
    <2>5. Precedes(Gone, ToSet(pipe), sender')
      BY <2>0, <2>2 DEF FlowInv, InOrder, Known
    <2>6. \A d \in Clients : /\ Precedes(Gone \cup ToSet(pipe), InFlight[d], sender')
                             /\ Precedes(ToSet(toStore[d]), ToSet(inbox[d]), sender')
      BY <2>0, <2>2 DEF FlowInv, InOrder, Known
    <2>7. \A S : S \subseteq Sent \cup ToSet(pipe) => Precedes(S, {new}, sender')
      BY <1>2, <2>0 DEF Precedes, Known
    <2>8. Sorted(inbox'[c], sender')
      <3> DEFINE one == <<new>>
      <3>1. inbox[c] \in Seq(Texts) /\ inbox'[c] = inbox[c] \o one /\ one \in Seq(Texts)
        BY <1>0, <1>5
      <3>2. ToSet(one) = {new} /\ Sorted(one, sender')
        BY OneElement
      <3> HIDE DEF one
      <3>3. Precedes(ToSet(inbox[c]), ToSet(one), sender')
        BY <2>0, <2>7, <3>2
      <3> QED
        BY <2>4, <3>1, <3>2, <3>3, JoinedInOrder
    <2>9. \A A, S : Precedes(A, S, sender') /\ Precedes(A, {new}, sender')
                        => Precedes(A, S \cup {new}, sender')
      BY DEF Precedes
    <2>10. \A d \in Clients : Sorted(inbox'[d], sender')
      BY <1>0, <1>3, <2>4, <2>8
    <2>11. \A d \in Clients : /\ Precedes(Gone \cup ToSet(pipe), InFlight'[d], sender')
                              /\ Precedes(ToSet(toStore[d]), ToSet(inbox'[d]), sender')
      <3> SUFFICES ASSUME NEW d \in Clients
                   PROVE  /\ Precedes(Gone \cup ToSet(pipe), InFlight'[d], sender')
                          /\ Precedes(ToSet(toStore[d]), ToSet(inbox'[d]), sender')
        OBVIOUS
      <3>1. CASE d # c
        <4>1. InFlight'[d] = InFlight[d] /\ inbox'[d] = inbox[d]
          BY <1>0, <1>3, <1>6a, <3>1
        <4> QED
          BY <2>6, <4>1
      <3>2. CASE d = c
        <4>1. InFlight'[d] = InFlight[d] \cup {new} /\ ToSet(inbox'[d]) = ToSet(inbox[d]) \cup {new}
          BY <1>5, <1>6a, <3>2
        <4>2. Gone \cup ToSet(pipe) \subseteq Sent \cup ToSet(pipe) /\ ToSet(toStore[d]) \subseteq Sent
          BY <2>0 DEF Known
        <4>3. Precedes(Gone \cup ToSet(pipe), {new}, sender') /\ Precedes(ToSet(toStore[d]), {new}, sender')
          BY <2>7, <4>2
        <4>4. /\ Precedes(Gone \cup ToSet(pipe), InFlight[d], sender')
              /\ Precedes(ToSet(toStore[d]), ToSet(inbox[d]), sender')
          BY <2>6
        <4>5. /\ Precedes(Gone \cup ToSet(pipe), InFlight[d] \cup {new}, sender')
              /\ Precedes(ToSet(toStore[d]), ToSet(inbox[d]) \cup {new}, sender')
          BY <2>9, <4>3, <4>4
        <4> QED
          BY <4>1, <4>5, Zenon
      <3> QED
        BY <3>1, <3>2
    <2>12. (ToSet(stored) \cap dropped = {})'
      BY <1>4 DEF FlowInv, InOrder
    <2>13. UNCHANGED <<Gone, ToSet(pipe), stored, pipe, toStore>>
      BY <1>4, <1>6
    <2> QED
      BY <2>3, <2>4, <2>5, <2>10, <2>11, <2>12, <2>13 DEF InOrder
  <1>10. LostApart'
    <2>1. lost \subseteq Sent /\ LostApart
      BY DEF FlowInv, Known
    <2>2. \A d \in Clients : InFlight'[d] \subseteq InFlight[d] \cup {new}
      BY <1>6a
    <2> QED
      BY <1>2, <1>4, <1>6, <2>1, <2>2 DEF LostApart
  <1> QED
    BY <1>7, <1>8, <1>9, <1>10 DEF FlowInv

(***************************************************************************)
(* A child reads the first n texts of its socket.  They go to toStore, or, *)
(* when SIGPIPE ends the child, they are lost.                             *)
(***************************************************************************)
Moved(c, n) ==
    LET a == SubSeq(inbox[c], 1, n)
    IN  \/ /\ toStore' = IF program.stores THEN [toStore EXCEPT ![c] = a] ELSE toStore
           /\ lost' = lost
        \/ /\ toStore' = toStore
           /\ lost' = IF program.stores THEN lost \cup ToSet(a) ELSE lost

LEMMA TakenKeeps ==
    ASSUME FlowInv, NEW c \in Clients, NEW n \in 1..Len(inbox[c]), toStore[c] = << >>,
           inbox' = [inbox EXCEPT ![c] = SubSeq(@, n + 1, Len(@))], Moved(c, n),
           UNCHANGED <<program, sender, pipe, stored, dropped>>
    PROVE  FlowInv'
  <1>0. /\ inbox \in [Clients -> Seq(Texts)] /\ toStore \in [Clients -> Seq(Texts)]
        /\ FlowTypes /\ Known /\ InOrder /\ LostApart
    BY DEF FlowInv, FlowTypes
  <1> DEFINE all == inbox[c]
             a == SubSeq(all, 1, n)
             b == SubSeq(all, n + 1, Len(all))
  <1>2. /\ all \in Seq(Texts) /\ a \in Seq(Texts) /\ b \in Seq(Texts)
        /\ ToSet(all) = ToSet(a) \cup ToSet(b)
        /\ Sorted(a, sender) /\ Sorted(b, sender) /\ Precedes(ToSet(a), ToSet(b), sender)
    <2>1. all \in Seq(Texts) /\ Sorted(all, sender)
      BY <1>0 DEF InOrder
    <2>2. /\ a \in Seq(Texts) /\ b \in Seq(Texts)
          /\ ToSet(all) = ToSet(a) \cup ToSet(b) /\ all = a \o b
      BY <2>1, Cut
    <2> HIDE DEF all, a, b
    <2> QED
      BY <2>1, <2>2, CutInOrder
  <1> DEFINE Echoed == /\ toStore' = IF program.stores THEN [toStore EXCEPT ![c] = a] ELSE toStore
                       /\ lost' = lost
             Killed == /\ toStore' = toStore
                       /\ lost' = IF program.stores THEN lost \cup ToSet(a) ELSE lost
  <1>3. inbox' = [inbox EXCEPT ![c] = b] /\ (Echoed \/ Killed)
    BY DEF Moved
  <1>4. ToSet(toStore[c]) = {} /\ InFlight[c] = ToSet(all)
    BY <1>0, NoElements DEF InFlight
  <1> HIDE DEF all, a, b
  <1>2a. inbox'[c] = b /\ \A d \in Clients \ {c} : inbox'[d] = inbox[d]
    BY <1>0, <1>3
  <1>2b. /\ toStore'[c] \in {a, toStore[c]}
         /\ \A d \in Clients \ {c} : toStore'[d] = toStore[d]
    BY <1>0, <1>3
  <1>2c. toStore' \in [Clients -> Seq(Texts)] /\ inbox' \in [Clients -> Seq(Texts)]
    BY <1>0, <1>2, <1>3
  <1>5. /\ InFlight'[c] = ToSet(toStore'[c]) \cup ToSet(b)
        /\ InFlight'[c] \subseteq InFlight[c]
        /\ \A d \in Clients \ {c} : InFlight'[d] = InFlight[d]
    <2>1. InFlight' = [d \in Clients |-> ToSet(toStore'[d]) \cup ToSet(inbox'[d])]
      BY DEF InFlight
    <2>2. \A d \in Clients \ {c} : InFlight'[d] = InFlight[d]
      BY <1>2a, <1>2b, <2>1 DEF InFlight
    <2>3. InFlight'[c] = ToSet(toStore'[c]) \cup ToSet(b)
      BY <1>2a, <2>1
    <2> QED
      BY <1>2, <1>2b, <1>4, <2>2, <2>3
  <1>5a. program.stores => InFlight[c] \subseteq InFlight'[c] \cup lost'
    <2>1. CASE program.stores /\ Echoed
      <3>1. toStore'[c] = a
        BY <1>0, <2>1
      <3> QED
        BY <1>2, <1>4, <1>5, <3>1
    <2>2. CASE program.stores /\ Killed
      BY <1>2, <1>4, <1>5, <2>2
    <2> QED
      BY <1>3, <2>1, <2>2
  <1>5b. lost \subseteq lost' /\ lost' \subseteq lost \cup ToSet(a)
    BY <1>3
  <1>6. FlowTypes'
    <2>1. lost' \subseteq Texts
      BY <1>0, <1>2, <1>5b, Elements DEF FlowTypes
    <2> QED
      BY <1>0, <1>2c, <2>1 DEF FlowTypes
  <1>7. Known'
    <2>1. Sent' = Sent /\ Gone' = Gone
      BY DEF Sent, Gone
    <2>2. ToSet(a) \subseteq Sent
      BY <1>0, <1>2, <1>4 DEF Known
    <2>3. \A d \in Clients : InFlight'[d] \subseteq InFlight[d]
      BY <1>5
    <2>4. program.stores => \A d \in Clients : InFlight[d] \subseteq InFlight'[d] \cup lost'
      BY <1>5, <1>5a
    <2> QED
      BY <1>0, <1>5b, <2>1, <2>2, <2>3, <2>4 DEF Known
  <1>8. InOrder'
    <2>1. \A d \in Clients : Sorted(toStore'[d], sender) /\ Sorted(inbox'[d], sender)
      BY <1>0, <1>2, <1>2a, <1>2b DEF InOrder
    <2>2. \A d \in Clients : Precedes(ToSet(toStore'[d]), ToSet(inbox'[d]), sender)
      <3>1. \A d \in Clients \ {c} : Precedes(ToSet(toStore'[d]), ToSet(inbox'[d]), sender)
        BY <1>0, <1>2a, <1>2b DEF InOrder
      <3>2. Precedes(ToSet(toStore'[c]), ToSet(inbox'[c]), sender)
        BY <1>2, <1>2a, <1>2b, <1>4 DEF Precedes
      <3> QED
        BY <3>1, <3>2
    <2>3. \A d \in Clients : Precedes(Gone \cup ToSet(pipe), InFlight'[d], sender)
      BY <1>0, <1>5 DEF InOrder, Precedes
    <2>4. Gone' = Gone
      BY DEF Gone
    <2> QED
      BY <1>0, <2>1, <2>2, <2>3, <2>4 DEF InOrder
  <1>9. LostApart'
    <2>0. Gone' = Gone /\ ToSet(a) \subseteq InFlight[c] /\ ToSet(a) \subseteq Texts
      BY <1>2, <1>4, Elements DEF Gone
    <2>0a. \A t \in Texts : ~(t < t)
      BY BoundsAssumption DEF Texts
    <2>1. ToSet(a) \cap (Gone \cup ToSet(pipe)) = {}
      <3>1. Precedes(Gone \cup ToSet(pipe), InFlight[c], sender)
        BY <1>0 DEF InOrder
      <3> QED
        BY <2>0, <2>0a, <3>1 DEF Precedes
    <2>2. \A d \in Clients \ {c} : ToSet(a) \cap InFlight[d] = {}
      BY <1>0, <2>0 DEF Known
    <2>3. ToSet(a) \cap ToSet(b) = {}
      BY <1>2, <2>0, <2>0a DEF Precedes
    <2>4. lost' \cap InFlight'[c] = {}
      <3>1. CASE Echoed
        BY <1>0, <1>5, <3>1 DEF LostApart
      <3>2. CASE Killed
        <4>1. InFlight'[c] = ToSet(b)
          BY <1>4, <1>5, <3>2
        <4> QED
          BY <1>0, <1>5, <1>5b, <2>3, <4>1 DEF LostApart
      <3> QED
        BY <1>3, <3>1, <3>2
    <2>5. \A d \in Clients \ {c} : lost' \cap InFlight'[d] = {}
      BY <1>0, <1>5, <1>5b, <2>2 DEF LostApart
    <2>6. lost' \cap (Gone \cup ToSet(pipe)) = {}
      BY <1>0, <1>5b, <2>1 DEF LostApart
    <2> QED
      BY <2>0, <2>4, <2>5, <2>6 DEF LostApart
  <1> QED
    BY <1>6, <1>7, <1>8, <1>9 DEF FlowInv

LEMMA EchoKeeps ==
    ASSUME FlowInv, NEW c \in Clients, Echo(c)
    PROVE  FlowInv'
  <1>1. PICK n \in 1..Len(inbox[c]) :
              /\ Taken(c, n)
              /\ toStore' = IF program.stores
                              THEN [toStore EXCEPT ![c] = SubSeq(inbox[c], 1, n)] ELSE toStore
    BY DEF Echo
  <1>2. UNCHANGED <<program, sender, pipe, stored, dropped, lost>>
    BY DEF Echo, storing
  <1>3. Moved(c, n)
    BY <1>1, <1>2 DEF Moved
  <1> QED
    BY <1>1, <1>2, <1>3, TakenKeeps DEF Taken

LEMMA EchoKillsKeepsFlow ==
    ASSUME FlowInv, NEW c \in Clients, EchoKills(c)
    PROVE  FlowInv'
  <1>1. PICK n \in 1..Len(inbox[c]) :
              /\ Taken(c, n)
              /\ lost' = IF program.stores THEN lost \cup ToSet(SubSeq(inbox[c], 1, n)) ELSE lost
    BY DEF EchoKills
  <1>2. UNCHANGED <<program, sender, toStore, pipe, stored, dropped>>
    BY DEF EchoKills
  <1>3. Moved(c, n)
    BY <1>1, <1>2 DEF Moved
  <1> QED
    BY <1>1, <1>2, <1>3, TakenKeeps DEF Taken

(* A word of the server itself, behind all texts in the pipe. *)
LEMMA WordWritten ==
    ASSUME FlowInv, NEW w \in {OPEN, QUIT}, WritePipe(<<w>>),
           UNCHANGED <<program, sender, inbox, toStore, stored, dropped, lost>>
    PROVE  FlowInv'
  <1> DEFINE one == <<w>>
  <1>0. pipe \in Seq(Words) /\ w \in Words /\ w \notin Texts
    BY WordsAssumption DEF FlowInv, FlowTypes, Words, Texts
  <1>1. /\ one \in Seq(Words) /\ ToSet(one) = {w} /\ Sorted(one, sender)
        /\ pipe' = pipe \o one /\ Len(pipe) + Len(one) <= PipeCap
    BY <1>0, OneElement DEF WritePipe, Room
  <1> HIDE DEF one
  <1>2. pipe' \in Seq(Words) /\ Len(pipe') <= PipeCap /\ ToSet(pipe') = ToSet(pipe) \cup {w}
    BY <1>0, <1>1, Joined
  <1>3. Precedes(ToSet(pipe), ToSet(one), sender)
    BY <1>0, <1>1 DEF Precedes
  <1>4. Sorted(pipe', sender)
    BY <1>0, <1>1, <1>3, JoinedInOrder DEF FlowInv, InOrder
  <1>5. Sent' = Sent /\ Gone' = Gone /\ InFlight' = InFlight
    BY DEF Sent, Gone, InFlight
  <1>6. FlowTypes'
    BY <1>2 DEF FlowInv, FlowTypes
  <1>7. Known'
    BY <1>0, <1>2, <1>5 DEF FlowInv, Known
  <1>8. InOrder'
    <2>1. /\ Precedes(Gone, ToSet(pipe'), sender)
          /\ \A c \in Clients : Precedes(Gone \cup ToSet(pipe'), InFlight[c], sender)
      BY <1>0, <1>2 DEF FlowInv, InOrder, Precedes
    <2> QED
      BY <1>4, <1>5, <2>1 DEF FlowInv, InOrder
  <1>9. LostApart'
    <2>1. lost \subseteq Texts /\ LostApart
      BY DEF FlowInv, FlowTypes
    <2> QED
      BY <1>0, <1>2, <1>5, <2>1 DEF LostApart
  <1> QED
    BY <1>6, <1>7, <1>8, <1>9 DEF FlowInv

(* What a child writes stays behind what it has written before. *)
LEMMA PassOnKeeps ==
    ASSUME FlowInv, NEW c \in Clients, PassOn(c)
    PROVE  FlowInv'
  <1> DEFINE own == toStore[c]
  <1>0. /\ inbox \in [Clients -> Seq(Texts)] /\ toStore \in [Clients -> Seq(Texts)]
        /\ pipe \in Seq(Words) /\ FlowTypes /\ Known /\ InOrder /\ LostApart
        /\ UNCHANGED <<program, sender, inbox, stored, dropped, lost>>
        /\ toStore' = [toStore EXCEPT ![c] = << >>]
    BY DEF FlowInv, FlowTypes, PassOn, clients, storing
  <1>1. /\ own \in Seq(Texts) /\ own \in Seq(Words)
        /\ pipe' = pipe \o own /\ Len(pipe) + Len(own) <= PipeCap
    BY <1>0 DEF PassOn, WritePipe, Room, Words
  <1>2. /\ Sorted(own, sender) /\ ToSet(own) \subseteq InFlight[c] /\ ToSet(own) \subseteq Texts
        /\ InFlight[c] = ToSet(own) \cup ToSet(inbox[c])
    BY <1>0, <1>1, Elements DEF InOrder, InFlight
  <1>2a. toStore'[c] = << >> /\ \A d \in Clients \ {c} : toStore'[d] = toStore[d]
    BY <1>0
  <1> HIDE DEF own
  <1>3. pipe' \in Seq(Words) /\ Len(pipe') <= PipeCap /\ ToSet(pipe') = ToSet(pipe) \cup ToSet(own)
    BY <1>0, <1>1, Joined
  <1>4. Precedes(ToSet(pipe), ToSet(own), sender)
    BY <1>0, <1>2 DEF InOrder, Precedes
  <1>5. Sorted(pipe', sender)
    BY <1>0, <1>1, <1>2, <1>4, JoinedInOrder DEF InOrder
  <1>6. /\ InFlight'[c] = ToSet(inbox[c])
        /\ \A d \in Clients \ {c} : InFlight'[d] = InFlight[d]
    <2>1. InFlight' = [d \in Clients |-> ToSet(toStore'[d]) \cup ToSet(inbox[d])]
      BY <1>0 DEF InFlight
    <2> QED
      BY <1>2a, <2>1, NoElements DEF InFlight
  <1>7. FlowTypes'
    BY <1>0, <1>3 DEF FlowTypes
  <1>8. Known'
    <2>1. ToSet(pipe') \cap Texts \subseteq Sent
      BY <1>0, <1>2, <1>3 DEF Known
    <2>2. \A d \in Clients : InFlight'[d] \subseteq InFlight[d]
      BY <1>2, <1>6
    <2>3. \A d \in Clients : InFlight[d] \subseteq InFlight'[d] \cup ToSet(pipe')
      BY <1>2, <1>3, <1>6
    <2>4. Sent' = Sent /\ Gone' = Gone
      BY <1>0 DEF Sent, Gone
    <2> QED
      BY <1>0, <1>3, <2>1, <2>2, <2>3, <2>4 DEF Known
  <1>9. InOrder'
    <2>1. Precedes(Gone, ToSet(pipe'), sender)
      BY <1>0, <1>2, <1>3 DEF InOrder, Precedes
    <2>2. \A d \in Clients : Precedes(ToSet(own), InFlight'[d], sender)
      <3>1. Precedes(ToSet(own), InFlight'[c], sender)
        BY <1>0, <1>6 DEF InOrder, own
      <3>2. ASSUME NEW d \in Clients \ {c} PROVE Precedes(ToSet(own), InFlight'[d], sender)
        <4>1. \A t \in ToSet(own) : sender[t] = c
          BY <1>0, <1>2 DEF Known
        <4>2. \A u \in InFlight'[d] : sender[u] = d
          BY <1>0, <1>6 DEF Known
        <4> QED
          BY <4>1, <4>2 DEF Precedes
      <3> QED
        BY <3>1, <3>2
    <2>3. \A d \in Clients : Precedes(Gone \cup ToSet(pipe'), InFlight'[d], sender)
      <3> SUFFICES ASSUME NEW d \in Clients
                   PROVE  Precedes(Gone \cup ToSet(pipe'), InFlight'[d], sender)
        OBVIOUS
      <3>1. InFlight'[d] \subseteq InFlight[d]
        BY <1>2, <1>6
      <3> QED
        BY <1>0, <1>3, <2>2, <3>1 DEF InOrder, Precedes
    <2>4. \A d \in Clients : /\ Sorted(toStore'[d], sender)
                             /\ Precedes(ToSet(toStore'[d]), ToSet(inbox[d]), sender)
      BY <1>0, <1>2a, NoElements DEF InOrder, Precedes
    <2>5. Gone' = Gone
      BY <1>0 DEF Gone
    <2> QED
      BY <1>0, <1>5, <2>1, <2>3, <2>4, <2>5 DEF InOrder
  <1>10. LostApart'
    <2>1. \A d \in Clients : InFlight'[d] \subseteq InFlight[d]
      BY <1>2, <1>6
    <2>2. lost \cap ToSet(own) = {}
      BY <1>0, <1>2 DEF LostApart
    <2>3. Gone' = Gone
      BY <1>0 DEF Gone
    <2> QED
      BY <1>0, <1>3, <2>1, <2>2, <2>3 DEF LostApart
  <1> QED
    BY <1>7, <1>8, <1>9, <1>10 DEF FlowInv

-----------------------------------------------------------------------------
(* The storing process takes all that is in the pipe; its texts are stored *)
(* behind the others or thrown away.                                       *)
LEMMA PipeRead ==
    ASSUME FlowInv, pipe' = << >>, UNCHANGED <<program, sender, inbox, toStore, lost>>,
           stored' \in Seq(Texts), dropped' \subseteq Texts, Sorted(stored', sender),
           Gone' = Gone \cup (ToSet(pipe) \cap Texts), ToSet(stored') \cap dropped' = {}
    PROVE  FlowInv'
  <1>0. FlowTypes /\ Known /\ InOrder /\ LostApart
    BY DEF FlowInv
  <1>1. ToSet(pipe') = {} /\ InFlight' = InFlight /\ Sent' = Sent
    BY NoElements DEF InFlight, Sent
  <1>2. FlowTypes'
    BY <1>0, BoundsAssumption DEF FlowTypes
  <1>3. Known'
    <2>1. Gone' \subseteq Sent' /\ lost \subseteq Sent'
      BY <1>0, <1>1 DEF Known
    <2>2. ASSUME program.stores, NEW t \in Sent
          PROVE  t \in Gone' \cup lost \/ \E c \in Clients : t \in InFlight[c]
      <3>1. t \in Texts
        BY <1>0, BoundsAssumption DEF FlowTypes, Sent, Texts
      <3> QED
        BY <1>0, <2>2, <3>1 DEF Known
    <2> QED
      BY <1>0, <1>1, <2>1, <2>2 DEF Known
  <1>4. InOrder'
    <2>1. \A c \in Clients : Precedes(Gone', InFlight[c], sender)
      BY <1>0 DEF InOrder, Precedes
    <2>2. Sorted(pipe', sender)
      BY NoElements
    <2>3. Precedes(Gone', {}, sender) /\ Gone' \cup ToSet(pipe') = Gone'
      BY <1>1 DEF Precedes
    <2>4. UNCHANGED <<sender, inbox, toStore, InFlight>> /\ ToSet(pipe') = {}
      BY <1>1
    <2>5. \A c \in Clients :
            /\ Sorted(toStore[c], sender) /\ Sorted(inbox[c], sender)
            /\ Precedes(ToSet(toStore[c]), ToSet(inbox[c]), sender)
      BY <1>0 DEF InOrder
    <2> QED
      BY <2>1, <2>2, <2>3, <2>4, <2>5 DEF InOrder
  <1>5. LostApart'
    BY <1>0, <1>1 DEF LostApart
  <1> QED
    BY <1>2, <1>3, <1>4, <1>5 DEF FlowInv

(* "open" and "q" alone leave no trace. *)
LEMMA WordRead ==
    ASSUME FlowInv, NEW w \in {OPEN, QUIT}, pipe = <<w>>, pipe' = << >>,
           UNCHANGED <<program, sender, inbox, toStore, stored, dropped, lost>>
    PROVE  FlowInv'
  <1>1. ToSet(pipe) \cap Texts = {}
    BY OneElement, WordsAssumption DEF Texts
  <1>2. Gone' = Gone
    BY DEF Gone
  <1> QED
    BY <1>1, <1>2, PipeRead DEF FlowInv, FlowTypes, InOrder

LEMMA ReadOtherKeeps ==
    ASSUME FlowInv, ReadOther
    PROVE  FlowInv'
  <1>0. /\ pipe \in Seq(Words) /\ Sorted(pipe, sender)
        /\ stored \in Seq(Texts) /\ dropped \subseteq Texts /\ Sorted(stored, sender)
        /\ ToSet(stored) \cap dropped = {} /\ Precedes(Gone, ToSet(pipe), sender)
    BY DEF FlowInv, FlowTypes, InOrder
  <1>1. ToSet(TextsOf(pipe)) = ToSet(pipe) \cap Texts
    BY <1>0, TextsOfWords
  <1>2. /\ pipe' = << >> /\ dropped' = dropped \cup (ToSet(pipe) \cap Texts)
        /\ UNCHANGED <<program, sender, inbox, toStore, stored, lost>>
    BY <1>1 DEF ReadOther, Read, clients
  <1>3. Gone' = Gone \cup (ToSet(pipe) \cap Texts)
    BY <1>2 DEF Gone
  <1>4. ToSet(stored') \cap dropped' = {}
    BY <1>0, <1>2 DEF Precedes, Gone, Texts
  <1> QED
    BY <1>0, <1>2, <1>3, <1>4, PipeRead

LEMMA TextsStored ==
    ASSUME FlowInv, pipe' = << >>, stored' = stored \o TextsOf(pipe),
           UNCHANGED <<program, sender, inbox, toStore, dropped, lost>>
    PROVE  FlowInv'
  <1> DEFINE new == TextsOf(pipe)
  <1>0. /\ pipe \in Seq(Words) /\ Sorted(pipe, sender)
        /\ stored \in Seq(Texts) /\ dropped \subseteq Texts /\ Sorted(stored, sender)
        /\ ToSet(stored) \cap dropped = {} /\ Precedes(Gone, ToSet(pipe), sender)
    BY DEF FlowInv, FlowTypes, InOrder
  <1>1. new \in Seq(Texts) /\ ToSet(new) = ToSet(pipe) \cap Texts /\ Sorted(new, sender)
    BY <1>0, TextsOfWords
  <1>2. stored' = stored \o new
    OBVIOUS
  <1> HIDE DEF new
  <1>3. stored' \in Seq(Texts) /\ ToSet(stored') = ToSet(stored) \cup (ToSet(pipe) \cap Texts)
    BY <1>0, <1>1, <1>2, Joined
  <1>4. Precedes(ToSet(stored), ToSet(new), sender)
    BY <1>0, <1>1 DEF Precedes, Gone
  <1>5. Sorted(stored', sender)
    BY <1>0, <1>1, <1>2, <1>4, JoinedInOrder
  <1>6. Gone' = Gone \cup (ToSet(pipe) \cap Texts)
    BY <1>3 DEF Gone
  <1>7. ToSet(stored') \cap dropped' = {}
    BY <1>0, <1>3 DEF Precedes, Gone, Texts
  <1> QED
    BY <1>0, <1>3, <1>5, <1>6, <1>7, PipeRead

(* Nobody starts the storing process again. *)
LEMMA StorerKeeps ==
    ASSUME IndInv, StorerInv, [Next]_vars
    PROVE  StorerInv'
  <1>0. /\ MaxReads \in Nat /\ STORER \notin Clients /\ STORER \in Children
        /\ child \in [Children -> {"none", "serving", "closing", "zombie", "reaped"}]
    BY BoundsAssumption, ClientsAssumption DEF Children, IndInv, Types
  <1> DEFINE Idle == child'[STORER] = "serving" => child[STORER] = "serving"
  <1>1. ASSUME UNCHANGED <<program, store, nreads>>, Idle PROVE StorerInv'
    BY <1>1 DEF StorerInv
  <1>2. ASSUME NEW c \in Clients, Client(c) PROVE StorerInv'
    BY <1>2 DEF Client, Connect, Send, Hear, Leave, StorerInv, storing
  <1>3. CASE Parent
    <2>1. CASE Fork
      <3>1. client_fd \in Clients
        BY <2>1 DEF IndInv, Fork, Types, ForkedOnce
      <3>2. child'[STORER] = child[STORER]
        BY <1>0, <2>1, <3>1 DEF Fork
      <3> QED
        BY <1>1, <2>1, <3>2 DEF Fork, clients, storing
    <2>2. CASE Announce \/ ForkFails \/ CloseInParent \/ \E c \in Clients : Accept(c)
      BY <1>1, <2>2 DEF Announce, ForkFails, CloseInParent, Accept, clients, storing
    <2> QED
      BY <1>3, <2>1, <2>2 DEF Parent
  <1>4. ASSUME NEW c \in Clients, Child(c) PROVE StorerInv'
    <2>1. child'[STORER] = child[STORER]
      BY <1>0, <1>4 DEF Child, Echo, EchoKills, ReadFails, PassOn, SignOff, ChildExits, Exit
    <2> QED
      BY <1>1, <1>4, <2>1
      DEF Child, Echo, EchoKills, ReadFails, PassOn, SignOff, ChildExits, storing
  <1>5. CASE Handler
    <2>1. Idle
      BY <1>0, <1>5 DEF Handler, DeliverSignal, Reap
    <2> QED
      BY <1>1, <1>5, <2>1 DEF Handler, DeliverSignal, Reap, clients, storing
  <1>6. CASE Storer
    <2>1. CASE ReadLimited
      <3>1. nreads < MaxReads /\ nreads' = nreads + 1 /\ UNCHANGED <<program, store>>
        BY <2>1 DEF StorerInv, ReadLimited, Read
      <3>2. nreads' = MaxReads => child'[STORER] = "zombie"
        BY <1>0, <2>1 DEF ReadLimited, Exit
      <3> QED
        BY <1>0, <3>1, <3>2 DEF StorerInv
    <2>2. CASE ReadOpen \/ ReadOther \/ ReadQuit \/ ReadText
      BY <2>2 DEF ReadOpen, ReadOther, ReadQuit, ReadText, Read, StorerInv, clients
    <2> QED
      BY <1>6, <2>1, <2>2 DEF Storer
  <1>7. CASE UNCHANGED vars
    BY <1>1, <1>7 DEF vars, clients, storing
  <1> QED
    BY <1>2, <1>3, <1>4, <1>5, <1>6, <1>7 DEF Next

LEMMA FlowKeeps ==
    ASSUME FlowInv, [Next]_vars
    PROVE  FlowInv'
  <1>1. ASSUME NEW c \in Clients, Client(c) PROVE FlowInv'
    <2>1. CASE Connect(c) \/ Hear(c) \/ Leave(c)
      BY <2>1, FlowStays DEF Connect, Hear, Leave, storing, clients
    <2> QED
      BY <1>1, <2>1, SendKeeps DEF Client
  <1>2. CASE Parent
    <2>1. CASE \E c \in Clients : Accept(c)
      BY <2>1, FlowStays DEF Accept, storing
    <2>2. CASE Fork \/ ForkFails \/ CloseInParent
      BY <2>2, FlowStays DEF Fork, ForkFails, CloseInParent, storing, clients
    <2>3. CASE Announce
      BY <2>3, WordWritten DEF Announce, storing, clients
    <2> QED
      BY <1>2, <2>1, <2>2, <2>3 DEF Parent
  <1>3. ASSUME NEW c \in Clients, Child(c) PROVE FlowInv'
    <2>1. CASE SignOff(c)
      BY <2>1, WordWritten DEF SignOff, storing, clients
    <2>2. CASE ReadFails(c) \/ ChildExits(c)
      BY <2>2, FlowStays DEF ReadFails, ChildExits, storing, clients
    <2> QED
      BY <1>3, <2>1, <2>2, EchoKeeps, EchoKillsKeepsFlow, PassOnKeeps DEF Child
  <1>4. CASE Handler
    BY <1>4, FlowStays DEF Handler, DeliverSignal, Reap, storing, clients
  <1>5. CASE Storer
    <2>1. CASE ReadOpen
      BY <2>1, WordRead DEF ReadOpen, Read, clients
    <2>2. CASE ReadQuit
      BY <2>2, WordRead DEF ReadQuit, IsEnd, Read, clients
    <2>3. CASE ReadText
      BY <2>3, TextsStored DEF ReadText, Read, clients
    <2>4. CASE ReadLimited
      BY <2>4, TextsStored DEF ReadLimited, Read, clients
    <2> QED
      BY <1>5, <2>1, <2>2, <2>3, <2>4, ReadOtherKeeps DEF Storer
  <1>6. CASE UNCHANGED vars
    BY <1>6, FlowStays DEF vars, clients, storing
  <1> QED
    BY <1>1, <1>2, <1>3, <1>4, <1>5, <1>6 DEF Next

-----------------------------------------------------------------------------
(* The sockets. *)

LEMMA InitSockets == Init => SocketsInv /\ LostOfHasty
  BY BoundsAssumption DEF Init, SocketsInv, LostOfHasty

LEMMA SocketsStay ==
    ASSUME SocketsInv, UNCHANGED <<left, inbox, sockets>>
    PROVE  SocketsInv'
  BY DEF SocketsInv, sockets

(* A child reads and its socket is written to. *)
LEMMA ChildKeepsSockets ==
    ASSUME FlowInv, SocketsInv, NEW c \in Clients, Echo(c) \/ EchoKills(c)
    PROVE  SocketsInv'
  <1>0. inbox \in [Clients -> Seq(Texts)] /\ SockCap \in Nat
    BY BoundsAssumption DEF FlowInv, FlowTypes
  <1>1. PICK n \in 1..Len(inbox[c]) : inbox' = [inbox EXCEPT ![c] = SubSeq(@, n + 1, Len(@))]
    BY DEF Echo, EchoKills, Taken
  <1>2. inbox[c] # << >> /\ \A d \in Clients : inbox'[d] # << >> => inbox[d] # << >>
    BY <1>0, <1>1
  <1>3. UNCHANGED <<left, hasty>>
    BY DEF Echo, EchoKills
  <1>4. unread' \in [Clients -> 0..SockCap]
    BY <1>0 DEF Echo, EchoKills, SocketsInv, Full
  <1>5. /\ err' \in [Clients -> {"none", "reset", "pipe"}]
        /\ \A d \in Clients : err'[d] # "none" => d \in left
    BY DEF Echo, EchoKills, SocketsInv
  <1> QED
    BY <1>2, <1>3, <1>4, <1>5 DEF SocketsInv

LEMMA ClientKeepsSockets ==
    ASSUME FlowInv, SocketsInv, NEW c \in Clients, Client(c)
    PROVE  SocketsInv'
  <1>0. inbox \in [Clients -> Seq(Texts)] /\ SockCap \in Nat
    BY BoundsAssumption DEF FlowInv, FlowTypes
  <1>1. CASE Connect(c)
    BY <1>1, SocketsStay DEF Connect
  <1>2. CASE Send(c)
    <2>1. c \notin left /\ UNCHANGED <<left, sockets>> /\ \A d \in Clients \ {c} : inbox'[d] = inbox[d]
      BY <1>0, <1>2 DEF Send
    <2> QED
      BY <2>1 DEF SocketsInv, sockets
  <1>3. CASE Hear(c)
    <2>1. unread' \in [Clients -> 0..SockCap]
      BY <1>0, <1>3 DEF Hear, SocketsInv
    <2> QED
      BY <1>3, <2>1 DEF Hear, SocketsInv, clients
  <1>4. CASE Leave(c)
    <2>1. unread' \in [Clients -> 0..SockCap]
      BY <1>0, <1>4 DEF Leave, SocketsInv
    <2>2. /\ err' \in [Clients -> {"none", "reset", "pipe"}]
          /\ \A d \in Clients : err'[d] # "none" => d \in left'
      BY <1>4 DEF Leave, SocketsInv
    <2>3. hasty' \subseteq left' /\ left' \subseteq Clients
      BY <1>4 DEF Leave, SocketsInv
    <2>4. \A d \in left' : inbox'[d] # << >> => d \in hasty'
      BY <1>4 DEF Leave, SocketsInv
    <2> QED
      BY <2>1, <2>2, <2>3, <2>4 DEF SocketsInv
  <1> QED
    BY <1>1, <1>2, <1>3, <1>4 DEF Client

LEMMA SocketsKeep ==
    ASSUME FlowInv, SocketsInv, [Next]_vars
    PROVE  SocketsInv'
  <1>1. CASE Parent
    BY <1>1, SocketsStay DEF Parent, Accept, Announce, Fork, ForkFails, CloseInParent, clients
  <1>2. ASSUME NEW c \in Clients, Child(c) PROVE SocketsInv'
    <2>1. CASE PassOn(c) \/ SignOff(c)
      BY <2>1, SocketsStay DEF PassOn, SignOff, clients
    <2>2. CASE ReadFails(c) \/ ChildExits(c)
      <3>1. /\ err' \in [Clients -> {"none", "reset", "pipe"}]
            /\ \A d \in Clients : err'[d] # "none" => d \in left
        BY <2>2 DEF ReadFails, ChildExits, SocketsInv
      <3>2. UNCHANGED <<left, inbox, unread, hasty>>
        BY <2>2 DEF ReadFails, ChildExits, clients
      <3> QED
        BY <3>1, <3>2 DEF SocketsInv
    <2> QED
      BY <1>2, <2>1, <2>2, ChildKeepsSockets DEF Child
  <1>3. CASE Handler
    BY <1>3, SocketsStay DEF Handler, DeliverSignal, Reap, clients
  <1>4. CASE Storer
    BY <1>4, SocketsStay DEF Storer, ReadOpen, ReadOther, ReadQuit, ReadText, ReadLimited, clients
  <1>5. CASE UNCHANGED vars
    BY <1>5, SocketsStay DEF vars, clients
  <1> QED
    BY <1>1, <1>2, <1>3, <1>4, <1>5, ClientKeepsSockets DEF Next

(***************************************************************************)
(* SIGPIPE needs a second text after the client has left, and then the     *)
(* client has not waited for the echo of that text.                        *)
(***************************************************************************)
LEMMA HastyKeep ==
    ASSUME FlowInv, SocketsInv, LostOfHasty, [Next]_vars
    PROVE  LostOfHasty'
  <1>0. /\ lost \subseteq Sent /\ sender \in Seq(Clients)
        /\ \A d \in Clients : \A t \in InFlight[d] : sender[t] = d
    BY DEF FlowInv, FlowTypes, Known
  <1>1. ASSUME UNCHANGED <<sender, lost>>, hasty \subseteq hasty' PROVE LostOfHasty'
    BY <1>1 DEF LostOfHasty
  <1>2. ASSUME NEW c \in Clients, Client(c) PROVE LostOfHasty'
    <2>1. CASE Connect(c) \/ Hear(c) \/ Leave(c)
      BY <1>1, <2>1 DEF Connect, Hear, Leave, clients, sockets, storing
    <2>2. CASE Send(c)
      <3>1. sender' = Append(sender, c) /\ UNCHANGED <<lost, hasty>>
        BY <2>2 DEF Send, storing, sockets
      <3>2. \A t \in Sent : sender'[t] = sender[t]
        BY <1>0, <3>1 DEF Sent
      <3> QED
        BY <1>0, <3>1, <3>2 DEF LostOfHasty
    <2> QED
      BY <1>2, <2>1, <2>2 DEF Client
  <1>3. CASE Parent
    BY <1>1, <1>3 DEF Parent, Accept, Announce, Fork, ForkFails, CloseInParent, clients, sockets, storing
  <1>4. ASSUME NEW c \in Clients, Child(c) PROVE LostOfHasty'
    <2>1. CASE EchoKills(c)
      <3>1. PICK n \in 1..Len(inbox[c]) :
                  lost' = IF program.stores THEN lost \cup ToSet(SubSeq(inbox[c], 1, n)) ELSE lost
        BY <2>1 DEF EchoKills
      <3>2. inbox[c] \in Seq(Texts) /\ inbox[c] # << >>
        BY <3>1 DEF FlowInv, FlowTypes
      <3>3. ToSet(SubSeq(inbox[c], 1, n)) \subseteq InFlight[c]
        BY <3>2, Cut DEF InFlight
      <3>4. c \in hasty
        BY <2>1, <3>2 DEF EchoKills, SocketsInv
      <3>5. UNCHANGED <<sender, hasty>>
        BY <2>1 DEF EchoKills
      <3> QED
        BY <1>0, <3>1, <3>3, <3>4, <3>5 DEF LostOfHasty
    <2>2. CASE Echo(c) \/ ReadFails(c) \/ PassOn(c) \/ SignOff(c) \/ ChildExits(c)
      BY <1>1, <2>2 DEF Echo, ReadFails, PassOn, SignOff, ChildExits, clients, sockets, storing
    <2> QED
      BY <1>4, <2>1, <2>2 DEF Child
  <1>5. CASE Handler
    BY <1>1, <1>5 DEF Handler, DeliverSignal, Reap, clients, sockets, storing
  <1>6. CASE Storer
    BY <1>1, <1>6 DEF Storer, ReadOpen, ReadOther, ReadQuit, ReadText, ReadLimited, clients, sockets
  <1>7. CASE UNCHANGED vars
    BY <1>1, <1>7 DEF vars, clients, sockets, storing
  <1> QED
    BY <1>2, <1>3, <1>4, <1>5, <1>6, <1>7 DEF Next

-----------------------------------------------------------------------------
(* What the invariants say of the property. *)

LEMMA TypesHold ==
    ASSUME IndInv, FlowInv, SocketsInv, StorerInv
    PROVE  TypeOK
  <1>1. refs \in [Clients -> 0..2]
    <2>1. \A c \in Clients : Holders(c) \in 0..2
      BY DEF Holders
    <2> QED
      BY <2>1 DEF IndInv, Types, CopiesCounted
  <1>2. merged \in 0..Cardinality(Children)
    <2>1. IsFiniteSet(Children) /\ Zombies \subseteq Children
      BY ClientsAssumption, FS_AddElement DEF Children, Zombies
    <2>2. /\ Cardinality(Zombies) <= Cardinality(Children)
          /\ Cardinality(Zombies) \in Nat /\ Cardinality(Children) \in Nat
      BY <2>1, ZombiesFinite, FS_Subset, FS_CardinalityType
    <2>3. merged \in Nat /\ merged <= Cardinality(Zombies)
      BY <2>2 DEF IndInv, Types, ZombiesAreOfMergedSignals
    <2> QED
      BY <2>2, <2>3
  <1> QED
    BY <1>1, <1>2 DEF IndInv, Types, FlowInv, FlowTypes, SocketsInv, StorerInv, TypeOK

(* One of five is one. *)
LEMMA OneOfFive ==
    ASSUME NEW p, NEW k \in 1..5, p[k], \A i \in 1..5 : p[i] => i = k
    PROVE  Cardinality({i \in 1..5 : p[i]}) = 1
  <1>1. {i \in 1..5 : p[i]} = {k}
    OBVIOUS
  <1> QED
    BY <1>1, FS_Singleton

(* A text is before or behind another of its client, so it is not in two places. *)
LEMMA OnePlace ==
    ASSUME FlowInv, program.stores, NEW t \in Sent
    PROVE  Cardinality({k \in 1..5 : Places(t)[k]}) = 1
  <1>0. t \in Texts /\ ~(t < t)
    BY BoundsAssumption DEF FlowInv, FlowTypes, Sent, Texts
  <1> DEFINE Held == \E c \in Clients : t \in InFlight[c]
             p == Places(t)
  <1>1. /\ p[1] <=> Held
        /\ p[2] <=> t \in ToSet(pipe)
        /\ p[3] <=> t \in ToSet(stored)
        /\ p[4] <=> t \in dropped
        /\ p[5] <=> t \in lost
    BY DEF Places, InFlight
  <1>2. Held \/ t \in ToSet(pipe) \/ t \in ToSet(stored) \/ t \in dropped \/ t \in lost
    BY DEF FlowInv, Known, Gone
  <1>3. /\ Held => t \notin ToSet(pipe) /\ t \notin Gone
        /\ t \in ToSet(pipe) => t \notin Gone
        /\ t \in ToSet(stored) => t \notin dropped
    BY <1>0 DEF FlowInv, InOrder, Precedes
  <1>3a. t \in lost => ~Held /\ t \notin ToSet(pipe) /\ t \notin Gone
    BY DEF FlowInv, LostApart
  <1>4. /\ Held => t \notin ToSet(pipe) /\ t \notin ToSet(stored) /\ t \notin dropped
        /\ t \in ToSet(pipe) => t \notin ToSet(stored) /\ t \notin dropped
        /\ t \in ToSet(stored) => t \notin dropped
        /\ t \in lost => /\ ~Held /\ t \notin ToSet(pipe)
                         /\ t \notin ToSet(stored) /\ t \notin dropped
    BY <1>3, <1>3a DEF Gone
  <1> HIDE DEF p, Held
  <1>5. \E k \in 1..5 : p[k] /\ \A i \in 1..5 : p[i] => i = k
    <2>1. 1..5 = {1, 2, 3, 4, 5}
      OBVIOUS
    <2>2. CASE Held
      BY <1>1, <1>4, <2>1, <2>2
    <2>3. CASE t \in ToSet(pipe)
      BY <1>1, <1>4, <2>1, <2>3
    <2>4. CASE t \in ToSet(stored)
      BY <1>1, <1>4, <2>1, <2>4
    <2>5. CASE t \in dropped
      BY <1>1, <1>4, <2>1, <2>5
    <2>6. CASE t \in lost
      BY <1>1, <1>4, <2>1, <2>6
    <2> QED
      BY <1>2, <2>2, <2>3, <2>4, <2>5, <2>6
  <1>6. Cardinality({k \in 1..5 : p[k]}) = 1
    BY <1>5, OneOfFive
  <1> QED
    BY <1>6 DEF p

LEMMA Conserved ==
    ASSUME IndInv, FlowInv, SocketsInv, LostOfHasty, StorerInv
    PROVE  TextsConserved
  <1>1. TypeOK
    BY TypesHold
  <1>2. program.stores => \A t \in Sent : Cardinality({k \in 1..5 : Places(t)[k]}) = 1
    BY OnePlace
  <1>3. ASSUME NEW j \in 1..Len(stored), NEW k \in 1..Len(stored), j < k
        PROVE  stored[j] < stored[k] \/ sender[stored[j]] # sender[stored[k]]
    BY <1>3 DEF FlowInv, FlowTypes, InOrder, Sorted
  <1> QED
    BY <1>1, <1>2, <1>3 DEF TextsConserved, LostOfHasty, Sent

(***************************************************************************)
(* For any number of clients and texts, any size of the pipe and of the    *)
(* sockets and any number of reads: whatever one read() of the storing     *)
(* process returns and whenever SIGPIPE ends a child, a text is with its   *)
(* child, in the pipe, stored, thrown away, or lost with the child, in one *)
(* of these places only; lost are texts of clients that left before they   *)
(* had their echoes, and the file has the texts of a client in order.      *)
(***************************************************************************)
THEOREM NoTextLostOrDoubled == Spec => []TextsConserved
  <1> DEFINE Inv == IndInv /\ FlowInv /\ SocketsInv /\ LostOfHasty /\ StorerInv
  <1>1. Init => Inv
    BY InitIndInv, InitFlow, InitSockets
  <1>2. Inv /\ [Next]_vars => Inv'
    BY NextKeeps, FlowKeeps, SocketsKeep, HastyKeep, StorerKeeps
  <1>3. Inv => TextsConserved
    BY Conserved
  <1> QED
    BY <1>1, <1>2, <1>3, PTL DEF Spec
=============================================================================
