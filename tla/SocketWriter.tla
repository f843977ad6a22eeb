---------------------------- MODULE SocketWriter ----------------------------
(***************************************************************************)
(* How tcp/tcpCPP sends replies: TcpConnection::send() calls               *)
(* SocketIO::writen(), which writes until all bytes are in the kernel's    *)
(* send buffer or a write() fails.  The sockets of versions 2 to 5 do not  *)
(* block: when the buffer is full the rest of the reply is given up.       *)
(* Nobody looks at the result of writen().  The peer takes bytes from the  *)
(* buffer when it likes, or closes.                                        *)
(***************************************************************************)
EXTENDS Naturals, Sequences, SequencesExt, FiniteSetsExt

CONSTANTS
    Replies,    \* bound: how many replies are sent, 1 to Replies
    Size,       \* bytes of a reply; byte j of reply m is <<m, j>>
    Room        \* capacity of the send buffer

(* To be assumed where the constants get their values. *)
WriterAssumption == Replies \in Nat /\ Size \in Nat \ {0} /\ Room \in Nat \ {0}

VARIABLES
    blocking,   \* version 1
    buffer,     \* the send buffer
    received,   \* what the peer has taken from it
    peer,       \* "open", "closed", or "reset" (its RST has arrived)
    pc,         \* "idle", "writen", "killed"
    m,          \* the reply under way, or the last one
    done,       \* bytes of it written: count - nleft
    cut         \* history: replies that writen() has given up

vars == <<blocking, buffer, received, peer, pc, m, done, cut>>

Init ==
    /\ blocking \in BOOLEAN
    /\ buffer = << >>
    /\ received = << >>
    /\ peer = "open"
    /\ pc = "idle"
    /\ m = 0
    /\ done = 0
    /\ cut = {}

Send ==
    /\ pc = "idle"
    /\ m < Replies
    /\ m' = m + 1
    /\ done' = 0
    /\ pc' = "writen"
    /\ UNCHANGED <<blocking, buffer, received, peer, cut>>

(* Mutant of WriteSome: the pointer does not move on after a short write. *)
WriteSomeAgain ==
    /\ pc = "writen"
    /\ peer = "open"
    /\ \E k \in 1 .. Min({Size - done, Room - Len(buffer)}) :
          /\ buffer' = buffer \o [j \in 1 .. k |-> <<m, j>>]
          /\ done' = done + k
    /\ UNCHANGED <<blocking, received, peer, pc, m, cut>>

(* write() takes some bytes; pbuf and nleft move on by as many. *)
WriteSome ==
    /\ pc = "writen"
    /\ peer = "open"
    /\ \E k \in 1 .. Min({Size - done, Room - Len(buffer)}) :
          /\ buffer' = buffer \o [j \in 1 .. k |-> <<m, done + j>>]
          /\ done' = done + k
    /\ UNCHANGED <<blocking, received, peer, pc, m, cut>>

(* writen() returns. *)
Return(given) ==
    /\ pc' = "idle"
    /\ cut' = cut \cup given
    /\ UNCHANGED <<blocking, buffer, received, m, done>>

AllWritten ==
    /\ pc = "writen"
    /\ done = Size
    /\ Return({})
    /\ UNCHANGED peer

(* EAGAIN: not one byte fits. *)
WouldBlock ==
    /\ pc = "writen" /\ done < Size
    /\ peer = "open"
    /\ Len(buffer) = Room /\ ~blocking
    /\ Return({m})
    /\ UNCHANGED peer

(***************************************************************************)
(* The peer has closed: the bytes of a first write() are taken and thrown  *)
(* away, and its RST comes back.  After that a write() fails with          *)
(* ECONNRESET, once, or raises SIGPIPE, which ends the server.             *)
(***************************************************************************)
WriteToClosed ==
    /\ pc = "writen" /\ done < Size
    /\ peer = "closed"
    /\ \E k \in 1 .. Size - done : done' = done + k
    /\ peer' \in {"closed", "reset"}
    /\ UNCHANGED <<blocking, buffer, received, pc, m, cut>>

WriteFails ==
    /\ pc = "writen" /\ done < Size
    /\ peer = "reset"
    /\ \/ Return({m})
       \/ pc' = "killed" /\ UNCHANGED <<blocking, buffer, received, m, done, cut>>
    /\ UNCHANGED peer

PeerTakes ==
    /\ peer = "open"
    /\ \E k \in 1 .. Len(buffer) :
          /\ received' = received \o SubSeq(buffer, 1, k)
          /\ buffer' = SubSeq(buffer, k + 1, Len(buffer))
    /\ UNCHANGED <<blocking, peer, pc, m, done, cut>>

PeerCloses ==
    /\ peer = "open"
    /\ peer' = "closed"
    /\ UNCHANGED <<blocking, buffer, received, pc, m, done, cut>>

Next ==
    \/ Send \/ WriteSome \/ AllWritten \/ WouldBlock \/ WriteToClosed \/ WriteFails
    \/ PeerTakes \/ PeerCloses

-----------------------------------------------------------------------------
(* The value every variable may have. *)
TypeOK ==
    /\ blocking \in BOOLEAN
    /\ Len(buffer) <= Room
    /\ peer \in {"open", "closed", "reset"}
    /\ pc \in {"idle", "writen", "killed"}
    /\ m \in 0 .. Replies /\ done \in 0 .. Size
    /\ cut \subseteq 1 .. Replies

(***************************************************************************)
(* However a reply is split into writes: while the peer is there, what it  *)
(* gets is the replies in order, each byte once, each reply from its       *)
(* beginning; and each whole before the next begins, except those that     *)
(* writen() gave up, of which a beginning is in the stream for ever, and   *)
(* which a socket that blocks does not have.                               *)
(***************************************************************************)
RepliesInSequence ==
    LET stream == received \o buffer
        part(r) == Cardinality({i \in DOMAIN stream : stream[i][1] = r})
    IN  /\ TypeOK
        /\ stream = FlattenSeq([r \in 1 .. m |-> [j \in 1 .. part(r) |-> <<r, j>>]])
        /\ peer = "open" =>
              /\ \A r \in 1 .. m : part(r) < Size => r \in cut \/ (r = m /\ pc = "writen")
              /\ cut # {} => ~blocking
=============================================================================
