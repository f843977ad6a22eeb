---------------------------- MODULE SocketReader ----------------------------
(***************************************************************************)
(* How tcp/tcpCPP/v5 cuts the byte stream of one connection into messages: *)
(* EpollPoller::handleMessage() asks isConnectionClosed() and then calls   *)
(* TcpConnection::receive(), which runs SocketIO::readline(): peek at what *)
(* has arrived, look for a newline, and read exactly up to it.  The socket *)
(* does not block, so a peek at an empty buffer fails with EAGAIN.  Bytes  *)
(* go on arriving, or the connection ends, between any two system calls.   *)
(* In v1 the same functions run on a socket that blocks, without epoll,    *)
(* until receive() returns nothing.                                        *)
(***************************************************************************)
EXTENDS Naturals, Sequences, SequencesExt

CONSTANTS
    Bytes,      \* what the peer sends
    Newline,    \* the one that ends a line
    MaxLen,     \* maxlen of readline(), 65536 in the code
    MaxBytes    \* bound: the bytes the peer sends

(* To be assumed where the constants get their values. *)
ReaderAssumption ==
    /\ Newline \in Bytes
    /\ MaxLen \in Nat \ {0, 1}
    /\ MaxBytes \in Nat

VARIABLES
    blocking,   \* version 1
    sent,       \* all bytes the peer has sent
    arrived,    \* of these, the ones still in the receive buffer
    peer,       \* "open", "eof" or "reset"
    pc,         \* where the IO thread is
    buf,        \* what readline() has copied to buf so far
    peeked,     \* the bytes of the last recv_peek(), behind buf
    want,       \* the count passed to readn()
    got,        \* what readn() has read of it
    messages,   \* what receive() has returned
    lost        \* bytes read and not returned

stream == <<blocking, sent, arrived, peer>>
call   == <<buf, peeked, want, got>>
vars   == <<stream, pc, call, messages, lost>>

Init ==
    /\ blocking \in BOOLEAN
    /\ sent = << >>
    /\ arrived = << >>
    /\ peer = "open"
    /\ pc = "wait"
    /\ buf = << >>
    /\ peeked = << >>
    /\ want = 0
    /\ got = 0
    /\ messages = << >>
    /\ lost = << >>

nleft == (MaxLen - 1) - Len(buf)

-----------------------------------------------------------------------------
(* The other end. *)

PeerSend(b) ==
    /\ peer = "open"
    /\ Len(sent) < MaxBytes
    /\ sent' = Append(sent, b)
    /\ arrived' = Append(arrived, b)
    /\ UNCHANGED <<blocking, peer, pc, call, messages, lost>>

PeerCloses ==
    /\ peer = "open"
    /\ peer' = "eof"
    /\ UNCHANGED <<blocking, sent, arrived, pc, call, messages, lost>>

(* A reset may take the unread bytes with it. *)
PeerResets ==
    /\ peer = "open"
    /\ peer' = "reset"
    /\ arrived' \in {arrived, << >>}
    /\ UNCHANGED <<blocking, sent, pc, call, messages, lost>>

-----------------------------------------------------------------------------
(* receive() returns message m, and the IO thread waits for EPOLLIN again. *)
(* Version 1 reads on, or ends when there is no message.                   *)
Return(m, dropped) ==
    /\ messages' = Append(messages, m)
    /\ lost' = lost \o dropped
    /\ buf' = << >>
    /\ peeked' = << >>
    /\ want' = 0
    /\ got' = 0
    /\ pc' = IF blocking /\ m = << >> THEN "closed" ELSE "wait"

(* Mutant of Closed: does not look for bytes before the end. *)
ClosedEarly ==
    /\ pc = "wait" /\ ~blocking
    /\ peer # "open"
    /\ pc' = "closed"
    /\ UNCHANGED <<stream, call, messages, lost>>

(* isConnectionClosed() finds an end of file or an error. *)
Closed ==
    /\ pc = "wait" /\ ~blocking
    /\ arrived = << >>
    /\ peer # "open"
    /\ pc' = "closed"
    /\ UNCHANGED <<stream, call, messages, lost>>

(* isConnectionClosed() finds bytes, and receive() enters readline(). *)
Receive ==
    /\ pc = "wait" /\ ~blocking
    /\ arrived # << >>
    /\ pc' = "peek"
    /\ UNCHANGED <<stream, call, messages, lost>>

(* The loop of version 1: receive() again. *)
ReceiveNext ==
    /\ pc = "wait" /\ blocking
    /\ pc' = "peek"
    /\ UNCHANGED <<stream, call, messages, lost>>

(* Mutant of Peek: the whole peek is read, past the newline. *)
PeekAll ==
    /\ pc = "peek"
    /\ arrived # << >>
    /\ LET n == IF Len(arrived) < nleft THEN Len(arrived) ELSE nleft
       IN  /\ peeked' = SubSeq(arrived, 1, n)
           /\ want' = n
    /\ got' = 0
    /\ pc' = "readn"
    /\ UNCHANGED <<stream, buf, messages, lost>>

(* recv_peek() returns n > 0 bytes; the first newline ends the line. *)
Peek ==
    /\ pc = "peek"
    /\ arrived # << >>
    /\ LET n  == IF Len(arrived) < nleft THEN Len(arrived) ELSE nleft
           nl == {i \in 1..n : arrived[i] = Newline}
       IN  /\ peeked' = SubSeq(arrived, 1, n)
           /\ want' = IF nl = {} THEN n ELSE CHOOSE i \in nl : \A j \in nl : i <= j
    /\ got' = 0
    /\ pc' = "readn"
    /\ UNCHANGED <<stream, buf, messages, lost>>

(* Mutant of PeekFails: the end of the file is an error like the others. *)
PeekFailsAlike ==
    /\ pc = "peek"
    /\ arrived = << >>
    /\ blocking => peer # "open"
    /\ Return(buf, buf)
    /\ UNCHANGED stream

(***************************************************************************)
(* recv_peek() returns 0 at the end of the file, -1 otherwise (EAGAIN or a *)
(* reset).  readline() passes that on: receive() answers 0 with an empty   *)
(* string, although buf may hold the start of a line, and -1 with buf.     *)
(***************************************************************************)
PeekFails ==
    /\ pc = "peek"
    /\ arrived = << >>
    /\ blocking => peer # "open"
    /\ IF peer = "eof" THEN Return(<< >>, buf) ELSE Return(buf, << >>)
    /\ UNCHANGED stream

(* One read() of readn(), which may return less than was asked for. *)
ReadSome ==
    /\ pc = "readn"
    /\ got < want
    /\ arrived # << >>
    /\ \E k \in 1..Len(arrived) :
        /\ k <= want - got
        /\ got' = got + k
        /\ arrived' = SubSeq(arrived, k + 1, Len(arrived))
    /\ UNCHANGED <<blocking, sent, peer, pc, buf, peeked, want, messages, lost>>

(***************************************************************************)
(* readn() returns; after an error its result is EXIT_FAILURE, which is    *)
(* also the count of one byte.  A full count is taken over into buf, and   *)
(* readline() returns when that was a line or filled the buffer; any other *)
(* count makes it return EXIT_FAILURE, and receive() what lies in buf,     *)
(* peeked bytes included.                                                  *)
(***************************************************************************)
ReadnReturns ==
    LET failed == got < want /\ arrived = << >>
        count  == IF failed THEN 1 ELSE got
        taken  == buf \o SubSeq(peeked, 1, want)
    IN  /\ pc = "readn"
        /\ got = want \/ failed
        /\ UNCHANGED stream
        /\ IF count # want THEN Return(buf \o peeked, << >>)
           ELSE IF Last(taken) = Newline \/ Len(taken) = MaxLen - 1
           THEN Return(taken, << >>)
           ELSE /\ buf' = taken
                /\ peeked' = << >>
                /\ want' = 0
                /\ got' = 0
                /\ pc' = "peek"
                /\ UNCHANGED <<messages, lost>>

-----------------------------------------------------------------------------
Peer == PeerCloses \/ PeerResets \/ \E b \in Bytes : PeerSend(b)

IOThread == Closed \/ Receive \/ ReceiveNext \/ Peek \/ PeekFails \/ ReadSome \/ ReadnReturns

Next == Peer \/ IOThread

(* The IO thread runs and epoll reports a readable socket again and again. *)
Spec == Init /\ [][Next]_vars /\ WF_vars(IOThread)

-----------------------------------------------------------------------------
(* The value every variable may have. *)
TypeOK ==
    /\ blocking \in BOOLEAN
    /\ sent \in Seq(Bytes) /\ arrived \in Seq(Bytes)
    /\ peer \in {"open", "eof", "reset"}
    /\ pc \in {"wait", "peek", "readn", "closed"}
    /\ buf \in Seq(Bytes) /\ peeked \in Seq(Bytes)
    /\ want \in 0..(MaxLen - 1) /\ got \in 0..want
    /\ messages \in Seq(Seq(Bytes))
    /\ lost \in Seq(Bytes)

(* The buffer of receive() keeps its terminating zero. *)
BufferRespected == Len(buf) + Len(peeked) <= MaxLen - 1

(***************************************************************************)
(* peek and read agree: whatever arrives in between, the bytes taken from  *)
(* the socket and given to the callers are the bytes sent, in order and    *)
(* each once.  Only the start of a line the peer never finished is lost.   *)
(* The variables also keep their types.                                    *)
(***************************************************************************)
StreamConserved ==
    /\ TypeOK
    /\ BufferRespected
    /\ IF peer = "reset"
         THEN IsPrefix(FlattenSeq(messages), sent)
         ELSE /\ sent = FlattenSeq(messages) \o lost \o buf \o SubSeq(peeked, 1, got) \o arrived
              /\ lost # << >> => peer = "eof"

(***************************************************************************)
(* readline() never returns more than one line, unless a reset came        *)
(* between its peek and its read.                                          *)
(***************************************************************************)
OneLineAtMost ==
    \A m \in Range(messages) : \A i \in 1..Len(m) :
        m[i] = Newline => i = Len(m) \/ peer = "reset"

(* A newline in the receive buffer is delivered without further input. *)
EverythingRead == \A n \in 1..MaxBytes : Len(sent) = n ~> arrived = << >>
=============================================================================
