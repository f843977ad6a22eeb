------------------------------ MODULE MCSockets ------------------------------
(* An instance of Sockets for TLC: two clients, lines of two bytes. *)
EXTENDS Sockets

CONSTANTS c1, c2, x, enl

MCClients == {c1, c2}
MCBytes   == {x, enl}
=============================================================================
