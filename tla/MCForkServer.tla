---------------------------- MODULE MCForkServer ----------------------------
(* Two clients and two texts, a pipe of two writes, a store of one read.     *)
EXTENDS ForkServer

CONSTANTS c1, c2
MCClients == {c1, c2}
=============================================================================
