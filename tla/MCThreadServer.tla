---------------------------- MODULE MCThreadServer ----------------------------
(* Two clients send two messages; for the argument race one message is enough. *)
EXTENDS ThreadServer

CONSTANTS c1, c2
MCClients == {c1, c2}
=============================================================================
