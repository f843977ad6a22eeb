---------------------------- MODULE MCEventServer ----------------------------
(* Two clients that send three messages in all. *)
EXTENDS EventServer

CONSTANTS c1, c2
MCClients == {c1, c2}
=============================================================================
