--------------------------- MODULE MCSmallPrograms ---------------------------
(***************************************************************************)
(* An instance of SmallPrograms for TLC: two threads on each side of the   *)
(* queue.                                                                  *)
(***************************************************************************)
EXTENDS SmallPrograms

CONSTANTS p1, p2, c1, c2

MCProducers == {p1, p2}
MCConsumers == {c1, c2}
=============================================================================
