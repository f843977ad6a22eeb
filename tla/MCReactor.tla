----------------------------- MODULE MCReactor -----------------------------
(* Instances of Reactor for TLC. *)
EXTENDS Reactor, TLC
CONSTANTS c1, c2, c3, w1, w2, MCio
TwoConns   == {c1, c2}
ThreeConns == {c1, c2, c3}
TwoWorkers == {w1, w2}
OneWorker  == {w1}
MCSymmetry == Permutations(TwoConns) \cup Permutations(TwoWorkers)
MCSymmetry3 == Permutations(ThreeConns) \cup Permutations(TwoWorkers)
=============================================================================
