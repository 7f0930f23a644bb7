--------------------------- MODULE MCSessionQueue ---------------------------
(* Instances of SessionQueue for TLC. *)
EXTENDS SessionQueue, TLC

CONSTANTS w1, w2

TwoWorkers == {w1, w2}
Handlers == Permutations(TwoWorkers)
=============================================================================
