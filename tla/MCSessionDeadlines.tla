------------------------- MODULE MCSessionDeadlines -------------------------
(* Two interchangeable sessions. *)
EXTENDS SessionDeadlines, TLC

CONSTANTS s1, s2

TwoSessions == {s1, s2}
Peers == Permutations(Sessions)
=============================================================================
