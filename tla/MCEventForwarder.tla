--------------------------- MODULE MCEventForwarder ---------------------------
(* The instance TLC checks: two critical events, two others and one that is   *)
(* not to be replayed, a buffer of two.                                       *)
EXTENDS EventForwarder
=============================================================================
