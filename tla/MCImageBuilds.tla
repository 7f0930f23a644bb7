---------------------------- MODULE MCImageBuilds ----------------------------
(* Finalizers as model values; liveness is checked with safety, so they    *)
(* are not taken as interchangeable.                                       *)
EXTENDS ImageBuilds

CONSTANTS w1, w2
=============================================================================
