------------------------- MODULE MCSandboxShutdown -------------------------
(***************************************************************************)
(* Model-checking instance of SandboxShutdown.                             *)
(***************************************************************************)
EXTENDS SandboxShutdown
=============================================================================
