--------------------------- MODULE MCAutomationRuns ---------------------------
(* A target and a tick as model values.                                    *)
EXTENDS AutomationRuns

CONSTANTS a1, t1
=============================================================================
