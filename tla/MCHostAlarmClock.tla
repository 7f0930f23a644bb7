-------------------------- MODULE MCHostAlarmClock --------------------------
(* Sessions as model values; liveness is checked with safety, so none are  *)
(* taken as interchangeable.                                               *)
EXTENDS HostAlarmClock

CONSTANTS s1, s2, s3
=============================================================================
