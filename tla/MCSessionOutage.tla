--------------------------- MODULE MCSessionOutage --------------------------
(***************************************************************************)
(* The Redis deployment with outages, restarts and every kind of request;  *)
(* two requests, two sessions.                                             *)
(***************************************************************************)
EXTENDS SessionRevocation

CONSTANTS i1, i2, s1, s2, r1, r2

MCInstances == {i1, i2}
MCSessions == {s1, s2}
MCRequests == {r1, r2}
=============================================================================
