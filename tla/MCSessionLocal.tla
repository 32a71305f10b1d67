--------------------------- MODULE MCSessionLocal ---------------------------
(***************************************************************************)
(* The default deployment: one process, its own revocation map and a       *)
(* random cookie secret that a restart replaces.                           *)
(***************************************************************************)
EXTENDS SessionRevocation

CONSTANTS i1, s1, s2, r1, r2, r3

MCInstances == {i1}
MCSessions == {s1, s2}
MCRequests == {r1, r2, r3}
=============================================================================
