--------------------------- MODULE MCSessionShared --------------------------
(***************************************************************************)
(* The supported deployment of several instances: one Redis store and one  *)
(* cookie secret.                                                          *)
(***************************************************************************)
EXTENDS SessionRevocation, TLC

CONSTANTS i1, i2, s1, r1, r2, r3

MCInstances == {i1, i2}
MCSessions == {s1}
MCRequests == {r1, r2, r3}
Symmetry == Permutations(MCInstances) \cup Permutations(MCRequests)
=============================================================================
