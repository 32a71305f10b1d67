-------------------------- MODULE MCSessionBoundary -------------------------
(***************************************************************************)
(* One instance, one session, synchronised clocks: the smallest behaviours *)
(* in which a sign-out, a later request and the expiry meet.               *)
(***************************************************************************)
EXTENDS SessionRevocation

CONSTANTS i1, s1, r1, r2

MCInstances == {i1}
MCSessions == {s1}
MCRequests == {r1, r2}
=============================================================================
