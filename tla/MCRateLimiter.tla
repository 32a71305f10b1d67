---------------------------- MODULE MCRateLimiter ---------------------------
(***************************************************************************)
(* Three fingerprints over two networks, Maps for one key each, so that a  *)
(* device bucket is forgotten and found again; a clock that ticks once, is *)
(* set back once and set forward once, in any order.                       *)
(***************************************************************************)
EXTENDS RateLimiter, TLC

CONSTANTS a, b, c, m, n

MCDevices == {a, b, c}
MCNetworks == {m, n}
MCNetworkOf == (a :> m) @@ (b :> m) @@ (c :> n)
MCCapacity == [device |-> 3, network |-> 5]
MCRefill == [device |-> 2, network |-> 3]

\* Two of the fingerprints cover one network and are alike.
Symmetry == Permutations({a, b})
=============================================================================
