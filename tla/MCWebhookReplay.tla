--------------------------- MODULE MCWebhookReplay --------------------------
(***************************************************************************)
(* The delivery cache: four deliveries sent again and again, over a cache  *)
(* that is to hold two.  What becomes of a delivery after it was taken up  *)
(* does not reach the cache, so these are events the App ignores.          *)
(***************************************************************************)
EXTENDS GitHubWebhook, TLC

CONSTANTS d1, d2, d3, d4, h1, h2, h3, h4, h5

MCDeliveries == {d1, d2, d3, d4}
MCRequests == {h1, h2, h3, h4, h5}
Absent == [text |-> "absent", nth |-> 0]
MCManifests == <<>>
MCWorlds == {[d \in MCDeliveries |-> [event |-> "other", files |-> <<Absent>>]]}
Symmetry == Permutations(MCDeliveries) \cup Permutations(MCRequests)
=============================================================================
