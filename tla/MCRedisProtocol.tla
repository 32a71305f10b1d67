--------------------------- MODULE MCRedisProtocol --------------------------
(***************************************************************************)
(* Two calls on one digest, each to look it up or to enter it, over a      *)
(* server with and without a password.  Calls on different digests share   *)
(* neither a key nor a connection.                                         *)
(***************************************************************************)
EXTENDS RedisProtocol

CONSTANTS c1, c2, d1

MCCalls == {c1, c2}
MCDigests == {d1}
MCSetups == {[secured |-> FALSE, password |-> "none"]}
              \cup [secured : {TRUE}, password : {"none", "right", "wrong"}]
=============================================================================
