-------------------------- MODULE MCMultiRpcClient --------------------------
(***************************************************************************)
(* Four routes of three operators, two values, every call and threshold.   *)
(***************************************************************************)
EXTENDS MultiRpcClient

CONSTANTS x, y

MCValues == {x, y}
MCProvider == <<"alpha", "alpha", "beta", "gamma">>
MCCalls ==
  [method : {"quorum", "broadcast"}, agreement : {Unset, 1, 2, 3, 5},
   providers : {Unset, 2}, commitment : {"confirmed"}]
  \cup [method : {"first", "health"}, agreement : {Unset}, providers : {Unset},
        commitment : {"confirmed"}]
  \cup [method : {"verify"}, agreement : {Unset}, providers : {Unset},
        commitment : Commitments]
=============================================================================
