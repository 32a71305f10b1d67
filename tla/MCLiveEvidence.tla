--------------------------- MODULE MCLiveEvidence ---------------------------
(***************************************************************************)
(* Two runs over two evidence paths, three routes of two operators, and    *)
(* one reader.                                                             *)
(***************************************************************************)
EXTENDS LiveEvidence, TLC

CONSTANTS a1, a2, b1, r1

MCRoutes == {a1, a2, b1}
MCOperator == (a1 :> "alpha") @@ (a2 :> "alpha") @@ (b1 :> "beta")
MCAttempts == <<2, 1>>
MCReaders == {r1}
=============================================================================
