--------------------------- MODULE MCWebhookChecks --------------------------
(***************************************************************************)
(* The processing of deliveries: every combination of files at two         *)
(* manifest paths, events that are not for the App, and, at the first or   *)
(* only path with a file, manifests that differ from a sound one in one or *)
(* two respects.                                                           *)
(***************************************************************************)
EXTENDS GitHubWebhook, TLC

CONSTANTS d1, d2, h1, h2

MCDeliveries == {d1, d2}
MCRequests == {h1, h2}
MCOperators == {"alpha", "beta"}
MCAddresses == {"program"}

RouteOf(n, provider, host) == [id |-> n, provider |-> provider, host |-> host]
DependencyOf(api, required, replaced, abandoned) ==
  [readable |-> TRUE, api |-> api, required |-> required, replaced |-> replaced,
   abandoned |-> abandoned]

ThreeRoutes == <<RouteOf(1, "alpha", "beta"), RouteOf(2, "", "beta"),
                 RouteOf(3, "alpha", "alpha")>>
OneOperator == <<RouteOf(1, "alpha", "beta"), RouteOf(2, "", "alpha"),
                 RouteOf(3, "alpha", "alpha")>>

\* A manifest in the present form with nothing to find, and one in the form
\* that was only for Solana.
Modern ==
  [wellFormed |-> TRUE,
   keys |-> {"platform", "environment", "targets", "routes", "recoveryUrl",
             "selfHostingGuide", "minimumRouteAgreement", "commitment"},
   platform |-> "solana", network |-> "none",
   targets |-> {[kind |-> "program", address |-> "program"]},
   programAddresses |-> {}, routes |-> ThreeRoutes, rpcEndpoints |-> <<>>,
   minimumRouteAgreement |-> 2, minimumRpcAgreement |-> 0,
   dependencies |-> {}, proprietary |-> FALSE, publishEvidence |-> TRUE]
Legacy ==
  [Modern EXCEPT !.keys = {"programAddresses", "rpcEndpoints", "recoveryUrl",
                           "selfHostingGuide", "minimumRpcAgreement", "commitment"},
                 !.network = "named", !.programAddresses = {"program"},
                 !.targets = {}, !.routes = <<>>, !.rpcEndpoints = ThreeRoutes,
                 !.minimumRouteAgreement = 0, !.minimumRpcAgreement = 2]

\* The respects in which a manifest may differ from these: a key that is missing,
\* or values given to some of the fields, and dependencies that are added.
Missing(key) == [drop |-> {key}, put |-> <<>>]
Put(field, value) == [drop |-> {}, put |-> field :> value]
Uses(dependency) == Put("dependencies", {dependency})

Changes ==
  <<Missing("platform"), Missing("environment"), Missing("targets"),
    Missing("routes"), Missing("rpcEndpoints"), Missing("programAddresses"),
    Missing("recoveryUrl"), Missing("selfHostingGuide"), Missing("commitment"),
    Missing("minimumRouteAgreement"), Missing("minimumRpcAgreement"),
    Put("routes", ThreeRoutes), Put("routes", OneOperator),
    Put("routes", SubSeq(ThreeRoutes, 1, 2)), Put("routes", <<>>),
    Put("rpcEndpoints", ThreeRoutes),
    Put("minimumRouteAgreement", 0), Put("minimumRouteAgreement", 1),
    Put("minimumRouteAgreement", 2), Put("minimumRouteAgreement", 3),
    Put("minimumRouteAgreement", 4), Put("minimumRpcAgreement", 2),
    Put("targets", {}), Put("targets", {[kind |-> "other", address |-> "program"]}),
    Put("platform", "other"), Put("network", "blank"), Put("wellFormed", FALSE),
    Put("proprietary", TRUE), Put("publishEvidence", FALSE),
    Uses(DependencyOf(TRUE, TRUE, TRUE, FALSE)),
    Uses(DependencyOf(TRUE, TRUE, FALSE, FALSE)),
    Uses(DependencyOf(FALSE, TRUE, FALSE, FALSE)),
    Uses(DependencyOf(FALSE, TRUE, TRUE, TRUE)),
    Uses(DependencyOf(FALSE, FALSE, FALSE, TRUE)),
    Uses([DependencyOf(TRUE, TRUE, FALSE, TRUE) EXCEPT !.readable = FALSE])>>

Changed(m, change) ==
  [change.put @@ m EXCEPT
     !.keys = (@ \ change.drop) \cup (DOMAIN change.put \cap Keys),
     !.dependencies = @ \cup m.dependencies]

\* Number 0 changes nothing.
By(m, i) == IF i = 0 THEN m ELSE Changed(m, Changes[i])

\* Modern and Legacy, each with any two of the changes, in a row.
Choices == Len(Changes) + 1
NumberOf(base, i, j) == base * Choices * Choices + i * Choices + j + 1
MCManifests ==
  [n \in 1..(2 * Choices * Choices) |->
     LET i == ((n - 1) \div Choices) % Choices
         j == (n - 1) % Choices
         base == IF n <= Choices * Choices THEN Modern ELSE Legacy
     IN  By(By(base, i), j)]

\* Files of which the contents do not matter, and the payloads made of them.
None == [text |-> "absent", nth |-> 0]
FileOf(n) == [text |-> "manifest", nth |-> n]
Sound == FileOf(NumberOf(0, 0, 0))
Closed == FileOf(NumberOf(0, 0, 28))
Plain == {Sound, Closed} \cup [text : {"absent", "unreadable", "not JSON"}, nth : {0}]
About(files) == [event |-> "supported", files |-> files]
NotForTheApp == {[event |-> event, files |-> <<Sound, Sound>>] :
                   event \in {"other", "malformed"}}

\* Two deliveries about plain files, or one about one manifest of the many: at
\* the first path when the number is even, at the second when it is odd.
MCWorlds ==
  LET ofPlain == {About(files) : files \in [1..2 -> Plain]} \cup NotForTheApp
      many == {NumberOf(base, i, j) : base \in {0, 1}, i, j \in 0..Len(Changes)}
      ofMany == {About(IF n % 2 = 0 THEN <<FileOf(n), None>> ELSE <<None, FileOf(n)>>) :
                   n \in many}
      ignored == [event |-> "other", files |-> <<Sound, Sound>>]
  IN  {d1 :> p @@ d2 :> q : p \in ofPlain, q \in NotForTheApp \cup {About(<<Sound, None>>)}}
        \cup {d1 :> p @@ d2 :> ignored : p \in ofMany}
=============================================================================
