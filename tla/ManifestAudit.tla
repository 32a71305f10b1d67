---------------------------- MODULE ManifestAudit ---------------------------
(***************************************************************************)
(* Parsing a continuity manifest (src/core/manifest.ts) and auditing it    *)
(* (src/core/audit.ts), as pure operators.  What parseManifest returns has *)
(* the same keys as what it was given, so both are of one type: a raw      *)
(* manifest with every key filled in.                                      *)
(*                                                                         *)
(* The type checks of single fields are one bit, wellFormed: each of them  *)
(* adds an issue of its own and none takes one away.  A key is in keys     *)
(* when the file has it with a value that the parser uses.                 *)
(***************************************************************************)
EXTENDS Integers, Sequences, FiniteSets

CONSTANTS
  Operators,  \* providers and host names, in lower case
  Addresses   \* program addresses

Keys == {"platform", "environment", "targets", "programAddresses", "routes",
         "rpcEndpoints", "recoveryUrl", "selfHostingGuide",
         "minimumRouteAgreement", "minimumRpcAgreement", "commitment"}

\* A route without a provider goes by the host of its URL.
Route == [id : Nat, provider : Operators \cup {""}, host : Operators]
Target == [kind : {"program", "other"}, address : Addresses \cup {""}]

\* readable: name, kind and required are of the types the parser keeps.
Dependency == [readable : BOOLEAN, api : BOOLEAN, required : BOOLEAN,
               replaced : BOOLEAN, abandoned : BOOLEAN]

Manifest ==
  [wellFormed : BOOLEAN, keys : SUBSET Keys,
   platform : {"solana", "other"}, network : {"none", "blank", "named"},
   targets : SUBSET Target, programAddresses : SUBSET Addresses,
   routes : Seq(Route), rpcEndpoints : Seq(Route),
   minimumRouteAgreement : Nat, minimumRpcAgreement : Nat,
   dependencies : SUBSET Dependency, proprietary : BOOLEAN,
   publishEvidence : BOOLEAN]

-----------------------------------------------------------------------------
(* parseManifest.                                                          *)

\* The keys of the first, Solana-only, form of a manifest.
LegacyShape(m) ==
  m.network # "none" \/ {"programAddresses", "rpcEndpoints"} \cap m.keys # {}

Platform(m) == IF "platform" \in m.keys THEN m.platform
               ELSE IF LegacyShape(m) THEN "solana" ELSE ""

HasEnvironment(m) == "environment" \in m.keys \/ m.network = "named"

\* programAddresses, when there are any: an empty list says nothing.
Programs(m) == IF "programAddresses" \in m.keys THEN m.programAddresses ELSE {}

Targets(m) == IF "targets" \in m.keys THEN m.targets
              ELSE {[kind |-> "program", address |-> a] : a \in Programs(m)}

Routes(m) == IF "routes" \in m.keys THEN m.routes
             ELSE IF "rpcEndpoints" \in m.keys THEN m.rpcEndpoints ELSE <<>>

\* A number; one that is not an integer of at least 1 is 0 here.
Agreement(m) ==
  IF "minimumRouteAgreement" \in m.keys THEN m.minimumRouteAgreement
  ELSE IF "minimumRpcAgreement" \in m.keys THEN m.minimumRpcAgreement ELSE 0

Both(m, key, legacyKey) == key \in m.keys /\ legacyKey \in m.keys

\* Every issue but those of single fields.
Issues(m) ==
  {issue \in {"fields", "platform", "environment", "routes disagree", "no routes",
              "agreement", "agreements disagree", "commitment"} :
     CASE issue = "fields" -> ~m.wellFormed
       [] issue = "platform" -> Platform(m) = ""
       [] issue = "environment" -> ~HasEnvironment(m)
       [] issue = "routes disagree" ->
            Both(m, "routes", "rpcEndpoints") /\ m.routes # m.rpcEndpoints
       [] issue = "no routes" -> Routes(m) = <<>>
       [] issue = "agreement" -> Agreement(m) < 1
       [] issue = "agreements disagree" ->
            /\ Both(m, "minimumRouteAgreement", "minimumRpcAgreement")
            /\ m.minimumRouteAgreement # m.minimumRpcAgreement
       [] issue = "commitment" -> Platform(m) = "solana" /\ "commitment" \notin m.keys}

IsValid(m) == Issues(m) = {}

ProgramTargets(m) == {t \in Targets(m) : t.kind = "program" /\ t.address # ""}

\* What parseManifest returns for a manifest without issues.
Parsed(m) ==
  [m EXCEPT
     !.keys = @ \cup {"platform", "environment", "targets", "programAddresses",
                      "routes", "rpcEndpoints", "minimumRouteAgreement",
                      "minimumRpcAgreement"},
     !.platform = Platform(m),
     !.network = IF @ = "none" THEN "named" ELSE @,
     !.targets = Targets(m),
     !.programAddresses = IF Programs(m) # {} THEN Programs(m)
                          ELSE {t.address : t \in ProgramTargets(m)},
     !.routes = Routes(m),
     !.rpcEndpoints = Routes(m),
     !.minimumRouteAgreement = Agreement(m),
     !.minimumRpcAgreement = Agreement(m),
     !.dependencies = {d \in @ : d.readable}]

-----------------------------------------------------------------------------
(* auditManifest.                                                          *)

Operator(route) == IF route.provider = "" THEN route.host ELSE route.provider

\* Mutant: routes are counted instead of their operators.
OperatorsByRoute(routes) == {<<i, Operator(routes[i])>> : i \in 1..Len(routes)}

OperatorsOf(routes) == {Operator(routes[i]) : i \in 1..Len(routes)}

Required(p) == {d \in p.dependencies : d.required}
Irreplaceable(p) == {d \in Required(p) : ~d.replaced}
Abandoned(p) == {d \in Required(p) : d.abandoned}

Checks == {"route-count", "route-provider-concentration", "minimum-agreement",
           "impossible-agreement", "recovery-frontend", "self-hosting-guide",
           "license", "targets", "solana-program-targets",
           "irreplaceable-dependencies", "dependency-lifecycle",
           "evidence-publication"}

\* Whether a parsed manifest fails the check with an id.
Fails(p, id) ==
  CASE id = "route-count" -> Len(p.routes) < 3
    [] id = "route-provider-concentration" ->
         Cardinality(OperatorsOf(p.routes)) < 2
    [] id = "minimum-agreement" -> p.minimumRouteAgreement < 2
    [] id = "impossible-agreement" -> p.minimumRouteAgreement > Len(p.routes)
    [] id = "recovery-frontend" -> "recoveryUrl" \notin p.keys
    [] id = "self-hosting-guide" -> "selfHostingGuide" \notin p.keys
    [] id = "license" -> p.proprietary
    [] id = "targets" -> p.targets = {}
    [] id = "solana-program-targets" ->
         p.platform = "solana" /\ ProgramTargets(p) = {}
    [] id = "irreplaceable-dependencies" -> Irreplaceable(p) # {}
    [] id = "dependency-lifecycle" -> Abandoned(p) # {}
    [] id = "evidence-publication" -> ~p.publishEvidence

Severity(p, id) ==
  CASE id \in {"route-provider-concentration", "impossible-agreement"} -> "critical"
    [] id = "irreplaceable-dependencies" ->
         IF \E d \in Irreplaceable(p) : d.api THEN "critical" ELSE "high"
    [] id = "dependency-lifecycle" ->
         IF \E d \in Abandoned(p) : ~d.replaced THEN "critical" ELSE "high"
    [] id \in {"self-hosting-guide", "targets", "solana-program-targets"} -> "medium"
    [] id = "evidence-publication" -> "low"
    [] OTHER -> "high"

\* The checks failed with a severity.
Findings(p, severity) ==
  {id \in Checks : Fails(p, id) /\ Severity(p, id) = severity}

Penalty(p) == 30 * Cardinality(Findings(p, "critical"))
                + 20 * Cardinality(Findings(p, "high"))
                + 10 * Cardinality(Findings(p, "medium"))
                + 5 * Cardinality(Findings(p, "low"))

Score(p) == IF Penalty(p) > 100 THEN 0 ELSE 100 - Penalty(p)

\* auditConclusion of src/github-app/app.ts.
IsSound(p) == Findings(p, "critical") = {} /\ Findings(p, "high") = {}

-----------------------------------------------------------------------------
(* What a clean audit promises, read off the file as it was written: by    *)
(* whichever of its keys a reader goes.                                    *)

RouteLists(m) ==
  {list \in {m.routes, m.rpcEndpoints} :
     \/ "routes" \in m.keys /\ list = m.routes
     \/ "rpcEndpoints" \in m.keys /\ list = m.rpcEndpoints}

Thresholds(m) ==
  {t \in {m.minimumRouteAgreement, m.minimumRpcAgreement} :
     \/ "minimumRouteAgreement" \in m.keys /\ t = m.minimumRouteAgreement
     \/ "minimumRpcAgreement" \in m.keys /\ t = m.minimumRpcAgreement}

\* One of the routes may go, or all of one operator, and there is another; the
\* agreement asked for takes two and can be had.
Redundant(list, threshold) ==
  /\ Len(list) >= 3
  /\ \E i, j \in 1..Len(list) : Operator(list[i]) # Operator(list[j])
  /\ 2 <= threshold /\ threshold <= Len(list)

\* A required dependency that the parser keeps has a way out and is looked after.
Recoverable(m) ==
  /\ RouteLists(m) # {} /\ Thresholds(m) # {}
  /\ \A list \in RouteLists(m), t \in Thresholds(m) : Redundant(list, t)
  /\ "recoveryUrl" \in m.keys
  /\ ~m.proprietary
  /\ \A d \in m.dependencies :
       d.readable /\ d.required => d.replaced /\ ~d.abandoned
=============================================================================
