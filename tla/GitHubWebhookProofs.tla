------------------------- MODULE GitHubWebhookProofs ------------------------
(***************************************************************************)
(* What parsing and auditing a manifest promise, proved for every manifest *)
(* of the type; that check runs tell the truth about the head they are     *)
(* attached to, and what the cache of deliveries holds, proved of          *)
(* GitHubWebhook for any deliveries, requests, manifests, paths, cache     *)
(* sizes and bounds.                                                       *)
(***************************************************************************)
EXTENDS GitHubWebhook, FiniteSetTheorems, WellFoundedInduction, TLAPS

-----------------------------------------------------------------------------
(* Parsing and auditing a manifest, as in ManifestAudit.                   *)

\* The operators of a list of routes are finitely many.
LEMMA OperatorsFinite ==
  ASSUME NEW list \in Seq(Route)
  PROVE  IsFiniteSet(OperatorsOf(list))
<1> DEFINE f == [i \in 1..Len(list) |-> Operator(list[i])]
<1>1. f \in Surjection(1..Len(list), OperatorsOf(list))
  BY DEF OperatorsOf, Surjection
<1>2. IsFiniteSet(1..Len(list))
  BY FS_Interval
<1> QED
  BY <1>1, <1>2, FS_Surjection DEF ExistsSurjection

\* A finite set has two members when its cardinality is not 0 or 1.
LEMMA TwoMembers ==
  ASSUME NEW S, IsFiniteSet(S)
  PROVE  Cardinality(S) < 2 <=> \A x, y \in S : x = y
<1>1. Cardinality(S) \in Nat
  BY FS_CardinalityType
<1>2. ASSUME Cardinality(S) < 2, NEW x \in S, NEW y \in S PROVE x = y
  <2>1. Cardinality(S) = 0 => S = {}
    BY FS_EmptySet
  <2>2. Cardinality(S) = 1 => \E z : S = {z}
    BY FS_Singleton
  <2> QED
    BY <1>1, <1>2, <2>1, <2>2
<1>3. ASSUME \A x, y \in S : x = y PROVE Cardinality(S) < 2
  <2>1. CASE S = {}
    BY <2>1, FS_EmptySet
  <2>2. CASE S # {}
    <3>1. PICK x \in S : TRUE
      BY <2>2
    <3>2. S = {x}
      BY <1>3, <3>1
    <3> QED
      BY <3>2, FS_Singleton
  <2> QED
    BY <2>1, <2>2
<1> QED
  BY <1>2, <1>3

\* The check of route-provider-concentration is passed by two routes of different
\* operators.
LEMMA TwoOperators ==
  ASSUME NEW list \in Seq(Route)
  PROVE  Cardinality(OperatorsOf(list)) < 2
           <=> ~\E i, j \in 1..Len(list) : Operator(list[i]) # Operator(list[j])
<1>1. IsFiniteSet(OperatorsOf(list))
  BY OperatorsFinite
<1>2. (\A x, y \in OperatorsOf(list) : x = y)
        <=> ~\E i, j \in 1..Len(list) : Operator(list[i]) # Operator(list[j])
  BY DEF OperatorsOf
<1> QED
  BY <1>1, <1>2, TwoMembers

-----------------------------------------------------------------------------
\* The checks that are critical or high when they fail.
Grave == {"route-count", "route-provider-concentration", "minimum-agreement",
          "impossible-agreement", "recovery-frontend", "license",
          "irreplaceable-dependencies", "dependency-lifecycle"}

LEMMA GraveSeverity ==
  ASSUME NEW p, NEW id \in Checks
  PROVE  Severity(p, id) \in {"critical", "high"} <=> id \in Grave
<1>1. CASE id \in Grave
  BY <1>1 DEF Grave, Severity
<1>2. CASE id \notin Grave
  <2>1. id \in {"self-hosting-guide", "targets", "solana-program-targets",
               "evidence-publication"}
    BY <1>2 DEF Grave, Checks
  <2> QED
    BY <2>1 DEF Grave, Severity
<1> QED
  BY <1>1, <1>2

LEMMA SoundPassesGrave ==
  ASSUME NEW p
  PROVE  IsSound(p) <=> \A id \in Grave : ~Fails(p, id)
<1>1. Grave \subseteq Checks
  BY DEF Grave, Checks
<1> QED
  BY <1>1, GraveSeverity DEF IsSound, Findings

\* What the parser makes of a manifest without issues: the routes and the
\* agreement are those of every key that gives them.
LEMMA ParsedAsWritten ==
  ASSUME NEW m \in Manifest, IsValid(m)
  PROVE  /\ RouteLists(m) = {Routes(m)} /\ Thresholds(m) = {Agreement(m)}
         /\ Routes(m) \in Seq(Route) /\ Routes(m) # <<>>
         /\ Agreement(m) \in Nat \ {0}
<1>1. /\ ~(Both(m, "routes", "rpcEndpoints") /\ m.routes # m.rpcEndpoints)
      /\ Routes(m) # <<>>
      /\ ~(Agreement(m) < 1)
      /\ ~(/\ Both(m, "minimumRouteAgreement", "minimumRpcAgreement")
           /\ m.minimumRouteAgreement # m.minimumRpcAgreement)
  <2> DEFINE Named == {"fields", "platform", "environment", "routes disagree",
                       "no routes", "agreement", "agreements disagree", "commitment"}
  <2>1. \A issue \in Named : issue \notin Issues(m)
    BY DEF IsValid
  <2>2. "routes disagree" \notin Issues(m) /\ "no routes" \notin Issues(m)
    BY <2>1
  <2>3. "agreement" \notin Issues(m) /\ "agreements disagree" \notin Issues(m)
    BY <2>1
  <2> QED
    BY <2>2, <2>3 DEF Issues
<1>2. /\ m.routes \in Seq(Route) /\ m.rpcEndpoints \in Seq(Route)
      /\ m.minimumRouteAgreement \in Nat /\ m.minimumRpcAgreement \in Nat
  BY DEF Manifest
<1>3. RouteLists(m) = {Routes(m)}
  BY <1>1 DEF RouteLists, Routes, Both
<1>4. Thresholds(m) = {Agreement(m)}
  BY <1>1 DEF Thresholds, Agreement, Both
<1>5. Agreement(m) \in Nat \ {0}
  BY <1>1, <1>2 DEF Agreement
<1>6. Routes(m) \in Seq(Route)
  BY <1>1, <1>2 DEF Routes
<1> QED
  BY <1>1, <1>3, <1>4, <1>5, <1>6

\* The fields of the parsed manifest that grave checks read.
LEMMA ParsedFields ==
  ASSUME NEW m \in Manifest
  PROVE  /\ Parsed(m).routes = Routes(m)
         /\ Parsed(m).minimumRouteAgreement = Agreement(m)
         /\ "recoveryUrl" \in Parsed(m).keys <=> "recoveryUrl" \in m.keys
         /\ Parsed(m).proprietary = m.proprietary
         /\ Parsed(m).dependencies = {d \in m.dependencies : d.readable}
  BY DEF Manifest, Parsed

\* A manifest without issues passes every critical and high check just when it
\* is recoverable as it was written, by whichever of its keys: neither the old
\* nor the new form of a manifest hides what the other would show
\* (parseManifest, auditManifest, auditConclusion).
THEOREM SoundMeansRecoverable ==
  ASSUME NEW m \in Manifest, IsValid(m)
  PROVE  IsSound(Parsed(m)) <=> Recoverable(m)
<1> DEFINE p == Parsed(m)
           list == Routes(m)
           threshold == Agreement(m)
<1>1. /\ RouteLists(m) = {list} /\ Thresholds(m) = {threshold}
      /\ list \in Seq(Route) /\ threshold \in Nat
  BY ParsedAsWritten
<1>2. /\ ~Fails(p, "route-count")
      /\ ~Fails(p, "route-provider-concentration")
      /\ ~Fails(p, "minimum-agreement")
      /\ ~Fails(p, "impossible-agreement")
      <=> Redundant(list, threshold)
  <2>1. Fails(p, "route-count") <=> Len(list) < 3
    BY ParsedFields DEF Fails
  <2>2. Fails(p, "route-provider-concentration")
          <=> ~\E i, j \in 1..Len(list) : Operator(list[i]) # Operator(list[j])
    BY <1>1, ParsedFields, TwoOperators DEF Fails
  <2>3. Fails(p, "minimum-agreement") <=> threshold < 2
    BY ParsedFields DEF Fails
  <2>4. Fails(p, "impossible-agreement") <=> threshold > Len(list)
    BY ParsedFields DEF Fails
  <2>5. Len(list) \in Nat
    BY <1>1
  <2> HIDE DEF p, list, threshold
  <2> QED
    BY <1>1, <2>1, <2>2, <2>3, <2>4, <2>5 DEF Redundant
<1>3. ~Fails(p, "recovery-frontend") <=> "recoveryUrl" \in m.keys
  BY ParsedFields DEF Fails
<1>4. ~Fails(p, "license") <=> ~m.proprietary
  BY ParsedFields DEF Fails
<1>5. ~Fails(p, "irreplaceable-dependencies") /\ ~Fails(p, "dependency-lifecycle")
      <=> \A d \in m.dependencies :
            d.readable /\ d.required => d.replaced /\ ~d.abandoned
  <2>1. /\ Fails(p, "irreplaceable-dependencies") <=> Irreplaceable(p) # {}
        /\ Fails(p, "dependency-lifecycle") <=> Abandoned(p) # {}
    BY DEF Fails
  <2>2. p.dependencies = {d \in m.dependencies : d.readable}
    BY ParsedFields
  <2> HIDE DEF p
  <2> QED
    BY <2>1, <2>2 DEF Irreplaceable, Abandoned, Required
<1>6. Recoverable(m) <=>
        /\ Redundant(list, threshold)
        /\ "recoveryUrl" \in m.keys
        /\ ~m.proprietary
        /\ \A d \in m.dependencies :
             d.readable /\ d.required => d.replaced /\ ~d.abandoned
  BY <1>1 DEF Recoverable
<1> HIDE DEF p, list, threshold
<1>7. IsSound(p) <=> \A id \in Grave : ~Fails(p, id)
  BY SoundPassesGrave
<1> QED
  BY <1>2, <1>3, <1>4, <1>5, <1>6, <1>7 DEF Grave, p

-----------------------------------------------------------------------------
\* What is parsed is a manifest that parses to itself: the console, the command
\* line and the App may hand on either form of a manifest.
THEOREM ParsedIsStable ==
  ASSUME NEW m \in Manifest, IsValid(m)
  PROVE  /\ Parsed(m) \in Manifest
         /\ IsValid(Parsed(m))
         /\ Parsed(Parsed(m)) = Parsed(m)
<1> DEFINE p == Parsed(m)
<1>1. /\ m.wellFormed /\ Platform(m) # "" /\ HasEnvironment(m)
      /\ ~(Platform(m) = "solana" /\ "commitment" \notin m.keys)
  <2>1. "fields" \notin Issues(m) /\ "platform" \notin Issues(m)
    BY DEF IsValid
  <2>2. "environment" \notin Issues(m) /\ "commitment" \notin Issues(m)
    BY DEF IsValid
  <2> QED
    BY <2>1, <2>2 DEF Issues
<1>2. /\ Platform(m) \in {"solana", "other"}
      /\ Targets(m) \in SUBSET Target
      /\ Programs(m) \in SUBSET Addresses
  <2>1. /\ m.platform \in {"solana", "other"} /\ m.targets \in SUBSET Target
        /\ m.programAddresses \in SUBSET Addresses
    BY DEF Manifest
  <2>2. Programs(m) \in SUBSET Addresses
    BY <2>1 DEF Programs
  <2>3. Targets(m) \in SUBSET Target
    <3>1. \A a \in Addresses : [kind |-> "program", address |-> a] \in Target
      BY DEF Target
    <3>2. CASE "targets" \in m.keys
      BY <2>1, <3>2 DEF Targets
    <3>3. CASE "targets" \notin m.keys
      <4>1. Targets(m) = {[kind |-> "program", address |-> a] : a \in Programs(m)}
        BY <3>3 DEF Targets
      <4> QED
        BY <2>2, <3>1, <4>1
    <3> QED
      BY <3>2, <3>3
  <2> QED
    BY <1>1, <2>1, <2>2, <2>3 DEF Platform
<1>3. /\ Routes(m) \in Seq(Route) /\ Routes(m) # <<>>
      /\ Agreement(m) \in Nat \ {0}
  BY ParsedAsWritten
<1>4. \A t \in ProgramTargets(m) : t.address \in Addresses
  BY <1>2 DEF ProgramTargets, Target
<1>5. /\ p.wellFormed = m.wellFormed
      /\ p.keys = m.keys \cup {"platform", "environment", "targets",
                  "programAddresses", "routes", "rpcEndpoints",
                  "minimumRouteAgreement", "minimumRpcAgreement"}
      /\ p.platform = Platform(m)
      /\ p.network = IF m.network = "none" THEN "named" ELSE m.network
      /\ p.targets = Targets(m)
      /\ p.programAddresses = IF Programs(m) # {} THEN Programs(m)
                              ELSE {t.address : t \in ProgramTargets(m)}
      /\ p.routes = Routes(m) /\ p.rpcEndpoints = Routes(m)
      /\ p.minimumRouteAgreement = Agreement(m)
      /\ p.minimumRpcAgreement = Agreement(m)
      /\ p.dependencies = {d \in m.dependencies : d.readable}
      /\ p.proprietary = m.proprietary /\ p.publishEvidence = m.publishEvidence
  BY DEF Manifest, Parsed
<1>6. p \in Manifest
  <2>1. /\ m.keys \in SUBSET Keys /\ m.network \in {"none", "blank", "named"}
        /\ m.dependencies \in SUBSET Dependency
        /\ m.wellFormed \in BOOLEAN /\ m.proprietary \in BOOLEAN
        /\ m.publishEvidence \in BOOLEAN
    BY DEF Manifest
  <2>2. p.keys \in SUBSET Keys
    BY <1>5, <2>1 DEF Keys
  <2>3. p.programAddresses \in SUBSET Addresses
    BY <1>2, <1>4, <1>5
  <2>4. DOMAIN p = DOMAIN m /\ p = [x \in DOMAIN p |-> p[x]]
    <3>1. DOMAIN p = DOMAIN m
      BY DEF Parsed
    <3>2. p = [x \in DOMAIN p |-> p[x]]
      BY ZenonT(60) DEF Parsed
    <3> QED
      BY ONLY <3>1, <3>2
  <2> QED
    BY <1>2, <1>3, <1>5, <2>1, <2>2, <2>3, <2>4 DEF Manifest
<1> HIDE DEF p
<1>7. /\ Platform(p) = p.platform /\ HasEnvironment(p)
      /\ Targets(p) = p.targets /\ Programs(p) = p.programAddresses
      /\ Routes(p) = p.routes /\ Agreement(p) = p.minimumRouteAgreement
  BY <1>5 DEF Platform, HasEnvironment, Targets, Programs, Routes, Agreement
<1>8. IsValid(p)
  <2>1. /\ Routes(p) # <<>> /\ ~(Agreement(p) < 1)
        /\ p.routes = p.rpcEndpoints
        /\ p.minimumRouteAgreement = p.minimumRpcAgreement
    BY <1>3, <1>5, <1>7
  <2>2. ~(Platform(p) = "solana" /\ "commitment" \notin p.keys)
    BY <1>1, <1>5, <1>7
  <2>3. p.wellFormed /\ Platform(p) # "" /\ HasEnvironment(p)
    BY <1>1, <1>5, <1>7
  <2> QED
    BY <2>1, <2>2, <2>3 DEF IsValid, Issues
<1>9. Parsed(p) = p
  <2>1. ProgramTargets(p) = ProgramTargets(m)
    BY <1>5, <1>7 DEF ProgramTargets
  <2>2. p.programAddresses = IF Programs(p) # {} THEN Programs(p)
                             ELSE {t.address : t \in ProgramTargets(p)}
    BY <1>5, <1>7, <2>1
  <2>3. p.keys \cup {"platform", "environment", "targets", "programAddresses",
                     "routes", "rpcEndpoints", "minimumRouteAgreement",
                     "minimumRpcAgreement"} = p.keys
    BY <1>5
  <2>4. p.dependencies = {d \in p.dependencies : d.readable}
    BY <1>5
  <2>5. p.network = IF p.network = "none" THEN "named" ELSE p.network
    BY <1>5
  <2>6. p.rpcEndpoints = Routes(p) /\ p.minimumRpcAgreement = Agreement(p)
    BY <1>5, <1>7
  <2> QED
    BY <1>6, <1>7, <2>2, <2>3, <2>4, <2>5, <2>6, ZenonT(60) DEF Manifest, Parsed
<1> QED
  BY <1>6, <1>8, <1>9 DEF p

-----------------------------------------------------------------------------
LEMMA ThreeAtMost ==
  ASSUME NEW a, NEW b, NEW c, NEW S \in SUBSET {a, b, c}
  PROVE  IsFiniteSet(S) /\ Cardinality(S) \in 0..3
<1>1. IsFiniteSet({a}) /\ Cardinality({a}) = 1
  BY FS_Singleton
<1>2. IsFiniteSet({a, b}) /\ Cardinality({a, b}) \in 1..2
  <2>1. {a, b} = {a} \cup {b}
    OBVIOUS
  <2> QED
    BY <1>1, <2>1, FS_AddElement
<1>3. IsFiniteSet({a, b, c}) /\ Cardinality({a, b, c}) \in 1..3
  <2>1. {a, b, c} = {a, b} \cup {c}
    OBVIOUS
  <2> QED
    BY <1>2, <2>1, FS_AddElement
<1>4. IsFiniteSet(S) /\ Cardinality(S) <= Cardinality({a, b, c})
  BY <1>3, FS_Subset
<1> QED
  BY <1>3, <1>4, FS_CardinalityType

\* Findings of one severity are finitely many, and none only when the number is 0.
LEMMA FindingsCounted ==
  ASSUME NEW p, NEW severity
  PROVE  /\ Cardinality(Findings(p, severity)) \in Nat
         /\ Cardinality(Findings(p, severity)) = 0 <=> Findings(p, severity) = {}
<1>1. IsFiniteSet(Checks)
  <2> DEFINE f == <<"route-count", "route-provider-concentration",
                    "minimum-agreement", "impossible-agreement",
                    "recovery-frontend", "self-hosting-guide", "license", "targets",
                    "solana-program-targets", "irreplaceable-dependencies",
                    "dependency-lifecycle", "evidence-publication">>
  <2>1. f \in Surjection(1..12, Checks)
    BY DEF Surjection, Checks
  <2> HIDE DEF f
  <2>2. 1 \in Int /\ 12 \in Int
    OBVIOUS
  <2>3. IsFiniteSet(1..12)
    BY <2>2, FS_Interval
  <2> QED
    BY <2>1, <2>3, FS_Surjection
<1>2. Findings(p, severity) \subseteq Checks
  BY DEF Findings
<1> QED
  BY <1>1, <1>2, FS_Subset, FS_CardinalityType, FS_EmptySet

\* The score is out of 100, and 100 just when nothing is found.  It does not order
\* manifests by the verdict: one that fails the check of the App scores 80 at most,
\* one that passes scores 65 at least.
THEOREM ScoreTellsVerdict ==
  ASSUME NEW p
  PROVE  /\ Score(p) \in 0..100
         /\ Score(p) = 100 <=> \A id \in Checks : ~Fails(p, id)
         /\ IsSound(p) => Score(p) >= 65
         /\ ~IsSound(p) => Score(p) <= 80
<1> DEFINE critical == Cardinality(Findings(p, "critical"))
           high == Cardinality(Findings(p, "high"))
           medium == Cardinality(Findings(p, "medium"))
           low == Cardinality(Findings(p, "low"))
<1>1. /\ critical \in Nat /\ high \in Nat /\ medium \in Nat /\ low \in Nat
      /\ critical = 0 <=> Findings(p, "critical") = {}
      /\ high = 0 <=> Findings(p, "high") = {}
      /\ medium = 0 <=> Findings(p, "medium") = {}
      /\ low = 0 <=> Findings(p, "low") = {}
  BY FindingsCounted
<1>2. medium <= 3
  <2>1. Findings(p, "medium") \subseteq
          {"self-hosting-guide", "targets", "solana-program-targets"}
    BY SMTT(30) DEF Findings, Severity, Checks
  <2> QED
    BY <2>1, ThreeAtMost
<1>3. low <= 1
  <2>1. Findings(p, "low") \subseteq {"evidence-publication"}
    BY DEF Findings, Severity, Checks
  <2>2. Findings(p, "low") = {} \/ Findings(p, "low") = {"evidence-publication"}
    BY <2>1
  <2> QED
    BY <2>2, FS_EmptySet, FS_Singleton
<1>4. IsSound(p) <=> critical = 0 /\ high = 0
  BY <1>1 DEF IsSound
<1>5. (\A id \in Checks : ~Fails(p, id))
        <=> critical = 0 /\ high = 0 /\ medium = 0 /\ low = 0
  <2>1. \A id \in Checks : Severity(p, id) \in {"critical", "high", "medium", "low"}
    BY DEF Severity
  <2> QED
    BY <1>1, <2>1 DEF Findings
<1>6. Penalty(p) = 30 * critical + 20 * high + 10 * medium + 5 * low
  BY DEF Penalty
<1> HIDE DEF critical, high, medium, low
<1> QED
  BY <1>1, <1>2, <1>3, <1>4, <1>5, <1>6 DEF Score

-----------------------------------------------------------------------------
(* What the App says of the head.                                          *)

\* What a check run should say of a file.
Verdict(file) == IF file.text = "absent" THEN "neutral" ELSE Conclusion(file)

Searching == {"token", "reading"}

\* Handler h has a conclusion and a check run only after its search, which so far
\* has met only paths without a file.
SearchIsTrue(h) ==
  /\ handler[h].conclusion = "none" => check[h] = "none"
  /\ handler[h].step = "publishing" => check[h] = "none"
  /\ handler[h].step \in Searching \cup {"idle", "rejected", "duplicate", "ignored"}
       => handler[h].conclusion = "none"
  /\ handler[h].step \in Searching =>
       /\ payload[handler[h].delivery].event = "supported"
       /\ \A j \in 1..PathCount :
            j < handler[h].path => payload[handler[h].delivery].files[j].text = "absent"

\* Its conclusion is the verdict on the file that decides, and what it published is
\* its conclusion.
ConclusionIsTrue(h) ==
  /\ check[h] # "none" => check[h] = handler[h].conclusion
  /\ handler[h].step \in {"publishing", "created", "published"}
       => handler[h].conclusion # "none"
  /\ handler[h].step \in {"created", "published"} => check[h] = handler[h].conclusion
  /\ handler[h].conclusion # "none" =>
       LET d == handler[h].delivery
       IN  /\ payload[d].event = "supported"
           /\ FirstFile(d).text # "unreadable"
           /\ handler[h].conclusion = Verdict(FirstFile(d))

HandlerIsTrue(h) == SearchIsTrue(h) /\ ConclusionIsTrue(h)

TruthInv == TypeOK /\ \A h \in Requests : HandlerIsTrue(h)

-----------------------------------------------------------------------------
(* Types.                                                                  *)

Busy == [step : Running \cup Answers \cup {"lost"}, delivery : Deliveries,
         path : 1..PathCount, conclusion : Conclusions \cup {"none"}]

LEMMA HandlerTypes ==
  ASSUME TypeOK, NEW h \in Requests
  PROVE  /\ handler[h].step = "idle" => handler[h] = NoHandler
         /\ handler[h].step # "idle" => handler[h] \in Busy
<1>1. handler[h] = NoHandler \/ handler[h] \in Busy
  BY DEF TypeOK, Handlers, Busy
<1>2. NoHandler.step = "idle"
  BY DEF NoHandler
<1>3. \A x \in Busy : x.step # "idle"
  BY DEF Busy, Running, Answers
<1> QED
  BY <1>1, <1>2, <1>3

\* The handler of one request moves.
LEMMA Moves ==
  ASSUME TypeOK, NEW h \in Requests, NEW r \in Busy,
         handler' = [handler EXCEPT ![h] = r]
  PROVE  /\ handler' \in [Requests -> Handlers]
         /\ handler'[h] = r
         /\ \A g \in Requests : g # h => handler'[g] = handler[g]
<1>1. Busy \subseteq Handlers
  BY DEF Busy, Handlers
<1> QED
  BY <1>1 DEF TypeOK

LEMMA PayloadTypes ==
  ASSUME TypeOK, NEW d \in Deliveries, NEW k \in 1..PathCount
  PROVE  /\ payload[d].event \in {"supported", "other", "malformed"}
         /\ payload[d].files[k] \in File
         /\ payload[d].files[k].text \in {"absent", "unreadable", "not JSON", "manifest"}
<1>1. payload[d] \in Payload
  BY DEF TypeOK
<1>2. payload[d].files \in [1..PathCount -> File]
  BY <1>1 DEF Payload
<1>3. payload[d].files[k] \in File
  BY <1>2
<1> QED
  BY <1>1, <1>3 DEF Payload, File

-----------------------------------------------------------------------------
(* The file that decides.                                                  *)

\* The first path with a file, met after paths without one, has it.
LEMMA FirstFileMet ==
  ASSUME NEW d \in Deliveries, NEW k \in 1..PathCount,
         payload[d].files[k].text # "absent",
         \A j \in 1..PathCount : j < k => payload[d].files[j].text = "absent"
  PROVE  FirstFile(d) = payload[d].files[k]
<1> DEFINE present == {i \in 1..PathCount : payload[d].files[i].text # "absent"}
<1>1. k \in present /\ \A j \in present : k <= j
  BY WebhookAssumption
<1>2. \A i \in present : (\A j \in present : i <= j) => i = k
  BY <1>1, WebhookAssumption
<1>3. (CHOOSE i \in present : \A j \in present : i <= j) = k
  BY <1>1, <1>2
<1> QED
  BY <1>1, <1>3 DEF FirstFile

LEMMA NoFileMet ==
  ASSUME NEW d \in Deliveries,
         \A j \in 1..PathCount : payload[d].files[j].text = "absent"
  PROVE  FirstFile(d) = [text |-> "absent", nth |-> 0]
  BY DEF FirstFile

\* What is at the head does not change.
LEMMA SameHead ==
  ASSUME payload' = payload
  PROVE  \A d : FirstFile(d)' = FirstFile(d)
  BY DEF FirstFile

\* Nor what was true of a handler that rests.
LEMMA HandlerRests ==
  ASSUME NEW h \in Requests, HandlerIsTrue(h),
         payload' = payload, handler'[h] = handler[h], check'[h] = check[h]
  PROVE  HandlerIsTrue(h)'
<1>1. \A d : FirstFile(d)' = FirstFile(d)
  BY SameHead
<1> QED
  BY <1>1 DEF HandlerIsTrue, SearchIsTrue, ConclusionIsTrue

LEMMA TruthInit == Init => TruthInv
<1> SUFFICES ASSUME Init PROVE TruthInv
  OBVIOUS
<1>1. TypeOK
  <2>1. payload \in [Deliveries -> Payload]
    BY WebhookAssumption DEF Init
  <2> QED
    BY <2>1, WebhookAssumption DEF Init, TypeOK, Handlers, Entries
<1>2. \A h \in Requests : handler[h] = NoHandler /\ check[h] = "none"
  BY DEF Init
<1>3. /\ NoHandler.step = "idle" /\ NoHandler.conclusion = "none"
      /\ NoHandler.delivery = "none"
  BY DEF NoHandler
<1>4. \A h \in Requests : SearchIsTrue(h)
  BY <1>2, <1>3 DEF SearchIsTrue, Searching
<1>5. \A h \in Requests : ConclusionIsTrue(h)
  BY <1>2, <1>3 DEF ConclusionIsTrue
<1> QED
  BY <1>1, <1>4, <1>5 DEF TruthInv, HandlerIsTrue

-----------------------------------------------------------------------------
(* One step of one handler.                                                *)

\* A step that gives one handler the record r and leaves the cache as it is, or
\* with entries of its type.
LEMMA StepByRecord ==
  ASSUME TruthInv, NEW h \in Requests, NEW r \in Busy,
         handler' = [handler EXCEPT ![h] = r],
         \/ check' = check
         \/ r.conclusion \in Conclusions /\ check' = [check EXCEPT ![h] = r.conclusion],
         WorldUnchanged, restarts' = restarts,
         inserted' \in Nat, cache' \subseteq Entries, accepted' \subseteq Entries,
         HandlerIsTrue(h)'
  PROVE  TruthInv'
<1>1. TypeOK /\ \A g \in Requests : HandlerIsTrue(g)
  BY DEF TruthInv
<1>2. /\ handler' \in [Requests -> Handlers]
      /\ \A g \in Requests : g # h => handler'[g] = handler[g]
  BY <1>1, Moves
<1>3. /\ check' \in [Requests -> Conclusions \cup {"none"}]
      /\ \A g \in Requests : g # h => check'[g] = check[g]
  BY <1>1 DEF TypeOK
<1>4. payload' = payload
  BY DEF WorldUnchanged
<1>5. \A g \in Requests : g # h => HandlerIsTrue(g)'
  BY <1>1, <1>2, <1>3, <1>4, HandlerRests
<1>6. TypeOK'
  BY <1>1, <1>2, <1>3 DEF TypeOK, WorldUnchanged
<1> QED
  BY <1>5, <1>6 DEF TruthInv

LEMMA FirstPath ==
  /\ 1 \in 1..PathCount
  /\ \A j \in 1..PathCount : ~(j < 1)
<1>1. PathCount \in Nat \ {0}
  BY WebhookAssumption
<1> QED
  BY <1>1

\* A handler at the first path, with nothing concluded or published.
LEMMA StartTrue ==
  ASSUME NEW h \in Requests, payload' = payload, NEW d \in Deliveries,
         NEW step \in {"rejected", "duplicate", "bad json", "ignored", "token"},
         step = "token" => payload[d].event = "supported",
         handler'[h].step = step, handler'[h].delivery = d, handler'[h].path = 1,
         handler'[h].conclusion = "none", check'[h] = "none"
  PROVE  HandlerIsTrue(h)'
<1>1. \A j \in 1..PathCount : ~(j < 1)
  BY FirstPath
<1>2. SearchIsTrue(h)'
  BY <1>1 DEF SearchIsTrue, Searching
<1>3. ConclusionIsTrue(h)'
  BY DEF ConclusionIsTrue
<1> QED
  BY <1>2, <1>3 DEF HandlerIsTrue

LEMMA RejectTrue ==
  ASSUME TruthInv, NEW h \in Requests, NEW d \in Deliveries, Reject(h, d)
  PROVE  TruthInv'
<1> DEFINE r == [step |-> "rejected", delivery |-> d, path |-> 1, conclusion |-> "none"]
<1>1. /\ TypeOK /\ HandlerIsTrue(h) /\ handler[h].step = "idle"
      /\ handler' = [handler EXCEPT ![h] = r] /\ check' = check
      /\ WorldUnchanged /\ ServerUnchanged
  BY DEF TruthInv, Reject, Take
<1>2. r \in Busy
  BY FirstPath DEF Busy, Answers
<1>3. handler'[h] = r
  BY <1>1, <1>2, Moves
<1>4. check[h] = "none"
  BY <1>1 DEF HandlerIsTrue, SearchIsTrue
<1>5. HandlerIsTrue(h)'
  <2>1. /\ handler'[h].step = "rejected" /\ handler'[h].delivery = d
        /\ handler'[h].path = 1 /\ handler'[h].conclusion = "none"
        /\ check'[h] = "none" /\ payload' = payload
    BY <1>1, <1>3, <1>4 DEF WorldUnchanged
  <2> QED
    BY <2>1, StartTrue
<1> QED
  BY <1>1, <1>2, <1>5, StepByRecord DEF TypeOK, ServerUnchanged

LEMMA AcceptTrue ==
  ASSUME TruthInv, NEW h \in Requests, NEW d \in Deliveries, Accept(h, d)
  PROVE  TruthInv'
<1> DEFINE entry == [id |-> d, seenAt |-> now, nth |-> inserted + 1]
<1>1. PICK step \in {"duplicate", FirstStep(d)} :
        handler' = [handler EXCEPT ![h] = [step |-> step, delivery |-> d, path |-> 1,
                                           conclusion |-> "none"]]
  BY DEF Accept, Take
<1> DEFINE r == [step |-> step, delivery |-> d, path |-> 1, conclusion |-> "none"]
<1>2. /\ TypeOK /\ HandlerIsTrue(h) /\ handler[h].step = "idle"
      /\ check' = check /\ restarts' = restarts /\ WorldUnchanged
  BY DEF TruthInv, Accept
<1>3. /\ step \in {"duplicate", "bad json", "ignored", "token"}
      /\ step = "token" => payload[d].event = "supported"
  <2>1. payload[d].event \in {"supported", "other", "malformed"}
    BY <1>2 DEF TypeOK, Payload
  <2>2. CASE step = "duplicate"
    BY <2>2
  <2>3. CASE step = FirstStep(d)
    BY <2>1, <2>3 DEF FirstStep
  <2> QED
    BY <2>2, <2>3
<1>4. r \in Busy
  BY <1>3, FirstPath DEF Busy, Answers, Running
<1>5. handler'[h] = r
  BY <1>1, <1>2, <1>4, Moves
<1>6. entry \in Entries /\ inserted + 1 \in Nat
  BY <1>2, WebhookAssumption DEF TypeOK, Entries
<1>7. Pruned \subseteq cache
  BY DEF Pruned
<1>8. cache' \subseteq Entries /\ accepted' \subseteq Entries /\ inserted' \in Nat
  BY <1>2, <1>6, <1>7 DEF Accept, TypeOK
<1>9. check[h] = "none"
  BY <1>2 DEF HandlerIsTrue, SearchIsTrue
<1>10. HandlerIsTrue(h)'
  <2>1. /\ handler'[h].step = step /\ handler'[h].delivery = d
        /\ handler'[h].path = 1 /\ handler'[h].conclusion = "none"
        /\ check'[h] = "none" /\ payload' = payload
    BY <1>2, <1>5, <1>9 DEF WorldUnchanged
  <2> QED
    BY <1>3, <2>1, StartTrue
<1>11. handler' = [handler EXCEPT ![h] = r]
  BY <1>1
<1> HIDE DEF r
<1> QED
  BY <1>2, <1>4, <1>8, <1>10, <1>11, StepByRecord

\* A step of a running handler that changes nothing but the handler and, with a
\* conclusion, the check run.
LEMMA RunningStep ==
  ASSUME TruthInv, NEW h \in Requests, handler[h].step \in Running, NEW r \in Busy,
         handler' = [handler EXCEPT ![h] = r],
         \/ check' = check
         \/ r.conclusion \in Conclusions /\ check' = [check EXCEPT ![h] = r.conclusion],
         WorldUnchanged, ServerUnchanged, HandlerIsTrue(h)'
  PROVE  TruthInv'
  BY StepByRecord DEF TruthInv, TypeOK, ServerUnchanged

LEMMA ReceiveTokenTrue ==
  ASSUME TruthInv, NEW h \in Requests, ReceiveToken(h)
  PROVE  TruthInv'
<1> DEFINE r == [handler[h] EXCEPT !.step = "reading"]
<1>1. /\ TypeOK /\ HandlerIsTrue(h) /\ handler[h].step = "token"
      /\ handler' = [handler EXCEPT ![h] = r] /\ check' = check /\ payload' = payload
  BY DEF TruthInv, ReceiveToken, Go, WorldUnchanged
<1>2. handler[h] \in Busy
  BY <1>1, HandlerTypes
<1>3. r \in Busy
  BY <1>2 DEF Busy, Running
<1>4. /\ handler'[h].step = "reading" /\ handler'[h].delivery = handler[h].delivery
      /\ handler'[h].path = handler[h].path
      /\ handler'[h].conclusion = handler[h].conclusion
  BY <1>1, <1>2, <1>3, Moves DEF Busy
<1>5. HandlerIsTrue(h)'
  BY <1>1, <1>4 DEF HandlerIsTrue, SearchIsTrue, ConclusionIsTrue, Searching
<1> HIDE DEF r
<1> QED
  BY <1>1, <1>3, <1>5, RunningStep DEF ReceiveToken, Running

LEMMA CallFailsTrue ==
  ASSUME TruthInv, NEW h \in Requests, CallFails(h)
  PROVE  TruthInv'
<1>0. PICK answer \in {"failed", "bad json"} : Go(h, answer)
  BY DEF CallFails
<1> DEFINE r == [handler[h] EXCEPT !.step = answer]
<1>1. /\ TypeOK /\ HandlerIsTrue(h) /\ handler[h].step \in Running
      /\ handler' = [handler EXCEPT ![h] = r] /\ check' = check /\ payload' = payload
  BY <1>0 DEF TruthInv, CallFails, Go, WorldUnchanged
<1>2. handler[h] \in Busy
  BY <1>1, HandlerTypes DEF Running
<1>3. r \in Busy
  BY <1>2 DEF Busy, Answers
<1>4. /\ handler'[h].step \in {"failed", "bad json"} /\ handler'[h].delivery = handler[h].delivery
      /\ handler'[h].conclusion = handler[h].conclusion
  BY <1>1, <1>2, <1>3, Moves DEF Busy
<1>5. \A d : FirstFile(d)' = FirstFile(d)
  BY <1>1, SameHead
<1>6. SearchIsTrue(h)'
  BY <1>1, <1>4 DEF HandlerIsTrue, SearchIsTrue, Searching
<1>7. ConclusionIsTrue(h)'
  BY <1>1, <1>4, <1>5 DEF HandlerIsTrue, ConclusionIsTrue
<1> HIDE DEF r
<1> QED
  BY <1>1, <1>3, <1>6, <1>7, RunningStep DEF CallFails, HandlerIsTrue

LEMMA ConfirmTrue ==
  ASSUME TruthInv, NEW h \in Requests, Confirm(h)
  PROVE  TruthInv'
<1> DEFINE r == [handler[h] EXCEPT !.step = "published"]
<1>1. /\ TypeOK /\ HandlerIsTrue(h) /\ handler[h].step = "created"
      /\ handler' = [handler EXCEPT ![h] = r] /\ check' = check /\ payload' = payload
  BY DEF TruthInv, Confirm, Go, WorldUnchanged
<1>2. handler[h] \in Busy
  BY <1>1, HandlerTypes
<1>3. r \in Busy
  BY <1>2 DEF Busy, Answers
<1>4. /\ handler'[h].step = "published" /\ handler'[h].delivery = handler[h].delivery
      /\ handler'[h].conclusion = handler[h].conclusion
  BY <1>1, <1>2, <1>3, Moves DEF Busy
<1>5. \A d : FirstFile(d)' = FirstFile(d)
  BY <1>1, SameHead
<1>6. SearchIsTrue(h)'
  BY <1>1, <1>4 DEF HandlerIsTrue, SearchIsTrue, Searching
<1>7. ConclusionIsTrue(h)'
  BY <1>1, <1>4, <1>5 DEF HandlerIsTrue, ConclusionIsTrue
<1> HIDE DEF r
<1> QED
  BY <1>1, <1>3, <1>6, <1>7, RunningStep DEF Confirm, Running, HandlerIsTrue

LEMMA CreateCheckTrue ==
  ASSUME TruthInv, NEW h \in Requests, CreateCheck(h)
  PROVE  TruthInv'
<1> DEFINE r == [handler[h] EXCEPT !.step = "created"]
<1>1. /\ TypeOK /\ HandlerIsTrue(h) /\ handler[h].step = "publishing"
      /\ handler' = [handler EXCEPT ![h] = r] /\ payload' = payload
      /\ check' = [check EXCEPT ![h] = handler[h].conclusion]
  BY DEF TruthInv, CreateCheck, Go, WorldUnchanged
<1>2. handler[h] \in Busy
  BY <1>1, HandlerTypes
<1>3. r \in Busy /\ r.conclusion = handler[h].conclusion
  BY <1>2 DEF Busy, Running
<1>4. handler[h].conclusion \in Conclusions
  BY <1>1, <1>2 DEF HandlerIsTrue, ConclusionIsTrue, Busy
<1>5. /\ handler'[h].step = "created" /\ handler'[h].delivery = handler[h].delivery
      /\ handler'[h].conclusion = handler[h].conclusion
      /\ check'[h] = handler[h].conclusion
  BY <1>1, <1>2, <1>3, Moves DEF Busy, TypeOK
<1>6. \A d : FirstFile(d)' = FirstFile(d)
  BY <1>1, SameHead
<1>7. SearchIsTrue(h)'
  BY <1>4, <1>5 DEF SearchIsTrue, Searching, Conclusions
<1>8. ConclusionIsTrue(h)'
  BY <1>1, <1>4, <1>5, <1>6 DEF HandlerIsTrue, ConclusionIsTrue, Conclusions
<1> HIDE DEF r
<1> QED
  BY <1>1, <1>3, <1>4, <1>7, <1>8, RunningStep DEF CreateCheck, Running, HandlerIsTrue

\* A handler that concludes on the file that decides.
LEMMA ConcludeTrue ==
  ASSUME TruthInv, NEW h \in Requests, handler[h].step = "reading",
         NEW c \in Conclusions, Conclude(h, c),
         LET file == FirstFile(handler[h].delivery)
         IN  file.text # "unreadable" /\ c = Verdict(file),
         check' = check, WorldUnchanged, ServerUnchanged
  PROVE  TruthInv'
<1> DEFINE r == [handler[h] EXCEPT !.step = "publishing", !.conclusion = c]
<1>1. /\ TypeOK /\ HandlerIsTrue(h) /\ payload' = payload
      /\ handler' = [handler EXCEPT ![h] = r]
  BY DEF TruthInv, Conclude, WorldUnchanged
<1>2. handler[h] \in Busy
  BY <1>1, HandlerTypes
<1>3. r \in Busy
  BY <1>2 DEF Busy, Running
<1>4. /\ handler'[h].step = "publishing" /\ handler'[h].delivery = handler[h].delivery
      /\ handler'[h].conclusion = c
  BY <1>1, <1>2, <1>3, Moves DEF Busy
<1>5. \A d : FirstFile(d)' = FirstFile(d)
  BY <1>1, SameHead
<1>6. /\ check[h] = "none" /\ c # "none"
      /\ payload[handler[h].delivery].event = "supported"
  BY <1>1 DEF HandlerIsTrue, SearchIsTrue, Searching, Conclusions
<1>7. SearchIsTrue(h)'
  BY <1>4, <1>6 DEF SearchIsTrue, Searching
<1>8. ConclusionIsTrue(h)'
  BY <1>1, <1>4, <1>5, <1>6 DEF ConclusionIsTrue
<1> HIDE DEF r
<1> QED
  BY <1>1, <1>3, <1>7, <1>8, RunningStep DEF Running, HandlerIsTrue

LEMMA ReadPathTrue ==
  ASSUME TruthInv, NEW h \in Requests, ReadPath(h)
  PROVE  TruthInv'
<1> DEFINE d == handler[h].delivery
           k == handler[h].path
           file == payload[d].files[k]
<1>1. /\ TypeOK /\ HandlerIsTrue(h) /\ handler[h].step = "reading"
      /\ check' = check /\ payload' = payload /\ WorldUnchanged /\ ServerUnchanged
  BY DEF TruthInv, ReadPath, WorldUnchanged
<1>2. handler[h] \in Busy
  BY <1>1, HandlerTypes
<1>3. d \in Deliveries /\ k \in 1..PathCount
  BY <1>2 DEF Busy
<1>4. /\ handler[h].conclusion = "none" /\ check[h] = "none"
      /\ payload[d].event = "supported"
      /\ \A j \in 1..PathCount : j < k => payload[d].files[j].text = "absent"
  BY <1>1 DEF HandlerIsTrue, SearchIsTrue, Searching
<1>5. PathCount \in Nat
  BY WebhookAssumption
<1>6. CASE file.text = "absent" /\ k < PathCount
           /\ handler' = [handler EXCEPT ![h].path = k + 1]
  <2> DEFINE r == [handler[h] EXCEPT !.path = k + 1]
  <2>1. k + 1 \in 1..PathCount
    BY <1>3, <1>5, <1>6
  <2>2. r \in Busy /\ handler' = [handler EXCEPT ![h] = r]
    BY <1>2, <1>6, <2>1 DEF Busy
  <2>3. /\ handler'[h].step = "reading" /\ handler'[h].delivery = d
        /\ handler'[h].path = k + 1 /\ handler'[h].conclusion = "none"
    BY <1>1, <1>2, <1>4, <2>2, Moves DEF Busy
  <2>4. \A j \in 1..PathCount : j < k + 1 => payload[d].files[j].text = "absent"
    <3>1. \A j \in 1..PathCount : j < k + 1 => j < k \/ j = k
      BY <1>3, <1>5
    <3> QED
      BY <1>4, <1>6, <3>1
  <2> HIDE DEF r, d, k
  <2>5. SearchIsTrue(h)'
    BY <1>1, <1>4, <2>3, <2>4 DEF SearchIsTrue, Searching
  <2>6. ConclusionIsTrue(h)'
    BY <1>1, <1>4, <2>3 DEF ConclusionIsTrue
  <2> QED
    BY <1>1, <2>2, <2>5, <2>6, RunningStep DEF Running, HandlerIsTrue
<1>7. CASE file.text = "absent" /\ k = PathCount /\ Conclude(h, "neutral")
  <2>1. \A j \in 1..PathCount : payload[d].files[j].text = "absent"
    <3>1. \A j \in 1..PathCount : j < k \/ j = k
      BY <1>5, <1>7
    <3> QED
      BY <1>4, <1>7, <3>1
  <2>2. FirstFile(d) = [text |-> "absent", nth |-> 0]
    BY <1>3, <2>1, NoFileMet
  <2>3. FirstFile(d).text = "absent"
    BY <2>2
  <2> QED
    BY <1>1, <1>7, <2>3, ConcludeTrue DEF Verdict, Conclusions
<1>8. CASE file.text \in {"not JSON", "manifest"} /\ Conclude(h, Conclusion(file))
  <2>1. FirstFile(d) = file
    BY <1>3, <1>4, <1>8, FirstFileMet
  <2>2. Conclusion(file) \in Conclusions
    BY SMTT(30) DEF Conclusion, Conclusions
  <2>3. Conclusion(file) = Verdict(FirstFile(d)) /\ FirstFile(d).text # "unreadable"
    BY <1>8, <2>1 DEF Verdict
  <2> HIDE DEF file
  <2> QED
    BY <1>1, <1>8, <2>2, <2>3, ConcludeTrue
<1>9. CASE file.text = "unreadable" /\ Go(h, "failed")
  <2>1. CallFails(h)
    BY <1>1, <1>9 DEF CallFails, Running
  <2> QED
    BY <2>1, CallFailsTrue
<1> QED
  BY <1>6, <1>7, <1>8, <1>9 DEF ReadPath

-----------------------------------------------------------------------------
LEMMA RestartTrue ==
  ASSUME TruthInv, Restart
  PROVE  TruthInv'
<1> DEFINE After(h) == IF handler[h].step \in Running
                       THEN [handler[h] EXCEPT !.step = "lost"] ELSE handler[h]
<1>1. /\ TypeOK /\ payload' = payload /\ check' = check /\ now' = now
      /\ handler' = [h \in Requests |-> After(h)]
      /\ cache' = {} /\ inserted' = 0 /\ accepted' = {} /\ restarts' = restarts + 1
      /\ restarts < MaxRestarts
  BY DEF TruthInv, Restart, WorldUnchanged
<1>2. \A d : FirstFile(d)' = FirstFile(d)
  BY <1>1, SameHead
<1>3. ASSUME NEW h \in Requests
      PROVE  handler'[h] \in Handlers /\ HandlerIsTrue(h)'
  <2>1. HandlerIsTrue(h) /\ handler'[h] = After(h) /\ check'[h] = check[h]
    BY <1>1 DEF TruthInv
  <2>2. CASE handler[h].step \in Running
    <3>1. handler[h] \in Busy
      BY <1>1, <2>2, HandlerTypes DEF Running
    <3>2. handler'[h] = [handler[h] EXCEPT !.step = "lost"]
      BY <2>1, <2>2
    <3>3. /\ handler'[h] \in Busy /\ handler'[h].step = "lost"
          /\ handler'[h].delivery = handler[h].delivery
          /\ handler'[h].conclusion = handler[h].conclusion
      BY <3>1, <3>2 DEF Busy
    <3>4. handler'[h] \in Handlers
      BY <3>3 DEF Busy, Handlers
    <3>5. SearchIsTrue(h)'
      BY <2>1, <3>3 DEF HandlerIsTrue, SearchIsTrue, Searching
    <3>6. ConclusionIsTrue(h)'
      BY <1>1, <1>2, <2>1, <3>3 DEF HandlerIsTrue, ConclusionIsTrue
    <3> QED
      BY <3>4, <3>5, <3>6 DEF HandlerIsTrue
  <2>3. CASE handler[h].step \notin Running
    <3>1. handler'[h] = handler[h]
      BY <2>1, <2>3
    <3>2. handler[h] \in Handlers
      BY <1>1 DEF TypeOK
    <3> QED
      BY <1>1, <2>1, <3>1, <3>2, HandlerRests
  <2> QED
    BY <2>2, <2>3
<1>4. handler' \in [Requests -> Handlers]
  BY <1>1, <1>3
<1>5. restarts' \in 0..MaxRestarts
  BY <1>1, WebhookAssumption DEF TypeOK
<1> HIDE DEF After
<1>6. TypeOK'
  BY <1>1, <1>4, <1>5 DEF TypeOK
<1> QED
  BY <1>3, <1>6 DEF TruthInv

LEMMA TickTrue ==
  ASSUME TruthInv, Tick \/ UNCHANGED vars
  PROVE  TruthInv'
<1>1. /\ payload' = payload /\ handler' = handler /\ check' = check
      /\ restarts' = restarts /\ cache' = cache /\ inserted' = inserted
      /\ accepted' = accepted
  BY DEF Tick, ServerUnchanged, vars
<1>2. now' \in 0..MaxTime
  BY WebhookAssumption DEF Tick, vars, TruthInv, TypeOK
<1>3. TypeOK'
  BY <1>1, <1>2 DEF TruthInv, TypeOK
<1>4. \A h \in Requests : HandlerIsTrue(h)'
  BY <1>1, HandlerRests DEF TruthInv
<1> QED
  BY <1>3, <1>4 DEF TruthInv

LEMMA TruthStep == TruthInv /\ [Next]_vars => TruthInv'
<1> SUFFICES ASSUME TruthInv, [Next]_vars PROVE TruthInv'
  OBVIOUS
<1>1. ASSUME NEW h \in Requests, NEW d \in Deliveries, Reject(h, d) PROVE TruthInv'
  BY <1>1, RejectTrue
<1>2. ASSUME NEW h \in Requests, NEW d \in Deliveries, Accept(h, d) PROVE TruthInv'
  BY <1>2, AcceptTrue
<1>3. ASSUME NEW h \in Requests, ReceiveToken(h) PROVE TruthInv'
  BY <1>3, ReceiveTokenTrue
<1>4. ASSUME NEW h \in Requests, ReadPath(h) PROVE TruthInv'
  BY <1>4, ReadPathTrue
<1>5. ASSUME NEW h \in Requests, CreateCheck(h) PROVE TruthInv'
  BY <1>5, CreateCheckTrue
<1>6. ASSUME NEW h \in Requests, Confirm(h) PROVE TruthInv'
  BY <1>6, ConfirmTrue
<1>7. ASSUME NEW h \in Requests, CallFails(h) PROVE TruthInv'
  BY <1>7, CallFailsTrue
<1>8. CASE Tick \/ UNCHANGED vars
  BY <1>8, TickTrue
<1>9. CASE Restart
  BY <1>9, RestartTrue
<1> QED
  BY <1>1, <1>2, <1>3, <1>4, <1>5, <1>6, <1>7, <1>8, <1>9 DEF Next

LEMMA TruthHolds == Spec => []TruthInv
  BY TruthInit, TruthStep, PTL DEF Spec

-----------------------------------------------------------------------------
\* Every reachable state is of its type (server.ts and app.ts of the App).
THEOREM WebhookTypeCorrect == Spec => []TypeOK
<1>1. TruthInv => TypeOK
  BY DEF TruthInv
<1> QED
  BY <1>1, TruthHolds, PTL

\* A check run says what the first manifest at the exact head says: a read that
\* fails, at whichever path, never becomes a verdict (readManifest).
THEOREM ChecksTellTheHead == Spec => []CheckTellsTheHead
<1>1. TruthInv => CheckTellsTheHead
  <2> SUFFICES ASSUME TruthInv, NEW h \in Requests, check[h] # "none"
               PROVE  LET d == handler[h].delivery
                          file == FirstFile(d)
                      IN  /\ payload[d].event = "supported"
                          /\ file.text # "unreadable"
                          /\ file.text = "absent" <=> check[h] = "neutral"
                          /\ file.text = "not JSON" => check[h] = "failure"
    BY DEF CheckTellsTheHead
  <2> DEFINE file == FirstFile(handler[h].delivery)
  <2>1. /\ check[h] = handler[h].conclusion /\ handler[h].conclusion # "none"
        /\ payload[handler[h].delivery].event = "supported"
        /\ file.text # "unreadable" /\ handler[h].conclusion = Verdict(file)
    BY DEF TruthInv, HandlerIsTrue, ConclusionIsTrue, SearchIsTrue
  <2> HIDE DEF file
  <2>2. Verdict(file) = "neutral" <=> file.text = "absent"
    BY DEF Verdict, Conclusion
  <2>3. file.text = "not JSON" => Verdict(file) = "failure"
    BY DEF Verdict, Conclusion
  <2> QED
    BY <2>1, <2>2, <2>3 DEF file
<1> QED
  BY <1>1, TruthHolds, PTL

\* A check run is green just when the manifest it is about is valid and recoverable
\* by every key it was written with (parseManifest, auditManifest, auditConclusion).
THEOREM GreenChecksAreEarned == Spec => []GreenIsEarned
<1>1. Passing = Deserving
  <2>1. \A n \in DOMAIN Manifests : Manifests[n] \in Manifest
    BY WebhookAssumption
  <2>2. \A n \in DOMAIN Manifests :
          IsValid(Manifests[n]) =>
            (IsSound(Parsed(Manifests[n])) <=> Recoverable(Manifests[n]))
    BY <2>1, SoundMeansRecoverable
  <2> QED
    BY <2>2 DEF Passing, Deserving
<1>2. TruthInv => GreenIsEarned
  <2> SUFFICES ASSUME TruthInv, NEW h \in Requests, check[h] # "none",
                      FirstFile(handler[h].delivery).text = "manifest"
               PROVE  check[h] = "success"
                        <=> FirstFile(handler[h].delivery).nth \in Deserving
    BY DEF GreenIsEarned
  <2> DEFINE file == FirstFile(handler[h].delivery)
  <2>1. check[h] = Verdict(file)
    BY DEF TruthInv, HandlerIsTrue, ConclusionIsTrue, SearchIsTrue
  <2> HIDE DEF file
  <2>2. file.text = "manifest" => (Verdict(file) = "success" <=> file.nth \in Passing)
    BY DEF Verdict, Conclusion
  <2> QED
    BY <1>1, <2>1, <2>2 DEF file
<1> QED
  BY <1>2, TruthHolds, PTL

\* The answer that tells of a published check is sent when GitHub has that check,
\* and a check run is left only by a handler that came to its conclusion and went
\* on to publish it (request listener, publishCheck).
THEOREM AnswersMatchChecks == Spec => []AnswerMatchesCheck
<1>1. TruthInv => AnswerMatchesCheck
  <2> SUFFICES ASSUME TruthInv, NEW h \in Requests
               PROVE  /\ handler[h].step = "published" => check[h] # "none"
                      /\ check[h] # "none" =>
                           /\ check[h] = handler[h].conclusion
                           /\ handler[h].step \in {"created", "published", "failed",
                                                   "bad json", "lost"}
    BY DEF AnswerMatchesCheck
  <2>1. TypeOK /\ SearchIsTrue(h) /\ ConclusionIsTrue(h)
    BY DEF TruthInv, HandlerIsTrue
  <2>2. handler[h].step \in Running \cup Answers \cup {"idle", "lost"}
    BY <2>1 DEF TypeOK, Handlers, NoHandler
  <2>3. ASSUME check[h] # "none" PROVE handler[h].conclusion # "none"
    BY <2>1, <2>3 DEF SearchIsTrue
  <2>4. ASSUME check[h] # "none"
        PROVE  handler[h].step \in {"created", "published", "failed", "bad json", "lost"}
    BY <2>1, <2>2, <2>3, <2>4 DEF SearchIsTrue, Searching, Running, Answers
  <2> QED
    BY <2>1, <2>3, <2>4 DEF ConclusionIsTrue
<1> QED
  BY <1>1, TruthHolds, PTL

-----------------------------------------------------------------------------
(* The bounded cache of delivery ids (src/github-app/server.ts): what it   *)
(* suppresses, and that it stays in order and bounded, whatever the        *)
(* deliveries, requests, times to live and sizes.                          *)

\* Entries are numbered in the order of their insertion, which is that of time.
Ordered ==
  /\ cache \subseteq accepted
  /\ \A a \in accepted : a.nth <= inserted /\ a.seenAt <= now
  /\ \A a, b \in accepted : a.nth = b.nth => a = b
  /\ \A a, b \in accepted : a.nth < b.nth => a.seenAt <= b.seenAt

\* Why an entry is in the Map no more, now and from now on.
Outlived(a) == now - a.seenAt > Ttl \/ inserted - a.nth >= MaxTracked

ForgottenForCause == \A a \in accepted : a \notin cache => Outlived(a)

IdsDiffer == \A e, f \in cache : e # f => e.id # f.id

CacheBounded == IsFiniteSet(cache) /\ Cardinality(cache) <= MaxTracked + 1

CacheInv ==
  TypeOK /\ Ordered /\ ForgottenForCause /\ IdsDiffer /\ CacheBounded /\ ReplaySuppressed

-----------------------------------------------------------------------------
LEMMA Numbers ==
  /\ Ttl \in Nat /\ MaxTracked \in Nat /\ MaxTracked # 0
  /\ MaxTime \in Nat /\ MaxRestarts \in Nat
  BY WebhookAssumption

LEMMA EntryTypes ==
  ASSUME TypeOK
  PROVE  /\ \A a \in accepted : a.nth \in Nat \ {0} /\ a.seenAt \in Nat
         /\ inserted \in Nat /\ now \in Nat
  BY Numbers DEF TypeOK, Entries

\* The entries after e in a part of the Map are at most the insertions since.
LEMMA LaterAreFew ==
  ASSUME TypeOK, Ordered, NEW S \in SUBSET accepted, NEW e \in accepted
  PROVE  /\ IsFiniteSet(Later(S, e))
         /\ Cardinality(Later(S, e)) \in Nat
         /\ Cardinality(Later(S, e)) <= inserted - e.nth
<1> DEFINE I == (e.nth + 1)..inserted
           place == [f \in Later(S, e) |-> f.nth]
<1>1. /\ e.nth \in Nat /\ e.nth <= inserted /\ inserted \in Nat
      /\ \A f \in Later(S, e) : f \in accepted /\ f.nth \in Nat /\ f.nth > e.nth
                                  /\ f.nth <= inserted
  BY EntryTypes DEF Later, Ordered
<1>2. place \in [Later(S, e) -> I]
  BY <1>1
<1>3. \A f, g \in Later(S, e) : place[f] = place[g] => f = g
  BY <1>1 DEF Ordered
<1>4. place \in Injection(Later(S, e), I)
  BY <1>2, <1>3 DEF Injection, IsInjective
<1>5. IsFiniteSet(I) /\ Cardinality(I) = inserted - e.nth
  <2>1. e.nth + 1 \in Int /\ inserted \in Int
    BY <1>1
  <2>2. /\ IsFiniteSet(I)
        /\ Cardinality(I) = IF e.nth + 1 > inserted THEN 0
                            ELSE inserted - (e.nth + 1) + 1
    BY <2>1, FS_Interval
  <2> QED
    BY <1>1, <2>2
<1> HIDE DEF I, place
<1>6. IsFiniteSet(Later(S, e)) /\ Cardinality(Later(S, e)) <= Cardinality(I)
  BY <1>4, <1>5, FS_Injection
<1> QED
  BY <1>5, <1>6, FS_CardinalityType

\* pruneDeliveries drops an entry only for cause.
LEMMA PrunedForCause ==
  ASSUME TypeOK, Ordered, NEW e \in cache, e \notin Pruned
  PROVE  Outlived(e)
<1> DEFINE fresh == {f \in cache : Fresh(f)}
<1>1. /\ e \in accepted /\ now \in Nat /\ e.seenAt \in Nat
      /\ e.nth \in Nat /\ inserted \in Nat
  BY EntryTypes DEF Ordered
<1>2. CASE ~Fresh(e)
  BY <1>1, <1>2, Numbers DEF Fresh, Outlived
<1>3. CASE Fresh(e)
  <2>1. fresh \in SUBSET accepted
    BY DEF Ordered
  <2>2. /\ Cardinality(Later(fresh, e)) \in Nat
        /\ Cardinality(Later(fresh, e)) <= inserted - e.nth
    BY <1>1, <2>1, LaterAreFew
  <2>3. ~(Cardinality(Later(fresh, e)) < MaxTracked)
    BY <1>3 DEF Pruned
  <2> HIDE DEF fresh
  <2>4. inserted - e.nth >= MaxTracked
    BY <1>1, <2>2, <2>3, Numbers
  <2> QED
    BY <2>4 DEF Outlived
<1> QED
  BY <1>2, <1>3

\* Of finitely many entries one was inserted first.
LEMMA FirstInserted ==
  ASSUME TypeOK, NEW S \in SUBSET accepted, S # {}
  PROVE  \E e \in S : \A f \in S : e.nth <= f.nth
<1> DEFINE N == {f.nth : f \in S}
<1>1. N \subseteq Nat /\ N # {}
  BY EntryTypes
<1>2. PICK n \in N : \A m \in N : ~(<<m, n>> \in OpToRel(<, Nat))
  BY <1>1, NatLessThanWellFounded, WFMin
<1>3. \A m \in N : ~(m < n)
  BY <1>1, <1>2 DEF OpToRel
<1>4. PICK e \in S : e.nth = n
  OBVIOUS
<1>5. \A f \in S : f.nth \in N /\ f.nth \in Nat
  BY EntryTypes
<1> HIDE DEF N
<1>6. \A f \in S : e.nth <= f.nth
  BY <1>3, <1>4, <1>5
<1> QED
  BY <1>6

\* pruneDeliveries leaves at most MaxTracked entries.
LEMMA PrunedIsBounded ==
  ASSUME TypeOK, Ordered, IsFiniteSet(cache)
  PROVE  IsFiniteSet(Pruned) /\ Cardinality(Pruned) <= MaxTracked
<1> DEFINE fresh == {e \in cache : Fresh(e)}
<1>1. Pruned \subseteq fresh /\ fresh \subseteq cache /\ cache \subseteq accepted
  BY DEF Pruned, Ordered
<1>2. IsFiniteSet(Pruned) /\ Cardinality(Pruned) \in Nat
  BY <1>1, FS_Subset, FS_CardinalityType
<1>3. CASE Pruned = {}
  BY <1>3, FS_EmptySet, Numbers
<1>4. CASE Pruned # {}
  <2>1. PICK e \in Pruned : \A f \in Pruned : e.nth <= f.nth
    BY <1>1, <1>4, FirstInserted
  <2>2. e \in accepted
    BY <1>1
  <2>3. /\ IsFiniteSet(Later(fresh, e)) /\ Cardinality(Later(fresh, e)) \in Nat
    BY <1>1, <2>2, LaterAreFew
  <2>4. Cardinality(Later(fresh, e)) < MaxTracked
    BY DEF Pruned
  <2>5. Pruned \ {e} \subseteq Later(fresh, e)
    <3> SUFFICES ASSUME NEW f \in Pruned, f # e PROVE f \in Later(fresh, e)
      OBVIOUS
    <3>1. f.nth # e.nth /\ e.nth <= f.nth
      BY <1>1, <2>1, <2>2 DEF Ordered
    <3>2. f.nth \in Nat /\ e.nth \in Nat
      BY <1>1, <2>2, EntryTypes
    <3>3. f.nth > e.nth
      BY <3>1, <3>2
    <3> QED
      BY <1>1, <3>3 DEF Later
  <2>6. Cardinality(Pruned \ {e}) <= Cardinality(Later(fresh, e))
    BY <2>3, <2>5, FS_Subset
  <2>7. Cardinality(Pruned \ {e}) = Cardinality(Pruned) - 1
    BY <1>2, FS_RemoveElement
  <2> HIDE DEF fresh
  <2>8. Cardinality(Pruned) <= MaxTracked
    BY <1>2, <2>3, <2>4, <2>6, <2>7, Numbers
  <2> QED
    BY <1>2, <2>8
<1> QED
  BY <1>3, <1>4

-----------------------------------------------------------------------------
LEMMA CacheInit == Init => CacheInv
<1> SUFFICES ASSUME Init PROVE CacheInv
  OBVIOUS
<1>1. TypeOK
  BY TruthInit DEF TruthInv
<1>2. cache = {} /\ accepted = {}
  BY DEF Init
<1>3. CacheBounded
  BY <1>2, FS_EmptySet, Numbers DEF CacheBounded
<1> QED
  BY <1>1, <1>2, <1>3 DEF CacheInv, Ordered, ForgottenForCause, IdsDiffer, ReplaySuppressed

\* A delivery that is found in the Map: nothing is added.
LEMMA DuplicateStep ==
  ASSUME CacheInv, TypeOK', cache' = Pruned, UNCHANGED <<now, inserted, accepted>>
  PROVE  CacheInv'
<1>1. Pruned \subseteq cache
  BY DEF Pruned
<1>2. Ordered'
  BY <1>1 DEF CacheInv, Ordered
<1>3. ForgottenForCause'
  BY PrunedForCause DEF CacheInv, ForgottenForCause, Outlived
<1>4. IdsDiffer' /\ ReplaySuppressed'
  BY <1>1 DEF CacheInv, IdsDiffer, ReplaySuppressed
<1>5. CacheBounded'
  <2>1. IsFiniteSet(Pruned) /\ Cardinality(Pruned) <= MaxTracked
    BY PrunedIsBounded DEF CacheInv, CacheBounded
  <2> QED
    BY <2>1, FS_CardinalityType, Numbers DEF CacheBounded
<1> QED
  BY <1>2, <1>3, <1>4, <1>5 DEF CacheInv

\* A delivery that is taken up.
LEMMA TakenUpStep ==
  ASSUME CacheInv, TypeOK', NEW entry, NEW d \in Deliveries,
         entry = [id |-> d, seenAt |-> now, nth |-> inserted + 1],
         \A e \in Pruned : e.id # d,
         cache' = Pruned \cup {entry}, accepted' = accepted \cup {entry},
         inserted' = inserted + 1, now' = now
  PROVE  CacheInv'
<1>1. /\ TypeOK /\ Ordered /\ ForgottenForCause /\ IdsDiffer /\ CacheBounded
      /\ ReplaySuppressed
  BY DEF CacheInv
<1>2. /\ inserted \in Nat /\ now \in Nat
      /\ \A a \in accepted : a.nth \in Nat /\ a.seenAt \in Nat /\ a.nth <= inserted
                               /\ a.seenAt <= now
  BY <1>1, EntryTypes DEF Ordered
<1>3. entry.nth = inserted + 1 /\ entry.seenAt = now /\ entry.id = d
  OBVIOUS
<1>4. Pruned \subseteq cache /\ cache \subseteq accepted
  BY <1>1 DEF Pruned, Ordered
<1>5. \A a \in accepted : a \notin Pruned => Outlived(a)
  BY <1>1, PrunedForCause DEF ForgottenForCause
<1>6. \A a \in accepted : Outlived(a) =>
        now - a.seenAt > Ttl \/ inserted + 1 - a.nth > MaxTracked
  BY <1>2, Numbers DEF Outlived
<1>7. Ordered'
  <2>1. cache' \subseteq accepted'
    BY <1>4
  <2>2. \A a \in accepted' : a.nth <= inserted' /\ a.seenAt <= now'
    BY <1>2, <1>3
  <2>3. \A a, b \in accepted' : a.nth = b.nth => a = b
    BY <1>1, <1>2, <1>3 DEF Ordered
  <2>4. \A a, b \in accepted' : a.nth < b.nth => a.seenAt <= b.seenAt
    BY <1>1, <1>2, <1>3 DEF Ordered
  <2> QED
    BY <2>1, <2>2, <2>3, <2>4 DEF Ordered
<1>8. ForgottenForCause'
  <2> SUFFICES ASSUME NEW a \in accepted', a \notin cache' PROVE Outlived(a)'
    BY DEF ForgottenForCause
  <2>1. a \in accepted /\ a \notin Pruned
    OBVIOUS
  <2>2. Outlived(a)
    BY <1>5, <2>1
  <2> QED
    BY <1>2, <2>1, <2>2, Numbers DEF Outlived
<1>9. IdsDiffer'
  BY <1>1, <1>3, <1>4 DEF IdsDiffer
<1>10. CacheBounded'
  <2>1. IsFiniteSet(Pruned) /\ Cardinality(Pruned) <= MaxTracked
    BY <1>1, PrunedIsBounded DEF CacheBounded
  <2>2. /\ IsFiniteSet(Pruned \cup {entry})
        /\ \/ Cardinality(Pruned \cup {entry}) = Cardinality(Pruned)
           \/ Cardinality(Pruned \cup {entry}) = Cardinality(Pruned) + 1
    BY <2>1, FS_AddElement
  <2>3. Cardinality(Pruned) \in Nat
    BY <2>1, FS_CardinalityType
  <2> QED
    BY <2>1, <2>2, <2>3, Numbers DEF CacheBounded
<1>11. ReplaySuppressed'
  <2> SUFFICES ASSUME NEW a \in accepted', NEW b \in accepted', a.id = b.id, a.nth < b.nth
               PROVE  b.seenAt - a.seenAt > Ttl \/ b.nth - a.nth > MaxTracked
    BY DEF ReplaySuppressed
  <2>1. CASE a \in accepted /\ b \in accepted
    BY <1>1, <2>1 DEF ReplaySuppressed
  <2>2. CASE a \in accepted /\ b = entry
    <3>1. a \notin Pruned
      BY <1>3, <2>2
    <3>2. now - a.seenAt > Ttl \/ inserted + 1 - a.nth > MaxTracked
      BY <1>5, <1>6, <2>2, <3>1
    <3>3. b.nth = inserted + 1 /\ b.seenAt = now
      BY <1>3, <2>2
    <3> QED
      BY <1>2, <2>2, <3>2, <3>3, Numbers
  <2>3. CASE a = entry
    <3>1. ~(a.nth < b.nth)
      BY <1>2, <1>3, <2>3
    <3> QED
      BY <3>1
  <2> QED
    BY <2>1, <2>2, <2>3
<1> QED
  BY <1>7, <1>8, <1>9, <1>10, <1>11 DEF CacheInv

\* Time passes, or a step that leaves the cache alone.
LEMMA CacheRests ==
  ASSUME CacheInv, TypeOK', UNCHANGED <<cache, inserted, accepted>>,
         now' = now \/ now' = now + 1
  PROVE  CacheInv'
<1>1. /\ inserted \in Nat /\ now \in Nat
      /\ \A a \in accepted : a.nth \in Nat /\ a.seenAt \in Nat
  BY EntryTypes DEF CacheInv
<1>2. Ordered'
  BY <1>1 DEF CacheInv, Ordered
<1>3. ForgottenForCause'
  BY <1>1, Numbers DEF CacheInv, ForgottenForCause, Outlived
<1>4. IdsDiffer' /\ CacheBounded' /\ ReplaySuppressed'
  BY DEF CacheInv, IdsDiffer, CacheBounded, ReplaySuppressed
<1> QED
  BY <1>2, <1>3, <1>4 DEF CacheInv

LEMMA CacheStep == CacheInv /\ TypeOK' /\ [Next]_vars => CacheInv'
<1> SUFFICES ASSUME CacheInv, TypeOK', [Next]_vars PROVE CacheInv'
  OBVIOUS
<1>1. ASSUME NEW h \in Requests, NEW d \in Deliveries, Accept(h, d) PROVE CacheInv'
  <2> DEFINE entry == [id |-> d, seenAt |-> now, nth |-> inserted + 1]
  <2>1. now' = now
    BY <1>1 DEF Accept, WorldUnchanged
  <2>2. CASE cache' = Pruned /\ UNCHANGED <<inserted, accepted>>
    BY <2>1, <2>2, DuplicateStep
  <2>3. CASE /\ \A e \in Pruned : e.id # d
             /\ cache' = Pruned \cup {entry}
             /\ inserted' = inserted + 1
             /\ accepted' = accepted \cup {entry}
    BY <2>1, <2>3, TakenUpStep
  <2> QED
    BY <1>1, <2>2, <2>3 DEF Accept
<1>2. CASE Restart
  <2>1. cache' = {} /\ accepted' = {}
    BY <1>2 DEF Restart
  <2>2. CacheBounded'
    BY <2>1, FS_EmptySet, Numbers DEF CacheBounded
  <2> QED
    BY <2>1, <2>2
       DEF CacheInv, Ordered, ForgottenForCause, IdsDiffer, ReplaySuppressed
<1>3. CASE Tick
  BY <1>3, CacheRests DEF Tick, ServerUnchanged
<1>4. CASE UNCHANGED vars
  BY <1>4, CacheRests DEF vars
<1>5. ASSUME NEW h \in Requests, NEW d \in Deliveries, Reject(h, d) PROVE CacheInv'
  BY <1>5, CacheRests DEF Reject, ServerUnchanged, WorldUnchanged
<1>6. ASSUME NEW h \in Requests,
             ReceiveToken(h) \/ ReadPath(h) \/ CreateCheck(h) \/ Confirm(h) \/ CallFails(h)
      PROVE  CacheInv'
  <2>1. ServerUnchanged /\ WorldUnchanged
    BY <1>6 DEF ReceiveToken, ReadPath, CreateCheck, Confirm, CallFails
  <2> QED
    BY <2>1, CacheRests DEF ServerUnchanged, WorldUnchanged
<1> QED
  BY <1>1, <1>2, <1>3, <1>4, <1>5, <1>6 DEF Next

LEMMA CacheHolds == Spec => []CacheInv
  BY CacheInit, CacheStep, WebhookTypeCorrect, PTL DEF Spec

-----------------------------------------------------------------------------
\* A running server takes up the same delivery twice only past its time to live or
\* after as many others as the cache holds (beginDelivery, pruneDeliveries).
THEOREM ReplaysAreSuppressed == Spec => []ReplaySuppressed
<1>1. CacheInv => ReplaySuppressed
  BY DEF CacheInv
<1> QED
  BY <1>1, CacheHolds, PTL

\* The Map has one entry of an id, in the order of time, and stays bounded, so that
\* evicting from its front evicts the oldest (beginDelivery, pruneDeliveries).
THEOREM CacheKeepsOrder == Spec => []CacheInOrder
<1>1. CacheInv => CacheInOrder
  BY DEF CacheInv, CacheInOrder, Ordered, IdsDiffer, CacheBounded
<1> QED
  BY <1>1, CacheHolds, PTL

\* Only a delivery taken up within the time to live is turned away as a duplicate
\* (beginDelivery).
THEOREM DuplicatesAreRecent == Spec => DuplicateOnlyOfRecent
<1>1. TypeOK /\ CacheInv /\ [Next]_vars =>
        [\A h \in Requests :
           handler[h].step = "idle" /\ handler'[h].step = "duplicate" =>
             \E a \in accepted : /\ a.id = handler'[h].delivery
                                 /\ now - a.seenAt <= Ttl]_vars
  <2> SUFFICES ASSUME TypeOK, CacheInv, Next, NEW h \in Requests,
                      handler[h].step = "idle", handler'[h].step = "duplicate"
               PROVE  \E a \in accepted : a.id = handler'[h].delivery /\ now - a.seenAt <= Ttl
    OBVIOUS
  <2>1. ASSUME NEW g \in Requests, NEW d \in Deliveries, Accept(g, d)
        PROVE  \E a \in accepted : a.id = handler'[h].delivery /\ now - a.seenAt <= Ttl
    <3>1. PICK step \in {"duplicate", FirstStep(d)} :
            /\ handler' = [handler EXCEPT ![g] = [step |-> step, delivery |-> d,
                                                 path |-> 1, conclusion |-> "none"]]
            /\ step = "duplicate" =>
                 FirstStep(d) = "duplicate" \/ \E e \in Pruned : e.id = d
      BY <2>1 DEF Accept, Take
    <3>2. FirstStep(d) # "duplicate"
      BY DEF FirstStep, TypeOK, Payload
    <3>3. g = h /\ step = "duplicate" /\ handler'[h].delivery = d
      BY <3>1 DEF TypeOK
    <3>4. PICK e \in Pruned : e.id = d
      BY <3>1, <3>2, <3>3
    <3>5. e \in accepted /\ now - e.seenAt <= Ttl
      BY DEF Pruned, Fresh, CacheInv, Ordered
    <3> QED
      BY <3>3, <3>4, <3>5
  <2>2. ASSUME NEW g \in Requests, NEW d \in Deliveries, Reject(g, d) PROVE FALSE
    BY <2>2 DEF Reject, Take, TypeOK
  <2>3. ASSUME NEW g \in Requests, ReceiveToken(g) PROVE FALSE
    BY <2>3 DEF ReceiveToken, Go
  <2>4. ASSUME NEW g \in Requests, ReadPath(g) PROVE FALSE
    <3>1. PICK r : handler' = [handler EXCEPT ![g] = r]
      BY <2>4 DEF ReadPath, Go, Conclude
    <3>2. g # h
      BY <2>4 DEF ReadPath
    <3> QED
      BY <3>1, <3>2 DEF TypeOK
  <2>5. ASSUME NEW g \in Requests, CreateCheck(g) \/ Confirm(g) \/ CallFails(g) PROVE FALSE
    <3>1. PICK r : handler' = [handler EXCEPT ![g] = r]
      BY <2>5 DEF CreateCheck, Confirm, CallFails, Go
    <3>2. g # h
      BY <2>5 DEF CreateCheck, Confirm, CallFails, Running
    <3> QED
      BY <3>1, <3>2 DEF TypeOK
  <2>6. CASE Tick
    BY <2>6 DEF Tick
  <2>7. CASE Restart
    BY <2>7 DEF Restart, Running
  <2> QED
    BY <2>1, <2>2, <2>3, <2>4, <2>5, <2>6, <2>7 DEF Next
<1> QED
  BY <1>1, CacheHolds, WebhookTypeCorrect, PTL DEF Spec, DuplicateOnlyOfRecent
=============================================================================
