--------------------------- MODULE MultiRpcClient ---------------------------
(***************************************************************************)
(* One call of the multi-route JSON-RPC client                             *)
(* (src/core/multi-rpc-client.ts): a quorum read, a first-success read, a  *)
(* transaction broadcast, the verification of a signature or a health      *)
(* check.  Routes answer in any order, wrongly, with an error, or not      *)
(* before their timeout; the call decides from what it then has.           *)
(***************************************************************************)
EXTENDS Integers, FiniteSets

CONSTANTS
  Count,      \* how many endpoints are configured; they are 1..Count, in order
  Provider,   \* Provider[e]: who operates endpoint e, the name trimmed and in lower case
  Values,     \* what endpoints may answer, up to canonicalisation
  Calls       \* the calls a behaviour may begin with

Endpoints == 1..Count
Unset == -1   \* a threshold the caller leaves to its default
Commitments == {"processed", "confirmed", "finalized"}
Statuses == Commitments \cup {"unknown", "unranked", "rejected"}
NotAValue == {"unsent", "waiting", "failed", "timed out", "undefined", "latest block"}
               \cup Statuses

ASSUME ClientAssumption ==
  /\ Count \in Nat \ {0}
  /\ DOMAIN Provider = Endpoints
  /\ Values \cap NotAValue = {}
  /\ Calls \subseteq [method : {"quorum", "first", "broadcast", "verify", "health"},
                      agreement : Nat \cup {Unset}, providers : Nat \cup {Unset},
                      commitment : Commitments]

VARIABLES
  call,     \* the call: its method and options
  answer,   \* answer[e]: what endpoint e answered, or why there is no answer
  result    \* what the caller gets

vars == <<call, answer, result>>

\* What a well-formed reply may hold: a result of the method, or none at all.
Replies ==
  CASE call.method = "verify" -> Statuses
    [] call.method = "health" -> {"latest block", "undefined"}
    [] OTHER -> Values \cup {"undefined"}

Nothing == [kind |-> "none"]
Failure == [kind |-> "error"]
Results ==
  {Nothing, Failure}
    \cup [kind : {"value"}, value : Values, selected : SUBSET Endpoints]
    \cup [kind : {"verified"}, confirmedBy : SUBSET Endpoints,
          rejectedBy : SUBSET Endpoints, pendingAt : SUBSET Endpoints]
    \cup [kind : {"health"}, healthy : SUBSET Endpoints]

TypeOK ==
  /\ call \in Calls
  /\ answer \in [Endpoints -> Values \cup NotAValue]
  /\ result \in Results

\* Promise.all asks every endpoint at once; first-success only the first.
Init ==
  /\ call \in Calls
  /\ answer = [e \in Endpoints |-> IF call.method = "first" /\ e > 1
                                   THEN "unsent" ELSE "waiting"]
  /\ result = Nothing

-----------------------------------------------------------------------------
(* The groups of equal answers.                                            *)

Group(v) == {e \in Endpoints : answer[e] = v}
ProvidersOf(S) == {Provider[e] : e \in S}
Before(S, T) == \E e \in S : \A f \in T : e < f

\* Mutant: the first group, however small.
WinsByOrder(v) ==
  /\ Group(v) # {}
  /\ \A w \in Values \ {v} : Group(w) = {} \/ Before(Group(v), Group(w))

\* The largest group; of the largest, the one whose first member is first.
Wins(v) ==
  /\ Group(v) # {}
  /\ \A w \in Values \ {v} :
       \/ Cardinality(Group(w)) < Cardinality(Group(v))
       \/ /\ Cardinality(Group(w)) = Cardinality(Group(v))
          /\ Before(Group(v), Group(w))

\* Mutant: a majority of the endpoints that answered.
AgreementOfAnswered ==
  IF call.agreement # Unset THEN call.agreement
  ELSE IF call.method = "quorum"
       THEN Cardinality({e \in Endpoints : answer[e] \in Values}) \div 2 + 1 ELSE 1

\* minimumAgreement and minimumAcceptances, with their defaults.
Agreement ==
  IF call.agreement # Unset THEN call.agreement
  ELSE IF call.method = "quorum" THEN Count \div 2 + 1 ELSE 1

ProviderAgreement == IF call.providers # Unset THEN call.providers ELSE 1

Enough(v) ==
  /\ Cardinality(Group(v)) >= Agreement
  /\ Cardinality(ProvidersOf(Group(v))) >= ProviderAgreement

-----------------------------------------------------------------------------
(* The routes.  Each reply is awaited under an AbortController's timer.    *)

Settled(e) == answer[e] \notin {"unsent", "waiting"}

Settle(e, outcome) ==
  /\ result = Nothing
  /\ answer[e] = "waiting"
  /\ answer' = [answer EXCEPT ![e] = outcome]
  /\ UNCHANGED <<call, result>>

Reply(e) == \E v \in Replies : Settle(e, v)

\* A status that is not ok, an RPC error, an unreadable body, no connection.
Fail(e) == Settle(e, "failed")

\* Mutant: no timer.
TimeOutNever(e) == FALSE /\ Settle(e, "timed out")

TimeOut(e) == Settle(e, "timed out")

-----------------------------------------------------------------------------
(* The caller's side.                                                      *)

Return(r) == result' = r /\ UNCHANGED <<call, answer>>
AllSettled == result = Nothing /\ \A e \in Endpoints : Settled(e)

\* requestQuorum and broadcastTransaction, when every route has settled.
DecideAgreement ==
  /\ AllSettled /\ call.method \in {"quorum", "broadcast"}
  /\ \/ \E v \in Values :
          /\ Wins(v) /\ Enough(v)
          /\ Return([kind |-> "value", value |-> v, selected |-> Group(v)])
     \/ /\ \A v \in Values : ~(Wins(v) /\ Enough(v))
        /\ Return(Failure)

\* requestFirstSuccess, when the route it awaits has settled.
Awaited == CHOOSE e \in Endpoints :
             answer[e] # "unsent" /\ \A f \in Endpoints : f > e => answer[f] = "unsent"

\* Mutant: any reply will do, one without a result too.
NextRouteAnyReply ==
  /\ result = Nothing /\ call.method = "first" /\ Settled(Awaited)
  /\ \/ /\ answer[Awaited] \notin {"failed", "timed out"}
        /\ Return([kind |-> "value", value |-> answer[Awaited], selected |-> {Awaited}])
     \/ /\ answer[Awaited] \in {"failed", "timed out"} /\ Awaited < Count
        /\ answer' = [answer EXCEPT ![Awaited + 1] = "waiting"]
        /\ UNCHANGED <<call, result>>

\* Mutant: a route that is silent ends the call.
NextRouteGivesUp ==
  /\ result = Nothing /\ call.method = "first" /\ Settled(Awaited)
  /\ \/ /\ answer[Awaited] \in Values
        /\ Return([kind |-> "value", value |-> answer[Awaited], selected |-> {Awaited}])
     \/ /\ answer[Awaited] \in {"failed", "undefined"} /\ Awaited < Count
        /\ answer' = [answer EXCEPT ![Awaited + 1] = "waiting"]
        /\ UNCHANGED <<call, result>>
     \/ /\ answer[Awaited] \notin Values
        /\ answer[Awaited] = "timed out" \/ Awaited = Count
        /\ Return(Failure)

NextRoute ==
  /\ result = Nothing /\ call.method = "first" /\ Settled(Awaited)
  /\ \/ /\ answer[Awaited] \in Values
        /\ Return([kind |-> "value", value |-> answer[Awaited], selected |-> {Awaited}])
     \/ /\ answer[Awaited] \notin Values /\ Awaited < Count
        /\ answer' = [answer EXCEPT ![Awaited + 1] = "waiting"]
        /\ UNCHANGED <<call, result>>
     \/ /\ answer[Awaited] \notin Values /\ Awaited = Count
        /\ Return(Failure)

\* commitmentRank; a status without a rank counts as processed.
Rank(status) == CASE status \in {"processed", "unranked"} -> 1
                  [] status = "confirmed" -> 2
                  [] status = "finalized" -> 3
                  [] OTHER -> 0

\* Mutant: whatever has a status is confirmed.
ReachesUnranked(e) == Rank(answer[e]) > 0

Reaches(e) == Rank(answer[e]) >= Rank(call.commitment)

\* verifySignature: an error on chain rejects; no status and no reply pend.
ReportVerification ==
  /\ AllSettled /\ call.method = "verify"
  /\ LET confirmed == {e \in Endpoints : Reaches(e)}
         rejected == {e \in Endpoints : answer[e] = "rejected"}
     IN  Return([kind |-> "verified", confirmedBy |-> confirmed, rejectedBy |-> rejected,
                 pendingAt |-> Endpoints \ (confirmed \cup rejected)])

ReportHealth ==
  /\ AllSettled /\ call.method = "health"
  /\ Return([kind |-> "health", healthy |-> {e \in Endpoints : answer[e] = "latest block"}])

Next ==
  \/ \E e \in Endpoints : Reply(e) \/ Fail(e) \/ TimeOut(e)
  \/ DecideAgreement
  \/ NextRoute
  \/ ReportVerification
  \/ ReportHealth

Spec == Init /\ [][Next]_vars

\* The timer of a route fires if nothing else does; the caller's code runs.
FairSpec ==
  /\ Spec
  /\ \A e \in Endpoints : WF_vars(TimeOut(e))
  /\ WF_vars(DecideAgreement \/ NextRoute \/ ReportVerification \/ ReportHealth)

-----------------------------------------------------------------------------
(* What must hold.                                                         *)

Returned(method) == call.method = method /\ result # Nothing
Routes(v) == Cardinality({e \in Endpoints : answer[e] = v})
Operators(v) == Cardinality({Provider[e] : e \in {f \in Endpoints : answer[f] = v}})

\* A value is returned from a quorum read or a broadcast only when every route
\* was heard, the routes named are exactly those that gave it, they meet both
\* thresholds - by default a majority of the configured routes, not of those
\* that answered - and no other value was given more often.
ValueIsBacked ==
  (Returned("quorum") \/ Returned("broadcast")) /\ result.kind = "value" =>
    LET v == result.value
    IN  /\ \A e \in Endpoints : answer[e] # "waiting"
        /\ result.selected = {e \in Endpoints : answer[e] = v}
        /\ Routes(v) >= call.agreement /\ Operators(v) >= call.providers
        /\ Routes(v) >= 1
        /\ Returned("quorum") /\ call.agreement = Unset => 2 * Routes(v) > Count
        /\ \A w \in Values : Routes(w) <= Routes(v)

\* A read whose threshold is a majority fails only when no value meets both
\* thresholds: disagreement or outage of some routes cannot hide a quorum.
QuorumIsFound ==
  /\ Returned("quorum") /\ result = Failure
  /\ call.agreement = Unset \/ 2 * call.agreement > Count
  => \A v \in Values :
       \/ Routes(v) < call.agreement \/ 2 * Routes(v) <= Count
       \/ Operators(v) < call.providers \/ Operators(v) < 1

\* First-success falls over in the configured order, asks one route at a time,
\* and gives up only when every route has failed it.
FailsOverInOrder ==
  call.method = "first" =>
    /\ \A e, f \in Endpoints : e < f /\ answer[f] # "unsent" =>
         answer[e] \in {"failed", "timed out", "undefined"}
    /\ result = Failure => \A e \in Endpoints : answer[e] # "unsent"
    /\ result.kind = "value" => \E e \in Endpoints :
         /\ result.selected = {e} /\ answer[e] = result.value
         /\ \A f \in Endpoints : f > e => answer[f] = "unsent"

\* A verification names every route once, and none as confirming that did not
\* report the commitment asked for without an error.
VerificationIsTruthful ==
  result.kind = "verified" =>
    /\ result.confirmedBy \cup result.rejectedBy \cup result.pendingAt = Endpoints
    /\ result.confirmedBy \cap result.rejectedBy = {}
    /\ result.pendingAt \cap (result.confirmedBy \cup result.rejectedBy) = {}
    /\ \A e \in result.confirmedBy :
         CASE call.commitment = "finalized" -> answer[e] = "finalized"
           [] call.commitment = "confirmed" -> answer[e] \in {"confirmed", "finalized"}
           [] OTHER -> answer[e] \in Commitments \cup {"unranked"}

\* Every call returns, although no route may ever answer.
CallReturns == <>(result # Nothing)

\* docs/threat-model.md: "Confirmation evidence identifies which endpoints
\* agreed, rejected, failed, or remained pending."  Then no route that failed
\* is reported as one at which the transaction is pending.
FailuresAreIdentified ==
  result.kind = "verified" =>
    \A e \in result.pendingAt : answer[e] \notin {"failed", "timed out"}
=============================================================================
