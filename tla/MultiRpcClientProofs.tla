------------------------ MODULE MultiRpcClientProofs ------------------------
(***************************************************************************)
(* Proofs about one call of the multi-route client                         *)
(* (src/core/multi-rpc-client.ts), for any number of endpoints, however    *)
(* they are distributed over operators, any values and any thresholds.     *)
(***************************************************************************)
EXTENDS MultiRpcClient, FiniteSetTheorems, TLAPS

Failed == {"failed", "timed out", "undefined"}

\* A route holds a reply of the method, or the reason why there is none.
RepliesFit ==
  \A e \in Endpoints : answer[e] \in Replies \cup {"unsent", "waiting", "failed", "timed out"}

\* First-success has asked the routes up to one, and all before it failed.
AskedInOrder ==
  call.method = "first" =>
    \E k \in Endpoints : \A e \in Endpoints :
      /\ e > k <=> answer[e] = "unsent"
      /\ e < k => answer[e] \in Failed

\* The other calls ask every route at once.
AllAsked == call.method # "first" => \A e \in Endpoints : answer[e] # "unsent"

\* What is true of the answers whenever the caller may decide.
AnswersInv == TypeOK /\ RepliesFit /\ AskedInOrder /\ AllAsked

ResultInv == ValueIsBacked /\ QuorumIsFound /\ FailsOverInOrder /\ VerificationIsTruthful

CallInv == AnswersInv /\ ResultInv

-----------------------------------------------------------------------------
(* Groups of endpoints and their sizes.                                    *)

LEMMA EndpointsFinite ==
  /\ Count \in Nat /\ Count >= 1
  /\ IsFiniteSet(Endpoints) /\ Cardinality(Endpoints) = Count
BY ClientAssumption, FS_Interval DEF Endpoints

\* The groups of two values share no endpoint: together they are at most all.
LEMMA GroupsShareTheEndpoints ==
  /\ \A v : /\ IsFiniteSet(Group(v)) /\ Cardinality(Group(v)) \in Nat
            /\ Cardinality(Group(v)) <= Count
            /\ Group(v) # {} => Cardinality(Group(v)) >= 1
            /\ Cardinality(Group(v)) >= 1 => Group(v) # {}
  /\ \A v, w : v # w => Cardinality(Group(v)) + Cardinality(Group(w)) <= Count
<1>1. ASSUME NEW v
      PROVE  /\ IsFiniteSet(Group(v)) /\ Cardinality(Group(v)) \in Nat
             /\ Cardinality(Group(v)) <= Count
             /\ Group(v) # {} <=> Cardinality(Group(v)) >= 1
  <2>1. Group(v) \in SUBSET Endpoints
    BY DEF Group
  <2>2. IsFiniteSet(Group(v)) /\ Cardinality(Group(v)) <= Count
    BY <2>1, EndpointsFinite, FS_Subset
  <2>3. Cardinality(Group(v)) \in Nat /\ (Cardinality(Group(v)) = 0 <=> Group(v) = {})
    BY <2>2, FS_CardinalityType, FS_EmptySet
  <2> QED
    BY <2>2, <2>3
<1>2. ASSUME NEW v, NEW w, v # w
      PROVE  Cardinality(Group(v)) + Cardinality(Group(w)) <= Count
  <2>1. Group(v) \cap Group(w) = {}
    BY <1>2 DEF Group
  <2>2. /\ IsFiniteSet(Group(v)) /\ IsFiniteSet(Group(w))
        /\ Cardinality(Group(v)) \in Nat /\ Cardinality(Group(w)) \in Nat
    BY <1>1
  <2>3. ~(Cardinality(Group(v)) + Cardinality(Group(w)) > Cardinality(Endpoints))
    <3>1. Group(v) \subseteq Endpoints /\ Group(w) \subseteq Endpoints
      BY DEF Group
    <3> QED
      BY <2>1, <3>1, EndpointsFinite, FS_MajoritiesIntersect
  <2> QED
    BY <2>2, <2>3, EndpointsFinite
<1> QED
  BY <1>1, <1>2

\* Endpoints have at most as many operators, and one endpoint has one.
LEMMA OperatorsCounted ==
  ASSUME NEW S \in SUBSET Endpoints
  PROVE  /\ Cardinality(ProvidersOf(S)) \in Nat
         /\ S # {} => Cardinality(ProvidersOf(S)) >= 1
<1>1. IsFiniteSet(S)
  BY EndpointsFinite, FS_Subset
<1>2. [e \in S |-> Provider[e]] \in Surjection(S, ProvidersOf(S))
  BY DEF Surjection, ProvidersOf
<1>3. IsFiniteSet(ProvidersOf(S))
  BY <1>1, <1>2, FS_Surjection
<1>4. S # {} => ProvidersOf(S) # {}
  BY DEF ProvidersOf
<1> QED
  BY <1>3, <1>4, FS_CardinalityType, FS_EmptySet

\* A group of more than half of the endpoints is the one that wins.
LEMMA MajorityWins ==
  ASSUME NEW v \in Values, 2 * Cardinality(Group(v)) > Count
  PROVE  Wins(v)
<1>1. Group(v) # {}
  BY GroupsShareTheEndpoints, EndpointsFinite
<1>2. \A w \in Values \ {v} : Cardinality(Group(w)) < Cardinality(Group(v))
  <2> TAKE w \in Values \ {v}
  <2>1. /\ Cardinality(Group(v)) \in Nat /\ Cardinality(Group(w)) \in Nat
        /\ Cardinality(Group(v)) + Cardinality(Group(w)) <= Count
    BY GroupsShareTheEndpoints
  <2> QED
    BY <2>1, EndpointsFinite
<1> QED
  BY <1>1, <1>2 DEF Wins

-----------------------------------------------------------------------------
(* The answers.                                                            *)

LEMMA RepliesTyped ==
  ASSUME call \in Calls
  PROVE  /\ Replies \subseteq Values \cup NotAValue
         /\ "unsent" \notin Replies /\ "waiting" \notin Replies
         /\ "failed" \notin Replies /\ "timed out" \notin Replies
         /\ call.method \notin {"verify", "health"} => Replies = Values \cup {"undefined"}
         /\ call.method = "verify" => Replies = Statuses
<1>1. Values \cap NotAValue = {}
  BY ClientAssumption
<1>2. CASE call.method = "verify"
  BY <1>2 DEF Replies, NotAValue, Statuses, Commitments
<1>3. CASE call.method = "health"
  BY <1>3 DEF Replies, NotAValue, Statuses, Commitments
<1>4. CASE call.method \notin {"verify", "health"}
  BY <1>1, <1>4 DEF Replies, NotAValue, Statuses, Commitments
<1> QED
  BY <1>2, <1>3, <1>4

LEMMA SettleAnswers ==
  ASSUME AnswersInv, NEW e \in Endpoints,
         NEW outcome \in Replies \cup {"failed", "timed out"}, Settle(e, outcome)
  PROVE  AnswersInv' /\ (result = Nothing)'
<1> USE DEF AnswersInv
<1>1. /\ answer[e] = "waiting" /\ answer' = [answer EXCEPT ![e] = outcome]
      /\ call' = call /\ result' = result /\ result = Nothing
  BY DEF Settle
<1>2. Replies' = Replies
  BY <1>1 DEF Replies
<1>3. outcome \in Values \cup NotAValue /\ outcome # "unsent"
  BY RepliesTyped DEF TypeOK, NotAValue
<1>4. TypeOK'
  BY <1>1, <1>3 DEF TypeOK
<1>5. RepliesFit'
  BY <1>1, <1>2 DEF RepliesFit, TypeOK
<1>6. ASSUME call.method = "first" PROVE AskedInOrder'
  <2>1. PICK k \in Endpoints : \A f \in Endpoints :
          (f > k <=> answer[f] = "unsent") /\ (f < k => answer[f] \in Failed)
    BY <1>6 DEF AskedInOrder
  <2>2. ~(e > k) /\ ~(e < k)
    BY <1>1, <2>1 DEF Failed
  <2>3. \A f \in Endpoints :
          (f > k <=> answer'[f] = "unsent") /\ (f < k => answer'[f] \in Failed)
    BY <1>1, <1>3, <2>1, <2>2 DEF TypeOK
  <2> QED
    BY <2>1, <2>3 DEF AskedInOrder
<1>7. AllAsked'
  BY <1>1, <1>3 DEF AllAsked, TypeOK
<1> QED
  BY <1>1, <1>4, <1>5, <1>6, <1>7 DEF AskedInOrder

\* The route that first-success awaits is the last it has asked.
LEMMA AwaitedIsLast ==
  ASSUME AnswersInv, call.method = "first"
  PROVE  /\ Awaited \in Endpoints
         /\ \A e \in Endpoints : e > Awaited <=> answer[e] = "unsent"
         /\ \A e \in Endpoints : e < Awaited => answer[e] \in Failed
<1>1. PICK k \in Endpoints : \A f \in Endpoints :
        (f > k <=> answer[f] = "unsent") /\ (f < k => answer[f] \in Failed)
  BY DEF AskedInOrder, AnswersInv
<1>2. answer[k] # "unsent" /\ \A f \in Endpoints : f > k => answer[f] = "unsent"
  BY <1>1 DEF Endpoints
<1>3. /\ Awaited \in Endpoints /\ answer[Awaited] # "unsent"
      /\ \A f \in Endpoints : f > Awaited => answer[f] = "unsent"
  BY <1>2 DEF Awaited
<1>4. Awaited = k
  BY <1>1, <1>2, <1>3 DEF Endpoints
<1> QED
  BY <1>1, <1>4

LEMMA InitAnswers == Init => AnswersInv /\ result = Nothing
<1> SUFFICES ASSUME Init PROVE AnswersInv /\ result = Nothing
  OBVIOUS
<1>1. TypeOK
  BY DEF Init, TypeOK, Results, NotAValue
<1>2. 1 \in Endpoints /\ \A e \in Endpoints : e \in Nat /\ ~(e < 1)
  BY EndpointsFinite DEF Endpoints
<1>3. AskedInOrder
  BY <1>2 DEF Init, AskedInOrder
<1>4. RepliesFit /\ AllAsked
  BY DEF Init, RepliesFit, AllAsked
<1> QED
  BY <1>1, <1>3, <1>4 DEF AnswersInv, Init

-----------------------------------------------------------------------------
(* The decisions.  Before one is made nothing is claimed.                  *)

LEMMA UndecidedClaimsNothing == AnswersInv /\ result = Nothing => ResultInv
<1> SUFFICES ASSUME AnswersInv, result = Nothing
             PROVE  ResultInv
  OBVIOUS
<1>1. /\ result.kind = "none" /\ result # Failure
      /\ \A method : ~Returned(method)
  BY DEF Nothing, Failure, Returned
<1>2. FailsOverInOrder
  <2> SUFFICES ASSUME call.method = "first"
               PROVE  \A e, f \in Endpoints : e < f /\ answer[f] # "unsent" =>
                        answer[e] \in Failed
    BY <1>1 DEF FailsOverInOrder, Failed
  <2>1. PICK k \in Endpoints : \A f \in Endpoints :
          (f > k <=> answer[f] = "unsent") /\ (f < k => answer[f] \in Failed)
    BY DEF AskedInOrder, AnswersInv
  <2> QED
    BY <2>1 DEF Endpoints
<1> QED
  BY <1>1, <1>2 DEF ResultInv, ValueIsBacked, QuorumIsFound, VerificationIsTruthful

\* A value returned by a quorum read or a broadcast meets what it was to meet.
LEMMA WinnerIsBacked ==
  ASSUME AnswersInv, AllSettled, call.method \in {"quorum", "broadcast"},
         NEW v \in Values, Wins(v), Enough(v),
         Return([kind |-> "value", value |-> v, selected |-> Group(v)])
  PROVE  AnswersInv' /\ ResultInv'
<1>1. /\ call' = call /\ answer' = answer
      /\ result' = [kind |-> "value", value |-> v, selected |-> Group(v)]
  BY DEF Return
<1>2. call.agreement \in Nat \cup {Unset} /\ call.providers \in Nat \cup {Unset}
  BY ClientAssumption DEF AnswersInv, TypeOK
<1>3. /\ Cardinality(Group(v)) \in Nat /\ Cardinality(Group(v)) >= 1
      /\ \A w : Cardinality(Group(w)) \in Nat
  BY GroupsShareTheEndpoints DEF Wins
<1>4. Cardinality(ProvidersOf(Group(v))) \in Nat
  BY OperatorsCounted DEF Group
<1>5. Cardinality(Group(v)) >= call.agreement
  BY <1>2, <1>3 DEF Enough, Agreement, Unset
<1>6. Cardinality(ProvidersOf(Group(v))) >= call.providers
  BY <1>2, <1>4 DEF Enough, ProviderAgreement, Unset
<1>7. call.method = "quorum" /\ call.agreement = Unset => 2 * Cardinality(Group(v)) > Count
  BY <1>3, EndpointsFinite DEF Enough, Agreement
<1>8. \A w \in Values : Cardinality(Group(w)) <= Cardinality(Group(v))
  BY <1>3 DEF Wins
<1>9. \A e \in Endpoints : answer[e] # "waiting"
  BY DEF AllSettled, Settled
<1>10. ValueIsBacked'
  <2>1. \A w : Routes(w)' = Cardinality(Group(w))
    BY <1>1 DEF Routes, Group
  <2>2. \A w : Operators(w)' = Cardinality(ProvidersOf(Group(w)))
    BY <1>1 DEF Operators, ProvidersOf, Group
  <2>3. result'.value = v /\ result'.selected = {e \in Endpoints : answer'[e] = v}
    BY <1>1 DEF Group
  <2> QED
    BY <2>1, <2>2, <2>3, <1>1, <1>3, <1>5, <1>6, <1>7, <1>8, <1>9
    DEF ValueIsBacked, Returned
<1>11. QuorumIsFound' /\ VerificationIsTruthful' /\ FailsOverInOrder'
  BY <1>1 DEF QuorumIsFound, VerificationIsTruthful, FailsOverInOrder, Failure
<1>12. result' \in Results
  <2>1. Group(v) \in SUBSET Endpoints
    BY DEF Group
  <2> QED
    BY <2>1, <1>1 DEF Results
<1>13. AnswersInv'
  BY <1>1, <1>12 DEF AnswersInv, TypeOK, RepliesFit, AskedInOrder, AllAsked, Replies
<1> QED
  BY <1>10, <1>11, <1>13 DEF ResultInv

\* A quorum read that fails has missed no value that met its thresholds.
LEMMA FailureHidesNoQuorum ==
  ASSUME AnswersInv, AllSettled, call.method \in {"quorum", "broadcast"},
         \A v \in Values : ~(Wins(v) /\ Enough(v)), Return(Failure)
  PROVE  AnswersInv' /\ ResultInv'
<1>1. call' = call /\ answer' = answer /\ result' = Failure
  BY DEF Return
<1>2. call.agreement \in Nat \cup {Unset} /\ call.providers \in Nat \cup {Unset}
  BY ClientAssumption DEF AnswersInv, TypeOK
<1>3. ASSUME NEW v \in Values, call.method = "quorum",
             Cardinality(Group(v)) >= call.agreement, 2 * Cardinality(Group(v)) > Count,
             Cardinality(ProvidersOf(Group(v))) >= call.providers,
             Cardinality(ProvidersOf(Group(v))) >= 1
      PROVE  FALSE
  <2>1. Wins(v)
    BY <1>3, MajorityWins
  <2>2. Cardinality(Group(v)) \in Nat
    BY GroupsShareTheEndpoints
  <2>3. Cardinality(Group(v)) >= Agreement
    BY <1>2, <1>3, <2>2, EndpointsFinite DEF Agreement
  <2>4. Cardinality(ProvidersOf(Group(v))) >= ProviderAgreement
    BY <1>3 DEF ProviderAgreement
  <2> QED
    BY <2>1, <2>3, <2>4 DEF Enough
<1>4. QuorumIsFound'
  <2>1. \A v \in Values : /\ Routes(v)' = Cardinality(Group(v))
                          /\ Operators(v)' = Cardinality(ProvidersOf(Group(v)))
                          /\ Cardinality(Group(v)) \in Nat
                          /\ Cardinality(ProvidersOf(Group(v))) \in Nat
    <3> TAKE v \in Values
    <3>1. Routes(v)' = Cardinality(Group(v))
      BY <1>1 DEF Routes, Group
    <3>2. Operators(v)' = Cardinality(ProvidersOf(Group(v)))
      BY <1>1 DEF Operators, ProvidersOf, Group
    <3>3. Cardinality(ProvidersOf(Group(v))) \in Nat
      BY OperatorsCounted DEF Group
    <3> QED
      BY <3>1, <3>2, <3>3, GroupsShareTheEndpoints
  <2>2. call.agreement \in Int /\ call.providers \in Int /\ Count \in Nat
    BY <1>2, EndpointsFinite DEF Unset
  <2>3. SUFFICES ASSUME call.method = "quorum", NEW v \in Values
                 PROVE  \/ Routes(v)' < call.agreement \/ 2 * Routes(v)' <= Count
                        \/ Operators(v)' < call.providers \/ Operators(v)' < 1
    BY <1>1 DEF QuorumIsFound, Returned
  <2> QED
    BY <1>3, <2>1, <2>2, <2>3
<1>5. ValueIsBacked' /\ VerificationIsTruthful' /\ FailsOverInOrder'
  BY <1>1 DEF ValueIsBacked, VerificationIsTruthful, FailsOverInOrder, Failure
<1>6. AnswersInv'
  BY <1>1 DEF AnswersInv, TypeOK, RepliesFit, AskedInOrder, AllAsked, Replies, Results
<1> QED
  BY <1>4, <1>5, <1>6 DEF ResultInv

\* First-success: the awaited route answers, or the next is asked, or all failed.
LEMMA NextRouteInOrder ==
  ASSUME AnswersInv, NextRoute
  PROVE  AnswersInv' /\ ResultInv'
<1>1. /\ call.method = "first" /\ result = Nothing /\ Awaited \in Endpoints
      /\ \A e \in Endpoints : e > Awaited <=> answer[e] = "unsent"
      /\ \A e \in Endpoints : e < Awaited => answer[e] \in Failed
  BY AwaitedIsLast DEF NextRoute
<1>2. answer[Awaited] \in Values \cup Failed
  BY <1>1, RepliesTyped DEF AnswersInv, TypeOK, RepliesFit, NextRoute, Settled, Failed
<1>3. CASE /\ answer[Awaited] \in Values
           /\ Return([kind |-> "value", value |-> answer[Awaited], selected |-> {Awaited}])
  <2>1. PICK a : a = Awaited
    OBVIOUS
  <2>2. /\ call' = call /\ answer' = answer
        /\ result' = [kind |-> "value", value |-> answer[a], selected |-> {a}]
    BY <1>3, <2>1 DEF Return
  <2>3. AnswersInv'
    BY <1>1, <1>3, <2>1, <2>2
    DEF AnswersInv, TypeOK, RepliesFit, AskedInOrder, AllAsked, Replies, Results
  <2>4. FailsOverInOrder'
    <3>1. /\ a \in Endpoints /\ \A e \in Endpoints : e > a => answer'[e] = "unsent"
          /\ result'.selected = {a} /\ result'.value = answer'[a] /\ result' # Failure
      BY <1>1, <2>1, <2>2 DEF Failure
    <3>2. \A e, f \in Endpoints : e < f /\ answer'[f] # "unsent" => answer'[e] \in Failed
      BY <1>1, <2>1, <2>2, EndpointsFinite DEF Endpoints
    <3> QED
      BY <3>1, <3>2 DEF FailsOverInOrder, Failed
  <2>5. ValueIsBacked' /\ QuorumIsFound' /\ VerificationIsTruthful'
    BY <1>1, <2>2 DEF ValueIsBacked, QuorumIsFound, VerificationIsTruthful, Returned
  <2> QED
    BY <2>3, <2>4, <2>5 DEF ResultInv
<1>4. CASE /\ answer[Awaited] \notin Values /\ Awaited < Count
           /\ answer' = [answer EXCEPT ![Awaited + 1] = "waiting"]
           /\ UNCHANGED <<call, result>>
  <2>1. PICK a : a = Awaited
    OBVIOUS
  <2>2. /\ a \in Endpoints /\ a + 1 \in Endpoints /\ answer[a] \in Failed
        /\ answer' = [answer EXCEPT ![a + 1] = "waiting"]
        /\ call' = call /\ result' = Nothing /\ result = Nothing
    BY <1>1, <1>2, <1>4, <2>1, EndpointsFinite DEF Endpoints
  <2>3. TypeOK'
    BY <2>2 DEF AnswersInv, TypeOK, NotAValue
  <2>4. Replies' = Replies
    BY <2>2 DEF Replies
  <2>5. RepliesFit'
    BY <2>2, <2>4 DEF AnswersInv, TypeOK, RepliesFit
  <2>6. \A e \in Endpoints : /\ e > a + 1 <=> answer'[e] = "unsent"
                             /\ e < a + 1 => answer'[e] \in Failed
    BY <1>1, <2>1, <2>2 DEF AnswersInv, TypeOK, Endpoints
  <2>7. AskedInOrder' /\ AllAsked'
    BY <1>1, <2>2, <2>6 DEF AskedInOrder, AllAsked
  <2>8. AnswersInv'
    BY <2>3, <2>5, <2>7 DEF AnswersInv
  <2>9. (result = Nothing)'
    BY <2>2
  <2>10. ResultInv'
    BY <2>8, <2>9, UndecidedClaimsNothing, PTL
  <2> QED
    BY <2>8, <2>10
<1>5. CASE answer[Awaited] \notin Values /\ Awaited = Count /\ Return(Failure)
  <2>1. /\ call' = call /\ answer' = answer /\ result' = Failure
        /\ \A e \in Endpoints : answer[e] # "unsent"
    BY <1>1, <1>5, EndpointsFinite DEF Return, Endpoints
  <2>2. AnswersInv'
    BY <2>1 DEF AnswersInv, TypeOK, RepliesFit, AskedInOrder, AllAsked, Replies, Results
  <2>3. \A e, f \in Endpoints : e < f /\ answer'[f] # "unsent" => answer'[e] \in Failed
    BY <1>1, <1>5, <2>1, EndpointsFinite DEF Endpoints
  <2>4. FailsOverInOrder'
    BY <2>1, <2>3 DEF FailsOverInOrder, Failure, Failed
  <2>5. ValueIsBacked' /\ QuorumIsFound' /\ VerificationIsTruthful'
    BY <1>1, <2>1 DEF ValueIsBacked, QuorumIsFound, VerificationIsTruthful, Returned, Failure
  <2> QED
    BY <2>2, <2>4, <2>5 DEF ResultInv
<1> QED
  BY <1>3, <1>4, <1>5 DEF NextRoute

\* A status of a confirming route is at or past the commitment asked for.
LEMMA RankIsTruthful ==
  ASSUME NEW e \in Endpoints, Reaches(e), call.commitment \in Commitments,
         answer[e] \in Statuses \cup {"unsent", "waiting", "failed", "timed out"}
  PROVE  /\ call.commitment = "finalized" => answer[e] = "finalized"
         /\ call.commitment = "confirmed" => answer[e] \in {"confirmed", "finalized"}
         /\ answer[e] \in Commitments \cup {"unranked"}
<1> DEFINE had == Rank(answer[e])
           need == Rank(call.commitment)
<1>1. had >= need
  BY DEF Reaches
<1>2. \/ call.commitment = "finalized" /\ need = 3
      \/ call.commitment = "confirmed" /\ need = 2
      \/ call.commitment = "processed" /\ need = 1
  BY DEF Rank, Commitments
<1>3. \/ answer[e] \in {"processed", "unranked"} /\ had = 1
      \/ answer[e] = "confirmed" /\ had = 2
      \/ answer[e] = "finalized" /\ had = 3
      \/ had = 0
  BY DEF Rank, Statuses, Commitments
<1> HIDE DEF had, need
<1>4. /\ call.commitment = "finalized" => answer[e] = "finalized"
      /\ call.commitment = "confirmed" => answer[e] \in {"confirmed", "finalized"}
      /\ answer[e] \in {"processed", "unranked", "confirmed", "finalized"}
  BY ONLY <1>1, <1>2, <1>3
<1> QED
  BY <1>4 DEF Commitments

LEMMA ReportIsTruthful ==
  ASSUME AnswersInv, ReportVerification
  PROVE  AnswersInv' /\ ResultInv'
<1> DEFINE confirmed == {e \in Endpoints : Reaches(e)}
           rejected == {e \in Endpoints : answer[e] = "rejected"}
           pending == Endpoints \ (confirmed \cup rejected)
<1>1. /\ call' = call /\ answer' = answer /\ call.method = "verify"
      /\ result' = [kind |-> "verified", confirmedBy |-> confirmed,
                    rejectedBy |-> rejected, pendingAt |-> pending]
  BY DEF ReportVerification, Return
<1>2. AnswersInv'
  <2>1. result' \in Results
    BY <1>1 DEF Results
  <2> QED
    BY <1>1, <2>1 DEF AnswersInv, TypeOK, RepliesFit, AskedInOrder, AllAsked, Replies
<1>3. call.commitment \in Commitments
  BY ClientAssumption DEF AnswersInv, TypeOK
<1>4. \A e \in Endpoints :
        answer[e] \in Statuses \cup {"unsent", "waiting", "failed", "timed out"}
  BY <1>1, RepliesTyped DEF AnswersInv, TypeOK, RepliesFit
<1>5. \A e \in confirmed :
        /\ call.commitment = "finalized" => answer[e] = "finalized"
        /\ call.commitment = "confirmed" => answer[e] \in {"confirmed", "finalized"}
        /\ answer[e] \in Commitments \cup {"unranked"}
  BY <1>3, <1>4, RankIsTruthful
<1>6. confirmed \cap rejected = {}
  BY <1>5 DEF Commitments
<1>7. VerificationIsTruthful'
  <2> HIDE DEF confirmed, rejected, pending
  <2>1. /\ result'.confirmedBy = confirmed /\ result'.rejectedBy = rejected
        /\ result'.pendingAt = pending
    BY <1>1
  <2>2. /\ confirmed \cup rejected \cup pending = Endpoints
        /\ pending \cap (confirmed \cup rejected) = {}
    BY DEF confirmed, rejected, pending
  <2>3. \A e \in confirmed :
          CASE call.commitment = "finalized" -> answer[e] = "finalized"
            [] call.commitment = "confirmed" -> answer[e] \in {"confirmed", "finalized"}
            [] OTHER -> answer[e] \in Commitments \cup {"unranked"}
    BY <1>5
  <2> QED
    BY <1>1, <1>6, <2>1, <2>2, <2>3 DEF VerificationIsTruthful
<1>8. ValueIsBacked' /\ QuorumIsFound' /\ FailsOverInOrder'
  BY <1>1 DEF ValueIsBacked, QuorumIsFound, FailsOverInOrder, Returned
<1> QED
  BY <1>2, <1>7, <1>8 DEF ResultInv

LEMMA HealthClaimsNoMore ==
  ASSUME AnswersInv, ReportHealth
  PROVE  AnswersInv' /\ ResultInv'
<1>1. PICK S \in SUBSET Endpoints :
        /\ call' = call /\ answer' = answer /\ call.method = "health"
        /\ result' = [kind |-> "health", healthy |-> S]
  BY DEF ReportHealth, Return
<1>2. AnswersInv'
  BY <1>1 DEF AnswersInv, TypeOK, RepliesFit, AskedInOrder, AllAsked, Replies, Results
<1>3. ResultInv'
  BY <1>1 DEF ResultInv, ValueIsBacked, QuorumIsFound, FailsOverInOrder,
              VerificationIsTruthful, Returned, Failure
<1> QED
  BY <1>2, <1>3

-----------------------------------------------------------------------------
LEMMA CallStep ==
  ASSUME CallInv, [Next]_vars
  PROVE  CallInv'
<1> USE DEF CallInv
<1>1. ASSUME NEW e \in Endpoints, NEW outcome \in Replies \cup {"failed", "timed out"},
             Settle(e, outcome)
      PROVE  CallInv'
  <2>1. AnswersInv' /\ (result = Nothing)'
    BY <1>1, SettleAnswers
  <2> QED
    BY <2>1, UndecidedClaimsNothing, PTL
<1>2. ASSUME NEW e \in Endpoints, Reply(e) \/ Fail(e) \/ TimeOut(e)
      PROVE  CallInv'
  BY <1>1, <1>2 DEF Reply, Fail, TimeOut
<1>3. CASE DecideAgreement
  BY <1>3, WinnerIsBacked, FailureHidesNoQuorum DEF DecideAgreement
<1>4. CASE NextRoute
  BY <1>4, NextRouteInOrder
<1>5. CASE ReportVerification
  BY <1>5, ReportIsTruthful
<1>6. CASE ReportHealth
  BY <1>6, HealthClaimsNoMore
<1>7. CASE UNCHANGED vars
  <2>1. AnswersInv'
    BY <1>7 DEF vars, AnswersInv, TypeOK, RepliesFit, AskedInOrder, AllAsked, Replies
  <2>2. \A v : Routes(v)' = Routes(v) /\ Operators(v)' = Operators(v)
    BY <1>7 DEF vars, Routes, Operators
  <2>3. ValueIsBacked' /\ QuorumIsFound'
    BY <1>7, <2>2 DEF vars, ResultInv, ValueIsBacked, QuorumIsFound, Returned
  <2>4. FailsOverInOrder' /\ VerificationIsTruthful'
    BY <1>7 DEF vars, ResultInv, FailsOverInOrder, VerificationIsTruthful
  <2> QED
    BY <2>1, <2>3, <2>4 DEF ResultInv
<1> QED
  BY <1>2, <1>3, <1>4, <1>5, <1>6, <1>7 DEF Next

\* What the answers and the result of every call satisfy, at every moment of it:
\* the inductive invariant of the client.
THEOREM CallInvariant == Spec => []CallInv
<1>1. Init => CallInv
  BY InitAnswers, UndecidedClaimsNothing DEF CallInv
<1>2. CallInv /\ [Next]_vars => CallInv'
  BY CallStep
<1> QED
  BY <1>1, <1>2, PTL DEF Spec

\* The call, the answers of its routes and its result keep their types: no route
\* is given an answer its method cannot have.
THEOREM ClientTypeCorrect == Spec => []TypeOK
<1>1. CallInv => TypeOK
  BY DEF CallInv, AnswersInv
<1> QED
  BY <1>1, CallInvariant, PTL

\* requestQuorum and broadcastTransaction return only a value that every route
\* was heard about, that meets both thresholds, by default a majority of the
\* configured routes, and that no other value outnumbers.
THEOREM ReturnedValuesAreBacked == Spec => []ValueIsBacked
<1>1. CallInv => ValueIsBacked
  BY DEF CallInv, ResultInv
<1> QED
  BY <1>1, CallInvariant, PTL

\* requestQuorum with a majority threshold fails only when no value met it: the
\* choice of the winning group cannot pass over one that did.
THEOREM QuorumsAreFound == Spec => []QuorumIsFound
<1>1. CallInv => QuorumIsFound
  BY DEF CallInv, ResultInv
<1> QED
  BY <1>1, CallInvariant, PTL

\* requestFirstSuccess asks the routes in the configured order, one at a time,
\* and gives up only when all of them have failed it.
THEOREM FailoverKeepsOrder == Spec => []FailsOverInOrder
<1>1. CallInv => FailsOverInOrder
  BY DEF CallInv, ResultInv
<1> QED
  BY <1>1, CallInvariant, PTL

\* verifySignature reports every route once, and none as confirming that did not
\* report the commitment asked for, or a later one, without an error.
THEOREM VerificationsAreTruthful == Spec => []VerificationIsTruthful
<1>1. CallInv => VerificationIsTruthful
  BY DEF CallInv, ResultInv
<1> QED
  BY <1>1, CallInvariant, PTL
=============================================================================
