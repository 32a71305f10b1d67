----------------------- MODULE SessionRevocationProofs ----------------------
(***************************************************************************)
(* Proofs about SessionRevocation, for any number of instances, sessions   *)
(* and requests and any bounds.                                            *)
(***************************************************************************)
EXTENDS SessionRevocation, TLAPS

-----------------------------------------------------------------------------
(* Type correctness.                                                       *)

\* What the request's own variables range over.
RequestTypeOK ==
  /\ job \in [Requests -> Jobs]
  /\ phase \in [Requests -> Phases]
  /\ outcome \in [Requests -> Outcomes]
  /\ hit \subseteq Requests
  /\ late \subseteq Requests /\ live \subseteq Requests /\ sawUp \subseteq Requests

LEMMA OpenType ==
  ASSUME TypeOK, NEW r \in Requests, NEW kind \in Kinds, NEW i \in Instances,
         NEW s, s \in (IF kind = "health" THEN {"none"} ELSE Sessions),
         NEW next \in Phases, NEW answer \in Outcomes,
         Open(r, kind, i, s, next, answer)
  PROVE  RequestTypeOK'
<1>1. [kind |-> kind, at |-> i, session |-> s] \in Jobs
  BY DEF Jobs
<1> QED
  BY <1>1 DEF TypeOK, Open, RequestTypeOK

LEMMA MoveType ==
  ASSUME TypeOK, NEW r \in Requests, NEW next \in Phases,
         NEW answer \in Outcomes, Move(r, next, answer)
  PROVE  RequestTypeOK'
BY DEF TypeOK, Move, RequestTypeOK, history

LEMMA AnswerType ==
  ASSUME TypeOK, NEW r \in Requests, NEW found, Answer(r, found)
  PROVE  RequestTypeOK'
BY DEF TypeOK, Answer, RequestTypeOK, history, Phases

LEMMA IssueType ==
  ASSUME TypeOK, NEW i \in Instances, NEW s \in Sessions, Issue(i, s)
  PROVE  /\ expiresAt' \in [Sessions -> Nat]
         /\ signer' \in [Sessions -> Keys]
<1>1. Clock(i) + Lifetime \in Nat
  BY LifetimeAssumption, ShapeAssumption DEF TypeOK, Clock, Clocks
<1>2. Key(i) \in Keys
  BY ShapeAssumption DEF TypeOK, Key, SharedKey, Keys, Clocks
<1> QED
  BY <1>1, <1>2 DEF TypeOK, Issue

LEMMA InitType == Init => TypeOK
<1> SUFFICES ASSUME Init PROVE TypeOK
  OBVIOUS
<1>1. PICK by \in [Sessions -> Instances \cup {"none"}] :
       /\ expiresAt = [s \in Sessions |-> IF by[s] = "none" THEN 0
                                          ELSE skew[by[s]] + Lifetime]
       /\ signer = [s \in Sessions |-> IF by[s] = "none" THEN SharedKey
                                       ELSE Key(by[s])]
  BY DEF Init
<1>2. \A i \in Instances : Key(i) \in Keys /\ skew[i] + Lifetime \in Nat
  BY ShapeAssumption, LifetimeAssumption DEF Init, Key, SharedKey, Keys, Clocks
<1>3. SharedKey \in Keys
  BY ShapeAssumption DEF SharedKey, Keys, Clocks
<1>4. expiresAt \in [Sessions -> Nat]
  BY <1>1, <1>2
<1>5. signer \in [Sessions -> Keys]
  BY <1>1, <1>2, <1>3
<1>6. /\ revoked \in [Clocks -> SUBSET Sessions]
      /\ boots \in [Instances -> 0..MaxRestarts]
      /\ job \in [Requests -> Jobs]
      /\ phase \in [Requests -> Phases]
      /\ outcome \in [Requests -> Outcomes]
  BY ShapeAssumption DEF Init, Jobs, Phases, Outcomes
<1>7. now \in 0..MaxTime /\ up \in BOOLEAN
  BY ShapeAssumption DEF Init
<1> QED
  BY <1>4, <1>5, <1>6, <1>7 DEF Init, TypeOK

\* A job that was taken names an instance and a cookie.
LEMMA JobType ==
  ASSUME TypeOK, NEW r \in Requests, NEW kind \in Kinds, job[r].kind = kind
  PROVE  /\ job[r].at \in Instances
         /\ kind # "health" => job[r].session \in Sessions
BY DEF TypeOK, Jobs, NoJob, Kinds

LEMMA NextType == TypeOK /\ [Next]_vars => TypeOK'
<1> SUFFICES ASSUME TypeOK, [Next]_vars PROVE TypeOK'
  OBVIOUS
<1> USE DEF SessionsUnchanged, StoreUnchanged, WorldUnchanged
<1>1. ASSUME NEW r \in Requests, NEW i \in Instances, NEW s \in Sessions,
             BeginProtected(r, i, s)
      PROVE  TypeOK'
  <2>1. RequestTypeOK'
    BY <1>1, OpenType DEF BeginProtected, Kinds, Phases, Outcomes
  <2> QED
    BY <1>1, <2>1 DEF BeginProtected, TypeOK, RequestTypeOK
<1>2. ASSUME NEW r \in Requests, NEW i \in Instances, NEW s \in Sessions,
             BeginLogout(r, i, s)
      PROVE  TypeOK'
  <2>1. RequestTypeOK'
    BY <1>2, OpenType DEF BeginLogout, Kinds, Phases, Outcomes
  <2> QED
    BY <1>2, <2>1 DEF BeginLogout, TypeOK, RequestTypeOK
<1>3. ASSUME NEW r \in Requests, NEW i \in Instances, NEW s \in Sessions,
             NEW b \in BOOLEAN, BeginLogin(r, i, s, b)
      PROVE  TypeOK'
  <2>1. RequestTypeOK'
    BY <1>3, OpenType DEF BeginLogin, Kinds, Phases, Outcomes
  <2>2. expiresAt' \in [Sessions -> Nat] /\ signer' \in [Sessions -> Keys]
    BY <1>3, IssueType DEF BeginLogin, TypeOK
  <2> QED
    BY <1>3, <2>1, <2>2 DEF BeginLogin, TypeOK, RequestTypeOK
<1>4. ASSUME NEW r \in Requests, NEW i \in Instances, BeginHealth(r, i)
      PROVE  TypeOK'
  <2>1. RequestTypeOK'
    BY <1>4, OpenType DEF BeginHealth, Kinds, Phases, Outcomes
  <2> QED
    BY <1>4, <2>1 DEF BeginHealth, TypeOK, RequestTypeOK
<1>5. ASSUME NEW r \in Requests, StoreAnswers(r)
      PROVE  TypeOK'
  <2>1. \E found : Answer(r, found)
    BY <1>5 DEF StoreAnswers
  <2>2. RequestTypeOK'
    BY <2>1, AnswerType
  <2>3. revoked' \in [Clocks -> SUBSET Sessions]
    <3>1. CASE job[r].kind = "logout"
      BY <1>5, <3>1, JobType DEF StoreAnswers, Enter, TypeOK, Kinds
    <3>2. CASE job[r].kind = "protected"
      BY <1>5, <3>2 DEF StoreAnswers, Forget, TypeOK
    <3>3. CASE job[r].kind \notin {"logout", "protected"}
      BY <1>5, <3>3 DEF StoreAnswers, TypeOK
    <3> QED
      BY <3>1, <3>2, <3>3
  <2> QED
    BY <1>5, <2>2, <2>3 DEF StoreAnswers, TypeOK, RequestTypeOK
<1>6. ASSUME NEW s \in Sessions, StrayArrives(s)
      PROVE  TypeOK'
  <2>1. revoked' \in [Clocks -> SUBSET Sessions]
    BY <1>6 DEF StrayArrives, Enter, TypeOK
  <2> QED
    BY <1>6, <2>1 DEF StrayArrives, TypeOK, request, history
<1>7. ASSUME NEW r \in Requests, Resume(r)
      PROVE  TypeOK'
  <2>1. RequestTypeOK'
    BY <1>7, MoveType
       DEF Resume, ResumeProtected, ResumeLogout, ResumeLogin, ResumeHealth,
           Finish, Phases, Outcomes
  <2>2. CASE ResumeLogin(r)
    <3>1. job[r].session \in Sessions /\ job[r].at \in Instances
      BY <2>2, JobType DEF ResumeLogin, Answered, Kinds
    <3>2. expiresAt' \in [Sessions -> Nat] /\ signer' \in [Sessions -> Keys]
      BY <2>2, <3>1, IssueType DEF ResumeLogin
    <3> QED
      BY <2>2, <2>1, <3>2 DEF ResumeLogin, TypeOK, RequestTypeOK
  <2>3. CASE ResumeLogout(r)
    <3>1. job[r].session \in Sessions
      BY <2>3, JobType DEF ResumeLogout, Answered, Kinds
    <3> QED
      BY <2>3, <2>1, <3>1 DEF ResumeLogout, TypeOK, RequestTypeOK
  <2>4. CASE ResumeProtected(r) \/ ResumeHealth(r) \/ Finish(r)
    BY <2>4, <2>1
       DEF ResumeProtected, ResumeHealth, Finish, TypeOK, RequestTypeOK
  <2> QED
    BY <1>7, <2>2, <2>3, <2>4 DEF Resume
<1>8. ASSUME NEW r \in Requests, StoreFails(r)
      PROVE  TypeOK'
  <2>1. RequestTypeOK'
    BY <1>8, MoveType DEF StoreFails, Phases, Outcomes
  <2>2. stray' \subseteq Sessions
    BY <1>8, JobType DEF StoreFails, TypeOK, Kinds
  <2> QED
    BY <1>8, <2>1, <2>2 DEF StoreFails, TypeOK, RequestTypeOK
<1>9. ASSUME NEW i \in Instances, Restart(i)
      PROVE  TypeOK'
  <2>1. boots' \in [Instances -> 0..MaxRestarts]
    BY <1>9, ShapeAssumption DEF Restart, TypeOK
  <2>2. revoked' \in [Clocks -> SUBSET Sessions]
    BY <1>9 DEF Restart, TypeOK
  <2>3. phase' \in [Requests -> Phases]
    BY <1>9 DEF Restart, TypeOK, Phases
  <2> QED
    BY <1>9, <2>1, <2>2, <2>3 DEF Restart, TypeOK, history
<1>10. CASE Tick
  BY <1>10, ShapeAssumption DEF Tick, TypeOK, request, history
<1>11. CASE Reach
  BY <1>11 DEF Reach, TypeOK, request
<1>12. CASE UNCHANGED vars
  BY <1>12 DEF vars, TypeOK, request, history
<1> QED
  BY <1>1, <1>2, <1>3, <1>4, <1>5, <1>6, <1>7, <1>8, <1>9, <1>10, <1>11, <1>12
     DEF Next

\* Every behaviour of the server keeps to the types of its state.
THEOREM SessionTypeCorrect == Spec => []TypeOK
<1>1. Init => TypeOK
  BY InitType
<1>2. TypeOK /\ [Next]_vars => TypeOK'
  BY NextType
<1> QED
  BY <1>1, <1>2, PTL DEF Spec

-----------------------------------------------------------------------------
(* A confirmed sign-out holds.                                             *)

\* The two deployments docs/self-hosting.md describes: one Redis store and
\* one cookie secret for all instances, or a single process on its own.
Supported ==
  \/ Shared /\ StableSecret
  \/ ~Shared /\ ~StableSecret /\ \A i, j \in Instances : i = j

\* Session s can no longer be admitted: every instance that would accept its
\* signature finds it in its store, or s is in doubt.
Gone(s) ==
  \/ InDoubt(s)
  \/ \A i \in Instances : signer[s] = Key(i) => s \in revoked[Home(i)]

\* A signing key in use is the configured one, or one of a past or present
\* process.
KeysKnown ==
  \A s \in Sessions : Issued(s) =>
    IF StableSecret THEN signer[s] = SharedKey
    ELSE \E i \in Instances :
           signer[s].by = i /\ signer[s].boot <= boots[i]

\* A sign-in under way is the only one for its cookie, which is not issued.
LoginsFresh ==
  \A r \in Requests : Pending(r) /\ job[r].kind = "login" =>
    /\ ~Issued(job[r].session)
    /\ \A q \in Requests :
         Pending(q) /\ job[q].kind = "login" /\ job[q].session = job[r].session
           => q = r

\* A request that got past the cookie check holds a cookie of this process.
CookieChecked ==
  \A r \in Requests : Pending(r) /\ job[r].kind \in {"logout", "protected"} =>
    /\ Issued(job[r].session)
    /\ signer[job[r].session] = Key(job[r].at)

\* What a confirmed or carried-out sign-out leaves behind.
SignOutRecorded ==
  /\ \A s \in loggedOut : Issued(s) /\ Gone(s)
  /\ \A r \in Requests : Answered(r, "logout") => Gone(job[r].session)

\* What a request that began after the sign-out can learn and do.
LateLearns ==
  \A r \in Requests : r \in late /\ job[r].kind = "protected" =>
    /\ job[r].session \in loggedOut
    /\ (phase[r] = "answered" /\ r \notin hit => InDoubt(job[r].session))
    /\ (outcome[r] = "ok" \/ phase[r] = "working" => InDoubt(job[r].session))

\* Nothing is known of a request that has not begun.
IdleBlank ==
  \A r \in Requests : phase[r] = "idle" => r \notin late /\ r \notin hit

SessionInv ==
  /\ TypeOK
  /\ KeysKnown
  /\ LoginsFresh
  /\ CookieChecked
  /\ SignOutRecorded
  /\ LateLearns
  /\ IdleBlank

-----------------------------------------------------------------------------
(* Nothing brings a session back.                                          *)

\* A step may take a digest out of the store that a verifier of s asks only
\* when s is in doubt.
Keeps(s) ==
  \A i \in Instances : s \in revoked[Home(i)] =>
    \/ s \in revoked'[Home(i)]
    \/ now + MaxSkew >= expiresAt[s]
    \/ signer[s] # Key(i)'

LEMMA HomeType ==
  ASSUME NEW i \in Instances PROVE Home(i) \in Clocks
BY DEF Home, Clocks

LEMMA ExpiredInDoubt ==
  ASSUME TypeOK, NEW st \in Clocks, NEW s \in Sessions, Expired(st, s)
  PROVE  now + MaxSkew >= expiresAt[s]
<1>1. now \in Nat /\ skew[st] \in 0..MaxSkew /\ expiresAt[s] \in Nat
  BY ShapeAssumption DEF TypeOK
<1> QED
  BY <1>1, LifetimeAssumption DEF Expired, Clock

LEMMA EnterKeeps ==
  ASSUME TypeOK, NEW st \in Clocks, NEW x, Enter(st, x), NEW s \in Sessions
  PROVE  Keeps(s)
BY ExpiredInDoubt, HomeType DEF Enter, Keeps, TypeOK

LEMMA ForgetKeeps ==
  ASSUME TypeOK, NEW st \in Clocks, NEW x, Forget(st, x), NEW s \in Sessions
  PROVE  Keeps(s)
BY ExpiredInDoubt, HomeType DEF Forget, Keeps, TypeOK

\* A new process does not sign with a key that was used before.
LEMMA RestartKey ==
  ASSUME TypeOK, KeysKnown, NEW i \in Instances, Restart(i),
         NEW s \in Sessions, Issued(s), NEW j \in Instances
  PROVE  /\ signer[s] = Key(j)' => signer[s] = Key(j)
         /\ ~StableSecret => signer[s] # Key(i)'
<1>1. boots[i] \in Nat /\ boots'[i] = boots[i] + 1
  BY ShapeAssumption DEF TypeOK, Restart
<1>2. j # i => boots'[j] = boots[j]
  BY DEF TypeOK, Restart
<1>3. CASE StableSecret
  BY <1>3 DEF Key
<1>4. CASE ~StableSecret
  <2>1. PICK k \in Instances : signer[s].by = k /\ signer[s].boot <= boots[k]
    BY <1>4 DEF KeysKnown
  <2>2. Key(i)' = [by |-> i, boot |-> boots[i] + 1]
    BY <1>1, <1>4 DEF Key
  <2>3. signer[s] # Key(i)'
    BY <1>1, <2>1, <2>2
  <2> QED
    BY <1>2, <1>4, <2>3 DEF Key
<1> QED
  BY <1>3, <1>4

LEMMA IssueElsewhere ==
  ASSUME TypeOK, NEW i \in Instances, NEW x \in Sessions, Issue(i, x), ~Issued(x),
         NEW s \in Sessions, Issued(s)
  PROVE  signer'[s] = signer[s] /\ expiresAt'[s] = expiresAt[s]
BY DEF Issue, TypeOK, Issued

\* An issued session keeps its expiry and its signer; no step makes a process
\* able to verify it that was not, and none hides its revocation.
LEMMA IssuedFrame ==
  ASSUME TypeOK, KeysKnown, LoginsFresh, Supported, [Next]_vars,
         NEW s \in Sessions, Issued(s)
  PROVE  /\ signer'[s] = signer[s] /\ expiresAt'[s] = expiresAt[s]
         /\ now' \in Nat /\ now' >= now
         /\ \A i \in Instances : signer[s] = Key(i)' => signer[s] = Key(i)
         /\ Keeps(s)
<1> USE DEF SessionsUnchanged, StoreUnchanged, WorldUnchanged
<1> DEFINE Framed == /\ signer'[s] = signer[s] /\ expiresAt'[s] = expiresAt[s]
                     /\ now' \in Nat /\ now' >= now
                     /\ \A i \in Instances : signer[s] = Key(i)' => signer[s] = Key(i)
                     /\ Keeps(s)
<1>0. now \in Nat
  BY ShapeAssumption DEF TypeOK
<1>1. ASSUME NEW r \in Requests, NEW i \in Instances, NEW x \in Sessions,
             BeginProtected(r, i, x) \/ BeginLogout(r, i, x)
      PROVE  Framed
  BY <1>0, <1>1 DEF BeginProtected, BeginLogout, Key, Keeps
<1>2. ASSUME NEW r \in Requests, NEW i \in Instances, NEW x \in Sessions,
             NEW b \in BOOLEAN, BeginLogin(r, i, x, b)
      PROVE  Framed
  BY <1>0, <1>2, IssueElsewhere DEF BeginLogin, Key, Keeps
<1>3. ASSUME NEW r \in Requests, NEW i \in Instances, BeginHealth(r, i)
      PROVE  Framed
  BY <1>0, <1>3 DEF BeginHealth, Key, Keeps
<1>4. ASSUME NEW r \in Requests, StoreAnswers(r)
      PROVE  Framed
  <2>1. Keeps(s)
    <3>1. CASE job[r].kind = "protected"
      BY <1>4, <3>1, JobType, HomeType, ForgetKeeps DEF StoreAnswers, Kinds
    <3>2. CASE job[r].kind = "logout"
      BY <1>4, <3>2, JobType, HomeType, EnterKeeps DEF StoreAnswers, Kinds
    <3>3. CASE job[r].kind \notin {"logout", "protected"}
      BY <1>4, <3>3 DEF StoreAnswers, Keeps
    <3> QED
      BY <3>1, <3>2, <3>3
  <2> QED
    BY <1>0, <1>4, <2>1 DEF StoreAnswers, Key
<1>5. ASSUME NEW x \in Sessions, StrayArrives(x)
      PROVE  Framed
  BY <1>0, <1>5, EnterKeeps DEF StrayArrives, Key, Clocks
<1>6. ASSUME NEW r \in Requests, Resume(r)
      PROVE  Framed
  <2>1. CASE ResumeLogin(r)
    <3>1. /\ job[r].session \in Sessions /\ job[r].at \in Instances
          /\ ~Issued(job[r].session)
      BY <2>1, JobType DEF ResumeLogin, Answered, Kinds, LoginsFresh, Pending
    <3> QED
      BY <1>0, <2>1, <3>1, IssueElsewhere DEF ResumeLogin, Key, Keeps
  <2>2. CASE \/ ResumeProtected(r) \/ ResumeLogout(r)
             \/ ResumeHealth(r) \/ Finish(r)
    BY <1>0, <2>2
       DEF ResumeProtected, ResumeLogout, ResumeHealth, Finish, Key, Keeps
  <2> QED
    BY <1>6, <2>1, <2>2 DEF Resume
<1>7. ASSUME NEW r \in Requests, StoreFails(r)
      PROVE  Framed
  BY <1>0, <1>7 DEF StoreFails, Key, Keeps
<1>8. ASSUME NEW i \in Instances, Restart(i)
      PROVE  Framed
  <2>1. \A j \in Instances : /\ signer[s] = Key(j)' => signer[s] = Key(j)
                             /\ ~StableSecret => signer[s] # Key(i)'
    BY <1>8, RestartKey
  <2>2. \A j \in Instances : Home(j) # i => revoked'[Home(j)] = revoked[Home(j)]
    BY <1>8, HomeType DEF Restart, TypeOK
  <2>3. Keeps(s)
    <3>1. CASE Shared
      BY <2>2, <3>1, ShapeAssumption DEF Home, Keeps
    <3>2. CASE ~Shared
      BY <2>1, <2>2, <3>2 DEF Home, Keeps, Supported
    <3> QED
      BY <3>1, <3>2
  <2> QED
    BY <1>0, <1>8, <2>1, <2>3 DEF Restart
<1>9. CASE Tick
  BY <1>0, <1>9 DEF Tick, Key, Keeps
<1>10. CASE Reach \/ UNCHANGED vars
  BY <1>0, <1>10 DEF Reach, vars, Key, Keeps
<1> QED
  BY <1>1, <1>2, <1>3, <1>4, <1>5, <1>6, <1>7, <1>8, <1>9, <1>10 DEF Next

LEMMA DoubtStays ==
  ASSUME TypeOK, KeysKnown, LoginsFresh, Supported, [Next]_vars,
         NEW s \in Sessions, Issued(s), InDoubt(s)
  PROVE  InDoubt(s)'
<1>1. now \in Nat /\ expiresAt[s] \in Nat
  BY ShapeAssumption DEF TypeOK
<1> QED
  BY <1>1, IssuedFrame, LifetimeAssumption DEF InDoubt

LEMMA GoneStays ==
  ASSUME TypeOK, KeysKnown, LoginsFresh, Supported, [Next]_vars,
         NEW s \in Sessions, Issued(s), Gone(s)
  PROVE  Gone(s)'
<1>1. CASE InDoubt(s)
  BY <1>1, DoubtStays DEF Gone
<1>2. CASE now + MaxSkew >= expiresAt[s]
  BY <1>2, DoubtStays DEF InDoubt, Gone
<1>3. CASE /\ ~InDoubt(s) /\ ~(now + MaxSkew >= expiresAt[s])
           /\ \A i \in Instances : signer[s] = Key(i) => s \in revoked[Home(i)]
  <2>1. ASSUME NEW i \in Instances, signer'[s] = Key(i)'
        PROVE  s \in revoked'[Home(i)]
    BY <1>3, <2>1, IssuedFrame DEF Keeps
  <2> QED
    BY <2>1 DEF Gone, Home
<1> QED
  BY <1>1, <1>2, <1>3 DEF Gone

-----------------------------------------------------------------------------
(* The inductive invariant.                                                *)

LEMMA InitInv == Init => SessionInv
<1> SUFFICES ASSUME Init PROVE SessionInv
  OBVIOUS
<1>1. TypeOK
  BY InitType
<1>2. KeysKnown
  <2>1. PICK by \in [Sessions -> Instances \cup {"none"}] :
         /\ expiresAt = [s \in Sessions |-> IF by[s] = "none" THEN 0
                                            ELSE skew[by[s]] + Lifetime]
         /\ signer = [s \in Sessions |-> IF by[s] = "none" THEN SharedKey
                                         ELSE Key(by[s])]
    BY DEF Init
  <2>2. ASSUME NEW s \in Sessions, Issued(s)
        PROVE  by[s] \in Instances /\ signer[s] = Key(by[s])
    BY <2>1, <2>2 DEF Issued
  <2>3. \A i \in Instances : boots[i] = 0
    BY DEF Init
  <2>4. ASSUME NEW s \in Sessions, Issued(s), ~StableSecret
        PROVE  signer[s].by = by[s] /\ signer[s].boot <= boots[by[s]]
    <3>1. signer[s] = [by |-> by[s], boot |-> 0] /\ boots[by[s]] = 0
      BY <2>2, <2>3, <2>4 DEF Key
    <3> QED
      BY <3>1
  <2>5. StableSecret => \A i \in Instances : Key(i) = SharedKey
    BY DEF Key
  <2> QED
    BY <2>2, <2>4, <2>5 DEF KeysKnown
<1>3. \A r \in Requests : phase[r] = "idle" /\ job[r].kind = "none"
  BY DEF Init, NoJob
<1> QED
  BY <1>1, <1>2, <1>3
     DEF Init, SessionInv, LoginsFresh, CookieChecked, SignOutRecorded,
         LateLearns, IdleBlank, Pending, Answered

LEMMA KeysKnownStep == SessionInv /\ [Next]_vars => KeysKnown'
<1> SUFFICES ASSUME SessionInv, [Next]_vars PROVE KeysKnown'
  OBVIOUS
<1> USE DEF SessionInv, SessionsUnchanged, StoreUnchanged, WorldUnchanged
<1>1. ASSUME NEW i \in Instances, NEW x \in Sessions, Issue(i, x),
             UNCHANGED boots
      PROVE  KeysKnown'
  <2>1. boots[i] <= boots[i]
    BY ShapeAssumption DEF TypeOK
  <2>2. ASSUME NEW s \in Sessions, s # x, Issued(s)'
        PROVE  Issued(s) /\ signer'[s] = signer[s]
    BY <1>1, <2>2 DEF Issue, TypeOK, Issued
  <2>3. signer'[x] = Key(i)
    BY <1>1 DEF Issue, TypeOK
  <2> QED
    BY <1>1, <2>1, <2>2, <2>3 DEF KeysKnown, Key
<1>2. ASSUME NEW i \in Instances, Restart(i)
      PROVE  KeysKnown'
  <2>1. \A j \in Instances : /\ boots[j] \in Nat /\ boots'[j] \in Nat
                             /\ boots[j] <= boots'[j]
    BY <1>2, ShapeAssumption DEF TypeOK, Restart
  <2>2. \A s \in Sessions : signer[s].boot \in Nat
    BY ShapeAssumption DEF TypeOK, Keys
  <2>3. UNCHANGED <<expiresAt, signer>>
    BY <1>2 DEF Restart
  <2> QED
    BY <2>1, <2>2, <2>3 DEF KeysKnown, Issued
<1>3. CASE UNCHANGED <<expiresAt, signer, boots>>
  BY <1>3 DEF KeysKnown, Issued
<1>4. ASSUME NEW r \in Requests, Resume(r)
      PROVE  KeysKnown'
  <2>1. CASE ResumeLogin(r)
    <3>1. job[r].session \in Sessions /\ job[r].at \in Instances
      BY <2>1, JobType DEF ResumeLogin, Answered, Kinds
    <3> QED
      BY <1>1, <2>1, <3>1 DEF ResumeLogin
  <2>2. CASE \/ ResumeProtected(r) \/ ResumeLogout(r)
             \/ ResumeHealth(r) \/ Finish(r)
    BY <1>3, <2>2 DEF ResumeProtected, ResumeLogout, ResumeHealth, Finish
  <2> QED
    BY <1>4, <2>1, <2>2 DEF Resume
<1>5. ASSUME NEW r \in Requests, NEW i \in Instances, NEW x \in Sessions,
             NEW b \in BOOLEAN, BeginLogin(r, i, x, b)
      PROVE  KeysKnown'
  BY <1>1, <1>3, <1>5 DEF BeginLogin
<1> QED
  BY <1>2, <1>3, <1>4, <1>5
     DEF Next, BeginProtected, BeginLogout, BeginHealth, StoreAnswers,
         StrayArrives, StoreFails, Tick, Reach, vars

LEMMA LoginsFreshStep == SessionInv /\ [Next]_vars => LoginsFresh'
<1> SUFFICES ASSUME SessionInv, [Next]_vars PROVE LoginsFresh'
  OBVIOUS
<1> USE DEF SessionInv, SessionsUnchanged, StoreUnchanged, WorldUnchanged
\* A step that starts no sign-in and issues no cookie.
<1>1. ASSUME UNCHANGED <<expiresAt, signer>>,
             \A q \in Requests : (Pending(q) /\ job[q].kind = "login")' =>
                                /\ Pending(q) /\ job[q].kind = "login"
                                /\ job'[q].session = job[q].session
      PROVE  LoginsFresh'
  BY <1>1 DEF LoginsFresh, Issued
<1>2. ASSUME NEW r \in Requests, NEW i \in Instances, NEW s \in Sessions,
             BeginProtected(r, i, s) \/ BeginLogout(r, i, s)
      PROVE  LoginsFresh'
  BY <1>1, <1>2 DEF BeginProtected, BeginLogout, Open, TypeOK, Pending
<1>3. ASSUME NEW r \in Requests, NEW i \in Instances, BeginHealth(r, i)
      PROVE  LoginsFresh'
  BY <1>1, <1>3 DEF BeginHealth, Open, TypeOK, Pending
<1>4. ASSUME NEW r \in Requests, NEW i \in Instances, NEW s \in Sessions,
             NEW b \in BOOLEAN, BeginLogin(r, i, s, b)
      PROVE  LoginsFresh'
  <2>1. /\ ~Issued(s)
        /\ \A q \in Requests : Pending(q) /\ job[q].kind = "login"
                                => job[q].session # s
    BY <1>4 DEF BeginLogin, Reserved
  <2>2. \A q \in Requests : q # r => phase'[q] = phase[q] /\ job'[q] = job[q]
    BY <1>4 DEF BeginLogin, Open, TypeOK
  <2>3. CASE UNCHANGED <<expiresAt, signer>>
    <3>1. job'[r].session = s
      BY <1>4 DEF BeginLogin, Open, TypeOK
    <3> QED
      BY <2>1, <2>2, <2>3, <3>1 DEF LoginsFresh, Issued, Pending
  <2>4. CASE Issue(i, s) /\ phase'[r] = "done"
    <3>1. \A x \in Sessions : x # s => expiresAt'[x] = expiresAt[x]
      BY <2>4 DEF Issue, TypeOK
    <3>2. \A q \in Requests : Pending(q) /\ job[q].kind = "login"
                             => job[q].session \in Sessions
      BY JobType DEF Kinds
    <3> QED
      BY <2>1, <2>2, <2>4, <3>1, <3>2 DEF LoginsFresh, Issued, Pending
  <2> QED
    BY <1>4, <2>3, <2>4 DEF BeginLogin, Open, TypeOK
<1>5. ASSUME NEW r \in Requests, StoreAnswers(r)
      PROVE  LoginsFresh'
  <2>1. \E found : Answer(r, found)
    BY <1>5 DEF StoreAnswers
  <2>2. phase[r] = "asking" /\ UNCHANGED <<expiresAt, signer>>
    BY <1>5 DEF StoreAnswers
  <2> QED
    BY <1>1, <2>1, <2>2 DEF Answer, TypeOK, Pending
<1>6. ASSUME NEW r \in Requests, Resume(r)
      PROVE  LoginsFresh'
  <2>1. CASE ResumeLogin(r)
    <3>1. job[r].session \in Sessions /\ job[r].at \in Instances
      BY <2>1, JobType DEF ResumeLogin, Answered, Kinds
    <3>2. \A x \in Sessions : x # job[r].session => expiresAt'[x] = expiresAt[x]
      BY <2>1, <3>1 DEF ResumeLogin, Issue, TypeOK
    <3>3. \A q \in Requests : Pending(q) /\ job[q].kind = "login"
                             => job[q].session \in Sessions
      BY JobType DEF Kinds
    <3>4. /\ phase'[r] = "done" /\ UNCHANGED job
          /\ \A q \in Requests : q # r => phase'[q] = phase[q]
      BY <2>1 DEF ResumeLogin, Move, TypeOK
    <3>5. \A q \in Requests : Pending(q) /\ job[q].kind = "login" /\ q # r
                             => job[q].session # job[r].session
      BY <2>1 DEF ResumeLogin, Answered, LoginsFresh, Pending
    <3> QED
      BY <3>2, <3>3, <3>4, <3>5 DEF LoginsFresh, Issued, Pending
  <2>2. CASE \/ ResumeProtected(r) \/ ResumeLogout(r)
             \/ ResumeHealth(r) \/ Finish(r)
    BY <1>1, <2>2
       DEF ResumeProtected, ResumeLogout, ResumeHealth, Finish, Move, TypeOK,
           Pending, Answered
  <2> QED
    BY <1>6, <2>1, <2>2 DEF Resume
<1>7. ASSUME NEW r \in Requests, StoreFails(r)
      PROVE  LoginsFresh'
  BY <1>1, <1>7 DEF StoreFails, Move, TypeOK, Pending
<1>8. ASSUME NEW i \in Instances, Restart(i)
      PROVE  LoginsFresh'
  BY <1>1, <1>8 DEF Restart, TypeOK, Pending
<1>9. CASE UNCHANGED <<expiresAt, signer, request>>
  BY <1>1, <1>9 DEF request, Pending
<1> QED
  BY <1>2, <1>3, <1>4, <1>5, <1>6, <1>7, <1>8, <1>9
     DEF Next, StrayArrives, Tick, Reach, vars

LEMMA CookieCheckedStep == SessionInv /\ Supported /\ [Next]_vars => CookieChecked'
<1> SUFFICES ASSUME SessionInv, Supported, [Next]_vars PROVE CookieChecked'
  OBVIOUS
<1> USE DEF SessionInv, SessionsUnchanged, StoreUnchanged, WorldUnchanged
<1> DEFINE Checked(q) == Pending(q) /\ job[q].kind \in {"logout", "protected"}
           Holder(q) == /\ Issued(job[q].session)
                        /\ signer[job[q].session] = Key(job[q].at)
\* A request under way that was checked before keeps what it holds, unless
\* its own process is restarted.
<1>1. ASSUME NEW q \in Requests, Checked(q), UNCHANGED boots,
             job'[q] = job[q]
      PROVE  Holder(q)'
  <2>1. job[q].session \in Sessions /\ Issued(job[q].session)
    BY <1>1, JobType DEF CookieChecked, Kinds
  <2>2. expiresAt[job[q].session] # 0 /\ signer[job[q].session] = Key(job[q].at)
    BY <1>1 DEF CookieChecked, Issued
  <2>3. /\ signer'[job[q].session] = signer[job[q].session]
        /\ expiresAt'[job[q].session] = expiresAt[job[q].session]
    BY <2>1, IssuedFrame
  <2> QED
    BY <1>1, <2>2, <2>3 DEF Issued, Key
<1>2. ASSUME UNCHANGED boots,
             \A q \in Requests : Checked(q)' => Checked(q) /\ job'[q] = job[q]
      PROVE  CookieChecked'
  BY <1>1, <1>2 DEF CookieChecked
<1>3. ASSUME NEW r \in Requests, NEW i \in Instances, NEW s \in Sessions,
             BeginProtected(r, i, s) \/ BeginLogout(r, i, s)
      PROVE  CookieChecked'
  <2>1. \A q \in Requests : q # r => phase'[q] = phase[q] /\ job'[q] = job[q]
    BY <1>3 DEF BeginProtected, BeginLogout, Open, TypeOK
  <2>2. ASSUME Checked(r)' PROVE Holder(r)'
    <3>1. job'[r].session = s /\ job'[r].at = i
      BY <1>3 DEF BeginProtected, BeginLogout, Open, TypeOK
    <3>2. ValidCookie(i, s)
      BY <1>3, <2>2 DEF BeginProtected, BeginLogout, Open, TypeOK, Pending
    <3> QED
      BY <1>3, <3>1, <3>2
         DEF BeginProtected, BeginLogout, ValidCookie, Issued, Key
  <2>3. \A q \in Requests : q # r /\ Checked(q)' => Checked(q) /\ job'[q] = job[q]
    BY <2>1 DEF Pending
  <2>4. UNCHANGED boots
    BY <1>3 DEF BeginProtected, BeginLogout
  <2> QED
    BY <1>1, <2>2, <2>3, <2>4 DEF CookieChecked
<1>4. ASSUME NEW r \in Requests, NEW i \in Instances,
             \/ BeginHealth(r, i)
             \/ \E s \in Sessions, b \in BOOLEAN : BeginLogin(r, i, s, b)
      PROVE  CookieChecked'
  <2>1. \A q \in Requests : q # r => phase'[q] = phase[q] /\ job'[q] = job[q]
    BY <1>4 DEF BeginHealth, BeginLogin, Open, TypeOK
  <2>2. job'[r].kind \in {"health", "login"} /\ UNCHANGED boots
    BY <1>4 DEF BeginHealth, BeginLogin, Open, TypeOK
  <2> QED
    BY <1>2, <2>1, <2>2 DEF Pending
<1>5. ASSUME NEW r \in Requests, StoreAnswers(r)
      PROVE  CookieChecked'
  <2>1. \E found : Answer(r, found)
    BY <1>5 DEF StoreAnswers
  <2>2. phase[r] = "asking" /\ UNCHANGED boots
    BY <1>5 DEF StoreAnswers
  <2> QED
    BY <1>2, <2>1, <2>2 DEF Answer, TypeOK, Pending
<1>6. ASSUME NEW r \in Requests, Resume(r) \/ StoreFails(r)
      PROVE  CookieChecked'
  BY <1>2, <1>6
     DEF Resume, ResumeProtected, ResumeLogout, ResumeLogin, ResumeHealth,
         Finish, StoreFails, Move, TypeOK, Pending, Answered
<1>7. ASSUME NEW i \in Instances, Restart(i)
      PROVE  CookieChecked'
  <2>1. ASSUME NEW q \in Requests, Checked(q)'
        PROVE  Checked(q) /\ job[q].at # i
    BY <1>7, <2>1 DEF Restart, TypeOK, Pending
  <2>2. /\ \A j \in Instances : j # i => boots'[j] = boots[j]
        /\ UNCHANGED <<job, expiresAt, signer>>
    BY <1>7 DEF Restart, TypeOK
  <2>3. \A q \in Requests : Checked(q) => job[q].at \in Instances
    BY JobType DEF Kinds
  <2> QED
    BY <2>1, <2>2, <2>3 DEF CookieChecked, Issued, Key
<1>8. CASE UNCHANGED <<boots, request>>
  BY <1>2, <1>8 DEF request, Pending
<1> QED
  BY <1>3, <1>4, <1>5, <1>6, <1>7, <1>8
     DEF Next, StrayArrives, Tick, Reach, vars

\* A cookie that an instance rejects although it was issued is past saving.
LEMMA RejectedInDoubt ==
  ASSUME SessionInv, Supported, NEW i \in Instances, NEW s \in Sessions,
         Issued(s), ~ValidCookie(i, s)
  PROVE  InDoubt(s)
<1>1. CASE signer[s] # Key(i)
  <2>1. ~StableSecret
    BY <1>1 DEF SessionInv, KeysKnown, Key
  <2>2. \A j \in Instances : signer[s] # Key(j)
    BY <1>1, <2>1 DEF Supported
  <2> QED
    BY <2>2 DEF InDoubt
<1>2. CASE ~(expiresAt[s] > Clock(i))
  <2>1. Expired(i, s)
    <3>1. expiresAt[s] \in Nat /\ Clock(i) \in Nat
      BY ShapeAssumption, LifetimeAssumption DEF SessionInv, TypeOK, Clock, Clocks
    <3> QED
      BY <1>2, <3>1 DEF Expired
  <2> QED
    BY <2>1, ExpiredInDoubt DEF InDoubt, SessionInv, Clocks
<1> QED
  BY <1>1, <1>2 DEF ValidCookie

LEMMA RejectedIsGone ==
  ASSUME SessionInv, Supported, NEW i \in Instances, NEW s \in Sessions,
         Issued(s), ~ValidCookie(i, s)
  PROVE  Gone(s)
BY RejectedInDoubt DEF Gone

\* The command of a sign-out has been carried out: all who would accept the
\* session find it.
LEMMA EnteredIsGone ==
  ASSUME SessionInv, Supported, NEW i \in Instances, NEW s \in Sessions,
         Enter(Home(i), s), UNCHANGED <<now, boots, expiresAt, signer>>
  PROVE  Gone(s)'
<1>1. \A j \in Instances : Home(j) = Home(i)
  BY DEF Supported, Home
<1>2. CASE Expired(Home(i), s)
  BY <1>2, HomeType, ExpiredInDoubt DEF Gone, InDoubt, SessionInv
<1>3. CASE ~Expired(Home(i), s)
  BY <1>1, <1>3, HomeType DEF Enter, Gone, SessionInv, TypeOK, Home
<1> QED
  BY <1>2, <1>3

LEMMA SignOutRecordedStep ==
  SessionInv /\ Supported /\ [Next]_vars => SignOutRecorded'
<1> SUFFICES ASSUME SessionInv, Supported, [Next]_vars PROVE SignOutRecorded'
  OBVIOUS
<1> USE DEF SessionInv, SessionsUnchanged, StoreUnchanged, WorldUnchanged
<1>1. \A s \in Sessions : Issued(s) => Issued(s)'
  BY IssuedFrame DEF Issued
<1>2. \A s \in loggedOut : s \in Sessions /\ (Issued(s) /\ Gone(s))'
  <2>1. \A s \in loggedOut : s \in Sessions /\ Issued(s) /\ Gone(s)
    BY DEF SignOutRecorded, TypeOK
  <2> QED
    BY <1>1, <2>1, GoneStays
<1>3. ASSUME NEW q \in Requests, Answered(q, "logout")
      PROVE  /\ job[q].session \in Sessions
             /\ \A s \in Sessions : s = job[q].session => (Issued(s) /\ Gone(s))'
  <2>1. job[q].session \in Sessions /\ Issued(job[q].session)
    BY <1>3, JobType DEF Answered, CookieChecked, Pending, Kinds
  <2>2. Gone(job[q].session)
    BY <1>3 DEF SignOutRecorded
  <2> QED
    BY <1>1, <2>1, <2>2, GoneStays
\* A step that confirms no sign-out and carries none out.
<1>4. ASSUME UNCHANGED loggedOut,
             \A q \in Requests : Answered(q, "logout")' =>
               Answered(q, "logout") /\ job'[q].session = job[q].session
      PROVE  SignOutRecorded'
  BY <1>2, <1>3, <1>4 DEF SignOutRecorded
<1>5. ASSUME NEW r \in Requests, NEW i \in Instances, NEW s \in Sessions,
             BeginLogout(r, i, s)
      PROVE  SignOutRecorded'
  <2>1. \A q \in Requests : Answered(q, "logout")' =>
               Answered(q, "logout") /\ job'[q].session = job[q].session
    BY <1>5 DEF BeginLogout, Open, TypeOK, Answered
  <2>2. CASE UNCHANGED loggedOut
    BY <1>4, <2>1, <2>2
  <2>3. CASE /\ ~ValidCookie(i, s)
             /\ loggedOut' = loggedOut \cup {x \in {s} : Issued(x)}
    <3>1. Issued(s) => (Issued(s) /\ Gone(s))'
      BY <1>1, <2>3, RejectedIsGone, GoneStays
    <3>2. \A x \in loggedOut' : (Issued(x) /\ Gone(x))'
      BY <1>2, <2>3, <3>1
    <3>3. \A q \in Requests : Answered(q, "logout")' => Gone(job[q].session)'
      BY <1>3, <2>1
    <3> QED
      BY <2>1, <3>2, <3>3 DEF SignOutRecorded
  <2> QED
    BY <1>5, <2>2, <2>3 DEF BeginLogout
<1>6. ASSUME NEW r \in Requests, NEW i \in Instances,
             \/ BeginHealth(r, i)
             \/ \E s \in Sessions : BeginProtected(r, i, s)
             \/ \E s \in Sessions, b \in BOOLEAN : BeginLogin(r, i, s, b)
      PROVE  SignOutRecorded'
  BY <1>4, <1>6 DEF BeginHealth, BeginProtected, BeginLogin, Open, TypeOK, Answered
<1>7. ASSUME NEW r \in Requests, StoreAnswers(r)
      PROVE  SignOutRecorded'
  <2>1. \E found : Answer(r, found)
    BY <1>7 DEF StoreAnswers
  <2>2. \A q \in Requests : q # r => (Answered(q, "logout")' => Answered(q, "logout"))
    BY <2>1 DEF Answer, TypeOK, Answered
  <2>3. UNCHANGED <<loggedOut, job>>
    BY <1>7, <2>1 DEF StoreAnswers, Answer
  <2>4. CASE job[r].kind # "logout"
    BY <1>4, <2>2, <2>3, <2>4 DEF Answered
  <2>5. CASE job[r].kind = "logout"
    <3>1. job[r].session \in Sessions /\ job[r].at \in Instances
      BY <2>5, JobType DEF Kinds
    <3>2. \A s \in Sessions : s = job[r].session => Gone(s)'
      <4>1. /\ Enter(Home(job[r].at), job[r].session)
            /\ UNCHANGED <<now, boots, expiresAt, signer>>
        BY <1>7, <2>5 DEF StoreAnswers
      <4> QED
        BY <3>1, <4>1, EnteredIsGone
    <3>3. \A q \in Requests : Answered(q, "logout")' => Gone(job[q].session)'
      <4> SUFFICES ASSUME NEW q \in Requests, Answered(q, "logout")'
                   PROVE  Gone(job[q].session)'
        OBVIOUS
      <4>1. CASE q = r
        BY <2>3, <3>1, <3>2, <4>1
      <4>2. CASE q # r
        BY <1>3, <2>2, <2>3, <4>2
      <4> QED
        BY <4>1, <4>2
    <3> QED
      BY <1>2, <2>3, <3>3 DEF SignOutRecorded
  <2> QED
    BY <2>4, <2>5
<1>8. ASSUME NEW r \in Requests, ResumeLogout(r)
      PROVE  SignOutRecorded'
  <2>1. \A q \in Requests : Answered(q, "logout")' => Answered(q, "logout")
    BY <1>8 DEF ResumeLogout, Move, TypeOK, Answered
  <2>2. loggedOut' = loggedOut \cup {job[r].session} /\ UNCHANGED job
    BY <1>8 DEF ResumeLogout, Move
  <2>3. Answered(r, "logout")
    BY <1>8 DEF ResumeLogout
  <2> QED
    BY <1>2, <1>3, <2>1, <2>2, <2>3 DEF SignOutRecorded
<1>9. ASSUME NEW r \in Requests,
             \/ ResumeProtected(r) \/ ResumeLogin(r) \/ ResumeHealth(r)
             \/ Finish(r) \/ StoreFails(r)
      PROVE  SignOutRecorded'
  BY <1>4, <1>9
     DEF ResumeProtected, ResumeLogin, ResumeHealth, Finish, StoreFails, Move,
         TypeOK, Answered
<1>10. ASSUME NEW i \in Instances, Restart(i)
      PROVE  SignOutRecorded'
  BY <1>4, <1>10 DEF Restart, TypeOK, Answered
<1>11. CASE UNCHANGED <<request, loggedOut>>
  BY <1>4, <1>11 DEF request, Answered
<1> QED
  BY <1>5, <1>6, <1>7, <1>8, <1>9, <1>10, <1>11
     DEF Next, Resume, StrayArrives, Tick, Reach, vars

LEMMA IdleBlankStep == SessionInv /\ [Next]_vars => IdleBlank'
<1> SUFFICES ASSUME SessionInv, [Next]_vars PROVE IdleBlank'
  OBVIOUS
<1>1. ASSUME NEW r \in Requests, NEW i \in Instances,
             \/ BeginHealth(r, i)
             \/ \E s \in Sessions : BeginProtected(r, i, s) \/ BeginLogout(r, i, s)
             \/ \E s \in Sessions, b \in BOOLEAN : BeginLogin(r, i, s, b)
      PROVE  IdleBlank'
  <2>1. /\ phase'[r] # "idle"
        /\ \A q \in Requests : q # r => /\ phase'[q] = phase[q]
                                       /\ (q \in late' => q \in late)
        /\ UNCHANGED hit
    BY <1>1 DEF BeginHealth, BeginProtected, BeginLogout, BeginLogin, Open, SessionInv, TypeOK
  <2> QED
    BY <2>1 DEF SessionInv, IdleBlank
<1>2. ASSUME NEW r \in Requests, StoreAnswers(r)
      PROVE  IdleBlank'
  <2>1. PICK found : Answer(r, found)
    BY <1>2 DEF StoreAnswers
  <2> QED
    BY <2>1 DEF Answer, history, SessionInv, TypeOK, IdleBlank
<1>3. ASSUME NEW r \in Requests, Resume(r) \/ StoreFails(r)
      PROVE  IdleBlank'
  BY <1>3
     DEF Resume, ResumeProtected, ResumeLogout, ResumeLogin, ResumeHealth,
         Finish, StoreFails, Move, Answered, history, SessionInv, TypeOK, IdleBlank
<1>4. ASSUME NEW i \in Instances, Restart(i)
      PROVE  IdleBlank'
  BY <1>4 DEF Restart, Pending, SessionInv, TypeOK, IdleBlank, history
<1>5. CASE UNCHANGED <<request, late>>
  BY <1>5 DEF request, SessionInv, IdleBlank
<1> QED
  BY <1>1, <1>2, <1>3, <1>4, <1>5
     DEF Next, StrayArrives, Tick, Reach, vars, history

LEMMA LateLearnsStep == SessionInv /\ Supported /\ [Next]_vars => LateLearns'
<1> SUFFICES ASSUME SessionInv, Supported, [Next]_vars PROVE LateLearns'
  OBVIOUS
<1> USE DEF SessionInv, SessionsUnchanged, StoreUnchanged, WorldUnchanged
<1>1. ASSUME NEW s \in Sessions, s \in loggedOut, InDoubt(s)
      PROVE  InDoubt(s)'
  <2>1. Issued(s)
    BY <1>1 DEF SignOutRecorded
  <2>2. TypeOK /\ KeysKnown /\ LoginsFresh
    OBVIOUS
  <2> QED
    BY <1>1, <2>1, <2>2, DoubtStays
<1>2. loggedOut \subseteq loggedOut' /\ loggedOut \subseteq Sessions
  <2>1. ASSUME NEW r \in Requests, NEW i \in Instances, NEW s \in Sessions,
               BeginLogout(r, i, s)
        PROVE  loggedOut \subseteq loggedOut'
    BY <2>1 DEF BeginLogout
  <2>2. ASSUME NEW r \in Requests, Resume(r)
        PROVE  loggedOut \subseteq loggedOut'
    BY <2>2 DEF Resume, ResumeProtected, ResumeLogout, ResumeLogin,
                ResumeHealth, Finish
  <2>3. ASSUME NEW r \in Requests, StoreAnswers(r) \/ StoreFails(r)
        PROVE  loggedOut' = loggedOut
    BY <2>3 DEF StoreAnswers, StoreFails
  <2>4. ASSUME NEW r \in Requests, NEW i \in Instances, NEW s \in Sessions,
               NEW b \in BOOLEAN,
               BeginProtected(r, i, s) \/ BeginLogin(r, i, s, b) \/ BeginHealth(r, i)
        PROVE  loggedOut' = loggedOut
    BY <2>4 DEF BeginProtected, BeginLogin, BeginHealth
  <2>5. ASSUME NEW r \in Requests, NEW i \in Instances, BeginHealth(r, i)
        PROVE  loggedOut' = loggedOut
    BY <2>5 DEF BeginHealth
  <2> QED
    BY <2>1, <2>2, <2>3, <2>4, <2>5
       DEF TypeOK, Next, StrayArrives, Restart, Tick, Reach, vars
<1> DEFINE Late(q) == q \in late /\ job[q].kind = "protected"
           LateQ(q) ==
             /\ job[q].session \in loggedOut
             /\ (phase[q] = "answered" /\ q \notin hit => InDoubt(job[q].session))
             /\ (outcome[q] = "ok" \/ phase[q] = "working" => InDoubt(job[q].session))
\* A request that learns nothing in this step.
<1>3. ASSUME NEW q \in Requests, Late(q), job'[q] = job[q],
             (phase'[q] = "answered" /\ q \notin hit') =>
               (phase[q] = "answered" /\ q \notin hit),
             (outcome'[q] = "ok" \/ phase'[q] = "working") =>
               (outcome[q] = "ok" \/ phase[q] = "working"
                \/ (phase[q] = "answered" /\ q \notin hit))
      PROVE  LateQ(q)'
  <2>1. job[q].session \in Sessions /\ job[q].session \in loggedOut
    BY <1>2, <1>3 DEF LateLearns
  <2>2. ASSUME InDoubt(job[q].session)
        PROVE  InDoubt(job[q].session)'
    <3>1. \A s \in Sessions : s = job[q].session => InDoubt(s)'
      BY <1>1, <2>1, <2>2
    <3> QED
      BY <1>3, <2>1, <3>1
  <2> QED
    BY <1>2, <1>3, <2>1, <2>2 DEF LateLearns
<1>4. ASSUME \A q \in Requests : Late(q)' =>
               /\ Late(q) /\ job'[q] = job[q]
               /\ ((phase'[q] = "answered" /\ q \notin hit') =>
                     (phase[q] = "answered" /\ q \notin hit))
               /\ ((outcome'[q] = "ok" \/ phase'[q] = "working") =>
                     (outcome[q] = "ok" \/ phase[q] = "working"
                      \/ (phase[q] = "answered" /\ q \notin hit)))
      PROVE  LateLearns'
  BY <1>3, <1>4 DEF LateLearns
<1>5. ASSUME NEW r \in Requests, NEW i \in Instances, NEW s \in Sessions,
             BeginProtected(r, i, s)
      PROVE  LateLearns'
  <2>1. /\ job'[r] = [kind |-> "protected", at |-> i, session |-> s]
        /\ phase'[r] \in {"asking", "done"} /\ outcome'[r] \in {"pending", "refused"}
        /\ (r \in late' => r \in late \/ s \in loggedOut)
        /\ \A q \in Requests : q # r => /\ job'[q] = job[q] /\ phase'[q] = phase[q]
                                       /\ outcome'[q] = outcome[q]
                                       /\ (q \in late' => q \in late)
        /\ UNCHANGED hit
    BY <1>5 DEF BeginProtected, Open, TypeOK
  <2>2. r \notin late
    BY <1>5 DEF BeginProtected, Open, IdleBlank
  <2>3. ASSUME NEW q \in Requests, q # r, Late(q)'
        PROVE  LateQ(q)'
    BY <1>3, <2>1, <2>3
  <2> QED
    BY <1>2, <2>1, <2>2, <2>3 DEF LateLearns
<1>6. ASSUME NEW r \in Requests, NEW i \in Instances,
             \/ BeginHealth(r, i)
             \/ \E s \in Sessions : BeginLogout(r, i, s)
             \/ \E s \in Sessions, b \in BOOLEAN : BeginLogin(r, i, s, b)
      PROVE  LateLearns'
  <2>1. /\ job'[r].kind # "protected"
        /\ \A q \in Requests : q # r => /\ job'[q] = job[q] /\ phase'[q] = phase[q]
                                       /\ outcome'[q] = outcome[q]
                                       /\ (q \in late' => q \in late)
        /\ UNCHANGED hit
    BY <1>6 DEF BeginHealth, BeginLogout, BeginLogin, Open, TypeOK
  <2> QED
    BY <1>4, <2>1
<1>7. ASSUME NEW r \in Requests, StoreAnswers(r)
      PROVE  LateLearns'
  <2>1. PICK found : /\ Answer(r, found)
                     /\ (job[r].kind = "protected" =>
                          (found <=> Holds(Home(job[r].at), job[r].session)))
    <3>1. CASE job[r].kind = "protected"
      BY <1>7, <3>1 DEF StoreAnswers
    <3>2. CASE job[r].kind # "protected"
      BY <1>7, <3>2 DEF StoreAnswers
    <3> QED
      BY <3>1, <3>2
  <2>2. /\ \A q \in Requests : q # r => phase'[q] = phase[q]
        /\ \A q \in Requests : q # r => (q \in hit' <=> q \in hit)
        /\ phase'[r] = "answered"
        /\ UNCHANGED <<job, outcome, late, loggedOut>>
    BY <1>7, <2>1 DEF StoreAnswers, Answer, TypeOK, history
  <2>3. CASE ~(Late(r) /\ r \notin hit')
    BY <1>4, <2>2, <2>3
  <2>4. CASE Late(r) /\ r \notin hit'
    <3>1. /\ job[r].session \in Sessions /\ job[r].at \in Instances
          /\ signer[job[r].session] = Key(job[r].at)
          /\ job[r].session \in loggedOut
      BY <1>7, <2>4, JobType
         DEF StoreAnswers, CookieChecked, LateLearns, Pending, Kinds
    <3>2. ~Holds(Home(job[r].at), job[r].session)
      BY <2>1, <2>4 DEF Answer
    <3>3. InDoubt(job[r].session)
      BY <3>1, <3>2, ExpiredInDoubt, HomeType
         DEF Holds, SignOutRecorded, Gone, InDoubt
    <3>4. \A s \in Sessions : s = job[r].session => InDoubt(s)'
      BY <1>1, <3>1, <3>3
    <3>5. ASSUME NEW q \in Requests, q # r, Late(q)'
          PROVE  LateQ(q)'
      BY <1>3, <2>2, <3>5
    <3>6. InDoubt(job[r].session)'
      BY <2>2, <3>1, <3>4 DEF InDoubt, Key
    <3> QED
      BY <1>2, <2>2, <3>1, <3>5, <3>6 DEF LateLearns
  <2> QED
    BY <2>3, <2>4
<1>8. ASSUME NEW r \in Requests, Resume(r)
      PROVE  LateLearns'
  <2>1. CASE ResumeProtected(r)
    BY <1>4, <2>1 DEF ResumeProtected, Move, Answered, TypeOK, history
  <2>2. CASE ResumeLogout(r) \/ ResumeLogin(r) \/ ResumeHealth(r)
    <3>1. job[r].kind # "protected"
      BY <2>2 DEF ResumeLogout, ResumeLogin, ResumeHealth, Answered
    <3> QED
      BY <1>4, <2>2, <3>1
         DEF ResumeLogout, ResumeLogin, ResumeHealth, Move, TypeOK, history
  <2>3. CASE Finish(r)
    BY <1>4, <2>3 DEF Finish, Move, TypeOK, history
  <2> QED
    BY <1>8, <2>1, <2>2, <2>3 DEF Resume
<1>9. ASSUME NEW r \in Requests, StoreFails(r)
      PROVE  LateLearns'
  BY <1>4, <1>9 DEF StoreFails, Move, TypeOK, history
<1>10. ASSUME NEW i \in Instances, Restart(i)
      PROVE  LateLearns'
  BY <1>4, <1>10 DEF Restart, TypeOK, history
<1>11. CASE UNCHANGED <<request, late>>
  BY <1>4, <1>11 DEF request
<1> QED
  BY <1>5, <1>6, <1>7, <1>8, <1>9, <1>10, <1>11
     DEF Next, StrayArrives, Tick, Reach, vars, history

LEMMA NextInv == SessionInv /\ Supported /\ [Next]_vars => SessionInv'
BY NextType, KeysKnownStep, LoginsFreshStep, CookieCheckedStep,
   SignOutRecordedStep, LateLearnsStep, IdleBlankStep
   DEF SessionInv

\* In the supported deployments a request that began after its session's
\* sign-out was confirmed is admitted only when the session is in doubt: the
\* gate of server.ts never misses a revocation otherwise, whatever the
\* interleaving of requests, outages, late commands and restarts.
THEOREM ConfirmedLogoutHolds ==
  ASSUME Supported
  PROVE  Spec => []LogoutHolds
<1>1. Init => SessionInv
  BY InitInv
<1>2. SessionInv /\ [Next]_vars => SessionInv'
  BY NextInv
<1>3. SessionInv => LogoutHolds
  BY DEF SessionInv, LateLearns, LogoutHolds, Admitted
<1> QED
  BY <1>1, <1>2, <1>3, PTL DEF Spec

\* In the supported deployments a confirmed sign-out stays on record wherever
\* the session could be verified, until the session is in doubt.
THEOREM ConfirmedLogoutRecorded ==
  ASSUME Supported
  PROVE  Spec => []ConfirmedIsRecorded
<1>1. Init => SessionInv
  BY InitInv
<1>2. SessionInv /\ [Next]_vars => SessionInv'
  BY NextInv
<1>3. SessionInv => ConfirmedIsRecorded
  BY DEF SessionInv, SignOutRecorded, Gone, ConfirmedIsRecorded
<1> QED
  BY <1>1, <1>2, <1>3, PTL DEF Spec

-----------------------------------------------------------------------------
(* Why a request is refused, and what an outage lets through.              *)

\* A sign-out of session s has been asked for.
SignOutBegun(s) ==
  \E q \in Requests : job[q].kind = "logout" /\ job[q].session = s

\* An issued session that is no longer live.
Ended(s) == InDoubt(s) \/ \E i \in Instances : s \in revoked[Home(i)]

\* A request that has not begun has left no trace.
Untouched ==
  \A r \in Requests : phase[r] = "idle" =>
    job[r] = NoJob /\ outcome[r] = "pending" /\ r \notin live

\* A request still waiting for the store has no outcome, one still asking has
\* no reply, and one at work was let in.
OutcomesAgree ==
  \A r \in Requests :
    /\ phase[r] \in {"asking", "answered"} => outcome[r] = "pending"
    /\ phase[r] = "asking" => r \notin hit
    /\ phase[r] = "working" => outcome[r] = "ok"

\* Every entry of a store, and every command on its way to one, belongs to an
\* issued session and comes from a sign-out of that session.
EntriesCaused ==
  \A s \in Sessions :
    s \in stray \/ (\E st \in Clocks : s \in revoked[st])
      => Issued(s) /\ SignOutBegun(s)

\* What a protected request knows of its session: when it began, what the
\* store told it, and why it was refused.
KnowsSession(r) ==
  /\ r \in live => Issued(job[r].session)
  /\ Pending(r) /\ r \notin live => Ended(job[r].session)
  /\ phase[r] = "answered" =>
       IF r \in hit THEN Ended(job[r].session) /\ SignOutBegun(job[r].session)
                    ELSE r \in live \/ InDoubt(job[r].session)
  /\ outcome[r] = "refused" /\ r \in live
       => InDoubt(job[r].session) \/ SignOutBegun(job[r].session)

VerdictsGrounded ==
  \A r \in Requests : job[r].kind = "protected" => KnowsSession(r)

\* Nothing goes past the store while it is out of reach.
OutageSeen ==
  Shared => \A r \in Requests :
    /\ up /\ phase[r] # "idle" => r \in sawUp
    /\ phase[r] \in {"answered", "working"} => r \in sawUp
    /\ outcome[r] = "ok" /\ (job[r].kind = "logout" => r \in live) => r \in sawUp

GateInv ==
  /\ SessionInv
  /\ Untouched
  /\ OutcomesAgree
  /\ EntriesCaused
  /\ VerdictsGrounded
  /\ OutageSeen

-----------------------------------------------------------------------------
(* What one step can do to one request.                                    *)

Same(q) ==
  /\ job'[q] = job[q] /\ phase'[q] = phase[q] /\ outcome'[q] = outcome[q]
  /\ (q \in hit' <=> q \in hit) /\ (q \in live' <=> q \in live)

BegunAs(q, kind, i, s) ==
  /\ phase[q] = "idle"
  /\ job'[q] = [kind |-> kind, at |-> i, session |-> s]
  /\ (q \in hit' <=> q \in hit)
  /\ (q \in live' <=> q \in live \/ (s \in Sessions /\ Standing(s) = "live"))
  /\ \/ /\ phase'[q] = "asking" /\ outcome'[q] = "pending"
        /\ kind = "protected" => ValidCookie(i, s)
     \/ /\ phase'[q] = "done" /\ outcome'[q] = "refused"
        /\ kind = "protected" => ~ValidCookie(i, s)
     \/ /\ phase'[q] = "done" /\ outcome'[q] = "ok"
        /\ kind # "protected"
        /\ Shared => kind = "logout" /\ ~ValidCookie(i, s)

Begun(q) ==
  \E kind \in Kinds, i \in Instances, s \in Sessions \cup {"none"} :
    /\ kind # "health" => s \in Sessions
    /\ BegunAs(q, kind, i, s)

Told(q) ==
  /\ phase[q] = "asking" /\ phase'[q] = "answered"
  /\ Shared => up
  /\ job'[q] = job[q] /\ outcome'[q] = outcome[q] /\ (q \in live' <=> q \in live)
  /\ job[q].kind = "protected" =>
       (q \in hit' <=> q \in hit \/ Holds(Home(job[q].at), job[q].session))

Resumed(q) ==
  /\ phase[q] = "answered"
  /\ job'[q] = job[q] /\ (q \in hit' <=> q \in hit) /\ (q \in live' <=> q \in live)
  /\ \/ /\ job[q].kind = "protected" /\ q \in hit
        /\ phase'[q] = "done" /\ outcome'[q] = "refused"
     \/ /\ job[q].kind = "protected" /\ q \notin hit
        /\ phase'[q] = "working" /\ outcome'[q] = "ok"
     \/ /\ job[q].kind # "protected"
        /\ phase'[q] = "done" /\ outcome'[q] = "ok"

Finished(q) ==
  /\ phase[q] = "working" /\ phase'[q] = "done" /\ outcome'[q] = "ok"
  /\ job'[q] = job[q] /\ (q \in live' <=> q \in live)

CutOff(q) ==
  /\ job'[q] = job[q] /\ (q \in live' <=> q \in live)
  /\ \/ /\ phase[q] \in {"asking", "answered"}
        /\ phase'[q] = "done" /\ outcome'[q] = "unavailable"
     \/ Pending(q) /\ phase'[q] = "lost" /\ outcome'[q] = outcome[q]

Moved(q) ==
  Same(q) \/ Begun(q) \/ Told(q) \/ Resumed(q) \/ Finished(q) \/ CutOff(q)

LEMMA OpenFrame ==
  ASSUME TypeOK, NEW r \in Requests, NEW kind, NEW i, NEW s, NEW next, NEW answer,
         Open(r, kind, i, s, next, answer)
  PROVE  /\ phase[r] = "idle"
         /\ job'[r] = [kind |-> kind, at |-> i, session |-> s]
         /\ phase'[r] = next /\ outcome'[r] = answer
         /\ (r \in hit' <=> r \in hit)
         /\ (r \in live' <=> r \in live \/ (s \in Sessions /\ Standing(s) = "live"))
         /\ \A q \in Requests : q # r => Same(q)
BY DEF Open, TypeOK, Same

LEMMA MoveFrame ==
  ASSUME TypeOK, NEW r \in Requests, NEW next, NEW answer, Move(r, next, answer)
  PROVE  /\ job'[r] = job[r] /\ phase'[r] = next /\ outcome'[r] = answer
         /\ (r \in hit' <=> r \in hit) /\ (r \in live' <=> r \in live)
         /\ \A q \in Requests : q # r => Same(q)
BY DEF Move, TypeOK, Same, history

LEMMA RequestStep ==
  ASSUME TypeOK, [Next]_vars, NEW q \in Requests
  PROVE  Moved(q)
<1>1. ASSUME NEW r \in Requests, NEW i \in Instances, NEW s \in Sessions,
             BeginProtected(r, i, s)
      PROVE  Moved(q)
  <2>1. \/ ValidCookie(i, s) /\ Open(r, "protected", i, s, "asking", "pending")
        \/ ~ValidCookie(i, s) /\ Open(r, "protected", i, s, "done", "refused")
    BY <1>1 DEF BeginProtected
  <2>2. CASE q = r
    <3>1. BegunAs(q, "protected", i, s)
      BY <2>1, <2>2, OpenFrame DEF BegunAs
    <3> QED
      BY <3>1 DEF Moved, Begun, Kinds
  <2>3. CASE q # r
    BY <2>1, <2>3, OpenFrame DEF Moved
  <2> QED
    BY <2>2, <2>3
<1>2. ASSUME NEW r \in Requests, NEW i \in Instances, NEW s \in Sessions,
             BeginLogout(r, i, s)
      PROVE  Moved(q)
  <2>1. \/ Open(r, "logout", i, s, "asking", "pending")
        \/ ~ValidCookie(i, s) /\ Open(r, "logout", i, s, "done", "ok")
    BY <1>2 DEF BeginLogout
  <2>2. CASE q = r
    <3>1. BegunAs(q, "logout", i, s)
      BY <2>1, <2>2, OpenFrame DEF BegunAs
    <3> QED
      BY <3>1 DEF Moved, Begun, Kinds
  <2>3. CASE q # r
    BY <2>1, <2>3, OpenFrame DEF Moved
  <2> QED
    BY <2>2, <2>3
<1>3. ASSUME NEW r \in Requests, NEW i \in Instances, NEW s \in Sessions,
             NEW b \in BOOLEAN, BeginLogin(r, i, s, b)
      PROVE  Moved(q)
  <2>1. \/ Open(r, "login", i, s, "done", "refused")
        \/ Open(r, "login", i, s, "asking", "pending")
        \/ ~Shared /\ Open(r, "login", i, s, "done", "ok")
    BY <1>3 DEF BeginLogin
  <2>2. CASE q = r
    <3>1. BegunAs(q, "login", i, s)
      BY <2>1, <2>2, OpenFrame DEF BegunAs
    <3> QED
      BY <3>1 DEF Moved, Begun, Kinds
  <2>3. CASE q # r
    BY <2>1, <2>3, OpenFrame DEF Moved
  <2> QED
    BY <2>2, <2>3
<1>4. ASSUME NEW r \in Requests, NEW i \in Instances, BeginHealth(r, i)
      PROVE  Moved(q)
  <2>1. \/ Open(r, "health", i, "none", "asking", "pending")
        \/ ~Shared /\ Open(r, "health", i, "none", "done", "ok")
    BY <1>4 DEF BeginHealth
  <2>2. CASE q = r
    <3>1. BegunAs(q, "health", i, "none")
      BY <2>1, <2>2, OpenFrame DEF BegunAs
    <3> QED
      BY <3>1 DEF Moved, Begun, Kinds
  <2>3. CASE q # r
    BY <2>1, <2>3, OpenFrame DEF Moved
  <2> QED
    BY <2>2, <2>3
<1>5. ASSUME NEW r \in Requests, StoreAnswers(r)
      PROVE  Moved(q)
  <2>1. PICK found : /\ Answer(r, found)
                     /\ (job[r].kind = "protected" =>
                          (found <=> Holds(Home(job[r].at), job[r].session)))
    <3>1. CASE job[r].kind = "protected"
      BY <1>5, <3>1 DEF StoreAnswers
    <3>2. CASE job[r].kind # "protected"
      BY <1>5, <3>2 DEF StoreAnswers
    <3> QED
      BY <3>1, <3>2
  <2>2. phase[r] = "asking" /\ (Shared => up)
    BY <1>5 DEF StoreAnswers
  <2>3. /\ phase'[r] = "answered" /\ (r \in hit' <=> r \in hit \/ found)
        /\ q # r => phase'[q] = phase[q] /\ (q \in hit' <=> q \in hit)
        /\ UNCHANGED <<job, outcome, live>>
    BY <2>1 DEF Answer, TypeOK, history
  <2> QED
    BY <2>1, <2>2, <2>3 DEF Moved, Told, Same
<1>6. ASSUME NEW r \in Requests, Resume(r)
      PROVE  Moved(q)
  <2>1. CASE ResumeProtected(r)
    <3>1. /\ phase[r] = "answered" /\ job[r].kind = "protected"
          /\ \/ r \in hit /\ Move(r, "done", "refused")
             \/ r \notin hit /\ Move(r, "working", "ok")
      BY <2>1 DEF ResumeProtected, Answered
    <3> QED
      BY <3>1, MoveFrame DEF Moved, Resumed
  <2>2. CASE ResumeLogout(r) \/ ResumeLogin(r) \/ ResumeHealth(r)
    <3>1. /\ phase[r] = "answered" /\ job[r].kind # "protected"
          /\ Move(r, "done", "ok")
      BY <2>2 DEF ResumeLogout, ResumeLogin, ResumeHealth, Answered
    <3> QED
      BY <3>1, MoveFrame DEF Moved, Resumed
  <2>3. CASE Finish(r)
    <3>1. phase[r] = "working" /\ Move(r, "done", "ok")
      BY <2>3 DEF Finish
    <3> QED
      BY <3>1, MoveFrame DEF Moved, Finished
  <2> QED
    BY <1>6, <2>1, <2>2, <2>3 DEF Resume
<1>7. ASSUME NEW r \in Requests, StoreFails(r)
      PROVE  Moved(q)
  <2>1. phase[r] \in {"asking", "answered"} /\ Move(r, "done", "unavailable")
    BY <1>7 DEF StoreFails
  <2> QED
    BY <2>1, MoveFrame DEF Moved, CutOff
<1>8. ASSUME NEW i \in Instances, Restart(i)
      PROVE  Moved(q)
  <2>1. /\ phase'[q] = IF Pending(q) /\ job[q].at = i THEN "lost" ELSE phase[q]
        /\ UNCHANGED <<job, outcome, hit, live>>
    BY <1>8 DEF Restart, history
  <2> QED
    BY <2>1 DEF Moved, Same, CutOff
<1>9. CASE UNCHANGED <<request, live>>
  BY <1>9 DEF request, Moved, Same
<1> QED
  BY <1>1, <1>2, <1>3, <1>4, <1>5, <1>6, <1>7, <1>8, <1>9
     DEF Next, StrayArrives, Tick, Reach, vars, history

-----------------------------------------------------------------------------
(* The invariant of the gate is inductive.                                 *)

LEMMA SignOutBegunStays ==
  ASSUME TypeOK, Untouched, [Next]_vars, NEW s, SignOutBegun(s)
  PROVE  SignOutBegun(s)'
<1>1. PICK q \in Requests : job[q].kind = "logout" /\ job[q].session = s
  BY DEF SignOutBegun
<1>2. job[q].kind # NoJob.kind
  BY <1>1 DEF NoJob
<1>3. phase[q] # "idle"
  BY <1>2 DEF Untouched
<1>4. job'[q] = job[q]
  BY <1>3, RequestStep
     DEF Moved, Same, Begun, BegunAs, Told, Resumed, Finished, CutOff
<1> QED
  BY <1>1, <1>4 DEF SignOutBegun

\* An issued session that is no longer live does not come back to life.
LEMMA EndedStays ==
  ASSUME TypeOK, KeysKnown, LoginsFresh, Supported, [Next]_vars,
         NEW s \in Sessions, Issued(s), Ended(s)
  PROVE  Ended(s)'
<1>1. CASE InDoubt(s)
  BY <1>1, DoubtStays DEF Ended
<1>2. ASSUME NEW i \in Instances, s \in revoked[Home(i)]
      PROVE  Ended(s)'
  <2>1. \/ s \in revoked'[Home(i)]
        \/ now + MaxSkew >= expiresAt[s]
        \/ signer[s] # Key(i)'
    BY <1>2, IssuedFrame DEF Keeps
  <2>2. CASE s \in revoked'[Home(i)]
    BY <2>2 DEF Ended, Home
  <2>3. CASE now + MaxSkew >= expiresAt[s]
    BY <2>3, DoubtStays DEF Ended, InDoubt
  <2>4. CASE signer[s] # Key(i)'
    <3>1. ~StableSecret
      BY <2>4 DEF KeysKnown, Key
    <3>2. \A j \in Instances : signer'[s] # Key(j)'
      BY <2>4, <3>1, IssuedFrame DEF Supported
    <3> QED
      BY <3>2 DEF Ended, InDoubt
  <2> QED
    BY <2>1, <2>2, <2>3, <2>4
<1> QED
  BY <1>1, <1>2 DEF Ended

LEMMA UntouchedStep == GateInv /\ [Next]_vars => Untouched'
<1> SUFFICES ASSUME GateInv, [Next]_vars, NEW q \in Requests, phase'[q] = "idle"
             PROVE  job'[q] = NoJob /\ outcome'[q] = "pending" /\ q \notin live'
  BY DEF Untouched
<1>1. Moved(q)
  BY RequestStep DEF GateInv, SessionInv
<1>2. Same(q)
  BY <1>1 DEF Moved, Begun, BegunAs, Told, Resumed, Finished, CutOff
<1> QED
  BY <1>2 DEF GateInv, Untouched, Same

LEMMA OutcomesAgreeStep == GateInv /\ [Next]_vars => OutcomesAgree'
<1> SUFFICES ASSUME GateInv, [Next]_vars, NEW q \in Requests
             PROVE  /\ phase'[q] \in {"asking", "answered"} => outcome'[q] = "pending"
                    /\ phase'[q] = "asking" => q \notin hit'
                    /\ phase'[q] = "working" => outcome'[q] = "ok"
  BY DEF OutcomesAgree
<1>1. Moved(q)
  BY RequestStep DEF GateInv, SessionInv
<1> QED
  BY <1>1 DEF GateInv, SessionInv, OutcomesAgree, IdleBlank, Moved, Same, Begun,
              BegunAs, Told, Resumed, Finished, CutOff

LEMMA EntriesCausedStep == GateInv /\ Supported /\ [Next]_vars => EntriesCaused'
<1> SUFFICES ASSUME GateInv, Supported, [Next]_vars PROVE EntriesCaused'
  OBVIOUS
<1> USE DEF SessionsUnchanged, StoreUnchanged, WorldUnchanged
<1>0. TypeOK /\ KeysKnown /\ LoginsFresh /\ Untouched
  BY DEF GateInv, SessionInv
<1>1. ASSUME NEW s \in Sessions, Issued(s), SignOutBegun(s)
      PROVE  (Issued(s) /\ SignOutBegun(s))'
  BY <1>0, <1>1, IssuedFrame, SignOutBegunStays DEF Issued
<1> DEFINE Entered(s) == s \in stray \/ \E st \in Clocks : s \in revoked[st]
\* A step that adds no entry but that of a sign-out already begun.
<1>2. ASSUME \A s \in Sessions :
               Entered(s)' => Entered(s) \/ (Issued(s) /\ SignOutBegun(s))
      PROVE  EntriesCaused'
  BY <1>1, <1>2 DEF GateInv, EntriesCaused
<1>3. ASSUME NEW r \in Requests, job[r].kind = "logout", Pending(r)
      PROVE  job[r].session \in Sessions /\ Issued(job[r].session)
             /\ SignOutBegun(job[r].session)
  <2>1. job[r].session \in Sessions
    BY <1>0, <1>3, JobType DEF Kinds
  <2>2. Issued(job[r].session)
    BY <1>3 DEF GateInv, SessionInv, CookieChecked
  <2> QED
    BY <1>3, <2>1, <2>2 DEF SignOutBegun
<1>4. ASSUME NEW r \in Requests, StoreAnswers(r)
      PROVE  EntriesCaused'
  <2>1. CASE job[r].kind = "logout"
    <3>1. Pending(r) /\ Enter(Home(job[r].at), job[r].session) /\ UNCHANGED stray
      BY <1>4, <2>1 DEF StoreAnswers, Pending
    <3> QED
      BY <1>0, <1>2, <1>3, <2>1, <3>1 DEF Enter, TypeOK
  <2>2. CASE job[r].kind # "logout"
    <3>1. UNCHANGED stray
          /\ (UNCHANGED revoked \/ Forget(Home(job[r].at), job[r].session))
      BY <1>4, <2>2 DEF StoreAnswers
    <3> QED
      BY <1>0, <1>2, <3>1 DEF Forget, TypeOK
  <2> QED
    BY <2>1, <2>2
<1>5. ASSUME NEW x \in Sessions, StrayArrives(x)
      PROVE  EntriesCaused'
  BY <1>0, <1>2, <1>5 DEF StrayArrives, Enter, TypeOK
<1>6. ASSUME NEW r \in Requests, StoreFails(r)
      PROVE  EntriesCaused'
  <2>1. UNCHANGED revoked
    BY <1>6 DEF StoreFails
  <2>2. CASE phase[r] = "asking" /\ job[r].kind = "logout"
    <3>1. stray' = stray \cup {job[r].session} /\ Pending(r)
      BY <1>6, <2>2 DEF StoreFails, Pending
    <3> QED
      BY <1>2, <1>3, <2>1, <2>2, <3>1
  <2>3. CASE ~(phase[r] = "asking" /\ job[r].kind = "logout")
    BY <1>2, <1>6, <2>1, <2>3 DEF StoreFails
  <2> QED
    BY <2>2, <2>3
<1>7. ASSUME NEW i \in Instances, Restart(i)
      PROVE  EntriesCaused'
  <2>1. \A st \in Clocks : revoked'[st] \subseteq revoked[st]
    BY <1>0, <1>7 DEF Restart, TypeOK
  <2>2. \A s \in Sessions : s \in stray' => s \in stray \/ (Issued(s) /\ SignOutBegun(s))
    <3>1. SUFFICES ASSUME NEW s \in Sessions, NEW r \in Requests,
                          phase[r] = "asking", job[r].kind = "logout",
                          job[r].session = s
                   PROVE  Issued(s) /\ SignOutBegun(s)
      BY <1>7 DEF Restart
    <3> QED
      BY <1>3, <3>1 DEF Pending
  <2> QED
    BY <1>2, <2>1, <2>2
<1>8. CASE UNCHANGED <<revoked, stray>>
  BY <1>2, <1>8
<1> QED
  BY <1>4, <1>5, <1>6, <1>7, <1>8
     DEF Next, BeginProtected, BeginLogout, BeginLogin, BeginHealth, Resume,
         ResumeProtected, ResumeLogout, ResumeLogin, ResumeHealth, Finish,
         Tick, Reach, vars

LEMMA LiveIsIssuedNotEnded ==
  ASSUME NEW s
  PROVE  Standing(s) = "live" <=> Issued(s) /\ ~Ended(s)
BY DEF Standing, Ended

LEMMA VerdictsGroundedStep == GateInv /\ Supported /\ [Next]_vars => VerdictsGrounded'
<1> SUFFICES ASSUME GateInv, Supported, [Next]_vars,
                    NEW q \in Requests, job'[q].kind = "protected"
             PROVE  KnowsSession(q)'
  BY DEF VerdictsGrounded
<1>0. TypeOK /\ KeysKnown /\ LoginsFresh /\ Untouched /\ CookieChecked /\ IdleBlank
  BY DEF GateInv, SessionInv
<1>1. Moved(q)
  BY <1>0, RequestStep
\* A request under way keeps its session, and what it knows of it.
<1>2. ASSUME job'[q] = job[q]
      PROVE  /\ job[q].session \in Sessions
             /\ KnowsSession(q)
             /\ Issued(job[q].session) => Issued(job[q].session)'
             /\ SignOutBegun(job[q].session) => SignOutBegun(job[q].session)'
             /\ Issued(job[q].session) /\ InDoubt(job[q].session)
                  => InDoubt(job[q].session)'
             /\ Issued(job[q].session) /\ Ended(job[q].session)
                  => Ended(job[q].session)'
             /\ Pending(q) => Issued(job[q].session)
  <2>1. job[q].session \in Sessions /\ job[q].kind = "protected"
    BY <1>0, <1>2, JobType DEF Kinds
  <2>2. KnowsSession(q)
    BY <2>1 DEF GateInv, VerdictsGrounded
  <2>3. Pending(q) => Issued(job[q].session)
    BY <1>0, <2>1 DEF CookieChecked
  <2>4. PICK s \in Sessions : s = job[q].session
    BY <2>1
  <2>5. Issued(s) => Issued(s)' /\ (InDoubt(s) => InDoubt(s)') /\ (Ended(s) => Ended(s)')
    BY <1>0, IssuedFrame, DoubtStays, EndedStays DEF Issued
  <2>6. SignOutBegun(s) => SignOutBegun(s)'
    BY <1>0, SignOutBegunStays
  <2>7. job'[q].session = s
    BY <1>2, <2>4
  <2> QED
    BY <2>1, <2>2, <2>3, <2>4, <2>5, <2>6, <2>7
<1>3. CASE Same(q)
  <2>1. /\ job'[q] = job[q] /\ phase'[q] = phase[q] /\ outcome'[q] = outcome[q]
        /\ (q \in hit' <=> q \in hit) /\ (q \in live' <=> q \in live)
    BY <1>3 DEF Same
  <2> QED
    BY <1>2, <2>1 DEF KnowsSession, Pending
<1>4. CASE Begun(q)
  <2>1. PICK i \in Instances, s \in Sessions : BegunAs(q, "protected", i, s)
    BY <1>4 DEF Begun, BegunAs
  <2>2. /\ job'[q].session = s /\ q \notin live
        /\ (q \in live' <=> Issued(s) /\ ~Ended(s))
        /\ phase'[q] \in {"asking", "done"} /\ outcome'[q] # "ok"
    BY <1>0, <2>1, LiveIsIssuedNotEnded DEF BegunAs, Untouched
  <2>3. Issued(s) => Issued(s)' /\ (InDoubt(s) => InDoubt(s)') /\ (Ended(s) => Ended(s)')
    BY <1>0, IssuedFrame, DoubtStays, EndedStays DEF Issued
  <2>4. CASE phase'[q] = "asking" /\ outcome'[q] = "pending" /\ ValidCookie(i, s)
    BY <2>2, <2>3, <2>4 DEF KnowsSession, Pending, ValidCookie
  <2>5. CASE phase'[q] = "done" /\ ~ValidCookie(i, s)
    <3>1. Issued(s) => Ended(s)
      BY <2>5, RejectedInDoubt DEF GateInv, Ended
    <3> QED
      BY <2>2, <2>5, <3>1 DEF KnowsSession, Pending
  <2> QED
    BY <2>1, <2>4, <2>5 DEF BegunAs
<1>5. CASE Told(q)
  <2>1. /\ job'[q] = job[q] /\ phase'[q] = "answered" /\ outcome'[q] = "pending"
        /\ (q \in live' <=> q \in live) /\ Pending(q)
        /\ (q \in hit' <=> Holds(Home(job[q].at), job[q].session))
    BY <1>5 DEF Told, GateInv, OutcomesAgree, Pending
  <2>2. job[q].at \in Instances
    BY <1>0, <2>1, JobType DEF Kinds
  <2>3. Issued(job[q].session)
    BY <1>2, <2>1
  <2>4. CASE q \in hit'
    <3>1. Ended(job[q].session)
      BY <2>1, <2>2, <2>4 DEF Holds, Ended
    <3>2. SignOutBegun(job[q].session)
      BY <1>2, <2>1, <2>2, <2>4, HomeType DEF Holds, GateInv, EntriesCaused
    <3> QED
      BY <1>2, <2>1, <2>3, <2>4, <3>1, <3>2 DEF KnowsSession, Pending
  <2>5. CASE q \notin hit'
    <3>1. q \in live \/ InDoubt(job[q].session)
      <4>1. SUFFICES ASSUME Ended(job[q].session) PROVE InDoubt(job[q].session)
        BY <1>2, <2>1 DEF KnowsSession
      <4>2. SUFFICES ASSUME NEW i \in Instances, job[q].session \in revoked[Home(i)]
                     PROVE  InDoubt(job[q].session)
        BY <4>1 DEF Ended
      <4>3. Home(i) = Home(job[q].at)
        BY <2>2 DEF Supported, Home
      <4>4. Expired(Home(job[q].at), job[q].session)
        BY <2>1, <2>5, <4>2, <4>3 DEF Holds
      <4> QED
        BY <1>0, <1>2, <2>1, <2>2, <4>4, HomeType, ExpiredInDoubt DEF InDoubt
    <3> QED
      BY <1>2, <2>1, <2>3, <2>5, <3>1 DEF KnowsSession, Pending
  <2> QED
    BY <2>4, <2>5
<1>6. CASE Resumed(q)
  <2>1. /\ job'[q] = job[q] /\ (q \in live' <=> q \in live) /\ Pending(q)
        /\ (q \in hit' <=> q \in hit) /\ phase[q] = "answered"
        /\ \/ q \in hit /\ phase'[q] = "done" /\ outcome'[q] = "refused"
           \/ q \notin hit /\ phase'[q] = "working" /\ outcome'[q] = "ok"
    BY <1>6 DEF Resumed, Pending
  <2> QED
    BY <1>2, <2>1 DEF KnowsSession, Pending
<1>7. CASE Finished(q) \/ CutOff(q)
  <2>1. /\ job'[q] = job[q] /\ (q \in live' <=> q \in live)
        /\ phase'[q] \in {"done", "lost"} /\ outcome'[q] # "refused"
    BY <1>7 DEF Finished, CutOff, Pending, GateInv, OutcomesAgree
  <2> QED
    BY <1>2, <2>1 DEF KnowsSession, Pending
<1> QED
  BY <1>1, <1>3, <1>4, <1>5, <1>6, <1>7 DEF Moved

\* A request notices that Redis is within reach, now or when it comes back.
LEMMA ReachIsSeen ==
  ASSUME TypeOK, [Next]_vars, NEW q \in Requests
  PROVE  /\ sawUp \subseteq sawUp'
         /\ up' /\ phase'[q] # "idle" => (up /\ phase[q] # "idle") \/ q \in sawUp'
<1> DEFINE Seen == /\ sawUp \subseteq sawUp'
                   /\ up' /\ phase'[q] # "idle"
                        => (up /\ phase[q] # "idle") \/ q \in sawUp'
<1> USE DEF WorldUnchanged
<1>1. ASSUME UNCHANGED up, UNCHANGED sawUp, phase[q] = "idle" => phase'[q] = "idle"
      PROVE  Seen
  BY <1>1
<1>2. ASSUME NEW r \in Requests, NEW kind, NEW i, NEW s, NEW next, NEW answer,
             Open(r, kind, i, s, next, answer), UNCHANGED up
      PROVE  Seen
  BY <1>2 DEF Open, TypeOK
<1>3. ASSUME NEW r \in Requests, NEW i \in Instances,
             \/ BeginHealth(r, i)
             \/ \E s \in Sessions : BeginProtected(r, i, s) \/ BeginLogout(r, i, s)
             \/ \E s \in Sessions, b \in BOOLEAN : BeginLogin(r, i, s, b)
      PROVE  Seen
  <2>1. UNCHANGED up
    BY <1>3 DEF BeginHealth, BeginProtected, BeginLogout, BeginLogin
  <2>2. \E kind, s, next, answer : Open(r, kind, i, s, next, answer)
    BY <1>3 DEF BeginHealth, BeginProtected, BeginLogout, BeginLogin
  <2> QED
    BY <1>2, <2>1, <2>2
<1>4. ASSUME NEW r \in Requests, Resume(r) \/ StoreFails(r) \/ StoreAnswers(r)
      PROVE  Seen
  <2>1. /\ UNCHANGED <<up, sawUp>>
        /\ phase[r] # "idle" /\ \A x \in Requests : x # r => phase'[x] = phase[x]
    <3>1. CASE StoreAnswers(r)
      <4>1. \E found : Answer(r, found)
        BY <3>1 DEF StoreAnswers
      <4> QED
        BY <3>1, <4>1 DEF StoreAnswers, Answer, TypeOK, history
    <3>2. CASE Resume(r) \/ StoreFails(r)
      BY <3>2
         DEF Resume, ResumeProtected, ResumeLogout, ResumeLogin, ResumeHealth,
             Finish, StoreFails, Move, Answered, TypeOK, history
    <3> QED
      BY <1>4, <3>1, <3>2
  <2> QED
    BY <1>1, <2>1
<1>5. ASSUME NEW i \in Instances, Restart(i)
      PROVE  Seen
  BY <1>1, <1>5 DEF Restart, Pending, history
<1>6. CASE Reach
  BY <1>6 DEF Reach, TypeOK, request
<1>7. CASE UNCHANGED <<up, request, history>>
  BY <1>1, <1>7 DEF request, history
<1> QED
  BY <1>3, <1>4, <1>5, <1>6, <1>7 DEF Next, StrayArrives, Tick, vars

LEMMA OutageSeenStep == GateInv /\ Supported /\ [Next]_vars => OutageSeen'
<1> SUFFICES ASSUME GateInv, Supported, [Next]_vars, Shared, NEW q \in Requests
             PROVE  /\ up' /\ phase'[q] # "idle" => q \in sawUp'
                    /\ phase'[q] \in {"answered", "working"} => q \in sawUp'
                    /\ outcome'[q] = "ok" /\ (job'[q].kind = "logout" => q \in live')
                         => q \in sawUp'
  BY DEF OutageSeen
<1>0. TypeOK /\ OutageSeen /\ Untouched /\ OutcomesAgree
  BY DEF GateInv, SessionInv
<1>1. /\ sawUp \subseteq sawUp'
      /\ up' /\ phase'[q] # "idle" => q \in sawUp'
  BY <1>0, ReachIsSeen DEF OutageSeen
<1>2. /\ up /\ phase[q] # "idle" => q \in sawUp'
      /\ phase[q] \in {"answered", "working"} => q \in sawUp'
      /\ outcome[q] = "ok" /\ (job[q].kind = "logout" => q \in live) => q \in sawUp'
  BY <1>0, <1>1 DEF OutageSeen
<1>3. Moved(q)
  BY <1>0, RequestStep
<1>4. CASE Begun(q)
  <2>1. PICK kind \in Kinds, i \in Instances, s \in Sessions \cup {"none"} :
           /\ kind # "health" => s \in Sessions
           /\ BegunAs(q, kind, i, s)
    BY <1>4 DEF Begun
  <2>2. CASE outcome'[q] # "ok"
    BY <1>1, <2>1, <2>2 DEF BegunAs
  <2>3. CASE outcome'[q] = "ok"
    <3>1. /\ s \in Sessions /\ ~ValidCookie(i, s) /\ phase'[q] = "done"
          /\ job'[q].kind = "logout"
          /\ (q \in live' => q \in live \/ Standing(s) = "live")
      BY <2>1, <2>3 DEF BegunAs
    <3>2. q \notin live'
      BY <1>0, <2>1, <3>1, LiveIsIssuedNotEnded, RejectedInDoubt
         DEF GateInv, Untouched, BegunAs, Ended
    <3> QED
      BY <1>1, <3>1, <3>2
  <2> QED
    BY <2>2, <2>3
<1>5. CASE Told(q)
  BY <1>1, <1>2, <1>5 DEF Told
<1>6. CASE Same(q) \/ Resumed(q) \/ Finished(q) \/ CutOff(q)
  BY <1>0, <1>1, <1>2, <1>6
     DEF Same, Resumed, Finished, CutOff, Pending, OutcomesAgree
<1> QED
  BY <1>3, <1>4, <1>5, <1>6 DEF Moved

LEMMA InitGate == Init => GateInv
<1> SUFFICES ASSUME Init PROVE GateInv
  OBVIOUS
<1>1. SessionInv
  BY InitInv
<1>2. Untouched /\ OutcomesAgree /\ OutageSeen
  BY DEF Init, Untouched, OutcomesAgree, OutageSeen
<1>3. EntriesCaused /\ VerdictsGrounded
  BY DEF Init, EntriesCaused, VerdictsGrounded, NoJob
<1> QED
  BY <1>1, <1>2, <1>3 DEF GateInv

LEMMA NextGate == GateInv /\ Supported /\ [Next]_vars => GateInv'
BY NextInv, UntouchedStep, OutcomesAgreeStep, EntriesCausedStep,
   VerdictsGroundedStep, OutageSeenStep
   DEF GateInv

\* The invariant of the gate, from which the theorems below follow.
THEOREM GateInvariant ==
  ASSUME Supported
  PROVE  Spec => []GateInv
<1>1. Init => GateInv
  BY InitGate
<1>2. GateInv /\ [Next]_vars => GateInv'
  BY NextGate
<1> QED
  BY <1>1, <1>2, PTL DEF Spec

\* In the supported deployments no sign-out but its own ends a session: a
\* request whose session was live is refused only after a sign-out of that
\* session was asked for, or when the session is in doubt.
THEOREM RefusalHasACause ==
  ASSUME Supported
  PROVE  Spec => []RefusedOnlyWithCause
<1>1. GateInv => RefusedOnlyWithCause
  BY DEF GateInv, VerdictsGrounded, KnowsSession, RefusedOnlyWithCause, Refused,
         SignOutBegun
<1> QED
  BY <1>1, GateInvariant, PTL

\* In the supported deployments the server fails closed: a request that never
\* saw Redis within reach is not let in, signs nobody in, confirms no sign-out
\* of a live session and reports no health.
THEOREM OutageFailsClosed ==
  ASSUME Supported
  PROVE  Spec => []FailClosed
<1>1. GateInv => FailClosed
  BY DEF GateInv, OutageSeen, FailClosed
<1> QED
  BY <1>1, GateInvariant, PTL

-----------------------------------------------------------------------------
(* The server implements SessionLifecycle.                                 *)

StandingOf == [s \in Sessions |-> Standing(s)]
VerdictOf == [r \in Requests |-> VerdictState(r)]

\* A protected request in some state of its verdict.
AsVerdict(state, s, isLive) == [state |-> state, session |-> s, live |-> isLive]

Unchanged(q) == VerdictState(q)' = VerdictState(q)

Begins(q) ==
  /\ VerdictState(q) = [state |-> "idle"]
  /\ \E s \in Sessions :
       \/ VerdictState(q)' = AsVerdict("begun", s, Standing(s) = "live")
       \/ /\ VerdictState(q)' = AsVerdict("refused", s, Standing(s) = "live")
          /\ Standing(s) # "live"

Decides(q, state) ==
  LET s == job[q].session IN
  /\ s \in Sessions
  /\ VerdictState(q) = AsVerdict("begun", s, q \in live)
  /\ VerdictState(q)' = AsVerdict(state, s, q \in live)
  /\ state = "admitted" => q \in live \/ Standing(s) = "expiring"
  /\ state = "refused" => Standing(s) # "live"

LEMMA SameVerdict ==
  ASSUME NEW q \in Requests, Same(q)
  PROVE  Unchanged(q)
BY DEF Same, Unchanged, VerdictState

LEMMA VerdictStep ==
  ASSUME GateInv, Supported, [Next]_vars, NEW q \in Requests
  PROVE  \/ Unchanged(q) \/ Begins(q)
         \/ \E state \in {"admitted", "refused", "failed"} : Decides(q, state)
<1>0. TypeOK /\ Untouched /\ CookieChecked /\ OutcomesAgree
  BY DEF GateInv, SessionInv
<1>1. Moved(q)
  BY <1>0, RequestStep
<1>2. CASE Begun(q)
  <2>1. PICK kind \in Kinds, i \in Instances, s \in Sessions \cup {"none"} :
           /\ kind # "health" => s \in Sessions
           /\ BegunAs(q, kind, i, s)
    BY <1>2 DEF Begun
  <2>2. VerdictState(q) = [state |-> "idle"]
    BY <1>0, <2>1 DEF BegunAs, Untouched, NoJob, VerdictState
  <2>3. CASE kind # "protected"
    <3>1. VerdictState(q)' = [state |-> "idle"]
      BY <2>1, <2>3 DEF BegunAs, VerdictState
    <3> QED
      BY <2>2, <3>1 DEF Unchanged
  <2>4. CASE kind = "protected"
    <3>1. /\ s \in Sessions /\ job'[q].session = s /\ job'[q].kind = "protected"
          /\ (q \in live' <=> Standing(s) = "live")
      BY <1>0, <2>1, <2>4 DEF BegunAs, Untouched
    <3>2. CASE phase'[q] = "asking" /\ outcome'[q] = "pending"
      <4>1. VerdictState(q)' = AsVerdict("begun", s, Standing(s) = "live")
        BY <3>1, <3>2 DEF VerdictState, AsVerdict
      <4> QED
        BY <2>2, <3>1, <4>1 DEF Begins
    <3>3. CASE outcome'[q] = "refused" /\ ~ValidCookie(i, s)
      <4>1. VerdictState(q)' = AsVerdict("refused", s, Standing(s) = "live")
        <5>1. VerdictState(q)' = AsVerdict("refused", job'[q].session, q \in live')
          BY <3>1, <3>3 DEF VerdictState, AsVerdict
        <5>2. (q \in live') = (Standing(s) = "live")
          BY <3>1
        <5> QED
          BY <3>1, <5>1, <5>2
      <4>2. Standing(s) # "live"
        BY <3>1, <3>3, LiveIsIssuedNotEnded, RejectedInDoubt DEF GateInv, Ended
      <4> QED
        BY <2>2, <3>1, <4>1, <4>2 DEF Begins
    <3> QED
      BY <2>1, <2>4, <3>2, <3>3 DEF BegunAs
  <2> QED
    BY <2>3, <2>4
<1>3. CASE ~Begun(q) /\ job[q].kind # "protected"
  <2>1. job'[q] = job[q]
    BY <1>1, <1>3 DEF Moved, Same, Told, Resumed, Finished, CutOff
  <2>2. VerdictState(q) = [state |-> "idle"] /\ VerdictState(q)' = [state |-> "idle"]
    BY <1>3, <2>1 DEF VerdictState
  <2> QED
    BY <2>2 DEF Unchanged
<1>4. CASE ~Begun(q) /\ job[q].kind = "protected"
  <2>1. /\ job'[q] = job[q] /\ job[q].session \in Sessions
        /\ (q \in live' <=> q \in live)
    BY <1>0, <1>1, <1>4, JobType DEF Moved, Same, Told, Resumed, Finished, CutOff, Kinds
  <2>2. CASE Same(q)
    BY <2>2, SameVerdict
  <2>3. CASE Told(q)
    <3>1. /\ phase[q] = "asking" /\ phase'[q] = "answered"
          /\ outcome[q] = "pending" /\ outcome'[q] = "pending"
      BY <1>0, <2>3 DEF Told, OutcomesAgree
    <3> QED
      BY <1>4, <2>1, <3>1 DEF VerdictState, Unchanged
  <2>4. CASE Resumed(q)
    <3>1. /\ phase[q] = "answered" /\ outcome[q] = "pending"
          /\ Issued(job[q].session)
          /\ KnowsSession(q)
      BY <1>0, <1>4, <2>4
         DEF Resumed, OutcomesAgree, CookieChecked, Pending, GateInv, VerdictsGrounded
    <3>2. VerdictState(q) = AsVerdict("begun", job[q].session, q \in live)
      BY <1>4, <3>1 DEF VerdictState, AsVerdict
    <3>3. CASE q \in hit /\ phase'[q] = "done" /\ outcome'[q] = "refused"
      <4>1. VerdictState(q)' = AsVerdict("refused", job[q].session, q \in live)
        BY <1>4, <2>1, <3>3 DEF VerdictState, AsVerdict
      <4>2. Standing(job[q].session) # "live"
        BY <3>1, <3>3, LiveIsIssuedNotEnded DEF KnowsSession
      <4> QED
        BY <2>1, <3>2, <4>1, <4>2 DEF Decides
    <3>4. CASE q \notin hit /\ phase'[q] = "working" /\ outcome'[q] = "ok"
      <4>1. VerdictState(q)' = AsVerdict("admitted", job[q].session, q \in live)
        BY <1>4, <2>1, <3>4 DEF VerdictState, AsVerdict
      <4>2. q \in live \/ Standing(job[q].session) = "expiring"
        BY <3>1, <3>4 DEF KnowsSession, Standing
      <4> QED
        BY <2>1, <3>2, <4>1, <4>2 DEF Decides
    <3> QED
      BY <1>4, <2>4, <3>3, <3>4 DEF Resumed
  <2>5. CASE Finished(q)
    <3>1. outcome[q] = "ok" /\ outcome'[q] = "ok"
      BY <1>0, <2>5 DEF Finished, OutcomesAgree
    <3>2. /\ VerdictState(q) = AsVerdict("admitted", job[q].session, q \in live)
          /\ VerdictState(q)' = AsVerdict("admitted", job'[q].session, q \in live')
      BY <1>4, <2>1, <3>1 DEF VerdictState, AsVerdict
    <3>3. (q \in live') = (q \in live)
      BY <2>1
    <3> QED
      BY <2>1, <3>2, <3>3 DEF Unchanged
  <2>6. CASE CutOff(q)
    <3>1. CASE phase[q] = "working"
      <4>1. outcome[q] = "ok" /\ outcome'[q] = "ok"
        BY <1>0, <2>6, <3>1 DEF CutOff, OutcomesAgree
      <4>2. /\ VerdictState(q) = AsVerdict("admitted", job[q].session, q \in live)
            /\ VerdictState(q)' = AsVerdict("admitted", job'[q].session, q \in live')
        BY <1>4, <2>1, <4>1 DEF VerdictState, AsVerdict
      <4>3. (q \in live') = (q \in live)
        BY <2>1
      <4> QED
        BY <2>1, <4>2, <4>3 DEF Unchanged
    <3>2. CASE phase[q] # "working"
      <4>1. /\ phase[q] \in {"asking", "answered"} /\ outcome[q] = "pending"
            /\ \/ outcome'[q] = "unavailable"
               \/ phase'[q] = "lost" /\ outcome'[q] = "pending"
        BY <1>0, <2>6, <3>2 DEF CutOff, Pending, OutcomesAgree
      <4>2. VerdictState(q) = AsVerdict("begun", job[q].session, q \in live)
        BY <1>4, <4>1 DEF VerdictState, AsVerdict
      <4>3. VerdictState(q)' = AsVerdict("failed", job[q].session, q \in live)
        BY <1>4, <2>1, <4>1 DEF VerdictState, AsVerdict
      <4> QED
        BY <2>1, <4>2, <4>3 DEF Decides
    <3> QED
      BY <3>1, <3>2
  <2> QED
    BY <1>1, <1>4, <2>2, <2>3, <2>4, <2>5, <2>6 DEF Moved
<1> QED
  BY <1>2, <1>3, <1>4

LEMMA StandingSteady ==
  ASSUME UNCHANGED <<now, boots, expiresAt, signer, revoked>>, NEW s \in Sessions
  PROVE  Standing(s)' = Standing(s)
BY DEF Standing, InDoubt, Issued, Key, Home

\* A look-up that drops an entry drops one whose session is in doubt.
LEMMA ForgetStanding ==
  ASSUME TypeOK, NEW st \in Clocks, NEW x \in Sessions, Forget(st, x),
         UNCHANGED <<now, boots, expiresAt, signer>>, NEW s \in Sessions
  PROVE  Standing(s)' = Standing(s)
<1>1. /\ Issued(s)' <=> Issued(s)
      /\ InDoubt(s)' <=> InDoubt(s)
  BY DEF Issued, InDoubt, Key
<1>2. CASE InDoubt(s)
  BY <1>1, <1>2 DEF Standing
<1>3. CASE ~InDoubt(s)
  <2>1. ~(Expired(st, x) /\ x = s)
    BY <1>3, ExpiredInDoubt DEF InDoubt
  <2>2. \A i \in Instances : s \in revoked'[Home(i)] <=> s \in revoked[Home(i)]
    BY <2>1, HomeType DEF Forget, TypeOK
  <2> QED
    BY <1>1, <2>2 DEF Standing, Home
<1> QED
  BY <1>2, <1>3

\* A revocation that is carried out ends its session if it is live, and only it.
LEMMA EnterStanding ==
  ASSUME TypeOK, NEW st \in Clocks, \A i \in Instances : Home(i) = st,
         NEW x \in Sessions, Issued(x), Enter(st, x),
         UNCHANGED <<now, boots, expiresAt, signer>>, NEW s \in Sessions
  PROVE  \/ Standing(s)' = Standing(s)
         \/ s = x /\ Standing(s) = "live" /\ Standing(s)' = "ended"
<1>1. /\ Issued(s)' <=> Issued(s)
      /\ InDoubt(s)' <=> InDoubt(s)
  BY DEF Issued, InDoubt, Key
<1>2. CASE InDoubt(s)
  BY <1>1, <1>2 DEF Standing
<1>3. CASE ~InDoubt(s)
  <2>1. ~Expired(st, s)
    BY <1>3, ExpiredInDoubt DEF InDoubt
  <2>2. s \in revoked'[st] <=> s \in revoked[st] \/ s = x
    BY <2>1 DEF Enter, TypeOK
  <2>3. PICK i \in Instances : Home(i) = st
    BY <1>3 DEF InDoubt
  <2>4. /\ (\E j \in Instances : s \in revoked[Home(j)]) <=> s \in revoked[st]
        /\ (\E j \in Instances : s \in revoked'[Home(j)]) <=> s \in revoked'[st]
    BY <2>3
  <2>5. (\E j \in Instances : s \in revoked[Home(j)])' <=> s \in revoked'[st]
    BY <2>4 DEF Home
  <2>6. CASE s = x
    BY <1>1, <1>3, <2>2, <2>4, <2>5, <2>6 DEF Standing
  <2>7. CASE s # x
    BY <1>1, <1>3, <2>2, <2>4, <2>5, <2>7 DEF Standing
  <2> QED
    BY <2>6, <2>7
<1> QED
  BY <1>2, <1>3

\* A session is issued live, and no other is touched.
LEMMA IssueStanding ==
  ASSUME GateInv, NEW i \in Instances, NEW x \in Sessions, Issue(i, x), ~Issued(x),
         UNCHANGED <<now, boots, revoked>>, NEW s \in Sessions
  PROVE  \/ Standing(s)' = Standing(s)
         \/ s = x /\ Standing(s) = "unissued" /\ Standing(s)' = "live"
<1>0. TypeOK
  BY DEF GateInv, SessionInv
<1>1. CASE s # x
  <2>1. expiresAt'[s] = expiresAt[s] /\ signer'[s] = signer[s]
    BY <1>0, <1>1 DEF Issue, TypeOK
  <2> QED
    BY <2>1 DEF Standing, InDoubt, Issued, Key, Home
<1>2. CASE s = x
  <2>1. /\ expiresAt'[s] = Clock(i) + Lifetime /\ signer'[s] = Key(i)
        /\ now \in Nat /\ skew[i] \in Nat
    BY <1>0, <1>2, ShapeAssumption, LifetimeAssumption DEF Issue, TypeOK, Clocks
  <2>2. expiresAt'[s] # 0 /\ ~(now' + MaxSkew >= expiresAt'[s])
    BY <2>1, LifetimeAssumption DEF Clock
  <2>3. signer'[s] = Key(i)'
    BY <2>1 DEF Key
  <2>4. \A j \in Instances : s \notin revoked[Home(j)]
    BY <1>2, HomeType DEF GateInv, EntriesCaused
  <2>5. ~(\E j \in Instances : s \in revoked[Home(j)])'
    BY <2>4 DEF Home
  <2>6. Issued(s)' /\ ~InDoubt(s)'
    BY <2>2, <2>3 DEF Issued, InDoubt
  <2>7. Standing(s)' = "live"
    BY <2>5, <2>6 DEF Standing
  <2> QED
    BY <1>2, <2>7 DEF Standing
<1> QED
  BY <1>1, <1>2

\* Time and the loss of a process leave a session where it stands or bring it
\* into doubt.
LEMMA LapseStanding ==
  ASSUME GateInv, Supported, Tick \/ (\E i \in Instances : Restart(i)),
         NEW s \in Sessions
  PROVE  Standing(s)' \in {Standing(s), "expiring"}
<1>0. TypeOK /\ KeysKnown /\ LoginsFresh
  BY DEF GateInv, SessionInv
<1>1. [Next]_vars
  BY DEF Next
<1>2. /\ UNCHANGED <<expiresAt, signer>>
      /\ Issued(s)' <=> Issued(s)
  BY DEF Tick, Restart, SessionsUnchanged, Issued
<1>3. CASE ~Issued(s)
  BY <1>2, <1>3 DEF Standing
<1>4. CASE Issued(s) /\ InDoubt(s)
  BY <1>0, <1>1, <1>2, <1>4, DoubtStays DEF Standing
<1>5. CASE Issued(s) /\ ~InDoubt(s) /\ Tick
  <2>1. UNCHANGED revoked
    BY <1>5 DEF Tick, StoreUnchanged
  <2>2. (\E j \in Instances : s \in revoked[Home(j)])'
          <=> (\E j \in Instances : s \in revoked[Home(j)])
    BY <2>1 DEF Home
  <2> QED
    BY <1>2, <1>5, <2>2 DEF Standing
<1>6. ASSUME Issued(s), ~InDoubt(s), NEW i \in Instances, Restart(i)
      PROVE  Standing(s)' \in {Standing(s), "expiring"}
  <2>1. CASE Shared
    <3>1. revoked'["redis"] = revoked["redis"]
      BY <1>0, <1>6, ShapeAssumption DEF Restart, TypeOK, Clocks
    <3>2. (\E j \in Instances : s \in revoked[Home(j)])'
            <=> (\E j \in Instances : s \in revoked[Home(j)])
      BY <2>1, <3>1 DEF Home
    <3> QED
      BY <1>2, <1>6, <3>2 DEF Standing
  <2>2. CASE ~Shared
    <3>1. signer'[s] # Key(i)'
      BY <1>0, <1>2, <1>6, <2>2, RestartKey DEF Supported
    <3>2. InDoubt(s)'
      BY <2>2, <3>1 DEF InDoubt, Supported
    <3> QED
      BY <1>2, <1>6, <3>2 DEF Standing
  <2> QED
    BY <2>1, <2>2
<1> QED
  BY <1>3, <1>4, <1>5, <1>6

-----------------------------------------------------------------------------
(* Every step of the server is a step of the life of sessions.             *)

LEMMA StandingRests ==
  ASSUME \A s \in Sessions : Standing(s)' = Standing(s)
  PROVE  StandingOf' = StandingOf
BY DEF StandingOf

LEMMA VerdictsRest ==
  ASSUME \A q \in Requests : Unchanged(q)
  PROVE  VerdictOf' = VerdictOf
BY DEF VerdictOf, Unchanged

LEMMA OneVerdict ==
  ASSUME NEW r \in Requests, \A q \in Requests : q # r => Unchanged(q)
  PROVE  VerdictOf' = [VerdictOf EXCEPT ![r] = VerdictState(r)']
BY DEF VerdictOf, Unchanged

\* A step in which one request moves and no session does.
LEMMA RequestMoves ==
  ASSUME GateInv, Supported, [Next]_vars, NEW r \in Requests,
         \A q \in Requests : q # r => Unchanged(q),
         \A s \in Sessions : Standing(s)' = Standing(s)
  PROVE  [Lifecycle!Next]_Lifecycle!vars
<1>1. StandingOf' = StandingOf
  BY StandingRests
<1>2. VerdictOf' = [VerdictOf EXCEPT ![r] = VerdictState(r)']
  BY OneVerdict
<1>3. VerdictOf[r] = VerdictState(r) /\ \A s \in Sessions : StandingOf[s] = Standing(s)
  BY DEF VerdictOf, StandingOf
<1>4. CASE Unchanged(r)
  <2>1. \A q \in Requests : Unchanged(q)
    BY <1>4
  <2>2. VerdictOf' = VerdictOf
    BY <2>1, VerdictsRest
  <2> QED
    BY <1>1, <2>2 DEF Lifecycle!vars, StandingOf, VerdictOf
<1>5. CASE Begins(r)
  <2>1. PICK s \in Sessions :
          \/ VerdictState(r)' = AsVerdict("begun", s, Standing(s) = "live")
          \/ /\ VerdictState(r)' = AsVerdict("refused", s, Standing(s) = "live")
             /\ Standing(s) # "live"
    BY <1>5 DEF Begins
  <2>2. VerdictOf[r].state = "idle"
    BY <1>3, <1>5 DEF Begins
  <2>3. \/ VerdictOf' = [VerdictOf EXCEPT ![r] =
             [state |-> "begun", session |-> s, live |-> StandingOf[s] = "live"]]
        \/ /\ VerdictOf' = [VerdictOf EXCEPT ![r] =
                [state |-> "refused", session |-> s, live |-> StandingOf[s] = "live"]]
           /\ StandingOf[s] # "live"
    BY <1>2, <1>3, <2>1 DEF AsVerdict
  <2>4. Lifecycle!Begin(r, s)
    BY <1>1, <2>2, <2>3 DEF Lifecycle!Begin, Lifecycle!Record, StandingOf, VerdictOf
  <2> QED
    BY <2>4 DEF Lifecycle!Next
<1>6. ASSUME NEW state \in {"admitted", "refused", "failed"}, Decides(r, state)
      PROVE  [Lifecycle!Next]_Lifecycle!vars
  <2> DEFINE s == job[r].session
  <2>1. /\ s \in Sessions
        /\ VerdictOf[r] = AsVerdict("begun", s, r \in live)
        /\ VerdictState(r)' = AsVerdict(state, s, r \in live)
        /\ state = "admitted" => r \in live \/ StandingOf[s] = "expiring"
        /\ state = "refused" => StandingOf[s] # "live"
    BY <1>3, <1>6 DEF Decides
  <2>2. /\ VerdictOf[r].state = "begun" /\ VerdictOf[r].session = s
        /\ VerdictOf[r].live <=> r \in live
        /\ VerdictState(r)' = [VerdictOf[r] EXCEPT !.state = state]
    <3>1. VerdictOf[r] = [state |-> "begun", session |-> s, live |-> r \in live]
      BY <2>1 DEF AsVerdict
    <3>2. VerdictOf[r].live = (r \in live)
      BY <3>1
    <3>3. VerdictOf[r].state = "begun" /\ VerdictOf[r].session = s
      BY <3>1
    <3>4. [VerdictOf[r] EXCEPT !.state = state]
            = [state |-> state, session |-> s, live |-> r \in live]
      BY <3>1
    <3> QED
      BY <2>1, <3>2, <3>3, <3>4 DEF AsVerdict
  <2>3. VerdictOf' = [VerdictOf EXCEPT ![r] = [VerdictOf[r] EXCEPT !.state = state]]
    BY <1>2, <2>2
  <2>4. CASE state = "admitted"
    <3>1. VerdictOf[r].live \/ StandingOf[VerdictOf[r].session] = "expiring"
      BY <2>1, <2>2, <2>4
    <3>2. VerdictOf' = [VerdictOf EXCEPT ![r].state = "admitted"]
      BY <2>3, <2>4
    <3>3. Lifecycle!Admit(r)
      BY <1>1, <2>2, <3>1, <3>2 DEF Lifecycle!Admit, Lifecycle!Decide, StandingOf, VerdictOf
    <3> QED
      BY <3>3 DEF Lifecycle!Next
  <2>5. CASE state = "refused"
    <3>1. StandingOf[VerdictOf[r].session] # "live"
      BY <2>1, <2>2, <2>5
    <3>2. VerdictOf' = [VerdictOf EXCEPT ![r].state = "refused"]
      BY <2>3, <2>5
    <3>3. Lifecycle!Refuse(r)
      BY <1>1, <2>2, <3>1, <3>2 DEF Lifecycle!Refuse, Lifecycle!Decide, StandingOf, VerdictOf
    <3> QED
      BY <3>3 DEF Lifecycle!Next
  <2>6. CASE state = "failed"
    <3>1. VerdictOf' = [q \in Requests |->
                          IF q \in {r} THEN [VerdictOf[q] EXCEPT !.state = "failed"]
                                       ELSE VerdictOf[q]]
      BY <2>3, <2>6 DEF VerdictOf
    <3>2. StandingOf' = [x \in Sessions |-> IF x \in {} THEN "expiring" ELSE StandingOf[x]]
      BY <1>1 DEF StandingOf
    <3>3. Lifecycle!Lapse({}, {r})
      BY <2>2, <3>1, <3>2 DEF Lifecycle!Lapse, StandingOf, VerdictOf
    <3> QED
      BY <3>3 DEF Lifecycle!Next
  <2> QED
    BY <2>4, <2>5, <2>6
<1> QED
  BY <1>4, <1>5, <1>6, VerdictStep

\* A step in which one session is issued or ended and no verdict changes.
LEMMA SessionMoves ==
  ASSUME NEW x \in Sessions,
         \A q \in Requests : Unchanged(q),
         \A s \in Sessions :
           \/ Standing(s)' = Standing(s)
           \/ /\ s = x
              /\ \/ Standing(s) = "unissued" /\ Standing(s)' = "live"
                 \/ Standing(s) = "live" /\ Standing(s)' = "ended"
  PROVE  [Lifecycle!Next]_Lifecycle!vars
<1>1. VerdictOf' = VerdictOf
  BY VerdictsRest
<1>2. StandingOf' = [StandingOf EXCEPT ![x] = Standing(x)']
  BY DEF StandingOf
<1>3. StandingOf[x] = Standing(x)
  BY DEF StandingOf
<1>4. CASE Standing(x)' = Standing(x)
  <2>1. StandingOf' = StandingOf
    BY <1>4, StandingRests
  <2> QED
    BY <1>1, <2>1 DEF Lifecycle!vars, StandingOf, VerdictOf
<1>5. CASE Standing(x) = "unissued" /\ Standing(x)' = "live"
  <2>1. StandingOf' = [StandingOf EXCEPT ![x] = "live"]
    BY <1>2, <1>5
  <2>2. Lifecycle!Issue(x)
    BY <1>1, <1>3, <1>5, <2>1 DEF Lifecycle!Issue, Lifecycle!Move, StandingOf, VerdictOf
  <2> QED
    BY <2>2 DEF Lifecycle!Next
<1>6. CASE Standing(x) = "live" /\ Standing(x)' = "ended"
  <2>1. StandingOf' = [StandingOf EXCEPT ![x] = "ended"]
    BY <1>2, <1>6
  <2>2. Lifecycle!SignOut(x)
    BY <1>1, <1>3, <1>6, <2>1 DEF Lifecycle!SignOut, Lifecycle!Move, StandingOf, VerdictOf
  <2> QED
    BY <2>2 DEF Lifecycle!Next
<1> QED
  BY <1>4, <1>5, <1>6

\* A step in which sessions come into doubt and requests are cut off.
LEMMA AllLapse ==
  ASSUME \A s \in Sessions : Standing(s)' \in {Standing(s), "expiring"},
         \A q \in Requests : Unchanged(q) \/ Decides(q, "failed")
  PROVE  [Lifecycle!Next]_Lifecycle!vars
<1> DEFINE S == {s \in Sessions : Standing(s) # "expiring" /\ Standing(s)' = "expiring"}
           R == {q \in Requests : ~Unchanged(q)}
<1>1. PICK T \in SUBSET Sessions : T = S
  OBVIOUS
<1>2. PICK Q \in SUBSET Requests : Q = R
  OBVIOUS
<1>3. \A s \in T : StandingOf[s] # "expiring"
  BY <1>1 DEF StandingOf
<1>4. StandingOf' = [s \in Sessions |-> IF s \in T THEN "expiring" ELSE StandingOf[s]]
  BY <1>1 DEF StandingOf
<1>5. \A q \in Q : Decides(q, "failed")
  BY <1>2
<1>6. ASSUME NEW q \in Q
      PROVE  /\ VerdictState(q).state = "begun"
             /\ VerdictState(q)' = [VerdictState(q) EXCEPT !.state = "failed"]
  BY <1>5, <1>6 DEF Decides, AsVerdict
<1>7. \A q \in Q : VerdictOf[q].state = "begun"
  BY <1>6 DEF VerdictOf
<1>8. \A q \in Requests : VerdictState(q)' =
        IF q \in Q THEN [VerdictState(q) EXCEPT !.state = "failed"] ELSE VerdictState(q)
  BY <1>2, <1>6 DEF Unchanged
<1>9. VerdictOf' = [q \in Requests |->
                      IF q \in Q THEN [VerdictOf[q] EXCEPT !.state = "failed"]
                                 ELSE VerdictOf[q]]
  BY <1>8 DEF VerdictOf
<1>10. Lifecycle!Lapse(T, Q)
  BY <1>3, <1>4, <1>7, <1>9 DEF Lifecycle!Lapse, StandingOf, VerdictOf
<1> QED
  BY <1>10 DEF Lifecycle!Next

LEMMA LifecycleInit == Init => Lifecycle!Init
<1> SUFFICES ASSUME Init PROVE Lifecycle!Init
  OBVIOUS
<1>1. PICK by \in [Sessions -> Instances \cup {"none"}] :
       /\ expiresAt = [s \in Sessions |-> IF by[s] = "none" THEN 0
                                          ELSE skew[by[s]] + Lifetime]
       /\ signer = [s \in Sessions |-> IF by[s] = "none" THEN SharedKey
                                       ELSE Key(by[s])]
  BY DEF Init
<1>2. ASSUME NEW s \in Sessions
      PROVE  Standing(s) \in {"unissued", "live"}
  <2>1. CASE by[s] = "none"
    BY <1>1, <2>1 DEF Standing, Issued
  <2>2. CASE by[s] # "none"
    <3>1. by[s] \in Instances /\ skew[by[s]] \in Nat /\ now = 0
      BY <2>2, LifetimeAssumption DEF Init, Clocks
    <3>2. expiresAt[s] = skew[by[s]] + Lifetime /\ signer[s] = Key(by[s])
      BY <1>1, <2>2
    <3>3. ~(now + MaxSkew >= expiresAt[s])
      BY <3>1, <3>2, LifetimeAssumption
    <3>4. ~InDoubt(s)
      BY <3>1, <3>2, <3>3 DEF InDoubt
    <3>5. \A i \in Instances : s \notin revoked[Home(i)]
      BY HomeType DEF Init
    <3> QED
      BY <3>4, <3>5 DEF Standing
  <2> QED
    BY <2>1, <2>2
<1>3. StandingOf \in [Sessions -> {"unissued", "live"}]
  BY <1>2 DEF StandingOf
<1>4. VerdictOf = [r \in Requests |-> [state |-> "idle"]]
  BY DEF Init, NoJob, VerdictState, VerdictOf
<1> QED
  BY <1>3, <1>4 DEF Lifecycle!Init, StandingOf, VerdictOf

LEMMA LifecycleStep ==
  ASSUME GateInv, Supported, [Next]_vars
  PROVE  [Lifecycle!Next]_Lifecycle!vars
<1> USE DEF SessionsUnchanged, StoreUnchanged, WorldUnchanged
<1>0. TypeOK /\ LoginsFresh /\ CookieChecked
  BY DEF GateInv, SessionInv
\* A request that is not for a protected path is not part of the abstraction.
<1>1. ASSUME NEW q \in Requests, job[q].kind # "protected", job'[q].kind # "protected"
      PROVE  Unchanged(q)
  BY <1>1 DEF Unchanged, VerdictState
<1>2. ASSUME NEW r \in Requests, \A q \in Requests : q # r => Same(q),
             UNCHANGED <<now, boots, expiresAt, signer, revoked>>
      PROVE  [Lifecycle!Next]_Lifecycle!vars
  BY <1>2, SameVerdict, StandingSteady, RequestMoves
<1>3. ASSUME NEW r \in Requests, NEW i \in Instances, NEW s \in Sessions,
             BeginProtected(r, i, s) \/ BeginLogout(r, i, s)
      PROVE  [Lifecycle!Next]_Lifecycle!vars
  <2>1. \E kind, next, answer : Open(r, kind, i, s, next, answer)
    BY <1>3 DEF BeginProtected, BeginLogout
  <2>2. UNCHANGED <<now, boots, expiresAt, signer, revoked>>
    BY <1>3 DEF BeginProtected, BeginLogout
  <2> QED
    BY <1>0, <1>2, <2>1, <2>2, OpenFrame
<1>4. ASSUME NEW r \in Requests, NEW i \in Instances, BeginHealth(r, i)
      PROVE  [Lifecycle!Next]_Lifecycle!vars
  <2>1. \E next, answer : Open(r, "health", i, "none", next, answer)
    BY <1>4 DEF BeginHealth
  <2>2. UNCHANGED <<now, boots, expiresAt, signer, revoked>>
    BY <1>4 DEF BeginHealth
  <2> QED
    BY <1>0, <1>2, <2>1, <2>2, OpenFrame
<1>5. ASSUME NEW r \in Requests, NEW i \in Instances, NEW s \in Sessions,
             NEW b \in BOOLEAN, BeginLogin(r, i, s, b)
      PROVE  [Lifecycle!Next]_Lifecycle!vars
  <2>1. PICK next, answer : Open(r, "login", i, s, next, answer)
    BY <1>5 DEF BeginLogin
  <2>2. UNCHANGED <<now, boots, revoked>> /\ ~Issued(s)
    BY <1>5 DEF BeginLogin
  <2>3. CASE UNCHANGED <<expiresAt, signer>>
    BY <1>0, <1>2, <2>1, <2>2, <2>3, OpenFrame
  <2>4. CASE Issue(i, s)
    <3>1. job[r].kind # "protected" /\ job'[r].kind # "protected"
      <4>1. phase[r] = "idle" /\ job'[r] = [kind |-> "login", at |-> i, session |-> s]
        BY <1>0, <2>1, OpenFrame
      <4>2. job[r] = NoJob
        BY <4>1 DEF GateInv, Untouched
      <4> QED
        BY <4>1, <4>2 DEF NoJob
    <3>2. \A q \in Requests : Unchanged(q)
      BY <1>0, <1>1, <2>1, <3>1, OpenFrame, SameVerdict
    <3> QED
      BY <2>2, <2>4, <3>2, IssueStanding, SessionMoves
  <2> QED
    BY <1>5, <2>3, <2>4 DEF BeginLogin
<1>6. ASSUME NEW r \in Requests, StoreAnswers(r)
      PROVE  [Lifecycle!Next]_Lifecycle!vars
  <2>1. PICK found : Answer(r, found)
    BY <1>6 DEF StoreAnswers
  <2>2. UNCHANGED job /\ \A q \in Requests : q # r => Same(q)
    BY <1>0, <2>1 DEF Answer, Same, TypeOK, history
  <2>3. UNCHANGED <<now, boots, expiresAt, signer>> /\ Pending(r)
    BY <1>6 DEF StoreAnswers, Pending
  <2>4. CASE job[r].kind = "protected"
    <3>1. Forget(Home(job[r].at), job[r].session)
      BY <1>6, <2>4 DEF StoreAnswers
    <3>2. job[r].session \in Sessions /\ Home(job[r].at) \in Clocks
      BY <1>0, <2>4, JobType, HomeType DEF Kinds
    <3>3. \A s \in Sessions : Standing(s)' = Standing(s)
      BY <1>0, <2>3, <3>1, <3>2, ForgetStanding
    <3> QED
      BY <2>2, <3>3, SameVerdict, RequestMoves
  <2>5. CASE job[r].kind = "logout"
    <3>1. Enter(Home(job[r].at), job[r].session)
      BY <1>6, <2>5 DEF StoreAnswers
    <3>2. job[r].session \in Sessions /\ Issued(job[r].session) /\ job[r].at \in Instances
      BY <1>0, <2>3, <2>5, JobType DEF Kinds, CookieChecked
    <3>3. Home(job[r].at) \in Clocks /\ \A i \in Instances : Home(i) = Home(job[r].at)
      BY <3>2, HomeType DEF Supported, Home
    <3>4. \A q \in Requests : Unchanged(q)
      BY <1>1, <2>2, <2>5, SameVerdict
    <3>5. \A s \in Sessions : \/ Standing(s)' = Standing(s)
                              \/ /\ s = job[r].session
                                 /\ Standing(s) = "live" /\ Standing(s)' = "ended"
      BY <1>0, <2>3, <3>1, <3>2, <3>3, EnterStanding
    <3> QED
      BY <3>2, <3>4, <3>5, SessionMoves
  <2>6. CASE job[r].kind \notin {"protected", "logout"}
    <3>1. UNCHANGED revoked
      BY <1>6, <2>6 DEF StoreAnswers
    <3> QED
      BY <1>2, <2>2, <2>3, <3>1
  <2> QED
    BY <2>4, <2>5, <2>6
<1>7. ASSUME NEW x \in Sessions, StrayArrives(x)
      PROVE  [Lifecycle!Next]_Lifecycle!vars
  <2>1. /\ x \in stray /\ Enter("redis", x) /\ UNCHANGED request /\ UNCHANGED live
        /\ UNCHANGED <<now, boots, expiresAt, signer>>
    BY <1>7 DEF StrayArrives, history
  <2>2. Issued(x) /\ "redis" \in Clocks
    BY <2>1 DEF GateInv, EntriesCaused, Clocks
  <2>3. \A q \in Requests : Unchanged(q)
    BY <2>1, SameVerdict DEF request, Same
  <2>4. CASE Shared
    <3>1. \A i \in Instances : Home(i) = "redis"
      BY <2>4 DEF Home
    <3>2. \A s \in Sessions : \/ Standing(s)' = Standing(s)
                              \/ s = x /\ Standing(s) = "live" /\ Standing(s)' = "ended"
      BY <1>0, <2>1, <2>2, <3>1, EnterStanding
    <3> QED
      BY <2>3, <3>2, SessionMoves
  <2>5. CASE ~Shared
    <3>1. \A i \in Instances : revoked'[Home(i)] = revoked[Home(i)]
      BY <1>0, <2>1, <2>5, ShapeAssumption DEF Enter, TypeOK, Home, Clocks
    <3>2. ASSUME NEW s \in Sessions PROVE Standing(s)' = Standing(s)
      <4>1. (\E j \in Instances : s \in revoked[Home(j)])'
              <=> (\E j \in Instances : s \in revoked[Home(j)])
        BY <3>1 DEF Home
      <4>2. (Issued(s)' <=> Issued(s)) /\ (InDoubt(s)' <=> InDoubt(s))
        BY <2>1 DEF Issued, InDoubt, Key
      <4> QED
        BY <4>1, <4>2 DEF Standing
    <3> QED
      BY <2>3, <3>2, SessionMoves
  <2> QED
    BY <2>4, <2>5
<1>8. ASSUME NEW r \in Requests, Resume(r)
      PROVE  [Lifecycle!Next]_Lifecycle!vars
  <2>1. CASE ResumeLogin(r)
    <3>1. /\ job[r].kind = "login" /\ Pending(r) /\ Move(r, "done", "ok")
          /\ Issue(job[r].at, job[r].session)
          /\ UNCHANGED <<now, boots, revoked>>
      BY <2>1 DEF ResumeLogin, Answered, Pending
    <3>2. /\ job[r].session \in Sessions /\ job[r].at \in Instances
          /\ ~Issued(job[r].session)
      BY <1>0, <3>1, JobType DEF Kinds, LoginsFresh
    <3>3. \A q \in Requests : Unchanged(q)
      BY <1>0, <1>1, <3>1, MoveFrame, SameVerdict
    <3> QED
      BY <3>1, <3>2, <3>3, IssueStanding, SessionMoves
  <2>2. CASE \/ ResumeProtected(r) \/ ResumeLogout(r)
             \/ ResumeHealth(r) \/ Finish(r)
    <3>1. /\ \E next, answer : Move(r, next, answer)
          /\ UNCHANGED <<now, boots, expiresAt, signer, revoked>>
      BY <2>2 DEF ResumeProtected, ResumeLogout, ResumeHealth, Finish
    <3> QED
      BY <1>0, <1>2, <3>1, MoveFrame
  <2> QED
    BY <1>8, <2>1, <2>2 DEF Resume
<1>9. ASSUME NEW r \in Requests, StoreFails(r)
      PROVE  [Lifecycle!Next]_Lifecycle!vars
  <2>1. /\ \E next, answer : Move(r, next, answer)
        /\ UNCHANGED <<now, boots, expiresAt, signer, revoked>>
    BY <1>9 DEF StoreFails
  <2> QED
    BY <1>0, <1>2, <2>1, MoveFrame
<1>10. ASSUME Tick \/ \E i \in Instances : Restart(i)
       PROVE  [Lifecycle!Next]_Lifecycle!vars
  <2>1. \A s \in Sessions : Standing(s)' \in {Standing(s), "expiring"}
    BY <1>10, LapseStanding
  <2>2. ASSUME NEW q \in Requests
        PROVE  Unchanged(q) \/ Decides(q, "failed")
    <3>1. UNCHANGED <<job, outcome, live>>
          /\ (phase'[q] = phase[q] \/ (phase[q] # "idle" /\ phase'[q] = "lost"))
      BY <1>10 DEF Tick, Restart, Pending, request, history
    <3>2. ~Begins(q) /\ ~Decides(q, "admitted") /\ ~Decides(q, "refused")
      BY <3>1 DEF Begins, Decides, AsVerdict, VerdictState
    <3> QED
      BY <3>2, VerdictStep
  <2> QED
    BY <2>1, <2>2, AllLapse
<1>11. CASE Reach \/ UNCHANGED vars
  <2>1. /\ UNCHANGED request /\ UNCHANGED live
        /\ UNCHANGED <<now, boots, expiresAt, signer, revoked>>
    BY <1>11 DEF Reach, vars, history
  <2>2. \A q \in Requests : Unchanged(q)
    BY <2>1, SameVerdict DEF request, Same
  <2>3. \A s \in Sessions : Standing(s)' = Standing(s)
    BY <2>1, StandingSteady
  <2>4. StandingOf' = StandingOf /\ VerdictOf' = VerdictOf
    BY <2>2, <2>3, StandingRests, VerdictsRest
  <2> QED
    BY <2>4 DEF Lifecycle!vars, StandingOf, VerdictOf
<1> QED
  BY <1>3, <1>4, <1>5, <1>6, <1>7, <1>8, <1>9, <1>10, <1>11 DEF Next

\* In the supported deployments sign-in, sign-out and the session gate
\* implement the life of a session as SessionLifecycle states it: a session is
\* issued live, ended once, and a request is decided by what its session was
\* when it began, whatever the stores, clocks and processes do meanwhile.
THEOREM ServerImplementsLifecycle ==
  ASSUME Supported
  PROVE  Spec => ImplementsLifecycle
<1>1. Init => Lifecycle!Init
  BY LifecycleInit
<1>2. GateInv /\ [Next]_vars => [Lifecycle!Next]_Lifecycle!vars
  BY LifecycleStep
<1> QED
  BY <1>1, <1>2, GateInvariant, PTL DEF Spec, ImplementsLifecycle, Lifecycle!Spec
=============================================================================
