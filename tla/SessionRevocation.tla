-------------------------- MODULE SessionRevocation -------------------------
(***************************************************************************)
(* Sign-in, sign-out and the session gate of the SolContinuity API server  *)
(* (src/api/server.ts) over a session revocation store: the process-local  *)
(* Map of src/api/session-revocation.ts, or the shared Redis adapter of    *)
(* src/api/redis-session-revocation.ts.                                    *)
(*                                                                         *)
(* A request runs in the steps between its awaits.  Its first part checks  *)
(* the cookie and asks the store; the store answers in a step of its own,  *)
(* at a later time and by a clock of its own; the request resumes with an  *)
(* answer that may be out of date.  Each request is used once and keeps    *)
(* what it saw when it began.  A request answered 429 by the rate limiter  *)
(* never reaches this code and is left out.                                *)
(***************************************************************************)
EXTENDS Integers, FiniteSets

CONSTANTS
  Instances,     \* server processes that serve the same console
  Sessions,      \* the session cookies a behaviour may issue; the nonce makes each fresh
  Requests,      \* the HTTP requests of a behaviour
  Offered,       \* bound: the kinds of request a behaviour may hold
  Shared,        \* TRUE: every instance is given the Redis store; FALSE: none is
  StableSecret,  \* TRUE: SOLCONTINUITY_COOKIE_SECRET is set, to one value
  Lifetime,      \* SESSION_MAX_AGE_SECONDS, in clock ticks
  MaxSkew,       \* how far ahead of true time a clock may run
  MaxTime,       \* bound: the last tick of a behaviour
  MaxRestarts    \* bound: restarts of one instance

ASSUME ShapeAssumption ==
  /\ Shared \in BOOLEAN /\ StableSecret \in BOOLEAN
  /\ "redis" \notin Instances /\ "none" \notin Sessions
  /\ MaxTime \in Nat /\ MaxRestarts \in Nat

\* A cookie lives for twelve hours, longer than clocks may disagree.
ASSUME LifetimeAssumption == /\ Lifetime \in Nat /\ MaxSkew \in Nat
                             /\ Lifetime > MaxSkew

VARIABLES
  now,        \* true time
  skew,       \* skew[c]: how far clock c runs ahead, fixed in a behaviour
  up,         \* whether the Redis server can be reached
  revoked,    \* revoked[st]: the sessions whose digest store st holds
  stray,      \* sessions whose SET was sent by a request that gave up waiting
  expiresAt,  \* expiresAt[s]: the signed expiry, 0 when s was not issued
  signer,     \* signer[s]: the signing key of s
  boots,      \* boots[i]: how often instance i was restarted
  job,        \* job[r]: what request r asks, of which instance, with which cookie
  phase,      \* phase[r]: how far request r has come
  outcome,    \* outcome[r]: what request r was answered, or is going to be
  hit,        \* the requests to which the store answered "revoked"
  loggedOut,  \* history: sessions for which a sign-out was answered 204
  late,       \* history: requests begun when their session was in loggedOut
  live,       \* history: requests begun when their session was live
  sawUp       \* history: requests during which Redis could be reached

request == <<job, phase, outcome, hit>>
history == <<late, live, sawUp>>
vars == <<now, skew, up, revoked, stray, expiresAt, signer, boots, request,
          loggedOut, history>>

Kinds == {"login", "logout", "protected", "health"}
Phases == {"idle", "asking", "answered", "working", "done", "lost"}
Outcomes == {"pending", "ok", "refused", "unavailable"}
Clocks == Instances \cup {"redis"}
Keys == [by : Clocks, boot : 0..MaxRestarts]
NoJob == [kind |-> "none", at |-> "none", session |-> "none"]
Jobs == {NoJob}
          \cup [kind : Kinds \ {"health"}, at : Instances, session : Sessions]
          \cup [kind : {"health"}, at : Instances, session : {"none"}]

TypeOK ==
  /\ now \in 0..MaxTime
  /\ skew \in [Clocks -> 0..MaxSkew]
  /\ up \in BOOLEAN
  /\ revoked \in [Clocks -> SUBSET Sessions]
  /\ stray \subseteq Sessions
  /\ expiresAt \in [Sessions -> Nat]
  /\ signer \in [Sessions -> Keys]
  /\ boots \in [Instances -> 0..MaxRestarts]
  /\ job \in [Requests -> Jobs]
  /\ phase \in [Requests -> Phases]
  /\ outcome \in [Requests -> Outcomes]
  /\ hit \subseteq Requests
  /\ loggedOut \subseteq Sessions
  /\ late \subseteq Requests /\ live \subseteq Requests /\ sawUp \subseteq Requests

-----------------------------------------------------------------------------
(* Cookies and clocks.                                                     *)

Clock(c) == now + skew[c]

Issued(s) == expiresAt[s] # 0

\* Without a configured secret every process signs with a random one.
SharedKey == [by |-> "redis", boot |-> 0]
Key(i) == IF StableSecret THEN SharedKey
                          ELSE [by |-> i, boot |-> boots[i]]

\* getValidSessionExpiresAt: the signature verifies and the expiry is ahead.
ValidCookie(i, s) ==
  /\ Issued(s)
  /\ signer[s] = Key(i)
  /\ expiresAt[s] > Clock(i)

Home(i) == IF Shared THEN "redis" ELSE i

\* Where a session stands, for the history fields and the abstract
\* specification: it is in doubt when a clock may call it expired, or when no
\* instance can verify it any more.
InDoubt(s) == \/ now + MaxSkew >= expiresAt[s]
              \/ \A i \in Instances : signer[s] # Key(i)
Standing(s) == IF ~Issued(s) THEN "unissued"
               ELSE IF InDoubt(s) THEN "expiring"
               ELSE IF \E i \in Instances : s \in revoked[Home(i)] THEN "ended"
               ELSE "live"

-----------------------------------------------------------------------------
(* The store.                                                              *)

Expired(st, s) == expiresAt[s] <= Clock(st)

\* Mutant: any entry of the store will do.
HoldsAny(st, s) == \E x \in revoked[st] : ~Expired(st, x)

\* EXISTS / Map.get: an entry past its expiry is dropped when it is met.
Holds(st, s) == s \in revoked[st] /\ ~Expired(st, s)
Forget(st, s) ==
  revoked' = [revoked EXCEPT ![st] = IF Expired(st, s) THEN @ \ {s} ELSE @]

\* SET ... PXAT / Map.set: expired entries go, and an expiry already past
\* leaves nothing behind.
Enter(st, s) ==
  revoked' = [revoked EXCEPT ![st] = {x \in @ \cup {s} : ~Expired(st, x)}]

-----------------------------------------------------------------------------
\* A behaviour begins with some sessions just signed in, at any instance.
Init ==
  /\ now = 0
  /\ skew \in [Clocks -> 0..MaxSkew]
  /\ up = TRUE
  /\ revoked = [st \in Clocks |-> {}]
  /\ stray = {}
  /\ boots = [i \in Instances |-> 0]
  /\ \E by \in [Sessions -> Instances \cup {"none"}] :
       /\ expiresAt = [s \in Sessions |-> IF by[s] = "none" THEN 0
                                          ELSE skew[by[s]] + Lifetime]
       /\ signer = [s \in Sessions |-> IF by[s] = "none" THEN SharedKey
                                       ELSE Key(by[s])]
  /\ job = [r \in Requests |-> NoJob]
  /\ phase = [r \in Requests |-> "idle"]
  /\ outcome = [r \in Requests |-> "pending"]
  /\ hit = {} /\ loggedOut = {}
  /\ late = {} /\ live = {} /\ sawUp = {}

Pending(r) == phase[r] \in {"asking", "answered", "working"}
Answered(r, kind) == phase[r] = "answered" /\ job[r].kind = kind

\* A process-local store answers in the very turn that asks it: until then the
\* event loop runs nothing else of that instance.
LoopFree(i) ==
  Shared \/ \A q \in Requests : phase[q] = "asking" => job[q].at # i

Open(r, kind, i, s, next, answer) ==
  /\ phase[r] = "idle" /\ kind \in Offered
  /\ LoopFree(i)
  /\ job' = [job EXCEPT ![r] = [kind |-> kind, at |-> i, session |-> s]]
  /\ phase' = [phase EXCEPT ![r] = next]
  /\ outcome' = [outcome EXCEPT ![r] = answer]
  /\ late' = late \cup {x \in {r} : s \in loggedOut}
  /\ live' = live \cup {x \in {r} : s \in Sessions /\ Standing(s) = "live"}
  /\ sawUp' = sawUp \cup {x \in {r} : up}
  /\ UNCHANGED hit

\* Mutant: the two codes of an answer swapped.
MoveSwapped(r, next, answer) ==
  /\ phase' = [phase EXCEPT ![r] = answer]
  /\ outcome' = [outcome EXCEPT ![r] = next]
  /\ UNCHANGED <<job, hit, history>>

Move(r, next, answer) ==
  /\ phase' = [phase EXCEPT ![r] = next]
  /\ outcome' = [outcome EXCEPT ![r] = answer]
  /\ UNCHANGED <<job, hit, history>>

Issue(i, s) ==
  /\ expiresAt' = [expiresAt EXCEPT ![s] = Clock(i) + Lifetime]
  /\ signer' = [signer EXCEPT ![s] = Key(i)]

SessionsUnchanged == UNCHANGED <<expiresAt, signer>>
StoreUnchanged == UNCHANGED <<revoked, stray>>
WorldUnchanged == UNCHANGED <<now, skew, up, boots>>

-----------------------------------------------------------------------------
(* The first part of each handler, up to its first await on the store.     *)

\* Any protected path: the cookie is checked before the store is asked.
BeginProtected(r, i, s) ==
  /\ IF ValidCookie(i, s) THEN Open(r, "protected", i, s, "asking", "pending")
                          ELSE Open(r, "protected", i, s, "done", "refused")
  /\ SessionsUnchanged /\ StoreUnchanged /\ WorldUnchanged
  /\ UNCHANGED loggedOut

\* Mutant: the sign-out is confirmed without awaiting the store.
BeginLogoutNotAwaited(r, i, s) ==
  /\ Open(r, "logout", i, s, "done", "ok")
  /\ loggedOut' = loggedOut \cup {x \in {s} : Issued(x)}
  /\ stray' = stray \cup {x \in {s} : Shared /\ ValidCookie(i, x)}
  /\ UNCHANGED revoked
  /\ SessionsUnchanged /\ WorldUnchanged

\* POST /api/session/logout: a cookie that is not valid needs no revocation.
BeginLogout(r, i, s) ==
  /\ IF ValidCookie(i, s)
     THEN /\ Open(r, "logout", i, s, "asking", "pending")
          /\ UNCHANGED loggedOut
     ELSE /\ Open(r, "logout", i, s, "done", "ok")
          /\ loggedOut' = loggedOut \cup {x \in {s} : Issued(x)}
  /\ SessionsUnchanged /\ StoreUnchanged /\ WorldUnchanged

\* POST /api/session/login, for the cookie s it would issue.  An injected
\* store is probed first, so that an outage cannot look like a sign-in.
Reserved(s) ==
  \E q \in Requests : Pending(q) /\ job[q].kind = "login" /\ job[q].session = s

BeginLogin(r, i, s, tokenMatches) ==
  /\ ~Issued(s) /\ ~Reserved(s)
  /\ \/ /\ ~tokenMatches
        /\ Open(r, "login", i, s, "done", "refused")
        /\ SessionsUnchanged
     \/ /\ tokenMatches /\ Shared
        /\ Open(r, "login", i, s, "asking", "pending")
        /\ SessionsUnchanged
     \/ /\ tokenMatches /\ ~Shared
        /\ Open(r, "login", i, s, "done", "ok")
        /\ Issue(i, s)
  /\ StoreUnchanged /\ WorldUnchanged
  /\ UNCHANGED loggedOut

\* GET /api/health: an injected store is probed, another is not.
BeginHealth(r, i) ==
  /\ IF Shared THEN Open(r, "health", i, "none", "asking", "pending")
               ELSE Open(r, "health", i, "none", "done", "ok")
  /\ SessionsUnchanged /\ StoreUnchanged /\ WorldUnchanged
  /\ UNCHANGED loggedOut

-----------------------------------------------------------------------------
(* The store's part: the command is carried out, its reply is on its way.  *)

Answer(r, revocationFound) ==
  /\ phase' = [phase EXCEPT ![r] = "answered"]
  /\ hit' = hit \cup {x \in {r} : revocationFound}
  /\ UNCHANGED <<job, outcome, history>>

StoreAnswers(r) ==
  LET st == Home(job[r].at)
      s  == job[r].session
  IN  /\ phase[r] = "asking"
      /\ Shared => up
      /\ CASE job[r].kind = "protected" -> Answer(r, Holds(st, s)) /\ Forget(st, s)
           [] job[r].kind = "logout" -> Answer(r, FALSE) /\ Enter(st, s)
           [] OTHER -> Answer(r, FALSE) /\ UNCHANGED revoked
      /\ UNCHANGED stray
      /\ SessionsUnchanged /\ WorldUnchanged
      /\ UNCHANGED loggedOut

\* A SET whose sender stopped waiting may still reach the Redis server.
StrayArrives(s) ==
  /\ s \in stray /\ up
  /\ Enter("redis", s)
  /\ stray' = stray \ {s}
  /\ SessionsUnchanged /\ WorldUnchanged
  /\ UNCHANGED <<request, loggedOut, history>>

-----------------------------------------------------------------------------
(* The rest of each handler, when the reply or its absence is known.       *)

\* Mutant: the answer of the store is not looked at.
ResumeProtectedUnchecked(r) ==
  /\ Answered(r, "protected")
  /\ LoopFree(job[r].at)
  /\ Move(r, "working", "ok")
  /\ SessionsUnchanged /\ StoreUnchanged /\ WorldUnchanged
  /\ UNCHANGED loggedOut

\* Mutant: a request found revoked is dropped without an answer.
ResumeProtectedSilent(r) ==
  /\ Answered(r, "protected") /\ r \notin hit
  /\ LoopFree(job[r].at)
  /\ Move(r, "working", "ok")
  /\ SessionsUnchanged /\ StoreUnchanged /\ WorldUnchanged
  /\ UNCHANGED loggedOut

ResumeProtected(r) ==
  /\ Answered(r, "protected")
  /\ LoopFree(job[r].at)
  /\ IF r \in hit THEN Move(r, "done", "refused") ELSE Move(r, "working", "ok")
  /\ SessionsUnchanged /\ StoreUnchanged /\ WorldUnchanged
  /\ UNCHANGED loggedOut

ResumeLogout(r) ==
  /\ Answered(r, "logout")
  /\ LoopFree(job[r].at)
  /\ Move(r, "done", "ok")
  /\ loggedOut' = loggedOut \cup {job[r].session}
  /\ SessionsUnchanged /\ StoreUnchanged /\ WorldUnchanged

ResumeLogin(r) ==
  /\ Answered(r, "login")
  /\ LoopFree(job[r].at)
  /\ Move(r, "done", "ok")
  /\ Issue(job[r].at, job[r].session)
  /\ StoreUnchanged /\ WorldUnchanged
  /\ UNCHANGED loggedOut

ResumeHealth(r) ==
  /\ Answered(r, "health")
  /\ LoopFree(job[r].at)
  /\ Move(r, "done", "ok")
  /\ SessionsUnchanged /\ StoreUnchanged /\ WorldUnchanged
  /\ UNCHANGED loggedOut

\* Mutants: a failed command is reported in another way.
StoreFailsWith(r, next, answer) ==
  /\ Shared
  /\ phase[r] = "asking" \/ phase[r] = "answered"
  /\ Move(r, next, answer)
  /\ loggedOut' = IF job[r].kind = "logout" /\ answer = "ok"
                  THEN loggedOut \cup {job[r].session} ELSE loggedOut
  /\ SessionsUnchanged /\ StoreUnchanged /\ WorldUnchanged

StoreFailsSwallowed(r) == StoreFailsWith(r, "done", "ok")
StoreFailsRefuses(r) == StoreFailsWith(r, "done", "refused")

\* Mutant: no socket timeout, so silence is never a failure.
StoreFailsNoTimeout(r) == phase[r] = "answered" /\ StoreFailsWith(r, "done", "unavailable")

\* requestRedis gives up: refused, reset, an unusable reply or the socket
\* timeout.  The command may have been carried out, or be yet to arrive.
StoreFails(r) ==
  /\ Shared
  /\ phase[r] = "asking" \/ phase[r] = "answered"
  /\ Move(r, "done", "unavailable")
  /\ stray' = IF phase[r] = "asking" /\ job[r].kind = "logout"
              THEN stray \cup {job[r].session} ELSE stray
  /\ UNCHANGED revoked
  /\ SessionsUnchanged /\ WorldUnchanged
  /\ UNCHANGED loggedOut

\* The admitted handler goes on after its own awaits and checks nothing again.
Finish(r) ==
  /\ phase[r] = "working"
  /\ LoopFree(job[r].at)
  /\ Move(r, "done", "ok")
  /\ SessionsUnchanged /\ StoreUnchanged /\ WorldUnchanged
  /\ UNCHANGED loggedOut

-----------------------------------------------------------------------------
(* The surroundings.                                                       *)

Tick ==
  /\ now < MaxTime
  /\ now' = now + 1
  /\ UNCHANGED <<skew, up, boots, request, loggedOut, history>>
  /\ SessionsUnchanged /\ StoreUnchanged

\* The Redis server comes within reach or leaves it.
Reach ==
  /\ Shared
  /\ up' = ~up
  /\ sawUp' = sawUp \cup {r \in Requests : ~up /\ phase[r] # "idle"}
  /\ UNCHANGED <<now, skew, boots, request, loggedOut, late, live>>
  /\ SessionsUnchanged /\ StoreUnchanged

\* A process ends and starts again: its requests are cut off, its Map is
\* empty, and so is its memory of a secret that was not configured.
Restart(i) ==
  /\ boots[i] < MaxRestarts
  /\ boots' = [boots EXCEPT ![i] = @ + 1]
  /\ phase' = [r \in Requests |->
                 IF Pending(r) /\ job[r].at = i THEN "lost" ELSE phase[r]]
  /\ revoked' = [revoked EXCEPT ![i] = {}]
  /\ stray' = stray \cup {s \in Sessions : \E r \in Requests :
                            /\ Shared /\ phase[r] = "asking" /\ job[r].at = i
                            /\ job[r].kind = "logout" /\ job[r].session = s}
  /\ UNCHANGED <<now, skew, up, job, outcome, hit, loggedOut, history>>
  /\ SessionsUnchanged

-----------------------------------------------------------------------------
Resume(r) ==
  \/ ResumeProtected(r)
  \/ ResumeLogout(r)
  \/ ResumeLogin(r)
  \/ ResumeHealth(r)
  \/ Finish(r)

Next ==
  \/ \E r \in Requests, i \in Instances :
       \/ \E s \in Sessions :
            \/ BeginProtected(r, i, s)
            \/ BeginLogout(r, i, s)
            \/ \E tokenMatches \in BOOLEAN : BeginLogin(r, i, s, tokenMatches)
       \/ BeginHealth(r, i)
  \/ \E r \in Requests : StoreAnswers(r) \/ Resume(r) \/ StoreFails(r)
  \/ \E s \in Sessions : StrayArrives(s)
  \/ \E i \in Instances : Restart(i)
  \/ Tick
  \/ Reach

Spec == Init /\ [][Next]_vars

\* A process that runs resumes its requests; a process-local store answers in
\* the same turn; the socket timeout fires when Redis does not answer.
Fairness ==
  \A r \in Requests : /\ WF_vars(Resume(r))
                      /\ WF_vars(StoreFails(r))
                      /\ WF_vars(~Shared /\ StoreAnswers(r))

FairSpec == Spec /\ Fairness

-----------------------------------------------------------------------------
(* What must hold.                                                         *)

Admitted(r) ==
  job[r].kind = "protected" /\ outcome[r] = "ok"
Refused(r) ==
  job[r].kind = "protected" /\ outcome[r] = "refused"

\* A protected request that began after a sign-out of its session was
\* confirmed, at whichever instance, is admitted only once the session is in
\* doubt: its cookie outlived by the clocks, or its signer gone.  The gate
\* (server.ts, "replayed") must not miss a revocation in any other case.
LogoutHolds ==
  \A r \in Requests : Admitted(r) /\ r \in late => InDoubt(job[r].session)

\* A confirmed sign-out is on record where every verifier will look, until
\* the session is in doubt: no restart, stray command or purge loses it.
ConfirmedIsRecorded ==
  \A s \in loggedOut :
    \/ InDoubt(s)
    \/ \A i \in Instances : signer[s] = Key(i) => s \in revoked[Home(i)]

\* Sign-out ends one session: a request whose session was live when it began
\* is refused only if a sign-out of that very session has begun or the
\* session came into doubt.
RefusedOnlyWithCause ==
  \A r \in Requests : Refused(r) /\ r \in live =>
    \/ InDoubt(job[r].session)
    \/ \E q \in Requests : /\ job[q].kind = "logout"
                            /\ job[q].session = job[r].session

\* An outage that lasts as long as the request yields no admission, no
\* sign-in, no confirmed sign-out of a live session and no healthy report.
FailClosed ==
  Shared => \A r \in Requests :
    (outcome[r] = "ok" /\ (job[r].kind = "logout" => r \in live)) => r \in sawUp

\* Every request that was begun is answered, or its process went away.
EveryRequestEnds ==
  \A r \in Requests : Pending(r) ~> (phase[r] = "done" \/ phase[r] = "lost")

\* What tests/api.test.ts says of sign-out: "A captured pre-logout session
\* must no longer authorize protected actions."
CapturedSessionIsDead ==
  \A r \in Requests : ~(Admitted(r) /\ r \in late)

\* The server implements the life of a session as SessionLifecycle states it.
VerdictState(r) ==
  IF job[r].kind # "protected" THEN [state |-> "idle"]
  ELSE [state |-> CASE outcome[r] = "ok" -> "admitted"
                    [] outcome[r] = "refused" -> "refused"
                    [] outcome[r] = "unavailable" -> "failed"
                    [] OTHER -> IF phase[r] = "lost" THEN "failed" ELSE "begun",
        session |-> job[r].session, live |-> r \in live]

Lifecycle == INSTANCE SessionLifecycle WITH
               standing <- [s \in Sessions |-> Standing(s)],
               verdict <- [r \in Requests |-> VerdictState(r)]

ImplementsLifecycle == Lifecycle!Spec
=============================================================================
