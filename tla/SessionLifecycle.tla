-------------------------- MODULE SessionLifecycle --------------------------
(***************************************************************************)
(* What the console's session protection promises, apart from how it is    *)
(* done.  A session is issued live, may be ended by a sign-out, and comes  *)
(* into doubt when it reaches its expiry (or loses its last verifier).  A  *)
(* request is decided by the standing its session had when it began: the   *)
(* only request that may slip past a sign-out is one that straddles the    *)
(* session's expiry.                                                       *)
(***************************************************************************)
CONSTANTS Sessions, Requests

VARIABLES
  standing,  \* standing[s]: where session s is in its life
  verdict    \* verdict[r]: what became of protected request r, and what it saw

vars == <<standing, verdict>>

Standings == {"unissued", "live", "ended", "expiring"}

Verdicts == [state : {"idle"}]
              \cup [state : {"begun", "admitted", "refused", "failed"},
                    session : Sessions, live : BOOLEAN]

TypeOK ==
  /\ standing \in [Sessions -> Standings]
  /\ verdict \in [Requests -> Verdicts]

Init ==
  /\ standing \in [Sessions -> {"unissued", "live"}]
  /\ verdict = [r \in Requests |-> [state |-> "idle"]]

-----------------------------------------------------------------------------
Move(s, from, to) ==
  /\ standing[s] = from
  /\ standing' = [standing EXCEPT ![s] = to]
  /\ UNCHANGED verdict

Issue(s) == Move(s, "unissued", "live")

SignOut(s) == Move(s, "live", "ended")

\* Time passes for every session and every undecided request at once, and so
\* does the loss of a server process: sessions in S come into doubt, requests
\* in R go without a decision.
Lapse(S, R) ==
  /\ \A s \in S : standing[s] # "expiring"
  /\ \A r \in R : verdict[r].state = "begun"
  /\ standing' = [s \in Sessions |-> IF s \in S THEN "expiring" ELSE standing[s]]
  /\ verdict' = [r \in Requests |->
                   IF r \in R THEN [verdict[r] EXCEPT !.state = "failed"]
                              ELSE verdict[r]]

Record(r, s, state) ==
  /\ verdict' = [verdict EXCEPT ![r] =
                   [state |-> state, session |-> s, live |-> standing[s] = "live"]]
  /\ UNCHANGED standing

Begin(r, s) ==
  /\ verdict[r].state = "idle"
  /\ \/ Record(r, s, "begun")
     \/ standing[s] # "live" /\ Record(r, s, "refused")

Decide(r, state) ==
  /\ verdict[r].state = "begun"
  /\ verdict' = [verdict EXCEPT ![r].state = state]
  /\ UNCHANGED standing

Admit(r) ==
  /\ Decide(r, "admitted")
  /\ verdict[r].live \/ standing[verdict[r].session] = "expiring"

\* A session that nothing has ended is never refused.
Refuse(r) ==
  /\ Decide(r, "refused")
  /\ standing[verdict[r].session] # "live"

Next ==
  \/ \E s \in Sessions : Issue(s) \/ SignOut(s)
  \/ \E S \in SUBSET Sessions, R \in SUBSET Requests : Lapse(S, R)
  \/ \E r \in Requests : \/ \E s \in Sessions : Begin(r, s)
                         \/ Admit(r)
                         \/ Refuse(r)

Spec == Init /\ [][Next]_vars
=============================================================================
