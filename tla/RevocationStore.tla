--------------------------- MODULE RevocationStore --------------------------
(***************************************************************************)
(* What a shared session revocation store promises a server process        *)
(* (src/api/session-revocation.ts, SessionRevocationStore), apart from how *)
(* it is reached.  A call asks for one command; the command is carried out *)
(* at most once and at one instant, perhaps after its caller gave up; a    *)
(* call that returns, returns what its own command found or did.  These    *)
(* are the steps StoreAnswers, StoreFails and StrayArrives of              *)
(* SessionRevocation.                                                      *)
(***************************************************************************)
CONSTANTS Calls, Digests

VARIABLES
  held,    \* the digests the store holds as revoked
  lapsed,  \* the digests whose absolute expiry has passed
  asked,   \* asked[c]: the command call c asks for
  effect,  \* effect[c]: what carrying out that command found or did
  answer   \* answer[c]: what the call returned, or that it failed

vars == <<held, lapsed, asked, effect, answer>>

NoCommand == [kind |-> "none", digest |-> "none"]
Commands == [kind : {"exists", "set"}, digest : Digests]
Effects == {"revoked", "clear", "stored"}

TypeOK ==
  /\ held \subseteq Digests /\ lapsed \subseteq Digests
  /\ asked \in [Calls -> Commands \cup {NoCommand}]
  /\ effect \in [Calls -> Effects \cup {"none"}]
  /\ answer \in [Calls -> Effects \cup {"none", "failed"}]

Init ==
  /\ held = {} /\ lapsed = {}
  /\ asked = [c \in Calls |-> NoCommand]
  /\ effect = [c \in Calls |-> "none"]
  /\ answer = [c \in Calls |-> "none"]

-----------------------------------------------------------------------------
\* A revocation that has nothing left to revoke is not asked for.
Ask(c, command) ==
  /\ asked[c] = NoCommand
  /\ asked' = [asked EXCEPT ![c] = command]
  /\ answer' = [answer EXCEPT ![c] =
                  IF command.kind = "set" /\ command.digest \in lapsed
                  THEN "stored" ELSE "none"]
  /\ UNCHANGED <<held, lapsed, effect>>

\* What a command finds or does, and what the store holds after it.
Outcome(command) ==
  IF command.kind = "set" THEN "stored"
  ELSE IF command.digest \in held THEN "revoked" ELSE "clear"

After(command) ==
  IF command.kind = "set" THEN held \cup ({command.digest} \ lapsed) ELSE held

CarryOut(c) ==
  /\ asked[c] # NoCommand
  /\ effect[c] = "none" /\ answer[c] \in {"none", "failed"}
  /\ effect' = [effect EXCEPT ![c] = Outcome(asked[c])]
  /\ held' = After(asked[c])
  /\ UNCHANGED <<lapsed, asked, answer>>

Return(c) ==
  /\ answer[c] = "none" /\ effect[c] # "none"
  /\ answer' = [answer EXCEPT ![c] = effect[c]]
  /\ UNCHANGED <<held, lapsed, asked, effect>>

Fail(c) ==
  /\ asked[c] # NoCommand /\ answer[c] = "none"
  /\ answer' = [answer EXCEPT ![c] = "failed"]
  /\ UNCHANGED <<held, lapsed, asked, effect>>

Lapse(d) ==
  /\ lapsed' = lapsed \cup {d}
  /\ held' = held \ {d}
  /\ UNCHANGED <<asked, effect, answer>>

Next ==
  \/ \E c \in Calls : \/ \E command \in Commands : Ask(c, command)
                      \/ CarryOut(c)
                      \/ Return(c)
                      \/ Fail(c)
  \/ \E d \in Digests : Lapse(d)

Spec == Init /\ [][Next]_vars
=============================================================================
