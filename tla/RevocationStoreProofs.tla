------------------------ MODULE RevocationStoreProofs -----------------------
(***************************************************************************)
(* What the server processes may rely on in a revocation store, proved of  *)
(* RevocationStore for any calls and digests, and so of every store that   *)
(* implements it.                                                          *)
(***************************************************************************)
EXTENDS RevocationStore, TLAPS

\* A digest whose revocation was confirmed to a caller is held until its expiry
\* has passed (RedisSessionRevocationStore.revoke resolves on "+OK" only).
StoredIsHeld ==
  \A c \in Calls : answer[c] = "stored" => asked[c].digest \in held \cup lapsed

\* A look-up carried out after a revocation of its digest was confirmed, and
\* before the expiry, finds it.
ConfirmedIsFound ==
  [][\A b, c \in Calls :
       /\ answer[b] = "stored"
       /\ asked[c].kind = "exists" /\ asked[c].digest = asked[b].digest
       /\ asked[b].digest \notin lapsed
       => effect'[c] \in {effect[c], "revoked"}]_vars

\* What a call returned or its command did is of the command it asked for.
EffectsAreOwn ==
  \A c \in Calls :
    /\ asked[c] = NoCommand => effect[c] = "none" /\ answer[c] = "none"
    /\ effect[c] = "stored" => asked[c].digest \in held \cup lapsed
    /\ answer[c] = "stored" => \/ effect[c] = "stored"
                               \/ asked[c].digest \in lapsed

StoreInv == TypeOK /\ EffectsAreOwn

LEMMA InitInv == Init => StoreInv
  BY DEF Init, StoreInv, TypeOK, EffectsAreOwn, NoCommand, Effects

LEMMA StepInv == StoreInv /\ [Next]_vars => StoreInv'
<1> SUFFICES ASSUME StoreInv, [Next]_vars PROVE StoreInv'
  OBVIOUS
<1> USE DEF StoreInv, TypeOK, EffectsAreOwn, Effects
<1>1. ASSUME NEW c \in Calls, NEW command \in Commands, Ask(c, command)
      PROVE  StoreInv'
  <2>1. command # NoCommand
    BY <1>1 DEF Commands, NoCommand
  <2> QED
    BY <1>1, <2>1 DEF Ask, Commands, NoCommand
<1>2. ASSUME NEW c \in Calls, CarryOut(c) PROVE StoreInv'
  <2>1. asked[c] \in Commands
    BY <1>2 DEF CarryOut
  <2>2. Outcome(asked[c]) \in Effects
    BY DEF Outcome
  <2>3. held \subseteq held' /\ held' \subseteq Digests
    BY <1>2, <2>1 DEF CarryOut, After, Commands
  <2>4. Outcome(asked[c]) = "stored" => asked[c].digest \in held' \cup lapsed
    BY <1>2 DEF CarryOut, After, Outcome
  <2> QED
    BY <1>2, <2>1, <2>2, <2>3, <2>4 DEF CarryOut
<1>3. ASSUME NEW c \in Calls, Return(c) PROVE StoreInv'
  BY <1>3 DEF Return
<1>4. ASSUME NEW c \in Calls, Fail(c) PROVE StoreInv'
  BY <1>4 DEF Fail
<1>5. ASSUME NEW d \in Digests, Lapse(d) PROVE StoreInv'
  BY <1>5 DEF Lapse
<1>6. CASE UNCHANGED vars
  BY <1>6 DEF vars
<1> QED
  BY <1>1, <1>2, <1>3, <1>4, <1>5, <1>6 DEF Next

\* The invariant holds of every behaviour of a store.
LEMMA StoreIsSound == Spec => []StoreInv
  BY InitInv, StepInv, PTL DEF Spec

\* A confirmed revocation is on record until it has expired.
THEOREM ConfirmedRevocationIsHeld == Spec => []StoredIsHeld
<1>1. StoreInv => StoredIsHeld
  BY DEF StoreInv, EffectsAreOwn, StoredIsHeld
<1> QED
  BY <1>1, StoreIsSound, PTL

\* A look-up after a confirmed revocation, and before its expiry, finds it.
THEOREM ConfirmedRevocationIsFound == Spec => ConfirmedIsFound
<1>1. StoreInv /\ [Next]_vars =>
        [\A b, c \in Calls :
           /\ answer[b] = "stored"
           /\ asked[c].kind = "exists" /\ asked[c].digest = asked[b].digest
           /\ asked[b].digest \notin lapsed
           => effect'[c] \in {effect[c], "revoked"}]_vars
  <2> SUFFICES ASSUME StoreInv, Next, NEW b \in Calls, NEW c \in Calls,
                      answer[b] = "stored", asked[c].kind = "exists",
                      asked[c].digest = asked[b].digest,
                      asked[b].digest \notin lapsed
               PROVE  effect'[c] \in {effect[c], "revoked"}
    BY DEF vars
  <2>1. asked[c].digest \in held
    BY DEF StoreInv, EffectsAreOwn
  <2>2. CASE \E x \in Calls : CarryOut(x)
    <3>1. Outcome(asked[c]) = "revoked"
      BY <2>1 DEF Outcome
    <3> QED
      BY <2>2, <3>1 DEF CarryOut, StoreInv, TypeOK
  <2>3. CASE ~\E x \in Calls : CarryOut(x)
    <3>1. UNCHANGED effect
      BY <2>3 DEF Next, Ask, Return, Fail, Lapse
    <3> QED
      BY <3>1
  <2> QED
    BY <2>2, <2>3
<1> QED
  BY <1>1, StoreIsSound, PTL DEF Spec, ConfirmedIsFound
=============================================================================
