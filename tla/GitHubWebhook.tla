---------------------------- MODULE GitHubWebhook ---------------------------
(***************************************************************************)
(* The GitHub App: its webhook server with the cache of delivery ids       *)
(* (src/github-app/server.ts) and the processing of one delivery, from the *)
(* installation token to the published check (src/github-app/app.ts).      *)
(* Manifests are parsed and audited as in ManifestAudit.                   *)
(*                                                                         *)
(* GitHub sends a delivery, and sends it again, to a server that handles   *)
(* several at once.  A handler runs in the steps between its calls to the  *)
(* GitHub API; each call may succeed, fail, or fail after it took effect.  *)
(* What is at the exact head of a delivery does not change.                *)
(***************************************************************************)
EXTENDS ManifestAudit

CONSTANTS
  Deliveries,   \* the delivery ids GitHub may send
  Requests,     \* the HTTP requests of a behaviour
  Manifests,    \* the manifests that files may hold, numbered from 1
  Worlds,       \* what each delivery may be about: an event and the files at its head
  PathCount,    \* how many manifest paths are configured
  Ttl,          \* DELIVERY_TTL_MS, in clock ticks
  MaxTracked,   \* MAX_TRACKED_DELIVERIES
  MaxTime,      \* bound: the last tick of a behaviour
  MaxRestarts   \* bound: restarts of the server

\* A file at a manifest path: none, one that cannot be read now, one that is
\* not JSON, or the nth of the manifests.
File == [text : {"absent", "unreadable", "not JSON"}, nth : {0}]
          \cup [text : {"manifest"}, nth : DOMAIN Manifests]
Payload == [event : {"supported", "other", "malformed"},
            files : [1..PathCount -> File]]

ASSUME WebhookAssumption ==
  /\ PathCount \in Nat \ {0}
  /\ Manifests \in Seq(Manifest)
  /\ Worlds \subseteq [Deliveries -> Payload]
  /\ Ttl \in Nat /\ MaxTracked \in Nat \ {0}
  /\ MaxTime \in Nat /\ MaxRestarts \in Nat

VARIABLES
  now,         \* Date.now(), in ticks
  restarts,    \* how often the server was restarted
  cache,       \* the Map of deliveries: each entry with its place in insertion order
  inserted,    \* how many entries were ever inserted since the server started
  payload,     \* payload[d]: what delivery d is about
  handler,     \* handler[h]: how far the handler of request h has come
  check,       \* check[h]: the conclusion of the check run h made GitHub create
  accepted     \* history: every entry inserted since the server started

vars == <<now, restarts, cache, inserted, payload, handler, check, accepted>>

Conclusions == {"neutral", "failure", "success"}
Answers == {"rejected", "duplicate", "bad json", "ignored", "published", "failed"}
Running == {"token", "reading", "publishing", "created"}
Entries == [id : Deliveries, seenAt : 0..MaxTime, nth : Nat \ {0}]
NoHandler == [step |-> "idle", delivery |-> "none", path |-> 0, conclusion |-> "none"]
Handlers == {NoHandler}
              \cup [step : Running \cup Answers \cup {"lost"}, delivery : Deliveries,
                    path : 1..PathCount, conclusion : Conclusions \cup {"none"}]

TypeOK ==
  /\ now \in 0..MaxTime
  /\ restarts \in 0..MaxRestarts
  /\ cache \subseteq Entries
  /\ inserted \in Nat
  /\ payload \in [Deliveries -> Payload]
  /\ handler \in [Requests -> Handlers]
  /\ check \in [Requests -> Conclusions \cup {"none"}]
  /\ accepted \subseteq Entries

Init ==
  /\ now = 0 /\ restarts = 0
  /\ cache = {} /\ inserted = 0 /\ accepted = {}
  /\ payload \in Worlds
  /\ handler = [h \in Requests |-> NoHandler]
  /\ check = [h \in Requests |-> "none"]

-----------------------------------------------------------------------------
(* The delivery cache.                                                     *)

Later(entries, e) == {f \in entries : f.nth > e.nth}

\* Mutant: an entry is old when it has just reached its time to live.
FreshStrict(e) == now - e.seenAt < Ttl

Fresh(e) == now - e.seenAt <= Ttl

\* Mutant: the size of the Map is not looked at.
PrunedByAgeOnly == {e \in cache : Fresh(e)}

\* Mutant: expired entries are left where they are.
PrunedBySizeOnly ==
  {e \in cache : Cardinality(Later(cache, e)) < MaxTracked}

\* pruneDeliveries: entries past their time go, then the first inserted until
\* MaxTracked are left.
Pruned ==
  LET fresh == {e \in cache : Fresh(e)}
  IN  {e \in fresh : Cardinality(Later(fresh, e)) < MaxTracked}

-----------------------------------------------------------------------------
(* One delivery, from its arrival to its answer.                           *)

Go(h, step) == handler' = [handler EXCEPT ![h].step = step]

Take(h, d, step) ==
  handler' = [handler EXCEPT ![h] =
                [step |-> step, delivery |-> d, path |-> 1, conclusion |-> "none"]]

ServerUnchanged == UNCHANGED <<restarts, cache, inserted, accepted>>
WorldUnchanged == UNCHANGED <<now, payload>>

\* A signature that does not verify or a missing header: the cache is not read.
Reject(h, d) ==
  /\ handler[h].step = "idle"
  /\ Take(h, d, "rejected")
  /\ ServerUnchanged /\ WorldUnchanged
  /\ UNCHANGED check

FirstStep(d) ==
  CASE payload[d].event = "malformed" -> "bad json"
    [] payload[d].event = "other" -> "ignored"
    [] payload[d].event = "supported" -> "token"

\* The part of a verified request before its first call to GitHub.
Accept(h, d) ==
  /\ handler[h].step = "idle"
  /\ LET entry == [id |-> d, seenAt |-> now, nth |-> inserted + 1]
     IN  \/ /\ \E e \in Pruned : e.id = d
            /\ cache' = Pruned
            /\ Take(h, d, "duplicate")
            /\ UNCHANGED <<inserted, accepted>>
         \/ /\ \A e \in Pruned : e.id # d
            /\ cache' = Pruned \cup {entry}
            /\ inserted' = inserted + 1
            /\ accepted' = accepted \cup {entry}
            /\ Take(h, d, FirstStep(d))
  /\ WorldUnchanged
  /\ UNCHANGED <<restarts, check>>

\* installationToken
ReceiveToken(h) ==
  /\ handler[h].step = "token"
  /\ Go(h, "reading")
  /\ ServerUnchanged /\ WorldUnchanged
  /\ UNCHANGED check

Conclude(h, conclusion) ==
  handler' = [handler EXCEPT ![h].step = "publishing", ![h].conclusion = conclusion]

\* The manifests that are parsed without issues and audited without a finding
\* that is critical or high (auditConclusion).
Passing == {n \in DOMAIN Manifests :
              IsValid(Manifests[n]) /\ IsSound(Parsed(Manifests[n]))}

\* The conclusion on a file that was read.
Conclusion(file) ==
  IF file.text = "manifest" /\ file.nth \in Passing THEN "success" ELSE "failure"

\* Mutant: one path too many.
ReadPathTooFar(h) ==
  /\ handler[h].step = "reading"
  /\ LET k == handler[h].path
         file == payload[handler[h].delivery].files[k]
     IN  \/ /\ file.text = "absent"
            /\ handler' = [handler EXCEPT ![h].path = k + 1]
         \/ /\ file.text \in {"not JSON", "manifest"}
            /\ Conclude(h, Conclusion(file))
         \/ /\ file.text = "unreadable"
            /\ Go(h, "failed")
  /\ ServerUnchanged /\ WorldUnchanged
  /\ UNCHANGED check

\* readManifest: the paths in order, until one is not answered 404.
ReadPath(h) ==
  /\ handler[h].step = "reading"
  /\ LET k == handler[h].path
         file == payload[handler[h].delivery].files[k]
     IN  \/ /\ file.text = "absent" /\ k < PathCount
            /\ handler' = [handler EXCEPT ![h].path = k + 1]
         \/ /\ file.text = "absent" /\ k = PathCount
            /\ Conclude(h, "neutral")
         \/ /\ file.text \in {"not JSON", "manifest"}
            /\ Conclude(h, Conclusion(file))
         \/ /\ file.text = "unreadable"
            /\ Go(h, "failed")
  /\ ServerUnchanged /\ WorldUnchanged
  /\ UNCHANGED check

\* publishCheck: GitHub creates the check run, and then its reply arrives.
CreateCheck(h) ==
  /\ handler[h].step = "publishing"
  /\ Go(h, "created")
  /\ check' = [check EXCEPT ![h] = handler[h].conclusion]
  /\ ServerUnchanged /\ WorldUnchanged

Confirm(h) ==
  /\ handler[h].step = "created"
  /\ Go(h, "published")
  /\ ServerUnchanged /\ WorldUnchanged
  /\ UNCHANGED check

\* Mutant: a read that fails is taken for a path without a manifest.
CallFailsAsAbsent(h) ==
  /\ handler[h].step \in Running
  /\ IF handler[h].step = "reading"
     THEN Conclude(h, "neutral") ELSE Go(h, "failed")
  /\ ServerUnchanged /\ WorldUnchanged
  /\ UNCHANGED check

\* Mutant: a failure is answered as a published check.
CallFailsUnnoticed(h) ==
  /\ handler[h].step \in Running
  /\ Go(h, "published")
  /\ ServerUnchanged /\ WorldUnchanged
  /\ UNCHANGED check

\* The call in progress fails: by its status, in the network or for what is missing
\* in its reply (500), or because its reply is not JSON (400, as if the delivery
\* were at fault).  The delivery stays in the cache, and GitHub may have the check.
CallFails(h) ==
  /\ handler[h].step \in Running
  /\ \E answer \in {"failed", "bad json"} : Go(h, answer)
  /\ ServerUnchanged /\ WorldUnchanged
  /\ UNCHANGED check

-----------------------------------------------------------------------------
Tick ==
  /\ now < MaxTime
  /\ now' = now + 1
  /\ UNCHANGED <<payload, handler, check>>
  /\ ServerUnchanged

\* The process ends and starts again; nothing of the cache is kept.
Restart ==
  /\ restarts < MaxRestarts
  /\ restarts' = restarts + 1
  /\ cache' = {} /\ inserted' = 0 /\ accepted' = {}
  /\ handler' = [h \in Requests |->
                   IF handler[h].step \in Running
                   THEN [handler[h] EXCEPT !.step = "lost"] ELSE handler[h]]
  /\ UNCHANGED check
  /\ WorldUnchanged

Next ==
  \/ \E h \in Requests, d \in Deliveries : Reject(h, d) \/ Accept(h, d)
  \/ \E h \in Requests : \/ ReceiveToken(h)
                         \/ ReadPath(h)
                         \/ CreateCheck(h)
                         \/ Confirm(h)
                         \/ CallFails(h)
  \/ Tick
  \/ Restart

Spec == Init /\ [][Next]_vars

-----------------------------------------------------------------------------
(* What must hold.                                                         *)

\* One running server takes up the same delivery twice only when the first
\* time is more than the time to live ago, or when at least MaxTracked other
\* deliveries were taken up since: the bounded cache suppresses an immediate
\* replay (docs/github-app.md), whatever order requests come in.
ReplaySuppressed ==
  \A a, b \in accepted :
    a.id = b.id /\ a.nth < b.nth =>
      \/ b.seenAt - a.seenAt > Ttl
      \/ b.nth - a.nth > MaxTracked

\* A delivery is turned away as a duplicate only if the running server did
\* take it up, no longer than the time to live ago.
DuplicateOnlyOfRecent ==
  [][\A h \in Requests :
       handler[h].step = "idle" /\ handler'[h].step = "duplicate" =>
         \E a \in accepted : /\ a.id = handler'[h].delivery
                             /\ now - a.seenAt <= Ttl]_vars

\* The entries of the Map: no two of one id, the earlier inserted never the
\* later seen (so that evicting from the front evicts the oldest), and at most
\* one more than MaxTracked.
CacheInOrder ==
  /\ \A e, f \in cache : e # f => e.id # f.id
  /\ \A e, f \in cache : e.nth < f.nth => e.seenAt <= f.seenAt
  /\ Cardinality(cache) <= MaxTracked + 1

\* The file a check run is about: that of the first configured path with one.
FirstFile(d) ==
  LET files == payload[d].files
      present == {k \in 1..PathCount : files[k].text # "absent"}
  IN  IF present = {} THEN [text |-> "absent", nth |-> 0]
      ELSE files[CHOOSE k \in present : \A j \in present : k <= j]

\* A check run says of a head what its first manifest says: no failed call,
\* and no file behind an unreadable one, turns into a verdict.
CheckTellsTheHead ==
  \A h \in Requests : check[h] # "none" =>
    LET d == handler[h].delivery
        file == FirstFile(d)
    IN  /\ payload[d].event = "supported"
        /\ file.text # "unreadable"
        /\ file.text = "absent" <=> check[h] = "neutral"
        /\ file.text = "not JSON" => check[h] = "failure"

\* A green check is earned and a red one deserved: it is green just when the
\* manifest, by every key it was written with, is valid and recoverable
\* (docs/github-app.md: critical and high findings fail a check).
Deserving == {n \in DOMAIN Manifests :
                IsValid(Manifests[n]) /\ Recoverable(Manifests[n])}
GreenIsEarned ==
  \A h \in Requests : check[h] # "none" =>
    LET file == FirstFile(handler[h].delivery)
    IN  file.text = "manifest" =>
          (check[h] = "success" <=> file.nth \in Deserving)

\* The answer with a conclusion is sent only when GitHub has that check run.  A
\* check run is that of the conclusion its handler came to, which went on to
\* publish it, whatever became of the answer; a handler that was to leave none (a
\* duplicate, an ignored or rejected delivery, a search cut short) leaves none.
AnswerMatchesCheck ==
  \A h \in Requests :
    /\ handler[h].step = "published" => check[h] # "none"
    /\ check[h] # "none" =>
         /\ check[h] = handler[h].conclusion
         /\ handler[h].step \in {"created", "published", "failed", "bad json", "lost"}
=============================================================================
