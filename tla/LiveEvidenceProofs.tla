------------------------- MODULE LiveEvidenceProofs -------------------------
(***************************************************************************)
(* Proofs about the live evidence script, its artifacts and their readers, *)
(* for any paths, routes, operators, attempts, readers and limits.         *)
(***************************************************************************)
EXTENDS LiveEvidence, FiniteSetTheorems, WellFoundedInduction, TLAPS

JobsOf(p) == [stage : Stages, attempt : 0..(Attempts[p] + 1), write : {"no", "due", "open"}]

\* The stages a run enters with attempts left.
Counted == {"health", "observe", "choose", "await", "funded"}

\* What two operators must have confirmed before an object may say what it says.
Earned(a, B) ==
  a.kind = "live-devnet" =>
    /\ a.status = "passed" => [run |-> a.run, of |-> 0] \in B
    /\ a.signed /\ a.mode = "airdrop" => [run |-> a.run, of |-> a.funded] \in B

\* What holds of path p when its run has built e and is at j, f is on disk, the
\* transactions of B are confirmed and n runs were started.
PathTyped(p, e, j, f) ==
  e \in Artifacts /\ j \in JobsOf(p) /\ f \in Artifacts \cup Unreadable

PathNumbered(p, e, j, f, n) ==
  /\ e.run <= n /\ (f \notin Unreadable => f.run <= n)
  /\ j.stage = "off" => j.write = "no"
  /\ j.stage # "off" => e.run >= 1 /\ (f \notin Unreadable => f.run <= e.run)
  /\ j.stage \in Counted => j.attempt <= Attempts[p]

PathEarned(e, j, f, B) ==
  /\ Earned(e, B) /\ Earned(f, B)
  /\ j.stage \in {"health", "observe", "choose"} => e.mode = "wallet"
  /\ j.stage = "health" => ~e.signed
  /\ j.stage = "funded" /\ e.mode = "airdrop" => [run |-> e.run, of |-> e.funded] \in B
  /\ j.stage = "done" => e.status = "passed" /\ (j.write = "no" => f = e)

PathOK(p, e, j, f, B, n) ==
  PathTyped(p, e, j, f) /\ PathNumbered(p, e, j, f, n) /\ PathEarned(e, j, f, B)

\* How path p goes on, whatever the step: its file stays, is emptied or becomes
\* what its run has built; the run stays the same, is gone or is a new one.
FileGoesOn(p) ==
  \/ file'[p] \in {file[p], [kind |-> "partial"]}
  \/ file'[p] = evidence[p] /\ job[p].stage # "off"

RunGoesOn(p) ==
  \/ job'[p].stage = "off"
  \/ job[p].stage # "off" /\ evidence'[p].run = evidence[p].run
  \/ evidence'[p].run > runs

PathsOK ==
  /\ DOMAIN evidence = Paths /\ DOMAIN job = Paths /\ DOMAIN file = Paths
  /\ evidence = [p \in Paths |-> evidence[p]] /\ file = [p \in Paths |-> file[p]]
  /\ runs \in 0..MaxRuns /\ backed \subseteq [run : 1..MaxRuns, of : AttemptNumbers]
  /\ \A p \in Paths : PathOK(p, evidence[p], job[p], file[p], backed, runs)

\* A step of the script on path p: it leads to e, j and f there and nowhere else.
StepTo(p, e, j, f) ==
  /\ evidence' = [evidence EXCEPT ![p] = e]
  /\ job' = [job EXCEPT ![p] = j]
  /\ file' = [file EXCEPT ![p] = f]
  /\ UNCHANGED reader

-----------------------------------------------------------------------------
LEMMA Shapes ==
  /\ PathCount \in Nat /\ 1 \in Paths /\ MaxRuns \in Nat
  /\ \A p \in Paths : p \in Nat /\ Attempts[p] \in Nat /\ Attempts[p] >= 1
  /\ 0 \in AttemptNumbers
  /\ \A p \in Paths, k \in Nat : k <= Attempts[p] => k \in AttemptNumbers
<1>1. /\ PathCount \in Nat /\ 1 \in Paths /\ MaxRuns \in Nat
      /\ \A p \in Paths : p \in Nat /\ Attempts[p] \in Nat /\ Attempts[p] >= 1
  BY EvidenceAssumption DEF Paths
<1>2. \A p \in Paths, k \in Nat : k <= Attempts[p] => k \in AttemptNumbers
  <2> TAKE p \in Paths, k \in Nat
  <2> HAVE k <= Attempts[p]
  <2>1. k \in 0..Attempts[p]
    BY <1>1
  <2> QED
    BY <2>1 DEF AttemptNumbers
<1>3. 0 \in AttemptNumbers
  BY <1>1, <1>2
<1> QED
  BY <1>1, <1>2, <1>3

\* More confirmations and more runs take nothing away from a path.
LEMMA PathOKGrows ==
  ASSUME NEW p \in Paths, NEW e, NEW j, NEW f, NEW B, NEW C, NEW m \in Nat, NEW n \in Nat,
         B \subseteq C, m <= n, PathOK(p, e, j, f, B, m)
  PROVE  PathOK(p, e, j, f, C, n)
<1>1. e.run \in Int /\ (f \notin Unreadable => f.run \in Int)
  BY Shapes DEF PathOK, PathTyped, Artifacts
<1>2. PathNumbered(p, e, j, f, n)
  BY <1>1 DEF PathOK, PathNumbered
<1>3. PathEarned(e, j, f, C)
  BY DEF PathOK, PathEarned, Earned
<1> QED
  BY <1>2, <1>3 DEF PathOK

\* What is left to prove of a step of the script on one path.
LEMMA StepLocal ==
  ASSUME PathsOK, NEW p \in Paths, NEW e, NEW j, NEW f, StepTo(p, e, j, f),
         runs' \in 0..MaxRuns, runs <= runs', backed \subseteq backed',
         backed' \subseteq [run : 1..MaxRuns, of : AttemptNumbers],
         PathOK(p, e, j, f, backed', runs'),
         \/ f \in {file[p], [kind |-> "partial"]}
         \/ f = evidence[p] /\ job[p].stage # "off",
         \/ j.stage = "off"
         \/ job[p].stage # "off" /\ e.run = evidence[p].run
         \/ e.run > runs
  PROVE  /\ PathsOK' /\ reader' = reader /\ runs <= runs'
         /\ \A q \in Paths : FileGoesOn(q) /\ RunGoesOn(q)
<1>1. /\ evidence'[p] = e /\ job'[p] = j /\ file'[p] = f
      /\ \A q \in Paths \ {p} : /\ evidence'[q] = evidence[q] /\ job'[q] = job[q]
                                /\ file'[q] = file[q]
      /\ DOMAIN evidence' = Paths /\ DOMAIN job' = Paths /\ DOMAIN file' = Paths
      /\ evidence' = [q \in Paths |-> evidence'[q]] /\ file' = [q \in Paths |-> file'[q]]
  BY DEF PathsOK, StepTo
<1>2. runs \in Nat /\ runs' \in Nat
  BY Shapes DEF PathsOK
<1>3. \A q \in Paths \ {p} : PathOK(q, evidence[q], job[q], file[q], backed', runs')
  BY <1>2, PathOKGrows DEF PathsOK
<1>4. \A q \in Paths : PathOK(q, evidence'[q], job'[q], file'[q], backed', runs')
  BY <1>1, <1>3, Zenon
<1>5. \A q \in Paths : FileGoesOn(q) /\ RunGoesOn(q)
  BY <1>1 DEF FileGoesOn, RunGoesOn
<1> QED
  BY <1>1, <1>4, <1>5 DEF PathsOK, StepTo

-----------------------------------------------------------------------------
(* What a run may leave on its path.                                       *)

Partial == [kind |-> "partial"]
JobAt(stage, attempt, write) == [stage |-> stage, attempt |-> attempt, write |-> write]

LEMMA JobTyped ==
  ASSUME NEW p \in Paths, NEW stage \in Stages, NEW attempt \in Nat,
         attempt <= Attempts[p] + 1, NEW write \in {"no", "due", "open"}
  PROVE  /\ JobAt(stage, attempt, write) \in JobsOf(p)
         /\ JobAt(stage, attempt, write).stage = stage
         /\ JobAt(stage, attempt, write).attempt = attempt
         /\ JobAt(stage, attempt, write).write = write
BY Shapes DEF JobAt, JobsOf

LEMMA PathTypes ==
  ASSUME NEW p \in Paths, NEW e, NEW j, NEW f, PathTyped(p, e, j, f)
  PROVE  /\ e.run \in 0..MaxRuns /\ e.funded \in AttemptNumbers /\ e.signed \in BOOLEAN
         /\ e.mode \in {"wallet", "airdrop"} /\ e.status \in Statuses /\ e.kind \in Kinds
         /\ f \notin Unreadable => f \in Artifacts /\ f.run \in 0..MaxRuns
         /\ j.stage \in Stages /\ j.write \in {"no", "due", "open"}
         /\ j.attempt \in Nat /\ j.attempt <= Attempts[p] + 1
         /\ e \notin Unreadable /\ Partial \in Unreadable
BY Shapes DEF PathTyped, JobsOf, Artifacts, Unreadable, Partial, Kinds

\* What was emptied says nothing, and what says nothing is earned.
LEMMA EmptyIsEarned == \A B : Earned(Partial, B) /\ Earned(Foreign, B)
BY DEF Earned, Partial, Foreign

\* The file that a run leaves behind is as good as it was, as the run built it, or empty.
LEMMA FileLeft ==
  ASSUME NEW p \in Paths, NEW e, NEW j, NEW f, NEW B, NEW n \in Nat, NEW g,
         PathOK(p, e, j, f, B, n), j.stage # "off", g \in {f, e, Partial}
  PROVE  /\ g \in Artifacts \cup Unreadable /\ Earned(g, B)
         /\ g \notin Unreadable => g.run <= e.run /\ g.run <= n
<1>1. /\ e.run \in Nat /\ e.run <= n /\ e \notin Unreadable /\ Partial \in Unreadable
      /\ f \notin Unreadable => f.run <= e.run /\ f.run <= n
      /\ e \in Artifacts /\ f \in Artifacts \cup Unreadable /\ Earned(f, B) /\ Earned(e, B)
  BY PathTypes DEF PathOK, PathNumbered, PathTyped, PathEarned
<1> QED
  BY <1>1, EmptyIsEarned

LEMMA RunGone ==
  ASSUME NEW p \in Paths, NEW e, NEW j, NEW f, NEW B, NEW n \in Nat, NEW g,
         PathOK(p, e, j, f, B, n), j.stage # "off", g \in {f, e, Partial}
  PROVE  PathOK(p, Foreign, JobAt("off", 0, "no"), g, B, n)
<1>1. /\ g \in Artifacts \cup Unreadable /\ Earned(g, B)
      /\ g \notin Unreadable => g.run <= n
  BY FileLeft
<1>2. /\ Foreign \in Artifacts /\ Foreign.run = 0
  BY Shapes DEF Foreign, Artifacts, Kinds, Statuses
<1>3. JobAt("off", 0, "no") \in JobsOf(p) /\ JobAt("off", 0, "no").stage = "off"
      /\ JobAt("off", 0, "no").write = "no"
  BY JobTyped, Shapes DEF Stages
<1>4. PathNumbered(p, Foreign, JobAt("off", 0, "no"), g, n)
  BY <1>1, <1>2, <1>3 DEF PathNumbered, Counted
<1>5. PathEarned(Foreign, JobAt("off", 0, "no"), g, B)
  BY <1>1, <1>3, EmptyIsEarned DEF PathEarned
<1> QED
  BY <1>1, <1>2, <1>3, <1>4, <1>5 DEF PathOK, PathTyped

\* A run that gives up has failed, whatever it had done before.
LEMMA RunGivesUp ==
  ASSUME NEW p \in Paths, NEW e, NEW j, NEW f, NEW B, NEW n \in Nat, NEW g,
         PathOK(p, e, j, f, B, n), j.stage # "off", g \in {f, e, Partial}
  PROVE  PathOK(p, [e EXCEPT !.status = "failed"], JobAt("ended", 0, "due"), g, B, n)
<1> DEFINE failed == [e EXCEPT !.status = "failed"]
           next == JobAt("ended", 0, "due")
<1>1. /\ g \in Artifacts \cup Unreadable /\ Earned(g, B)
      /\ g \notin Unreadable => g.run <= e.run /\ g.run <= n
  BY FileLeft
<1>2. /\ e \in Artifacts /\ e.run \in Nat /\ e.run <= n /\ e.run >= 1 /\ Earned(e, B)
  BY PathTypes DEF PathOK, PathTyped, PathNumbered, PathEarned
<1>3. /\ failed \in Artifacts /\ failed.run = e.run /\ failed.status = "failed"
      /\ failed.signed = e.signed /\ failed.mode = e.mode /\ failed.funded = e.funded
      /\ failed.kind = e.kind
  BY <1>2 DEF Artifacts, Statuses
<1>4. next \in JobsOf(p) /\ next.stage = "ended" /\ next.write = "due"
  BY JobTyped, Shapes DEF Stages
<1> HIDE DEF failed, next
<1>5. PathNumbered(p, failed, next, g, n)
  BY <1>1, <1>2, <1>3, <1>4 DEF PathNumbered, Counted
<1>6. PathEarned(failed, next, g, B)
  BY <1>1, <1>2, <1>3, <1>4 DEF PathEarned, Earned
<1> QED
  BY <1>1, <1>3, <1>4, <1>5, <1>6 DEF PathOK, PathTyped, failed, next

\* A run that goes on with the same object, at a stage that asks no more of it.
LEMMA RunMoves ==
  ASSUME NEW p \in Paths, NEW e, NEW j, NEW f, NEW B, NEW n \in Nat, NEW g,
         NEW stage \in Stages, NEW attempt \in Nat, attempt <= Attempts[p] + 1,
         NEW write \in {"no", "due", "open"},
         PathOK(p, e, j, f, B, n), j.stage # "off", stage # "off", g \in {f, e, Partial},
         stage \in Counted => attempt <= Attempts[p],
         stage \in {"health", "observe", "choose"} => e.mode = "wallet",
         stage = "health" => ~e.signed,
         stage = "funded" /\ e.mode = "airdrop" => [run |-> e.run, of |-> e.funded] \in B,
         stage = "done" => e.status = "passed" /\ (write = "no" => g = e)
  PROVE  PathOK(p, e, JobAt(stage, attempt, write), g, B, n)
<1> DEFINE next == JobAt(stage, attempt, write)
<1>1. /\ g \in Artifacts \cup Unreadable /\ Earned(g, B)
      /\ g \notin Unreadable => g.run <= e.run /\ g.run <= n
  BY FileLeft
<1>2. /\ e \in Artifacts /\ e.run \in Nat /\ e.run <= n /\ e.run >= 1 /\ Earned(e, B)
  BY PathTypes DEF PathOK, PathTyped, PathNumbered, PathEarned
<1>3. /\ next \in JobsOf(p) /\ next.stage = stage /\ next.write = write
      /\ next.attempt = attempt
  BY JobTyped
<1> HIDE DEF next
<1>4. PathNumbered(p, e, next, g, n)
  BY <1>1, <1>2, <1>3 DEF PathNumbered
<1>5. PathEarned(e, next, g, B)
  BY <1>1, <1>2, <1>3 DEF PathEarned
<1> QED
  BY <1>1, <1>2, <1>3, <1>4, <1>5 DEF PathOK, PathTyped, next

-----------------------------------------------------------------------------
(* The steps of the script, as steps of one path.                          *)

GoesOn ==
  /\ PathsOK' /\ reader' = reader /\ runs <= runs'
  /\ \A q \in Paths : FileGoesOn(q) /\ RunGoesOn(q)

LEMMA PathFacts ==
  ASSUME PathsOK, NEW p \in Paths
  PROVE  /\ PathOK(p, evidence[p], job[p], file[p], backed, runs)
         /\ PathTyped(p, evidence[p], job[p], file[p])
         /\ runs \in Nat /\ runs <= MaxRuns
         /\ job[p] = JobAt(job[p].stage, job[p].attempt, job[p].write)
BY Shapes DEF PathsOK, PathOK, PathTyped, JobsOf, JobAt

\* The same path, of which the file is replaced by itself.
LEMMA FileStays ==
  ASSUME PathsOK, NEW p \in Paths, file' = file
  PROVE  file' = [file EXCEPT ![p] = file[p]]
BY DEF PathsOK

LEMMA EvidenceStays ==
  ASSUME PathsOK, NEW p \in Paths, evidence' = evidence
  PROVE  evidence' = [evidence EXCEPT ![p] = evidence[p]]
BY DEF PathsOK

LEMMA PersistIsStep ==
  ASSUME PathsOK, NEW p \in Paths, NEW stage, NEW object, Persist(p, stage, object),
         file' = file, reader' = reader
  PROVE  StepTo(p, object, JobAt(stage, job[p].attempt, "due"), file[p])
<1>1. job' = [job EXCEPT ![p] = JobAt(stage, job[p].attempt, "due")]
  <2>1. PICK j, s, k, w : j = job[p] /\ j = [stage |-> s, attempt |-> k, write |-> w]
    BY PathFacts DEF JobAt
  <2>2. [job[p] EXCEPT !.stage = stage, !.write = "due"]
          = JobAt(stage, job[p].attempt, "due")
    <3>1. PICK i : i = [j EXCEPT !.stage = stage]
      OBVIOUS
    <3>2. i = [stage |-> stage, attempt |-> k, write |-> w]
      BY <2>1, <3>1
    <3>3. [i EXCEPT !.write = "due"] = JobAt(stage, k, "due")
      BY <3>2 DEF JobAt
    <3>4. [j EXCEPT !.stage = stage, !.write = "due"] = JobAt(stage, k, "due")
      BY <3>1, <3>3, <2>1
    <3>5. k = job[p].attempt
      BY <2>1
    <3> QED
      BY <2>1, <3>4, <3>5
  <2>3. job' = [job EXCEPT ![p] = [job[p] EXCEPT !.stage = stage, !.write = "due"]]
    BY DEF Persist
  <2> QED
    BY <2>2, <2>3
<1> QED
  BY <1>1, FileStays DEF Persist, StepTo

\* A step on one path that keeps what is confirmed and starts no run.
LEMMA QuietStep ==
  ASSUME PathsOK, NEW p \in Paths, NEW e, NEW j, NEW f, StepTo(p, e, j, f),
         runs' = runs, backed' = backed, PathOK(p, e, j, f, backed, runs),
         f \in {file[p], evidence[p], Partial}, job[p].stage # "off",
         j.stage = "off" \/ e.run = evidence[p].run
  PROVE  GoesOn
<1>1. /\ runs' \in 0..MaxRuns /\ runs <= runs' /\ backed \subseteq backed'
      /\ backed' \subseteq [run : 1..MaxRuns, of : AttemptNumbers]
  BY Shapes DEF PathsOK
<1>2. PathOK(p, e, j, f, backed', runs')
  OBVIOUS
<1> QED
  BY <1>1, <1>2, StepLocal DEF GoesOn, Partial

\* The outer catch, and an attempt that is put on record.
LEMMA GiveUpGoesOn ==
  ASSUME PathsOK, NEW p \in Paths, NEW g \in {file[p], evidence[p], Partial},
         file' = [file EXCEPT ![p] = g], GiveUp(p), job[p].stage # "off",
         UNCHANGED <<runs, reader, backed>>
  PROVE  GoesOn
<1> DEFINE e == [evidence[p] EXCEPT !.status = "failed"]
           j == JobAt("ended", 0, "due")
<1>1. StepTo(p, e, j, g)
  BY DEF StepTo, GiveUp, JobAt
<1>2. PathOK(p, e, j, g, backed, runs)
  BY RunGivesUp, PathFacts
<1>3. e.run = evidence[p].run
  BY PathFacts DEF PathTyped, Artifacts
<1> HIDE DEF e, j
<1> QED
  BY <1>1, <1>2, <1>3, QuietStep

LEMMA NextAttemptGoesOn ==
  ASSUME PathsOK, NEW p \in Paths, NEW g \in {file[p], evidence[p], Partial},
         file' = [file EXCEPT ![p] = g], NextAttempt(p), job[p].stage # "off",
         job[p].attempt <= Attempts[p], UNCHANGED <<runs, reader, backed>>
  PROVE  GoesOn
<1> DEFINE j == JobAt("airdrop", job[p].attempt + 1, "due")
<1>1. job[p].attempt \in Nat /\ Attempts[p] \in Nat
  BY PathFacts, PathTypes, Shapes
<1>2. StepTo(p, evidence[p], j, g)
  <2>1. job' = [job EXCEPT ![p] = j]
    BY DEF NextAttempt, JobAt
  <2>2. evidence' = [evidence EXCEPT ![p] = evidence[p]]
    BY EvidenceStays DEF NextAttempt
  <2> QED
    BY <2>1, <2>2 DEF StepTo
<1>3. PathOK(p, evidence[p], j, g, backed, runs)
  <2>1. PICK k \in Nat : k = job[p].attempt + 1 /\ k <= Attempts[p] + 1
    BY <1>1
  <2>2. "airdrop" \in Stages
    BY DEF Stages
  <2>3. PathOK(p, evidence[p], JobAt("airdrop", k, "due"), g, backed, runs)
    BY <2>1, <2>2, RunMoves, PathFacts DEF Counted
  <2> QED
    BY <2>1, <2>3
<1> HIDE DEF j
<1> QED
  BY <1>2, <1>3, QuietStep

\* The process is gone, whatever it had done to its file.
LEMMA ExitGoesOn ==
  ASSUME PathsOK, NEW p \in Paths, NEW g \in {file[p], evidence[p], Partial},
         file' = [file EXCEPT ![p] = g], Exit(p), job[p].stage # "off",
         UNCHANGED <<runs, reader, backed>>
  PROVE  GoesOn
<1> DEFINE j == JobAt("off", 0, "no")
<1>1. StepTo(p, Foreign, j, g) /\ j.stage = "off"
  BY DEF StepTo, Exit, JobAt
<1>2. PathOK(p, Foreign, j, g, backed, runs)
  BY RunGone, PathFacts
<1> HIDE DEF j
<1> QED
  BY <1>1, <1>2, QuietStep

\* A run goes on to a stage and has its object written before that.
LEMMA PersistGoesOn ==
  ASSUME PathsOK, NEW p \in Paths, NEW stage \in Stages \ {"off", "health"},
         Persist(p, stage, evidence[p]),
         job[p].stage # "off", file' = file, UNCHANGED <<runs, reader, backed>>,
         stage \in Counted => job[p].attempt <= Attempts[p],
         stage \in {"observe", "choose", "funded"} => evidence[p].mode = "wallet",
         stage # "done"
  PROVE  GoesOn
<1> DEFINE j == JobAt(stage, job[p].attempt, "due")
<1>1. StepTo(p, evidence[p], j, file[p])
  BY PersistIsStep
<1>2. job[p].attempt \in Nat /\ job[p].attempt <= Attempts[p] + 1
  BY PathFacts, PathTypes
<1>3. PathOK(p, evidence[p], j, file[p], backed, runs)
  BY <1>2, RunMoves, PathFacts
<1> HIDE DEF j
<1> QED
  BY <1>1, <1>3, QuietStep

\* Two operators of a set of routes are two routes of different operators.
LEMMA IndependentIsTwo ==
  ASSUME NEW S \in SUBSET Routes, Independent(S)
  PROVE  \E e, f \in S : Operator[e] # Operator[f]
<1> DEFINE T == {Operator[e] : e \in S}
<1>1. Cardinality(T) >= 2
  BY DEF Independent
<1>2. Cardinality({}) = 0 /\ \A x : Cardinality({x}) = 1
  BY FS_EmptySet, FS_Singleton
<1> HIDE DEF T
<1>3. T # {}
  BY <1>1, <1>2
<1>4. ASSUME NEW x, T = {x} PROVE FALSE
  <2>1. Cardinality(T) = 1
    BY <1>2, <1>4
  <2> QED
    BY <1>1, <2>1
<1>5. \E x, y \in T : x # y
  BY <1>3, <1>4
<1> QED
  BY <1>5 DEF T

\* What a verification by independent routes adds to what is confirmed.
LEMMA RecordAdds ==
  ASSUME PathsOK, NEW p \in Paths, job[p].stage # "off", NEW of \in AttemptNumbers,
         NEW S \in SUBSET Routes, Independent(S), Record(p, of, S)
  PROVE  /\ backed' = backed \cup {[run |-> evidence[p].run, of |-> of]}
         /\ backed' \subseteq [run : 1..MaxRuns, of : AttemptNumbers]
<1>1. \E e, f \in S : Operator[e] # Operator[f]
  BY IndependentIsTwo
<1>2. backed' = backed \cup {[run |-> evidence[p].run, of |-> of]}
  BY <1>1 DEF Record
<1>3. evidence[p].run \in 1..MaxRuns
  <2>1. evidence[p].run \in 0..MaxRuns /\ evidence[p].run >= 1
    BY PathFacts, PathTypes DEF PathOK, PathNumbered
  <2> QED
    BY <2>1, Shapes
<1> QED
  BY <1>2, <1>3 DEF PathsOK

\* A verification is on record before the run goes on with what it says.
LEMMA VerifiedGoesOn ==
  ASSUME PathsOK, NEW p \in Paths, job[p].stage # "off", NEW of \in AttemptNumbers,
         NEW S \in SUBSET Routes, Independent(S), Record(p, of, S),
         NEW stage \in Stages \ {"off"}, NEW object, Persist(p, stage, object),
         file' = file, UNCHANGED <<runs, reader>>, object.run = evidence[p].run,
         PathOK(p, object, JobAt(stage, job[p].attempt, "due"), file[p],
                backed \cup {[run |-> evidence[p].run, of |-> of]}, runs)
  PROVE  GoesOn
<1> DEFINE j == JobAt(stage, job[p].attempt, "due")
<1>1. StepTo(p, object, j, file[p])
  BY PersistIsStep
<1>2. /\ backed' = backed \cup {[run |-> evidence[p].run, of |-> of]}
      /\ backed' \subseteq [run : 1..MaxRuns, of : AttemptNumbers]
  BY RecordAdds
<1>3. runs' \in 0..MaxRuns /\ runs <= runs' /\ backed \subseteq backed'
  BY <1>2, Shapes DEF PathsOK
<1>4. PathOK(p, object, j, file[p], backed', runs')
  BY <1>2
<1> HIDE DEF j
<1> QED
  BY <1>1, <1>2, <1>3, <1>4, StepLocal DEF GoesOn

\* A run starts on a path at rest, with the next number.
LEMMA StartGoesOn ==
  ASSUME PathsOK, NEW p \in Paths, NEW own \in BOOLEAN, Start(p, own)
  PROVE  GoesOn
<1> DEFINE e == [kind |-> "live-devnet", run |-> runs + 1, own |-> own,
                 status |-> "running", mode |-> "wallet", funded |-> 0, signed |-> FALSE]
           j == JobAt("health", 0, "no")
<1>1. runs \in Nat /\ runs < MaxRuns /\ runs' = runs + 1 /\ runs' \in 0..MaxRuns
      /\ MaxRuns \in Nat /\ backed' = backed
  BY Shapes DEF Start, PathsOK
<1>2. StepTo(p, e, j, file[p])
  BY FileStays DEF Start, StepTo, JobAt
<1>3. /\ e \in Artifacts /\ e.run = runs' /\ e.status = "running" /\ e.mode = "wallet"
      /\ e.signed = FALSE
  BY <1>1, Shapes DEF Artifacts, Kinds, Statuses
<1>4. j \in JobsOf(p) /\ j.stage = "health" /\ j.write = "no" /\ j.attempt <= Attempts[p]
  BY JobTyped, Shapes DEF Stages
<1> HIDE DEF e, j
<1>5. /\ file[p] \in Artifacts \cup Unreadable /\ Earned(file[p], backed)
      /\ file[p] \notin Unreadable => file[p].run \in Nat /\ file[p].run <= runs
  <2>1. PathTyped(p, evidence[p], job[p], file[p])
    BY PathFacts
  <2>2. file[p] \notin Unreadable => file[p].run \in Nat
    BY <2>1, PathTypes, Shapes
  <2>3. /\ PathNumbered(p, evidence[p], job[p], file[p], runs)
        /\ PathEarned(evidence[p], job[p], file[p], backed)
    BY PathFacts DEF PathOK
  <2> QED
    BY <2>1, <2>2, <2>3 DEF PathTyped, PathNumbered, PathEarned
<1>6. PathNumbered(p, e, j, file[p], runs')
  BY <1>1, <1>3, <1>4, <1>5 DEF PathNumbered, Counted
<1>7. PathEarned(e, j, file[p], backed')
  BY <1>1, <1>3, <1>4, <1>5 DEF PathEarned, Earned
<1>8. PathOK(p, e, j, file[p], backed', runs')
  BY <1>3, <1>4, <1>5, <1>6, <1>7 DEF PathOK, PathTyped
<1>9. runs <= runs' /\ e.run > runs /\ backed \subseteq backed'
      /\ backed' \subseteq [run : 1..MaxRuns, of : AttemptNumbers]
  BY <1>1, <1>3 DEF PathsOK
<1> QED
  BY <1>1, <1>2, <1>8, <1>9, StepLocal DEF GoesOn

-----------------------------------------------------------------------------
(* The actions, one by one.                                                *)

\* A record of which one field is replaced.
LEMMA FundedReplaced ==
  ASSUME NEW e \in Artifacts, NEW k \in AttemptNumbers, NEW o, o = [e EXCEPT !.funded = k]
  PROVE  /\ o \in Artifacts /\ o.funded = k /\ o.run = e.run
         /\ o.status = e.status /\ o.kind = e.kind
<1>1. [e EXCEPT !.funded = k] \in Artifacts
  BY DEF Artifacts
<1>2. /\ o.funded = k /\ o.run = e.run
      /\ o.status = e.status /\ o.kind = e.kind
  BY DEF Artifacts
<1> QED
  BY <1>1, <1>2

LEMMA FieldReplaced ==
  ASSUME NEW e \in Artifacts
  PROVE  /\ \A k \in AttemptNumbers :
              /\ [e EXCEPT !.funded = k] \in Artifacts
              /\ [e EXCEPT !.funded = k].funded = k
              /\ \A x \in {"kind", "run", "own", "status", "mode", "signed"} :
                   [e EXCEPT !.funded = k][x] = e[x]
         /\ [e EXCEPT !.signed = TRUE] \in Artifacts
         /\ [e EXCEPT !.signed = TRUE].signed = TRUE
         /\ \A x \in {"kind", "run", "own", "status", "mode", "funded"} :
              [e EXCEPT !.signed = TRUE][x] = e[x]
         /\ [e EXCEPT !.mode = "airdrop"] \in Artifacts
         /\ [e EXCEPT !.mode = "airdrop"].mode = "airdrop"
         /\ \A x \in {"kind", "run", "own", "status", "funded", "signed"} :
              [e EXCEPT !.mode = "airdrop"][x] = e[x]
         /\ [e EXCEPT !.status = "passed"] \in Artifacts
         /\ [e EXCEPT !.status = "passed"].status = "passed"
         /\ \A x \in {"kind", "run", "own", "mode", "funded", "signed"} :
              [e EXCEPT !.status = "passed"][x] = e[x]
<1>1. \A k \in AttemptNumbers :
        /\ [e EXCEPT !.funded = k] \in Artifacts
        /\ [e EXCEPT !.funded = k].funded = k
        /\ \A x \in {"kind", "run", "own", "status", "mode", "signed"} :
             [e EXCEPT !.funded = k][x] = e[x]
  BY DEF Artifacts
<1>2. /\ [e EXCEPT !.signed = TRUE] \in Artifacts
      /\ [e EXCEPT !.signed = TRUE].signed = TRUE
      /\ \A x \in {"kind", "run", "own", "status", "mode", "funded"} :
           [e EXCEPT !.signed = TRUE][x] = e[x]
  BY DEF Artifacts
<1>3. /\ [e EXCEPT !.mode = "airdrop"] \in Artifacts
      /\ [e EXCEPT !.mode = "airdrop"].mode = "airdrop"
      /\ \A x \in {"kind", "run", "own", "status", "funded", "signed"} :
           [e EXCEPT !.mode = "airdrop"][x] = e[x]
  BY DEF Artifacts
<1>4. /\ [e EXCEPT !.status = "passed"] \in Artifacts
      /\ [e EXCEPT !.status = "passed"].status = "passed"
      /\ \A x \in {"kind", "run", "own", "mode", "funded", "signed"} :
           [e EXCEPT !.status = "passed"][x] = e[x]
  BY DEF Artifacts, Statuses
<1> QED
  BY <1>1, <1>2, <1>3, <1>4

\* An object that differs from the one built so far in what the run has since
\* done, with the confirmations it takes.
LEMMA NewObject ==
  ASSUME NEW p \in Paths, NEW e, NEW j, NEW f, NEW B, NEW C, NEW n \in Nat, NEW o \in Artifacts,
         NEW stage \in Stages \ {"off", "health", "observe", "choose"},
         NEW attempt \in Nat, attempt <= Attempts[p] + 1,
         PathOK(p, e, j, f, B, n), j.stage # "off", B \subseteq C,
         o.run = e.run, Earned(o, C),
         stage \in Counted => attempt <= Attempts[p],
         stage = "funded" /\ o.mode = "airdrop" => [run |-> o.run, of |-> o.funded] \in C,
         stage = "done" => o.status = "passed"
  PROVE  PathOK(p, o, JobAt(stage, attempt, "due"), f, C, n)
<1> DEFINE next == JobAt(stage, attempt, "due")
<1>1. PathOK(p, e, j, f, C, n)
  BY PathOKGrows
<1>2. /\ f \in Artifacts \cup Unreadable /\ Earned(f, C)
      /\ e.run <= n /\ e.run >= 1 /\ (f \notin Unreadable => f.run <= e.run /\ f.run <= n)
  BY <1>1, FileLeft DEF PathOK, PathNumbered
<1>3. next \in JobsOf(p) /\ next.stage = stage /\ next.attempt = attempt /\ next.write = "due"
  BY JobTyped
<1> HIDE DEF next
<1>4. PathNumbered(p, o, next, f, n)
  BY <1>2, <1>3 DEF PathNumbered
<1>5. PathEarned(o, next, f, C)
  BY <1>2, <1>3 DEF PathEarned
<1> QED
  BY <1>2, <1>3, <1>4, <1>5 DEF PathOK, PathTyped, next

LEMMA CheckRoutesGoesOn ==
  ASSUME PathsOK, NEW p \in Paths, CheckRoutes(p)
  PROVE  GoesOn
<1>1. /\ job[p].stage = "health" /\ file' = file /\ UNCHANGED <<runs, reader, backed>>
      /\ evidence[p].mode = "wallet" /\ ~evidence[p].signed
      /\ job[p].attempt <= Attempts[p]
  BY PathFacts DEF CheckRoutes, At, Elsewhere, PathOK, PathEarned, PathNumbered, Counted
<1>2. CASE Persist(p, "observe", evidence[p])
  BY <1>1, <1>2, PersistGoesOn DEF Stages, Counted
<1>3. CASE /\ evidence' = [evidence EXCEPT ![p].mode = "airdrop"]
           /\ job' = [job EXCEPT ![p] = [stage |-> "airdrop", attempt |-> 1, write |-> "due"]]
  <2> DEFINE o == [evidence[p] EXCEPT !.mode = "airdrop"]
             j == JobAt("airdrop", 1, "due")
  <2>1. StepTo(p, o, j, file[p])
    BY <1>1, <1>3, FileStays DEF StepTo, JobAt
  <2>2. /\ evidence[p] \in Artifacts /\ Earned(evidence[p], backed)
        /\ PathOK(p, evidence[p], job[p], file[p], backed, runs) /\ runs \in Nat
    BY PathFacts DEF PathOK, PathTyped, PathEarned
  <2>3. /\ o \in Artifacts /\ o.run = evidence[p].run /\ o.status = evidence[p].status
        /\ o.signed = evidence[p].signed /\ o.kind = evidence[p].kind
    BY <2>2, FieldReplaced
  <2> HIDE DEF o
  <2>4. Earned(o, backed)
    BY <1>1, <2>2, <2>3 DEF Earned
  <2>5. "airdrop" \in Stages \ {"off", "health", "observe", "choose"} /\ 1 <= Attempts[p] + 1
    BY Shapes DEF Stages
  <2>6. PathOK(p, o, j, file[p], backed, runs)
    BY <1>1, <2>2, <2>3, <2>4, <2>5, NewObject DEF Counted
  <2> HIDE DEF j
  <2> QED
    BY <1>1, <2>1, <2>3, <2>6, QuietStep
<1> QED
  BY <1>2, <1>3 DEF CheckRoutes

LEMMA UseWalletGoesOn ==
  ASSUME PathsOK, NEW p \in Paths, UseWallet(p)
  PROVE  GoesOn
<1>1. file' = file /\ UNCHANGED <<runs, reader, backed>>
  BY DEF UseWallet, Elsewhere
<1>2. /\ job[p].stage \in {"observe", "choose"} /\ evidence[p].mode = "wallet"
      /\ job[p].attempt <= Attempts[p]
  BY PathFacts DEF UseWallet, At, PathOK, PathEarned, PathNumbered, Counted
<1>3. CASE Persist(p, "choose", evidence[p])
  BY <1>1, <1>2, <1>3, PersistGoesOn DEF Stages, Counted
<1>4. CASE Persist(p, "funded", evidence[p])
  BY <1>1, <1>2, <1>4, PersistGoesOn DEF Stages
<1> QED
  BY <1>3, <1>4 DEF UseWallet

LEMMA AirdropGoesOn ==
  ASSUME PathsOK, NEW p \in Paths, Airdrop(p)
  PROVE  GoesOn
<1>1. /\ job[p].stage = "airdrop" /\ file' = file /\ UNCHANGED <<runs, reader, backed>>
      /\ file' = [file EXCEPT ![p] = file[p]]
  BY FileStays DEF Airdrop, At, Elsewhere
<1>2. CASE job[p].attempt <= Attempts[p] /\ Persist(p, "await", evidence[p])
  BY <1>1, <1>2, PersistGoesOn DEF Stages
<1>3. CASE job[p].attempt <= Attempts[p] /\ NextAttempt(p)
  BY <1>1, <1>3, NextAttemptGoesOn
<1>4. CASE GiveUp(p)
  BY <1>1, <1>4, GiveUpGoesOn
<1> QED
  BY <1>2, <1>3, <1>4 DEF Airdrop

\* An airdrop on record is one that two operators confirmed.
LEMMA AwaitAirdropGoesOn ==
  ASSUME PathsOK, NEW p \in Paths, AwaitAirdrop(p)
  PROVE  GoesOn
<1>1. /\ job[p].stage = "await" /\ file' = file /\ UNCHANGED <<runs, reader>>
      /\ file' = [file EXCEPT ![p] = file[p]]
  BY FileStays DEF AwaitAirdrop, At, Elsewhere
<1>2. PICK k \in Nat : k = job[p].attempt /\ k <= Attempts[p] /\ k \in AttemptNumbers
                       /\ k <= Attempts[p] + 1
  BY <1>1, PathFacts, PathTypes, Shapes DEF PathOK, PathNumbered, Counted
<1>3. ASSUME NEW S \in SUBSET Routes, Independent(S), Record(p, k, S),
             Persist(p, "funded", [evidence[p] EXCEPT !.funded = k])
      PROVE  GoesOn
  <2> DEFINE o == [evidence[p] EXCEPT !.funded = k]
             C == backed \cup {[run |-> evidence[p].run, of |-> k]}
  <2>1. /\ evidence[p] \in Artifacts /\ Earned(evidence[p], backed) /\ runs \in Nat
        /\ PathOK(p, evidence[p], job[p], file[p], backed, runs)
    BY PathFacts DEF PathOK, PathTyped, PathEarned
  <2>2. /\ o \in Artifacts /\ o.funded = k /\ o.run = evidence[p].run
        /\ o.status = evidence[p].status /\ o.kind = evidence[p].kind
    <3> HIDE DEF o
    <3>1. o = [evidence[p] EXCEPT !.funded = k]
      BY DEF o
    <3> QED
      BY <1>2, <2>1, <3>1, FundedReplaced
  <2> HIDE DEF o
  <2>3. Earned(o, C) /\ [run |-> o.run, of |-> o.funded] \in C
    BY <2>1, <2>2 DEF Earned
  <2>4. "funded" \in Stages \ {"off", "health", "observe", "choose"}
    BY DEF Stages
  <2>5. PathOK(p, o, JobAt("funded", k, "due"), file[p], C, runs)
    <3> HIDE DEF C
    <3>1. backed \subseteq C
      BY DEF C
    <3>2. job[p].stage # "off"
      BY <1>1
    <3> QED
      BY <1>2, <2>1, <2>2, <2>3, <2>4, <3>1, <3>2, NewObject
  <2>6. Persist(p, "funded", o)
    BY <1>3 DEF o
  <2> QED
    BY <1>1, <1>2, <1>3, <2>2, <2>4, <2>5, <2>6, VerifiedGoesOn
<1>4. CASE NextAttempt(p) /\ UNCHANGED backed
  BY <1>1, <1>2, <1>4, NextAttemptGoesOn
<1> QED
  BY <1>2, <1>3, <1>4 DEF AwaitAirdrop

\* The memo is signed on what the payer was funded with.
LEMMA SignGoesOn ==
  ASSUME PathsOK, NEW p \in Paths, Sign(p)
  PROVE  GoesOn
<1> DEFINE o == [evidence[p] EXCEPT !.signed = TRUE]
           j == JobAt("broadcast", 0, "due")
<1>1. job[p].stage = "funded" /\ file' = file /\ UNCHANGED <<runs, reader, backed>>
  BY DEF Sign, At, Elsewhere
<1>2. StepTo(p, o, j, file[p])
  BY <1>1, FileStays DEF Sign, StepTo, JobAt
<1>3. /\ evidence[p] \in Artifacts /\ Earned(evidence[p], backed) /\ runs \in Nat
      /\ evidence[p].mode = "airdrop" =>
           [run |-> evidence[p].run, of |-> evidence[p].funded] \in backed
      /\ PathOK(p, evidence[p], job[p], file[p], backed, runs)
  BY <1>1, PathFacts DEF PathOK, PathTyped, PathEarned
<1>4. /\ o \in Artifacts /\ o.funded = evidence[p].funded /\ o.run = evidence[p].run
      /\ o.status = evidence[p].status /\ o.kind = evidence[p].kind
      /\ o.mode = evidence[p].mode
  BY <1>3, FieldReplaced
<1> HIDE DEF o
<1>5. Earned(o, backed)
  BY <1>3, <1>4 DEF Earned
<1>6. "broadcast" \in Stages \ {"off", "health", "observe", "choose"} /\ 0 <= Attempts[p] + 1
  BY Shapes DEF Stages
<1>7. PathOK(p, o, j, file[p], backed, runs)
  BY <1>1, <1>3, <1>4, <1>5, <1>6, NewObject DEF Counted
<1> HIDE DEF j
<1> QED
  BY <1>1, <1>2, <1>4, <1>7, QuietStep

LEMMA BroadcastGoesOn ==
  ASSUME PathsOK, NEW p \in Paths, Broadcast(p)
  PROVE  GoesOn
<1>1. /\ job[p].stage = "broadcast" /\ file' = file /\ UNCHANGED <<runs, reader, backed>>
      /\ Persist(p, "confirm", evidence[p])
  BY DEF Broadcast, At, Elsewhere
<1> QED
  BY <1>1, PersistGoesOn DEF Stages, Counted

\* A run passes only with its memo confirmed by two operators.
LEMMA ConfirmGoesOn ==
  ASSUME PathsOK, NEW p \in Paths, Confirm(p)
  PROVE  GoesOn
<1>1. job[p].stage = "confirm" /\ file' = file /\ UNCHANGED <<runs, reader>>
  BY DEF Confirm, At, Elsewhere
<1>2. PICK k \in Nat : k = job[p].attempt /\ k <= Attempts[p] + 1
  BY PathFacts, PathTypes
<1>3. PICK S \in SUBSET Routes :
        /\ Independent(S) /\ Record(p, 0, S)
        /\ Persist(p, "done", [evidence[p] EXCEPT !.status = "passed"])
  BY DEF Confirm
<1> DEFINE o == [evidence[p] EXCEPT !.status = "passed"]
           C == backed \cup {[run |-> evidence[p].run, of |-> 0]}
<1>4. /\ evidence[p] \in Artifacts /\ Earned(evidence[p], backed) /\ runs \in Nat
      /\ PathOK(p, evidence[p], job[p], file[p], backed, runs)
  BY PathFacts DEF PathOK, PathTyped, PathEarned
<1>5. /\ o \in Artifacts /\ o.funded = evidence[p].funded /\ o.run = evidence[p].run
      /\ o.status = "passed" /\ o.kind = evidence[p].kind
      /\ o.mode = evidence[p].mode /\ o.signed = evidence[p].signed
  BY <1>4, FieldReplaced
<1> HIDE DEF o
<1>6. Earned(o, C)
  BY <1>4, <1>5 DEF Earned
<1>7. "done" \in Stages \ {"off", "health", "observe", "choose"}
  BY DEF Stages
<1>8. PathOK(p, o, JobAt("done", k, "due"), file[p], C, runs)
  <2> HIDE DEF C
  <2>1. backed \subseteq C
    BY DEF C
  <2>2. job[p].stage # "off"
    BY <1>1
  <2> QED
    BY <1>2, <1>4, <1>5, <1>6, <1>7, <2>1, <2>2, NewObject DEF Counted
<1>9. Persist(p, "done", o)
  BY <1>3 DEF o
<1> QED
  BY <1>1, <1>2, <1>3, <1>5, <1>7, <1>8, <1>9, Shapes, VerifiedGoesOn

LEMMA ThrowGoesOn ==
  ASSUME PathsOK, NEW p \in Paths, Throw(p)
  PROVE  GoesOn
<1>1. /\ job[p].stage # "off" /\ file' = [file EXCEPT ![p] = file[p]]
      /\ UNCHANGED <<runs, reader, backed>>
  BY FileStays DEF Throw, Elsewhere
<1> QED
  BY <1>1, GiveUpGoesOn DEF Throw

\* What the file of a path is after a write that may have been taken.
LEMMA WriteLeaves ==
  ASSUME PathsOK, NEW p \in Paths, job[p].write # "no"
  PROVE  /\ job[p].stage # "off"
         /\ Complete(p) => file' = [file EXCEPT ![p] = evidence[p]]
         /\ UNCHANGED file => file' = [file EXCEPT ![p] = file[p]]
BY FileStays, PathFacts DEF PathOK, PathNumbered, Complete

\* A stage entered with a write still due or open, and the file that was left.
LEMMA SameStage ==
  ASSUME PathsOK, NEW p \in Paths, job[p].stage # "off",
         NEW write \in {"no", "due", "open"}, NEW g \in {file[p], evidence[p], Partial},
         write = "no" => g = evidence[p]
  PROVE  PathOK(p, evidence[p], JobAt(job[p].stage, job[p].attempt, write), g, backed, runs)
<1>1. PICK stage \in Stages, k \in Nat :
        stage = job[p].stage /\ k = job[p].attempt /\ k <= Attempts[p] + 1
  BY PathFacts, PathTypes
<1>2. /\ PathNumbered(p, evidence[p], job[p], file[p], runs)
      /\ PathEarned(evidence[p], job[p], file[p], backed)
      /\ PathOK(p, evidence[p], job[p], file[p], backed, runs) /\ runs \in Nat
  BY PathFacts DEF PathOK
<1>3. /\ stage \in Counted => k <= Attempts[p]
      /\ stage \in {"health", "observe", "choose"} => evidence[p].mode = "wallet"
      /\ stage = "health" => ~evidence[p].signed
      /\ stage = "funded" /\ evidence[p].mode = "airdrop" =>
           [run |-> evidence[p].run, of |-> evidence[p].funded] \in backed
      /\ stage = "done" => evidence[p].status = "passed" /\ (write = "no" => g = evidence[p])
  BY <1>1, <1>2 DEF PathNumbered, PathEarned
<1> QED
  BY <1>1, <1>2, <1>3, RunMoves

LEMMA TruncateGoesOn ==
  ASSUME PathsOK, NEW p \in Paths, Truncate(p)
  PROVE  GoesOn
<1> DEFINE j == JobAt(job[p].stage, job[p].attempt, "open")
<1>1. /\ job[p].stage # "off" /\ evidence' = [evidence EXCEPT ![p] = evidence[p]]
      /\ file' = [file EXCEPT ![p] = Partial] /\ UNCHANGED <<runs, reader, backed>>
  BY WriteLeaves, EvidenceStays DEF Truncate, Elsewhere, Partial
<1>2. job' = [job EXCEPT ![p] = j]
  <2>1. PICK s, k, w : job[p] = [stage |-> s, attempt |-> k, write |-> w]
    BY PathFacts DEF JobAt
  <2>2. [job[p] EXCEPT !.write = "open"] = j
    BY <2>1 DEF JobAt
  <2>3. job' = [job EXCEPT ![p] = [job[p] EXCEPT !.write = "open"]]
    BY DEF Truncate
  <2> QED
    BY <2>2, <2>3
<1>3. PathOK(p, evidence[p], j, Partial, backed, runs)
  BY <1>1, SameStage
<1> HIDE DEF j
<1>4. StepTo(p, evidence[p], j, Partial)
  BY <1>1, <1>2 DEF StepTo
<1> QED
  BY <1>1, <1>3, <1>4, QuietStep

LEMMA FillGoesOn ==
  ASSUME PathsOK, NEW p \in Paths, Fill(p)
  PROVE  GoesOn
<1>1. /\ job[p].stage # "off" /\ file' = [file EXCEPT ![p] = evidence[p]]
      /\ UNCHANGED <<runs, reader, backed>>
  BY WriteLeaves DEF Fill, Elsewhere
<1>2. CASE Exit(p)
  BY <1>1, <1>2, ExitGoesOn
<1>3. CASE job' = [job EXCEPT ![p].write = "no"] /\ UNCHANGED evidence
  <2> DEFINE j == JobAt(job[p].stage, job[p].attempt, "no")
  <2>1. job' = [job EXCEPT ![p] = j]
    <3>1. PICK s, k, w : job[p] = [stage |-> s, attempt |-> k, write |-> w]
      BY PathFacts DEF JobAt
    <3>2. [job[p] EXCEPT !.write = "no"] = j
      BY <3>1 DEF JobAt
    <3>3. job' = [job EXCEPT ![p] = [job[p] EXCEPT !.write = "no"]]
      BY <1>3
    <3> QED
      BY <3>2, <3>3
  <2>2. PathOK(p, evidence[p], j, evidence[p], backed, runs)
    BY <1>1, SameStage
  <2> HIDE DEF j
  <2>3. StepTo(p, evidence[p], j, evidence[p])
    BY <1>1, <1>3, <2>1, EvidenceStays DEF StepTo
  <2> QED
    BY <1>1, <2>2, <2>3, QuietStep
<1> QED
  BY <1>2, <1>3 DEF Fill

LEMMA WriteFailsGoesOn ==
  ASSUME PathsOK, NEW p \in Paths, WriteFails(p)
  PROVE  GoesOn
<1>1. PICK g \in {file[p], evidence[p], Partial} : file' = [file EXCEPT ![p] = g]
  BY WriteLeaves DEF WriteFails
<1>2. /\ job[p].stage # "off" /\ UNCHANGED <<runs, reader, backed>>
  BY WriteLeaves DEF WriteFails, Elsewhere
<1>3. CASE job[p].stage = "ended"
  BY <1>1, <1>2, <1>3, ExitGoesOn DEF WriteFails
<1>4. CASE job[p].stage = "funded" /\ job[p].attempt > 0
  <2>1. NextAttempt(p)
    BY <1>4 DEF WriteFails
  <2>2. job[p].attempt <= Attempts[p]
    BY <1>4, PathFacts DEF PathOK, PathNumbered, Counted
  <2> QED
    BY <1>1, <1>2, <2>1, <2>2, NextAttemptGoesOn
<1>5. CASE job[p].stage # "ended" /\ ~(job[p].stage = "funded" /\ job[p].attempt > 0)
  BY <1>1, <1>2, <1>5, GiveUpGoesOn DEF WriteFails
<1> QED
  BY <1>3, <1>4, <1>5

LEMMA KillGoesOn ==
  ASSUME PathsOK, NEW p \in Paths, Kill(p)
  PROVE  GoesOn
<1>1. /\ job[p].stage # "off" /\ file' = [file EXCEPT ![p] = file[p]]
      /\ UNCHANGED <<runs, reader, backed>> /\ Exit(p)
  BY WriteLeaves, FileStays DEF Kill, Elsewhere, Resting
<1> QED
  BY <1>1, ExitGoesOn

\* A reader changes nothing of the script's.
LEMMA ReadLeavesPaths ==
  ASSUME PathsOK, UNCHANGED <<evidence, job, runs, backed, file>>
  PROVE  PathsOK' /\ runs <= runs' /\ \A q \in Paths : FileGoesOn(q) /\ RunGoesOn(q)
<1>1. runs \in Nat
  BY Shapes DEF PathsOK
<1>2. PathsOK'
  BY DEF PathsOK
<1>3. \A q \in Paths : FileGoesOn(q) /\ RunGoesOn(q)
  BY DEF FileGoesOn, RunGoesOn
<1> QED
  BY <1>1, <1>2, <1>3

\* Every step of the script on a path, together.
ScriptStep(p) ==
  \/ \E own \in BOOLEAN : Start(p, own)
  \/ CheckRoutes(p) \/ UseWallet(p) \/ Airdrop(p) \/ AwaitAirdrop(p) \/ Sign(p)
  \/ Broadcast(p) \/ Confirm(p) \/ Throw(p) \/ Truncate(p) \/ Fill(p) \/ WriteFails(p)
  \/ Kill(p)

LEMMA ScriptGoesOn ==
  ASSUME PathsOK, NEW p \in Paths, ScriptStep(p)
  PROVE  GoesOn
BY StartGoesOn, CheckRoutesGoesOn, UseWalletGoesOn, AirdropGoesOn, AwaitAirdropGoesOn,
   SignGoesOn, BroadcastGoesOn, ConfirmGoesOn, ThrowGoesOn, TruncateGoesOn, FillGoesOn,
   WriteFailsGoesOn, KillGoesOn DEF ScriptStep

LEMMA NextIsScriptOrRead ==
  ASSUME [Next]_vars
  PROVE  \/ \E p \in Paths : ScriptStep(p)
         \/ \E r \in Readers : Read(r)
         \/ UNCHANGED vars
BY DEF Next, ScriptStep

-----------------------------------------------------------------------------
(* Readers.                                                                *)

\* Nothing older than run n will be read on path p, from now on.
Leads(p, n) ==
  /\ file[p] \notin Unreadable => file[p].run >= n
  /\ job[p].stage # "off" => evidence[p].run >= n

ReaderTyped(r) ==
  reader[r] \in [next : 1..(PathCount + 1), known : 0..MaxRuns, got : [Paths -> Sanitizations]]

\* The path on which the reader has seen, or will see, the latest run it was told of.
CoveredBy(x, p) ==
  IF p < x.next THEN x.got[p] \in Unreadable \/ x.got[p].run >= x.known
                ELSE Leads(p, x.known)

Covered(r) ==
  reader[r].next > 1 =>
    /\ reader[r].known <= runs
    /\ reader[r].known = 0 \/ \E p \in Paths : CoveredBy(reader[r], p)

ReadersOK == DOMAIN reader = Readers /\ reader = [r \in Readers |-> reader[r]]
             /\ \A r \in Readers : ReaderTyped(r) /\ Covered(r)

EvidenceInv == PathsOK /\ ReadersOK

LEMMA LeadsIsKept ==
  ASSUME PathsOK, PathsOK', NEW p \in Paths, NEW n \in Nat, n <= runs,
         FileGoesOn(p), RunGoesOn(p), Leads(p, n)
  PROVE  Leads(p, n)'
<1>1. /\ evidence[p].run \in Nat /\ evidence'[p].run \in Nat /\ runs \in Nat
      /\ evidence[p] \notin Unreadable
      /\ file[p] \notin Unreadable => file[p].run \in Nat
  <2>1. PathTyped(p, evidence[p], job[p], file[p])
    BY PathFacts
  <2>2. PathTyped(p, evidence'[p], job'[p], file'[p])
    BY DEF PathsOK, PathOK
  <2> QED
    BY <2>1, <2>2, PathTypes, Shapes DEF PathsOK
<1>2. file'[p] \notin Unreadable => file'[p].run >= n
  BY <1>1 DEF Leads, FileGoesOn, Unreadable
<1>3. job'[p].stage # "off" => evidence'[p].run >= n
  BY <1>1 DEF Leads, RunGoesOn
<1> QED
  BY <1>2, <1>3 DEF Leads

\* The script may go on between any two reads.
LEMMA ScriptKeepsReaders ==
  ASSUME EvidenceInv, PathsOK', reader' = reader, runs <= runs',
         \A q \in Paths : FileGoesOn(q) /\ RunGoesOn(q)
  PROVE  ReadersOK'
<1>1. PathsOK /\ ReadersOK /\ runs \in Nat /\ runs' \in Nat
  BY Shapes DEF EvidenceInv, PathsOK
<1>2. ASSUME NEW r \in Readers, reader[r].next > 1
      PROVE  /\ reader[r].known <= runs'
             /\ reader[r].known = 0 \/ \E p \in Paths : CoveredBy(reader[r], p)'
  <2>1. reader[r].known \in Nat /\ reader[r].known <= runs
    BY <1>1, <1>2, Shapes DEF ReadersOK, ReaderTyped, Covered
  <2>2. ASSUME NEW p \in Paths, CoveredBy(reader[r], p)
        PROVE  CoveredBy(reader[r], p)'
    <3>1. CASE p < reader[r].next
      BY <2>2, <3>1 DEF CoveredBy
    <3>2. CASE ~(p < reader[r].next)
      <4>1. Leads(p, reader[r].known)
        BY <2>2, <3>2 DEF CoveredBy
      <4>2. PICK n \in Nat : n = reader[r].known
        BY <2>1
      <4>3. Leads(p, n)'
        BY <1>1, <2>1, <4>1, <4>2, LeadsIsKept
      <4> QED
        BY <3>2, <4>2, <4>3 DEF CoveredBy
    <3> QED
      BY <3>1, <3>2
  <2>3. reader[r].known <= runs'
    BY <1>1, <2>1
  <2> QED
    BY <1>1, <1>2, <2>2, <2>3 DEF ReadersOK, Covered
<1>3. \A r \in Readers : Covered(r)'
  BY <1>2 DEF Covered
<1>4. \A r \in Readers : ReaderTyped(r)'
  BY <1>1 DEF ReadersOK, ReaderTyped
<1> QED
  BY <1>1, <1>3, <1>4 DEF ReadersOK

\* The latest run on disk is well defined.
LEMMA LatestIsMaximum ==
  ASSUME PathsOK
  PROVE  /\ Latest \in 0..MaxRuns
         /\ Latest = 0 \/ \E p \in Paths : file[p] \notin Unreadable /\ file[p].run = Latest
<1> DEFINE Above == {n \in 0..MaxRuns :
                       \A p \in Paths : file[p] \notin Unreadable => file[p].run <= n}
<1>1. \A p \in Paths : file[p] \notin Unreadable => file[p].run \in 0..MaxRuns
  BY PathFacts, PathTypes
<1>2. Above \subseteq Nat /\ MaxRuns \in Above
  BY <1>1, Shapes
<1>3. PICK n \in Above : \A m \in Above : ~(m < n)
  <2> HIDE DEF Above
  <2>1. PICK n \in Above : \A m \in Above : ~(<<m, n>> \in OpToRel(<, Nat))
    BY <1>2, NatLessThanWellFounded, WFMin
  <2>2. \A m \in Above : ~(m < n)
    BY <1>2, <2>1 DEF OpToRel
  <2> QED
    BY <2>2
<1>4. n \in Nat /\ n <= MaxRuns
      /\ \A p \in Paths : file[p] \notin Unreadable => file[p].run <= n
  BY Shapes
<1>5. n = 0 \/ \E p \in Paths : file[p] \notin Unreadable /\ file[p].run = n
  <2> SUFFICES ASSUME n # 0, \A p \in Paths : file[p] \notin Unreadable => file[p].run # n
               PROVE  FALSE
    OBVIOUS
  <2>1. n - 1 \in 0..MaxRuns
    BY <1>4, Shapes
  <2>2. \A p \in Paths : file[p] \notin Unreadable => file[p].run <= n - 1
    <3> TAKE p \in Paths
    <3> HAVE file[p] \notin Unreadable
    <3>1. PICK k \in Nat : k = file[p].run
      BY <1>1, Shapes
    <3>2. k <= n /\ k # n
      BY <1>4, <3>1
    <3>3. k <= n - 1
      BY <1>4, <3>2
    <3> QED
      BY <3>1, <3>3
  <2>3. n - 1 \in Above
    BY <2>1, <2>2
  <2>4. n - 1 < n
    BY <1>4
  <2> HIDE DEF Above
  <2> QED
    BY <1>3, <2>3, <2>4
<1>6. \E k \in 0..MaxRuns :
        /\ \A p \in Paths : file[p] \notin Unreadable => file[p].run <= k
        /\ k = 0 \/ \E p \in Paths : file[p] \notin Unreadable /\ file[p].run = k
  BY <1>4, <1>5, Shapes
<1> QED
  BY <1>6 DEF Latest

LEMMA SanitizedFacts ==
  ASSUME NEW f \in Artifacts \cup Unreadable
  PROVE  /\ Sanitized(f) \in Sanitizations
         /\ Sanitized(f) \in Unreadable <=> f \in Unreadable
         /\ f \notin Unreadable => Sanitized(f).run = f.run
<1>1. CASE f \in Unreadable
  BY <1>1 DEF Sanitized, Sanitizations
<1>2. CASE f \notin Unreadable
  <2>1. Sanitized(f) = [kind |-> f.kind, run |-> f.run, own |-> f.own, status |-> f.status]
    BY <1>2 DEF Sanitized
  <2>2. f.kind \in Kinds /\ f.run \in 0..MaxRuns /\ f.own \in BOOLEAN /\ f.status \in Statuses
    BY <1>2 DEF Artifacts
  <2> QED
    BY <1>2, <2>1, <2>2 DEF Sanitizations, Unreadable, Kinds
<1> QED
  BY <1>1, <1>2

\* A read takes over what leads on its path, or finds that it cannot.
LEMMA ReadKeepsReaders ==
  ASSUME EvidenceInv, PathsOK', NEW r \in Readers, Read(r)
  PROVE  ReadersOK'
<1>1. PathsOK /\ ReadersOK /\ ReaderTyped(r) /\ Covered(r)
  BY DEF EvidenceInv, ReadersOK
<1>2. /\ PathCount \in Nat /\ MaxRuns \in Nat /\ 1 \in Paths /\ Paths = 1..PathCount
  BY Shapes DEF Paths
<1>3. PICK p \in Paths : p = reader[r].next
  BY DEF Read
<1>4. PICK known : known = IF p = 1 THEN Latest ELSE reader[r].known
  OBVIOUS
<1>5. PICK got : got = [reader[r].got EXCEPT ![p] = Sanitized(file[p])]
  OBVIOUS
<1> DEFINE x == [next |-> p + 1, known |-> known, got |-> got]
<1>6. reader' = [reader EXCEPT ![r] = x]
  <2>1. PICK y : y = reader[r]
    OBVIOUS
  <2>2. y \in [next : 1..(PathCount + 1), known : 0..MaxRuns, got : [Paths -> Sanitizations]]
    BY <1>1, <2>1 DEF ReaderTyped
  <2>3. PICK n, k, g : y = [next |-> n, known |-> k, got |-> g]
    BY <2>2
  <2>4. PICK z : z = [y EXCEPT !.next = p + 1]
    OBVIOUS
  <2>5. z = [next |-> p + 1, known |-> k, got |-> g]
    BY <2>3, <2>4
  <2>6. PICK w : w = [z EXCEPT !.got[p] = Sanitized(file[p])]
    OBVIOUS
  <2>7. w = [next |-> p + 1, known |-> k, got |-> got]
    BY <1>5, <2>1, <2>3, <2>5, <2>6
  <2>8. [w EXCEPT !.known = known] = x
    BY <2>7
  <2>9. [y EXCEPT !.next = p + 1, !.got[p] = Sanitized(file[p]),
                  !.known = IF p = 1 THEN Latest ELSE @] = x
    BY <1>4, <2>1, <2>3, <2>4, <2>5, <2>6, <2>7, <2>8
  <2>10. reader' = [reader EXCEPT ![r] =
           [reader[r] EXCEPT !.next = p + 1, !.got[p] = Sanitized(file[p]),
                             !.known = IF p = 1 THEN Latest ELSE @]]
    BY <1>3 DEF Read
  <2> QED
    BY <2>1, <2>9, <2>10
<1>7. /\ reader'[r] = x /\ DOMAIN reader' = Readers
      /\ \A q \in Readers \ {r} : reader'[q] = reader[q]
      /\ reader' = [q \in Readers |-> reader'[q]]
  <2> HIDE DEF x
  <2> QED
    BY <1>1, <1>6 DEF ReadersOK
<1>8. PathTyped(p, evidence[p], job[p], file[p]) /\ file[p] \in Artifacts \cup Unreadable
  BY <1>1, PathFacts DEF PathTyped
<1>9. Sanitized(file[p]) \in Sanitizations
  BY <1>8, SanitizedFacts
<1>10. /\ x.next = p + 1 /\ x.known = known /\ x.got = got
       /\ got \in [Paths -> Sanitizations] /\ got[p] = Sanitized(file[p])
       /\ \A q \in Paths \ {p} : got[q] = reader[r].got[q]
  BY <1>1, <1>5, <1>9 DEF ReaderTyped
<1>11. known \in 0..MaxRuns
  BY <1>1, <1>4, LatestIsMaximum DEF ReaderTyped
<1>12. x \in [next : 1..(PathCount + 1), known : 0..MaxRuns, got : [Paths -> Sanitizations]]
  BY <1>2, <1>10, <1>11
<1> HIDE DEF x
<1>13. ASSUME known # 0
       PROVE  \E q \in Paths : \/ q >= p /\ Leads(q, known)
                               \/ q < p /\ CoveredBy(reader[r], q)
  <2>1. CASE p = 1
    <3>1. PICK q \in Paths : file[q] \notin Unreadable /\ file[q].run = known
      BY <1>1, <1>4, <1>13, <2>1, LatestIsMaximum
    <3>2. job[q].stage # "off" => evidence[q].run >= file[q].run
      <4>1. evidence[q].run \in Nat /\ file[q].run \in Nat
        BY <1>1, <3>1, PathFacts, PathTypes, Shapes
      <4> QED
        BY <1>1, <3>1, <4>1, PathFacts DEF PathOK, PathNumbered
    <3>3. known \in Nat
      BY <1>2, <1>11
    <3>4. Leads(q, known)
      BY <3>1, <3>2, <3>3 DEF Leads
    <3>5. q >= p
      BY <2>1, <1>2
    <3> QED
      BY <3>4, <3>5
  <2>2. CASE p # 1
    <3>1. reader[r].next > 1 /\ known = reader[r].known
      BY <1>2, <1>3, <1>4, <2>2
    <3>2. PICK q \in Paths : CoveredBy(reader[r], q)
      BY <1>1, <1>13, <3>1 DEF Covered
    <3>3. q \in Nat /\ p \in Nat
      BY Shapes
    <3> QED
      BY <1>3, <3>1, <3>2, <3>3 DEF CoveredBy
  <2> QED
    BY <2>1, <2>2
<1>14. known <= runs
  <2>1. CASE p # 1
    BY <1>1, <1>2, <1>3, <1>4, <2>1 DEF Covered
  <2>2. CASE p = 1
    <3>1. known = Latest /\ runs \in Nat
      BY <1>1, <1>4, <2>2, PathFacts
    <3>2. ASSUME NEW q \in Paths, file[q] \notin Unreadable PROVE file[q].run <= runs
      BY <1>1, <3>2, PathFacts DEF PathOK, PathNumbered
    <3> QED
      BY <1>1, <3>1, <3>2, LatestIsMaximum
  <2> QED
    BY <2>1, <2>2
<1>15. /\ evidence' = evidence /\ job' = job /\ file' = file /\ runs' = runs
  BY DEF Read
<1>16. ASSUME known # 0 PROVE \E q \in Paths : CoveredBy(x, q)
  <2>1. PICK q \in Paths : \/ q >= p /\ Leads(q, known)
                           \/ q < p /\ CoveredBy(reader[r], q)
    BY <1>13, <1>16
  <2>2. q \in Nat /\ p \in Nat
    BY Shapes
  <2>3. CASE q < p /\ CoveredBy(reader[r], q)
    <3>1. p # 1
      BY <1>2, <2>2, <2>3
    <3>2. got[q] = reader[r].got[q] /\ q < p + 1 /\ q < reader[r].next
      BY <1>3, <1>10, <2>2, <2>3
    <3>3. known = reader[r].known
      BY <1>4, <3>1
    <3> QED
      BY <1>10, <2>3, <3>2, <3>3 DEF CoveredBy
  <2>4. CASE Leads(q, known) /\ q > p
    BY <1>10, <2>2, <2>4 DEF CoveredBy
  <2>5. CASE Leads(q, known) /\ q = p
    <3>1. CASE file[p] \in Unreadable
      <4>1. got[p] \in Unreadable
        BY <1>8, <1>10, <3>1, SanitizedFacts
      <4> QED
        BY <1>10, <2>2, <2>5, <4>1 DEF CoveredBy
    <3>2. CASE file[p] \notin Unreadable
      <4>1. got[p].run = file[p].run
        BY <1>8, <1>10, <3>2, SanitizedFacts
      <4> QED
        BY <1>10, <2>2, <2>5, <3>2, <4>1 DEF CoveredBy, Leads
    <3> QED
      BY <3>1, <3>2
  <2> QED
    BY <2>1, <2>2, <2>3, <2>4, <2>5
<1>17. Covered(r)'
  <2>1. x.next > 1 /\ x.known <= runs
    BY <1>2, <1>10, <1>14
  <2>2. x.known = 0 \/ \E q \in Paths : CoveredBy(x, q)
    BY <1>10, <1>16
  <2>3. \A q : CoveredBy(x, q)' <=> CoveredBy(x, q)
    BY <1>15 DEF CoveredBy, Leads
  <2> QED
    BY <1>7, <1>15, <2>1, <2>2, <2>3 DEF Covered
<1>18. \A q \in Readers \ {r} : Covered(q)'
  <2> TAKE q \in Readers \ {r}
  <2>1. Covered(q) /\ reader'[q] = reader[q]
    BY <1>1, <1>7 DEF ReadersOK
  <2>2. \A i : CoveredBy(reader[q], i)' <=> CoveredBy(reader[q], i)
    BY <1>15, <2>1 DEF CoveredBy, Leads
  <2> QED
    BY <1>15, <2>1, <2>2 DEF Covered
<1>19. \A q \in Readers : ReaderTyped(q)'
  BY <1>1, <1>7, <1>12 DEF ReadersOK, ReaderTyped
<1> QED
  BY <1>7, <1>17, <1>18, <1>19 DEF ReadersOK

-----------------------------------------------------------------------------
(* The invariant.                                                          *)

LEMMA InitEvidence == Init => EvidenceInv
<1> SUFFICES ASSUME Init PROVE EvidenceInv
  OBVIOUS
<1>1. /\ Foreign \in Artifacts /\ Foreign.run = 0 /\ Foreign.kind = "other"
      /\ MaxRuns \in Nat
  BY Shapes DEF Foreign, Artifacts, Kinds, Statuses
<1>2. ASSUME NEW p \in Paths
      PROVE  PathOK(p, evidence[p], job[p], file[p], backed, runs)
  <2>1. /\ evidence[p] = Foreign /\ job[p] = JobAt("off", 0, "no") /\ runs = 0
        /\ file[p] = Foreign \/ file[p] = [kind |-> "absent"]
    BY DEF Init, JobAt
  <2>2. /\ job[p] \in JobsOf(p) /\ job[p].stage = "off" /\ job[p].write = "no"
    BY <2>1, JobTyped, Shapes DEF Stages
  <2>3. file[p] \in Artifacts \cup Unreadable /\ file[p].kind # "live-devnet"
    BY <1>1, <2>1 DEF Unreadable
  <2>4. file[p] \notin Unreadable => file[p].run = 0
    BY <1>1, <2>1 DEF Unreadable
  <2>5. PathTyped(p, evidence[p], job[p], file[p])
    BY <1>1, <2>1, <2>2, <2>3 DEF PathTyped
  <2>6. PathNumbered(p, evidence[p], job[p], file[p], runs)
    BY <1>1, <2>1, <2>2, <2>4 DEF PathNumbered, Counted
  <2>7. PathEarned(evidence[p], job[p], file[p], backed)
    BY <1>1, <2>1, <2>2, <2>3 DEF PathEarned, Earned
  <2> QED
    BY <2>5, <2>6, <2>7 DEF PathOK
<1>3. PathsOK
  BY <1>1, <1>2 DEF PathsOK, Init
<1>4. ASSUME NEW r \in Readers PROVE ReaderTyped(r) /\ Covered(r)
  <2>1. reader[r] = [next |-> 1, known |-> 0, got |-> [p \in Paths |-> [kind |-> "absent"]]]
    BY <1>4 DEF Init
  <2>2. [p \in Paths |-> [kind |-> "absent"]] \in [Paths -> Sanitizations]
    BY DEF Sanitizations, Unreadable
  <2>3. 1 \in 1..(PathCount + 1) /\ 0 \in 0..MaxRuns
    BY Shapes
  <2>4. ReaderTyped(r)
    BY <2>1, <2>2, <2>3 DEF ReaderTyped
  <2>5. ~(reader[r].next > 1)
    BY <2>1
  <2> QED
    BY <2>4, <2>5 DEF Covered
<1>5. ReadersOK
  BY <1>4 DEF ReadersOK, Init
<1> QED
  BY <1>3, <1>5 DEF EvidenceInv

LEMMA EvidenceStep ==
  ASSUME EvidenceInv, [Next]_vars
  PROVE  EvidenceInv'
<1>1. PathsOK /\ ReadersOK
  BY DEF EvidenceInv
<1>2. ASSUME NEW p \in Paths, ScriptStep(p) PROVE EvidenceInv'
  <2>1. GoesOn
    BY <1>1, <1>2, ScriptGoesOn
  <2> QED
    BY <2>1, ScriptKeepsReaders DEF GoesOn, EvidenceInv
<1>3. ASSUME NEW r \in Readers, Read(r) PROVE EvidenceInv'
  <2>1. PathsOK'
    BY <1>1, <1>3, ReadLeavesPaths DEF Read
  <2> QED
    BY <1>3, <2>1, ReadKeepsReaders DEF EvidenceInv
<1>4. CASE UNCHANGED vars
  <2>1. /\ PathsOK' /\ reader' = reader /\ runs <= runs'
        /\ \A q \in Paths : FileGoesOn(q) /\ RunGoesOn(q)
    BY <1>1, <1>4, ReadLeavesPaths DEF vars
  <2> QED
    BY <2>1, ScriptKeepsReaders DEF EvidenceInv
<1> QED
  BY <1>2, <1>3, <1>4, NextIsScriptOrRead

\* The inductive invariant: what a run has built is earned at every stage, the
\* file of a path is never ahead of its run, and a reader has seen, or will see,
\* nothing older than what was on disk when it began.
THEOREM EvidenceInvariant == Spec => []EvidenceInv
<1>1. EvidenceInv /\ [Next]_vars => EvidenceInv'
  BY EvidenceStep
<1> QED
  BY <1>1, InitEvidence, PTL DEF Spec

-----------------------------------------------------------------------------
(* What a file and an exit mean.                                           *)

\* Runs, files and readers keep their types: no attempt is counted beyond the
\* rounds over the routes, no run beyond those that were started.
THEOREM EvidenceTypeCorrect == Spec => []TypeOK
<1>1. EvidenceInv => TypeOK
  <2> SUFFICES ASSUME EvidenceInv PROVE TypeOK
    OBVIOUS
  <2>1. \A p \in Paths : PathTyped(p, evidence[p], job[p], file[p])
    BY PathFacts DEF EvidenceInv
  <2>2. evidence \in [Paths -> Artifacts] /\ file \in [Paths -> Artifacts \cup Unreadable]
    BY <2>1 DEF EvidenceInv, PathsOK, PathTyped
  <2>3. reader \in [Readers -> [next : 1..(PathCount + 1), known : 0..MaxRuns,
                                got : [Paths -> Sanitizations]]]
    BY DEF EvidenceInv, ReadersOK, ReaderTyped
  <2> QED
    BY <2>1, <2>2, <2>3 DEF TypeOK, EvidenceInv, PathsOK, PathTyped, JobsOf
<1> QED
  BY <1>1, EvidenceInvariant, PTL

\* An artifact on disk that says "passed" is of a run whose memo two operators
\* confirmed, and a memo paid by an airdrop has a confirmed airdrop on record,
\* whatever was retried, killed or cut short on the way.
THEOREM EvidenceOnDiskIsEarned == Spec => []EvidenceIsEarned
<1>1. EvidenceInv => EvidenceIsEarned
  <2> SUFFICES ASSUME EvidenceInv PROVE EvidenceIsEarned
    OBVIOUS
  <2>1. \A p \in Paths : Earned(file[p], backed)
    BY PathFacts DEF EvidenceInv, PathOK, PathEarned
  <2> QED
    BY <2>1 DEF EvidenceIsEarned, Files, Earned
<1> QED
  BY <1>1, EvidenceInvariant, PTL

\* A run that ends without an error leaves its own passed artifact behind.
THEOREM SuccessfulExitIsTrue == Spec => []ExitIsTrue
<1>1. EvidenceInv => ExitIsTrue
  <2> SUFFICES ASSUME EvidenceInv, NEW p \in Paths, At(p, "done")
               PROVE  file[p] = evidence[p] /\ file[p].status = "passed"
    BY DEF ExitIsTrue
  <2>1. PathEarned(evidence[p], job[p], file[p], backed)
    BY PathFacts DEF EvidenceInv, PathOK
  <2> QED
    BY <2>1 DEF PathEarned, At
<1> QED
  BY <1>1, EvidenceInvariant, PTL

-----------------------------------------------------------------------------
(* What a reader shows: the records in the order of a stable sort.         *)

Gots == [Paths -> Sanitizations]

\* The records that a stable sort puts ahead of p.
Ahead(got, p) == {q \in Records(got) : Before(got, q, p)}

LEMMA RecordFacts ==
  ASSUME NEW got \in Gots
  PROVE  /\ Records(got) \subseteq Paths /\ IsFiniteSet(Paths) /\ IsFiniteSet(Records(got))
         /\ \A p \in Paths : p \in Records(got) <=> got[p] \notin Unreadable
         /\ \A p \in Records(got) : p \in Nat /\ got[p].run \in Nat
<1>1. Records(got) \subseteq Paths
      /\ \A p \in Paths : p \in Records(got) <=> got[p] \notin Unreadable
  BY DEF Records, Errors
<1>2. IsFiniteSet(Paths)
  BY FS_Interval, EvidenceAssumption DEF Paths
<1>3. IsFiniteSet(Records(got))
  BY <1>1, <1>2, FS_Subset
<1>4. ASSUME NEW p \in Records(got) PROVE p \in Nat /\ got[p].run \in Nat
  <2>1. p \in Paths /\ got[p] \in Sanitizations /\ got[p] \notin Unreadable
    BY <1>1 DEF Gots
  <2>2. got[p].run \in 0..MaxRuns
    BY <2>1 DEF Sanitizations
  <2> QED
    BY <2>1, <2>2, Shapes
<1> QED
  BY <1>1, <1>2, <1>3, <1>4

\* The sort orders the records strictly and totally.
LEMMA SortIsTotal ==
  ASSUME NEW got \in Gots, NEW p \in Records(got), NEW q \in Records(got)
  PROVE  /\ ~Before(got, p, p)
         /\ p # q => Before(got, p, q) \/ Before(got, q, p)
         /\ \A o \in Records(got) : Before(got, o, p) /\ Before(got, p, q) => Before(got, o, q)
         /\ Before(got, p, q) => got[p].run >= got[q].run
<1>1. \A o \in Records(got) : o \in Nat /\ got[o].run \in Nat
  BY RecordFacts
<1>2. /\ ~Before(got, p, p)
      /\ p # q => Before(got, p, q) \/ Before(got, q, p)
      /\ Before(got, p, q) => got[p].run >= got[q].run
  BY <1>1 DEF Before
<1>3. ASSUME NEW o \in Records(got), Before(got, o, p), Before(got, p, q)
      PROVE  Before(got, o, q)
  BY <1>1, <1>3 DEF Before
<1> QED
  BY <1>2, <1>3

\* A record has fewer ahead of it than there are, and fewer than one behind it.
LEMMA RanksFollowOrder ==
  ASSUME NEW got \in Gots, NEW p \in Records(got)
  PROVE  /\ Cardinality(Ahead(got, p)) \in 0..(Cardinality(Records(got)) - 1)
         /\ \A q \in Records(got) : Before(got, p, q) =>
              Cardinality(Ahead(got, p)) < Cardinality(Ahead(got, q))
<1>1. IsFiniteSet(Records(got))
  BY RecordFacts
<1>2. ASSUME NEW S \in SUBSET Records(got), Ahead(got, p) \cup {p} \subseteq S
      PROVE  /\ Cardinality(Ahead(got, p)) \in Nat /\ Cardinality(S) \in Nat
             /\ Cardinality(Ahead(got, p)) < Cardinality(S)
  <2>1. IsFiniteSet(S) /\ IsFiniteSet(Ahead(got, p))
    <3>1. Ahead(got, p) \in SUBSET Records(got)
      BY DEF Ahead
    <3> QED
      BY <1>1, <3>1, FS_Subset
  <2>2. p \notin Ahead(got, p)
    BY SortIsTotal DEF Ahead
  <2>3. Cardinality(Ahead(got, p) \cup {p}) = Cardinality(Ahead(got, p)) + 1
    BY <2>1, <2>2, FS_AddElement
  <2>4. Cardinality(Ahead(got, p) \cup {p}) <= Cardinality(S)
    BY <1>2, <2>1, FS_Subset
  <2>5. Cardinality(Ahead(got, p)) \in Nat /\ Cardinality(S) \in Nat
    BY <2>1, FS_CardinalityType
  <2> QED
    BY <2>3, <2>4, <2>5
<1>3. Ahead(got, p) \cup {p} \subseteq Records(got)
  BY DEF Ahead
<1>4. ASSUME NEW q \in Records(got), Before(got, p, q)
      PROVE  Cardinality(Ahead(got, p)) < Cardinality(Ahead(got, q))
  <2>1. Ahead(got, p) \cup {p} \subseteq Ahead(got, q) /\ Ahead(got, q) \subseteq Records(got)
    BY <1>4, SortIsTotal DEF Ahead
  <2> QED
    BY <1>2, <2>1
<1>5. Cardinality(Ahead(got, p)) \in 0..(Cardinality(Records(got)) - 1)
  <2>1. /\ Cardinality(Ahead(got, p)) \in Nat /\ Cardinality(Records(got)) \in Nat
        /\ Cardinality(Ahead(got, p)) < Cardinality(Records(got))
    BY <1>2, <1>3
  <2> QED
    BY <2>1
<1> QED
  BY <1>4, <1>5

\* Every place in the order is taken, each by one record.
LEMMA RanksAreTaken ==
  ASSUME NEW got \in Gots
  PROVE  [p \in Records(got) |-> Cardinality(Ahead(got, p))]
           \in Bijection(Records(got), 0..(Cardinality(Records(got)) - 1))
<1> DEFINE R == Records(got)
           n == Cardinality(R)
           rank == [p \in R |-> Cardinality(Ahead(got, p))]
<1>1. IsFiniteSet(R) /\ n \in Nat
  BY RecordFacts, FS_CardinalityType
<1>2. IsFiniteSet(0..(n - 1)) /\ Cardinality(0..(n - 1)) = n
  BY <1>1, FS_Interval, SMTT(30)
<1>3. rank \in [R -> 0..(n - 1)]
  BY RanksFollowOrder
<1>4. ASSUME NEW p \in R, NEW q \in R, rank[p] = rank[q] PROVE p = q
  <2>1. /\ Cardinality(Ahead(got, p)) \in Int /\ Cardinality(Ahead(got, q)) \in Int
        /\ Before(got, p, q) => Cardinality(Ahead(got, p)) < Cardinality(Ahead(got, q))
        /\ Before(got, q, p) => Cardinality(Ahead(got, q)) < Cardinality(Ahead(got, p))
    <3>1. /\ Cardinality(Ahead(got, p)) \in 0..(n - 1)
          /\ Cardinality(Ahead(got, q)) \in 0..(n - 1)
      BY RanksFollowOrder
    <3> QED
      BY <1>1, <3>1, RanksFollowOrder
  <2>2. Cardinality(Ahead(got, p)) = Cardinality(Ahead(got, q))
    BY <1>4
  <2>3. ~Before(got, p, q) /\ ~Before(got, q, p)
    BY <2>1, <2>2
  <2> QED
    BY <2>3, SortIsTotal
<1>5. rank \in Injection(R, 0..(n - 1))
  BY <1>3, <1>4 DEF Injection, IsInjective
<1> HIDE DEF rank
<1>6. rank \in Surjection(R, 0..(n - 1))
  BY <1>1, <1>2, <1>5, FS_Injection
<1> QED
  BY <1>5, <1>6 DEF Bijection, rank

\* When a record is left out, as many as were asked for are shown, all ahead of it.
LEMMA LeftOutIsBehind ==
  ASSUME NEW got \in Gots, NEW limit \in Nat \ {0}, NEW p \in Records(got),
         p \notin Shown(got, limit)
  PROVE  /\ Cardinality(Shown(got, limit)) = limit
         /\ \A q \in Shown(got, limit) : got[q].run >= got[p].run
<1> DEFINE R == Records(got)
           n == Cardinality(R)
           rank == [q \in R |-> Cardinality(Ahead(got, q))]
           S == Shown(got, limit)
<1>1. S = {q \in R : rank[q] < limit}
  BY DEF Shown, Ahead
<1>2. rank \in Bijection(R, 0..(n - 1))
  BY RanksAreTaken
<1>3. IsFiniteSet(R) /\ n \in Nat
  BY RecordFacts, FS_CardinalityType
<1> HIDE DEF rank
<1>4. /\ \A q \in R : rank[q] \in 0..(n - 1)
      /\ \A q, r \in R : rank[q] = rank[r] => q = r
      /\ \A k \in 0..(n - 1) : \E q \in R : rank[q] = k
      /\ DOMAIN rank = R
  BY <1>2 DEF Bijection, Injection, IsInjective, Surjection
<1>5. limit <= n - 1
  BY <1>1, <1>3, <1>4
<1>6. [q \in S |-> rank[q]] \in Bijection(S, 0..(limit - 1))
  <2> DEFINE g == [q \in S |-> rank[q]]
  <2>1. \A q \in S : q \in R /\ rank[q] \in 0..(limit - 1)
    BY <1>1, <1>3, <1>4
  <2>2. \A k \in 0..(limit - 1) : \E q \in S : rank[q] = k
    <3> TAKE k \in 0..(limit - 1)
    <3>1. k \in 0..(n - 1) /\ k < limit
      BY <1>3, <1>5
    <3> QED
      BY <1>1, <1>4, <3>1
  <2> HIDE DEF S
  <2>3. g \in [S -> 0..(limit - 1)] /\ \A q \in S : g[q] = rank[q]
    BY <2>1
  <2>4. g \in Injection(S, 0..(limit - 1))
    BY <1>4, <2>1, <2>3 DEF Injection, IsInjective
  <2>5. g \in Surjection(S, 0..(limit - 1))
    BY <2>2, <2>3 DEF Surjection
  <2> QED
    BY <2>4, <2>5 DEF Bijection
<1>7. Cardinality(S) = limit
  <2>1. IsFiniteSet(0..(limit - 1)) /\ Cardinality(0..(limit - 1)) = limit
    BY FS_Interval
  <2>2. PICK g : g \in Injection(S, 0..(limit - 1)) /\ g \in Surjection(S, 0..(limit - 1))
    BY <1>6 DEF Bijection
  <2> HIDE DEF S
  <2> QED
    BY <2>1, <2>2, FS_Injection
<1>8. \A q \in S : got[q].run >= got[p].run
  <2> TAKE q \in S
  <2>1. q \in R /\ q # p
    BY <1>1
  <2>2. ~Before(got, p, q)
    <3>1. Before(got, p, q) => Cardinality(Ahead(got, p)) < Cardinality(Ahead(got, q))
      BY <2>1, RanksFollowOrder
    <3>2. /\ Cardinality(Ahead(got, p)) \in Int /\ Cardinality(Ahead(got, q)) \in Int
          /\ Cardinality(Ahead(got, q)) < limit /\ ~(Cardinality(Ahead(got, p)) < limit)
      BY <1>3, <2>1, RanksFollowOrder DEF Shown, Ahead
    <3> QED
      BY <3>1, <3>2
  <2> QED
    BY <2>1, <2>2, SortIsTotal
<1> QED
  BY <1>7, <1>8

\* The one record that is shown is at least as late as every other.
LEMMA FirstIsLatest ==
  ASSUME NEW got \in Gots, NEW p \in Shown(got, 1)
  PROVE  p \in Records(got) /\ \A q \in Records(got) : got[p].run >= got[q].run
<1>1. p \in Records(got) /\ Cardinality(Ahead(got, p)) < 1
  BY DEF Shown, Ahead
<1>2. IsFiniteSet(Ahead(got, p))
  <2>1. Ahead(got, p) \in SUBSET Records(got) /\ IsFiniteSet(Records(got))
    BY RecordFacts DEF Ahead
  <2> QED
    BY <2>1, FS_Subset
<1>3. Ahead(got, p) = {}
  <2>1. Cardinality(Ahead(got, p)) \in Nat
    BY <1>2, FS_CardinalityType
  <2>2. Cardinality(Ahead(got, p)) = 0
    BY <1>1, <2>1
  <2> QED
    BY <1>2, <2>2, FS_EmptySet
<1>4. ASSUME NEW q \in Records(got) PROVE got[p].run >= got[q].run
  <2>1. ~Before(got, q, p)
    BY <1>3 DEF Ahead
  <2>2. got[p].run \in Nat
    BY <1>1, RecordFacts
  <2> QED
    BY <1>1, <2>1, <2>2, SortIsTotal
<1> QED
  BY <1>1, <1>4

\* The overview claims a live proof on no artifact older than one that was on
\* disk when the server began to read, unless it reports a file it could not read.
THEOREM NothingSupersededIsShown == Spec => []SupersededIsNotShown
<1>1. EvidenceInv => SupersededIsNotShown
  <2> SUFFICES ASSUME EvidenceInv, NEW r \in Readers, Answered(r),
                      NEW p \in Shown(reader[r].got, 1), Errors(reader[r].got) = {}
               PROVE  reader[r].got[p].run >= reader[r].known
    BY DEF SupersededIsNotShown
  <2>1. PICK got : got = reader[r].got
    OBVIOUS
  <2>2. /\ got \in Gots /\ reader[r].known \in Nat /\ reader[r].next = PathCount + 1
        /\ PathCount \in Nat /\ PathCount >= 1
    BY <2>1, EvidenceAssumption, Shapes
    DEF EvidenceInv, ReadersOK, ReaderTyped, Gots, Answered
  <2>3. p \in Records(got) /\ \A q \in Records(got) : got[p].run >= got[q].run
    BY <2>1, <2>2, FirstIsLatest
  <2>4. CASE reader[r].known = 0
    BY <2>1, <2>2, <2>3, <2>4, RecordFacts
  <2>5. CASE reader[r].known # 0
    <3>1. PICK q \in Paths : CoveredBy(reader[r], q)
      BY <2>2, <2>5 DEF EvidenceInv, ReadersOK, Covered
    <3>2. q < reader[r].next
      BY <2>2 DEF Paths
    <3>3. q \in Records(got)
      BY <2>1 DEF Records
    <3>4. got[q].run >= reader[r].known
      BY <2>1, <2>2, <3>1, <3>2, <3>3, RecordFacts DEF CoveredBy
    <3>5. got[p].run \in Nat /\ got[q].run \in Nat
      BY <2>2, <2>3, <3>3, RecordFacts
    <3>6. got[p].run >= reader[r].known
      BY <2>2, <2>3, <3>3, <3>4, <3>5
    <3> QED
      BY <2>1, <3>6
  <2> QED
    BY <2>4, <2>5
<1> QED
  BY <1>1, EvidenceInvariant, PTL

\* loadEvidenceHistory answers for every configured source: with a record, an
\* error, or exactly as many records as were asked for, none of them older.
THEOREM EverySourceIsAccounted == Spec => []SourcesAccounted
<1>1. EvidenceInv => SourcesAccounted
  <2> SUFFICES ASSUME EvidenceInv, NEW r \in Readers, NEW limit \in Limits, NEW p \in Paths,
                      NEW got, got = reader[r].got
               PROVE  \/ p \in Shown(got, limit)
                      \/ got[p].kind \in {"absent", "partial"} /\ p \in Errors(got)
                      \/ /\ got[p].kind \notin {"absent", "partial"}
                         /\ \A q \in Shown(got, limit) : got[q].run >= got[p].run
                         /\ Cardinality(Shown(got, limit)) = limit
    BY DEF SourcesAccounted
  <2>1. got \in Gots /\ limit \in Nat \ {0}
    BY EvidenceAssumption DEF EvidenceInv, ReadersOK, ReaderTyped, Gots
  <2>2. CASE got[p] \in Unreadable
    BY <2>2 DEF Errors, Unreadable
  <2>3. CASE got[p] \notin Unreadable
    <3>1. got[p].kind \notin {"absent", "partial"}
      BY <2>1, <2>3 DEF Gots, Sanitizations, Kinds
    <3>2. p \in Records(got)
      BY <2>1, <2>3, RecordFacts
    <3> QED
      BY <2>1, <3>1, <3>2, LeftOutIsBehind
  <2> QED
    BY <2>2, <2>3
<1> QED
  BY <1>1, EvidenceInvariant, PTL
=============================================================================
