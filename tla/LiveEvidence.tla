----------------------------- MODULE LiveEvidence ---------------------------
(***************************************************************************)
(* The live Devnet evidence: the script that funds a payer, broadcasts a   *)
(* memo and has it confirmed (scripts/live-devnet-evidence.mjs), the       *)
(* artifact file it rewrites on the way, and the API server that reads     *)
(* such files for its history and for the live-proof gate of its overview  *)
(* (src/api/evidence-history.ts, src/api/server.ts).                       *)
(*                                                                         *)
(* A run of the script may be killed at any await, and a write may be cut  *)
(* short; a reader reads its files one after the other while runs go on.   *)
(* Each path has at most one run at a time, and a later run a later time   *)
(* stamp: both are numbered.                                               *)
(***************************************************************************)
EXTENDS Integers, FiniteSets

CONSTANTS
  PathCount,   \* how many evidence paths the server is configured with, in order
  Samples,     \* the paths of them that hold an artifact of another origin at first
  Routes,      \* the RPC endpoints of the manifest
  Operator,    \* Operator[e]: who operates endpoint e
  Attempts,    \* Attempts[p]: airdrop attempts of a run on path p, four rounds over
               \* the routes of its manifest
  Readers,     \* requests to the server
  Limits,      \* the limits they ask for; the overview asks for one record
  MaxRuns      \* bound: runs of a behaviour

Paths == 1..PathCount

ASSUME EvidenceAssumption ==
  /\ PathCount \in Nat \ {0} /\ Attempts \in [Paths -> Nat \ {0}] /\ MaxRuns \in Nat
  /\ Samples \subseteq Paths
  /\ DOMAIN Operator = Routes
  /\ Limits \subseteq Nat \ {0}

VARIABLES
  evidence,   \* evidence[p]: the object the run on path p builds
  job,        \* job[p]: how far that run is, and its write
  file,       \* file[p]: what is on disk
  runs,       \* how many runs were started
  reader,     \* reader[r]: how far request r is, and what it has read
  backed      \* history: transactions that two operators reported confirmed

vars == <<evidence, job, runs, reader, backed, file>>

Stages == {"off", "health", "observe", "choose", "airdrop", "await", "funded",
           "broadcast", "confirm", "done", "ended"}
Resting == {"off", "done"}
AttemptNumbers == UNION {0..Attempts[p] : p \in Paths}
Statuses == {"running", "passed", "failed"}
Kinds == {"live-devnet", "other"}

\* own: of the very commit the run and the server were told to expect.
Artifacts == [kind : Kinds, run : 0..MaxRuns, own : BOOLEAN, status : Statuses,
              mode : {"wallet", "airdrop"}, funded : AttemptNumbers, signed : BOOLEAN]
Unreadable == {[kind |-> "absent"], [kind |-> "partial"]}

\* An artifact of another origin, such as the sample, older than every run.
Foreign == [kind |-> "other", run |-> 0, own |-> FALSE, status |-> "passed",
            mode |-> "wallet", funded |-> 0, signed |-> FALSE]

\* sanitizeArtifact, or the error for what is no JSON object.
Sanitized(f) ==
  IF f \in Unreadable THEN f
  ELSE [kind |-> f.kind, run |-> f.run, own |-> f.own, status |-> f.status]

Sanitizations == [kind : Kinds, run : 0..MaxRuns, own : BOOLEAN, status : Statuses]
                   \cup Unreadable

TypeOK ==
  /\ evidence \in [Paths -> Artifacts]
  /\ DOMAIN job = Paths
  /\ \A p \in Paths : job[p] \in [stage : Stages, attempt : 0..(Attempts[p] + 1),
                                   write : {"no", "due", "open"}]
  /\ file \in [Paths -> Artifacts \cup Unreadable]
  /\ runs \in 0..MaxRuns
  /\ reader \in [Readers -> [next : 1..(PathCount + 1), known : 0..MaxRuns, got : [Paths -> Sanitizations]]]
  /\ backed \subseteq [run : 1..MaxRuns, of : AttemptNumbers]

Init ==
  /\ evidence = [p \in Paths |-> Foreign]
  /\ job = [p \in Paths |-> [stage |-> "off", attempt |-> 0, write |-> "no"]]
  /\ file = [p \in Paths |-> IF p \in Samples THEN Foreign ELSE [kind |-> "absent"]]
  /\ runs = 0
  /\ reader = [r \in Readers |-> [next |-> 1, known |-> 0,
                                  got |-> [p \in Paths |-> [kind |-> "absent"]]]]
  /\ backed = {}

-----------------------------------------------------------------------------
(* Steps of a run.                                                         *)

At(p, stage) == job[p].stage = stage /\ job[p].write = "no"

\* persist(), awaited before the run goes on at the given stage.
Persist(p, stage, object) ==
  /\ evidence' = [evidence EXCEPT ![p] = object]
  /\ job' = [job EXCEPT ![p].stage = stage, ![p].write = "due"]

\* The process is gone, and its memory with it.
Exit(p) ==
  /\ evidence' = [evidence EXCEPT ![p] = Foreign]
  /\ job' = [job EXCEPT ![p] = [stage |-> "off", attempt |-> 0, write |-> "no"]]

\* The outer catch.
GiveUp(p) ==
  /\ evidence' = [evidence EXCEPT ![p].status = "failed"]
  /\ job' = [job EXCEPT ![p] = [stage |-> "ended", attempt |-> 0, write |-> "due"]]

\* This attempt is put on record, then comes the next route.
NextAttempt(p) ==
  /\ UNCHANGED evidence
  /\ job' = [job EXCEPT ![p] = [stage |-> "airdrop", attempt |-> @.attempt + 1,
                                write |-> "due"]]

\* Mutant: endpoints are counted, not those who operate them.
IndependentRoutes(S) == Cardinality(S) >= 2

\* independentProviderCount
Independent(S) == Cardinality({Operator[e] : e \in S}) >= 2

\* What is true of a verification, however the script counts.
Record(p, of, S) ==
  backed' = backed \cup {x \in {[run |-> evidence[p].run, of |-> of]} :
                           \E e, f \in S : Operator[e] # Operator[f]}

Elsewhere == UNCHANGED <<runs, reader>>

Start(p, own) ==
  /\ job[p].stage \in Resting /\ job[p].write = "no" /\ runs < MaxRuns
  /\ runs' = runs + 1
  /\ evidence' = [evidence EXCEPT ![p] =
       [kind |-> "live-devnet", run |-> runs + 1, own |-> own, status |-> "running",
        mode |-> "wallet", funded |-> 0, signed |-> FALSE]]
  /\ job' = [job EXCEPT ![p] = [stage |-> "health", attempt |-> 0, write |-> "no"]]
  /\ UNCHANGED <<reader, backed, file>>

\* Health check, quorum read and payer.
CheckRoutes(p) ==
  /\ At(p, "health")
  /\ \/ Persist(p, "observe", evidence[p])
     \/ /\ evidence' = [evidence EXCEPT ![p].mode = "airdrop"]
        /\ job' = [job EXCEPT ![p] = [stage |-> "airdrop", attempt |-> 1, write |-> "due"]]
  /\ Elsewhere /\ UNCHANGED <<backed, file>>

\* useConfiguredFunding: the balances are put on record, then one is chosen.
UseWallet(p) ==
  /\ \/ At(p, "observe") /\ Persist(p, "choose", evidence[p])
     \/ At(p, "choose") /\ Persist(p, "funded", evidence[p])
  /\ Elsewhere /\ UNCHANGED <<backed, file>>

\* Mutant: one attempt too many.
AirdropTooOften(p) ==
  /\ At(p, "airdrop")
  /\ \/ /\ job[p].attempt <= Attempts[p] + 1
        /\ Persist(p, "await", evidence[p]) \/ NextAttempt(p)
     \/ job[p].attempt > Attempts[p] + 1 /\ GiveUp(p)
  /\ Elsewhere /\ UNCHANGED <<backed, file>>

\* requestAirdrop, at one route after the other.
Airdrop(p) ==
  /\ At(p, "airdrop")
  /\ \/ /\ job[p].attempt <= Attempts[p]
        /\ Persist(p, "await", evidence[p]) \/ NextAttempt(p)
     \/ job[p].attempt > Attempts[p] /\ GiveUp(p)
  /\ Elsewhere /\ UNCHANGED <<backed, file>>

\* waitForProviderConfirmation, until two operators confirm or time is up.
AwaitAirdrop(p) ==
  /\ At(p, "await")
  /\ \/ \E S \in SUBSET Routes :
          /\ Independent(S)
          /\ Record(p, job[p].attempt, S)
          /\ Persist(p, "funded", [evidence[p] EXCEPT !.funded = job[p].attempt])
     \/ NextAttempt(p) /\ UNCHANGED backed
  /\ Elsewhere /\ UNCHANGED file

\* The payer's balance and a finalized block hash are at hand; the memo is signed.
Sign(p) ==
  /\ At(p, "funded")
  /\ evidence' = [evidence EXCEPT ![p].signed = TRUE]
  /\ job' = [job EXCEPT ![p] = [stage |-> "broadcast", attempt |-> 0, write |-> "due"]]
  /\ Elsewhere /\ UNCHANGED <<backed, file>>

\* broadcastTransaction asks every route; those must be of two operators.
Broadcast(p) ==
  /\ At(p, "broadcast")
  /\ Independent(Routes)
  /\ Persist(p, "confirm", evidence[p])
  /\ Elsewhere /\ UNCHANGED <<backed, file>>

Confirm(p) ==
  /\ At(p, "confirm")
  /\ \E S \in SUBSET Routes :
       /\ Independent(S)
       /\ Record(p, 0, S)
       /\ Persist(p, "done", [evidence[p] EXCEPT !.status = "passed"])
  /\ Elsewhere /\ UNCHANGED file

\* Too few routes or lamports, no quorum, time-outs: whatever throws.
Throw(p) ==
  /\ job[p].write = "no"
  /\ job[p].stage \in {"health", "observe", "choose", "funded", "broadcast", "confirm"}
  /\ GiveUp(p)
  /\ Elsewhere /\ UNCHANGED <<backed, file>>

-----------------------------------------------------------------------------
(* Writes.                                                                 *)

\* writeFile empties the file before it fills it.
Truncate(p) ==
  /\ job[p].write = "due"
  /\ job' = [job EXCEPT ![p].write = "open"]
  /\ file' = [file EXCEPT ![p] = [kind |-> "partial"]]
  /\ Elsewhere /\ UNCHANGED <<evidence, backed>>

Complete(p) == file' = [file EXCEPT ![p] = evidence[p]]

Fill(p) ==
  /\ job[p].write = "open"
  /\ Complete(p)
  /\ IF job[p].stage = "ended" THEN Exit(p)
     ELSE job' = [job EXCEPT ![p].write = "no"] /\ UNCHANGED evidence
  /\ Elsewhere /\ UNCHANGED backed

\* Mutant: an error of writeFile goes unnoticed.
WriteFailsUnnoticed(p) ==
  /\ job[p].write # "no"
  /\ job' = [job EXCEPT ![p].write = "no"]
  /\ UNCHANGED file
  /\ Elsewhere /\ UNCHANGED <<evidence, backed>>

\* writeFile rejects, before, while or after it fills the file.  The catch of
\* an airdrop takes it for an unconfirmed attempt, the outer catch for the end
\* of the run; in the outer catch itself it ends the process.
WriteFails(p) ==
  /\ job[p].write # "no"
  /\ \/ UNCHANGED file
     \/ job[p].write = "open" /\ Complete(p)
  /\ CASE job[p].stage = "ended" -> Exit(p)
       [] job[p].stage = "funded" /\ job[p].attempt > 0 -> NextAttempt(p)
       [] OTHER -> GiveUp(p)
  /\ Elsewhere /\ UNCHANGED backed

\* The process is killed: the workflow has a time limit.  A write that is only
\* due leaves no trace, as if the step before it had not been taken.
Kill(p) ==
  /\ \/ job[p].write = "open"
     \/ job[p].write = "no" /\ job[p].stage \notin Resting
  /\ Exit(p)
  /\ Elsewhere /\ UNCHANGED <<backed, file>>

-----------------------------------------------------------------------------
(* The server.                                                             *)

\* The latest run of which an artifact is on disk.
Latest ==
  CHOOSE n \in 0..MaxRuns :
    /\ \A p \in Paths : file[p] \notin Unreadable => file[p].run <= n
    /\ n = 0 \/ \E p \in Paths : file[p] \notin Unreadable /\ file[p].run = n

\* loadEvidenceHistory: one file, and whatever is awaited before the next.  What
\* was on disk at the first is remembered for the properties.
Read(r) ==
  LET p == reader[r].next
  IN  /\ p \in Paths
      /\ reader' = [reader EXCEPT ![r].next = p + 1, ![r].got[p] = Sanitized(file[p]),
                                   ![r].known = IF p = 1 THEN Latest ELSE @]
      /\ UNCHANGED <<evidence, job, runs, backed, file>>

\* What of the files read becomes a record, and what an error.
Errors(got) == {p \in Paths : got[p] \in Unreadable}
Records(got) == Paths \ Errors(got)

\* The stable sort by time stamp, latest first, none as the earliest.
Before(got, p, q) ==
  got[p].run > got[q].run \/ (got[p].run = got[q].run /\ p < q)

\* Mutant: the records stay in the order of the paths.
ShownUnsorted(got, limit) ==
  {p \in Records(got) : Cardinality({q \in Records(got) : q < p}) < limit}

Shown(got, limit) ==
  {p \in Records(got) : Cardinality({q \in Records(got) : Before(got, q, p)}) < limit}

\* liveDevnetVerified
Verified(artifact) ==
  /\ artifact.status = "passed"
  /\ artifact.kind = "live-devnet"
  /\ artifact.own

Next ==
  \/ \E p \in Paths :
       \/ \E own \in BOOLEAN : Start(p, own)
       \/ CheckRoutes(p)
       \/ UseWallet(p)
       \/ Airdrop(p)
       \/ AwaitAirdrop(p)
       \/ Sign(p)
       \/ Broadcast(p)
       \/ Confirm(p)
       \/ Throw(p)
       \/ Truncate(p)
       \/ Fill(p)
       \/ WriteFails(p)
       \/ Kill(p)
  \/ \E r \in Readers : Read(r)

Spec == Init /\ [][Next]_vars

-----------------------------------------------------------------------------
(* What must hold.                                                         *)

Files == {file[p] : p \in Paths}
Answered(r) == reader[r].next > PathCount

\* Whatever failed, was retried or was killed on the way: an artifact that
\* says "passed" is of a run whose memo two operators confirmed, and one that
\* has a memo in airdrop mode is of a run whose recorded airdrop they confirmed.
EvidenceIsEarned ==
  \A a \in Files : a.kind = "live-devnet" =>
    /\ a.status = "passed" => [run |-> a.run, of |-> 0] \in backed
    /\ a.signed /\ a.mode = "airdrop" => [run |-> a.run, of |-> a.funded] \in backed

\* The overview claims a live proof on no artifact that is older than one that
\* was on disk when the first file was read - unless a file could not be read,
\* and then the answer says so.
SupersededIsNotShown ==
  \A r \in Readers : Answered(r) =>
    \A p \in Shown(reader[r].got, 1) : Verified(reader[r].got[p]) =>
      reader[r].got[p].run >= reader[r].known \/ Errors(reader[r].got) # {}

\* Every configured source is answered for: by a record, an error, or as many
\* newer records as were asked for.
SourcesAccounted ==
  \A r \in Readers : Answered(r) =>
    \A limit \in Limits, p \in Paths :
      LET got == reader[r].got
          shown == Shown(got, limit)
      IN  \/ p \in shown
          \/ got[p].kind \in {"absent", "partial"} /\ p \in Errors(got)
          \/ /\ got[p].kind \notin {"absent", "partial"}
             /\ \A q \in shown : got[q].run >= got[p].run
             /\ Cardinality(shown) = limit

\* A run that ends without an error leaves its own passed artifact behind,
\* whichever writes failed before.
ExitIsTrue ==
  \A p \in Paths : At(p, "done") =>
    file[p] = evidence[p] /\ file[p].status = "passed"
=============================================================================
