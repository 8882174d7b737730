----------------------------- MODULE PromptGate -----------------------------
(***************************************************************************)
(* What scripts/prompt-gate-validator.py asks of a published evaluation:   *)
(* it trusts no persisted verdict, resolves every reference of every row   *)
(* and attestation, recounts repairs, times and invocations, and scores    *)
(* the rows again.                                                         *)
(*                                                                         *)
(* A document is a record of the result's streams: rows, attestations,     *)
(* snapshot requests, snapshot results, input snapshots and the expected   *)
(* inputs of the evidence, with the environment it claims.  A trace record *)
(* carries the attempt <<row, index>> it was made by.  Headers, digests of *)
(* embedded artifacts and the source bundle are left out: they do not      *)
(* depend on how an evaluation went.                                       *)
(***************************************************************************)
EXTENDS PromptScore, Sequences, FiniteSetsExt, Functions

CONSTANT TimeLimit   \* TIMING_CEILING_NS, and the bound of a row's total

(* The schedule: per task the samples in order; odd samples run the parent *)
(* first, even ones the candidate.                                         *)
Last == 2 * SampleCount * Cardinality(Tasks)
TaskOf(i) == (i - 1) \div (2 * SampleCount) + 1
SampleOf(i) == ((i - 1) % (2 * SampleCount)) \div 2 + 1
ArmOf(i) == IF (i % 2 = 1) <=> (SampleOf(i) % 2 = 1) THEN "PARENT" ELSE "CANDIDATE"

\* The attempts of a row that ran, and of all rows.
RanIn(r) == {n \in DOMAIN r.attempts : r.attempts[n].ran}
Invocations(doc) == UNION {{i} \X RanIn(doc.rows[i]) : i \in DOMAIN doc.rows}
AttemptAt(doc, x) == doc.rows[x[1]].attempts[x[2]]
PassingTime(r) ==
  LET passing == {n \in RanIn(r) : r.attempts[n].status = "PASS"}
  IN  IF passing = {} THEN 0
      ELSE SumFunctionOnSet([n \in DOMAIN r.attempts |-> r.attempts[n].time],
                            {n \in RanIn(r) : n <= Min(passing)})

\* validate_snapshot_closure: everything observed is a MATCH in the claimed
\* environment, and the attestations are the rows', complete, without drift,
\* and name persisted records.
SnapshotClosure(doc) ==
  /\ \A r \in doc.results : r.status = "MATCH" /\ r.world.env = doc.environment
  /\ Len(doc.attested) = Len(doc.rows)
  /\ \A i \in DOMAIN doc.attested :
       LET a == doc.attested[i]
       IN  /\ a.of[1] = i /\ a.status = "COMPLETE"
           /\ Cardinality(a.results) = 1 /\ Cardinality(a.inputs) = 1
           /\ a.of \in doc.requests
           /\ a.results \subseteq doc.results /\ a.inputs \subseteq doc.inputs

\* validate_attempt_traces: request, both observations and input snapshot of
\* an attempt are persisted, and the two observations are the same.
AttemptTraces(doc, x) ==
  LET seen == AttemptAt(doc, x)
  IN  /\ seen.before = seen.after
      /\ x \in doc.requests
      /\ [of |-> x, status |-> "MATCH", world |-> seen.before] \in doc.results
      /\ [of |-> x, world |-> seen.before] \in doc.inputs

\* validate_attempt_record: a skipped attempt is a repair without a run, one
\* that ran took a time within the ceiling.
AttemptRecord(doc, i, n) ==
  LET a == doc.rows[i].attempts[n]
  IN  IF a.ran THEN a.status \in Statuses /\ a.time \in 1..TimeLimit /\ AttemptTraces(doc, <<i, n>>)
      ELSE n # 1 /\ a.time = 0 /\ a.status = "SKIPPED"

\* validate_attempts: at most the admitted repairs, recounted; the row's
\* measurement is that of the last attempt that ran, its time the sum through
\* the first that passed.
AttemptsOf(doc, i) ==
  LET r == doc.rows[i]
  IN  /\ Len(r.attempts) \in 1..(1 + RepairLimit)
      /\ \A n \in DOMAIN r.attempts : AttemptRecord(doc, i, n)
      /\ r.repairs = Cardinality(RanIn(r) \ {1}) /\ r.repairs <= RepairLimit
      /\ RanIn(r) # {} /\ r.status = r.attempts[Max(RanIn(r))].status
      /\ r.time = PassingTime(r) /\ r.time <= TimeLimit

\* validate_corpus_coverage: every task was observed, and no more inputs were
\* observed than invocations ran.
CorpusCoverage(doc) ==
  /\ \A t \in Tasks : \E s \in doc.inputs : TaskOf(s.of[1]) = t
  /\ Cardinality(doc.inputs) <= Cardinality(Invocations(doc))

\* One expected input for every attempt that ran, and no other.
ExpectedInputs(doc) == doc.expected = Invocations(doc)

Scored(r) ==
  [status |-> r.status, time |-> r.time, over |-> FALSE, repairs |-> r.repairs,
   build |-> IF r.status = "POLICY_VIOLATION" THEN "FAIL" ELSE "PASS",
   test |-> IF r.status = "PASS" THEN "PASS" ELSE "FAIL"]
ArmRows(doc, arm) ==
  [x \in Trials |->
     Scored(doc.rows[CHOOSE i \in 1..Last : TaskOf(i) = x[1] /\ SampleOf(i) = x[2] /\ ArmOf(i) = arm])]

\* rescore: the schedule is complete and gives the same verdict again.
Rescored(doc) ==
  /\ Len(doc.rows) = Last
  /\ Verdict(ArmRows(doc, "PARENT"), ArmRows(doc, "CANDIDATE")) = doc.status

\* validate_evaluation_pair, for a document that claims an improvement.
Admits(doc) ==
  /\ doc.status = "IMPROVED" /\ doc.code = "NONE"
  /\ CorpusCoverage(doc)
  /\ SnapshotClosure(doc)
  /\ \A i \in DOMAIN doc.rows : AttemptsOf(doc, i)
  /\ ExpectedInputs(doc)
  /\ Rescored(doc)
=============================================================================
