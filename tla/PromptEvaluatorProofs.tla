----------------------- MODULE PromptEvaluatorProofs -----------------------
(***************************************************************************)
(* What holds at every step of an evaluation, for every corpus, number of  *)
(* samples, duration and number of changes of the world, and what follows  *)
(* of the result it publishes.                                             *)
(***************************************************************************)
EXTENDS PromptEvaluator, FiniteSetTheorems, WellFoundedInduction, TLAPS

Early == {"admit", "trust", "membership", "preflight", "seeds"}
Seeing == {"baseline", "launch", "adapter", "after", "drift", "record", "repair", "close"}
Running == {"prepare", "before"} \cup Seeing
Ending == {"finish", "emit", "escape", "done"}

Attempts == (1..Last) \X {1, 2}
Results == [of : Attempts, status : Snapshots, world : Seen]
InputRecords == [of : Attempts, world : Seen]

Measured ==
  [status : Statuses \cup {"ERROR", "none"}, time : Nat, repairable : BOOLEAN, clean : BOOLEAN]

Tried ==
  [ran : BOOLEAN, status : Statuses \cup {"ERROR", "SKIPPED"}, time : Nat,
   before : Seen, after : Seen]

Rows ==
  [attempts : Seq(Tried), status : Statuses \cup {"ERROR", "SKIPPED"}, time : Nat,
   repairs : {0, 1}]

Attestations ==
  [of : Attempts,
   status : {"COMPLETE", "PRECHECK_FAILED", "PRECHECK_DRIFT", "ADAPTER_FAILED",
             "POSTCHECK_FAILED", "POSTCHECK_DRIFT"},
   results : SUBSET Results, inputs : SUBSET InputRecords]

Traces ==
  [requests : SUBSET Attempts, results : SUBSET Results, inputs : SUBSET InputRecords,
   expected : SUBSET Attempts]

Codes ==
  {"none", "NONE", "INVALID_PATH", "INVALID_SCHEMA", "MISSING_CREDENTIAL", "CLEANUP_FAILED",
   "SNAPSHOT_ERROR", "WORKSPACE_UNSAFE", "ARITHMETIC", "SNAPSHOT_MISMATCH",
   "ENVIRONMENT_DRIFT", "INPUT_DRIFT", "ADAPTER_RESULT", "ADAPTER_TIMEOUT",
   "ADAPTER_PROCESS_OUTPUT", "REPAIR_RENDER", "TIMING", "RESULT_TOO_LARGE"}

Endings ==
  [status : Verdicts \cup {"none", "ERROR"}, code : Codes, cut : BOOLEAN, diagnosed : BOOLEAN]

\* The files: the evaluator owns what it wrote, and nothing else.
FilesInv ==
  /\ files \in [Files -> {"none", "ours", "other"}]
  /\ owned = {f \in Files : files[f] = "ours"}

TypesInv ==
  /\ pc \in Early \cup Running \cup {"next"} \cup Ending
  /\ at \in 1..Last /\ attempt \in {1, 2}
  /\ world \in Worlds /\ probed \in {0, 1, 9} /\ baseline \in Seen /\ childLeft \in BOOLEAN
  /\ before \in Results \cup {NoResult} /\ after \in Results \cup {NoResult}
  /\ measured \in Measured
  /\ tries \in Seq(Tried) /\ rows \in Seq(Rows)
  /\ attested \in Seq(Attestations) /\ trace \in Traces
  /\ ending \in Endings
  /\ outcome.exit \in {0, 2, 3, 9}
  /\ outcome.status \in Verdicts \cup {"none", "ERROR"} /\ outcome.code \in Codes

\* How far the streams are, at each place.
Lengths(code) ==
  /\ Len(attested) - Len(rows) \in {0, 1}
  /\ code = "CLEANUP_FAILED" => Len(attested) = Len(rows)

PlaceInv ==
  /\ pc \in Early =>
       /\ at = 1 /\ attempt = 1 /\ baseline = None
       /\ tries = <<>> /\ rows = <<>> /\ attested = <<>> /\ trace = NoTrace
  /\ pc \in Running => Len(rows) = at - 1 /\ Len(attested) = at - 1
  /\ pc = "next" => Len(rows) = at /\ Len(attested) = at
  /\ pc = "finish" =>
       /\ Len(attested) \in {at - 1, at} /\ Len(rows) \in {at - 1, at}
       /\ Len(rows) <= Len(attested)
       /\ ~ending.cut => Len(rows) = at
       /\ ending.code = "CLEANUP_FAILED" => ending.diagnosed
  /\ pc = "emit" => Lengths(ending.code)
  /\ pc = "done" => Lengths(outcome.code)

\* Nothing is left behind where a score may still come.
QuietInv ==
  /\ pc \notin Ending => ~childLeft
  /\ pc \in {"finish", "emit"} /\ ending.status \in Verdicts => ~childLeft
  /\ pc = "emit" /\ ending.status \in Verdicts => owned = {}
  /\ pc = "done" /\ outcome.status \in Verdicts => ~childLeft
  /\ pc = "done" /\ (outcome.exit = 2 \/ outcome.status \in Verdicts) => owned = {}

\* What the attempt has seen is in the streams.
SeenInv ==
  /\ pc \in {"before", "baseline", "launch", "adapter", "after"} => after = NoResult
  /\ pc = "before" => before = NoResult
  /\ pc \in Seeing =>
       /\ before.of = Id /\ before.status = "MATCH" /\ before.world \in Worlds
       /\ before \in trace.results /\ Id \in trace.requests
       /\ Input(before.world) \in trace.inputs
  /\ pc \in Seeing \ {"baseline"} => baseline = before.world
  /\ pc \in {"drift", "record", "repair", "close"} =>
       /\ after.of = Id /\ after.status = "MATCH" /\ after.world \in Worlds
       /\ after \in trace.results
  /\ pc \in {"record", "repair", "close"} => after = before
  /\ pc \in {"after", "drift", "record", "repair", "close"} => measured \in Measurements

\* An attempt that ran is asked for, expected and observed, twice the same.
Backed(x, t) ==
  /\ x \in trace.requests /\ x \in trace.expected
  /\ t.before = t.after /\ t.before \in Worlds
  /\ [of |-> x, status |-> "MATCH", world |-> t.before] \in trace.results
  /\ [of |-> x, world |-> t.before] \in trace.inputs

TriesInv ==
  /\ pc \in Running \ {"repair", "close"} =>
       Len(tries) = attempt - 1 /\ \A n \in DOMAIN tries : tries[n].ran
  /\ pc = "repair" => Len(tries) = attempt /\ \A n \in DOMAIN tries : tries[n].ran
  /\ pc = "close" =>
       \/ Len(tries) = attempt /\ \A n \in DOMAIN tries : tries[n].ran
       \/ attempt = 1 /\ Len(tries) = 2 /\ tries[1].ran /\ ~tries[2].ran
  /\ pc \in Running =>
       \A n \in DOMAIN tries :
         tries[n].ran => Backed(<<at, n>>, tries[n]) /\ tries[n].before = baseline

RowBacked(i, r) == \A n \in DOMAIN r.attempts : r.attempts[n].ran => Backed(<<i, n>>, r.attempts[n])
SawIt(r, w) == \A n \in DOMAIN r.attempts : r.attempts[n].ran => r.attempts[n].before = w

\* All attempts of a task saw the same, and the one that runs must see it too.
RowsInv ==
  /\ \A i \in DOMAIN rows : RowBacked(i, rows[i])
  /\ \A i, j \in DOMAIN rows : TaskOf(i) = TaskOf(j) =>
       \A n \in DOMAIN rows[i].attempts :
         rows[i].attempts[n].ran => SawIt(rows[j], rows[i].attempts[n].before)
  /\ pc \in Running \cup {"next"} =>
       \A i \in DOMAIN rows : TaskOf(i) = TaskOf(at) => SawIt(rows[i], baseline)

\* An attestation names what its own invocation saw, and the streams have it.
Fits(i, a) ==
  /\ a.of[1] = i /\ a.of \in trace.requests
  /\ a.results \subseteq trace.results /\ a.inputs \subseteq trace.inputs
  /\ \A r \in a.results \cup a.inputs : r.of[1] = i

Single(a) == (\E r : a.results = {r}) /\ (\E r : a.inputs = {r})

AttestedInv ==
  /\ \A i \in DOMAIN attested : Fits(i, attested[i])
  /\ pc # "escape" => Len(rows) <= Len(attested)
  /\ \A i \in DOMAIN rows : i \in DOMAIN attested =>
       attested[i].status = "COMPLETE" /\ Single(attested[i])

\* How long the attempts took together.
TotalOf(tried) == IF Len(tried) = 1 THEN tried[1].time ELSE tried[1].time + tried[2].time

\* What the attempts of an invocation may look like: one that ran, or one that
\* failed and its repair, which ran too or was skipped.
Shaped(tried, n) ==
  /\ Len(tried) \in {1, 2} /\ n \in {1, 2} /\ n <= Len(tried)
  /\ tried[1].ran
  /\ Len(tried) = 2 => /\ RepairLimit = 1 /\ tried[1].status = "FAIL"
                       /\ IF n = 2 THEN tried[2].ran ELSE tried[2] = Skipped

RanWell(tried) ==
  \A k \in DOMAIN tried : tried[k].ran => tried[k].status \in Statuses \cup {"ERROR"} /\ tried[k].time >= 1

RowShaped(r) ==
  /\ Shaped(r.attempts, r.repairs + 1) /\ RanWell(r.attempts)
  /\ r.status = r.attempts[r.repairs + 1].status
  /\ r.time = IF r.status = "PASS" THEN TotalOf(r.attempts) ELSE 0
  /\ r.time <= TimeLimit

\* The evaluation goes on, or it ended with a score.
Scoring ==
  \/ pc \in {"finish", "emit"} /\ ending.status \in Verdicts
  \/ pc = "done" /\ outcome.status \in Verdicts

Live == pc \in Running \cup {"next"} \/ Scoring

ShapeInv ==
  /\ pc \in Running /\ attempt = 2 => tries[1].status = "FAIL" /\ RepairLimit = 1
  /\ pc \in Running => RanWell(tries)
  /\ pc = "repair" => tries[attempt].status = measured.status
  /\ pc = "close" => Shaped(tries, attempt)
  /\ \A i \in DOMAIN rows : RowShaped(rows[i])
  /\ Live => \A i \in DOMAIN rows : rows[i].status # "ERROR"

\* What the streams hold is of an attempt of a row, of an attempt that ended, or
\* of the one that runs.
Accounted(x, w) ==
  \/ \E i \in DOMAIN rows : \E n \in DOMAIN rows[i].attempts :
       x = <<i, n>> /\ rows[i].attempts[n].ran /\ rows[i].attempts[n].before = w
  \/ /\ pc \in Running
     /\ \E n \in DOMAIN tries : x = <<at, n>> /\ tries[n].ran /\ tries[n].before = w

ExactInv ==
  Live =>
    /\ \A r \in trace.results :
         r.status = "MATCH" /\ (Accounted(r.of, r.world) \/ (pc \in Seeing /\ r \in {before, after}))
    /\ \A s \in trace.inputs : Accounted(s.of, s.world) \/ (pc \in Seeing /\ s = Input(before.world))
    /\ \A x \in trace.expected : \E w \in Worlds : Accounted(x, w)

\* A score is the verdict on the rows of the whole schedule.
Arm(name) ==
  [x \in Trials |->
     Scored(rows[CHOOSE i \in 1..Last : TaskOf(i) = x[1] /\ SampleOf(i) = x[2] /\ ArmOf(i) = name])]

ScoreInv ==
  Scoring =>
    /\ Len(rows) = Last /\ Len(attested) = Last
    /\ pc # "done" => /\ ending.status = Verdict(Arm("PARENT"), Arm("CANDIDATE")) /\ ending.code = "NONE"
                      /\ ~ending.diagnosed
    /\ pc = "done" => outcome.status = Verdict(Arm("PARENT"), Arm("CANDIDATE")) /\ outcome.code = "NONE"

EvaluatorInv ==
  /\ FilesInv /\ TypesInv /\ PlaceInv /\ QuietInv
  /\ SeenInv /\ TriesInv /\ RowsInv /\ AttestedInv
  /\ ShapeInv /\ ExactInv /\ ScoreInv
-----------------------------------------------------------------------------
(* Files.                                                                  *)

OthersStay == \A f \in Files : files[f] = "other" => files'[f] = "other"

LEMMA RetireKeeps ==
  ASSUME FilesInv, NEW set, NEW stuck, Retires(set, stuck)
  PROVE  FilesInv' /\ OthersStay /\ (stuck = {} => owned' = owned \ set)
<1>1. \A f \in Files : files'[f] = IF f \in (set \cap owned) \ stuck THEN "none" ELSE files[f]
  BY DEF Retires
<1>2. files' \in [Files -> {"none", "ours", "other"}]
  BY DEF Retires, FilesInv
<1>3. owned' = {f \in Files : files'[f] = "ours"}
  BY <1>1 DEF Retires, FilesInv
<1>4. OthersStay
  BY <1>1 DEF OthersStay, FilesInv
<1> QED BY <1>2, <1>3, <1>4 DEF FilesInv, Retires

LEMMA ObserveKeeps ==
  ASSUME FilesInv, NEW status, Observes(status)
  PROVE  FilesInv' /\ OthersStay
BY DEF Observes, FilesInv, OthersStay, Files, Workspace, Inputs

LEMMA FilesKept ==
  ASSUME FilesInv, [Next]_vars
  PROVE  FilesInv' /\ OthersStay
<1> DEFINE Goal == FilesInv' /\ OthersStay
<1>0. UNCHANGED <<files, owned>> => Goal
  BY DEF FilesInv, OthersStay
<1>1. ASSUME Prepare PROVE Goal
  <2>1. PICK written \in {{}, {"variant"}, {"variant", "rendered"}, Inputs} :
          /\ \A f \in written : files[f] = "none"
          /\ files' = [f \in Files |-> IF f \in written THEN "ours" ELSE files[f]]
          /\ owned' = owned \cup written
    BY <1>1 DEF Prepare
  <2> QED BY <2>1 DEF FilesInv, OthersStay, Files, Workspace, Inputs
<1>2. ASSUME BeforeSnapshot \/ AfterSnapshot PROVE Goal
  <2>1. PICK status : Observes(status)
    BY <1>2 DEF BeforeSnapshot, AfterSnapshot
  <2> QED BY <2>1, ObserveKeeps
<1>3. ASSUME CheckBaseline PROVE Goal
  BY <1>0, <1>3, RetireKeeps DEF CheckBaseline
<1>4. ASSUME Launch PROVE Goal
  BY <1>4 DEF Launch, FilesInv, OthersStay, Files, Workspace
<1>5. ASSUME AdapterEnds PROVE Goal
  BY <1>0, <1>5, RetireKeeps DEF AdapterEnds
<1>6. ASSUME CheckAfter PROVE Goal
  BY <1>0, <1>6, RetireKeeps DEF CheckAfter
<1>7. ASSUME Finish PROVE Goal
  BY <1>7, RetireKeeps DEF Finish
<1>8. ASSUME Escape PROVE Goal
  BY <1>8, RetireKeeps DEF Escape
<1>9. ASSUME WorldChanges PROVE Goal
  BY <1>9 DEF WorldChanges, FilesInv, OthersStay, Files, Workspace
<1>10. ASSUME \/ RequestRejected \/ InputsRejected \/ InputsAdmitted \/ SourceTrust
              \/ SourceMembership \/ Preflight \/ SeedArithmetic
       PROVE  Goal
  BY <1>0, <1>10 DEF RequestRejected, InputsRejected, InputsAdmitted, SourceTrust,
     SourceMembership, Preflight, SeedArithmetic, inputVars
<1>11. ASSUME \/ RecordAttempt \/ Repair \/ CloseRow \/ NextRow \/ Score \/ Emit
              \/ UNCHANGED vars
       PROVE  Goal
  BY <1>0, <1>11 DEF RecordAttempt, Repair, CloseRow, NextRow, Score, Emit, vars, inputVars
<1> QED BY <1>1, <1>2, <1>3, <1>4, <1>5, <1>6, <1>7, <1>8, <1>9, <1>10, <1>11 DEF Next, Step
-----------------------------------------------------------------------------
(* Types.                                                                  *)
LEMMA LastIsThere ==
  /\ Cardinality(Tasks) \in Nat \ {0} /\ SampleCount \in Nat \ {0}
  /\ Last \in Nat \ {0} /\ Last = 2 * SampleCount * Cardinality(Tasks)
<1>1. IsFiniteSet(Tasks) /\ Tasks # {} /\ SampleCount \in Nat \ {0}
  BY ScoreAssumption
<1>2. Cardinality(Tasks) \in Nat /\ Cardinality(Tasks) # 0
  BY <1>1, FS_CardinalityType, FS_EmptySet
<1>3. \A a, b \in Nat \ {0} : 2 * a * b \in Nat \ {0}
  <2> SUFFICES ASSUME NEW a \in Nat \ {0}, NEW b \in Nat \ {0} PROVE 2 * a * b \in Nat \ {0}
    OBVIOUS
  <2>1. a * b \in Nat /\ a * b >= a
    BY SMT
  <2> QED BY <2>1, SMT
<1> QED BY <1>1, <1>2, <1>3 DEF Last

LEMMA IdTyped == TypesInv => Id \in Attempts
BY DEF TypesInv, Attempts, Id

LEMMA AttestTyped ==
  ASSUME TypesInv, before' \in Results \cup {NoResult}, after' \in Results \cup {NoResult},
         NEW status \in {"PRECHECK_FAILED", "PRECHECK_DRIFT", "ADAPTER_FAILED",
                         "POSTCHECK_FAILED", "POSTCHECK_DRIFT"},
         Attests(status)
  PROVE  attested' \in Seq(Attestations)
<1> DEFINE results == {r \in {before', after'} : r.status # "none"}
           inputs == IF status = "PRECHECK_FAILED" THEN {}
                     ELSE {Input(r.world) : r \in {s \in {before', after'} : s.status = "MATCH"}}
           new == [of |-> Id, status |-> status, results |-> results, inputs |-> inputs]
<1>1. results \subseteq Results
  BY DEF NoResult
<1>2. ASSUME NEW r \in {before', after'}, r.status = "MATCH" PROVE Input(r.world) \in InputRecords
  BY <1>2, IdTyped DEF Results, NoResult, Input, InputRecords
<1>3. inputs \subseteq InputRecords
  BY <1>2
<1>4. new \in Attestations
  <2> HIDE DEF results, inputs
  <2> QED BY <1>1, <1>3, IdTyped DEF Attestations
<1>5. attested' = Append(attested, new)
  BY DEF Attests
<1> QED BY <1>4, <1>5 DEF TypesInv

LEMMA ObservedTyped ==
  ASSUME TypesInv, NEW status \in Snapshots
  PROVE  /\ Observed(status) \in Results /\ Observed(status).of = Id
         /\ Observed(status).status = status
         /\ status = "MATCH" => Observed(status).world = world
BY IdTyped DEF Observed, Result, Results, TypesInv, Seen

LEMMA TraceOfThree ==
  ASSUME NEW t \in Traces, NEW a \in SUBSET Attempts, NEW b \in SUBSET Results, NEW c
  PROVE  [t EXCEPT !.requests = a, !.results = b, !.inputs = c]
         = [requests |-> a, results |-> b, inputs |-> c, expected |-> t.expected]
<1> DEFINE t1 == [t EXCEPT !.requests = a]
           t2 == [t1 EXCEPT !.results = b]
           t3 == [t2 EXCEPT !.inputs = c]
<1>1. [t EXCEPT !.requests = a, !.results = b, !.inputs = c] = t3
  OBVIOUS
<1>2. t1 = [requests |-> a, results |-> t.results, inputs |-> t.inputs, expected |-> t.expected]
  BY DEF Traces
<1> HIDE DEF t1
<1>3. t1 \in Traces
  BY <1>2 DEF Traces
<1>4. t2 = [requests |-> a, results |-> b, inputs |-> t.inputs, expected |-> t.expected]
  BY <1>2, <1>3 DEF Traces
<1> HIDE DEF t2
<1>5. t2 \in Traces
  BY <1>4 DEF Traces
<1>6. t3 = [requests |-> a, results |-> b, inputs |-> c, expected |-> t.expected]
  BY <1>4, <1>5 DEF Traces
<1> HIDE DEF t3
<1> QED BY <1>1, <1>6

LEMMA TraceOfOne ==
  ASSUME NEW t \in Traces, NEW b
  PROVE  /\ [t EXCEPT !.results = b] =
              [requests |-> t.requests, results |-> b, inputs |-> t.inputs, expected |-> t.expected]
         /\ [t EXCEPT !.inputs = b] =
              [requests |-> t.requests, results |-> t.results, inputs |-> b, expected |-> t.expected]
         /\ [t EXCEPT !.expected = b] =
              [requests |-> t.requests, results |-> t.results, inputs |-> t.inputs, expected |-> b]
BY DEF Traces

\* How an evaluation may be about to end.
AbortsAs(code) ==
  /\ pc' = "finish" /\ ending' \in Endings
  /\ ending'.status = "ERROR" /\ ending'.code = code
  /\ ending'.cut /\ (code = "CLEANUP_FAILED" => ending'.diagnosed)

LEMMA EndsTyped ==
  ASSUME NEW status \in Verdicts \cup {"ERROR"}, NEW code \in Codes, NEW cut \in BOOLEAN,
         NEW diagnosed \in BOOLEAN, Ends(status, code, cut, diagnosed)
  PROVE  /\ pc' = "finish" /\ ending' \in Endings
         /\ ending'.status = status /\ ending'.code = code
         /\ ending'.cut = cut /\ ending'.diagnosed = diagnosed
<1>1. ending' = [status |-> status, code |-> code, cut |-> cut, diagnosed |-> diagnosed]
  BY DEF Ends
<1> QED BY <1>1 DEF Ends, Endings

LEMMA AbortsTyped ==
  ASSUME NEW code \in Codes, Aborts(code)
  PROVE  AbortsAs(code)
<1> DEFINE cut == TRUE
           diagnosed == code = "CLEANUP_FAILED"
<1>1. Ends("ERROR", code, cut, diagnosed)
  BY Zenon DEF Aborts
<1>2. cut \in BOOLEAN /\ diagnosed \in BOOLEAN /\ cut /\ (code = "CLEANUP_FAILED" => diagnosed)
  OBVIOUS
<1> HIDE DEF cut, diagnosed
<1> QED BY <1>1, <1>2, EndsTyped DEF AbortsAs

LEMMA ReturnsTyped ==
  ASSUME NEW code \in Codes, Returns(code)
  PROVE  /\ pc' = "emit" /\ ending' \in Endings
         /\ ending'.status = "ERROR" /\ ending'.code = code
<1> DEFINE cut == FALSE
<1>1. pc' = "emit" /\ ending' = [status |-> "ERROR", code |-> code, cut |-> cut, diagnosed |-> cut]
  BY Zenon DEF Returns
<1>2. cut \in BOOLEAN
  OBVIOUS
<1> HIDE DEF cut
<1> QED BY <1>1, <1>2 DEF Endings

LEMMA CodesOfFailures ==
  /\ \A status \in Snapshots \ {"MATCH"} :
       /\ SnapshotCode(status) \in Codes
       /\ SnapshotCode(status) = "CLEANUP_FAILED" <=> status = "CLEANUP"
  /\ \A seen : DriftCode(seen) \in Codes /\ DriftCode(seen) # "CLEANUP_FAILED"
<1>1. /\ SnapshotCode("MISMATCH") = "SNAPSHOT_MISMATCH"
      /\ SnapshotCode("INTERNAL") = "SNAPSHOT_ERROR"
      /\ SnapshotCode("CLEANUP") = "CLEANUP_FAILED"
  BY DEF SnapshotCode
<1>2. Snapshots \ {"MATCH"} = {"MISMATCH", "INTERNAL", "CLEANUP"}
  BY DEF Snapshots
<1>3. \A seen : DriftCode(seen) \in {"ENVIRONMENT_DRIFT", "INPUT_DRIFT", "NONE"}
  BY DEF DriftCode
<1> QED BY <1>1, <1>2, <1>3 DEF Codes

\* An error inside an attempt.
LEMMA EscapesTyped ==
  ASSUME EscapesAttempt
  PROVE  \/ pc' = "escape" /\ UNCHANGED ending
         \/ attempt # 1 /\ AbortsAs("REPAIR_RENDER")
<1>1. "REPAIR_RENDER" \in Codes
  BY DEF Codes
<1> QED BY <1>1, AbortsTyped DEF EscapesAttempt, Escapes
-----------------------------------------------------------------------------
(* Sums of one or two, and greatest elements.                              *)
LEMMA MaxIs ==
  ASSUME NEW S, NEW m \in S, S \subseteq Int, \A k \in S : k <= m
  PROVE  Max(S) = m
<1>1. \E x \in S : \A y \in S : x >= y
  OBVIOUS
<1>2. Max(S) \in S /\ \A y \in S : Max(S) >= y
  BY <1>1 DEF Max
<1>3. \A v \in S : (\A y \in S : v >= y) => v = m
  OBVIOUS
<1> QED BY <1>2, <1>3, Zenon

LEMMA MinIs ==
  ASSUME NEW S, NEW m \in S, S \subseteq Int, \A k \in S : m <= k
  PROVE  Min(S) = m
<1>1. \E x \in S : \A y \in S : x =< y
  OBVIOUS
<1>2. Min(S) \in S /\ \A y \in S : Min(S) =< y
  BY <1>1 DEF Min
<1>3. \A v \in S : (\A y \in S : v =< y) => v = m
  OBVIOUS
<1> QED BY <1>2, <1>3, Zenon

\* The fold of a sum over a set is the function that its definition describes,
\* where there is one.
Unfolds(g, f, S) ==
  g = [s \in SUBSET S |->
         IF s = {} THEN 0
         ELSE LET x == CHOOSE x \in s : TRUE IN f[x] + g[s \ {x}]]

LEMMA SumUnfolds ==
  ASSUME NEW f, NEW S, NEW h, Unfolds(h, f, S)
  PROVE  \E g : Unfolds(g, f, S) /\ SumFunctionOnSet(f, S) = g[S]
<1> DEFINE g == CHOOSE g : Unfolds(g, f, S)
<1>1. Unfolds(g, f, S)
  OBVIOUS
<1>2. SumFunctionOnSet(f, S) = g[S]
  BY DEF SumFunctionOnSet, FoldFunctionOnSet, MapThenFoldSet, Unfolds
<1> QED BY <1>1, <1>2

LEMMA SumOfOne ==
  ASSUME NEW f, NEW a, f[a] \in Nat
  PROVE  SumFunctionOnSet(f, {a}) = f[a]
<1> DEFINE h == [s \in SUBSET {a} |-> IF s = {} THEN 0 ELSE f[a]]
<1>1. Unfolds(h, f, {a})
  BY DEF Unfolds
<1>2. PICK g : Unfolds(g, f, {a}) /\ SumFunctionOnSet(f, {a}) = g[{a}]
  BY <1>1, SumUnfolds
<1>3. g[{}] = 0 /\ g[{a}] = f[a] + g[{}]
  BY <1>2 DEF Unfolds
<1> QED BY <1>2, <1>3

LEMMA SumOfTwo ==
  ASSUME NEW f, NEW a, NEW b, a # b, f[a] \in Nat, f[b] \in Nat
  PROVE  SumFunctionOnSet(f, {a, b}) = f[a] + f[b]
<1> DEFINE h == [s \in SUBSET {a, b} |->
                   (IF a \in s THEN f[a] ELSE 0) + (IF b \in s THEN f[b] ELSE 0)]
<1>1. Unfolds(h, f, {a, b})
  <2>1. ASSUME NEW s \in SUBSET {a, b}, s # {}
        PROVE  LET x == CHOOSE x \in s : TRUE IN h[s] = f[x] + h[s \ {x}]
    <3> DEFINE x == CHOOSE x \in s : TRUE
    <3> SUFFICES h[s] = f[x] + h[s \ {x}]
      OBVIOUS
    <3>1. x \in s
      BY <2>1
    <3>2. s \ {x} \in SUBSET {a, b}
      OBVIOUS
    <3>5. h[s] = (IF a \in s THEN f[a] ELSE 0) + (IF b \in s THEN f[b] ELSE 0)
      OBVIOUS
    <3>6. h[s \ {x}] = (IF a \in s \ {x} THEN f[a] ELSE 0) + (IF b \in s \ {x} THEN f[b] ELSE 0)
      BY <3>2
    <3> HIDE DEF h, x
    <3>3. CASE x = a
      BY <3>1, <3>3, <3>5, <3>6
    <3>4. CASE x = b
      BY <3>1, <3>4, <3>5, <3>6
    <3> QED BY <3>1, <3>3, <3>4
  <2>2. h[{}] = 0
    OBVIOUS
  <2>3. \A s \in SUBSET {a, b} :
          h[s] = IF s = {} THEN 0 ELSE LET x == CHOOSE x \in s : TRUE IN f[x] + h[s \ {x}]
    <3> HIDE DEF h
    <3> QED BY <2>1, <2>2, Zenon
  <2>4. h = [s \in SUBSET {a, b} |-> h[s]]
    OBVIOUS
  <2> HIDE DEF h
  <2> QED BY <2>3, <2>4, Zenon DEF Unfolds
<1>2. PICK g : Unfolds(g, f, {a, b}) /\ SumFunctionOnSet(f, {a, b}) = g[{a, b}]
  BY <1>1, SumUnfolds
<1>3. g[{}] = 0 /\ g[{a}] = f[a] + g[{}] /\ g[{b}] = f[b] + g[{}]
  BY <1>2 DEF Unfolds
<1>4. \/ g[{a, b}] = f[a] + g[{b}]
      \/ g[{a, b}] = f[b] + g[{a}]
  <2> DEFINE x == CHOOSE x \in {a, b} : TRUE
  <2>1. x = a \/ x = b
    <3>1. \E y : y \in {a, b}
      OBVIOUS
    <3> QED BY <3>1, Zenon
  <2>2. {a, b} \ {a} = {b} /\ {a, b} \ {b} = {a}
    OBVIOUS
  <2>3. g[{a, b}] = f[x] + g[{a, b} \ {x}]
    BY <1>2 DEF Unfolds
  <2> HIDE DEF x
  <2> QED BY <2>1, <2>2, <2>3
<1> QED BY <1>2, <1>3, <1>4

\* A finite set of numbers has a greatest one: a smallest subset without one
\* would lose it with any of its members.
HasGreatest(s) == \E m \in s : \A k \in s : k <= m

LEMMA GreatestIsThere ==
  ASSUME NEW D, IsFiniteSet(D), D # {}, D \subseteq Nat
  PROVE  HasGreatest(D)
<1> DEFINE without == {s \in SUBSET D : s # {} /\ ~HasGreatest(s)}
<1>1. IsWellFoundedOn(StrictSubsetOrdering(D), SUBSET D)
  BY FS_StrictSubsetOrderingWellFounded, FS_FiniteSubsetsOfFinite
<1>2. SUFFICES ASSUME without # {} PROVE FALSE
  OBVIOUS
<1>3. PICK s \in without : \A t \in without : ~ (<<t, s>> \in StrictSubsetOrdering(D))
  <2>1. without \subseteq SUBSET D
    OBVIOUS
  <2> HIDE DEF without
  <2> QED BY <1>1, <1>2, <2>1, WFMin
<1>4. PICK x \in s : TRUE
  BY <1>3
<1>5. s \ {x} \notin without
  <2>1. s \ {x} \subseteq s /\ s \ {x} # s /\ s \subseteq D
    BY <1>4
  <2>2. <<s \ {x}, s>> \in StrictSubsetOrdering(D)
    BY <2>1 DEF StrictSubsetOrdering
  <2> HIDE DEF without
  <2> QED BY <1>3, <2>2
<1>6. s \subseteq Nat /\ ~HasGreatest(s)
  OBVIOUS
<1>7. CASE s \ {x} = {}
  BY <1>4, <1>6, <1>7 DEF HasGreatest
<1>8. CASE s \ {x} # {}
  <2>1. HasGreatest(s \ {x})
    BY <1>5, <1>8
  <2>2. PICK m \in s \ {x} : \A k \in s \ {x} : k <= m
    BY <2>1 DEF HasGreatest
  <2>3. \A k \in s : k <= IF x <= m THEN m ELSE x
    BY <1>4, <1>6, <2>2
  <2> QED BY <1>4, <1>6, <2>2, <2>3 DEF HasGreatest
<1> QED BY <1>7, <1>8

LEMMA CloseIs ==
  ASSUME TypesInv, TriesInv, pc = "close"
  PROVE  /\ attempt \in DOMAIN tries /\ tries[attempt].ran
         /\ {n \in DOMAIN tries : tries[n].ran} = 1..attempt
         /\ Max({n \in DOMAIN tries : tries[n].ran}) = attempt
         /\ LastRan = tries[attempt]
         /\ Total = IF Len(tries) = 1 THEN tries[1].time ELSE tries[1].time + tries[2].time
         /\ RowTime \in Nat
         /\ \A n \in DOMAIN tries : tries[n].ran \/ (n = 2 /\ attempt = 1)
<1>1. /\ tries \in Seq(Tried) /\ attempt \in {1, 2}
      /\ \/ Len(tries) = attempt /\ \A n \in DOMAIN tries : tries[n].ran
         \/ attempt = 1 /\ Len(tries) = 2 /\ tries[1].ran /\ ~tries[2].ran
  BY DEF TypesInv, TriesInv
<1>2. /\ DOMAIN tries = 1..Len(tries) /\ Len(tries) \in {1, 2}
      /\ DOMAIN tries = IF Len(tries) = 1 THEN {1} ELSE {1, 2}
      /\ \A n \in DOMAIN tries : tries[n] \in Tried /\ tries[n].time \in Nat
  <2>5. tries \in Seq(Tried) => DOMAIN tries = 1..Len(tries)
    OBVIOUS
  <2>6. Len(tries) \in {1, 2}
    BY <1>1
  <2>1. DOMAIN tries = 1..Len(tries) /\ Len(tries) \in {1, 2}
    BY <1>1, <2>5, <2>6
  <2>2. 1..1 = {1} /\ 1..2 = {1, 2}
    OBVIOUS
  <2>3. \A n \in DOMAIN tries : tries[n] \in Tried
    BY <1>1
  <2>4. \A n \in DOMAIN tries : tries[n].time \in Nat
    BY <2>3 DEF Tried
  <2> QED BY <2>1, <2>2, <2>3, <2>4
<1>3. /\ attempt \in DOMAIN tries /\ tries[attempt].ran
      /\ {n \in DOMAIN tries : tries[n].ran} = 1..attempt
      /\ \A n \in DOMAIN tries : tries[n].ran \/ (n = 2 /\ attempt = 1)
  <2>1. CASE Len(tries) = attempt /\ \A n \in DOMAIN tries : tries[n].ran
    <3>1. DOMAIN tries = 1..attempt /\ attempt \in 1..attempt
      BY <1>1, <1>2, <2>1
    <3>2. {n \in DOMAIN tries : tries[n].ran} = DOMAIN tries
      BY <2>1
    <3> QED BY <2>1, <3>1, <3>2
  <2>2. CASE attempt = 1 /\ Len(tries) = 2 /\ tries[1].ran /\ ~tries[2].ran
    <3>1. DOMAIN tries = {1, 2} /\ 1..attempt = {1}
      BY <1>2, <2>2
    <3>2. {n \in DOMAIN tries : tries[n].ran} = {1}
      BY <2>2, <3>1
    <3> QED BY <2>2, <3>1, <3>2
  <2> QED BY <1>1, <2>1, <2>2
<1>4. Max(1..attempt) = attempt
  <2>1. attempt \in 1..attempt /\ 1..attempt \subseteq Int /\ \A k \in 1..attempt : k <= attempt
    BY <1>1
  <2> QED BY <2>1, MaxIs
<1>5. LastRan = tries[attempt]
  BY <1>3, <1>4 DEF LastRan
<1>6. Total = IF Len(tries) = 1 THEN tries[1].time ELSE tries[1].time + tries[2].time
  <2> DEFINE f == [n \in DOMAIN tries |-> tries[n].time]
  <2>1. Total = SumFunctionOnSet(f, DOMAIN tries)
    BY DEF Total, SumFunction
  <2>2. \A n \in DOMAIN tries : f[n] = tries[n].time /\ f[n] \in Nat
    BY <1>2
  <2> HIDE DEF f
  <2>3. CASE Len(tries) = 1
    BY <1>2, <2>1, <2>2, <2>3, SumOfOne
  <2>4. CASE Len(tries) = 2
    <3>1. DOMAIN tries = {1, 2} /\ 1 # 2 /\ f[1] \in Nat /\ f[2] \in Nat
      BY <1>2, <2>2, <2>4
    <3>2. SumFunctionOnSet(f, {1, 2}) = f[1] + f[2]
      BY <3>1, SumOfTwo
    <3> QED BY <2>1, <2>2, <2>4, <3>1, <3>2
  <2> QED BY <1>2, <2>3, <2>4
<1>7. RowTime \in Nat
  BY <1>2, <1>6 DEF RowTime
<1> QED BY <1>3, <1>4, <1>5, <1>6, <1>7

LEMMA DurationsHaveMax == Max(Durations) \in Durations /\ Durations \subseteq Nat \ {0}
<1>1. IsFiniteSet(Durations) /\ Durations # {} /\ Durations \subseteq Nat \ {0}
  BY EvaluatorAssumption
<1>2. PICK m \in Durations : \A k \in Durations : k <= m
  BY <1>1, GreatestIsThere DEF HasGreatest
<1>3. Durations \subseteq Int
  BY <1>1
<1> QED BY <1>1, <1>2, <1>3, MaxIs

LEMMA MeasurementsTyped ==
  ASSUME NEW m \in Measurements
  PROVE  m \in Measured /\ m.status # "none"
<1>1. \A d \in Durations : d \in Nat
  BY DurationsHaveMax
<1>2. Max(Durations) \in Nat
  BY DurationsHaveMax
<1>3. ASSUME NEW d \in Durations,
             m = [status |-> "PASS", time |-> d, repairable |-> FALSE, clean |-> TRUE]
      PROVE  m.status = "PASS" /\ m \in Measured
  BY <1>1, <1>3 DEF Measured, Statuses
<1>4. CASE m \in [status: {"FAIL"}, time: {Max(Durations)}, repairable: BOOLEAN, clean: {TRUE}]
  BY <1>2, <1>4 DEF Measured, Statuses
<1>5. CASE m \in [status: {"POLICY_VIOLATION"}, time: {1}, repairable: {FALSE}, clean: {TRUE}]
  <2>1. m.time \in Nat /\ m.time = 1 /\ m.status = "POLICY_VIOLATION"
    BY <1>5
  <2> QED BY <1>5, <2>1 DEF Measured, Statuses
<1>6. CASE m \in [status: {"ERROR"}, time: {1}, repairable: {FALSE}, clean: BOOLEAN]
  <2>1. m.time \in Nat /\ m.time = 1 /\ m.status = "ERROR"
    BY <1>6
  <2> QED BY <1>6, <2>1 DEF Measured
<1>7. CASE m \in {[status |-> "PASS", time |-> d, repairable |-> FALSE, clean |-> TRUE] : d \in Durations}
  BY <1>1, <1>3, <1>7 DEF Measured, Statuses
<1> QED BY <1>4, <1>5, <1>6, <1>7 DEF Measurements

LEMMA CutTyped ==
  ASSUME NEW S, NEW s \in Seq(S), NEW n \in Nat, n <= Len(s)
  PROVE  /\ SubSeq(s, 1, n) \in Seq(S) /\ Len(SubSeq(s, 1, n)) = n
         /\ \A i \in 1..n : SubSeq(s, 1, n)[i] = s[i]
OBVIOUS

LEMMA TypesKept ==
  ASSUME TypesInv, PlaceInv, SeenInv, TriesInv, [Next]_vars
  PROVE  TypesInv'
<1> DEFINE Goal == TypesInv'
<1>1. ASSUME \/ RequestRejected \/ InputsRejected \/ InputsAdmitted \/ SourceTrust
             \/ SourceMembership \/ SeedArithmetic \/ Preflight
      PROVE  Goal
  <2>1. pc' \in Early \cup {"prepare", "emit", "escape"} /\ ending' \in Endings
    <3> DEFINE Ok == pc' \in Early \cup {"prepare", "emit", "escape"} /\ ending' \in Endings
    <3>1. \A code \in Codes : Returns(code) => Ok
      BY ReturnsTyped
    <3>2. Escapes => Ok
      BY DEF Escapes, TypesInv
    <3>3. \A a, b \in Early \cup {"prepare"} : Goes(a, b) /\ UNCHANGED ending => Ok
      BY DEF Goes, TypesInv
    <3>4. \A b \in Early \cup {"prepare"} : pc' = b /\ UNCHANGED ending => Ok
      BY DEF TypesInv
    <3>5. {"INVALID_PATH", "INVALID_SCHEMA", "MISSING_CREDENTIAL", "CLEANUP_FAILED",
           "SNAPSHOT_ERROR", "WORKSPACE_UNSAFE", "ARITHMETIC"} \subseteq Codes
          /\ {"trust", "membership", "preflight", "seeds", "prepare", "admit"} \subseteq
               Early \cup {"prepare"}
      BY DEF Codes, Early
    <3> SUFFICES Ok
      OBVIOUS
    <3> HIDE DEF Ok
    <3>6. CASE RequestRejected \/ InputsRejected \/ InputsAdmitted
      BY <3>1, <3>2, <3>3, <3>5, <3>6 DEF RequestRejected, InputsRejected, InputsAdmitted, endVars
    <3>7. CASE SourceTrust
      BY <3>1, <3>4, <3>5, <3>7 DEF SourceTrust
    <3>8. CASE SourceMembership
      BY <3>1, <3>4, <3>5, <3>8 DEF SourceMembership
    <3>9. CASE Preflight
      BY <3>1, <3>2, <3>4, <3>5, <3>9 DEF Preflight
    <3>10. CASE SeedArithmetic
      BY <3>1, <3>4, <3>5, <3>10 DEF SeedArithmetic
    <3> QED BY <1>1, <3>6, <3>7, <3>8, <3>9, <3>10
  <2>2. childLeft' \in BOOLEAN /\ probed' \in {0, 1, 9}
    BY <1>1 DEF TypesInv, RequestRejected, InputsRejected, InputsAdmitted, SourceTrust,
       SourceMembership, SeedArithmetic, Preflight, Worlds, checkVars
  <2>3. UNCHANGED <<at, attempt, world, baseline, attemptVars, tries, streamVars, outcome>>
    BY <1>1 DEF RequestRejected, InputsRejected, InputsAdmitted, SourceTrust, SourceMembership,
       SeedArithmetic, Preflight, checkVars, inputVars, endVars
  <2> QED BY <2>1, <2>2, <2>3 DEF TypesInv, Running, Ending, attemptVars, streamVars
<1>3. ASSUME Prepare PROVE Goal
  BY <1>3 DEF TypesInv, Prepare, Escapes, Unmeasured, Measured,
     Early, Running, Ending, Seeing, checkVars, streamVars
<1>4. ASSUME BeforeSnapshot PROVE Goal
  <2>1. PICK status \in Snapshots :
          /\ Observes(status)
          /\ before' = Observed(status) /\ UNCHANGED after
          /\ trace' = [trace EXCEPT !.requests = @ \cup {Id}, !.results = @ \cup {before'},
                                    !.inputs = IF status = "MATCH" THEN @ \cup {Input(world)} ELSE @]
          /\ IF status = "MATCH" THEN pc' = "baseline" /\ UNCHANGED <<attested, ending>>
             ELSE Attests("PRECHECK_FAILED") /\ Aborts(SnapshotCode(status))
    BY <1>4 DEF BeforeSnapshot
  <2>2. before' \in Results
    BY <2>1, ObservedTyped
  <2>3. trace' \in Traces
    <3>1. Id \in Attempts /\ Input(world) \in InputRecords
      BY IdTyped DEF TypesInv, Input, InputRecords, Seen
    <3>2. trace' = [requests |-> trace.requests \cup {Id}, results |-> trace.results \cup {before'},
                    inputs |-> IF status = "MATCH" THEN trace.inputs \cup {Input(world)}
                               ELSE trace.inputs,
                    expected |-> trace.expected]
      <4>1. /\ trace.requests \cup {Id} \in SUBSET Attempts
            /\ trace.results \cup {before'} \in SUBSET Results /\ trace \in Traces
        BY <2>2, <3>1 DEF TypesInv, Traces
      <4> DEFINE requests == trace.requests \cup {Id}
                 results == trace.results \cup {before'}
                 inputs == IF status = "MATCH" THEN trace.inputs \cup {Input(world)}
                           ELSE trace.inputs
      <4>2. trace' = [trace EXCEPT !.requests = requests, !.results = results,
                                   !.inputs = inputs]
        BY <2>1
      <4>3. requests \in SUBSET Attempts /\ results \in SUBSET Results /\ trace \in Traces
        BY <4>1
      <4> HIDE DEF requests, results, inputs
      <4>4. trace' = [requests |-> requests, results |-> results, inputs |-> inputs,
                      expected |-> trace.expected]
        BY <4>2, <4>3, TraceOfThree
      <4> QED BY <4>4 DEF requests, results, inputs
    <3> QED BY <2>2, <3>1, <3>2 DEF TypesInv, Traces
  <2>4. attested' \in Seq(Attestations)
    BY <2>1, <2>2, AttestTyped DEF TypesInv
  <2>5. pc' \in {"baseline", "finish"} /\ ending' \in Endings /\ childLeft' \in BOOLEAN
    <3>1. status # "MATCH" => AbortsAs(SnapshotCode(status))
      BY <2>1, AbortsTyped, CodesOfFailures
    <3> QED BY <2>1, <3>1 DEF AbortsAs, TypesInv, Observes
  <2> QED BY <1>4, <2>1, <2>2, <2>3, <2>4, <2>5 DEF BeforeSnapshot, TypesInv,
      Running, Ending, Seeing, checkVars
<1>5. ASSUME CheckBaseline PROVE Goal
  <2>1. attested' \in Seq(Attestations)
    BY <1>5, AttestTyped DEF CheckBaseline, TypesInv
  <2>2. pc' \in {"launch", "finish"} /\ ending' \in Endings
    <3>1. "CLEANUP_FAILED" \in Codes
      BY DEF Codes
    <3>2. \/ pc' = "launch" /\ UNCHANGED ending
          \/ AbortsAs(DriftCode(before.world)) \/ AbortsAs("CLEANUP_FAILED")
      BY <1>5, <3>1, AbortsTyped, CodesOfFailures DEF CheckBaseline
    <3> QED BY <3>2 DEF AbortsAs, TypesInv
  <2>3. baseline' \in Seen
    BY <1>5 DEF CheckBaseline, TypesInv, Results, NoResult, Seen
  <2> QED BY <1>5, <2>1, <2>2, <2>3 DEF CheckBaseline, TypesInv, Running, Ending, Seeing
<1>6. ASSUME Launch PROVE Goal
  <2>1. attested' \in Seq(Attestations)
    BY <1>6, AttestTyped DEF Launch, AdapterFails, TypesInv
  <2>2. pc' \in {"adapter", "escape", "finish"} /\ ending' \in Endings
    <3>1. "ADAPTER_RESULT" \in Codes
      BY DEF Codes
    <3>2. \/ pc' \in {"adapter", "escape"} /\ UNCHANGED ending
          \/ AbortsAs("ADAPTER_RESULT") \/ AbortsAs("REPAIR_RENDER")
      BY <1>6, <3>1, AbortsTyped, EscapesTyped DEF Launch, AdapterFails
    <3> QED BY <3>2 DEF AbortsAs, TypesInv
  <2> QED BY <1>6, <2>1, <2>2 DEF Launch, TypesInv, Running, Ending, Seeing, checkVars
<1>7. ASSUME AdapterEnds PROVE Goal
  <2>1. attested' \in Seq(Attestations)
    BY <1>7, AttestTyped DEF AdapterEnds, AdapterFails, TypesInv
  <2>2. pc' \in {"after", "escape", "finish"} /\ ending' \in Endings /\ childLeft' \in BOOLEAN
    <3> DEFINE codes == {"ADAPTER_TIMEOUT", "ADAPTER_PROCESS_OUTPUT", "ADAPTER_RESULT", "CLEANUP_FAILED"}
    <3>1. codes \subseteq Codes /\ "CLEANUP_FAILED" \in codes
      BY DEF Codes
    <3>2. \/ pc' \in {"after", "escape"} /\ UNCHANGED ending
          \/ (\E code \in codes : Aborts(code)) \/ AbortsAs("REPAIR_RENDER")
      BY <1>7, EscapesTyped DEF AdapterEnds, AdapterFails
    <3>3. \/ pc' \in {"after", "escape"} /\ UNCHANGED ending
          \/ (\E code \in codes : AbortsAs(code)) \/ AbortsAs("REPAIR_RENDER")
      <4> HIDE DEF codes
      <4> QED BY <3>1, <3>2, AbortsTyped
    <3>4. pc' \in {"after", "escape", "finish"} /\ ending' \in Endings
      BY <3>3 DEF AbortsAs, TypesInv
    <3> QED BY <1>7, <3>4 DEF AdapterEnds, TypesInv
  <2>3. measured' \in Measured
    BY <1>7, MeasurementsTyped DEF AdapterEnds, TypesInv
  <2> QED BY <1>7, <2>1, <2>2, <2>3 DEF AdapterEnds, TypesInv, Running, Ending, Seeing, checkVars
<1>8. ASSUME AfterSnapshot PROVE Goal
  <2>1. PICK status \in Snapshots :
          /\ Observes(status)
          /\ after' = Observed(status)
          /\ trace' = [trace EXCEPT !.results = @ \cup {after'}]
          /\ IF status = "MATCH" THEN pc' = "drift" /\ UNCHANGED <<attested, ending>>
             ELSE Attests("POSTCHECK_FAILED") /\ Aborts(SnapshotCode(status))
    BY <1>8 DEF AfterSnapshot
  <2>2. after' \in Results /\ before' = before
    BY <1>8, <2>1, ObservedTyped DEF AfterSnapshot
  <2>3. trace' \in Traces
    <3>1. trace' = [requests |-> trace.requests, results |-> trace.results \cup {after'},
                    inputs |-> trace.inputs, expected |-> trace.expected]
      BY <2>1, TraceOfOne, Zenon DEF TypesInv
    <3> QED BY <2>2, <3>1 DEF TypesInv, Traces
  <2>4. attested' \in Seq(Attestations)
    BY <2>1, <2>2, AttestTyped DEF TypesInv
  <2>5. pc' \in {"drift", "finish"} /\ ending' \in Endings /\ childLeft' \in BOOLEAN
    <3>1. status # "MATCH" => AbortsAs(SnapshotCode(status))
      BY <2>1, AbortsTyped, CodesOfFailures
    <3> QED BY <2>1, <3>1 DEF AbortsAs, TypesInv, Observes
  <2> QED BY <1>8, <2>1, <2>2, <2>3, <2>4, <2>5 DEF AfterSnapshot, TypesInv,
      Running, Ending, Seeing, checkVars
<1>9. ASSUME CheckAfter PROVE Goal
  <2>1. attested' \in Seq(Attestations)
    BY <1>9, AttestTyped DEF CheckAfter, TypesInv
  <2>2. pc' \in {"record", "finish"} /\ ending' \in Endings
    <3>1. "CLEANUP_FAILED" \in Codes
      BY DEF Codes
    <3>2. \/ pc' = "record" /\ UNCHANGED ending
          \/ AbortsAs(DriftCode(after.world)) \/ AbortsAs("CLEANUP_FAILED")
      BY <1>9, <3>1, AbortsTyped, CodesOfFailures DEF CheckAfter
    <3> QED BY <3>2 DEF AbortsAs, TypesInv
  <2>3. trace' \in Traces
    <3>1. pc = "drift" => Input(after.world) \in InputRecords
      BY IdTyped DEF TypesInv, Input, InputRecords, Results, NoResult, Seen
    <3>2. \/ trace' = trace
          \/ trace' = [requests |-> trace.requests, results |-> trace.results,
                       inputs |-> trace.inputs \cup {Input(after.world)},
                       expected |-> trace.expected]
      BY <1>9, TraceOfOne, Zenon DEF CheckAfter, TypesInv
    <3>3. pc = "drift"
      BY <1>9 DEF CheckAfter
    <3> QED BY <3>1, <3>2, <3>3 DEF TypesInv, Traces
  <2> QED BY <1>9, <2>1, <2>2, <2>3 DEF CheckAfter, TypesInv, Running, Ending, Seeing, checkVars
<1>10. ASSUME RecordAttempt PROVE Goal
  <2>1. /\ pc' \in {"repair", "finish"} /\ ending' \in Endings
        /\ pc = "record"
    <3>1. "TIMING" \in Codes
      BY DEF Codes
    <3>2. (pc' = "repair" /\ UNCHANGED ending) \/ AbortsAs("TIMING")
      BY <1>10, <3>1, AbortsTyped DEF RecordAttempt
    <3> QED BY <1>10, <3>2 DEF AbortsAs, TypesInv, RecordAttempt
  <2>2. trace' \in Traces
    <3>1. \/ trace' = trace
          \/ trace' = [requests |-> trace.requests, results |-> trace.results,
                       inputs |-> trace.inputs, expected |-> trace.expected \cup {Id}]
      BY <1>10, TraceOfOne, Zenon DEF RecordAttempt, TypesInv
    <3> QED BY <3>1, IdTyped DEF TypesInv, Traces
  <2>3. tries' \in Seq(Tried)
    <3> DEFINE new == [ran |-> TRUE, status |-> measured.status, time |-> measured.time,
                       before |-> before.world, after |-> after.world]
    <3>1. measured \in Measured /\ measured.status # "none" /\ before \in Results /\ after \in Results
      BY <2>1, MeasurementsTyped DEF SeenInv, TypesInv, Seeing, NoResult
    <3>2. new \in Tried
      BY <3>1 DEF Tried, Measured, Results
    <3> HIDE DEF new
    <3>3. tries' = tries \/ tries' = Append(tries, new)
      BY <1>10 DEF RecordAttempt, new
    <3>4. tries \in Seq(Tried)
      BY DEF TypesInv
    <3> QED BY <3>2, <3>3, <3>4
  <2> QED BY <1>10, <2>1, <2>2, <2>3 DEF RecordAttempt, TypesInv, Running, Seeing, Ending,
      inputVars, checkVars, attemptVars
<1>11. ASSUME Repair PROVE Goal
  <2>1. pc' \in {"close", "prepare", "finish"} /\ ending' \in Endings
    <3>1. "REPAIR_RENDER" \in Codes
      BY DEF Codes
    <3>2. (pc' \in {"close", "prepare"} /\ UNCHANGED ending) \/ AbortsAs("REPAIR_RENDER")
      BY <1>11, <3>1, AbortsTyped DEF Repair
    <3> QED BY <3>2 DEF AbortsAs, TypesInv
  <2>2. tries' \in Seq(Tried) /\ attempt' \in {1, 2}
    <3>1. Skipped \in Tried
      BY DEF Skipped, Tried, Seen
    <3>2. /\ (tries' = tries \/ tries' = Append(tries, Skipped))
          /\ (attempt' = attempt \/ attempt' = 2)
      BY <1>11 DEF Repair
    <3>3. tries \in Seq(Tried) /\ attempt \in {1, 2}
      BY DEF TypesInv
    <3> QED BY <3>1, <3>2, <3>3
  <2> QED BY <1>11, <2>1, <2>2 DEF Repair, TypesInv, Running, Seeing, Ending,
      inputVars, checkVars, attemptVars, streamVars
<1>12. ASSUME CloseRow PROVE Goal
  <2>0. pc = "close" /\ at \in 1..Last /\ attempt \in {1, 2} /\ tries \in Seq(Tried)
    BY <1>12 DEF CloseRow, TypesInv
  <2>1. pc' \in {"next", "finish"} /\ ending' \in Endings
    <3>1. {"NONE", "TIMING", "ADAPTER_RESULT", "CLEANUP_FAILED"} \subseteq Codes
      BY DEF Codes
    <3>2. ASSUME Ends("ERROR", "TIMING", TRUE, FALSE) PROVE pc' = "finish" /\ ending' \in Endings
      <4> DEFINE cut == TRUE
                 diagnosed == FALSE
      <4>1. cut \in BOOLEAN /\ diagnosed \in BOOLEAN /\ Ends("ERROR", "TIMING", cut, diagnosed)
        BY <3>2
      <4> HIDE DEF cut, diagnosed
      <4> QED BY <3>1, <4>1, EndsTyped
    <3>3. ASSUME NEW b \in BOOLEAN, Aborts(IF b THEN "ADAPTER_RESULT" ELSE "CLEANUP_FAILED")
          PROVE  pc' = "finish" /\ ending' \in Endings
      <4>1. (IF b THEN "ADAPTER_RESULT" ELSE "CLEANUP_FAILED") \in Codes
        BY <3>1
      <4> QED BY <3>3, <4>1, AbortsTyped DEF AbortsAs
    <3>4. \/ Ends("ERROR", "TIMING", TRUE, FALSE)
          \/ Aborts(IF measured.clean THEN "ADAPTER_RESULT" ELSE "CLEANUP_FAILED")
          \/ pc' = "next" /\ UNCHANGED ending
      BY <1>12, Zenon DEF CloseRow
    <3>5. measured.clean \in BOOLEAN
      BY DEF TypesInv, Measured
    <3> QED BY <3>2, <3>3, <3>4, <3>5, Zenon DEF TypesInv
  <2>2. attested' \in Seq(Attestations)
    <3> DEFINE new == [of |-> <<at, Max({n \in DOMAIN tries : tries[n].ran})>>, status |-> "COMPLETE",
                       results |-> {before, after},
                       inputs |-> {[of |-> before.of, world |-> before.world]}]
    <3>1. before \in Results /\ after \in Results
      BY <2>0 DEF SeenInv, TypesInv, Seeing, NoResult
    <3>2. new \in Attestations
      <4>1. <<at, Max({n \in DOMAIN tries : tries[n].ran})>> \in Attempts
        BY <2>0, CloseIs DEF Attempts
      <4>2. [of |-> before.of, world |-> before.world] \in InputRecords
        BY <3>1 DEF Results, InputRecords
      <4> QED BY <3>1, <4>1, <4>2 DEF Attestations
    <3> HIDE DEF new
    <3>3. attested' = Append(attested, new)
      BY <1>12 DEF CloseRow, new
    <3> QED BY <3>2, <3>3 DEF TypesInv
  <2>3. rows' \in Seq(Rows)
    <3> DEFINE new == [attempts |-> tries, status |-> LastRan.status, time |-> RowTime, repairs |-> attempt - 1]
    <3>1. LastRan \in Tried /\ RowTime \in Nat
      BY <2>0, CloseIs
    <3>2. new \in Rows
      BY <2>0, <3>1 DEF Rows, Tried
    <3> HIDE DEF new
    <3>3. rows' = rows \/ rows' = Append(rows, new)
      BY <1>12 DEF CloseRow, new
    <3> QED BY <3>2, <3>3 DEF TypesInv
  <2> QED BY <1>12, <2>1, <2>2, <2>3 DEF CloseRow, TypesInv, Running, Seeing, Ending,
      inputVars, checkVars, attemptVars
<1>13. ASSUME NextRow PROVE Goal
  <2>1. at' \in 1..Last
    BY <1>13, LastIsThere DEF NextRow, TypesInv
  <2>2. Unmeasured \in Measured /\ None \in Seen
    BY DEF Unmeasured, Measured, Seen
  <2>3. tries' \in Seq(Tried)
    BY <1>13 DEF NextRow
  <2> QED BY <1>13, <2>1, <2>2, <2>3 DEF NextRow, TypesInv, Running, inputVars, streamVars, endVars
<1>14. ASSUME Score PROVE Goal
  <2>1. pc' = "finish" /\ ending' \in Endings
    <3> DEFINE verdict == Verdict(ArmRows(Document, "PARENT"), ArmRows(Document, "CANDIDATE"))
               cut == FALSE
    <3>1. verdict \in Verdicts /\ cut \in BOOLEAN /\ "NONE" \in Codes
      BY DEF Verdict, Verdicts, Codes
    <3>2. Ends(verdict, "NONE", cut, cut)
      BY <1>14, Zenon DEF Score
    <3> HIDE DEF verdict, cut
    <3> QED BY <3>1, <3>2, EndsTyped
  <2> QED BY <1>14, <2>1 DEF Score, TypesInv, Ending, inputVars, checkVars, attemptVars, streamVars
<1>15. ASSUME Finish \/ Escape PROVE Goal
  <2>1. NoResult \in {NoResult} /\ Unmeasured \in Measured /\ None \in Seen /\ <<>> \in Seq(Tried)
    BY DEF Unmeasured, Measured, Seen
  <2>2. /\ before' = NoResult /\ after' = NoResult /\ measured' = Unmeasured
        /\ tries' = <<>> /\ attempt' = 1 /\ baseline' = None
        /\ UNCHANGED <<at, world, probed, childLeft>>
    BY <1>15 DEF Finish, Escape, Forgets
  <2>3. pc' \in {"emit", "done"} /\ ending' \in Endings
    <3>1. CASE Escape
      BY <3>1 DEF Escape, TypesInv
    <3>2. CASE Finish
      <4>1. /\ pc' = "emit" /\ ending \in Endings
            /\ \/ ending' = ending
               \/ ending' = [ending EXCEPT !.status = "ERROR", !.code = "CLEANUP_FAILED"]
        BY <3>2 DEF Finish, TypesInv
      <4>2. "CLEANUP_FAILED" \in Codes
        BY DEF Codes
      <4> QED BY <4>1, <4>2 DEF Endings
    <3> QED BY <1>15, <3>1, <3>2
  <2>4. rows' \in Seq(Rows)
    <3>1. <<>> \in Seq(Rows)
      OBVIOUS
    <3>2. rows' = rows \/ rows' = <<>>
      BY <1>15 DEF Finish, Escape
    <3> QED BY <3>1, <3>2 DEF TypesInv
  <2>5. trace' \in Traces
    BY <1>15 DEF Finish, Escape, TypesInv, Traces, NoTrace, Before
  <2>6. attested' \in Seq(Attestations)
    <3>3. <<>> \in Seq(Attestations)
      OBVIOUS
    <3>1. CASE attested' = <<>> \/ attested' = attested
      BY <3>1, <3>3 DEF TypesInv
    <3>2. CASE Finish /\ attested' = SubSeq(attested, 1, at - 1)
      BY <3>2, CutTyped DEF Finish, PlaceInv, TypesInv
    <3> QED BY <1>15, <3>1, <3>2 DEF Finish, Escape
  <2>7. /\ outcome'.exit \in {0, 2, 3, 9} /\ outcome'.code \in Codes
        /\ outcome'.status \in Verdicts \cup {"none", "ERROR"}
    <3>1. CASE Finish
      BY <3>1 DEF Finish, TypesInv
    <3>2. CASE Escape
      <4>1. PICK n \in {2, 3} : outcome' = [exit |-> n, status |-> "none", code |-> "none"]
        BY <3>2 DEF Escape
      <4> QED BY <4>1 DEF Codes
    <3> QED BY <1>15, <3>1, <3>2
  <2> QED BY <2>1, <2>2, <2>3, <2>4, <2>5, <2>6, <2>7 DEF TypesInv, Ending
<1>16. ASSUME Emit PROVE Goal
  <2>1. rows' \in Seq(Rows) /\ attested' \in Seq(Attestations)
    <3>1. <<>> \in Seq(Rows) /\ <<>> \in Seq(Attestations)
      OBVIOUS
    <3> QED BY <1>16, <3>1 DEF Emit, TypesInv, streamVars
  <2>2. trace' \in Traces
    BY <1>16 DEF Emit, TypesInv, Traces, NoTrace, streamVars
  <2>3. /\ outcome'.exit \in {0, 2, 3, 9} /\ outcome'.code \in Codes
        /\ outcome'.status \in Verdicts \cup {"none", "ERROR"}
    BY <1>16 DEF Emit, TypesInv, Codes, Endings
  <2> QED BY <1>16, <2>1, <2>2, <2>3 DEF Emit, TypesInv, Ending, inputVars, checkVars, attemptVars
<1>17. ASSUME WorldChanges PROVE Goal
  BY <1>17 DEF WorldChanges, TypesInv, checkVars, attemptVars, streamVars, endVars
<1>18. ASSUME UNCHANGED vars PROVE Goal
  BY <1>18 DEF TypesInv, vars, inputVars, checkVars, attemptVars, streamVars, endVars
<1> QED BY <1>1, <1>3, <1>4, <1>5, <1>6, <1>7, <1>8, <1>9, <1>10, <1>11, <1>12, <1>13, <1>14,
    <1>15, <1>16, <1>17, <1>18 DEF Next, Step
-----------------------------------------------------------------------------
(* Where the evaluation is, and how far its streams are.                   *)

\* A step inside an attempt goes on, with at most an attestation more when it
\* ends the evaluation, which it does with an error.
StaysOrStops ==
  /\ UNCHANGED <<at, rows>>
  /\ \/ pc' \in Running /\ UNCHANGED <<attested, ending>> /\ (childLeft' => childLeft)
     \/ pc' = "escape" /\ UNCHANGED <<attested, ending>>
     \/ /\ \E code \in Codes : AbortsAs(code)
        /\ \/ UNCHANGED attested
           \/ \E status \in {"PRECHECK_FAILED", "PRECHECK_DRIFT", "ADAPTER_FAILED",
                             "POSTCHECK_FAILED", "POSTCHECK_DRIFT"} : Attests(status)

AttemptStep ==
  \/ Prepare \/ BeforeSnapshot \/ CheckBaseline \/ Launch \/ AdapterEnds
  \/ AfterSnapshot \/ CheckAfter \/ RecordAttempt \/ Repair

LEMMA AttemptsStayOrStop ==
  ASSUME AttemptStep
  PROVE  StaysOrStops /\ pc \in Running
<1> DEFINE Goal == StaysOrStops /\ pc \in Running
<1>0. /\ {"CLEANUP_FAILED", "ADAPTER_RESULT", "ADAPTER_TIMEOUT", "ADAPTER_PROCESS_OUTPUT",
          "REPAIR_RENDER", "TIMING"} \subseteq Codes
  BY DEF Codes
<1>1. ASSUME Prepare PROVE Goal
  BY <1>1 DEF Prepare, Escapes, StaysOrStops, Running, Seeing, streamVars
<1>2. ASSUME BeforeSnapshot PROVE Goal
  <2>1. PICK status \in Snapshots :
          /\ Observes(status)
          /\ IF status = "MATCH" THEN pc' = "baseline" /\ UNCHANGED <<attested, ending>>
             ELSE Attests("PRECHECK_FAILED") /\ Aborts(SnapshotCode(status))
    BY <1>2 DEF BeforeSnapshot
  <2>2. status # "MATCH" => SnapshotCode(status) \in Codes
    BY CodesOfFailures
  <2>3. status # "MATCH" => AbortsAs(SnapshotCode(status))
    BY <2>1, <2>2, AbortsTyped
  <2>4. status = "MATCH" => (childLeft' => childLeft)
    BY <2>1 DEF Observes
  <2> QED BY <1>2, <2>1, <2>2, <2>3, <2>4 DEF BeforeSnapshot, StaysOrStops, Running, Seeing
<1>3. ASSUME CheckBaseline PROVE Goal
  <2>1. \/ pc' = "launch" /\ UNCHANGED <<attested, ending, childLeft>>
        \/ Aborts("CLEANUP_FAILED") /\ UNCHANGED attested
        \/ Aborts(DriftCode(before.world)) /\ Attests("PRECHECK_DRIFT")
    BY <1>3 DEF CheckBaseline
  <2>2. DriftCode(before.world) \in Codes
    BY CodesOfFailures
  <2>3. \/ pc' = "launch" /\ UNCHANGED <<attested, ending, childLeft>>
        \/ AbortsAs("CLEANUP_FAILED") /\ UNCHANGED attested
        \/ AbortsAs(DriftCode(before.world)) /\ Attests("PRECHECK_DRIFT")
    BY <1>0, <2>1, <2>2, AbortsTyped
  <2> QED BY <1>0, <1>3, <2>2, <2>3 DEF CheckBaseline, StaysOrStops, Running, Seeing
<1>4. ASSUME Launch PROVE Goal
  <2>1. \/ pc' \in {"adapter", "escape"} /\ UNCHANGED <<attested, ending, childLeft>>
        \/ AbortsAs("ADAPTER_RESULT") /\ Attests("ADAPTER_FAILED")
        \/ AbortsAs("REPAIR_RENDER") /\ UNCHANGED attested
    BY <1>0, <1>4, AbortsTyped, EscapesTyped DEF Launch, AdapterFails
  <2> QED BY <1>0, <1>4, <2>1 DEF Launch, StaysOrStops, Running, Seeing
<1>5. ASSUME AdapterEnds PROVE Goal
  <2> DEFINE codes == {"ADAPTER_TIMEOUT", "ADAPTER_PROCESS_OUTPUT", "ADAPTER_RESULT", "CLEANUP_FAILED"}
  <2>1. \/ pc' \in {"after", "escape"} /\ UNCHANGED <<attested, ending, childLeft>>
        \/ (\E code \in codes : Aborts(code)) /\ Attests("ADAPTER_FAILED")
        \/ AbortsAs("REPAIR_RENDER") /\ UNCHANGED attested
    BY <1>5, EscapesTyped DEF AdapterEnds, AdapterFails
  <2>2. \/ pc' \in {"after", "escape"} /\ UNCHANGED <<attested, ending, childLeft>>
        \/ (\E code \in Codes : AbortsAs(code)) /\ Attests("ADAPTER_FAILED")
        \/ AbortsAs("REPAIR_RENDER") /\ UNCHANGED attested
    <3>1. codes \subseteq Codes
      BY <1>0
    <3> HIDE DEF codes
    <3> QED BY <2>1, <3>1, AbortsTyped
  <2> QED BY <1>0, <1>5, <2>2 DEF AdapterEnds, StaysOrStops, Running, Seeing
<1>6. ASSUME AfterSnapshot PROVE Goal
  <2>1. PICK status \in Snapshots :
          /\ Observes(status)
          /\ IF status = "MATCH" THEN pc' = "drift" /\ UNCHANGED <<attested, ending>>
             ELSE Attests("POSTCHECK_FAILED") /\ Aborts(SnapshotCode(status))
    BY <1>6 DEF AfterSnapshot
  <2>2. status # "MATCH" => SnapshotCode(status) \in Codes
    BY CodesOfFailures
  <2>3. status # "MATCH" => AbortsAs(SnapshotCode(status))
    BY <2>1, <2>2, AbortsTyped
  <2>4. status = "MATCH" => (childLeft' => childLeft)
    BY <2>1 DEF Observes
  <2> QED BY <1>6, <2>1, <2>2, <2>3, <2>4 DEF AfterSnapshot, StaysOrStops, Running, Seeing
<1>7. ASSUME CheckAfter PROVE Goal
  <2>1. \/ pc' = "record" /\ UNCHANGED <<attested, ending, childLeft>>
        \/ Aborts("CLEANUP_FAILED") /\ UNCHANGED attested
        \/ Aborts(DriftCode(after.world)) /\ Attests("POSTCHECK_DRIFT")
    BY <1>7 DEF CheckAfter
  <2>2. DriftCode(after.world) \in Codes
    BY CodesOfFailures
  <2>3. \/ pc' = "record" /\ UNCHANGED <<attested, ending, childLeft>>
        \/ AbortsAs("CLEANUP_FAILED") /\ UNCHANGED attested
        \/ AbortsAs(DriftCode(after.world)) /\ Attests("POSTCHECK_DRIFT")
    BY <1>0, <2>1, <2>2, AbortsTyped
  <2> QED BY <1>0, <1>7, <2>2, <2>3 DEF CheckAfter, StaysOrStops, Running, Seeing
<1>8. ASSUME RecordAttempt PROVE Goal
  <2>1. (pc' = "repair" /\ UNCHANGED ending) \/ AbortsAs("TIMING")
    BY <1>0, <1>8, AbortsTyped DEF RecordAttempt
  <2> QED BY <1>0, <1>8, <2>1 DEF RecordAttempt, StaysOrStops, Running, Seeing
<1>9. ASSUME Repair PROVE Goal
  <2>1. (pc' \in {"close", "prepare"} /\ UNCHANGED ending) \/ AbortsAs("REPAIR_RENDER")
    BY <1>0, <1>9, AbortsTyped DEF Repair
  <2> QED BY <1>0, <1>9, <2>1 DEF Repair, StaysOrStops, Running, Seeing, streamVars
<1> QED BY <1>1, <1>2, <1>3, <1>4, <1>5, <1>6, <1>7, <1>8, <1>9 DEF AttemptStep

AdmissionStep ==
  \/ RequestRejected \/ InputsRejected \/ InputsAdmitted \/ SourceTrust
  \/ SourceMembership \/ Preflight \/ SeedArithmetic

LEMMA AdmissionsGoOnOrReturn ==
  ASSUME AdmissionStep
  PROVE  /\ pc \in Early
         /\ UNCHANGED <<at, attempt, baseline, before, after, measured, tries, rows, attested,
                        trace, outcome, files, owned>>
         /\ \/ pc' \in Early \cup {"prepare"} /\ UNCHANGED <<childLeft, ending>>
            \/ pc' = "escape" /\ UNCHANGED ending
            \/ pc' = "emit" /\ ending'.status = "ERROR"
<1> DEFINE Ok == \/ pc' \in Early \cup {"prepare"} /\ UNCHANGED <<childLeft, ending>>
                 \/ pc' = "escape" /\ UNCHANGED ending
                 \/ pc' = "emit" /\ ending'.status = "ERROR"
<1>1. \A code \in Codes : Returns(code) => Ok
  BY ReturnsTyped
<1>2. {"INVALID_PATH", "INVALID_SCHEMA", "MISSING_CREDENTIAL", "CLEANUP_FAILED",
       "SNAPSHOT_ERROR", "WORKSPACE_UNSAFE", "ARITHMETIC"} \subseteq Codes
      /\ {"trust", "membership", "preflight", "seeds", "prepare", "admit"} \subseteq
           Early \cup {"prepare"}
  BY DEF Codes, Early
<1>3. Escapes => Ok
  BY DEF Escapes
<1>4. \A b \in Early \cup {"prepare"} : pc' = b /\ UNCHANGED <<childLeft, ending>> => Ok
  OBVIOUS
<1>5. Ok
  <2> HIDE DEF Ok
  <2>1. CASE RequestRejected \/ InputsRejected \/ InputsAdmitted
    BY <1>1, <1>2, <1>3, <1>4, <2>1 DEF RequestRejected, InputsRejected, InputsAdmitted, Goes, endVars
  <2>2. CASE SourceTrust
    BY <1>1, <1>2, <1>4, <2>2 DEF SourceTrust
  <2>3. CASE SourceMembership
    BY <1>1, <1>2, <1>4, <2>3 DEF SourceMembership
  <2>4. CASE Preflight
    BY <1>1, <1>2, <1>3, <1>4, <2>4 DEF Preflight
  <2>5. CASE SeedArithmetic
    BY <1>1, <1>2, <1>4, <2>5 DEF SeedArithmetic
  <2> QED BY <2>1, <2>2, <2>3, <2>4, <2>5 DEF AdmissionStep
<1>6. pc \in Early
  BY DEF AdmissionStep, RequestRejected, InputsRejected, InputsAdmitted, SourceTrust,
     SourceMembership, Preflight, SeedArithmetic, Goes, Early
<1>7. UNCHANGED <<at, attempt, baseline, before, after, measured, tries, rows, attested,
                  trace, outcome, files, owned>>
  BY DEF AdmissionStep, RequestRejected, InputsRejected, InputsAdmitted, SourceTrust,
     SourceMembership, Preflight, SeedArithmetic, checkVars, inputVars, attemptVars, streamVars, endVars
<1> QED BY <1>5, <1>6, <1>7

\* A row is closed: attested, and then refused for its time or appended.
LEMMA CloseRowDoes ==
  ASSUME TypesInv, TriesInv, CloseRow
  PROVE  /\ pc = "close"
         /\ UNCHANGED <<at, attempt, baseline, before, after, tries, trace, childLeft>>
         /\ attested' = Append(attested,
              [of |-> Id, status |-> "COMPLETE", results |-> {before, after},
               inputs |-> {[of |-> before.of, world |-> before.world]}])
         /\ \/ UNCHANGED rows
            \/ /\ rows' = Append(rows, [attempts |-> tries, status |-> tries[attempt].status,
                                        time |-> RowTime, repairs |-> attempt - 1])
               /\ RowTime <= TimeLimit
         /\ \/ /\ pc' = "finish" /\ ending'.status = "ERROR" /\ ending'.cut
               /\ ending'.code = "CLEANUP_FAILED" => ending'.diagnosed
            \/ /\ pc' = "next" /\ UNCHANGED ending /\ rows' # rows
               /\ tries[attempt].status # "ERROR" /\ RowTime <= TimeLimit
<1>1. pc = "close" /\ UNCHANGED <<at, attempt, baseline, before, after, tries, trace, childLeft>>
  BY DEF CloseRow, attemptVars, checkVars
<1>2. /\ Max({n \in DOMAIN tries : tries[n].ran}) = attempt /\ LastRan = tries[attempt]
      /\ RowTime \in Nat
  BY <1>1, CloseIs
<1>3. attested' = Append(attested,
        [of |-> Id, status |-> "COMPLETE", results |-> {before, after},
         inputs |-> {[of |-> before.of, world |-> before.world]}])
  BY <1>2, Zenon DEF CloseRow, Id
<1>4. {"NONE", "TIMING", "ADAPTER_RESULT", "CLEANUP_FAILED"} \subseteq Codes
  BY DEF Codes
<1> DEFINE new == [attempts |-> tries, status |-> tries[attempt].status, time |-> RowTime,
                   repairs |-> attempt - 1]
           code == IF measured.clean THEN "ADAPTER_RESULT" ELSE "CLEANUP_FAILED"
<1>5. \/ RowTime > TimeLimit /\ Ends("ERROR", "TIMING", TRUE, FALSE) /\ UNCHANGED rows
      \/ rows' = Append(rows, new) /\ ~(RowTime > TimeLimit) /\ Aborts(code)
      \/ /\ rows' = Append(rows, new) /\ ~(RowTime > TimeLimit)
         /\ tries[attempt].status # "ERROR" /\ pc' = "next" /\ UNCHANGED ending
  BY <1>2, Zenon DEF CloseRow
<1>6. code \in Codes
  BY <1>4
<1>7. ASSUME Ends("ERROR", "TIMING", TRUE, FALSE)
      PROVE  /\ pc' = "finish" /\ ending'.status = "ERROR" /\ ending'.cut
             /\ ending'.code # "CLEANUP_FAILED"
  <2> DEFINE cut == TRUE
             diagnosed == FALSE
  <2>1. /\ cut \in BOOLEAN /\ diagnosed \in BOOLEAN /\ Ends("ERROR", "TIMING", cut, diagnosed)
        /\ cut
    BY <1>7
  <2> HIDE DEF cut, diagnosed
  <2> QED BY <1>4, <2>1, EndsTyped
<1>8. rows \in Seq(Rows) /\ TimeLimit \in Nat
  BY EvaluatorAssumption DEF TypesInv
<1> HIDE DEF new, code
<1>9. Aborts(code) => AbortsAs(code)
  BY <1>6, AbortsTyped
<1>10. rows' = Append(rows, new) => rows' # rows
  BY <1>8
<1>11. \/ /\ pc' = "finish" /\ ending'.status = "ERROR" /\ ending'.cut
          /\ ending'.code = "CLEANUP_FAILED" => ending'.diagnosed
       \/ /\ pc' = "next" /\ UNCHANGED ending /\ rows' # rows
          /\ tries[attempt].status # "ERROR" /\ RowTime <= TimeLimit
  <2>1. ~(RowTime > TimeLimit) => RowTime <= TimeLimit
    BY <1>2, <1>8
  <2> QED BY <1>5, <1>7, <1>9, <1>10, <2>1, Zenon DEF AbortsAs
<1>12. UNCHANGED rows \/ (rows' = Append(rows, new) /\ RowTime <= TimeLimit)
  <2>1. ~(RowTime > TimeLimit) => RowTime <= TimeLimit
    BY <1>2, <1>8
  <2> QED BY <1>5, <2>1, Zenon
<1> QED BY <1>1, <1>3, <1>11, <1>12 DEF new

LEMMA AttestsOneMore ==
  ASSUME TypesInv, NEW status, Attests(status)
  PROVE  Len(attested') = Len(attested) + 1
BY DEF Attests, TypesInv

LEMMA NextSplits ==
  ASSUME [Next]_vars
  PROVE  \/ AdmissionStep \/ AttemptStep \/ CloseRow \/ NextRow \/ Score \/ Finish \/ Emit \/ Escape
         \/ WorldChanges \/ UNCHANGED vars
BY DEF Next, Step, AdmissionStep, AttemptStep

\* The world changes around the evaluation, which does not take part in it.
Evaluation ==
  <<pc, at, attempt, owned, checkVars, attemptVars, tries, streamVars, childLeft, endVars>>

LEMMA WorldsApart ==
  ASSUME WorldChanges \/ UNCHANGED vars
  PROVE  UNCHANGED Evaluation
BY DEF WorldChanges, vars, Evaluation, inputVars

LEMMA PlaceKept ==
  ASSUME TypesInv, SeenInv, TriesInv, PlaceInv, [Next]_vars
  PROVE  PlaceInv'
<1> DEFINE Goal == PlaceInv'
<1>0. /\ at \in Nat \ {0} /\ Len(rows) \in Nat /\ Len(attested) \in Nat
      /\ rows \in Seq(Rows) /\ attested \in Seq(Attestations)
  BY LastIsThere DEF TypesInv
<1>1. ASSUME AdmissionStep PROVE Goal
  <2>1. /\ at' = 1 /\ attempt' = 1 /\ baseline' = None
        /\ tries' = <<>> /\ rows' = <<>> /\ attested' = <<>> /\ trace' = NoTrace
    BY <1>1, AdmissionsGoOnOrReturn DEF PlaceInv
  <2>2. pc' \in Early \cup {"prepare", "escape", "emit"}
    BY <1>1, AdmissionsGoOnOrReturn
  <2>3. Len(rows') = 0 /\ Len(attested') = 0
    BY <2>1
  <2> QED BY <2>1, <2>2, <2>3 DEF PlaceInv, Lengths, Early, Running, Seeing
<1>2. ASSUME AttemptStep PROVE Goal
  <2>1. StaysOrStops /\ Len(rows) = at - 1 /\ Len(attested) = at - 1
    BY <1>2, AttemptsStayOrStop DEF PlaceInv
  <2>2. CASE pc' \in Running /\ UNCHANGED <<attested, ending>>
    BY <2>1, <2>2 DEF PlaceInv, StaysOrStops, Early, Running, Seeing
  <2>3. CASE pc' = "escape"
    BY <2>3 DEF PlaceInv, Early, Running, Seeing
  <2>4. CASE \E code \in Codes : AbortsAs(code)
    <3>1. /\ pc' = "finish" /\ ending'.cut
          /\ ending'.code = "CLEANUP_FAILED" => ending'.diagnosed
      BY <2>4 DEF AbortsAs
    <3>2. Len(attested') \in {at - 1, at} /\ Len(rows') = at - 1 /\ at' = at
      BY <1>0, <2>1, <2>4, AttestsOneMore DEF StaysOrStops, AbortsAs, Running, Seeing
    <3> QED BY <1>0, <3>1, <3>2 DEF PlaceInv, Early, Running, Seeing
  <2> QED BY <2>1, <2>2, <2>3, <2>4 DEF StaysOrStops
<1>3. ASSUME CloseRow PROVE Goal
  <2>1. Len(rows) = at - 1 /\ Len(attested) = at - 1 /\ at' = at
    BY <1>3, CloseRowDoes DEF PlaceInv, Running, Seeing
  <2>2. Len(attested') = at
    BY <1>0, <1>3, <2>1, CloseRowDoes
  <2>3. /\ rows' # rows => Len(rows') = at
        /\ Len(rows') \in {at - 1, at}
    BY <1>0, <1>3, <2>1, CloseRowDoes
  <2>4. \/ /\ pc' = "finish" /\ ending'.cut
           /\ ending'.code = "CLEANUP_FAILED" => ending'.diagnosed
        \/ pc' = "next" /\ rows' # rows
    BY <1>3, CloseRowDoes
  <2> QED BY <1>0, <2>1, <2>2, <2>3, <2>4 DEF PlaceInv, Early, Running, Seeing
<1>4. ASSUME NextRow PROVE Goal
  BY <1>0, <1>4 DEF NextRow, PlaceInv, Early, Running, Seeing, streamVars
<1>5. ASSUME Score PROVE Goal
  <2> DEFINE verdict == Verdict(ArmRows(Document, "PARENT"), ArmRows(Document, "CANDIDATE"))
             cut == FALSE
  <2>1. verdict \in Verdicts /\ cut \in BOOLEAN /\ "NONE" \in Codes
    BY DEF Verdict, Verdicts, Codes
  <2>2. Ends(verdict, "NONE", cut, cut)
    BY <1>5, Zenon DEF Score
  <2> HIDE DEF verdict, cut
  <2>3. pc' = "finish" /\ ending'.code = "NONE"
    BY <2>1, <2>2, EndsTyped
  <2>4. Len(rows') = at /\ Len(attested') = at /\ at' = at
    BY <1>5 DEF Score, PlaceInv, streamVars
  <2> QED BY <1>0, <2>3, <2>4 DEF PlaceInv, Early, Running, Seeing
<1>6. ASSUME Finish PROVE Goal
  <2>1. pc = "finish" /\ pc' = "emit" /\ rows' = rows
    BY <1>6 DEF Finish
  <2>2. \/ ending' = ending /\ attested' = attested /\ ~ending.diagnosed
        \/ Truncates /\ attested' = SubSeq(attested, 1, at - 1)
        \/ ~Truncates /\ attested' = attested
    BY <1>6 DEF Finish
  <2>3. ASSUME Truncates, attested' = SubSeq(attested, 1, at - 1)
        PROVE  Len(attested') = Len(rows)
    <3>1. at - 1 \in Nat /\ at - 1 <= Len(attested) /\ Len(rows) = at - 1
      BY <1>0, <2>1, <2>3 DEF Truncates, PlaceInv
    <3> QED BY <1>0, <2>3, <3>1, CutTyped
  <2>4. ASSUME ~Truncates PROVE Len(attested) = Len(rows)
    BY <1>0, <2>1, <2>4 DEF Truncates, PlaceInv
  <2>5. Len(attested) - Len(rows) \in {0, 1} /\ (ending.code = "CLEANUP_FAILED" => ending.diagnosed)
    BY <1>0, <2>1 DEF PlaceInv
  <2>6. Lengths(ending.code)'
    BY <1>0, <2>1, <2>2, <2>3, <2>4, <2>5 DEF Lengths
  <2> QED BY <2>1, <2>6 DEF PlaceInv, Early, Running, Seeing
<1>7. ASSUME Emit PROVE Goal
  <2>1. pc = "emit" /\ pc' \in {"done", "escape"} /\ Lengths(ending.code)
    BY <1>7 DEF Emit, PlaceInv
  <2>2. CASE pc' = "escape"
    BY <2>2 DEF PlaceInv, Early, Running, Seeing
  <2>3. CASE UNCHANGED streamVars /\ outcome' = [exit |-> 0, status |-> ending.status, code |-> ending.code]
             /\ pc' = "done"
    BY <2>1, <2>3 DEF PlaceInv, Lengths, Early, Running, Seeing, streamVars
  <2>4. CASE rows' = <<>> /\ attested' = <<>> /\ pc' = "done"
    BY <2>4 DEF PlaceInv, Lengths, Early, Running, Seeing
  <2> QED BY <1>7, <2>2, <2>3, <2>4 DEF Emit
<1>8. ASSUME Escape PROVE Goal
  <2>1. rows' = <<>> /\ attested' = <<>> /\ pc' = "done"
    BY <1>8 DEF Escape
  <2> QED BY <2>1 DEF PlaceInv, Lengths, Early, Running, Seeing
<1>9. ASSUME WorldChanges \/ UNCHANGED vars PROVE Goal
  BY <1>9, WorldsApart DEF PlaceInv, Lengths, Evaluation, checkVars, streamVars, endVars
<1> QED BY <1>1, <1>2, <1>3, <1>4, <1>5, <1>6, <1>7, <1>8, <1>9, NextSplits

LEMMA QuietKept ==
  ASSUME TypesInv, FilesInv, SeenInv, TriesInv, QuietInv, [Next]_vars
  PROVE  QuietInv'
<1> DEFINE Goal == QuietInv'
<1>0. "ERROR" \notin Verdicts /\ "none" \notin Verdicts
  BY DEF Verdicts
<1>1. ASSUME AdmissionStep PROVE Goal
  BY <1>0, <1>1, AdmissionsGoOnOrReturn DEF QuietInv, Early, Ending
<1>2. ASSUME AttemptStep PROVE Goal
  <2>1. StaysOrStops /\ pc \in Running
    BY <1>2, AttemptsStayOrStop
  <2>2. CASE pc' \in Running /\ (childLeft' => childLeft)
    BY <2>1, <2>2 DEF QuietInv, Running, Seeing, Ending
  <2>3. CASE pc' = "escape" \/ (pc' = "finish" /\ ending'.status = "ERROR")
    BY <1>0, <2>3 DEF QuietInv, Ending
  <2> QED BY <2>1, <2>2, <2>3 DEF StaysOrStops, AbortsAs
<1>3. ASSUME CloseRow PROVE Goal
  BY <1>0, <1>3, CloseRowDoes DEF QuietInv, Ending
<1>4. ASSUME NextRow \/ Score PROVE Goal
  BY <1>4 DEF NextRow, Score, Ends, QuietInv, Ending
<1>6. ASSUME Finish PROVE Goal
  <2>1. PICK stuck \in SUBSET owned :
          /\ Retires(owned, stuck)
          /\ \/ ending'.status = "ERROR"
             \/ stuck = {} /\ UNCHANGED ending
    BY <1>6 DEF Finish, TypesInv, Endings
  <2>2. stuck = {} => owned' = {}
    BY <2>1 DEF Retires
  <2> QED BY <1>0, <1>6, <2>1, <2>2 DEF Finish, QuietInv, Ending
<1>7. ASSUME Emit PROVE Goal
  BY <1>0, <1>7 DEF Emit, QuietInv, Ending, inputVars
<1>8. ASSUME Escape PROVE Goal
  <2>1. PICK stuck \in SUBSET owned :
          /\ Retires(owned, stuck)
          /\ outcome' = [exit |-> IF stuck = {} THEN 2 ELSE 3, status |-> "none", code |-> "none"]
    BY <1>8 DEF Escape
  <2>2. stuck = {} => owned' = {}
    BY <2>1 DEF Retires
  <2>3. outcome'.status = "none" /\ (outcome'.exit = 2 => stuck = {})
    BY <2>1
  <2> QED BY <1>0, <1>8, <2>2, <2>3 DEF Escape, QuietInv, Ending
<1>9. ASSUME WorldChanges \/ UNCHANGED vars PROVE Goal
  BY <1>9, WorldsApart DEF QuietInv, Evaluation, endVars
<1> QED BY <1>1, <1>2, <1>3, <1>4, <1>6, <1>7, <1>8, <1>9, NextSplits
-----------------------------------------------------------------------------
(* What the steps of an attempt do to what it has seen.                    *)

Grows ==
  /\ trace.requests \subseteq trace'.requests /\ trace.results \subseteq trace'.results
  /\ trace.inputs \subseteq trace'.inputs /\ trace.expected \subseteq trace'.expected

LEMMA BeforeDoes ==
  ASSUME TypesInv, BeforeSnapshot
  PROVE  /\ pc = "before" /\ UNCHANGED <<at, attempt, baseline, measured, tries, after>>
         /\ before' \in Results /\ before'.of = Id /\ Grows
         /\ Id \in trace'.requests /\ before' \in trace'.results
         /\ \/ /\ pc' = "baseline" /\ before'.status = "MATCH" /\ before'.world \in Worlds
               /\ trace'.results = trace.results \cup {before'}
               /\ trace'.inputs = trace.inputs \cup {Input(before'.world)}
               /\ trace'.expected = trace.expected
            \/ pc' = "finish" /\ before'.status # "MATCH" /\ Attests("PRECHECK_FAILED")
<1>1. PICK status \in Snapshots :
        /\ before' = Observed(status) /\ UNCHANGED after
        /\ trace' = [trace EXCEPT !.requests = @ \cup {Id}, !.results = @ \cup {before'},
                                  !.inputs = IF status = "MATCH" THEN @ \cup {Input(world)} ELSE @]
        /\ IF status = "MATCH" THEN pc' = "baseline"
           ELSE Attests("PRECHECK_FAILED") /\ pc' = "finish"
  BY DEF BeforeSnapshot, Aborts, Ends
<1>2. /\ before' \in Results /\ before'.of = Id /\ before'.status = status
      /\ status = "MATCH" => before'.world = world
  BY <1>1, ObservedTyped
<1> DEFINE inputs == IF status = "MATCH" THEN trace.inputs \cup {Input(world)} ELSE trace.inputs
<1>3. trace' = [requests |-> trace.requests \cup {Id}, results |-> trace.results \cup {before'},
                inputs |-> inputs, expected |-> trace.expected]
  <2>1. /\ trace.requests \cup {Id} \in SUBSET Attempts
        /\ trace.results \cup {before'} \in SUBSET Results /\ trace \in Traces
    BY <1>2, IdTyped DEF TypesInv, Traces
  <2> DEFINE requests == trace.requests \cup {Id}
             results == trace.results \cup {before'}
  <2>2. trace' = [trace EXCEPT !.requests = requests, !.results = results, !.inputs = inputs]
    BY <1>1
  <2> HIDE DEF inputs, requests, results
  <2>3. requests \in SUBSET Attempts /\ results \in SUBSET Results /\ trace \in Traces
    BY <2>1 DEF requests, results
  <2>4. trace' = [requests |-> requests, results |-> results, inputs |-> inputs,
                  expected |-> trace.expected]
    BY <2>2, <2>3, TraceOfThree
  <2> QED BY <2>4 DEF requests, results
<1>4. trace.inputs \subseteq inputs /\ (status = "MATCH" => inputs = trace.inputs \cup {Input(world)})
  OBVIOUS
<1> HIDE DEF inputs
<1>5. /\ Grows /\ Id \in trace'.requests /\ before' \in trace'.results /\ trace'.inputs = inputs
      /\ trace'.results = trace.results \cup {before'} /\ trace'.expected = trace.expected
  BY <1>3, <1>4 DEF Grows
<1>6. pc = "before" /\ UNCHANGED <<at, attempt, baseline, measured, tries, after>>
  BY <1>1 DEF BeforeSnapshot, checkVars
<1> QED BY <1>1, <1>2, <1>4, <1>5, <1>6 DEF TypesInv

LEMMA AfterDoes ==
  ASSUME TypesInv, AfterSnapshot
  PROVE  /\ pc = "after" /\ UNCHANGED <<at, attempt, baseline, measured, tries, before>>
         /\ after' \in Results /\ after'.of = Id /\ Grows /\ after' \in trace'.results
         /\ trace'.results = trace.results \cup {after'}
         /\ trace'.inputs = trace.inputs /\ trace'.expected = trace.expected
         /\ \/ pc' = "drift" /\ after'.status = "MATCH" /\ after'.world \in Worlds
            \/ pc' = "finish" /\ after'.status # "MATCH" /\ Attests("POSTCHECK_FAILED")
<1>1. PICK status \in Snapshots :
        /\ after' = Observed(status)
        /\ trace' = [trace EXCEPT !.results = @ \cup {after'}]
        /\ IF status = "MATCH" THEN pc' = "drift"
           ELSE Attests("POSTCHECK_FAILED") /\ pc' = "finish"
  BY DEF AfterSnapshot, Aborts, Ends
<1>2. /\ after' \in Results /\ after'.of = Id /\ after'.status = status
      /\ status = "MATCH" => after'.world = world
  BY <1>1, ObservedTyped
<1>3. trace' = [requests |-> trace.requests, results |-> trace.results \cup {after'},
                inputs |-> trace.inputs, expected |-> trace.expected]
  BY <1>1, TraceOfOne, Zenon DEF TypesInv
<1>4. /\ Grows /\ after' \in trace'.results /\ trace'.results = trace.results \cup {after'}
      /\ trace'.inputs = trace.inputs /\ trace'.expected = trace.expected
  BY <1>3 DEF Grows
<1>5. pc = "after" /\ UNCHANGED <<at, attempt, baseline, measured, tries, before>>
  BY DEF AfterSnapshot, checkVars
<1> QED BY <1>1, <1>2, <1>4, <1>5 DEF TypesInv

LEMMA CheckAfterDoes ==
  ASSUME TypesInv, CheckAfter
  PROVE  /\ pc = "drift"
         /\ UNCHANGED <<at, attempt, baseline, measured, tries, before, after>> /\ Grows
         /\ \/ /\ pc' = "finish" /\ Attests("POSTCHECK_DRIFT")
               /\ Input(after.world) \in trace'.inputs
            \/ /\ pc' \in {"record", "finish"} /\ UNCHANGED <<attested, trace>>
               /\ DriftCode(after.world) = "NONE"
<1>1. pc = "drift" /\ UNCHANGED <<at, attempt, baseline, measured, tries, before, after>>
  BY DEF CheckAfter, checkVars
<1>2. \/ trace' = trace
      \/ trace' = [requests |-> trace.requests, results |-> trace.results,
                   inputs |-> trace.inputs \cup {Input(after.world)}, expected |-> trace.expected]
  BY TraceOfOne, Zenon DEF CheckAfter, TypesInv
<1>3. Grows
  BY <1>2 DEF Grows
<1>4. CASE DriftCode(after.world) = "NONE"
  <2>1. pc' \in {"record", "finish"} /\ UNCHANGED <<attested, trace>>
    BY <1>4 DEF CheckAfter, Aborts, Ends
  <2> QED BY <1>1, <1>3, <1>4, <2>1
<1>5. CASE DriftCode(after.world) # "NONE"
  <2>1. pc' = "finish" /\ Attests("POSTCHECK_DRIFT")
    BY <1>5 DEF CheckAfter, Aborts, Ends
  <2>2. trace' = [requests |-> trace.requests, results |-> trace.results,
                  inputs |-> trace.inputs \cup {Input(after.world)}, expected |-> trace.expected]
    BY <1>5, TraceOfOne, Zenon DEF CheckAfter, TypesInv
  <2>3. Input(after.world) \in trace'.inputs
    BY <2>2
  <2> QED BY <1>1, <1>3, <2>1, <2>3
<1> QED BY <1>4, <1>5

LEMMA RecordDoes ==
  ASSUME TypesInv, RecordAttempt
  PROVE  /\ pc = "record"
         /\ UNCHANGED <<at, attempt, baseline, measured, before, after, attested>> /\ Grows
         /\ trace'.results = trace.results /\ trace'.inputs = trace.inputs
         /\ trace'.requests = trace.requests
         /\ \/ /\ pc' = "repair"
               /\ tries' = Append(tries, [ran |-> TRUE, status |-> measured.status, time |-> measured.time,
                                          before |-> before.world, after |-> after.world])
               /\ trace'.expected = trace.expected \cup {Id}
            \/ pc' = "finish" /\ UNCHANGED <<tries, trace>>
<1>1. pc = "record" /\ UNCHANGED <<at, attempt, baseline, measured, before, after, attested>>
  BY DEF RecordAttempt, checkVars, attemptVars
<1>2. \/ /\ pc' = "repair"
         /\ tries' = Append(tries, [ran |-> TRUE, status |-> measured.status, time |-> measured.time,
                                    before |-> before.world, after |-> after.world])
         /\ trace' = [requests |-> trace.requests, results |-> trace.results, inputs |-> trace.inputs,
                      expected |-> trace.expected \cup {Id}]
      \/ pc' = "finish" /\ UNCHANGED <<tries, trace>>
  BY TraceOfOne, Zenon DEF RecordAttempt, TypesInv, Aborts, Ends
<1> DEFINE Grown == tries' = Append(tries, [ran |-> TRUE, status |-> measured.status, time |-> measured.time,
                                    before |-> before.world, after |-> after.world])
<1> HIDE DEF Grown
<1>3. \/ /\ pc' = "repair" /\ Grown
         /\ trace' = [requests |-> trace.requests, results |-> trace.results, inputs |-> trace.inputs,
                      expected |-> trace.expected \cup {Id}]
      \/ pc' = "finish" /\ UNCHANGED <<tries, trace>>
  BY <1>2, Zenon DEF Grown
<1>4. /\ Grows /\ trace'.results = trace.results /\ trace'.inputs = trace.inputs
      /\ trace'.requests = trace.requests
      /\ \/ pc' = "repair" /\ Grown /\ trace'.expected = trace.expected \cup {Id}
         \/ pc' = "finish" /\ UNCHANGED <<tries, trace>>
  BY <1>3 DEF Grows
<1> QED BY <1>1, <1>4, Zenon DEF Grown

LEMMA WorldsDiffer ==
  /\ \A v, w \in Worlds : v.env = w.env /\ v.input = w.input => v = w
  /\ None \notin Worlds
  /\ \A w \in Worlds : w.env # 9
<1>1. \A v, w \in Worlds : v.env = w.env /\ v.input = w.input => v = w
  BY DEF Worlds
<1>2. \A w \in Worlds : w.env # 9
  BY DEF Worlds
<1>3. None.env = 9
  BY DEF None
<1> QED BY <1>1, <1>2, <1>3

LEMMA NoDriftIsSame ==
  ASSUME NEW w \in Worlds, baseline \in Worlds, DriftCode(w) = "NONE"
  PROVE  w = baseline
<1>1. w.env = baseline.env /\ w.input = baseline.input
  BY DEF DriftCode
<1> QED BY <1>1, WorldsDiffer

\* The baseline is what the attempt saw, once it is checked.
LEMMA BaselineDoes ==
  ASSUME TypesInv, CheckBaseline
  PROVE  /\ pc = "baseline" /\ UNCHANGED <<at, attempt, before, after, measured, tries, trace>>
         /\ \/ baseline' = baseline /\ pc' = "finish" /\ Attests("PRECHECK_DRIFT")
            \/ /\ pc' \in {"launch", "finish"} /\ UNCHANGED attested
               /\ baseline = None /\ baseline' = before.world
            \/ /\ pc' \in {"launch", "finish"} /\ UNCHANGED <<attested, baseline>>
               /\ baseline \in Worlds /\ DriftCode(before.world) = "NONE"
<1>1. pc = "baseline" /\ UNCHANGED <<at, attempt, before, after, measured, tries, trace>>
  BY DEF CheckBaseline
<1>2. baseline # None => baseline \in Worlds
  BY DEF TypesInv, Seen
<1> QED BY <1>1, <1>2 DEF CheckBaseline, Aborts, Ends

LEMMA SeenKept ==
  ASSUME TypesInv, SeenInv, [Next]_vars
  PROVE  SeenInv'
<1> DEFINE Goal == SeenInv'
<1>0. pc' \notin {"before"} \cup Seeing => Goal
  BY DEF SeenInv, Seeing
<1>1. ASSUME AdmissionStep PROVE Goal
  BY <1>0, <1>1, AdmissionsGoOnOrReturn DEF Early, Seeing
<1>2. ASSUME Prepare PROVE Goal
  <2>1. pc' \in {"before", "escape"} /\ before' = NoResult /\ after' = NoResult
    BY <1>2 DEF Prepare, Escapes
  <2> QED BY <1>0, <2>1 DEF SeenInv, Seeing
<1>3. ASSUME BeforeSnapshot PROVE Goal
  <2>1. CASE pc' = "finish"
    BY <1>0, <2>1 DEF Seeing
  <2>2. CASE pc' = "baseline"
    BY <1>3, <2>2, BeforeDoes DEF SeenInv, Seeing, Id, Input
  <2> QED BY <1>3, <2>1, <2>2, BeforeDoes
<1>4. ASSUME CheckBaseline PROVE Goal
  <2>1. CASE pc' = "finish"
    BY <1>0, <2>1 DEF Seeing
  <2>2. CASE pc' = "launch"
    <3>1. before.world \in Worlds
      BY <1>4, BaselineDoes DEF SeenInv, Seeing
    <3>2. baseline' = before'.world
      BY <1>4, <2>2, <3>1, BaselineDoes, NoDriftIsSame
    <3> QED BY <1>4, <2>2, <3>2, BaselineDoes DEF SeenInv, Seeing, Id, Input
  <2> QED BY <1>4, <2>1, <2>2, BaselineDoes
<1>5. ASSUME Launch PROVE Goal
  <2>1. /\ pc = "launch" /\ pc' \in {"adapter", "finish", "escape"}
        /\ UNCHANGED <<at, attempt, before, after, baseline, trace>>
    BY <1>5 DEF Launch, AdapterFails, Aborts, Ends, EscapesAttempt, Escapes, checkVars
  <2> QED BY <1>0, <2>1 DEF SeenInv, Seeing, Id, Input
<1>6. ASSUME AdapterEnds PROVE Goal
  <2>1. /\ pc = "adapter" /\ pc' \in {"after", "finish", "escape"}
        /\ UNCHANGED <<at, attempt, before, after, baseline, trace>>
        /\ pc' = "after" => measured' \in Measurements
    BY <1>6 DEF AdapterEnds, AdapterFails, Aborts, Ends, EscapesAttempt, Escapes, checkVars
  <2> QED BY <1>0, <2>1 DEF SeenInv, Seeing, Id, Input
<1>7. ASSUME AfterSnapshot PROVE Goal
  <2>1. CASE pc' = "finish"
    BY <1>0, <2>1 DEF Seeing
  <2>2. CASE pc' = "drift"
    BY <1>7, <2>2, AfterDoes DEF SeenInv, Seeing, Id, Input, Grows
  <2> QED BY <1>7, <2>1, <2>2, AfterDoes
<1>8. ASSUME CheckAfter PROVE Goal
  <2>1. CASE pc' = "finish"
    BY <1>0, <2>1 DEF Seeing
  <2>2. CASE pc' = "record"
    <3>1. /\ before.world \in Worlds /\ after.world \in Worlds /\ baseline = before.world
          /\ before.of = after.of /\ before.status = after.status
      BY <1>8, CheckAfterDoes DEF SeenInv, Seeing
    <3>2. DriftCode(after.world) = "NONE"
      BY <1>8, <2>2, CheckAfterDoes
    <3>3. after.world = before.world
      BY <3>1, <3>2, NoDriftIsSame
    <3>4. before.status = "MATCH" /\ after.status = "MATCH"
      BY <1>8, CheckAfterDoes DEF SeenInv, Seeing
    <3>5. before \in Results /\ after \in Results
      <4>1. NoResult.status # "MATCH"
        BY DEF NoResult
      <4> QED BY <3>4, <4>1 DEF TypesInv
    <3>6. after = before
      BY <3>1, <3>3, <3>5 DEF Results
    <3> QED BY <1>8, <2>2, <3>6, CheckAfterDoes DEF SeenInv, Seeing, Id, Input, Grows
  <2> QED BY <1>8, <2>1, <2>2, CheckAfterDoes
<1>9. ASSUME RecordAttempt PROVE Goal
  BY <1>0, <1>9, RecordDoes DEF SeenInv, Seeing, Id, Input
<1>10. ASSUME Repair PROVE Goal
  <2>1. CASE pc' = "close"
    BY <1>10, <2>1 DEF Repair, Aborts, Ends, checkVars, attemptVars, streamVars,
       SeenInv, Seeing, Id, Input
  <2>2. CASE pc' \in {"prepare", "finish"}
    BY <1>0, <2>2 DEF Seeing
  <2> QED BY <1>10, <2>1, <2>2 DEF Repair, Aborts, Ends
<1>11. ASSUME CloseRow PROVE Goal
  BY <1>0, <1>11 DEF CloseRow, Aborts, Ends, Seeing
<1>12. ASSUME NextRow \/ Score \/ Finish \/ Emit \/ Escape PROVE Goal
  BY <1>0, <1>12 DEF NextRow, Score, Ends, Finish, Emit, Escape, Seeing
<1>13. ASSUME WorldChanges \/ UNCHANGED vars PROVE Goal
  BY <1>13, WorldsApart DEF SeenInv, Id, Input, Evaluation, checkVars, attemptVars, streamVars
<1> QED BY <1>1, <1>2, <1>3, <1>4, <1>5, <1>6, <1>7, <1>8, <1>9, <1>10, <1>11, <1>12, <1>13,
           NextSplits DEF AttemptStep

\* What an attempt rests on stays in the streams.
BackedNext(x, t) ==
  /\ x \in trace'.requests /\ x \in trace'.expected
  /\ t.before = t.after /\ t.before \in Worlds
  /\ [of |-> x, status |-> "MATCH", world |-> t.before] \in trace'.results
  /\ [of |-> x, world |-> t.before] \in trace'.inputs

LEMMA BackedStays ==
  ASSUME Grows
  PROVE  \A x, t : Backed(x, t) => BackedNext(x, t)
BY DEF Grows, Backed, BackedNext

\* The attempts before the one that runs.
EarlierTries ==
  /\ Len(tries) = attempt - 1
  /\ \A n \in DOMAIN tries :
       tries[n].ran /\ Backed(<<at, n>>, tries[n]) /\ tries[n].before = baseline

LEMMA EarlierStay ==
  ASSUME EarlierTries, Grows, UNCHANGED <<at, attempt, tries, baseline>>
  PROVE  EarlierTries'
<1>1. /\ Len(tries') = attempt' - 1
      /\ \A n \in DOMAIN tries' :
           tries'[n].ran /\ BackedNext(<<at', n>>, tries'[n]) /\ tries'[n].before = baseline'
  BY BackedStays DEF EarlierTries
<1> QED BY <1>1 DEF EarlierTries, Backed, BackedNext

LEMMA Longer ==
  ASSUME NEW S, NEW s \in Seq(S), NEW e \in S
  PROVE  /\ Len(Append(s, e)) = Len(s) + 1 /\ DOMAIN Append(s, e) = 1..(Len(s) + 1)
         /\ DOMAIN s = 1..Len(s) /\ Len(s) \in Nat
         /\ Append(s, e)[Len(s) + 1] = e
         /\ \A i \in DOMAIN s : Append(s, e)[i] = s[i]
OBVIOUS

LEMMA SkippedIs ==
  /\ ~Skipped.ran /\ Skipped \in Tried
  /\ Skipped.status = "SKIPPED" /\ Skipped.time = 0
<1> DEFINE no == FALSE
<1>1. Skipped = [ran |-> no, status |-> "SKIPPED", time |-> 0, before |-> None, after |-> None]
  BY Zenon DEF Skipped
<1>2. ~no /\ no \in BOOLEAN
  OBVIOUS
<1> HIDE DEF no
<1>3. None \in Seen
  BY DEF Seen
<1> QED BY <1>1, <1>2, <1>3 DEF Tried

LEMMA TriesKept ==
  ASSUME TypesInv, PlaceInv, SeenInv, TriesInv, [Next]_vars
  PROVE  TriesInv'
<1> DEFINE Goal == TriesInv'
<1>0. pc' \notin Running => Goal
  BY DEF TriesInv, Running, Seeing
<1>01. pc \in Running \ {"repair", "close"} => EarlierTries
  BY DEF TriesInv, EarlierTries
<1>02. EarlierTries' /\ pc' \in Running \ {"repair", "close"} => Goal
  BY DEF TriesInv, EarlierTries
<1>1. ASSUME AdmissionStep PROVE Goal
  <2>1. tries' = <<>> /\ attempt' = 1 /\ pc' \notin {"repair", "close"}
    BY <1>1, AdmissionsGoOnOrReturn DEF PlaceInv, Early
  <2> QED BY <1>02, <2>1 DEF TriesInv, EarlierTries
<1>2. ASSUME Prepare \/ Launch \/ AdapterEnds PROVE Goal
  <2>1. /\ pc \in Running \ {"repair", "close"}
        /\ pc' \in {"before", "adapter", "after", "finish", "escape"}
        /\ UNCHANGED <<at, attempt, tries, baseline, trace>>
    BY <1>2 DEF Prepare, Launch, AdapterEnds, AdapterFails, Aborts, Ends, EscapesAttempt, Escapes,
       checkVars, streamVars, Running, Seeing
  <2>2. Grows
    BY <2>1 DEF Grows
  <2> QED BY <1>0, <1>01, <1>02, <2>1, <2>2, EarlierStay DEF Running, Seeing
<1>3. ASSUME BeforeSnapshot \/ AfterSnapshot \/ CheckAfter PROVE Goal
  <2>1. /\ pc \in Running \ {"repair", "close"}
        /\ pc' \in {"baseline", "drift", "record", "finish"}
        /\ UNCHANGED <<at, attempt, tries, baseline>> /\ Grows
    BY <1>3, BeforeDoes, AfterDoes, CheckAfterDoes DEF Running, Seeing
  <2> QED BY <1>0, <1>01, <1>02, <2>1, EarlierStay DEF Running, Seeing
<1>4. ASSUME CheckBaseline PROVE Goal
  <2>1. CASE pc' = "finish"
    BY <1>0, <2>1 DEF Running, Seeing
  <2>2. CASE pc' = "launch"
    <3>1. EarlierTries /\ UNCHANGED <<at, attempt, tries, trace>>
      BY <1>4, <1>01, BaselineDoes DEF Running, Seeing
    <3>2. CASE UNCHANGED baseline
      BY <1>02, <2>2, <3>1, <3>2, EarlierStay DEF Grows, Running, Seeing
    <3>3. CASE baseline = None
      <4>1. DOMAIN tries = {}
        BY <3>1, <3>3, WorldsDiffer DEF EarlierTries, Backed
      <4> QED BY <1>02, <2>2, <3>1, <4>1 DEF EarlierTries, Running, Seeing
    <3> QED BY <1>4, <2>2, <3>2, <3>3, BaselineDoes
  <2> QED BY <1>4, <2>1, <2>2, BaselineDoes
<1>5. ASSUME RecordAttempt PROVE Goal
  <2>1. CASE pc' = "finish"
    BY <1>0, <2>1 DEF Running, Seeing
  <2>2. CASE pc' = "repair"
    <3> DEFINE yes == TRUE
               new == [ran |-> yes, status |-> measured.status, time |-> measured.time,
                       before |-> before.world, after |-> after.world]
    <3>1. tries' = Append(tries, new)
      BY <1>5, <2>2, RecordDoes
    <3>2. new.ran
      BY Zenon
    <3>3. new.before = before.world /\ new.after = after.world
      OBVIOUS
    <3> HIDE DEF new, yes
    <3>4. EarlierTries /\ UNCHANGED <<at, attempt, baseline>> /\ Grows
      BY <1>01, <1>5, RecordDoes DEF Running, Seeing
    <3>5. /\ before.of = Id /\ before.status = "MATCH" /\ before.world \in Worlds /\ after = before
          /\ Id \in trace.requests /\ before \in trace.results /\ Input(before.world) \in trace.inputs
          /\ baseline = before.world
      BY <1>5, RecordDoes DEF SeenInv, Seeing
    <3>6. before = [of |-> Id, status |-> "MATCH", world |-> before.world]
      <4>1. NoResult.status # "MATCH"
        BY DEF NoResult
      <4> QED BY <3>5, <4>1 DEF TypesInv, Results
    <3>7. Id \in trace'.expected
      BY <1>5, <2>2, RecordDoes
    <3>8. BackedNext(<<at, attempt>>, new) /\ new.before = baseline
      <4>1. [of |-> Id, world |-> before.world] \in trace'.inputs
        BY <3>4, <3>5 DEF Grows, Input
      <4>2. [of |-> Id, status |-> "MATCH", world |-> before.world] \in trace'.results
        BY <3>4, <3>5, <3>6 DEF Grows
      <4>3. Id \in trace'.requests
        BY <3>4, <3>5 DEF Grows
      <4> QED BY <3>3, <3>5, <3>7, <4>1, <4>2, <4>3 DEF BackedNext, Id
    <3>9. /\ tries \in Seq(Tried) /\ attempt \in {1, 2} /\ Len(tries) = attempt - 1
      BY <3>4 DEF TypesInv, EarlierTries
    <3>10. /\ Len(tries') = attempt /\ DOMAIN tries' = DOMAIN tries \cup {attempt}
           /\ tries'[attempt] = new /\ \A n \in DOMAIN tries : tries'[n] = tries[n]
      BY <3>1, <3>9
    <3>11. \A n \in DOMAIN tries : tries[n].ran /\ BackedNext(<<at, n>>, tries[n]) /\ tries[n].before = baseline
      BY <3>4, BackedStays DEF EarlierTries
    <3>12. \A n \in DOMAIN tries' :
             tries'[n].ran /\ BackedNext(<<at, n>>, tries'[n]) /\ tries'[n].before = baseline
      BY <3>2, <3>8, <3>10, <3>11
    <3> QED BY <2>2, <3>4, <3>10, <3>12 DEF TriesInv, Running, Seeing, Backed, BackedNext
  <2> QED BY <1>5, <2>1, <2>2, RecordDoes
<1>6. ASSUME Repair PROVE Goal
  <2>1. /\ pc = "repair" /\ UNCHANGED <<at, baseline, trace>> /\ attempt \in {1, 2}
        /\ tries \in Seq(Tried)
    BY <1>6 DEF Repair, checkVars, streamVars, TypesInv
  <2>2. /\ Len(tries) = attempt
        /\ \A n \in DOMAIN tries :
             tries[n].ran /\ Backed(<<at, n>>, tries[n]) /\ tries[n].before = baseline
    BY <2>1 DEF TriesInv, Running, Seeing
  <2>3. CASE pc' = "close" /\ UNCHANGED <<attempt, tries>>
    BY <2>1, <2>2, <2>3 DEF TriesInv, Running, Seeing, Backed
  <2>4. CASE pc' = "close" /\ attempt = 1 /\ UNCHANGED attempt /\ tries' = Append(tries, Skipped)
    <3>1. Len(tries) = 1 /\ 1 \in DOMAIN tries
      BY <2>1, <2>2, <2>4
    <3>2. /\ Len(tries') = 2 /\ DOMAIN tries' = 1..2
          /\ tries'[2] = Skipped /\ tries'[1] = tries[1]
      BY <2>1, <2>4, <3>1, SkippedIs, Longer
    <3>3. /\ tries'[1].ran /\ Backed(<<at, 1>>, tries'[1]) /\ tries'[1].before = baseline
          /\ ~tries'[2].ran
      BY <2>2, <3>1, <3>2, SkippedIs
    <3>4. \A n \in DOMAIN tries' : n = 1 \/ n = 2
      BY <3>2
    <3>5. \A n \in DOMAIN tries' :
            tries'[n].ran => Backed(<<at, n>>, tries'[n]) /\ tries'[n].before = baseline
      BY <3>3, <3>4
    <3> QED BY <2>1, <2>4, <3>2, <3>3, <3>5 DEF TriesInv, Running, Seeing, Backed
  <2>5. CASE attempt = 1 /\ attempt' = 2 /\ pc' = "prepare" /\ UNCHANGED tries
    BY <2>1, <2>2, <2>5 DEF TriesInv, Running, Seeing, Backed
  <2>6. CASE pc' = "finish"
    BY <1>0, <2>6 DEF Running, Seeing
  <2> QED BY <1>6, <2>3, <2>4, <2>5, <2>6 DEF Repair, MayRepair, Aborts, Ends
<1>7. ASSUME CloseRow PROVE Goal
  BY <1>0, <1>7, CloseRowDoes DEF Running, Seeing
<1>8. ASSUME NextRow PROVE Goal
  <2>1. pc' = "prepare" /\ tries' = <<>> /\ attempt' = 1
    BY <1>8 DEF NextRow
  <2> QED BY <1>02, <2>1 DEF EarlierTries, Running, Seeing
<1>9. ASSUME Score \/ Finish \/ Emit \/ Escape PROVE Goal
  BY <1>0, <1>9 DEF Score, Ends, Finish, Emit, Escape, Running, Seeing
<1>10. ASSUME WorldChanges \/ UNCHANGED vars PROVE Goal
  BY <1>10, WorldsApart DEF TriesInv, Backed, Evaluation, checkVars, streamVars
<1> QED BY <1>1, <1>2, <1>3, <1>4, <1>5, <1>6, <1>7, <1>8, <1>9, <1>10, NextSplits DEF AttemptStep

LEMMA TasksFollow ==
  ASSUME NEW i \in Nat \ {0}, NEW j \in Nat \ {0}, i <= j
  PROVE  TaskOf(i) \in Nat \ {0} /\ TaskOf(i) <= TaskOf(j)
<1>1. SampleCount \in Nat \ {0}
  BY LastIsThere
<1> DEFINE k == 2 * SampleCount
<1>2. k \in Nat \ {0}
  BY <1>1
<1>3. TaskOf(i) = (i - 1) \div k + 1 /\ TaskOf(j) = (j - 1) \div k + 1
  BY DEF TaskOf
<1> HIDE DEF k
<1>4. \A a \in Nat, m \in Nat \ {0} : a \div m \in Nat /\ m * (a \div m) <= a /\ a < m * (a \div m) + m
  BY SMT
<1>5. ASSUME NEW a \in Nat, NEW b \in Nat, a <= b PROVE a \div k <= b \div k
  <2> DEFINE p == a \div k
             q == b \div k
  <2>1. p \in Nat /\ q \in Nat /\ k * p <= a /\ b < k * q + k
    BY <1>2, <1>4
  <2> HIDE DEF p, q
  <2>2. k * p < k * q + k
    BY <1>2, <1>5, <2>1
  <2>3. SUFFICES ASSUME p >= q + 1 PROVE FALSE
    BY <2>1 DEF p, q
  <2>4. k * p >= k * (q + 1)
    BY <1>2, <2>1, <2>3, SMT
  <2> QED BY <1>2, <2>1, <2>2, <2>4, SMT
<1>6. i - 1 \in Nat /\ j - 1 \in Nat /\ i - 1 <= j - 1
  OBVIOUS
<1>7. (i - 1) \div k <= (j - 1) \div k
  BY <1>5, <1>6
<1> QED BY <1>2, <1>3, <1>4, <1>6, <1>7

LEMMA SameRows ==
  ASSUME RowsInv, Grows, UNCHANGED <<at, rows>>,
         pc' \in Running \cup {"next"} => pc \in Running \cup {"next"} /\ UNCHANGED baseline
  PROVE  RowsInv'
<1>1. \A i \in DOMAIN rows' : \A n \in DOMAIN rows'[i].attempts :
        rows'[i].attempts[n].ran => BackedNext(<<i, n>>, rows'[i].attempts[n])
  BY BackedStays DEF RowsInv, RowBacked
<1>2. \A i \in DOMAIN rows' : RowBacked(i, rows[i])'
  BY <1>1 DEF RowBacked, Backed, BackedNext
<1> QED BY <1>2 DEF RowsInv, SawIt

LEMMA RowsKept ==
  ASSUME TypesInv, PlaceInv, SeenInv, TriesInv, RowsInv, [Next]_vars
  PROVE  RowsInv'
<1> DEFINE Goal == RowsInv'
<1>0. /\ at \in Nat \ {0} /\ rows \in Seq(Rows) /\ DOMAIN rows = 1..Len(rows) /\ Len(rows) \in Nat
  <2>1. rows \in Seq(Rows) => DOMAIN rows = 1..Len(rows) /\ Len(rows) \in Nat
    OBVIOUS
  <2> QED BY <2>1, LastIsThere DEF TypesInv
<1>01. rows' = <<>> => Goal
  BY DEF RowsInv, SawIt
<1>1. ASSUME AdmissionStep PROVE Goal
  BY <1>01, <1>1, AdmissionsGoOnOrReturn DEF PlaceInv
<1>2. ASSUME AttemptStep PROVE Goal
  <2>1. Grows /\ UNCHANGED <<at, rows>> /\ pc \in Running
    <3>1. StaysOrStops /\ pc \in Running
      BY <1>2, AttemptsStayOrStop
    <3>2. UNCHANGED trace => Grows
      BY DEF Grows
    <3>3. Prepare \/ CheckBaseline \/ Launch \/ AdapterEnds \/ Repair => UNCHANGED trace
      BY DEF Prepare, CheckBaseline, Launch, AdapterEnds, Repair, streamVars
    <3> QED BY <1>2, <3>1, <3>2, <3>3, BeforeDoes, AfterDoes, CheckAfterDoes, RecordDoes
            DEF AttemptStep, StaysOrStops
  <2>2. CASE UNCHANGED baseline
    BY <2>1, <2>2, SameRows
  <2>3. CASE CheckBaseline /\ baseline = None
    <3>1. \A i \in DOMAIN rows : TaskOf(i) = TaskOf(at) =>
            \A n \in DOMAIN rows[i].attempts : ~rows[i].attempts[n].ran
      <4>1. \A i \in DOMAIN rows : TaskOf(i) = TaskOf(at) => SawIt(rows[i], None)
        BY <2>1, <2>3 DEF RowsInv
      <4>2. ASSUME NEW i \in DOMAIN rows, NEW n \in DOMAIN rows[i].attempts, rows[i].attempts[n].ran
            PROVE  rows[i].attempts[n].before # None
        BY <4>2, WorldsDiffer DEF RowsInv, RowBacked, Backed
      <4> QED BY <4>1, <4>2 DEF SawIt
    <3>2. \A i \in DOMAIN rows : TaskOf(i) = TaskOf(at) => SawIt(rows[i], baseline')
      BY <3>1 DEF SawIt
    <3>3. \A i \in DOMAIN rows' : RowBacked(i, rows[i])'
      BY <2>1, <2>3, BaselineDoes DEF RowsInv, RowBacked, Backed
    <3> QED BY <2>1, <3>2, <3>3 DEF RowsInv, SawIt
  <2>4. CheckBaseline => baseline = None \/ UNCHANGED baseline
    BY BaselineDoes
  <2>5. CheckBaseline \/ UNCHANGED baseline
    BY <1>2, BeforeDoes, AfterDoes, CheckAfterDoes, RecordDoes
       DEF AttemptStep, Prepare, Launch, AdapterEnds, Repair, checkVars
  <2> QED BY <2>2, <2>3, <2>4, <2>5
<1>3. ASSUME CloseRow PROVE Goal
  <2>1. /\ pc = "close" /\ UNCHANGED <<at, baseline, trace>> /\ Grows /\ Len(rows) = at - 1
    BY <1>3, CloseRowDoes DEF PlaceInv, Running, Seeing, Grows
  <2>2. CASE UNCHANGED rows
    BY <2>1, <2>2, SameRows DEF Running, Seeing
  <2>3. CASE ~UNCHANGED rows
    <3> DEFINE new == [attempts |-> tries, status |-> tries[attempt].status,
                       time |-> RowTime, repairs |-> attempt - 1]
    <3>1. rows' = Append(rows, new)
      BY <1>3, <2>3, CloseRowDoes
    <3>2. new.attempts = tries
      OBVIOUS
    <3> HIDE DEF new
    <3>3. /\ DOMAIN rows' = DOMAIN rows \cup {at} /\ rows'[at] = new /\ at \notin DOMAIN rows
          /\ \A i \in DOMAIN rows : rows'[i] = rows[i]
      BY <1>0, <2>1, <3>1
    <3>4. RowBacked(at, new) /\ SawIt(new, baseline)
      BY <2>1, <3>2 DEF TriesInv, Running, Seeing, RowBacked, SawIt
    <3>5. \A i \in DOMAIN rows : TaskOf(i) = TaskOf(at) => SawIt(rows[i], baseline)
      BY <2>1 DEF RowsInv, Running, Seeing
    <3>6. \A i \in DOMAIN rows' : RowBacked(i, rows'[i])
      BY <3>3, <3>4 DEF RowsInv
    <3>7. \A i \in DOMAIN rows' : TaskOf(i) = TaskOf(at) => SawIt(rows'[i], baseline)
      BY <3>3, <3>4, <3>5
    <3>8. ASSUME NEW i \in DOMAIN rows', NEW j \in DOMAIN rows', TaskOf(i) = TaskOf(j),
                 NEW n \in DOMAIN rows'[i].attempts, rows'[i].attempts[n].ran
          PROVE  SawIt(rows'[j], rows'[i].attempts[n].before)
      <4>1. CASE TaskOf(i) = TaskOf(at)
        <5>1. SawIt(rows'[i], baseline) /\ SawIt(rows'[j], baseline)
          BY <3>7, <3>8, <4>1
        <5>2. rows'[i].attempts[n].before = baseline
          BY <3>8, <5>1 DEF SawIt
        <5> QED BY <5>1, <5>2
      <4>2. CASE TaskOf(i) # TaskOf(at)
        BY <3>3, <3>8, <4>2 DEF RowsInv
      <4> QED BY <4>1, <4>2
    <3>9. \A i \in DOMAIN rows' : RowBacked(i, rows[i])'
      BY <2>1, <3>6 DEF RowBacked, Backed
    <3>10. \A i \in DOMAIN rows' : TaskOf(i) = TaskOf(at') => SawIt(rows[i], baseline)'
      BY <2>1, <3>7 DEF SawIt
    <3> QED BY <3>8, <3>9, <3>10 DEF RowsInv, SawIt
  <2> QED BY <2>2, <2>3
<1>4. ASSUME NextRow PROVE Goal
  <2>1. pc = "next" /\ at' = at + 1 /\ UNCHANGED <<rows, trace>> /\ Len(rows) = at
    BY <1>4 DEF NextRow, PlaceInv, streamVars
  <2>2. \A i \in DOMAIN rows : TaskOf(i) = TaskOf(at + 1) => SawIt(rows[i], baseline')
    <3> SUFFICES ASSUME NEW i \in DOMAIN rows, TaskOf(i) = TaskOf(at + 1) PROVE SawIt(rows[i], baseline')
      OBVIOUS
    <3>1. i \in Nat \ {0} /\ i <= at /\ at + 1 \in Nat \ {0} /\ at <= at + 1
      BY <1>0, <2>1
    <3>2. TaskOf(i) <= TaskOf(at) /\ TaskOf(at) <= TaskOf(at + 1) /\ TaskOf(i) \in Nat /\ TaskOf(at) \in Nat
      BY <1>0, <3>1, TasksFollow
    <3>3. TaskOf(i) = TaskOf(at) /\ TaskOf(at + 1) = TaskOf(at)
      BY <3>2
    <3>4. baseline' = baseline
      BY <1>4, <3>3 DEF NextRow
    <3> QED BY <2>1, <3>3, <3>4 DEF RowsInv
  <2>3. \A i \in DOMAIN rows' : RowBacked(i, rows[i])'
    BY <2>1 DEF RowsInv, RowBacked, Backed
  <2> QED BY <2>1, <2>2, <2>3 DEF RowsInv, SawIt
<1>5. ASSUME Score PROVE Goal
  BY <1>5, SameRows DEF Score, Ends, Grows, checkVars, streamVars, Running, Seeing
<1>6. ASSUME Finish PROVE Goal
  <2>1. pc = "finish" /\ pc' = "emit" /\ UNCHANGED <<at, rows>>
    BY <1>6 DEF Finish
  <2>2. CASE UNCHANGED trace
    BY <2>1, <2>2, SameRows DEF Grows, Running, Seeing
  <2>3. CASE ~UNCHANGED trace
    <3>1. /\ Len(rows) = at - 1
          /\ trace' = [requests |-> {i \in trace.requests : i[1] < at},
                       results |-> Before(trace.results), inputs |-> Before(trace.inputs),
                       expected |-> {i \in trace.expected : i[1] < at}]
      BY <1>6, <2>3 DEF Finish, Truncates
    <3>2. /\ \A x \in trace.requests : x[1] < at => x \in trace'.requests
          /\ \A x \in trace.expected : x[1] < at => x \in trace'.expected
          /\ \A r \in trace.results : r.of[1] < at => r \in trace'.results
          /\ \A r \in trace.inputs : r.of[1] < at => r \in trace'.inputs
      BY <3>1 DEF Before
    <3>3. ASSUME NEW i \in DOMAIN rows, NEW n, NEW t, Backed(<<i, n>>, t)
          PROVE  BackedNext(<<i, n>>, t)
      <4>1. <<i, n>>[1] < at
        BY <1>0, <3>1
      <4>2. /\ [of |-> <<i, n>>, status |-> "MATCH", world |-> t.before].of = <<i, n>>
            /\ [of |-> <<i, n>>, world |-> t.before].of = <<i, n>>
        OBVIOUS
      <4> QED BY <3>2, <3>3, <4>1, <4>2 DEF Backed, BackedNext
    <3>4. \A i \in DOMAIN rows' : \A n \in DOMAIN rows'[i].attempts :
            rows'[i].attempts[n].ran => BackedNext(<<i, n>>, rows'[i].attempts[n])
      BY <2>1, <3>3 DEF RowsInv, RowBacked
    <3>5. \A i \in DOMAIN rows' : RowBacked(i, rows[i])'
      BY <3>4 DEF RowBacked, Backed, BackedNext
    <3> QED BY <2>1, <3>5 DEF RowsInv, SawIt, Running, Seeing
  <2> QED BY <2>2, <2>3
<1>7. ASSUME Emit PROVE Goal
  <2>1. CASE UNCHANGED streamVars
    BY <1>7, <2>1, SameRows DEF Emit, Grows, streamVars, Running, Seeing
  <2> QED BY <1>01, <1>7, <2>1 DEF Emit
<1>8. ASSUME Escape PROVE Goal
  BY <1>01, <1>8 DEF Escape
<1>9. ASSUME WorldChanges \/ UNCHANGED vars PROVE Goal
  BY <1>9, WorldsApart, SameRows DEF Grows, Evaluation, checkVars, streamVars
<1> QED BY <1>1, <1>2, <1>3, <1>4, <1>5, <1>6, <1>7, <1>8, <1>9, NextSplits

FitsNext(i, a) ==
  /\ a.of[1] = i /\ a.of \in trace'.requests
  /\ a.results \subseteq trace'.results /\ a.inputs \subseteq trace'.inputs
  /\ \A r \in a.results \cup a.inputs : r.of[1] = i

\* What an attestation of the attempt that runs may name.
LEMMA AttestsWhatItSaw ==
  ASSUME TypesInv, UNCHANGED <<at, attempt>>,
         NEW status, Attests(status), status # "COMPLETE",
         Id \in trace'.requests,
         \A r \in {before', after'} : r.status # "none" => r.of = Id /\ r \in trace'.results,
         status # "PRECHECK_FAILED" =>
           \A r \in {before', after'} : r.status = "MATCH" => Input(r.world) \in trace'.inputs
  PROVE  \E a : attested' = Append(attested, a) /\ FitsNext(at, a)
<1> DEFINE results == {r \in {before', after'} : r.status # "none"}
           inputs == IF status = "PRECHECK_FAILED" THEN {}
                     ELSE {Input(r.world) : r \in {s \in {before', after'} : s.status = "MATCH"}}
           new == [of |-> Id, status |-> status, results |-> results, inputs |-> inputs]
<1>1. attested' = Append(attested, new)
  BY DEF Attests
<1>2. results \subseteq trace'.results /\ \A r \in results : r.of = Id
  OBVIOUS
<1>3. inputs \subseteq trace'.inputs /\ \A r \in inputs : r.of = Id
  BY DEF Input
<1>4. Id[1] = at
  BY DEF Id
<1> HIDE DEF results, inputs
<1>5. new.of = Id /\ new.results = results /\ new.inputs = inputs
  OBVIOUS
<1>6. new.of[1] = at /\ new.of \in trace'.requests
  BY <1>4, <1>5
<1>7. /\ new.results \subseteq trace'.results /\ new.inputs \subseteq trace'.inputs
      /\ \A r \in new.results \cup new.inputs : r.of[1] = at
  BY <1>2, <1>3, <1>4, <1>5
<1> HIDE DEF new
<1> QED BY <1>1, <1>6, <1>7 DEF FitsNext

LEMMA FitsStays ==
  ASSUME Grows
  PROVE  \A i, a : Fits(i, a) => FitsNext(i, a)
BY DEF Grows, Fits, FitsNext

LEMMA SameAttested ==
  ASSUME AttestedInv, Grows, UNCHANGED <<rows, attested>>,
         pc' # "escape" => Len(rows) <= Len(attested)
  PROVE  AttestedInv'
<1>1. \A i \in DOMAIN attested' : FitsNext(i, attested'[i])
  BY FitsStays DEF AttestedInv
<1>2. \A i \in DOMAIN attested' : Fits(i, attested[i])'
  BY <1>1 DEF Fits, FitsNext
<1> QED BY <1>2 DEF AttestedInv

\* An attestation more, of the invocation that follows those attested.
LEMMA AttestedMore ==
  ASSUME TypesInv, AttestedInv, Grows, Len(attested) = at - 1,
         NEW a, attested' = Append(attested, a), FitsNext(at, a)
  PROVE  /\ \A i \in DOMAIN attested' : Fits(i, attested[i])'
         /\ DOMAIN attested' = DOMAIN attested \cup {at} /\ attested'[at] = a
         /\ \A i \in DOMAIN attested : attested'[i] = attested[i]
         /\ Len(attested') = at /\ at \notin DOMAIN attested
<1>1. attested \in Seq(Attestations) /\ at \in Nat \ {0}
  BY LastIsThere DEF TypesInv
<1>2. /\ DOMAIN attested' = DOMAIN attested \cup {at} /\ attested'[at] = a
      /\ \A i \in DOMAIN attested : attested'[i] = attested[i]
      /\ Len(attested') = at /\ at \notin DOMAIN attested
  BY <1>1
<1>3. \A i \in DOMAIN attested' : FitsNext(i, attested'[i])
  BY <1>2, FitsStays DEF AttestedInv
<1>4. \A i \in DOMAIN attested' : Fits(i, attested[i])'
  BY <1>3 DEF Fits, FitsNext
<1> QED BY <1>2, <1>4

\* A step inside an attempt that attests does so of what the attempt saw.
LEMMA AttestsFit ==
  ASSUME TypesInv, SeenInv, AttemptStep, ~UNCHANGED attested
  PROVE  Grows /\ UNCHANGED at /\ \E a : attested' = Append(attested, a) /\ FitsNext(at, a)
<1> DEFINE Goal == Grows /\ UNCHANGED at /\ \E a : attested' = Append(attested, a) /\ FitsNext(at, a)
<1>0. /\ NoResult.status = "none" /\ "none" # "MATCH"
      /\ UNCHANGED trace => Grows
  BY DEF NoResult, Grows
<1>1. ASSUME BeforeSnapshot PROVE Goal
  <2>1. /\ Attests("PRECHECK_FAILED") /\ UNCHANGED <<at, attempt>> /\ Grows /\ Id \in trace'.requests
        /\ before'.of = Id /\ before' \in trace'.results /\ after' = NoResult
    <3>1. pc = "before" /\ after' = NoResult
      BY <1>1, BeforeDoes DEF SeenInv
    <3>2. pc' = "finish"
      BY <1>1 DEF BeforeSnapshot, Aborts, Ends
    <3> QED BY <1>1, <3>1, <3>2, BeforeDoes
  <2> QED BY <1>0, <2>1, AttestsWhatItSaw
<1>2. ASSUME CheckBaseline PROVE Goal
  <2>1. /\ Attests("PRECHECK_DRIFT") /\ UNCHANGED <<at, attempt, trace>>
        /\ before' = before /\ after' = NoResult
    BY <1>2, BaselineDoes DEF SeenInv
  <2>2. /\ before.of = Id /\ before \in trace.results /\ Id \in trace.requests
        /\ Input(before.world) \in trace.inputs
    BY <1>2, BaselineDoes DEF SeenInv, Seeing
  <2> QED BY <1>0, <2>1, <2>2, AttestsWhatItSaw
<1>3. ASSUME Launch \/ AdapterEnds PROVE Goal
  <2>1. /\ Attests("ADAPTER_FAILED") /\ UNCHANGED <<at, attempt, trace, before, after>>
        /\ pc \in {"launch", "adapter"}
    BY <1>3 DEF Launch, AdapterEnds, AdapterFails
  <2>2. /\ before.of = Id /\ before \in trace.results /\ Id \in trace.requests
        /\ Input(before.world) \in trace.inputs /\ after = NoResult
    BY <2>1 DEF SeenInv, Seeing
  <2> QED BY <1>0, <2>1, <2>2, AttestsWhatItSaw
<1>4. ASSUME AfterSnapshot PROVE Goal
  <2>1. pc' = "finish"
    BY <1>4 DEF AfterSnapshot, Aborts, Ends
  <2>2. /\ Attests("POSTCHECK_FAILED") /\ UNCHANGED <<at, attempt, before>> /\ Grows
        /\ after'.of = Id /\ after' \in trace'.results /\ after'.status # "MATCH"
    BY <1>4, <2>1, AfterDoes
  <2>3. /\ before.of = Id /\ before \in trace'.results /\ Id \in trace'.requests
        /\ Input(before.world) \in trace'.inputs
    BY <1>4, <2>2, AfterDoes DEF SeenInv, Seeing, Grows
  <2> QED BY <1>0, <2>2, <2>3, AttestsWhatItSaw
<1>5. ASSUME CheckAfter PROVE Goal
  <2>1. /\ Attests("POSTCHECK_DRIFT") /\ UNCHANGED <<at, attempt, before, after>> /\ Grows
        /\ Input(after.world) \in trace'.inputs
    BY <1>5, CheckAfterDoes
  <2>2. /\ before.of = Id /\ before \in trace'.results /\ Id \in trace'.requests
        /\ Input(before.world) \in trace'.inputs
        /\ after.of = Id /\ after \in trace'.results
    BY <1>5, <2>1, CheckAfterDoes DEF SeenInv, Seeing, Grows
  <2> QED BY <1>0, <2>1, <2>2, AttestsWhatItSaw
<1>6. ~(Prepare \/ RecordAttempt \/ Repair)
  BY RecordDoes DEF Prepare, Repair, streamVars
<1> QED BY <1>1, <1>2, <1>3, <1>4, <1>5, <1>6 DEF AttemptStep

LEMMA AttestedKept ==
  ASSUME TypesInv, PlaceInv, SeenInv, TriesInv, AttestedInv, [Next]_vars
  PROVE  AttestedInv'
<1> DEFINE Goal == AttestedInv'
<1>0. /\ at \in Nat \ {0} /\ rows \in Seq(Rows) /\ DOMAIN rows = 1..Len(rows) /\ Len(rows) \in Nat
      /\ attested \in Seq(Attestations) /\ DOMAIN attested = 1..Len(attested) /\ Len(attested) \in Nat
  <2>1. /\ rows \in Seq(Rows) => DOMAIN rows = 1..Len(rows) /\ Len(rows) \in Nat
        /\ attested \in Seq(Attestations) => DOMAIN attested = 1..Len(attested) /\ Len(attested) \in Nat
    OBVIOUS
  <2> QED BY <2>1, LastIsThere DEF TypesInv
<1>01. rows' = <<>> /\ attested' = <<>> => Goal
  BY DEF AttestedInv
<1>1. ASSUME AdmissionStep PROVE Goal
  BY <1>01, <1>1, AdmissionsGoOnOrReturn DEF PlaceInv
<1>2. ASSUME AttemptStep PROVE Goal
  <2>1. /\ StaysOrStops /\ pc \in Running /\ UNCHANGED <<at, rows>>
        /\ Len(rows) = at - 1 /\ Len(attested) = at - 1
    BY <1>2, AttemptsStayOrStop DEF StaysOrStops, PlaceInv
  <2>2. CASE UNCHANGED attested
    <3>1. Grows
      <4>1. UNCHANGED trace => Grows
        BY DEF Grows
      <4>2. Prepare \/ CheckBaseline \/ Launch \/ AdapterEnds \/ Repair => UNCHANGED trace
        BY DEF Prepare, CheckBaseline, Launch, AdapterEnds, Repair, streamVars
      <4> QED BY <1>2, <4>1, <4>2, BeforeDoes, AfterDoes, CheckAfterDoes, RecordDoes DEF AttemptStep
    <3> QED BY <1>0, <2>1, <2>2, <3>1, SameAttested
  <2>3. CASE ~UNCHANGED attested
    <3>1. PICK a : Grows /\ attested' = Append(attested, a) /\ FitsNext(at, a)
      BY <1>2, <2>3, AttestsFit
    <3>2. /\ \A i \in DOMAIN attested' : Fits(i, attested[i])'
          /\ DOMAIN attested' = DOMAIN attested \cup {at}
          /\ \A i \in DOMAIN attested : attested'[i] = attested[i]
          /\ Len(attested') = at
      BY <2>1, <3>1, AttestedMore
    <3>3. at \notin DOMAIN rows
      BY <1>0, <2>1
    <3> QED BY <1>0, <2>1, <3>2, <3>3 DEF AttestedInv
  <2> QED BY <2>2, <2>3
<1>3. ASSUME CloseRow PROVE Goal
  <2> DEFINE new == [of |-> Id, status |-> "COMPLETE", results |-> {before, after},
                     inputs |-> {[of |-> before.of, world |-> before.world]}]
  <2>1. /\ pc = "close" /\ UNCHANGED <<at, trace>> /\ Grows /\ attested' = Append(attested, new)
        /\ Len(rows) = at - 1 /\ Len(attested) = at - 1 /\ pc' # "escape"
        /\ (Len(rows') = at /\ DOMAIN rows' = DOMAIN rows \cup {at}) \/ UNCHANGED rows
    <3>1. CloseRow => pc = "close" /\ Len(rows) = at - 1 /\ Len(attested) = at - 1
      BY DEF CloseRow, PlaceInv, Running, Seeing
    <3>2. ~UNCHANGED rows => Len(rows') = at /\ DOMAIN rows' = DOMAIN rows \cup {at}
      <4>1. ASSUME NEW r, rows' = Append(rows, r)
            PROVE  Len(rows') = at /\ DOMAIN rows' = DOMAIN rows \cup {at}
        BY <1>0, <1>3, <3>1, <4>1
      <4> QED BY <1>3, <4>1, CloseRowDoes
    <3> QED BY <1>3, <3>1, <3>2, CloseRowDoes DEF Grows
  <2>2. FitsNext(at, new)
    <3>1. /\ before.of = Id /\ before \in trace.results /\ after = before /\ Id \in trace.requests
          /\ Input(before.world) \in trace.inputs
      BY <2>1 DEF SeenInv, Seeing
    <3>2. Id[1] = at
      BY DEF Id
    <3> QED BY <2>1, <3>1, <3>2 DEF FitsNext, Input
  <2>3. new.status = "COMPLETE" /\ Single(new)
    <3>1. after = before
      BY <2>1 DEF SeenInv, Seeing
    <3>2. new.results = {before} /\ new.inputs = {[of |-> before.of, world |-> before.world]}
      BY <3>1
    <3> QED BY <3>2 DEF Single
  <2> HIDE DEF new
  <2>4. /\ \A i \in DOMAIN attested' : Fits(i, attested[i])'
        /\ DOMAIN attested' = DOMAIN attested \cup {at} /\ attested'[at] = new
        /\ \A i \in DOMAIN attested : attested'[i] = attested[i]
        /\ Len(attested') = at
    BY <2>1, <2>2, AttestedMore
  <2>5. \A i \in DOMAIN rows' : attested'[i].status = "COMPLETE" /\ Single(attested'[i])
    BY <1>0, <2>1, <2>3, <2>4 DEF AttestedInv
  <2>6. \A i \in DOMAIN rows' : attested'[i].status = "COMPLETE" /\ Single(attested[i])'
    BY <2>5 DEF Single
  <2>7. Len(rows') <= Len(attested')
    BY <1>0, <2>1, <2>4
  <2> QED BY <2>4, <2>6, <2>7 DEF AttestedInv
<1>4. ASSUME NextRow \/ Score PROVE Goal
  <2>1. UNCHANGED streamVars /\ pc = "next"
    BY <1>4 DEF NextRow, Score
  <2> QED BY <2>1, SameAttested DEF AttestedInv, Grows, streamVars
<1>6. ASSUME Finish PROVE Goal
  <2>1. pc = "finish" /\ pc' = "emit" /\ UNCHANGED <<at, rows>>
    BY <1>6 DEF Finish
  <2>2. CASE UNCHANGED <<attested, trace>>
    BY <2>1, <2>2, SameAttested DEF Grows, AttestedInv
  <2>3. CASE ~UNCHANGED <<attested, trace>>
    <3>1. /\ Len(rows) = at - 1 /\ attested' = SubSeq(attested, 1, at - 1)
          /\ trace' = [requests |-> {i \in trace.requests : i[1] < at},
                       results |-> Before(trace.results), inputs |-> Before(trace.inputs),
                       expected |-> {i \in trace.expected : i[1] < at}]
      BY <1>6, <2>3 DEF Finish, Truncates
    <3>2. /\ Len(attested') = at - 1 /\ DOMAIN attested' = 1..(at - 1)
          /\ DOMAIN attested' \subseteq DOMAIN attested
          /\ \A i \in DOMAIN attested' : attested'[i] = attested[i]
      <4>1. at - 1 \in Nat /\ at - 1 <= Len(attested)
        <5>1. Len(attested) \in {at - 1, at}
          BY <2>1 DEF PlaceInv
        <5>2. at \in Nat \ {0} /\ Len(attested) \in Nat
          BY <1>0
        <5> QED BY <5>1, <5>2
      <4>2. /\ attested' \in Seq(Attestations) /\ Len(attested') = at - 1
            /\ \A i \in 1..(at - 1) : attested'[i] = attested[i]
        BY <1>0, <3>1, <4>1, CutTyped
      <4>3. DOMAIN attested' = 1..(at - 1)
        BY <4>2
      <4> QED BY <1>0, <4>1, <4>2, <4>3
    <3>3. /\ \A x \in trace.requests : x[1] < at => x \in trace'.requests
          /\ \A r \in trace.results : r.of[1] < at => r \in trace'.results
          /\ \A r \in trace.inputs : r.of[1] < at => r \in trace'.inputs
      BY <3>1 DEF Before
    <3>4. ASSUME NEW i \in 1..(at - 1), NEW a, Fits(i, a) PROVE FitsNext(i, a)
      BY <1>0, <3>3, <3>4 DEF Fits, FitsNext
    <3>5. \A i \in DOMAIN attested' : FitsNext(i, attested'[i])
      BY <3>2, <3>4 DEF AttestedInv
    <3>6. \A i \in DOMAIN attested' : Fits(i, attested[i])'
      BY <3>5 DEF Fits, FitsNext
    <3> QED BY <1>0, <2>1, <3>1, <3>2, <3>6 DEF AttestedInv
  <2> QED BY <2>2, <2>3
<1>7. ASSUME Emit PROVE Goal
  <2>1. CASE UNCHANGED streamVars
    BY <1>7, <2>1, SameAttested DEF Emit, Grows, streamVars, AttestedInv
  <2> QED BY <1>01, <1>7, <2>1 DEF Emit
<1>8. ASSUME Escape PROVE Goal
  BY <1>01, <1>8 DEF Escape
<1>9. ASSUME WorldChanges \/ UNCHANGED vars PROVE Goal
  BY <1>9, WorldsApart, SameAttested DEF Grows, Evaluation, streamVars, AttestedInv
<1> QED BY <1>1, <1>2, <1>3, <1>4, <1>6, <1>7, <1>8, <1>9, NextSplits
-----------------------------------------------------------------------------
(* What a score rests on: whole rows, and streams with nothing else.       *)
LEMMA NoError == "ERROR" \notin Verdicts /\ "none" \notin Verdicts
BY DEF Verdicts

LEMMA ScoreDoes ==
  ASSUME Score
  PROVE  /\ pc = "next" /\ at = Last /\ pc' = "finish"
         /\ UNCHANGED <<at, rows, attested, trace, tries, baseline>>
         /\ ending'.status = Verdict(ArmRows(Document, "PARENT"), ArmRows(Document, "CANDIDATE"))
         /\ ending'.code = "NONE" /\ ~ending'.diagnosed
<1> DEFINE verdict == Verdict(ArmRows(Document, "PARENT"), ArmRows(Document, "CANDIDATE"))
           cut == FALSE
<1>1. verdict \in Verdicts /\ cut \in BOOLEAN /\ "NONE" \in Codes /\ ~cut
  BY DEF Verdict, Verdicts, Codes
<1>2. Ends(verdict, "NONE", cut, cut)
  BY Zenon DEF Score
<1> HIDE DEF cut
<1>3. pc' = "finish" /\ ending'.status = verdict /\ ending'.code = "NONE" /\ ~ending'.diagnosed
  <2> HIDE DEF verdict
  <2> QED BY <1>1, <1>2, EndsTyped
<1> QED BY <1>3 DEF Score, checkVars, streamVars

\* Only Score begins to score; after it the streams stay.
LEMMA ScoringSteps ==
  ASSUME TypesInv, [Next]_vars, Scoring'
  PROVE  \/ Score
         \/ /\ Scoring /\ UNCHANGED <<rows, attested, trace, ending>>
            /\ pc' = "done" => \/ pc = "done" /\ UNCHANGED outcome
                               \/ /\ pc # "done" /\ outcome'.status = ending.status
                                  /\ outcome'.code = ending.code
<1> DEFINE Goal == Scoring' =>
       \/ Score
       \/ /\ Scoring /\ UNCHANGED <<rows, attested, trace, ending>>
          /\ pc' = "done" => \/ pc = "done" /\ UNCHANGED outcome
                             \/ /\ pc # "done" /\ outcome'.status = ending.status
                                /\ outcome'.code = ending.code
<1>0. pc' \notin {"finish", "emit", "done"} => Goal
  BY DEF Scoring
<1>1. ASSUME AdmissionStep PROVE Goal
  BY <1>1, AdmissionsGoOnOrReturn, NoError DEF Scoring, Early
<1>2. ASSUME AttemptStep PROVE Goal
  BY <1>2, AttemptsStayOrStop, NoError DEF Scoring, StaysOrStops, AbortsAs, Running, Seeing
<1>3. ASSUME CloseRow PROVE Goal
  BY <1>3, CloseRowDoes, NoError DEF Scoring, CloseRow, Ends, Aborts
<1>4. ASSUME NextRow PROVE Goal
  BY <1>0, <1>4 DEF NextRow
<1>6. ASSUME Finish PROVE Goal
  <2>1. CASE ending'.status = "ERROR"
    BY <1>6, <2>1, NoError DEF Finish, Scoring
  <2>2. CASE UNCHANGED <<ending, attested, trace>>
    BY <1>6, <2>2 DEF Finish, Scoring
  <2> QED BY <1>6, <2>1, <2>2 DEF Finish, TypesInv, Endings
<1>7. ASSUME Emit PROVE Goal
  <2>0. pc = "emit" /\ UNCHANGED ending
    BY <1>7 DEF Emit
  <2>1. CASE /\ UNCHANGED streamVars /\ pc' = "done"
             /\ outcome' = [exit |-> 0, status |-> ending.status, code |-> ending.code]
    BY <2>0, <2>1 DEF streamVars, Scoring
  <2>2. CASE pc' = "done" /\ outcome'.status = "ERROR"
    BY <2>2, NoError DEF Scoring
  <2>3. CASE pc' = "escape"
    BY <1>0, <2>3
  <2> QED BY <1>7, <2>1, <2>2, <2>3 DEF Emit
<1>8. ASSUME Escape PROVE Goal
  BY <1>8, NoError DEF Escape, Scoring
<1>9. ASSUME WorldChanges \/ UNCHANGED vars PROVE Goal
  BY <1>9, WorldsApart DEF Scoring, Evaluation, streamVars, endVars
<1>10. Goal
  <2> HIDE DEF Goal
  <2> QED BY <1>1, <1>2, <1>3, <1>4, <1>6, <1>7, <1>8, <1>9, NextSplits DEF Goal
<1> QED BY <1>10

LEMMA MeasuredWell ==
  ASSUME NEW m \in Measurements
  PROVE  m.status \in Statuses \cup {"ERROR"} /\ m.time \in Nat /\ m.time >= 1
<1>1. m \in Measured /\ m.status # "none"
  BY MeasurementsTyped
<1>2. m.time \in Nat /\ m.status \in Statuses \cup {"ERROR"}
  BY <1>1 DEF Measured
<1>3. \A d \in Durations : d \in Nat /\ d >= 1
  BY DurationsHaveMax
<1>4. Max(Durations) >= 1
  BY <1>3, DurationsHaveMax
<1>5. ASSUME NEW d \in Durations,
             m = [status |-> "PASS", time |-> d, repairable |-> FALSE, clean |-> TRUE]
      PROVE  m.time = d
  BY <1>5, Zenon
<1>6. CASE m \in [status: {"FAIL"}, time: {Max(Durations)}, repairable: BOOLEAN, clean: {TRUE}]
  <2>1. m.time = Max(Durations)
    BY <1>6
  <2> QED BY <1>2, <1>4, <2>1
<1>7. CASE m \in [status: {"POLICY_VIOLATION"}, time: {1}, repairable: {FALSE}, clean: {TRUE}]
  <2>1. m.time = 1
    BY <1>7
  <2> QED BY <1>2, <2>1
<1>9. CASE m \in [status: {"ERROR"}, time: {1}, repairable: {FALSE}, clean: BOOLEAN]
  <2>1. m.time = 1
    BY <1>9
  <2> QED BY <1>2, <2>1
<1>8. m.time >= 1
  <2>1. CASE m \in {[status |-> "PASS", time |-> d, repairable |-> FALSE, clean |-> TRUE] : d \in Durations}
    <3>1. PICK d \in Durations :
            m = [status |-> "PASS", time |-> d, repairable |-> FALSE, clean |-> TRUE]
      BY <2>1
    <3>2. m.time = d
      BY <1>5, <3>1, Zenon
    <3> QED BY <1>3, <3>2
  <2> QED BY <1>6, <1>7, <1>9, <2>1 DEF Measurements
<1> QED BY <1>2, <1>8

\* Of the attempts of the invocation.
TriesShaped ==
  /\ pc \in Running /\ attempt = 2 => tries[1].status = "FAIL" /\ RepairLimit = 1
  /\ pc \in Running => RanWell(tries)
  /\ pc = "repair" => tries[attempt].status = measured.status
  /\ pc = "close" => Shaped(tries, attempt)

LEMMA TriesShapedKept ==
  ASSUME TypesInv, PlaceInv, SeenInv, TriesInv, TriesShaped, [Next]_vars
  PROVE  TriesShaped'
<1> DEFINE Goal == TriesShaped'
<1>0. pc' \notin Running => Goal
  BY DEF TriesShaped, Running, Seeing
<1>1. ASSUME tries' = <<>>, attempt' = 1, pc' \notin {"repair", "close"} PROVE Goal
  BY <1>1 DEF TriesShaped, RanWell
<1>2. ASSUME AdmissionStep PROVE Goal
  BY <1>1, <1>2, AdmissionsGoOnOrReturn DEF PlaceInv, Early
<1>3. ASSUME UNCHANGED <<tries, attempt>>, pc \in Running, pc' \notin {"repair", "close"} PROVE Goal
  BY <1>3 DEF TriesShaped
<1>4. ASSUME Prepare \/ BeforeSnapshot \/ CheckBaseline \/ Launch \/ AdapterEnds \/ AfterSnapshot \/ CheckAfter
      PROVE Goal
  <2>1. /\ UNCHANGED <<tries, attempt>> /\ pc \in Running
        /\ pc' \in {"before", "launch", "adapter", "after", "baseline", "drift", "record", "finish", "escape"}
    BY <1>4, BeforeDoes, BaselineDoes, AfterDoes, CheckAfterDoes
       DEF Prepare, Launch, AdapterEnds, AdapterFails, Aborts, Ends, EscapesAttempt, Escapes, Running, Seeing
  <2> QED BY <1>3, <2>1
<1>5. ASSUME RecordAttempt PROVE Goal
  <2>1. CASE pc' = "finish"
    BY <1>0, <2>1 DEF Running, Seeing
  <2>2. CASE pc' = "repair"
    <3> DEFINE yes == TRUE
               new == [ran |-> yes, status |-> measured.status, time |-> measured.time,
                       before |-> before.world, after |-> after.world]
    <3>1. tries' = Append(tries, new)
      BY <1>5, <2>2, RecordDoes
    <3>2. new.status = measured.status /\ new.time = measured.time
      BY Zenon
    <3> HIDE DEF new, yes
    <3>3. pc = "record" /\ UNCHANGED <<attempt, measured>> /\ measured \in Measurements
      BY <1>5, RecordDoes DEF SeenInv
    <3>4. tries \in Seq(Tried) /\ attempt \in {1, 2} /\ Len(tries) = attempt - 1
      BY <3>3 DEF TypesInv, TriesInv, Running, Seeing
    <3>5. /\ DOMAIN tries' = DOMAIN tries \cup {attempt}
          /\ tries'[attempt] = new /\ \A n \in DOMAIN tries : tries'[n] = tries[n]
      BY <3>1, <3>4
    <3>6. attempt = 2 => 1 \in DOMAIN tries
      BY <3>4
    <3>7. new.status \in Statuses \cup {"ERROR"} /\ new.time >= 1
      BY <3>2, <3>3, MeasuredWell
    <3>8. RanWell(tries')
      BY <3>3, <3>5, <3>7 DEF TriesShaped, RanWell, Running, Seeing
    <3> QED BY <2>2, <3>2, <3>3, <3>5, <3>6, <3>8 DEF TriesShaped, Running, Seeing
  <2> QED BY <1>5, <2>1, <2>2, RecordDoes
<1>6. ASSUME Repair PROVE Goal
  <2>1. /\ pc = "repair" /\ attempt \in {1, 2} /\ tries \in Seq(Tried) /\ Len(tries) = attempt
        /\ UNCHANGED measured
    BY <1>6 DEF Repair, TypesInv, TriesInv, Running, Seeing, attemptVars
  <2>2. /\ \A n \in DOMAIN tries : tries[n].ran
        /\ RanWell(tries) /\ tries[attempt].status = measured.status
        /\ attempt = 2 => tries[1].status = "FAIL" /\ RepairLimit = 1
    BY <2>1 DEF TriesInv, TriesShaped, Running, Seeing
  <2>3. MayRepair => attempt = 1 /\ RepairLimit = 1 /\ tries[1].status = "FAIL"
    BY <2>2, ScoreAssumption DEF MayRepair
  <2>4. CASE pc' = "close" /\ UNCHANGED <<attempt, tries>>
    <3>1. 1 \in DOMAIN tries /\ attempt \in DOMAIN tries /\ attempt <= Len(tries) /\ Len(tries) \in {1, 2}
      BY <2>1
    <3>2. Len(tries) = 2 => attempt = 2
      BY <2>1
    <3>3. Shaped(tries, attempt)
      BY <2>1, <2>2, <3>1, <3>2 DEF Shaped
    <3> QED BY <2>2, <2>4, <3>3 DEF TriesShaped, Running, Seeing
  <2>5. CASE MayRepair /\ pc' = "close" /\ UNCHANGED attempt /\ tries' = Append(tries, Skipped)
    <3>1. Len(tries) = 1 /\ 1 \in DOMAIN tries /\ DOMAIN tries = 1..1
      BY <2>1, <2>3, <2>5
    <3>2. /\ Len(tries') = 2 /\ DOMAIN tries' = 1..2
          /\ tries'[2] = Skipped /\ tries'[1] = tries[1]
      BY <2>1, <2>5, <3>1, SkippedIs, Longer
    <3>3. Shaped(tries', attempt)
      BY <2>2, <2>3, <2>5, <3>1, <3>2 DEF Shaped
    <3>4. \A n \in DOMAIN tries' : n = 1 \/ n = 2
      BY <3>2
    <3>5. RanWell(tries')
      BY <2>2, <3>1, <3>2, <3>4, SkippedIs DEF RanWell
    <3> QED BY <2>3, <2>5, <3>3, <3>5 DEF TriesShaped, Running, Seeing
  <2>6. CASE MayRepair /\ attempt' = 2 /\ pc' = "prepare" /\ UNCHANGED tries
    BY <2>2, <2>3, <2>6 DEF TriesShaped
  <2>7. CASE pc' = "finish"
    BY <1>0, <2>7 DEF Running, Seeing
  <2> QED BY <1>6, <2>4, <2>5, <2>6, <2>7 DEF Repair, Aborts, Ends
<1>7. ASSUME CloseRow PROVE Goal
  BY <1>0, <1>7, CloseRowDoes DEF Running, Seeing
<1>8. ASSUME NextRow PROVE Goal
  BY <1>1, <1>8 DEF NextRow
<1>9. ASSUME Score \/ Finish \/ Emit \/ Escape PROVE Goal
  BY <1>0, <1>9 DEF Score, Ends, Finish, Emit, Escape, Running, Seeing
<1>10. ASSUME WorldChanges \/ UNCHANGED vars PROVE Goal
  BY <1>10, WorldsApart DEF TriesShaped, Evaluation, attemptVars
<1> QED BY <1>2, <1>4, <1>5, <1>6, <1>7, <1>8, <1>9, <1>10, NextSplits DEF AttemptStep

LEMMA ShapeKept ==
  ASSUME TypesInv, PlaceInv, SeenInv, TriesInv, ShapeInv, [Next]_vars
  PROVE  ShapeInv'
<1>0. TriesShaped'
  BY TriesShapedKept DEF ShapeInv, TriesShaped
<1> DEFINE Goal == /\ \A i \in DOMAIN rows' : RowShaped(rows'[i])
                   /\ Live' => \A i \in DOMAIN rows' : rows'[i].status # "ERROR"
<1>1. ASSUME rows' = rows, Live' => Live PROVE Goal
  BY <1>1 DEF ShapeInv
<1>2. ASSUME rows' = <<>> PROVE Goal
  BY <1>2
<1>3. ASSUME AdmissionStep PROVE Goal
  BY <1>2, <1>3, AdmissionsGoOnOrReturn DEF PlaceInv
<1>4. ASSUME AttemptStep PROVE Goal
  BY <1>1, <1>4, AttemptsStayOrStop DEF StaysOrStops, Live
<1>5. ASSUME CloseRow PROVE Goal
  <2>1. CASE UNCHANGED rows
    BY <1>1, <1>5, <2>1, CloseRowDoes DEF Live, Running, Seeing
  <2>2. CASE ~UNCHANGED rows
    <3> DEFINE new == [attempts |-> tries, status |-> tries[attempt].status,
                       time |-> RowTime, repairs |-> attempt - 1]
    <3>1. /\ pc = "close" /\ rows' = Append(rows, new) /\ RowTime <= TimeLimit
          /\ Live' => tries[attempt].status # "ERROR"
      BY <1>5, <2>2, CloseRowDoes, NoError DEF Live, Scoring, Running, Seeing
    <3>2. /\ new.attempts = tries /\ new.status = tries[attempt].status
          /\ new.time = RowTime /\ new.repairs = attempt - 1
      OBVIOUS
    <3> HIDE DEF new
    <3>3. attempt \in {1, 2} /\ new.repairs + 1 = attempt
      BY <3>2 DEF TypesInv
    <3>4. RowTime = IF tries[attempt].status = "PASS" THEN TotalOf(tries) ELSE 0
      BY <3>1, CloseIs DEF RowTime, TotalOf
    <3>5. RowShaped(new)
      BY <3>1, <3>2, <3>3, <3>4 DEF RowShaped, ShapeInv, Running, Seeing
    <3>6. /\ DOMAIN rows' = DOMAIN rows \cup {Len(rows) + 1} /\ rows'[Len(rows) + 1] = new
          /\ \A i \in DOMAIN rows : rows'[i] = rows[i]
      BY <3>1 DEF TypesInv
    <3> QED BY <3>1, <3>2, <3>5, <3>6 DEF ShapeInv, Live, Running, Seeing
  <2> QED BY <2>1, <2>2
<1>6. ASSUME NextRow \/ Score PROVE Goal
  BY <1>1, <1>6 DEF NextRow, Score, Live, streamVars
<1>7. ASSUME Finish \/ Emit \/ Escape \/ WorldChanges \/ UNCHANGED vars PROVE Goal
  <2>1. rows' = <<>> \/ rows' = rows
    BY <1>7, WorldsApart DEF Finish, Emit, Escape, Evaluation, streamVars
  <2>2. Live' => Live
    <3>1. CASE WorldChanges \/ UNCHANGED vars
      BY <3>1, WorldsApart DEF Live, Scoring, Evaluation, endVars
    <3>2. CASE Finish \/ Emit \/ Escape
      <4>1. pc' \notin Running \cup {"next"} /\ pc # "next"
        BY <3>2 DEF Finish, Emit, Escape, Running, Seeing
      <4>2. Scoring' => Scoring
        BY <4>1, ScoringSteps DEF Score
      <4> QED BY <4>1, <4>2 DEF Live
    <3> QED BY <1>7, <3>1, <3>2
  <2> QED BY <1>1, <1>2, <2>1, <2>2
<1>8. Goal
  BY <1>3, <1>4, <1>5, <1>6, <1>7, NextSplits
<1> QED BY <1>0, <1>8 DEF ShapeInv, TriesShaped

AccountedNext(x, w) ==
  \/ \E i \in DOMAIN rows' : \E n \in DOMAIN rows'[i].attempts :
       x = <<i, n>> /\ rows'[i].attempts[n].ran /\ rows'[i].attempts[n].before = w
  \/ /\ pc' \in Running
     /\ \E n \in DOMAIN tries' : x = <<at', n>> /\ tries'[n].ran /\ tries'[n].before = w

ExactNext ==
  /\ \A r \in trace'.results :
       r.status = "MATCH" /\ (AccountedNext(r.of, r.world) \/ (pc' \in Seeing /\ r \in {before', after'}))
  /\ \A s \in trace'.inputs :
       AccountedNext(s.of, s.world) \/ (pc' \in Seeing /\ s = [of |-> Id', world |-> before'.world])
  /\ \A x \in trace'.expected : \E w \in Worlds : AccountedNext(x, w)

\* Rows and attempts are only added.
KeepsRows == \A i \in DOMAIN rows : i \in DOMAIN rows' /\ rows'[i] = rows[i]

KeepsTries ==
  at' = at /\ pc' \in Running /\ \A n \in DOMAIN tries : n \in DOMAIN tries' /\ tries'[n] = tries[n]

LEMMA AccountStays ==
  ASSUME KeepsRows, pc \in Running => KeepsTries
  PROVE  \A x, w : Accounted(x, w) => AccountedNext(x, w)
BY DEF KeepsRows, KeepsTries, Accounted, AccountedNext

LEMMA AttemptsGoOn ==
  ASSUME AttemptStep, Live'
  PROVE  /\ pc \in Running /\ pc' \in Running /\ UNCHANGED <<at, rows>> /\ KeepsRows /\ Live
         /\ UNCHANGED tries => KeepsTries
<1>1. StaysOrStops /\ pc \in Running
  BY AttemptsStayOrStop
<1>2. pc' # "escape" /\ ~(pc' = "finish" /\ ending'.status = "ERROR")
  BY NoError DEF Live, Scoring, Running, Seeing
<1>3. pc' \in Running /\ UNCHANGED <<at, rows>>
  BY <1>1, <1>2 DEF StaysOrStops, AbortsAs
<1> QED BY <1>1, <1>3 DEF KeepsRows, KeepsTries, Live

LEMMA ExactKept ==
  ASSUME TypesInv, PlaceInv, SeenInv, TriesInv, ExactInv, [Next]_vars
  PROVE  ExactInv'
<1> SUFFICES ASSUME Live' PROVE ExactNext
  BY DEF ExactInv, ExactNext, Accounted, AccountedNext, Input
<1>0. Live =>
        /\ \A r \in trace.results :
             r.status = "MATCH" /\ (Accounted(r.of, r.world) \/ (pc \in Seeing /\ r \in {before, after}))
        /\ \A s \in trace.inputs :
             Accounted(s.of, s.world) \/ (pc \in Seeing /\ s = [of |-> Id, world |-> before.world])
        /\ \A x \in trace.expected : \E w \in Worlds : Accounted(x, w)
  BY DEF ExactInv, Input

\* Nothing is added to the streams, and what was being observed still is or is accounted for.
<1>1. ASSUME Live, UNCHANGED trace, KeepsRows, pc \in Running => KeepsTries,
             pc \in Seeing =>
               \/ pc' \in Seeing /\ UNCHANGED <<at, attempt, before, after>>
               \/ /\ \A r \in {before, after} : AccountedNext(r.of, r.world)
                  /\ AccountedNext(Id, before.world)
      PROVE  ExactNext
  <2>1. \A x, w : Accounted(x, w) => AccountedNext(x, w)
    BY <1>1, AccountStays
  <2>2. \A r \in trace.results :
          r.status = "MATCH" /\ (AccountedNext(r.of, r.world) \/ (pc' \in Seeing /\ r \in {before', after'}))
    BY <1>0, <1>1, <2>1
  <2>3. ASSUME NEW s \in trace.inputs
        PROVE  AccountedNext(s.of, s.world) \/ (pc' \in Seeing /\ s = [of |-> Id', world |-> before'.world])
    <3>1. CASE Accounted(s.of, s.world)
      BY <2>1, <3>1
    <3>2. CASE pc \in Seeing /\ s = [of |-> Id, world |-> before.world]
      <4>1. s.of = Id /\ s.world = before.world
        BY <3>2
      <4>2. CASE pc' \in Seeing /\ UNCHANGED <<at, attempt, before, after>>
        BY <3>2, <4>2 DEF Id
      <4> QED BY <1>1, <3>2, <4>1, <4>2
    <3> QED BY <1>0, <1>1, <3>1, <3>2
  <2>4. \A x \in trace.expected : \E w \in Worlds : AccountedNext(x, w)
    BY <1>0, <1>1, <2>1
  <2> QED BY <1>1, <2>2, <2>3, <2>4 DEF ExactNext
<1>2. ASSUME AdmissionStep PROVE ExactNext
  BY <1>2, AdmissionsGoOnOrReturn DEF PlaceInv, NoTrace, ExactNext
<1>3. ASSUME Prepare \/ CheckBaseline \/ Launch \/ AdapterEnds PROVE ExactNext
  <2>1. /\ AttemptStep /\ UNCHANGED <<trace, tries>> /\ pc \notin {"repair", "close"}
        /\ pc \in Seeing => UNCHANGED <<at, attempt, before, after>> /\ pc' # "prepare" /\ pc' # "before"
    BY <1>3, BaselineDoes DEF AttemptStep, Prepare, Launch, AdapterEnds, AdapterFails, Aborts, Ends,
       EscapesAttempt, Escapes, streamVars, Seeing
  <2>2. pc \in Seeing => pc' \in Seeing
    BY <2>1, AttemptsGoOn DEF Running
  <2> QED BY <1>1, <2>1, <2>2, AttemptsGoOn
<1>4. ASSUME BeforeSnapshot PROVE ExactNext
  <2>0. AttemptStep
    BY <1>4 DEF AttemptStep
  <2>1. /\ pc = "before" /\ pc' = "baseline" /\ UNCHANGED <<at, attempt, tries>>
        /\ before'.status = "MATCH"
        /\ trace'.results = trace.results \cup {before'}
        /\ trace'.inputs = trace.inputs \cup {Input(before'.world)}
        /\ trace'.expected = trace.expected
    BY <1>4, <2>0, BeforeDoes, AttemptsGoOn DEF Running, Seeing
  <2>2. \A x, w : Accounted(x, w) => AccountedNext(x, w)
    BY <2>0, <2>1, AttemptsGoOn, AccountStays
  <2>3. Live /\ pc \notin Seeing /\ pc' \in Seeing /\ Id' = Id
    BY <2>0, <2>1, AttemptsGoOn DEF Seeing, Id
  <2>4. \A r \in trace'.results :
          r.status = "MATCH" /\ (AccountedNext(r.of, r.world) \/ (pc' \in Seeing /\ r \in {before', after'}))
    BY <1>0, <2>1, <2>2, <2>3
  <2>5. \A s \in trace'.inputs :
          AccountedNext(s.of, s.world) \/ (pc' \in Seeing /\ s = [of |-> Id', world |-> before'.world])
    BY <1>0, <2>1, <2>2, <2>3 DEF Input
  <2> QED BY <1>0, <2>1, <2>2, <2>3, <2>4, <2>5 DEF ExactNext
<1>5. ASSUME AfterSnapshot PROVE ExactNext
  <2>0. AttemptStep
    BY <1>5 DEF AttemptStep
  <2>1. /\ pc = "after" /\ pc' = "drift" /\ UNCHANGED <<at, attempt, tries, before>>
        /\ after'.status = "MATCH" /\ after = NoResult
        /\ trace'.results = trace.results \cup {after'}
        /\ trace'.inputs = trace.inputs
        /\ trace'.expected = trace.expected
    BY <1>5, <2>0, AfterDoes, AttemptsGoOn DEF Running, Seeing, SeenInv
  <2>2. \A x, w : Accounted(x, w) => AccountedNext(x, w)
    BY <2>0, <2>1, AttemptsGoOn, AccountStays
  <2>3. Live /\ pc' \in Seeing /\ Id' = Id /\ NoResult.status # "MATCH"
    BY <2>0, <2>1, AttemptsGoOn DEF Seeing, Id, NoResult
  <2>4. \A r \in trace'.results :
          r.status = "MATCH" /\ (AccountedNext(r.of, r.world) \/ (pc' \in Seeing /\ r \in {before', after'}))
    BY <1>0, <2>1, <2>2, <2>3
  <2>5. \A s \in trace'.inputs :
          AccountedNext(s.of, s.world) \/ (pc' \in Seeing /\ s = [of |-> Id', world |-> before'.world])
    BY <1>0, <2>1, <2>2, <2>3
  <2> QED BY <1>0, <2>1, <2>2, <2>3, <2>4, <2>5 DEF ExactNext
<1>6. ASSUME CheckAfter PROVE ExactNext
  <2>0. AttemptStep
    BY <1>6 DEF AttemptStep
  <2>1. /\ pc = "drift" /\ pc' = "record" /\ UNCHANGED <<at, attempt, tries, before, after, trace>>
    BY <1>6, <2>0, CheckAfterDoes, AttemptsGoOn DEF Running, Seeing
  <2> QED BY <1>1, <2>0, <2>1, AttemptsGoOn DEF Seeing
<1>7. ASSUME RecordAttempt PROVE ExactNext
  <2>0. AttemptStep
    BY <1>7 DEF AttemptStep
  <2> DEFINE yes == TRUE
             new == [ran |-> yes, status |-> measured.status, time |-> measured.time,
                     before |-> before.world, after |-> after.world]
  <2>1. /\ pc = "record" /\ pc' = "repair" /\ UNCHANGED <<at, attempt, before, after>>
        /\ tries' = Append(tries, new)
        /\ trace'.results = trace.results /\ trace'.inputs = trace.inputs
        /\ trace'.expected = trace.expected \cup {Id}
    BY <1>7, <2>0, RecordDoes, AttemptsGoOn DEF Running, Seeing
  <2>2. new.ran
    BY Zenon
  <2>3. new.before = before.world
    OBVIOUS
  <2> HIDE DEF new, yes
  <2>4. tries \in Seq(Tried) /\ attempt \in {1, 2} /\ Len(tries) = attempt - 1
    BY <2>1 DEF TypesInv, TriesInv, Running, Seeing
  <2>5. /\ attempt \in DOMAIN tries' /\ tries'[attempt] = new
        /\ \A n \in DOMAIN tries : n \in DOMAIN tries' /\ tries'[n] = tries[n]
    BY <2>1, <2>4
  <2>6. KeepsTries
    BY <2>0, <2>1, <2>5, AttemptsGoOn DEF KeepsTries
  <2>7. \A x, w : Accounted(x, w) => AccountedNext(x, w)
    BY <2>0, <2>6, AttemptsGoOn, AccountStays
  <2>8. Live /\ pc' \in Seeing /\ pc' \in Running /\ Id' = Id
    BY <2>0, <2>1, AttemptsGoOn DEF Seeing, Id
  <2>9. AccountedNext(Id, before.world) /\ before.world \in Worlds
    BY <2>1, <2>2, <2>3, <2>5, <2>8 DEF AccountedNext, Id, SeenInv, Seeing
  <2>10. \A r \in trace'.results :
           r.status = "MATCH" /\ (AccountedNext(r.of, r.world) \/ (pc' \in Seeing /\ r \in {before', after'}))
    BY <1>0, <2>1, <2>7, <2>8
  <2>11. \A s \in trace'.inputs :
           AccountedNext(s.of, s.world) \/ (pc' \in Seeing /\ s = [of |-> Id', world |-> before'.world])
    BY <1>0, <2>1, <2>7, <2>8
  <2> QED BY <1>0, <2>1, <2>7, <2>8, <2>9, <2>10, <2>11 DEF ExactNext
<1>8. ASSUME Repair PROVE ExactNext
  <2>0. AttemptStep
    BY <1>8 DEF AttemptStep
  <2>1. /\ pc = "repair" /\ pc' \in {"close", "prepare"} /\ UNCHANGED <<at, before, after, trace>>
        /\ pc' = "close" => UNCHANGED attempt
        /\ tries' = tries \/ tries' = Append(tries, Skipped)
        /\ pc' = "prepare" => tries' = tries
    BY <1>8, <2>0, AttemptsGoOn DEF Repair, Aborts, Ends, attemptVars, streamVars, Running, Seeing
  <2>2. /\ tries \in Seq(Tried) /\ attempt \in {1, 2} /\ Len(tries) = attempt
        /\ \A n \in DOMAIN tries : tries[n].ran /\ tries[n].before = baseline
        /\ baseline = before.world /\ after = before /\ before.of = Id
    BY <2>1 DEF TypesInv, TriesInv, SeenInv, Running, Seeing
  <2>3. attempt \in DOMAIN tries
    BY <2>2
  <2>4. \A n \in DOMAIN tries : n \in DOMAIN tries' /\ tries'[n] = tries[n]
    BY <2>1, <2>2, SkippedIs, Longer
  <2>5. KeepsTries
    BY <2>0, <2>1, <2>4, AttemptsGoOn DEF KeepsTries
  <2>6. AccountedNext(Id, before.world)
    BY <2>0, <2>1, <2>2, <2>3, <2>4, AttemptsGoOn DEF AccountedNext, Id
  <2> QED BY <1>1, <2>0, <2>1, <2>2, <2>5, <2>6, AttemptsGoOn
<1>9. ASSUME CloseRow PROVE ExactNext
  <2> DEFINE new == [attempts |-> tries, status |-> tries[attempt].status,
                     time |-> RowTime, repairs |-> attempt - 1]
  <2>1. /\ pc = "close" /\ pc' = "next" /\ UNCHANGED <<at, trace, before, after, tries>>
        /\ rows' = Append(rows, new) /\ Len(rows) = at - 1
    BY <1>9, CloseRowDoes, NoError DEF Live, Scoring, PlaceInv, Running, Seeing
  <2>2. new.attempts = tries
    OBVIOUS
  <2> HIDE DEF new
  <2>3. /\ at \in DOMAIN rows' /\ rows'[at].attempts = tries /\ KeepsRows
    <3>1. rows \in Seq(Rows) /\ at \in Nat \ {0}
      BY LastIsThere DEF TypesInv
    <3>2. at \in DOMAIN rows' /\ rows'[at] = new /\ \A i \in DOMAIN rows : i \in DOMAIN rows' /\ rows'[i] = rows[i]
      BY <2>1, <3>1
    <3> QED BY <2>2, <3>2 DEF KeepsRows
  <2>4. \A x, w : Accounted(x, w) => AccountedNext(x, w)
    BY <2>1, <2>3 DEF Accounted, AccountedNext, KeepsRows
  <2>5. /\ attempt \in DOMAIN tries /\ tries[attempt].ran /\ tries[attempt].before = baseline
        /\ baseline = before.world /\ after = before /\ before.of = Id
    BY <2>1, CloseIs DEF TriesInv, SeenInv, Running, Seeing
  <2>6. AccountedNext(Id, before.world)
    BY <2>3, <2>5 DEF AccountedNext, Id
  <2>7. Live /\ pc' \notin Seeing
    BY <2>1 DEF Live, Running, Seeing
  <2>8. \A r \in trace'.results : r.status = "MATCH" /\ AccountedNext(r.of, r.world)
    BY <1>0, <2>1, <2>4, <2>5, <2>6, <2>7
  <2>9. ASSUME NEW s \in trace'.inputs PROVE AccountedNext(s.of, s.world)
    <3>1. CASE s = [of |-> Id, world |-> before.world]
      <4>1. s.of = Id /\ s.world = before.world
        BY <3>1
      <4> QED BY <2>6, <4>1
    <3> QED BY <1>0, <2>1, <2>4, <2>7, <3>1
  <2> QED BY <1>0, <2>1, <2>4, <2>7, <2>8, <2>9 DEF ExactNext
<1>10. ASSUME NextRow PROVE ExactNext
  <2>1. pc = "next" /\ UNCHANGED <<rows, trace>>
    BY <1>10 DEF NextRow, streamVars
  <2>2. Live /\ pc \notin Running /\ pc \notin Seeing /\ KeepsRows
    BY <2>1 DEF Live, Running, Seeing, KeepsRows
  <2> QED BY <1>1, <2>1, <2>2
<1>11. ASSUME Scoring' PROVE ExactNext
  <2>1. /\ Live /\ pc \notin Running /\ pc \notin Seeing /\ KeepsRows /\ UNCHANGED trace
    <3>1. CASE Score
      BY <3>1, ScoreDoes DEF Live, Running, Seeing, KeepsRows
    <3>2. CASE Scoring /\ UNCHANGED <<rows, attested, trace, ending>>
      BY <3>2 DEF Scoring, Live, Running, Seeing, KeepsRows
    <3> QED BY <1>11, <3>1, <3>2, ScoringSteps
  <2> QED BY <1>1, <2>1
<1>12. ASSUME WorldChanges \/ UNCHANGED vars PROVE ExactNext
  <2>1. UNCHANGED <<pc, at, attempt, before, after, tries, rows, trace>> /\ Live
    BY <1>12, WorldsApart DEF Live, Scoring, Evaluation, attemptVars, streamVars, endVars
  <2>2. KeepsRows /\ (pc \in Running => KeepsTries)
    BY <2>1 DEF KeepsRows, KeepsTries
  <2> QED BY <1>1, <2>1, <2>2
<1>13. Score \/ Finish \/ Emit \/ Escape => Scoring'
  <2>1. Score \/ Finish \/ Emit \/ Escape => pc' \notin Running \cup {"next"}
    BY DEF Score, Ends, Finish, Emit, Escape, Running, Seeing
  <2> QED BY <2>1 DEF Live
<1> QED BY <1>2, <1>3, <1>4, <1>5, <1>6, <1>7, <1>8, <1>9, <1>10, <1>11, <1>12, <1>13, NextSplits
        DEF AttemptStep

LEMMA ArmIs == \A name : ArmRows(Document, name) = Arm(name)
BY DEF ArmRows, Arm, Document

LEMMA ScoreKept ==
  ASSUME TypesInv, PlaceInv, ScoreInv, [Next]_vars
  PROVE  ScoreInv'
<1> DEFINE verdict == Verdict(Arm("PARENT"), Arm("CANDIDATE"))
<1>1. UNCHANGED rows => verdict' = verdict
  BY DEF Arm
<1> SUFFICES ASSUME Scoring'
             PROVE  /\ Len(rows') = Last /\ Len(attested') = Last
                    /\ pc' # "done" => /\ ending'.status = verdict' /\ ending'.code = "NONE"
                                       /\ ~ending'.diagnosed
                    /\ pc' = "done" => outcome'.status = verdict' /\ outcome'.code = "NONE"
  BY DEF ScoreInv
<1>2. CASE Score
  <2>1. ending'.status = verdict
    BY <1>2, ScoreDoes, ArmIs
  <2> HIDE DEF verdict
  <2> QED BY <1>1, <1>2, <2>1, ScoreDoes DEF PlaceInv
<1>3. CASE /\ Scoring /\ UNCHANGED <<rows, attested, trace, ending>>
           /\ pc' = "done" => \/ pc = "done" /\ UNCHANGED outcome
                              \/ /\ pc # "done" /\ outcome'.status = ending.status
                                 /\ outcome'.code = ending.code
  <2>1. /\ Len(rows) = Last /\ Len(attested) = Last
        /\ pc # "done" => ending.status = verdict /\ ending.code = "NONE" /\ ~ending.diagnosed
        /\ pc = "done" => outcome.status = verdict /\ outcome.code = "NONE"
    BY <1>3 DEF ScoreInv
  <2>2. pc = "done" => pc' = "done"
    BY DEF Next, Step, RequestRejected, InputsRejected, InputsAdmitted, SourceTrust, SourceMembership,
       Preflight, SeedArithmetic, Prepare, BeforeSnapshot, CheckBaseline, Launch, AdapterEnds,
       AfterSnapshot, CheckAfter, RecordAttempt, Repair, CloseRow, NextRow, Score, Finish, Emit, Escape,
       WorldChanges, vars, Goes
  <2> HIDE DEF verdict
  <2> QED BY <1>1, <1>3, <2>1, <2>2
<1> QED BY <1>2, <1>3, ScoringSteps
-----------------------------------------------------------------------------
(* The invariant holds, and what it says of a published result.            *)
LEMMA StartsSound == Init => EvaluatorInv
<1> SUFFICES ASSUME Init PROVE EvaluatorInv
  OBVIOUS
<1> DEFINE no == FALSE
           w0 == [env |-> 0, input |-> 0]
<1>1. /\ pc = "admit" /\ at = 1 /\ attempt = 1
      /\ files = [f \in Files |-> "none"] /\ owned = {} /\ world = w0
      /\ probed = 9 /\ baseline = None
      /\ before = NoResult /\ after = NoResult /\ measured = Unmeasured
      /\ tries = <<>> /\ rows = <<>> /\ attested = <<>> /\ trace = NoTrace
      /\ childLeft = no
      /\ ending = [status |-> "none", code |-> "none", cut |-> no, diagnosed |-> no]
      /\ outcome = [exit |-> 9, status |-> "none", code |-> "none"]
  BY Zenon DEF Init
<1>2. no \in BOOLEAN /\ ~no
  OBVIOUS
<1>3. w0 \in Worlds /\ None \in Seen
  BY DEF Worlds, Seen
<1>4. Unmeasured \in Measured
  <2> DEFINE yes == TRUE
  <2>1. Unmeasured = [status |-> "none", time |-> 0, repairable |-> no, clean |-> yes]
    BY Zenon DEF Unmeasured
  <2>2. yes \in BOOLEAN
    OBVIOUS
  <2> HIDE DEF yes, no
  <2> QED BY <1>2, <2>1, <2>2 DEF Measured
<1> HIDE DEF no, w0
<1>5. 1 \in 1..Last
  BY LastIsThere
<1>6. FilesInv
  BY <1>1 DEF FilesInv
<1>7. ending \in Endings
  BY <1>1, <1>2 DEF Endings, Codes
<1>8. trace \in Traces
  BY <1>1 DEF NoTrace, Traces
<1>9. <<>> \in Seq(Tried) /\ <<>> \in Seq(Rows) /\ <<>> \in Seq(Attestations)
  OBVIOUS
<1>10. /\ outcome.exit \in {0, 2, 3, 9}
       /\ outcome.status \in Verdicts \cup {"none", "ERROR"} /\ outcome.code \in Codes
  BY <1>1 DEF Codes
<1>11. TypesInv
  BY <1>1, <1>2, <1>3, <1>4, <1>5, <1>7, <1>8, <1>9, <1>10 DEF TypesInv, Early
<1>12. PlaceInv /\ QuietInv /\ SeenInv /\ TriesInv
  BY <1>1, <1>2 DEF PlaceInv, QuietInv, SeenInv, TriesInv, Early, Running, Seeing, Ending
<1>13. RowsInv /\ AttestedInv
  BY <1>1 DEF RowsInv, SawIt, AttestedInv
<1>14. ShapeInv /\ ExactInv /\ ScoreInv
  BY <1>1 DEF ShapeInv, ExactInv, ScoreInv, Live, Scoring, Running, Seeing
<1> QED BY <1>6, <1>11, <1>12, <1>13, <1>14 DEF EvaluatorInv

LEMMA InvariantHolds == Spec => []EvaluatorInv
<1>1. EvaluatorInv /\ [Next]_vars => EvaluatorInv'
  BY FilesKept, TypesKept, PlaceKept, QuietKept, SeenKept, TriesKept, RowsKept, AttestedKept,
     ShapeKept, ExactKept, ScoreKept DEF EvaluatorInv
<1> QED BY <1>1, StartsSound, PTL DEF Spec

LEMMA AttemptedIs ==
  \A x \in Attempted :
    \E i \in DOMAIN rows : \E n \in DOMAIN rows[i].attempts :
      x = <<i, n>> /\ rows[i].attempts[n].ran /\ AttemptOf(x) = rows[i].attempts[n]
<1>1. Document.rows = rows
  BY DEF Document
<1>2. Attempted = UNION {{i} \X RanIn(rows[i]) : i \in DOMAIN rows}
  BY <1>1 DEF Attempted, Invocations
<1> SUFFICES ASSUME NEW x \in Attempted
             PROVE  \E i \in DOMAIN rows : \E n \in DOMAIN rows[i].attempts :
                      x = <<i, n>> /\ rows[i].attempts[n].ran /\ AttemptOf(x) = rows[i].attempts[n]
  OBVIOUS
<1>3. PICK i \in DOMAIN rows : x \in {i} \X RanIn(rows[i])
  BY <1>2
<1>4. PICK n \in RanIn(rows[i]) : x = <<i, n>>
  BY <1>3
<1>5. n \in DOMAIN rows[i].attempts /\ rows[i].attempts[n].ran
  BY <1>4 DEF RanIn
<1>6. AttemptOf(x) = rows[i].attempts[n]
  BY <1>1, <1>4 DEF AttemptOf, AttemptAt
<1> QED BY <1>4, <1>5, <1>6

LEMMA OneInput == EvaluatorInv => ScoreRestsOnOneInput
<1> SUFFICES ASSUME EvaluatorInv, NEW x \in Attempted, NEW y \in Attempted, TaskOf(x[1]) = TaskOf(y[1])
             PROVE  {AttemptOf(x).before, AttemptOf(x).after} = {AttemptOf(y).before, AttemptOf(y).after}
  BY DEF ScoreRestsOnOneInput
<1>1. PICK i \in DOMAIN rows : \E n \in DOMAIN rows[i].attempts :
        x = <<i, n>> /\ rows[i].attempts[n].ran /\ AttemptOf(x) = rows[i].attempts[n]
  BY AttemptedIs
<1>2. PICK n \in DOMAIN rows[i].attempts :
        x = <<i, n>> /\ rows[i].attempts[n].ran /\ AttemptOf(x) = rows[i].attempts[n]
  BY <1>1
<1>3. PICK j \in DOMAIN rows : \E m \in DOMAIN rows[j].attempts :
        y = <<j, m>> /\ rows[j].attempts[m].ran /\ AttemptOf(y) = rows[j].attempts[m]
  BY AttemptedIs
<1>4. PICK m \in DOMAIN rows[j].attempts :
        y = <<j, m>> /\ rows[j].attempts[m].ran /\ AttemptOf(y) = rows[j].attempts[m]
  BY <1>3
<1>5. TaskOf(i) = TaskOf(j)
  BY <1>2, <1>4
<1>6. rows[i].attempts[n].before = rows[j].attempts[m].before
  BY <1>2, <1>4, <1>5 DEF EvaluatorInv, RowsInv, SawIt
<1>7. /\ rows[i].attempts[n].before = rows[i].attempts[n].after
      /\ rows[j].attempts[m].before = rows[j].attempts[m].after
  BY <1>2, <1>4 DEF EvaluatorInv, RowsInv, RowBacked, Backed
<1> QED BY <1>2, <1>4, <1>6, <1>7

LEMMA Whole == EvaluatorInv => ResultIsWhole
<1> SUFFICES ASSUME EvaluatorInv PROVE ResultIsWhole
  OBVIOUS
<1>0. /\ rows \in Seq(Rows) /\ attested \in Seq(Attestations)
      /\ DOMAIN rows = 1..Len(rows) /\ Len(rows) \in Nat
      /\ DOMAIN attested = 1..Len(attested) /\ Len(attested) \in Nat
  <2>1. /\ rows \in Seq(Rows) => DOMAIN rows = 1..Len(rows) /\ Len(rows) \in Nat
        /\ attested \in Seq(Attestations) => DOMAIN attested = 1..Len(attested) /\ Len(attested) \in Nat
    OBVIOUS
  <2> QED BY <2>1 DEF EvaluatorInv, TypesInv
<1>1. NoDanglingReference
  <2>1. ASSUME NEW x \in Attempted
        PROVE  /\ x \in trace.requests /\ x \in trace.expected
               /\ \A w \in {AttemptOf(x).before, AttemptOf(x).after} :
                    /\ [of |-> x, status |-> "MATCH", world |-> w] \in trace.results
                    /\ [of |-> x, world |-> w] \in trace.inputs
    <3>1. PICK i \in DOMAIN rows : \E n \in DOMAIN rows[i].attempts :
            x = <<i, n>> /\ rows[i].attempts[n].ran /\ AttemptOf(x) = rows[i].attempts[n]
      BY AttemptedIs
    <3>2. Backed(x, AttemptOf(x))
      BY <3>1 DEF EvaluatorInv, RowsInv, RowBacked
    <3> QED BY <3>2 DEF Backed
  <2>2. \A i \in DOMAIN attested : Fits(i, attested[i])
    BY DEF EvaluatorInv, AttestedInv
  <2> QED BY <2>1, <2>2 DEF NoDanglingReference, Fits
<1>2. AttestationsFollowRows
  <2> SUFFICES ASSUME pc = "done" PROVE AttestationsFollowRows
    BY DEF AttestationsFollowRows, Published
  <2>1. Lengths(outcome.code) /\ Len(rows) <= Len(attested)
    BY DEF EvaluatorInv, PlaceInv, AttestedInv
  <2>2. DOMAIN rows \subseteq DOMAIN attested
    BY <1>0, <2>1
  <2> QED BY <2>1, <2>2 DEF AttestationsFollowRows, Lengths, EvaluatorInv, AttestedInv, Fits
<1>3. QuietEndLeavesNothing
  BY DEF QuietEndLeavesNothing, HasScore, Published, EvaluatorInv, QuietInv, FilesInv
<1> QED BY <1>1, <1>2, <1>3 DEF ResultIsWhole

\* A published score rests on one environment and one content of the inputs of
\* each task, however many tasks and samples it has and however often the world
\* changed while it ran.
THEOREM ScoresRestOnOneInput == Spec => []ScoreRestsOnOneInput
BY InvariantHolds, OneInput, PTL

\* Whatever ended an evaluation, what it published has no dangling reference and
\* one attestation for every row, and a quiet end left no file and no child.
THEOREM ResultsAreWhole == Spec => []ResultIsWhole
BY InvariantHolds, Whole, PTL

\* No step of the evaluator removes a file that somebody else wrote, however
\* many there are.
THEOREM OthersFilesAlwaysSurvive == Spec => OthersFilesSurvive
<1>1. EvaluatorInv /\ [Next]_vars => [\A f \in Files : files[f] = "other" => files'[f] = "other"]_vars
  BY FilesKept DEF EvaluatorInv, OthersStay
<1> QED BY <1>1, InvariantHolds, PTL DEF Spec, OthersFilesSurvive
-----------------------------------------------------------------------------
(* What the gate asks of an improvement.                                   *)
LEMMA AttemptedHas ==
  ASSUME NEW i \in DOMAIN rows, NEW n \in DOMAIN rows[i].attempts, rows[i].attempts[n].ran
  PROVE  <<i, n>> \in Attempted /\ AttemptOf(<<i, n>>) = rows[i].attempts[n]
<1>1. Document.rows = rows
  BY DEF Document
<1>2. Attempted = UNION {{i2} \X RanIn(rows[i2]) : i2 \in DOMAIN rows}
  BY <1>1 DEF Attempted, Invocations
<1>3. n \in RanIn(rows[i])
  BY DEF RanIn
<1>4. <<i, n>> \in {i} \X RanIn(rows[i])
  BY <1>3
<1>5. <<i, n>> \in Attempted
  BY <1>2, <1>4
<1>6. AttemptOf(<<i, n>>) = rows[i].attempts[n]
  BY <1>1 DEF AttemptOf, AttemptAt
<1> QED BY <1>5, <1>6

\* A row's attempts, as the gate counts and times them.
LEMMA ShapedIs ==
  ASSUME NEW r \in Rows, RowShaped(r), r.status # "ERROR"
  PROVE  /\ Len(r.attempts) \in {1, 2} /\ Len(r.attempts) <= 1 + RepairLimit
         /\ DOMAIN r.attempts = 1..Len(r.attempts)
         /\ RanIn(r) = 1..(r.repairs + 1) /\ Cardinality(RanIn(r) \ {1}) = r.repairs
         /\ r.repairs <= RepairLimit /\ Max(RanIn(r)) = r.repairs + 1
         /\ r.time = PassingTime(r)
         /\ \A n \in DOMAIN r.attempts :
              IF r.attempts[n].ran THEN r.attempts[n].status \in Statuses /\ r.attempts[n].time >= 1
              ELSE n = 2 /\ r.attempts[n] = Skipped
<1> DEFINE a == r.attempts
           k == r.repairs
<1>0. RepairLimit \in {0, 1}
  BY ScoreAssumption
<1>1. /\ a \in Seq(Tried) /\ k \in {0, 1}
      /\ Len(a) \in {1, 2} /\ k + 1 <= Len(a) /\ a[1].ran
      /\ Len(a) = 2 => /\ RepairLimit = 1 /\ a[1].status = "FAIL"
                       /\ IF k + 1 = 2 THEN a[2].ran ELSE a[2] = Skipped
      /\ RanWell(a) /\ r.status = a[k + 1].status
      /\ r.time = IF r.status = "PASS" THEN TotalOf(a) ELSE 0
  BY DEF Rows, RowShaped, Shaped
<1> HIDE DEF a, k
<1>2. /\ DOMAIN a = 1..Len(a) /\ \A n \in DOMAIN a : n = 1 \/ (n = 2 /\ Len(a) = 2)
      /\ 1 \in DOMAIN a /\ k + 1 \in DOMAIN a
  BY <1>1
<1>3. \A n \in DOMAIN a : a[n].ran <=> n <= k + 1
  <2>1. k = 1 => Len(a) = 2 /\ a[2].ran
    BY <1>1
  <2>2. k = 0 /\ Len(a) = 2 => ~a[2].ran
    BY <1>1, SkippedIs
  <2>3. k \in {0, 1} /\ a[1].ran
    BY <1>1
  <2> QED BY <1>2, <2>1, <2>2, <2>3
<1>4. RanIn(r) = 1..(k + 1)
  <2>1. RanIn(r) = {n \in DOMAIN a : a[n].ran}
    BY DEF RanIn, a
  <2> QED BY <1>1, <1>2, <1>3, <2>1
<1>5. Cardinality(RanIn(r) \ {1}) = k
  <2>1. CASE k = 0
    <3>1. RanIn(r) \ {1} = {}
      BY <1>4, <2>1
    <3> QED BY <2>1, <3>1, FS_EmptySet
  <2>2. CASE k = 1
    <3>1. RanIn(r) \ {1} = {2}
      BY <1>4, <2>2
    <3> QED BY <2>2, <3>1, FS_Singleton
  <2> QED BY <1>1, <2>1, <2>2
<1>6. Max(RanIn(r)) = k + 1
  <2>1. k + 1 \in 1..(k + 1) /\ 1..(k + 1) \subseteq Int /\ \A j \in 1..(k + 1) : j <= k + 1
    BY <1>1
  <2> QED BY <1>4, <2>1, MaxIs
<1>7. \A n \in DOMAIN a : IF a[n].ran THEN a[n].status \in Statuses /\ a[n].time >= 1 ELSE n = 2 /\ a[n] = Skipped
  <2> SUFFICES ASSUME NEW n \in DOMAIN a
               PROVE  IF a[n].ran THEN a[n].status \in Statuses /\ a[n].time >= 1 ELSE n = 2 /\ a[n] = Skipped
    OBVIOUS
  <2>1. CASE ~a[n].ran
    <3>1. n = 2 /\ Len(a) = 2 /\ k + 1 # 2
      BY <1>1, <1>2, <1>3, <2>1
    <3> QED BY <1>1, <2>1, <3>1
  <2>2. CASE a[n].ran
    <3>1. a[n].status \in Statuses \cup {"ERROR"} /\ a[n].time >= 1 /\ n <= k + 1
      BY <1>1, <1>3, <2>2 DEF RanWell
    <3>2. n = k + 1 \/ (n = 1 /\ Len(a) = 2)
      BY <1>1, <1>2, <3>1
    <3>3. a[n].status # "ERROR"
      BY <1>1, <3>2
    <3> QED BY <2>2, <3>1, <3>3
  <2> QED BY <2>1, <2>2
<1>8. r.time = PassingTime(r)
  <2> DEFINE passing == {n \in RanIn(r) : a[n].status = "PASS"}
             f == [n \in DOMAIN a |-> a[n].time]
  <2>1. PassingTime(r) = IF passing = {} THEN 0
                         ELSE SumFunctionOnSet(f, {n \in RanIn(r) : n <= Min(passing)})
    BY DEF PassingTime, a
  <2>2. \A n \in RanIn(r) : n = k + 1 \/ (n = 1 /\ a[1].status = "FAIL")
    BY <1>1, <1>4
  <2>3. passing = IF r.status = "PASS" THEN {k + 1} ELSE {}
    <3>1. k + 1 \in RanIn(r)
      BY <1>1, <1>4
    <3> QED BY <1>1, <2>2, <3>1
  <2>4. \A n \in DOMAIN a : f[n] = a[n].time /\ f[n] \in Nat
    <3>1. \A n \in DOMAIN a : a[n] \in Tried
      BY <1>1
    <3> QED BY <3>1 DEF Tried
  <2> HIDE DEF passing, f
  <2>5. CASE r.status # "PASS"
    BY <1>1, <2>1, <2>3, <2>5
  <2>6. CASE r.status = "PASS"
    <3>1. Min(passing) = k + 1 /\ passing # {}
      <4>1. k + 1 \in passing /\ passing \subseteq Int /\ \A j \in passing : k + 1 <= j
        BY <1>1, <2>3, <2>6
      <4> QED BY <4>1, MinIs
    <3>2. {n \in RanIn(r) : n <= Min(passing)} = 1..(k + 1)
      BY <1>1, <1>4, <3>1
    <3>3. PassingTime(r) = SumFunctionOnSet(f, 1..(k + 1))
      BY <2>1, <3>1, <3>2
    <3>4. CASE k = 0
      <4>1. Len(a) = 1
        <5>1. k + 1 = 1 /\ r.status = a[k + 1].status
          BY <1>1, <3>4
        <5>2. a[1].status = "PASS"
          BY <2>6, <5>1
        <5> QED BY <1>1, <5>2
      <4>2. 1..(k + 1) = {1} /\ f[1] = a[1].time /\ f[1] \in Nat
        BY <1>2, <2>4, <3>4
      <4>3. PassingTime(r) = a[1].time
        BY <3>3, <4>2, SumOfOne
      <4> QED BY <1>1, <2>6, <4>1, <4>3 DEF TotalOf
    <3>5. CASE k = 1
      <4>1. Len(a) = 2 /\ 2 \in DOMAIN a
        BY <1>1, <1>2, <3>5
      <4>2. 1..(k + 1) = {1, 2}
        BY <3>5
      <4>3. f[1] = a[1].time /\ f[2] = a[2].time /\ f[1] \in Nat /\ f[2] \in Nat /\ 1 # 2
        BY <1>2, <2>4, <4>1
      <4>4. SumFunctionOnSet(f, {1, 2}) = f[1] + f[2]
        BY <4>3, SumOfTwo
      <4> QED BY <1>1, <2>6, <3>3, <4>1, <4>2, <4>3, <4>4 DEF TotalOf
    <3> QED BY <1>1, <3>4, <3>5
  <2> QED BY <2>5, <2>6
<1>9. Len(a) <= 1 + RepairLimit /\ k <= RepairLimit
  <2>1. CASE Len(a) = 1
    <3>1. k = 0 /\ 1 <= 1 + RepairLimit /\ 0 <= RepairLimit
      BY <1>0, <1>1, <2>1
    <3> QED BY <2>1, <3>1
  <2>2. CASE Len(a) = 2
    <3>1. RepairLimit = 1 /\ k <= 1 /\ 2 <= 1 + 1
      BY <1>1, <2>2
    <3> QED BY <2>2, <3>1
  <2> QED BY <1>1, <2>1, <2>2
<1> QED BY <1>1, <1>2, <1>4, <1>5, <1>6, <1>7, <1>8, <1>9 DEF a, k

\* What the evaluator does not check, and the gate needs.
Proviso ==
  /\ \A x \in Attempted : AttemptOf(x).before.env = probed
  /\ \A x \in Attempted : AttemptOf(x).time <= TimeLimit

LEMMA AttemptsAdmitted ==
  ASSUME EvaluatorInv, Scoring, Proviso, NEW i \in DOMAIN rows
  PROVE  AttemptsOf(Document, i)
<1> DEFINE r == rows[i]
<1>1. r \in Rows /\ RowShaped(r) /\ r.status # "ERROR" /\ RowBacked(i, r)
  BY DEF EvaluatorInv, TypesInv, ShapeInv, RowsInv, Live
<1>2. Document.rows[i] = r /\ Document.requests = trace.requests
      /\ Document.results = trace.results /\ Document.inputs = trace.inputs
  BY DEF Document
<1>3. \A n \in DOMAIN r.attempts :
        r.attempts[n].ran => <<i, n>> \in Attempted /\ AttemptOf(<<i, n>>) = r.attempts[n]
  BY AttemptedHas
<1> HIDE DEF r
<1>4. \A n \in DOMAIN r.attempts : r.attempts[n].ran => r.attempts[n].time <= TimeLimit
  BY <1>3 DEF Proviso
<1>5. /\ Len(r.attempts) \in {1, 2} /\ Len(r.attempts) <= 1 + RepairLimit
      /\ DOMAIN r.attempts = 1..Len(r.attempts)
      /\ RanIn(r) = 1..(r.repairs + 1) /\ Cardinality(RanIn(r) \ {1}) = r.repairs
      /\ r.repairs <= RepairLimit /\ Max(RanIn(r)) = r.repairs + 1
      /\ r.time = PassingTime(r)
      /\ \A n \in DOMAIN r.attempts :
           IF r.attempts[n].ran THEN r.attempts[n].status \in Statuses /\ r.attempts[n].time >= 1
           ELSE n = 2 /\ r.attempts[n] = Skipped
  BY <1>1, ShapedIs
<1>6. ASSUME NEW n \in DOMAIN r.attempts PROVE AttemptRecord(Document, i, n)
  <2> DEFINE a == r.attempts[n]
  <2>0. Document.rows[i].attempts[n] = a
    BY <1>2
  <2>1. CASE a.ran
    <3>1. a \in Tried /\ a.time \in Nat
      <4>1. r.attempts \in Seq(Tried)
        BY <1>1 DEF Rows
      <4>2. a \in Tried
        BY <4>1
      <4> QED BY <4>2 DEF Tried
    <3>2. a.status \in Statuses /\ a.time \in 1..TimeLimit
      <4>1. a.time >= 1 /\ a.time <= TimeLimit /\ a.status \in Statuses
        BY <1>4, <1>5, <2>1
      <4>2. TimeLimit \in Nat
        BY EvaluatorAssumption
      <4> QED BY <3>1, <4>1, <4>2
    <3>3. Backed(<<i, n>>, a)
      BY <1>1, <2>1 DEF RowBacked
    <3>4. AttemptAt(Document, <<i, n>>) = a
      BY <1>2 DEF AttemptAt
    <3> HIDE DEF a
    <3>5. AttemptTraces(Document, <<i, n>>)
      BY <1>2, <3>3, <3>4 DEF AttemptTraces, Backed
    <3> QED BY <2>0, <2>1, <3>2, <3>5 DEF AttemptRecord
  <2>2. CASE ~a.ran
    <3>1. n = 2 /\ a = Skipped
      BY <1>5, <2>2
    <3> HIDE DEF a
    <3> QED BY <2>0, <2>2, <3>1, SkippedIs DEF AttemptRecord
  <2> QED BY <2>1, <2>2
<1>7. /\ r.status = r.attempts[r.repairs + 1].status /\ r.time <= TimeLimit /\ r.repairs \in {0, 1}
  BY <1>1 DEF RowShaped, Rows
<1>8. RanIn(r) # {} /\ Len(r.attempts) \in 1..(1 + RepairLimit)
  <2>1. RepairLimit \in {0, 1}
    BY ScoreAssumption
  <2>2. 1 \in 1..(r.repairs + 1)
    BY <1>7
  <2>3. RanIn(r) # {}
    BY <1>5, <2>2
  <2>4. CASE RepairLimit = 0
    BY <1>5, <2>3, <2>4
  <2>5. CASE RepairLimit = 1
    BY <1>5, <2>3, <2>5
  <2> QED BY <2>1, <2>4, <2>5
<1> QED BY <1>2, <1>5, <1>6, <1>7, <1>8 DEF AttemptsOf

\* The invocations whose records the streams hold.
LEMMA StreamsAre ==
  ASSUME EvaluatorInv, Scoring
  PROVE  /\ \A s \in trace.inputs : s.of \in Attempted /\ s.world = AttemptOf(s.of).before
         /\ \A r \in trace.results : r.of \in Attempted /\ r.world = AttemptOf(r.of).before
                                     /\ r.status = "MATCH"
         /\ trace.expected = Attempted
<1>1. pc \notin Running /\ pc \notin Seeing
  BY DEF Scoring, Running, Seeing
<1>2. \A x, w : Accounted(x, w) => x \in Attempted /\ AttemptOf(x).before = w
  BY <1>1, AttemptedHas DEF Accounted
<1>3. /\ \A r \in trace.results : r.status = "MATCH" /\ Accounted(r.of, r.world)
      /\ \A s \in trace.inputs : Accounted(s.of, s.world)
      /\ \A x \in trace.expected : \E w \in Worlds : Accounted(x, w)
  BY <1>1 DEF EvaluatorInv, ExactInv, Live
<1>4. Attempted \subseteq trace.expected
  <2> SUFFICES ASSUME NEW x \in Attempted PROVE x \in trace.expected
    OBVIOUS
  <2>1. PICK i \in DOMAIN rows : \E n \in DOMAIN rows[i].attempts :
          x = <<i, n>> /\ rows[i].attempts[n].ran /\ AttemptOf(x) = rows[i].attempts[n]
    BY AttemptedIs
  <2> QED BY <2>1 DEF EvaluatorInv, RowsInv, RowBacked, Backed
<1> QED BY <1>2, <1>3, <1>4

\* The first invocation of a task.
LEMMA FirstOf ==
  ASSUME NEW t \in Tasks
  PROVE  /\ (t - 1) * (2 * SampleCount) + 1 \in 1..Last
         /\ TaskOf((t - 1) * (2 * SampleCount) + 1) = t
<1> DEFINE k == 2 * SampleCount
           C == Cardinality(Tasks)
<1>1. SampleCount \in Nat \ {0} /\ C \in Nat \ {0} /\ Last = k * C /\ k \in Nat \ {0}
  BY LastIsThere
<1>2. t \in Nat \ {0} /\ t <= C
  BY <1>1, EvaluatorAssumption
<1>3. TaskOf((t - 1) * k + 1) = (((t - 1) * k + 1) - 1) \div k + 1
  BY DEF TaskOf
<1> HIDE DEF k, C
<1>4. (t - 1) * k \in Nat /\ (t - 1) * k + k <= k * C
  <2>1. (t - 1) * k \in Nat
    BY <1>1, <1>2, SMT
  <2>2. (t - 1) * k + k = t * k
    BY <1>1, <1>2, SMT
  <2>3. t * k <= C * k
    BY <1>1, <1>2, SMT
  <2> QED BY <1>1, <2>1, <2>2, <2>3, SMT
<1>5. ((t - 1) * k) \div k = t - 1
  <2>1. \A m \in Nat, j \in Nat \ {0} : (m * j) \div j = m
    <3> SUFFICES ASSUME NEW m \in Nat, NEW j \in Nat \ {0} PROVE (m * j) \div j = m
      OBVIOUS
    <3> QED BY SMT
  <2> QED BY <1>1, <1>2, <2>1
<1>6. (t - 1) * k + 1 \in 1..Last
  BY <1>1, <1>4
<1>7. ((t - 1) * k + 1) - 1 = (t - 1) * k
  BY <1>4
<1>8. TaskOf((t - 1) * k + 1) = t
  BY <1>2, <1>3, <1>5, <1>7
<1> QED BY <1>6, <1>8 DEF k

LEMMA CorpusCovered ==
  ASSUME EvaluatorInv, Scoring
  PROVE  CorpusCoverage(Document)
<1>1. Document.inputs = trace.inputs /\ Invocations(Document) = Attempted
  BY DEF Document, Attempted
<1>2. ASSUME NEW t \in Tasks PROVE \E s \in trace.inputs : TaskOf(s.of[1]) = t
  <2> DEFINE i == (t - 1) * (2 * SampleCount) + 1
  <2>1. i \in 1..Last /\ TaskOf(i) = t
    BY FirstOf
  <2> HIDE DEF i
  <2>2. i \in DOMAIN rows
    <3>1. rows \in Seq(Rows) /\ Len(rows) = Last
      BY DEF EvaluatorInv, TypesInv, ScoreInv
    <3>2. DOMAIN rows = 1..Last
      BY <3>1
    <3> QED BY <2>1, <3>2
  <2>3. 1 \in DOMAIN rows[i].attempts /\ rows[i].attempts[1].ran
    <3>1. RowShaped(rows[i]) /\ rows[i] \in Rows
      BY <2>2 DEF EvaluatorInv, ShapeInv, TypesInv
    <3>2. Len(rows[i].attempts) \in {1, 2} /\ rows[i].attempts[1].ran /\ rows[i].attempts \in Seq(Tried)
      BY <3>1 DEF RowShaped, Shaped, Rows
    <3> QED BY <3>2
  <2>4. [of |-> <<i, 1>>, world |-> rows[i].attempts[1].before] \in trace.inputs
    BY <2>2, <2>3 DEF EvaluatorInv, RowsInv, RowBacked, Backed
  <2>5. [of |-> <<i, 1>>, world |-> rows[i].attempts[1].before].of[1] = i
    OBVIOUS
  <2> QED BY <2>1, <2>4, <2>5
<1>3. Cardinality(trace.inputs) <= Cardinality(Attempted)
  <2> DEFINE f == [s \in trace.inputs |-> s.of]
  <2>1. IsFiniteSet(Attempted)
    <3>1. IsFiniteSet(1..Last)
      BY LastIsThere, FS_Interval
    <3>2. IsFiniteSet({1, 2})
      <4>1. {1, 2} = 1..2
        OBVIOUS
      <4>2. 1 \in Int /\ 2 \in Int
        OBVIOUS
      <4>3. IsFiniteSet(1..2)
        BY <4>2, FS_Interval
      <4> QED BY <4>1, <4>3
    <3>3. IsFiniteSet(Attempts)
      BY <3>1, <3>2, FS_Product DEF Attempts
    <3>4. Attempted \subseteq Attempts
      BY StreamsAre DEF EvaluatorInv, TypesInv, Traces
    <3> QED BY <3>3, <3>4, FS_Subset
  <2>2. \A s \in trace.inputs : s \in InputRecords
    BY DEF EvaluatorInv, TypesInv, Traces
  <2>3. f \in [trace.inputs -> Attempted]
    BY StreamsAre
  <2>4. \A s, u \in trace.inputs : f[s] = f[u] => s = u
    <3> SUFFICES ASSUME NEW s \in trace.inputs, NEW u \in trace.inputs, s.of = u.of PROVE s = u
      OBVIOUS
    <3>1. s.world = u.world
      BY StreamsAre
    <3>2. s \in InputRecords /\ u \in InputRecords
      BY <2>2
    <3> QED BY <3>1, <3>2 DEF InputRecords
  <2> HIDE DEF f
  <2>5. f \in Injection(trace.inputs, Attempted)
    BY <2>3, <2>4 DEF Injection, IsInjective
  <2> QED BY <2>1, <2>5, FS_Injection
<1> QED BY <1>1, <1>2, <1>3 DEF CorpusCoverage

LEMMA ClosureSound ==
  ASSUME EvaluatorInv, Scoring, Proviso
  PROVE  SnapshotClosure(Document)
<1>1. /\ Document.results = trace.results /\ Document.inputs = trace.inputs
      /\ Document.requests = trace.requests /\ Document.environment = probed
      /\ Document.rows = rows /\ Document.attested = attested
  BY DEF Document
<1>2. \A r \in trace.results : r.status = "MATCH" /\ r.world.env = probed
  BY StreamsAre DEF Proviso
<1>3. Len(attested) = Last /\ Len(rows) = Last
  BY DEF EvaluatorInv, ScoreInv
<1>4. DOMAIN attested = DOMAIN rows
  <2>1. /\ rows \in Seq(Rows) => DOMAIN rows = 1..Len(rows)
        /\ attested \in Seq(Attestations) => DOMAIN attested = 1..Len(attested)
    OBVIOUS
  <2> QED BY <1>3, <2>1 DEF EvaluatorInv, TypesInv
<1>5. ASSUME NEW i \in DOMAIN attested
      PROVE  /\ attested[i].of[1] = i /\ attested[i].status = "COMPLETE"
             /\ Cardinality(attested[i].results) = 1 /\ Cardinality(attested[i].inputs) = 1
             /\ attested[i].of \in trace.requests
             /\ attested[i].results \subseteq trace.results
             /\ attested[i].inputs \subseteq trace.inputs
  <2>1. Fits(i, attested[i]) /\ attested[i].status = "COMPLETE" /\ Single(attested[i])
    BY <1>4 DEF EvaluatorInv, AttestedInv
  <2>2. Cardinality(attested[i].results) = 1 /\ Cardinality(attested[i].inputs) = 1
    BY <2>1, FS_Singleton DEF Single
  <2> QED BY <2>1, <2>2 DEF Fits
<1> QED BY <1>1, <1>2, <1>3, <1>5 DEF SnapshotClosure

LEMMA GateAdmits == EvaluatorInv => GateAdmitsImprovements
<1> SUFFICES ASSUME EvaluatorInv, HasScore, outcome.status = "IMPROVED", Proviso
             PROVE  Admits(Document)
  BY DEF GateAdmitsImprovements, Proviso
<1>1. pc = "done" /\ Scoring
  BY DEF HasScore, Published, Scoring
<1>2. /\ Len(rows) = Last /\ outcome.code = "NONE"
      /\ outcome.status = Verdict(Arm("PARENT"), Arm("CANDIDATE"))
  BY <1>1 DEF EvaluatorInv, ScoreInv
<1>3. /\ Document.status = outcome.status /\ Document.code = outcome.code /\ Document.rows = rows
      /\ Document.expected = trace.expected /\ Invocations(Document) = Attempted
  BY DEF Document, Attempted
<1>4. ExpectedInputs(Document)
  BY <1>1, <1>3, StreamsAre DEF ExpectedInputs
<1>5. Rescored(Document)
  BY <1>2, <1>3, ArmIs DEF Rescored
<1>6. \A i \in DOMAIN rows : AttemptsOf(Document, i)
  BY <1>1, AttemptsAdmitted
<1>7. CorpusCoverage(Document) /\ SnapshotClosure(Document)
  BY <1>1, CorpusCovered, ClosureSound
<1> QED BY <1>2, <1>3, <1>4, <1>5, <1>6, <1>7 DEF Admits

\* Every improvement the evaluator publishes is admitted by the gate, which
\* derives all of it again from the published records, provided that no
\* environment changed since the preflight and no failing adapter ran longer
\* than the ceiling.
THEOREM ImprovementsAreAdmitted == Spec => []GateAdmitsImprovements
BY InvariantHolds, GateAdmits, PTL
=============================================================================
