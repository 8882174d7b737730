-------------------------- MODULE PromptEvaluator --------------------------
(***************************************************************************)
(* One run of scripts/prompt-evaluate.py: admission of a request, trust in *)
(* the reviewed sources, the workspace preflight, then for every task and  *)
(* sample the two arms in alternating order.  An invocation is one or two  *)
(* attempts (the second repairs the first); an attempt writes its input    *)
(* files, has the snapshot helper observe the world, runs the measurement  *)
(* adapter, observes again, retires its files.  Every observation goes     *)
(* into streams that the rows and the attestations name.                   *)
(*                                                                         *)
(* Around the evaluator the world changes: the environment or an input of  *)
(* the task, and somebody may put a file where the evaluator wants one.    *)
(*                                                                         *)
(* Abstractions: a record is the identity of what produced it and what it  *)
(* observed; files of the request directory and of the workspace are names;*)
(* prompts are not rendered; a child is the outcomes of run_child; times   *)
(* are small numbers; seeds, the trust in the sources (it decides only     *)
(* gate_eligible) and the text of errors are left out.                     *)
(***************************************************************************)
EXTENDS PromptGate

CONSTANTS
  Durations,   \* how long an adapter may run
  Changes      \* bound: changes of the world and files of others

ASSUME EvaluatorAssumption ==
  /\ Tasks = 1..Cardinality(Tasks)
  /\ TimeLimit \in Nat /\ Changes \in Nat
  /\ IsFiniteSet(Durations) /\ Durations # {} /\ Durations \subseteq Nat \ {0}

VARIABLES
  pc,        \* where the evaluator is
  at,        \* the invocation: position in the schedule
  attempt,   \* attempt_index
  files,     \* who wrote each file
  owned,     \* owned_paths
  world,     \* the environment and the inputs as they are
  changes,   \* changes left
  probed,    \* the environment of the preflight, which names every row's
  baseline,  \* baseline_environment_probe and baseline_artifact_digests
  before, after,  \* snapshot results of the attempt
  measured,  \* the adapter's measurement
  tries,     \* the attempts of the invocation that ended
  rows, attested, trace,  \* the streams of the result
  childLeft, \* run_child could not prove that a child was gone
  ending,    \* how the evaluation is about to end
  outcome    \* what the process left: its exit status and its result

inputVars == <<files, owned, world, changes>>
checkVars == <<probed, baseline>>
attemptVars == <<before, after, measured>>
streamVars == <<rows, attested, trace>>
endVars == <<ending, outcome>>
vars == <<pc, at, attempt, inputVars, checkVars, attemptVars, tries, streamVars, childLeft, endVars>>

-----------------------------------------------------------------------------
Inputs == {"variant", "rendered", "request"}
Workspace == Inputs \cup {"measurement"}
Files == Workspace \cup {"snapshot"}
Worlds == [env: {0, 1}, input: {0, 1}]
None == [env |-> 9, input |-> 9]
Seen == Worlds \cup {None}
Snapshots == {"MATCH", "MISMATCH", "INTERNAL", "CLEANUP"}
Id == <<at, attempt>>
Result(status, w) == [of |-> Id, status |-> status, world |-> w]
Input(w) == [of |-> Id, world |-> w]
NoResult == [of |-> <<0, 0>>, status |-> "none", world |-> None]
Unmeasured == [status |-> "none", time |-> 0, repairable |-> FALSE, clean |-> TRUE]
NoTrace == [requests |-> {}, results |-> {}, inputs |-> {}, expected |-> {}]

Init ==
  /\ pc = "admit" /\ at = 1 /\ attempt = 1
  /\ files = [f \in Files |-> "none"] /\ owned = {}
  /\ world = [env |-> 0, input |-> 0] /\ changes = Changes
  /\ probed = 9 /\ baseline = None
  /\ before = NoResult /\ after = NoResult /\ measured = Unmeasured
  /\ tries = <<>> /\ rows = <<>> /\ attested = <<>> /\ trace = NoTrace
  /\ childLeft = FALSE
  /\ ending = [status |-> "none", code |-> "none", cut |-> FALSE, diagnosed |-> FALSE]
  /\ outcome = [exit |-> 9, status |-> "none", code |-> "none"]

Goes(a, b) == pc = a /\ pc' = b

\* finish(evaluation_result(status, code), checkpoint, cleanup_diagnosed)
Ends(status, code, cut, diagnosed) ==
  /\ pc' = "finish"
  /\ ending' = [status |-> status, code |-> code, cut |-> cut, diagnosed |-> diagnosed]
Aborts(code) == Ends("ERROR", code, TRUE, code = "CLEANUP_FAILED")

\* An error before the first row returns its pair without finish.
Returns(code) ==
  /\ pc' = "emit"
  /\ ending' = [status |-> "ERROR", code |-> code, cut |-> FALSE, diagnosed |-> FALSE]

\* An exception that only main catches.
Escapes == pc' = "escape" /\ UNCHANGED ending

\* An EvaluationError raised inside an attempt: build_repair_attempt's caller
\* takes it for a repair prompt that cannot be derived again.
EscapesAttempt == IF attempt = 1 THEN Escapes ELSE Aborts("REPAIR_RENDER")

Attests(status) ==
  attested' = Append(attested,
    [of |-> Id, status |-> status,
     results |-> {r \in {before', after'} : r.status # "none"},
     inputs |-> IF status = "PRECHECK_FAILED" THEN {}
                ELSE {Input(r.world) : r \in {s \in {before', after'} : s.status = "MATCH"}}])
-----------------------------------------------------------------------------
(* Admission, before any row.                                              *)

\* The request is not a request, or the result path is taken: no document.
RequestRejected ==
  /\ pc = "admit" /\ Escapes
  /\ UNCHANGED <<at, attempt, inputVars, checkVars, attemptVars, tries, streamVars, childLeft, outcome>>

\* The evidence path or an input of the request is invalid, or the credential
\* is missing: a result without evidence.
InputsRejected ==
  /\ pc = "admit"
  /\ \E code \in {"INVALID_PATH", "INVALID_SCHEMA", "MISSING_CREDENTIAL"} : Returns(code)
  /\ UNCHANGED <<at, attempt, inputVars, checkVars, attemptVars, tries, streamVars, childLeft, outcome>>

InputsAdmitted ==
  /\ Goes("admit", "trust")
  /\ UNCHANGED <<at, attempt, inputVars, checkVars, attemptVars, tries, streamVars, childLeft, endVars>>

\* source_trust: a verifier that fails or is killed leaves the sources
\* unverified, one that leaves a process behind ends the evaluation, and so
\* does a verifier, an interpreter or a git that changed meanwhile.
SourceTrust ==
  /\ pc = "trust"
  /\ \/ pc' = "membership" /\ UNCHANGED <<childLeft, ending>>
     \/ Returns("CLEANUP_FAILED") /\ childLeft' = TRUE
     \/ Returns("SNAPSHOT_ERROR") /\ UNCHANGED childLeft
  /\ UNCHANGED <<at, attempt, inputVars, checkVars, attemptVars, tries, streamVars, outcome>>

\* verify_task_source_membership: whatever a git child of it does wrong, a
\* failed cleanup included, is an EvaluationError.
SourceMembership ==
  /\ pc = "membership"
  /\ \/ pc' = "preflight" /\ UNCHANGED <<childLeft, ending>>
     \/ Returns("SNAPSHOT_ERROR") /\ childLeft' \in BOOLEAN
  /\ UNCHANGED <<at, attempt, inputVars, checkVars, attemptVars, tries, streamVars, outcome>>

\* The helper is opened before the try: its error has no document.
Preflight ==
  /\ pc = "preflight"
  /\ \/ pc' = "seeds" /\ probed' = world.env /\ UNCHANGED <<childLeft, ending>>
     \/ /\ \E code \in {"WORKSPACE_UNSAFE", "SNAPSHOT_ERROR"} : Returns(code)
        /\ UNCHANGED <<probed, childLeft>>
     \/ Returns("CLEANUP_FAILED") /\ childLeft' = TRUE /\ UNCHANGED probed
     \/ Escapes /\ UNCHANGED <<probed, childLeft>>
  /\ UNCHANGED <<at, attempt, inputVars, baseline, attemptVars, tries, streamVars, outcome>>

SeedArithmetic ==
  /\ pc = "seeds"
  /\ \/ pc' = "prepare" /\ UNCHANGED ending
     \/ Returns("ARITHMETIC")
  /\ UNCHANGED <<at, attempt, inputVars, checkVars, attemptVars, tries, streamVars, childLeft, outcome>>
-----------------------------------------------------------------------------
(* Files.  write_exclusive creates and then owns; retire removes and then  *)
(* gives up ownership, and fails only with the file still owned.           *)

\* The attempt's three input files.  The first name that is taken, or that
\* cannot be written, ends the evaluation as an OSError, also in attempt two.
Prepare ==
  /\ pc = "prepare"
  /\ \E written \in {{}, {"variant"}, {"variant", "rendered"}, Inputs} :
       /\ \A f \in written : files[f] = "none"
       /\ files' = [f \in Files |-> IF f \in written THEN "ours" ELSE files[f]]
       /\ owned' = owned \cup written
       /\ IF written = Inputs THEN pc' = "before" /\ UNCHANGED ending ELSE Escapes
  /\ before' = NoResult /\ after' = NoResult /\ measured' = Unmeasured
  /\ UNCHANGED <<at, attempt, world, changes, checkVars, tries, streamVars, childLeft, outcome>>

\* A retire that gives up ownership too late, and one that gives it up although
\* the file stayed.
RetiresButOwns(set, stuck) ==
  /\ stuck \subseteq set \cap owned
  /\ files' = [f \in Files |-> IF f \in (set \cap owned) \ stuck THEN "none" ELSE files[f]]
  /\ owned' = owned
RetiresAndForgets(set, stuck) ==
  /\ stuck \subseteq set \cap owned
  /\ files' = [f \in Files |-> IF f \in (set \cap owned) \ stuck THEN "none" ELSE files[f]]
  /\ owned' = owned \ set
Retires(set, stuck) ==
  /\ stuck \subseteq set \cap owned
  /\ files' = [f \in Files |-> IF f \in (set \cap owned) \ stuck THEN "none" ELSE files[f]]
  /\ owned' = owned \ (set \ stuck)

\* invoke_snapshot: the result file is created and stays owned whatever the
\* helper makes of it.
Observes(status) ==
  /\ \/ files["snapshot"] = "none"
        /\ files' = [files EXCEPT !["snapshot"] = "ours"] /\ owned' = owned \cup {"snapshot"}
     \/ status = "INTERNAL" /\ UNCHANGED <<files, owned>>
  /\ childLeft' = (childLeft \/ status = "CLEANUP")
Observed(status) == Result(status, IF status = "MATCH" THEN world ELSE None)
SnapshotCode(status) ==
  CASE status = "MISMATCH" -> "SNAPSHOT_MISMATCH"
    [] status = "INTERNAL" -> "SNAPSHOT_ERROR"
    [] status = "CLEANUP" -> "CLEANUP_FAILED"
-----------------------------------------------------------------------------
(* An attempt.                                                             *)

BeforeSnapshot ==
  /\ pc = "before"
  /\ \E status \in Snapshots :
       /\ Observes(status)
       /\ before' = Observed(status) /\ UNCHANGED after
       /\ trace' = [trace EXCEPT !.requests = @ \cup {Id}, !.results = @ \cup {before'},
                                 !.inputs = IF status = "MATCH" THEN @ \cup {Input(world)} ELSE @]
       /\ IF status = "MATCH" THEN pc' = "baseline" /\ UNCHANGED <<attested, ending>>
          ELSE Attests("PRECHECK_FAILED") /\ Aborts(SnapshotCode(status))
  /\ UNCHANGED <<at, attempt, world, changes, checkVars, measured, tries, rows, outcome>>

\* A classification that forgot one of its two comparisons.
DriftOfEnvironmentOnly(seen) ==
  IF seen.env # baseline.env THEN "ENVIRONMENT_DRIFT" ELSE "NONE"
\* classify_task_drift
DriftCode(seen) ==
  IF seen.env # baseline.env THEN "ENVIRONMENT_DRIFT"
  ELSE IF seen.input # baseline.input THEN "INPUT_DRIFT" ELSE "NONE"

\* The first admitted observation of a task is its baseline; later ones must
\* agree with it.  Then the result file of the snapshot is retired.
CheckBaseline ==
  /\ pc = "baseline"
  /\ IF baseline # None /\ DriftCode(before.world) # "NONE"
     THEN /\ UNCHANGED <<before, after, baseline, files, owned>>
          /\ Attests("PRECHECK_DRIFT") /\ Aborts(DriftCode(before.world))
     ELSE /\ baseline' = IF baseline = None THEN before.world ELSE baseline
          /\ UNCHANGED <<before, after, attested>>
          /\ \E stuck \in SUBSET {"snapshot"} :
               /\ Retires({"snapshot"}, stuck)
               /\ IF stuck = {} THEN pc' = "launch" /\ UNCHANGED ending ELSE Aborts("CLEANUP_FAILED")
  /\ UNCHANGED <<at, attempt, world, changes, probed, measured, tries, rows, trace, childLeft, outcome>>

AdapterFails(code) == Attests("ADAPTER_FAILED") /\ Aborts(code)

\* A parent prompt over its limit, or a measurement path that is taken or
\* cannot be created, is the adapter's failure; an adapter that is not the
\* declared one is an EvaluationError nobody in the attempt catches.
Launch ==
  /\ pc = "launch" /\ UNCHANGED <<before, after>>
  /\ \/ AdapterFails("ADAPTER_RESULT") /\ UNCHANGED <<files, owned>>
     \/ /\ files["measurement"] = "none"
        /\ files' = [files EXCEPT !["measurement"] = "ours"] /\ owned' = owned \cup {"measurement"}
        /\ UNCHANGED attested
        /\ \/ pc' = "adapter" /\ UNCHANGED ending
           \/ EscapesAttempt
  /\ UNCHANGED <<at, attempt, world, changes, checkVars, measured, tries, rows, trace, childLeft, outcome>>

\* What an accepted measurement may say.
Measurements ==
  {[status |-> "PASS", time |-> d, repairable |-> FALSE, clean |-> TRUE] : d \in Durations}
  \cup [status: {"FAIL"}, time: {Max(Durations)}, repairable: BOOLEAN, clean: {TRUE}]
  \cup [status: {"POLICY_VIOLATION"}, time: {1}, repairable: {FALSE}, clean: {TRUE}]
  \cup [status: {"ERROR"}, time: {1}, repairable: {FALSE}, clean: BOOLEAN]

\* invoke_adapter: whatever ends the child, the measurement file is retired,
\* and a file that stays is a failed cleanup.  The document is accepted only
\* when it is valid, claims no repair of its own and is of the rendered prompt.
AdapterEnds ==
  /\ pc = "adapter" /\ UNCHANGED <<before, after>>
  /\ \/ \E stuck \in SUBSET {"measurement"} :
          /\ Retires({"measurement"}, stuck)
          /\ \/ /\ \E code \in {"ADAPTER_TIMEOUT", "ADAPTER_PROCESS_OUTPUT", "ADAPTER_RESULT", "CLEANUP_FAILED"} :
                     /\ AdapterFails(IF stuck = {} THEN code ELSE "CLEANUP_FAILED")
                     /\ childLeft' = (childLeft \/ code = "CLEANUP_FAILED")
                /\ UNCHANGED measured
             \/ stuck = {} /\ measured' \in Measurements
                /\ pc' = "after" /\ UNCHANGED <<attested, childLeft, ending>>
     \/ EscapesAttempt /\ UNCHANGED <<files, owned, measured, attested, childLeft>>
  /\ UNCHANGED <<at, attempt, world, changes, checkVars, tries, rows, trace, outcome>>

AfterSnapshot ==
  /\ pc = "after" /\ UNCHANGED before
  /\ \E status \in Snapshots :
       /\ Observes(status)
       /\ after' = Observed(status)
       /\ trace' = [trace EXCEPT !.results = @ \cup {after'}]
       /\ IF status = "MATCH" THEN pc' = "drift" /\ UNCHANGED <<attested, ending>>
          ELSE Attests("POSTCHECK_FAILED") /\ Aborts(SnapshotCode(status))
  /\ UNCHANGED <<at, attempt, world, changes, checkVars, measured, tries, rows, outcome>>

\* The second observation must agree with the baseline and with the first;
\* then the input files and the result file are retired.
CheckAfter ==
  /\ pc = "drift" /\ UNCHANGED <<before, after>>
  /\ IF DriftCode(after.world) # "NONE"
     THEN /\ trace' = [trace EXCEPT !.inputs = @ \cup {Input(after.world)}]
          /\ Attests("POSTCHECK_DRIFT") /\ Aborts(DriftCode(after.world))
          /\ UNCHANGED <<files, owned>>
     ELSE /\ UNCHANGED <<trace, attested>>
          /\ \E stuck \in SUBSET (Inputs \cup {"snapshot"}) :
               /\ Retires(Inputs \cup {"snapshot"}, stuck)
               /\ IF stuck = {} THEN pc' = "record" /\ UNCHANGED ending ELSE Aborts("CLEANUP_FAILED")
  /\ UNCHANGED <<at, attempt, world, changes, checkVars, measured, tries, rows, childLeft, outcome>>

\* A passing adapter that claims more time than it took is a TIMING error,
\* after everything it observed went into the streams.
RecordAttempt ==
  /\ pc = "record"
  /\ \/ /\ measured.status = "PASS" /\ Aborts("TIMING")
        /\ UNCHANGED <<tries, trace>>
     \/ /\ tries' = Append(tries, [ran |-> TRUE, status |-> measured.status, time |-> measured.time,
                                   before |-> before.world, after |-> after.world])
        /\ trace' = [trace EXCEPT !.expected = @ \cup {Id}]
        /\ pc' = "repair" /\ UNCHANGED ending
  /\ UNCHANGED <<at, attempt, inputVars, checkVars, attemptVars, rows, attested, childLeft, outcome>>

MayRepair == attempt = 1 /\ RepairLimit >= 1 /\ measured.status = "FAIL"
Skipped == [ran |-> FALSE, status |-> "SKIPPED", time |-> 0, before |-> None, after |-> None]

\* build_repair_attempt: skipped without a template, with diagnostics that
\* cannot be used or with a prompt over its budget; otherwise attempt two.
Repair ==
  /\ pc = "repair"
  /\ \/ ~MayRepair /\ pc' = "close" /\ UNCHANGED <<attempt, tries, ending>>
     \/ MayRepair /\ tries' = Append(tries, Skipped) /\ pc' = "close" /\ UNCHANGED <<attempt, ending>>
     \/ MayRepair /\ measured.repairable /\ attempt' = 2 /\ pc' = "prepare" /\ UNCHANGED <<tries, ending>>
     \/ MayRepair /\ measured.repairable /\ Aborts("REPAIR_RENDER") /\ UNCHANGED <<attempt, tries>>
  /\ UNCHANGED <<at, inputVars, checkVars, attemptVars, streamVars, childLeft, outcome>>
-----------------------------------------------------------------------------
(* A row.                                                                  *)

\* A total that forgets the attempts before the last one.
TotalOfLast == tries[Len(tries)].time
\* attempt_total_ns
Total ==
  SumFunction([n \in DOMAIN tries |-> tries[n].time])
LastRan == tries[Max({n \in DOMAIN tries : tries[n].ran})]
RowTime == IF LastRan.status = "PASS" THEN Total ELSE 0

\* The attestation is written first; attempt_total_ns then refuses a total over
\* its bound; the row is appended; a measurement that is an error ends the
\* evaluation with its row retained.
CloseRow ==
  /\ pc = "close" /\ UNCHANGED <<attemptVars, attempt>>
  /\ attested' = Append(attested,
       [of |-> <<at, Max({n \in DOMAIN tries : tries[n].ran})>>, status |-> "COMPLETE",
        results |-> {before, after}, inputs |-> {[of |-> before.of, world |-> before.world]}])
  /\ IF RowTime > TimeLimit THEN Ends("ERROR", "TIMING", TRUE, FALSE) /\ UNCHANGED rows
     ELSE /\ rows' = Append(rows, [attempts |-> tries, status |-> LastRan.status, time |-> RowTime,
                                repairs |-> attempt - 1])
          /\ IF LastRan.status = "ERROR"
             THEN Aborts(IF measured.clean THEN "ADAPTER_RESULT" ELSE "CLEANUP_FAILED")
             ELSE pc' = "next" /\ UNCHANGED ending
  /\ UNCHANGED <<at, inputVars, checkVars, tries, trace, childLeft, outcome>>

NextRow ==
  /\ pc = "next" /\ at < Last
  /\ pc' = "prepare"
  /\ at' = at + 1 /\ attempt' = 1 /\ tries' = <<>>
  /\ before' = NoResult /\ after' = NoResult /\ measured' = Unmeasured
  /\ baseline' = IF TaskOf(at + 1) = TaskOf(at) THEN baseline ELSE None
  /\ UNCHANGED <<inputVars, probed, streamVars, childLeft, endVars>>

\* evaluation_result_record and the evidence beside it.
Document ==
  [status |-> outcome.status, code |-> outcome.code, environment |-> probed,
   rows |-> rows, attested |-> attested, requests |-> trace.requests, results |-> trace.results,
   inputs |-> trace.inputs, expected |-> trace.expected]

Score ==
  /\ pc = "next" /\ at = Last
  /\ Ends(Verdict(ArmRows(Document, "PARENT"), ArmRows(Document, "CANDIDATE")), "NONE", FALSE, FALSE)
  /\ UNCHANGED <<at, attempt, inputVars, checkVars, attemptVars, tries, streamVars, childLeft, outcome>>
-----------------------------------------------------------------------------
(* The end.                                                                *)

\* The locals of evaluate and run_attempt are gone when it returns.
Forgets ==
  /\ before' = NoResult /\ after' = NoResult /\ measured' = Unmeasured
  /\ tries' = <<>> /\ attempt' = 1 /\ baseline' = None

Before(set) == {r \in set : r.of[1] < at}

\* The records since the checkpoint go when the cleanup failed and the row of
\* the checkpoint was not yet appended.
TruncatesAlways == ending.cut
TruncatesNever == FALSE
Truncates == ending.cut /\ Len(rows) = at - 1

\* finish: every file still owned is retired; survivors make any ending a
\* failed cleanup.
Finish ==
  /\ pc = "finish" /\ pc' = "emit"
  /\ \E stuck \in SUBSET owned :
       /\ Retires(owned, stuck)
       /\ IF ending.diagnosed \/ stuck # {}
          THEN /\ ending' = [ending EXCEPT !.status = "ERROR", !.code = "CLEANUP_FAILED"]
               /\ IF Truncates
                  THEN /\ attested' = SubSeq(attested, 1, at - 1)
                       /\ trace' = [requests |-> {i \in trace.requests : i[1] < at},
                                    results |-> Before(trace.results), inputs |-> Before(trace.inputs),
                                    expected |-> {i \in trace.expected : i[1] < at}]
                  ELSE UNCHANGED <<attested, trace>>
          ELSE UNCHANGED <<ending, attested, trace>>
  /\ Forgets
  /\ UNCHANGED <<at, world, changes, probed, rows, childLeft, outcome>>

\* prepare_pair replaces a result that is too large by its envelope; the pair
\* is printed and the process exits zero.  An output that fails escapes.
Emit ==
  /\ pc = "emit"
  /\ \/ /\ pc' = "done"
        /\ outcome' = [exit |-> 0, status |-> ending.status, code |-> ending.code]
        /\ UNCHANGED streamVars
     \/ /\ pc' = "done" /\ trace # NoTrace
        /\ outcome' = [exit |-> 0, status |-> "ERROR", code |-> "RESULT_TOO_LARGE"]
        /\ rows' = <<>> /\ attested' = <<>> /\ trace' = NoTrace
     \/ pc' = "escape" /\ UNCHANGED <<outcome, streamVars>>
  /\ UNCHANGED <<at, attempt, inputVars, checkVars, attemptVars, tries, childLeft, ending>>

\* main: a last cleanup, and exit status 3 names survivors, 2 none.
Escape ==
  /\ pc = "escape" /\ pc' = "done"
  /\ \E stuck \in SUBSET owned :
       /\ Retires(owned, stuck)
       /\ outcome' = [exit |-> IF stuck = {} THEN 2 ELSE 3, status |-> "none", code |-> "none"]
  /\ rows' = <<>> /\ attested' = <<>> /\ trace' = NoTrace
  /\ Forgets
  /\ UNCHANGED <<at, world, changes, probed, childLeft, ending>>
-----------------------------------------------------------------------------
(* The world.                                                              *)
WorldChanges ==
  /\ pc # "done" /\ changes > 0 /\ changes' = changes - 1
  /\ \/ \E w \in Worlds \ {world} : world' = w /\ UNCHANGED files
     \/ \E f \in Workspace :
          files[f] = "none" /\ files' = [files EXCEPT ![f] = "other"] /\ UNCHANGED world
  /\ UNCHANGED <<pc, at, attempt, owned, checkVars, attemptVars, tries, streamVars, childLeft, endVars>>

Step ==
  \/ RequestRejected \/ InputsRejected \/ InputsAdmitted \/ SourceTrust \/ SourceMembership
  \/ Preflight \/ SeedArithmetic
  \/ Prepare \/ BeforeSnapshot \/ CheckBaseline \/ Launch \/ AdapterEnds \/ AfterSnapshot
  \/ CheckAfter \/ RecordAttempt \/ Repair \/ CloseRow \/ NextRow \/ Score
  \/ Finish \/ Emit \/ Escape
Next == Step \/ WorldChanges
Spec == Init /\ [][Next]_vars
-----------------------------------------------------------------------------
Attempted == Invocations(Document)
AttemptOf(x) == AttemptAt(Document, x)
Published == pc = "done" /\ outcome.exit = 0
HasScore == Published /\ outcome.status \in Verdicts

EvaluatorTypeOK ==
  /\ at \in 1..Last /\ attempt \in {1, 2}
  /\ files \in [Files -> {"none", "ours", "other"}] /\ owned = {f \in Files : files[f] = "ours"}
  /\ world \in Worlds /\ changes \in 0..Changes
  /\ probed \in {0, 1, 9} /\ baseline \in Seen /\ childLeft \in BOOLEAN
  /\ before.status \in Snapshots \cup {"none"} /\ after.status \in Snapshots \cup {"none"}
  /\ Len(tries) <= 2 /\ Len(rows) <= at /\ Len(attested) <= at
  /\ outcome.exit \in {0, 2, 3, 9}

\* A published score rests on one environment and one content of the inputs of
\* each task, as observed before and after every attempt.
ScoreRestsOnOneInput ==
  HasScore =>
    \A x, y \in Attempted : TaskOf(x[1]) = TaskOf(y[1]) =>
      {AttemptOf(x).before, AttemptOf(x).after} = {AttemptOf(y).before, AttemptOf(y).after}

\* The gate admits every improvement the evaluator publishes, provided that no
\* environment changed since the preflight and no failing adapter ran longer
\* than the ceiling; the evaluator checks neither.
GateAdmitsImprovements ==
  /\ HasScore /\ outcome.status = "IMPROVED"
  /\ \A x \in Attempted : AttemptOf(x).before.env = probed
  /\ \A x \in Attempted : AttemptOf(x).time <= TimeLimit
  => Admits(Document)

\* Every record that a published row or attestation names is in the published
\* streams, whatever ended the evaluation and whatever was cut from them.
NoDanglingReference ==
  Published =>
    /\ \A x \in Attempted :
         /\ x \in trace.requests /\ x \in trace.expected
         /\ \A w \in {AttemptOf(x).before, AttemptOf(x).after} :
              /\ [of |-> x, status |-> "MATCH", world |-> w] \in trace.results
              /\ [of |-> x, world |-> w] \in trace.inputs
    /\ \A i \in DOMAIN attested :
         /\ attested[i].of \in trace.requests
         /\ attested[i].results \subseteq trace.results
         /\ attested[i].inputs \subseteq trace.inputs

\* Attestations are of the invocations in order; every row has its COMPLETE
\* one; at most one more follows, of the invocation that failed, and none when
\* the code is CLEANUP_FAILED.  (A row refused for its total time is the
\* exception: it leaves a COMPLETE attestation.)
AttestationsFollowRows ==
  Published =>
    /\ \A i \in DOMAIN attested : attested[i].of[1] = i
    /\ \A i \in DOMAIN rows : i \in DOMAIN attested /\ attested[i].status = "COMPLETE"
    /\ Len(attested) - Len(rows) \in {0, 1}
    /\ outcome.code = "CLEANUP_FAILED" => Len(attested) = Len(rows)

\* A result with a score, and a process that ends with status 2, leave no file
\* of the evaluator; a score is never published after a child may have
\* survived its cleanup.
QuietEndLeavesNothing ==
  pc = "done" /\ (outcome.exit = 2 \/ HasScore) =>
    /\ \A f \in Files : files[f] # "ours"
    /\ HasScore => ~childLeft

\* What an evaluation leaves behind fits together, whatever ended it: the streams
\* have no dangling reference, their attestations are those of the rows, and a
\* quiet end left neither a file nor a child.
ResultIsWhole ==
  /\ NoDanglingReference
  /\ AttestationsFollowRows
  /\ QuietEndLeavesNothing

\* "retire ownership before any later occupant can be considered ours": a file
\* somebody else wrote is never removed.
OthersFilesSurvive ==
  [][\A f \in Files : files[f] = "other" => files'[f] = "other"]_vars

\* The two properties below are stated by the specification and not kept by the
\* code, and are no part of a run: an invariant of either ends in a
\* counterexample.

\* docs/specs/c6-prompt-context-optimizer.md:1331 requires the same environment
\* identity in both snapshots and every row of one evaluation; the rows carry
\* the identity of the preflight.
EnvironmentIsOne ==
  HasScore => \A x \in Attempted : AttemptOf(x).before.env = probed

\* docs/specs/c4-repair-measured.md:520: "no unreferenced trace record".
EveryRecordIsReferenced ==
  Published =>
    \A r \in trace.results :
      \/ \E x \in Attempted : r.of = x
      \/ \E i \in DOMAIN attested : r \in attested[i].results
=============================================================================
