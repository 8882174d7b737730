------------------------- MODULE PromptMeasurement -------------------------
(***************************************************************************)
(* One run of a measurement adapter and what becomes of its document.  The *)
(* four adapters write TASK_MEASUREMENT documents: the fixed one (family   *)
(* 0) runs a checked-in patch; the provider-backed one (1) has a child     *)
(* generate an answer, turns it into a patch and has the task's runner     *)
(* validate it; the repair (2) and the template adapter (3) are near       *)
(* copies of it that also record the edits, and why an answer was refused. *)
(* The evaluator admits the document, later the gate admits what the       *)
(* evaluator kept.  Neither shares a line with the adapters: three copies  *)
(* of one sequence and two validators have to agree.                       *)
(*                                                                         *)
(* Abstractions: an answer is the patch or the refusal it leads to, and    *)
(* FORMAT is each of the six format refusals that precede the edit set;    *)
(* digests bind what they digest; a summary is what it says and whether it *)
(* was cut; identities, seeds and credentials are in order once the        *)
(* adapter has compared them.                                              *)
(***************************************************************************)
EXTENDS Integers, FiniteSets

CONSTANT Altered   \* bound: members that differ from what the adapter wrote

ASSUME AlteredAssumption == Altered \in {0, 1}

VARIABLES
  family,    \* which adapter the task declares
  task,      \* what the task and the attempt make of the run
  place,
  m,         \* the locals of measurement()
  ran,       \* how the validation runner ended
  left,      \* a child may be alive although the adapter went on
  doc,       \* the document in the result file
  altered,   \* the member that was altered, if any
  verdict    \* invoke_adapter's: accepted, or the code of its failure

measurement == <<family, task, place, m, ran, left, doc, altered, verdict>>

PatchCodes == {"FORMAT", "UNCHANGED_FILES"}
PolicyCodes == {"PATH_NOT_EDITABLE", "PATH_ESCAPES_SOURCE"}
NoSetCodes == {"FORMAT"} \cup PolicyCodes
Codes == {"NONE"} \cup PatchCodes \cup PolicyCodes

\* declared: the patch the task declares; oversize: the prompt exceeds its
\* bound; comma: an editable path contains ", "; long: its paths do not fit
\* the summary; slow: a pass later than the two hours the records allow.
TaskSpace == [declared: {"none", "empty", "diff"}, oversize: BOOLEAN,
              arm: {"PARENT", "CANDIDATE"}, comma: BOOLEAN, long: BOOLEAN, slow: BOOLEAN]

Says(what, cut) == [says |-> what, cut |-> cut]
Fresh == [outcome |-> "ERROR", refusal |-> "NONE", response |-> FALSE,
          set |-> "none", sha |-> FALSE, size |-> FALSE,
          clean |-> TRUE, contained |-> TRUE, summary |-> Says("other", FALSE)]
NoDocument == [version |-> 0]

MeasurementInit ==
  /\ family \in 0..3 /\ task \in TaskSpace
  /\ place = "main" /\ m = Fresh /\ ran = "none" /\ left = FALSE
  /\ doc = NoDocument /\ altered = "none" /\ verdict = "none"

Quiet == UNCHANGED <<family, task, altered, verdict>>
Advances(a, b) == place = a /\ place' = b
Provider == family # 0
-----------------------------------------------------------------------------
(* What the except clauses of measurement() keep of the locals.            *)

\* The template adapter that keeps the response's blocks on every refusal.
RefusedKeepingSet(x, code) ==
  [x EXCEPT !.outcome = IF code \in PolicyCodes THEN "POLICY" ELSE "PATCH",
            !.refusal = IF family = 3 THEN code ELSE "NONE",
            !.sha = FALSE, !.summary = Says(code, task.long /\ code \in PolicyCodes)]
\* PolicyViolation and EditFormatError.  The two that carry a path say it at
\* the end of the summary.
Refused(x, code) ==
  [RefusedKeepingSet(x, code) EXCEPT
     !.set = IF family = 3 /\ code = "UNCHANGED_FILES" THEN x.set ELSE "none"]

\* GenerationFailure: the answer never arrived.
NotGenerated(x, clean, contained) ==
  [x EXCEPT !.outcome = "ERROR", !.response = FALSE, !.set = "none", !.sha = FALSE,
            !.clean = clean, !.contained = contained]

\* AdapterError, OSError, ValueError...: only the template adapter remembers
\* that an answer had arrived.
Failed(x) ==
  [x EXCEPT !.outcome = "ERROR", !.response = family = 3 /\ x.response,
            !.set = "none", !.sha = FALSE, !.summary = Says("other", FALSE)]

EndsAs(y) == place' = "close" /\ m' = y
-----------------------------------------------------------------------------
(* The adapter.                                                            *)

\* Identities that disagree, a FIXTURE provider, unreadable documents.
IdentitiesRejected ==
  /\ Advances("main", "exit_2")
  /\ UNCHANGED <<m, ran, left, doc>> /\ Quiet

\* The repair and the template adapter load the modules they build on.
BaseRejected ==
  /\ Advances("main", "exit_2") /\ family > 1
  /\ UNCHANGED <<m, ran, left, doc>> /\ Quiet

\* Too large a prompt is measured without calling anybody.
PromptOversized ==
  /\ Advances("main", "assemble") /\ task.oversize
  /\ m' = [m EXCEPT !.outcome = "POLICY"]
  /\ UNCHANGED <<ran, left, doc>> /\ Quiet

\* A declared credential that the environment does not have.
CredentialMissing ==
  /\ place = "main" /\ ~task.oversize /\ Provider /\ EndsAs(Failed(m))
  /\ UNCHANGED <<ran, left, doc>> /\ Quiet

\* Every declared input is verified and sealed before anything is launched.
InputsSealed ==
  /\ place = "main" /\ ~task.oversize /\ Provider
  /\ \/ place' = "generate" /\ UNCHANGED m
     \/ EndsAs(Failed(m))
  /\ UNCHANGED <<ran, left, doc>> /\ Quiet

\* run_generation_child: an answer; a failure of a child that is gone; one
\* that left a descendant; a deadline.  An OSError forgets what the cleanup
\* returned, and an error of the reader or of the seal starts no cleanup.
Generates ==
  /\ place = "generate"
  /\ \/ place' = "edits" /\ m' = [m EXCEPT !.response = TRUE] /\ UNCHANGED left
     \/ EndsAs(NotGenerated(m, TRUE, TRUE)) /\ left' \in BOOLEAN
     \/ \E clean \in BOOLEAN :
          EndsAs(NotGenerated(m, clean, FALSE)) /\ left' = ~clean
     \/ \E clean \in BOOLEAN :
          EndsAs(NotGenerated(m, clean, clean)) /\ left' = ~clean
  /\ UNCHANGED <<ran, doc>> /\ Quiet

Recorded == family > 1
DeclaredPatch ==
  /\ Advances("edits", "validate") /\ task.declared # "none"
  /\ m' = [m EXCEPT !.sha = Recorded, !.size = task.declared = "diff"]
  /\ UNCHANGED <<ran, left, doc>> /\ Quiet

\* The answer has no edit set: nothing was built from it.
AnswerRefused ==
  /\ place = "edits" /\ task.declared = "none"
  /\ \/ EndsAs(Refused(m, "FORMAT"))
     \/ EndsAs(Refused(m, "PATH_NOT_EDITABLE"))
     \/ EndsAs(Failed(m))
  /\ UNCHANGED <<ran, left, doc>> /\ Quiet

\* edit_set_blocks, then synthesized_patch: the set is recorded before the
\* pinned files are read, so that a refusal finds it there.
BlocksOf(x) == [x EXCEPT !.set = IF Recorded THEN "edits" ELSE "none"]
PatchSynthesized ==
  /\ place = "edits" /\ task.declared = "none"
  /\ \/ /\ place' = "validate"
        /\ m' = [BlocksOf(m) EXCEPT !.sha = Recorded, !.size = TRUE]
     \/ \E code \in {"PATH_ESCAPES_SOURCE", "UNCHANGED_FILES"} : EndsAs(Refused(BlocksOf(m), code))
  /\ UNCHANGED <<ran, left, doc>> /\ Quiet

PatchNotSealed ==
  /\ place = "edits" /\ task.declared = "none" /\ EndsAs(Failed(BlocksOf(m)))
  /\ UNCHANGED <<ran, left, doc>> /\ Quiet

EditSummary ==
  IF task.declared # "none" THEN Says("declared_patch", FALSE)
  ELSE Says("applied_edits", task.long)

\* A runner whose status 4, a failed test, counts as an end like another.
ExitOutcomeLenient == IF ran' \in {"0", "4"} THEN "PASS" ELSE "ERROR"
\* The exit status is the verdict, but only of a runner that left nothing.
ExitOutcome == CASE ran' = "0" -> "PASS" [] ran' = "4" -> "TEST_FAIL" [] OTHER -> "ERROR"

\* execute_validation: the runner ends and is alone; it leaves a descendant;
\* the deadline or an error, where the cleanup answers for both flags; the
\* runner cannot be started at all (ValueError), which nobody here catches.
Validates ==
  /\ place = "validate"
  /\ \/ /\ ran' \in {"0", "4", "other"} /\ UNCHANGED left
        /\ EndsAs([m EXCEPT !.outcome = ExitOutcome, !.summary = EditSummary])
     \/ \E clean \in BOOLEAN :
          /\ ran' \in {"0", "4", "other"} /\ left' = ~clean
          /\ EndsAs([m EXCEPT !.outcome = "ERROR", !.clean = clean, !.contained = FALSE,
                             !.summary = EditSummary])
     \/ \E clean \in BOOLEAN :
          /\ ran' = "none" /\ left' = ~clean
          /\ EndsAs([m EXCEPT !.outcome = "ERROR", !.clean = clean, !.contained = clean,
                             !.summary = EditSummary])
     \/ EndsAs(Failed(m)) /\ UNCHANGED <<ran, left>>
  /\ UNCHANGED doc /\ Quiet

\* The finally clause closes what was sealed.
InputsClosed ==
  /\ Advances("close", "assemble") /\ Provider
  /\ \/ UNCHANGED m
     \/ m' = [m EXCEPT !.clean = FALSE]
  /\ UNCHANGED <<ran, left, doc>> /\ Quiet

\* The fixed adapter: a checked-in patch per arm; without a subreaper nothing
\* is contained.
ExecutesFixture ==
  /\ place = "main" /\ ~task.oversize /\ ~Provider
  /\ \/ /\ m' = [m EXCEPT !.clean = FALSE, !.contained = FALSE] /\ UNCHANGED <<ran, left>>
     \/ m' = m /\ UNCHANGED <<ran, left>>
     \/ /\ ran' \in {"0", "4", "other"} /\ UNCHANGED left
        /\ m' = [m EXCEPT !.outcome = ExitOutcome, !.size = TRUE]
     \/ \E clean, contained \in BOOLEAN :
          /\ contained => clean
          /\ ran' \in {"none", "0", "4", "other"} /\ left' = ~clean
          /\ m' = [m EXCEPT !.clean = clean, !.contained = contained, !.size = TRUE]
  /\ place' = "close"
  /\ UNCHANGED doc /\ Quiet

\* Its finally clause lets an error of close escape.
FixtureClosed ==
  /\ place = "close" /\ ~Provider /\ place' \in {"assemble", "exit_2"}
  /\ UNCHANGED <<m, ran, left, doc>> /\ Quiet
-----------------------------------------------------------------------------
(* assemble(): the document.  Containment outranks cleanup, which outranks *)
(* the outcome.                                                            *)

Version == IF family = 0 THEN 1 ELSE family
Unharmed == m.clean /\ m.contained
NotRun == m.outcome \in {"POLICY", "PATCH"}
Status ==
  IF ~Unharmed THEN "ERROR"
  ELSE CASE m.outcome = "PASS" -> "PASS"
         [] m.outcome \in {"TEST_FAIL", "PATCH"} -> "FAIL"
         [] m.outcome = "POLICY" -> "POLICY_VIOLATION"
         [] OTHER -> "ERROR"
FailureKind ==
  IF ~m.contained THEN "CONTAINMENT" ELSE IF ~m.clean THEN "CLEANUP"
  ELSE CASE m.outcome = "PASS" -> "NONE" [] m.outcome = "TEST_FAIL" -> "TEST"
         [] m.outcome = "ERROR" -> "ADAPTER" [] OTHER -> m.outcome
BuildStatus == IF NotRun THEN "NOT_RUN" ELSE IF m.outcome = "ERROR" THEN "ERROR" ELSE "PASS"
TestStatus ==
  IF NotRun THEN "NOT_RUN"
  ELSE CASE m.outcome = "PASS" -> "PASS" [] m.outcome = "TEST_FAIL" -> "FAIL" [] OTHER -> "ERROR"
\* The fixed adapter reports a time of its own for its candidate only.
Time ==
  IF m.outcome # "PASS" \/ ~Unharmed \/ (~Provider /\ task.arm = "PARENT") THEN "none"
  ELSE IF Provider /\ task.slow THEN "long" ELSE "ok"
\* A refusal that outlives a failed cleanup.
RefusalKept == m.refusal
Refusal == IF Unharmed THEN m.refusal ELSE "NONE"

\* provider_identities: the digest of the request is known only with an answer.
Answered == m.response

Document(text) ==
  [version |-> Version, status |-> Status, failure |-> FailureKind,
   build |-> BuildStatus, test |-> TestStatus, violation |-> m.outcome = "POLICY", time |-> Time,
   clean |-> m.clean, contained |-> m.contained, size |-> m.size, response |-> Answered,
   summary |-> m.summary, runtime |-> "own",
   set |-> m.set, total |-> IF m.set = "none" THEN "none" ELSE "sum", sha |-> m.sha,
   refusal |-> IF Version = 3 THEN Refusal ELSE "NONE",
   count |-> Version = 3 /\ m.response, digest |-> Version = 3 /\ m.response, text |-> text]

\* The answer itself is kept only where no edit set explains the refusal,
\* and dropped when it would not fit.
MayCarryText == Version = 3 /\ m.response /\ Refusal \in NoSetCodes
Assembles ==
  /\ Advances("assemble", "write")
  /\ \E text \in {FALSE, MayCarryText} : doc' = Document(text)
  /\ UNCHANGED <<m, ran, left>> /\ Quiet

\* write_exclusive, write_retained_result: the document, or exit status 2.
Writes ==
  /\ place = "write"
  /\ \/ place' = "exit_0" /\ UNCHANGED doc
     \/ place' = "exit_2" /\ doc' = NoDocument
  /\ UNCHANGED <<m, ran, left>> /\ Quiet

\* The result file is not only the adapter's: the command of the task wrote
\* it, and another version of it may differ in any member.
Members == DOMAIN Document(FALSE)
Domain(f) ==
  CASE f = "version" -> 1..3
    [] f = "status" -> {"PASS", "FAIL", "POLICY_VIOLATION", "ERROR"}
    [] f = "failure" -> {"NONE", "PROVIDER", "PATCH", "BUILD", "TEST", "POLICY", "ADAPTER", "CLEANUP", "CONTAINMENT"}
    [] f \in {"build", "test"} -> {"NOT_RUN", "PASS", "FAIL", "ERROR"}
    [] f = "time" -> {"none", "ok", "long"}
    [] f = "summary" -> [says: {"other", "applied_edits", "wrong_edits", "declared_patch"} \cup Codes, cut: BOOLEAN]
    [] f = "runtime" -> {"own", "other"}
    [] f = "set" -> {"none", "edits", "outside", "unsorted", "body_length"}
    [] f = "total" -> {"none", "sum", "wrong"}
    [] f = "refusal" -> Codes
    [] OTHER -> BOOLEAN
Alters ==
  /\ place = "exit_0" /\ altered = "none" /\ Altered = 1
  /\ \E f \in Members : \E v \in Domain(f) \ {doc[f]} :
       altered' = f /\ doc' = [doc EXCEPT ![f] = v]
  /\ UNCHANGED <<family, task, place, m, ran, left, verdict>>
-----------------------------------------------------------------------------
(* The evaluator's admission: valid_task_measurement and what it calls.    *)

BothStages(d) == <<d.build, d.test>>
StateValid(d) ==
  \/ /\ d.status = "PASS" /\ d.failure = "NONE" /\ BothStages(d) = <<"PASS", "PASS">>
     /\ d.clean /\ d.contained /\ ~d.violation /\ d.time # "none"
  \/ /\ d.status = "FAIL" /\ d.clean /\ d.contained /\ ~d.violation /\ d.time = "none"
     /\ <<d.failure, d.build, d.test>> \in
          {<<"PROVIDER", "NOT_RUN", "NOT_RUN">>, <<"PATCH", "NOT_RUN", "NOT_RUN">>,
           <<"BUILD", "FAIL", "NOT_RUN">>, <<"TEST", "PASS", "FAIL">>}
  \/ /\ d.status = "POLICY_VIOLATION" /\ d.failure = "POLICY"
     /\ BothStages(d) \in {<<"NOT_RUN", "NOT_RUN">>, <<"PASS", "NOT_RUN">>, <<"PASS", "PASS">>}
     /\ d.clean /\ d.contained /\ d.violation /\ d.time = "none"
  \/ /\ d.status = "ERROR" /\ d.time = "none"
     /\ IF ~d.contained THEN d.failure = "CONTAINMENT"
        ELSE IF ~d.clean THEN d.failure = "CLEANUP"
        ELSE d.failure = "ADAPTER" /\ "ERROR" \in {d.build, d.test}

OversizeValid(d) == task.oversize => task.arm = "CANDIDATE" /\ d.status = "POLICY_VIOLATION"

\* A code and the summary are one decision.  A cut summary keeps its
\* beginning, which is all that the two codes of a path look at.
SummaryMatches(d) == d.summary.says = d.refusal /\ (d.summary.cut => d.refusal \in PolicyCodes)

CompletionValid(d) ==
  /\ d.count = d.digest /\ d.count = d.response
  /\ d.text => d.refusal \in NoSetCodes /\ d.count
RefusalClassValid(d) ==
  /\ (d.refusal \in PatchCodes) = (d.failure = "PATCH")
  /\ d.refusal \in PatchCodes => ~d.size
  /\ d.refusal \in PolicyCodes => d.status = "POLICY_VIOLATION" /\ d.failure = "POLICY"
  /\ d.refusal = "UNCHANGED_FILES" => d.set # "none" /\ ~d.sha
  /\ d.refusal \in NoSetCodes => d.set = "none"
\* Version three without its completion members.
VersionThreeUncounted(d) == RefusalClassValid(d) /\ (d.refusal # "NONE" => SummaryMatches(d))
VersionThreeValid(d) ==
  /\ RefusalClassValid(d)
  /\ d.refusal # "NONE" => SummaryMatches(d)
  /\ CompletionValid(d)

\* The edits the summary names, where it names any and was not cut, are
\* those of the set.  The evaluator splits them at ", ".
NamesTheEdits(d) ==
  /\ "wrong_edits" # d.summary.says
  /\ d.summary.says = "declared_patch" => FALSE
  /\ d.summary.says = "applied_edits" => ~task.comma

AnyVersionThree(d) == d.version = 3 => VersionThreeValid(d)
SetValid(d) == d.set \in {"edits", "body_length"} /\ d.total = "sum"
NoLaterMembers(d) ==
  /\ d.version < 3 => d.refusal = "NONE" /\ ~d.count /\ ~d.digest /\ ~d.text
  /\ d.version < 2 => d.set = "none" /\ d.total = "none" /\ ~d.sha

VersionTwoValid(d) ==
  /\ d.version = Version /\ NoLaterMembers(d)
  /\ d.version > 1 =>
       /\ d.sha = d.size
       /\ (d.set = "none") = (d.total = "none")
       /\ IF d.set = "none" THEN AnyVersionThree(d)
          ELSE SetValid(d) /\ (d.summary.cut \/ (NamesTheEdits(d) /\ AnyVersionThree(d)))

TaskMeasurementValid(d) ==
  /\ StateValid(d) /\ d.time # "long" /\ OversizeValid(d)
  /\ VersionTwoValid(d) /\ d.runtime = "own"

\* invoke_adapter: a child that did not end well, or one whose document is
\* not admitted; the result file that cannot be retired comes before all.
Invoked ==
  /\ place \in {"exit_0", "exit_2"} /\ place' = "done"
  /\ \/ /\ place = "exit_0"
        /\ verdict' = IF TaskMeasurementValid(doc) THEN "accepted" ELSE "ADAPTER_RESULT"
     \/ place = "exit_2" /\ verdict' = "ADAPTER_RESULT"
     \/ verdict' \in {"ADAPTER_TIMEOUT", "ADAPTER_PROCESS_OUTPUT", "CLEANUP_FAILED"}
  /\ UNCHANGED <<family, task, m, ran, left, doc, altered>>

-----------------------------------------------------------------------------
(* The gate's admission of the record the evaluator kept.                  *)

GateVersionThree(d) ==
  /\ (d.refusal \in PatchCodes) = (d.failure = "PATCH")
  /\ d.refusal \in PatchCodes => ~d.size
  /\ d.refusal \in PolicyCodes => d.status = "POLICY_VIOLATION" /\ d.failure = "POLICY"
  /\ d.refusal = "UNCHANGED_FILES" => d.set # "none" /\ ~d.sha
  /\ d.refusal \notin {"NONE", "UNCHANGED_FILES"} => d.set = "none"
  /\ CompletionValid(d)
GateBlocks(d) == d.set \in {"edits", "outside"} /\ d.total = "sum"
GateProbe(d) == d.runtime = "own"
GateAdmits(d) ==
  /\ d.version = Version /\ NoLaterMembers(d) /\ GateProbe(d)
  /\ d.version = 3 => GateVersionThree(d)
  /\ d.version > 1 =>
       /\ d.sha = d.size
       /\ (d.set = "none") = (d.total = "none")
       /\ d.set = "none" \/ (GateBlocks(d) /\ (d.summary.cut \/ NamesTheEdits(d)))

MeasurementNext ==
  \/ IdentitiesRejected \/ BaseRejected \/ PromptOversized
  \/ CredentialMissing \/ InputsSealed \/ Generates
  \/ DeclaredPatch \/ AnswerRefused \/ PatchSynthesized \/ PatchNotSealed \/ Validates
  \/ InputsClosed \/ ExecutesFixture \/ FixtureClosed
  \/ Assembles \/ Writes \/ Alters \/ Invoked

MeasurementSpec == MeasurementInit /\ [][MeasurementNext]_measurement
-----------------------------------------------------------------------------
Accepted == verdict = "accepted"
AsWritten == place = "exit_0" /\ altered = "none"

\* What the adapters write and the evaluator cannot take: a parent whose
\* prompt is too large, or that passes in the fixed adapter; a pass after two
\* hours; an empty declared patch; a runner that could not be started after
\* the patch was counted; paths that the summary cannot list.
Unscorable ==
  \/ task.oversize /\ task.arm = "PARENT"
  \/ ~Provider /\ m.outcome = "PASS" /\ task.arm = "PARENT"
  \/ Provider /\ m.outcome = "PASS" /\ task.slow
  \/ Recorded /\ m.sha # m.size
  \/ m.set # "none" /\ m.summary = Says("applied_edits", FALSE) /\ task.comma

(* Every document that an adapter writes, on whichever path through its    *)
(* error handling, is one that the evaluator admits, but for those cases:  *)
(* the three near copies of measurement() and assemble() agree with the    *)
(* validator about which members go with which outcome.                    *)
DocumentsAreAccepted == AsWritten /\ ~Unscorable => TaskMeasurementValid(doc)

(* What the evaluator admits, the gate admits, even where one member is    *)
(* not what the adapter wrote: a run that was paid for is not lost at the  *)
(* gate.  The two known differences are the summary that was cut, after    *)
(* which the evaluator looks at nothing more, and the length of a body.    *)
GateFollowsEvaluator ==
  Accepted /\ ~(doc.summary.cut /\ doc.version = 3 /\ doc.set # "none") /\ doc.set # "body_length"
    => GateAdmits(doc)

(* What the adapters write is taken by the two readers behind them.        *)
DocumentsArePassedOn == DocumentsAreAccepted /\ GateFollowsEvaluator

(* A measurement that scores a PASS was earned: the runner ended with 0 on *)
(* a patch that is the recorded one, and no child of the adapter may be    *)
(* alive; and one that scores anything was contained.                      *)
ScoredIsEarned ==
  Accepted /\ altered = "none" /\ doc.status # "ERROR" =>
    /\ ~left
    /\ doc.status = "PASS" => ran = "0" /\ doc.time = "ok" /\ (doc.version > 1 => doc.sha)
    /\ doc.failure = "TEST" => ran = "4"

(* The document says when a child may be alive.  This is not kept by the   *)
(* code and no part of a run: run_generation_child forgets it where an     *)
(* OSError interrupts it.                                                  *)
CleanupIsTold == place = "exit_0" /\ altered = "none" /\ doc.clean => ~left
=============================================================================
