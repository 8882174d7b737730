-------------------------- MODULE PromptEvaluation --------------------------
(***************************************************************************)
(* One evaluation of a prompt: the rows of src/prompt_evaluation_native    *)
(* run invocations one after another (prompt_evaluation_row), each in      *)
(* scratch storage of its own; an invocation runs a fixed order of         *)
(* commands (prompt_task_attempt, prompt_task_validation), each under a    *)
(* supervisor (prompt_task_supervisor) that collects, kills, drains and    *)
(* judges it.  A command is a scope of processes that fork, write, exit    *)
(* or hang as they like.  A cleanup that did not see the last process of   *)
(* its scope end hands the scope to its caller, who tries again.           *)
(*                                                                         *)
(* Abstractions: the two output streams are one; the seven git commands of *)
(* the setup and of an inspection are one command each; a deadline is a    *)
(* flag that the clock may raise at any time after it was set; the trees   *)
(* are told apart only as far as the verdict does.                         *)
(***************************************************************************)
EXTENDS Naturals, FiniteSets

CONSTANTS
  Procs,        \* the processes a scope may hold at a time
  Root,         \* the process a command starts
  Invocations   \* bound: invocations of an evaluation

ASSUME ProcessAssumption == Root \in Procs
ASSUME InvocationsAssumption == Invocations \in Nat \ {0}

VARIABLES
  pc,         \* where the evaluator is
  op,         \* the command at hand
  owner,      \* whose cleanup is running: supervisor, attempt, row, evaluator
  proc,       \* each process of the scope: none, live, or how it ended, until it is reaped
  eof, term,  \* State: stdout_eof and stderr_eof, termination
  expired,    \* the deadline of the present phase has passed
  stop,       \* Report.stop: Collected, or any of the others
  released,   \* Report.cleanup.released
  dirty,      \* Report.cleanup.first_error
  undrained,  \* Report.drain_error
  targets,    \* the members a cleanup pass is about to kill
  signal,     \* none; waiting or late, not yet looked for; taken
  tree,       \* content of the worktree
  before, after,  \* how the validation ended without and with the patch
  cleanup,    \* cleanup_passed of the measurement
  outcome,    \* of the attempt
  resolved,   \* what invoke() makes of the invocation
  patch,      \* patch_owned, and whether it was removed
  storage,    \* the scratch directory of the invocation
  files,      \* invocation files that were created and not retired
  survivors,  \* what the result will name as left behind
  printed,    \* what was printed as a recovery path
  left,       \* invocations left
  status      \* PromptEvaluateStatus

stateVars == <<eof, term>>
reportVars == <<stop, released, dirty, undrained, targets>>
treeVars == <<tree, before, after>>
attemptVars == <<cleanup, outcome, patch>>
storageVars == <<storage, files, survivors, printed>>
rowVars == <<resolved, left, status>>
commandVars == <<proc, stateVars, reportVars, expired>>
vars == <<pc, op, owner, commandVars, signal, treeVars, attemptVars, storageVars, rowVars>>

Commands == {"precheck", "generate", "setup", "probe", "baseline", "inspect", "check", "apply",
             "recheck", "validate", "confirm", "postcheck"}
Supervised == {"collect", "watch", "cleanup", "scan", "kill", "reap", "release", "drain", "judge",
               "report"}
Live == {p \in Procs : proc[p] = "live"}
Ended == {"zero", "nonzero"}
Goes(a, b) == pc = a /\ pc' = b

Init ==
  /\ pc = "create" /\ op = "precheck" /\ owner = "supervisor"
  /\ proc = [p \in Procs |-> "none"]
  /\ eof = FALSE /\ term = "none" /\ expired = FALSE
  /\ stop = "none" /\ released = FALSE /\ dirty = FALSE /\ undrained = FALSE /\ targets = {}
  /\ signal = "none"
  /\ tree = "none" /\ before = "none" /\ after = "none"
  /\ cleanup = TRUE /\ outcome = "AdapterError" /\ patch = "none"
  /\ storage = "none" /\ files = FALSE /\ survivors = {} /\ printed = {}
  /\ resolved = "none" /\ left = Invocations /\ status = "none"
-----------------------------------------------------------------------------
(* The processes of a command, and the world.                              *)

Fork(p, q) ==
  /\ proc[p] = "live" /\ proc[q] = "none" /\ q # Root
  /\ proc' = [proc EXCEPT ![q] = "live"]
  /\ UNCHANGED tree

\* git apply reports success only of a patch it applied.
Exit(p, code) ==
  /\ proc[p] = "live"
  /\ p = Root /\ op = "apply" /\ code = "zero" => tree = "patched"
  /\ p # Root => code = "zero"
  /\ proc' = [proc EXCEPT ![p] = code]
  /\ UNCHANGED tree

\* Validation runs the code under test in the worktree; git apply writes there.
Writes ==
  /\ Live # {}
  /\ \/ op \in {"baseline", "validate"} /\ tree' = "spoiled"
     \/ op = "apply" /\ tree = "pristine" /\ tree' \in {"patched", "spoiled"}
  /\ UNCHANGED proc

Process ==
  /\ \/ \E p, q \in Procs : Fork(p, q)
     \/ \E p \in Procs, code \in {"zero", "nonzero"} : Exit(p, code)
     \/ Writes
  /\ UNCHANGED <<pc, op, owner, stateVars, reportVars, expired, signal, before, after, attemptVars,
                 storageVars, rowVars>>

\* Once in a behaviour.  "late": no command is there whose supervisor will
\* still look for it, until the next one is launched.
Arrive ==
  /\ signal = "none" /\ pc # "done"
  /\ signal' = IF pc \in Supervised \ {"report"} /\ owner = "supervisor" THEN "waiting" ELSE "late"
  /\ UNCHANGED <<pc, op, owner, commandVars, treeVars, attemptVars, storageVars, rowVars>>

Tick ==
  /\ pc \in Supervised /\ ~expired
  /\ expired' = TRUE
  /\ UNCHANGED <<pc, op, owner, proc, stateVars, reportVars, signal, treeVars, attemptVars,
                 storageVars, rowVars>>
-----------------------------------------------------------------------------
(* The supervisor.                                                         *)

Stops(why) ==
  /\ pc' = "cleanup" /\ stop' = why /\ expired' = FALSE
  /\ IF why = "Collected" THEN UNCHANGED stateVars ELSE eof' = FALSE /\ term' = "none"
  /\ UNCHANGED <<op, owner, proc, released, dirty, undrained, targets>>

\* time.instant() before the deadline; a variant that sets the deadline
\* anew whenever it looks.
TimelyAlways == TRUE
Timely == ~expired
Pending == signal \in {"waiting", "late"}
NextSignal == Pending /\ signal' = "taken"

\* Timeout; Cancelled; Failed to observe; over a Resource limit, which is
\* watched of the validations only.
Collect ==
  /\ pc = "collect"
  /\ \/ ~Timely /\ Stops("Interrupted") /\ UNCHANGED signal
     \/ Timely /\ NextSignal /\ Stops("Interrupted")
     \/ Timely /\ Stops("Interrupted") /\ UNCHANGED signal
     \/ Timely /\ ~Pending /\ pc' = "watch" /\ UNCHANGED <<op, owner, commandVars, signal>>
  /\ UNCHANGED <<treeVars, attemptVars, storageVars, rowVars>>

Collected == eof /\ term # "none"

\* prompt_scope_capture.step: what poll found ready, if anything.  The
\* streams may be closed long before the processes end.
Step ==
  /\ eof' \in {eof, TRUE}
  /\ term' \in {term} \union ({proc[Root]} \cap Ended)
  /\ UNCHANGED <<op, owner, proc, reportVars, expired>>

Watch ==
  /\ pc = "watch"
  /\ \/ Collected /\ Stops("Collected")
     \/ ~Collected /\ pc' = "collect" /\ Step
     \/ ~Collected /\ Stops("Interrupted")
  /\ UNCHANGED <<signal, treeVars, attemptVars, storageVars, rowVars>>
-----------------------------------------------------------------------------
(* prompt_scope_cleanup.run, for whoever owns the scope.                   *)

\* scope.release(): the kernel's certificate that no member is left.
Releases == \A p \in Procs : proc[p] = "none"

Returns(ok) ==
  /\ pc' = (IF owner = "supervisor" THEN "drain" ELSE "returned")
  /\ released' = ok /\ expired' = FALSE
  /\ UNCHANGED <<proc, stop, undrained>>

Fails == dirty' = TRUE
CleanupUnchanged == UNCHANGED <<op, owner, stateVars, signal, treeVars, attemptVars, storageVars, rowVars>>

BeginCleanup ==
  /\ pc = "cleanup"
  /\ \/ Releases /\ Returns(TRUE) /\ UNCHANGED <<dirty, targets>>
     \/ /\ pc' = "scan"
        /\ (~Releases /\ UNCHANGED dirty) \/ Fails
        /\ UNCHANGED <<proc, stop, released, undrained, targets, expired>>
  /\ CleanupUnchanged

Scan ==
  /\ pc = "scan"
  /\ \/ ~Timely /\ Returns(FALSE) /\ UNCHANGED <<dirty, targets>>
     \/ /\ Timely /\ pc' = "kill"
        /\ \/ targets' = Live /\ UNCHANGED dirty
           \/ targets' = {} /\ Fails
        /\ UNCHANGED <<proc, stop, released, undrained, expired>>
  /\ CleanupUnchanged

\* A member may end, or fork, before it is killed; not every kill succeeds,
\* and the deadline may come in the middle.
Kill ==
  /\ Goes("kill", "reap")
  /\ \E killed \in SUBSET (targets \cap Live) :
       /\ dirty' \in IF killed = targets \cap Live THEN {dirty}
                     ELSE IF Timely THEN {TRUE} ELSE {dirty, TRUE}
       /\ proc' = [p \in Procs |-> IF p \in killed THEN "nonzero" ELSE proc[p]]
  /\ targets' = {}
  /\ UNCHANGED <<stop, released, undrained, expired>>
  /\ CleanupUnchanged

Reap ==
  /\ pc = "reap"
  /\ \/ ~Timely /\ Returns(FALSE) /\ UNCHANGED dirty
     \/ /\ Timely /\ pc' = "release"
        /\ \/ /\ proc' = [p \in Procs |-> IF proc[p] \in Ended THEN "none" ELSE proc[p]]
              /\ UNCHANGED dirty
           \/ Fails /\ UNCHANGED proc
        /\ UNCHANGED <<stop, released, undrained, expired>>
  /\ UNCHANGED targets
  /\ CleanupUnchanged

Release ==
  /\ pc = "release"
  /\ \/ ~Timely /\ Returns(FALSE) /\ UNCHANGED dirty
     \/ Timely /\ Releases /\ Returns(TRUE) /\ UNCHANGED dirty
     \/ /\ Timely /\ pc' = "scan"
        /\ (~Releases /\ UNCHANGED dirty) \/ Fails
        /\ UNCHANGED <<proc, stop, released, undrained, expired>>
  /\ UNCHANGED targets
  /\ CleanupUnchanged
-----------------------------------------------------------------------------
(* The supervisor, after its cleanup.                                      *)

\* What drain() still reads of a command that was not collected, it reads
\* until its own deadline and changes no verdict with.
Drain ==
  /\ Goes("drain", "judge")
  /\ undrained' \in IF Collected THEN {FALSE} ELSE BOOLEAN
  /\ UNCHANGED <<op, owner, proc, stateVars, stop, released, dirty, targets, expired, signal,
                 treeVars, attemptVars, storageVars, rowVars>>

\* A command that was collected has its termination; of another one the
\* value of try_wait is only reported.  The last look at the signals is for
\* a command that seemed to succeed.
LateSignalMissed == UNCHANGED <<stop, signal>>
LateSignal ==
  IF stop # "Collected" THEN UNCHANGED <<stop, signal>>
  ELSE \/ NextSignal /\ stop' = "Interrupted"
       \/ ~Pending /\ UNCHANGED <<stop, signal>>
       \/ stop' = "Interrupted" /\ UNCHANGED signal

Judge ==
  /\ Goes("judge", "report")
  /\ undrained' \in {undrained, TRUE}
  /\ LateSignal
  /\ UNCHANGED <<op, owner, proc, stateVars, released, dirty, targets, expired, treeVars, attemptVars,
                 storageVars, rowVars>>
-----------------------------------------------------------------------------
(* From one command to the next.                                           *)

Proceeds(next) == pc' = "launch" /\ op' = next
Concludes(what) == pc' = "conclude" /\ outcome' = what /\ UNCHANGED op
Failed == pc' = "sweep" /\ resolved' = "Failed"

\* An error where no process runs: prompt_validation_attempt.run returns it
\* to the attempt, which measures it; elsewhere it ends the invocation.
Errs ==
  IF op \in {"precheck", "generate", "postcheck"} THEN Failed /\ UNCHANGED <<op, outcome>>
  ELSE Concludes("AdapterError") /\ UNCHANGED resolved

\* What was collected and reported of a command ends with it; what its
\* processes do does not.
Forgets ==
  /\ eof' = FALSE /\ term' = "none" /\ stop' = "none" /\ released' = FALSE
  /\ dirty' = FALSE /\ undrained' = FALSE /\ targets' = {}
  /\ UNCHANGED <<proc, expired>>

Launch ==
  /\ Goes("launch", "collect")
  /\ owner' = "supervisor"
  /\ proc' = [p \in Procs |-> IF p = Root THEN "live" ELSE "none"]
  /\ expired' = FALSE
  /\ signal' = IF signal = "late" THEN "waiting" ELSE signal
  /\ UNCHANGED <<op, stateVars, reportVars, treeVars, attemptVars, storageVars, rowVars>>

LaunchFails ==
  /\ pc = "launch"
  /\ Errs
  /\ UNCHANGED <<owner, commandVars, signal, treeVars, cleanup, patch, storageVars, left, status>>

\* transport() of a command that is executed, accepted() of the others.
Executed == {"baseline", "check", "apply", "validate"}
Transport == stop = "Collected" /\ term # "none" /\ released /\ ~dirty /\ ~undrained
Completed == pc = "report" /\ Transport /\ (op \in Executed \/ term = "zero")

\* A command that did not complete, whose report was lost (error) or whose
\* output was truncated: its scope goes to the attempt, or to the row.
CommandStops ==
  /\ Goes("report", "cleanup")
  /\ owner' = IF op \in {"precheck", "postcheck"} THEN "row" ELSE "attempt"
  /\ \/ UNCHANGED cleanup
     \/ (~Transport \/ op \notin Executed) /\ cleanup' = (cleanup /\ ~dirty)
  /\ Forgets
  /\ UNCHANGED <<op, signal, treeVars, outcome, patch, storageVars, rowVars>>

\* Of a snapshot of inputs without a repository no command is run.
Snapshot(which) == op = which /\ (Completed \/ pc = "launch")

Prechecked ==
  /\ Snapshot("precheck")
  /\ \/ pc' = "prompt" /\ UNCHANGED resolved
     \/ Failed
  /\ UNCHANGED <<op, treeVars, outcome>>

\* The prompt is sent to a worker unless it is too long or the task is a
\* fixture, which brings its patch.
Prompt ==
  /\ pc = "prompt"
  /\ \/ Concludes("Policy")
     \/ Proceeds("generate") /\ UNCHANGED outcome
     \/ pc' = "patch" /\ UNCHANGED <<op, outcome>>
  /\ UNCHANGED <<treeVars, resolved>>

Generated ==
  /\ Completed /\ op = "generate"
  /\ \/ pc' = "patch" /\ UNCHANGED <<op, outcome, resolved>>
     \/ \E what \in {"AdapterError", "Policy", "Patch"} : Concludes(what) /\ UNCHANGED resolved
     \/ Failed /\ UNCHANGED <<op, outcome>>
  /\ UNCHANGED treeVars

\* prompt_source_copy.copy into the empty worktree.
Copy ==
  /\ pc = "copy"
  /\ \/ tree' = "pristine" /\ Proceeds("setup") /\ UNCHANGED outcome
     \/ tree' \in {"none", "spoiled"} /\ Concludes("AdapterError")
  /\ UNCHANGED <<before, after, resolved>>

Following == [setup |-> "probe", probe |-> "baseline", check |-> "apply", apply |-> "recheck"]

Prepared ==
  /\ Completed /\ op \in DOMAIN Following
  /\ \/ Proceeds(Following[op]) /\ term = "zero" /\ UNCHANGED outcome
     \/ Concludes("AdapterError")
  /\ UNCHANGED <<treeVars, resolved>>

BaselineEnds ==
  /\ Completed /\ op = "baseline"
  /\ before' = term
  /\ IF term = "zero" THEN Concludes("AdapterError") ELSE Proceeds("inspect") /\ UNCHANGED outcome
  /\ UNCHANGED <<tree, after, resolved>>

\* The git observation, then the walk of the worktree.
Inspected ==
  /\ Completed /\ op = "inspect"
  /\ \/ IF tree = "pristine" THEN Proceeds("check") /\ UNCHANGED outcome ELSE Concludes("Policy")
     \/ Concludes("AdapterError")
  /\ UNCHANGED <<treeVars, resolved>>

Rechecked ==
  /\ Completed /\ op = "recheck"
  /\ \/ IF tree = "patched" THEN Proceeds("validate") /\ UNCHANGED outcome ELSE Concludes("Policy")
     \/ Concludes("AdapterError")
  /\ UNCHANGED <<treeVars, resolved>>

Validated ==
  /\ Completed /\ op = "validate"
  /\ after' = term /\ Proceeds("confirm")
  /\ UNCHANGED <<tree, before, outcome, resolved>>

ConfirmedByExit ==
  /\ Completed /\ op = "confirm"
  /\ \/ Concludes(IF after = "zero" THEN "Pass" ELSE "TestFail")
     \/ Concludes("AdapterError")
  /\ UNCHANGED <<treeVars, resolved>>
Confirmed ==
  /\ Completed /\ op = "confirm"
  /\ \/ Concludes(IF tree # "patched" THEN "Policy" ELSE IF after = "zero" THEN "Pass" ELSE "TestFail")
     \/ Concludes("AdapterError")
  /\ UNCHANGED <<treeVars, resolved>>

Postchecked ==
  /\ Snapshot("postcheck")
  /\ \/ pc' = "sweep" /\ resolved' = "Measured"
     \/ Failed
  /\ UNCHANGED <<op, treeVars, outcome>>

Attempt ==
  /\ \/ Prechecked \/ Prompt \/ Generated \/ Copy \/ Prepared \/ BaselineEnds \/ Inspected
     \/ Rechecked \/ Validated \/ Confirmed \/ Postchecked
  /\ Forgets
  /\ UNCHANGED <<owner, signal, cleanup, patch, storageVars, left, status>>

WritePatch ==
  /\ pc = "patch"
  /\ \/ pc' = "copy" /\ patch' = "owned" /\ UNCHANGED <<op, outcome>>
     \/ Concludes("AdapterError") /\ patch' \in {"none", "owned"}
  /\ UNCHANGED <<owner, commandVars, signal, treeVars, cleanup, storageVars, rowVars>>

\* The patch file goes, and the measurement is built; Err makes it no
\* measurement.
Conclude ==
  /\ pc = "conclude"
  /\ \/ patch' = (IF patch = "owned" THEN "removed" ELSE patch) /\ UNCHANGED cleanup
     \/ patch = "owned" /\ cleanup' = FALSE /\ UNCHANGED patch
  /\ \/ pc' = "remove" /\ UNCHANGED resolved
     \/ Failed
  /\ UNCHANGED <<op, owner, commandVars, signal, treeVars, outcome, storageVars, left, status>>

\* prompt_measurement_outcome.assemble, and storage_cleanup.
Verdict ==
  IF ~cleanup \/ outcome = "AdapterError" THEN "ERROR"
  ELSE IF outcome = "Pass" THEN "PASS" ELSE IF outcome = "Policy" THEN "POLICY_VIOLATION" ELSE "FAIL"
-----------------------------------------------------------------------------
(* Storage, and the retries of a cleanup that failed.                      *)

\* prompt_workspace_cleanup.remove: TRUE when it returns Ok.  It may fail
\* after it removed a part, or everything, and cannot be repeated then.
Removes(ok) ==
  IF ok THEN storage \in {"present", "partial"} /\ storage' = "removed"
  ELSE storage' \in {storage} \union (IF storage = "vanished" THEN {} ELSE {"partial", "vanished"})

\* The measurement tells what became of the storage, where the worktree and
\* a patch that is left go too; it is persisted among the invocation files.
RemoveScratch ==
  /\ pc = "remove"
  /\ \E ok \in BOOLEAN : Removes(ok) /\ cleanup' = (cleanup /\ ok)
  /\ outcome' = IF cleanup' THEN outcome ELSE "AdapterError"
  /\ tree' = "none" /\ before' = "none" /\ after' = "none" /\ patch' = "none"
  /\ \/ Proceeds("postcheck") /\ UNCHANGED resolved
     \/ Failed /\ UNCHANGED op
  /\ UNCHANGED <<owner, commandVars, signal, files, survivors, printed, left, status>>

\* Only the report tells of the scope, not that the cleanup returned.
CertifiedByReturn == TRUE
Certified == released

Retries(who) ==
  /\ owner' = who /\ pc' = "cleanup"
  /\ UNCHANGED <<op, cleanup, outcome, rowVars, storageVars>>

AttemptReturned ==
  /\ pc = "returned" /\ owner = "attempt"
  /\ \/ /\ Certified /\ Concludes("AdapterError") /\ cleanup' = (cleanup /\ ~dirty)
        /\ UNCHANGED <<owner, rowVars, storageVars>>
     \/ ~Certified /\ Retries("row")

RowReturned ==
  /\ pc = "returned" /\ owner = "row"
  /\ \/ Certified /\ Failed /\ UNCHANGED <<op, owner, cleanup, outcome, left, status, storageVars>>
     \/ ~Certified /\ Retries("evaluator")

\* evaluate_file: the last try, after which the paths are printed.
EvaluatorReturned ==
  /\ pc = "returned" /\ owner = "evaluator"
  /\ \/ Certified /\ pc' = "salvage" /\ UNCHANGED <<status, printed>>
     \/ /\ ~Certified /\ pc' = "done" /\ status' = "CLEANUP_FAILED"
        /\ printed' = {"storage"} \union (IF files THEN {"files"} ELSE {})
  /\ UNCHANGED <<op, owner, cleanup, outcome, resolved, left, storage, files, survivors>>

Returned ==
  /\ AttemptReturned \/ RowReturned \/ EvaluatorReturned
  /\ Forgets
  /\ UNCHANGED <<signal, treeVars, patch>>

Retires(ok) == files' = (files /\ ~ok)

Salvage ==
  /\ Goes("salvage", "done")
  /\ \E removed, retired \in BOOLEAN :
       /\ Removes(removed) /\ Retires(retired)
       /\ status' = IF removed /\ retired THEN "EVALUATION_FAILED" ELSE "CLEANUP_FAILED"
       /\ printed' = IF ~removed THEN {"storage"} ELSE IF ~retired /\ files THEN {"files"} ELSE {}
  /\ UNCHANGED <<op, owner, commandVars, signal, treeVars, attemptVars, survivors, resolved, left>>

SettlesStorage(removed, retired) == IF removed THEN resolved ELSE "Failed"
Settles(removed, retired) == IF removed /\ retired THEN resolved ELSE "Failed"

Another == left > 1

\* The end of invoke(), with what the row and run_rows make of it: another
\* invocation follows one that was measured without an error.
Sweep ==
  /\ pc = "sweep"
  /\ \E removed, retired \in BOOLEAN :
       /\ IF storage = "removed" THEN removed /\ UNCHANGED storage ELSE Removes(removed)
       /\ Retires(retired)
       /\ survivors' = (IF removed THEN {} ELSE {"storage"}) \union (IF files /\ ~retired THEN {"files"} ELSE {})
       /\ resolved' = Settles(removed, retired)
  /\ IF resolved' = "Measured" /\ Verdict # "ERROR" /\ Another
     THEN pc' = "create" /\ left' = left - 1
     ELSE pc' = "publish" /\ UNCHANGED left
  /\ UNCHANGED <<op, owner, commandVars, signal, treeVars, attemptVars, printed, status>>
-----------------------------------------------------------------------------
(* The beginning and the end of an invocation, and of the evaluation.      *)

Finishes(with) == pc' = "done" /\ status' = with

Create ==
  /\ pc = "create"
  /\ tree' = "none" /\ before' = "none" /\ after' = "none"
  /\ cleanup' = TRUE /\ outcome' = "AdapterError" /\ patch' = "none"
  /\ \/ pc' = "inputs" /\ storage' = "present" /\ resolved' = "none" /\ UNCHANGED <<survivors, status>>
     \/ /\ pc' = "publish" /\ storage' = "present" /\ survivors' = {"storage"} /\ resolved' = "Failed"
        /\ UNCHANGED status
     \/ Finishes("EVALUATION_FAILED") /\ resolved' = "none" /\ UNCHANGED <<storage, survivors>>
  /\ UNCHANGED <<op, owner, commandVars, signal, files, printed, left>>

WriteInputs ==
  /\ pc = "inputs"
  /\ \/ files' = TRUE /\ Proceeds("precheck") /\ UNCHANGED resolved
     \/ files' \in BOOLEAN /\ Failed /\ UNCHANGED op
  /\ UNCHANGED <<owner, commandVars, signal, treeVars, attemptVars, storage, survivors, printed, left, status>>

\* A result that cannot be built, or a subscription that cannot be closed,
\* ends evaluate_file before the paths are printed.
Publish ==
  /\ pc = "publish"
  /\ \/ Finishes("EVALUATION_FAILED") /\ printed' \in {{}, survivors}
     \/ /\ printed' = survivors
        /\ \E with \in {"OUTPUT_WRITE", "CLEANUP_FAILED"} : Finishes(with)
     \/ /\ printed' = survivors /\ resolved = "Measured" /\ Verdict # "ERROR"
        /\ Finishes("PUBLISHED")
  /\ UNCHANGED <<op, owner, commandVars, signal, treeVars, attemptVars, storage, files, survivors, resolved, left>>

Supervise == Collect \/ Watch \/ Drain \/ Judge
Cleanup == BeginCleanup \/ Scan \/ Kill \/ Reap \/ Release
Evaluate ==
  \/ Launch \/ LaunchFails \/ Supervise \/ Cleanup \/ CommandStops
  \/ Attempt \/ WritePatch \/ Conclude \/ RemoveScratch \/ Returned \/ Salvage \/ Sweep
  \/ Create \/ WriteInputs \/ Publish

Next == Evaluate \/ Process \/ Arrive \/ Tick

Spec == Init /\ [][Next]_vars
FairSpec == Spec /\ WF_vars(Evaluate) /\ WF_vars(Tick)
-----------------------------------------------------------------------------
TypeOK ==
  /\ op \in Commands /\ owner \in {"supervisor", "attempt", "row", "evaluator"}
  /\ proc \in [Procs -> {"none", "live", "zero", "nonzero"}]
  /\ {eof, expired, released, dirty, undrained, cleanup, files} \subseteq BOOLEAN
  /\ term \in {"none", "zero", "nonzero"} /\ targets \subseteq Procs
  /\ stop \in {"none", "Collected", "Interrupted"}
  /\ signal \in {"none", "waiting", "late", "taken"}
  /\ tree \in {"none", "pristine", "patched", "spoiled"}
  /\ {before, after} \subseteq {"none", "zero", "nonzero"}
  /\ outcome \in {"AdapterError", "Policy", "Patch", "TestFail", "Pass"}
  /\ patch \in {"none", "owned", "removed"} /\ resolved \in {"none", "Failed", "Measured"}
  /\ storage \in {"none", "present", "partial", "vanished", "removed"}
  /\ {survivors, printed} \subseteq SUBSET {"storage", "files"}
  /\ left \in 1..Invocations
  /\ status \in {"none", "PUBLISHED", "EVALUATION_FAILED", "OUTPUT_WRITE", "CLEANUP_FAILED"}

\* "Finished certifies released process writers" (prompt_task_attempt:115)
\* and a removal trusts its caller: no path goes on while a process of a
\* command lives, it is in the hands of a supervisor or of one of the
\* retries, until evaluate_file gives up and says so; and until then nothing
\* of the storage that the process may write to has been taken away.
WritersAreOwned ==
  Live # {} =>
    /\ pc \in Supervised \union {"returned"} \/ status = "CLEANUP_FAILED"
    /\ op # "postcheck" => storage = "present" /\ patch # "removed"

\* The verdict is of the tree that is there when it is given: the test
\* failed on the pristine tree and passed on the patched one, and no process
\* that could have changed it since is left.
VerdictIsOfTheTree ==
  pc \in {"conclude", "remove"} /\ outcome = "Pass" =>
    /\ before = "nonzero" /\ after = "zero"
    /\ tree = "patched" /\ Live = {}

\* "A cancellation arriving during cleanup still prevents successful
\* publication" (prompt_task_supervisor:124), and so does one that arrived
\* earlier while a command was supervised, in any row.
CancellationIsHeeded == status = "PUBLISHED" => signal \notin {"waiting", "taken"}

\* A published evaluation leaves nothing behind: no process, no storage and
\* no file of any of its invocations.
PublishedIsClean ==
  status = "PUBLISHED" => Live = {} /\ storage = "removed" /\ ~files /\ survivors = {}

\* What a publication says of the evaluation: nobody asked it to stop, and it
\* left nothing.
PublicationIsSound == CancellationIsHeeded /\ PublishedIsClean

\* Commands may hang, fork and ignore everything but a kill, every call may
\* fail: the evaluation still comes to its end.
EvaluationEnds == <>(pc = "done")

\* docs/specs/align-product-boundary.md:1401 asks that a failed cleanup be
\* reported with the survivors and the retained workspace.
LeftoversAreReported ==
  pc = "done" =>
    /\ storage \in {"present", "partial"} => "storage" \in printed
    /\ files => "files" \in printed
=============================================================================
