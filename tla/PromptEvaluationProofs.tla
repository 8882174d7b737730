------------------------ MODULE PromptEvaluationProofs ------------------------
(***************************************************************************)
(* The safety of PromptEvaluation for any processes and invocations.  The  *)
(* properties speak of what is left and what is said; the invariant says   *)
(* at each place of the evaluator what may still be running, what of the   *)
(* storage is still there, and whether a signal can still be missed.       *)
(***************************************************************************)
EXTENDS PromptEvaluation, TLAPS

(* Where a cleanup runs, and where its report is at hand.                  *)
Cleaning == {"cleanup", "scan", "kill", "reap", "release"}
Reporting == {"drain", "judge", "report"}

ScopeTypes ==
  /\ proc \in [Procs -> {"none", "live", "zero", "nonzero"}]
  /\ term \in {"none", "zero", "nonzero"}

SupervisorOwns == pc \in {"collect", "watch"} \union Reporting => owner = "supervisor"

(* A scope that was released stays empty, and only its own report says so. *)
ReleasedIsEmpty ==
  released => Releases /\ pc \in Reporting \union {"returned"}

NobodyElsewhere ==
  /\ status # "none" => pc = "done"
  /\ pc \notin Supervised \union {"returned"} /\ status # "CLEANUP_FAILED" => Live = {}

(* Until an attempt is concluded its storage and its patch are there.      *)
Working ==
  \/ pc \in {"inputs", "prompt", "patch", "copy"}
  \/ pc \in {"launch", "conclude", "returned"} \union Supervised /\ op # "postcheck"

StorageStays ==
  Working \/ (Live # {} /\ op # "postcheck") => storage = "present" /\ patch # "removed"

MeasuredIsClean ==
  status = "PUBLISHED" \/ (pc = "publish" /\ resolved = "Measured") =>
    storage = "removed" /\ ~files /\ survivors = {}

(* A signal that a supervisor has seen, or will look for, either is still  *)
(* looked for before the command can succeed or has made the invocation an *)
(* error.                                                                  *)
StillLookedFor == pc \in {"collect", "watch"} \union Cleaning \union {"drain", "judge"}
                    /\ owner = "supervisor" /\ signal = "waiting"

CommandLost ==
  \/ pc \in Cleaning \union Reporting /\ owner = "supervisor" /\ stop # "Collected"
  \/ pc \in Cleaning \union {"returned"} /\ owner # "supervisor"

InvocationLost ==
  \/ pc \in {"conclude", "remove"} /\ outcome = "AdapterError"
  \/ /\ pc \in Supervised \union {"launch", "returned"}
     /\ op = "postcheck" /\ outcome = "AdapterError"
  \/ pc \in {"sweep", "publish"} /\ (resolved = "Failed" \/ outcome = "AdapterError")
  \/ pc = "salvage"
  \/ pc = "done" /\ status # "PUBLISHED"

SignalCounts ==
  signal \in {"waiting", "taken"} => StillLookedFor \/ CommandLost \/ InvocationLost

(* After the baseline no command is started unless the test failed.        *)
BaselineFailed ==
  /\ pc \in Supervised \union {"launch", "returned"}
  /\ op \in {"inspect", "check", "apply", "recheck", "validate", "confirm"}
  => before = "nonzero"

EvaluationInv ==
  /\ ScopeTypes /\ SupervisorOwns /\ ReleasedIsEmpty /\ NobodyElsewhere /\ StorageStays
  /\ MeasuredIsClean /\ SignalCounts /\ BaselineFailed /\ VerdictIsOfTheTree
-----------------------------------------------------------------------------
LEMMA ReleasedIsDead == ScopeTypes /\ Releases => Live = {}
BY DEF Releases, Live

LEMMA InitIsOrderly == Init => EvaluationInv
<1> SUFFICES ASSUME Init PROVE EvaluationInv
  OBVIOUS
<1>1. ScopeTypes /\ Live = {}
  BY DEF Init, ScopeTypes, Live
<1> QED
  BY <1>1 DEF Init, EvaluationInv, SupervisorOwns, ReleasedIsEmpty, NobodyElsewhere, StorageStays,
              Working, Supervised, MeasuredIsClean, SignalCounts, BaselineFailed,
              VerdictIsOfTheTree, Reporting

(* The processes run only while somebody owns them.                        *)
LEMMA ProcessIsOrderly == ASSUME EvaluationInv, Process PROVE EvaluationInv'
<1> USE DEF EvaluationInv
<1>1. Live # {} /\ ~Releases
  BY DEF Process, Fork, Exit, Writes, Live, Releases
<1>2. /\ UNCHANGED <<pc, op, owner, eof, term, stop, released, signal, before, after, outcome,
                     patch,
                     storage, files, survivors, resolved, left, status>>
  BY DEF Process, stateVars, reportVars, attemptVars, storageVars, rowVars
<1>3. ScopeTypes'
  BY <1>2 DEF Process, Fork, Exit, Writes, ScopeTypes
<1>4. SupervisorOwns' /\ BaselineFailed' /\ MeasuredIsClean' /\ StorageStays'
  BY <1>1, <1>2 DEF SupervisorOwns, BaselineFailed, MeasuredIsClean, StorageStays, Working
<1>5. ReleasedIsEmpty'
  BY <1>1, <1>2 DEF ReleasedIsEmpty
<1>6. NobodyElsewhere'
  BY <1>1, <1>2 DEF NobodyElsewhere
<1>7. SignalCounts'
  BY <1>2 DEF SignalCounts, StillLookedFor, CommandLost, InvocationLost
<1>8. VerdictIsOfTheTree'
  BY <1>1, <1>2 DEF VerdictIsOfTheTree, NobodyElsewhere, Supervised
<1> QED
  BY <1>3, <1>4, <1>5, <1>6, <1>7, <1>8

(* A step of the world or of a supervisor that leaves the scope alone and  *)
(* stays among the places of a supervised command.                         *)
LEMMA ArriveIsOrderly == ASSUME EvaluationInv, Arrive PROVE EvaluationInv'
<1> USE DEF EvaluationInv
<1>1. UNCHANGED <<pc, op, owner, proc, eof, term, stop, released, before, after, tree, outcome,
                  patch,
                  storage, files, survivors, resolved, left, status>>
  BY DEF Arrive, commandVars, stateVars, reportVars, attemptVars, storageVars, rowVars, treeVars
<1>2. Live' = Live /\ Releases' = Releases
  BY <1>1 DEF Live, Releases
<1>3. SignalCounts'
  BY <1>1 DEF Arrive, SignalCounts, StillLookedFor, Supervised, Cleaning
<1> QED
  BY <1>1, <1>2, <1>3
  DEF ScopeTypes, SupervisorOwns, ReleasedIsEmpty, NobodyElsewhere, StorageStays, Working,
      MeasuredIsClean, BaselineFailed, VerdictIsOfTheTree

LEMMA TickIsOrderly == ASSUME EvaluationInv, Tick \/ UNCHANGED vars PROVE EvaluationInv'
<1> USE DEF EvaluationInv
<1>1. UNCHANGED <<pc, op, owner, proc, eof, term, stop, released, before, after, tree, outcome,
                  patch,
                  storage, files, survivors, resolved, left, status, signal>>
  BY DEF Tick, vars, commandVars, stateVars, reportVars, attemptVars, storageVars, rowVars, treeVars
<1>2. Live' = Live /\ Releases' = Releases
  BY <1>1 DEF Live, Releases
<1> QED
  BY <1>1, <1>2
  DEF ScopeTypes, SupervisorOwns, ReleasedIsEmpty, NobodyElsewhere, StorageStays, Working,
      MeasuredIsClean, BaselineFailed, VerdictIsOfTheTree, SignalCounts, StillLookedFor,
      CommandLost, InvocationLost
-----------------------------------------------------------------------------
(* What supervising a command leaves alone.                                *)
SameInvocation == UNCHANGED <<op, tree, before, after, cleanup, outcome, patch, storage, files,
                              survivors, printed, resolved, left, status>>

(* A supervisor, or a cleanup, goes from one of its places to another.     *)
LEMMA SupervisedStays ==
  ASSUME EvaluationInv, SameInvocation, pc \in Supervised,
         pc' \in Supervised \union {"returned"}, ScopeTypes'
  PROVE  /\ NobodyElsewhere' /\ StorageStays' /\ MeasuredIsClean' /\ BaselineFailed'
         /\ VerdictIsOfTheTree'
         /\ InvocationLost => InvocationLost'
<1> USE DEF EvaluationInv, SameInvocation
<1>1. status = "none"
  BY DEF NobodyElsewhere, Supervised
<1>2. NobodyElsewhere' /\ MeasuredIsClean' /\ VerdictIsOfTheTree'
  BY <1>1 DEF NobodyElsewhere, MeasuredIsClean, VerdictIsOfTheTree, Supervised
<1>3. StorageStays'
  <2>1. op # "postcheck" => storage = "present" /\ patch # "removed"
    BY DEF StorageStays, Working
  <2>2. pc' \notin {"inputs", "prompt", "patch", "copy"}
    BY DEF Supervised
  <2> QED
    BY <2>1, <2>2 DEF StorageStays, Working
<1>4. BaselineFailed'
  BY DEF BaselineFailed, Supervised
<1>5. InvocationLost => InvocationLost'
  BY DEF InvocationLost, Supervised
<1> QED
  BY <1>2, <1>3, <1>4, <1>5

LEMMA CollectIsOrderly == ASSUME EvaluationInv, Collect \/ Watch PROVE EvaluationInv'
<1> USE DEF EvaluationInv
<1>1. /\ SameInvocation /\ proc' = proc /\ owner' = owner /\ released' = released
      /\ pc \in {"collect", "watch"} /\ pc' \in {"collect", "watch", "cleanup"}
  BY DEF Collect, Watch, Stops, Step, SameInvocation, treeVars, attemptVars, storageVars, rowVars,
         commandVars, reportVars
<1>2. ~released /\ Releases' = Releases
  BY <1>1 DEF ReleasedIsEmpty, Releases, Reporting
<1>3. ScopeTypes'
  BY <1>1 DEF Collect, Watch, Stops, Step, ScopeTypes, commandVars, stateVars, Ended
<1>4. SupervisorOwns' /\ ReleasedIsEmpty'
  BY <1>1, <1>2 DEF SupervisorOwns, ReleasedIsEmpty
<1>5. SignalCounts'
  <2>1. CASE InvocationLost
    BY <1>1, <1>3, <2>1, SupervisedStays DEF SignalCounts, Supervised
  <2>2. CASE signal' = "taken" /\ signal # "taken"
    BY <1>1, <2>2 DEF Collect, Watch, Stops, NextSignal, SignalCounts, CommandLost, SupervisorOwns,
                      Cleaning
  <2>3. CASE signal' = signal /\ ~InvocationLost
    BY <1>1, <2>3 DEF SignalCounts, StillLookedFor, CommandLost, SupervisorOwns, Cleaning, Reporting
  <2> QED
    BY <2>1, <2>2, <2>3 DEF Collect, Watch, Stops, NextSignal
<1> QED
  BY <1>1, <1>3, <1>4, <1>5, SupervisedStays DEF Supervised

LEMMA CleanupIsOrderly == ASSUME EvaluationInv, Cleanup PROVE EvaluationInv'
<1> USE DEF EvaluationInv
<1>1. /\ SameInvocation /\ UNCHANGED <<owner, signal, stop, term>> /\ pc \in Cleaning
      /\ pc' \in Cleaning \/ pc' = (IF owner = "supervisor" THEN "drain" ELSE "returned")
  BY DEF Cleanup, BeginCleanup, Scan, Kill, Reap, Release, Returns, Goes, CleanupUnchanged,
         SameInvocation, Cleaning, treeVars, attemptVars, storageVars, rowVars, stateVars
<1>2. pc \in Supervised /\ pc' \in Supervised \union {"returned"}
  BY <1>1 DEF Cleaning, Supervised
<1>3. ScopeTypes'
  <2>1. CASE proc' = proc
    BY <1>1, <2>1 DEF ScopeTypes
  <2>2. CASE Kill
    BY <1>1, <2>2 DEF Kill, ScopeTypes
  <2>3. CASE Reap
    BY <1>1, <2>3 DEF Reap, Returns, ScopeTypes
  <2> QED
    BY <2>1, <2>2, <2>3 DEF Cleanup, BeginCleanup, Scan, Release, Returns
<1>4. ReleasedIsEmpty'
  <2>1. ~released
    BY <1>1 DEF ReleasedIsEmpty, Cleaning, Reporting
  <2>2. released' => Releases /\ proc' = proc /\ pc' \in {"drain", "returned"}
    BY <1>1, <2>1 DEF Cleanup, BeginCleanup, Scan, Kill, Reap, Release, Returns, Goes
  <2> QED
    BY <2>2 DEF ReleasedIsEmpty, Reporting, Releases
<1>5. SupervisorOwns'
  BY <1>1 DEF SupervisorOwns, Cleaning, Reporting
<1>6. SignalCounts'
  <2>1. CASE InvocationLost
    BY <1>1, <1>2, <1>3, <2>1, SupervisedStays DEF SignalCounts
  <2>2. CASE StillLookedFor \/ CommandLost
    BY <1>1, <2>2 DEF SignalCounts, StillLookedFor, CommandLost, Cleaning, Reporting
  <2> QED
    BY <1>1, <2>1, <2>2 DEF SignalCounts
<1> QED
  BY <1>1, <1>2, <1>3, <1>4, <1>5, <1>6, SupervisedStays

LEMMA JudgeIsOrderly == ASSUME EvaluationInv, Drain \/ Judge PROVE EvaluationInv'
<1> USE DEF EvaluationInv
<1>1. /\ SameInvocation /\ UNCHANGED <<owner, proc, term, released>>
      /\ pc \in {"drain", "judge"} /\ pc' \in {"judge", "report"}
  BY DEF Drain, Judge, Goes, SameInvocation, treeVars, attemptVars, storageVars, rowVars, stateVars
<1>2. pc \in Supervised /\ pc' \in Supervised /\ Releases' = Releases
  BY <1>1 DEF Supervised, Releases
<1>3. ScopeTypes' /\ SupervisorOwns' /\ ReleasedIsEmpty'
  BY <1>1, <1>2 DEF ScopeTypes, SupervisorOwns, ReleasedIsEmpty, Reporting
<1>4. SignalCounts'
  <2>1. CASE InvocationLost
    BY <1>1, <1>2, <1>3, <2>1, SupervisedStays DEF SignalCounts
  <2>2. CASE Drain /\ ~InvocationLost
    BY <1>1, <2>2
    DEF Drain, Goes, SignalCounts, StillLookedFor, CommandLost, Cleaning, Reporting
  <2>3. CASE Judge /\ stop' # "Collected"
    BY <1>1, <2>3 DEF Judge, Goes, SignalCounts, CommandLost, SupervisorOwns, Reporting
  <2>4. CASE Judge /\ stop' = "Collected" /\ ~InvocationLost
    <3>1. signal' = signal /\ ~Pending /\ stop = "Collected"
      BY <2>4 DEF Judge, LateSignal, NextSignal
    <3> QED
      BY <1>1, <2>4, <3>1
      DEF SignalCounts, StillLookedFor, CommandLost, SupervisorOwns, Pending, Cleaning, Reporting
  <2> QED
    BY <2>1, <2>2, <2>3, <2>4
<1> QED
  BY <1>1, <1>2, <1>3, <1>4, SupervisedStays
-----------------------------------------------------------------------------
LEMMA LaunchIsOrderly == ASSUME EvaluationInv, Launch PROVE EvaluationInv'
<1> USE DEF EvaluationInv
<1>1. /\ SameInvocation /\ UNCHANGED <<term, stop, released>>
      /\ pc = "launch" /\ pc' = "collect" /\ owner' = "supervisor" /\ status = "none"
  BY DEF Launch, Goes, SameInvocation, NobodyElsewhere, treeVars, attemptVars, storageVars, rowVars,
         stateVars, reportVars
<1>2. ScopeTypes'
  BY <1>1 DEF Launch, ScopeTypes
<1>3. SupervisorOwns' /\ ReleasedIsEmpty' /\ NobodyElsewhere'
  BY <1>1
  DEF SupervisorOwns, ReleasedIsEmpty, NobodyElsewhere, SameInvocation, Supervised, Reporting
<1>4. StorageStays'
  BY <1>1 DEF StorageStays, Working, SameInvocation
<1>5. MeasuredIsClean' /\ VerdictIsOfTheTree' /\ BaselineFailed'
  BY <1>1 DEF MeasuredIsClean, VerdictIsOfTheTree, BaselineFailed, SameInvocation
<1>6. SignalCounts'
  <2>1. CASE signal = "late"
    BY <1>1, <2>1 DEF Launch, SignalCounts, StillLookedFor
  <2>2. CASE signal # "late"
    BY <1>1, <2>2
    DEF Launch, SignalCounts, StillLookedFor, CommandLost, InvocationLost, SameInvocation, Cleaning,
        Reporting, Supervised
  <2> QED
    BY <2>1, <2>2
<1> QED
  BY <1>2, <1>3, <1>4, <1>5, <1>6

(* The scope of a command that stops goes to a cleanup of another owner.   *)
LEMMA CommandStopsIsOrderly == ASSUME EvaluationInv, CommandStops PROVE EvaluationInv'
<1> USE DEF EvaluationInv
<1>1. /\ UNCHANGED <<op, proc, signal, tree, before, after, outcome, patch, storage, files,
                     survivors,
                     resolved, status>>
      /\ pc = "report" /\ pc' = "cleanup" /\ owner' \in {"row", "attempt"}
      /\ term' = "none" /\ released' = FALSE /\ status = "none"
  BY DEF CommandStops, Goes, Forgets, NobodyElsewhere, treeVars, storageVars, rowVars
<1>2. ScopeTypes' /\ SupervisorOwns' /\ ReleasedIsEmpty'
  BY <1>1 DEF ScopeTypes, SupervisorOwns, ReleasedIsEmpty, Reporting
<1>3. NobodyElsewhere' /\ MeasuredIsClean' /\ VerdictIsOfTheTree'
  BY <1>1 DEF NobodyElsewhere, MeasuredIsClean, VerdictIsOfTheTree, Supervised
<1>4. StorageStays'
  <2>1. op # "postcheck" => storage = "present" /\ patch # "removed"
    BY <1>1 DEF StorageStays, Working, Supervised
  <2> QED
    BY <1>1, <2>1 DEF StorageStays, Working
<1>5. BaselineFailed'
  BY <1>1 DEF BaselineFailed, Supervised
<1>6. SignalCounts'
  BY <1>1 DEF SignalCounts, CommandLost, Cleaning
<1> QED
  BY <1>2, <1>3, <1>4, <1>5, <1>6

(* Elsewhere no process runs.  A step from there to there leaves none, and *)
(* what it has to keep is said of its own place.                           *)
LEMMA ElsewhereStays ==
  ASSUME EvaluationInv, Live = {}, status = "none", proc' = proc,
         term' \in {"none", term}, pc' \notin Supervised \union {"returned"},
         status' # "none" => pc' = "done", released' => FALSE
  PROVE  /\ ScopeTypes' /\ SupervisorOwns' /\ ReleasedIsEmpty' /\ NobodyElsewhere'
         /\ Live' = {}
<1>1. Live' = {}
  BY DEF Live
<1>2. ScopeTypes'
  BY DEF EvaluationInv, ScopeTypes
<1>3. SupervisorOwns' /\ ReleasedIsEmpty'
  BY DEF SupervisorOwns, ReleasedIsEmpty, Supervised, Reporting
<1> QED
  BY <1>1, <1>2, <1>3 DEF NobodyElsewhere

LEMMA LaunchFailsIsOrderly == ASSUME EvaluationInv, LaunchFails PROVE EvaluationInv'
<1> USE DEF EvaluationInv
<1>1. /\ UNCHANGED <<proc, term, released, signal, tree, before, after, patch, storage, files,
                     survivors, status>>
      /\ pc = "launch" /\ status = "none" /\ Live = {} /\ ~released /\ op' = op
      /\ \/ pc' = "sweep" /\ resolved' = "Failed"
         \/ pc' = "conclude" /\ outcome' = "AdapterError" /\ op # "postcheck"
  BY DEF LaunchFails, Errs, Failed, Concludes, NobodyElsewhere, ReleasedIsEmpty, Supervised,
         Reporting,
         commandVars, stateVars, reportVars, treeVars, storageVars
<1>2. ScopeTypes' /\ SupervisorOwns' /\ ReleasedIsEmpty' /\ NobodyElsewhere' /\ Live' = {}
  BY <1>1, ElsewhereStays DEF Supervised
<1>3. StorageStays'
  BY <1>1, <1>2 DEF StorageStays, Working, Supervised
<1>4. MeasuredIsClean' /\ BaselineFailed' /\ VerdictIsOfTheTree' /\ SignalCounts'
  BY <1>1
  DEF MeasuredIsClean, BaselineFailed, VerdictIsOfTheTree, SignalCounts, InvocationLost, Supervised
<1> QED
  BY <1>2, <1>3, <1>4
-----------------------------------------------------------------------------
(* A command that completed left no process and no signal unseen; where    *)
(* none was run, none is needed.                                           *)
LEMMA AttemptStarts ==
  ASSUME EvaluationInv, Attempt
  PROVE  /\ Live = {} /\ status = "none"
         /\ signal \in {"waiting", "taken"} =>
              op = "postcheck" /\ outcome = "AdapterError" /\ pc \in {"report", "launch"}
<1> USE DEF EvaluationInv
<1>1. Completed \/ pc \in {"launch", "prompt", "copy"}
  BY DEF Attempt, Prechecked, Snapshot, Prompt, Generated, Copy, Prepared, BaselineEnds, Inspected,
         Rechecked, Validated, Confirmed, Postchecked
<1>2. CASE Completed
  <2>1. pc = "report" /\ released /\ stop = "Collected"
    BY <1>2 DEF Completed, Transport
  <2> QED
    BY <2>1, ReleasedIsDead
    DEF ReleasedIsEmpty, NobodyElsewhere, SignalCounts, StillLookedFor, CommandLost, InvocationLost,
        Cleaning
<1>3. CASE pc \in {"launch", "prompt", "copy"}
  BY <1>3 DEF NobodyElsewhere, SignalCounts, StillLookedFor, CommandLost, InvocationLost, Cleaning,
              Reporting, Supervised
<1> QED
  BY <1>1, <1>2, <1>3

LEMMA AttemptIsOrderly == ASSUME EvaluationInv, Attempt PROVE EvaluationInv'
<1> USE DEF EvaluationInv
<1>1. /\ UNCHANGED <<proc, signal, cleanup, patch, storage, files, survivors, status>>
      /\ term' = "none" /\ released' = FALSE
  BY DEF Attempt, Forgets, storageVars
<1>2. /\ Live = {} /\ status = "none"
      /\ signal \in {"waiting", "taken"} =>
           op = "postcheck" /\ outcome = "AdapterError" /\ pc \in {"report", "launch"}
  BY AttemptStarts
<1>3. pc' \in {"prompt", "patch", "copy", "launch", "conclude", "sweep"}
  BY DEF Attempt, Prechecked, Snapshot, Prompt, Generated, Copy, Prepared, BaselineEnds, Inspected,
         Rechecked, Validated, Confirmed, Postchecked, Proceeds, Concludes, Failed, Following
<1>4. ScopeTypes' /\ SupervisorOwns' /\ ReleasedIsEmpty' /\ NobodyElsewhere' /\ Live' = {}
  BY <1>1, <1>2, <1>3, ElsewhereStays DEF Supervised
<1>5. StorageStays'
  <2>1. Working' => Working
    BY DEF Attempt, Prechecked, Snapshot, Prompt, Generated, Copy, Prepared, BaselineEnds,
           Inspected,
           Rechecked, Validated, Confirmed, Postchecked, Proceeds, Concludes, Failed, Completed,
           Following, Working, Supervised
  <2> QED
    BY <1>1, <1>4, <2>1 DEF StorageStays
<1>6. MeasuredIsClean'
  BY <1>1, <1>2, <1>3 DEF MeasuredIsClean
<1>7. BaselineFailed'
  <2> SUFFICES ASSUME pc' = "launch",
                      op' \in {"inspect", "check", "apply", "recheck", "validate", "confirm"}
               PROVE  before' = "nonzero"
    BY <1>3 DEF BaselineFailed, Supervised
  <2>1. CASE BaselineEnds
    BY <2>1 DEF BaselineEnds, Completed, Transport, ScopeTypes, Concludes
  <2>2. CASE Prepared \/ Inspected \/ Rechecked \/ Validated
    BY <2>2 DEF Prepared, Inspected, Rechecked, Validated, Completed, Proceeds, Concludes,
                Following,
                BaselineFailed, Supervised, treeVars
  <2> QED
    BY <2>1, <2>2 DEF Attempt, Prechecked, Prompt, Generated, Copy, Confirmed, Postchecked,
                      Proceeds,
                      Concludes, Failed
<1>8. VerdictIsOfTheTree'
  <2> SUFFICES ASSUME pc' = "conclude", outcome' = "Pass"
               PROVE  /\ before' = "nonzero" /\ after' = "zero" /\ tree' = "patched"
    BY <1>3, <1>4 DEF VerdictIsOfTheTree
  <2>1. Confirmed /\ tree = "patched" /\ after = "zero"
    BY DEF Attempt, Prechecked, Prompt, Generated, Copy, Prepared, BaselineEnds, Inspected,
           Rechecked,
           Validated, Confirmed, Postchecked, Proceeds, Concludes, Failed
  <2>2. before = "nonzero"
    BY <2>1 DEF Confirmed, Completed, BaselineFailed, Supervised
  <2> QED
    BY <2>1, <2>2 DEF Confirmed, treeVars
<1>9. SignalCounts'
  <2> SUFFICES ASSUME signal \in {"waiting", "taken"} PROVE InvocationLost'
    BY <1>1 DEF SignalCounts
  <2>1. Postchecked /\ outcome = "AdapterError"
    BY <1>2 DEF Attempt, Prechecked, Snapshot, Prompt, Generated, Copy, Prepared, BaselineEnds,
                Inspected, Rechecked, Validated, Confirmed, Following
  <2> QED
    BY <2>1 DEF Postchecked, Failed, InvocationLost
<1> QED
  BY <1>4, <1>5, <1>6, <1>7, <1>8, <1>9
-----------------------------------------------------------------------------
LEMMA ConcludeIsOrderly ==
  ASSUME EvaluationInv, WritePatch \/ Conclude \/ RemoveScratch
  PROVE  EvaluationInv'
<1> USE DEF EvaluationInv
<1>1. /\ UNCHANGED <<proc, term, released, signal, files, survivors, status>>
      /\ pc \in {"patch", "conclude", "remove"} /\ status = "none" /\ Live = {} /\ ~released
      /\ pc' \in {"copy", "conclude", "remove", "sweep", "launch"}
  BY DEF WritePatch, Conclude, RemoveScratch, Concludes, Failed, Proceeds, NobodyElsewhere,
         ReleasedIsEmpty, Supervised, Reporting, commandVars, stateVars, reportVars, storageVars,
         rowVars
<1>2. ScopeTypes' /\ SupervisorOwns' /\ ReleasedIsEmpty' /\ NobodyElsewhere' /\ Live' = {}
  BY <1>1, ElsewhereStays DEF Supervised
<1>3. MeasuredIsClean'
  BY <1>1 DEF MeasuredIsClean
<1>4. CASE WritePatch
  <2>1. pc = "patch" /\ UNCHANGED <<tree, before, after, storage>>
        /\ (pc' = "copy" \/ (pc' = "conclude" /\ outcome' = "AdapterError"))
        /\ patch' \in {"none", "owned"}
    BY <1>4 DEF WritePatch, Concludes, treeVars, storageVars
  <2>2. StorageStays'
    BY <1>2, <2>1 DEF StorageStays, Working, Supervised
  <2>3. BaselineFailed' /\ VerdictIsOfTheTree' /\ SignalCounts'
    BY <1>1, <2>1 DEF BaselineFailed, VerdictIsOfTheTree, SignalCounts, StillLookedFor, CommandLost,
                      InvocationLost, Supervised, Cleaning, Reporting
  <2> QED
    BY <1>2, <1>3, <2>2, <2>3
<1>5. CASE Conclude
  <2>1. /\ pc = "conclude" /\ UNCHANGED <<tree, before, after, outcome>>
        /\ pc' = "remove" \/ (pc' = "sweep" /\ resolved' = "Failed")
    BY <1>5 DEF Conclude, Failed, treeVars
  <2>2. StorageStays' /\ BaselineFailed'
    BY <1>2, <2>1 DEF StorageStays, Working, BaselineFailed, Supervised
  <2>3. VerdictIsOfTheTree'
    BY <1>2, <2>1 DEF VerdictIsOfTheTree
  <2>4. SignalCounts'
    BY <1>1, <2>1
    DEF SignalCounts, StillLookedFor, CommandLost, InvocationLost, Supervised, Cleaning, Reporting
  <2> QED
    BY <1>2, <1>3, <2>2, <2>3, <2>4
<1>6. CASE RemoveScratch
  <2>1. /\ pc = "remove" /\ outcome' \in {outcome, "AdapterError"}
        /\ \/ pc' = "launch" /\ op' = "postcheck"
           \/ pc' = "sweep" /\ resolved' = "Failed"
    BY <1>6 DEF RemoveScratch, Proceeds, Failed
  <2>2. StorageStays' /\ BaselineFailed' /\ VerdictIsOfTheTree'
    BY <1>2, <2>1 DEF StorageStays, Working, BaselineFailed, VerdictIsOfTheTree, Supervised
  <2>3. SignalCounts'
    BY <1>1, <2>1
    DEF SignalCounts, StillLookedFor, CommandLost, InvocationLost, Supervised, Cleaning, Reporting
  <2> QED
    BY <1>2, <1>3, <2>2, <2>3
<1> QED
  BY <1>4, <1>5, <1>6

(* A cleanup that returned goes on only with a certificate; without one    *)
(* the next owner tries, and the last one says that it failed.             *)
LEMMA ReturnedIsOrderly == ASSUME EvaluationInv, Returned PROVE EvaluationInv'
<1> USE DEF EvaluationInv
<1>1. /\ UNCHANGED <<proc, op, signal, tree, before, after, patch, storage, files, survivors>>
      /\ pc = "returned" /\ status = "none" /\ term' = "none" /\ released' = FALSE
  BY DEF Returned, AttemptReturned, RowReturned, EvaluatorReturned, Retries, Concludes, Forgets,
         NobodyElsewhere, treeVars, storageVars
<1>2. \/ /\ released /\ status' = "none"
         /\ \/ pc' = "conclude" /\ outcome' = "AdapterError"
            \/ pc' = "sweep" /\ resolved' = "Failed"
            \/ pc' = "salvage"
      \/ pc' = "cleanup" /\ owner' \in {"row", "evaluator"} /\ status' = "none"
      \/ pc' = "done" /\ status' = "CLEANUP_FAILED"
  BY <1>1 DEF Returned, AttemptReturned, RowReturned, EvaluatorReturned, Retries, Concludes, Failed,
              Certified, rowVars
<1>3. released => Live = {}
  BY ReleasedIsDead DEF ReleasedIsEmpty
<1>4. ScopeTypes' /\ SupervisorOwns' /\ ReleasedIsEmpty'
  BY <1>1, <1>2 DEF ScopeTypes, SupervisorOwns, ReleasedIsEmpty, Reporting
<1>5. Live' = Live
  BY <1>1 DEF Live
<1>6. NobodyElsewhere'
  BY <1>2, <1>3, <1>5 DEF NobodyElsewhere, Supervised
<1>7. StorageStays'
  <2>1. op # "postcheck" => storage = "present" /\ patch # "removed"
    BY <1>1 DEF StorageStays, Working
  <2> QED
    BY <1>1, <1>2, <2>1 DEF StorageStays, Working, Supervised
<1>8. MeasuredIsClean' /\ VerdictIsOfTheTree'
  BY <1>2 DEF MeasuredIsClean, VerdictIsOfTheTree
<1>9. BaselineFailed'
  BY <1>1, <1>2 DEF BaselineFailed, Supervised
<1>10. SignalCounts'
  BY <1>2 DEF SignalCounts, CommandLost, InvocationLost, Cleaning
<1> QED
  BY <1>4, <1>6, <1>7, <1>8, <1>9, <1>10

LEMMA SweepIsOrderly == ASSUME EvaluationInv, Sweep \/ Salvage PROVE EvaluationInv'
<1> USE DEF EvaluationInv
<1>1. /\ UNCHANGED <<proc, term, released, signal>>
      /\ pc \in {"sweep", "salvage"} /\ status = "none" /\ Live = {} /\ ~released
      /\ pc' \in {"create", "publish", "done"} /\ (status' # "none" => pc' = "done")
  BY DEF Sweep, Salvage, Goes, NobodyElsewhere, ReleasedIsEmpty, Supervised, Reporting, commandVars,
         stateVars, reportVars
<1>2. ScopeTypes' /\ SupervisorOwns' /\ ReleasedIsEmpty' /\ NobodyElsewhere' /\ Live' = {}
  BY <1>1, ElsewhereStays DEF Supervised
<1>3. StorageStays' /\ BaselineFailed' /\ VerdictIsOfTheTree'
  BY <1>1, <1>2 DEF StorageStays, Working, BaselineFailed, VerdictIsOfTheTree, Supervised
<1>4. CASE Salvage
  <2>1. pc' = "done" /\ status' # "PUBLISHED"
    BY <1>4 DEF Salvage, Goes
  <2> QED
    BY <1>2, <1>3, <2>1 DEF MeasuredIsClean, SignalCounts, InvocationLost
<1>5. CASE Sweep
  <2>1. status' = "none" /\ pc = "sweep"
    BY <1>1, <1>5 DEF Sweep
  <2>2. PICK removed \in BOOLEAN, retired \in BOOLEAN :
          /\ IF storage = "removed" THEN removed /\ UNCHANGED storage ELSE Removes(removed)
          /\ Retires(retired)
          /\ survivors' = (IF removed THEN {} ELSE {"storage"})
                            \union (IF files /\ ~retired THEN {"files"} ELSE {})
          /\ resolved' = Settles(removed, retired)
    BY <1>5 DEF Sweep
  <2>3. MeasuredIsClean'
    <3> SUFFICES ASSUME resolved' = "Measured"
                 PROVE  storage' = "removed" /\ ~files' /\ survivors' = {}
      BY <2>1 DEF MeasuredIsClean
    <3>1. removed /\ retired
      BY <2>2 DEF Settles
    <3> QED
      BY <2>2, <3>1 DEF Removes, Retires
  <2>4. SignalCounts'
    <3> SUFFICES ASSUME signal \in {"waiting", "taken"} PROVE InvocationLost'
      BY <1>1 DEF SignalCounts
    <3>1. resolved = "Failed" \/ outcome = "AdapterError"
      BY <2>1 DEF SignalCounts, StillLookedFor, CommandLost, InvocationLost, Supervised, Cleaning,
                  Reporting
    <3>2. outcome' = outcome /\ (outcome = "AdapterError" => Verdict = "ERROR")
      BY <1>5 DEF Sweep, Verdict, attemptVars
    <3>3. resolved = "Failed" => resolved' = "Failed"
      BY <2>2 DEF Settles
    <3> QED
      BY <1>5, <3>1, <3>2, <3>3 DEF Sweep, InvocationLost
  <2> QED
    BY <1>2, <1>3, <2>3, <2>4
<1> QED
  BY <1>4, <1>5

LEMMA CreateIsOrderly == ASSUME EvaluationInv, Create \/ WriteInputs PROVE EvaluationInv'
<1> USE DEF EvaluationInv
<1>1. /\ UNCHANGED <<proc, term, released, signal>>
      /\ pc \in {"create", "inputs"} /\ status = "none" /\ Live = {} /\ ~released
      /\ pc' \in {"inputs", "publish", "done", "launch", "sweep"}
      /\ status' # "none" => pc' = "done"
      /\ status' # "PUBLISHED"
  BY DEF Create, WriteInputs, Finishes, Proceeds, Failed, NobodyElsewhere, ReleasedIsEmpty,
         Supervised,
         Reporting, commandVars, stateVars, reportVars
<1>2. ScopeTypes' /\ SupervisorOwns' /\ ReleasedIsEmpty' /\ NobodyElsewhere' /\ Live' = {}
  BY <1>1, ElsewhereStays DEF Supervised
<1>3. SignalCounts'
  BY <1>1
  DEF SignalCounts, StillLookedFor, CommandLost, InvocationLost, Supervised, Cleaning, Reporting
<1>4. VerdictIsOfTheTree' /\ BaselineFailed'
  BY <1>1 DEF Create, WriteInputs, Proceeds, Failed, Finishes, VerdictIsOfTheTree, BaselineFailed,
              Supervised
<1>5. MeasuredIsClean'
  BY <1>1 DEF Create, WriteInputs, Proceeds, Failed, Finishes, MeasuredIsClean
<1>6. StorageStays'
  BY <1>1, <1>2 DEF Create, WriteInputs, Proceeds, Failed, Finishes, StorageStays, Working,
                    Supervised,
                    attemptVars
<1> QED
  BY <1>2, <1>3, <1>4, <1>5, <1>6

LEMMA PublishIsOrderly == ASSUME EvaluationInv, Publish PROVE EvaluationInv'
<1> USE DEF EvaluationInv
<1>1. /\ UNCHANGED <<proc, term, released, signal, storage, files, survivors>>
      /\ pc = "publish" /\ status = "none" /\ Live = {} /\ ~released /\ pc' = "done"
  BY DEF Publish, Finishes, NobodyElsewhere, ReleasedIsEmpty, Supervised, Reporting, commandVars,
         stateVars, reportVars
<1>2. ScopeTypes' /\ SupervisorOwns' /\ ReleasedIsEmpty' /\ NobodyElsewhere' /\ Live' = {}
  BY <1>1, ElsewhereStays DEF Supervised
<1>3. status' = "PUBLISHED" => resolved = "Measured" /\ outcome # "AdapterError"
  BY DEF Publish, Finishes, Verdict
<1>4. StorageStays' /\ BaselineFailed' /\ VerdictIsOfTheTree'
  BY <1>1, <1>2 DEF StorageStays, Working, BaselineFailed, VerdictIsOfTheTree, Supervised
<1>5. MeasuredIsClean'
  BY <1>1, <1>3 DEF MeasuredIsClean
<1>6. SignalCounts'
  BY <1>1, <1>3
  DEF SignalCounts, StillLookedFor, CommandLost, InvocationLost, Supervised, Cleaning, Reporting
<1> QED
  BY <1>2, <1>4, <1>5, <1>6
-----------------------------------------------------------------------------
LEMMA NextIsOrderly == EvaluationInv /\ [Next]_vars => EvaluationInv'
<1> SUFFICES ASSUME EvaluationInv, [Next]_vars PROVE EvaluationInv'
  OBVIOUS
<1>1. CASE Process \/ Arrive \/ Tick \/ UNCHANGED vars
  BY <1>1, ProcessIsOrderly, ArriveIsOrderly, TickIsOrderly
<1>2. CASE Evaluate
  <2>1. CASE Launch \/ LaunchFails \/ CommandStops
    BY <2>1, LaunchIsOrderly, LaunchFailsIsOrderly, CommandStopsIsOrderly
  <2>2. CASE Supervise \/ Cleanup
    BY <2>2, CollectIsOrderly, JudgeIsOrderly, CleanupIsOrderly DEF Supervise
  <2>3. CASE Attempt \/ WritePatch \/ Conclude \/ RemoveScratch
    BY <2>3, AttemptIsOrderly, ConcludeIsOrderly
  <2>4. CASE Returned \/ Salvage \/ Sweep
    BY <2>4, ReturnedIsOrderly, SweepIsOrderly
  <2>5. CASE Create \/ WriteInputs \/ Publish
    BY <2>5, CreateIsOrderly, PublishIsOrderly
  <2> QED
    BY <1>2, <2>1, <2>2, <2>3, <2>4, <2>5 DEF Evaluate
<1> QED
  BY <1>1, <1>2 DEF Next

LEMMA EvaluationIsOrderly == Spec => []EvaluationInv
<1>1. Init => EvaluationInv
  BY InitIsOrderly
<1> QED
  BY <1>1, NextIsOrderly, PTL DEF Spec

(* No path of the evaluation goes on while a process of a command lives,   *)
(* for any number of them: until the last owner of its scope gives up and  *)
(* says so, and until then nothing it may write to has been taken away.    *)
THEOREM WritersAreAlwaysOwned == Spec => []WritersAreOwned
<1>1. EvaluationInv => WritersAreOwned
  BY DEF EvaluationInv, NobodyElsewhere, StorageStays, WritersAreOwned
<1> QED
  BY <1>1, EvaluationIsOrderly, PTL

(* An attempt that passes failed before its patch and passed with it, on   *)
(* the tree that is there when it says so.                                 *)
THEOREM VerdictIsAlwaysOfTheTree == Spec => []VerdictIsOfTheTree
<1>1. EvaluationInv => VerdictIsOfTheTree
  BY DEF EvaluationInv
<1> QED
  BY <1>1, EvaluationIsOrderly, PTL

(* What is published was not cancelled while a command was supervised, in  *)
(* any of its invocations, and left no process, no storage and no file.    *)
THEOREM PublicationIsAlwaysSound == Spec => []PublicationIsSound
<1>1. EvaluationInv => CancellationIsHeeded
  BY DEF EvaluationInv, SignalCounts, StillLookedFor, CommandLost, InvocationLost, NobodyElsewhere,
         CancellationIsHeeded, Supervised, Cleaning, Reporting
<1>2. EvaluationInv => PublishedIsClean
  BY DEF EvaluationInv, MeasuredIsClean, NobodyElsewhere, PublishedIsClean, Supervised
<1>3. EvaluationInv => PublicationIsSound
  BY <1>1, <1>2 DEF PublicationIsSound
<1> QED
  BY <1>3, EvaluationIsOrderly, PTL
=============================================================================
