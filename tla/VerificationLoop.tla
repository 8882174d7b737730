--------------------------- MODULE VerificationLoop ---------------------------
(***************************************************************************)
(* Verification runs (src/verification_loop.align) that share one failure  *)
(* memory (src/failure_memory.align).  Each run is a process with a work   *)
(* tree of its own: it applies a candidate patch, runs the stages, may     *)
(* apply one repair patch, writes its result and remembers it.             *)
(*                                                                         *)
(* A tree is the set of patches in it.  A command passes or does not; a    *)
(* patch that is refused leaves the tree alone, one whose git apply was    *)
(* cut off by the timeout may be in it all the same.  The profile is one   *)
(* file that is read whole and written whole.                              *)
(***************************************************************************)
EXTENDS Naturals, Sequences, SequencesExt

CONSTANTS
  Runs,         \* processes
  Tasks,        \* task ids
  MaxMax        \* largest max_iterations

ASSUME LoopAssumption == MaxMax \in Nat

Stages == {"build", "targeted-test", "full-test"}

(* What of a task the control flow depends on.                             *)
Plans == [task : Tasks, max : 1..MaxMax, targeted : BOOLEAN, repair : BOOLEAN]

Statuses == {"PASS", "FAIL", "GAVE_UP", "EXHAUSTED", "REPAIR_FAILED", "INVALID"}

VARIABLES
  profile,     \* the events of the memory profile, oldest first
  plan,        \* [Runs -> Plans]
  pc,          \* [Runs -> where the run is]
  context,     \* [Runs -> Seq(event)]: memory_context
  tree,        \* [Runs -> patches in the work tree]
  passed,      \* [Runs -> stages that passed on the tree as it is]
  observed,    \* [Runs -> whether a stage ran on the tree as it is]
  iteration,
  repairs,     \* repair_count
  applied,     \* candidate_applied
  status,      \* final_status
  result,      \* [Runs -> status in the result file, "none" before]
  existing     \* [Runs -> Seq(event)]: the profile as remember read it

treeVars == <<tree, passed, observed>>
loopVars == <<iteration, repairs, applied, status>>
vars == <<profile, plan, pc, context, treeVars, loopVars, result, existing>>

Init ==
  /\ profile = <<>>
  /\ plan \in [Runs -> Plans]
  /\ pc = [r \in Runs |-> "start"]
  /\ context = [r \in Runs |-> <<>>]
  /\ tree = [r \in Runs |-> {}]
  /\ passed = [r \in Runs |-> {}]
  /\ observed = [r \in Runs |-> FALSE]
  /\ iteration = [r \in Runs |-> 0]
  /\ repairs = [r \in Runs |-> 0]
  /\ applied = [r \in Runs |-> FALSE]
  /\ status = [r \in Runs |-> "FAIL"]
  /\ result = [r \in Runs |-> "none"]
  /\ existing = [r \in Runs |-> <<>>]

Goes(r, from, to) == pc[r] = from /\ pc' = [pc EXCEPT ![r] = to]

Concludes(r, s) == status' = [status EXCEPT ![r] = s]
-----------------------------------------------------------------------------
(* load_context: the newest three events of the task, newest first; an     *)
(* unreadable profile is an empty context.                                 *)
PlacesOf(task) == {i \in DOMAIN profile : profile[i].task = task}

Newest(task) ==
  {at \in UNION {[1..n -> PlacesOf(task)] : n \in 0..3} :
     /\ \A k, l \in DOMAIN at : k < l => at[k] > at[l]
     /\ \A i \in PlacesOf(task) \ Range(at) :
          Len(at) = 3 /\ \A k \in DOMAIN at : i < at[k]}

LoadContext(r) ==
  /\ Goes(r, "start", "evaluate")
  /\ \E at \in Newest(plan[r].task) :
       context' = [context EXCEPT ![r] = [k \in DOMAIN at |-> profile[at[k]]]]
  /\ UNCHANGED <<profile, plan, treeVars, loopVars, result, existing>>

LoadContextFails(r) ==
  /\ Goes(r, "start", "evaluate")
  /\ UNCHANGED <<profile, plan, context, treeVars, loopVars, result, existing>>

(* A task that is not valid gets a result, unless it cannot be written,    *)
(* and is not remembered.                                                  *)
WriteInvalidResult(r) ==
  /\ Goes(r, "start", "done")
  /\ Concludes(r, "INVALID")
  /\ result' = [result EXCEPT ![r] = "INVALID"] \/ UNCHANGED result
  /\ UNCHANGED <<profile, plan, context, treeVars, iteration, repairs, applied, existing>>

Evaluate(r) ==
  /\ Goes(r, "evaluate", "loop")
  /\ UNCHANGED <<profile, plan, context, treeVars, loopVars, result, existing>>

EvaluateFails(r) ==
  /\ Goes(r, "evaluate", "write")
  /\ Concludes(r, "INVALID")
  /\ UNCHANGED <<profile, plan, context, treeVars, iteration, repairs, applied, result, existing>>

(* Mutant: nothing follows a repair.                                       *)
AttemptFirst(r) ==
  /\ Goes(r, "loop", "candidate-apply")
  /\ ~applied[r]
  /\ iteration' = [iteration EXCEPT ![r] = @ + 1]
  /\ UNCHANGED <<profile, plan, context, treeVars, repairs, applied, status, result, existing>>

(* The head of the loop: a repaired candidate is not applied again.        *)
Attempt(r) ==
  /\ pc[r] = "loop"
  /\ IF iteration[r] < plan[r].max
     THEN /\ iteration' = [iteration EXCEPT ![r] = @ + 1]
          /\ pc' = [pc EXCEPT ![r] = IF applied[r] THEN "build" ELSE "candidate-apply"]
     ELSE pc' = [pc EXCEPT ![r] = "write"] /\ UNCHANGED iteration
  /\ UNCHANGED <<profile, plan, context, treeVars, repairs, applied, status, result, existing>>
-----------------------------------------------------------------------------
(* apply_patch.  A patch that changes the tree voids what passed before.   *)
Patches(r, patch) ==
  /\ tree' = [tree EXCEPT ![r] = @ \cup {patch}]
  /\ passed' = [passed EXCEPT ![r] = {}]
  /\ observed' = [observed EXCEPT ![r] = FALSE]

ApplyCandidate(r) ==
  /\ Goes(r, "candidate-apply", "build")
  /\ Patches(r, "candidate")
  /\ applied' = [applied EXCEPT ![r] = TRUE]
  /\ UNCHANGED <<profile, plan, context, iteration, repairs, status, result, existing>>

ApplyCandidateFails(r) ==
  /\ Goes(r, "candidate-apply", "write")
  /\ Patches(r, "candidate") \/ UNCHANGED treeVars
  /\ Concludes(r, "FAIL")
  /\ UNCHANGED <<profile, plan, context, iteration, repairs, applied, result, existing>>

(* Mutant: a repaired candidate goes on with the tests.                    *)
ApplyRepairResumes(r) ==
  /\ Goes(r, "repair-apply", "full-test")
  /\ Patches(r, "repair")
  /\ repairs' = [repairs EXCEPT ![r] = @ + 1]
  /\ UNCHANGED <<profile, plan, context, iteration, applied, status, result, existing>>

ApplyRepair(r) ==
  /\ Goes(r, "repair-apply", "loop")
  /\ Patches(r, "repair")
  /\ repairs' = [repairs EXCEPT ![r] = @ + 1]
  /\ UNCHANGED <<profile, plan, context, iteration, applied, status, result, existing>>

ApplyRepairFails(r) ==
  /\ Goes(r, "repair-apply", "write")
  /\ Patches(r, "repair") \/ UNCHANGED treeVars
  /\ Concludes(r, "REPAIR_FAILED")
  /\ UNCHANGED <<profile, plan, context, iteration, repairs, applied, result, existing>>

(* run_spec: build, the targeted test if the task has one, the full test.  *)
After(r, stage) ==
  CASE stage = "build" -> IF plan[r].targeted THEN "targeted-test" ELSE "full-test"
    [] stage = "targeted-test" -> "full-test"
    [] stage = "full-test" -> "write"

StagePasses(r, stage) ==
  /\ Goes(r, stage, After(r, stage))
  /\ passed' = [passed EXCEPT ![r] = @ \cup {stage}]
  /\ observed' = [observed EXCEPT ![r] = TRUE]
  /\ IF stage = "full-test" THEN Concludes(r, "PASS") ELSE UNCHANGED status
  /\ UNCHANGED <<profile, plan, context, tree, iteration, repairs, applied, result, existing>>

(* Mutant: a repair after the last attempt.                                *)
MayRepairLast(r) == repairs[r] = 0 /\ plan[r].repair

(* One repair, and only when an attempt is left to test it.                *)
MayRepair(r) == repairs[r] = 0 /\ plan[r].repair /\ iteration[r] < plan[r].max

StageFails(r, stage) ==
  /\ pc[r] = stage
  /\ observed' = [observed EXCEPT ![r] = TRUE]
  /\ IF MayRepair(r)
     THEN pc' = [pc EXCEPT ![r] = "repair-apply"] /\ UNCHANGED status
     ELSE /\ pc' = [pc EXCEPT ![r] = "write"]
          /\ Concludes(r, IF iteration[r] >= plan[r].max THEN "EXHAUSTED" ELSE "GAVE_UP")
  /\ UNCHANGED <<profile, plan, context, tree, passed, iteration, repairs, applied, result,
                 existing>>
-----------------------------------------------------------------------------
(* The result file, then remember: it reads the result back and the        *)
(* profile, and writes the profile whole.  Its failures are ignored.       *)
WriteResult(r) ==
  /\ Goes(r, "write", "remember")
  /\ result' = [result EXCEPT ![r] = status[r]]
  /\ UNCHANGED <<profile, plan, context, treeVars, loopVars, existing>>

WriteResultFails(r) ==
  /\ Goes(r, "write", "done")
  /\ UNCHANGED <<profile, plan, context, treeVars, loopVars, result, existing>>

Event(r) ==
  [run |-> r, task |-> plan[r].task, status |-> result[r],
   repaired |-> result[r] = "PASS" /\ repairs[r] > 0]

ReadProfile(r) ==
  /\ Goes(r, "remember", "record")
  /\ existing' \in {[existing EXCEPT ![r] = profile], [existing EXCEPT ![r] = <<>>]}
  /\ UNCHANGED <<profile, plan, context, treeVars, loopVars, result>>

(* Mutant: what was written is remembered again.                           *)
WriteProfileAgain(r) ==
  /\ Goes(r, "record", "remember")
  /\ profile' = Append(existing[r], Event(r))
  /\ UNCHANGED <<plan, context, treeVars, loopVars, result, existing>>

WriteProfile(r) ==
  /\ Goes(r, "record", "done")
  /\ profile' = Append(existing[r], Event(r))
  /\ UNCHANGED <<plan, context, treeVars, loopVars, result, existing>>

RememberFails(r) ==
  /\ Goes(r, "remember", "done") \/ Goes(r, "record", "done")
  /\ UNCHANGED <<profile, plan, context, treeVars, loopVars, result, existing>>
-----------------------------------------------------------------------------
Run(r) ==
  \/ LoadContext(r) \/ LoadContextFails(r) \/ WriteInvalidResult(r)
  \/ Evaluate(r) \/ EvaluateFails(r)
  \/ Attempt(r)
  \/ ApplyCandidate(r) \/ ApplyCandidateFails(r)
  \/ ApplyRepair(r) \/ ApplyRepairFails(r)
  \/ \E stage \in Stages : StagePasses(r, stage) \/ StageFails(r, stage)
  \/ WriteResult(r) \/ WriteResultFails(r)
  \/ ReadProfile(r) \/ WriteProfile(r) \/ RememberFails(r)

Next == \E r \in Runs : Run(r)

(* Each run is a process of its own, and every command it runs is cut off  *)
(* by the timeout of the task.                                             *)
Spec == Init /\ [][Next]_vars /\ \A r \in Runs : WF_vars(Run(r))
-----------------------------------------------------------------------------
Events == [run : Runs, task : Tasks, status : Statuses, repaired : BOOLEAN]

(* The values the runs' variables range over.                              *)
TypeOK ==
  /\ profile \in Seq(Events)
  /\ plan \in [Runs -> Plans]
  /\ pc \in [Runs -> {"start", "evaluate", "loop", "candidate-apply", "repair-apply", "write",
                      "remember", "record", "done"} \cup Stages]
  /\ context \in [Runs -> Seq(Events)]
  /\ tree \in [Runs -> SUBSET {"candidate", "repair"}]
  /\ passed \in [Runs -> SUBSET Stages]
  /\ observed \in [Runs -> BOOLEAN]
  /\ iteration \in [Runs -> 0..MaxMax]
  /\ repairs \in [Runs -> 0..1]
  /\ applied \in [Runs -> BOOLEAN]
  /\ status \in [Runs -> Statuses]
  /\ result \in [Runs -> Statuses \cup {"none"}]
  /\ existing \in [Runs -> Seq(Events)]

\* PASS is earned on the very tree the run leaves: every stage of the task passed
\* on it after the last patch, and the patches in it are the candidate and the
\* repair that is counted.
PassIsEarned ==
  \A r \in Runs : result[r] = "PASS" =>
    /\ passed[r] = IF plan[r].targeted THEN Stages ELSE Stages \ {"targeted-test"}
    /\ tree[r] = IF repairs[r] = 1 THEN {"candidate", "repair"} ELSE {"candidate"}

\* A verdict on the candidate is a verdict on the tree the run leaves: no patch is
\* applied and left untested, the repair on the last attempt least of all.
VerdictIsOfFinalTree ==
  \A r \in Runs : result[r] \notin {"none", "INVALID", "REPAIR_FAILED"} =>
    observed[r] \/ ~applied[r]

(* What a run reports was earned: a PASS by all of its stages, and any     *)
(* verdict by a look at the tree that the run leaves.                      *)
VerdictIsEarned == PassIsEarned /\ VerdictIsOfFinalTree

(* The memory holds nothing that did not happen: an event is the result of *)
(* its run, which wrote it once, whatever the other runs did to the file   *)
(* in between.                                                             *)
ProfileIsTruthful ==
  \A i \in DOMAIN profile :
    /\ profile[i] = Event(profile[i].run)
    /\ \A j \in DOMAIN profile : profile[j].run = profile[i].run => i = j

(* The profile is truthful, and what load_context gives a prompt from it   *)
(* happened, and happened to its own task.                                 *)
MemoryIsTruthful ==
  /\ ProfileIsTruthful
  /\ \A r \in Runs : \A i \in DOMAIN context[r] :
       context[r][i] = Event(context[r][i].run) /\ context[r][i].task = plan[r].task

(* Every run comes to its end.                                             *)
RunsFinish == \A r \in Runs : <>(pc[r] = "done")

(* src/failure_memory.align:8 says of the profile: updates remain append-  *)
(* only.  remember writes back what it had read, or nothing when the read  *)
(* failed, so an event of another run is lost.                             *)
ProfileIsAppendOnly == [][IsPrefix(profile, profile')]_profile
=============================================================================
