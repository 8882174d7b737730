---------------------------- MODULE HistoryProofs ----------------------------
(***************************************************************************)
(* What holds of the two histories that the tools keep in files and that   *)
(* no lock protects: the failure memory of any number of verification      *)
(* runs, and the line of activations of the prompts, whatever is copied,   *)
(* removed or torn; and of the documents of one measurement, which three   *)
(* programs have to agree about.                                           *)
(***************************************************************************)
EXTENDS VerificationLoop, PromptActivation, PromptMeasurement, FiniteSetTheorems, WellFoundedInduction, TLAPS

(***************************************************************************)
(* Any number of verification runs, of any tasks and limits, that share a  *)
(* failure memory: their verdicts were earned, and the memory tells of     *)
(* them what they concluded.                                               *)
(***************************************************************************)

Places == {"start", "evaluate", "loop", "candidate-apply", "repair-apply", "write",
           "remember", "record", "done"} \cup Stages

\* The variables that belong to the runs are functions of them.
Shape ==
  /\ plan \in [Runs -> Plans] /\ pc \in [Runs -> Places]
  /\ tree \in [Runs -> SUBSET {"candidate", "repair"}] /\ passed \in [Runs -> SUBSET Stages]
  /\ observed \in [Runs -> BOOLEAN] /\ applied \in [Runs -> BOOLEAN]
  /\ iteration \in [Runs -> Nat] /\ repairs \in [Runs -> {0, 1}]
  /\ status \in [Runs -> Statuses] /\ result \in [Runs -> Statuses \cup {"none"}]

\* What is in the tree of a candidate.
Whole(r) == IF repairs[r] = 1 THEN {"candidate", "repair"} ELSE {"candidate"}

\* Before the candidate is in the tree, nothing is, and nothing was tried.
Clean(r) ==
  tree[r] = {} /\ passed[r] = {} /\ ~applied[r] /\ repairs[r] = 0 /\ status[r] = "FAIL"

\* At each place of a run, what its verdict will rest on.
Before(r) ==
  /\ pc[r] \in {"start", "evaluate", "candidate-apply"} => Clean(r)
  /\ pc[r] \in {"start", "evaluate"} => iteration[r] = 0
  /\ pc[r] = "loop" =>
       /\ iteration[r] < plan[r].max
       /\ Clean(r) \/ (applied[r] /\ tree[r] = Whole(r) /\ passed[r] = {})
  /\ pc[r] = "repair-apply" =>
       applied[r] /\ repairs[r] = 0 /\ tree[r] = {"candidate"} /\ iteration[r] < plan[r].max
  /\ pc[r] \in Stages => applied[r] /\ tree[r] = Whole(r)
  /\ pc[r] = "build" => passed[r] = {}
  /\ pc[r] = "targeted-test" => plan[r].targeted /\ passed[r] = {"build"}
  /\ pc[r] = "full-test" =>
       passed[r] = IF plan[r].targeted THEN {"build", "targeted-test"} ELSE {"build"}

\* A status that was decided.
Earned(r) ==
  /\ status[r] = "PASS" =>
       /\ passed[r] = IF plan[r].targeted THEN Stages ELSE Stages \ {"targeted-test"}
       /\ tree[r] = Whole(r)
  /\ status[r] \notin {"INVALID", "REPAIR_FAILED"} => observed[r] \/ ~applied[r]

Ended(r) == pc[r] \in {"write", "remember", "record", "done"}

RunInv(r) ==
  /\ Before(r)
  /\ Ended(r) => Earned(r)
  /\ result[r] # "none" => result[r] = status[r] /\ pc[r] \in {"remember", "record", "done"}

RunsInv == Shape /\ \A r \in Runs : RunInv(r)

\* The variables a run has for itself.
Own(r) ==
  <<plan[r], pc[r], tree[r], passed[r], observed[r], iteration[r], repairs[r], applied[r],
    status[r], result[r]>>

LEMMA OthersAreLeft ==
  ASSUME Shape, NEW q \in Runs, Run(q), NEW r \in Runs \ {q}
  PROVE  UNCHANGED Own(r)
<1> USE DEF Shape, Own, Goes, Concludes, Patches, treeVars, loopVars
<1>1. CASE LoadContext(q) \/ LoadContextFails(q) \/ WriteInvalidResult(q) \/ Evaluate(q) \/ EvaluateFails(q) \/ Attempt(q)
  BY <1>1 DEF LoadContext, LoadContextFails, WriteInvalidResult, Evaluate, EvaluateFails, Attempt
<1>2. CASE ApplyCandidate(q) \/ ApplyCandidateFails(q) \/ ApplyRepair(q) \/ ApplyRepairFails(q)
  BY <1>2 DEF ApplyCandidate, ApplyCandidateFails, ApplyRepair, ApplyRepairFails
<1>3. CASE \E stage \in Stages : StagePasses(q, stage) \/ StageFails(q, stage)
  BY <1>3 DEF StagePasses, StageFails
<1>4. CASE WriteResult(q) \/ WriteResultFails(q) \/ ReadProfile(q) \/ WriteProfile(q) \/ RememberFails(q)
  BY <1>4 DEF WriteResult, WriteResultFails, ReadProfile, WriteProfile, RememberFails
<1> QED BY <1>1, <1>2, <1>3, <1>4 DEF Run

LEMMA UnchangedKeepsRun ==
  ASSUME NEW r \in Runs, RunInv(r), UNCHANGED Own(r)
  PROVE  RunInv(r)'
BY DEF Own, RunInv, Before, Ended, Earned, Clean, Whole

LEMMA RunsStart == Init => RunsInv
<1> SUFFICES ASSUME Init PROVE RunsInv
  OBVIOUS
<1>1. Shape
  BY DEF Init, Shape, Places, Statuses
<1>2. ASSUME NEW r \in Runs PROVE RunInv(r)
  BY DEF Init, RunInv, Before, Ended, Clean, Stages
<1> QED BY <1>1, <1>2 DEF RunsInv

LEMMA PatchesShape ==
  ASSUME Shape, NEW q \in Runs, NEW patch \in {"candidate", "repair"},
         Patches(q, patch) \/ UNCHANGED treeVars
  PROVE  /\ tree' \in [Runs -> SUBSET {"candidate", "repair"}]
         /\ passed' \in [Runs -> SUBSET Stages] /\ observed' \in [Runs -> BOOLEAN]
<1>1. tree[q] \cup {patch} \in SUBSET {"candidate", "repair"}
  BY DEF Shape
<1>2. CASE Patches(q, patch)
  BY <1>1, <1>2 DEF Patches, Shape
<1>3. CASE UNCHANGED treeVars
  BY <1>3 DEF treeVars, Shape
<1> QED BY <1>2, <1>3

LEMMA ShapeIsKept ==
  ASSUME RunsInv, NEW q \in Runs, Run(q)
  PROVE  Shape'
<1> USE DEF Shape, Goes, Concludes, loopVars, RunsInv
<1>1. CASE LoadContext(q) \/ LoadContextFails(q) \/ WriteInvalidResult(q) \/ Evaluate(q) \/ EvaluateFails(q) \/ Attempt(q)
  BY <1>1 DEF LoadContext, LoadContextFails, WriteInvalidResult, Evaluate, EvaluateFails, Attempt, treeVars, Places, Statuses, Stages
<1>2. CASE ApplyCandidate(q) \/ ApplyCandidateFails(q)
  BY <1>2, PatchesShape DEF ApplyCandidate, ApplyCandidateFails, Places, Statuses, Stages
<1>3. CASE ApplyRepair(q) \/ ApplyRepairFails(q)
  <2>1. repairs[q] = 0
    BY <1>3 DEF ApplyRepair, ApplyRepairFails, RunInv, Before
  <2> QED BY <1>3, <2>1, PatchesShape DEF ApplyRepair, ApplyRepairFails, Places, Statuses, Stages
<1>4. ASSUME NEW stage \in Stages, StagePasses(q, stage) PROVE Shape'
  BY <1>4 DEF StagePasses, After, Places, Statuses, Stages
<1>5. ASSUME NEW stage \in Stages, StageFails(q, stage) PROVE Shape'
  BY <1>5 DEF StageFails, Places, Statuses, Stages
<1>6. CASE WriteResult(q) \/ WriteResultFails(q) \/ ReadProfile(q) \/ WriteProfile(q) \/ RememberFails(q)
  BY <1>6 DEF WriteResult, WriteResultFails, ReadProfile, WriteProfile, RememberFails,
               treeVars, Places
<1> QED BY <1>1, <1>2, <1>3, <1>4, <1>5, <1>6 DEF Run

\* One step for each action of the run.
LEMMA RunIsKept ==
  ASSUME RunsInv, NEW r \in Runs, Run(r)
  PROVE  RunInv(r)'
<1> USE DEF Shape, Goes, Concludes, Patches, treeVars, loopVars, RunsInv,
            RunInv, Before, Ended, Earned, Clean, Whole, Stages
<1>1. CASE LoadContext(r) \/ LoadContextFails(r)
  BY <1>1 DEF LoadContext, LoadContextFails
<1>2. CASE WriteInvalidResult(r)
  BY <1>2 DEF WriteInvalidResult
<1>3. CASE Evaluate(r)
  <2>1. plan[r].max \in Nat /\ plan[r].max > 0
    BY LoopAssumption DEF Plans
  <2> QED BY <1>3, <2>1 DEF Evaluate
<1>4. CASE EvaluateFails(r)
  BY <1>4 DEF EvaluateFails
<1>5. CASE Attempt(r)
  BY <1>5 DEF Attempt
<1>6. CASE ApplyCandidate(r)
  <2>1. tree'[r] = {"candidate"} /\ passed'[r] = {} /\ applied'[r] /\ repairs'[r] = 0
    BY <1>6 DEF ApplyCandidate
  <2>2. pc'[r] = "build" /\ result'[r] = "none"
    BY <1>6 DEF ApplyCandidate
  <2> QED BY <2>1, <2>2
<1>13. CASE ApplyCandidateFails(r)
  <2>1. pc'[r] = "write" /\ status'[r] = "FAIL" /\ ~applied'[r] /\ result'[r] = "none"
    BY <1>13 DEF ApplyCandidateFails
  <2> QED BY <2>1
<1>7. CASE ApplyRepair(r)
  BY <1>7 DEF ApplyRepair
<1>8. CASE ApplyRepairFails(r)
  BY <1>8 DEF ApplyRepairFails
<1>9. ASSUME NEW stage \in Stages, StagePasses(r, stage) PROVE RunInv(r)'
  <2>1. CASE stage = "build"
    BY <1>9, <2>1 DEF StagePasses, After
  <2>2. CASE stage = "targeted-test"
    BY <1>9, <2>2 DEF StagePasses, After
  <2>3. CASE stage = "full-test"
    BY <1>9, <2>3 DEF StagePasses, After
  <2> QED BY <2>1, <2>2, <2>3
<1>10. ASSUME NEW stage \in Stages, StageFails(r, stage) PROVE RunInv(r)'
  <2>1. /\ applied'[r] /\ tree'[r] = Whole(r) /\ repairs'[r] = repairs[r] /\ result'[r] = "none"
        /\ observed'[r] /\ iteration' = iteration /\ plan' = plan
    BY <1>10 DEF StageFails
  <2>2. CASE MayRepair(r)
    BY <1>10, <2>1, <2>2 DEF StageFails, MayRepair
  <2>3. CASE ~MayRepair(r)
    <3>1. pc'[r] = "write" /\ status'[r] \in {"EXHAUSTED", "GAVE_UP"}
      BY <1>10, <2>3 DEF StageFails
    <3> QED BY <2>1, <3>1
  <2> QED BY <2>2, <2>3
<1>11. CASE WriteResult(r) \/ WriteResultFails(r)
  <2>1. pc[r] = "write" /\ pc'[r] \in {"remember", "done"}
    BY <1>11 DEF WriteResult, WriteResultFails
  <2>2. result'[r] \in {status[r], "none"} /\ UNCHANGED <<plan, treeVars, loopVars>>
    BY <1>11, <2>1 DEF WriteResult, WriteResultFails
  <2>3. Earned(r)'
    BY <2>1, <2>2
  <2> QED BY <2>1, <2>2, <2>3
<1>12. CASE ReadProfile(r) \/ WriteProfile(r) \/ RememberFails(r)
  <2>1. pc[r] \in {"remember", "record"} /\ pc'[r] \in {"record", "done"}
    BY <1>12 DEF ReadProfile, WriteProfile, RememberFails
  <2>2. UNCHANGED <<plan, treeVars, loopVars, result>>
    BY <1>12 DEF ReadProfile, WriteProfile, RememberFails
  <2>3. Earned(r)'
    BY <2>1, <2>2
  <2> QED BY <2>1, <2>2, <2>3
<1> QED BY <1>1, <1>2, <1>3, <1>4, <1>5, <1>6, <1>7, <1>8, <1>9, <1>10, <1>11, <1>12, <1>13 DEF Run

LEMMA RunsGoOn == RunsInv /\ [Next]_vars => RunsInv'
<1> SUFFICES ASSUME RunsInv, [Next]_vars PROVE RunsInv'
  OBVIOUS
<1>1. ASSUME NEW q \in Runs, Run(q) PROVE RunsInv'
  <2>1. ASSUME NEW r \in Runs PROVE RunInv(r)'
    <3>1. CASE r = q
      BY <3>1, <1>1, RunIsKept
    <3>2. CASE r # q
      BY <3>2, <1>1, OthersAreLeft, UnchangedKeepsRun DEF RunsInv
    <3> QED BY <3>1, <3>2
  <2> QED BY <2>1, <1>1, ShapeIsKept DEF RunsInv
<1>2. CASE UNCHANGED vars
  <2>1. \A r \in Runs : UNCHANGED Own(r)
    BY <1>2 DEF vars, treeVars, loopVars, Own
  <2> QED BY <2>1, <1>2, UnchangedKeepsRun DEF RunsInv, Shape, vars, treeVars, loopVars
<1> QED BY <1>1, <1>2 DEF Next

LEMMA RunsAlways == Spec => []RunsInv
BY RunsStart, RunsGoOn, PTL DEF Spec

(* Whatever stages fail, commands time out and repairs are tried, a PASS   *)
(* was earned by every stage on the tree that is left, and a verdict on    *)
(* the candidate rests on a look at that tree (run_valid_file).            *)
THEOREM VerdictIsAlwaysEarned == Spec => []VerdictIsEarned
<1>1. RunsInv => VerdictIsEarned
  BY DEF RunsInv, RunInv, Ended, Earned, Whole, VerdictIsEarned, PassIsEarned,
         VerdictIsOfFinalTree
<1> QED BY <1>1, RunsAlways, PTL
-----------------------------------------------------------------------------
(* The memory.                                                             *)

\* An event is written by a run that then takes no further step, so that what it
\* tells stays so: events hold where the runs are `at` and would tell `told`.
Kept == [run : Runs, task : Tasks, status : Statuses \cup {"none"}, repaired : BOOLEAN]
Holds(events, at, told) ==
  /\ events \in Seq(Kept)
  /\ \A i \in 1..Len(events) :
       /\ events[i] = told[events[i].run] /\ at[events[i].run] = "done"
       /\ \A j \in 1..Len(events) : events[j].run = events[i].run => i = j

Told == [r \in Runs |-> Event(r)]

MemoryInv ==
  /\ Holds(profile, pc, Told)
  /\ DOMAIN existing = Runs /\ \A r \in Runs : Holds(existing[r], pc, Told)

LEMMA HoldsStays ==
  ASSUME NEW events, NEW at, NEW told, NEW at2, NEW told2, Holds(events, at, told),
         \A r \in Runs : at[r] = "done" => at2[r] = "done" /\ told2[r] = told[r]
  PROVE  Holds(events, at2, told2)
<1>1. ASSUME NEW i \in 1..Len(events) PROVE events[i].run \in Runs
  <2>1. events[i] \in Kept
    BY DEF Holds
  <2> QED BY <2>1 DEF Kept
<1> QED BY <1>1 DEF Holds

LEMMA HoldsAppended ==
  ASSUME NEW events, NEW at, NEW told, Holds(events, at, told), NEW r \in Runs,
         told[r] \in Kept, told[r].run = r, at[r] = "done",
         \A i \in 1..Len(events) : events[i].run # r
  PROVE  Holds(Append(events, told[r]), at, told)
<1> DEFINE longer == Append(events, told[r])
<1>1. events \in Seq(Kept) /\ Len(events) \in Nat
  BY DEF Holds
<1>2. /\ longer \in Seq(Kept) /\ Len(longer) = Len(events) + 1
      /\ \A i \in 1..Len(events) : longer[i] = events[i]
      /\ longer[Len(events) + 1] = told[r]
  BY <1>1
<1>3. ASSUME NEW i \in 1..Len(longer)
      PROVE  /\ longer[i] = told[longer[i].run] /\ at[longer[i].run] = "done"
             /\ \A j \in 1..Len(longer) : longer[j].run = longer[i].run => i = j
  <2>1. CASE i \in 1..Len(events)
    BY <2>1, <1>1, <1>2 DEF Holds
  <2>2. CASE i = Len(events) + 1
    BY <2>2, <1>1, <1>2 DEF Holds
  <2> QED BY <2>1, <2>2, <1>1, <1>2
<1> QED BY <1>2, <1>3 DEF Holds

\* A run that is done tells the same for ever.
LEMMA DoneStays ==
  ASSUME Shape, NEW q \in Runs, Run(q), NEW r \in Runs, pc[r] = "done"
  PROVE  pc'[r] = "done" /\ Told'[r] = Told[r]
<1>1. r # q
  BY DEF Run, LoadContext, LoadContextFails, WriteInvalidResult, Evaluate, EvaluateFails,
         Attempt, ApplyCandidate, ApplyCandidateFails, ApplyRepair, ApplyRepairFails,
         StagePasses, StageFails, WriteResult, WriteResultFails, ReadProfile, WriteProfile,
         RememberFails, Goes, Stages
<1>2. UNCHANGED Own(r)
  BY <1>1, OthersAreLeft
<1> QED BY <1>2 DEF Own, Told, Event

LEMMA MemoryStarts == Init => MemoryInv
<1> SUFFICES ASSUME Init PROVE MemoryInv
  OBVIOUS
<1>1. Holds(<<>>, pc, Told)
  BY DEF Holds
<1> QED BY <1>1 DEF Init, MemoryInv

LEMMA MemoryIsKept ==
  ASSUME MemoryInv, Shape, NEW q \in Runs, Run(q)
  PROVE  MemoryInv'
<1>1. \A r \in Runs : pc[r] = "done" => pc'[r] = "done" /\ Told'[r] = Told[r]
  BY DoneStays
<1>2. /\ Holds(profile, pc', Told') /\ \A r \in Runs : Holds(existing[r], pc', Told')
      /\ DOMAIN existing = Runs
  BY <1>1, HoldsStays DEF MemoryInv
<1>3. CASE UNCHANGED <<profile, existing>>
  BY <1>2, <1>3 DEF MemoryInv
<1>4. CASE ReadProfile(q)
  <2>1. Holds(<<>>, pc', Told')
    BY DEF Holds
  <2>2. DOMAIN existing' = Runs
    BY <1>2, <1>4 DEF ReadProfile
  <2>3. ASSUME NEW r \in Runs PROVE existing'[r] \in {existing[r], profile, <<>>}
    BY <1>2, <1>4 DEF ReadProfile
  <2>4. profile' = profile
    BY <1>4 DEF ReadProfile
  <2> QED BY <1>2, <2>1, <2>2, <2>3, <2>4 DEF MemoryInv
<1>5. CASE WriteProfile(q)
  <2>1. /\ pc[q] = "record" /\ pc'[q] = "done" /\ profile' = Append(existing[q], Event(q))
        /\ UNCHANGED <<plan, result, repairs, existing>>
    BY <1>5 DEF WriteProfile, Goes, loopVars, Shape
  <2>2. Told'[q] = Event(q) /\ Event(q) \in Kept /\ Event(q).run = q
    BY <2>1 DEF Told, Event, Shape, Plans, Kept
  <2>3. \A i \in 1..Len(existing[q]) : existing[q][i].run # q
    BY <2>1 DEF MemoryInv, Holds
  <2>4. Holds(Append(existing[q], Told'[q]), pc', Told')
    BY <1>2, <2>1, <2>2, <2>3, HoldsAppended
  <2> QED BY <1>2, <2>1, <2>2, <2>4 DEF MemoryInv
<1>6. CASE ~ReadProfile(q) /\ ~WriteProfile(q)
  <2>1. UNCHANGED <<profile, existing>>
    BY <1>6 DEF Run, LoadContext, LoadContextFails, WriteInvalidResult, Evaluate, EvaluateFails,
                Attempt, ApplyCandidate, ApplyCandidateFails, ApplyRepair, ApplyRepairFails,
                StagePasses, StageFails, WriteResult, WriteResultFails, RememberFails
  <2> QED BY <2>1, <1>3
<1> QED BY <1>4, <1>5, <1>6

LEMMA MemoryAlways == Spec => []MemoryInv
<1>1. Shape /\ MemoryInv /\ UNCHANGED vars => MemoryInv'
  BY DEF vars, treeVars, loopVars, MemoryInv, Told, Event
<1>2. RunsInv /\ MemoryInv /\ [Next]_vars => MemoryInv'
  BY <1>1, MemoryIsKept DEF Next, RunsInv
<1> QED BY <1>2, MemoryStarts, RunsAlways, PTL DEF Spec

-----------------------------------------------------------------------------
(* The contexts.                                                           *)

\* What a run was told of: events of its own task, of runs that are done and would
\* still tell the same.
ToldOf(event, work, at, told) ==
  event \in Kept /\ event = told[event.run] /\ at[event.run] = "done" /\ event.task = work

Contexts(ctx, at, told) ==
  /\ DOMAIN ctx = Runs
  /\ \A r \in Runs : \A i \in DOMAIN ctx[r] : ToldOf(ctx[r][i], plan[r].task, at, told)

ContextsInv == Contexts(context, pc, Told)

LEMMA ContextsStay ==
  ASSUME NEW at, NEW told, NEW at2, NEW told2, Contexts(context, at, told),
         \A r \in Runs : at[r] = "done" => at2[r] = "done" /\ told2[r] = told[r]
  PROVE  Contexts(context, at2, told2)
BY DEF Contexts, ToldOf, Kept

\* The places that load_context takes are places of events of the task.
LEMMA NewestAreOfTheTask ==
  ASSUME NEW work, NEW at \in Newest(work), NEW k \in DOMAIN at
  PROVE  at[k] \in DOMAIN profile /\ profile[at[k]].task = work
<1>1. PICK n \in 0..3 : at \in [1..n -> PlacesOf(work)]
  BY DEF Newest
<1>2. at[k] \in PlacesOf(work)
  BY <1>1
<1> QED BY <1>2 DEF PlacesOf

LEMMA ContextsAreKept ==
  ASSUME MemoryInv, ContextsInv, Shape, NEW q \in Runs, Run(q)
  PROVE  ContextsInv'
<1>1. \A r \in Runs : pc[r] = "done" => pc'[r] = "done" /\ Told'[r] = Told[r]
  BY DoneStays
<1>2. Contexts(context, pc', Told')
  BY <1>1, ContextsStay DEF ContextsInv
<1>3. plan' = plan
  BY DEF Run, LoadContext, LoadContextFails, WriteInvalidResult, Evaluate, EvaluateFails,
         Attempt, ApplyCandidate, ApplyCandidateFails, ApplyRepair, ApplyRepairFails,
         StagePasses, StageFails, WriteResult, WriteResultFails, ReadProfile, WriteProfile,
         RememberFails
<1>4. CASE LoadContext(q)
  <2>1. PICK at \in Newest(plan[q].task) :
          context' = [context EXCEPT ![q] = [k \in DOMAIN at |-> profile[at[k]]]]
    BY <1>4 DEF LoadContext
  <2>2. Holds(profile, pc', Told')
    BY <1>1, HoldsStays DEF MemoryInv
  <2>3. profile \in Seq(Kept) /\ DOMAIN profile = 1..Len(profile)
    BY <2>2 DEF Holds
  <2>4. ASSUME NEW k \in DOMAIN at PROVE ToldOf(profile[at[k]], plan[q].task, pc', Told')
    <3>1. at[k] \in DOMAIN profile /\ profile[at[k]].task = plan[q].task
      BY NewestAreOfTheTask
    <3>2. /\ profile[at[k]] \in Kept /\ profile[at[k]] = Told'[profile[at[k]].run]
          /\ pc'[profile[at[k]].run] = "done"
      BY <3>1, <2>2, <2>3 DEF Holds
    <3> QED BY <3>1, <3>2 DEF ToldOf
  <2>5. DOMAIN context' = Runs
    BY <2>1, <1>2 DEF Contexts
  <2>6. ASSUME NEW r \in Runs, NEW i \in DOMAIN context'[r]
        PROVE  ToldOf(context'[r][i], plan[r].task, pc', Told')
    <3>1. CASE r = q
      <4>1. context'[q] = [k \in DOMAIN at |-> profile[at[k]]]
        BY <2>1, <1>2 DEF Contexts
      <4> QED BY <4>1, <3>1, <2>4
    <3>2. CASE r # q
      <4>1. context'[r] = context[r]
        BY <2>1, <3>2, <1>2 DEF Contexts
      <4> QED BY <4>1, <1>2 DEF Contexts
    <3> QED BY <3>1, <3>2
  <2> QED BY <2>5, <2>6, <1>3 DEF ContextsInv, Contexts
<1>5. CASE ~LoadContext(q)
  <2>1. context' = context
    BY <1>5 DEF Run, LoadContextFails, WriteInvalidResult, Evaluate, EvaluateFails, Attempt,
                ApplyCandidate, ApplyCandidateFails, ApplyRepair, ApplyRepairFails,
                StagePasses, StageFails, WriteResult, WriteResultFails, ReadProfile,
                WriteProfile, RememberFails
  <2> QED BY <2>1, <1>2, <1>3 DEF ContextsInv, Contexts
<1> QED BY <1>4, <1>5

LEMMA ContextsAlways == Spec => []ContextsInv
<1>1. Init => ContextsInv
  BY DEF Init, ContextsInv, Contexts
<1>2. ContextsInv /\ UNCHANGED vars => ContextsInv'
  BY DEF vars, treeVars, loopVars, ContextsInv, Contexts, Told, Event
<1>3. RunsInv /\ MemoryInv /\ ContextsInv /\ [Next]_vars => ContextsInv'
  BY <1>2, ContextsAreKept DEF Next, RunsInv
<1> QED BY <1>1, <1>3, RunsAlways, MemoryAlways, PTL DEF Spec

(* However many runs share the profile, and however their reads, failed    *)
(* reads and writes of the whole file are interleaved, each event in it is *)
(* the result of its run, in it once (remember), and what a run is given   *)
(* of it (load_context) happened, in a run of its own task.                *)
THEOREM MemoryIsAlwaysTruthful == Spec => []MemoryIsTruthful
<1>1. MemoryInv => ProfileIsTruthful
  <2> SUFFICES ASSUME MemoryInv PROVE ProfileIsTruthful
    OBVIOUS
  <2>1. /\ profile \in Seq(Kept) /\ DOMAIN profile = 1..Len(profile)
        /\ \A i \in 1..Len(profile) :
             /\ profile[i] = Told[profile[i].run]
             /\ \A j \in 1..Len(profile) : profile[j].run = profile[i].run => i = j
    BY DEF MemoryInv, Holds
  <2>2. ASSUME NEW i \in 1..Len(profile) PROVE Told[profile[i].run] = Event(profile[i].run)
    <3>1. profile[i] \in Kept
      BY <2>1
    <3> QED BY <3>1 DEF Kept, Told
  <2> QED BY <2>1, <2>2 DEF ProfileIsTruthful
<1>2. ContextsInv => \A r \in Runs : \A i \in DOMAIN context[r] :
        context[r][i] = Event(context[r][i].run) /\ context[r][i].task = plan[r].task
  <2> SUFFICES ASSUME ContextsInv, NEW r \in Runs, NEW i \in DOMAIN context[r]
               PROVE  /\ context[r][i] = Event(context[r][i].run)
                      /\ context[r][i].task = plan[r].task
    OBVIOUS
  <2>1. ToldOf(context[r][i], plan[r].task, pc, Told)
    BY DEF ContextsInv, Contexts
  <2>2. context[r][i].run \in Runs
    BY <2>1 DEF ToldOf, Kept
  <2> QED BY <2>1, <2>2 DEF ToldOf, Told
<1> QED BY <1>1, <1>2, MemoryAlways, ContextsAlways, PTL DEF MemoryIsTruthful

-----------------------------------------------------------------------------
(***************************************************************************)
(* Every history of activations, however many paths, ids, variants and     *)
(* scopes there are and however often files are moved.                     *)
(***************************************************************************)

\* What is needed beside it: digests are of contents that exist.
DigestsExist ==
  /\ \A p \in Paths : Selectable(p) => files[p].digest \in 1..Len(written)
  /\ \A n \in 1..Len(written) :
       /\ written[n].parent # 0 => written[n].parent \in 1..Len(written)
       /\ written[n].evaluation # 0 => written[n].evaluation \in 1..Len(measured)
  /\ \A n \in 1..Len(measured) : measured[n].parent \in 1..Len(written)

LineageInv == LineageTypeOK /\ DigestsExist /\ DecisionsAreSound

\* What a command must know of a content before it writes it.
Sound(a) ==
  /\ a.parent # 0 =>
       /\ a.parent \in 1..Len(written)
       /\ a.scope = written[a.parent].scope /\ a.variant # written[a.parent].variant
  /\ a.evaluation # 0 =>
       /\ a.evaluation \in 1..Len(measured)
       /\ measured[a.evaluation].improved /\ measured[a.evaluation].candidate = a.variant

\* What is written is kept, and only a content that is new is added.
LEMMA RetainsWrites ==
  ASSUME LineageInv, NEW p \in Paths, NEW a \in Contents, Retains(p, a)
  PROVE  /\ written' \in Seq(Contents) /\ Len(written') \in Nat
         /\ Len(written') >= Len(written) /\ DOMAIN written' = 1..Len(written')
         /\ \A n \in 1..Len(written) : written'[n] = written[n]
         /\ \A n \in 1..Len(written') : n \in 1..Len(written) \/ written'[n] = a
         /\ \E digest \in 1..Len(written') :
              digest <= Decisions /\ files' = [files EXCEPT ![p] = File("ACTIVATION", digest)]
<1> DEFINE same == {n \in DOMAIN written : written[n] = a}
           digest == IF same = {} THEN Len(written) + 1 ELSE CHOOSE n \in same : TRUE
<1>1. /\ written \in Seq(Contents) /\ DOMAIN written = 1..Len(written) /\ Len(written) \in Nat
  BY DEF LineageInv, LineageTypeOK
<1>2. /\ digest <= Decisions
      /\ written' = IF same = {} THEN Append(written, a) ELSE written
      /\ files' = [files EXCEPT ![p] = File("ACTIVATION", digest)]
  BY DEF Retains
<1>3. CASE same = {}
  <2>1. written' = Append(written, a) /\ digest = Len(written) + 1
    BY <1>3, <1>2
  <2>2. /\ Len(written') = Len(written) + 1
        /\ \A n \in 1..Len(written) : written'[n] = written[n]
        /\ written'[Len(written) + 1] = a
        /\ written' \in Seq(Contents)
    BY <2>1, <1>1
  <2>3. digest \in 1..Len(written')
    BY <2>1, <2>2, <1>1
  <2>4. files' = [files EXCEPT ![p] = File("ACTIVATION", digest)] /\ digest <= Decisions
    BY <1>2
  <2> HIDE DEF digest, same
  <2>5. \E d \in 1..Len(written') :
          d <= Decisions /\ files' = [files EXCEPT ![p] = File("ACTIVATION", d)]
    BY <2>3, <2>4, Zenon
  <2>6. /\ Len(written') \in Nat /\ Len(written') >= Len(written)
        /\ DOMAIN written' = 1..Len(written')
        /\ \A n \in 1..Len(written') : n \in 1..Len(written) \/ written'[n] = a
    BY <2>2, <1>1
  <2> QED BY <2>2, <2>5, <2>6
<1>4. CASE same # {}
  <2>1. written' = written /\ digest \in same
    BY <1>4, <1>2
  <2>2. digest \in 1..Len(written')
    BY <2>1, <1>1
  <2>3. files' = [files EXCEPT ![p] = File("ACTIVATION", digest)] /\ digest <= Decisions
    BY <1>2
  <2> HIDE DEF digest, same
  <2>4. \E d \in 1..Len(written') :
          d <= Decisions /\ files' = [files EXCEPT ![p] = File("ACTIVATION", d)]
    BY <2>2, <2>3, Zenon
  <2>5. /\ written' \in Seq(Contents) /\ Len(written') \in Nat
        /\ Len(written') >= Len(written) /\ DOMAIN written' = 1..Len(written')
        /\ \A n \in 1..Len(written) : written'[n] = written[n]
        /\ \A n \in 1..Len(written') : n \in 1..Len(written) \/ written'[n] = a
    BY <2>1, <1>1
  <2> QED BY <2>4, <2>5
<1> QED BY <1>3, <1>4

\* Writing a sound content to a path keeps the invariant.
LEMMA RetainsKeeps ==
  ASSUME LineageInv, NEW p \in Paths, NEW a \in Contents, Sound(a),
         Retains(p, a), UNCHANGED measured, mishaps' \in 0..Mishaps
  PROVE  LineageInv'
<1>1. /\ written \in Seq(Contents) /\ measured \in Seq(Measurements)
      /\ DOMAIN written = 1..Len(written) /\ DOMAIN measured = 1..Len(measured)
      /\ Len(written) \in Nat /\ Len(measured) \in Nat /\ Len(measured) <= Evaluations
  BY DEF LineageInv, LineageTypeOK
<1>2. PICK digest \in 1..Len(written') :
        digest <= Decisions /\ files' = [files EXCEPT ![p] = File("ACTIVATION", digest)]
  BY RetainsWrites
<1>3. /\ written' \in Seq(Contents) /\ Len(written') \in Nat
      /\ Len(written') >= Len(written) /\ DOMAIN written' = 1..Len(written')
      /\ \A n \in 1..Len(written) : written'[n] = written[n]
      /\ \A n \in 1..Len(written') : n \in 1..Len(written) \/ written'[n] = a
  BY RetainsWrites
<1>4. LineageTypeOK'
  <2>1. File("ACTIVATION", digest) \in [is : {"ABSENT", "TORN", "FAILURE", "ACTIVATION"}, digest : Digests]
    <3>1. digest \in Digests BY <1>2, <1>3 DEF Digests
    <3> QED BY <3>1 DEF File
  <2>2. files' \in [Paths -> [is : {"ABSENT", "TORN", "FAILURE", "ACTIVATION"}, digest : Digests]]
    BY <2>1, <1>2 DEF LineageInv, LineageTypeOK
  <2> QED BY <2>2, <1>3, <1>1 DEF LineageTypeOK
<1>5. DigestsExist'
  <2>1. ASSUME NEW q \in Paths, Selectable(q)' PROVE (files[q].digest \in 1..Len(written))'
    <3>1. CASE q = p
      <4>1. files'[q] = File("ACTIVATION", digest)
        BY <3>1, <1>2 DEF LineageInv, LineageTypeOK
      <4> QED BY <4>1, <1>3 DEF File
    <3>2. CASE q # p
      <4>1. files'[q] = files[q]
        BY <3>2, <1>2 DEF LineageInv, LineageTypeOK
      <4>2. files[q].digest \in 1..Len(written)
        BY <4>1, <2>1 DEF LineageInv, DigestsExist, Selectable
      <4> QED BY <4>1, <4>2, <1>3
    <3> QED BY <3>1, <3>2
  <2>2. ASSUME NEW n \in 1..Len(written')
        PROVE  /\ written'[n].parent # 0 => written'[n].parent \in 1..Len(written')
               /\ written'[n].evaluation # 0 => written'[n].evaluation \in 1..Len(measured)
    <3>1. CASE n \in 1..Len(written)
      BY <3>1, <1>3 DEF LineageInv, DigestsExist
    <3>2. CASE written'[n] = a
      BY <3>2, <1>3 DEF Sound
    <3> QED BY <3>1, <3>2, <1>3
  <2>3. \A n \in 1..Len(measured) : measured[n].parent \in 1..Len(written')
    BY <1>3 DEF LineageInv, DigestsExist
  <2> QED BY <2>1, <2>2, <2>3 DEF DigestsExist
<1>6. DecisionsAreSound'
  <2> SUFFICES ASSUME NEW n \in 1..Len(written')
               PROVE  /\ written'[n].parent # 0 =>
                           /\ written'[n].scope = written'[written'[n].parent].scope
                           /\ written'[n].variant # written'[written'[n].parent].variant
                      /\ written'[n].evaluation # 0 =>
                           /\ measured[written'[n].evaluation].improved
                           /\ measured[written'[n].evaluation].candidate = written'[n].variant
    BY <1>3 DEF DecisionsAreSound
  <2>1. CASE n \in 1..Len(written)
    <3>1. /\ written[n].parent # 0 =>
                /\ written[n].parent \in 1..Len(written)
                /\ written[n].scope = written[written[n].parent].scope
                /\ written[n].variant # written[written[n].parent].variant
          /\ written[n].evaluation # 0 =>
                /\ measured[written[n].evaluation].improved
                /\ measured[written[n].evaluation].candidate = written[n].variant
      BY <2>1, <1>1 DEF LineageInv, DigestsExist, DecisionsAreSound
    <3>2. written'[n] = written[n]
      BY <2>1, <1>3
    <3>3. written[n].parent # 0 => written'[written[n].parent] = written[written[n].parent]
      BY <3>1, <1>3
    <3> QED BY <3>1, <3>2, <3>3
  <2>2. CASE written'[n] = a
    <3>1. a.parent # 0 => written'[a.parent] = written[a.parent]
      BY <1>3 DEF Sound
    <3> QED BY <2>2, <3>1 DEF Sound
  <2> QED BY <2>1, <2>2, <1>3
<1> QED BY <1>4, <1>5, <1>6 DEF LineageInv

\* A mishap puts nothing at a path that was not somewhere before.
LEMMA MishapKeeps ==
  ASSUME LineageInv, NEW p \in Paths, NEW content, Mishap(p, content), UNCHANGED measured,
         content \in {Absent, Torn, File("FAILURE", 0)} \cup {files[q] : q \in Paths}
  PROVE  LineageInv'
<1>1. /\ files' = [files EXCEPT ![p] = content] /\ UNCHANGED written
      /\ mishaps' \in 0..Mishaps
  BY LineageAssumption DEF Mishap, LineageInv, LineageTypeOK
<1>2. content \in [is : {"ABSENT", "TORN", "FAILURE", "ACTIVATION"}, digest : Digests]
  <2>1. 0 \in Digests BY LineageAssumption DEF Digests
  <2> QED BY <2>1 DEF LineageInv, LineageTypeOK, Absent, Torn, File
<1>3. LineageTypeOK'
  BY <1>1, <1>2 DEF LineageInv, LineageTypeOK
<1>4. ASSUME NEW q \in Paths, Selectable(q)' PROVE files'[q].digest \in 1..Len(written)
  <2>1. CASE q = p
    <3>1. files'[q] = content
      BY <2>1, <1>1 DEF LineageInv, LineageTypeOK
    <3>2. PICK x \in Paths : content = files[x]
      BY <3>1, <1>4 DEF Selectable, Absent, Torn, File
    <3> QED BY <3>1, <3>2, <1>4 DEF LineageInv, DigestsExist, Selectable
  <2>2. CASE q # p
    <3>1. files'[q] = files[q]
      BY <2>2, <1>1 DEF LineageInv, LineageTypeOK
    <3> QED BY <3>1, <1>4 DEF LineageInv, DigestsExist, Selectable
  <2> QED BY <2>1, <2>2
<1>5. DigestsExist'
  BY <1>1, <1>4 DEF LineageInv, DigestsExist
<1>6. DecisionsAreSound'
  BY <1>1 DEF LineageInv, DecisionsAreSound
<1> QED BY <1>3, <1>5, <1>6 DEF LineageInv

\* What can be selected is a content.
LEMMA SelectedIsContent ==
  ASSUME LineageInv, NEW p \in Paths, Selectable(p)
  PROVE  /\ files[p].digest \in 1..Len(written) /\ At(p) \in Contents /\ Sound(At(p))
         /\ files[p].digest \in Digests \ {0}
<1>1. files[p].digest \in 1..Len(written) /\ files[p].digest \in Digests
  BY DEF LineageInv, LineageTypeOK, DigestsExist
<1>2. written[files[p].digest] \in Contents /\ DOMAIN written = 1..Len(written)
  BY <1>1 DEF LineageInv, LineageTypeOK
<1>3. Sound(written[files[p].digest])
  BY <1>1, <1>2 DEF LineageInv, DigestsExist, DecisionsAreSound, Sound
<1> QED BY <1>1, <1>2, <1>3 DEF At

\* A rollback that succeeds selects two activations with different variants.
LEMMA RolledBackSelects ==
  ASSUME NEW current \in Paths, NEW target \in Paths, NEW between \in Between(Paths),
         NEW reason \in BOOLEAN,
         RollbackStatus(current, between, target, reason) = "ROLLED_BACK"
  PROVE  /\ Selectable(current) /\ Selectable(target)
         /\ At(target).variant # At(current).variant
<1> DEFINE line == <<current>> \o between
           all == line \o <<target>>
<1>1. between \in Seq(Paths)
  BY DEF Between
<1>2. /\ all \in Seq(Paths) /\ Len(all) = Len(between) + 2
      /\ all[1] = current /\ all[Len(all)] = target
      /\ Len(between) \in Nat
  BY <1>1
<1>3. ~\E i \in DOMAIN all : ~Selectable(all[i])
  BY DEF RollbackStatus
<1>4. 1 \in DOMAIN all /\ Len(all) \in DOMAIN all
  BY <1>2
<1>5. At(target).variant # At(current).variant
  BY <1>3 DEF RollbackStatus
<1> QED BY <1>2, <1>3, <1>4, <1>5

\* What the two commands write is sound.
LEMMA AcceptanceIsSound ==
  ASSUME LineageInv, NEW n \in DOMAIN measured, NEW q \in Paths, NEW id \in Ids,
         AcceptStatus(measured[n], q) = "ACCEPTED"
  PROVE  Acceptance(id, n, q) \in Contents /\ Sound(Acceptance(id, n, q))
<1>1. /\ Verified(measured[n]) /\ measured[n].improved /\ Selectable(q)
      /\ measured[n].parent = files[q].digest
  BY DEF AcceptStatus, ParentMatches
<1>2. files[q].digest \in 1..Len(written) /\ files[q].digest \in Digests
  BY <1>1, SelectedIsContent
<1>3. n \in 1..Len(measured) /\ measured[n] \in Measurements /\ n \in 0..Evaluations
  BY LineageAssumption DEF LineageInv, LineageTypeOK
<1>4. 0 \in Digests
  BY LineageAssumption DEF Digests
<1>5. Acceptance(id, n, q) \in Contents
  BY <1>2, <1>3, <1>4 DEF Acceptance, Contents, Measurements, Operations
<1>6. Sound(Acceptance(id, n, q))
  BY <1>1, <1>2, <1>3 DEF Acceptance, Sound, Verified
<1> QED BY <1>5, <1>6

LEMMA RollbackIsSound ==
  ASSUME LineageInv, NEW current \in Paths, NEW target \in Paths, NEW between \in Between(Paths),
         NEW reason \in BOOLEAN, NEW id \in Ids,
         RollbackStatus(current, between, target, reason) = "ROLLED_BACK"
  PROVE  Rollback(id, current, target) \in Contents /\ Sound(Rollback(id, current, target))
<1>1. /\ Selectable(current) /\ Selectable(target)
      /\ At(target).variant # At(current).variant
  BY RolledBackSelects
<1>2. /\ files[current].digest \in 1..Len(written) /\ files[current].digest \in Digests
      /\ files[target].digest \in Digests
      /\ At(current) \in Contents /\ At(target) \in Contents /\ Sound(At(target))
  BY <1>1, SelectedIsContent
<1>3. Rollback(id, current, target) \in Contents
  BY <1>2 DEF Rollback, Contents, Operations
<1>4. Sound(Rollback(id, current, target))
  BY <1>1, <1>2 DEF Rollback, Sound, At
<1> QED BY <1>3, <1>4

LEMMA InitSound == LineageInit => LineageInv
<1> SUFFICES ASSUME LineageInit PROVE LineageInv
  OBVIOUS
<1>1. PICK p \in Paths : files = [q \in Paths |-> IF q = p THEN File("ACTIVATION", 1) ELSE Absent]
  BY DEF LineageInit
<1>2. \A q \in Paths : files[q] = IF q = p THEN File("ACTIVATION", 1) ELSE Absent
  BY <1>1
<1> DEFINE first == CHOOSE x \in Ids \X Variants \X Scopes : TRUE
           a == Baseline(first[1], first[2], first[3])
<1>3. first \in Ids \X Variants \X Scopes
  <2>1. PICK i \in Ids, v \in Variants, s \in Scopes : TRUE
    BY NamesAreThere
  <2>2. <<i, v, s>> \in Ids \X Variants \X Scopes
    OBVIOUS
  <2>3. \E x \in Ids \X Variants \X Scopes : TRUE
    BY <2>2
  <2> QED BY <2>3
<1>4. written = <<a>> /\ measured = <<>> /\ mishaps = 0
  BY DEF LineageInit
<1>5. a \in Contents /\ a.parent = 0 /\ a.evaluation = 0
  BY <1>3, LineageAssumption DEF Baseline, Contents, Operations, Digests
<1>6. /\ written \in Seq(Contents) /\ Len(written) = 1 /\ DOMAIN written = 1..1 /\ written[1] = a
      /\ measured \in Seq(Measurements) /\ Len(measured) = 0
  BY <1>4, <1>5
<1>7. LineageTypeOK
  <2>1. {File("ACTIVATION", 1), Absent} \subseteq
          [is : {"ABSENT", "TORN", "FAILURE", "ACTIVATION"}, digest : Digests]
    BY LineageAssumption DEF File, Absent, Digests
  <2> QED BY <1>1, <2>1, <1>4, <1>6, LineageAssumption DEF LineageTypeOK
<1>8. DigestsExist
  BY <1>2, <1>5, <1>6 DEF DigestsExist, Selectable, File, Absent
<1>9. DecisionsAreSound
  BY <1>5, <1>6 DEF DecisionsAreSound
<1> QED BY <1>7, <1>8, <1>9 DEF LineageInv

LEMMA NextSound == LineageInv /\ [LineageNext]_lineage => LineageInv'
<1> SUFFICES ASSUME LineageInv, [LineageNext]_lineage PROVE LineageInv'
  OBVIOUS
<1>0. mishaps \in 0..Mishaps /\ 0 \in Digests
  BY LineageAssumption DEF LineageInv, LineageTypeOK, Digests
<1>1. ASSUME NEW p \in Paths, NEW id \in Ids, NEW v \in Variants, NEW s \in Scopes,
             Baselines(p, id, v, s)
      PROVE  LineageInv'
  <2>1. Baseline(id, v, s) \in Contents /\ Sound(Baseline(id, v, s))
    BY <1>0, LineageAssumption DEF Baseline, Contents, Operations, Sound
  <2>2. mishaps' \in 0..Mishaps
    BY <1>1, <1>0, LineageAssumption DEF Baselines
  <2> QED BY <1>1, <2>1, <2>2, RetainsKeeps DEF Baselines
<1>2. ASSUME NEW p \in Paths, NEW v \in Variants, NEW improved \in BOOLEAN,
             Evaluates(p, v, improved)
      PROVE  LineageInv'
  <2> DEFINE e == [path |-> p, parent |-> files[p].digest, candidate |-> v,
                   scope |-> At(p).scope, improved |-> improved]
  <2>1. files[p].digest \in 1..Len(written) /\ files[p].digest \in Digests /\ At(p) \in Contents
    BY <1>2, SelectedIsContent DEF Evaluates
  <2>2. e \in Measurements
    BY <2>1 DEF Measurements, Contents
  <2>3. measured' = Append(measured, e) /\ UNCHANGED <<files, written, mishaps>>
    BY <1>2 DEF Evaluates
  <2>4. /\ measured \in Seq(Measurements) /\ Len(measured) \in Nat
        /\ Len(measured) < Evaluations /\ DOMAIN written = 1..Len(written)
    BY <1>2 DEF Evaluates, LineageInv, LineageTypeOK
  <2>5. /\ measured' \in Seq(Measurements) /\ Len(measured') = Len(measured) + 1
        /\ \A n \in 1..Len(measured) : measured'[n] = measured[n]
        /\ measured'[Len(measured) + 1] = e
    BY <2>2, <2>3, <2>4
  <2>6. LineageTypeOK'
    BY <2>3, <2>4, <2>5, LineageAssumption DEF LineageInv, LineageTypeOK
  <2>7. DigestsExist'
    <3>1. \A p_1 \in Paths : Selectable(p_1)' => files'[p_1].digest \in 1..Len(written')
      BY <2>3 DEF LineageInv, DigestsExist, Selectable
    <3>2. \A n \in 1..Len(measured') : measured'[n].parent \in 1..Len(written')
      <4> SUFFICES ASSUME NEW n \in 1..Len(measured') PROVE measured'[n].parent \in 1..Len(written)
        BY <2>3
      <4>1. CASE n \in 1..Len(measured)
        BY <4>1, <2>5 DEF LineageInv, DigestsExist
      <4>2. CASE n = Len(measured) + 1
        BY <4>2, <2>5, <2>1
      <4> QED BY <4>1, <4>2, <2>4, <2>5
    <3>3. \A n \in 1..Len(written') :
            /\ written'[n].parent # 0 => written'[n].parent \in 1..Len(written')
            /\ written'[n].evaluation # 0 => written'[n].evaluation \in 1..Len(measured')
      BY <2>3, <2>4, <2>5 DEF LineageInv, DigestsExist
    <3> QED BY <3>1, <3>2, <3>3 DEF DigestsExist
  <2>8. DecisionsAreSound'
    BY <2>3, <2>4, <2>5 DEF LineageInv, DigestsExist, DecisionsAreSound
  <2> QED BY <2>6, <2>7, <2>8 DEF LineageInv
<1>3. ASSUME NEW p \in Paths, NEW q \in Paths, NEW content \in {Absent, files[q]}, Moves(p, content)
      PROVE  LineageInv'
  BY <1>3, MishapKeeps DEF Moves
<1>4. ASSUME NEW p \in Paths, Dies(p) PROVE LineageInv'
  BY <1>4, MishapKeeps DEF Dies
<1>5. ASSUME NEW p \in Paths, Fails(p), UNCHANGED measured PROVE LineageInv'
  BY <1>5, MishapKeeps DEF Fails
<1>6. ASSUME NEW p \in Paths, Accepts(p) PROVE LineageInv'
  <2>1. PICK n \in DOMAIN measured, q \in Paths :
          IF AcceptStatus(measured[n], q) = "ACCEPTED"
          THEN \E id \in Ids : Retains(p, Acceptance(id, n, q)) /\ UNCHANGED mishaps
          ELSE Fails(p)
    BY <1>6 DEF Accepts
  <2>2. UNCHANGED measured
    BY <1>6 DEF Accepts
  <2>3. CASE AcceptStatus(measured[n], q) = "ACCEPTED"
    <3>1. PICK id \in Ids : Retains(p, Acceptance(id, n, q)) /\ UNCHANGED mishaps
      BY <2>1, <2>3
    <3>2. Acceptance(id, n, q) \in Contents /\ Sound(Acceptance(id, n, q))
      BY <2>1, <2>3, AcceptanceIsSound
    <3> QED BY <3>1, <3>2, <2>2, <1>0, RetainsKeeps
  <2> QED BY <2>1, <2>2, <2>3, <1>5
<1>7. ASSUME NEW p \in Paths, RollsBack(p) PROVE LineageInv'
  <2>1. PICK current \in Paths, target \in Paths, between \in Between(Paths), reason \in BOOLEAN :
          IF RollbackStatus(current, between, target, reason) = "ROLLED_BACK"
          THEN \E id \in Ids : Retains(p, Rollback(id, current, target)) /\ UNCHANGED mishaps
          ELSE Fails(p)
    BY <1>7 DEF RollsBack
  <2>2. UNCHANGED measured
    BY <1>7 DEF RollsBack
  <2>3. CASE RollbackStatus(current, between, target, reason) = "ROLLED_BACK"
    <3>1. PICK id \in Ids : Retains(p, Rollback(id, current, target)) /\ UNCHANGED mishaps
      BY <2>1, <2>3
    <3>2. /\ Rollback(id, current, target) \in Contents
          /\ Sound(Rollback(id, current, target))
      BY <2>3, RollbackIsSound
    <3> QED BY <3>1, <3>2, <2>2, <1>0, RetainsKeeps
  <2> QED BY <2>1, <2>2, <2>3, <1>5
<1>8. CASE UNCHANGED lineage
  BY <1>8 DEF lineage, LineageInv, LineageTypeOK, DigestsExist, DecisionsAreSound, Selectable
<1> QED BY <1>1, <1>2, <1>3, <1>4, <1>6, <1>7, <1>8 DEF LineageNext

LEMMA InvariantHolds == LineageSpec => []LineageInv
BY InitSound, NextSound, PTL DEF LineageSpec

(* The types of the history of activations.                                *)
THEOREM LineageIsTyped == LineageSpec => []LineageTypeOK
<1>1. LineageInv => LineageTypeOK
  BY DEF LineageInv
<1> QED BY <1>1, InvariantHolds, PTL
-----------------------------------------------------------------------------
(* Lines.                                                                  *)

\* A line is a set of contents that holds the parents of its members.
LEMMA LineHoldsItself ==
  ASSUME NEW contents, NEW n \in DOMAIN contents
  PROVE  n \in LineIn(contents, n)
BY DEF LineIn

LEMMA LineHoldsParents ==
  ASSUME NEW contents, NEW n \in DOMAIN contents
  PROVE  HoldsParents(LineIn(contents, n), contents) \/
         \E k \in DOMAIN contents : contents[k].parent # 0 /\ contents[k].parent \notin DOMAIN contents
BY DEF LineIn, HoldsParents

LEMMA LineIsWithin ==
  ASSUME NEW contents, NEW n, NEW S, S \subseteq DOMAIN contents, n \in S,
         HoldsParents(S, contents)
  PROVE  LineIn(contents, n) \subseteq S
<1> SUFFICES ASSUME NEW k \in LineIn(contents, n) PROVE k \in S
  OBVIOUS
<1>1. S \in SUBSET DOMAIN contents
  OBVIOUS
<1> QED BY <1>1 DEF LineIn

\* The line of a member of a line is a part of it.
LEMMA LineOfMember ==
  ASSUME NEW contents, NEW n, NEW k \in LineIn(contents, n)
  PROVE  LineIn(contents, k) \subseteq LineIn(contents, n)
<1> SUFFICES ASSUME NEW j \in LineIn(contents, k), NEW S \in SUBSET DOMAIN contents,
                    n \in S, HoldsParents(S, contents)
             PROVE  j \in S
  BY DEF LineIn
<1>1. k \in S
  BY DEF LineIn
<1> QED BY <1>1 DEF LineIn

LEMMA ParentIsInLine ==
  ASSUME NEW contents, NEW n \in DOMAIN contents, contents[n].parent # 0,
         contents[n].parent \in DOMAIN contents
  PROVE  contents[n].parent \in LineIn(contents, n)
BY DEF LineIn, HoldsParents

\* What is in the line is the content itself, or in the line of its parent.
LEMMA LineFromParent ==
  ASSUME NEW contents, NEW n \in DOMAIN contents, contents[n].parent # 0,
         \A k \in DOMAIN contents : contents[k].parent # 0 => contents[k].parent \in DOMAIN contents
  PROVE  LineIn(contents, n) \subseteq {n} \cup LineIn(contents, contents[n].parent)
<1> DEFINE parent == contents[n].parent
           S == {n} \cup LineIn(contents, parent)
<1>1. parent \in LineIn(contents, parent) /\ LineIn(contents, parent) \subseteq DOMAIN contents
  BY DEF LineIn
<1>2. HoldsParents(LineIn(contents, parent), contents)
  BY LineHoldsParents
<1>3. HoldsParents(S, contents)
  BY <1>1, <1>2 DEF HoldsParents
<1>4. S \subseteq DOMAIN contents /\ n \in S
  BY <1>1
<1> HIDE DEF S
<1>5. LineIn(contents, n) \subseteq S
  BY <1>3, <1>4, LineIsWithin
<1> QED BY <1>5 DEF S

\* What is written later changes no line.
LEMMA LinesStay ==
  ASSUME NEW contents, NEW longer, DOMAIN contents \subseteq DOMAIN longer,
         \A k \in DOMAIN contents :
           /\ longer[k] = contents[k]
           /\ contents[k].parent # 0 => contents[k].parent \in DOMAIN contents,
         NEW n \in DOMAIN contents
  PROVE  LineIn(longer, n) = LineIn(contents, n)
<1>1. ASSUME NEW k \in LineIn(longer, n) PROVE k \in LineIn(contents, n)
  <2>1. HoldsParents(DOMAIN contents, longer)
    BY DEF HoldsParents
  <2>2. k \in DOMAIN contents
    BY <2>1, LineIsWithin
  <2>3. ASSUME NEW S \in SUBSET DOMAIN contents, n \in S, HoldsParents(S, contents) PROVE k \in S
    <3>1. HoldsParents(S, longer)
      BY <2>3 DEF HoldsParents
    <3> QED BY <3>1, <2>3, LineIsWithin
  <2> QED BY <2>2, <2>3 DEF LineIn
<1>2. ASSUME NEW k \in LineIn(contents, n) PROVE k \in LineIn(longer, n)
  <2>1. k \in DOMAIN longer
    BY DEF LineIn
  <2>2. ASSUME NEW S \in SUBSET DOMAIN longer, n \in S, HoldsParents(S, longer) PROVE k \in S
    <3> DEFINE within == S \cap DOMAIN contents
    <3>1. HoldsParents(within, contents) /\ n \in within /\ within \subseteq DOMAIN contents
      BY <2>2 DEF HoldsParents
    <3> HIDE DEF within
    <3>2. k \in within
      BY <3>1, LineIsWithin
    <3> QED BY <3>2 DEF within
  <2> QED BY <2>1, <2>2 DEF LineIn
<1> QED BY <1>1, <1>2
-----------------------------------------------------------------------------
(* Where the variant of an activation comes from.                          *)

\* What an operation says of its content.
Decided(a) ==
  /\ a.operation = "BASELINE" <=> a.parent = 0
  /\ a.target # 0 =>
       /\ a.operation = "ROLLBACK" /\ a.target \in 1..Len(written)
       /\ a.variant = written[a.target].variant
  /\ a.operation = "BASELINE" => a.evaluation = 0
  /\ a.operation = "ACCEPT" =>
       /\ a.evaluation # 0 /\ measured[a.evaluation].parent = a.parent
       /\ measured[a.evaluation].scope = a.scope

\* The variant of a content rests on its line: on the baseline that it began with,
\* or on the acceptance in it that its evaluation was for.
RestsOn(contents, evaluations, n) ==
  LET a == contents[n]
  IN  IF a.evaluation = 0
      THEN \A k \in LineIn(contents, n) : contents[k].parent = 0 => contents[k].variant = a.variant
      ELSE \E k \in LineIn(contents, n) :
             /\ contents[k].operation = "ACCEPT" /\ contents[k].evaluation = a.evaluation
             /\ evaluations[a.evaluation].parent = contents[k].parent

HistoryInv ==
  \A n \in 1..Len(written) : Decided(written[n]) /\ RestsOn(written, measured, n)

LEMMA RestsStays ==
  ASSUME NEW contents, NEW longer, NEW evaluations, NEW more,
         DOMAIN contents \subseteq DOMAIN longer,
         \A k \in DOMAIN contents :
           /\ longer[k] = contents[k]
           /\ contents[k].parent # 0 => contents[k].parent \in DOMAIN contents,
         NEW n \in DOMAIN contents, RestsOn(contents, evaluations, n),
         contents[n].evaluation # 0 =>
           more[contents[n].evaluation] = evaluations[contents[n].evaluation]
  PROVE  RestsOn(longer, more, n)
<1>1. LineIn(longer, n) = LineIn(contents, n) /\ LineIn(contents, n) \subseteq DOMAIN contents
  <2>1. LineIn(contents, n) \subseteq DOMAIN contents
    BY DEF LineIn
  <2> QED BY <2>1, LinesStay
<1> QED BY <1>1 DEF RestsOn

\* What a command must know of the line it continues.
Founded(a) ==
  IF a.evaluation = 0
  THEN a.parent # 0 =>
         \A k \in LineOf(a.parent) : written[k].parent = 0 => written[k].variant = a.variant
  ELSE /\ a.parent # 0
       /\ \/ a.operation = "ACCEPT" /\ measured[a.evaluation].parent = a.parent
          \/ \E k \in LineOf(a.parent) :
               /\ written[k].operation = "ACCEPT" /\ written[k].evaluation = a.evaluation
               /\ measured[a.evaluation].parent = written[k].parent

\* Writing a founded content keeps what is known of all.
LEMMA RetainsHistory ==
  ASSUME LineageInv, HistoryInv, NEW p \in Paths, NEW a \in Contents, Sound(a), Decided(a),
         Founded(a), Retains(p, a), UNCHANGED measured
  PROVE  HistoryInv'
<1>1. /\ Len(written) \in Nat /\ Len(written') \in Nat /\ Len(written') >= Len(written)
      /\ DOMAIN written = 1..Len(written) /\ DOMAIN written' = 1..Len(written')
      /\ \A n \in 1..Len(written) : written'[n] = written[n]
      /\ \A n \in 1..Len(written') : n \in 1..Len(written) \/ written'[n] = a
  BY RetainsWrites DEF LineageInv, LineageTypeOK
<1>2. \A n \in 1..Len(written) : written[n].parent # 0 => written[n].parent \in 1..Len(written)
  BY DEF LineageInv, DigestsExist
<1>3. \A n \in 1..Len(written') : written'[n].parent # 0 => written'[n].parent \in 1..Len(written)
  BY <1>1, <1>2 DEF Sound
<1>4. 1..Len(written) \subseteq 1..Len(written')
  BY <1>1
<1>5. \A n \in 1..Len(written) : LineIn(written', n) = LineIn(written, n)
  BY <1>1, <1>2, <1>4, LinesStay
<1>6. ASSUME NEW n \in 1..Len(written') PROVE Decided(written[n])'
  <2>1. \A k \in 1..Len(written) : Decided(written[k])
    BY DEF HistoryInv
  <2>2. Decided(written'[n])
    BY <2>1, <1>1
  <2> QED BY <2>2, <1>1, <1>4 DEF Decided
<1>7. ASSUME NEW n \in 1..Len(written') PROVE RestsOn(written', measured, n)
  <2>1. CASE n \in 1..Len(written)
    <3>1. RestsOn(written, measured, n)
      BY <2>1 DEF HistoryInv
    <3> QED BY <3>1, <2>1, <1>1, <1>2, <1>4, RestsStays
  <2>2. CASE written'[n] = a /\ a.parent = 0
    <3>1. HoldsParents({n}, written') /\ {n} \subseteq DOMAIN written'
      BY <2>2, <1>1 DEF HoldsParents
    <3>2. LineIn(written', n) \subseteq {n}
      BY <3>1, LineIsWithin
    <3> QED BY <2>2, <3>2 DEF RestsOn, Founded
  <2>3. CASE written'[n] = a /\ a.parent # 0
    <3>1. /\ a.parent \in 1..Len(written) /\ LineIn(written', a.parent) = LineOf(a.parent)
          /\ n \in DOMAIN written' /\ a.parent \in DOMAIN written'
      BY <2>3, <1>1, <1>4, <1>5 DEF Sound, LineOf
    <3>2. LineIn(written', n) \subseteq {n} \cup LineOf(a.parent)
      <4>1. LineIn(written', n) \subseteq {n} \cup LineIn(written', written'[n].parent)
        BY <2>3, <1>1, <1>3, <1>4, LineFromParent
      <4> QED BY <4>1, <2>3, <3>1
    <3>3. LineOf(a.parent) \subseteq LineIn(written', n)
      <4>1. a.parent \in LineIn(written', n)
        BY <2>3, <3>1, ParentIsInLine
      <4>2. LineIn(written', a.parent) \subseteq LineIn(written', n)
        BY <4>1, LineOfMember
      <4> QED BY <4>2, <3>1
    <3>4. n \in LineIn(written', n)
      BY <3>1, LineHoldsItself
    <3>5. ASSUME NEW k \in LineOf(a.parent) PROVE written'[k] = written[k]
      BY <1>1 DEF LineOf, LineIn
    <3>6. CASE a.evaluation = 0
      <4>1. ASSUME NEW k \in LineIn(written', n), written'[k].parent = 0
            PROVE  written'[k].variant = a.variant
        <5>1. k # n
          BY <4>1, <2>3
        <5>2. k \in LineOf(a.parent)
          BY <5>1, <3>2
        <5> QED BY <5>2, <3>5, <4>1, <2>3, <3>6 DEF Founded
      <4> QED BY <4>1, <2>3, <3>6 DEF RestsOn
    <3>7. CASE a.evaluation # 0
      <4>1. \E k \in LineIn(written', n) :
              /\ written'[k].operation = "ACCEPT" /\ written'[k].evaluation = a.evaluation
              /\ measured[a.evaluation].parent = written'[k].parent
        <5>1. CASE a.operation = "ACCEPT" /\ measured[a.evaluation].parent = a.parent
          BY <5>1, <3>4, <2>3
        <5>2. ASSUME NEW k \in LineOf(a.parent), written[k].operation = "ACCEPT",
                     written[k].evaluation = a.evaluation,
                     measured[a.evaluation].parent = written[k].parent
              PROVE  \E j \in LineIn(written', n) :
                       /\ written'[j].operation = "ACCEPT" /\ written'[j].evaluation = a.evaluation
                       /\ measured[a.evaluation].parent = written'[j].parent
          <6>1. k \in LineIn(written', n) /\ written'[k] = written[k]
            BY <3>3, <3>5
          <6> QED BY <6>1, <5>2
        <5> QED BY <5>1, <5>2, <3>7 DEF Founded
      <4> QED BY <4>1, <2>3, <3>7 DEF RestsOn
    <3> QED BY <3>6, <3>7
  <2> QED BY <2>1, <2>2, <2>3, <1>1
<1>8. measured' = measured
  OBVIOUS
<1> QED BY <1>6, <1>7, <1>8 DEF HistoryInv

\* A link of a line.
LEMMA LinkFollows ==
  ASSUME LineageInv, NEW x \in 1..Len(written), NEW y \in 1..Len(written),
         written[x].parent = y
  PROVE  /\ LineOf(y) \subseteq LineOf(x) /\ y \in LineOf(x)
         /\ \A k \in LineOf(x) : written[k].parent = 0 => k \in LineOf(y)
<1>1. DOMAIN written = 1..Len(written) /\ Len(written) \in Nat
  BY DEF LineageInv, LineageTypeOK
<1>2. \A n \in 1..Len(written) : written[n].parent # 0 => written[n].parent \in 1..Len(written)
  BY DEF LineageInv, DigestsExist
<1>3. written[x].parent # 0
  BY <1>1
<1>4. y \in LineOf(x)
  BY <1>1, <1>3, ParentIsInLine DEF LineOf
<1>5. LineOf(y) \subseteq LineOf(x)
  BY <1>4, LineOfMember DEF LineOf
<1>6. LineOf(x) \subseteq {x} \cup LineOf(y)
  BY <1>1, <1>2, <1>3, LineFromParent DEF LineOf
<1> QED BY <1>3, <1>4, <1>5, <1>6

\* Numbers up to n, one after another.
LEMMA LeastOfSome ==
  ASSUME NEW T, T \subseteq Nat, T # {}
  PROVE  \E x \in T : \A y \in T : x <= y
<1> DEFINE R == OpToRel(<, Nat)
<1>1. IsWellFoundedOn(R, Nat)
  BY NatLessThanWellFounded
<1>2. \A x, y \in Nat : x < y => <<x, y>> \in R
  BY DEF OpToRel
<1> HIDE DEF R
<1>3. PICK x \in T : \A y \in T : ~ (<<y, x>> \in R)
  BY <1>1, WFMin
<1>4. ASSUME NEW y \in T PROVE x <= y
  <2>1. ~ (y < x)
    BY <1>2, <1>3
  <2> QED BY <2>1
<1> QED BY <1>4

LEMMA OneAfterAnother ==
  ASSUME NEW n \in Nat, NEW S, 1 \in S, \A i \in 1..n - 1 : i \in S => i + 1 \in S
  PROVE  1..n \subseteq S
<1> DEFINE T == (1..n) \ S
<1> SUFFICES ASSUME T # {} PROVE FALSE
  OBVIOUS
<1>1. T \subseteq Nat
  OBVIOUS
<1>2. PICK x \in T : \A y \in T : x <= y
  <2> HIDE DEF T
  <2> QED BY <1>1, LeastOfSome
<1>3. x \in 1..n /\ x # 1 /\ x \notin S
  OBVIOUS
<1>4. x - 1 \in 1..n - 1
  BY <1>3
<1>5. x - 1 \notin T
  <2>1. ~ (x <= x - 1)
    BY <1>3
  <2> HIDE DEF T
  <2> QED BY <2>1, <1>2
<1>6. x - 1 \in S
  BY <1>4, <1>5
<1>7. (x - 1) + 1 \in S
  BY <1>4, <1>6
<1> QED BY <1>3, <1>7

LEMMA BetweenIsSeq ==
  ASSUME NEW paths, NEW between \in Between(paths)
  PROVE  between \in Seq(paths)
BY DEF Between

LineFrom(current, between) == <<current>> \o between

LinksTo(line, current, target) ==
  /\ Len(line) \in Nat \ {0} /\ line[1] = current
  /\ \A i \in 1..Len(line) : files[line[i]].digest \in 1..Len(written)
  /\ \A i \in 1..Len(line) - 1 :
       written[files[line[i]].digest].parent = files[line[i + 1]].digest
  /\ files[target].digest \in 1..Len(written)
  /\ written[files[line[Len(line)]].digest].parent = files[target].digest

\* The activations that a rollback names are a line of digests that ends in the
\* target's.
LEMMA RolledBackLinks ==
  ASSUME LineageInv, NEW current \in Paths, NEW target \in Paths,
         NEW between \in Between(Paths), NEW reason \in BOOLEAN,
         RollbackStatus(current, between, target, reason) = "ROLLED_BACK"
  PROVE  LinksTo(LineFrom(current, between), current, target)
<1> DEFINE line == <<current>> \o between
           all == line \o <<target>>
<1>1. between \in Seq(Paths)
  BY BetweenIsSeq
<1>2. /\ line \in Seq(Paths) /\ Len(line) = Len(between) + 1 /\ Len(between) \in Nat
      /\ line[1] = current
  BY <1>1
<1>3. /\ DOMAIN all = 1..Len(line) + 1 /\ all[Len(line) + 1] = target
      /\ \A i \in 1..Len(line) : all[i] = line[i] /\ line[i] \in Paths
  BY <1>2
<1>4. /\ ~\E i \in DOMAIN all : ~Selectable(all[i])
      /\ Linked(line)
      /\ files[target].digest = At(line[Len(line)]).parent
  BY DEF RollbackStatus
<1> HIDE DEF all, line
<1>5. ASSUME NEW i \in 1..Len(line) PROVE files[line[i]].digest \in 1..Len(written)
  <2>1. Selectable(line[i]) /\ line[i] \in Paths
    BY <1>2, <1>3, <1>4
  <2> QED BY <2>1 DEF LineageInv, DigestsExist
<1>6. files[target].digest \in 1..Len(written)
  <2>1. Selectable(target)
    BY <1>2, <1>3, <1>4
  <2> QED BY <2>1 DEF LineageInv, DigestsExist
<1>7. \A i \in 1..Len(line) - 1 :
        written[files[line[i]].digest].parent = files[line[i + 1]].digest
  BY <1>4 DEF Linked, At
<1>8. written[files[line[Len(line)]].digest].parent = files[target].digest
  BY <1>4 DEF At
<1>9. Len(line) \in Nat \ {0} /\ line[1] = current
  BY <1>2
<1>10. LinksTo(line, current, target)
  BY <1>5, <1>6, <1>7, <1>8, <1>9 DEF LinksTo
<1> QED BY <1>10 DEF line, LineFrom

\* What a rollback goes back to is in the line of what it leaves, and what that
\* line began with is in the line of the target.
LEMMA RolledBackFollows ==
  ASSUME LineageInv, NEW current \in Paths, NEW target \in Paths,
         NEW between \in Between(Paths), NEW reason \in BOOLEAN,
         RollbackStatus(current, between, target, reason) = "ROLLED_BACK"
  PROVE  /\ LineOf(files[target].digest) \subseteq LineOf(files[current].digest)
         /\ \A k \in LineOf(files[current].digest) :
              written[k].parent = 0 => k \in LineOf(files[target].digest)
<1> DEFINE D(p) == files[p].digest
           line == LineFrom(current, between)
<1>0. LinksTo(line, current, target)
  BY RolledBackLinks
<1> HIDE DEF line
<1>1. /\ Len(line) \in Nat \ {0} /\ line[1] = current
      /\ \A i \in 1..Len(line) : D(line[i]) \in 1..Len(written)
      /\ \A i \in 1..Len(line) - 1 : written[D(line[i])].parent = D(line[i + 1])
      /\ D(target) \in 1..Len(written)
      /\ written[D(line[Len(line)])].parent = D(target)
  BY <1>0 DEF LinksTo
<1>2. /\ DOMAIN written = 1..Len(written) /\ Len(written) \in Nat
      /\ \A n \in 1..Len(written) : written[n].parent # 0 => written[n].parent \in 1..Len(written)
  BY DEF LineageInv, LineageTypeOK, DigestsExist
<1>3. /\ 1 \in 1..Len(line) /\ Len(line) \in 1..Len(line)
      /\ D(current) \in 1..Len(written)
  BY <1>1
<1>4. HoldsParents(LineOf(D(current)), written) /\ HoldsParents(LineOf(D(target)), written)
  BY <1>1, <1>2, <1>3, LineHoldsParents DEF LineOf
<1>5. D(current) \in LineOf(D(current)) /\ D(target) \in LineOf(D(target))
  BY <1>1, <1>2, <1>3, LineHoldsItself DEF LineOf
<1>6. LineOf(D(target)) \subseteq LineOf(D(current))
  <2> DEFINE S == {i \in 1..Len(line) : D(line[i]) \in LineOf(D(current))}
  <2>1. 1 \in S
    BY <1>1, <1>3, <1>5
  <2>2. ASSUME NEW i \in 1..Len(line) - 1, i \in S PROVE i + 1 \in S
    <3>1. i + 1 \in 1..Len(line) /\ i \in 1..Len(line)
      BY <1>1
    <3>2. D(line[i + 1]) \in 1..Len(written) /\ written[D(line[i])].parent = D(line[i + 1])
      BY <1>1, <3>1
    <3>3. D(line[i + 1]) # 0
      BY <3>2, <1>2
    <3>4. D(line[i + 1]) \in LineOf(D(current))
      BY <2>2, <3>2, <3>3, <1>4 DEF HoldsParents
    <3> QED BY <3>1, <3>4
  <2> HIDE DEF S
  <2>3. 1..Len(line) \subseteq S
    BY <1>1, <2>1, <2>2, OneAfterAnother
  <2>4. D(line[Len(line)]) \in LineOf(D(current))
    BY <2>3, <1>3 DEF S
  <2>5. D(target) # 0
    BY <1>1, <1>2
  <2>6. D(target) \in LineOf(D(current))
    BY <2>4, <2>5, <1>1, <1>4 DEF HoldsParents
  <2> QED BY <2>6, LineOfMember DEF LineOf
<1>7. ASSUME NEW k \in LineOf(D(current)), written[k].parent = 0 PROVE k \in LineOf(D(target))
  <2> DEFINE S == {D(line[i]) : i \in 1..Len(line)} \cup LineOf(D(target))
  <2>1. S \subseteq DOMAIN written /\ D(current) \in S
    BY <1>1, <1>2, <1>3 DEF LineOf, LineIn
  <2>2. ASSUME NEW i \in 1..Len(line)
        PROVE  written[D(line[i])].parent \in S /\ written[D(line[i])].parent # 0
    <3>1. CASE i = Len(line)
      BY <3>1, <1>1, <1>2, <1>5
    <3>2. CASE i # Len(line)
      <4>1. i \in 1..Len(line) - 1 /\ i + 1 \in 1..Len(line)
        BY <3>2, <1>1
      <4>2. written[D(line[i])].parent = D(line[i + 1]) /\ D(line[i + 1]) \in 1..Len(written)
        BY <4>1, <1>1
      <4> QED BY <4>1, <4>2, <1>2
    <3> QED BY <3>1, <3>2
  <2>3. HoldsParents(S, written)
    BY <2>2, <1>4 DEF HoldsParents
  <2>4. k \in S
    <3> HIDE DEF S
    <3> QED BY <2>1, <2>3, <1>7, LineIsWithin DEF LineOf
  <2> QED BY <2>2, <2>4, <1>7
<1> QED BY <1>6, <1>7

LEMMA HistoryStarts == LineageInit => HistoryInv
<1> SUFFICES ASSUME LineageInit PROVE HistoryInv
  OBVIOUS
<1> DEFINE first == CHOOSE x \in Ids \X Variants \X Scopes : TRUE
           a == Baseline(first[1], first[2], first[3])
<1>1. written = <<a>>
  BY DEF LineageInit
<1>2. a.parent = 0 /\ a.evaluation = 0 /\ a.operation = "BASELINE" /\ a.target = 0
  BY DEF Baseline
<1> HIDE DEF a
<1>3. Len(written) = 1 /\ DOMAIN written = {1} /\ written[1] = a
  BY <1>1
<1>4. Decided(a)
  BY <1>2 DEF Decided
<1>5. LineIn(written, 1) \subseteq {1}
  BY <1>3 DEF LineIn
<1>6. RestsOn(written, measured, 1)
  BY <1>2, <1>3, <1>5 DEF RestsOn
<1> QED BY <1>3, <1>4, <1>6 DEF HistoryInv

\* Moving, losing or copying files says nothing new.
LEMMA HistoryStays ==
  ASSUME HistoryInv, UNCHANGED <<written, measured>>
  PROVE  HistoryInv'
BY DEF HistoryInv, Decided, RestsOn

LEMMA HistoryGoesOn == LineageInv /\ HistoryInv /\ [LineageNext]_lineage => HistoryInv'
<1> SUFFICES ASSUME LineageInv, HistoryInv, [LineageNext]_lineage PROVE HistoryInv'
  OBVIOUS
<1>0. mishaps \in 0..Mishaps /\ 0 \in Digests
  BY LineageAssumption DEF LineageInv, LineageTypeOK, Digests
<1>1. ASSUME NEW p \in Paths, NEW id \in Ids, NEW v \in Variants, NEW s \in Scopes,
             Baselines(p, id, v, s)
      PROVE  HistoryInv'
  <2>1. Baseline(id, v, s) \in Contents /\ Sound(Baseline(id, v, s))
    BY <1>0, LineageAssumption DEF Baseline, Contents, Operations, Sound
  <2>2. Decided(Baseline(id, v, s)) /\ Founded(Baseline(id, v, s))
    BY DEF Baseline, Decided, Founded
  <2> QED BY <1>1, <2>1, <2>2, RetainsHistory DEF Baselines
<1>2. ASSUME NEW p \in Paths, NEW v \in Variants, NEW improved \in BOOLEAN,
             Evaluates(p, v, improved)
      PROVE  HistoryInv'
  <2>1. PICK e : measured' = Append(measured, e) /\ UNCHANGED <<files, written, mishaps>>
    BY <1>2 DEF Evaluates
  <2>2. measured \in Seq(Measurements) /\ Len(measured) \in Nat
    BY DEF LineageInv, LineageTypeOK
  <2>3. \A n \in 1..Len(measured) : measured'[n] = measured[n]
    BY <2>1, <2>2
  <2>4. ASSUME NEW n \in 1..Len(written) PROVE (Decided(written[n]) /\ RestsOn(written, measured, n))'
    <3>1. Decided(written[n]) /\ RestsOn(written, measured, n)
      BY DEF HistoryInv
    <3>2. written[n].evaluation # 0 => measured'[written[n].evaluation] = measured[written[n].evaluation]
      BY <2>3 DEF LineageInv, DigestsExist
    <3>3. written' = written
      BY <2>1
    <3> QED BY <3>1, <3>2, <3>3 DEF Decided, RestsOn
  <2>5. written' = written
    BY <2>1
  <2> QED BY <2>4, <2>5 DEF HistoryInv
<1>3. ASSUME NEW p \in Paths, NEW q \in Paths, NEW content \in {Absent, files[q]}, Moves(p, content)
      PROVE  HistoryInv'
  BY <1>3, HistoryStays DEF Moves, Mishap
<1>4. ASSUME NEW p \in Paths, Dies(p) PROVE HistoryInv'
  BY <1>4, HistoryStays DEF Dies, Mishap
<1>5. ASSUME NEW p \in Paths, Fails(p), UNCHANGED measured PROVE HistoryInv'
  BY <1>5, HistoryStays DEF Fails, Mishap
<1>6. ASSUME NEW p \in Paths, Accepts(p) PROVE HistoryInv'
  <2>1. PICK n \in DOMAIN measured, q \in Paths :
          IF AcceptStatus(measured[n], q) = "ACCEPTED"
          THEN \E id \in Ids : Retains(p, Acceptance(id, n, q)) /\ UNCHANGED mishaps
          ELSE Fails(p)
    BY <1>6 DEF Accepts
  <2>2. UNCHANGED measured
    BY <1>6 DEF Accepts
  <2>3. CASE AcceptStatus(measured[n], q) = "ACCEPTED"
    <3>1. PICK id \in Ids : Retains(p, Acceptance(id, n, q)) /\ UNCHANGED mishaps
      BY <2>1, <2>3
    <3>2. Selectable(q) /\ measured[n].parent = files[q].digest
      BY <2>3 DEF AcceptStatus, ParentMatches
    <3>3. files[q].digest \in 1..Len(written) /\ files[q].digest \in Digests \ {0}
      BY <3>2, SelectedIsContent
    <3>4. n \in 1..Len(measured) /\ n # 0
      BY <2>1 DEF LineageInv, LineageTypeOK
    <3>5. Acceptance(id, n, q) \in Contents /\ Sound(Acceptance(id, n, q))
      BY <2>1, <2>3, AcceptanceIsSound
    <3>6. Decided(Acceptance(id, n, q)) /\ Founded(Acceptance(id, n, q))
      BY <3>2, <3>3, <3>4 DEF Acceptance, Decided, Founded
    <3> QED BY <3>1, <3>5, <3>6, <2>2, RetainsHistory
  <2> QED BY <2>1, <2>2, <2>3, <1>5
<1>7. ASSUME NEW p \in Paths, RollsBack(p) PROVE HistoryInv'
  <2>1. PICK current \in Paths, target \in Paths, between \in Between(Paths), reason \in BOOLEAN :
          IF RollbackStatus(current, between, target, reason) = "ROLLED_BACK"
          THEN \E id \in Ids : Retains(p, Rollback(id, current, target)) /\ UNCHANGED mishaps
          ELSE Fails(p)
    BY <1>7 DEF RollsBack
  <2>2. UNCHANGED measured
    BY <1>7 DEF RollsBack
  <2>3. CASE RollbackStatus(current, between, target, reason) = "ROLLED_BACK"
    <3>1. PICK id \in Ids : Retains(p, Rollback(id, current, target)) /\ UNCHANGED mishaps
      BY <2>1, <2>3
    <3> DEFINE a == Rollback(id, current, target)
    <3>2. Selectable(current) /\ Selectable(target)
      BY <2>3, RolledBackSelects
    <3>3. /\ files[current].digest \in 1..Len(written) /\ files[target].digest \in 1..Len(written)
          /\ files[current].digest # 0 /\ files[target].digest # 0
      BY <3>2, SelectedIsContent
    <3>4. a \in Contents /\ Sound(a)
      BY <2>3, RollbackIsSound
    <3>5. /\ a.operation = "ROLLBACK" /\ a.parent = files[current].digest
          /\ a.target = files[target].digest
          /\ a.variant = written[files[target].digest].variant
          /\ a.evaluation = written[files[target].digest].evaluation
      BY DEF Rollback, At
    <3> HIDE DEF a
    <3>6. Decided(a)
      BY <3>3, <3>5 DEF Decided
    <3>7. /\ LineOf(files[target].digest) \subseteq LineOf(files[current].digest)
          /\ \A k \in LineOf(files[current].digest) :
               written[k].parent = 0 => k \in LineOf(files[target].digest)
      BY <2>3, RolledBackFollows
    <3>8. RestsOn(written, measured, files[target].digest)
      BY <3>3 DEF HistoryInv
    <3>9. Founded(a)
      BY <3>3, <3>5, <3>7, <3>8 DEF Founded, RestsOn, LineOf
    <3>10. Retains(p, a)
      BY <3>1 DEF a
    <3> QED BY <3>4, <3>6, <3>9, <3>10, <2>2, RetainsHistory
  <2> QED BY <2>1, <2>2, <2>3, <1>5
<1>8. CASE UNCHANGED lineage
  BY <1>8, HistoryStays DEF lineage
<1> QED BY <1>1, <1>2, <1>3, <1>4, <1>6, <1>7, <1>8 DEF LineageNext

LEMMA HistoryHolds == LineageSpec => []HistoryInv
BY HistoryStarts, HistoryGoesOn, InvariantHolds, PTL DEF LineageSpec
-----------------------------------------------------------------------------
(* What the history promises to those that continue it.                    *)

LEMMA LinesHold == LineageInv /\ HistoryInv => LinesAreSound
<1> SUFFICES ASSUME LineageInv, HistoryInv, NEW n \in DOMAIN written
             PROVE  /\ \A k \in LineOf(n) : written[k].scope = written[n].scope
                    /\ IF written[n].evaluation = 0
                       THEN \A k \in LineOf(n) :
                              written[k].parent = 0 => written[k].variant = written[n].variant
                       ELSE \E k \in LineOf(n) :
                              /\ written[k].operation = "ACCEPT"
                              /\ written[k].evaluation = written[n].evaluation
                              /\ measured[written[n].evaluation].parent = written[k].parent
  BY DEF LinesAreSound
<1>1. DOMAIN written = 1..Len(written)
  BY DEF LineageInv, LineageTypeOK
<1> DEFINE same == {k \in DOMAIN written : written[k].scope = written[n].scope}
<1>2. HoldsParents(same, written)
  BY <1>1 DEF HoldsParents, LineageInv, DigestsExist, DecisionsAreSound
<1>3. LineOf(n) \subseteq same
  <2>1. n \in same /\ same \subseteq DOMAIN written
    OBVIOUS
  <2> HIDE DEF same
  <2> QED BY <2>1, <1>2, LineIsWithin DEF LineOf
<1>4. RestsOn(written, measured, n)
  BY <1>1 DEF HistoryInv
<1> QED BY <1>3, <1>4 DEF RestsOn, LineOf

\* An activation and the one that is its parent.
LEMMA ParentIsDifferent ==
  ASSUME LineageInv, NEW p \in Selected, NEW q \in Selected, files[q].digest = At(p).parent
  PROVE  At(q).scope = At(p).scope /\ At(q).variant # At(p).variant
<1>1. files[p].digest \in 1..Len(written) /\ files[q].digest \in 1..Len(written)
  BY DEF LineageInv, DigestsExist, Selected
<1>2. DOMAIN written = 1..Len(written) /\ files[q].digest # 0
  BY <1>1 DEF LineageInv, LineageTypeOK
<1> QED BY <1>1, <1>2 DEF LineageInv, DecisionsAreSound, At

LEMMA UndoHolds == LineageInv => DecisionsCanBeUndone
<1> SUFFICES ASSUME LineageInv, NEW current \in Selected, NEW target \in Selected,
                    NEW between \in Between(Selected),
                    LET line == <<current>> \o between \o <<target>>
                    IN  /\ \A i, j \in DOMAIN line : i # j => At(line[i]).id # At(line[j]).id
                        /\ \A i \in 1..Len(line) - 1 :
                             files[line[i + 1]].digest = At(line[i]).parent
                        /\ between = <<>> \/ At(current).variant # At(target).variant
             PROVE  RollbackStatus(current, between, target, TRUE) = "ROLLED_BACK"
  BY DEF DecisionsCanBeUndone
<1> DEFINE line == <<current>> \o between
           all == line \o <<target>>
           last == line[Len(line)]
<1>1. /\ \A i, j \in DOMAIN all : i # j => At(all[i]).id # At(all[j]).id
      /\ \A i \in 1..Len(all) - 1 : files[all[i + 1]].digest = At(all[i]).parent
      /\ between = <<>> \/ At(current).variant # At(target).variant
  OBVIOUS
<1>2. between \in Seq(Selected)
  BY DEF Between
<1>3. /\ line \in Seq(Selected) /\ Len(line) = Len(between) + 1 /\ Len(between) \in Nat
      /\ line[1] = current /\ DOMAIN line = 1..Len(line)
  BY <1>2
<1>4. /\ DOMAIN all = 1..Len(line) + 1 /\ Len(all) = Len(line) + 1
      /\ all[Len(line) + 1] = target
      /\ \A i \in 1..Len(line) : all[i] = line[i] /\ line[i] \in Selected
  BY <1>3
<1>5. between = <<>> => Len(line) = 1
  BY <1>3
<1>6. last = line[Len(line)]
  OBVIOUS
<1> HIDE DEF line, all, last
<1>7. \A i \in DOMAIN all : all[i] \in Selected
  <2>1. \A i \in DOMAIN all : i \in 1..Len(line) \/ i = Len(line) + 1
    BY <1>3, <1>4
  <2> QED BY <2>1, <1>4
<1>8. \A i \in DOMAIN all : Selectable(all[i])
  BY <1>7 DEF Selected
<1>9. Unique(all)
  BY <1>1 DEF Unique, At
<1>10. \A i \in 1..Len(line) : files[all[i + 1]].digest = At(line[i]).parent
  BY <1>1, <1>3, <1>4
<1>11. \A i \in 1..Len(line) - 1 : files[line[i + 1]].digest = At(line[i]).parent
  <2>1. ASSUME NEW i \in 1..Len(line) - 1 PROVE i \in 1..Len(line) /\ i + 1 \in 1..Len(line)
    BY <1>3
  <2> QED BY <2>1, <1>4, <1>10
<1>12. Linked(line)
  BY <1>11 DEF Linked
<1>13. files[target].digest = At(last).parent /\ last \in Selected
  <2>1. Len(line) \in 1..Len(line)
    BY <1>3
  <2> QED BY <2>1, <1>4, <1>6, <1>10
<1>14. \A i \in 1..Len(line) : At(line[i]).scope = At(current).scope
  <2> DEFINE S == {i \in 1..Len(line) : At(line[i]).scope = At(current).scope}
  <2>1. 1 \in S
    BY <1>3
  <2>2. ASSUME NEW i \in 1..Len(line) - 1, i \in S PROVE i + 1 \in S
    <3>1. i \in 1..Len(line) /\ i + 1 \in 1..Len(line)
      BY <1>3
    <3>2. At(line[i + 1]).scope = At(line[i]).scope
      BY <3>1, <1>4, <1>11, ParentIsDifferent
    <3> QED BY <2>2, <3>1, <3>2
  <2> HIDE DEF S
  <2>3. Len(line) \in Nat
    BY <1>3
  <2>4. 1..Len(line) \subseteq S
    BY <2>1, <2>2, <2>3, OneAfterAnother
  <2> QED BY <2>4 DEF S
<1>15. At(target).scope = At(current).scope
  <2>1. At(target).scope = At(last).scope
    BY <1>13, ParentIsDifferent
  <2>2. Len(line) \in 1..Len(line)
    BY <1>3
  <2> QED BY <2>1, <2>2, <1>6, <1>14
<1>16. At(target).variant # At(current).variant
  <2>1. CASE between = <<>>
    <3>1. last = current
      BY <2>1, <1>3, <1>5, <1>6
    <3> QED BY <3>1, <1>13, ParentIsDifferent
  <2>2. CASE between # <<>>
    BY <2>2, <1>1
  <2> QED BY <2>1, <2>2
<1> QED BY <1>3, <1>8, <1>9, <1>12, <1>13, <1>14, <1>15, <1>16
        DEF RollbackStatus, line, all, last

LEMMA ThreeDiffer ==
  ASSUME NEW x, NEW y, NEW z, Cardinality({x, y, z}) = 3
  PROVE  x # y /\ x # z /\ y # z
<1>1. ASSUME NEW u, NEW v PROVE Cardinality({u, v}) # 3
  <2>1. IsFiniteSet({u}) /\ Cardinality({u}) = 1
    BY FS_Singleton
  <2>2. Cardinality({u} \cup {v}) = IF v \in {u} THEN Cardinality({u}) ELSE Cardinality({u}) + 1
    BY <2>1, FS_AddElement
  <2>3. {u} \cup {v} = {u, v}
    OBVIOUS
  <2> QED BY <2>1, <2>2, <2>3
<1>2. Cardinality({x, y}) # 3 /\ Cardinality({x, z}) # 3
  BY <1>1, Zenon
<1>3. /\ x = y => {x, y, z} = {x, z}
      /\ x = z => {x, y, z} = {x, y}
      /\ y = z => {x, y, z} = {x, y}
  OBVIOUS
<1> QED BY <1>2, <1>3

\* The gate asks for no more than what the two commands make.
LEMMA LineIsTaken ==
  ASSUME LineageInv, HistoryInv, NEW b \in Selected, NEW a \in Selected, NEW r \in Selected,
         NEW n \in DOMAIN measured, At(b).parent = 0,
         At(a).parent = files[b].digest, At(a).evaluation = n, At(a).operation = "ACCEPT",
         At(r).parent = files[a].digest, At(r).target = files[b].digest
  PROVE  /\ Is(b, "BASELINE") /\ Is(a, "ACCEPT") /\ Is(r, "ROLLBACK")
         /\ Serves(measured[n])
         /\ \A p \in {b, a, r} : At(p).scope = measured[n].scope
         /\ measured[n].parent = files[b].digest /\ At(a).variant = measured[n].candidate
         /\ At(r).variant = At(b).variant
<1>1. /\ files[b].digest \in 1..Len(written) /\ files[a].digest \in 1..Len(written)
      /\ files[r].digest \in 1..Len(written) /\ DOMAIN written = 1..Len(written)
      /\ n \in 1..Len(measured)
  BY DEF LineageInv, LineageTypeOK, DigestsExist, Selected
<1>2. Decided(At(b)) /\ Decided(At(a)) /\ Decided(At(r))
  BY <1>1 DEF HistoryInv, At
<1>3. Is(b, "BASELINE") /\ Is(a, "ACCEPT") /\ Is(r, "ROLLBACK")
  BY <1>1, <1>2 DEF Is, Decided, Selected
<1>4. At(r).variant = At(b).variant
  BY <1>1, <1>2 DEF Decided, At
<1>5. measured[n].parent = files[b].digest /\ measured[n].scope = At(a).scope
  BY <1>2 DEF Decided
<1>6. measured[n].improved /\ measured[n].candidate = At(a).variant
  BY <1>1 DEF LineageInv, DecisionsAreSound, At
<1>7. /\ At(b).scope = At(a).scope /\ At(b).variant # At(a).variant
      /\ At(a).scope = At(r).scope
  BY ParentIsDifferent
<1>8. Serves(measured[n])
  BY <1>5, <1>6, <1>7 DEF Serves, At
<1> QED BY <1>3, <1>4, <1>5, <1>6, <1>7, <1>8

LEMMA GateHolds == LineageInv /\ HistoryInv => GateTakesTheLine
<1> SUFFICES ASSUME LineageInv, HistoryInv, NEW b \in Selected, NEW a \in Selected,
                    NEW r \in Selected, NEW n \in DOMAIN measured, Cardinality({b, a, r}) = 3
             PROVE  GateTakes(b, a, r, n) <=> AreOfOneLine(b, a, r, n)
  BY DEF GateTakesTheLine
<1>1. b # a /\ b # r /\ a # r
  BY ThreeDiffer
<1>2. ASSUME GateTakes(b, a, r, n) PROVE AreOfOneLine(b, a, r, n)
  <2>1. At(b).operation = "BASELINE" /\ At(a).operation = "ACCEPT" /\ ChainAdmitted(b, a, r, n)
    BY <1>2 DEF GateTakes, Is
  <2>2. Decided(At(b))
    BY DEF HistoryInv, At, LineageInv, DigestsExist, Selected
  <2>3. At(b).parent = 0
    BY <2>1, <2>2 DEF Decided
  <2> QED BY <2>1, <2>3 DEF ChainAdmitted, AreOfOneLine
<1>3. ASSUME AreOfOneLine(b, a, r, n) PROVE GateTakes(b, a, r, n)
  <2>1. /\ Is(b, "BASELINE") /\ Is(a, "ACCEPT") /\ Is(r, "ROLLBACK")
        /\ Serves(measured[n])
        /\ \A p \in {b, a, r} : At(p).scope = measured[n].scope
        /\ measured[n].parent = files[b].digest /\ At(a).variant = measured[n].candidate
        /\ At(r).variant = At(b).variant
    BY <1>3, LineIsTaken DEF AreOfOneLine
  <2>2. At(b).variant = written[measured[n].parent].variant
    BY <2>1 DEF At
  <2>3. ChainAdmitted(b, a, r, n)
    BY <1>3, <2>1, <2>2 DEF ChainAdmitted, AreOfOneLine
  <2> QED BY <1>1, <2>1, <2>3 DEF GateTakes
<1> QED BY <1>2, <1>3

(* Whatever is moved, copied, removed or torn between two commands, each   *)
(* decision keeps its parent's scope and changes the variant, and a        *)
(* variant that is not a baseline's was measured as an improvement by the  *)
(* evaluation the activation names, which was accepted in its line over    *)
(* the parent that it measured; a line can be undone by a rollback; and    *)
(* the gate takes exactly an acceptance and a rollback of it to the        *)
(* baseline.  parent_matches_evaluation and the checks of rollback_file    *)
(* suffice, without a lock or a latest pointer.                            *)
THEOREM LineageIsAlwaysKept == LineageSpec => []LineageIsKept
<1>1. LineageInv /\ HistoryInv => LineageIsKept
  BY LinesHold, UndoHolds, GateHolds DEF LineageIsKept, LineageInv
<1> QED BY <1>1, InvariantHolds, HistoryHolds, PTL

-----------------------------------------------------------------------------
(***************************************************************************)
(* One measurement, by whichever adapter, and the two readers of its       *)
(* document.                                                               *)
(***************************************************************************)

Locals ==
  [outcome : {"ERROR", "POLICY", "PATCH", "PASS", "TEST_FAIL"}, refusal : Codes,
   response : BOOLEAN, set : {"none", "edits"}, sha : BOOLEAN, size : BOOLEAN,
   clean : BOOLEAN, contained : BOOLEAN,
   summary : [says : {"other", "applied_edits", "declared_patch"} \cup Codes, cut : BOOLEAN]]

MeasurementTypes ==
  family \in 0..3 /\ task \in TaskSpace /\ m \in Locals /\ left \in BOOLEAN

\* The set of the edits is recorded with a patch that was built from them.
SetBuilt == IF Recorded /\ task.declared = "none" THEN "edits" ELSE "none"

\* What the adapter knows before there is an outcome.
Pending ==
  /\ place \in {"main", "generate"} => m = Fresh /\ ran = "none" /\ ~left
  /\ place \in {"generate", "edits", "validate"} => Provider /\ ~task.oversize
  /\ place = "close" => ~task.oversize
  /\ place = "edits" => m = [Fresh EXCEPT !.response = TRUE] /\ ~left
  /\ place = "validate" =>
       /\ m.outcome = "ERROR" /\ m.refusal = "NONE" /\ m.response /\ m.sha = Recorded
       /\ m.set = SetBuilt /\ ~left

\* The outcomes, and the members that go with each, whatever the cleanup said.
Oversized == m.outcome = "POLICY" /\ m.refusal = "NONE" /\ m.set = "none" /\ ~m.sha /\ ~m.size
               /\ ~m.response /\ task.oversize /\ m.clean /\ m.contained
Erred ==
  /\ m.outcome = "ERROR" /\ m.refusal = "NONE" /\ m.set = "none" /\ ~m.sha
  /\ m.response => family = 3
RefusedFor(code) ==
  /\ m.outcome = IF code \in PolicyCodes THEN "POLICY" ELSE "PATCH"
  /\ m.refusal = IF family = 3 THEN code ELSE "NONE"
  /\ m.summary = Says(code, task.long /\ code \in PolicyCodes)
  /\ m.set = IF family = 3 /\ code = "UNCHANGED_FILES" THEN "edits" ELSE "none"
  /\ ~m.sha /\ ~m.size /\ m.response /\ Provider
RunnerSays ==
  /\ m.outcome \in {"PASS", "TEST_FAIL", "ERROR"} /\ m.refusal = "NONE"
  /\ m.sha = Recorded /\ m.response = Provider /\ m.set = SetBuilt
  /\ Provider => m.summary = EditSummary
Concluded ==
  \/ Oversized
  \/ ~task.oversize /\ Erred
  \/ ~task.oversize /\ \E code \in PatchCodes \cup PolicyCodes : RefusedFor(code)
  \/ ~task.oversize /\ RunnerSays
EarnedOutcome ==
  /\ left => m.outcome = "ERROR"
  /\ m.outcome = "PASS" => ran = "0" /\ RunnerSays
  /\ m.outcome = "TEST_FAIL" => ran = "4"
ConcludedInv ==
  place \in {"close", "assemble", "write", "exit_0"} \/ Accepted => Concluded /\ EarnedOutcome

\* The document is what the adapter made of its outcome, up to the one member.
DocumentInv ==
  place \in {"write", "exit_0"} \/ Accepted =>
    /\ DOMAIN doc = Members /\ doc.refusal \in Codes
    /\ altered = "none" => doc \in {Document(FALSE), Document(MayCarryText)}

AcceptedInv == Accepted => place = "done" /\ TaskMeasurementValid(doc)

MeasurementInv == MeasurementTypes /\ Pending /\ ConcludedInv /\ DocumentInv /\ AcceptedInv

LEMMA MeasurementStarts == MeasurementInit => MeasurementInv
<1> SUFFICES ASSUME MeasurementInit PROVE MeasurementInv
  OBVIOUS
<1>1. MeasurementTypes
  BY DEF MeasurementInit, MeasurementTypes, Fresh, Locals, Says, Codes
<1>2. Pending
  BY DEF MeasurementInit, Pending
<1>3. ~Accepted /\ place = "main"
  BY DEF MeasurementInit, Accepted
<1> QED BY <1>1, <1>2, <1>3 DEF MeasurementInv, ConcludedInv, DocumentInv, AcceptedInv

\* Until there is a document, nothing of it matters.
LEMMA NothingWritten ==
  ASSUME AcceptedInv, place # "done", place' \notin {"write", "exit_0"}, verdict' = verdict
  PROVE  DocumentInv' /\ AcceptedInv' /\ ~Accepted'
BY DEF AcceptedInv, DocumentInv, Accepted

\* A run that ends here has no outcome to tell.
LEMMA RunRejected ==
  ASSUME MeasurementInv, place' = "exit_2", place # "done", UNCHANGED <<m, ran, left, doc>>, Quiet
  PROVE  MeasurementInv'
<1>1. MeasurementTypes'
  BY DEF MeasurementInv, MeasurementTypes, Quiet
<1>2. Pending'
  BY DEF Pending
<1>3. DocumentInv' /\ AcceptedInv' /\ ~Accepted'
  BY NothingWritten DEF MeasurementInv, Quiet
<1>4. ConcludedInv'
  BY <1>3 DEF ConcludedInv
<1> QED BY <1>1, <1>2, <1>3, <1>4 DEF MeasurementInv

\* An outcome goes to the finally clause with what it is made of.
LEMMA RunConcludes ==
  ASSUME MeasurementInv, place \in {"main", "generate", "edits", "validate", "close"},
         place' \in {"close", "assemble"}, UNCHANGED <<doc, family, task, altered, verdict>>,
         m' \in Locals, left' \in BOOLEAN, Concluded', EarnedOutcome',
         place' = "close" => ~task.oversize
  PROVE  MeasurementInv'
<1>1. MeasurementTypes'
  BY DEF MeasurementInv, MeasurementTypes
<1>2. Pending'
  BY DEF Pending
<1>3. DocumentInv' /\ AcceptedInv'
  BY NothingWritten DEF MeasurementInv
<1>4. ConcludedInv'
  BY DEF ConcludedInv
<1> QED BY <1>1, <1>2, <1>3, <1>4 DEF MeasurementInv

\* A run that goes on to a place without an outcome.
LEMMA RunGoesOn ==
  ASSUME MeasurementInv, place \in {"main", "generate", "edits"},
         place' \in {"generate", "edits", "validate"}, UNCHANGED <<doc, family, task, altered, verdict, left>>,
         m' \in Locals, Pending'
  PROVE  MeasurementInv'
<1>1. MeasurementTypes'
  BY DEF MeasurementInv, MeasurementTypes
<1>3. DocumentInv' /\ AcceptedInv' /\ ~Accepted'
  BY NothingWritten DEF MeasurementInv
<1>4. ConcludedInv'
  BY <1>3 DEF ConcludedInv
<1> QED BY <1>1, <1>3, <1>4 DEF MeasurementInv

LEMMA AdapterRejects ==
  ASSUME MeasurementInv, IdentitiesRejected \/ BaseRejected \/ (FixtureClosed /\ place' = "exit_2")
  PROVE  MeasurementInv'
BY RunRejected DEF IdentitiesRejected, BaseRejected, FixtureClosed, Advances

\* The members of the locals before anything is known.
LEMMA FreshFields ==
  /\ Fresh \in Locals /\ Fresh.outcome = "ERROR" /\ Fresh.refusal = "NONE" /\ Fresh.set = "none"
  /\ ~Fresh.response /\ ~Fresh.sha /\ ~Fresh.size /\ Fresh.clean /\ Fresh.contained
BY DEF Fresh, Locals, Says, Codes

LEMMA FailedConcludes ==
  ASSUME NEW x \in Locals, x.refusal = "NONE", m' = Failed(x), family' = family, task' = task,
         ~task.oversize, ~left'
  PROVE  m' \in Locals /\ Concluded' /\ EarnedOutcome'
<1>1. /\ m' \in Locals /\ m'.outcome = "ERROR" /\ m'.refusal = "NONE" /\ m'.set = "none"
      /\ m'.sha = FALSE /\ m'.response = (family = 3 /\ x.response)
  BY DEF Failed, Locals, Says
<1>2. Erred'
  BY <1>1 DEF Erred
<1> QED BY <1>1, <1>2 DEF Concluded, EarnedOutcome

LEMMA NotGeneratedConcludes ==
  ASSUME NEW clean \in BOOLEAN, NEW contained \in BOOLEAN, m' = NotGenerated(Fresh, clean, contained),
         family' = family, task' = task, ~task.oversize
  PROVE  m' \in Locals /\ Concluded' /\ EarnedOutcome'
<1>1. /\ m' \in Locals /\ m'.outcome = "ERROR" /\ m'.refusal = "NONE" /\ m'.set = "none"
      /\ m'.sha = FALSE /\ m'.response = FALSE
  BY FreshFields DEF NotGenerated, Locals
<1>2. Erred'
  BY <1>1 DEF Erred
<1> QED BY <1>1, <1>2 DEF Concluded, EarnedOutcome

LEMMA RefusalConcludes ==
  ASSUME NEW x \in Locals, NEW code \in PatchCodes \cup PolicyCodes, m' = Refused(x, code),
         family' = family, task' = task, task \in TaskSpace, ~task.oversize, ~left', Provider,
         x.response, ~x.size, code = "UNCHANGED_FILES" /\ family = 3 => x.set = "edits"
  PROVE  m' \in Locals /\ Concluded' /\ EarnedOutcome'
<1> DEFINE y == RefusedKeepingSet(x, code)
<1>1. task.long \in BOOLEAN
  BY DEF TaskSpace
<1>2. code \in Codes
  BY DEF Codes
<1>3. Says(code, task.long /\ code \in PolicyCodes)
        \in [says : {"other", "applied_edits", "declared_patch"} \cup Codes, cut : BOOLEAN]
  BY <1>1, <1>2 DEF Says
<1>4. /\ y \in Locals /\ y.outcome = IF code \in PolicyCodes THEN "POLICY" ELSE "PATCH"
      /\ y.refusal = IF family = 3 THEN code ELSE "NONE"
      /\ y.summary = Says(code, task.long /\ code \in PolicyCodes)
      /\ y.sha = FALSE /\ y.size = x.size /\ y.response = x.response
  <2>1. (IF code \in PolicyCodes THEN "POLICY" ELSE "PATCH") \in {"POLICY", "PATCH"}
    OBVIOUS
  <2>2. (IF family = 3 THEN code ELSE "NONE") \in Codes
    <3> HIDE DEF y
    <3> QED BY <1>2 DEF Codes
  <2>3. y = [x EXCEPT !.outcome = IF code \in PolicyCodes THEN "POLICY" ELSE "PATCH",
                      !.refusal = IF family = 3 THEN code ELSE "NONE", !.sha = FALSE,
                      !.summary = Says(code, task.long /\ code \in PolicyCodes)]
    BY Zenon DEF RefusedKeepingSet
  <2> DEFINE outcome == IF code \in PolicyCodes THEN "POLICY" ELSE "PATCH"
             refusal == IF family = 3 THEN code ELSE "NONE"
             summary == Says(code, task.long /\ code \in PolicyCodes)
  <2>4. /\ outcome \in {"POLICY", "PATCH"} /\ refusal \in Codes
        /\ summary \in [says : {"other", "applied_edits", "declared_patch"} \cup Codes, cut : BOOLEAN]
        /\ y = [x EXCEPT !.outcome = outcome, !.refusal = refusal, !.sha = FALSE, !.summary = summary]
    BY Zenon, <1>3, <2>1, <2>2, <2>3
  <2> HIDE DEF y, outcome, refusal, summary
  <2>5. /\ y \in Locals /\ y.outcome = outcome /\ y.refusal = refusal /\ y.summary = summary
        /\ y.sha = FALSE /\ y.size = x.size /\ y.response = x.response
    BY <2>4 DEF Locals
  <2> QED BY <2>5 DEF outcome, refusal, summary
<1> DEFINE kept == IF family = 3 /\ code = "UNCHANGED_FILES" THEN x.set ELSE "none"
<1>5. m' = [y EXCEPT !.set = kept] /\ kept \in {"none", "edits"}
  BY DEF Refused, Locals
<1> HIDE DEF y, kept
<1>6. /\ m' \in Locals /\ m'.outcome = y.outcome /\ m'.refusal = y.refusal /\ m'.summary = y.summary
      /\ m'.sha = y.sha /\ m'.size = y.size /\ m'.response = y.response /\ m'.set = kept
  BY <1>4, <1>5 DEF Locals
<1>7. kept = IF family = 3 /\ code = "UNCHANGED_FILES" THEN "edits" ELSE "none"
  BY DEF kept
<1>8. RefusedFor(code)'
  BY <1>4, <1>6, <1>7 DEF RefusedFor, Provider
<1>9. Concluded'
  BY <1>8 DEF Concluded
<1>10. m'.outcome \in {"POLICY", "PATCH"}
  BY <1>4, <1>6
<1> QED BY <1>6, <1>9, <1>10 DEF EarnedOutcome

\* A verdict of the runner, or what is left of it, on the patch it was given.
LEMMA RunConcluded ==
  ASSUME m \in Locals, NEW outcome \in {"PASS", "TEST_FAIL", "ERROR"}, NEW clean \in BOOLEAN,
         NEW contained \in BOOLEAN, task \in TaskSpace,
         m' = [m EXCEPT !.outcome = outcome, !.clean = clean, !.contained = contained,
                        !.summary = EditSummary],
         family' = family, task' = task, ~task.oversize, Provider,
         m.refusal = "NONE", m.response, m.sha = Recorded, m.set = SetBuilt,
         left' => outcome = "ERROR", outcome = "PASS" => ran' = "0", outcome = "TEST_FAIL" => ran' = "4"
  PROVE  m' \in Locals /\ Concluded' /\ EarnedOutcome'
<1>1. EditSummary \in [says : {"other", "applied_edits", "declared_patch"} \cup Codes, cut : BOOLEAN]
  BY DEF EditSummary, Says, TaskSpace
<1>2. /\ m' \in Locals /\ m'.outcome = outcome /\ m'.refusal = m.refusal /\ m'.summary = EditSummary
      /\ m'.sha = m.sha /\ m'.response = m.response /\ m'.set = m.set
  <2> HIDE DEF EditSummary
  <2> QED BY <1>1 DEF Locals
<1>3. EditSummary' = EditSummary /\ SetBuilt' = SetBuilt /\ Recorded' = Recorded /\ Provider' = Provider
  BY DEF EditSummary, SetBuilt, Recorded, Provider
<1>4. m.response = TRUE
  BY DEF Locals
<1>5. RunnerSays'
  BY <1>2, <1>3, <1>4 DEF RunnerSays, Provider
<1>6. Concluded'
  BY <1>5 DEF Concluded
<1> QED BY <1>2, <1>5, <1>6 DEF EarnedOutcome

LEMMA MeasurementGoesOn ==
  ASSUME MeasurementInv,
         \/ PromptOversized \/ CredentialMissing \/ InputsSealed \/ Generates
         \/ DeclaredPatch \/ AnswerRefused \/ PatchSynthesized \/ PatchNotSealed
  PROVE  MeasurementInv'
<1>1. /\ m \in Locals /\ left \in BOOLEAN /\ task \in TaskSpace /\ family \in 0..3
      /\ place \in {"main", "generate"} => m = Fresh /\ ran = "none" /\ ~left
      /\ place \in {"generate", "edits", "validate"} => Provider /\ ~task.oversize
      /\ place = "edits" => m = [Fresh EXCEPT !.response = TRUE] /\ ~left
  BY DEF MeasurementInv, MeasurementTypes, Pending
<1>2. CASE PromptOversized
  <2>1. place = "main" /\ place' = "assemble" /\ m' = [m EXCEPT !.outcome = "POLICY"] /\ task.oversize
    BY <1>2 DEF PromptOversized, Advances
  <2>2. m = Fresh /\ ~left
    BY <1>1, <2>1
  <2>3. UNCHANGED <<doc, family, task, altered, verdict, left>>
    BY <1>2 DEF PromptOversized, Quiet
  <2>4. m' \in Locals /\ Oversized'
    BY <2>1, <2>2, <2>3, FreshFields DEF Locals, Oversized
  <2>5. Concluded' /\ EarnedOutcome'
    BY <2>2, <2>3, <2>4 DEF Concluded, EarnedOutcome, Oversized
  <2> QED BY <1>1, <2>1, <2>3, <2>4, <2>5, RunConcludes
<1>3. CASE CredentialMissing
  <2>1. place = "main" /\ place' = "close" /\ m' = Failed(m) /\ ~task.oversize
    BY <1>3 DEF CredentialMissing, EndsAs
  <2>2. UNCHANGED <<doc, family, task, altered, verdict, left>>
    BY <1>3 DEF CredentialMissing, Quiet
  <2>3. m.refusal = "NONE" /\ ~left'
    BY <1>1, <2>1, <2>2, FreshFields
  <2>4. m' \in Locals /\ Concluded' /\ EarnedOutcome'
    BY <1>1, <2>1, <2>2, <2>3, FailedConcludes
  <2> QED BY <1>1, <2>1, <2>2, <2>4, RunConcludes
<1>4. CASE InputsSealed
  <2>1. place = "main" /\ ~task.oversize /\ Provider
    BY <1>4 DEF InputsSealed
  <2>2. UNCHANGED <<doc, family, task, altered, verdict, left, ran>>
    BY <1>4 DEF InputsSealed, Quiet
  <2>3. m.refusal = "NONE" /\ ~left' /\ m = Fresh
    BY <1>1, <2>1, <2>2, FreshFields
  <2>4. CASE place' = "generate" /\ m' = m
    <3>1. Pending'
      BY <1>1, <2>1, <2>2, <2>3, <2>4 DEF Pending, Provider
    <3> QED BY <1>1, <2>1, <2>2, <2>4, <3>1, RunGoesOn
  <2>5. CASE place' = "close" /\ m' = Failed(m)
    <3>1. m' \in Locals /\ Concluded' /\ EarnedOutcome'
      BY <1>1, <2>1, <2>2, <2>3, <2>5, FailedConcludes
    <3> QED BY <1>1, <2>1, <2>2, <2>5, <3>1, RunConcludes
  <2> QED BY <1>4, <2>4, <2>5 DEF InputsSealed, EndsAs
<1>5. CASE Generates
  <2>1. place = "generate" /\ Provider /\ ~task.oversize /\ m = Fresh /\ ~left
    BY <1>1, <1>5 DEF Generates
  <2>2. UNCHANGED <<doc, family, task, altered, verdict, ran>>
    BY <1>5 DEF Generates, Quiet
  <2>3. CASE place' = "edits" /\ m' = [m EXCEPT !.response = TRUE] /\ left' = left
    <3>1. m' \in Locals
      BY <1>1, <2>3 DEF Locals
    <3>2. Pending'
      BY <2>1, <2>2, <2>3 DEF Pending, Provider
    <3> QED BY <2>1, <2>2, <2>3, <3>1, <3>2, RunGoesOn
  <2>4. ASSUME NEW clean \in BOOLEAN, NEW contained \in BOOLEAN, place' = "close",
               m' = NotGenerated(m, clean, contained), left' \in BOOLEAN
        PROVE  MeasurementInv'
    <3>1. m' \in Locals /\ Concluded' /\ EarnedOutcome'
      BY <2>1, <2>2, <2>4, NotGeneratedConcludes
    <3> QED BY <2>1, <2>2, <2>4, <3>1, RunConcludes
  <2>5. CASE place' = "close" /\ m' = NotGenerated(m, TRUE, TRUE) /\ left' \in BOOLEAN
    BY <2>4, <2>5
  <2>6. CASE \E clean \in BOOLEAN : place' = "close" /\ m' = NotGenerated(m, clean, FALSE) /\ left' = ~clean
    <3>1. PICK clean \in BOOLEAN : place' = "close" /\ m' = NotGenerated(m, clean, FALSE) /\ left' = ~clean
      BY <2>6
    <3> QED BY <2>4, <3>1
  <2>7. CASE \E clean \in BOOLEAN : place' = "close" /\ m' = NotGenerated(m, clean, clean) /\ left' = ~clean
    <3>1. PICK clean \in BOOLEAN : place' = "close" /\ m' = NotGenerated(m, clean, clean) /\ left' = ~clean
      BY <2>7
    <3> QED BY <2>4, <3>1
  <2> QED BY <1>5, <2>3, <2>5, <2>6, <2>7 DEF Generates, EndsAs
<1>6. CASE DeclaredPatch
  <2>1. /\ place = "edits" /\ place' = "validate" /\ task.declared # "none"
        /\ m' = [m EXCEPT !.sha = Recorded, !.size = task.declared = "diff"]
    BY <1>6 DEF DeclaredPatch, Advances
  <2>2. UNCHANGED <<doc, family, task, altered, verdict, left>>
    BY <1>6 DEF DeclaredPatch, Quiet
  <2>3. Provider /\ ~task.oversize /\ m = [Fresh EXCEPT !.response = TRUE] /\ ~left
    BY <1>1, <2>1
  <2>4. Recorded \in BOOLEAN
    BY DEF Recorded
  <2>5. /\ m' \in Locals /\ m'.outcome = m.outcome /\ m'.refusal = m.refusal /\ m'.response = m.response
        /\ m'.set = m.set /\ m'.sha = Recorded
    <3> HIDE DEF Recorded
    <3> QED BY <1>1, <2>1, <2>4 DEF Locals
  <2>6. m.outcome = "ERROR" /\ m.refusal = "NONE" /\ m.response /\ m.set = "none"
    BY <2>3, FreshFields DEF Locals
  <2>7. Recorded' = Recorded /\ SetBuilt' = "none"
    BY <2>1, <2>2 DEF Recorded, SetBuilt
  <2>8. Pending'
    BY <2>1, <2>2, <2>3, <2>5, <2>6, <2>7 DEF Pending, Provider
  <2> QED BY <2>1, <2>2, <2>5, <2>8, RunGoesOn
<1>7. ASSUME place = "edits"
      PROVE  /\ Provider /\ ~task.oversize /\ ~left
             /\ m.outcome = "ERROR" /\ m.refusal = "NONE" /\ m.response /\ ~m.size
    BY <1>1, <1>7, FreshFields DEF Locals
<1>8. BlocksOf(m) \in Locals
  BY <1>1 DEF BlocksOf, Locals
<1>9. /\ BlocksOf(m).outcome = m.outcome /\ BlocksOf(m).refusal = m.refusal
      /\ BlocksOf(m).response = m.response /\ BlocksOf(m).size = m.size
      /\ BlocksOf(m).set = IF Recorded THEN "edits" ELSE "none"
  BY <1>1 DEF BlocksOf, Locals
<1>10. ASSUME place = "edits", place' = "close", UNCHANGED <<doc, family, task, altered, verdict, left>>,
              NEW x \in {m, BlocksOf(m)}, m' = Failed(x)
       PROVE  MeasurementInv'
  <2>1. m' \in Locals /\ Concluded' /\ EarnedOutcome'
    BY <1>1, <1>7, <1>8, <1>9, <1>10, FailedConcludes
  <2> QED BY <1>1, <1>10, <2>1, RunConcludes
<1>11. CASE AnswerRefused
  <2>1. place = "edits" /\ place' = "close" /\ UNCHANGED <<doc, family, task, altered, verdict, left>>
    BY <1>11 DEF AnswerRefused, EndsAs, Quiet
  <2>2. CASE \E code \in {"FORMAT", "PATH_NOT_EDITABLE"} : m' = Refused(m, code)
    <3>1. PICK code \in {"FORMAT", "PATH_NOT_EDITABLE"} : m' = Refused(m, code)
      BY <2>2
    <3>2. m' \in Locals /\ Concluded' /\ EarnedOutcome'
      BY <1>1, <1>7, <2>1, <3>1, RefusalConcludes DEF PatchCodes, PolicyCodes
    <3> QED BY <1>1, <2>1, <3>2, RunConcludes
  <2> QED BY <1>10, <1>11, <2>1, <2>2 DEF AnswerRefused, EndsAs
<1>12. CASE PatchSynthesized
  <2>1. /\ place = "edits" /\ task.declared = "none"
        /\ UNCHANGED <<doc, family, task, altered, verdict, left>>
    BY <1>12 DEF PatchSynthesized, Quiet
  <2>2. CASE place' = "validate" /\ m' = [BlocksOf(m) EXCEPT !.sha = Recorded, !.size = TRUE]
    <3>1. Recorded \in BOOLEAN
      BY DEF Recorded
    <3>2. /\ m' \in Locals /\ m'.outcome = m.outcome /\ m'.refusal = m.refusal /\ m'.response = m.response
          /\ m'.set = BlocksOf(m).set /\ m'.sha = Recorded
      <4> HIDE DEF Recorded
      <4> QED BY <1>8, <1>9, <2>2, <3>1 DEF Locals
    <3>3. Recorded' = Recorded /\ SetBuilt' = BlocksOf(m).set
      BY <1>9, <2>1 DEF Recorded, SetBuilt
    <3>4. Pending'
      BY <1>7, <2>1, <2>2, <3>2, <3>3 DEF Pending, Provider
    <3> QED BY <2>1, <2>2, <3>2, <3>4, RunGoesOn
  <2>3. CASE \E code \in {"PATH_ESCAPES_SOURCE", "UNCHANGED_FILES"} : EndsAs(Refused(BlocksOf(m), code))
    <3>1. PICK code \in {"PATH_ESCAPES_SOURCE", "UNCHANGED_FILES"} : EndsAs(Refused(BlocksOf(m), code))
      BY <2>3
    <3>2. place' = "close" /\ m' = Refused(BlocksOf(m), code)
      BY <3>1 DEF EndsAs
    <3>3. family = 3 => BlocksOf(m).set = "edits"
      BY <1>9 DEF Recorded
    <3>4. code \in PatchCodes \cup PolicyCodes
      BY <3>1 DEF PatchCodes, PolicyCodes
    <3>5. m' \in Locals /\ Concluded' /\ EarnedOutcome'
      BY <1>1, <1>7, <1>8, <1>9, <2>1, <3>2, <3>3, <3>4, RefusalConcludes
    <3> QED BY <1>1, <2>1, <3>2, <3>5, RunConcludes
  <2> QED BY <1>12, <2>2, <2>3 DEF PatchSynthesized
<1>13. CASE PatchNotSealed
  BY <1>10, <1>13 DEF PatchNotSealed, EndsAs, Quiet
<1> QED BY <1>2, <1>3, <1>4, <1>5, <1>6, <1>11, <1>12, <1>13

LEMMA RunnerConcludes ==
  ASSUME MeasurementInv, Validates
  PROVE  MeasurementInv'
<1>1. /\ m \in Locals /\ left \in BOOLEAN /\ task \in TaskSpace /\ place = "validate"
      /\ Provider /\ ~task.oversize /\ ~left
      /\ m.refusal = "NONE" /\ m.response /\ m.sha = Recorded /\ m.set = SetBuilt
  BY DEF MeasurementInv, MeasurementTypes, Pending, Validates
<1>2. UNCHANGED <<doc, family, task, altered, verdict>>
  BY DEF Validates, Quiet
<1>3. ASSUME NEW outcome \in {"PASS", "TEST_FAIL", "ERROR"}, NEW clean \in BOOLEAN, NEW contained \in BOOLEAN,
             m' = [m EXCEPT !.outcome = outcome, !.clean = clean, !.contained = contained,
                            !.summary = EditSummary],
             left' \in BOOLEAN, left' => outcome = "ERROR", outcome = "PASS" => ran' = "0",
             outcome = "TEST_FAIL" => ran' = "4", place' = "close"
      PROVE  MeasurementInv'
  <2>1. m' \in Locals /\ Concluded' /\ EarnedOutcome'
    BY <1>1, <1>2, <1>3, RunConcluded
  <2> QED BY <1>1, <1>2, <1>3, <2>1, RunConcludes
<1>4. CASE /\ ran' \in {"0", "4", "other"} /\ left' = left /\ place' = "close"
           /\ m' = [m EXCEPT !.outcome = ExitOutcome, !.summary = EditSummary]
  <2>1. /\ ExitOutcome \in {"PASS", "TEST_FAIL", "ERROR"}
        /\ ExitOutcome = "PASS" => ran' = "0"
        /\ ExitOutcome = "TEST_FAIL" => ran' = "4"
    BY <1>4 DEF ExitOutcome
  <2>2. m' = [m EXCEPT !.outcome = ExitOutcome, !.clean = m.clean, !.contained = m.contained,
                       !.summary = EditSummary]
    <3> HIDE DEF ExitOutcome, EditSummary
    <3> QED BY <1>1, <1>4 DEF Locals
  <2>3. m.clean \in BOOLEAN /\ m.contained \in BOOLEAN
    BY <1>1 DEF Locals
  <2> HIDE DEF ExitOutcome
  <2> QED BY <1>1, <1>3, <1>4, <2>1, <2>2, <2>3
<1>5. CASE \E clean \in BOOLEAN :
             /\ ran' \in {"0", "4", "other"} /\ left' = ~clean /\ place' = "close"
             /\ m' = [m EXCEPT !.outcome = "ERROR", !.clean = clean, !.contained = FALSE,
                               !.summary = EditSummary]
  <2>1. PICK clean \in BOOLEAN :
             /\ ran' \in {"0", "4", "other"} /\ left' = ~clean /\ place' = "close"
             /\ m' = [m EXCEPT !.outcome = "ERROR", !.clean = clean, !.contained = FALSE,
                               !.summary = EditSummary]
    BY <1>5
  <2> QED BY <1>3, <2>1
<1>6. CASE \E clean \in BOOLEAN :
             /\ ran' = "none" /\ left' = ~clean /\ place' = "close"
             /\ m' = [m EXCEPT !.outcome = "ERROR", !.clean = clean, !.contained = clean,
                               !.summary = EditSummary]
  <2>1. PICK clean \in BOOLEAN :
             /\ ran' = "none" /\ left' = ~clean /\ place' = "close"
             /\ m' = [m EXCEPT !.outcome = "ERROR", !.clean = clean, !.contained = clean,
                               !.summary = EditSummary]
    BY <1>6
  <2> QED BY <1>3, <2>1
<1>7. CASE place' = "close" /\ m' = Failed(m) /\ UNCHANGED <<ran, left>>
  <2>1. m' \in Locals /\ Concluded' /\ EarnedOutcome'
    BY <1>1, <1>2, <1>7, FailedConcludes
  <2> QED BY <1>1, <1>2, <1>7, <2>1, RunConcludes
<1> QED BY <1>4, <1>5, <1>6, <1>7 DEF Validates, EndsAs

\* What the cleanup says and how long the patch was decide no outcome.
LEMMA FlagsConclude ==
  ASSUME m \in Locals, m' \in Locals, m'.outcome = m.outcome, m'.refusal = m.refusal,
         m'.response = m.response, m'.set = m.set, m'.sha = m.sha, m'.size = m.size,
         m'.summary = m.summary, UNCHANGED <<family, task, ran, left>>, Concluded, EarnedOutcome,
         m' = m \/ ~task.oversize
  PROVE  Concluded' /\ EarnedOutcome'
<1>1. Recorded' = Recorded /\ Provider' = Provider /\ SetBuilt' = SetBuilt /\ EditSummary' = EditSummary
  BY DEF Recorded, Provider, SetBuilt, EditSummary
<1>2. RunnerSays' = RunnerSays
  BY <1>1 DEF RunnerSays
<1>3. (Oversized => Oversized') /\ (Erred => Erred')
  BY DEF Oversized, Erred
<1>4. \A code \in PatchCodes \cup PolicyCodes : RefusedFor(code) => RefusedFor(code)'
  BY <1>1 DEF RefusedFor
<1> QED BY <1>2, <1>3, <1>4 DEF Concluded, EarnedOutcome

LEMMA InputsCloseConcluded ==
  ASSUME MeasurementInv, InputsClosed \/ (FixtureClosed /\ place' = "assemble")
  PROVE  MeasurementInv'
<1>1. /\ m \in Locals /\ place = "close" /\ place' = "assemble" /\ left \in BOOLEAN
      /\ UNCHANGED <<doc, family, task, altered, verdict, ran, left>>
  BY DEF MeasurementInv, MeasurementTypes, InputsClosed, FixtureClosed, Advances, Quiet
<1>2. m' = m \/ m' = [m EXCEPT !.clean = FALSE]
  BY DEF InputsClosed, FixtureClosed
<1>3. /\ m' \in Locals /\ m'.outcome = m.outcome /\ m'.refusal = m.refusal
      /\ m'.response = m.response /\ m'.set = m.set /\ m'.sha = m.sha /\ m'.size = m.size
      /\ m'.summary = m.summary
  BY <1>1, <1>2 DEF Locals
<1>4. Concluded /\ EarnedOutcome
  BY <1>1 DEF MeasurementInv, ConcludedInv
<1>5. ~task.oversize
  BY <1>1 DEF MeasurementInv, Pending
<1>6. Concluded' /\ EarnedOutcome'
  BY <1>1, <1>3, <1>4, <1>5, FlagsConclude
<1> QED BY <1>1, <1>3, <1>6, RunConcludes

LEMMA FixtureConcludes ==
  ASSUME MeasurementInv, ExecutesFixture
  PROVE  MeasurementInv'
<1>1. /\ m \in Locals /\ m = Fresh /\ place = "main" /\ left = FALSE /\ ran = "none" /\ ~task.oversize /\ ~Provider
      /\ place' = "close" /\ UNCHANGED <<doc, family, task, altered, verdict>>
  BY DEF MeasurementInv, MeasurementTypes, Pending, ExecutesFixture, Quiet
<1>2. ASSUME NEW outcome \in {"PASS", "TEST_FAIL", "ERROR"}, m' \in Locals, m'.outcome = outcome,
             m'.refusal = "NONE", m'.set = "none", ~m'.sha, ~m'.response, left' \in BOOLEAN,
             left' => outcome = "ERROR", outcome = "PASS" => ran' = "0", outcome = "TEST_FAIL" => ran' = "4"
      PROVE  MeasurementInv'
  <2>1. Recorded' = FALSE /\ SetBuilt' = "none" /\ Provider' = FALSE
    BY <1>1 DEF Recorded, SetBuilt, Provider
  <2>2. m'.sha = FALSE /\ m'.response = FALSE
    BY <1>2 DEF Locals
  <2>3. RunnerSays'
    BY <1>2, <2>1, <2>2 DEF RunnerSays
  <2>4. Concluded' /\ EarnedOutcome'
    BY <1>1, <1>2, <2>3 DEF Concluded, EarnedOutcome
  <2> QED BY <1>1, <1>2, <2>4, RunConcludes
<1>3. CASE m' = [m EXCEPT !.clean = FALSE, !.contained = FALSE] /\ UNCHANGED <<ran, left>>
  <2>1. m' \in Locals /\ m'.outcome = "ERROR" /\ m'.refusal = "NONE" /\ m'.set = "none" /\ ~m'.sha /\ ~m'.response
    BY <1>1, <1>3, FreshFields DEF Locals
  <2> QED BY <1>1, <1>2, <1>3, <2>1
<1>4. CASE m' = m /\ UNCHANGED <<ran, left>>
  BY <1>1, <1>2, <1>4, FreshFields
<1>5. CASE /\ ran' \in {"0", "4", "other"} /\ left' = left
           /\ m' = [m EXCEPT !.outcome = ExitOutcome, !.size = TRUE]
  <2>1. /\ ExitOutcome \in {"PASS", "TEST_FAIL", "ERROR"}
        /\ ExitOutcome = "PASS" => ran' = "0"
        /\ ExitOutcome = "TEST_FAIL" => ran' = "4"
    BY <1>5 DEF ExitOutcome
  <2> HIDE DEF ExitOutcome
  <2>2. m' \in Locals /\ m'.outcome = ExitOutcome /\ m'.refusal = "NONE" /\ m'.set = "none" /\ ~m'.sha /\ ~m'.response
    BY <1>1, <1>5, <2>1, FreshFields DEF Locals
  <2> QED BY <1>1, <1>2, <1>5, <2>1, <2>2
<1>6. CASE \E clean, contained \in BOOLEAN :
             /\ contained => clean
             /\ ran' \in {"none", "0", "4", "other"} /\ left' = ~clean
             /\ m' = [m EXCEPT !.clean = clean, !.contained = contained, !.size = TRUE]
  <2>1. PICK clean, contained \in BOOLEAN :
             left' = ~clean /\ m' = [m EXCEPT !.clean = clean, !.contained = contained, !.size = TRUE]
    BY <1>6
  <2>2. m' \in Locals /\ m'.outcome = "ERROR" /\ m'.refusal = "NONE" /\ m'.set = "none" /\ ~m'.sha /\ ~m'.response
    BY <1>1, <2>1, FreshFields DEF Locals
  <2> QED BY <1>2, <2>1, <2>2
<1> QED BY <1>3, <1>4, <1>5, <1>6 DEF ExecutesFixture

LEMMA OutcomeStays ==
  ASSUME MeasurementTypes, UNCHANGED <<family, task, m, ran, left>>, Concluded, EarnedOutcome
  PROVE  Concluded' /\ EarnedOutcome'
BY FlagsConclude DEF MeasurementTypes

LEMMA DocumentStays ==
  ASSUME UNCHANGED <<family, task, m>>
  PROVE  Document(FALSE)' = Document(FALSE) /\ Document(MayCarryText)' = Document(MayCarryText)
<1>1. /\ Version' = Version /\ Status' = Status /\ FailureKind' = FailureKind
      /\ BuildStatus' = BuildStatus /\ TestStatus' = TestStatus
  BY DEF Version, Status, FailureKind, BuildStatus, TestStatus, Unharmed, NotRun
<1>2. Time' = Time /\ Answered' = Answered /\ Refusal' = Refusal
  BY DEF Time, Answered, Refusal, Unharmed, Provider
<1>3. MayCarryText' = MayCarryText
  BY <1>1, <1>2 DEF MayCarryText
<1> QED BY <1>1, <1>2, <1>3 DEF Document

LEMMA MembersOfDocument ==
  ASSUME NEW text
  PROVE  DOMAIN Document(text) = Members
BY DEF Members, Document

LEMMA ValidityStays ==
  ASSUME UNCHANGED <<family, task, doc>>, TaskMeasurementValid(doc)
  PROVE  TaskMeasurementValid(doc)'
<1>1. Version' = Version
  BY DEF Version
<1>2. OversizeValid(doc)' = OversizeValid(doc) /\ NamesTheEdits(doc)' = NamesTheEdits(doc)
  BY DEF OversizeValid, NamesTheEdits
<1>3. AnyVersionThree(doc)' = AnyVersionThree(doc)
  BY DEF AnyVersionThree, VersionThreeValid, RefusalClassValid, SummaryMatches, CompletionValid
<1>4. SetValid(doc)' = SetValid(doc) /\ NoLaterMembers(doc)' = NoLaterMembers(doc)
  BY DEF SetValid, NoLaterMembers
<1>5. VersionTwoValid(doc)' = VersionTwoValid(doc)
  BY <1>1, <1>2, <1>3, <1>4 DEF VersionTwoValid
<1>6. StateValid(doc)' = StateValid(doc)
  BY DEF StateValid, BothStages
<1> QED BY <1>2, <1>5, <1>6 DEF TaskMeasurementValid

LEMMA DocumentIsKept ==
  ASSUME MeasurementInv, Assembles \/ Writes \/ Alters \/ Invoked
  PROVE  MeasurementInv'
<1>1. MeasurementTypes /\ UNCHANGED <<family, task, m, ran, left>>
  BY DEF MeasurementInv, Assembles, Writes, Alters, Invoked, Quiet
<1>2. MeasurementTypes'
  BY <1>1 DEF MeasurementTypes
<1>3. place \in {"assemble", "write", "exit_0", "exit_2"} /\ place' \in {"write", "exit_0", "exit_2", "done"}
  BY DEF Assembles, Advances, Writes, Alters, Invoked
<1>4. ~Accepted
  BY <1>3 DEF MeasurementInv, AcceptedInv
<1>5. Pending'
  BY <1>3 DEF Pending
<1>6. Accepted' => place = "exit_0" /\ place' = "done" /\ TaskMeasurementValid(doc) /\ doc' = doc /\ altered' = altered
  BY <1>4 DEF Accepted, Assembles, Writes, Alters, Invoked, Quiet
<1>7. ConcludedInv'
  <2>1. place' \in {"write", "exit_0"} \/ Accepted' => place \in {"assemble", "write", "exit_0"}
    BY <1>6 DEF Assembles, Advances, Writes, Alters, Invoked
  <2>2. ASSUME place \in {"assemble", "write", "exit_0"} PROVE Concluded' /\ EarnedOutcome'
    BY <1>1, <2>2, OutcomeStays DEF MeasurementInv, ConcludedInv
  <2> QED BY <1>3, <2>1, <2>2 DEF ConcludedInv
<1>8. AcceptedInv'
  BY <1>1, <1>6, ValidityStays DEF AcceptedInv
<1>9. DocumentInv'
  <2>1. Document(FALSE)' = Document(FALSE) /\ Document(MayCarryText)' = Document(MayCarryText)
    BY <1>1, DocumentStays
  <2>2. CASE Assembles
    <3>1. doc' \in {Document(FALSE), Document(MayCarryText)}
      BY <2>2 DEF Assembles
    <3>2. DOMAIN doc' = Members
      BY <3>1, MembersOfDocument
    <3>3. doc'.refusal = IF Version = 3 THEN Refusal ELSE "NONE"
      BY <3>1 DEF Document
    <3>4. doc'.refusal \in Codes
      BY <1>1, <3>3 DEF Refusal, Codes, MeasurementTypes, Locals
    <3>5. Members' = Members
      BY <2>1 DEF Members
    <3> QED BY <2>1, <3>1, <3>2, <3>4, <3>5 DEF DocumentInv
  <2>3. CASE Writes \/ Invoked
    <3>1. place' \in {"write", "exit_0"} \/ Accepted' => place \in {"write", "exit_0"} /\ doc' = doc /\ altered' = altered
      BY <1>6, <2>3 DEF Writes, Invoked, Quiet
    <3>2. Members' = Members
      BY <2>1 DEF Members
    <3> QED BY <2>1, <3>1, <3>2 DEF DocumentInv, MeasurementInv
  <2>4. CASE Alters
    <3>1. PICK f \in Members : \E v \in Domain(f) \ {doc[f]} : altered' = f /\ doc' = [doc EXCEPT ![f] = v]
      BY <2>4 DEF Alters
    <3>2. PICK v \in Domain(f) : altered' = f /\ doc' = [doc EXCEPT ![f] = v]
      BY <3>1
    <3>3. DOMAIN doc = Members /\ doc.refusal \in Codes
      BY <2>4 DEF DocumentInv, MeasurementInv, Alters
    <3>4. DOMAIN doc' = Members
      BY <3>2, <3>3
    <3>5. f = "refusal" => v \in Codes
      BY <3>2 DEF Domain
    <3>6. doc'.refusal \in Codes
      BY <3>2, <3>3, <3>5
    <3>7. f # "none"
      BY MembersOfDocument DEF Document
    <3>8. Members' = Members
      BY <2>1 DEF Members
    <3> QED BY <3>2, <3>4, <3>6, <3>7, <3>8 DEF DocumentInv
  <2> QED BY <2>2, <2>3, <2>4
<1> QED BY <1>2, <1>5, <1>7, <1>8, <1>9 DEF MeasurementInv

LEMMA MeasurementStays == MeasurementInv /\ [MeasurementNext]_measurement => MeasurementInv'
<1> SUFFICES ASSUME MeasurementInv, [MeasurementNext]_measurement PROVE MeasurementInv'
  OBVIOUS
<1>1. CASE MeasurementNext
  <2>1. CASE IdentitiesRejected \/ BaseRejected \/ FixtureClosed
    <3>1. FixtureClosed => place' \in {"exit_2", "assemble"}
      BY DEF FixtureClosed
    <3> QED BY <2>1, <3>1, AdapterRejects, InputsCloseConcluded
  <2>2. CASE \/ PromptOversized \/ CredentialMissing \/ InputsSealed \/ Generates
             \/ DeclaredPatch \/ AnswerRefused \/ PatchSynthesized \/ PatchNotSealed
    BY <2>2, MeasurementGoesOn
  <2>3. CASE Validates
    BY <2>3, RunnerConcludes
  <2>4. CASE InputsClosed
    BY <2>4, InputsCloseConcluded
  <2>5. CASE ExecutesFixture
    BY <2>5, FixtureConcludes
  <2>6. CASE Assembles \/ Writes \/ Alters \/ Invoked
    BY <2>6, DocumentIsKept
  <2> QED BY <1>1, <2>1, <2>2, <2>3, <2>4, <2>5, <2>6 DEF MeasurementNext
<1>2. CASE UNCHANGED measurement
  <2>1. UNCHANGED <<family, task, place, m, ran, left, doc, altered, verdict>>
    BY <1>2 DEF measurement
  <2>2. MeasurementTypes' /\ Pending' /\ (Accepted' <=> Accepted)
    BY <2>1 DEF MeasurementInv, MeasurementTypes, Pending, Accepted, Provider, Recorded, SetBuilt
  <2>3. ConcludedInv'
    BY <2>1, <2>2, OutcomeStays DEF MeasurementInv, ConcludedInv
  <2>4. DocumentInv'
    <3>1. Document(FALSE)' = Document(FALSE) /\ Document(MayCarryText)' = Document(MayCarryText)
      BY <2>1, DocumentStays
    <3>2. Members' = Members
      BY <3>1 DEF Members
    <3> QED BY <2>1, <2>2, <3>1, <3>2 DEF MeasurementInv, DocumentInv
  <2>5. AcceptedInv'
    BY <2>1, <2>2, ValidityStays DEF MeasurementInv, AcceptedInv
  <2> QED BY <2>2, <2>3, <2>4, <2>5 DEF MeasurementInv
<1> QED BY <1>1, <1>2

LEMMA MeasurementHolds == MeasurementSpec => []MeasurementInv
<1> QED BY MeasurementStarts, MeasurementStays, PTL DEF MeasurementSpec

\* The members of a document, by name.
LEMMA DocumentFields ==
  ASSUME NEW text, NEW d, d = Document(text)
  PROVE  /\ d.version = Version /\ d.status = Status /\ d.failure = FailureKind /\ d.build = BuildStatus
         /\ d.test = TestStatus /\ d.violation = (m.outcome = "POLICY") /\ d.time = Time
         /\ d.clean = m.clean /\ d.contained = m.contained /\ d.size = m.size /\ d.response = m.response
         /\ d.summary = m.summary /\ d.runtime = "own" /\ d.set = m.set /\ d.sha = m.sha
         /\ d.total = (IF m.set = "none" THEN "none" ELSE "sum")
         /\ d.refusal = (IF Version = 3 THEN Refusal ELSE "NONE")
         /\ d.count = (Version = 3 /\ m.response) /\ d.digest = (Version = 3 /\ m.response) /\ d.text = text
BY DEF Document, Answered

LEMMA StateIsValid ==
  ASSUME MeasurementTypes, Concluded, ~Unscorable, NEW text, NEW d, d = Document(text)
  PROVE  StateValid(d) /\ d.time # "long" /\ OversizeValid(d)
<1>1. /\ d.status = Status /\ d.failure = FailureKind /\ d.build = BuildStatus
      /\ d.test = TestStatus /\ d.violation = (m.outcome = "POLICY") /\ d.time = Time
      /\ d.clean = m.clean /\ d.contained = m.contained
  BY DocumentFields
<1>2. /\ m.outcome \in {"ERROR", "POLICY", "PATCH", "PASS", "TEST_FAIL"}
      /\ m.clean \in BOOLEAN /\ m.contained \in BOOLEAN
      /\ task.oversize \in BOOLEAN /\ task.slow \in BOOLEAN /\ task.arm \in {"PARENT", "CANDIDATE"}
  BY DEF MeasurementTypes, Locals, TaskSpace
<1>3. m.outcome = "PASS" /\ Unharmed => Time = "ok"
  BY <1>2 DEF Time, Unscorable
<1>4. Time # "long" /\ (m.outcome # "PASS" \/ ~Unharmed => Time = "none")
  BY <1>2, <1>3 DEF Time
<1>5. StateValid(d)
  <2>1. CASE ~Unharmed
    BY <1>1, <1>2, <1>4, <2>1 DEF StateValid, Status, FailureKind, Unharmed
  <2>2. CASE Unharmed /\ m.outcome = "PASS"
    BY <1>1, <1>3, <2>2
       DEF StateValid, BothStages, Status, FailureKind, BuildStatus, TestStatus, NotRun, Unharmed
  <2>3. CASE Unharmed /\ m.outcome # "PASS"
    BY <1>1, <1>2, <1>4, <2>3
       DEF StateValid, BothStages, Status, FailureKind, BuildStatus, TestStatus, NotRun, Unharmed
  <2> QED BY <2>1, <2>2, <2>3
<1>6. OversizeValid(d)
  <2>1. SUFFICES ASSUME task.oversize PROVE task.arm = "CANDIDATE" /\ d.status = "POLICY_VIOLATION"
    BY DEF OversizeValid
  <2>2. task.arm = "CANDIDATE" /\ m.outcome = "POLICY" /\ Unharmed
    BY <1>2, <2>1 DEF Unscorable, Concluded, Oversized, Unharmed
  <2> QED BY <1>1, <2>2 DEF Status
<1> QED BY <1>1, <1>4, <1>5, <1>6

\* What an outcome leaves for the version of the document and for its edits.
LEMMA OutcomeMembers ==
  ASSUME MeasurementTypes, Concluded, ~Unscorable
  PROVE  /\ family < 2 => m.set = "none" /\ ~m.sha
         /\ family > 1 => m.sha = m.size
         /\ family # 3 => m.refusal = "NONE"
         /\ m.set # "none" =>
              /\ m.summary.says \notin {"declared_patch", "wrong_edits"}
              /\ m.summary.says = "applied_edits" => m.summary.cut \/ ~task.comma
<1>1. family \in 0..3 /\ m \in Locals /\ task \in TaskSpace
  BY DEF MeasurementTypes
<1>2. ASSUME NEW code \in PatchCodes \cup PolicyCodes, RefusedFor(code)
      PROVE  m.summary.says \notin {"declared_patch", "wrong_edits", "applied_edits"}
  <2>1. m.summary.says = code
    BY <1>2 DEF RefusedFor, Says
  <2> QED BY <2>1 DEF PatchCodes, PolicyCodes
<1>3. Recorded => m.sha = m.size
  BY DEF Unscorable
<1>4. m.set # "none" =>
        /\ m.summary.says \notin {"declared_patch", "wrong_edits"}
        /\ m.summary.says = "applied_edits" => m.summary.cut \/ ~task.comma
  <2>1. SUFFICES ASSUME m.set # "none"
        PROVE  /\ m.summary.says \notin {"declared_patch", "wrong_edits"}
               /\ m.summary.says = "applied_edits" => m.summary.cut \/ ~task.comma
    OBVIOUS
  <2>2. ~Oversized /\ ~Erred
    BY <2>1 DEF Oversized, Erred
  <2>3. CASE RunnerSays
    <3>1. task.declared = "none" /\ Provider
      BY <2>1, <2>3 DEF RunnerSays, SetBuilt, Recorded, Provider
    <3>2. m.summary = Says("applied_edits", task.long)
      BY <2>3, <3>1 DEF RunnerSays, EditSummary
    <3>3. task.long \in BOOLEAN
      BY <1>1 DEF TaskSpace
    <3>4. m.summary = Says("applied_edits", FALSE) \/ m.summary.cut
      <4>1. CASE task.long
        BY <3>2, <4>1 DEF Says
      <4>2. CASE task.long = FALSE
        BY <3>2, <4>2
      <4> QED BY <3>3, <4>1, <4>2
    <3>5. m.summary.says = "applied_edits"
      BY <3>2 DEF Says
    <3> QED BY <2>1, <3>4, <3>5 DEF Unscorable
  <2> QED BY <1>2, <2>2, <2>3 DEF Concluded
<1>5. family # 3 => m.refusal = "NONE"
  BY DEF Concluded, Oversized, Erred, RefusedFor, RunnerSays
<1>6. family < 2 => m.set = "none" /\ ~m.sha
  <2>1. SUFFICES ASSUME family < 2 PROVE m.set = "none" /\ ~m.sha
    OBVIOUS
  <2>2. ~Recorded /\ family # 3
    BY <1>1, <2>1 DEF Recorded
  <2> QED BY <2>2 DEF Concluded, Oversized, Erred, RefusedFor, RunnerSays, SetBuilt
<1> QED BY <1>1, <1>3, <1>4, <1>5, <1>6 DEF Recorded

\* A refusal and what goes with it.
LEMMA RefusalIsValid ==
  ASSUME MeasurementTypes, Concluded, family = 3, NEW text \in {FALSE, MayCarryText},
         NEW d, d = Document(text)
  PROVE  VersionThreeValid(d)
<1>1. Version = 3 /\ m \in Locals /\ task.long \in BOOLEAN
  BY DEF Version, MeasurementTypes, TaskSpace
<1>2. /\ d.status = Status /\ d.failure = FailureKind /\ d.size = m.size /\ d.response = m.response
      /\ d.summary = m.summary /\ d.set = m.set /\ d.sha = m.sha
      /\ d.refusal = Refusal /\ d.count = m.response /\ d.digest = m.response /\ d.text = text
  BY <1>1, DocumentFields DEF Locals
<1>3. CompletionValid(d)
  <2>1. text => Refusal \in NoSetCodes /\ m.response
    BY DEF MayCarryText
  <2> QED BY <1>2, <2>1 DEF CompletionValid
<1>4. CASE ~Unharmed
  <2>1. d.refusal = "NONE" /\ d.failure \in {"CONTAINMENT", "CLEANUP"}
    BY <1>2, <1>4 DEF Refusal, FailureKind, Unharmed
  <2>2. RefusalClassValid(d)
    BY <2>1 DEF RefusalClassValid, PatchCodes, PolicyCodes, NoSetCodes
  <2> QED BY <1>3, <2>1, <2>2 DEF VersionThreeValid
<1>5. CASE Unharmed /\ \E code \in PatchCodes \cup PolicyCodes : RefusedFor(code)
  <2>1. PICK code \in PatchCodes \cup PolicyCodes : RefusedFor(code)
    BY <1>5
  <2>2. code \in {"FORMAT", "UNCHANGED_FILES", "PATH_NOT_EDITABLE", "PATH_ESCAPES_SOURCE"}
    BY DEF PatchCodes, PolicyCodes
  <2>3. /\ m.outcome = (IF code \in PolicyCodes THEN "POLICY" ELSE "PATCH")
        /\ m.summary = Says(code, task.long /\ code \in PolicyCodes)
        /\ d.refusal = code /\ d.set = (IF code = "UNCHANGED_FILES" THEN "edits" ELSE "none")
        /\ ~d.sha /\ ~d.size
    BY <1>2, <1>5, <2>1 DEF RefusedFor, Refusal
  <2>4. /\ d.status = (IF code \in PolicyCodes THEN "POLICY_VIOLATION" ELSE "FAIL")
        /\ d.failure = (IF code \in PolicyCodes THEN "POLICY" ELSE "PATCH")
    BY <1>2, <1>5, <2>3 DEF Status, FailureKind, Unharmed
  <2>5. RefusalClassValid(d)
    BY <2>2, <2>3, <2>4 DEF RefusalClassValid, PatchCodes, PolicyCodes, NoSetCodes
  <2>6. d.summary.says = code /\ d.summary.cut = (task.long /\ code \in PolicyCodes)
    BY <1>2, <2>3 DEF Says
  <2>7. d.summary.says = d.refusal /\ (d.summary.cut => d.refusal \in PolicyCodes)
    BY <2>3, <2>6
  <2>8. SummaryMatches(d)
    BY <2>7 DEF SummaryMatches
  <2> QED BY <1>3, <2>5, <2>8 DEF VersionThreeValid
<1>6. CASE Unharmed /\ (Oversized \/ Erred \/ RunnerSays)
  <2>1. d.refusal = "NONE" /\ m.outcome \in {"POLICY", "ERROR", "PASS", "TEST_FAIL"}
    BY <1>2, <1>6 DEF Oversized, Erred, RunnerSays, Refusal
  <2>2. d.failure # "PATCH"
    BY <1>2, <1>6, <2>1 DEF FailureKind, Unharmed
  <2>3. RefusalClassValid(d)
    BY <2>1, <2>2 DEF RefusalClassValid, PatchCodes, PolicyCodes, NoSetCodes
  <2> QED BY <1>3, <2>1, <2>3 DEF VersionThreeValid
<1> QED BY <1>4, <1>5, <1>6 DEF Concluded

LEMMA VersionIsValid ==
  ASSUME MeasurementTypes, Concluded, ~Unscorable, NEW text \in {FALSE, MayCarryText},
         NEW d, d = Document(text)
  PROVE  VersionTwoValid(d)
<1>1. family \in 0..3 /\ m \in Locals
  BY DEF MeasurementTypes
<1>2. Version \in 1..3 /\ (Version = 3 <=> family = 3) /\ (Version > 1 <=> family > 1)
  BY <1>1 DEF Version
<1>3. /\ d.version = Version /\ d.summary = m.summary /\ d.set = m.set /\ d.sha = m.sha /\ d.size = m.size
      /\ d.total = (IF m.set = "none" THEN "none" ELSE "sum")
      /\ d.refusal = (IF Version = 3 THEN Refusal ELSE "NONE")
      /\ d.count = (Version = 3 /\ m.response) /\ d.digest = (Version = 3 /\ m.response) /\ d.text = text
  BY DocumentFields
<1>4. NoLaterMembers(d)
  <2>1. text => Version = 3
    BY DEF MayCarryText
  <2>2. Version < 2 => m.set = "none" /\ ~m.sha
    BY <1>1, <1>2, OutcomeMembers
  <2>3. Version < 3 => Version # 3
    BY <1>2
  <2> QED BY <1>3, <2>1, <2>2, <2>3 DEF NoLaterMembers
<1>5. AnyVersionThree(d)
  BY <1>2, <1>3, RefusalIsValid DEF AnyVersionThree
<1>6. ASSUME m.set # "none" PROVE SetValid(d) /\ (d.summary.cut \/ NamesTheEdits(d))
  <2>1. m.set = "edits"
    BY <1>1, <1>6 DEF Locals
  <2>2. /\ m.summary.says \notin {"declared_patch", "wrong_edits"}
        /\ m.summary.says = "applied_edits" => m.summary.cut \/ ~task.comma
    BY <1>6, OutcomeMembers
  <2> QED BY <1>3, <2>1, <2>2 DEF SetValid, NamesTheEdits
<1>7. Version > 1 => d.sha = d.size
  BY <1>1, <1>2, <1>3, OutcomeMembers
<1> QED BY <1>3, <1>4, <1>5, <1>6, <1>7 DEF VersionTwoValid

(* What an adapter writes, on whichever path through its error handling,   *)
(* its evaluator admits, but for the cases of Unscorable; and what the     *)
(* evaluator admits the gate admits, whatever member of it was altered.    *)
THEOREM DocumentsAreAlwaysPassedOn == MeasurementSpec => []DocumentsArePassedOn
<1>1. MeasurementInv => DocumentsAreAccepted
  <2>1. SUFFICES ASSUME MeasurementInv, AsWritten, ~Unscorable PROVE TaskMeasurementValid(doc)
    BY DEF DocumentsAreAccepted
  <2>2. MeasurementTypes /\ Concluded /\ doc \in {Document(FALSE), Document(MayCarryText)}
    BY <2>1 DEF MeasurementInv, ConcludedInv, DocumentInv, AsWritten
  <2>3. PICK text \in {FALSE, MayCarryText} : doc = Document(text)
    BY <2>2
  <2>4. StateValid(doc) /\ doc.time # "long" /\ OversizeValid(doc)
    BY <2>1, <2>2, <2>3, StateIsValid
  <2>5. VersionTwoValid(doc)
    BY <2>1, <2>2, <2>3, VersionIsValid
  <2>6. doc.runtime = "own"
    BY <2>3, DocumentFields
  <2> QED BY <2>4, <2>5, <2>6 DEF TaskMeasurementValid
<1>2. MeasurementInv => GateFollowsEvaluator
  <2>1. SUFFICES ASSUME MeasurementInv, Accepted, doc.set # "body_length",
                        ~(doc.summary.cut /\ doc.version = 3 /\ doc.set # "none")
        PROVE  GateAdmits(doc)
    BY DEF GateFollowsEvaluator
  <2>2. VersionTwoValid(doc) /\ doc.runtime = "own" /\ doc.refusal \in Codes /\ Version \in 1..3
    BY <2>1 DEF MeasurementInv, AcceptedInv, TaskMeasurementValid, DocumentInv, MeasurementTypes, Version
  <2>3. doc.version = Version /\ NoLaterMembers(doc)
    BY <2>2 DEF VersionTwoValid
  <2>4. doc.version > 1 =>
          /\ doc.sha = doc.size /\ (doc.set = "none") = (doc.total = "none")
          /\ doc.set = "none" => AnyVersionThree(doc)
          /\ doc.set # "none" => SetValid(doc) /\ (doc.summary.cut \/ (NamesTheEdits(doc) /\ AnyVersionThree(doc)))
    BY <2>2 DEF VersionTwoValid
  <2>5. ASSUME doc.version = 3 PROVE GateVersionThree(doc)
    <3>1. VersionThreeValid(doc)
      BY <2>1, <2>4, <2>5 DEF AnyVersionThree
    <3>2. RefusalClassValid(doc) /\ CompletionValid(doc)
      BY <3>1 DEF VersionThreeValid
    <3> QED BY <2>2, <3>2
         DEF GateVersionThree, RefusalClassValid, NoSetCodes, Codes, PatchCodes, PolicyCodes
  <2>6. ASSUME doc.version > 1
        PROVE  doc.set = "none" \/ (GateBlocks(doc) /\ (doc.summary.cut \/ NamesTheEdits(doc)))
    BY <2>1, <2>4, <2>6 DEF GateBlocks, SetValid
  <2> QED BY <2>2, <2>3, <2>4, <2>5, <2>6 DEF GateAdmits, GateProbe
<1>3. MeasurementInv => DocumentsArePassedOn
  BY <1>1, <1>2 DEF DocumentsArePassedOn
<1> QED BY <1>3, MeasurementHolds, PTL

(* A measurement that scores was earned: its runner ended, on the recorded *)
(* patch, and the adapter left no child.                                   *)
THEOREM ScoredIsAlwaysEarned == MeasurementSpec => []ScoredIsEarned
<1>1. MeasurementInv => ScoredIsEarned
  <2>1. SUFFICES ASSUME MeasurementInv, Accepted, altered = "none", doc.status # "ERROR"
        PROVE  /\ ~left
               /\ doc.status = "PASS" => ran = "0" /\ doc.time = "ok" /\ (doc.version > 1 => doc.sha)
               /\ doc.failure = "TEST" => ran = "4"
    BY DEF ScoredIsEarned
  <2>2. /\ MeasurementTypes /\ EarnedOutcome /\ TaskMeasurementValid(doc)
        /\ doc \in {Document(FALSE), Document(MayCarryText)}
    BY <2>1 DEF MeasurementInv, ConcludedInv, DocumentInv, AcceptedInv
  <2>3. PICK text \in {FALSE, MayCarryText} : doc = Document(text)
    BY <2>2
  <2>4. /\ doc.status = Status /\ doc.failure = FailureKind /\ doc.time = Time /\ doc.version = Version
        /\ doc.sha = m.sha
    BY <2>3, DocumentFields
  <2>5. Unharmed /\ m.outcome # "ERROR"
    BY <2>1, <2>4 DEF Status
  <2>6. ~left
    BY <2>2, <2>5 DEF EarnedOutcome
  <2>7. ASSUME doc.status = "PASS" PROVE ran = "0" /\ doc.time = "ok" /\ (doc.version > 1 => doc.sha)
    <3>1. m.outcome = "PASS"
      BY <2>4, <2>5, <2>7 DEF Status
    <3>2. ran = "0" /\ m.sha = Recorded
      BY <2>2, <3>1 DEF EarnedOutcome, RunnerSays
    <3>3. doc.time \notin {"none", "long"}
      BY <2>2, <2>7 DEF TaskMeasurementValid, StateValid
    <3>4. Time \in {"none", "long", "ok"}
      BY DEF Time
    <3>5. Version > 1 => Recorded
      BY <2>2 DEF Version, Recorded, MeasurementTypes
    <3> QED BY <2>4, <3>2, <3>3, <3>4, <3>5
  <2>8. doc.failure = "TEST" => ran = "4"
    BY <2>2, <2>4, <2>5 DEF FailureKind, EarnedOutcome, Unharmed, MeasurementTypes, Locals
  <2> QED BY <2>6, <2>7, <2>8
<1> QED BY <1>1, MeasurementHolds, PTL
=============================================================================
