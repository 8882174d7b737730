# Models and proofs of align-llm

TLA+ models of the parts of `align-llm` that keep state and can be driven into
states a test hardly reaches, the TLC runs that check them on small instances,
and TLAPS proofs for every value of the constants. Sources are named as in the
repository: `src/*.align` are the Align modules, `scripts/*`, `image/*` and
`eval/*` the native code and the Python tools.

Contents: 1 inventory, 2 modules, 3 runs (with the findings, the fairness and
the bounds), 4 proofs, 5 what is not modelled, 6 what would come next.

## 1. Inventory

The repository has three parts. *align-runtime* loads a quantised model once and
generates text from it on a GPU, behind a one-connection-at-a-time OpenAI
server. *align-coder* applies candidate patches, runs verification stages,
repairs, remembers failures in a profile file, and evaluates and activates
prompts. Around both are *tools* that measure, qualify, record and gate: each
reads a checkout or an image that others may be writing to, and each runs
children that may do anything.

| component | state | operations | talks to | hard part |
|---|---|---|---|---|
| GPU graph owner, `scripts/ggml_shim.c` | graphs of three kinds, metadata slices, prefill entries, slots, row indices, content generation, poison flags | context lookup, build, prepare, activate, release, invalidate, input update, compute, slot read | the session; ggml | one workspace shared by all graphs, caching of graphs and slots, a failure between two native steps |
| Qwen3.5 session, `src/runtime_qwen35_generation.align` | healthy / stream flags, cursor, parity, decode keys, resident KV and recurrent planes | begin_stream, stream_next, stream_finish, recover_failed_request | graph owner, server | state carried over between requests; every native call can fail |
| OpenAI serving, `src/openai_serving.align` | the current request, pending token ids, stream position | accept, answer, stream, conclude | session, clients | disconnects, partial UTF-8, failure after headers were sent |
| Verification loop and failure memory, `src/verification_loop.align`, `src/failure_memory.align` | tree, iteration, verdict, result file; profile shared by runs | evaluate, apply, stages, repair, write; load_context, remember | commands, other runs | what a verdict is a verdict of; read-modify-write without a lock |
| Residency simulator and oracle, `src/residency_sim.align`, `scripts/residency_oracle.py`, `scripts/residency_projection.py` | cache of a replay, tables that know the past | admit, pool, replay, sweep, decide | each other, through a smoke | state that must be forgotten at a boundary, ties, two orders, a verdict from many replays |
| Prompt task supervisor, `src/prompt_task_*.align`, `src/prompt_scope_*.align` | processes of a command, deadlines, collected output, report | collect, clean up, drain, judge; the commands of an attempt | processes, signals, clock | timeout racing completion, forks racing kills, late cancellation |
| Prompt evaluation rows, `src/prompt_evaluate.align`, `src/prompt_evaluation_*.align` | scratch storage, invocation files, ownership of scopes, survivors, status | invocation, storage removal, retirement, retries, publication | task supervisor, file system | partial failure of each cleanup, who still owns what |
| Prompt state, `src/prompt_state.align` | documents that name their parents by digest | accept, roll back | evaluator, gate | no lock, no pointer to the latest, files that are copied, removed and torn |
| Prompt evaluator, `scripts/prompt-evaluate.py` | records, checkpoint, owned files, seeds, rows, score | admit, preflight, attempt, repair, score, abort | adapters, snapshot helper, verifier | drift of the world between observations, cutting records back |
| Prompt gate, `scripts/prompt-gate-validator.py` | what it read | read, recompute, admit | documents of the evaluator | says everything a second time: medians, counts, chains, rules |
| Measurement adapters, `scripts/prompt-*-adapter.py` | one measurement on its way into a document | generate, validate, run a fixture, assemble | evaluator, children | the meaning of an exit carried through four hands |
| Snapshot helper, source verifier, source identity, backend recipe, baseline recorder, `scripts/prompt-snapshot-helper.py`, `prompt-source-verifier.py`, `fresh_source_identity.py`, `gpu_backend_recipe.py`, `eval/runners/record-baseline.py` | what they read so far of a checkout | capture, recheck, materialise, publish | git, whoever works in the checkout | reads at different times taken for one moment |
| Coding-task runner, `eval/runners/run-coding-task.py` | the checkout of one candidate, its watch, its namespace | baseline, apply, validate, judge, remove | a validation command | the command changes the tree it judges; a watch that counts while files come and go |
| GPU qualification, `scripts/gpu_qualification_*.py`, `gpu_qualifier_process.py` | admitted input, rows, preparation, evidence, reservations | admit, prepare, run cases, recheck, stage, publish, validate | children, an input directory | files opened by path long after admission, evidence of a run that failed |
| Children of the tools (ten callers) and of the image (five) | one child and its descendants | start, read, stop, kill, reap, prove absence | the process table | processes that fork, leave and exit while the table is scanned |
| Launch of the fresh image, `image/fresh/control/*` | what each link has read, sealed and signed | seal, verify, exec, bind, stage, build, describe, launch | a reinstaller, an editor, left processes | check and use at different times along a chain of programs |
| Pack and KV files, model files, tokenizer, CPU models, providers, index, fixtures | none across calls | parse, encode, run | | numeric or textual, not interacting |

What makes each correct:

- *graph owner*: a slot that may be read holds what the latest computation put
  there; no name outlives the graph it names; a graph computes only on a
  workspace laid out with it and writes only its own rows; a poisoned owner is
  dead for good; the backend sees one address per slice.
- *session*: each token absorbs exactly the request's own prompt and tokens;
  what the session believes of the device is so; every call returns; a healthy
  session leaves nothing of the last request behind.
- *server*: one request at a time on a ready session; a client is never told
  success for a failed generation; the event order holds; every request ends.
- *loop and memory*: a verdict was earned on the tree that remains; the loop
  ends; what the profile says of a run is what that run concluded, once.
- *residency*: simulator and oracle agree; a verdict is what the replays earned.
- *prompt evaluation* (both evaluators): no path continues on the files of a
  process that may still write; a PASS is of the tree that is there; a score
  rests on one environment and one input; a cancelled or unclean evaluation is
  not published; what an aborted one leaves fits together; it ends.
- *prompt state*: an effective variant was measured against the one it
  replaced, on its own line; every decision can be undone.
- *documents*: what one tool writes the next one admits, and a score was earned.
- *readers of a checkout*: what a record says of a commit was so at one moment.
- *candidate*: a scored exit status is of this patch on this fixture.
- *qualification*: published evidence was earned on the admitted input; and a
  run that failed anywhere can still publish its evidence.
- *children*: a caller that reports a clean end has one.
- *launch*: what is compared before it is started is of one image, it is known
  which of the rest need not be, and the compiler is the described one.

The hazards, each at its line and with the properties that cover it, are listed
in `PROJECT.json`.

## 2. Modules

```
 GpuGraphs <------------------------- GpuGraphsProofs;  run through MCGpuGraphs
    ^                                      ^
    | INSTANCE (the native calls)          | INSTANCE
 Qwen35Session <--------------------- Qwen35SessionProofs;  run through MCQwen35Session
    | refines
 SessionApi <----- OpenAiServing ----- OpenAiServingProofs

 VerificationLoop ------------------- HistoryProofs

 PromptEvaluation ------------------- PromptEvaluationProofs

 PromptScore <-- PromptGate <-- PromptEvaluator <-- PromptEvaluatorProofs
 PromptMeasurement --.
 PromptActivation ---+--> MCPromptDocuments      the two <-- HistoryProofs

 CodingTask <-- ToolProofs
 CodingTask ------------------------.
 Residency <-- ResidencyOracle -----+--> MCCandidates

 ProcessTree <-- ChildBoundary <-- FreshChildren <-- ToolProofs

 SourceTree <-- SourceCapture --------.
 QualificationRecords, NumericTraversal -+-- GpuQualification <-- MCGpuQualification
                                                   ^------------- SourceCaptureProofs

 ImageLaunch <-- ToolProofs;  run through MCImageLaunch
```

(An arrow points to the module that is extended.)

### Runtime

**GpuGraphs.** One action per exported function that changes the owner: `Build`
(new graph in a slice, with the row registration of the prefill builder),
`Prepare`, `ActivateHit` / `ActivateMiss`, `ReleasePark` / `ReleaseClear`,
`Invalidate`, `UpdateRows`, `Compute`, and a failing form of each
(`BuildFails`, `PrepareFails`, ...), which leaves what the C code leaves when a
native step of it fails. The order of the checks in a function is the order of
the conjuncts; a call the function refuses without effect (CONFIG) is a step
that is not enabled. `slice[s]` is the sequence of keys built in a metadata
slice since its last reset, so a dangling pointer is a position past its end.
`SlotReady` and `Read` are the two ways a result reaches a client: the check of
the generation stamps and the remembered pointer of the fast path.

**Qwen35Session.** The session's own code over an `INSTANCE` of GpuGraphs: a
program counter `pc` walks through `begin_stream`, `stream_next`,
`stream_finish` and `recover_failed_request`, each native call is the action of
GpuGraphs conjoined with the session's assignments, and every `?` in the code is
a disjunct that aborts the call with what was assigned so far. The data of the
planes is abstracted to what they have absorbed: a plane of a parity holds
exactly a prefix of the current request, or something foreign. A chunk's width
is the number of positions rounded up to `WidthUnit`, as `attention_width` does
(the cap at the context is above the bound on positions).

**SessionApi.** What a caller of the session sees: which calls are refused, what
success and failure leave (`healthy`, stream active, token, remaining). It is the
abstract specification of the session, checked as `ImplementsApi` of
Qwen35Session under the mapping written at the end of that module, and the
session the server is composed with.

**OpenAiServing.** `run`'s accept loop as a program counter over SessionApi:
admission, the one-call JSON answer, the SSE stream with role, content, finish,
error and `[DONE]` events, `token_piece`'s pending ids, disconnects, recovery,
and all the returns that end the server. Clients may leave at any send.

**Residency**, **ResidencyOracle.** The simulator as the functions it is made
of: `admit_corpus`, pooling, `Replay` of each of the ten policies as a state of
tables folded over the stream, the sweep over budgets, the jackknife and
`decide`; and the oracle, which replays lists of sessions, keeps dictionaries
and adds up. `SimulatorNext` walks through one sweep row, so that a failing step
and its error code are states of their own. Counts have the bounds of the code,
`truncating` rounds as it does.

### Coding and prompts

**VerificationLoop.** `run_valid_file` for several concurrent runs: evaluation,
candidate, build / targeted / test stages, repair, iteration limit, result file,
then `remember` as a read and a write of the shared profile, and `load_context`
as a read. A tree is the set of patches applied to it; a command's outcome is a
choice, and a `git apply` that is cut off may have changed the tree. Runs share
the profile; each has a result file of its own.

**PromptEvaluation.** One evaluation of the Align evaluator from `run_rows` down
to the processes of a command. `pc` is where the evaluator is, `op` the command
at hand: the two snapshots of the inputs, the generation worker, git setup,
sandbox probe, baseline, observation, patch check and application, observation,
validation, observation. Every one goes through the same supervisor: `Collect`
and `Watch` (the loop of `collect`: deadline, signal, error, then
`prompt_scope_capture.step`), the cleanup passes `Scan`, `Kill`, `Reap`,
`Release`, each of which may fail or meet the deadline, `Drain`, and `Judge` with
its last look at the signals. A report is accepted or the scope goes to the next
owner: the attempt, the row, the evaluator, each of which runs the cleanup again,
and the last of which gives up and prints the paths. Around it `Create`,
`WriteInputs`, `WritePatch`, `Conclude`, `RemoveScratch`, `Sweep`, `Salvage` and
`Publish` make and remove what an invocation owns, and any of them may fail.
Beside the evaluator, processes `Fork`, `Exit` and write, the clock passes a
deadline (`Tick`) and one cancellation arrives (`Arrive`). `Releases` is the
kernel's answer that a scope holds no process, which the code takes for its
certificate. Abstracted: the two output streams are one flag, the git commands of
a phase are one command, and the resource watch is one of the interruptions.

**PromptScore**, **PromptGate**, **PromptEvaluator.** The Python evaluator from
admission to its last file. PromptScore is the arithmetic of the score: gain,
repairs, paired times, the three verdicts. PromptGate is the gate's recount of a
document. PromptEvaluator runs the rows: inputs, snapshot, drift checks, seeds,
one attempt or a repair, rows, attestations, checkpoint and truncation, and the
ways a run is aborted, while the world (environment, inputs, files of others)
changes between any two steps.

**PromptMeasurement.** One measurement through the adapters: what a child's exit,
its descendants, the seals and the cleanup become in the document, and what
`prompt-evaluate.py` and the gate say of that document, including when one
member of it was altered after it was written.

**PromptActivation.** The history of activations: `Accepts` and `RollsBack` with
every status they return (`AcceptStatus`, `RollbackStatus`, in the order of the
code), the result file they create first and may leave torn, failures that are
documents too, and the chain of three that the gate takes (`ChainAdmitted`).
Around them, documents are copied, removed, written by hand.

**CodingTask.** `run-coding-task.py` for one candidate: what it refuses of its
arguments and inputs, the copy of the fixture and its pinned revision, the
sandbox with its namespace descriptor and probe, baseline validation, patch,
second validation, and the comparisons of the tree around each; a git command may
fail wherever one runs. Beside it runs the validation command, a set of processes
(`CommandForks`, `CommandExits`) that open, copy, hand over and close descriptors
and write, create, link, rename and unlink files between any two steps of the watch.
The watch is `check_validation_resources` look by look: it takes the processes once
(`ProcessUsage`), lists the directories (`DirectoryListed`) and counts what each
entry names by then (`EntryCounted`: once for each name, whatever was counted
before), then lists the descriptors of the processes it took
(`DescriptorsListed`), reads the link of each (`LinkRead`) and counts what it is open
on by then, unless that was counted (`DescriptorCounted`), and compares with its
limit in the middle of each scan and at the end.

### Tools

**ProcessTree**, **ChildBoundary**, **FreshChildren.** ProcessTree is Linux, not
the repository: processes fork, leave a group, exit, are reparented and reaped,
and a scan of `/proc` lists first and reads afterwards. ChildBoundary is ten ways
in which the Python tools run a child, kill what it left and conclude that
nothing is left; FreshChildren five more, of the image.

**SourceTree**, **SourceCapture.** SourceTree is a checkout in which somebody
edits, commits, cleans and takes changes back; every path has a change time
that never returns. SourceCapture is seven programs that read it, each the
sequence of reads and comparisons of its source (`IdentityProgram`,
`TaskProgram`, `GateProgram`, ...), with a walk that takes files one by one.

**QualificationRecords**, **NumericTraversal**, **GpuQualification.** The rules of
the record reader (`ValidCase` for a row, `ValidEvidence` for the evidence with
its recomputed aggregates, `Replays` for both with the retained files), the closed
forms of the sizes of the native streams against the loops that produce them, and
the qualifier: admission with change times, preparation, device lookup, cases with
their children, recheck, cleanup, staging, publication, with a failure possible at
every step. A row is assembled from what a child was seen to do (its terminal, its
exit and signal, its output, its leftovers) and the reader is asked about it at
once, as `assemble` does; a child whose result is lost after it was started is
recorded as none.

**ImageLaunch.** Three chains of programs that start the fresh image (launch,
boundary, adoption) as sequences of reads, comparisons and executions over files
that are reinstalled, a HEAD that moves, and processes left over from a build
that write into the directories of the next step. The launch first tries its
platform: the versions of the tools, a namespace, an execution, a leaf and a group,
each of which may leave something behind when it is refused.

A program is started in one of three ways, and the steps tell them apart. The tools
(`TestsTools`), the dispatchers and the git that is kept are started by the descriptor
that was compared, the worker's inputs and the rows run from a copy that was. The
bootstrap is started by its path and compares itself. The rest is started by its path
and not compared again (`ByPath`): the programs of `/runtime` behind the forwarders
(`tool-forwarder.c`; `StartsTarget`), `bwrap` and `mount-guard` in the namespace
probe (`ProbesNamespace`, `GuardsMounts`), the git of the adoption's dispatcher, and
the `bwrap` of the build. The interpreter (`StartsPython`, and in `ProbesGroup`) and
`true` (`ProbesExecution`) are started as `/usr/bin/python3` and copied from
`/usr/bin/true`, which no entry of the manifest names: the bindings of the
`Dockerfile` name `/usr/bin/python3.12`. They are files of their own, `disk["system"]`.

Definitions named after another with a plausible difference
(`ContentAdvancesKeepingSlot`, `SameFiles`, ...) are mutants. No specification
uses them; substituted for the definition below which they stand, each makes a
property fail, which shows that the property depends on the code.

## 3. Runs

| run | module | question | bounds | states |
|---|---|---|---|---|
| gpu_cache | MCGpuGraphs | the owner with the prefill cache, any client, every native call may fail | 2 entries, 2 prefill keys with different extents, 1 decode key, 2 graphs a slice, generation to 5; entries symmetric | 885 k |
| session_plain | MCQwen35Session | the session over the plain owner: state between calls, contract, every call returns | 2 chunks, 3 tokens, width unit 3 | 139 k |
| session_cache | MCQwen35Session | the session over the cache: each request keeps to itself | 2 entries, 2 chunks, 3 tokens, generation to 12 | 235 k |
| serving | OpenAiServing | the server over the contract | 5 tokens, 2 pending ids | 3.6 k |
| loop | VerificationLoop | verdicts, memory, termination | 2 runs, 2 tasks, 2 iterations | 962 k |
| candidate | MCCandidates | a patch under a command that fights its runner, and a cache policy in two implementations | 2 files, 2 further files, 3 names in two directories, a process and its child with one descriptor each, limit 1, 4 moves a command, further files symmetric; 2 layers of 3 experts, about 1,000 corpora of up to 12 demands, all ten policies, both orders, with and without reset | 896 k |
| prompt_rows | PromptEvaluation | processes, cleanup, verdict, publication, termination | 2 invocations, 2 processes at a time | 671 k |
| evaluator_rows | PromptEvaluator | what a score rests on, what the gate recounts, what an end leaves | 1 task, 2 samples, 2 arms, 1 repair, 1 change of the world, durations 1 and 2 | 3.27 M |
| documents | MCPromptDocuments | what one tool writes the next one admits; the history of activations | 1 altered member; 4 paths, 3 ids, 3 variants, 2 scopes, 4 decisions, 2 ancestors named, 2 evaluations, 1 mishap; paths symmetric | 1.79 M |
| child_boundary | FreshChildren | what is alive when a caller reports a clean end | 15 callers, 3 processes of which one may refuse a signal, 1 round of a loop that looks at a deadline | 1.72 M |
| source_capture | MCGpuQualification | of what moment an accepted record is; what qualification evidence says | 7 readers, 2 tracked files and a stray one, 2 edits; 4 cases, 2 writes into the input | 3.08 M |
| image_launch | MCImageLaunch | one image along a chain, and what is started beside its checks; the described compiler | 2 images, 2 commits, both symmetric, 3 chains, 3 replaced files, 2 edits, 2 writes of left processes | 4.01 M |

MCCandidates, MCPromptDocuments and MCGpuQualification each put models side by
side that share no state but belong to one question; a behaviour is of one of
them.

### Why the bounds are enough

*gpu_cache.* Two entries and two prefill keys give hits, misses, eviction and an
entry that comes back after another one computed; two graphs a slice give an
abandoned build followed by a good one, and a full slice. The generation needs
five steps for a result to be stamped, overtaken, overtaken again and to meet
the limit. Not run: an owner with a retained workspace and without the cache, and
both decode parities beside the cache; `ReadableIsLatest`, `PoisonedForGood`,
`OneBackendKeyPerSlice`, `WorkspaceIsSound` and the types are proved for every
mode, as are the properties of the session over it; session_plain drives both
parities.

*session.* Two chunks give the first and the last chunk with a different width;
three tokens use both decode graphs and return to the first, so both parities are
read after being written by the other.

*serving.* Five tokens outnumber the two pending ids that stand for the code's
eight, so that the limit is met in the middle and at the end of a stream.

*loop.* Two iterations give a repair and a rerun that is the last one; two runs are
enough for a lost update, two tasks for a foreign event. More runs, tasks and
iterations are covered by the theorems.

*candidate.* Four moves are enough to change a file and change it back with a look
in between; to create a file, fork after the processes were taken, unlink the file
and let the parent close it, so that only the child holds it; or to link a file that
is counted and unlink its first name. The limit is less than what two further files
hold. A file goes from one of two directories to the other, and two processes with
one descriptor each hand one over. Further files are only
compared, and may be exchanged (`Interchangeable`). In the simulator two layers exercise the order of
demands and the edges of a layer, three experts and a budget of about two blocks
force evictions with ties, experts of one size and of several are both there, and
three short sessions have rankings that change when one of them is left out, so
that folds of the jackknife disagree. The corpora contain every kind of refusal.

*prompt_rows.* Two processes are the root of a command and a child that outlives
it, and since a reaped process makes room for another one, forking goes on for
ever. Two invocations let a leftover, a late signal or an unreaped process of the
first meet the second.

*evaluator_rows.* Two samples alternate the order of the arms; one change of the
world at any step separates any two observations; two durations make medians that
differ. What happens between two tasks is the case of a finding and needs two of
them; the run has one, as each task takes its own baseline.

*documents.* One altered member is enough because each rule looks at one member or
at two that agree. Four decisions are a baseline, an acceptance, a rollback and
one more, so that a line has at most two contents between its ends, which is what a
rollback may name there (the code: 256); three ids let an id be used twice and the
gate still find three.

*child_boundary.* Three processes are a child, what it forks and what that forks:
a chain in which the middle one ends while the table is read, which is the case
every cleanup is about.

*source_capture.* Two edits are a change and its return, or a change of HEAD and one
of a file. Two tracked files are one read before and one read after the edit. Four
cases are two pairs of a CPU and a GPU case. Two edits did hide something: an
earlier form of `AcceptedIsOfOneMoment` did not ask where HEAD was, held in this
run, and was refuted with four edits (a baseline, one file) and with five (a
snapshot, two files) when its proof was tried. Its premises now name HEAD, and it
was checked for single readers with three and four edits.

*image_launch.* Three replaced files are one before the check, one between check and
use and one back, so that a program started by its path may be another between two
comparisons that both pass; two images tell the sealed one from another. Images and
commits are only compared, and may be exchanged.

### Properties

- *gpu*: `ReadableIsLatest`: a readable slot belongs to the graph computed last over
  the current content, the remembered pointer included. `WorkspaceIsSound`:
  nothing named is gone (`ReferencesAlive`), nothing computes on a layout that
  leaves a live graph out (`LiveGraphsBound`), no K/V row of another chunk is
  written (`RowsWrittenAreItsOwn`), one owner of the PREFILL alias
  (`ActiveEntryOwnsAlias`). `PoisonedForGood`. `OneBackendKeyPerSlice`.
- *session*: `SessionIsSound`: types; a failed step leaves the cursor where it was
  (`StreamStateIntact`), remembered decode keys are the device's
  (`DeviceAgreesWithSession`), a healthy session has no active entry and no
  readable slot (`HealthyIsQuiescent`). `RequestKeepsToItself`: a token is chosen
  from a computation that continued exactly this request, and a chunk computes
  with its own rows. `ImplementsApi`, `CallsReturn`.
- *server*: `ReadyWhenAccepting`, `NoPartialSuccess`, `StreamIsOrdered`,
  `FailureIsReported`, `EveryRequestEnds`.
- *loop and memory*: `VerdictIsEarned`, `MemoryIsTruthful`, `RunsFinish`.
- *candidate*: `ScoredIsOfThePatch`, `NothingOutlives`; `WatchIsExact`: the sum of
  the watch is at least what kept a name, or was held by one descriptor of a process
  it had taken, ever since that name went, and counts nothing twice unless a file had
  two names or was given another. It says no more, because the code does no
  more: it overlooks a file that a process holds which was forked after the
  processes were taken, whose descriptor moves from one process or number to
  another, or whose name moves, and it counts a file with two names twice;
  `OracleAgrees` (refusals, stream, hits, bytes, sweep, verdict, jackknife) and
  `VerdictIsSound` (every demand is served once; nothing beats the compulsory
  floor or overfills its budget; belady is a bound where experts are of one size;
  the winner wins without any one document).
- *prompt rows*: `WritersAreOwned`: while a process lives it is in the hands of a
  supervisor or a retry, and nothing it may write to has been taken away, until the
  evaluator says that it gave up. `VerdictIsOfTheTree`. `PublicationIsSound`: no
  publication after a cancellation or with leftovers. `EvaluationEnds`.
- *evaluator rows*: `ScoreRestsOnOneInput`, `GateAdmitsImprovements`,
  `ResultIsWhole`, and `OthersFilesSurvive`, an action property.
- *documents*: `DocumentsArePassedOn`, `ScoredIsEarned`; `LineageIsKept`: decisions
  rest on what was measured, lines are of one scope and one origin, every decision
  can be undone, and the gate takes exactly the line the commands make.
- *children*: `CleanupIsProved`, `FreshReturnsAlone`.
- *readers*: `BundleIsOfThePinnedCommit`, `AcceptedIsOfOneMoment`,
  `QualificationIsEarned`, `ResultIsPublishable` (whatever fails, the evidence is
  one the reader admits, within what was reserved, unless a child reported more
  memory than the profile allows).
- *launch*: `CompilerIsTheDescribed`; `LaunchIsOfOneImage`: the manifest and what was
  started by a compared descriptor or from a compared copy, with the bootstrap, are
  of the sealed attestation's image. What was started by its path is, unless its file
  was replaced between that start and each comparison of it (`ReplacedAround`); without
  that exception TLC refutes the clause for each of those starts. Nothing is said of
  the interpreter and of `true`.

The properties of the readers, the children and the launch say under which
premises of the environment they hold (nobody takes a change back, no process
scans at a bad moment, no process was left behind): the premises are the places
where the code has no answer, and several of them are findings.

Types: the type definitions of GpuGraphs, PromptActivation and Qwen35Session (in
`SessionIsSound`) are checked and proved; those of OpenAiServing,
PromptEvaluator, SourceTree and ImageLaunch state the ranges of the variables for
the reader and are in no run.

### Findings

Where the code and what is said of it disagree. Each is written out in
`PROJECT.json` with the line of the code and the line it contradicts. Some have a
property of their own, stated in the module and not kept by the code, hence in no
run: its name is given.

1. Without the prefill cache, recovery invalidates the PREFILL graph even when it
   was never prepared; the call is refused, and a healthy device ends the server
   (`RecoverableIsRecovered`).
2. If cleanup fails after a complete stream, the server returns before the error
   event (`StreamEndsWithVerdict`).
3. The profile is called append-only; an unreadable one is overwritten as if empty,
   and two runs that finish together lose an event (`ProfileIsAppendOnly`).
4. `evaluate_file` can leave before it prints survivors and the retained workspace
   (`LeftoversAreReported`).
5. The Python evaluator compares environments within a task, not across tasks
   (`EnvironmentIsOne`).
6. A row that ends with TIMING keeps records that no row refers to
   (`EveryRecordIsReferenced`), and
7. is attested COMPLETE although it does not exist.
8. The Python evaluator admits only a BASELINED parent, not an accepted or rolled
   back one.
9. A truncated edit summary skips the checks that are called unconditional; the
   gate then refuses what the evaluator scored.
10. Absence of descendants is one scan of `/proc`: a process whose parent ends
    between the reading of the two entries is not seen.
11. An `OSError` while a generation child is captured drops the result of its cleanup
    (`CleanupIsTold`).
12. `_run_row` accepts a row whose descendants it neither waited for nor judged, when
    the condition of its loop is the first to see the exit.
13. `_boundary_dispatch` waits out its whole deadline when both pipes end before the
    child does.
14. A control cgroup whose leaf cannot be opened is never removed.
15. The baseline recorder, 16. the source verifier and the snapshot helper, and
    17. the gate read HEAD and the status in an order that leaves a gap: a commit
    made in between is not seen.
18. `belady` is called optimal for misses; with experts of several sizes it is not.
19. Simulator and oracle refuse a trace with two faults for different ones of them.

Not findings but worth knowing: nothing compares the id of a decision with those of
its line, and a line with an id twice cannot be rolled back across
(`IdsAreUsedOnce`). A GPU case whose native report says fused attention passes the
observation of the qualifier but not the reader's rule for a row, so that the
qualification ends in `assemble`. A case over the memory budget of its profile is a
row like another until publication, where the reader refuses the evidence and all
of it is lost.

### Fairness

`CallsReturn` assumes weak fairness of the session's own steps (`Work`): the
session is one thread that never waits for anybody, and a native call returns
with success or failure. Nothing is assumed of the caller: it need not call.
`EveryRequestEnds` assumes weak fairness of the server's steps once a connection
is accepted (`Serve`), no fairness for clients to come, and that a send returns,
with success or failure. A client that neither reads nor closes, and a native
call that hangs, are outside that assumption, as the single thread of the code
has no answer to them either. `RunsFinish` assumes weak fairness of each run:
every command has a time limit in the code. `EvaluationEnds` assumes weak
fairness of the evaluator's own steps (`Evaluate`) and of the clock (`Tick`), and
nothing of the processes, which may hang, fork for ever and never close their
output: every wait of the code has a deadline, and the model lets a loop go round
as often as it likes before the clock passes it. The Python tools are checked for
safety only: each is a straight program whose waits have deadlines, and what is
hard in them is what they conclude.

### Deadlock

The two runs of Qwen35Session check it: the session can always be called. The
others turn it off because those systems stop: a poisoned owner refuses
everything, the server returns from `run`, and a run, an evaluation, a reader, a
caller and a chain come to their end.

## 4. Proofs

All theorems are of the specifications that TLC checks, for every value of the
constants that satisfies the named assumptions of their modules. TLC found each
invariant, the strengthened one included, to hold on the instance first.

**Graph owner** (`GpuGraphsProofs`; all entries, keys,
extents, limits and modes that satisfy `ConstantsAssumption` and
`SentinelsAssumption`).

- `ReadableIsAlwaysLatest`: `Spec => []ReadableIsLatest`. The invariant is not
  inductive: it says that what is readable is current but not why an old stamp
  cannot become current. `StampsAreFresh` adds that every stamp, in the aliases
  and in the remembered slot, is at most the present generation, that a stamp
  equal to it belongs to the graph whose outputs the workspace holds, and that a
  remembered slot was read at the present generation. Every action either keeps
  the generation and the stamps, advances it (so that every stamp becomes old)
  or stamps the graph it just computed. At the last generation the owner is
  poisoned instead, which is the case the numeric hazard is about.
- `PoisonIsForGood`: `Spec => PoisonedForGood`, by cases on the actions; each
  tests the flag before it changes anything.
- `TypesAreKept`: `Spec => []TypeOK`. The inductive invariant `TypeInv` adds
  `PreparedArePlaced`: a graph that is prepared has a position in its slice,
  without which nothing bounds the position a compute, a save or an anchor
  copies. One lemma for each operation, one group of the conjuncts a step.
- `SlicesHaveOneBackendKey`: `Spec =>
  OneBackendKeyPerSlice`. `AnchorInv` says that the graph of every alias and of
  every saved entry is at the anchor of its slice, and that the PREFILL alias is
  of the active entry, so that saving it saves a graph of that slice; it needs
  `PreparedArePlaced` of the types. An anchor is taken once: a slice whose anchor
  is unset has published nothing.
- `OwnerKeepsWorkspaceSound`: `Spec =>
  []WorkspaceIsSound`, in every mode. `SoundInv` adds to the parts of the property
  that the kinds use slices apart, so that a reset of one leaves the others
  (`ContextsApart`); that saved graphs are alive as aliases are (`EntriesAlive`);
  that the rows of a prefill graph are registered before it is prepared, and that
  the graphs built and abandoned in its slice before asked for the same rows,
  because a registered extent is not replaced (`RowsRegistered`); and that
  registered rows that are valid are those on the device (`RowsFresh`). The last
  two say why the device has the right rows, which the property alone does not.

**Session** (`Qwen35SessionProofs`; every order of entries, number of chunks and
tokens, width function, and mode that satisfies `SessionAssumption` and
`NamesAssumption`). The proof is of the composition: the session's steps are the
owner's calls, so the theorems of the owner are used and not proved again.
`SessionFitsItsOwner` proves the assumptions of GpuGraphs from those of the
session, and `SessionsDriveTheirOwner` that every step of the session is a step of
the owner or leaves it alone; `OwnerInv` is then the owner's own inductive
invariant, kept by its own lemmas (`Owner!NextIsTyped` and the like, through
`Owner == INSTANCE GpuGraphsProofs WITH ...`), and
`SessionsKeepTheWorkspaceSound` follows.

- `SessionsStaySound`: `Spec => []SessionIsSound`, and `RequestsKeepToThemselves`:
  `Spec => []RequestKeepsToItself`, from one invariant, `SessionInv`. What the
  properties leave out and a step needs: where each operation may be
  (`ControlInv`) and within which bounds its loop is (`CursorInv`); that in the
  middle of a chunk or of a token the state which is read has absorbed what came
  before, and no row after the next one is another request's (`ResidentInv`:
  `Holds(parity, n)`), which says why recovery must clear both parities and the
  rows; that the graph which is fed, computed and read is the one for this step
  (`KeyInv`, `PlaceInv`); that a decode graph that is prepared is known under its
  key, and one that is known is prepared, outside of its replacement (`AgreeInv`);
  and how far a recovery got (`RecoveryInv`), so that the session becomes healthy
  on a device that is quiet.
- `SessionsImplementTheApi`: `Spec => ImplementsApi`, the refinement of SessionApi,
  by a simulation step for each operation. With `ContractIsKept` of the server it
  closes the chain: what is proved of the server over the contract holds of the
  server over the session, for all constants of both.

**Server** (`OpenAiServingProofs`; every token budget and pending limit). Its
theorems rest on one inductive invariant of five parts, because the properties
speak of what the client saw and the session did, and not of the program counter
that links them:

- `SessionInv`: the session between calls and within one, whoever calls it: an
  operation at work has given up health, a step at work has a token left;
- `ControlInv`: which operation is at work and whether the session is healthy at
  each `pc` of the server;
- `OutcomeInv`: where a failure and a disconnected client can be on their way;
- `StreamInv`: which events were sent when `pc` is at each event;
- `TokenInv`: a generated token was sent, is pending or is the one at hand, and a
  stream that did not stop at an end token has produced its whole budget.

`ServingStarts`, `ServingStays` (a step for each action) and `ServingIsInvariant`
give the invariant; `AdmissionIsAlwaysExclusive`, `ReadyWheneverAccepting`,
`SuccessIsComplete`, `StreamIsAlwaysOrdered` and `FailureIsAlwaysReported` follow
from its parts. `ContractIsKept` says that the server's steps are steps of the
session's contract or leave it alone, which is what makes it sound to check the
server over SessionApi and the session against it separately.

**Loop and memory** (`HistoryProofs`, first part; any runs, tasks and iteration
limits).

- `VerdictIsAlwaysEarned`: `Spec => []VerdictIsEarned`. What a run reports is
  about its tree, and its tree is about where it is: `Before` says at each place of
  a run what is in the tree, what passed on it and whether it may still repair;
  `Earned` says what a status needs. `OthersAreLeft` reduces a step of one run to
  that run, so that the invariant of a run is proved without the others.
- `MemoryIsAlwaysTruthful`: `Spec => []MemoryIsTruthful`. `Holds(events, at, told)`
  is said of the profile and of the copy that each run holds between its read and
  its write: every event is what its run told, its run is done, and no run is in it
  twice. A run that writes has not been remembered in any copy, because it is not
  done. `ContextsInv` says of what each run was given that it is of the run's own
  task and still what its author told; an event that a later write loses from the
  profile stays true in the contexts it was given to.

**Activations** (`HistoryProofs`, second part: the two histories that are kept in
files and that no lock protects; any paths, ids, variants, scopes and bounds).

- `LineageIsTyped` and `LineageIsAlwaysKept`: `LineageSpec => []LineageIsKept`, from
  two invariants. `LineageInv`: types, decisions, and `DigestsExist`: a digest that a
  file, an activation or an evaluation carries is that of a content that was
  written. A file may be copied anywhere, so nothing can be said of a path;
  everything is said of contents, which only grow. `RetainsKeeps` proves the
  invariant once for whatever writes a content that is `Sound`, and acceptance and
  rollback only have to show that theirs is.
- `HistoryInv` says of each content what its operation promises (`Decided`) and on
  what its variant rests (`RestsOn`): on the baseline its line began with, or on the
  acceptance in that line of the evaluation it names, over the parent that was
  measured. A line is the least set that holds a content and the parents of all it holds
  (`LineOf`), so that lemmas about it need no recursion: it is within what was
  written, it goes on through a parent (`LineFromParent`), and later contents leave it
  as it is (`LinesStay`).
- A rollback walks the paths that its request names. That the walk ends in the
  current activation's line (`RolledBackFollows`) is proved for requests of any
  length, by an induction that is made of the well-foundedness of `<`
  (`LeastOfSome`, `OneAfterAnother`): the library's induction theorems themselves take
  an operator as a parameter, which the provers here cannot instantiate.

**Measurements** (`HistoryProofs`, last part; any adapter, task and outcome, without
the enumeration of tasks that the run makes).

- `DocumentsAreAlwaysPassedOn` and `ScoredIsAlwaysEarned`, `MeasurementSpec => []...`,
  from `MeasurementInv`. `Concluded` sorts the ends of a run by what the except
  clauses make of the locals: an oversized prompt, an error, a refusal for a code, a
  word of the runner; in each it names the members that go together, whatever the
  cleanup says afterwards (`FlagsConclude`). The flags matter only where a document is
  made, where they outrank the outcome. From there on it is a matter of three lists of
  conditions: `StateIsValid`, `OutcomeMembers` and `RefusalIsValid` show for each sort
  that the evaluator's hold, and each case of `Unscorable` is used where one of them
  would not. That the gate's follow from the evaluator's needs no adapter at all, but
  for the code of a refusal being one that is known, which is why it also holds of
  altered documents (`DocumentInv`).
- `EarnedOutcome`: a child may be alive only where the outcome is an error, and a pass
  was said by the runner, of a patch whose digest was recorded.

**Prompt evaluation rows** (`PromptEvaluationProofs`; any processes and any number of
invocations).

- `WritersAreAlwaysOwned`, `VerdictIsAlwaysOfTheTree` and `PublicationIsAlwaysSound`
  from one invariant, `EvaluationInv`, because what is left, what is said and what
  was asked for are decided at different places. `NobodyElsewhere`: outside the
  supervised stretches nothing is alive, unless the evaluator gave up, which rests
  on `ReleasedIsEmpty` (only an empty scope is released, and it stays empty, since
  a process comes from a live one). `StorageStays`: until an attempt is concluded,
  what its processes write to is there. `MeasuredIsClean`: an invocation goes on to
  be published only if its removal and its retirement both succeeded.
  `SignalCounts`: a cancellation that a supervisor took, or has still to look for,
  is looked for again, has made the command fail, has made the invocation fail, or
  has made the evaluation fail; there is no place between the four where it can be
  lost. `BaselineFailed` carries the first half of a verdict to its end.

**Prompt evaluator** (`PromptEvaluatorProofs`; any corpus of tasks, any number of
samples, durations, observers, extra files and changes of the world, and any
acceptance policy that satisfies `ScoreAssumption` and `PolicyAssumption`). Four theorems from one
inductive invariant, `EvaluatorInv` (`InvariantHolds`).

- `ScoresRestOnOneInput`: `Spec => []ScoreRestsOnOneInput`. The code compares an
  observation with the baseline of its task, and the baseline is dropped where the
  task changes. `SeenInv` says that what the running attempt has seen is in the
  streams and is the baseline once it was checked; `TriesInv` and `RowsInv` that every
  attempt which ran is backed by an observation before and after that were the same
  (`Backed`), that all attempts of a task saw the same, and that the one that runs must
  see it too. The last is what makes it inductive: two rows of a task lie far apart in
  a schedule that alternates the arms.
- `ResultsAreWhole`: `Spec => []ResultIsWhole`. An evaluation ends from each of its
  places, with an attestation more than rows or with as many, according to the code
  of the error (`PlaceInv`, `Lengths`); what an attestation names is of its own
  invocation and is in the streams (`AttestedInv`). `QuietInv` says where nothing can
  be left behind any more.
- `OthersFilesAlwaysSurvive`: `Spec => OthersFilesSurvive`, from `FilesInv`: what the
  evaluator owns is what it wrote.
- `ImprovementsAreAdmitted`: `Spec => []GateAdmitsImprovements`. Two programs that
  share no code compute the same. It needs that the streams hold nothing that is not
  accounted for (`ExactInv`: an observation or a request of no attempt would be refused
  by the gate), what the attempts of a row may look like (`ShapeInv`), and that the score
  is the verdict on the rows of the whole schedule (`ScoreInv`). The gate wants an
  input of every task and no more inputs than invocations; that there are no more is
  an injection of the inputs that the streams name into the invocations
  (`CorpusCovered`). That medians and totals agree needs that a set has a
  greatest member and that the fold of a sum is a sum, which are proved here
  for the sets at hand (`HasGreatest`, by the well-foundedness of the subset order).
  The premises of the property, one environment from the preflight to the end and no
  attempt beyond the ceiling, are used by the proof, each at one of the gate's checks
  that the evaluator does not make.

**Coding-task runner** (`ToolProofs`, first part; any fixture, allowed edits, limit and
number of moves of the command).

- `ScoresAreOfThePatch`, `WatchesAreExact` and `ExitsLeaveNothing` from one
  invariant, `Inv` (`RunnerInvariant`). `TreeInv` says what is known of the tree at
  each place: the pinned one until the first validation starts and again when the
  patch is applied, the patched one when the second starts, and nothing while a
  command runs; the checks afterwards (`PristineIsPinned`, `AllowedIsPatched`) are
  shown to bring back the whole tree, with no file left, changed or held. `HeldInv`
  says where the namespace's descriptor and the temporary directory are.
- `WatchInv` is about a count that is taken while its object changes (`Fits`). What
  was counted is at least what was seen, and exactly that while no file had two names
  or got another: then no name that is still to be met is of a file that was
  seen (`Once`). A file that has kept its name is seen, or that name or its directory
  is still to be met (`Unmet`); one that a descriptor has held ever since its name went
  is seen, or that descriptor, or the process, is still to be met. The second is
  only of the processes that were taken at the start, and of a descriptor that stays
  where it is: the invariant fails for a later fork, or a copied descriptor, at the
  step that makes it.

**Contained children** (`ToolProofs`, second part; any number of processes, any who
refuse signals, any bound on the passes of a loop).

- `CleanupIsAlwaysProved` and `FreshAlwaysReturnsAlone`, `ChildSpec => []...`, from
  `ChildInv`, which speaks of the table, of a scan of it, and of the callers.
  `TableInv`: the parent of a process that is there lives and is older, or is the
  owner. So the eldest who lives is the owner's own child (`EldestIsOurs`), and an owner
  that has no child but zombies, and reaps them, leaves nobody (`NobodyLeft`): that
  is what the control and a row rely on.
- `ScanInv` is what a scan of `/proc` tells although the table changes under it.
  `Listing`: entries are read in the order of the ids, so the parent that was read of
  an entry was read itself before, and every entry is under the owner
  (`ReachedIs`: a scan misses nothing because of a link it read too early or too
  late). `Strays`: a process that was not listed has a forebear that was, and is in the
  group only if that one is. Hence a scan in which nobody lives leaves only
  processes forked behind its back by one who ended before it was read
  (`EmptyScan`, `EmptyGroup`).
- Of the callers: `ToolInv` (a tool that looks for descendants has reaped its child),
  `CodingInv` (before it returns, the runner has killed everybody it listed),
  `ControlInv` (as long as no error is on its way, nobody was killed, or the child was
  terminated with force, and the leaf that was seen empty stays empty) and `RowInv`
  (a row that saw the exit at the head of a pass, and then nobody running, is alone).
  The owner's own steps only reap zombies and kill (`OwnerActs`), so that the table's
  part of the invariant is proved once for all fifteen callers.

**Launch of the image** (`ToolProofs`, last part; any number of images and commits, of
replaced files, edits of the checkout and writes of a process that was left).

- `LaunchesAreOfOneImage`, `LaunchSpec => []LaunchIsOfOneImage`, from `ImageInv`.
  `StepsOfTheChain` says once, for the 53 kinds of step of the three chains, what a step found
  if the chain goes on (`Learns`) and that it changes nothing that was read before. What
  was read never changes, whoever replaces the files, so that the rest is a matter
  of the order: `OnLaunch`, `OnBoundary` and `OnAdoption` say from which step on
  each reading is known to be of the attestation's image. That is after
  the whole tuple was verified for the supervisor, and for the bootstrap, which is
  started by its path, only after it has verified itself. `TrialInv` follows what the
  probes of the platform make.
- What is started by its path needs more than the order. `DateInv` numbers the
  contents of the runtime and of the tools by how often they were replaced: two readings
  with the same number are of the same bytes (`MarksKeepDates`, `InstallKeepsDates`).
  With `PassedInv`, that every step that was passed has read its file, a start with
  the number of some comparison is a start of what was compared
  (`StartedIsCompared`).
- `CompilersAreTheDescribed`, from `BuildInv`. A file of the build whose time is still
  what it was when it was looked at has been read as it was then (`OnBuild`); both are
  looked at again after both were read, so the pair that is copied was there
  together, at the first look (`LookedAt`). Between the copies and their description
  nothing protects them but that nobody is there: that is the premise `~touched`.

**Readers of a checkout** (`SourceCaptureProofs`; any paths, any number of edits, any
of the readers).

- `BundlesAreOfThePinnedCommit` and `AcceptedIsAlwaysOfOneMoment` from one invariant,
  `CaptureInv` (`CapturesAreTracked`). The properties speak of the end, when the
  moment they promise is long past. What makes them inductive is that each premise
  can only become false (`EditLeavesTraces`: an edit has a new change time, and a
  value that comes back is seen to have been there), so that at every step one may
  ask what would follow if it still held at the end.
- The identity (`KeptInv`, `WalkInv`, `HeldInv`): what is kept open is as it was if its
  change time is. When the first capture is held the checkout is that of the
  commit, *or* a path has been written since it was visited; then the second walk
  marks it newer and the comparison fails (`Unmoved`). The descriptor of the root is
  needed for the names alone.
- A snapshot and a capsule read twice, and the end of the first reading is the
  moment: a file that differs there and agrees later was given back a value it had
  (`TaskInv`, `AdoptionInv`). In a baseline the status before and the one after play
  the two parts (`BaselineInv`): a file that has the value of the commit again had
  it already at the first status.
- The proof attempt showed the property as first stated to be false beyond the
  bound of the run (section 3); each premise it has now is used by the proof.

**Qualification** (`SourceCaptureProofs`; any number of cases, of input files and of
writes into them).

- `QualificationIsAlwaysEarned` from `QualInv`. What is published passed the reader's
  own checks, which the last step repeats; the theorem is about what no record says.
  `InputInv`: a file that was admitted has the admitted bytes as long as it has its
  change time, so that if every file opened by path has it at the last recheck, every
  child has read admitted bytes, whatever was written and taken back meanwhile.
  `CasesInv`: a second case is accepted only with a device, later ones only with the
  same, and only if its plugin was the only one. `VerdictInv`: a record can pass
  only with the verdict of the cases, when all were accepted and no directory of
  theirs is left, and from then on only get worse; it says that the root was
  removed only when it was.
- That a row which passed has been compared and had all of its work done by the
  device is taken from the reader's check of the row (`RowsAdmitted`) and from what
  rows the writer makes at all (`AssembledIsRow`, `SaysOf`).
- `EvidenceIsAlwaysPublishable`, `CaptureSpec => []ResultIsPublishable`: wherever a run
  fails, what it hands to the publication is admitted by the reader, a separate
  program with hundreds of rules, and fits the number of files it reserved, unless a
  child reported more memory than the profile allows. It rests on both invariants
  above and on `EvidenceInv`, whose parts are found at the places where writer and
  reader could disagree. `FilesInv`: the roles that are retained so far are those that
  the evidence needs at this place, and what was reserved before the cases were prepared
  is enough for all that can follow; the count is tight (`RoomForAll`). `RowsInv`: every
  row, of a case that passed, failed (`FailedRowIsValid`) or was never run
  (`MissingRowIsValid`), is one the reader takes, and so is the list of rows after one
  is added or replaced (`RowAdded`, `RowReplaced`). `ClaimInv`: the verdict claims no
  cleanup, no input and no case that is not so; it can only get worse, whatever fails
  after it was made. `FaultlessInv`: a run in which nothing failed has no row short of
  passing, so that it is not published as failed without a reason, which the reader
  would refuse; here the counts of the writer must be those of the reader (`RightPasses`).
- `ClosedFormsCount`: the numbers of comparisons that the writer demands in closed form
  are those of the reader's traversal, for every geometry of a numeric case
  (`CountsAgree`): the frames are laid out one to one against intervals.

Assumed of the constants: the members of a geometry are natural numbers, and there is
a layer, a token of the prompt and a position (`ShapesAssumption`), the limit of files
is a number (`LimitAssumption`), the standard descriptors are numbers (`StandardsAssumption`). The
number of cases is even, since every case has its two rows (`CasesAssumption`).

Only model-checked: every liveness property (liveness under fairness and ENABLED
are out of the prover's reach), and the residency simulator against its oracle
(`OracleAgrees`, `VerdictIsSound`). The recursive accounts of the two are functions of
their input; that they agree for every input would need an induction over the whole
of both accounts, and TLC compares them on the corpora. Every other property of a run
has its theorem.

## 5. Not modelled

- *Graph owner*: opening the device and admitting memory, weight upload, state
  copies, the numerical content of tensors, the counters of the report and the
  refusals at their own limits (`kv_zero_all` and `synchronize` refuse when such
  a counter is full), shape planning.
- *Session*: loading, lookup-draft decoding (`execute_lookup_tail`), which the
  server does not use, the one-call `generate` beyond its contract, sizes of
  encoded input.
- *Server*: HTTP framing and parsing (the standard library), the text of the
  chunks, JSON size limits.
- *Loop and memory*: the text of prompts, results and events, the match of
  symbols in `load_context`, torn writes of the profile.
- *Prompt evaluation rows*: admission of the request, of the reviewed sources and
  of the workspace before the first row; the content of records; the write of the
  pair of result files; whether a second invocation of a row is a repair; more
  than one cancellation.
- *Python evaluator and gate*: the text of prompts, the codecs and schemas of the
  documents (a refusal of one is a choice), the sandboxed workspace.
- *Prompt state*: the proposal of a candidate (`prompt_experiment`), the codecs.
- *Residency*: the schema checks of the documents, the phase census, the report,
  the extraction of a trace from a log (`expert_trace`).
- *Readers*: the parsing of git's objects, index and output; archives. *Recipe*:
  build commands, manifest.
- *Qualification*: numeric comparison, encodings, the identities that are copied
  from the admitted input and compared with it again.
- *Launch*: signatures and predicates are compared as records; mounts, seccomp,
  the supervisor's C code beyond what it reads and executes.
- *Coding-task runner*: the corpus, the report, the edits of a task.
- *Pack and KV files, model files, tokenizer, CPU models, other GPU sessions,
  provider clients, index, fixtures, bindings*: parsers, encoders and numeric code
  without interacting state, each with its reason in `PROJECT.json`.

## 6. What would come next

1. An abstract specification of a prompt evaluation ("an invocation ends, and
   leaves nothing or says what it left") with a refinement from both evaluators.
2. Lookup-draft decoding in the session: accepted drafts against the plain greedy
   continuation, as a refinement.
3. Torn profile writes.
4. The pack and KV arithmetic as functions on intervals.
