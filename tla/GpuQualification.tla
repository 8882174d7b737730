--------------------------- MODULE GpuQualification ---------------------------
(***************************************************************************)
(* One more reader beside those of SourceCapture, the GPU qualifier        *)
(* (src/scripts/gpu_qualification_*.py), from the admission of its input   *)
(* to the directory it publishes.                                          *)
(*                                                                         *)
(* It reads every file of its input once, and from then on works with what *)
(* it read: sources and records from memory, the files of the backend      *)
(* bundle from a private copy.  Only the children of the cases open files  *)
(* of the input again, by path.  That these are the admitted files rests   *)
(* on two things: a file has its change time and identity compared, not    *)
(* only its bytes, and the comparison comes after the last child.          *)
(*                                                                         *)
(* Abstractions: the tracked paths of SourceTree are the files of the      *)
(* input root, Good the bytes the profile names.  A recheck is one step:   *)
(* it reads the files one by one, but a change time never returns, so a    *)
(* file that is unchanged when it is read was so when the recheck began.   *)
(* Whether a deadline has passed, whether a child is well behaved and      *)
(* whether a directory can be removed is left open at every place that     *)
(* looks.  A directory that is renamed away and put back keeps the change  *)
(* times of its files and is not modelled.                                 *)
(***************************************************************************)
EXTENDS SourceCapture, QualificationRecords, NumericTraversal

CONSTANTS
    Staged,         \* the files of the input that are copied; the others are
                    \* opened by path
    Standards,      \* numbers of input files to keep with the evidence
    InputEdits      \* bound on the writes into the input root

ASSUME StagedAssumption == Staged \subseteq Tracked
ASSUME StandardsAssumption == Standards \subseteq Nat

VARIABLES
    at,         \* the step of the qualifier
    commands,   \* commands of the preparation that were started
    identities, \* the commands that produced their artifact
    fault,      \* of the preparation: "none", "unstarted" or "failed"
    kept_files, \* the produced files to be retained
    rows,       \* the rows of the cases
    accepted,   \* cases that were accepted
    child,      \* the child of the present case, or NoChild
    pending,    \* a CPU case waits for its GPU case
    scratch,    \* the private directories of cases that are there
    broke,      \* an error after the first case was started
    root,       \* the invocation root: "none", "there" or "gone"
    record,     \* the evidence but its rows and preparation
    standard,   \* the number of input files
    seen,       \* history: the values that children read by path
    devices,    \* history: what the accepted GPU cases ran on
    faults      \* history: something went wrong

prepVars == <<commands, identities, fault>>
caseVars == <<rows, accepted, child, pending, scratch, broke>>
historyVars == <<seen, devices>>
qualVars == <<at, prepVars, kept_files, caseVars, root, record, standard, historyVars, faults>>
captureVars == <<head, index, plain, had, undone, moments, who, pc, walking, listed, dirty, kept, held>>
inputVars == <<work, stamp, edits>>

ByPath == Tracked \ Staged

NoChild == [terminal |-> "none", state |-> "clean"]
NoRecord ==
    [status |-> "FAIL", cause |-> NoCause, ordinal |-> -1, device |-> "none", loaded |-> FALSE,
     aggregate |-> Aggregate(<<>>), owned |-> FALSE, safe |-> TRUE, source |-> TRUE, inputs |-> TRUE,
     descendants |-> FALSE]

Is(step) == who = "qualifier" /\ outcome = "running" /\ at = step
Wrong(condition) == faults' = (faults \/ condition)

----------------------------------------------------------------------------
\* Nothing is published: an exception, after which the invocation root is
\* removed unless that was tried before.
RaisesOut(tried) ==
    /\ outcome' = "refused"
    /\ IF tried \/ root = "none" THEN UNCHANGED root ELSE root' \in {"gone", "there"}

\* Any step may raise.  Nothing is looked at afterwards, and what the qualifier
\* had in its hands is forgotten here.
Aborts ==
    /\ who = "qualifier" /\ outcome = "running"
    /\ outcome' = "refused"
    /\ at' = "admit" /\ todo' = {} /\ marks' = Nothing.marks /\ got' = Nothing.got
    /\ commands' = 0 /\ identities' = {} /\ fault' = "none"
    /\ kept_files' = {} /\ rows' = <<>> /\ accepted' = 0 /\ child' = NoChild
    /\ pending' = FALSE /\ scratch' = {} /\ broke' = FALSE /\ root' \in {"none", "there"}
    /\ record' = NoRecord /\ seen' = {} /\ devices' = {} /\ faults' = TRUE
    /\ UNCHANGED <<captureVars, inputVars, output, standard>>

----------------------------------------------------------------------------
\* The input.

\* Every file is opened below the root without following links and has to be
\* the one the profile names; its identity is kept.
AdmitsInput(f) ==
    /\ Is("admit") /\ f \in todo
    /\ todo' = todo \ {f}
    /\ marks' = [marks EXCEPT ![f] = stamp[f]]
    /\ IF work[f] = Good THEN UNCHANGED outcome ELSE outcome' = "refused"
    /\ at' = IF todo' = {} THEN "open" ELSE at
    /\ UNCHANGED <<captureVars, inputVars, got, output>>
    /\ UNCHANGED <<prepVars, kept_files, caseVars, root, record, standard, historyVars, faults>>

\* read_retained, and recheck: the bytes and the identities.
SameBytes(f) == work[f] = Good
SameFile(f) == work[f] = Good /\ stamp[f] = marks[f]
UnchangedBytes == \A f \in Tracked : SameBytes(f)
Unchanged == \A f \in Tracked : SameFile(f)

\* The output is new, the sources are written from memory, the input is
\* rechecked.
Opens ==
    /\ Is("open")
    /\ IF output = "none" /\ Unchanged
       THEN at' = "stage_backend" /\ root' = "there" /\ UNCHANGED outcome
       ELSE outcome' = "refused" /\ root' \in {"none", "gone"} /\ UNCHANGED at
    /\ UNCHANGED <<captureVars, inputVars, todo, marks, got, output>>
    /\ UNCHANGED <<prepVars, kept_files, caseVars, record, standard, historyVars, faults>>

\* The backend is copied, and the input rechecked again.  Then come the helper's
\* own identity, the count of the files, and the host.
StagesBackend ==
    /\ Is("stage_backend")
    /\ got' = [got EXCEPT !["copy"] = [f \in Files |-> IF f \in Staged THEN work[f] ELSE Unread]]
    /\ IF Unchanged /\ Projected(standard) <= FileLimit
       THEN at' = "prepare" /\ UNCHANGED <<outcome, root>>
       ELSE RaisesOut(FALSE) /\ UNCHANGED at
    /\ kept_files' = {<<"qualifier", 0>>}
    /\ UNCHANGED <<captureVars, inputVars, todo, marks, output>>
    /\ UNCHANGED <<prepVars, caseVars, record, standard, historyVars, faults>>

----------------------------------------------------------------------------
\* The preparation: five commands, each with an artifact.

PrepUnchanged ==
    /\ UNCHANGED <<captureVars, inputVars, todo, marks, got, output, outcome>>
    /\ UNCHANGED <<caseVars, root, standard, historyVars>>

Prepares ==
    /\ Is("prepare") /\ commands < Preparations
    /\ commands' = commands + 1
    /\ identities' = identities \cup {commands}
    /\ kept_files' = kept_files \cup {<<"artifact", commands>>}
    /\ at' = IF commands' = Preparations THEN "plan" ELSE at
    /\ UNCHANGED <<fault, record, faults>>
    /\ PrepUnchanged

\* The ordinal of the command that failed, and the evidence of it.
FailureOrdinal(started, kind) == IF kind = "failed" THEN started - 1 ELSE started
FailureEvidence(k) ==
    [NoRecord EXCEPT !.cause = Cause(IF k < 2 THEN "PREPARATION" ELSE "BUILD", PreparationStage(k))]

\* The command ends badly, leaves no artifact, or is late: it counts, and its
\* logs are kept.
PreparationFails ==
    /\ Is("prepare") /\ commands < Preparations
    /\ commands' = commands + 1 /\ fault' = "failed"
    /\ kept_files' = kept_files \cup {<<"logs", commands>>}
    /\ \E left \in BOOLEAN :
        record' = [FailureEvidence(FailureOrdinal(commands', fault')) EXCEPT !.descendants = left]
    /\ at' = "verify"
    /\ Wrong(TRUE)
    /\ UNCHANGED identities
    /\ PrepUnchanged

\* The command is never started.
PreparationIsNotStarted ==
    /\ Is("prepare") /\ commands < Preparations
    /\ fault' = "unstarted"
    /\ record' = FailureEvidence(FailureOrdinal(commands, fault'))
    /\ at' = "verify"
    /\ Wrong(TRUE)
    /\ UNCHANGED <<commands, identities, kept_files>>
    /\ PrepUnchanged

----------------------------------------------------------------------------
\* The plans of the cases: the input is rechecked and the two executables are
\* those that were built.
PlanEvidence == [NoRecord EXCEPT !.cause = Cause("CONFIG", "plan")]

Plans ==
    /\ Is("plan")
    /\ \/ Unchanged /\ at' = "construct" /\ UNCHANGED faults
       \/ at' = "verify" /\ Wrong(TRUE)
    /\ record' = PlanEvidence
    /\ UNCHANGED <<prepVars, kept_files>>
    /\ PrepUnchanged

----------------------------------------------------------------------------
\* The cases.

CaseUnchanged ==
    /\ UNCHANGED <<captureVars, inputVars, todo, marks, got, output, outcome>>
    /\ UNCHANGED <<prepVars, root, standard>>

Ordinal == accepted

\* A private directory with the input of the case.
Constructs ==
    /\ Is("construct") /\ accepted < Cases
    /\ scratch' = scratch \cup {Ordinal}
    /\ child' = NoChild
    /\ at' = "child"
    /\ UNCHANGED <<kept_files, rows, accepted, pending, broke, record, historyVars, faults>>
    /\ CaseUnchanged

\* The deadline has passed, the directory cannot be made, or the child is not
\* started.
ConstructionFails ==
    /\ Is("construct") /\ accepted < Cases
    /\ scratch' \in {scratch, scratch \cup {Ordinal}}
    /\ child' = NoChild
    /\ at' = "finish"
    /\ Wrong(TRUE)
    /\ UNCHANGED <<kept_files, rows, accepted, pending, broke, record, historyVars>>
    /\ CaseUnchanged

\* How a child ends, and whether its memory was measured and its process group
\* was left by all it started.
Children ==
    [terminal : {"PASS", "FAIL", "TIMEOUT", "SIGNAL"}, state : {"clean", "unmeasured", "left"}]
CleanPass == [terminal |-> "PASS", state |-> "clean"]

\* The child reads the model, the pack and the geometry, and ends.
ChildRuns ==
    /\ Is("child")
    /\ seen' = seen \cup {work[f] : f \in ByPath}
    /\ child' \in Children
    /\ at' = "accept"
    /\ Wrong(child' # CleanPass)
    /\ UNCHANGED <<kept_files, rows, accepted, pending, scratch, broke, record, devices>>
    /\ CaseUnchanged

\* Its logs or its process group cannot be read: the command is as good as not
\* started for the evidence.
ChildIsLost ==
    /\ Is("child")
    /\ seen' = seen \cup {work[f] : f \in ByPath}
    /\ at' = "finish"
    /\ Wrong(TRUE)
    /\ UNCHANGED <<kept_files, rows, accepted, child, pending, scratch, broke, record, devices>>
    /\ CaseUnchanged

----------------------------------------------------------------------------
\* What the output of a child that passed is found to be.  Its report and stream
\* are read to the end; a GPU case has its stream compared with that of the CPU
\* case before it.
Findings == IF Gpu(Ordinal) THEN {"unreadable", "uncompared", "mismatch", "other_routing", "same"}
            ELSE {"unreadable", "read"}
Compared(found) == found \in {"mismatch", "other_routing", "same"}
\* A pair that is as it should be.
Right == IF ~Gpu(Ordinal) THEN "read" ELSE IF CountsAgree THEN "same" ELSE "uncompared"
Findable ==
    IF child.terminal # "PASS" THEN {"unreadable"}
    ELSE {found \in Findings : Compared(found) => pending /\ CountsAgree}

\* After a comparison both directories are removed, the reference's first.
Removals(found) == IF Compared(found) THEN 0..2 ELSE {0}
LeftOver(removed) == scratch \ (IF removed = 0 THEN {} ELSE IF removed = 1 THEN {Ordinal - 1} ELSE {Ordinal - 1, Ordinal})

\* The work a device reports: with fused attention it has fewer operations than
\* the plan, which does not ask for it.
PlannedWork == 2
Works(found) == IF Gpu(Ordinal) /\ found # "unreadable" THEN {PlannedWork, PlannedWork - 1} ELSE {0}
Memories(found) == IF Gpu(Ordinal) /\ found # "unreadable" THEN {"within", "over"} ELSE {"within"}

\* What is known of the cause when a child does not pass: nothing, or what its
\* report says, for values that are not finite in the words of the reader.
Unreported == Cause("PROCESS", "case_spawn")
Nonfinite == Cause("NONFINITE", "readback")
Reports == IF child.terminal = "PASS" THEN {Unreported} ELSE {Unreported, Nonfinite, Cause("ALLOCATION", "allocate")}

\* An outcome: what a child's output was found to be and how it is reported.
Outcome(found, removed, operations, memory, report) ==
    [native |-> found # "unreadable", compared |-> Compared(found),
     mismatches |-> IF found = "mismatch" THEN 1 ELSE 0,
     accepted |-> found = "read" \/ (found = "same" /\ removed = 2),
     operations |-> operations, memory |-> memory, report |-> report]
NoOutcome == Outcome("unreadable", 0, 0, "within", Unreported)

\* assemble: the row of a case.
Exit(c) == CASE c.terminal = "PASS" -> "zero" [] c.terminal = "FAIL" -> "nonzero" [] OTHER -> "none"
Terminal(c, o) == IF c = NoChild \/ (c.terminal = "PASS" /\ ~o.accepted) THEN "FAIL" ELSE c.terminal
ReasonOf(c, o) ==
    CASE o.accepted -> NoCause
      [] ~o.accepted /\ c.terminal = "PASS" -> Cause("COMPUTE", "readback")
      [] OTHER -> o.report
Unclean(c, o) == Terminal(c, o) = "PASS" /\ c.state # "clean"
Assembled(c, o, ordinal) ==
    [terminal |-> IF Unclean(c, o) THEN "FAIL" ELSE Terminal(c, o),
     cause |-> IF Unclean(c, o) THEN Cause("PROCESS", "qualifier_cleanup") ELSE ReasonOf(c, o),
     spawned |-> c # NoChild, exit |-> Exit(c), signal |-> c.terminal = "SIGNAL",
     output |-> IF o.native THEN "frozen" ELSE "none", nonfinite |-> o.report = Nonfinite,
     numeric |-> IF o.compared THEN [compared |-> TRUE, expected |-> 1, actual |-> 1, mismatches |-> o.mismatches]
                 ELSE [compared |-> FALSE, expected |-> 0, actual |-> 0, mismatches |-> 0],
     placement |-> [expected |-> IF Gpu(ordinal) THEN PlannedWork ELSE 0, gpu |-> o.operations, cpu |-> 0, readback |-> 0],
     memory |-> o.memory]

\* The device of the first GPU case is looked up on the host, where its plugin
\* has to be the only one; that of the others has to be the same.
LooksAtDevice(o) == Gpu(Ordinal) /\ o.native
DeviceFacts(device, known, alone) ==
    IF record.device = "none" /\ known THEN [record EXCEPT !.device = device, !.loaded = alone] ELSE record
DeviceIsAdmitted(device, known, alone) ==
    IF record.device = "none" THEN known /\ alone ELSE device = record.device
Lookups == IF record.device = "none" THEN {<<TRUE, TRUE>>, <<TRUE, FALSE>>, <<FALSE, FALSE>>} ELSE {<<TRUE, TRUE>>}

\* The consumer: the row of a case whose device is not admitted fails, unless it
\* has failed already.
Consumed(row, admitted) ==
    IF admitted \/ row.terminal # "PASS" THEN row
    ELSE [row EXCEPT !.terminal = "FAIL", !.cause = Cause("DEVICE_UNAVAILABLE", "device")]
CountsChild(r) == [r EXCEPT !.descendants = r.descendants \/ child.state = "left"]

\* accept, and the consumer behind it, which asks the reader whether it admits
\* the row before it takes it.
AdmitsDevice(o, device, lookup) == LooksAtDevice(o) => DeviceIsAdmitted(device, lookup[1], lookup[2])
Takes(row, o, late, device, lookup) ==
    LET admitted == AdmitsDevice(o, device, lookup)
        passes == row.terminal = "PASS" /\ admitted /\ ~late
    IN  /\ ValidCase(row, Ordinal)
        /\ LooksAtDevice(o) \/ (device = "A" /\ lookup = <<TRUE, TRUE>>)
        /\ rows' = Append(rows, Consumed(row, admitted))
        /\ kept_files' = kept_files \cup {<<"case", Ordinal>>}
        /\ record' = CountsChild(IF LooksAtDevice(o) THEN DeviceFacts(device, lookup[1], lookup[2]) ELSE record)
        /\ devices' = IF passes /\ Gpu(Ordinal) THEN devices \cup {device} ELSE devices
        /\ IF passes
           THEN /\ accepted' = accepted + 1
                /\ at' = IF accepted' = Cases THEN "finish" ELSE "construct"
           ELSE at' = "finish" /\ UNCHANGED accepted

Accepts ==
    /\ Is("accept")
    /\ \E found \in Findable, report \in Reports, late \in BOOLEAN, device \in {"A", "B"}, lookup \in Lookups :
       \E removed \in Removals(found), operations \in Works(found), memory \in Memories(found) :
        LET o == Outcome(found, removed, operations, memory, report)
        IN  /\ Takes(Assembled(child, o, Ordinal), o, late, device, lookup)
            /\ scratch' = LeftOver(removed)
            /\ pending' = IF Gpu(Ordinal) THEN pending /\ removed = 0 ELSE o.native
            /\ Wrong(found # Right \/ (removed # 2 /\ Compared(found)) \/ memory # "within" \/ late
                        \/ ~AdmitsDevice(o, device, lookup))
    /\ UNCHANGED <<child, broke, seen>>
    /\ CaseUnchanged

\* The reader does not admit the row: it is missing, the child is not.
AcceptRaises ==
    /\ Is("accept")
    /\ \E found \in Findable, report \in Reports :
       \E removed \in Removals(found), operations \in Works(found), memory \in Memories(found) :
        /\ ~ValidCase(Assembled(child, Outcome(found, removed, operations, memory, report), Ordinal), Ordinal)
        /\ scratch' = LeftOver(removed)
        /\ pending' = IF Gpu(Ordinal) THEN pending /\ removed = 0 ELSE found # "unreadable"
    /\ at' = "finish"
    /\ Wrong(TRUE)
    /\ UNCHANGED <<kept_files, rows, accepted, child, broke, record, historyVars>>
    /\ CaseUnchanged

\* What is left of the directories is removed, or not.
RemovesScratch ==
    /\ Is("finish")
    /\ \/ scratch' = {} /\ UNCHANGED <<broke, faults>>
       \/ scratch # {} /\ scratch' \in (SUBSET scratch) \ {{}} /\ broke' = TRUE /\ Wrong(TRUE)
    /\ at' = "sum_up"
    /\ UNCHANGED <<kept_files, rows, accepted, child, pending, record, historyVars>>
    /\ CaseUnchanged

\* finish: the missing row of the case that ended the sequence is added; a row
\* that passed although its case was not accepted in time fails.
Complete == accepted = Cases
IsMissing == ~Complete /\ Len(rows) = Ordinal
FinishedAsFound == IF IsMissing THEN Append(rows, Assembled(child, NoOutcome, Ordinal)) ELSE rows
Finished ==
    LET all == FinishedAsFound
    IN  IF ~Complete /\ all[Ordinal + 1].terminal = "PASS"
        THEN [all EXCEPT ![Ordinal + 1] =
                [all[Ordinal + 1] EXCEPT !.terminal = "FAIL", !.cause = Cause("PROCESS", "readback")]]
        ELSE all

\* The verdict of the cases.
CasesRecord ==
    CASE Complete /\ ~broke -> [record EXCEPT !.status = "PASS", !.cause = NoCause]
      [] Complete /\ broke -> [record EXCEPT !.cause = Cause("CLEANUP", "qualifier_cleanup"), !.safe = FALSE]
      [] OTHER -> [record EXCEPT !.cause = Finished[Ordinal + 1].cause, !.ordinal = Ordinal, !.safe = ~broke]
SumsUp ==
    /\ Is("sum_up")
    /\ rows' = Finished
    /\ kept_files' = IF IsMissing /\ child # NoChild THEN kept_files \cup {<<"case", Ordinal>>} ELSE kept_files
    /\ record' = [(IF IsMissing THEN CountsChild(CasesRecord) ELSE CasesRecord) EXCEPT !.aggregate = Aggregate(rows')]
    /\ at' = "verify"
    /\ UNCHANGED <<accepted, child, pending, scratch, broke, historyVars, faults>>
    /\ CaseUnchanged

----------------------------------------------------------------------------
\* The end.

EndUnchanged ==
    /\ UNCHANGED <<captureVars, inputVars, todo, marks>>
    /\ UNCHANGED <<prepVars, caseVars, standard, historyVars>>

\* fail: the first failure is kept.
Fails(r, category, stage) ==
    IF r.status = "PASS" THEN [r EXCEPT !.status = "FAIL", !.cause = Cause(category, stage)] ELSE r

\* The private sources and the qualifier's own files are read once more.
VerifiesSources ==
    /\ Is("verify")
    /\ \/ UNCHANGED <<record, faults>>
       \/ record' = [Fails(record, "SOURCE_IDENTITY", "source") EXCEPT !.source = FALSE] /\ Wrong(TRUE)
    /\ at' = "recheck"
    /\ UNCHANGED <<kept_files, root, got, output, outcome>>
    /\ EndUnchanged

RechecksInput ==
    /\ Is("recheck")
    /\ record' = IF Unchanged THEN record ELSE [Fails(record, "CONFIG", "source") EXCEPT !.inputs = FALSE]
    /\ at' = "collect"
    /\ UNCHANGED <<kept_files, root, got, output, outcome, faults>>
    /\ EndUnchanged

\* The bundle's files are read once more, from the input.
Collects ==
    /\ Is("collect")
    /\ got' = [got EXCEPT !["retained"] = [f \in Files |-> IF f \in Staged THEN work[f] ELSE Unread]]
    /\ IF (\A f \in Staged : SameFile(f)) /\ CountAdmitted(standard, kept_files)
       THEN at' = "clean" /\ UNCHANGED <<outcome, root>>
       ELSE RaisesOut(FALSE) /\ UNCHANGED at
    /\ UNCHANGED <<kept_files, record, output, faults>>
    /\ EndUnchanged

\* The invocation root is removed, or not.
Cleans ==
    /\ Is("clean")
    /\ \/ root' = "gone" /\ record' = [record EXCEPT !.owned = TRUE] /\ UNCHANGED faults
       \/ UNCHANGED root /\ record' = [Fails(record, "CLEANUP", "qualifier_cleanup") EXCEPT !.safe = FALSE]
            /\ Wrong(TRUE)
    /\ at' = "stage"
    /\ UNCHANGED <<kept_files, got, output, outcome>>
    /\ EndUnchanged

\* The evidence as it is written.
Evidence ==
    [status |-> record.status, cause |-> record.cause, ordinal |-> record.ordinal,
     device |-> record.device, aggregate |-> record.aggregate, owned |-> record.owned,
     safe |-> record.safe, source |-> record.source, inputs |-> record.inputs,
     descendants |-> record.descendants, commands |-> commands, identities |-> identities,
     rows |-> rows, files |-> kept_files, standard |-> standard]

\* publish validates what it is about to write, and writes it beside its place.
StagesEvidence ==
    /\ Is("stage")
    /\ IF Replays(Evidence, kept_files) /\ output = "none"
       THEN at' = "publish" /\ UNCHANGED <<outcome, root>>
       ELSE RaisesOut(TRUE) /\ UNCHANGED at
    /\ UNCHANGED <<kept_files, record, got, output, faults>>
    /\ EndUnchanged

\* The input is rechecked, the directory is replayed and then renamed.
PublishesEvidence ==
    /\ Is("publish")
    /\ IF Unchanged /\ Replays(Evidence, kept_files) /\ output = "none"
       THEN output' = "evidence" /\ outcome' = "accepted" /\ UNCHANGED root
       ELSE RaisesOut(TRUE) /\ UNCHANGED output
    /\ UNCHANGED <<at, kept_files, record, got, faults>>
    /\ EndUnchanged

----------------------------------------------------------------------------
\* Somebody writes into the input root, or takes the output's place, which
\* matters where the qualifier looks at it.
WritesInput(f, v) ==
    /\ who = "qualifier" /\ outcome = "running"
    /\ edits < InputEdits
    /\ work[f] # v
    /\ work' = [work EXCEPT ![f] = v]
    /\ edits' = edits + 1
    /\ stamp' = [stamp EXCEPT ![f] = edits + 1]
    /\ Wrong(TRUE)
    /\ UNCHANGED <<captureVars, todo, marks, got, output, outcome>>
    /\ UNCHANGED <<at, prepVars, kept_files, caseVars, root, record, standard, historyVars>>

TakesPlace ==
    /\ \E step \in {"open", "stage", "publish"} : Is(step)
    /\ output = "none"
    /\ output' = "theirs"
    /\ Wrong(TRUE)
    /\ UNCHANGED <<captureVars, inputVars, todo, marks, got, outcome>>
    /\ UNCHANGED <<at, prepVars, kept_files, caseVars, root, record, standard, historyVars>>

QualificationInit ==
    /\ at = "admit" /\ commands = 0 /\ identities = {} /\ fault = "none"
    /\ kept_files = {} /\ rows = <<>> /\ accepted = 0 /\ child = NoChild
    /\ pending = FALSE /\ scratch = {} /\ broke = FALSE /\ root = "none"
    /\ record = NoRecord /\ seen = {} /\ devices = {} /\ faults = FALSE

QualifierInit ==
    /\ TreeInit
    /\ head = Pinned /\ \A f \in Stray : work[f] = Absent
    /\ who = "qualifier"
    /\ pc = 1 /\ walking = FALSE /\ dirty = FALSE
    /\ todo = Tracked /\ listed = Nothing.listed /\ got = Nothing.got
    /\ kept = Nothing.kept /\ marks = Nothing.marks /\ held = Nothing.marks
    /\ output = "none"
    /\ outcome = "running"
    /\ standard \in Standards

QualifierNext ==
    \/ \E f \in Tracked : AdmitsInput(f)
    \/ Opens
    \/ StagesBackend
    \/ Prepares
    \/ PreparationFails
    \/ PreparationIsNotStarted
    \/ Plans
    \/ Constructs
    \/ ConstructionFails
    \/ ChildRuns
    \/ ChildIsLost
    \/ Accepts
    \/ AcceptRaises
    \/ RemovesScratch
    \/ SumsUp
    \/ VerifiesSources
    \/ RechecksInput
    \/ Collects
    \/ Cleans
    \/ StagesEvidence
    \/ PublishesEvidence
    \/ Aborts
    \/ \E f \in Tracked, v \in {Good, Bad} : WritesInput(f, v)
    \/ TakesPlace

OtherReaders == who # "qualifier" /\ Next /\ UNCHANGED qualVars

CaptureInit ==
    /\ QualificationInit
    /\ (Init /\ standard = 0) \/ QualifierInit
CaptureNext == QualifierNext \/ OtherReaders
CaptureSpec == CaptureInit /\ [][CaptureNext]_<<vars, qualVars>>

----------------------------------------------------------------------------
\* Published evidence that says PASS is earned: every case passed, every GPU
\* case was compared without a difference and did all of its work on the device,
\* all on one device whose plugin was the only one; every file that a child opened
\* by its path was an admitted one, whatever was written into the input and taken
\* back meanwhile; the backend they ran, and the backend that is retained, is the
\* admitted one; and nothing of the run is left.
QualificationIsEarned ==
    output = "evidence" /\ record.status = "PASS" =>
        /\ PassedRows(rows) = 1..Cases
        /\ \A n \in 1..Cases : Gpu(n - 1) =>
            rows[n].numeric = [compared |-> TRUE, expected |-> 1, actual |-> 1, mismatches |-> 0]
                /\ rows[n].placement.gpu = PlannedWork
        /\ devices = {record.device} /\ record.loaded
        /\ seen \subseteq {Good}
        /\ \A f \in Staged : got["copy"][f] = Good /\ got["retained"][f] = Good
        /\ root = "gone" /\ scratch = {}

\* Whatever happens to a run, the evidence it comes to is admitted by the reader
\* that publish asks, with the files it retained for it, unless a child reported
\* more memory than the profile allows; the files are not more than were reserved
\* before the preparation; and a run in which nothing goes wrong passes.
\* (Otherwise an expensive run ends without any evidence.)
KeptToBudget == \A n \in 1..Len(rows) : rows[n].memory = "within"
ResultIsPublishable ==
    /\ at = "stage" /\ KeptToBudget => Replays(Evidence, kept_files)
    /\ at \in {"verify", "stage"} => CountAdmitted(standard, kept_files)
    /\ at = "stage" /\ ~faults => record.status = "PASS"
=============================================================================
