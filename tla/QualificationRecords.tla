------------------------- MODULE QualificationRecords -------------------------
(***************************************************************************)
(* The records of a GPU qualification as their reader admits them          *)
(* (src/scripts/gpu_qualification_records.py): a row per case, the         *)
(* evidence, and the files that are retained for it.  The writer of the    *)
(* records is GpuQualification.                                            *)
(*                                                                         *)
(* Counts are the numbers themselves where two of them are compared, and   *)
(* otherwise say whether there was anything to count.  Left out are the    *)
(* identities that are copied from the admitted input and compared with it *)
(* again, ranges of single numbers, lengths of texts and the times.        *)
(***************************************************************************)
EXTENDS Integers, Sequences, FiniteSets

CONSTANTS
    Cases,          \* the cases of a profile, at least 16 in the code
    FileLimit       \* MAX_EVIDENCE_FILES

\* The pairs of a profile: the CPU case of a pair first, then the GPU case.
ASSUME CasesAssumption == Cases \in Nat \ {0} /\ Cases % 2 = 0
ASSUME LimitAssumption == FileLimit \in Nat

Gpu(ordinal) == ordinal % 2 = 1

PreparationStages == <<"compiler", "runtime", "shim_build", "candidate_build", "cpu_reference_build">>
Preparations == Len(PreparationStages)
PreparationStage(k) == PreparationStages[k + 1]

FAILURE_CATEGORIES ==
    {"CONFIG", "SOURCE_IDENTITY", "PREPARATION", "BUILD", "BACKEND_UNAVAILABLE", "DEVICE_UNAVAILABLE",
     "BUNDLE_IDENTITY", "UNSUPPORTED_CAPABILITY", "MEMORY_BUDGET", "ALLOCATION", "TRANSFER", "COMPUTE",
     "NONFINITE", "DEVICE_LOST", "BUSY", "PROCESS", "PUBLICATION", "CLEANUP"}
FAILURE_STAGES ==
    {"options", "source", "model", "device", "plan", "allocate", "upload", "prefill", "decode", "readback",
     "synchronize", "release", "case_spawn", "publication", "qualifier_cleanup"}
        \cup {PreparationStages[k] : k \in 1..Preparations}

Cause(category, stage) == [category |-> category, stage |-> stage]
NoCause == Cause("", "")
CauseKnown(cause) == cause.category \in FAILURE_CATEGORIES /\ cause.stage \in FAILURE_STAGES

----------------------------------------------------------------------------
\* A row.

\* How a child ended says which of its exit status and signal there is.
ExitAdmitted(row) ==
    CASE row.terminal = "PASS" -> row.exit = "zero" /\ ~row.signal
      [] row.terminal = "FAIL" -> ~row.signal
      [] row.terminal \in {"TIMEOUT", "MISSING"} -> row.exit = "none" /\ ~row.signal
      [] row.terminal = "CRASH" -> row.exit = "nonzero" /\ ~row.signal
      [] row.terminal = "SIGNAL" -> row.exit = "none" /\ row.signal
      [] OTHER -> FALSE

\* Only a row that passed has no cause.
CauseAdmitted(row) == IF row.terminal = "PASS" THEN row.cause = NoCause ELSE CauseKnown(row.cause)

\* A row that passed had a child; one that failed without an exit status had none.
ChildAdmitted(row) ==
    /\ row.terminal = "PASS" => row.spawned
    /\ row.terminal = "FAIL" => row.spawned = (row.exit # "none")

OutputAdmitted(row) == row.terminal = "PASS" => row.output = "frozen" /\ ~row.nonfinite

\* Only a GPU case is compared, and what was not compared has no counts.
NumericAdmitted(row, ordinal) ==
    /\ row.numeric.compared => Gpu(ordinal)
    /\ ~row.numeric.compared => row.numeric.expected = 0 /\ row.numeric.actual = 0 /\ row.numeric.mismatches = 0
    /\ row.terminal = "PASS" => row.numeric.mismatches = 0
    /\ row.terminal = "PASS" /\ Gpu(ordinal) =>
        row.numeric.compared /\ row.numeric.actual = row.numeric.expected /\ row.numeric.expected > 0

\* All of the model's work was done by the device, and nothing but logits was
\* read back.
PlacementAdmitted(row, ordinal) ==
    row.terminal = "PASS" /\ Gpu(ordinal) =>
        /\ row.placement.gpu = row.placement.expected /\ row.placement.expected > 0
        /\ row.placement.cpu = 0
        /\ row.placement.readback = 0

ValidCase(row, ordinal) ==
    /\ ExitAdmitted(row) /\ CauseAdmitted(row) /\ ChildAdmitted(row)
    /\ OutputAdmitted(row) /\ NumericAdmitted(row, ordinal) /\ PlacementAdmitted(row, ordinal)

----------------------------------------------------------------------------
\* The evidence.

\* The commands of the preparation are a prefix; each but the last has produced
\* what it is for, and nothing comes from a command that was not started.
PreparationAdmitted(e) ==
    /\ e.commands \in 0..Preparations
    /\ \A k \in 0..Preparations - 1 :
        /\ k < e.commands - 1 => k \in e.identities
        /\ k >= e.commands => k \notin e.identities
    /\ e.status = "PASS" => e.commands = Preparations /\ e.identities = 0..Preparations - 1

\* A preparation stage failed before or after its command was started.
PreparationFailureAdmitted(e) ==
    \A k \in 0..Preparations - 1 : e.cause.stage = PreparationStage(k) =>
        e.commands \in {k, k + 1} /\ e.identities = 0..k - 1 /\ e.rows = <<>> /\ e.ordinal = -1

\* The executable of a case was built, and its input is retained.
ExecutableBuilt(e, ordinal) == (IF Gpu(ordinal) THEN 3 ELSE 4) \in e.identities
InputRetained(e, ordinal) == <<"case", ordinal>> \in e.files

RowsAdmitted(e) ==
    /\ Len(e.rows) <= Cases
    /\ \A n \in 1..Len(e.rows) :
        /\ ValidCase(e.rows[n], n - 1)
        /\ e.rows[n].spawned => ExecutableBuilt(e, n - 1) /\ InputRetained(e, n - 1)
        /\ e.rows[n].memory = "within"
    /\ e.status = "PASS" => Len(e.rows) = Cases /\ \A n \in 1..Cases : e.rows[n].terminal = "PASS"

\* The counts are those of the rows.
PassedRows(all) == {n \in 1..Len(all) : all[n].terminal = "PASS"}
Aggregate(all) == [cases |-> Len(all), passed |-> Cardinality(PassedRows(all))]
AggregateAdmitted(e) == e.aggregate = Aggregate(e.rows)

CleanupAdmitted(e) ==
    e.status = "PASS" => e.owned /\ e.safe /\ e.source /\ e.inputs /\ ~e.descendants

FailureAdmitted(e) ==
    IF e.status = "PASS" THEN e.cause = NoCause /\ e.ordinal = -1
    ELSE CauseKnown(e.cause) /\ e.ordinal \in -1..Cases - 1 /\ PreparationFailureAdmitted(e)

\* Without a device only a failure is evidence.
DeviceAdmitted(e) == e.device = "none" => e.status = "FAIL"

\* The files of the directory besides those of the input: the qualifier, what
\* was produced, the logs of a failed preparation, and the input and logs of
\* every child.
Roles(e) ==
    {<<"qualifier", 0>>}
        \cup {<<"artifact", k>> : k \in e.identities}
        \cup {<<"logs", k>> : k \in {j \in 0..Preparations - 1 :
                e.status = "FAIL" /\ e.ordinal = -1 /\ e.cause.stage = PreparationStage(j) /\ e.commands = j + 1}}
        \cup {<<"case", n - 1>> : n \in {m \in 1..Len(e.rows) : e.rows[m].spawned}}

\* Two logs of a preparation, an input and two logs of a case.
OfKind(produced, kind) == {p \in produced : p[1] = kind}
FileCount(produced) ==
    Cardinality(produced) + Cardinality(OfKind(produced, "logs"))
        + 2 * Cardinality(OfKind(produced, "case"))

\* The rows that must fit before anything is prepared, result.json included.
Projected(standard) == standard + 1 + Preparations + 2 + 3 * Cases + 1
CountAdmitted(standard, produced) == standard + FileCount(produced) + 1 <= FileLimit

ValidEvidence(e) ==
    /\ DeviceAdmitted(e)
    /\ PreparationAdmitted(e)
    /\ CountAdmitted(e.standard, e.files)
    /\ RowsAdmitted(e)
    /\ AggregateAdmitted(e)
    /\ CleanupAdmitted(e)
    /\ FailureAdmitted(e)

\* A replay reads the directory back: every file the evidence names is there and
\* no other, and the evidence names those it needs.
Replays(e, files) == ValidEvidence(e) /\ files = e.files /\ e.files = Roles(e)
=============================================================================
