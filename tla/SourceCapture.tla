---------------------------- MODULE SourceCapture ----------------------------
(***************************************************************************)
(* The readers that bind a record to a checkout (SourceTree), one of them  *)
(* in each behaviour:                                                      *)
(*                                                                         *)
(*   "identity"  src/scripts/fresh_source_identity.py: a capture that      *)
(*               keeps the descriptors it opened, and a recheck;           *)
(*   "task"      src/scripts/prompt-snapshot-helper.py: the snapshot of a  *)
(*               task repository before a prompt is measured;              *)
(*   "source"    src/scripts/prompt-source-verifier.py: a checkout named   *)
(*               by a gate or an evaluation;                               *)
(*   "recipe"    src/scripts/gpu_backend_recipe.py: the source of a        *)
(*               backend bundle, its build and its publication;            *)
(*   "gate"      src/scripts/prompt-gate-validator.py: the checkout its    *)
(*               documents lie in, whose commit it tests;                  *)
(*   "baseline"  src/eval/runners/record-baseline.py;                      *)
(*   "adoption"  src/image/fresh/control/request6_adoption.py and the      *)
(*               worker and namespace it starts.                           *)
(*                                                                         *)
(* All but the first are a fixed order of the same few observations, and   *)
(* differ in what they compare: Program says the order.  git reads HEAD    *)
(* and the index in one step, and the files of a status one by one.        *)
(* A read that fails, or a file that changes while it is read, ends a      *)
(* capture at any step (GivesUp).  The sizes and counts the readers bound  *)
(* are left out: they refuse and never accept.                             *)
(***************************************************************************)
EXTENDS SourceTree, Sequences

CONSTANTS
    Unread,         \* what a reader has not read
    Readers         \* the kinds of reader of the instance

ASSUME UnreadAssumption == Unread \notin Nat \cup Values
ASSUME ReadersAssumption ==
    Readers \subseteq {"identity", "task", "source", "gate", "recipe", "baseline", "adoption"}

VARIABLES
    who,        \* the reader
    pc,         \* its position in its program
    todo,       \* the paths its present walk has yet to visit
    walking,    \* a walk has begun
    listed,     \* the names the present walk found in its directory
    dirty,      \* the present status has found a difference
    got,        \* what it read: HEAD, and per purpose the value of each path
    kept,       \* the change times of what it keeps open
    marks,      \* the change times of the paths of the present capture
    held,       \* the marks of the first capture
    output,     \* the place a bundle is published at
    outcome     \* "running", "accepted" or "refused"

readVars == <<who, pc, todo, walking, listed, dirty, got, kept, marks, held>>
vars == <<treeVars, readVars, output, outcome>>

----------------------------------------------------------------------------
\* Programs.

\* recheck() captures again on the descriptors of the first capture and
\* compares the whole record.
IdentityRecheckedByGit ==
    <<"retain_root", "retain_head", "retain_index", "admit", "revision", "index", "list",
      "walk", "hold", "admit", "revision", "index", "seal">>
IdentityProgram ==
    <<"retain_root", "retain_head", "retain_index", "admit", "revision", "index", "list",
      "walk", "hold", "admit", "revision", "index", "list", "walk", "seal">>

\* The repository is asked for HEAD and then for its status, and the declared
\* files are read last.
TaskWithoutStatus == <<"policy", "head", "expect">>
TaskProgram == <<"policy", "head", "status", "expect">>

SourceProgram == <<"policy", "head", "status">>

\* The manifest and the documents it names are read and validated, then the
\* checkout is proven clean, and HEAD is asked for last.  The verifier observes
\* the source bundle, another checkout, whose HEAD has to be the same.
GateWithoutStatus == <<"documents", "policy", "head", "bundle">>
GateProgram == <<"documents", "policy", "status", "head", "bundle">>

\* require_source comes before and after the files are read.
RecipeProgram ==
    <<"head", "policy", "status", "copy", "validate", "head", "policy", "status",
      "materialize", "retain", "publish">>

\* HEAD is first read after the build.
BaselineWithoutEnd == <<"status", "build", "status", "head", "artifacts", "samples", "head">>
BaselineProgram ==
    <<"status", "build", "status", "head", "artifacts", "samples", "head", "status">>

\* The dispatcher reads the tree into the capsule, the worker reads it again,
\* and the namespace copies it.
AdoptionProgram == <<"head", "status", "tree", "tree_again", "stage">>

Program == [identity |-> IdentityProgram, task |-> TaskProgram, source |-> SourceProgram,
            gate |-> GateProgram, recipe |-> RecipeProgram, baseline |-> BaselineProgram, adoption |-> AdoptionProgram]

Purposes == {"expect", "copy", "source", "retained", "build", "artifacts", "samples", "tree",
             "tree_again", "stage", "documents"}

----------------------------------------------------------------------------
\* Steps of a reader.

At(op) ==
    /\ outcome = "running"
    /\ Program[who][pc] = op

Continues ==
    /\ pc' = pc + 1
    /\ outcome' = IF pc = Len(Program[who]) THEN "accepted" ELSE "running"

Refuses ==
    /\ outcome' = "refused"
    /\ UNCHANGED pc

Decides(admitted) == IF admitted THEN Continues ELSE Refuses

NoFiles == [f \in Files |-> Unread]

\* What a reader has in its hands before it starts, and once it is gone.
Nothing ==
    [todo |-> {}, listed |-> NoFiles, marks |-> NoFiles,
     got |-> [p \in Purposes \cup {"head"} |-> IF p = "head" THEN Unread ELSE NoFiles],
     kept |-> [t \in {"HEAD", "index", "root"} |-> Unread]]

\* Any call of a reader may fail.
GivesUp ==
    /\ outcome = "running"
    /\ outcome' = "refused"
    /\ pc' = 1 /\ walking' = FALSE /\ dirty' = FALSE
    /\ todo' = Nothing.todo /\ listed' = Nothing.listed /\ got' = Nothing.got
    /\ kept' = Nothing.kept /\ marks' = Nothing.marks /\ held' = Nothing.marks
    /\ UNCHANGED <<treeVars, who, output>>

----------------------------------------------------------------------------
\* The readers that ask git and then read.

\* The configuration, the replacement references, the grafts and alternates.
PolicyAdmitted == plain

ChecksPolicy ==
    /\ At("policy")
    /\ Decides(PolicyAdmitted)
    /\ UNCHANGED <<treeVars, who, todo, walking, listed, dirty, got, kept, marks, held, output>>

RecipeHead(h) == h = Pinned
BaselineHead(h) == got.head \in {Unread, h}
HeadAdmitted(h) ==
    /\ who = "recipe" => RecipeHead(h)
    /\ who = "baseline" => BaselineHead(h)

ReadsHead ==
    /\ At("head")
    /\ got' = [got EXCEPT !.head = head]
    /\ Decides(HeadAdmitted(head))
    /\ UNCHANGED <<treeVars, who, todo, walking, listed, dirty, kept, marks, held, output>>

\* A status compares HEAD with the index, then the index with the files, and
\* lists the paths the index does not have.  The dispatcher's diff compares
\* HEAD with the files; the index it only digests.
Base == IF who = "adoption" THEN head ELSE index

StatusBegins ==
    /\ At("status") /\ ~walking
    /\ walking' = TRUE
    /\ todo' = Files
    /\ dirty' = (who # "adoption" /\ head # index)
    /\ listed' = [f \in Files |-> Base[f]]
    /\ UNCHANGED <<treeVars, who, pc, got, kept, marks, held, output, outcome>>

StatusLooks(f) ==
    /\ At("status") /\ walking
    /\ f \in todo
    /\ todo' = todo \ {f}
    /\ dirty' = (dirty \/ work[f] # listed[f])
    /\ UNCHANGED <<treeVars, who, pc, walking, listed, got, kept, marks, held, output, outcome>>

\* The snapshot and the verifier compare the HEAD they read before the status
\* with the expected one only now.
StatusAdmitted ==
    /\ ~dirty
    /\ who \in {"task", "source"} => got.head = Pinned

StatusEnds ==
    /\ At("status") /\ walking
    /\ todo = {}
    /\ walking' = FALSE
    /\ Decides(StatusAdmitted)
    /\ UNCHANGED <<treeVars, who, todo, listed, dirty, got, kept, marks, held, output>>

\* The bundle's checkout is at the commit that is tested.
ObservesBundle ==
    /\ At("bundle")
    /\ Decides(got.head = Pinned)
    /\ UNCHANGED <<treeVars, who, todo, walking, listed, dirty, got, kept, marks, held, output>>

----------------------------------------------------------------------------
\* Reading files.  What is compared with the value read, per purpose.

\* file_expectation_sha256 of a declared file; files that were not declared
\* are not read.
ExpectAdmits(f, v) == f \in Tracked => v = Good

\* The blob object of the bytes is the one the tree of the commit names.
CopyAdmits(f, v) == v = Pinned[f]

\* _raw_tree compares nothing in the dispatcher; the worker's second reading
\* has to give the digest of the capsule.
AgainAdmits(f, v) == v = got["tree"][f]

\* The manifest of a gate names the other documents by their digests; each
\* version of it those that were committed with it.
Manifest == CHOOSE f \in Tracked : TRUE
Referenced == Tracked \ {Manifest}
DocumentAdmits(f, v) == f \in Referenced => v = got["documents"][Manifest]

Admits(op, f, v) ==
    CASE op = "expect" -> ExpectAdmits(f, v)
      [] op = "documents" -> DocumentAdmits(f, v)
      [] op = "copy" -> CopyAdmits(f, v)
      [] op = "tree_again" -> AgainAdmits(f, v)
      [] OTHER -> TRUE

ReadingBegins(op) ==
    /\ At(op) /\ ~walking
    /\ walking' = TRUE
    /\ todo' = Files
    /\ UNCHANGED <<treeVars, who, pc, listed, dirty, got, kept, marks, held, output, outcome>>

Reads(op, f) ==
    /\ At(op) /\ walking
    /\ f \in todo
    /\ op = "documents" /\ f \in Referenced => Manifest \notin todo
    /\ todo' = todo \ {f}
    /\ got' = [got EXCEPT ![op] = [got[op] EXCEPT ![f] = work[f]]]
    /\ IF Admits(op, f, work[f]) THEN UNCHANGED outcome ELSE outcome' = "refused"
    /\ UNCHANGED <<treeVars, who, pc, walking, listed, dirty, kept, marks, held, output>>

ReadingEnds(op) ==
    /\ At(op) /\ walking
    /\ todo = {}
    /\ walking' = FALSE
    /\ Continues
    /\ UNCHANGED <<treeVars, who, todo, listed, dirty, got, kept, marks, held, output>>

ReadsFiles(op) ==
    \/ ReadingBegins(op)
    \/ \E f \in Files : Reads(op, f)
    \/ ReadingEnds(op)

\* The files a snapshot declares, and the source of a bundle.
ReadsExpectations == ReadsFiles("expect")
CopiesSource == ReadsFiles("copy")

\* What the build of a baseline reads, the artifacts it names, and the files
\* its samples are evaluated with.
Builds == ReadsFiles("build")
NamesArtifacts == ReadsFiles("artifacts")
RunsSamples == ReadsFiles("samples")

\* The documents of a gate; it opens those that the manifest names.
ReadsDocuments == ReadsFiles("documents")

\* The dispatcher, its worker and its namespace.
ReadsTree == ReadsFiles("tree")
ReadsTreeAgain == ReadsFiles("tree_again")
StagesTree == ReadsFiles("stage")

----------------------------------------------------------------------------
\* The bundle.  Its rows, blobs, commit and tree object are those of the
\* manifest, or nothing is made of them.
ValidatesCopy ==
    /\ At("validate")
    /\ Decides(got["copy"] = Pinned)
    /\ UNCHANGED <<treeVars, who, todo, walking, listed, dirty, got, kept, marks, held, output>>

\* The build runs on a private copy of the bytes that were read.
MaterializesCheckout ==
    /\ At("materialize")
    /\ got' = [got EXCEPT !["source"] = work]
    /\ Continues
    /\ UNCHANGED <<treeVars, who, todo, walking, listed, dirty, kept, marks, held, output>>
Materializes ==
    /\ At("materialize")
    /\ got' = [got EXCEPT !["source"] = got["copy"]]
    /\ Continues
    /\ UNCHANGED <<treeVars, who, todo, walking, listed, dirty, kept, marks, held, output>>

\* The bytes are written beside the bundle, and read back once the bundle is
\* complete.
Replayed(snapshot) == snapshot = Pinned

Retains ==
    /\ At("retain")
    /\ got' = [got EXCEPT !["retained"] = got["copy"]]
    /\ Decides(Replayed(got["copy"]))
    /\ UNCHANGED <<treeVars, who, todo, walking, listed, dirty, kept, marks, held, output>>

\* The stage is renamed to its place without replacing what is there.
Publish ==
    /\ At("publish")
    /\ output' = IF output = "none" THEN "ours" ELSE output
    /\ Decides(output = "none")
    /\ UNCHANGED <<treeVars, who, todo, walking, listed, dirty, got, kept, marks, held>>

\* Another build takes the place first.
SomebodyPublishes ==
    /\ who = "recipe"
    /\ output = "none"
    /\ output' = "theirs"
    /\ UNCHANGED <<treeVars, readVars, outcome>>

----------------------------------------------------------------------------
\* The capture that keeps its descriptors.

\* assert_stable on every descriptor, before and after each git child.  A
\* change time never returns, so the check after the child tells of the time
\* before it too, and the query and its two checks are one step.
Stable == \A t \in DOMAIN kept : kept[t] \in {Unread, stamp[t]}

Asked(admitted) == Decides(Stable /\ admitted)

RetainsRoot ==
    /\ At("retain_root")
    /\ kept' = [kept EXCEPT !["root"] = stamp["root"]]
    /\ Continues
    /\ UNCHANGED <<treeVars, who, todo, walking, listed, dirty, got, marks, held, output>>

\* HEAD, the references it resolves through and the packed references.
RetainsHead ==
    /\ At("retain_head")
    /\ kept' = [kept EXCEPT !["HEAD"] = stamp["HEAD"]]
    /\ got' = [got EXCEPT !.head = head]
    /\ Continues
    /\ UNCHANGED <<treeVars, who, todo, walking, listed, dirty, marks, held, output>>

RetainsIndex ==
    /\ At("retain_index")
    /\ kept' = [kept EXCEPT !["index"] = stamp["index"]]
    /\ Decides(Stable)
    /\ UNCHANGED <<treeVars, who, todo, walking, listed, dirty, got, marks, held, output>>

AdmitsRepository ==
    /\ At("admit")
    /\ Asked(plain)
    /\ UNCHANGED <<treeVars, who, todo, walking, listed, dirty, got, kept, marks, held, output>>

\* The retained HEAD and git's HEAD are the expected commit.
ComparesRevision ==
    /\ At("revision")
    /\ Asked(got.head = Pinned /\ head = Pinned)
    /\ UNCHANGED <<treeVars, who, todo, walking, listed, dirty, got, kept, marks, held, output>>

\* The index has the paths and objects of the commit, without flags.
ComparesIndex ==
    /\ At("index")
    /\ Asked(index = Pinned)
    /\ UNCHANGED <<treeVars, who, todo, walking, listed, dirty, got, kept, marks, held, output>>

\* The directory is listed once, then each name is looked at.
Lists ==
    /\ At("list")
    /\ listed' = work
    /\ todo' = {f \in Files : work[f] # Absent}
    /\ walking' = TRUE
    /\ Continues
    /\ UNCHANGED <<treeVars, who, dirty, got, kept, marks, held, output>>

\* The path is of the commit, its mode is the one the commit gives it and its
\* bytes are the object the commit names.
PathsOfCommit == {f \in Files : Pinned[f] # Absent}
EntryAdmitted(f) == f \in PathsOfCommit /\ work[f] = Pinned[f]

Visits(f) ==
    /\ At("walk")
    /\ f \in todo
    /\ todo' = todo \ {f}
    /\ marks' = [marks EXCEPT ![f] = stamp[f]]
    /\ IF EntryAdmitted(f) THEN UNCHANGED outcome ELSE outcome' = "refused"
    /\ UNCHANGED <<treeVars, who, pc, walking, listed, dirty, got, kept, held, output>>

\* Every path of the commit was found and the directory has not changed.
WalkEnds ==
    /\ At("walk")
    /\ todo = {}
    /\ walking' = FALSE
    /\ Decides(Stable /\ \A f \in PathsOfCommit : listed[f] # Absent)
    /\ UNCHANGED <<treeVars, who, todo, listed, dirty, got, kept, marks, held, output>>

\* git has every object of the commit, with the size that was read.
ObjectsAdmitted == plain

\* The first capture is kept by its handle.  A recheck may come much later.
Holds ==
    /\ At("hold")
    /\ held' = marks
    /\ Asked(ObjectsAdmitted)
    /\ UNCHANGED <<treeVars, who, todo, walking, listed, dirty, got, kept, marks, output>>

\* The second capture is compared with the first, change times included.
Seals ==
    /\ At("seal")
    /\ Asked(ObjectsAdmitted /\ marks = held)
    /\ UNCHANGED <<treeVars, who, todo, walking, listed, dirty, got, kept, marks, held, output>>

----------------------------------------------------------------------------
Init ==
    /\ TreeInit
    /\ who \in Readers
    /\ pc = 1 /\ walking = FALSE /\ dirty = FALSE
    /\ todo = Nothing.todo /\ listed = Nothing.listed /\ got = Nothing.got
    /\ kept = Nothing.kept /\ marks = Nothing.marks /\ held = Nothing.marks
    /\ output = "none"
    /\ outcome = "running"

\* Nobody cares for the checkout once the reader is done.
DeveloperWrites ==
    /\ outcome = "running"
    /\ Developer
    /\ UNCHANGED <<readVars, output, outcome>>

Identity ==
    \/ RetainsRoot
    \/ RetainsHead
    \/ RetainsIndex
    \/ AdmitsRepository
    \/ ComparesRevision
    \/ ComparesIndex
    \/ Lists
    \/ \E f \in Files : Visits(f)
    \/ WalkEnds
    \/ Holds
    \/ Seals

Reader ==
    \/ Identity
    \/ ChecksPolicy
    \/ ReadsHead
    \/ StatusBegins
    \/ \E f \in Files : StatusLooks(f)
    \/ StatusEnds
    \/ ObservesBundle
    \/ ReadsDocuments
    \/ ReadsExpectations
    \/ CopiesSource
    \/ Builds
    \/ NamesArtifacts
    \/ RunsSamples
    \/ ReadsTree
    \/ ReadsTreeAgain
    \/ StagesTree
    \/ ValidatesCopy
    \/ Materializes
    \/ Retains
    \/ Publish
    \/ GivesUp

Next ==
    \/ DeveloperWrites
    \/ SomebodyPublishes
    \/ Reader

Spec == Init /\ [][Next]_vars

----------------------------------------------------------------------------
\* A published backend bundle was built from, and retains, the tree of the
\* pinned commit, whatever was written into the checkout while it was read.
BundleIsOfThePinnedCommit ==
    output = "ours" => got["source"] = Pinned /\ got["retained"] = Pinned

\* The moment a reader's record is about.  An identity that passed its recheck:
\* HEAD, the index and every path of the worktree were those of the commit at
\* once, although they were read one after the other and twice.
IdentityMoment(m) == m = Moment(Pinned, Pinned, Pinned)
\* A matching snapshot: the declared files had their expected values.  A capsule
\* that the worker accepted: its files were those of the worktree.
TaskMoment(m) == \A f \in Tracked : m.work[f] = Good
AdoptionMoment(m) == m.work = got["tree"]

\* What a reader accepted was there at one moment, although it read it file by
\* file while somebody worked in the checkout.  The identity is so whatever is
\* written: what was read before the end of the first capture has not changed
\* until it is read again after it.  The others read every file twice and are so
\* when nobody took a change back meanwhile.  A snapshot also needs HEAD to be
\* where it was read, because the status that follows compares with a HEAD of its
\* own; and the artifacts and samples of a baseline are those of the commit it
\* names if HEAD was never another, since no HEAD is read with the first of the
\* two statuses that enclose them.  The documents of a gate are read once, and are
\* those of the commit it tests as long as nobody writes a file or moves HEAD.
AcceptedIsOfOneMoment ==
    outcome = "accepted" =>
        /\ who = "identity" => \E m \in moments : IdentityMoment(m)
        /\ who = "task" /\ ~undone /\ head = got.head => \E m \in moments : TaskMoment(m)
        /\ who = "adoption" /\ ~undone => \E m \in moments : AdoptionMoment(m)
        /\ who = "baseline" /\ ~undone /\ had["HEAD"] = {got.head} =>
                got["artifacts"] = got.head /\ got["samples"] = got.head
        /\ who = "gate" /\ (\A t \in Files \cup {"HEAD"} : stamp[t] = 0) =>
                \A f \in Tracked : got["documents"][f] = got.head[f]
=============================================================================
