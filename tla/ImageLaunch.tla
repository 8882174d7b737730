----------------------------- MODULE ImageLaunch -----------------------------
(***************************************************************************)
(* From an installed image to the program that runs.  The image tools are  *)
(* a chain of programs, each of which reads the files of the image by      *)
(* their paths, checks what it read, and starts the next one:              *)
(*                                                                         *)
(*   "launch"     supervise, bootstrap and the repository's worker of      *)
(*                src/image/fresh/control/fresh_image_control.py;          *)
(*   "boundary"   _boundary_supervise and its dispatcher,                  *)
(*                request6_boundary.py;                                    *)
(*   "adoption"   the native parent, fresh-supervise.c, its dispatcher,    *)
(*                request6_adoption.py, the worker and the namespace,      *)
(*                adoption_namespace.py, with the rows it builds and the   *)
(*                compiler it hands to the last of them.                   *)
(*                                                                         *)
(* Meanwhile another image is installed, one file at a time, whoever works *)
(* in the checkout commits and edits, and a process that outlived an       *)
(* accepted row of the namespace (FreshChildren) writes where it may.      *)
(*                                                                         *)
(* A file of an image is its bytes: image i has its own at every path, and *)
(* the attestation of i is signed with the key of i and names the digests  *)
(* of the files of i.  An installation replaces a file and never writes    *)
(* into it, so a descriptor keeps what was opened and a running program    *)
(* keeps its bytes.  The programs of every image are those of the source.  *)
(* The signer of runs and its key are not replaced.  Sealed memory does    *)
(* not change; the modes, owners, sizes and link counts, the tests of the  *)
(* kernel and of the directories that are there before, what a tool says   *)
(* of itself, and the reads that fail only refuse, at any step (GivesUp).  *)
(*                                                                         *)
(* A program is started by the descriptor that was compared, from a copy   *)
(* that was compared, or by its path.  A tool of /opt/align-llm/tool-bin   *)
(* is compared and started by its descriptor, but most tools are           *)
(* forwarders, and a forwarder starts a program of /runtime by its path.   *)
(* The interpreter is started as /usr/bin/python3 and true is copied from  *)
(* /usr/bin/true; the manifest names the first python3.12 only, which is   *)
(* another directory entry, and the second not at all, so what is at those *)
(* two paths is compared by nobody.  What the loader loads for a program   *)
(* is not followed.                                                        *)
(* What is in the checkout beside HEAD and the worker is SourceCapture's.  *)
(***************************************************************************)
EXTENDS Naturals, Sequences

CONSTANTS
    Images,         \* the images that may be installed
    Commits,        \* the commits; a commit is the worker it has
    Modes,          \* the chains of the instance
    Unread,         \* what has not been read
    MaxInstalls,    \* bound on the files that are replaced
    MaxEdits,       \* bound on the edits of the checkout
    MaxLeft         \* bound on the writes of a process that was left

ASSUME ImagesAssumption == Images # {} /\ Commits # {}
ASSUME ModesAssumption == Modes \subseteq {"launch", "boundary", "adoption"}
ASSUME UnreadAssumption == Unread \notin Images \cup Commits

\* digests stands for the files of the image and provenance digests, runtime
\* for the runtime bindings, tools for tool-bin, system for /usr/bin/python3 and
\* /usr/bin/true.
ImageFiles == {"attestation", "key", "supervisor", "bootstrap", "manifest", "digests",
               "runtime", "tools", "system", "dispatcher"}

\* What row 2 leaves for row 3.
Built == {"compiler", "archive"}

VARIABLES
    disk,       \* the image of each installed file
    installs,   \* files replaced so far
    replaced,   \* history: how often the runtime and the tools were
    head,       \* HEAD of the checkout
    script,     \* the worker in the worktree
    edits,      \* edits so far
    mode, position, verdict,
    got,        \* what each step of the chain read or started
    dates,      \* history: how often that file had been replaced then
    trial,      \* what the self-test of the platform made and did not remove
    capsule,    \* the authority the namespace is given: "own", or that of an
                \* "earlier" invocation of the same worker and image
    left,       \* a process of an accepted row is still there
    target,     \* the compiler and archive of the build directory
    stamps,     \* their change times
    copies,     \* the compiler and archive that are handed on
    shown,      \* history: the states of target since the build
    touched     \* history: the process that was left wrote into the copies

imageVars == <<disk, installs, replaced>>
readVars == <<got, dates>>
checkoutVars == <<head, script, edits>>
buildVars == <<left, target, stamps, copies, shown, touched>>
launchVars == <<imageVars, checkoutVars, mode, position, verdict, readVars, trial, capsule,
                buildVars>>

----------------------------------------------------------------------------
\* The order of the steps.
LaunchProgram ==
    <<"supervisor", "python", "attestation", "key", "bootstrap", "manifest", "digests", "verify",
      "runtime", "tools", "targets", "namespace", "guard", "program", "leaf", "group",
      "git", "head", "worker", "sign", "exec",
      "python-again", "key-again", "own", "manifest-again", "worker-again",
      "python-worker", "runtime-again", "tools-again", "targets-again", "inputs", "sandbox">>
BoundaryProgram ==
    <<"supervisor", "python", "attestation", "manifest", "key", "bootstrap", "manifest-again",
      "digests", "verify", "dispatcher", "roots", "python-again", "key-again", "bind", "presence">>
AdoptionProgram ==
    <<"supervisor", "attestation", "manifest", "dispatcher", "preflight", "python", "key-again",
      "authenticate", "roots", "dispatcher-git", "head", "worker", "entrypoint", "sign", "proof",
      "python-worker", "attestation-again", "manifest-again", "entrypoint-again", "tools",
      "targets", "runtime", "inputs", "capsule", "stage", "build", "stat", "compiler", "archive",
      "stat-again", "copy", "describe", "launcher">>

Program == [launch |-> LaunchProgram, boundary |-> BoundaryProgram, adoption |-> AdoptionProgram]

Slots == {LaunchProgram[i] : i \in DOMAIN LaunchProgram}
         \cup {BoundaryProgram[i] : i \in DOMAIN BoundaryProgram}
         \cup {AdoptionProgram[i] : i \in DOMAIN AdoptionProgram}

\* The steps that compare the runtime or the tools with the manifest, and those
\* that start a program of them by its path.
Comparisons == {"runtime", "runtime-again", "git", "inputs", "tools", "tools-again"}
ByPath == {"targets", "targets-again", "dispatcher-git", "namespace", "guard", "sandbox"}
Dated == Comparisons \cup ByPath
FileOf(op) == IF op \in {"tools", "tools-again", "guard"} THEN "tools" ELSE "runtime"

At(op) ==
    /\ verdict = "running"
    /\ Program[mode][position] = op

Continues ==
    /\ position' = position + 1
    /\ verdict' = IF position = Len(Program[mode]) THEN "accepted" ELSE "running"

Decides(admitted) ==
    IF admitted THEN Continues ELSE verdict' = "refused" /\ UNCHANGED position

Records(op, value) ==
    /\ got' = [got EXCEPT ![op] = value]
    /\ dates' = IF op \in Dated THEN [dates EXCEPT ![op] = replaced[FileOf(op)]] ELSE dates

\* A step that reads a value, and is refused on what it read.
Takes(op, value, admitted) ==
    /\ At(op)
    /\ Records(op, value)
    /\ Decides(admitted)
    /\ UNCHANGED <<imageVars, checkoutVars, mode, trial, capsule, buildVars>>

\* A step that only compares.
Compares(op, admitted) == Takes(op, Unread, admitted)

GivesUp ==
    /\ verdict = "running"
    /\ verdict' = "refused"
    /\ UNCHANGED <<imageVars, checkoutVars, mode, position, readVars, trial, capsule, buildVars>>

----------------------------------------------------------------------------
\* The supervisor.  It is the program that runs; it reads itself from the
\* descriptor of its own file.
StartsSupervisor == Takes("supervisor", disk["supervisor"], TRUE)

\* The supervisor, the bootstrap and the dispatchers start the interpreter by its
\* path, and so do the bootstrap and the dispatcher for the worker.
Interpreters == {"python", "python-again", "python-worker"}
StartsPython == \E op \in Interpreters : Takes(op, disk["system"], TRUE)

SealsAttestation == Takes("attestation", disk["attestation"], TRUE)
ReadsKey == Takes("key", disk["key"], disk["key"] = got["attestation"])
ReadsBootstrap == Takes("bootstrap", disk["bootstrap"], TRUE)
ReadsManifest == Takes("manifest", disk["manifest"], TRUE)
ReadsDigests == Takes("digests", disk["digests"], TRUE)

\* The predicate of the attestation against everything that was read.
ImageTuple == {"supervisor", "key", "bootstrap", "digests"}
              \cup (IF mode = "boundary" THEN {"manifest-again"} ELSE {"manifest"})
ImageAdmitted == \A s \in ImageTuple : got[s] = got["attestation"]

\* The boundary read the manifest before, and it has to be the same.
BoundaryManifestAdmitted == mode = "boundary" => got["manifest"] = got["manifest-again"]

VerifiesImage == Compares("verify", ImageAdmitted /\ BoundaryManifestAdmitted)

\* The trees of the runtime bindings, by the supervisor and the worker, and the
\* git that is kept.
RuntimeAdmitted(image) == image = got["manifest"]
TestsRuntime ==
    \E op \in {"runtime", "runtime-again"} :
        Takes(op, disk["runtime"], RuntimeAdmitted(disk["runtime"]))
RetainsGit == Takes("git", disk["runtime"], RuntimeAdmitted(disk["runtime"]))

\* Each tool is opened, compared and started by the descriptor that was
\* compared; the worker copies them from it.
TestsTools ==
    \E op \in {"tools", "tools-again"} :
        Takes(op, disk["tools"], RuntimeAdmitted(disk["tools"]))

\* Programs of the runtime that are started by their path: those behind the
\* forwarders, when the tools are tried and when the worker asks git for its
\* sources; the dispatcher's git; and the bwrap of the build, which is behind the
\* worker's copy of the forwarder.
StartsTarget ==
    \E op \in {"targets", "targets-again", "dispatcher-git", "sandbox"} :
        Takes(op, disk["runtime"], TRUE)

\* A probe of the platform makes something, runs a program with it and removes
\* it; one that is refused removes it too, if it can.
Probes(op, program, left_by_pass, left_by_refusal) ==
    /\ At(op)
    /\ Records(op, program)
    /\ \/ Continues /\ trial' \in left_by_pass
       \/ verdict' = "refused" /\ UNCHANGED position /\ trial' \in left_by_refusal
    /\ UNCHANGED <<imageVars, checkoutVars, mode, capsule, buildVars>>

And(thing) == {trial, trial \cup {thing}}

\* The forwarder that was kept starts bwrap, which mounts the private directories
\* and that of the tools, opened by its path.
ProbesNamespace ==
    Probes("namespace", disk["runtime"], {trial \cup {"directories"}}, And("directories"))

\* bwrap starts mount-guard from there.  The directories are removed, or nothing
\* goes on.
GuardsMounts ==
    Probes("guard", disk["tools"], {trial \ {"directories"}}, {trial, trial \ {"directories"}})

\* A copy of true is made, started and removed; that it stays is not told.
ProbesExecution == Probes("program", disk["system"], And("program"), And("program"))

\* A leaf of the control group.  One that cannot be opened has no identity by
\* which it could be removed.
MakesLeaf == Probes("leaf", Unread, {trial \cup {"leaf"}}, And("leaf"))

\* Its limits are set and read back, an interpreter is started by its path and
\* limited in it, and it is empty when it is removed.
ProbesGroup ==
    Probes("group", disk["system"], {trial \ {"leaf"}}, {trial, trial \ {"leaf"}})

\* HEAD and the worker, read one after the other and signed together.
ReadsHead == Takes("head", head, TRUE)
ReadsWorker == Takes("worker", script, TRUE)

\* The seed of the signer goes with the installed key of runs.  What is signed:
\* the predicate of a run, and the capsule of an adoption.
Invocation ==
    [image |-> got["attestation"], manifest |-> got["manifest"], head |-> got["head"],
     controller |-> got["worker"], entrypoint |-> got["entrypoint"]]
SignsRun == \E paired \in BOOLEAN : Takes("sign", Invocation, paired)

\* The bootstrap is started by its path.
ExecsBootstrap == Takes("exec", disk["bootstrap"], TRUE)

----------------------------------------------------------------------------
\* The bootstrap has the sealed attestations of the image and of the run.
ReadsKeyAgain == Takes("key-again", disk["key"], disk["key"] = got["attestation"])

\* It reads itself; and the run is signed for the image.
OwnAdmittedAsRead ==
    got["bootstrap"] = got["attestation"] /\ got["sign"].image = got["attestation"]
OwnAdmitted ==
    got["exec"] = got["attestation"] /\ got["sign"].image = got["attestation"]
VerifiesItself == Compares("own", OwnAdmitted)

\* The manifest is that of the image, of the run and of the capsule, whoever
\* reads it again.
ManifestAgainAdmitted(image) ==
    mode # "boundary" => image = got["attestation"] /\ image = got["sign"].manifest
ReadsManifestAgain ==
    Takes("manifest-again", disk["manifest"], ManifestAgainAdmitted(disk["manifest"]))

WorkerAgainAdmitted(worker) == worker = got["sign"].controller
ReadsWorkerAgain == Takes("worker-again", script, WorkerAgainAdmitted(script))

\* The worker copies the runtime into its private root, each file compared with
\* the manifest while it is copied.
InputsAdmittedUncompared(image) == image \in Images
InputsAdmitted(image) == image = got["manifest"]
CopiesInputs == Takes("inputs", disk["runtime"], InputsAdmitted(disk["runtime"]))

----------------------------------------------------------------------------
\* The dispatcher of the boundary and of the adoption is opened, checked and
\* started by one descriptor.
BoundaryDispatcherAdmitted(image) == mode = "boundary" => image = got["manifest"]
OpensDispatcher ==
    Takes("dispatcher", disk["dispatcher"], BoundaryDispatcherAdmitted(disk["dispatcher"]))

\* The roots of the two checkouts are walked to and kept open.
RetainsRoots == Compares("roots", TRUE)

\* The boundary's dispatcher: the sealed manifest is the one of the image.  Then
\* it reports a revision error, with the worker and without it, and that is the
\* only result the supervisor takes.
BindsInputs == Compares("bind", got["manifest"] = got["attestation"])
ReportsPresence == Compares("presence", TRUE)

\* The native parent: its own bytes, the sealed manifest and the dispatcher
\* against the sealed attestation.
PreflightAdmitted ==
    /\ got["supervisor"] = got["attestation"]
    /\ got["manifest"] = got["attestation"]
    /\ got["dispatcher"] = got["manifest"]
Preflight == Compares("preflight", PreflightAdmitted)

\* The dispatcher: the signature was checked with the key, the parent is the
\* supervisor of the image.
ParentAdmitted ==
    /\ got["supervisor"] = got["attestation"]
    /\ got["manifest"] = got["attestation"]
AuthenticatesParent == Compares("authenticate", ParentAdmitted)

\* The path of the dispatcher once more, for the capsule.
BindsEntrypoint ==
    Takes("entrypoint", disk["dispatcher"], disk["dispatcher"] = got["manifest"])

\* The parent is told the digest of the capsule, and answers with a proof over
\* it, the ticket and the nonce of this invocation.
SendsProof == Compares("proof", TRUE)

\* The worker, which runs from sealed memory, reads the image by its paths and
\* compares it with the capsule.
ReadsAttestationAgain ==
    Takes("attestation-again", disk["attestation"], disk["attestation"] = got["sign"].image)
BindsEntrypointAgain ==
    Takes("entrypoint-again", disk["dispatcher"], disk["dispatcher"] = got["sign"].entrypoint)

\* The namespace is given a capsule, a worker and a nonce that agree; the proof
\* on the channel is of the invocation that holds the other end.
ProofAdmittedForAny(authority) == authority \in {"own", "earlier"}
ProofAdmitted(authority) == authority = "own"
AdmitsCapsule ==
    /\ At("capsule")
    /\ capsule' \in {"own", "earlier"}
    /\ Decides(ProofAdmitted(capsule'))
    /\ UNCHANGED <<imageVars, checkoutVars, mode, readVars, trial, buildVars>>

\* The inputs are copied once more and unmounted before a row starts.
StagesInputs == Takes("stage", got["inputs"], TRUE)

----------------------------------------------------------------------------
\* The rows.  A row may be accepted while a process of it is left.
Builds ==
    /\ At("build")
    /\ target' = [f \in Built |-> 1]
    /\ shown' = {target'}
    /\ left' \in BOOLEAN
    /\ Continues
    /\ UNCHANGED <<imageVars, checkoutVars, mode, readVars, trial, capsule, stamps, copies,
                   touched>>

\* Both files are opened and looked at, read, and looked at again.
Stats == Takes("stat", stamps, TRUE)
ReadsCompiler == Takes("compiler", target["compiler"], TRUE)
ReadsArchive == Takes("archive", target["archive"], TRUE)

SourcesStableUnchecked == stamps \in [Built -> Nat]
SourcesStable == stamps = got["stat"]
StatsAgain == Compares("stat-again", SourcesStable)

\* The directory of the copies is made writable.
WritesCopies ==
    /\ At("copy")
    /\ copies' = [f \in Built |-> got[f]]
    /\ Continues
    /\ UNCHANGED <<imageVars, checkoutVars, mode, readVars, trial, capsule, left, target,
                   stamps, shown, touched>>

\* The copies are read back and described; the directory is made read-only,
\* which fails while somebody has one of them open for writing.
Describes == Takes("describe", copies, TRUE)

\* The launcher of row 3 compares both with their description and executes the
\* descriptor it read.
LauncherAdmitsAny == DOMAIN copies = Built
LauncherAdmits == copies = got["describe"]
Launches == Takes("launcher", copies, LauncherAdmits)

----------------------------------------------------------------------------
\* Everybody else.
Install(f, i) ==
    /\ installs < MaxInstalls
    /\ disk[f] # i
    /\ disk' = [disk EXCEPT ![f] = i]
    /\ installs' = installs + 1
    /\ replaced' = IF f \in {"runtime", "tools"} THEN [replaced EXCEPT ![f] = @ + 1] ELSE replaced
    /\ UNCHANGED <<checkoutVars, mode, position, verdict, readVars, trial, capsule, buildVars>>

Edit ==
    /\ edits < MaxEdits
    /\ edits' = edits + 1
    /\ \E c \in Commits :
        \/ head' = c /\ UNCHANGED script
        \/ script' = c /\ UNCHANGED head
    /\ UNCHANGED <<imageVars, mode, position, verdict, readVars, trial, capsule, buildVars>>

LeftWrites(f) ==
    /\ left
    /\ stamps["compiler"] + stamps["archive"] < MaxLeft
    /\ stamps' = [stamps EXCEPT ![f] = @ + 1]
    /\ target' = [target EXCEPT ![f] = @ + 1]
    /\ shown' = shown \cup {target'}
    /\ UNCHANGED <<imageVars, checkoutVars, mode, position, verdict, readVars, trial, capsule,
                   left, copies, touched>>

\* The copies are writable until their directory is read-only again.
CopiesWritable ==
    copies # [f \in Built |-> 0] /\ Program[mode][position] \in {"describe", "launcher"}

LeftWritesCopy(f) ==
    /\ left /\ ~touched
    /\ CopiesWritable
    /\ copies' = [copies EXCEPT ![f] = 0]
    /\ touched' = TRUE
    /\ UNCHANGED <<imageVars, checkoutVars, mode, position, verdict, readVars, trial, capsule,
                   left, target, stamps, shown>>

Others ==
    /\ verdict = "running"
    /\ \/ \E f \in ImageFiles, i \in Images : Install(f, i)
       \/ Edit
       \/ \E f \in Built : LeftWrites(f)
       \/ \E f \in Built : LeftWritesCopy(f)

----------------------------------------------------------------------------
LaunchInit ==
    /\ disk \in {[f \in ImageFiles |-> i] : i \in Images}
    /\ installs = 0 /\ replaced = [f \in {"runtime", "tools"} |-> 0]
    /\ head \in Commits /\ script = head /\ edits = 0
    /\ mode \in Modes
    /\ position = 1 /\ verdict = "running"
    /\ got = [s \in Slots |-> Unread] /\ dates = [s \in Dated |-> 0]
    /\ trial = {}
    /\ capsule = "none"
    /\ left = FALSE
    /\ target = [f \in Built |-> 0] /\ stamps = [f \in Built |-> 0]
    /\ copies = [f \in Built |-> 0]
    /\ shown = {} /\ touched = FALSE

Supervisor ==
    \/ StartsSupervisor
    \/ StartsPython
    \/ SealsAttestation
    \/ ReadsKey
    \/ ReadsBootstrap
    \/ ReadsManifest
    \/ ReadsDigests
    \/ VerifiesImage
    \/ TestsRuntime
    \/ TestsTools
    \/ StartsTarget
    \/ ProbesNamespace
    \/ GuardsMounts
    \/ ProbesExecution
    \/ MakesLeaf
    \/ ProbesGroup
    \/ RetainsGit
    \/ ReadsHead
    \/ ReadsWorker
    \/ SignsRun
    \/ ExecsBootstrap

Bootstrap ==
    \/ ReadsKeyAgain
    \/ VerifiesItself
    \/ ReadsManifestAgain
    \/ ReadsWorkerAgain
    \/ CopiesInputs

Dispatcher ==
    \/ OpensDispatcher
    \/ RetainsRoots
    \/ BindsInputs
    \/ ReportsPresence
    \/ Preflight
    \/ AuthenticatesParent
    \/ BindsEntrypoint
    \/ SendsProof
    \/ ReadsAttestationAgain
    \/ BindsEntrypointAgain

Namespace ==
    \/ AdmitsCapsule
    \/ StagesInputs
    \/ Builds
    \/ Stats
    \/ ReadsCompiler
    \/ ReadsArchive
    \/ StatsAgain
    \/ WritesCopies
    \/ Describes
    \/ Launches

LaunchNext ==
    \/ Supervisor
    \/ Bootstrap
    \/ Dispatcher
    \/ Namespace
    \/ GivesUp
    \/ Others

LaunchSpec == LaunchInit /\ [][LaunchNext]_launchVars

----------------------------------------------------------------------------
\* The variables have their types.
TypeOK ==
    /\ disk \in [ImageFiles -> Images]
    /\ head \in Commits /\ script \in Commits
    /\ mode \in Modes
    /\ position \in 1..Len(Program[mode]) + 1
    /\ verdict \in {"running", "accepted", "refused"}
    /\ capsule \in {"none", "own", "earlier"}

\* The programs that were started by a descriptor or from a copy that was
\* compared, and the bootstrap, which compares itself, by the mode of the chain.
Ran == CASE mode = "launch" ->
              {"supervisor", "tools", "exec", "git", "tools-again", "inputs"}
         [] mode = "boundary" -> {"supervisor", "dispatcher"}
         [] mode = "adoption" -> {"supervisor", "dispatcher", "entrypoint", "tools", "stage"}

ChainSteps == {Program[mode][i] : i \in DOMAIN Program[mode]}

\* The file was replaced between this step and every comparison of it.
ReplacedAround(op) ==
    \A c \in Comparisons \cap ChainSteps : FileOf(c) = FileOf(op) => dates[c] # dates[op]

\* Of a chain that reached its end: the manifest it worked with and every program
\* that it started by a descriptor or from a copy that had been compared, and
\* its bootstrap, are those of the image whose attestation it sealed at its
\* start, although its files were replaced while they were read and between the
\* check of a program and its start.  A program of the manifest that it started
\* by its path, which is every program behind a forwarder, mount-guard, the git
\* of the adoption's dispatcher and the bwrap of the build, is of that image too,
\* unless the file was replaced since the last comparison and, where another one
\* follows, put back before it: no check sees that.  Nothing is said of
\* /usr/bin/python3, which runs the supervisor, the bootstrap, the dispatchers,
\* the probe of the group and the workers, and of /usr/bin/true: both are started
\* by their path and no step reads that path.  The worker is the one that was
\* signed with the run, of the probes of the platform nothing is left but, at
\* most, their copy of a program, and the namespace is that of the invocation
\* that waits for it.
LaunchIsOfOneImage ==
    verdict = "accepted" =>
        /\ \A s \in Ran \cup {"manifest", "key-again"} : got[s] = got["attestation"]
        /\ \A s \in ByPath \cap ChainSteps : got[s] = got["attestation"] \/ ReplacedAround(s)
        /\ mode = "launch" => got["worker-again"] = got["worker"] /\ trial \subseteq {"program"}
        /\ mode = "adoption" => capsule = "own"

\* The last row executes the compiler and the archive that were described for
\* it.  Unless a process that was left wrote into the copies, they were in the
\* build directory together, and without such a process they are what the build
\* left there.
CompilerIsTheDescribed ==
    mode = "adoption" /\ verdict = "accepted" =>
        /\ got["launcher"] = got["describe"]
        /\ ~touched => got["launcher"] \in shown
        /\ ~left => got["launcher"] = [f \in Built |-> 1]
=============================================================================
