---------------------------- MODULE CodingTask -----------------------------
(***************************************************************************)
(* eval/runners/run-coding-task.py: one candidate patch is judged.  A copy *)
(* of the pinned fixture must fail its validation command, take the patch, *)
(* and then pass; the command runs in a sandbox that may write the copy    *)
(* but not its .git, and a watch measures what it holds while it runs.     *)
(* How a command is ended and what it leaves alive is in ChildBoundary.    *)
(*                                                                         *)
(* The command is a set of processes that fork and exit, open and close,   *)
(* copy descriptors and hand them over, and write, restore, create, link,  *)
(* rename and unlink files, between any two steps of the watch.            *)
(*                                                                         *)
(* Abstractions: a pinned file is its type, mode and content, 0 as pinned, *)
(* 1 as the patch makes it, 2 anything else; further files have size one,  *)
(* so that one limit stands for that of the bytes and that of the files,   *)
(* directories are not counted, and an inode number is not used again      *)
(* within one check; a file that is only mapped is held by no descriptor;  *)
(* the index, its flags and HEAD are behind the read-only bind, and the    *)
(* checks of them are part of the checks of the tree; a deadline may pass  *)
(* wherever the code compares with it, and a git command may fail wherever *)
(* one runs.  An error that no handler takes leaves the program with       *)
(* status 1, as a TaskError does.                                          *)
(***************************************************************************)
EXTENDS Integers, FiniteSets

CONSTANTS
  Files,     \* the files of the pinned fixture
  Allowed,   \* allowed_edits
  Scratch,   \* further files the command may make
  Names,     \* the names they may have: a directory and a number in it
  Forked,    \* the processes the command may fork
  Numbers,   \* the descriptors of each process
  Limit,     \* MAX_VALIDATION_WORKTREE_BYTES and _FILES, in further files
  Moves      \* bound: what the command does to the files in one run

ASSUME CodingAssumption ==
  /\ Allowed \subseteq Files /\ IsFiniteSet(Scratch) /\ "none" \notin Scratch
  /\ Names \subseteq {"A", "B"} \X Nat /\ Numbers \subseteq Nat \ {0}
  /\ Limit \in Nat /\ Moves \in Nat

VARIABLES
  pc,
  patch,    \* what the candidate patch edits and whether it creates a file, as git reads it
  fresh,    \* FRESH_MODE: the sandbox joins a prepared user namespace
  fds,      \* descriptors of that namespace that are open
  tree,     \* the pinned files; what the names are of; the directories with their modes
  procs,    \* the processes of the command and what their descriptors are open on
  started,  \* the tree each of the two validations started on
  codes,    \* their exit statuses
  kept,     \* worktree_snapshot after the patch
  moves,    \* moves left to the command
  watch,    \* the check of the resources
  use,      \* what there was throughout it, and what there was at all
  exists,   \* the temporary directory exists
  exit

taskVars == <<patch, fresh>>
watchVars == <<watch, use>>
runVars == <<started, codes, kept, moves, procs>>
vars == <<pc, taskVars, fds, tree, runVars, watchVars, exists, exit>>

Dirs == {"A", "B"}
Pids == {"root"} \cup Forked
Fds == Pids \X Numbers
NoName == <<"none", 0>>
NoFd == NoName
Closed == <<"none", NoName>>

Pinned == [files |-> [f \in Files |-> 0], names |-> [n \in Names |-> "none"], modes |-> TRUE]
NoTree == [Pinned EXCEPT !.modes = FALSE]
\* A descriptor is open on a file, by a name that it follows until that is
\* removed.
NoProcs == [alive |-> {"root"}, open |-> [h \in Fds |-> Closed]]
NoPatch == [edits |-> {}, creates |-> FALSE]
Idle ==
  [at |-> "idle", pids |-> {}, todo |-> {}, left |-> {}, link |-> NoFd, seen |-> {},
   named |-> 0, held |-> 0]
Unused == [named |-> {}, held |-> {}, ever |-> {}, linked |-> FALSE]

Init ==
  /\ pc = "admit" /\ fresh \in BOOLEAN
  /\ patch = NoPatch
  /\ fds = 0 /\ tree = NoTree
  /\ started = <<NoTree, NoTree>> /\ codes = <<9, 9>> /\ kept = NoTree /\ moves = Moves
  /\ procs = NoProcs /\ watch = Idle /\ use = Unused
  /\ exists = FALSE /\ exit = 9

Goes(a, b) == pc = a /\ pc' = b

\* A TaskError: main leaves the temporary directory on its way out.
Leaves(status) == pc' = "leave" /\ exit' = status
TaskFails == Leaves(1)
-----------------------------------------------------------------------------
(* Up to the first validation.                                             *)

UsageShown ==
  /\ Goes("admit", "done") /\ exit' = 2
  /\ UNCHANGED <<taskVars, fds, tree, runVars, watchVars, exists>>

\* A path outside the roots or, with --retained-inputs, a descriptor that is
\* not sealed; a task of another form; no such directory or patch.
InputsRefused ==
  /\ pc = "admit" /\ TaskFails
  /\ UNCHANGED <<taskVars, fds, tree, runVars, watchVars, exists>>

\* The temporary directory, into which a retained patch of admitted length is
\* copied.
DirectoryMade ==
  /\ pc = "admit" /\ exists' = TRUE
  /\ \/ pc' = "copy" /\ UNCHANGED exit
     \/ TaskFails
  /\ UNCHANGED <<taskVars, fds, tree, runVars, watchVars>>

\* copytree of whatever the source holds by now, with modes normalised; an
\* entry that is neither file, link nor directory ends it.
Copies ==
  [files: [Files -> {0, 2}], names: [Names -> Scratch \cup {"none"}], modes: {TRUE}]
FixtureCopied ==
  /\ pc = "copy"
  /\ \/ pc' = "revision" /\ tree' \in Copies /\ UNCHANGED exit
     \/ TaskFails /\ UNCHANGED tree
  /\ UNCHANGED <<taskVars, fds, runVars, watchVars, exists>>

\* All of the copy is committed: nothing is left over as ignored, and the
\* commit is the pinned one.
IsPinned(t) == t = Pinned
RevisionCompared ==
  /\ pc = "revision"
  /\ \/ IsPinned(tree) /\ pc' = "sandbox" /\ UNCHANGED exit
     \/ TaskFails
  /\ UNCHANGED <<taskVars, fds, tree, runVars, watchVars, exists>>

\* validate_candidate's finally, past which every failure comes from here on,
\* unless it forgets.
KeepsNamespace == fds' = fds
ClosesNamespace == fds' = 0
Refuses == TaskFails /\ ClosesNamespace

\* bwrap or prlimit is not there.
SandboxMissing ==
  /\ pc = "sandbox" /\ Refuses
  /\ UNCHANGED <<taskVars, tree, runVars, watchVars, exists>>

\* fresh_namespace_prefix registers the descriptor that the probe and both
\* validations use; without a namespace nothing stays open.
NamespaceOpened ==
  /\ pc = "sandbox" /\ fresh
  /\ \/ fds' = 1 /\ pc' = "probe" /\ UNCHANGED exit
     \/ Refuses
  /\ UNCHANGED <<taskVars, tree, runVars, watchVars, exists>>

\* A probe that fails, or takes more than two seconds.
SandboxProbed ==
  /\ pc = "probe" \/ (pc = "sandbox" /\ ~fresh)
  /\ \/ pc' = "command" /\ UNCHANGED <<fds, exit>>
     \/ Refuses
  /\ UNCHANGED <<taskVars, tree, runVars, watchVars, exists>>

\* Without a prepared namespace the command must be in what the sandbox shows
\* of the system.
SandboxCommandBuilt ==
  /\ pc = "command"
  /\ \/ pc' = "modes" /\ UNCHANGED <<fds, exit>>
     \/ ~fresh /\ Refuses
  /\ UNCHANGED <<taskVars, tree, runVars, watchVars, exists>>

Starts(n) ==
  /\ started' = [started EXCEPT ![n] = tree] /\ moves' = Moves
  /\ procs' = NoProcs /\ watch' = Idle

\* directory_modes is read before anything runs.
FirstValidation ==
  /\ pc = "modes"
  /\ \/ pc' = "before" /\ Starts(1) /\ UNCHANGED <<fds, exit>>
     \/ Refuses /\ UNCHANGED <<started, moves, procs, watch>>
  /\ UNCHANGED <<taskVars, tree, codes, kept, use, exists>>
-----------------------------------------------------------------------------
(* The validation command, between any two steps of the watch.             *)

Running == pc \in {"before", "after"}
Run == IF pc = "before" THEN 1 ELSE 2

\* The files that have a name or are open somewhere.
NamedIn(t) == {s \in Scratch : \E n \in Names : t.names[n] = s}
There(t, p) == NamedIn(t) \cup {s \in Scratch : \E h \in Fds : p.open[h][1] = s}
\* A descriptor that shows its name as deleted.
Deleted(p, h) == p.open[h] # Closed /\ p.open[h][2] = NoName

\* What a check has to account for: the names a file has kept since it began,
\* the descriptors of the processes it knows that have held one ever since its
\* name went, and every file that was there at some time.
Accounts(t, p, links) ==
  use' = [named |-> {x \in use.named : t.names[x[2]] = x[1]},
          held |-> {x \in Scratch \X Fds :
                      /\ p.open[x[2]] = <<x[1], NoName>>
                      /\ \/ x \in use.held
                         \/ /\ x[2][1] \in watch.pids
                            /\ \E n \in Names : <<x[1], n>> \in use.named /\ t.names[n] # x[1]},
          ever |-> use.ever \cup There(t, p),
          linked |-> use.linked \/ links]
Moved(t, p, links) ==
  /\ Running /\ moves > 0 /\ moves' = moves - 1
  /\ tree' = t /\ procs' = p
  /\ IF watch.at = "idle" THEN UNCHANGED use ELSE Accounts(t, p, links)
  /\ UNCHANGED <<pc, taskVars, fds, started, codes, kept, watch, exists, exit>>

\* A name given to a file or taken; a descriptor opened or closed; the
\* descriptors by a name that another name, or none, replaces.
Named(n, s) == [tree EXCEPT !.names = [m \in Names |-> IF m = n THEN s ELSE @[m]]]
Opened(h, e) == [procs EXCEPT !.open = [g \in Fds |-> IF g = h THEN e ELSE @[g]]]
Follow(p, n, m) ==
  [p EXCEPT !.open = [h \in Fds |-> IF @[h] # Closed /\ @[h][2] = n THEN <<@[h][1], m>> ELSE @[h]]]
FreeNames == {n \in Names : tree.names[n] = "none"}
FreeFds == {h \in Fds : h[1] \in procs.alive /\ procs.open[h] = Closed}

CommandWrites ==
  \E f \in Files, c \in 0..2 : Moved([tree EXCEPT !.files[f] = c], procs, FALSE)
CommandChangesModes == Moved([tree EXCEPT !.modes = ~@], procs, FALSE)
\* With a name or, O_TMPFILE, without; left open or not.
CommandCreates ==
  \E s \in Scratch \ (use.ever \cup There(tree, procs)),
     n \in FreeNames \cup {NoName}, h \in FreeFds \cup {NoFd} :
    (n # NoName \/ h # NoFd) /\ Moved(Named(n, s), Opened(h, <<s, n>>), FALSE)
CommandOpens ==
  \E n \in Names \ FreeNames, h \in FreeFds :
    Moved(tree, Opened(h, <<tree.names[n], n>>), FALSE)
CommandLinks ==
  \E s \in There(tree, procs), n \in FreeNames : Moved(Named(n, s), procs, TRUE)
\* To a free name, or over another file.
CommandRenames ==
  \E n \in Names \ FreeNames, m \in Names :
    /\ tree.names[m] # tree.names[n]
    /\ Moved([tree EXCEPT !.names[n] = "none", !.names[m] = tree.names[n]],
             Follow(Follow(procs, m, NoName), n, m), TRUE)
CommandUnlinks ==
  \E n \in Names \ FreeNames : Moved(Named(n, "none"), Follow(procs, n, NoName), FALSE)
\* dup, or a descriptor sent to another process.
CommandCopies ==
  \E h \in Fds, g \in FreeFds :
    procs.open[h] # Closed /\ Moved(tree, Opened(g, procs.open[h]), FALSE)
CommandCloses ==
  \E h \in Fds : procs.open[h] # Closed /\ Moved(tree, Opened(h, Closed), FALSE)
CommandForks ==
  \E p \in procs.alive, q \in Forked \ procs.alive :
    Moved(tree,
          [alive |-> procs.alive \cup {q},
           open |-> [h \in Fds |-> IF h[1] = q THEN procs.open[<<p, h[2]>>] ELSE procs.open[h]]],
          FALSE)
CommandExits ==
  \E p \in procs.alive :
    Moved(tree,
          [alive |-> procs.alive \ {p},
           open |-> [h \in Fds |-> IF h[1] = p THEN Closed ELSE procs.open[h]]],
          FALSE)

(* check_validation_resources: the processes, the directories, entry by    *)
(* entry, and then, process by process, the descriptors of files whose     *)
(* name has gone.                                                          *)
Watches(at) == Running /\ watch.at = at
Looks(w) ==
  /\ watch' = w
  /\ UNCHANGED <<pc, taskVars, fds, tree, runVars, use, exists, exit>>

\* A failed look ends the command: its processes are killed and reaped.
KillsCommand ==
  /\ Refuses /\ procs' = NoProcs
  /\ UNCHANGED <<taskVars, tree, started, codes, kept, moves, exists>>

\* validation_process_usage: more processes or memory than the limits.  The
\* processes that are there now are the ones whose descriptors are looked at.
ProcessUsage ==
  /\ Watches("idle") /\ moves > 0
  /\ \/ LET pids == procs.alive \cup {"root"}
        IN /\ watch' = [Idle EXCEPT !.at = "worktree", !.pids = pids, !.todo = Dirs]
           /\ use' = [named |-> {x \in Scratch \X Names : tree.names[x[2]] = x[1]},
                      held |-> {x \in Scratch \X Fds :
                                  x[2][1] \in pids /\ procs.open[x[2]] = <<x[1], NoName>>},
                      ever |-> There(tree, procs),
                      linked |-> \E n \in Names \ FreeNames, m \in Names :
                                   n # m /\ tree.names[m] = tree.names[n]]
           /\ UNCHANGED <<pc, taskVars, fds, tree, runVars, exists, exit>>
     \/ KillsCommand /\ UNCHANGED watchVars

DirectoryListed ==
  /\ Watches("worktree") /\ watch.left = {}
  /\ \E d \in watch.todo :
       Looks([watch EXCEPT !.todo = @ \ {d}, !.left = {n \in Names \ FreeNames : n[1] = d}])

\* A sum over the limit ends the look at once, and with it the command.
LooksOrRefuses(w, n) ==
  \/ n <= Limit /\ Looks(w)
  \/ n > Limit /\ KillsCommand /\ watch' = [w EXCEPT !.at = "refused"] /\ UNCHANGED use

\* Whatever has the listed name by now, without a look at what was counted
\* before; nothing has it any more, and it is passed over.
EntryCounted ==
  /\ Watches("worktree")
  /\ \E n \in watch.left :
       IF n \in FreeNames THEN Looks([watch EXCEPT !.left = @ \ {n}])
       ELSE LooksOrRefuses([watch EXCEPT !.left = @ \ {n}, !.seen = @ \cup {tree.names[n]},
                                         !.named = @ + 1],
                           watch.named + 1)

WorktreeScanned ==
  /\ Watches("worktree") /\ watch.left = {} /\ watch.todo = {}
  /\ Looks([watch EXCEPT !.at = "held", !.todo = watch.pids])

\* A process that is gone has no descriptors; those of one that does not let
\* itself be read are passed over, and accounted for no more.
DescriptorsListed ==
  /\ Watches("held") /\ watch.left = {} /\ watch.link = NoFd
  /\ \E p \in watch.todo :
       \/ Looks([watch EXCEPT !.todo = @ \ {p},
                              !.left = {h \in Fds : h[1] = p /\ procs.open[h] # Closed}])
       \/ /\ watch' = [watch EXCEPT !.todo = @ \ {p}]
          /\ use' = [use EXCEPT !.held = {x \in @ : x[2][1] # p}]
          /\ UNCHANGED <<pc, taskVars, fds, tree, runVars, exists, exit>>

\* readlink of a descriptor that may be another by now, or closed.
LinkRead ==
  /\ Watches("held") /\ watch.link = NoFd
  /\ \E h \in watch.left :
       Looks([watch EXCEPT !.left = @ \ {h}, !.link = IF Deleted(procs, h) THEN h ELSE NoFd])

\* Then stat, of what it is open on by then: counted unless it has been.
CountedAgain(s) == s \in Scratch
Counted(s) == CountedAgain(s) /\ s \notin watch.seen
DescriptorCounted ==
  /\ Watches("held") /\ watch.link # NoFd
  /\ LET s == procs.open[watch.link][1]
     IN IF ~Counted(s) THEN Looks([watch EXCEPT !.link = NoFd])
        ELSE LooksOrRefuses([watch EXCEPT !.link = NoFd, !.seen = @ \cup {s}, !.held = @ + 1],
                            watch.held + 1)

\* What has a name and what has none, together.
Sum == watch.named + watch.held
Measured == watch.at = "held" /\ watch.todo = {} /\ watch.left = {} /\ watch.link = NoFd
CheckEnds ==
  /\ Running /\ Measured
  /\ \/ /\ Sum <= Limit /\ watch' = Idle /\ use' = Unused
        /\ UNCHANGED <<pc, taskVars, fds, tree, runVars, exists, exit>>
     \/ Sum > Limit /\ KillsCommand /\ watch' = [watch EXCEPT !.at = "refused"] /\ UNCHANGED use

\* It cannot be started; its deadline, or that of a look, passes; a look fails.
CommandStopped == Running /\ KillsCommand /\ watch' = Idle /\ use' = Unused

\* The command ends and what is left of it is killed; what it held without a
\* name is gone with it.
CommandEnds ==
  /\ Running /\ watch.at = "idle"
  /\ \E code \in {0, 1} : codes' = [codes EXCEPT ![Run] = code]
  /\ procs' = NoProcs
  /\ pc' = IF Run = 1 THEN "pristine" ELSE "recheck"
  /\ UNCHANGED <<taskVars, fds, tree, started, kept, moves, watchVars, exists, exit>>
-----------------------------------------------------------------------------
(* What is checked of the tree.                                            *)

Checks(goes) ==
  /\ \/ goes /\ UNCHANGED <<fds, exit>>
     \/ Refuses
  /\ UNCHANGED <<taskVars, tree, runVars, watchVars, exists>>

\* actual_worktree_changes: what is at the pinned paths against the pinned
\* revision, and every path that it does not have.
Changed(t) == {f \in Files : t.files[f] # 0}
Untracked(t) == NamedIn(t)

\* directory_modes, read again: a directory more or less is a difference too.
ModesKept(t) == t.modes

\* check_pristine_checkout.
Pristine(t) == Changed(t) = {} /\ Untracked(t) = {} /\ ModesKept(t)
FixtureStillPinned ==
  pc = "pristine" /\ Checks(codes[1] # 0 /\ Pristine(tree) /\ pc' = "apply")

\* git apply --check, then git apply, which may fail having written.
Edited(edits) == [tree EXCEPT !.files = [f \in Files |-> IF f \in edits THEN 1 ELSE @[f]]]
PatchApplied ==
  /\ pc = "apply" /\ patch' \in [edits: SUBSET Files, creates: BOOLEAN]
  /\ \/ /\ pc' = "allowed"
        /\ \/ ~patch'.creates /\ tree' = Edited(patch'.edits)
           \/ /\ patch'.creates
              /\ \E n \in FreeNames, s \in Scratch :
                   tree' = [Edited(patch'.edits) EXCEPT !.names[n] = s]
        /\ UNCHANGED <<fds, exit>>
     \/ Refuses /\ UNCHANGED tree
     \/ Refuses /\ \E f \in patch'.edits : tree' = [tree EXCEPT !.files[f] = 1]
  /\ UNCHANGED <<fresh, runVars, watchVars, exists>>

\* check_allowed_changes, which a patch that changes nothing fails too.
OnlyAllowed(t) == Changed(t) # {} /\ Changed(t) \subseteq Allowed /\ Untracked(t) = {} /\ ModesKept(t)
CandidateAdmitted == pc = "allowed" /\ Checks(OnlyAllowed(tree) /\ pc' = "snapshot")

\* worktree_snapshot and index_snapshot, then the command again.
SecondValidation ==
  /\ pc = "snapshot"
  /\ \/ pc' = "after" /\ kept' = tree /\ Starts(2) /\ UNCHANGED <<fds, exit>>
     \/ Refuses /\ UNCHANGED <<started, kept, moves, procs, watch>>
  /\ UNCHANGED <<taskVars, tree, codes, use, exists>>

\* The same checks again, and the snapshots: only then the status counts.
SameFiles(t) == OnlyAllowed(t)
SameTree(t) == t = kept
CandidateJudged ==
  /\ pc = "recheck" /\ ClosesNamespace
  /\ \/ OnlyAllowed(tree) /\ SameTree(tree) /\ Leaves(IF codes[2] = 0 THEN 0 ELSE 4)
     \/ TaskFails
  /\ UNCHANGED <<taskVars, tree, runVars, watchVars, exists>>

\* The TemporaryDirectory goes with its block.
DirectoryRemoved ==
  /\ Goes("leave", "done") /\ exists' = FALSE
  /\ UNCHANGED <<taskVars, fds, tree, runVars, watchVars, exit>>

Command ==
  \/ CommandWrites \/ CommandChangesModes \/ CommandCreates \/ CommandOpens
  \/ CommandLinks \/ CommandRenames \/ CommandUnlinks \/ CommandCopies \/ CommandCloses
  \/ CommandForks \/ CommandExits \/ CommandEnds
Watch ==
  \/ ProcessUsage \/ DirectoryListed \/ EntryCounted \/ WorktreeScanned
  \/ DescriptorsListed \/ LinkRead \/ DescriptorCounted \/ CheckEnds \/ CommandStopped
Next ==
  \/ UsageShown \/ InputsRefused \/ DirectoryMade \/ FixtureCopied \/ RevisionCompared
  \/ SandboxMissing \/ NamespaceOpened \/ SandboxProbed \/ SandboxCommandBuilt
  \/ FirstValidation \/ Command \/ Watch
  \/ FixtureStillPinned \/ PatchApplied \/ CandidateAdmitted \/ SecondValidation
  \/ CandidateJudged \/ DirectoryRemoved

Spec == Init /\ [][Next]_vars
-----------------------------------------------------------------------------
PatchedTree == [Pinned EXCEPT !.files = [f \in Files |-> IF f \in patch.edits THEN 1 ELSE 0]]

(* Both scored statuses, 0 and 4, are of this patch: the fixture as pinned *)
(* failed, the second validation started on the fixture with the whole     *)
(* patch and nothing else, which is within allowed_edits, and the tree is  *)
(* that one still, whatever the command did on the way.                    *)
ScoredIsOfThePatch ==
  exit \in {0, 4} =>
    /\ codes[1] # 0 /\ started[1] = Pinned
    /\ started[2] = PatchedTree /\ tree = PatchedTree
    /\ patch.edits \subseteq Allowed
    /\ (exit = 0) = (codes[2] = 0)

(* The watch measures files that have a name and then files that have      *)
(* none, one after the other, while both come and go.  Its sum is at least *)
(* the number of files that kept a name from the collection of the         *)
(* processes on, or that one descriptor of a collected, readable process   *)
(* has held ever since the name went: no limit is overlooked that these    *)
(* exceed.  And unless some file had two names, or was given another by    *)
(* link or rename, no file is in the sum twice, so that no command is      *)
(* stopped for more than was ever there.  Nothing more is true of it: a    *)
(* file goes uncounted that a process holds that was forked after the      *)
(* collection, whose descriptor moves from one process or number to        *)
(* another, or whose name does; and one with two names is counted twice.   *)
Throughout ==
  {s \in Scratch : \/ \E n \in Names : <<s, n>> \in use.named
                   \/ \E h \in Fds : <<s, h>> \in use.held}
WatchIsExact ==
  /\ Measured => Cardinality(Throughout) <= Sum
  /\ Measured /\ ~use.linked => Sum <= Cardinality(use.ever)
  /\ watch.at = "refused" /\ ~use.linked => Limit < Cardinality(use.ever)

(* No exit leaves the checkout or a descriptor of the namespace behind.    *)
NothingOutlives == pc = "done" => ~exists /\ fds = 0
=============================================================================
