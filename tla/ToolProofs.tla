------------------------------ MODULE ToolProofs ------------------------------
(***************************************************************************)
(* Theorems about the coding-task runner, for every fixture, every set of  *)
(* allowed edits, every limit and every number of moves of the command;    *)
(* about the children of all tools and of the fresh image, for every       *)
(* number of processes; and about the launch of the image, for every       *)
(* number of images, commits, replacements, edits and writes.              *)
(***************************************************************************)
EXTENDS CodingTask, FreshChildren, ImageLaunch, FiniteSetTheorems, WellFoundedInduction, TLAPS

-----------------------------------------------------------------------------
Steps ==
  {"admit", "copy", "revision", "sandbox", "probe", "command", "modes",
   "before", "pristine", "apply", "allowed",
   "snapshot", "after", "recheck", "leave", "done"}
Trees ==
  [files: [Files -> 0..2], names: [Names -> Scratch \cup {"none"}], modes: BOOLEAN]
Opening == (Scratch \X (Names \cup {NoName})) \cup {Closed}
Groups == [alive: SUBSET Pids, open: [Fds -> Opening]]
Looking ==
  [at: {"idle", "worktree", "held", "refused"}, pids: SUBSET Pids, todo: SUBSET (Dirs \cup Pids),
   left: SUBSET (Names \cup Fds), link: Fds \cup {NoFd}, seen: SUBSET Scratch,
   named: Nat, held: Nat]
Used ==
  [named: SUBSET (Scratch \X Names), held: SUBSET (Scratch \X Fds), ever: SUBSET Scratch,
   linked: BOOLEAN]

TypeInv ==
  /\ pc \in Steps
  /\ patch \in [edits: SUBSET Files, creates: BOOLEAN] /\ fresh \in BOOLEAN
  /\ fds \in {0, 1} /\ exists \in BOOLEAN /\ exit \in {0, 1, 2, 4, 9}
  /\ tree \in Trees /\ kept \in Trees /\ procs \in Groups
  /\ started \in [1..2 -> Trees] /\ codes \in [1..2 -> {0, 1, 9}] /\ moves \in Nat
  /\ watch \in Looking
  /\ use \in Used

(* What is known of the tree by where the runner is.  The command has its   *)
(* way with it while it runs; the checks afterwards bring back what is      *)
(* known, which is the whole tree both times.                               *)
TreeInv ==
  /\ pc \in {"sandbox", "probe", "command", "modes", "apply"} => tree = Pinned
  /\ pc \in {"before", "pristine", "apply", "allowed", "snapshot", "after", "recheck"}
       => started[1] = Pinned
  /\ pc \in {"apply", "allowed", "snapshot", "after", "recheck"} => codes[1] # 0
  /\ pc = "allowed" => tree = PatchedTree \/ Untracked(tree) # {}
  /\ pc = "snapshot" => tree = PatchedTree
  /\ pc \in {"after", "recheck"} => started[2] = PatchedTree /\ kept = PatchedTree
  /\ pc \in {"snapshot", "after", "recheck"} => patch.edits \subseteq Allowed
  /\ pc \notin {"leave", "done"} => exit = 9
  /\ ScoredIsOfThePatch

(* What was created is there until it is removed, and a descriptor only     *)
(* while the namespace is in use.                                           *)
HeldInv ==
  /\ pc \in {"admit", "copy", "revision", "sandbox", "leave", "done"} => fds = 0
  /\ pc \in {"admit", "done"} => ~exists

(* The watch between two of its looks.  What it has seen is as many files   *)
(* as it has counted, at most, and just as many while no file has been      *)
(* given another name: then it has no name that is still to be looked at.   *)
(* A file that has kept its name is seen, or its name is still to be met,   *)
(* or its directory; one that a descriptor has held since is seen, or the   *)
(* descriptor is still to be met, or its process.                           *)
Unmet(w, n) == n \in w.left \/ n[1] \in w.todo
Once(w) ==
  /\ \A n, m \in Names : tree.names[n] = tree.names[m] /\ tree.names[n] # "none" => n = m
  /\ \A n \in Names : Unmet(w, n) => tree.names[n] \notin w.seen
Fits(w) ==
  /\ w.at \in {"worktree", "held"} =>
       /\ There(tree, procs) \subseteq use.ever /\ w.seen \subseteq use.ever
       /\ Cardinality(w.seen) <= w.named + w.held
       /\ ~use.linked => w.named + w.held = Cardinality(w.seen)
       /\ \A x \in use.named : tree.names[x[2]] = x[1]
       /\ \A x \in use.held : procs.open[x[2]] = <<x[1], NoName>> /\ x[2][1] \in w.pids
  /\ w.at = "worktree" =>
       /\ w.left \subseteq Names /\ \A n \in w.left : n[1] \notin w.todo
       /\ \A x \in use.named : x[1] \in w.seen \/ Unmet(w, x[2])
       /\ ~use.linked => Once(w)
  /\ w.at = "held" =>
       /\ w.left \subseteq Fds
       /\ \A x \in use.named : x[1] \in w.seen
       /\ \A x \in use.held : x[1] \in w.seen \/ Unmet(w, x[2]) \/ x[2] = w.link
  /\ w.at = "refused" /\ ~use.linked => Limit < Cardinality(use.ever)
WatchInv ==
  /\ pc \notin {"before", "after", "leave", "done"} => watch.at = "idle"
  /\ Fits(watch)

Inv == TypeInv /\ TreeInv /\ HeldInv /\ WatchInv

-----------------------------------------------------------------------------
(* The checks of the tree.                                                  *)

(* The pinned tree and the patched one are trees, and no processes are a    *)
(* group.                                                                   *)
LEMMA TreesAreTrees ==
  /\ Pinned \in Trees /\ NoTree \in Trees /\ PatchedTree \in Trees
  /\ NoProcs \in Groups /\ Idle \in Looking /\ Unused \in Used
<1>1. Pinned \in Trees
  BY DEF Trees, Pinned
<1>2. NoTree \in Trees
  BY <1>1 DEF Trees, NoTree
<1>3. [f \in Files |-> IF f \in patch.edits THEN 1 ELSE 0] \in [Files -> 0..2]
  OBVIOUS
<1>4. PatchedTree \in Trees
  BY <1>1, <1>3 DEF Trees, PatchedTree
<1>5. NoProcs \in Groups
  BY DEF NoProcs, Groups, Opening, Pids
<1>6. Idle \in Looking
  BY DEF Idle, Looking
<1>7. Unused \in Used
  BY DEF Unused, Used
<1> QED
  BY <1>1, <1>2, <1>4, <1>5, <1>6, <1>7

(* A tree that check_pristine_checkout passes is the pinned one.            *)
LEMMA PristineIsPinned ==
  ASSUME NEW t \in Trees, Pristine(t)
  PROVE  t = Pinned
<1>1. t.files = [f \in Files |-> 0]
  BY DEF Pristine, Changed, Trees
<1>2. t.names = [n \in Names |-> "none"]
  <2>1. \A n \in Names : t.names[n] = "none"
    BY DEF Pristine, Untracked, NamedIn, Trees
  <2> QED
    BY <2>1 DEF Trees
<1>3. t.modes = TRUE
  BY DEF Pristine, ModesKept, Trees
<1> QED
  BY <1>1, <1>2, <1>3 DEF Trees, Pinned

(* The fixture with the edits of the patch passes check_allowed_changes     *)
(* only if they are within allowed_edits.                                   *)
LEMMA AllowedIsPatched ==
  ASSUME TypeInv, OnlyAllowed(PatchedTree)
  PROVE  patch.edits \subseteq Allowed
<1>1. PatchedTree.files = [f \in Files |-> IF f \in patch.edits THEN 1 ELSE 0]
  BY DEF PatchedTree, Pinned
<1>2. Changed(PatchedTree) = patch.edits
  BY <1>1 DEF Changed, TypeInv
<1> QED
  BY <1>2 DEF OnlyAllowed

-----------------------------------------------------------------------------
(* Steps of the runner.                                                     *)

Entering ==
  UsageShown \/ InputsRefused \/ DirectoryMade \/ FixtureCopied \/ RevisionCompared
Sandboxing == SandboxMissing \/ NamespaceOpened \/ SandboxProbed \/ SandboxCommandBuilt
Judging == FixtureStillPinned \/ CandidateAdmitted \/ CandidateJudged
Quiet ==
  \/ Entering \/ Sandboxing \/ Judging
  \/ FirstValidation \/ PatchApplied \/ SecondValidation \/ DirectoryRemoved

(* The initial states satisfy the invariant.                                *)
LEMMA InitInv ==
  ASSUME CodingAssumption, Init
  PROVE  Inv
<1> USE DEF Init
<1>1. TypeInv
  <2>1. tree \in Trees /\ kept \in Trees /\ started \in [1..2 -> Trees]
    BY TreesAreTrees
  <2>2. watch \in Looking /\ use \in Used /\ procs \in Groups
    BY TreesAreTrees
  <2>3. patch \in [edits: SUBSET Files, creates: BOOLEAN]
    BY DEF NoPatch
  <2>4. codes \in [1..2 -> {0, 1, 9}] /\ moves \in Nat
    BY DEF CodingAssumption
  <2> QED
    BY <2>1, <2>2, <2>3, <2>4 DEF TypeInv, Steps
<1>2. TreeInv
  BY DEF TreeInv, ScoredIsOfThePatch
<1>3. HeldInv
  BY DEF HeldInv
<1>4. WatchInv
  BY DEF WatchInv, Fits, Idle
<1> QED
  BY <1>1, <1>2, <1>3, <1>4 DEF Inv

(* The steps of the runner leave the types.                                 *)
LEMMA RunnerIsTyped ==
  ASSUME CodingAssumption, TypeInv, Quiet
  PROVE  TypeInv'
<1> USE DEF TypeInv, Steps
<1>1. CASE Entering
  <2>1. Copies \subseteq Trees
    <3> SUFFICES ASSUME NEW c \in Copies PROVE c \in Trees
      OBVIOUS
    <3>1. c.files \in [Files -> 0..2]
      BY DEF Copies
    <3>2. c.names \in [Names -> Scratch \cup {"none"}]
      BY DEF Copies
    <3>3. c.modes \in BOOLEAN
      BY DEF Copies
    <3> QED
      BY <3>1, <3>2, <3>3 DEF Copies, Trees
  <2> QED
    BY <1>1, <2>1 DEF Entering, UsageShown, InputsRefused, DirectoryMade, FixtureCopied,
         RevisionCompared, Goes, TaskFails, Leaves, runVars, watchVars, taskVars
<1>2. CASE Sandboxing
  BY <1>2 DEF Sandboxing, SandboxMissing, NamespaceOpened, SandboxProbed,
       SandboxCommandBuilt, Refuses, ClosesNamespace, TaskFails, Leaves, runVars, watchVars, taskVars
<1>3. CASE Judging
  BY <1>3 DEF Judging, FixtureStillPinned, CandidateAdmitted, CandidateJudged, Checks, Refuses,
       ClosesNamespace, TaskFails, Leaves, runVars, watchVars, taskVars
<1>4. Starts(1) \/ Starts(2) =>
        /\ watch' \in Looking /\ procs' \in Groups
        /\ moves' \in Nat /\ started' \in [1..2 -> Trees]
  BY TreesAreTrees DEF Starts, CodingAssumption
<1>5. CASE FirstValidation
  BY <1>4, <1>5 DEF FirstValidation, Refuses, ClosesNamespace, TaskFails, Leaves, taskVars
<1>6. CASE SecondValidation
  BY <1>4, <1>6 DEF SecondValidation, Refuses, ClosesNamespace, TaskFails, Leaves, taskVars
<1>7. CASE PatchApplied
  <2>0. patch' \in [edits: SUBSET Files, creates: BOOLEAN]
    BY <1>7 DEF PatchApplied
  <2>1. tree' \in Trees
    <3>1. \A e : Edited(e) \in Trees
      BY DEF Edited, Trees
    <3>2. ASSUME NEW t \in Trees, NEW n \in Names, NEW s \in Scratch
          PROVE  [t EXCEPT !.names[n] = s] \in Trees
      <4>1. [t.names EXCEPT ![n] = s] \in [Names -> Scratch \cup {"none"}]
        BY DEF Trees
      <4> QED
        BY <4>1 DEF Trees
    <3>3. ASSUME NEW f \in Files
          PROVE  [tree EXCEPT !.files[f] = 1] \in Trees
      <4>1. [tree.files EXCEPT ![f] = 1] \in [Files -> 0..2]
        BY DEF Trees
      <4> QED
        BY <4>1 DEF Trees
    <3> QED
      BY <1>7, <2>0, <3>1, <3>2, <3>3 DEF PatchApplied, FreeNames
  <2> QED
    BY <1>7, <2>0, <2>1 DEF PatchApplied, Refuses, ClosesNamespace, TaskFails, Leaves,
         runVars, watchVars, taskVars
<1>8. CASE DirectoryRemoved
  BY <1>8 DEF DirectoryRemoved, Goes, runVars, watchVars, taskVars
<1> QED
  BY <1>1, <1>2, <1>3, <1>5, <1>6, <1>7, <1>8 DEF Quiet

(* They know the tree wherever the invariant says so.                       *)
LEMMA RunnerKnowsTheTree ==
  ASSUME CodingAssumption, TypeInv, TreeInv, TypeInv', Quiet
  PROVE  TreeInv'
<1> USE DEF TreeInv, ScoredIsOfThePatch
<1>0. UNCHANGED taskVars => PatchedTree' = PatchedTree
  BY DEF PatchedTree, taskVars
<1>1. CASE Entering
  BY <1>0, <1>1 DEF Entering, UsageShown, InputsRefused, DirectoryMade, FixtureCopied,
       RevisionCompared, IsPinned, Goes, TaskFails, Leaves, runVars, taskVars
<1>2. CASE Sandboxing
  BY <1>0, <1>2 DEF Sandboxing, SandboxMissing, NamespaceOpened, SandboxProbed,
       SandboxCommandBuilt, Refuses, TaskFails, Leaves, runVars, taskVars
<1>3. CASE FirstValidation
  BY <1>0, <1>3 DEF FirstValidation, Starts, Refuses, TaskFails, Leaves, taskVars, TypeInv
<1>4. CASE FixtureStillPinned
  <2>1. CASE codes[1] # 0 /\ Pristine(tree) /\ pc' = "apply" /\ UNCHANGED <<fds, exit>>
    <3>1. tree = Pinned
      BY <1>4, <2>1, PristineIsPinned DEF FixtureStillPinned, TypeInv
    <3> QED
      BY <1>0, <1>4, <2>1, <3>1 DEF FixtureStillPinned, Checks, runVars, taskVars
  <2>2. CASE Refuses
    BY <1>0, <1>4, <2>2 DEF FixtureStillPinned, Checks, Refuses, TaskFails, Leaves, runVars, taskVars
  <2> QED
    BY <1>4, <2>1, <2>2 DEF FixtureStillPinned, Checks
<1>5. CASE PatchApplied
  <2>1. CASE pc' = "allowed"
    <3>1. tree = Pinned
      BY <1>5 DEF PatchApplied
    <3>2. \/ tree' = Edited(patch'.edits)
          \/ \E n \in FreeNames, s \in Scratch :
               tree' = [Edited(patch'.edits) EXCEPT !.names[n] = s]
      BY <1>5, <2>1 DEF PatchApplied, Refuses, TaskFails, Leaves
    <3>3. Edited(patch'.edits) = PatchedTree'
      BY <3>1 DEF Pinned, Edited, PatchedTree
    <3>4. tree' = PatchedTree' \/ Untracked(tree') # {}
      <4> SUFFICES ASSUME NEW n \in FreeNames, NEW s \in Scratch,
                          tree' = [Edited(patch'.edits) EXCEPT !.names[n] = s]
                   PROVE  Untracked(tree') # {}
        BY <3>2, <3>3
      <4>1. n \in Names /\ Edited(patch'.edits).names = tree.names
        BY DEF FreeNames, Edited, TypeInv, Trees
      <4>2. tree'.names[n] = s
        BY <4>1 DEF TypeInv, Trees, Edited
      <4> QED
        BY <4>1, <4>2 DEF Untracked, NamedIn
    <3> QED
      BY <1>5, <2>1, <3>4 DEF PatchApplied, Refuses, TaskFails, Leaves, runVars
  <2>2. CASE TaskFails
    BY <1>5, <2>2 DEF PatchApplied, TaskFails, Leaves, runVars
  <2> QED
    BY <1>5, <2>1, <2>2 DEF PatchApplied, Refuses
<1>6. CASE CandidateAdmitted
  <2>1. CASE OnlyAllowed(tree) /\ pc' = "snapshot" /\ UNCHANGED <<fds, exit>>
    <3>1. tree = PatchedTree /\ patch.edits \subseteq Allowed
      BY <1>6, <2>1, AllowedIsPatched DEF CandidateAdmitted, OnlyAllowed
    <3> QED
      BY <1>0, <1>6, <2>1, <3>1 DEF CandidateAdmitted, Checks, runVars, taskVars
  <2>2. CASE Refuses
    BY <1>0, <1>6, <2>2 DEF CandidateAdmitted, Checks, Refuses, TaskFails, Leaves, runVars, taskVars
  <2> QED
    BY <1>6, <2>1, <2>2 DEF CandidateAdmitted, Checks
<1>7. CASE SecondValidation
  BY <1>0, <1>7 DEF SecondValidation, Starts, Refuses, TaskFails, Leaves, taskVars, TypeInv
<1>8. CASE CandidateJudged
  <2>1. UNCHANGED <<tree, started, codes, kept>>
    BY <1>8 DEF CandidateJudged, runVars
  <2>2. CASE TaskFails
    BY <1>0, <1>8, <2>1, <2>2 DEF CandidateJudged, TaskFails, Leaves, taskVars
  <2>3. CASE SameTree(tree) /\ Leaves(IF codes[2] = 0 THEN 0 ELSE 4)
    <3>1. tree = PatchedTree
      BY <1>8, <2>3 DEF CandidateJudged, SameTree
    <3> QED
      BY <1>0, <1>8, <2>1, <2>3, <3>1 DEF CandidateJudged, Leaves, taskVars
  <2> QED
    BY <1>8, <2>2, <2>3 DEF CandidateJudged
<1>9. CASE DirectoryRemoved
  BY <1>0, <1>9 DEF DirectoryRemoved, Goes, runVars, watchVars, taskVars
<1> QED
  BY <1>1, <1>2, <1>3, <1>4, <1>5, <1>6, <1>7, <1>8, <1>9 DEF Quiet, Judging

(* They close what they opened.                                             *)
LEMMA RunnerCloses ==
  ASSUME TypeInv, HeldInv, Quiet
  PROVE  HeldInv'
<1> USE DEF HeldInv
<1>1. CASE Entering
  BY <1>1 DEF Entering, UsageShown, InputsRefused, DirectoryMade, FixtureCopied,
       RevisionCompared, Goes, TaskFails, Leaves
<1>2. CASE Sandboxing
  BY <1>2 DEF Sandboxing, SandboxMissing, NamespaceOpened, SandboxProbed,
       SandboxCommandBuilt, Refuses, ClosesNamespace, TaskFails, Leaves
<1>3. CASE Judging
  BY <1>3 DEF Judging, FixtureStillPinned, CandidateAdmitted, CandidateJudged, Checks, Refuses,
       ClosesNamespace, TaskFails, Leaves
<1>4. CASE FirstValidation \/ PatchApplied \/ SecondValidation \/ DirectoryRemoved
  BY <1>4 DEF FirstValidation, PatchApplied, SecondValidation, DirectoryRemoved, Refuses,
       ClosesNamespace, TaskFails, Leaves, Goes
<1> QED
  BY <1>1, <1>2, <1>3, <1>4 DEF Quiet

(* They do not touch a measurement, except that a validation starts anew.   *)
LEMMA RunnerLeavesTheWatch ==
  ASSUME TypeInv, WatchInv, Quiet
  PROVE  WatchInv'
<1> USE DEF Quiet, Entering, Sandboxing, Judging, UsageShown, InputsRefused, DirectoryMade,
       FixtureCopied, RevisionCompared, SandboxMissing, NamespaceOpened, SandboxProbed,
       SandboxCommandBuilt, FixtureStillPinned, CandidateAdmitted, CandidateJudged, Checks,
       FirstValidation, PatchApplied, SecondValidation, DirectoryRemoved, Starts, Goes,
       runVars, watchVars
<1>1. watch' = watch \/ watch' = Idle
  OBVIOUS
<1>2. use' = use
  OBVIOUS
<1>3. UNCHANGED <<tree, procs>> \/ pc # "leave"
  OBVIOUS
<1>4. /\ pc \notin {"before", "after"}
      /\ pc = "leave" => pc' = "done" /\ UNCHANGED watch
      /\ pc # "done"
  OBVIOUS
<1> HIDE DEF Quiet
<1>5. CASE pc = "leave"
  BY <1>2, <1>3, <1>4, <1>5 DEF WatchInv, Fits, Once, Unmet, There, NamedIn
<1>6. CASE pc # "leave"
  <2>1. watch'.at = "idle"
    BY <1>1, <1>4, <1>6 DEF WatchInv, Idle
  <2> QED
    BY <2>1 DEF WatchInv, Fits
<1> QED
  BY <1>5, <1>6

-----------------------------------------------------------------------------
(* Moves of the command.  Unless it links or renames, a name loses its file *)
(* or one name is given to a file that was not there.                       *)
CommandMoves ==
  \/ CommandWrites \/ CommandChangesModes \/ CommandCreates \/ CommandOpens
  \/ CommandLinks \/ CommandRenames \/ CommandUnlinks \/ CommandCopies \/ CommandCloses
  \/ CommandForks \/ CommandExits

NewNameOnly(names, n) ==
  /\ tree.names[n] = "none" /\ names[n] \notin use.ever \cup There(tree, procs)
  /\ \A m \in Names \ {n} : names[m] = tree.names[m]
Ordinary(t) ==
  \A n \in Names : t.names[n] \in {tree.names[n], "none"} \/ NewNameOnly(t.names, n)

(* The parts of a move are trees and groups of processes.                   *)
LEMMA NamedIsATree ==
  ASSUME TypeInv, NEW n, NEW s \in Scratch \cup {"none"}
  PROVE  Named(n, s) \in Trees
<1>1. [m \in Names |-> IF m = n THEN s ELSE tree.names[m]] \in [Names -> Scratch \cup {"none"}]
  BY DEF TypeInv, Trees
<1> QED
  BY <1>1 DEF Named, TypeInv, Trees

LEMMA OpenedIsAGroup ==
  ASSUME TypeInv, NEW h, NEW e \in Opening
  PROVE  Opened(h, e) \in Groups
<1>1. [g \in Fds |-> IF g = h THEN e ELSE procs.open[g]] \in [Fds -> Opening]
  BY DEF TypeInv, Groups
<1> QED
  BY <1>1 DEF Opened, TypeInv, Groups

LEMMA FollowIsAGroup ==
  ASSUME NEW p \in Groups, NEW n, NEW m \in Names \cup {NoName}
  PROVE  Follow(p, n, m) \in Groups
<1>1. ASSUME NEW h \in Fds
      PROVE  (IF p.open[h] # Closed /\ p.open[h][2] = n THEN <<p.open[h][1], m>> ELSE p.open[h])
               \in Opening
  <2>1. p.open[h] \in Opening
    BY DEF Groups
  <2> QED
    BY <2>1 DEF Opening
<1>2. [h \in Fds |-> IF p.open[h] # Closed /\ p.open[h][2] = n
                     THEN <<p.open[h][1], m>> ELSE p.open[h]] \in [Fds -> Opening]
  BY <1>1
<1> QED
  BY <1>2 DEF Follow, Groups

(* A process that forks shares what it has open; one that exits closes it.  *)
LEMMA ForksAndExits ==
  ASSUME TypeInv, CommandForks \/ CommandExits
  PROVE  \E p \in Groups : Moved(tree, p, FALSE)
<1> USE DEF TypeInv
<1>1. CASE CommandForks
  <2>1. PICK p \in procs.alive, q \in Forked \ procs.alive :
          Moved(tree,
            [alive |-> procs.alive \cup {q},
             open |-> [h \in Fds |-> IF h[1] = q THEN procs.open[<<p, h[2]>>] ELSE procs.open[h]]],
            FALSE)
    BY <1>1 DEF CommandForks
  <2>2. p \in Pids /\ q \in Pids
    BY <2>1 DEF Groups, Pids
  <2>3. \A h \in Fds : <<p, h[2]>> \in Fds
    BY <2>2 DEF Fds
  <2>4. [h \in Fds |-> IF h[1] = q THEN procs.open[<<p, h[2]>>] ELSE procs.open[h]]
          \in [Fds -> Opening]
    BY <2>3 DEF Groups
  <2>5. procs.alive \cup {q} \in SUBSET Pids
    BY <2>2 DEF Groups
  <2> QED
    BY <2>1, <2>4, <2>5 DEF Groups
<1>2. CASE CommandExits
  <2>1. PICK p \in procs.alive :
          Moved(tree,
            [alive |-> procs.alive \ {p},
             open |-> [h \in Fds |-> IF h[1] = p THEN Closed ELSE procs.open[h]]],
            FALSE)
    BY <1>2 DEF CommandExits
  <2>2. [h \in Fds |-> IF h[1] = p THEN Closed ELSE procs.open[h]] \in [Fds -> Opening]
    BY DEF Groups, Opening
  <2>3. procs.alive \ {p} \in SUBSET Pids
    BY DEF Groups
  <2> QED
    BY <2>1, <2>2, <2>3 DEF Groups
<1> QED
  BY <1>1, <1>2

(* Every move is one of this kind.                                          *)
LEMMA MovesAreMoves ==
  ASSUME CodingAssumption, TypeInv, CommandMoves
  PROVE  \E t \in Trees, p \in Groups, links \in BOOLEAN :
           Moved(t, p, links) /\ (links \/ Ordinary(t))
<1>0. /\ tree \in Trees /\ procs \in Groups
      /\ \A n \in Names : tree.names[n] \in Scratch \cup {"none"}
      /\ \A h \in Fds : procs.open[h] \in Opening
      /\ Ordinary(tree)
  BY DEF TypeInv, Trees, Groups, Ordinary
<1>1. CASE CommandWrites
  <2>1. PICK f \in Files, c \in 0..2 : Moved([tree EXCEPT !.files[f] = c], procs, FALSE)
    BY <1>1 DEF CommandWrites
  <2> DEFINE t == [tree EXCEPT !.files[f] = c]
  <2>2. t \in Trees /\ t.names = tree.names
    BY <1>0 DEF Trees
  <2>3. Ordinary(t)
    BY <2>2 DEF Ordinary
  <2> QED
    BY <1>0, <2>1, <2>2, <2>3
<1>2. CASE CommandChangesModes
  <2> DEFINE t == [tree EXCEPT !.modes = ~@]
  <2>1. t \in Trees /\ t.names = tree.names
    BY <1>0 DEF Trees
  <2>2. Ordinary(t)
    BY <2>1 DEF Ordinary
  <2> QED
    BY <1>0, <1>2, <2>1, <2>2 DEF CommandChangesModes
<1>3. CASE CommandCreates
  <2>1. PICK s \in Scratch \ (use.ever \cup There(tree, procs)),
             n \in FreeNames \cup {NoName}, h \in FreeFds \cup {NoFd} :
               Moved(Named(n, s), Opened(h, <<s, n>>), FALSE)
    BY <1>3 DEF CommandCreates
  <2>2. <<s, n>> \in Opening
    BY DEF Opening, FreeNames
  <2>3. Named(n, s) \in Trees /\ Opened(h, <<s, n>>) \in Groups
    BY <2>2, NamedIsATree, OpenedIsAGroup
  <2>4. Ordinary(Named(n, s))
    <3>1. \A m \in Names : Named(n, s).names[m] = IF m = n THEN s ELSE tree.names[m]
      BY <1>0 DEF Named, Trees
    <3>2. n \in Names => tree.names[n] = "none"
      BY DEF FreeNames, NoName, CodingAssumption
    <3> QED
      BY <3>1, <3>2 DEF Ordinary, NewNameOnly
  <2> QED
    BY <2>1, <2>3, <2>4
<1>4. CASE CommandOpens
  <2>1. PICK n \in Names \ FreeNames, h \in FreeFds :
          Moved(tree, Opened(h, <<tree.names[n], n>>), FALSE)
    BY <1>4 DEF CommandOpens
  <2>2. <<tree.names[n], n>> \in Opening
    BY <1>0 DEF Opening, FreeNames
  <2> QED
    BY <1>0, <2>1, <2>2, OpenedIsAGroup
<1>5. CASE CommandLinks
  <2>1. PICK s \in There(tree, procs), n \in FreeNames : Moved(Named(n, s), procs, TRUE)
    BY <1>5 DEF CommandLinks
  <2>2. s \in Scratch
    BY DEF There, NamedIn
  <2> QED
    BY <1>0, <2>1, <2>2, NamedIsATree
<1>6. CASE CommandRenames
  <2>1. PICK n \in Names \ FreeNames, m \in Names :
          Moved([tree EXCEPT !.names[n] = "none", !.names[m] = tree.names[n]],
                Follow(Follow(procs, m, NoName), n, m), TRUE)
    BY <1>6 DEF CommandRenames
  <2> DEFINE t == [tree EXCEPT !.names[n] = "none", !.names[m] = tree.names[n]]
  <2>2. t \in Trees
    <3>1. [tree.names EXCEPT ![n] = "none", ![m] = tree.names[n]] \in [Names -> Scratch \cup {"none"}]
      BY <1>0 DEF Trees
    <3>2. t = [tree EXCEPT !.names = [tree.names EXCEPT ![n] = "none", ![m] = tree.names[n]]]
      BY <1>0 DEF Trees
    <3> QED
      BY <1>0, <3>1, <3>2 DEF Trees
  <2>3. Follow(procs, m, NoName) \in Groups
    BY <1>0, FollowIsAGroup
  <2>4. Follow(Follow(procs, m, NoName), n, m) \in Groups
    BY <2>3, FollowIsAGroup
  <2> QED
    BY <2>1, <2>2, <2>4
<1>7. CASE CommandUnlinks
  <2>1. PICK n \in Names \ FreeNames : Moved(Named(n, "none"), Follow(procs, n, NoName), FALSE)
    BY <1>7 DEF CommandUnlinks
  <2>2. Named(n, "none") \in Trees /\ Follow(procs, n, NoName) \in Groups
    BY <1>0, NamedIsATree, FollowIsAGroup
  <2>3. Ordinary(Named(n, "none"))
    <3>1. \A m \in Names : Named(n, "none").names[m] = IF m = n THEN "none" ELSE tree.names[m]
      BY <1>0 DEF Named, Trees
    <3> QED
      BY <3>1 DEF Ordinary
  <2> QED
    BY <2>1, <2>2, <2>3
<1>8. CASE CommandCopies
  <2>1. PICK h \in Fds, g \in FreeFds : Moved(tree, Opened(g, procs.open[h]), FALSE)
    BY <1>8 DEF CommandCopies
  <2> QED
    BY <1>0, <2>1, OpenedIsAGroup
<1>9. CASE CommandCloses
  <2>1. PICK h \in Fds : Moved(tree, Opened(h, Closed), FALSE)
    BY <1>9 DEF CommandCloses
  <2>2. Closed \in Opening
    BY DEF Opening
  <2> QED
    BY <1>0, <2>1, <2>2, OpenedIsAGroup
<1>10. CASE CommandForks \/ CommandExits
  BY <1>0, <1>10, ForksAndExits
<1> QED
  BY <1>1, <1>2, <1>3, <1>4, <1>5, <1>6, <1>7, <1>8, <1>9, <1>10 DEF CommandMoves

(* A move changes the files, the processes, what has to be accounted for    *)
(* and nothing else, and leaves the sum of the watch within its bounds.     *)
LEMMA MovesKeepInv ==
  ASSUME CodingAssumption, Inv, CommandMoves
  PROVE  Inv'
<1>1. PICK t \in Trees, p \in Groups, links \in BOOLEAN :
        Moved(t, p, links) /\ (links \/ Ordinary(t))
  BY MovesAreMoves DEF Inv
<1>2. pc \in {"before", "after"} /\ tree' = t /\ procs' = p
  BY <1>1 DEF Moved, Running
<1>3. IF watch.at = "idle" THEN use' = use ELSE Accounts(t, p, links)
  BY <1>1 DEF Moved
<1>4. UNCHANGED <<pc, patch, fresh, fds, started, codes, kept, watch, exists, exit>> /\ moves' \in Nat
  BY <1>1 DEF Moved, taskVars, Inv, TypeInv
<1>5. There(t, p) \subseteq Scratch
  BY DEF There, NamedIn
<1>6. TypeInv'
  <2>1. use' \in Used
    <3>1. CASE watch.at = "idle"
      BY <1>3, <3>1 DEF Inv, TypeInv
    <3>2. CASE watch.at # "idle"
      BY <1>3, <1>5, <3>2 DEF Accounts, Inv, TypeInv, Used
    <3> QED
      BY <3>1, <3>2
  <2> QED
    BY <1>2, <1>4, <2>1 DEF Inv, TypeInv
<1>7. TreeInv'
  BY <1>2, <1>4 DEF Inv, TreeInv, ScoredIsOfThePatch, PatchedTree
<1>8. HeldInv'
  BY <1>2, <1>4 DEF Inv, HeldInv
<1>9. WatchInv'
  <2> USE DEF Inv, TypeInv, WatchInv
  <2>0. Fits(watch) /\ watch \in Looking
    OBVIOUS
  <2>1. CASE watch.at = "idle"
    BY <1>4, <2>1 DEF Fits
  <2>2. CASE watch.at # "idle"
    <3>1. /\ use'.named = {x \in use.named : t.names[x[2]] = x[1]}
          /\ use'.ever = use.ever \cup There(t, p)
          /\ use'.linked = (use.linked \/ links)
          /\ \A x \in use'.held :
               /\ x \in Scratch \X Fds /\ p.open[x[2]] = <<x[1], NoName>>
               /\ \/ x \in use.held
                  \/ x[2][1] \in watch.pids /\ \E n \in Names : <<x[1], n>> \in use.named
      BY <1>3, <2>2 DEF Accounts
    <3>2. ~use'.linked => ~use.linked /\ Ordinary(t)
      BY <1>1, <3>1 DEF Used
    <3>3. watch.at \in {"worktree", "held"} =>
            /\ There(tree, procs)' \subseteq use'.ever /\ watch.seen \subseteq use'.ever
            /\ Cardinality(watch.seen) <= watch.named + watch.held
            /\ ~use'.linked => watch.named + watch.held = Cardinality(watch.seen)
            /\ \A x \in use'.named : t.names[x[2]] = x[1]
            /\ \A x \in use'.held : p.open[x[2]] = <<x[1], NoName>> /\ x[2][1] \in watch.pids
      <4>1. There(tree, procs)' = There(t, p)
        BY <1>2 DEF There, NamedIn
      <4> QED
        BY <2>0, <3>1, <3>2, <4>1 DEF Fits
    <3>4. watch.at = "worktree" =>
            \A x \in use'.named : x[1] \in watch.seen \/ Unmet(watch, x[2])
      BY <2>0, <3>1 DEF Fits
    <3>5. watch.at = "worktree" /\ ~use'.linked => Once(watch)'
      <4> SUFFICES ASSUME watch.at = "worktree", ~use'.linked
                   PROVE  Once(watch)'
        OBVIOUS
      <4>1. Once(watch) /\ watch.seen \subseteq use.ever /\ "none" \notin watch.seen
        BY <2>0, <3>2 DEF Fits, Looking, CodingAssumption
      <4>2. \A n \in Names : t.names[n] \in {tree.names[n], "none"} \/ NewNameOnly(t.names, n)
        BY <3>2 DEF Ordinary
      <4>3. \A n \in Names : tree.names[n] # "none" => tree.names[n] \in There(tree, procs)
        BY DEF Trees, There, NamedIn
      <4>4. ASSUME NEW n \in Names, NEW m \in Names, t.names[n] = t.names[m], t.names[n] # "none"
            PROVE  n = m
        <5>1. CASE NewNameOnly(t.names, n)
          BY <4>3, <4>4, <5>1 DEF NewNameOnly
        <5>2. CASE NewNameOnly(t.names, m)
          BY <4>3, <4>4, <5>2 DEF NewNameOnly
        <5>3. CASE t.names[n] = tree.names[n] /\ t.names[m] = tree.names[m]
          BY <4>1, <4>4, <5>3 DEF Once
        <5> QED
          BY <4>2, <4>4, <5>1, <5>2, <5>3
      <4>5. ASSUME NEW n \in Names, Unmet(watch, n)
            PROVE  t.names[n] \notin watch.seen
        BY <4>1, <4>2, <4>5 DEF Once, NewNameOnly
      <4> QED
        BY <1>2, <1>4, <4>4, <4>5 DEF Once, Unmet
    <3>6. watch.at = "held" =>
            /\ \A x \in use'.named : x[1] \in watch.seen
            /\ \A x \in use'.held : x[1] \in watch.seen \/ Unmet(watch, x[2]) \/ x[2] = watch.link
      <4>1. watch.at = "held" => \A x \in use.named : x[1] \in watch.seen
        BY <2>0 DEF Fits
      <4>2. ASSUME watch.at = "held", NEW x \in use'.held, x \notin use.held
            PROVE  x[1] \in watch.seen
        <5>1. PICK n \in Names : <<x[1], n>> \in use.named
          BY <3>1, <4>2
        <5> QED
          BY <4>1, <4>2, <5>1
      <4> QED
        BY <2>0, <3>1, <4>1, <4>2 DEF Fits
    <3>7. watch.at = "refused" /\ ~use'.linked => Limit < Cardinality(use'.ever)
      <4>1. IsFiniteSet(use.ever) /\ IsFiniteSet(use'.ever)
        BY <1>5, <3>1, FS_Subset DEF CodingAssumption, Used
      <4>2. Cardinality(use.ever) <= Cardinality(use'.ever)
        BY <3>1, <4>1, FS_Subset
      <4>3. Cardinality(use.ever) \in Nat /\ Cardinality(use'.ever) \in Nat
        BY <4>1, FS_CardinalityType
      <4> QED
        BY <2>0, <3>2, <4>2, <4>3 DEF Fits, CodingAssumption
    <3>8. Fits(watch)'
      <4>1. watch' = watch /\ tree' = t /\ procs' = p
        BY <1>2, <1>4
      <4>2. watch.at = "worktree" => watch.left \subseteq Names /\ \A n \in watch.left : n[1] \notin watch.todo
        BY <2>0 DEF Fits
      <4>3. watch.at = "held" => watch.left \subseteq Fds
        BY <2>0 DEF Fits
      <4> QED
        BY <3>3, <3>4, <3>5, <3>6, <3>7, <4>1, <4>2, <4>3 DEF Fits, Unmet
    <3> QED
      BY <1>2, <1>4, <3>8
  <2> QED
    BY <2>1, <2>2
<1> QED
  BY <1>6, <1>7, <1>8, <1>9 DEF Inv

(* The command ends between two checks, and takes its processes with it.    *)
LEMMA CommandEndKeepsInv ==
  ASSUME CodingAssumption, Inv, CommandEnds
  PROVE  Inv'
<1> USE DEF Inv, CommandEnds, Running, Run
<1>1. procs' \in Groups
  BY TreesAreTrees
<1>2. TypeInv'
  BY <1>1 DEF TypeInv, Steps, taskVars, watchVars
<1>3. TreeInv'
  BY DEF TypeInv, TreeInv, ScoredIsOfThePatch, PatchedTree, taskVars
<1>4. HeldInv'
  BY DEF HeldInv
<1>5. WatchInv'
  BY DEF WatchInv, Fits, watchVars
<1> QED
  BY <1>2, <1>3, <1>4, <1>5

-----------------------------------------------------------------------------
(* Steps of the watch.                                                      *)

(* A file that is seen adds one to what was, or nothing if it was before.   *)
LEMMA SeenGrows ==
  ASSUME CodingAssumption, NEW seen \in SUBSET Scratch, NEW s \in Scratch
  PROVE  /\ Cardinality(seen) \in Nat /\ Cardinality(seen \cup {s}) \in Nat
         /\ Cardinality(seen \cup {s}) <= Cardinality(seen) + 1
         /\ s \notin seen => Cardinality(seen \cup {s}) = Cardinality(seen) + 1
<1>1. IsFiniteSet(seen)
  BY FS_Subset DEF CodingAssumption
<1>2. Cardinality(seen) \in Nat
  BY <1>1, FS_CardinalityType
<1>3. CASE s \in seen
  <2>1. seen \cup {s} = seen
    BY <1>3
  <2> QED
    BY <1>2, <1>3, <2>1
<1>4. CASE s \notin seen
  <2>1. Cardinality(seen \cup {s}) = Cardinality(seen) + 1
    BY <1>1, <1>4, FS_AddElement
  <2> QED
    BY <1>2, <1>4, <2>1
<1> QED
  BY <1>3, <1>4

(* What a limit is compared with was there.                                 *)
LEMMA SeenWasThere ==
  ASSUME CodingAssumption, TypeInv, NEW seen \in SUBSET use.ever
  PROVE  Cardinality(seen) \in Nat /\ Cardinality(use.ever) \in Nat
         /\ Cardinality(seen) <= Cardinality(use.ever)
<1>1. IsFiniteSet(use.ever) /\ IsFiniteSet(seen)
  BY FS_Subset DEF CodingAssumption, TypeInv, Used
<1> QED
  BY <1>1, FS_Subset, FS_CardinalityType

(* A look that fits keeps the invariant.                                    *)
LEMMA LookKeepsInv ==
  ASSUME CodingAssumption, Inv, NEW w \in Looking,
         Running, Fits(w), Looks(w)
  PROVE  Inv'
<1>1. /\ UNCHANGED <<pc, taskVars, fds, tree, runVars, use, exists, exit>>
      /\ watch' = w
  BY DEF Looks
<1>2. TypeInv'
  BY <1>1 DEF Inv, TypeInv, Steps, taskVars, runVars
<1>3. TreeInv'
  BY <1>1 DEF Inv, TreeInv, ScoredIsOfThePatch, PatchedTree, taskVars, runVars
<1>4. HeldInv'
  BY <1>1 DEF Inv, HeldInv
<1>5. WatchInv'
  <2>1. UNCHANGED <<pc, tree, procs, use>> /\ watch' = w
    BY <1>1 DEF runVars
  <2>2. Fits(watch)'
    BY <2>1 DEF Fits, Once, Unmet, There, NamedIn
  <2> QED
    BY <2>1, <2>2 DEF Running, WatchInv
<1> QED
  BY <1>2, <1>3, <1>4, <1>5 DEF Inv

(* A command that is killed leaves no measurement, or one that was refused  *)
(* for more than the limit.                                                 *)
LEMMA KillKeepsInv ==
  ASSUME CodingAssumption, Inv, Running, KillsCommand, watch' \in Looking, use' \in Used,
         \/ watch'.at = "idle"
         \/ watch'.at = "refused" /\ use' = use /\ (~use.linked => Limit < Cardinality(use.ever))
  PROVE  Inv'
<1> USE DEF Running, KillsCommand, Refuses, TaskFails, Leaves
<1>1. TypeInv'
  BY TreesAreTrees DEF Inv, TypeInv, Steps, ClosesNamespace, taskVars
<1>2. TreeInv'
  BY DEF Inv, TreeInv, ScoredIsOfThePatch, PatchedTree, taskVars
<1>3. HeldInv'
  BY DEF Inv, HeldInv, ClosesNamespace
<1>4. WatchInv'
  <2>1. pc' = "leave"
    OBVIOUS
  <2> QED
    BY <2>1 DEF WatchInv, Fits
<1> QED
  BY <1>1, <1>2, <1>3, <1>4 DEF Inv

(* A count of what was seen keeps it, whether it is within the limit or not. *)
LEMMA CountKeepsInv ==
  ASSUME CodingAssumption, Inv, NEW w \in Looking, NEW n \in Nat,
         Running, Fits(w), w.at \in {"worktree", "held"}, n <= w.named + w.held,
         LooksOrRefuses(w, n)
  PROVE  Inv'
<1>1. CASE Looks(w)
  BY <1>1, LookKeepsInv
<1>2. CASE n > Limit /\ KillsCommand /\ watch' = [w EXCEPT !.at = "refused"] /\ UNCHANGED use
  <2>1. watch' \in Looking /\ watch'.at = "refused"
    BY <1>2 DEF Looking
  <2>2. ~use.linked => Limit < Cardinality(use.ever)
    <3> SUFFICES ASSUME ~use.linked PROVE Limit < Cardinality(use.ever)
      OBVIOUS
    <3>1. w.named + w.held = Cardinality(w.seen) /\ w.seen \in SUBSET use.ever
      BY DEF Fits
    <3>2. /\ Cardinality(w.seen) \in Nat /\ Cardinality(use.ever) \in Nat
          /\ Cardinality(w.seen) <= Cardinality(use.ever)
      BY <3>1, SeenWasThere DEF Inv
    <3> QED
      BY <1>2, <3>1, <3>2 DEF CodingAssumption
  <2>3. use' \in Used
    BY <1>2 DEF Inv, TypeInv
  <2> QED
    BY <1>2, <2>1, <2>2, <2>3, KillKeepsInv
<1> QED
  BY <1>1, <1>2 DEF LooksOrRefuses

(* A check begins with nothing seen and everything still to be listed.      *)
LEMMA CheckStartKeepsInv ==
  ASSUME CodingAssumption, Inv, ProcessUsage
  PROVE  Inv'
<1> DEFINE pids == procs.alive \cup {"root"}
<1>0. Running /\ watch.at = "idle"
  BY DEF ProcessUsage, Watches
<1>1. CASE KillsCommand /\ UNCHANGED watchVars
  <2>1. watch' \in Looking /\ use' \in Used /\ watch'.at = "idle"
    BY <1>0, <1>1 DEF watchVars, Inv, TypeInv
  <2> QED
    BY <1>0, <1>1, <2>1, KillKeepsInv
<1>2. CASE /\ watch' = [Idle EXCEPT !.at = "worktree", !.pids = pids, !.todo = Dirs]
           /\ use' = [named |-> {x \in Scratch \X Names : tree.names[x[2]] = x[1]},
                      held |-> {x \in Scratch \X Fds :
                                  x[2][1] \in pids /\ procs.open[x[2]] = <<x[1], NoName>>},
                      ever |-> There(tree, procs),
                      linked |-> \E n \in Names \ FreeNames, m \in Names :
                                   n # m /\ tree.names[m] = tree.names[n]]
           /\ UNCHANGED <<pc, taskVars, fds, tree, runVars, exists, exit>>
  <2>1. There(tree, procs) \subseteq Scratch /\ pids \in SUBSET Pids
    BY DEF There, NamedIn, Inv, TypeInv, Groups, Pids
  <2>2. watch' = [at |-> "worktree", pids |-> pids, todo |-> Dirs, left |-> {}, link |-> NoFd,
                  seen |-> {}, named |-> 0, held |-> 0]
    BY <1>2 DEF Idle
  <2>3. watch' \in Looking
    BY <2>1, <2>2 DEF Looking
  <2>4. use' \in Used
    BY <1>2, <2>1 DEF Used
  <2>5. TypeInv'
    BY <1>2, <2>3, <2>4 DEF Inv, TypeInv, taskVars, runVars
  <2>6. TreeInv'
    BY <1>2 DEF Inv, TreeInv, ScoredIsOfThePatch, PatchedTree, taskVars, runVars
  <2>7. HeldInv'
    BY <1>2 DEF Inv, HeldInv
  <2>8. WatchInv'
    <3>1. UNCHANGED <<pc, tree, procs>> /\ There(tree, procs)' = There(tree, procs)
      BY <1>2 DEF runVars, There, NamedIn
    <3>2. /\ use'.ever = There(tree, procs)
          /\ \A x \in use'.named : x[2] \in Names /\ tree.names[x[2]] = x[1]
          /\ \A x \in use'.held : x[2][1] \in pids /\ procs.open[x[2]] = <<x[1], NoName>>
          /\ ~use'.linked => \A n, m \in Names :
               tree.names[n] = tree.names[m] /\ tree.names[n] # "none" => n = m
      BY <1>2 DEF FreeNames
    <3>3. Cardinality({}) = 0
      BY FS_EmptySet
    <3>4. \A n \in Names : n[1] \in Dirs
      BY DEF Dirs, CodingAssumption
    <3>5. ~use'.linked => Once(watch)'
      BY <2>2, <3>1, <3>2 DEF Once
    <3>6. Fits(watch)'
      BY <2>2, <3>1, <3>2, <3>3, <3>4, <3>5 DEF Fits, Unmet
    <3> QED
      BY <1>0, <3>1, <3>6 DEF WatchInv, Running
  <2> QED
    BY <2>5, <2>6, <2>7, <2>8 DEF Inv
<1> QED
  BY <1>1, <1>2 DEF ProcessUsage

(* What a directory lists are its names.                                    *)
LEMMA ListingKeepsInv ==
  ASSUME CodingAssumption, Inv, DirectoryListed
  PROVE  Inv'
<1>1. Running /\ watch.at = "worktree" /\ watch.left = {}
  BY DEF DirectoryListed, Watches
<1> DEFINE inD(d) == {n \in Names \ FreeNames : n[1] = d}
<1>2. PICK d \in watch.todo : Looks([watch EXCEPT !.todo = @ \ {d}, !.left = inD(d)])
  BY DEF DirectoryListed
<1> DEFINE w == [watch EXCEPT !.todo = @ \ {d}, !.left = inD(d)]
<1>3. Fits(watch) /\ watch \in Looking
  BY DEF Inv, TypeInv, WatchInv
<1>4. /\ w \in Looking /\ w.at = "worktree" /\ w.todo = watch.todo \ {d} /\ w.left = inD(d)
      /\ w.pids = watch.pids /\ w.seen = watch.seen /\ w.named = watch.named /\ w.held = watch.held
  BY <1>1, <1>3 DEF Looking
<1>5. Looks(w)
  BY <1>2
<1> HIDE DEF w
<1>6. \A x \in use.named : x[2] \in Names \ FreeNames
  <2> TAKE x \in use.named
  <2>1. x \in Scratch \X Names /\ tree.names[x[2]] = x[1]
    BY <1>1, <1>3 DEF Inv, TypeInv, Used, Fits
  <2> QED
    BY <2>1 DEF FreeNames, CodingAssumption
<1>7. \A x \in use.named : x[1] \in w.seen \/ Unmet(w, x[2])
  BY <1>1, <1>3, <1>4, <1>6 DEF Fits, Unmet
<1>8. ~use.linked => Once(w)
  BY <1>1, <1>3, <1>4 DEF Fits, Once, Unmet
<1>9. Fits(w)
  BY <1>1, <1>3, <1>4, <1>7, <1>8 DEF Fits
<1> QED
  BY <1>1, <1>4, <1>5, <1>9, LookKeepsInv

(* A name is counted if it is anything's by now.                            *)
LEMMA EntryKeepsInv ==
  ASSUME CodingAssumption, Inv, EntryCounted
  PROVE  Inv'
<1>1. Running /\ watch.at = "worktree"
  BY DEF EntryCounted, Watches
<1> DEFINE Rest(n) == [watch EXCEPT !.left = @ \ {n}]
<1> DEFINE More(n) ==
     [watch EXCEPT !.left = @ \ {n}, !.seen = @ \cup {tree.names[n]}, !.named = @ + 1]
<1>2. PICK n \in watch.left :
        IF n \in FreeNames THEN Looks(Rest(n)) ELSE LooksOrRefuses(More(n), watch.named + 1)
  BY DEF EntryCounted
<1>3. Fits(watch) /\ watch \in Looking
  BY DEF Inv, TypeInv, WatchInv
<1>4. n \in Names
  BY <1>1, <1>3 DEF Fits
<1>5. \A x \in use.named : x \in Scratch \X Names /\ tree.names[x[2]] = x[1]
  BY <1>1, <1>3 DEF Inv, TypeInv, Used, Fits
<1>6. CASE n \in FreeNames
  <2> DEFINE w == Rest(n)
  <2>1. /\ w.at = "worktree" /\ w.todo = watch.todo /\ w.left = watch.left \ {n}
        /\ w.pids = watch.pids
        /\ w.seen = watch.seen /\ w.named = watch.named /\ w.held = watch.held
        /\ w \in Looking
    BY <1>1, <1>3 DEF Looking
  <2>2. Looks(w)
    BY <1>2, <1>6
  <2> HIDE DEF w
  <2>3. \A x \in use.named : x[1] \in w.seen \/ Unmet(w, x[2])
    <3>1. \A x \in use.named : x[2] # n
      BY <1>5, <1>6 DEF FreeNames, CodingAssumption
    <3> QED
      BY <1>1, <1>3, <2>1, <3>1 DEF Fits, Unmet
  <2>4. ~use.linked => Once(w)
    BY <1>1, <1>3, <2>1 DEF Fits, Once, Unmet
  <2>5. Fits(w)
    BY <1>1, <1>3, <2>1, <2>3, <2>4 DEF Fits
  <2> QED
    BY <1>1, <2>1, <2>2, <2>5, LookKeepsInv
<1>7. CASE n \notin FreeNames
  <2> DEFINE s == tree.names[n]
  <2> DEFINE w == More(n)
  <2>1. s \in Scratch /\ s \in use.ever
    <3>1. s \in Scratch
      BY <1>4, <1>7 DEF FreeNames, Inv, TypeInv, Trees
    <3>2. s \in There(tree, procs)
      BY <1>4, <3>1 DEF There, NamedIn
    <3> QED
      BY <1>1, <1>3, <3>1, <3>2 DEF Fits
  <2>2. /\ w.at = "worktree" /\ w.todo = watch.todo /\ w.left = watch.left \ {n}
        /\ w.pids = watch.pids
        /\ w.seen = watch.seen \cup {s} /\ w.named = watch.named + 1 /\ w.held = watch.held
        /\ w \in Looking
    <3>1. watch.seen \cup {s} \in SUBSET Scratch /\ watch.named + 1 \in Nat
          /\ watch.left \ {n} \in SUBSET (Names \cup Fds)
      BY <1>3, <2>1 DEF Looking
    <3>2. w \in Looking
      BY <1>3, <3>1 DEF Looking
    <3> QED
      BY <1>1, <1>3, <3>2 DEF Looking
  <2>3. LooksOrRefuses(w, watch.named + 1)
    BY <1>2, <1>7
  <2> HIDE DEF w
  <2>4. \A x \in use.named : x[1] \in w.seen \/ Unmet(w, x[2])
    <3>1. \A x \in use.named : x[2] = n => x[1] = s
      BY <1>5
    <3> QED
      BY <1>1, <1>3, <2>2, <3>1 DEF Fits, Unmet
  <2>5. ~use.linked => Once(w)
    <3>1. n[1] \notin watch.todo
      BY <1>1, <1>3 DEF Fits
    <3>2. s # "none"
      BY <2>1 DEF CodingAssumption
    <3> QED
      BY <1>1, <1>3, <1>4, <2>2, <3>1, <3>2 DEF Fits, Once, Unmet
  <2>6. Cardinality(w.seen) <= w.named + w.held
        /\ (~use.linked => w.named + w.held = Cardinality(w.seen))
    <3>1. watch.seen \in SUBSET Scratch /\ watch.named \in Nat /\ watch.held \in Nat
      BY <1>3 DEF Looking
    <3>2. ~use.linked => s \notin watch.seen
      BY <1>1, <1>3, <1>4 DEF Fits, Once, Unmet
    <3> QED
      BY <1>1, <1>3, <2>1, <2>2, <3>1, <3>2, SeenGrows DEF Fits
  <2>7. Fits(w)
    BY <1>1, <1>3, <2>1, <2>2, <2>4, <2>5, <2>6 DEF Fits
  <2>8. watch.named + 1 \in Nat /\ watch.named + 1 <= w.named + w.held
    BY <1>3, <2>2 DEF Looking
  <2> QED
    BY <1>1, <2>2, <2>3, <2>7, <2>8, CountKeepsInv
<1> QED
  BY <1>6, <1>7

(* After the last entry, what has kept its name is seen, and every process  *)
(* that was collected is still to be met.                                   *)
LEMMA ScannedKeepsInv ==
  ASSUME CodingAssumption, Inv, WorktreeScanned
  PROVE  Inv'
<1> DEFINE w == [watch EXCEPT !.at = "held", !.todo = watch.pids]
<1>1. Running /\ watch.at = "worktree" /\ watch.left = {} /\ watch.todo = {} /\ Looks(w)
  BY DEF WorktreeScanned, Watches
<1>2. Fits(watch) /\ watch \in Looking
  BY DEF Inv, TypeInv, WatchInv
<1>3. /\ w.at = "held" /\ w.todo = watch.pids /\ w.left = {} /\ w.pids = watch.pids
      /\ w.seen = watch.seen /\ w.named = watch.named /\ w.held = watch.held /\ w \in Looking
  BY <1>1, <1>2 DEF Looking
<1> HIDE DEF w
<1>4. Fits(w)
  BY <1>1, <1>2, <1>3 DEF Fits, Unmet
<1> QED
  BY <1>1, <1>3, <1>4, LookKeepsInv

(* A process is listed, or not accounted for any more.                      *)
LEMMA DescriptorsKeepInv ==
  ASSUME CodingAssumption, Inv, DescriptorsListed
  PROVE  Inv'
<1>1. Running /\ watch.at = "held" /\ watch.left = {} /\ watch.link = NoFd
  BY DEF DescriptorsListed, Watches
<1>2. Fits(watch) /\ watch \in Looking
  BY DEF Inv, TypeInv, WatchInv
<1>3. \A x \in use.held : x \in Scratch \X Fds /\ procs.open[x[2]] = <<x[1], NoName>>
  BY <1>1, <1>2 DEF Inv, TypeInv, Used, Fits
<1> DEFINE of(p) == {h \in Fds : h[1] = p /\ procs.open[h] # Closed}
<1>4. ASSUME NEW p \in watch.todo, Looks([watch EXCEPT !.todo = @ \ {p}, !.left = of(p)])
      PROVE  Inv'
  <2> DEFINE w == [watch EXCEPT !.todo = @ \ {p}, !.left = of(p)]
  <2>1. /\ w.at = "held" /\ w.todo = watch.todo \ {p} /\ w.left = of(p) /\ w.pids = watch.pids
        /\ w.link = watch.link
        /\ w.seen = watch.seen /\ w.named = watch.named /\ w.held = watch.held /\ w \in Looking
    BY <1>1, <1>2 DEF Looking
  <2>2. Looks(w)
    BY <1>4
  <2> HIDE DEF w
  <2>3. \A x \in use.held : x[1] \in w.seen \/ Unmet(w, x[2]) \/ x[2] = w.link
    <3> SUFFICES ASSUME NEW x \in use.held, x[1] \notin w.seen, x[2][1] = p
                 PROVE  x[2] \in w.left
      BY <1>1, <1>2, <2>1 DEF Fits, Unmet
    <3>1. <<x[1], NoName>> # Closed
      BY <1>3 DEF Closed, CodingAssumption
    <3> QED
      BY <1>3, <2>1, <3>1
  <2>4. Fits(w)
    BY <1>1, <1>2, <2>1, <2>3 DEF Fits
  <2> QED
    BY <1>1, <2>1, <2>2, <2>4, LookKeepsInv
<1>5. ASSUME NEW p \in watch.todo,
             watch' = [watch EXCEPT !.todo = @ \ {p}],
             use' = [use EXCEPT !.held = {x \in @ : x[2][1] # p}],
             UNCHANGED <<pc, taskVars, fds, tree, runVars, exists, exit>>
      PROVE  Inv'
  <2>1. /\ watch'.at = "held" /\ watch'.todo = watch.todo \ {p} /\ watch'.left = {}
        /\ watch'.pids = watch.pids /\ watch'.link = watch.link
        /\ watch'.seen = watch.seen /\ watch'.named = watch.named /\ watch'.held = watch.held
        /\ watch' \in Looking
    BY <1>1, <1>2, <1>5 DEF Looking
  <2>2. /\ use' \in Used /\ use'.named = use.named /\ use'.ever = use.ever
        /\ use'.linked = use.linked /\ use'.held = {x \in use.held : x[2][1] # p}
    BY <1>5 DEF Inv, TypeInv, Used
  <2>3. TypeInv'
    BY <1>5, <2>1, <2>2 DEF Inv, TypeInv, Steps, taskVars, runVars
  <2>4. TreeInv'
    BY <1>5 DEF Inv, TreeInv, ScoredIsOfThePatch, PatchedTree, taskVars, runVars
  <2>5. HeldInv'
    BY <1>5 DEF Inv, HeldInv
  <2>6. There(tree, procs)' = There(tree, procs) /\ UNCHANGED <<pc, tree, procs>>
    BY <1>5 DEF There, NamedIn, runVars
  <2>7. \A x \in use'.held : x[1] \in watch'.seen \/ Unmet(watch', x[2]) \/ x[2] = watch'.link
    BY <1>1, <1>2, <2>1, <2>2 DEF Fits, Unmet
  <2>8. Fits(watch)'
    BY <1>1, <1>2, <2>1, <2>2, <2>6, <2>7 DEF Fits, Unmet
  <2> QED
    BY <1>1, <2>3, <2>4, <2>5, <2>6, <2>8 DEF Inv, WatchInv, Running
<1> QED
  BY <1>4, <1>5 DEF DescriptorsListed

(* A descriptor that has held a file since its name went shows that.        *)
LEMMA LinkKeepsInv ==
  ASSUME CodingAssumption, Inv, LinkRead
  PROVE  Inv'
<1>1. Running /\ watch.at = "held" /\ watch.link = NoFd
  BY DEF LinkRead, Watches
<1> DEFINE W(h) ==
     [watch EXCEPT !.left = @ \ {h}, !.link = IF Deleted(procs, h) THEN h ELSE NoFd]
<1>2. PICK h \in watch.left : Looks(W(h))
  BY DEF LinkRead
<1> DEFINE w == W(h)
<1>3. Fits(watch) /\ watch \in Looking
  BY DEF Inv, TypeInv, WatchInv
<1>4. h \in Fds
  BY <1>1, <1>3 DEF Fits
<1>5. /\ w.at = "held" /\ w.todo = watch.todo /\ w.left = watch.left \ {h} /\ w.pids = watch.pids
      /\ w.link = IF Deleted(procs, h) THEN h ELSE NoFd
      /\ w.seen = watch.seen /\ w.named = watch.named /\ w.held = watch.held /\ w \in Looking
  BY <1>1, <1>3, <1>4 DEF Looking
<1>6. Looks(w)
  BY <1>2
<1> HIDE DEF w
<1>7. \A x \in use.held : x[1] \in w.seen \/ Unmet(w, x[2]) \/ x[2] = w.link
  <2> SUFFICES ASSUME NEW x \in use.held, x[1] \notin w.seen
               PROVE  Unmet(w, x[2]) \/ x[2] = w.link
    OBVIOUS
  <2>1. x \in Scratch \X Fds /\ procs.open[x[2]] = <<x[1], NoName>>
    BY <1>1, <1>3 DEF Inv, TypeInv, Used, Fits
  <2>2. Deleted(procs, x[2])
    BY <2>1 DEF Deleted, Closed, CodingAssumption
  <2>3. x[2] # NoFd
    BY <2>1 DEF Fds, NoFd, NoName, CodingAssumption
  <2> QED
    BY <1>1, <1>3, <1>5, <2>2, <2>3 DEF Fits, Unmet
<1>8. Fits(w)
  BY <1>1, <1>3, <1>5, <1>7 DEF Fits
<1> QED
  BY <1>1, <1>5, <1>6, <1>8, LookKeepsInv

(* A file is counted for a descriptor if it was not.                        *)
LEMMA DescriptorKeepsInv ==
  ASSUME CodingAssumption, Inv, DescriptorCounted
  PROVE  Inv'
<1>1. Running /\ watch.at = "held" /\ watch.link # NoFd
  BY DEF DescriptorCounted, Watches
<1> DEFINE s == procs.open[watch.link][1]
<1> DEFINE bare == [watch EXCEPT !.link = NoFd]
<1> DEFINE more == [watch EXCEPT !.link = NoFd, !.seen = @ \cup {s}, !.held = @ + 1]
<1>2. IF ~Counted(s) THEN Looks(bare) ELSE LooksOrRefuses(more, watch.held + 1)
  BY DEF DescriptorCounted
<1>3. Fits(watch) /\ watch \in Looking
  BY DEF Inv, TypeInv, WatchInv
<1>4. watch.link \in Fds /\ procs.open[watch.link] \in Opening
  BY <1>1, <1>3 DEF Looking, Inv, TypeInv, Groups
<1>5. \A x \in use.held : x \in Scratch \X Fds /\ (x[2] = watch.link => x[1] = s)
  BY <1>1, <1>3 DEF Inv, TypeInv, Used, Fits
<1>6. CASE ~Counted(s)
  <2> DEFINE w == bare
  <2>1. /\ w.at = "held" /\ w.todo = watch.todo /\ w.left = watch.left /\ w.pids = watch.pids
        /\ w.seen = watch.seen /\ w.named = watch.named /\ w.held = watch.held /\ w \in Looking
    BY <1>1, <1>3 DEF Looking
  <2>2. Looks(w)
    BY <1>2, <1>6
  <2> HIDE DEF w
  <2>3. \A x \in use.held : x[1] \in w.seen \/ Unmet(w, x[2]) \/ x[2] = w.link
    <3>1. s \in Scratch => s \in watch.seen
      BY <1>6 DEF Counted, CountedAgain
    <3> HIDE DEF s
    <3> QED
      BY <1>1, <1>3, <1>5, <2>1, <3>1 DEF Fits, Unmet
  <2>4. Fits(w)
    BY <1>1, <1>3, <2>1, <2>3 DEF Fits
  <2> QED
    BY <1>1, <2>1, <2>2, <2>4, LookKeepsInv
<1>7. CASE Counted(s)
  <2> DEFINE w == more
  <2>1. s \in Scratch /\ s \notin watch.seen /\ s \in use.ever
    <3>1. s \in Scratch /\ s \notin watch.seen
      BY <1>7 DEF Counted, CountedAgain
    <3>2. s \in There(tree, procs)
      BY <1>4, <3>1 DEF There
    <3> QED
      BY <1>1, <1>3, <3>1, <3>2 DEF Fits
  <2>2. LooksOrRefuses(w, watch.held + 1)
    BY <1>2, <1>7
  <2> HIDE DEF s
  <2>3. /\ w.at = "held" /\ w.todo = watch.todo /\ w.left = watch.left /\ w.pids = watch.pids
        /\ w.seen = watch.seen \cup {s} /\ w.named = watch.named /\ w.held = watch.held + 1
        /\ w \in Looking
    <3>1. watch.seen \cup {s} \in SUBSET Scratch /\ watch.held + 1 \in Nat
      BY <1>3, <2>1 DEF Looking
    <3>2. w \in Looking
      BY <1>3, <3>1 DEF Looking
    <3> QED
      BY <1>1, <1>3, <3>2 DEF Looking
  <2> HIDE DEF w
  <2>4. \A x \in use.held : x[1] \in w.seen \/ Unmet(w, x[2]) \/ x[2] = w.link
    BY <1>1, <1>3, <1>5, <2>3 DEF Fits, Unmet
  <2>5. Cardinality(w.seen) <= w.named + w.held
        /\ (~use.linked => w.named + w.held = Cardinality(w.seen))
    <3>1. watch.seen \in SUBSET Scratch /\ watch.named \in Nat /\ watch.held \in Nat
      BY <1>3 DEF Looking
    <3> QED
      BY <1>1, <1>3, <2>1, <2>3, <3>1, SeenGrows DEF Fits
  <2>6. Fits(w)
    BY <1>1, <1>3, <2>1, <2>3, <2>4, <2>5 DEF Fits
  <2>7. watch.held + 1 \in Nat /\ watch.held + 1 <= w.named + w.held
    BY <1>3, <2>3 DEF Looking
  <2> QED
    BY <1>1, <2>2, <2>3, <2>6, <2>7, CountKeepsInv
<1> QED
  BY <1>6, <1>7

(* The sum is of what was seen.                                             *)
LEMMA CheckEndKeepsInv ==
  ASSUME CodingAssumption, Inv, CheckEnds
  PROVE  Inv'
<1>1. Running /\ watch.at = "held"
  BY DEF CheckEnds, Measured
<1>2. Fits(watch) /\ watch \in Looking
  BY DEF Inv, TypeInv, WatchInv
<1>3. CASE /\ watch' = Idle /\ use' = Unused
           /\ UNCHANGED <<pc, taskVars, fds, tree, runVars, exists, exit>>
  <2>1. TypeInv'
    BY <1>3, TreesAreTrees DEF Inv, TypeInv, Steps, taskVars, runVars
  <2>2. TreeInv'
    BY <1>3 DEF Inv, TreeInv, ScoredIsOfThePatch, PatchedTree, taskVars, runVars
  <2>3. HeldInv'
    BY <1>3 DEF Inv, HeldInv
  <2>4. watch'.at = "idle"
    BY <1>3 DEF Idle
  <2> QED
    BY <2>1, <2>2, <2>3, <2>4 DEF Inv, WatchInv, Fits
<1>4. CASE Sum > Limit /\ KillsCommand /\ watch' = [watch EXCEPT !.at = "refused"] /\ UNCHANGED use
  <2>1. Sum \in Nat /\ Sum <= watch.named + watch.held
    BY <1>2 DEF Sum, Looking
  <2>2. LooksOrRefuses(watch, Sum)
    BY <1>4 DEF LooksOrRefuses
  <2> QED
    BY <1>1, <1>2, <2>1, <2>2, CountKeepsInv
<1> QED
  BY <1>3, <1>4 DEF CheckEnds

-----------------------------------------------------------------------------
(* Every step of the runner, of the command and of the watch keeps what is  *)
(* known of the tree, of what is held and of the measurement.               *)
LEMMA NextKeepsInv ==
  ASSUME CodingAssumption, Inv, [Next]_vars
  PROVE  Inv'
<1>1. CASE Quiet
  BY <1>1, RunnerIsTyped, RunnerKnowsTheTree, RunnerCloses, RunnerLeavesTheWatch DEF Inv
<1>2. CASE Command
  BY <1>2, MovesKeepInv, CommandEndKeepsInv DEF Command, CommandMoves
<1>3. CASE Watch
  <2>1. CommandStopped => Inv'
    <3>1. Idle.at = "idle"
      BY DEF Idle
    <3> QED
      BY <3>1, KillKeepsInv, TreesAreTrees DEF CommandStopped
  <2> QED
    BY <1>3, <2>1, CheckStartKeepsInv, ListingKeepsInv, EntryKeepsInv, ScannedKeepsInv,
       DescriptorsKeepInv, LinkKeepsInv, DescriptorKeepsInv, CheckEndKeepsInv DEF Watch
<1>4. CASE UNCHANGED vars
  BY <1>4 DEF Inv, TypeInv, TreeInv, HeldInv, WatchInv, Fits, Once, Unmet, ScoredIsOfThePatch,
       PatchedTree, There, NamedIn, vars, taskVars, watchVars, runVars
<1> QED
  BY <1>1, <1>2, <1>3, <1>4 DEF Next, Quiet, Entering, Sandboxing, Judging

(* The inductive invariant of the runner.                                   *)
THEOREM RunnerInvariant == Spec => []Inv
<1>1. Init => Inv
  BY InitInv, CodingAssumption
<1>2. Inv /\ [Next]_vars => Inv'
  BY NextKeepsInv, CodingAssumption
<1> QED
  BY <1>1, <1>2, PTL DEF Spec

(* A scored patch was judged on the pinned fixture and on the fixture with  *)
(* the whole patch and nothing else, whatever the command did to the files  *)
(* meanwhile and however many moves it had.                                 *)
THEOREM ScoresAreOfThePatch == Spec => []ScoredIsOfThePatch
<1>1. Inv => ScoredIsOfThePatch
  BY DEF Inv, TreeInv
<1> QED
  BY <1>1, RunnerInvariant, PTL

(* For any number of files, names, processes and descriptors the watch      *)
(* overlooks no file that has kept a name or been held by one descriptor of *)
(* a process it knew and could read, and, unless a file had another name,   *)
(* it counts none twice; whatever else the command does meanwhile.          *)
THEOREM WatchesAreExact == Spec => []WatchIsExact
<1>1. ASSUME Inv PROVE WatchIsExact
  <2>0. Fits(watch) /\ watch \in Looking /\ use \in Used
    BY <1>1 DEF Inv, TypeInv, WatchInv
  <2>1. watch.at = "refused" /\ ~use.linked => Limit < Cardinality(use.ever)
    BY <2>0 DEF Fits
  <2>2. ASSUME Measured
        PROVE  Cardinality(Throughout) <= Sum /\ (~use.linked => Sum <= Cardinality(use.ever))
    <3>1. /\ watch.seen \subseteq use.ever /\ Cardinality(watch.seen) <= Sum
          /\ ~use.linked => Sum = Cardinality(watch.seen)
      BY <2>0, <2>2 DEF Fits, Measured, Sum
    <3>2. Throughout \subseteq watch.seen
      <4>1. ASSUME NEW x \in use.held PROVE x[1] \in watch.seen
        <5>1. x[2] # NoFd
          BY <2>0, CodingAssumption DEF Used, Fds, NoFd, NoName, CodingAssumption
        <5> QED
          BY <2>0, <2>2, <5>1 DEF Fits, Measured, Unmet
      <4>2. \A x \in use.named : x[1] \in watch.seen
        BY <2>0, <2>2 DEF Fits, Measured
      <4> QED
        BY <4>1, <4>2 DEF Throughout
    <3>3. IsFiniteSet(use.ever) /\ IsFiniteSet(watch.seen) /\ IsFiniteSet(Throughout)
      BY <2>0, <3>1, <3>2, FS_Subset, CodingAssumption DEF CodingAssumption, Used
    <3>4. Cardinality(Throughout) <= Cardinality(watch.seen)
          /\ Cardinality(watch.seen) <= Cardinality(use.ever)
      BY <3>1, <3>2, <3>3, FS_Subset
    <3>5. Cardinality(Throughout) \in Nat /\ Cardinality(watch.seen) \in Nat /\ Sum \in Nat
      BY <2>0, <3>3, FS_CardinalityType DEF Sum, Looking
    <3> QED
      BY <3>1, <3>4, <3>5
  <2> QED
    BY <2>1, <2>2 DEF WatchIsExact
<1> QED
  BY <1>1, RunnerInvariant, PTL

(* No exit leaves the checkout or a descriptor behind.                      *)
THEOREM ExitsLeaveNothing == Spec => []NothingOutlives
<1>1. Inv => NothingOutlives
  BY DEF Inv, HeldInv, NothingOutlives
<1> QED
  BY <1>1, RunnerInvariant, PTL
-----------------------------------------------------------------------------
(* Of numbers.                                                             *)

LEMMA LeastOfSome ==
  ASSUME NEW T, T \subseteq Nat, T # {}
  PROVE  \E x \in T : \A y \in T : x <= y
<1> DEFINE R == OpToRel(<, Nat)
<1>1. IsWellFoundedOn(R, Nat)
  BY NatLessThanWellFounded
<1>2. \A x, y \in Nat : x < y => <<x, y>> \in R
  BY DEF OpToRel
<1> HIDE DEF R
<1>3. PICK x \in T : \A y \in T : ~ (<<y, x>> \in R)
  BY <1>1, WFMin
<1>4. ASSUME NEW y \in T PROVE x <= y
  <2>1. ~ (y < x)
    BY <1>2, <1>3
  <2> QED BY <2>1
<1> QED BY <1>4

-----------------------------------------------------------------------------
(***************************************************************************)
(* The children of the tools and of the fresh image, however many          *)
(* processes they fork, whoever of them leaves the group, and whenever.    *)
(***************************************************************************)
(* The process table.                                                      *)

Born(p) == life[p] # "unborn"

\* Processes are born in the order of their ids; a present one has a parent that
\* lives, and is older.
TableInv ==
  /\ life \in [Processes -> {"unborn", "live", "zombie", "gone"}]
  /\ parent \in [Processes -> {Owner} \cup Processes]
  /\ forker \in [Processes -> {Owner} \cup Processes]
  /\ inGroup \in [Processes -> BOOLEAN]
  /\ killed \subseteq Processes
  /\ \A p, q \in Processes : p < q /\ Born(q) => Born(p)
  /\ \A p \in Processes : ~Born(p) => forker[p] = Owner /\ parent[p] = Owner
  /\ \A p \in Table : parent[p] # Owner =>
       parent[p] \in Processes /\ parent[p] < p /\ life[parent[p]] = "live"

\* What a scan knows: of every process that was there when it began and still is,
\* the entry is read or to be read, the older first, and the parent that was
\* read was read before.
ScanTyped ==
  /\ scan = [on |-> scan.on, listed |-> scan.listed, todo |-> scan.todo,
             read |-> scan.read, dead |-> scan.dead]
  /\ scan.on \in BOOLEAN
  /\ scan.listed \subseteq Processes /\ scan.todo \subseteq scan.listed
  /\ DOMAIN scan.read \subseteq scan.listed \ scan.todo
  /\ scan.dead \subseteq scan.listed
  /\ \A p \in scan.listed : Born(p)

Listing ==
  /\ \A p \in scan.listed \cap Table : parent[p] = Owner \/ parent[p] \in scan.listed
  /\ \A p \in scan.listed \cap Table : p \in scan.todo \/ p \in DOMAIN scan.read
  /\ \A p \in scan.listed \ scan.todo, q \in scan.todo : p < q
  /\ \A p \in DOMAIN scan.read :
       scan.read[p] = Owner \/ (scan.read[p] \in DOMAIN scan.read /\ scan.read[p] < p)
  /\ \A p \in scan.dead : life[p] # "live"

\* Who was not there has a forebear who was, and is in the group only if that
\* one is.
Strays ==
  \A p \in Table \ scan.listed :
    \E q \in Forebears(p) \cap scan.listed : inGroup[p] => inGroup[q]

ScanInv == ScanTyped /\ (scan.on => Listing /\ Strays)

(* Where each caller is.                                                   *)
CheckPlaces == {"sealed", "check", "checking"}
CleanPlaces ==
  {"first", "group", "wait", "second", "reap", "again", "reapagain", "last", "final"}
ToolPlaces == CheckPlaces \cup CleanPlaces
CodingPlaces == {"killpg", "owned", "killowned", "drain", "adopted", "reapcoding"}
QualifierPlaces ==
  {"before", "waiting", "term", "broken", "terminating", "killgroup", "killing", "after"}
SummaryPlaces == {"remaining", "stopterm", "stopkill"}
ControlPlaces ==
  {"admit", "reading", "waiting-child", "terminate", "grace", "populated", "wait-five",
   "reap-all", "empty", "clean-leaf"}
LoopPlaces ==
  {"loop", "exit", "head", "select", "stop", "stopped", "reaped", "kill-owned", "reap-owned"}

PlaceInv ==
  /\ caller \in Callers \cup FreshCallers
  /\ place \in {"run", "lease", "done"} \cup ToolPlaces \cup CodingPlaces \cup QualifierPlaces
            \cup SummaryPlaces \cup ControlPlaces \cup LoopPlaces
  /\ place = "run" => caller \in Callers
  /\ place = "lease" => caller \in FreshCallers
  /\ place \in ToolPlaces => caller \in Contained
  /\ place \in CodingPlaces => caller = "coding"
  /\ place \in QualifierPlaces => caller = "qualifier"
  /\ place \in SummaryPlaces => caller = "summary"
  /\ place \in ControlPlaces => caller = "control"
  /\ place \in LoopPlaces => caller \in {"dispatch", "git", "worker", "row"}
  /\ scan.on => place \in ScanPoints
  /\ code \in {0, 1} /\ complete \in BOOLEAN
  /\ ended \in BOOLEAN /\ polled \in BOOLEAN /\ active \in BOOLEAN /\ failed \in BOOLEAN
  /\ forced \in BOOLEAN /\ error \in BOOLEAN /\ late \in BOOLEAN

\* What a tool knows of its child once it has checked for what was left behind.
ToolInv ==
  /\ place \in CheckPlaces => life[Child] = "gone"
  /\ caller \in Adapters /\ place \in CleanPlaces =>
       cause \in {"leftover", "timeout", "oserror", "unsealed"}

\* Before it returns, the coding-task runner has killed whom it listed.
CodingInv ==
  place = "reapcoding" => \A p \in Living : p \in killed \/ p \notin scan.listed

\* Until an error is on its way, the control child was terminated with force, or
\* nobody was ever killed; and once its group was seen empty, nobody lives.
ControlInv ==
  /\ place = "lease" => ~polled /\ killed = {} /\ \A p \in Processes : ~Born(p)
  /\ place \in ControlPlaces /\ ~error =>
       /\ place \notin {"wait-five", "reap-all", "empty", "clean-leaf"} \/ ~forced => killed = {}
       /\ place \in {"wait-five", "reap-all"} /\ ~forced => Living = {}
       /\ place \in {"empty", "clean-leaf"} /\ ~forced => Table = {}

\* A row whose exit was seen at the head of a pass has nobody who runs.
RowInv ==
  caller = "row" /\ place \in {"loop", "head", "select", "exit"} =>
    /\ polled /\ ~active /\ ~late => Table = {}
    /\ place = "exit" => polled /\ ~active

ChildInv ==
  /\ TableInv /\ ScanInv /\ PlaceInv /\ ToolInv /\ CodingInv /\ ControlInv /\ RowInv
  /\ CleanupIsProved /\ FreshReturnsAlone
-----------------------------------------------------------------------------
(* Facts of the table.                                                     *)
LEMMA ProcessIds == /\ Owner \notin Processes /\ Child \in Processes /\ Processes \subseteq Nat
             /\ \A p \in Processes : Owner < p
             /\ \A S \in SUBSET Processes : S # {} => Min(S) \in S /\ \A q \in S : Min(S) <= q
<1>1. IsFiniteSet(Processes) /\ Processes = 1..Cardinality(Processes) /\ 1 \in Processes
  BY ProcessAssumption
<1>2. Cardinality(Processes) \in Nat
  BY <1>1, FS_CardinalityType
<1>3. Processes \subseteq Nat /\ \A p \in Processes : 0 < p
  BY <1>1, <1>2
<1>4. ASSUME NEW S \in SUBSET Processes, S # {} PROVE Min(S) \in S /\ \A q \in S : Min(S) <= q
  <2>1. \E x \in S : \A y \in S : x <= y
    BY <1>3, <1>4, LeastOfSome
  <2> QED BY <2>1 DEF Min
<1> QED BY <1>1, <1>3, <1>4 DEF Owner, Child

\* Somebody who lives has an eldest, whose parent is the owner.
LEMMA EldestIsOurs ==
  ASSUME TableInv, Living # {}
  PROVE  \E p \in Living : p \in Children(Owner)
<1>1. Living \subseteq Processes /\ Living \subseteq Table
  BY DEF Living, Table, InTable
<1>2. Min(Living) \in Living /\ \A q \in Living : Min(Living) <= q
  BY <1>1, ProcessIds
<1> DEFINE p == Min(Living)
<1>3. parent[p] = Owner
  <2> SUFFICES ASSUME parent[p] # Owner PROVE FALSE
    OBVIOUS
  <2>1. parent[p] \in Processes /\ parent[p] < p /\ parent[p] \in Living
    BY <1>1, <1>2 DEF TableInv, Living
  <2> HIDE DEF p
  <2>2. p \in Nat /\ parent[p] \in Nat /\ p <= parent[p]
    BY <1>1, <1>2, <2>1, ProcessIds DEF p
  <2> QED BY <2>1, <2>2
<1> QED BY <1>1, <1>2, <1>3 DEF Children

LEMMA NobodyLeft ==
  ASSUME TableInv, Children(Owner) \subseteq Zombies(Table)
  PROVE  Living = {} /\ Table = Children(Owner) /\ Table = Zombies(Table)
<1>1. Living = {}
  BY EldestIsOurs DEF Zombies, Living, Children
<1>2. \A p \in Table : parent[p] = Owner /\ life[p] = "zombie"
  BY <1>1 DEF TableInv, Living, Table, InTable
<1> QED BY <1>1, <1>2 DEF Children, Zombies

(* The steps of the table: of the processes, of their owner, and the birth  *)
(* of the child.                                                           *)
OwnerActs ==
  /\ life' \in [Processes -> {"unborn", "live", "zombie", "gone"}]
  /\ \A p \in Processes : life'[p] = life[p] \/ (life[p] = "zombie" /\ life'[p] = "gone")
  /\ killed' \subseteq Processes /\ killed \subseteq killed'
  /\ UNCHANGED <<parent, forker, inGroup>>
ChildStarts ==
  /\ \A p \in Processes : ~Born(p)
  /\ life' = [life EXCEPT ![Child] = "live"] /\ UNCHANGED <<parent, forker, inGroup, killed>>
TreeStep == TreeNext \/ OwnerActs \/ ChildStarts

LEMMA ReapsActs ==
  ASSUME TableInv, NEW set, Reaps(set), \A p \in set \cap Processes : life[p] = "zombie"
  PROVE  OwnerActs
<1>1. life' \in [Processes -> {"unborn", "live", "zombie", "gone"}]
  BY DEF Reaps, TableInv
<1> QED BY <1>1 DEF Reaps, OwnerActs, TableInv

LEMMA ZombiesActs ==
  ASSUME TableInv, NEW set, NEW base, set \subseteq Zombies(base), Reaps(set)
  PROVE  OwnerActs
BY ReapsActs DEF Zombies

LEMMA KillsActs ==
  ASSUME TableInv, NEW set, Kills(set)
  PROVE  OwnerActs
BY DEF Kills, OwnerActs, TableInv, Table

LEMMA StillActs ==
  ASSUME TableInv, UNCHANGED treeVars
  PROVE  OwnerActs
BY DEF treeVars, OwnerActs, TableInv

\* What a fork does, said of every process.
ForkOf(p, q) ==
  /\ p \in Processes /\ life[p] = "live" /\ p \notin killed
  /\ q \in Processes /\ ~Born(q) /\ q # p
  /\ \A r \in Processes : ~Born(r) => q <= r
  /\ \A r \in Processes : r # q => /\ life'[r] = life[r] /\ parent'[r] = parent[r]
                                   /\ forker'[r] = forker[r] /\ inGroup'[r] = inGroup[r]
  /\ life'[q] = "live" /\ parent'[q] = p /\ forker'[q] = p
  /\ inGroup'[q] => inGroup[p]
  /\ killed' = killed

LEMMA ForkIs ==
  ASSUME TableInv, NEW p \in Processes, Forks(p)
  PROVE  /\ \E q \in Processes : ForkOf(p, q)
         /\ life' \in [Processes -> {"unborn", "live", "zombie", "gone"}]
         /\ parent' \in [Processes -> {Owner} \cup Processes]
         /\ forker' \in [Processes -> {Owner} \cup Processes]
         /\ inGroup' \in [Processes -> BOOLEAN]
<1> DEFINE q == Min(Unborn)
<1>1. Unborn \in SUBSET Processes /\ Unborn # {}
  BY DEF Forks, Unborn
<1>2. q \in Unborn /\ \A r \in Unborn : q <= r
  BY <1>1, ProcessIds
<1>3. /\ life[p] = "live" /\ p \notin killed
      /\ life' = [life EXCEPT ![q] = "live"]
      /\ parent' = [parent EXCEPT ![q] = p] /\ forker' = [forker EXCEPT ![q] = p]
      /\ \E setsid \in BOOLEAN : inGroup' = [inGroup EXCEPT ![q] = inGroup[p] /\ ~setsid]
      /\ killed' = killed
  BY DEF Forks
<1> HIDE DEF q
<1>4. PICK setsid \in BOOLEAN : inGroup' = [inGroup EXCEPT ![q] = inGroup[p] /\ ~setsid]
  BY <1>3
<1>5. /\ q \in Processes /\ ~Born(q) /\ q # p /\ \A r \in Processes : ~Born(r) => q <= r
  BY <1>2, <1>3 DEF Unborn, Born
<1>6. inGroup' \in [Processes -> BOOLEAN] /\ (inGroup'[q] => inGroup[p])
      /\ \A r \in Processes : r # q => inGroup'[r] = inGroup[r]
  BY <1>4, <1>5 DEF TableInv
<1>7. /\ life' \in [Processes -> {"unborn", "live", "zombie", "gone"}]
      /\ parent' \in [Processes -> {Owner} \cup Processes]
      /\ forker' \in [Processes -> {Owner} \cup Processes]
  BY <1>3, <1>5 DEF TableInv
<1>8. /\ life'[q] = "live" /\ parent'[q] = p /\ forker'[q] = p
      /\ \A r \in Processes : r # q => /\ life'[r] = life[r] /\ parent'[r] = parent[r]
                                       /\ forker'[r] = forker[r]
  BY <1>3, <1>5 DEF TableInv
<1> QED BY <1>3, <1>5, <1>6, <1>7, <1>8 DEF ForkOf
-----------------------------------------------------------------------------
LEMMA OwnerKeepsTree == ASSUME TableInv, OwnerActs PROVE TableInv'
<1>1. \A p \in Processes : Born(p)' <=> Born(p)
  BY DEF OwnerActs, Born
<1>2. Table' \subseteq Table
  BY DEF OwnerActs, Table, InTable
<1>3. \A p \in Processes : life[p] = "live" => life'[p] = "live"
  BY DEF OwnerActs
<1>4. \A p \in Table' : parent'[p] # Owner =>
        parent'[p] \in Processes /\ parent'[p] < p /\ life'[parent'[p]] = "live"
  BY <1>2, <1>3 DEF OwnerActs, TableInv
<1> QED BY <1>1, <1>4 DEF OwnerActs, TableInv

LEMMA StartKeepsTree == ASSUME TableInv, ChildStarts PROVE TableInv'
<1>1. \A p \in Processes : Born(p)' <=> p = Child
  BY ProcessIds DEF ChildStarts, Born, TableInv
<1>2. \A p \in Processes : life[p] = "unborn" /\ parent[p] = Owner
  BY DEF ChildStarts, Born, TableInv
<1>3. Child \in Processes /\ \A p \in Processes : ~ (p < Child)
  <2>1. \A p \in Processes : p \in 1..Cardinality(Processes) /\ p # 0
    BY ProcessIds, ProcessAssumption DEF Owner
  <2> QED BY <2>1, ProcessIds DEF Child
<1>4. life' \in [Processes -> {"unborn", "live", "zombie", "gone"}]
  BY DEF ChildStarts, TableInv
<1>5. \A p, q \in Processes : p < q /\ Born(q)' => Born(p)'
  BY <1>1, <1>3
<1>6. \A p \in Processes : ~Born(p)' => forker'[p] = Owner /\ parent'[p] = Owner
  BY <1>2 DEF ChildStarts, TableInv, Born
<1>7. \A p \in Table' : parent'[p] = Owner
  BY <1>2 DEF ChildStarts, Table
<1> QED BY <1>4, <1>5, <1>6, <1>7 DEF ChildStarts, TableInv

LEMMA ForkKeepsTree == ASSUME TableInv, NEW p \in Processes, Forks(p) PROVE TableInv'
<1>1. PICK q \in Processes : ForkOf(p, q)
  BY ForkIs
<1>2. \A r \in Processes : Born(r)' <=> (Born(r) \/ r = q)
  BY <1>1 DEF ForkOf, Born
<1>3. Born(p) /\ p < q
  <2>1. Born(p) /\ p # q
    BY <1>1 DEF ForkOf, Born
  <2>2. ~ (q < p)
    BY <1>1, <2>1 DEF ForkOf, TableInv
  <2>3. p \in Nat /\ q \in Nat
    BY ProcessIds
  <2> QED BY <2>1, <2>2, <2>3
<1>4. \A r, s \in Processes : r < s /\ Born(s)' => Born(r)'
  <2> SUFFICES ASSUME NEW r \in Processes, NEW s \in Processes, r < s, Born(s)', ~Born(r), r # q
               PROVE FALSE
    BY <1>2
  <2>1. ~Born(s)
    BY DEF TableInv
  <2>2. s = q /\ q <= r
    BY <1>1, <1>2, <2>1 DEF ForkOf
  <2>3. r \in Nat /\ s \in Nat
    BY ProcessIds
  <2> QED BY <2>2, <2>3
<1>5. \A r \in Processes : ~Born(r)' => forker'[r] = Owner /\ parent'[r] = Owner
  BY <1>1, <1>2 DEF ForkOf, TableInv
<1>6. \A r \in Table' : r = q \/ r \in Table
  BY <1>1 DEF ForkOf, Table, InTable
<1>7. \A r \in Processes : life[r] = "live" => life'[r] = "live"
  BY <1>1 DEF ForkOf
<1>8. \A r \in Table' : parent'[r] # Owner =>
        parent'[r] \in Processes /\ parent'[r] < r /\ life'[parent'[r]] = "live"
  <2>1. parent'[q] = p /\ life'[p] = "live"
    BY <1>1, <1>7 DEF ForkOf
  <2>2. ASSUME NEW r \in Table, r # q, parent'[r] # Owner
        PROVE  parent'[r] \in Processes /\ parent'[r] < r /\ life'[parent'[r]] = "live"
    <3>1. parent'[r] = parent[r]
      BY <1>1, <2>2 DEF ForkOf, Table
    <3> QED BY <1>7, <2>2, <3>1 DEF TableInv
  <2> QED BY <1>3, <1>6, <2>1, <2>2
<1> QED BY <1>1, <1>4, <1>5, <1>8, ForkIs DEF TableInv, ForkOf

LEMMA ExitKeepsTree ==
  ASSUME TableInv, NEW p \in Processes, Exits(p)
  PROVE  /\ TableInv' /\ Table' = Table /\ UNCHANGED <<forker, inGroup, killed>>
         /\ \A r \in Processes : parent'[r] = parent[r] \/ parent'[r] = Owner
         /\ \A r \in Processes : life'[r] = life[r] \/ (r = p /\ life'[r] = "zombie")
<1>1. /\ life[p] = "live" /\ life' = [life EXCEPT ![p] = "zombie"]
      /\ parent' = [q \in Processes |-> IF InTable(q) /\ parent[q] = p THEN Owner ELSE parent[q]]
      /\ UNCHANGED <<forker, inGroup, killed>>
  BY DEF Exits
<1>2. /\ life' \in [Processes -> {"unborn", "live", "zombie", "gone"}]
      /\ parent' \in [Processes -> {Owner} \cup Processes]
      /\ life'[p] = "zombie" /\ \A r \in Processes : r # p => life'[r] = life[r]
  BY <1>1 DEF TableInv
<1>3. \A r \in Processes : Born(r)' <=> Born(r)
  BY <1>1, <1>2 DEF Born
<1>4. Table' = Table
  BY <1>1, <1>2 DEF Table, InTable
<1>5. \A r \in Table : parent'[r] # Owner =>
        parent'[r] = parent[r] /\ parent[r] # p
  BY <1>1 DEF Table
<1>6. \A r \in Table' : parent'[r] # Owner =>
        parent'[r] \in Processes /\ parent'[r] < r /\ life'[parent'[r]] = "live"
  BY <1>2, <1>4, <1>5 DEF TableInv
<1>7. \A r \in Processes : ~Born(r)' => forker'[r] = Owner /\ parent'[r] = Owner
  BY <1>1, <1>3 DEF TableInv
<1>8. TableInv'
  BY <1>1, <1>2, <1>3, <1>6, <1>7 DEF TableInv
<1> QED BY <1>1, <1>2, <1>4, <1>8

LEMMA ParentReaps ==
  ASSUME TableInv, NEW p \in Processes, ReapedByParent(p)
  PROVE  OwnerActs
<1>1. life' \in [Processes -> {"unborn", "live", "zombie", "gone"}]
  BY DEF ReapedByParent, TableInv
<1> QED BY <1>1 DEF ReapedByParent, OwnerActs, TableInv

LEMMA TreeKept == ASSUME TableInv, TreeStep PROVE TableInv'
BY OwnerKeepsTree, StartKeepsTree, ForkKeepsTree, ExitKeepsTree, ParentReaps DEF TreeStep, TreeNext
-----------------------------------------------------------------------------
(* A scan, while processes go on.                                          *)

\* A forebear stays one, and whoever is forked by somebody has his forebears.
LEMMA ForebearsStay ==
  ASSUME TableInv, NEW p \in Processes, NEW q \in Processes, ForkOf(p, q),
         NEW s \in Processes, s # q, NEW r \in Forebears(s), Born(r)
  PROVE  r \in Forebears(s)'
<1>1. PICK path \in SUBSET Processes :
        r \in path /\ s \notin path /\ \A x \in path \cup {s} : x = r \/ forker[x] \in path
  BY DEF Forebears
<1>2. q \notin path
  <2> SUFFICES ASSUME q \in path PROVE FALSE
    OBVIOUS
  <2>1. q # r /\ forker[q] = Owner
    BY DEF ForkOf, TableInv
  <2>2. forker[q] \in path
    BY <1>1, <2>1
  <2> QED BY <2>1, <2>2, ProcessIds
<1>3. \A x \in path \cup {s} : x = r \/ forker'[x] \in path
  BY <1>1, <1>2 DEF ForkOf
<1>4. r \in Processes
  BY DEF Forebears
<1> QED BY <1>1, <1>3, <1>4 DEF Forebears

LEMMA ForkerIsForebear ==
  ASSUME TableInv, NEW p \in Processes, NEW q \in Processes, ForkOf(p, q)
  PROVE  p \in Forebears(q)'
<1>1. {p} \in SUBSET Processes /\ p \in {p} /\ q \notin {p}
  BY DEF ForkOf
<1>2. \A x \in {p} \cup {q} : x = p \/ forker'[x] \in {p}
  BY DEF ForkOf
<1> QED BY <1>1, <1>2 DEF Forebears

LEMMA ForkedAfter ==
  ASSUME TableInv, NEW p \in Processes, NEW q \in Processes, ForkOf(p, q),
         NEW r \in Forebears(p), Born(r)
  PROVE  r \in Forebears(q)'
<1>1. PICK path \in SUBSET Processes :
        r \in path /\ p \notin path /\ \A x \in path \cup {p} : x = r \/ forker[x] \in path
  BY DEF Forebears
<1>2. q \notin path
  <2> SUFFICES ASSUME q \in path PROVE FALSE
    OBVIOUS
  <2>1. q # r /\ forker[q] = Owner
    BY DEF ForkOf, TableInv
  <2>2. forker[q] \in path
    BY <1>1, <2>1
  <2> QED BY <2>1, <2>2, ProcessIds
<1>3. \A x \in path \cup {p} : x = r \/ forker'[x] \in path
  BY <1>1, <1>2 DEF ForkOf
<1>4. r \in Processes
  BY DEF Forebears
<1>5. path \cup {p} \in SUBSET Processes /\ r \in path \cup {p} /\ q \notin path \cup {p}
  BY <1>1, <1>2 DEF ForkOf
<1>6. forker'[q] = p
  BY DEF ForkOf
<1>7. \A x \in (path \cup {p}) \cup {q} : x = r \/ forker'[x] \in path \cup {p}
  BY <1>3, <1>6
<1> QED BY <1>4, <1>5, <1>7 DEF Forebears

LEMMA ForkKeepsStrays ==
  ASSUME TableInv, ScanTyped, Strays, NEW p \in Processes, Forks(p), UNCHANGED scan
  PROVE  Strays'
<1>1. PICK q \in Processes : ForkOf(p, q)
  BY ForkIs
<1>2. \A s \in scan.listed : Born(s) /\ s \in Processes
  BY DEF ScanTyped
<1>3. ASSUME NEW s \in Table', s \notin scan.listed, s # q
      PROVE  \E r \in Forebears(s)' \cap scan'.listed : inGroup'[s] => inGroup'[r]
  <2>1. s \in Table \ scan.listed /\ s \in Processes
    BY <1>1, <1>3 DEF ForkOf, Table, InTable
  <2>2. PICK r \in Forebears(s) \cap scan.listed : inGroup[s] => inGroup[r]
    BY <2>1 DEF Strays
  <2>3. r \in Forebears(s)'
    BY <1>1, <1>2, <1>3, <2>1, <2>2, ForebearsStay
  <2>4. r # q /\ inGroup'[r] = inGroup[r] /\ inGroup'[s] = inGroup[s]
    BY <1>1, <1>2, <1>3, <2>1, <2>2 DEF ForkOf
  <2> QED BY <2>2, <2>3, <2>4
<1>4. \E r \in Forebears(q)' \cap scan'.listed : inGroup'[q] => inGroup'[r]
  <2>1. CASE p \in scan.listed
    <3>1. p \in Forebears(q)' /\ (inGroup'[q] => inGroup'[p])
      BY <1>1, ForkerIsForebear DEF ForkOf
    <3> QED BY <2>1, <3>1
  <2>2. CASE p \notin scan.listed
    <3>1. p \in Table
      BY <1>1 DEF ForkOf, Table, InTable
    <3>2. PICK r \in Forebears(p) \cap scan.listed : inGroup[p] => inGroup[r]
      BY <2>2, <3>1 DEF Strays
    <3>3. r \in Forebears(q)'
      BY <1>1, <1>2, <3>2, ForkedAfter
    <3>4. inGroup'[r] = inGroup[r] /\ (inGroup'[q] => inGroup[p])
      BY <1>1, <1>2, <3>2 DEF ForkOf
    <3> QED BY <3>2, <3>3, <3>4
  <2> QED BY <2>1, <2>2
<1> QED BY <1>3, <1>4 DEF Strays

LEMMA OthersKeepStrays ==
  ASSUME Strays, UNCHANGED <<scan, forker, inGroup>>, Table' \subseteq Table
  PROVE  Strays'
<1>1. \A s : Forebears(s)' = Forebears(s)
  BY DEF Forebears
<1> QED BY <1>1 DEF Strays

LEMMA ForkKeepsListing ==
  ASSUME TableInv, ScanTyped, Listing, NEW p \in Processes, Forks(p), UNCHANGED scan
  PROVE  Listing'
<1>1. PICK q \in Processes : ForkOf(p, q)
  BY ForkIs
<1>2. \A s \in scan.listed : s \in Processes /\ s # q /\ life'[s] = life[s] /\ parent'[s] = parent[s]
  BY <1>1 DEF ScanTyped, ForkOf
<1>3. scan'.listed \cap Table' = scan.listed \cap Table
  BY <1>2 DEF Table, InTable
<1>4. scan.dead \subseteq scan.listed
  BY DEF ScanTyped
<1> QED BY <1>2, <1>3, <1>4 DEF Listing

LEMMA OthersKeepListing ==
  ASSUME Listing, ScanTyped, UNCHANGED scan, Table' \subseteq Table,
         \A r \in Processes : parent'[r] = parent[r] \/ parent'[r] = Owner,
         \A r \in Processes : life'[r] = "live" => life[r] = "live"
  PROVE  Listing'
<1>1. \A r \in scan.listed : parent'[r] = parent[r] \/ parent'[r] = Owner
  BY DEF ScanTyped
<1>2. \A r \in scan.dead : life'[r] = "live" => life[r] = "live"
  BY DEF ScanTyped
<1> QED BY <1>1, <1>2 DEF Listing

LEMMA TypesKept ==
  ASSUME ScanTyped, UNCHANGED scan, \A r \in Processes : Born(r) => Born(r)'
  PROVE  ScanTyped'
BY DEF ScanTyped

LEMMA OwnerKeepsScan == ASSUME ScanInv, OwnerActs, UNCHANGED scan PROVE ScanInv'
<1>1. /\ \A r \in Processes : Born(r) => Born(r)'
      /\ Table' \subseteq Table
      /\ \A r \in Processes : life'[r] = "live" => life[r] = "live"
      /\ UNCHANGED <<parent, forker, inGroup>>
  BY DEF OwnerActs, Born, Table, InTable
<1> QED BY <1>1, TypesKept, OthersKeepListing, OthersKeepStrays DEF ScanInv

LEMMA TreeKeepsScan == ASSUME TableInv, ScanInv, TreeNext, UNCHANGED scan PROVE ScanInv'
<1> SUFFICES ASSUME NEW p \in Processes, Forks(p) \/ Exits(p) \/ ReapedByParent(p)
             PROVE ScanInv'
  BY DEF TreeNext
<1>1. CASE Forks(p)
  <2>1. \A r \in Processes : Born(r) => Born(r)'
    BY <1>1, ForkIs DEF ForkOf, Born
  <2> QED BY <1>1, <2>1, TypesKept, ForkKeepsListing, ForkKeepsStrays DEF ScanInv
<1>2. CASE Exits(p)
  <2>1. \A r \in Processes : Born(r) => Born(r)'
    BY <1>2, ExitKeepsTree DEF Born
  <2>2. /\ Table' \subseteq Table /\ UNCHANGED <<forker, inGroup>>
        /\ \A r \in Processes : parent'[r] = parent[r] \/ parent'[r] = Owner
        /\ \A r \in Processes : life'[r] = "live" => life[r] = "live"
    BY <1>2, ExitKeepsTree
  <2> QED BY <2>1, <2>2, TypesKept, OthersKeepListing, OthersKeepStrays DEF ScanInv
<1>3. CASE ReapedByParent(p)
  BY <1>3, ParentReaps, OwnerKeepsScan
<1> QED BY <1>1, <1>2, <1>3

LEMMA Begins == ASSUME TableInv, BeginScan PROVE ScanInv'
<1> DEFINE yes == TRUE
           empty == <<>>
           new == [on |-> yes, listed |-> Table, todo |-> Table, read |-> empty, dead |-> {}]
<1>1. scan' = new /\ UNCHANGED treeVars
  BY Zenon DEF BeginScan
<1>2. DOMAIN empty = {} /\ yes /\ yes \in BOOLEAN
  OBVIOUS
<1> HIDE DEF yes, empty
<1>3. /\ scan'.on = yes /\ scan'.listed = Table /\ scan'.todo = Table
      /\ scan'.read = empty /\ scan'.dead = {}
  BY <1>1
<1>4. scan' = [on |-> scan'.on, listed |-> scan'.listed, todo |-> scan'.todo,
               read |-> scan'.read, dead |-> scan'.dead]
  BY <1>1, <1>3
<1>5. Table' = Table /\ Table \subseteq Processes
  BY <1>1 DEF treeVars, Table, InTable
<1>6. ScanTyped'
  <2>1. \A p \in Table : Born(p)'
    BY <1>1 DEF Table, InTable, Born, treeVars
  <2> QED BY <1>2, <1>3, <1>4, <1>5, <2>1 DEF ScanTyped
<1>7. Listing'
  <2>1. \A p \in Table : parent[p] = Owner \/ parent[p] \in Table
    BY DEF TableInv, Table, InTable
  <2> QED BY <1>1, <1>2, <1>3, <1>5, <2>1 DEF Listing, treeVars
<1>8. Strays'
  BY <1>3, <1>5 DEF Strays
<1> QED BY <1>6, <1>7, <1>8 DEF ScanInv

\* What reading an entry does to the scan.
LEMMA ReadIs ==
  ASSUME ScanTyped, ReadEntry
  PROVE  \E p \in scan.todo :
           /\ p \in Processes /\ \A q \in scan.todo : p <= q
           /\ scan'.on = scan.on /\ scan'.listed = scan.listed /\ scan'.todo = scan.todo \ {p}
           /\ scan'.read = IF InTable(p)
                           THEN [q \in DOMAIN scan.read \cup {p} |->
                                   IF q = p THEN parent[p] ELSE scan.read[q]]
                           ELSE scan.read
           /\ scan'.dead = IF life[p] = "zombie" THEN scan.dead \cup {p} ELSE scan.dead
           /\ scan' = [on |-> scan'.on, listed |-> scan'.listed, todo |-> scan'.todo,
                       read |-> scan'.read, dead |-> scan'.dead]
<1> DEFINE p == Min(scan.todo)
           read == IF InTable(p)
                   THEN [q \in DOMAIN scan.read \cup {p} |-> IF q = p THEN parent[p] ELSE scan.read[q]]
                   ELSE scan.read
           dead == IF life[p] = "zombie" THEN scan.dead \cup {p} ELSE scan.dead
<1>1. scan.todo \in SUBSET Processes /\ scan.todo # {}
  BY DEF ScanTyped, ReadEntry
<1>2. p \in scan.todo /\ p \in Processes /\ \A q \in scan.todo : p <= q
  BY <1>1, ProcessIds
<1>3. scan' = [scan EXCEPT !.todo = @ \ {p}, !.read = read, !.dead = dead]
  BY DEF ReadEntry
<1>4. scan = [on |-> scan.on, listed |-> scan.listed, todo |-> scan.todo,
              read |-> scan.read, dead |-> scan.dead]
  BY DEF ScanTyped
<1> HIDE DEF read, dead, p
<1>5. scan' = [on |-> scan.on, listed |-> scan.listed, todo |-> scan.todo \ {p},
               read |-> read, dead |-> dead]
  BY <1>3, <1>4
<1>6. /\ scan'.on = scan.on /\ scan'.listed = scan.listed /\ scan'.todo = scan.todo \ {p}
      /\ scan'.read = read /\ scan'.dead = dead
  BY <1>5
<1>7. scan' = [on |-> scan'.on, listed |-> scan'.listed, todo |-> scan'.todo,
               read |-> scan'.read, dead |-> scan'.dead]
  BY <1>5, <1>6
<1> QED BY <1>2, <1>6, <1>7 DEF read, dead

LEMMA Reads == ASSUME TableInv, ScanInv, ReadEntry PROVE ScanInv'
<1>1. UNCHANGED treeVars /\ ScanTyped /\ Listing /\ Strays
  BY DEF ReadEntry, ScanInv
<1>2. PICK p \in scan.todo :
        /\ p \in Processes /\ \A q \in scan.todo : p <= q
        /\ scan'.on = scan.on /\ scan'.listed = scan.listed /\ scan'.todo = scan.todo \ {p}
        /\ scan'.read = IF InTable(p)
                        THEN [q \in DOMAIN scan.read \cup {p} |-> IF q = p THEN parent[p]
                              ELSE scan.read[q]]
                        ELSE scan.read
        /\ scan'.dead = IF life[p] = "zombie" THEN scan.dead \cup {p} ELSE scan.dead
        /\ scan' = [on |-> scan'.on, listed |-> scan'.listed, todo |-> scan'.todo,
                    read |-> scan'.read, dead |-> scan'.dead]
  BY <1>1, ReadIs
<1>3. /\ p \in scan.listed /\ scan.todo \subseteq scan.listed /\ scan.listed \subseteq Processes
      /\ DOMAIN scan.read \subseteq scan.listed \ scan.todo /\ p \notin DOMAIN scan.read
      /\ scan.dead \subseteq scan.listed
  BY <1>1, <1>2 DEF ScanTyped
<1>4. /\ DOMAIN scan'.read = IF InTable(p) THEN DOMAIN scan.read \cup {p} ELSE DOMAIN scan.read
      /\ \A q \in DOMAIN scan.read : scan'.read[q] = scan.read[q]
      /\ InTable(p) => scan'.read[p] = parent[p]
  <2>1. CASE InTable(p)
    BY <1>2, <1>3, <2>1
  <2>2. CASE ~InTable(p)
    BY <1>2, <2>2
  <2> QED BY <2>1, <2>2
<1>5. scan'.dead \subseteq scan.listed
  BY <1>2, <1>3
<1>6. ScanTyped'
  <2>1. DOMAIN scan'.read \subseteq scan'.listed \ scan'.todo
    BY <1>2, <1>3, <1>4
  <2>2. \A q \in scan'.listed : Born(q)'
    BY <1>1, <1>2 DEF ScanTyped, Born, treeVars
  <2> QED BY <1>1, <1>2, <1>3, <1>5, <2>1, <2>2 DEF ScanTyped
<1>7. Table' = Table /\ Strays'
  BY <1>1, <1>2 DEF Strays, Forebears, Table, InTable, treeVars
<1>8. Listing'
  <2>1. \A q \in scan'.listed \cap Table' : parent'[q] = Owner \/ parent'[q] \in scan'.listed
    BY <1>1, <1>2, <1>7 DEF Listing, treeVars
  <2>2. \A q \in scan'.listed \cap Table' : q \in scan'.todo \/ q \in DOMAIN scan'.read
    <3>1. \A q \in scan.listed \cap Table : q \in scan.todo \/ q \in DOMAIN scan.read
      BY <1>1 DEF Listing
    <3>2. p \in Table => InTable(p)
      BY DEF Table
    <3> QED BY <1>2, <1>4, <1>7, <3>1, <3>2
  <2>3. \A q \in scan'.listed \ scan'.todo, r \in scan'.todo : q < r
    <3>1. ASSUME NEW r \in scan.todo, r # p PROVE p < r
      <4>1. p <= r /\ p \in Nat /\ r \in Nat
        BY <1>2, <1>3, <3>1, ProcessIds
      <4> QED BY <3>1, <4>1
    <3> QED BY <1>1, <1>2, <3>1 DEF Listing
  <2>4. \A q \in DOMAIN scan'.read :
          scan'.read[q] = Owner \/ (scan'.read[q] \in DOMAIN scan'.read /\ scan'.read[q] < q)
    <3>1. \A q \in DOMAIN scan.read :
            scan'.read[q] = Owner \/ (scan'.read[q] \in DOMAIN scan'.read /\ scan'.read[q] < q)
      BY <1>1, <1>4 DEF Listing
    <3>2. ASSUME InTable(p), parent[p] # Owner
          PROVE  parent[p] \in DOMAIN scan.read /\ parent[p] < p
      <4>1. p \in scan.listed \cap Table
        BY <1>2, <1>3, <3>2 DEF Table
      <4>2. parent[p] \in scan.listed
        BY <1>1, <3>2, <4>1 DEF Listing
      <4>3. parent[p] \in Processes /\ parent[p] < p /\ life[parent[p]] = "live"
        BY <3>2, <4>1 DEF TableInv
      <4>4. parent[p] \notin scan.todo
        <5>1. ~ (p <= parent[p])
          <6>1. p \in Nat /\ parent[p] \in Nat
            BY <1>2, <4>3, ProcessIds
          <6> QED BY <4>3, <6>1
        <5> QED BY <1>2, <5>1
      <4>5. parent[p] \in scan.listed \cap Table
        BY <4>2, <4>3 DEF Table, InTable
      <4> QED BY <1>1, <4>3, <4>4, <4>5 DEF Listing
    <3> QED BY <1>4, <3>1, <3>2
  <2>5. \A q \in scan'.dead : life'[q] # "live"
    BY <1>1, <1>2 DEF Listing, treeVars
  <2> QED BY <2>1, <2>2, <2>3, <2>4, <2>5 DEF Listing
<1> QED BY <1>1, <1>2, <1>6, <1>7, <1>8 DEF ScanInv

\* A scan that ends leaves what it listed.
LEMMA EndIs ==
  ASSUME ScanTyped, EndsScan
  PROVE  /\ scan' = [on |-> FALSE, listed |-> scan.listed, todo |-> {}, read |-> <<>>, dead |-> {}]
         /\ ~scan'.on /\ scan'.listed = scan.listed /\ scan'.todo = {}
         /\ DOMAIN scan'.read = {} /\ scan'.dead = {}
         /\ scan' = [on |-> scan'.on, listed |-> scan'.listed, todo |-> scan'.todo,
                     read |-> scan'.read, dead |-> scan'.dead]
         /\ scan'.on \in BOOLEAN
<1> DEFINE no == FALSE
           empty == <<>>
<1>1. scan' = [scan EXCEPT !.on = no, !.todo = {}, !.read = empty, !.dead = {}]
  BY Zenon DEF EndsScan
<1>2. scan = [on |-> scan.on, listed |-> scan.listed, todo |-> scan.todo,
              read |-> scan.read, dead |-> scan.dead]
  BY DEF ScanTyped
<1>3. DOMAIN empty = {}
  OBVIOUS
<1>4. ~no /\ no \in BOOLEAN
  OBVIOUS
<1> HIDE DEF no, empty
<1>5. scan' = [on |-> no, listed |-> scan.listed, todo |-> {}, read |-> empty, dead |-> {}]
  BY <1>1, <1>2
<1>6. /\ scan'.on = no /\ scan'.listed = scan.listed /\ scan'.todo = {}
      /\ scan'.read = empty /\ scan'.dead = {}
  BY <1>5
<1>7. scan' = [on |-> scan'.on, listed |-> scan'.listed, todo |-> scan'.todo,
               read |-> scan'.read, dead |-> scan'.dead]
  BY <1>5, <1>6
<1>8. scan' = [on |-> FALSE, listed |-> scan.listed, todo |-> {}, read |-> <<>>, dead |-> {}]
  BY <1>5, Zenon DEF no, empty
<1> QED BY <1>3, <1>4, <1>6, <1>7, <1>8

LEMMA Ends2 == ASSUME ScanInv, OwnerActs, EndsScan PROVE ScanInv'
<1>1. ScanTyped
  BY DEF ScanInv
<1>2. \A p \in scan.listed : Born(p) /\ p \in Processes
  BY <1>1 DEF ScanTyped
<1>3. \A p \in scan.listed : Born(p)'
  BY <1>2 DEF OwnerActs, Born
<1>4. ScanTyped'
  BY <1>1, <1>2, <1>3, EndIs DEF ScanTyped
<1> QED BY <1>1, <1>4, EndIs DEF ScanInv
-----------------------------------------------------------------------------
(* What a scan that was read to its end has found.                         *)
LEMMA ReachedIs ==
  ASSUME ScanTyped, Listing, NEW roots, Owner \in roots
  PROVE  Reached(roots) = DOMAIN scan.read \ roots
<1> DEFINE S == {Owner} \cup Processes
           D == DOMAIN scan.read
           Fix(f) == f = [p \in S |-> p \in roots \/ (p \in D /\ f[scan.read[p]])]
           reach == CHOOSE f : Fix(f)
           all == [p \in S |-> p \in roots \/ p \in D]
<1>1. D \subseteq Processes /\ \A p \in D : scan.read[p] = Owner \/ (scan.read[p] \in D /\ scan.read[p] < p)
  BY DEF ScanTyped, Listing
<1>2. \A p \in D : p \in S /\ scan.read[p] \in S
  BY <1>1
<1>3. Fix(all)
  <2>1. \A p \in S : (p \in roots \/ p \in D) <=> (p \in roots \/ (p \in D /\ all[scan.read[p]]))
    <3>1. ASSUME NEW p \in D PROVE all[scan.read[p]]
      BY <1>1, <1>2
    <3> QED BY <3>1
  <2> QED BY <2>1
<1>4. Fix(reach)
  BY <1>3
<1> HIDE DEF reach
<1>5. \A p \in S : reach[p] <=> (p \in roots \/ (p \in D /\ reach[scan.read[p]]))
  BY <1>4
<1>6. \A p \in D : reach[p]
  <2> DEFINE T == {p \in D : ~reach[p]}
  <2> SUFFICES ASSUME T # {} PROVE FALSE
    OBVIOUS
  <2>1. T \in SUBSET Processes
    BY <1>1
  <2>2. PICK p \in T : \A q \in T : p <= q
    BY <2>1, ProcessIds
  <2>3. p \in D /\ ~reach[p] /\ p \in S
    BY <1>2
  <2>4. ~reach[scan.read[p]]
    BY <1>5, <2>3
  <2>5. scan.read[p] # Owner
    BY <1>5, <2>4
  <2>6. scan.read[p] \in T /\ scan.read[p] < p
    BY <1>1, <2>3, <2>4, <2>5
  <2>7. p \in Nat /\ scan.read[p] \in Nat
    BY <2>1, <2>6, ProcessIds
  <2> QED BY <2>2, <2>6, <2>7
<1>7. Reached(roots) = {p \in D \ roots : reach[p]}
  BY DEF Reached, reach
<1> QED BY <1>6, <1>7
-----------------------------------------------------------------------------
(* Every step leaves the table to the processes, or is one of their owner.  *)
LeavesScan == (UNCHANGED scan /\ place \notin ScanPoints) \/ EndsScan

LEMMA CleanupActs == ASSUME TableInv, Cleanup PROVE OwnerActs /\ LeavesScan
<1>1. CASE KillFirst
  <2>1. Kills(owned') /\ EndsScan
    BY <1>1 DEF KillFirst
  <2> QED BY <2>1, KillsActs DEF LeavesScan, ScanPoints, Passes
<1>2. CASE KillGroup
  BY <1>2, KillsActs DEF KillGroup, LeavesScan, ScanPoints, Passes
<1>3. CASE WaitChild
  BY <1>3, ReapsActs, StillActs DEF WaitChild, LeavesScan, ScanPoints, Passes
<1>4. CASE KillAdopted
  BY <1>4, KillsActs DEF KillAdopted, LeavesScan, ScanPoints, Passes
<1>5. CASE ReapOwned
  BY <1>5, ZombiesActs DEF ReapOwned, scanVars, LeavesScan, ScanPoints, Passes
<1>6. CASE LookAgain
  <2>1. EndsScan /\ (UNCHANGED treeVars \/ \E set : Kills(set))
    <3>1. CASE ProvedAbsent
      BY <1>6, <3>1 DEF LookAgain
    <3>2. CASE ~ProvedAbsent
      BY <1>6, <3>2 DEF LookAgain
    <3> QED BY <3>1, <3>2
  <2> QED BY <2>1, KillsActs, StillActs DEF LeavesScan, ScanPoints, Passes
<1>7. CASE ReapAgain
  BY <1>7, ZombiesActs DEF ReapAgain, LeavesScan, ScanPoints, Passes
<1>8. CASE LookLast
  BY <1>8, StillActs DEF LookLast, scanVars, LeavesScan, ScanPoints, Passes
<1>9. CASE LookFinal
  BY <1>9, StillActs DEF LookFinal, LeavesScan, ScanPoints, Passes
<1> QED BY <1>1, <1>2, <1>3, <1>4, <1>5, <1>6, <1>7, <1>8, <1>9 DEF Cleanup

LEMMA ToolActs == ASSUME TableInv, Tool PROVE OwnerActs /\ LeavesScan
<1>1. CASE ReadToEnd
  BY <1>1, ReapsActs DEF ReadToEnd, scanVars, LeavesScan, ScanPoints, Passes
<1>2. CASE ReadFails
  BY <1>2, StillActs DEF ReadFails, LeavesScan, ScanPoints, Passes
<1>3. CASE Sealed
  BY <1>3, StillActs DEF Sealed, scanVars, LeavesScan, ScanPoints, Passes
<1>4. CASE CheckGroup
  BY <1>4, StillActs DEF CheckGroup, scanVars, LeavesScan, ScanPoints, Passes
<1>5. CASE CheckDescendants
  BY <1>5, StillActs DEF CheckDescendants, LeavesScan, ScanPoints, Passes
<1> QED BY <1>1, <1>2, <1>3, <1>4, <1>5, CleanupActs DEF Tool

LEMMA CodingActs == ASSUME TableInv, Coding PROVE OwnerActs /\ LeavesScan
<1>1. CASE CodingEnds
  BY <1>1, ReapsActs DEF CodingEnds, scanVars, LeavesScan, ScanPoints, Passes
<1>2. CASE CodingStops
  BY <1>2, StillActs DEF CodingStops, scanVars, LeavesScan, ScanPoints, Passes
<1>3. CASE KillOwned
  <2>1. EndsScan /\ \E set : Kills(set)
    <3>1. CASE Refused(Reached({Owner, Child})) # {}
      BY <1>3, <3>1 DEF KillOwned
    <3>2. CASE ~(Refused(Reached({Owner, Child})) # {})
      BY <1>3, <3>2 DEF KillOwned
    <3> QED BY <3>1, <3>2
  <2> QED BY <2>1, KillsActs DEF LeavesScan, ScanPoints, Passes
<1>4. CASE KillOwnedGroup
  BY <1>4, KillsActs DEF KillOwnedGroup, scanVars, LeavesScan, ScanPoints, Passes
<1>5. CASE DrainKilled
  BY <1>5, ReapsActs, StillActs DEF DrainKilled, LeavesScan, ScanPoints, Passes
<1>6. CASE KillCodingAdopted
  BY <1>6, KillsActs DEF KillCodingAdopted, KillsAdopted, LeavesScan, ScanPoints, Passes
<1>7. CASE ReapCoding
  BY <1>7, ZombiesActs DEF ReapCoding, scanVars, LeavesScan, ScanPoints, Passes
<1> QED BY <1>1, <1>2, <1>3, <1>4, <1>5, <1>6, <1>7 DEF Coding

LEMMA QualifierActs == ASSUME TableInv, Qualifier PROVE OwnerActs /\ LeavesScan
<1>1. CASE InspectionFails \/ CountBefore \/ PollTerm \/ PollKill \/ CountAfter
  BY <1>1, StillActs DEF InspectionFails, CountBefore, PollTerm, PollKill, CountAfter, LeavesScan,
       ScanPoints, Passes
<1>2. CASE QualifierPolls
  BY <1>2, ReapsActs, StillActs DEF QualifierPolls, scanVars, LeavesScan, ScanPoints, Passes
<1>3. CASE TermGroup
  BY <1>3, ZombiesActs, StillActs DEF TermGroup, scanVars, LeavesScan, ScanPoints, Passes
<1>4. CASE KillQualified \/ BreakOff
  BY <1>4, KillsActs DEF KillQualified, BreakOff, scanVars, LeavesScan, ScanPoints, Passes
<1>5. CASE WaitQualified
  BY <1>5, ReapsActs, StillActs DEF WaitQualified, LeavesScan, ScanPoints, Passes
<1> QED BY <1>1, <1>2, <1>3, <1>4, <1>5 DEF Qualifier

LEMMA SummaryActs == ASSUME TableInv, Summary PROVE OwnerActs /\ LeavesScan
<1>1. CASE SignalArrives \/ StopRemaining \/ StopKill
  BY <1>1, StillActs DEF SignalArrives, StopRemaining, StopKill, scanVars, LeavesScan, ScanPoints, Passes
<1>2. CASE SignalDeadline
  BY <1>2, KillsActs DEF SignalDeadline, scanVars, LeavesScan, ScanPoints, Passes
<1>3. CASE SummaryWaits
  BY <1>3, ReapsActs DEF SummaryWaits, scanVars, LeavesScan, ScanPoints, Passes
<1>4. CASE StopTerm
  BY <1>4, KillsActs, StillActs DEF StopTerm, scanVars, LeavesScan, ScanPoints, Passes
<1> QED BY <1>1, <1>2, <1>3, <1>4 DEF Summary

LEMMA PollsActs == ASSUME TableInv, Polls PROVE OwnerActs
BY ReapsActs DEF Polls, Waitable

LEMMA AllActs ==
  ASSUME TableInv, NEW A, NEW B, ReapsAll(A, B)
  PROVE  OwnerActs
<1>1. CASE Children(Owner) \subseteq Zombies(Table) /\ Reaps(Children(Owner))
  BY <1>1, ZombiesActs
<1>2. CASE \E set \in SUBSET Zombies(Table) : Reaps(set)
  BY <1>2, ZombiesActs
<1> QED BY <1>1, <1>2 DEF ReapsAll

LEMMA ControlActs == ASSUME TableInv, Control PROVE OwnerActs /\ LeavesScan
<1>1. CASE LeaseFails \/ ControlReads \/ TerminationBreaks \/ LeafEmpty \/ CleansLeaf
  BY <1>1, StillActs DEF LeaseFails, ControlReads, TerminationBreaks, LeafEmpty, CleansLeaf, rest,
     scanVars, LeavesScan, ScanPoints, Passes
<1>2. CASE Admits
  <2>1. UNCHANGED treeVars \/ Polls
    BY <1>2 DEF Admits
  <2> QED BY <1>2, <2>1, PollsActs, StillActs DEF Admits, rest, scanVars, LeavesScan, ScanPoints, Passes
<1>3. CASE ControlWaits
  <2>1. UNCHANGED treeVars \/ Polls
    BY <1>3 DEF ControlWaits, treeVars
  <2> QED BY <1>3, <2>1, PollsActs, StillActs DEF ControlWaits, rest, scanVars, LeavesScan,
       ScanPoints, Passes
<1>4. CASE Terminates \/ WaitsFive
  BY <1>4, PollsActs DEF Terminates, WaitsFive, rest, scanVars, LeavesScan, ScanPoints, Passes
<1>5. CASE Grace
  <2>1. \E A, B : ReapsAll(A, B)
    BY <1>5 DEF Grace
  <2> QED BY <1>5, <2>1, AllActs DEF Grace, rest, scanVars, LeavesScan, ScanPoints, Passes
<1>6. CASE KillsLeaf
  <2>1. killed' = killed \cup Living \/ UNCHANGED killed
    <3>1. CASE LeftOver
      BY <1>6, <3>1 DEF KillsLeaf
    <3>2. CASE ~LeftOver
      BY <1>6, <3>2 DEF KillsLeaf
    <3> QED BY <3>1, <3>2
  <2>2. Living \subseteq Processes
    BY DEF Living
  <2>3. UNCHANGED <<life, parent, forker, inGroup>>
    BY <1>6 DEF KillsLeaf
  <2>4. OwnerActs
    BY <2>1, <2>2, <2>3 DEF OwnerActs, TableInv
  <2> QED BY <1>6, <2>4 DEF KillsLeaf, rest, scanVars, LeavesScan, ScanPoints, Passes
<1>7. CASE ReapsRest
  <2>1. \E A, B : ReapsAll(A, B)
    BY <1>7 DEF ReapsRest
  <2> QED BY <1>7, <2>1, AllActs DEF ReapsRest, rest, scanVars, LeavesScan, ScanPoints, Passes
<1> QED BY <1>1, <1>2, <1>3, <1>4, <1>5, <1>6, <1>7 DEF Control

LEMMA LoopsActs == ASSUME TableInv, Loops PROVE OwnerActs /\ LeavesScan
<1>1. CASE OtherHead \/ Selects \/ Stops \/ Exits0
  BY <1>1, StillActs DEF OtherHead, Selects, Stops, Exits0, rest, scanVars, LeavesScan, ScanPoints, Passes
<1>2. CASE Condition
  <2>1. UNCHANGED treeVars \/ Polls
    BY <1>2 DEF Condition
  <2> QED BY <1>2, <2>1, PollsActs, StillActs DEF Condition, rest, scanVars, LeavesScan,
       ScanPoints, Passes
<1>3. CASE RowHead
  <2>1. UNCHANGED treeVars \/ Reaps(Zombies(Table))
    BY <1>3 DEF RowHead, LooksAtAdopted
  <2> QED BY <1>3, <2>1, ZombiesActs, StillActs DEF RowHead, rest, scanVars, LeavesScan,
       ScanPoints, Passes
<1>4. CASE DispatchHead \/ WaitsKilled
  <2>1. UNCHANGED treeVars \/ Polls
    BY <1>4 DEF DispatchHead, WaitsKilled
  <2> QED BY <1>4, <2>1, PollsActs, StillActs DEF DispatchHead, WaitsKilled, rest, scanVars,
       LeavesScan, ScanPoints, Passes
<1>5. CASE KillsChild
  BY <1>5, PollsActs DEF KillsChild, rest, scanVars, LeavesScan, ScanPoints, Passes
<1>6. CASE SendsKill \/ KillsChildren
  BY <1>6, KillsActs DEF SendsKill, KillsChildren, rest, scanVars, LeavesScan, ScanPoints, Passes
<1>7. CASE RowStops
  <2>1. /\ life' = [p \in Processes |-> IF p \in Zombies(Table) THEN "gone" ELSE life[p]]
        /\ killed \subseteq killed' /\ killed' \subseteq killed \cup Processes
        /\ UNCHANGED <<parent, forker, inGroup>>
    BY <1>7 DEF RowStops, Group, Table
  <2>2. life' \in [Processes -> {"unborn", "live", "zombie", "gone"}]
    BY <2>1 DEF TableInv
  <2>3. OwnerActs
    BY <2>1, <2>2 DEF OwnerActs, TableInv, Zombies
  <2> QED BY <1>7, <2>3 DEF RowStops, rest, scanVars, LeavesScan, ScanPoints, Passes
<1>8. CASE ReapsChildren
  BY <1>8, ZombiesActs DEF ReapsChildren, LeavesScan, ScanPoints, Passes
<1> QED BY <1>1, <1>2, <1>3, <1>4, <1>5, <1>6, <1>7, <1>8 DEF Loops

LEMMA StartActs == ASSUME TableInv, ControlInv, StartsChild PROVE ChildStarts /\ UNCHANGED scan
BY DEF StartsChild, ControlInv, ChildStarts, rest, scanVars

\* What a step is: one of the owner, or of a scan, or of the processes.
Owners ==
  \/ (Tool \/ Coding \/ Qualifier \/ Summary) /\ UNCHANGED freshVars
  \/ Control \/ Loops

LEMMA StepIs ==
  ASSUME TableInv, ControlInv, ChildNext
  PROVE  \/ OwnerActs /\ LeavesScan /\ Owners
         \/ BeginScan /\ UNCHANGED freshVars
         \/ ReadEntry /\ UNCHANGED freshVars
         \/ Processing /\ UNCHANGED freshVars
         \/ StartsChild /\ ChildStarts /\ UNCHANGED scan
BY ToolActs, CodingActs, QualifierActs, SummaryActs, ControlActs, LoopsActs, StartActs
   DEF ChildNext, Tools, ToolNext, Image, Owners

LEMMA TreeAndScan ==
  ASSUME TableInv, ControlInv, ScanInv, PlaceInv, ChildNext
  PROVE  TableInv' /\ ScanInv'
<1>1. CASE OwnerActs /\ LeavesScan
  BY <1>1, OwnerKeepsTree, OwnerKeepsScan, Ends2 DEF LeavesScan, ScanPoints, Passes
<1>2. CASE BeginScan
  BY <1>2, Begins, StillActs, OwnerKeepsTree DEF BeginScan
<1>3. CASE ReadEntry
  BY <1>3, Reads, StillActs, OwnerKeepsTree DEF ReadEntry
<1>4. CASE Processing
  <2>1. TreeNext /\ UNCHANGED scan
    BY <1>4 DEF Processing, scanVars
  <2> QED BY <2>1, TreeKept, TreeKeepsScan DEF TreeStep
<1>5. CASE StartsChild /\ ChildStarts /\ UNCHANGED scan
  <2>1. TableInv'
    BY <1>5, StartKeepsTree
  <2>2. \A r \in Processes : ~Born(r)
    BY <1>5 DEF ChildStarts
  <2>3. \A r \in Processes : Born(r) => Born(r)'
    BY <2>2
  <2>4. ScanTyped'
    BY <1>5, <2>3, TypesKept DEF ScanInv
  <2>5. ~scan.on
    BY <1>5 DEF PlaceInv, ScanPoints, StartsChild
  <2> QED BY <1>5, <2>1, <2>4, <2>5 DEF ScanInv
<1> QED BY <1>1, <1>2, <1>3, <1>4, <1>5, StepIs
-----------------------------------------------------------------------------
(* Where each caller is.                                                   *)

\* A caller stays among the places of its own.
Stays(from, places) ==
  /\ UNCHANGED caller
  /\ place \in from \cup places /\ place' \in places \cup {"done"}
  /\ code' \in {0, 1}

LEMMA CleanedIs ==
  ASSUME caller \in Contained, NEW clean \in BOOLEAN, Cleaned(clean)
  PROVE  /\ place' = "done"
         /\ outcome'.clean => clean \/ (caller = "generation" /\ cause \notin {"leftover", "timeout"})
<1>1. CASE caller = "evaluator"
  BY <1>1 DEF Cleaned, Ends
<1>2. CASE caller = "gate"
  BY <1>2 DEF Cleaned, Ends
<1>3. CASE caller = "verifier"
  BY <1>3 DEF Cleaned, Ends
<1>4. CASE caller = "helper"
  BY <1>4 DEF Cleaned, Ends
<1>5. CASE caller = "generation"
  <2>1. GenerationEnds(clean)
    BY <1>5 DEF Cleaned
  <2> QED BY <1>5, <2>1 DEF GenerationEnds, Ends
<1>6. CASE caller = "validation"
  BY <1>6 DEF Cleaned, Ends, ValidationEnds
<1>7. CASE caller = "fixture"
  BY <1>7 DEF Cleaned, Ends, FixtureEnds
<1> QED BY <1>1, <1>2, <1>3, <1>4, <1>5, <1>6, <1>7 DEF Contained

LEMMA CleanupMoves ==
  ASSUME PlaceInv, Cleanup
  PROVE  Stays({}, CleanPlaces) /\ caller \in Contained /\ complete' \in BOOLEAN
<1>1. code \in {0, 1} /\ complete \in BOOLEAN
  BY DEF PlaceInv
<1>2. place \in CleanPlaces
  BY DEF Cleanup, KillFirst, KillGroup, WaitChild, KillAdopted, ReapOwned, LookAgain, ReapAgain,
         LookLast, LookFinal, Passes, Scanned, CleanPlaces
<1>3. caller \in Contained
  BY <1>2 DEF PlaceInv, ToolPlaces
<1>4. CASE KillFirst
  BY <1>1, <1>2, <1>3, <1>4 DEF KillFirst, CallIsKept, callVars, CleanPlaces, Stays
<1>5. CASE KillGroup \/ WaitChild \/ KillAdopted
  BY <1>1, <1>2, <1>3, <1>5 DEF KillGroup, WaitChild, KillAdopted, Passes, CallIsKept, callVars,
     CleanPlaces, Stays
<1>6. CASE ReapOwned \/ ReapAgain
  BY <1>1, <1>2, <1>3, <1>6 DEF ReapOwned, ReapAgain, Passes, CallIsKept, callVars, scanVars,
     CleanPlaces, Stays
<1>7. CASE LookAgain
  <2>1. UNCHANGED <<caller, code>>
    BY <1>7 DEF LookAgain, callVars
  <2>2. CASE ProvedAbsent
    <3>1. Cleaned(complete) /\ UNCHANGED complete
      BY <1>7, <2>2 DEF LookAgain
    <3>2. place' = "done"
      BY <1>1, <1>3, <3>1, CleanedIs
    <3> QED BY <1>1, <1>2, <1>3, <2>1, <3>1, <3>2 DEF Stays
  <2>3. CASE ~ProvedAbsent
    <3>1. place' = "reapagain" /\ complete' = (complete /\ Refused(owned') = {})
      BY <1>7, <2>3 DEF LookAgain
    <3> QED BY <1>1, <1>2, <1>3, <2>1, <3>1 DEF Stays, CleanPlaces
  <2> QED BY <2>2, <2>3
<1>8. CASE LookLast
  <2>1. UNCHANGED <<caller, code, complete>>
    BY <1>8 DEF LookLast, callVars, scanVars
  <2>2. place' = "final" \/ Cleaned(FALSE)
    BY <1>8, Zenon DEF LookLast
  <2> DEFINE no == FALSE
  <2>3. place' = "final" \/ Cleaned(no)
    BY <2>2, Zenon DEF no
  <2>4. no \in BOOLEAN
    OBVIOUS
  <2> HIDE DEF no
  <2>5. place' \in {"final", "done"}
    BY <1>3, <2>3, <2>4, CleanedIs
  <2> QED BY <1>1, <1>2, <1>3, <2>1, <2>5 DEF Stays, CleanPlaces
<1>9. CASE LookFinal
  <2>1. UNCHANGED <<caller, code, complete>> /\ Cleaned(Found({Owner}) = {})
    BY <1>9 DEF LookFinal, callVars
  <2> DEFINE none == Found({Owner}) = {}
  <2>2. none \in BOOLEAN /\ Cleaned(none)
    BY <2>1
  <2> HIDE DEF none
  <2>3. place' = "done"
    BY <1>3, <2>2, CleanedIs
  <2> QED BY <1>1, <1>2, <1>3, <2>1, <2>3 DEF Stays
<1> QED BY <1>4, <1>5, <1>6, <1>7, <1>8, <1>9 DEF Cleanup

LEMMA ToolMoves ==
  ASSUME PlaceInv, Tool
  PROVE  Stays({"run"}, ToolPlaces) /\ caller \in Contained /\ complete' \in BOOLEAN
<1>1. code \in {0, 1} /\ complete \in BOOLEAN
  BY DEF PlaceInv
<1>2. CASE ReadToEnd
  BY <1>1, <1>2 DEF ReadToEnd, callVars, scanVars, ToolPlaces, CheckPlaces, CleanPlaces, Stays
<1>3. CASE ReadFails
  BY <1>1, <1>3 DEF ReadFails, CallIsKept, callVars, ToolPlaces, CheckPlaces, CleanPlaces, Stays
<1>4. CASE Sealed
  <2>1. place' \in {"check", "first", "done"}
    BY <1>4 DEF Sealed, Ends
  <2> QED BY <1>1, <1>4, <2>1 DEF Sealed, callVars, scanVars, ToolPlaces, CheckPlaces, CleanPlaces,
       Stays, PlaceInv
<1>5. CASE CheckGroup
  BY <1>1, <1>5 DEF CheckGroup, CallIsKept, callVars, scanVars, ToolPlaces, CheckPlaces, CleanPlaces,
       Stays, PlaceInv
<1>6. CASE CheckDescendants
  <2>1. place' \in {"first", "done"}
    BY <1>6 DEF CheckDescendants, Ends
  <2> QED BY <1>1, <1>6, <2>1 DEF CheckDescendants, Scanned, callVars, ToolPlaces, CheckPlaces,
       CleanPlaces, Stays, PlaceInv
<1>7. CASE Cleanup
  BY <1>7, CleanupMoves DEF Stays, ToolPlaces
<1> QED BY <1>2, <1>3, <1>4, <1>5, <1>6, <1>7 DEF Tool

LEMMA CodingMoves ==
  ASSUME PlaceInv, Coding
  PROVE  Stays({"run"}, CodingPlaces) /\ caller = "coding" /\ complete' = complete
<1>1. code \in {0, 1}
  BY DEF PlaceInv
<1>2. CASE CodingEnds
  BY <1>1, <1>2 DEF CodingEnds, callVars, scanVars, CodingPlaces, Stays
<1>3. CASE CodingStops
  BY <1>1, <1>3 DEF CodingStops, CallIsKept, callVars, scanVars, CodingPlaces, Stays
<1>4. CASE KillOwned
  <2>1. place' \in {"killowned", "done"}
    <3>1. CASE Refused(Reached({Owner, Child})) # {}
      BY <1>4, <3>1 DEF KillOwned, Ends
    <3>2. CASE ~(Refused(Reached({Owner, Child})) # {})
      BY <1>4, <3>2 DEF KillOwned
    <3> QED BY <3>1, <3>2
  <2> QED BY <1>1, <1>4, <2>1 DEF KillOwned, Scanned, callVars, CodingPlaces, Stays, PlaceInv
<1>5. CASE KillOwnedGroup
  <2>1. place' \in {"adopted", "drain", "done"}
    BY <1>5 DEF KillOwnedGroup, Ends
  <2> QED BY <1>1, <1>5, <2>1 DEF KillOwnedGroup, callVars, scanVars, CodingPlaces, Stays, PlaceInv
<1>6. CASE DrainKilled
  BY <1>1, <1>6 DEF DrainKilled, CallIsKept, callVars, CodingPlaces, Stays, PlaceInv
<1>7. CASE KillCodingAdopted
  <2>1. place' \in {"reapcoding", "done"}
    BY <1>7 DEF KillCodingAdopted, Ends
  <2> QED BY <1>1, <1>7, <2>1 DEF KillCodingAdopted, Scanned, callVars, CodingPlaces, Stays, PlaceInv
<1>8. CASE ReapCoding
  BY <1>1, <1>8 DEF ReapCoding, Ends, callVars, scanVars, CodingPlaces, Stays, PlaceInv
<1> QED BY <1>2, <1>3, <1>4, <1>5, <1>6, <1>7, <1>8 DEF Coding

LEMMA QualifierMoves ==
  ASSUME PlaceInv, Qualifier
  PROVE  Stays({"run"} \cup ScanPoints, QualifierPlaces) /\ caller = "qualifier" /\ complete' = complete
<1>1. code \in {0, 1}
  BY DEF PlaceInv
<1>2. CASE InspectionFails
  BY <1>1, <1>2 DEF InspectionFails, CallIsKept, callVars, QualifierPlaces, Stays, PlaceInv
<1>3. CASE QualifierPolls
  BY <1>1, <1>3 DEF QualifierPolls, callVars, scanVars, QualifierPlaces, Stays
<1>4. CASE CountBefore \/ PollTerm \/ PollKill
  BY <1>1, <1>4 DEF CountBefore, PollTerm, PollKill, Scanned, CallIsKept, callVars, QualifierPlaces,
     Stays, PlaceInv
<1>5. CASE TermGroup \/ KillQualified \/ WaitQualified
  BY <1>1, <1>5 DEF TermGroup, KillQualified, WaitQualified, Passes, CallIsKept, callVars, scanVars,
     QualifierPlaces, Stays, PlaceInv
<1>6. CASE CountAfter
  <2>1. place' = "done"
    BY <1>6 DEF CountAfter, Ends
  <2> QED BY <1>1, <1>6, <2>1 DEF CountAfter, Scanned, callVars, QualifierPlaces, Stays, PlaceInv
<1>7. CASE BreakOff
  <2>1. place' = "done"
    BY <1>7, Zenon DEF BreakOff, Ends
  <2>2. place = "broken" /\ UNCHANGED <<caller, code, complete>>
    BY <1>7 DEF BreakOff, callVars, scanVars
  <2> QED BY <1>1, <2>1, <2>2 DEF QualifierPlaces, Stays, PlaceInv
<1> QED BY <1>2, <1>3, <1>4, <1>5, <1>6, <1>7 DEF Qualifier

LEMMA SummaryMoves ==
  ASSUME PlaceInv, Summary
  PROVE  /\ Stays({"run"}, SummaryPlaces \cup {"run"}) /\ caller = "summary" /\ complete' = complete
         /\ place' = "run" => place = "run"
<1>1. code \in {0, 1}
  BY DEF PlaceInv
<1>2. CASE SignalArrives \/ SignalDeadline
  BY <1>1, <1>2 DEF SignalArrives, SignalDeadline, CallIsKept, callVars, scanVars, Stays
<1>3. CASE SummaryWaits
  BY <1>1, <1>3 DEF SummaryWaits, callVars, scanVars, SummaryPlaces, Stays
<1>4. CASE StopRemaining
  <2>1. place' \in {"stopterm", "done"}
    BY <1>4, Zenon DEF StopRemaining, SummaryEnds, Ends
  <2> QED BY <1>1, <1>4, <2>1 DEF StopRemaining, callVars, scanVars, SummaryPlaces, Stays, PlaceInv
<1>5. CASE StopTerm
  <2>1. place' \in {"stopkill", "done"}
    BY <1>5, Zenon DEF StopTerm, SummaryEnds, Ends
  <2>2. place = "stopterm" /\ UNCHANGED <<caller, code, complete>>
    BY <1>5 DEF StopTerm, callVars, scanVars
  <2> QED BY <1>1, <2>1, <2>2 DEF SummaryPlaces, Stays, PlaceInv
<1>6. CASE StopKill
  <2>1. place' = "done"
    BY <1>6, Zenon DEF StopKill, SummaryEnds, Ends
  <2>2. place = "stopkill" /\ UNCHANGED <<caller, code, complete>>
    BY <1>6 DEF StopKill, callVars, scanVars
  <2> QED BY <1>1, <2>1, <2>2 DEF SummaryPlaces, Stays, PlaceInv
<1> QED BY <1>2, <1>3, <1>4, <1>5, <1>6 DEF Summary

Bools ==
  /\ ended \in BOOLEAN /\ polled \in BOOLEAN /\ active \in BOOLEAN /\ failed \in BOOLEAN
  /\ forced \in BOOLEAN /\ error \in BOOLEAN /\ late \in BOOLEAN

LEMMA PollsBool == ASSUME PlaceInv, Polls PROVE polled' \in BOOLEAN
BY DEF Polls, PlaceInv

LEMMA ControlMoves ==
  ASSUME PlaceInv, Control
  PROVE  Stays({"lease"}, ControlPlaces) /\ caller = "control" /\ UNCHANGED complete /\ Bools'
<1>1. code \in {0, 1} /\ Bools
  BY DEF PlaceInv, Bools
<1>2. CASE LeaseFails
  <2>1. place' = "done"
    BY <1>2, Zenon DEF LeaseFails, Raises, Ends
  <2>2. place = "lease" /\ caller = "control"
        /\ UNCHANGED <<caller, code, complete, ended, polled, active, failed, forced, error, late>>
    BY <1>2 DEF LeaseFails, rest, callVars, scanVars
  <2> QED BY <1>1, <2>1, <2>2 DEF ControlPlaces, Stays, Bools
<1>3. CASE Admits
  <2>1. place = "admit" /\ place' \in {"reading", "terminate"} /\ polled' \in BOOLEAN /\ error' \in BOOLEAN
    <3>1. CASE Living = {Child}
      BY <1>1, <1>3, <3>1 DEF Admits, Bools
    <3>2. CASE Living # {Child}
      <4>1. place = "admit" /\ Polls
        BY <1>3, <3>2 DEF Admits
      <4>2. \/ place' = "reading" /\ UNCHANGED error
            \/ place' = "terminate" /\ error' = TRUE
        BY <1>3, <3>2 DEF Admits
      <4> QED BY <1>1, <4>1, <4>2, PollsBool DEF Bools
    <3> QED BY <3>1, <3>2
  <2>2. UNCHANGED <<caller, code, complete, ended, active, failed, forced, late>>
    BY <1>3 DEF Admits, rest, callVars, scanVars
  <2> QED BY <1>1, <2>1, <2>2 DEF ControlPlaces, Stays, Bools, PlaceInv
<1>4. CASE ControlReads
  <2>1. place = "reading" /\ place' \in {"waiting-child", "terminate"} /\ error' \in BOOLEAN
    BY <1>1, <1>4 DEF ControlReads, Bools
  <2>2. UNCHANGED <<caller, code, complete, ended, polled, active, failed, forced, late>>
    BY <1>4 DEF ControlReads, rest, callVars, scanVars
  <2> QED BY <1>1, <2>1, <2>2 DEF ControlPlaces, Stays, Bools, PlaceInv
<1>5. CASE ControlWaits
  <2>1. place = "waiting-child" /\ place' = "terminate" /\ polled' \in BOOLEAN
    BY <1>1, <1>5, PollsBool DEF ControlWaits, Bools
  <2>2. UNCHANGED <<caller, code, complete, ended, active, failed, forced, error, late>>
    BY <1>5 DEF ControlWaits, rest, callVars, scanVars
  <2> QED BY <1>1, <2>1, <2>2 DEF ControlPlaces, Stays, Bools, PlaceInv
<1>6. CASE Terminates
  <2>1. place = "terminate" /\ place' = "grace" /\ polled' \in BOOLEAN /\ forced' = ~polled'
    BY <1>6, PollsBool DEF Terminates
  <2>2. UNCHANGED <<caller, code, complete, ended, active, failed, error, late>>
    BY <1>6 DEF Terminates, rest, callVars, scanVars
  <2> QED BY <1>1, <2>1, <2>2 DEF ControlPlaces, Stays, Bools, PlaceInv
<1>7. CASE Grace
  <2> DEFINE yes == TRUE
             no == FALSE
  <2>1. place = "grace" /\ place' = "populated" /\ ReapsAll(active' = no, active' = yes)
    BY <1>7, Zenon DEF Grace
  <2>2. yes \in BOOLEAN /\ no \in BOOLEAN
    OBVIOUS
  <2> HIDE DEF yes, no
  <2>3. active' \in BOOLEAN /\ polled' \in BOOLEAN
    BY <1>1, <2>1, <2>2 DEF ReapsAll, Bools
  <2>4. UNCHANGED <<caller, code, complete, ended, failed, forced, error, late>>
    BY <1>7 DEF Grace, rest, callVars, scanVars
  <2> QED BY <1>1, <2>1, <2>3, <2>4 DEF ControlPlaces, Stays, Bools, PlaceInv
<1>8. CASE KillsLeaf
  <2>1. place = "populated" /\ place' = "wait-five"
    BY <1>8 DEF KillsLeaf
  <2>2. forced' \in BOOLEAN
    <3>1. CASE LeftOver
      BY <1>8, <3>1 DEF KillsLeaf
    <3>2. CASE ~LeftOver
      BY <1>1, <1>8, <3>2 DEF KillsLeaf, Bools
    <3> QED BY <3>1, <3>2
  <2>3. UNCHANGED <<caller, code, complete, ended, polled, active, failed, error, late>>
    BY <1>8 DEF KillsLeaf, rest, callVars, scanVars
  <2> QED BY <1>1, <2>1, <2>2, <2>3 DEF ControlPlaces, Stays, Bools, PlaceInv
<1>9. ASSUME TerminationFails PROVE place' \in {"clean-leaf", "terminate"} /\ error' \in BOOLEAN
  BY <1>1, <1>9 DEF TerminationFails, Bools
<1>10. CASE TerminationBreaks
  <2>1. place \in ControlPlaces /\ TerminationFails
    BY <1>10 DEF TerminationBreaks, ControlPlaces
  <2>2. UNCHANGED <<caller, code, complete, ended, polled, active, failed, forced, late>>
    BY <1>10 DEF TerminationBreaks, rest, callVars, scanVars
  <2>3. caller = "control"
    BY <2>1 DEF PlaceInv
  <2> QED BY <1>1, <1>9, <2>1, <2>2, <2>3 DEF ControlPlaces, Stays, Bools
<1>11. CASE WaitsFive
  <2>1. place = "wait-five" /\ place' = "reap-all" /\ polled' \in BOOLEAN
    BY <1>11, PollsBool DEF WaitsFive
  <2>2. UNCHANGED <<caller, code, complete, ended, active, failed, forced, error, late>>
    BY <1>11 DEF WaitsFive, rest, callVars, scanVars
  <2> QED BY <1>1, <2>1, <2>2 DEF ControlPlaces, Stays, Bools, PlaceInv
<1>12. CASE ReapsRest
  <2>1. place = "reap-all" /\ ReapsAll(place' = "empty" /\ UNCHANGED error, TerminationFails)
    BY <1>12 DEF ReapsRest
  <2>2. /\ (place' = "empty" /\ UNCHANGED error) \/ TerminationFails
        /\ polled' \in BOOLEAN
    BY <1>1, <2>1 DEF ReapsAll, Bools
  <2>3. place' \in {"empty", "clean-leaf", "terminate"} /\ error' \in BOOLEAN
    BY <1>1, <1>9, <2>2 DEF Bools
  <2>4. UNCHANGED <<caller, code, complete, ended, active, failed, forced, late>>
    BY <1>12 DEF ReapsRest, rest, callVars, scanVars
  <2> QED BY <1>1, <2>1, <2>2, <2>3, <2>4 DEF ControlPlaces, Stays, Bools, PlaceInv
<1>13. CASE LeafEmpty
  <2>1. place = "empty" /\ (TerminationFails \/ (place' = "clean-leaf" /\ UNCHANGED error))
    BY <1>13 DEF LeafEmpty
  <2>2. place' \in {"clean-leaf", "terminate"} /\ error' \in BOOLEAN
    BY <1>1, <1>9, <2>1 DEF Bools
  <2>3. UNCHANGED <<caller, code, complete, ended, polled, active, failed, forced, late>>
    BY <1>13 DEF LeafEmpty, rest, callVars, scanVars
  <2> QED BY <1>1, <2>1, <2>2, <2>3 DEF ControlPlaces, Stays, Bools, PlaceInv
<1>14. CASE CleansLeaf
  <2>1. place = "clean-leaf" /\ place' = "done"
    BY <1>14 DEF CleansLeaf, Ends
  <2>2. UNCHANGED <<caller, code, complete, ended, polled, active, failed, forced, error, late>>
    BY <1>14 DEF CleansLeaf, rest, callVars, scanVars
  <2> QED BY <1>1, <2>1, <2>2 DEF ControlPlaces, Stays, Bools, PlaceInv
<1> QED BY <1>2, <1>3, <1>4, <1>5, <1>6, <1>7, <1>8, <1>10, <1>11, <1>12, <1>13, <1>14 DEF Control

LEMMA LoopsMove ==
  ASSUME PlaceInv, Loops
  PROVE  Stays({}, LoopPlaces) /\ UNCHANGED complete /\ Bools'
<1>1. code \in {0, 1} /\ Bools
  BY DEF PlaceInv, Bools
<1>2. CASE Condition
  <2>1. place = "loop" /\ place' \in {"exit", "head"}
    BY <1>2 DEF Condition
  <2>2. polled' \in BOOLEAN
    BY <1>1, <1>2, PollsBool DEF Condition, Bools
  <2>3. late' \in BOOLEAN
    BY <1>1, <1>2 DEF Condition, Bools
  <2>4. UNCHANGED <<caller, code, complete, ended, active, failed, forced, error>>
    BY <1>2 DEF Condition, rest, callVars, scanVars
  <2> QED BY <1>1, <2>1, <2>2, <2>3, <2>4 DEF LoopPlaces, Stays, Bools
<1>3. CASE RowHead
  <2>1. place = "head" /\ place' = "select" /\ polled' \in BOOLEAN /\ active' \in BOOLEAN /\ failed' \in BOOLEAN
    BY <1>1, <1>3 DEF RowHead, LooksAtAdopted, Bools
  <2>2. UNCHANGED <<caller, code, complete, ended, forced, error, late>>
    BY <1>3 DEF RowHead, rest, callVars, scanVars
  <2> QED BY <1>1, <2>1, <2>2 DEF LoopPlaces, Stays, Bools
<1>4. CASE OtherHead
  <2>1. place = "head" /\ place' = "select" /\ UNCHANGED <<caller, code, complete>>
    BY <1>4 DEF OtherHead, rest, callVars, scanVars
  <2>2. UNCHANGED freshVars
    BY <1>4 DEF OtherHead
  <2> QED BY <1>1, <2>1, <2>2 DEF LoopPlaces, Stays, Bools, freshVars
<1>5. CASE DispatchHead
  <2>1. place = "loop" /\ place' \in {"exit", "select"} /\ polled' \in BOOLEAN
    BY <1>1, <1>5, PollsBool DEF DispatchHead, Bools
  <2>2. UNCHANGED <<caller, code, complete, ended, active, failed, forced, error, late>>
    BY <1>5 DEF DispatchHead, rest, callVars, scanVars
  <2> QED BY <1>1, <2>1, <2>2 DEF LoopPlaces, Stays, Bools
<1>6. CASE Selects
  <2>1. place = "select" /\ place' = "loop" /\ ended' \in BOOLEAN
    BY <1>1, <1>6 DEF Selects, Bools
  <2>2. UNCHANGED <<caller, code, complete, polled, active, failed, forced, error, late>>
    BY <1>6 DEF Selects, rest, callVars, scanVars
  <2> QED BY <1>1, <2>1, <2>2 DEF LoopPlaces, Stays, Bools
<1>7. CASE Stops
  <2>1. place = "select" /\ place' = "stop" /\ UNCHANGED <<caller, code, complete>>
    BY <1>7 DEF Stops, rest, callVars, scanVars
  <2>2. UNCHANGED freshVars
    BY <1>7 DEF Stops
  <2> QED BY <1>1, <2>1, <2>2 DEF LoopPlaces, Stays, Bools, freshVars
<1>8. CASE Exits0
  <2>1. place' = "done"
    BY <1>8, Zenon DEF Exits0, Raises, Ends
  <2>2. place = "exit" /\ UNCHANGED <<caller, code, complete>> /\ UNCHANGED freshVars
    BY <1>8 DEF Exits0, rest, callVars, scanVars
  <2> QED BY <1>1, <2>1, <2>2 DEF LoopPlaces, Stays, Bools, freshVars
<1>9. CASE KillsChild
  <2>1. place = "stop" /\ place' = "stopped" /\ polled' \in BOOLEAN
    BY <1>9, PollsBool DEF KillsChild
  <2>2. UNCHANGED <<caller, code, complete, ended, active, failed, forced, error, late>>
    BY <1>9 DEF KillsChild, rest, callVars, scanVars
  <2> QED BY <1>1, <2>1, <2>2 DEF LoopPlaces, Stays, Bools
<1>10. CASE SendsKill \/ KillsChildren
  <2>1. place \in LoopPlaces /\ place' \in LoopPlaces /\ UNCHANGED <<caller, code, complete>>
    BY <1>10 DEF SendsKill, KillsChildren, rest, callVars, scanVars, LoopPlaces
  <2>2. UNCHANGED freshVars
    BY <1>10 DEF SendsKill, KillsChildren
  <2> QED BY <1>1, <2>1, <2>2 DEF Stays, Bools, freshVars
<1>11. CASE WaitsKilled
  <2>1. place = "reaped" /\ Raises /\ polled' \in BOOLEAN
    BY <1>1, <1>11, PollsBool DEF WaitsKilled, Bools
  <2>2. place' = "done"
    BY <2>1, Zenon DEF Raises, Ends
  <2>3. UNCHANGED <<caller, code, complete, ended, active, failed, forced, error, late>>
    BY <1>11 DEF WaitsKilled, rest, callVars, scanVars
  <2> QED BY <1>1, <2>1, <2>2, <2>3 DEF LoopPlaces, Stays, Bools
<1>12. CASE RowStops
  <2>1. place = "stop" /\ place' = "kill-owned" /\ polled' \in BOOLEAN
    BY <1>1, <1>12 DEF RowStops, Bools
  <2>2. UNCHANGED <<caller, code, complete, ended, active, failed, forced, error, late>>
    BY <1>12 DEF RowStops, rest, callVars, scanVars
  <2> QED BY <1>1, <2>1, <2>2 DEF LoopPlaces, Stays, Bools
<1>13. CASE ReapsChildren
  <2>1. place = "reap-owned" /\ polled' \in BOOLEAN
    BY <1>1, <1>13 DEF ReapsChildren, Bools
  <2>2. place' \in {"kill-owned", "done"}
    <3>1. \/ place' = "kill-owned" \/ Raises \/ \E a, b, c : Ends(a, b, c)
      BY <1>13, Zenon DEF ReapsChildren
    <3> QED BY <3>1, Zenon DEF Raises, Ends
  <2>3. UNCHANGED <<caller, code, complete, ended, active, failed, forced, error, late>>
    BY <1>13 DEF ReapsChildren, callVars
  <2> QED BY <1>1, <2>1, <2>2, <2>3 DEF LoopPlaces, Stays, Bools
<1> QED BY <1>2, <1>3, <1>4, <1>5, <1>6, <1>7, <1>8, <1>9, <1>10, <1>11, <1>12, <1>13 DEF Loops

\* The places of different callers have nothing in common.
LEMMA PlacesFit ==
  ASSUME caller \in Callers \cup FreshCallers, UNCHANGED caller,
         \/ place' = "done"
         \/ place' = "run" /\ caller \in Callers
         \/ place' \in ToolPlaces /\ caller \in Contained
         \/ place' \in CodingPlaces /\ caller = "coding"
         \/ place' \in QualifierPlaces /\ caller = "qualifier"
         \/ place' \in SummaryPlaces /\ caller = "summary"
         \/ place' \in ControlPlaces /\ caller = "control"
         \/ place' \in LoopPlaces /\ caller \in {"dispatch", "git", "worker", "row"},
         scan'.on => place' \in ScanPoints, code' \in {0, 1}, complete' \in BOOLEAN, Bools'
  PROVE  PlaceInv'
<1> USE DEF PlaceInv, Bools
<1>1. CASE place' = "done"
  BY <1>1 DEF ToolPlaces, CheckPlaces, CleanPlaces, CodingPlaces, QualifierPlaces, SummaryPlaces,
       ControlPlaces, LoopPlaces
<1>2. CASE place' = "run" /\ caller \in Callers
  BY <1>2 DEF ToolPlaces, CheckPlaces, CleanPlaces, CodingPlaces, QualifierPlaces, SummaryPlaces,
       ControlPlaces, LoopPlaces
<1>3. CASE place' \in ToolPlaces /\ caller \in Contained
  BY <1>3 DEF ToolPlaces, CheckPlaces, CleanPlaces, CodingPlaces, QualifierPlaces, SummaryPlaces,
       ControlPlaces, LoopPlaces
<1>4. CASE place' \in CodingPlaces /\ caller = "coding"
  BY <1>4 DEF ToolPlaces, CheckPlaces, CleanPlaces, CodingPlaces, QualifierPlaces, SummaryPlaces,
       ControlPlaces, LoopPlaces
<1>5. CASE place' \in QualifierPlaces /\ caller = "qualifier"
  BY <1>5 DEF ToolPlaces, CheckPlaces, CleanPlaces, CodingPlaces, QualifierPlaces, SummaryPlaces,
       ControlPlaces, LoopPlaces
<1>6. CASE place' \in SummaryPlaces /\ caller = "summary"
  BY <1>6 DEF ToolPlaces, CheckPlaces, CleanPlaces, CodingPlaces, QualifierPlaces, SummaryPlaces,
       ControlPlaces, LoopPlaces
<1>7. CASE place' \in ControlPlaces /\ caller = "control"
  BY <1>7 DEF ToolPlaces, CheckPlaces, CleanPlaces, CodingPlaces, QualifierPlaces, SummaryPlaces,
       ControlPlaces, LoopPlaces
<1>8. CASE place' \in LoopPlaces /\ caller \in {"dispatch", "git", "worker", "row"}
  BY <1>8 DEF ToolPlaces, CheckPlaces, CleanPlaces, CodingPlaces, QualifierPlaces, SummaryPlaces,
       ControlPlaces, LoopPlaces
<1> QED BY <1>1, <1>2, <1>3, <1>4, <1>5, <1>6, <1>7, <1>8

LEMMA PlaceKept ==
  ASSUME TableInv, ControlInv, ScanInv, PlaceInv, ChildNext
  PROVE  PlaceInv'
<1>1. /\ caller \in Callers \cup FreshCallers /\ (scan.on => place \in ScanPoints)
      /\ code \in {0, 1} /\ complete \in BOOLEAN /\ Bools
  BY DEF PlaceInv, Bools
<1>2. CASE LeavesScan /\ Owners
  <2>1. scan'.on => place' \in ScanPoints
    <3>1. EndsScan => ~scan'.on
      BY EndIs DEF ScanInv
    <3> QED BY <1>1, <1>2, <3>1 DEF LeavesScan
  <2>2. UNCHANGED freshVars => Bools'
    BY <1>1 DEF freshVars, Bools
  <2>3. CASE Tool /\ UNCHANGED freshVars
    <3>1. Stays({"run"}, ToolPlaces) /\ caller \in Contained /\ complete' \in BOOLEAN
      BY <2>3, ToolMoves
    <3> QED BY <1>1, <2>1, <2>2, <2>3, <3>1, PlacesFit DEF Stays
  <2>4. CASE Coding /\ UNCHANGED freshVars
    <3>1. Stays({"run"}, CodingPlaces) /\ caller = "coding" /\ complete' \in BOOLEAN
      BY <1>1, <2>4, CodingMoves
    <3> QED BY <1>1, <2>1, <2>2, <2>4, <3>1, PlacesFit DEF Stays
  <2>5. CASE Qualifier /\ UNCHANGED freshVars
    <3>1. Stays({"run"} \cup ScanPoints, QualifierPlaces) /\ caller = "qualifier" /\ complete' \in BOOLEAN
      BY <1>1, <2>5, QualifierMoves
    <3> QED BY <1>1, <2>1, <2>2, <2>5, <3>1, PlacesFit DEF Stays
  <2>6. CASE Summary /\ UNCHANGED freshVars
    <3>1. Stays({"run"}, SummaryPlaces \cup {"run"}) /\ caller = "summary" /\ complete' \in BOOLEAN
      BY <1>1, <2>6, SummaryMoves
    <3>2. place' = "run" => caller \in Callers
      BY <2>6, SummaryMoves DEF PlaceInv
    <3> QED BY <1>1, <2>1, <2>2, <2>6, <3>1, <3>2, PlacesFit DEF Stays
  <2>7. CASE Control
    <3>1. Stays({"lease"}, ControlPlaces) /\ caller = "control" /\ UNCHANGED complete /\ Bools'
      BY <2>7, ControlMoves
    <3> QED BY <1>1, <2>1, <3>1, PlacesFit DEF Stays
  <2>8. CASE Loops
    <3>1. Stays({}, LoopPlaces) /\ UNCHANGED complete /\ Bools'
      BY <2>8, LoopsMove
    <3>2. caller \in {"dispatch", "git", "worker", "row"}
      BY <3>1 DEF Stays, PlaceInv
    <3> QED BY <1>1, <2>1, <3>1, <3>2, PlacesFit DEF Stays
  <2> QED BY <1>2, <2>3, <2>4, <2>5, <2>6, <2>7, <2>8 DEF Owners
<1>3. CASE BeginScan /\ UNCHANGED freshVars
  <2>1. /\ UNCHANGED <<place, caller, code, complete>> /\ place \in ScanPoints
    BY <1>3 DEF BeginScan, CallIsKept, callVars
  <2> QED BY <1>3, <2>1 DEF PlaceInv, freshVars
<1>4. CASE ReadEntry /\ UNCHANGED freshVars
  <2>1. UNCHANGED <<place, caller, code, complete>> /\ scan.on
    BY <1>4 DEF ReadEntry, CallIsKept, callVars
  <2> QED BY <1>1, <1>4, <2>1 DEF PlaceInv, freshVars
<1>5. CASE Processing /\ UNCHANGED freshVars
  <2>1. UNCHANGED <<place, caller, code, scan, complete>>
    BY <1>5 DEF Processing, callVars, scanVars
  <2> QED BY <1>5, <2>1 DEF PlaceInv, freshVars
<1>6. CASE StartsChild
  <2>1. /\ place = "lease" /\ UNCHANGED <<caller, scan, complete>> /\ code' \in {0, 1}
        /\ UNCHANGED <<ended, polled, active, failed, forced, error, late>>
        /\ (caller = "control" /\ place' = "admit") \/ (caller # "control" /\ place' = "loop")
    BY <1>6 DEF StartsChild, rest, callVars, scanVars
  <2>2. caller \in FreshCallers /\ FreshCallers \subseteq {"control", "dispatch", "git", "worker", "row"}
    BY <2>1, FreshAssumption DEF PlaceInv
  <2>3. ~scan'.on
    BY <1>1, <2>1 DEF ScanPoints
  <2>4. (caller = "control" /\ place' \in ControlPlaces) \/
        (caller \in {"dispatch", "git", "worker", "row"} /\ place' \in LoopPlaces)
    BY <2>1, <2>2 DEF ControlPlaces, LoopPlaces
  <2> QED BY <1>1, <2>1, <2>3, <2>4, PlacesFit DEF Bools
<1> QED BY <1>2, <1>3, <1>4, <1>5, <1>6, StepIs
-----------------------------------------------------------------------------
(* What each caller knows.                                                 *)

\* Nobody who is gone comes back, and whoever is dying goes on dying.
LEMMA GoneStays ==
  ASSUME TableInv, OwnerActs \/ TreeNext
  PROVE  /\ \A p \in Processes : life[p] = "gone" => life'[p] = "gone"
         /\ killed \subseteq killed' /\ \A p \in Processes : ~Born(p) /\ Born(p)' => TreeNext
         /\ Table = {} => Table' = {} /\ Living' = {}
<1>1. CASE OwnerActs
  BY <1>1 DEF OwnerActs, Born, Table, InTable, Living
<1>2. CASE TreeNext
  <2> SUFFICES ASSUME NEW p \in Processes, Forks(p) \/ Exits(p) \/ ReapedByParent(p)
               PROVE  /\ \A q \in Processes : life[q] = "gone" => life'[q] = "gone"
                      /\ killed \subseteq killed' /\ Table # {}
    BY <1>2 DEF TreeNext
  <2>1. p \in Table
    BY DEF Forks, Exits, ReapedByParent, Table, InTable
  <2>2. CASE Forks(p)
    <3>1. PICK q \in Processes : ForkOf(p, q)
      BY <2>2, ForkIs
    <3> QED BY <2>1, <3>1 DEF ForkOf, Born
  <2>3. CASE Exits(p)
    BY <2>1, <2>3, ExitKeepsTree DEF Exits
  <2>4. CASE ReapedByParent(p)
    BY <2>1, <2>4, ParentReaps DEF OwnerActs
  <2> QED BY <2>2, <2>3, <2>4
<1> QED BY <1>1, <1>2

LEMMA ToolKept ==
  ASSUME ChildInv, ChildNext
  PROVE  ToolInv'
<1> USE DEF ChildInv
<1>0. TableInv /\ PlaceInv /\ ToolInv /\ Child \in Processes
  BY ProcessIds
<1>1. CASE ReadToEnd
  <2>1. life'[Child] = "gone"
    BY <1>0, <1>1 DEF ReadToEnd, Reaps
  <2>2. place' \in {"sealed", "check"}
    BY <1>1 DEF ReadToEnd
  <2> QED BY <2>1, <2>2 DEF ToolInv, CheckPlaces, CleanPlaces
<1>2. CASE ReadFails
  <2>1. place' = "first" /\ UNCHANGED caller /\ (caller \in Adapters => cause' \in {"timeout", "oserror"})
    BY <1>2 DEF ReadFails, CallIsKept, callVars
  <2> QED BY <2>1 DEF ToolInv, CheckPlaces, CleanPlaces
<1>3. CASE Sealed
  <2>1. life'[Child] = "gone" /\ UNCHANGED caller
    BY <1>0, <1>3 DEF Sealed, ToolInv, CheckPlaces, treeVars, callVars
  <2>2. place' = "check" \/ (place' \in {"first", "done"} /\ cause' = "unsealed")
    BY <1>3, Zenon DEF Sealed, Ends
  <2> QED BY <2>1, <2>2 DEF ToolInv, ToolPlaces, CheckPlaces, CleanPlaces
<1>4. CASE CheckGroup
  <2>1. life'[Child] = "gone" /\ UNCHANGED caller
    BY <1>0, <1>4 DEF CheckGroup, ToolInv, CheckPlaces, treeVars, callVars, CallIsKept
  <2>2. place' = "checking" \/ (place' = "first" /\ cause' = "leftover")
    BY <1>4 DEF CheckGroup
  <2> QED BY <2>1, <2>2 DEF ToolInv, CheckPlaces, CleanPlaces
<1>5. CASE CheckDescendants
  <2>1. UNCHANGED caller
    BY <1>5 DEF CheckDescendants, callVars
  <2>2. place' = "done" \/ (place' = "first" /\ cause' = "leftover")
    BY <1>5, Zenon DEF CheckDescendants, Ends
  <2> QED BY <2>1, <2>2 DEF ToolInv, ToolPlaces, CheckPlaces, CleanPlaces
<1>6. CASE Cleanup
  <2>1. UNCHANGED <<caller, cause>>
    BY <1>6 DEF Cleanup, KillFirst, KillGroup, WaitChild, KillAdopted, ReapOwned, LookAgain, ReapAgain,
       LookLast, LookFinal, CallIsKept, callVars
  <2>2. place \in CleanPlaces /\ place' \in CleanPlaces \cup {"done"}
    BY <1>6, CleanupMoves DEF Stays
  <2> QED BY <1>0, <2>1, <2>2 DEF ToolInv, CheckPlaces, CleanPlaces
<1>7. CASE UNCHANGED <<place, caller, cause>> /\ (OwnerActs \/ TreeNext)
  BY <1>0, <1>7, GoneStays DEF ToolInv
<1>8. CASE place' \notin ToolPlaces
  BY <1>8 DEF ToolInv, ToolPlaces
<1>9. CASE Coding \/ Qualifier \/ Summary \/ Control \/ Loops \/ StartsChild
  <2>1. Coding => place' \notin ToolPlaces
    BY CodingMoves DEF Stays, CodingPlaces, ToolPlaces, CheckPlaces, CleanPlaces
  <2>2. Qualifier => place' \notin ToolPlaces
    BY QualifierMoves DEF Stays, QualifierPlaces, ToolPlaces, CheckPlaces, CleanPlaces
  <2>3. Summary => place' \notin ToolPlaces
    BY SummaryMoves DEF Stays, SummaryPlaces, ToolPlaces, CheckPlaces, CleanPlaces
  <2>4. Control => place' \notin ToolPlaces
    BY ControlMoves DEF Stays, ControlPlaces, ToolPlaces, CheckPlaces, CleanPlaces
  <2>5. Loops => place' \notin ToolPlaces
    BY LoopsMove DEF Stays, LoopPlaces, ToolPlaces, CheckPlaces, CleanPlaces
  <2>6. StartsChild => place' \notin ToolPlaces
    BY DEF StartsChild, ToolPlaces, CheckPlaces, CleanPlaces
  <2> QED BY <1>8, <1>9, <2>1, <2>2, <2>3, <2>4, <2>5, <2>6
<1>10. CASE BeginScan \/ ReadEntry
  BY <1>0, <1>7, <1>10, StillActs DEF BeginScan, ReadEntry, CallIsKept, callVars
<1>11. CASE Processing
  BY <1>7, <1>11 DEF Processing, callVars
<1> QED BY <1>1, <1>2, <1>3, <1>4, <1>5, <1>6, <1>9, <1>10, <1>11, StepIs DEF Owners, Tool

LEMMA CodingKept ==
  ASSUME ChildInv, ChildNext
  PROVE  CodingInv'
<1>0. /\ TableInv /\ ScanTyped /\ PlaceInv /\ CodingInv /\ (scan.on => Listing)
  BY DEF ChildInv, ScanInv
<1>1. CASE KillCodingAdopted
  <2>1. /\ Scanned("adopted") /\ EndsScan
        /\ Kills(Reached({Owner}))
        /\ Refused(Reached({Owner})) # {} => place' = "done"
    <3>1. CASE Refused(Reached({Owner})) # {}
      BY <1>1, <3>1, Zenon DEF KillCodingAdopted, KillsAdopted, Ends
    <3>2. CASE ~(Refused(Reached({Owner})) # {})
      BY <1>1, <3>2 DEF KillCodingAdopted, KillsAdopted
    <3> QED BY <3>1, <3>2
  <2>2. scan.on /\ scan.todo = {} /\ scan'.listed = scan.listed
    BY <1>0, <2>1, EndIs DEF Scanned
  <2>3. Reached({Owner}) = DOMAIN scan.read
    <3>1. Reached({Owner}) = DOMAIN scan.read \ {Owner}
      BY <1>0, <2>2, ReachedIs
    <3>2. Owner \notin DOMAIN scan.read
      BY <1>0, ProcessIds DEF ScanTyped
    <3> QED BY <3>1, <3>2
  <2>4. ASSUME place' = "reapcoding", NEW p \in Living', p \in scan.listed PROVE p \in killed'
    <3>1. p \in Table /\ life' = life
      BY <2>1, <2>4 DEF Kills, Living, Table, InTable
    <3>2. p \in DOMAIN scan.read
      BY <1>0, <2>2, <2>4, <3>1 DEF Listing
    <3>3. p \notin stubborn
      BY <2>1, <2>3, <2>4, <3>1, <3>2 DEF Refused
    <3> QED BY <2>1, <2>3, <3>1, <3>2, <3>3 DEF Kills
  <2> QED BY <2>2, <2>4 DEF CodingInv
<1>2. CASE place' # "reapcoding"
  BY <1>2 DEF CodingInv
<1>3. CASE place' = place /\ UNCHANGED scan /\ (OwnerActs \/ TreeNext)
  <2>1. killed \subseteq killed' /\ \A p \in Living' : p \in Living \/ ~Born(p)
    <3>1. CASE OwnerActs
      BY <1>3, <3>1 DEF OwnerActs, Living
    <3>2. CASE TreeNext
      <4>1. killed \subseteq killed'
        BY <1>0, <3>2, GoneStays
      <4>2. ASSUME NEW p \in Processes, Forks(p) \/ Exits(p) \/ ReapedByParent(p), NEW r \in Living'
            PROVE  r \in Living \/ ~Born(r)
        <5>1. CASE Forks(p)
          <6>1. PICK q \in Processes : ForkOf(p, q)
            BY <1>0, <5>1, ForkIs
          <6> QED BY <4>2, <6>1 DEF ForkOf, Living
        <5>2. CASE Exits(p)
          BY <1>0, <4>2, <5>2, ExitKeepsTree DEF Living
        <5>3. CASE ReapedByParent(p)
          BY <1>0, <4>2, <5>3, ParentReaps DEF OwnerActs, Living
        <5> QED BY <4>2, <5>1, <5>2, <5>3
      <4> QED BY <3>2, <4>1, <4>2 DEF TreeNext
    <3> QED BY <1>3, <3>1, <3>2
  <2>2. \A p \in scan.listed : Born(p)
    BY <1>0 DEF ScanTyped
  <2> QED BY <1>0, <1>3, <2>1, <2>2 DEF CodingInv
<1>4. CASE BeginScan
  <2>1. place' # "reapcoding"
    BY <1>4 DEF BeginScan, ScanPoints
  <2> QED BY <1>2, <2>1
<1>5. CASE ReadEntry
  <2>1. place' # "reapcoding"
    BY <1>0, <1>5 DEF ReadEntry, PlaceInv, ScanPoints
  <2> QED BY <1>2, <2>1
<1>6. CASE Processing
  BY <1>3, <1>6 DEF Processing, scanVars
<1>7. CASE Coding /\ ~KillCodingAdopted
  <2>1. place' # "reapcoding"
    BY <1>7 DEF Coding, CodingEnds, CodingStops, KillOwned, KillOwnedGroup, DrainKilled,
         ReapCoding, Ends
  <2> QED BY <1>2, <2>1
<1>8. CASE Tool \/ Qualifier \/ Summary \/ Control \/ Loops \/ StartsChild
  <2>1. Tool => place' # "reapcoding"
    BY <1>0, ToolMoves DEF Stays, ToolPlaces, CheckPlaces, CleanPlaces
  <2>2. Qualifier => place' # "reapcoding"
    BY <1>0, QualifierMoves DEF Stays, QualifierPlaces
  <2>3. Summary => place' # "reapcoding"
    BY <1>0, SummaryMoves DEF Stays, SummaryPlaces
  <2>4. Control => place' # "reapcoding"
    BY <1>0, ControlMoves DEF Stays, ControlPlaces
  <2>5. Loops => place' # "reapcoding"
    BY <1>0, LoopsMove DEF Stays, LoopPlaces
  <2>6. StartsChild => place' # "reapcoding"
    BY DEF StartsChild
  <2> QED BY <1>2, <1>8, <2>1, <2>2, <2>3, <2>4, <2>5, <2>6
<1>9. ControlInv
  BY DEF ChildInv
<1> QED BY <1>0, <1>1, <1>4, <1>5, <1>6, <1>7, <1>8, <1>9, StepIs DEF Owners

\* Of the steps of the control child, one at a time.
Watching == {"admit", "reading", "waiting-child", "terminate", "grace", "populated"}

LEMMA ControlPart ==
  ASSUME ChildInv, Control
  PROVE  ControlInv'
<1>0. /\ TableInv /\ ScanTyped /\ PlaceInv /\ ControlInv /\ Bools /\ TableInv'
  BY OwnerKeepsTree, ControlActs DEF ChildInv, ScanInv, PlaceInv, Bools
<1>1. /\ place \in {"admit", "reading", "waiting-child", "terminate", "grace", "populated"} /\ ~error =>
           killed = {}
      /\ place \in {"wait-five", "reap-all"} /\ ~error /\ ~forced => killed = {} /\ Living = {}
      /\ place \in {"empty", "clean-leaf"} /\ ~error /\ ~forced => killed = {} /\ Table = {}
  BY <1>0 DEF ControlInv, ControlPlaces
<1>2. ASSUME place' # "lease",
             place' \in Watching /\ ~error' => killed' = {},
             place' \in {"wait-five", "reap-all"} /\ ~error' /\ ~forced' => killed' = {} /\ Living' = {},
             place' \in {"empty", "clean-leaf"} /\ ~error' /\ ~forced' => killed' = {} /\ Table' = {}
      PROVE  ControlInv'
  BY <1>2 DEF ControlInv, ControlPlaces, Watching
<1>3. CASE LeaseFails
  <2>1. place' = "done"
    BY <1>3, Zenon DEF LeaseFails, Raises, Ends
  <2> QED BY <1>2, <2>1 DEF Watching
<1>4. CASE Admits \/ ControlReads \/ ControlWaits \/ Terminates \/ Grace
  <2>1. place \in Watching \ {"populated"} /\ place' \in Watching
    BY <1>4 DEF Admits, ControlReads, ControlWaits, Terminates, Grace, Watching
  <2>2. killed' = killed
    BY <1>4 DEF Admits, ControlReads, ControlWaits, Terminates, Grace, ReapsAll, Polls, Reaps, treeVars
  <2>3. ~error' => ~error
    BY <1>4 DEF Admits, ControlReads, ControlWaits, Terminates, Grace
  <2> QED BY <1>1, <1>2, <2>1, <2>2, <2>3 DEF Watching
<1>5. CASE KillsLeaf
  <2>1. place = "populated" /\ place' = "wait-five" /\ UNCHANGED <<error, life>>
    BY <1>5 DEF KillsLeaf
  <2>2. ~forced' => ~LeftOver /\ killed' = killed
    <3>1. CASE LeftOver
      BY <1>5, <3>1 DEF KillsLeaf
    <3>2. CASE ~LeftOver
      BY <1>5, <3>2 DEF KillsLeaf
    <3> QED BY <3>1, <3>2
  <2>3. ~LeftOver => Living = {}
    BY DEF LeftOver, Populated
  <2>4. Living' = Living
    BY <2>1 DEF Living
  <2> QED BY <1>1, <1>2, <2>1, <2>2, <2>3, <2>4 DEF Watching
<1>6. ASSUME TerminationFails PROVE error' /\ place' \in {"clean-leaf", "terminate"}
  BY <1>0, <1>6 DEF TerminationFails, Bools
<1>7. CASE TerminationBreaks
  <2>1. TerminationFails
    BY <1>7 DEF TerminationBreaks
  <2> QED BY <1>2, <1>6, <2>1 DEF Watching
<1>8. CASE WaitsFive
  <2>1. place = "wait-five" /\ place' = "reap-all" /\ UNCHANGED <<error, forced, killed>>
    BY <1>8 DEF WaitsFive, Polls, Reaps
  <2>2. OwnerActs
    BY <1>0, <1>8, PollsActs DEF WaitsFive
  <2>3. Living' \subseteq Living
    BY <2>2 DEF OwnerActs, Living
  <2> QED BY <1>1, <1>2, <2>1, <2>3 DEF Watching
<1>9. CASE ReapsRest
  <2>1. /\ place = "reap-all" /\ UNCHANGED forced
        /\ ReapsAll(place' = "empty" /\ UNCHANGED error, TerminationFails)
    BY <1>9 DEF ReapsRest
  <2>2. CASE TerminationFails
    BY <1>2, <1>6, <2>2 DEF Watching
  <2>3. CASE Children(Owner) \subseteq Zombies(Table) /\ Reaps(Children(Owner))
             /\ place' = "empty" /\ UNCHANGED error
    <3>1. Table = Children(Owner)
      BY <1>0, <2>3, NobodyLeft
    <3>2. Table' = {}
      BY <2>3, <3>1 DEF Reaps, Table, InTable
    <3>3. killed' = killed
      BY <2>3 DEF Reaps
    <3> QED BY <1>1, <1>2, <2>1, <2>3, <3>2, <3>3 DEF Watching
  <2> QED BY <2>1, <2>2, <2>3 DEF ReapsAll
<1>10. CASE LeafEmpty
  <2>1. CASE TerminationFails
    BY <1>2, <1>6, <2>1 DEF Watching
  <2>2. CASE place' = "clean-leaf" /\ UNCHANGED error
    <3>1. place = "empty" /\ UNCHANGED <<forced, killed, life>>
      BY <1>10 DEF LeafEmpty, treeVars
    <3>2. Table' = Table
      BY <3>1 DEF Table, InTable
    <3> QED BY <1>1, <1>2, <2>2, <3>1, <3>2 DEF Watching
  <2> QED BY <1>10, <2>1, <2>2 DEF LeafEmpty
<1>11. CASE CleansLeaf
  <2>1. place' = "done"
    BY <1>11, Zenon DEF CleansLeaf, Ends
  <2> QED BY <1>2, <2>1 DEF Watching
<1> QED BY <1>3, <1>4, <1>5, <1>7, <1>8, <1>9, <1>10, <1>11 DEF Control

LEMMA ControlKept ==
  ASSUME ChildInv, ChildNext
  PROVE  ControlInv'
<1>0. /\ TableInv /\ ScanTyped /\ PlaceInv /\ ControlInv
  BY DEF ChildInv, ScanInv
<1>1. CASE place' \notin ControlPlaces \cup {"lease"}
  BY <1>1 DEF ControlInv
<1>2. CASE Tool \/ Coding \/ Qualifier \/ Summary \/ Loops
  <2>1. Tool => place' \notin ControlPlaces \cup {"lease"}
    BY <1>0, ToolMoves DEF Stays, ToolPlaces, CheckPlaces, CleanPlaces, ControlPlaces
  <2>2. Qualifier => place' \notin ControlPlaces \cup {"lease"}
    BY <1>0, QualifierMoves DEF Stays, QualifierPlaces, ControlPlaces
  <2>3. Summary => place' \notin ControlPlaces \cup {"lease"}
    BY <1>0, SummaryMoves DEF Stays, SummaryPlaces, ControlPlaces
  <2>4. Coding => place' \notin ControlPlaces \cup {"lease"}
    BY <1>0, CodingMoves DEF Stays, CodingPlaces, ControlPlaces
  <2>5. Loops => place' \notin ControlPlaces \cup {"lease"}
    BY <1>0, LoopsMove DEF Stays, LoopPlaces, ControlPlaces
  <2> QED BY <1>1, <1>2, <2>1, <2>2, <2>3, <2>4, <2>5
<1>3. CASE Control
  BY <1>3, ControlPart
<1>4. CASE StartsChild
  <2>1. place = "lease" /\ place' \in {"admit", "loop"} /\ killed' = killed
    BY <1>4 DEF StartsChild
  <2> QED BY <1>0, <2>1 DEF ControlInv, ControlPlaces
<1>5. CASE BeginScan \/ ReadEntry
  <2>1. place' \in ScanPoints
    BY <1>0, <1>5 DEF BeginScan, ReadEntry, PlaceInv
  <2> QED BY <1>1, <2>1 DEF ScanPoints, ControlPlaces
<1>6. CASE Processing /\ UNCHANGED freshVars
  <2>1. TreeNext /\ place' = place /\ UNCHANGED <<error, forced>>
    BY <1>6 DEF Processing, freshVars
  <2>2. Table # {}
    BY <2>1 DEF TreeNext, Forks, Exits, ReapedByParent, Table, InTable
  <2>3. killed' = killed
    BY <2>1 DEF TreeNext, Forks, Exits, ReapedByParent
  <2>4. place # "lease"
    BY <1>0, <2>2 DEF ControlInv, Table, InTable, Born
  <2>5. Living = {} => Living' = {}
    <3> SUFFICES ASSUME Living = {} PROVE Living' = {}
      OBVIOUS
    <3>1. \A p \in Processes : ~Forks(p) /\ ~Exits(p)
      BY DEF Forks, Exits, Living
    <3>2. OwnerActs
      BY <1>0, <2>1, <3>1, ParentReaps DEF TreeNext
    <3> QED BY <3>2 DEF OwnerActs, Living
  <2> QED BY <1>0, <2>1, <2>2, <2>3, <2>4, <2>5 DEF ControlInv
<1> QED BY <1>0, <1>2, <1>3, <1>4, <1>5, <1>6, StepIs DEF Owners

LEMMA RowKept ==
  ASSUME ChildInv, ChildNext
  PROVE  RowInv'
<1>0. /\ TableInv /\ ScanTyped /\ PlaceInv /\ ControlInv /\ RowInv /\ Bools
  BY DEF ChildInv, ScanInv, PlaceInv, Bools
<1>1. CASE caller' # "row" \/ place' \notin {"loop", "head", "select", "exit"}
  BY <1>1 DEF RowInv
<1>2. CASE Tool \/ Coding \/ Qualifier \/ Summary \/ Control
  <2>1. Tool => caller' # "row"
    BY <1>0, ToolMoves DEF Stays, Contained
  <2>2. Qualifier => caller' # "row"
    BY <1>0, QualifierMoves DEF Stays
  <2>3. Summary => caller' # "row"
    BY <1>0, SummaryMoves DEF Stays
  <2>4. Coding => caller' # "row"
    BY <1>0, CodingMoves DEF Stays
  <2>5. Control => caller' # "row"
    BY <1>0, ControlMoves DEF Stays
  <2> QED BY <1>1, <1>2, <2>1, <2>2, <2>3, <2>4, <2>5
<1>3. CASE BeginScan \/ ReadEntry
  <2>1. place' \in ScanPoints
    BY <1>0, <1>3 DEF BeginScan, ReadEntry, PlaceInv
  <2> QED BY <1>1, <2>1 DEF ScanPoints
<1>4. CASE Processing /\ UNCHANGED freshVars
  <2>1. TreeNext /\ UNCHANGED <<place, caller, polled, active, late>>
    BY <1>4 DEF Processing, freshVars, callVars
  <2>2. Table = {} => Table' = {}
    BY <1>0, <2>1, GoneStays
  <2> QED BY <1>0, <2>1, <2>2 DEF RowInv
<1>5. CASE StartsChild
  <2>1. place = "lease" /\ place' \in {"admit", "loop"} /\ UNCHANGED polled
    BY <1>5 DEF StartsChild
  <2> QED BY <1>0, <2>1 DEF ControlInv, RowInv
<1>6. CASE Loops /\ caller = "row"
  <2>1. CASE Condition
    <3>1. /\ place = "loop" /\ UNCHANGED <<active, caller>>
          /\ late' = (late \/ (ended /\ polled' /\ ~polled))
          /\ place' = IF ended /\ polled' /\ ~active THEN "exit" ELSE "head"
          /\ IF ended THEN Polls ELSE UNCHANGED <<treeVars, polled>>
      BY <2>1 DEF Condition, rest, callVars
    <3>2. OwnerActs
      BY <1>0, <3>1, PollsActs, StillActs
    <3>3. Table = {} => Table' = {}
      BY <1>0, <3>2, GoneStays
    <3>4. polled' /\ ~late' => polled /\ ~late
      BY <1>0, <3>1 DEF Bools, Polls
    <3>5. place' = "exit" => polled' /\ ~active'
      BY <3>1
    <3> QED BY <1>0, <1>6, <3>1, <3>3, <3>4, <3>5 DEF RowInv
  <2>2. CASE RowHead
    <3>1. place = "head" /\ place' = "select" /\ UNCHANGED <<caller, late>>
      BY <2>2 DEF RowHead, rest, callVars
    <3>2. CASE LooksAtAdopted
      <4>1. Reaps(Zombies(Table)) /\ (~active' => Children(Owner) = Zombies(Table))
        BY <3>2 DEF LooksAtAdopted
      <4>2. ~active' => Table' = {}
        <5> SUFFICES ASSUME ~active' PROVE Table' = {}
          OBVIOUS
        <5>1. Table = Zombies(Table)
          BY <1>0, <4>1, NobodyLeft
        <5> QED BY <4>1, <5>1 DEF Reaps, Table, InTable
      <4> QED BY <3>1, <4>2 DEF RowInv
    <3>3. CASE UNCHANGED <<treeVars, polled, active, failed>>
      <4>1. Table' = Table
        BY <3>3 DEF treeVars, Table, InTable
      <4> QED BY <1>0, <1>6, <3>1, <3>3, <4>1 DEF RowInv
    <3> QED BY <2>2, <3>2, <3>3 DEF RowHead
  <2>3. CASE Selects
    <3>1. place = "select" /\ place' = "loop" /\ UNCHANGED <<caller, polled, active, late, life>>
      BY <2>3 DEF Selects, rest, callVars, treeVars
    <3>2. Table' = Table
      BY <3>1 DEF Table, InTable
    <3> QED BY <1>0, <1>6, <3>1, <3>2 DEF RowInv
  <2>4. CASE OtherHead \/ DispatchHead
    BY <1>6, <2>4 DEF OtherHead, DispatchHead
  <2>5. CASE Stops \/ Exits0 \/ KillsChild \/ SendsKill \/ WaitsKilled \/ RowStops \/ KillsChildren
             \/ ReapsChildren
    <3>1. place' \notin {"loop", "head", "select", "exit"}
      <4>1. CASE Stops \/ KillsChild \/ SendsKill \/ RowStops \/ KillsChildren
        BY <4>1 DEF Stops, KillsChild, SendsKill, RowStops, KillsChildren
      <4>2. CASE Exits0 \/ WaitsKilled
        <5>1. place' = "done"
          BY <4>2, Zenon DEF Exits0, WaitsKilled, Raises, Ends
        <5> QED BY <5>1
      <4>3. CASE ReapsChildren
        <5>1. place' = "kill-owned" \/ place' = "done"
          BY <4>3, Zenon DEF ReapsChildren, Raises, Ends
        <5> QED BY <5>1
      <4> QED BY <2>5, <4>1, <4>2, <4>3
    <3> QED BY <1>1, <3>1
  <2> QED BY <1>6, <2>1, <2>2, <2>3, <2>4, <2>5 DEF Loops
<1>7. CASE Loops /\ caller # "row"
  BY <1>0, <1>1, <1>7, LoopsMove DEF Stays
<1> QED BY <1>0, <1>2, <1>3, <1>4, <1>5, <1>6, <1>7, StepIs DEF Owners
-----------------------------------------------------------------------------
(* What is said at the end.                                                *)

LEMMA NotYetDone == ASSUME ChildInv, ChildNext PROVE place # "done"
<1>0. TableInv /\ PlaceInv /\ ControlInv
  BY DEF ChildInv
<1>1. Tool => place # "done"
  BY <1>0, ToolMoves DEF Stays, ToolPlaces, CheckPlaces, CleanPlaces
<1>2. Qualifier => place # "done"
  BY <1>0, QualifierMoves DEF Stays, QualifierPlaces, ScanPoints
<1>3. Summary => place # "done"
  BY <1>0, SummaryMoves DEF Stays, SummaryPlaces
<1>4. Coding => place # "done"
  BY <1>0, CodingMoves DEF Stays, CodingPlaces
<1>5. Loops => place # "done"
  BY <1>0, LoopsMove DEF Stays, LoopPlaces
<1>6. Control => place # "done"
  BY <1>0, ControlMoves DEF Stays, ControlPlaces
<1>7. StartsChild \/ BeginScan \/ ReadEntry \/ Processing => place # "done"
  BY <1>0 DEF StartsChild, BeginScan, ReadEntry, Processing, PlaceInv, ScanPoints
<1> QED BY <1>0, <1>1, <1>2, <1>3, <1>4, <1>5, <1>6, <1>7, StepIs DEF Owners

\* A scan in which nobody lives: who lives was forked behind its back.
LEMMA EmptyScan ==
  ASSUME TableInv, ScanTyped, Listing, Strays, scan.todo = {},
         \A x \in DOMAIN scan.read \ scan.dead : life[x] # "live"
  PROVE  \A p \in Living : Unseen(p)
<1>1. \A p \in Living : p \notin scan.listed
  BY DEF Listing, Living, Table, InTable
<1>2. \A p \in Living : p \in Table \ scan.listed
  BY <1>1 DEF Living, Table, InTable
<1>3. ASSUME NEW p \in Living PROVE \E q \in Forebears(p) \cap scan.listed : life[q] # "live"
  <2>1. PICK q \in Forebears(p) \cap scan.listed : TRUE
    BY <1>2, <1>3 DEF Strays
  <2>2. q \notin Living /\ q \in Processes
    BY <1>1, <2>1 DEF ScanTyped
  <2> QED BY <2>1, <2>2 DEF Living
<1> QED BY <1>1, <1>3 DEF Unseen

\* The same of a group.
LEMMA EmptyGroup ==
  ASSUME TableInv, ScanTyped, Listing, Strays, scan.todo = {}, Members = {}
  PROVE  \A p \in Living \cap Group : Unseen(p)
<1>1. \A p \in Living : inGroup[p] => p \notin scan.listed
  BY DEF Listing, Living, Table, InTable, Members
<1>2. ASSUME NEW p \in Living \cap Group
      PROVE  p \notin scan.listed /\ \E q \in Forebears(p) \cap scan.listed : life[q] # "live"
  <2>1. p \in Table \ scan.listed /\ inGroup[p]
    BY <1>1, <1>2 DEF Group
  <2>2. PICK q \in Forebears(p) \cap scan.listed : inGroup[p] => inGroup[q]
    BY <2>1 DEF Strays
  <2>3. q \notin Living /\ q \in Processes
    BY <1>1, <2>1, <2>2 DEF ScanTyped
  <2> QED BY <2>1, <2>2, <2>3 DEF Living
<1> QED BY <1>2 DEF Unseen

LEMMA UnseenStays ==
  ASSUME UNCHANGED treeVars, scan'.listed = scan.listed
  PROVE  Living' = Living /\ Group' = Group /\ \A p : Unseen(p)' <=> Unseen(p)
<1>1. \A p : Forebears(p)' = Forebears(p)
  BY DEF Forebears, treeVars
<1> QED BY <1>1 DEF Unseen, Living, Group, Table, InTable, treeVars

LEMMA FoundIs ==
  ASSUME ScanTyped, Listing, NEW roots, Owner \in roots
  PROVE  Found(roots) = (DOMAIN scan.read \ roots) \ scan.dead
BY ReachedIs DEF Found

\* A clean end of a tool.
LEMMA ToolEnds ==
  ASSUME ChildInv, Tool, place' = "done", outcome'.clean,
         ~(caller = "generation" /\ cause' \in {"oserror", "unsealed"})
  PROVE  \A p \in Living' : Unseen(p)'
<1>0. /\ TableInv /\ ScanTyped /\ PlaceInv /\ ToolInv /\ caller \in Contained
      /\ scan.on => Listing /\ Strays
  BY ToolMoves DEF ChildInv, ScanInv
<1>1. CASE ReadToEnd \/ ReadFails \/ CheckGroup
  BY <1>1 DEF ReadToEnd, ReadFails, CheckGroup
<1>2. CASE Sealed
  <2>1. caller = "generation" /\ cause' = "unsealed"
    <3>1. place' = "check" \/ (cause' = "unsealed" /\ (caller = "generation" \/ place' = "first"))
      BY <1>2 DEF Sealed
    <3> QED BY <3>1
  <2> QED BY <2>1
<1>3. CASE CheckDescendants
  <2>1. /\ place = "checking" /\ scan.on /\ scan.todo = {} /\ EndsScan /\ UNCHANGED treeVars
        /\ Found({Owner, Child}) = {}
    BY <1>3 DEF CheckDescendants, Scanned
  <2>2. (DOMAIN scan.read \ {Owner, Child}) \ scan.dead = {}
    BY <1>0, <2>1, FoundIs
  <2>3. life[Child] = "gone"
    BY <1>0, <2>1 DEF ToolInv, CheckPlaces
  <2>4. \A x \in DOMAIN scan.read \ scan.dead : life[x] # "live"
    <3>1. Owner \notin DOMAIN scan.read
      BY <1>0, ProcessIds DEF ScanTyped
    <3> QED BY <2>2, <2>3, <3>1
  <2> QED BY <1>0, <2>1, <2>4, EmptyScan, UnseenStays, EndIs
<1>4. ASSUME scan.on, scan.todo = {}, EndsScan, UNCHANGED treeVars, Found({Owner}) = {}
      PROVE  \A p \in Living' : Unseen(p)'
  <2>1. (DOMAIN scan.read \ {Owner}) \ scan.dead = {}
    BY <1>0, <1>4, FoundIs
  <2>2. \A x \in DOMAIN scan.read \ scan.dead : life[x] # "live"
    <3>1. Owner \notin DOMAIN scan.read
      BY <1>0, ProcessIds DEF ScanTyped
    <3> QED BY <2>1, <3>1
  <2> QED BY <1>0, <1>4, <2>2, EmptyScan, UnseenStays, EndIs
<1>5. CASE Cleanup
  <2>0. place \in CleanPlaces
    BY <1>0, <1>5, CleanupMoves DEF Stays, CleanPlaces
  <2>1. UNCHANGED cause
    BY <1>5 DEF Cleanup, KillFirst, KillGroup, WaitChild, KillAdopted, ReapOwned, LookAgain, ReapAgain,
       LookLast, LookFinal
  <2>2. ~(caller = "generation" /\ cause \notin {"leftover", "timeout"})
    BY <1>0, <2>0, <2>1 DEF ToolInv, Adapters
  <2>3. CASE KillFirst \/ KillGroup \/ WaitChild \/ KillAdopted \/ ReapOwned \/ ReapAgain
    BY <2>3 DEF KillFirst, KillGroup, WaitChild, KillAdopted, ReapOwned, ReapAgain, Passes
  <2>4. CASE LookAgain
    <3>1. CASE ProvedAbsent
      <4>1. scan.on /\ scan.todo = {} /\ EndsScan /\ UNCHANGED treeVars
        BY <2>4, <3>1 DEF LookAgain, Scanned
      <4> QED BY <1>4, <3>1, <4>1 DEF ProvedAbsent
    <3>2. CASE ~ProvedAbsent
      BY <2>4, <3>2 DEF LookAgain
    <3> QED BY <3>1, <3>2
  <2>5. CASE LookLast
    <3> DEFINE no == FALSE
    <3>1. place' = "final" \/ Cleaned(no)
      BY <2>5, Zenon DEF LookLast
    <3>2. no \in BOOLEAN /\ ~no
      OBVIOUS
    <3> HIDE DEF no
    <3> QED BY <1>0, <2>2, <3>1, <3>2, CleanedIs
  <2>6. CASE LookFinal
    <3> DEFINE none == Found({Owner}) = {}
    <3>1. none \in BOOLEAN /\ Cleaned(none)
      BY <2>6 DEF LookFinal
    <3> HIDE DEF none
    <3>2. none
      BY <1>0, <2>2, <3>1, CleanedIs
    <3>3. scan.on /\ scan.todo = {} /\ EndsScan /\ UNCHANGED treeVars
      BY <2>6 DEF LookFinal, Scanned
    <3> QED BY <1>4, <3>2, <3>3 DEF none
  <2> QED BY <1>5, <2>3, <2>4, <2>5, <2>6 DEF Cleanup
<1> QED BY <1>1, <1>2, <1>3, <1>5 DEF Tool

LEMMA CodingEndsDying ==
  ASSUME ChildInv, Coding, place' = "done", outcome'.status # "ESCAPED"
  PROVE  \A p \in Living' : p \in killed' \/ p \notin scan'.listed
<1>0. TableInv /\ CodingInv
  BY DEF ChildInv
<1>1. CASE CodingEnds \/ CodingStops \/ DrainKilled
  BY <1>1 DEF CodingEnds, CodingStops, DrainKilled
<1>2. CASE KillOwned
  <2> DEFINE no == FALSE
  <2>1. place' = "killowned" \/ Ends("ESCAPED", no, no)
    BY <1>2, Zenon DEF KillOwned
  <2> HIDE DEF no
  <2>2. ~Ends("ESCAPED", no, no)
    BY DEF Ends
  <2> QED BY <2>1, <2>2
<1>3. CASE KillOwnedGroup
  <2>1. place' \in {"adopted", "drain"} \/ \E a, b : Ends("ESCAPED", a, b)
    BY <1>3 DEF KillOwnedGroup
  <2> QED BY <2>1 DEF Ends
<1>4. CASE KillCodingAdopted
  <2>1. place' = "reapcoding" \/ \E a, b : Ends("ESCAPED", a, b)
    BY <1>4, Zenon DEF KillCodingAdopted
  <2> QED BY <2>1 DEF Ends
<1>5. CASE ReapCoding
  <2>1. place = "reapcoding" /\ UNCHANGED scan /\ \E set \in SUBSET Zombies(owned) : Reaps(set)
    BY <1>5 DEF ReapCoding, scanVars
  <2>2. Living' \subseteq Living /\ killed' = killed
    BY <2>1 DEF Reaps, Living
  <2> QED BY <1>0, <2>1, <2>2 DEF CodingInv
<1> QED BY <1>1, <1>2, <1>3, <1>4, <1>5 DEF Coding

LEMMA QualifierEnds ==
  ASSUME ChildInv, Qualifier, place' = "done"
  PROVE  /\ outcome'.clean => \A p \in Living' \cap Group' : Unseen(p)'
         /\ outcome'.status # "EXIT_0"
<1>0. TableInv /\ ScanTyped /\ (scan.on => Listing /\ Strays)
  BY DEF ChildInv, ScanInv
<1>1. CASE InspectionFails \/ QualifierPolls \/ CountBefore \/ TermGroup \/ PollTerm \/ KillQualified
           \/ PollKill \/ WaitQualified
  <2>1. InspectionFails => place' # "done"
    BY DEF InspectionFails
  <2>2. QualifierPolls \/ CountBefore \/ TermGroup \/ KillQualified => place' # "done"
    BY DEF QualifierPolls, CountBefore, TermGroup, KillQualified, Passes
  <2>3. PollTerm \/ PollKill \/ WaitQualified => place' # "done"
    BY DEF PollTerm, PollKill, WaitQualified, Scanned
  <2> QED BY <1>1, <2>1, <2>2, <2>3
<1>2. CASE CountAfter
  <2>1. scan.on /\ scan.todo = {} /\ EndsScan /\ UNCHANGED treeVars
    BY <1>2 DEF CountAfter, Scanned
  <2> DEFINE none == Members = {}
  <2>2. outcome'.clean = none /\ outcome'.status \in {"TIMEOUT", "PASS", "FAIL"}
    BY <1>2 DEF CountAfter, Ends
  <2>3. Members = {} => \A p \in Living' \cap Group' : Unseen(p)'
    BY <1>0, <2>1, EmptyGroup, UnseenStays, EndIs
  <2> QED BY <2>2, <2>3
<1>3. CASE BreakOff
  <2> DEFINE no == FALSE
  <2>1. Ends("RAISED", no, no)
    BY <1>3, Zenon DEF BreakOff
  <2>2. ~no
    OBVIOUS
  <2> HIDE DEF no
  <2>3. outcome'.clean = no /\ outcome'.status = "RAISED"
    BY <2>1 DEF Ends
  <2> QED BY <2>2, <2>3
<1> QED BY <1>1, <1>2, <1>3 DEF Qualifier

LEMMA SummaryEndsWhole ==
  ASSUME ChildInv, Summary, place' = "done", outcome'.status = "EXIT_0", cause' = "none"
  PROVE  Group' = {} /\ outcome'.contained
<1>0. code \in {0, 1}
  BY DEF ChildInv, PlaceInv
<1>1. CASE SignalArrives \/ SignalDeadline \/ SummaryWaits
  <2>1. SignalArrives \/ SignalDeadline => place' = "run"
    BY DEF SignalArrives, SignalDeadline
  <2> QED BY <1>1, <2>1 DEF SummaryWaits
<1>2. StopRemaining \/ StopTerm \/ StopKill => UNCHANGED cause
  BY DEF StopRemaining, StopTerm, StopKill
<1> DEFINE yes == TRUE
           no == FALSE
<1>3. yes /\ ~no
  OBVIOUS
<1>4. (StopRemaining => \/ Group = {} /\ SummaryEnds(no, yes) /\ UNCHANGED treeVars
                        \/ Ends("ESCAPED", no, no)
                        \/ place' = "stopterm")
      /\ (StopTerm => SummaryEnds(yes, yes) \/ Ends("ESCAPED", no, no) \/ place' = "stopkill")
      /\ (StopKill => \E cleaned : SummaryEnds(yes, cleaned))
  BY Zenon DEF StopRemaining, StopTerm, StopKill
<1> HIDE DEF yes, no
<1>5. ~Ends("ESCAPED", no, no)
  BY DEF Ends
<1>6. ASSUME NEW cleaned, UNCHANGED cause PROVE ~SummaryEnds(yes, cleaned)
  <2>1. SummaryCode(yes) # 0
    BY <1>0, <1>3, <1>6 DEF SummaryCode
  <2> QED BY <2>1 DEF SummaryEnds, Ends
<1>7. CASE Group = {} /\ SummaryEnds(no, yes) /\ UNCHANGED treeVars
  <2>1. Group' = {}
    BY <1>7 DEF Group, Table, InTable, treeVars
  <2>2. outcome'.contained = ~no
    BY <1>7 DEF SummaryEnds, Ends
  <2> QED BY <1>3, <2>1, <2>2
<1>8. CASE StopRemaining \/ StopTerm \/ StopKill
  BY <1>2, <1>4, <1>5, <1>6, <1>7, <1>8
<1> QED BY <1>1, <1>8 DEF Summary

LEMMA CleanupKept ==
  ASSUME ChildInv, ChildNext
  PROVE  CleanupIsProved'
<1>0. TableInv /\ PlaceInv /\ ControlInv
  BY DEF ChildInv
<1> SUFFICES ASSUME place' = "done" PROVE CleanupIsProved'
  BY DEF CleanupIsProved, CleanMeansGone, CodingLeavesOnlyDying, ReportedGroupIsEmpty, Done
<1>1. CASE Tool
  <2>1. UNCHANGED caller /\ caller \in Contained /\ caller \notin {"coding", "qualifier", "summary"}
    BY <1>0, <1>1, ToolMoves DEF Stays, Contained
  <2>2. CleanMeansGone'
    BY <1>1, <2>1, ToolEnds DEF CleanMeansGone
  <2> QED BY <2>1, <2>2 DEF CleanupIsProved, CodingLeavesOnlyDying, ReportedGroupIsEmpty
<1>2. CASE Coding
  <2>1. caller' = "coding" /\ caller' \notin Contained \cup {"qualifier", "summary"}
    BY <1>0, <1>2, CodingMoves DEF Stays, Contained
  <2>2. CodingLeavesOnlyDying'
    BY <1>2, CodingEndsDying DEF CodingLeavesOnlyDying
  <2> QED BY <2>1, <2>2 DEF CleanupIsProved, CleanMeansGone, ReportedGroupIsEmpty
<1>3. CASE Qualifier
  <2>1. caller' = "qualifier" /\ caller' \notin Contained \cup {"coding", "summary"}
    BY <1>0, <1>3, QualifierMoves DEF Stays, Contained
  <2>2. ReportedGroupIsEmpty'
    BY <1>3, QualifierEnds DEF ReportedGroupIsEmpty
  <2> QED BY <2>1, <2>2 DEF CleanupIsProved, CleanMeansGone, CodingLeavesOnlyDying
<1>4. CASE Summary
  <2>1. caller' = "summary" /\ caller' \notin Contained \cup {"coding", "qualifier"}
    BY <1>0, <1>4, SummaryMoves DEF Stays, Contained
  <2>2. ReportedGroupIsEmpty'
    BY <1>4, <2>1, SummaryEndsWhole DEF ReportedGroupIsEmpty
  <2> QED BY <2>1, <2>2 DEF CleanupIsProved, CleanMeansGone, CodingLeavesOnlyDying
<1>5. CASE Control \/ Loops
  <2>1. caller' \notin Contained \cup {"coding", "qualifier", "summary"}
    <3>1. Control => caller' = "control"
      BY <1>0, ControlMoves DEF Stays
    <3>2. Loops => caller' \in {"dispatch", "git", "worker", "row"}
      BY <1>0, LoopsMove DEF Stays, PlaceInv
    <3> QED BY <1>5, <3>1, <3>2 DEF Contained
  <2> QED BY <2>1 DEF CleanupIsProved, CleanMeansGone, CodingLeavesOnlyDying, ReportedGroupIsEmpty
<1>6. CASE StartsChild \/ BeginScan \/ ReadEntry \/ Processing
  <2>1. StartsChild => place' # "done"
    BY DEF StartsChild
  <2>2. BeginScan \/ ReadEntry \/ Processing => place' = place
    BY DEF BeginScan, ReadEntry, Processing
  <2> QED BY <1>6, <2>1, <2>2, NotYetDone
<1> QED BY <1>0, <1>1, <1>2, <1>3, <1>4, <1>5, <1>6, StepIs DEF Owners

\* The end of a control child, and of a row.
LEMMA ControlEnds ==
  ASSUME ChildInv, Control, place' = "done", outcome'.clean
  PROVE  Table' = {} /\ killed' = {} /\ leaf' = "removed"
<1>0. ControlInv
  BY DEF ChildInv
<1>1. CASE LeaseFails
  <2> DEFINE no == FALSE
  <2>1. Ends("RAISED", no, no)
    BY <1>1, Zenon DEF LeaseFails, Raises
  <2>2. ~no
    OBVIOUS
  <2> HIDE DEF no
  <2>3. outcome'.clean = no
    BY <2>1 DEF Ends
  <2> QED BY <2>2, <2>3
<1>2. CASE Admits \/ ControlReads \/ ControlWaits \/ Terminates \/ Grace \/ KillsLeaf \/ WaitsFive
  BY <1>2 DEF Admits, ControlReads, ControlWaits, Terminates, Grace, KillsLeaf, WaitsFive
<1>3. CASE TerminationBreaks \/ LeafEmpty \/ ReapsRest
  <2>1. TerminationFails => place' # "done"
    BY DEF TerminationFails
  <2>2. ReapsRest => TerminationFails \/ place' = "empty"
    BY DEF ReapsRest, ReapsAll
  <2> QED BY <1>3, <2>1, <2>2 DEF TerminationBreaks, LeafEmpty
<1>4. CASE CleansLeaf
  <2> DEFINE remains == leaf' = "kept"
             status == ControlStatus(remains)
             clean == status = "RETURNED"
             alone == ~forced
  <2>1. /\ place = "clean-leaf" /\ leaf' \in {"removed", "kept"} /\ UNCHANGED treeVars
        /\ Ends(status, clean, alone)
    BY <1>4, Zenon DEF CleansLeaf
  <2> HIDE DEF clean, alone
  <2>2. outcome'.clean = clean
    BY <2>1 DEF Ends
  <2>3. status = "RETURNED"
    BY <2>2 DEF clean
  <2>4. ~remains /\ ~error /\ ~forced
    BY <2>3 DEF ControlStatus
  <2>5. Table = {} /\ killed = {}
    BY <1>0, <2>1, <2>4 DEF ControlInv, ControlPlaces
  <2> QED BY <2>1, <2>4, <2>5 DEF Table, InTable, treeVars
<1> QED BY <1>1, <1>2, <1>3, <1>4 DEF Control

LEMMA RowEnds ==
  ASSUME ChildInv, Loops, caller = "row", place' = "done", outcome'.clean, ~late'
  PROVE  Table' = {}
<1>0. TableInv /\ PlaceInv /\ RowInv
  BY DEF ChildInv
<1> DEFINE no == FALSE
<1>1. ASSUME Ends("RAISED", no, no) PROVE FALSE
  <2>1. ~no
    OBVIOUS
  <2> HIDE DEF no
  <2> QED BY <1>1, <2>1 DEF Ends
<1>2. CASE Condition \/ RowHead \/ OtherHead \/ DispatchHead \/ Selects \/ Stops \/ KillsChild
           \/ SendsKill \/ RowStops \/ KillsChildren
  BY <1>2 DEF Condition, RowHead, OtherHead, DispatchHead, Selects, Stops, KillsChild, SendsKill,
     RowStops, KillsChildren
<1>3. CASE Exits0
  <2>1. place = "exit" /\ UNCHANGED <<life, late>>
    BY <1>3, Zenon DEF Exits0, treeVars, freshVars
  <2>2. Table = {}
    BY <1>0, <2>1 DEF RowInv
  <2> QED BY <2>1, <2>2 DEF Table, InTable
<1>4. CASE WaitsKilled
  <2>1. Ends("RAISED", no, no)
    BY <1>4, Zenon DEF WaitsKilled, Raises
  <2> QED BY <1>1, <2>1
<1>5. CASE ReapsChildren
  <2>1. /\ Reaps(Zombies(Table))
        /\ Children(Owner) = Zombies(Table) \/ place' = "kill-owned" \/ Ends("RAISED", no, no)
    BY <1>5, Zenon DEF ReapsChildren, Raises
  <2>2. Children(Owner) = Zombies(Table)
    BY <1>1, <2>1
  <2>3. Table = Zombies(Table)
    BY <1>0, <2>2, NobodyLeft
  <2> QED BY <2>1, <2>3 DEF Reaps, Table, InTable
<1> QED BY <1>2, <1>3, <1>4, <1>5 DEF Loops

LEMMA FreshKept ==
  ASSUME ChildInv, ChildNext
  PROVE  FreshReturnsAlone'
<1>0. TableInv /\ PlaceInv /\ ControlInv
  BY DEF ChildInv
<1> SUFFICES ASSUME place' = "done" PROVE FreshReturnsAlone'
  BY DEF FreshReturnsAlone, ControlReturnsAlone, AcceptedRowIsAlone, Done
<1>1. CASE caller' \notin {"control", "row"}
  BY <1>1 DEF FreshReturnsAlone, ControlReturnsAlone, AcceptedRowIsAlone
<1>2. CASE Tool \/ Coding \/ Qualifier \/ Summary
  <2>1. Tool => caller' \notin {"control", "row"}
    BY <1>0, ToolMoves DEF Stays, Contained
  <2>2. Qualifier => caller' \notin {"control", "row"}
    BY <1>0, QualifierMoves DEF Stays
  <2>3. Summary => caller' \notin {"control", "row"}
    BY <1>0, SummaryMoves DEF Stays
  <2>4. Coding => caller' \notin {"control", "row"}
    BY <1>0, CodingMoves DEF Stays
  <2> QED BY <1>1, <1>2, <2>1, <2>2, <2>3, <2>4
<1>3. CASE Control
  <2>1. caller' = "control"
    BY <1>0, <1>3, ControlMoves DEF Stays
  <2>2. ControlReturnsAlone'
    BY <1>3, ControlEnds DEF ControlReturnsAlone
  <2> QED BY <2>1, <2>2 DEF FreshReturnsAlone, AcceptedRowIsAlone
<1>4. CASE Loops
  <2>1. caller' = caller /\ caller \in {"dispatch", "git", "worker", "row"}
    BY <1>0, <1>4, LoopsMove DEF Stays, PlaceInv
  <2>2. AcceptedRowIsAlone'
    BY <1>4, <2>1, RowEnds DEF AcceptedRowIsAlone
  <2> QED BY <2>1, <2>2 DEF FreshReturnsAlone, ControlReturnsAlone
<1>5. CASE StartsChild \/ BeginScan \/ ReadEntry \/ Processing
  <2>1. StartsChild => place' # "done"
    BY DEF StartsChild
  <2>2. BeginScan \/ ReadEntry \/ Processing => place' = place
    BY DEF BeginScan, ReadEntry, Processing
  <2> QED BY <1>5, <2>1, <2>2, NotYetDone
<1> QED BY <1>0, <1>2, <1>3, <1>4, <1>5, StepIs DEF Owners
-----------------------------------------------------------------------------
(* The invariant, and what it says.                                        *)

LEMMA NothingRead == DOMAIN <<>> = {}
OBVIOUS

LEMMA FirstScan == ASSUME scan = NoScan PROVE ScanInv
<1> DEFINE no == FALSE
           nothing == <<>>
<1>1. scan = [on |-> no, listed |-> {}, todo |-> {}, read |-> nothing, dead |-> {}]
  BY Zenon DEF NoScan
<1>2. no \in BOOLEAN /\ ~no
  OBVIOUS
<1>3. DOMAIN nothing = {}
  BY NothingRead
<1> HIDE DEF no, nothing
<1>4. /\ scan.on = no /\ scan.listed = {} /\ scan.todo = {} /\ scan.read = nothing /\ scan.dead = {}
      /\ scan = [on |-> scan.on, listed |-> scan.listed, todo |-> scan.todo,
                 read |-> scan.read, dead |-> scan.dead]
  BY <1>1
<1> QED BY <1>2, <1>3, <1>4 DEF ScanInv, ScanTyped

LEMMA ChildStartsSound == ChildInit => ChildInv
<1> SUFFICES ASSUME ChildInit PROVE ChildInv
  OBVIOUS
<1>1. /\ leaf = "none" /\ ~error /\ ~forced /\ ~late /\ ~ended /\ ~polled /\ ~active /\ ~failed
      /\ ended \in BOOLEAN /\ polled \in BOOLEAN /\ active \in BOOLEAN /\ failed \in BOOLEAN
      /\ forced \in BOOLEAN /\ error \in BOOLEAN /\ late \in BOOLEAN
  BY DEF ChildInit, NoFresh
<1>2. scan = NoScan /\ code \in {0, 1} /\ complete \in BOOLEAN
  BY Zenon DEF ChildInit, ToolInit, FreshInit
<1>3. ScanInv /\ ~scan.on
  BY <1>2, FirstScan, Zenon DEF NoScan
<1>4. /\ place \in {"run", "lease"}
      /\ place = "run" => caller \in Callers
      /\ place = "lease" => caller \in FreshCallers
      /\ parent = [p \in Processes |-> Owner] /\ forker = [p \in Processes |-> Owner]
      /\ inGroup = [p \in Processes |-> p = Child] /\ killed = {}
      /\ life = [p \in Processes |-> IF place = "run" /\ p = Child THEN "live" ELSE "unborn"]
  <2>1. CASE ToolInit
    BY <2>1 DEF ToolInit, TreeInit
  <2>2. CASE FreshInit
    BY <2>2 DEF FreshInit
  <2> QED BY <2>1, <2>2 DEF ChildInit
<1>5. TableInv
  <2>1. /\ life \in [Processes -> {"unborn", "live", "zombie", "gone"}]
        /\ parent \in [Processes -> {Owner} \cup Processes]
        /\ forker \in [Processes -> {Owner} \cup Processes]
        /\ inGroup \in [Processes -> BOOLEAN] /\ killed \subseteq Processes
    BY <1>4
  <2>2. \A p, q \in Processes : p < q /\ Born(q) => Born(p)
    <3>1. \A p \in Processes : p \in Nat /\ 1 <= p
      BY ProcessIds DEF Owner
    <3> QED BY <1>4, <3>1 DEF Born, Child
  <2> QED BY <1>4, <2>1, <2>2 DEF TableInv, Table
<1>6. PlaceInv
  BY <1>1, <1>2, <1>3, <1>4 DEF PlaceInv, ToolPlaces, CheckPlaces, CleanPlaces, CodingPlaces,
       QualifierPlaces,
     SummaryPlaces, ControlPlaces, LoopPlaces
<1>7. ToolInv /\ CodingInv /\ ControlInv
  BY <1>1, <1>4 DEF ToolInv, CodingInv, ControlInv, CheckPlaces, CleanPlaces, ControlPlaces, Born
<1>8. RowInv /\ ~Done
  BY <1>4 DEF RowInv, Done
<1>9. CleanupIsProved /\ FreshReturnsAlone
  BY <1>8 DEF CleanupIsProved, CleanMeansGone, CodingLeavesOnlyDying, ReportedGroupIsEmpty,
     FreshReturnsAlone, ControlReturnsAlone, AcceptedRowIsAlone
<1> QED BY <1>3, <1>5, <1>6, <1>7, <1>8, <1>9 DEF ChildInv

LEMMA ChildStutters ==
  ASSUME ChildInv, UNCHANGED allVars
  PROVE  ChildInv'
<1>1. /\ UNCHANGED <<life, parent, forker, inGroup, killed, caller, stubborn, place, cause, code>>
      /\ UNCHANGED <<scan, owned, complete, rounds, outcome>>
      /\ UNCHANGED <<leaf, ended, polled, active, failed, forced, error, late>>
  BY DEF allVars, toolVars, treeVars, callVars, scanVars, freshVars
<1>2. Table' = Table /\ Living' = Living /\ Group' = Group /\ (\A p : Born(p)' <=> Born(p))
      /\ (\A p : Forebears(p)' = Forebears(p))
  BY <1>1 DEF Table, Living, Group, InTable, Born, Forebears
<1>3. TableInv'
  BY <1>1, <1>2 DEF ChildInv, TableInv
<1>4. ScanInv'
  BY <1>1, <1>2 DEF ChildInv, ScanInv, ScanTyped, Listing, Strays
<1>5. PlaceInv'
  BY <1>1 DEF ChildInv, PlaceInv
<1>6. ToolInv' /\ CodingInv' /\ ControlInv' /\ RowInv'
  BY <1>1, <1>2 DEF ChildInv, ToolInv, CodingInv, ControlInv, RowInv
<1>7. CleanupIsProved'
  <2>1. \A p : Unseen(p)' <=> Unseen(p)
    BY <1>1, <1>2 DEF Unseen
  <2> QED BY <1>1, <1>2, <2>1 DEF ChildInv, CleanupIsProved, CleanMeansGone, CodingLeavesOnlyDying,
             ReportedGroupIsEmpty, Done
<1>8. FreshReturnsAlone'
  BY <1>1, <1>2 DEF ChildInv, FreshReturnsAlone, ControlReturnsAlone, AcceptedRowIsAlone, Done
<1> QED BY <1>3, <1>4, <1>5, <1>6, <1>7, <1>8 DEF ChildInv

LEMMA ChildStepsSound == ChildInv /\ [ChildNext]_allVars => ChildInv'
<1>1. ASSUME ChildInv, ChildNext PROVE ChildInv'
  <2>1. TableInv' /\ ScanInv'
    BY <1>1, TreeAndScan DEF ChildInv
  <2>2. PlaceInv'
    BY <1>1, PlaceKept DEF ChildInv
  <2> QED BY <1>1, <2>1, <2>2, ToolKept, CodingKept, ControlKept, RowKept, CleanupKept, FreshKept
          DEF ChildInv
<1> QED BY <1>1, ChildStutters

LEMMA ChildInvHolds == ChildSpec => []ChildInv
BY ChildStartsSound, ChildStepsSound, PTL DEF ChildSpec

\* No caller reports a clean end of its child that its cleanup did not establish,
\* for any number of processes, whatever they fork and wherever they hide.
THEOREM CleanupIsAlwaysProved == ChildSpec => []CleanupIsProved
<1>1. ChildInv => CleanupIsProved
  BY DEF ChildInv
<1> QED BY <1>1, ChildInvHolds, PTL

\* Neither owner inside the image hands on a result with a process of its child
\* behind it.
THEOREM FreshAlwaysReturnsAlone == ChildSpec => []FreshReturnsAlone
<1>1. ChildInv => FreshReturnsAlone
  BY DEF ChildInv
<1> QED BY <1>1, ChildInvHolds, PTL
-----------------------------------------------------------------------------
(* The launch of the image.  Which step a chain is at.                     *)

LEMMA ProgramLengths ==
    /\ Len(Program["launch"]) = 32 /\ DOMAIN LaunchProgram = 1..32
    /\ Len(Program["boundary"]) = 15 /\ DOMAIN BoundaryProgram = 1..15
    /\ Len(Program["adoption"]) = 33 /\ DOMAIN AdoptionProgram = 1..33
<1>1. /\ Program["launch"] = LaunchProgram
      /\ Program["boundary"] = BoundaryProgram
      /\ Program["adoption"] = AdoptionProgram
  BY DEF Program
<1>2. Len(LaunchProgram) = 32 /\ DOMAIN LaunchProgram = 1..32
  BY DEF LaunchProgram
<1>3. Len(BoundaryProgram) = 15 /\ DOMAIN BoundaryProgram = 1..15
  BY DEF BoundaryProgram
<1>4. Len(AdoptionProgram) = 33 /\ DOMAIN AdoptionProgram = 1..33
  BY DEF AdoptionProgram
<1> QED BY <1>1, <1>2, <1>3, <1>4

LEMMA LaunchOrder ==
    /\ Program["launch"][1] = "supervisor" /\ Program["launch"][2] = "python"
    /\ Program["launch"][3] = "attestation" /\ Program["launch"][4] = "key"
    /\ Program["launch"][5] = "bootstrap" /\ Program["launch"][6] = "manifest"
    /\ Program["launch"][7] = "digests" /\ Program["launch"][8] = "verify"
    /\ Program["launch"][9] = "runtime" /\ Program["launch"][10] = "tools"
    /\ Program["launch"][11] = "targets" /\ Program["launch"][12] = "namespace"
    /\ Program["launch"][13] = "guard" /\ Program["launch"][14] = "program"
    /\ Program["launch"][15] = "leaf" /\ Program["launch"][16] = "group"
    /\ Program["launch"][17] = "git" /\ Program["launch"][18] = "head"
    /\ Program["launch"][19] = "worker" /\ Program["launch"][20] = "sign"
    /\ Program["launch"][21] = "exec" /\ Program["launch"][22] = "python-again"
    /\ Program["launch"][23] = "key-again" /\ Program["launch"][24] = "own"
    /\ Program["launch"][25] = "manifest-again" /\ Program["launch"][26] = "worker-again"
    /\ Program["launch"][27] = "python-worker" /\ Program["launch"][28] = "runtime-again"
    /\ Program["launch"][29] = "tools-again" /\ Program["launch"][30] = "targets-again"
    /\ Program["launch"][31] = "inputs" /\ Program["launch"][32] = "sandbox"
BY DEF Program, LaunchProgram

LEMMA BoundaryOrder ==
    /\ Program["boundary"][1] = "supervisor" /\ Program["boundary"][2] = "python"
    /\ Program["boundary"][3] = "attestation" /\ Program["boundary"][4] = "manifest"
    /\ Program["boundary"][5] = "key" /\ Program["boundary"][6] = "bootstrap"
    /\ Program["boundary"][7] = "manifest-again" /\ Program["boundary"][8] = "digests"
    /\ Program["boundary"][9] = "verify" /\ Program["boundary"][10] = "dispatcher"
    /\ Program["boundary"][11] = "roots" /\ Program["boundary"][12] = "python-again"
    /\ Program["boundary"][13] = "key-again" /\ Program["boundary"][14] = "bind"
    /\ Program["boundary"][15] = "presence"
BY DEF Program, BoundaryProgram

LEMMA AdoptionOrder ==
    /\ Program["adoption"][1] = "supervisor" /\ Program["adoption"][2] = "attestation"
    /\ Program["adoption"][3] = "manifest" /\ Program["adoption"][4] = "dispatcher"
    /\ Program["adoption"][5] = "preflight" /\ Program["adoption"][6] = "python"
    /\ Program["adoption"][7] = "key-again" /\ Program["adoption"][8] = "authenticate"
    /\ Program["adoption"][9] = "roots" /\ Program["adoption"][10] = "dispatcher-git"
    /\ Program["adoption"][11] = "head" /\ Program["adoption"][12] = "worker"
    /\ Program["adoption"][13] = "entrypoint" /\ Program["adoption"][14] = "sign"
    /\ Program["adoption"][15] = "proof" /\ Program["adoption"][16] = "python-worker"
    /\ Program["adoption"][17] = "attestation-again" /\ Program["adoption"][18] = "manifest-again"
    /\ Program["adoption"][19] = "entrypoint-again" /\ Program["adoption"][20] = "tools"
    /\ Program["adoption"][21] = "targets" /\ Program["adoption"][22] = "runtime"
    /\ Program["adoption"][23] = "inputs" /\ Program["adoption"][24] = "capsule"
    /\ Program["adoption"][25] = "stage" /\ Program["adoption"][26] = "build"
    /\ Program["adoption"][27] = "stat" /\ Program["adoption"][28] = "compiler"
    /\ Program["adoption"][29] = "archive" /\ Program["adoption"][30] = "stat-again"
    /\ Program["adoption"][31] = "copy" /\ Program["adoption"][32] = "describe"
    /\ Program["adoption"][33] = "launcher"
BY DEF Program, AdoptionProgram

LEMMA SlotNames ==
    {"archive", "attestation", "attestation-again", "authenticate", "bind", "bootstrap",
     "build", "capsule", "compiler", "copy", "describe", "digests", "dispatcher",
     "dispatcher-git", "entrypoint", "entrypoint-again", "exec", "git", "group", "guard",
     "head", "inputs", "key", "key-again", "launcher", "leaf", "manifest", "manifest-again",
     "namespace", "own", "preflight", "presence", "program", "proof", "python",
     "python-again", "python-worker", "roots", "runtime", "runtime-again", "sandbox", "sign",
     "stage", "stat", "stat-again", "supervisor", "targets", "targets-again", "tools",
     "tools-again", "verify", "worker", "worker-again"}
        \subseteq Slots
<1>1. Slots = {LaunchProgram[i] : i \in 1..32} \cup {BoundaryProgram[i] : i \in 1..15}
              \cup {AdoptionProgram[i] : i \in 1..33}
  BY ProgramLengths DEF Slots
<1>2. /\ \A i \in 1..32 : LaunchProgram[i] \in Slots
      /\ \A i \in 1..15 : BoundaryProgram[i] \in Slots
      /\ \A i \in 1..33 : AdoptionProgram[i] \in Slots
  BY <1>1
<1>3. /\ \A i \in 1..32 : Program["launch"][i] \in Slots
      /\ \A i \in 1..15 : Program["boundary"][i] \in Slots
      /\ \A i \in 1..33 : Program["adoption"][i] \in Slots
  BY <1>2 DEF Program
<1> QED BY <1>3, LaunchOrder, BoundaryOrder, AdoptionOrder

-----------------------------------------------------------------------------
\* What holds on the way from the image to the program that runs.

\* The chain is at one of its steps, or behind the last one.
OrderInv ==
    /\ mode \in Modes
    /\ position \in 1..Len(Program[mode]) + 1
    /\ verdict \in {"running", "accepted", "refused"}
    /\ verdict = "running" => position <= Len(Program[mode])
    /\ verdict = "accepted" => position = Len(Program[mode]) + 1
    /\ DOMAIN got = Slots

\* What the bootstrap and the worker of a run have, by how far they came.
OnLaunch ==
    /\ position > 8 => /\ got["supervisor"] = got["attestation"]
                       /\ got["manifest"] = got["attestation"]
    /\ position > 9 => got["runtime"] = got["manifest"]
    /\ position > 10 => got["tools"] = got["manifest"]
    /\ position > 17 => got["git"] = got["manifest"]
    /\ position > 20 => /\ got["sign"].image = got["attestation"]
                        /\ got["sign"].controller = got["worker"]
    /\ position > 23 => got["key-again"] = got["attestation"]
    /\ position > 24 => got["exec"] = got["attestation"]
    /\ position > 26 => got["worker-again"] = got["worker"]
    /\ position > 28 => got["runtime-again"] = got["manifest"]
    /\ position > 29 => got["tools-again"] = got["manifest"]
    /\ position > 31 => got["inputs"] = got["manifest"]

\* Of the probes of the platform their copy of a program may stay; the
\* directories are there for mount-guard only, and the leaf for the probe of the
\* group.
TrialInv ==
    /\ trial \subseteq {"program", "leaf", "directories"}
    /\ position # 13 => "directories" \notin trial
    /\ position # 16 => "leaf" \notin trial

\* The boundary tests the manifest twice: against what it sealed, and sealed
\* against the attestation.
OnBoundary ==
    /\ position > 9 => /\ got["supervisor"] = got["attestation"]
                       /\ got["manifest"] = got["attestation"]
    /\ position > 10 => got["dispatcher"] = got["manifest"]
    /\ position > 13 => got["key-again"] = got["attestation"]

OnAdoption ==
    /\ position > 5 => /\ got["supervisor"] = got["attestation"]
                       /\ got["manifest"] = got["attestation"]
                       /\ got["dispatcher"] = got["manifest"]
    /\ position > 7 => got["key-again"] = got["attestation"]
    /\ position > 13 => got["entrypoint"] = got["manifest"]
    /\ position > 20 => got["tools"] = got["manifest"]
    /\ position > 22 => got["runtime"] = got["manifest"]
    /\ position > 23 => got["inputs"] = got["manifest"]
    /\ position > 24 => capsule = "own"
    /\ position > 25 => got["stage"] = got["inputs"]

ImageInv ==
    /\ OrderInv
    /\ verdict # "refused" =>
        /\ mode = "launch" => OnLaunch /\ TrialInv
        /\ mode = "boundary" => OnBoundary
        /\ mode = "adoption" => OnAdoption

\* What was read of the runtime and of the tools: of two readings with as many
\* replacements before them the bytes are the same, and they are there still if
\* nothing was replaced since.
Was(s) == got[s] # Unread

DateTypes ==
    /\ disk \in [ImageFiles -> Images]
    /\ replaced \in [{"runtime", "tools"} -> Nat]
    /\ dates \in [Dated -> Nat]

DateInv ==
    /\ DateTypes
    /\ \A s \in Dated : Was(s) =>
          /\ dates[s] <= replaced[FileOf(s)]
          /\ dates[s] = replaced[FileOf(s)] => got[s] = disk[FileOf(s)]
    /\ \A s \in Dated, t \in Dated :
          Was(s) /\ Was(t) /\ FileOf(s) = FileOf(t) /\ dates[s] = dates[t] => got[s] = got[t]

\* Every step that was passed has read what it had to.
PassedInv ==
    verdict # "refused" =>
        \A i \in 1..position - 1 : Program[mode][i] \in Dated => Was(Program[mode][i])

\* What a step of the chain found to be so, if the chain goes on.
Learns(op) ==
    /\ op = "key" => got'["key"] = got["attestation"]
    /\ op = "verify" => /\ got["supervisor"] = got["attestation"]
                        /\ mode = "launch" => got["manifest"] = got["attestation"]
                        /\ mode = "boundary" => got["manifest"] = got["attestation"]
    /\ op \in Comparisons => got'[op] = got["manifest"]
    /\ op = "sign" => /\ got'["sign"].image = got["attestation"]
                      /\ got'["sign"].controller = got["worker"]
    /\ op = "key-again" => got'["key-again"] = got["attestation"]
    /\ op = "own" => got["exec"] = got["attestation"]
    /\ op = "worker-again" => got'["worker-again"] = got["sign"].controller
    /\ op = "dispatcher" /\ mode = "boundary" => got'["dispatcher"] = got["manifest"]
    /\ op = "bind" => got["manifest"] = got["attestation"]
    /\ op = "preflight" => PreflightAdmitted
    /\ op = "entrypoint" => got'["entrypoint"] = got["manifest"]
    /\ op = "stage" => got'["stage"] = got["inputs"]
    /\ op = "capsule" => capsule' = "own"
    /\ op # "capsule" => capsule' = capsule
    /\ op = "namespace" => trial' \subseteq trial \cup {"directories"}
    /\ op = "guard" => trial' = trial \ {"directories"}
    /\ op = "program" => trial' \subseteq trial \cup {"program"}
    /\ op = "leaf" => trial' \subseteq trial \cup {"leaf"}
    /\ op = "group" => trial' = trial \ {"leaf"}
    /\ op \notin {"namespace", "guard", "program", "leaf", "group"} => trial' = trial

\* A step of the chain is the one it is at, reads one value at most, and leads
\* to the next one or to the end.
Advances(op) ==
    /\ verdict = "running" /\ Program[mode][position] = op
    /\ mode' = mode
    /\ DOMAIN got' = Slots
    /\ \A s \in Slots : s # op => got'[s] = got[s]
    /\ \/ verdict' = "refused" /\ position' = position
       \/ /\ position' = position + 1
          /\ verdict' = IF position = Len(Program[mode]) THEN "accepted" ELSE "running"
          /\ Learns(op)

\* It dates what it reads of the runtime and of the tools, and replaces nothing.
Marks(op) ==
    /\ UNCHANGED <<disk, replaced>>
    /\ op \in Dated => /\ got'[op] = disk[FileOf(op)]
                       /\ dates' = [dates EXCEPT ![op] = replaced[FileOf(op)]]
    /\ op \notin Dated => dates' = dates

Moving(op) == Advances(op) /\ Marks(op)

AnyMoves == \E op \in Slots : Moving(op)

LEMMA StepsOfTheChain ==
    ASSUME OrderInv, Supervisor \/ Bootstrap \/ Dispatcher \/ Namespace
    PROVE  AnyMoves
<1> USE SlotNames DEF At, Records, Continues, OrderInv, Moving, Advances, Learns, Marks, Dated,
        Comparisons, ByPath, FileOf, imageVars, readVars
<1>1. ASSUME StartsSupervisor PROVE Moving("supervisor")
  BY <1>1 DEF StartsSupervisor, Takes, Decides
<1>2. ASSUME SealsAttestation PROVE Moving("attestation")
  BY <1>2 DEF SealsAttestation, Takes, Decides
<1>3. ASSUME ReadsKey PROVE Moving("key")
  BY <1>3 DEF ReadsKey, Takes, Decides
<1>4. ASSUME ReadsBootstrap PROVE Moving("bootstrap")
  BY <1>4 DEF ReadsBootstrap, Takes, Decides
<1>5. ASSUME ReadsManifest PROVE Moving("manifest")
  BY <1>5 DEF ReadsManifest, Takes, Decides
<1>6. ASSUME ReadsDigests PROVE Moving("digests")
  BY <1>6 DEF ReadsDigests, Takes, Decides
<1>7. ASSUME VerifiesImage PROVE Moving("verify")
  <2>1. ASSUME ImageAdmitted, BoundaryManifestAdmitted
        PROVE  /\ got["supervisor"] = got["attestation"]
               /\ mode = "launch" => got["manifest"] = got["attestation"]
               /\ mode = "boundary" => got["manifest"] = got["attestation"]
    BY <2>1 DEF ImageAdmitted, BoundaryManifestAdmitted, ImageTuple
  <2> QED BY <1>7, <2>1 DEF VerifiesImage, Compares, Takes, Decides
<1>8. ASSUME TestsRuntime PROVE AnyMoves
  <2>1. ASSUME Takes("runtime", disk["runtime"], RuntimeAdmitted(disk["runtime"]))
        PROVE  Moving("runtime")
    BY <2>1 DEF Takes, Decides, RuntimeAdmitted
  <2>2. ASSUME Takes("runtime-again", disk["runtime"], RuntimeAdmitted(disk["runtime"]))
        PROVE  Moving("runtime-again")
    BY <2>2 DEF Takes, Decides, RuntimeAdmitted
  <2> HIDE DEF Moving
  <2> QED BY <1>8, <2>1, <2>2 DEF TestsRuntime, AnyMoves
<1>9. ASSUME TestsTools PROVE AnyMoves
  <2>1. ASSUME Takes("tools", disk["tools"], RuntimeAdmitted(disk["tools"]))
        PROVE  Moving("tools")
    BY <2>1 DEF Takes, Decides, RuntimeAdmitted
  <2>2. ASSUME Takes("tools-again", disk["tools"], RuntimeAdmitted(disk["tools"]))
        PROVE  Moving("tools-again")
    BY <2>2 DEF Takes, Decides, RuntimeAdmitted
  <2> HIDE DEF Moving
  <2> QED BY <1>9, <2>1, <2>2 DEF TestsTools, AnyMoves
<1>10. ASSUME StartsTarget PROVE AnyMoves
  <2>1. ASSUME Takes("targets", disk["runtime"], TRUE) PROVE Moving("targets")
    BY <2>1 DEF Takes, Decides
  <2>2. ASSUME Takes("targets-again", disk["runtime"], TRUE) PROVE Moving("targets-again")
    BY <2>2 DEF Takes, Decides
  <2>3. ASSUME Takes("dispatcher-git", disk["runtime"], TRUE) PROVE Moving("dispatcher-git")
    BY <2>3 DEF Takes, Decides
  <2>4. ASSUME Takes("sandbox", disk["runtime"], TRUE) PROVE Moving("sandbox")
    BY <2>4 DEF Takes, Decides
  <2> HIDE DEF Moving
  <2> QED BY <1>10, <2>1, <2>2, <2>3, <2>4 DEF StartsTarget, AnyMoves
<1>11. ASSUME StartsPython PROVE AnyMoves
  <2>1. ASSUME Takes("python", disk["system"], TRUE) PROVE Moving("python")
    BY <2>1 DEF Takes, Decides
  <2>2. ASSUME Takes("python-again", disk["system"], TRUE) PROVE Moving("python-again")
    BY <2>2 DEF Takes, Decides
  <2>3. ASSUME Takes("python-worker", disk["system"], TRUE) PROVE Moving("python-worker")
    BY <2>3 DEF Takes, Decides
  <2> HIDE DEF Moving
  <2> QED BY <1>11, <2>1, <2>2, <2>3 DEF StartsPython, AnyMoves, Interpreters
<1>12. ASSUME ProbesNamespace PROVE Moving("namespace")
  BY <1>12 DEF ProbesNamespace, Probes, And
<1>13. ASSUME GuardsMounts PROVE Moving("guard")
  BY <1>13 DEF GuardsMounts, Probes
<1>14. ASSUME ProbesExecution PROVE Moving("program")
  BY <1>14 DEF ProbesExecution, Probes, And
<1>15. ASSUME MakesLeaf PROVE Moving("leaf")
  BY <1>15 DEF MakesLeaf, Probes, And
<1>16. ASSUME ProbesGroup PROVE Moving("group")
  BY <1>16 DEF ProbesGroup, Probes
<1>17. ASSUME RetainsGit PROVE Moving("git")
  BY <1>17 DEF RetainsGit, Takes, Decides, RuntimeAdmitted
<1>18. ASSUME ReadsHead PROVE Moving("head")
  BY <1>18 DEF ReadsHead, Takes, Decides
<1>19. ASSUME ReadsWorker PROVE Moving("worker")
  BY <1>19 DEF ReadsWorker, Takes, Decides
<1>20. ASSUME SignsRun PROVE Moving("sign")
  BY <1>20 DEF SignsRun, Takes, Decides, Invocation
<1>21. ASSUME ExecsBootstrap PROVE Moving("exec")
  BY <1>21 DEF ExecsBootstrap, Takes, Decides
<1>22. ASSUME ReadsKeyAgain PROVE Moving("key-again")
  BY <1>22 DEF ReadsKeyAgain, Takes, Decides
<1>23. ASSUME VerifiesItself PROVE Moving("own")
  BY <1>23 DEF VerifiesItself, Compares, Takes, Decides, OwnAdmitted
<1>24. ASSUME ReadsManifestAgain PROVE Moving("manifest-again")
  BY <1>24 DEF ReadsManifestAgain, Takes, Decides, ManifestAgainAdmitted
<1>25. ASSUME ReadsWorkerAgain PROVE Moving("worker-again")
  BY <1>25 DEF ReadsWorkerAgain, Takes, Decides, WorkerAgainAdmitted
<1>26. ASSUME CopiesInputs PROVE Moving("inputs")
  BY <1>26 DEF CopiesInputs, Takes, Decides, InputsAdmitted
<1>27. ASSUME OpensDispatcher PROVE Moving("dispatcher")
  BY <1>27 DEF OpensDispatcher, Takes, Decides, BoundaryDispatcherAdmitted
<1>28. ASSUME RetainsRoots PROVE Moving("roots")
  BY <1>28 DEF RetainsRoots, Compares, Takes, Decides
<1>29. ASSUME BindsInputs PROVE Moving("bind")
  BY <1>29 DEF BindsInputs, Compares, Takes, Decides
<1>30. ASSUME ReportsPresence PROVE Moving("presence")
  BY <1>30 DEF ReportsPresence, Compares, Takes, Decides
<1>31. ASSUME Preflight PROVE Moving("preflight")
  BY <1>31 DEF Preflight, Compares, Takes, Decides
<1>32. ASSUME AuthenticatesParent PROVE Moving("authenticate")
  BY <1>32 DEF AuthenticatesParent, Compares, Takes, Decides
<1>33. ASSUME BindsEntrypoint PROVE Moving("entrypoint")
  BY <1>33 DEF BindsEntrypoint, Takes, Decides
<1>34. ASSUME SendsProof PROVE Moving("proof")
  BY <1>34 DEF SendsProof, Compares, Takes, Decides
<1>35. ASSUME ReadsAttestationAgain PROVE Moving("attestation-again")
  BY <1>35 DEF ReadsAttestationAgain, Takes, Decides
<1>36. ASSUME BindsEntrypointAgain PROVE Moving("entrypoint-again")
  BY <1>36 DEF BindsEntrypointAgain, Takes, Decides
<1>37. ASSUME AdmitsCapsule PROVE Moving("capsule")
  BY <1>37 DEF AdmitsCapsule, Decides, ProofAdmitted
<1>38. ASSUME StagesInputs PROVE Moving("stage")
  BY <1>38 DEF StagesInputs, Takes, Decides
<1>39. ASSUME Builds PROVE Moving("build")
  BY <1>39 DEF Builds
<1>40. ASSUME Stats PROVE Moving("stat")
  BY <1>40 DEF Stats, Takes, Decides
<1>41. ASSUME ReadsCompiler PROVE Moving("compiler")
  BY <1>41 DEF ReadsCompiler, Takes, Decides
<1>42. ASSUME ReadsArchive PROVE Moving("archive")
  BY <1>42 DEF ReadsArchive, Takes, Decides
<1>43. ASSUME StatsAgain PROVE Moving("stat-again")
  BY <1>43 DEF StatsAgain, Compares, Takes, Decides
<1>44. ASSUME WritesCopies PROVE Moving("copy")
  BY <1>44 DEF WritesCopies
<1>45. ASSUME Describes PROVE Moving("describe")
  BY <1>45 DEF Describes, Takes, Decides
<1>46. ASSUME Launches PROVE Moving("launcher")
  BY <1>46 DEF Launches, Takes, Decides
<1> HIDE DEF Moving
<1> QED
  BY <1>1, <1>2, <1>3, <1>4, <1>5, <1>6, <1>7, <1>8, <1>9, <1>10, <1>11, <1>12, <1>13, <1>14,
     <1>15, <1>16, <1>17, <1>18, <1>19, <1>20, <1>21, <1>22, <1>23, <1>24, <1>25, <1>26, <1>27,
     <1>28, <1>29, <1>30, <1>31, <1>32, <1>33, <1>34, <1>35, <1>36, <1>37, <1>38, <1>39, <1>40,
     <1>41, <1>42, <1>43, <1>44, <1>45, <1>46
     DEF Supervisor, Bootstrap, Dispatcher, Namespace, AnyMoves

LEMMA LaunchKept ==
    ASSUME ImageInv, mode = "launch", AnyMoves, verdict' # "refused"
    PROVE  OnLaunch'
<1>1. PICK op \in Slots : Advances(op)
  BY DEF AnyMoves, Moving
<1>2. /\ position \in 1..32 /\ position' = position + 1
      /\ Program["launch"][position] = op
      /\ \A s \in Slots : s # op => got'[s] = got[s]
      /\ Learns(op)
      /\ OnLaunch
  BY <1>1, ProgramLengths DEF ImageInv, OrderInv, Advances
<1>3. CASE position = 1
  BY <1>2, <1>3, LaunchOrder, SlotNames DEF Learns, OnLaunch, Comparisons
<1>4. CASE position = 2
  BY <1>2, <1>4, LaunchOrder, SlotNames DEF Learns, OnLaunch, Comparisons
<1>5. CASE position = 3
  BY <1>2, <1>5, LaunchOrder, SlotNames DEF Learns, OnLaunch, Comparisons
<1>6. CASE position = 4
  BY <1>2, <1>6, LaunchOrder, SlotNames DEF Learns, OnLaunch, Comparisons
<1>7. CASE position = 5
  BY <1>2, <1>7, LaunchOrder, SlotNames DEF Learns, OnLaunch, Comparisons
<1>8. CASE position = 6
  BY <1>2, <1>8, LaunchOrder, SlotNames DEF Learns, OnLaunch, Comparisons
<1>9. CASE position = 7
  BY <1>2, <1>9, LaunchOrder, SlotNames DEF Learns, OnLaunch, Comparisons
<1>10. CASE position = 8
  BY <1>2, <1>10, LaunchOrder, SlotNames DEF Learns, OnLaunch, Comparisons
<1>11. CASE position = 9
  BY <1>2, <1>11, LaunchOrder, SlotNames DEF Learns, OnLaunch, Comparisons
<1>12. CASE position = 10
  BY <1>2, <1>12, LaunchOrder, SlotNames DEF Learns, OnLaunch, Comparisons
<1>13. CASE position = 11
  BY <1>2, <1>13, LaunchOrder, SlotNames DEF Learns, OnLaunch, Comparisons
<1>14. CASE position = 12
  BY <1>2, <1>14, LaunchOrder, SlotNames DEF Learns, OnLaunch, Comparisons
<1>15. CASE position = 13
  BY <1>2, <1>15, LaunchOrder, SlotNames DEF Learns, OnLaunch, Comparisons
<1>16. CASE position = 14
  BY <1>2, <1>16, LaunchOrder, SlotNames DEF Learns, OnLaunch, Comparisons
<1>17. CASE position = 15
  BY <1>2, <1>17, LaunchOrder, SlotNames DEF Learns, OnLaunch, Comparisons
<1>18. CASE position = 16
  BY <1>2, <1>18, LaunchOrder, SlotNames DEF Learns, OnLaunch, Comparisons
<1>19. CASE position = 17
  BY <1>2, <1>19, LaunchOrder, SlotNames DEF Learns, OnLaunch, Comparisons
<1>20. CASE position = 18
  BY <1>2, <1>20, LaunchOrder, SlotNames DEF Learns, OnLaunch, Comparisons
<1>21. CASE position = 19
  BY <1>2, <1>21, LaunchOrder, SlotNames DEF Learns, OnLaunch, Comparisons
<1>22. CASE position = 20
  BY <1>2, <1>22, LaunchOrder, SlotNames DEF Learns, OnLaunch, Comparisons
<1>23. CASE position = 21
  BY <1>2, <1>23, LaunchOrder, SlotNames DEF Learns, OnLaunch, Comparisons
<1>24. CASE position = 22
  BY <1>2, <1>24, LaunchOrder, SlotNames DEF Learns, OnLaunch, Comparisons
<1>25. CASE position = 23
  BY <1>2, <1>25, LaunchOrder, SlotNames DEF Learns, OnLaunch, Comparisons
<1>26. CASE position = 24
  BY <1>2, <1>26, LaunchOrder, SlotNames DEF Learns, OnLaunch, Comparisons
<1>27. CASE position = 25
  BY <1>2, <1>27, LaunchOrder, SlotNames DEF Learns, OnLaunch, Comparisons
<1>28. CASE position = 26
  BY <1>2, <1>28, LaunchOrder, SlotNames DEF Learns, OnLaunch, Comparisons
<1>29. CASE position = 27
  BY <1>2, <1>29, LaunchOrder, SlotNames DEF Learns, OnLaunch, Comparisons
<1>30. CASE position = 28
  BY <1>2, <1>30, LaunchOrder, SlotNames DEF Learns, OnLaunch, Comparisons
<1>31. CASE position = 29
  BY <1>2, <1>31, LaunchOrder, SlotNames DEF Learns, OnLaunch, Comparisons
<1>32. CASE position = 30
  BY <1>2, <1>32, LaunchOrder, SlotNames DEF Learns, OnLaunch, Comparisons
<1>33. CASE position = 31
  BY <1>2, <1>33, LaunchOrder, SlotNames DEF Learns, OnLaunch, Comparisons
<1>34. CASE position = 32
  BY <1>2, <1>34, LaunchOrder, SlotNames DEF Learns, OnLaunch, Comparisons
<1> QED
  BY <1>2, <1>3, <1>4, <1>5, <1>6, <1>7, <1>8, <1>9, <1>10, <1>11, <1>12, <1>13, <1>14, <1>15,
     <1>16, <1>17, <1>18, <1>19, <1>20, <1>21, <1>22, <1>23, <1>24, <1>25, <1>26, <1>27, <1>28,
     <1>29, <1>30, <1>31, <1>32, <1>33, <1>34

LEMMA BoundaryKept ==
    ASSUME ImageInv, mode = "boundary", AnyMoves, verdict' # "refused"
    PROVE  OnBoundary'
<1>1. PICK op \in Slots : Advances(op)
  BY DEF AnyMoves, Moving
<1>2. /\ position \in 1..15 /\ position' = position + 1
      /\ Program["boundary"][position] = op
      /\ \A s \in Slots : s # op => got'[s] = got[s]
      /\ Learns(op)
      /\ OnBoundary
  BY <1>1, ProgramLengths DEF ImageInv, OrderInv, Advances
<1>3. CASE position = 1
  BY <1>2, <1>3, BoundaryOrder, SlotNames DEF Learns, OnBoundary
<1>4. CASE position = 2
  BY <1>2, <1>4, BoundaryOrder, SlotNames DEF Learns, OnBoundary
<1>5. CASE position = 3
  BY <1>2, <1>5, BoundaryOrder, SlotNames DEF Learns, OnBoundary
<1>6. CASE position = 4
  BY <1>2, <1>6, BoundaryOrder, SlotNames DEF Learns, OnBoundary
<1>7. CASE position = 5
  BY <1>2, <1>7, BoundaryOrder, SlotNames DEF Learns, OnBoundary
<1>8. CASE position = 6
  BY <1>2, <1>8, BoundaryOrder, SlotNames DEF Learns, OnBoundary
<1>9. CASE position = 7
  BY <1>2, <1>9, BoundaryOrder, SlotNames DEF Learns, OnBoundary
<1>10. CASE position = 8
  BY <1>2, <1>10, BoundaryOrder, SlotNames DEF Learns, OnBoundary
<1>11. CASE position = 9
  BY <1>2, <1>11, BoundaryOrder, SlotNames DEF Learns, OnBoundary
<1>12. CASE position = 10
  BY <1>2, <1>12, BoundaryOrder, SlotNames DEF Learns, OnBoundary
<1>13. CASE position = 11
  BY <1>2, <1>13, BoundaryOrder, SlotNames DEF Learns, OnBoundary
<1>14. CASE position = 12
  BY <1>2, <1>14, BoundaryOrder, SlotNames DEF Learns, OnBoundary
<1>15. CASE position = 13
  BY <1>2, <1>15, BoundaryOrder, SlotNames DEF Learns, OnBoundary
<1>16. CASE position = 14
  BY <1>2, <1>16, BoundaryOrder, SlotNames DEF Learns, OnBoundary
<1>17. CASE position = 15
  BY <1>2, <1>17, BoundaryOrder, SlotNames DEF Learns, OnBoundary
<1> QED
  BY <1>2, <1>3, <1>4, <1>5, <1>6, <1>7, <1>8, <1>9, <1>10, <1>11, <1>12, <1>13, <1>14, <1>15,
     <1>16, <1>17

LEMMA AdoptionKept ==
    ASSUME ImageInv, mode = "adoption", AnyMoves, verdict' # "refused"
    PROVE  OnAdoption'
<1>1. PICK op \in Slots : Advances(op)
  BY DEF AnyMoves, Moving
<1>2. /\ position \in 1..33 /\ position' = position + 1
      /\ Program["adoption"][position] = op
      /\ \A s \in Slots : s # op => got'[s] = got[s]
      /\ Learns(op)
      /\ OnAdoption
  BY <1>1, ProgramLengths DEF ImageInv, OrderInv, Advances
<1>3. CASE position = 1
  BY <1>2, <1>3, AdoptionOrder, SlotNames DEF Learns, OnAdoption, PreflightAdmitted, Comparisons
<1>4. CASE position = 2
  BY <1>2, <1>4, AdoptionOrder, SlotNames DEF Learns, OnAdoption, PreflightAdmitted, Comparisons
<1>5. CASE position = 3
  BY <1>2, <1>5, AdoptionOrder, SlotNames DEF Learns, OnAdoption, PreflightAdmitted, Comparisons
<1>6. CASE position = 4
  BY <1>2, <1>6, AdoptionOrder, SlotNames DEF Learns, OnAdoption, PreflightAdmitted, Comparisons
<1>7. CASE position = 5
  BY <1>2, <1>7, AdoptionOrder, SlotNames DEF Learns, OnAdoption, PreflightAdmitted, Comparisons
<1>8. CASE position = 6
  BY <1>2, <1>8, AdoptionOrder, SlotNames DEF Learns, OnAdoption, PreflightAdmitted, Comparisons
<1>9. CASE position = 7
  BY <1>2, <1>9, AdoptionOrder, SlotNames DEF Learns, OnAdoption, PreflightAdmitted, Comparisons
<1>10. CASE position = 8
  BY <1>2, <1>10, AdoptionOrder, SlotNames DEF Learns, OnAdoption, PreflightAdmitted, Comparisons
<1>11. CASE position = 9
  BY <1>2, <1>11, AdoptionOrder, SlotNames DEF Learns, OnAdoption, PreflightAdmitted, Comparisons
<1>12. CASE position = 10
  BY <1>2, <1>12, AdoptionOrder, SlotNames DEF Learns, OnAdoption, PreflightAdmitted, Comparisons
<1>13. CASE position = 11
  BY <1>2, <1>13, AdoptionOrder, SlotNames DEF Learns, OnAdoption, PreflightAdmitted, Comparisons
<1>14. CASE position = 12
  BY <1>2, <1>14, AdoptionOrder, SlotNames DEF Learns, OnAdoption, PreflightAdmitted, Comparisons
<1>15. CASE position = 13
  BY <1>2, <1>15, AdoptionOrder, SlotNames DEF Learns, OnAdoption, PreflightAdmitted, Comparisons
<1>16. CASE position = 14
  BY <1>2, <1>16, AdoptionOrder, SlotNames DEF Learns, OnAdoption, PreflightAdmitted, Comparisons
<1>17. CASE position = 15
  BY <1>2, <1>17, AdoptionOrder, SlotNames DEF Learns, OnAdoption, PreflightAdmitted, Comparisons
<1>18. CASE position = 16
  BY <1>2, <1>18, AdoptionOrder, SlotNames DEF Learns, OnAdoption, PreflightAdmitted, Comparisons
<1>19. CASE position = 17
  BY <1>2, <1>19, AdoptionOrder, SlotNames DEF Learns, OnAdoption, PreflightAdmitted, Comparisons
<1>20. CASE position = 18
  BY <1>2, <1>20, AdoptionOrder, SlotNames DEF Learns, OnAdoption, PreflightAdmitted, Comparisons
<1>21. CASE position = 19
  BY <1>2, <1>21, AdoptionOrder, SlotNames DEF Learns, OnAdoption, PreflightAdmitted, Comparisons
<1>22. CASE position = 20
  BY <1>2, <1>22, AdoptionOrder, SlotNames DEF Learns, OnAdoption, PreflightAdmitted, Comparisons
<1>23. CASE position = 21
  BY <1>2, <1>23, AdoptionOrder, SlotNames DEF Learns, OnAdoption, PreflightAdmitted, Comparisons
<1>24. CASE position = 22
  BY <1>2, <1>24, AdoptionOrder, SlotNames DEF Learns, OnAdoption, PreflightAdmitted, Comparisons
<1>25. CASE position = 23
  BY <1>2, <1>25, AdoptionOrder, SlotNames DEF Learns, OnAdoption, PreflightAdmitted, Comparisons
<1>26. CASE position = 24
  BY <1>2, <1>26, AdoptionOrder, SlotNames DEF Learns, OnAdoption, PreflightAdmitted, Comparisons
<1>27. CASE position = 25
  BY <1>2, <1>27, AdoptionOrder, SlotNames DEF Learns, OnAdoption, PreflightAdmitted, Comparisons
<1>28. CASE position = 26
  BY <1>2, <1>28, AdoptionOrder, SlotNames DEF Learns, OnAdoption, PreflightAdmitted, Comparisons
<1>29. CASE position = 27
  BY <1>2, <1>29, AdoptionOrder, SlotNames DEF Learns, OnAdoption, PreflightAdmitted, Comparisons
<1>30. CASE position = 28
  BY <1>2, <1>30, AdoptionOrder, SlotNames DEF Learns, OnAdoption, PreflightAdmitted, Comparisons
<1>31. CASE position = 29
  BY <1>2, <1>31, AdoptionOrder, SlotNames DEF Learns, OnAdoption, PreflightAdmitted, Comparisons
<1>32. CASE position = 30
  BY <1>2, <1>32, AdoptionOrder, SlotNames DEF Learns, OnAdoption, PreflightAdmitted, Comparisons
<1>33. CASE position = 31
  BY <1>2, <1>33, AdoptionOrder, SlotNames DEF Learns, OnAdoption, PreflightAdmitted, Comparisons
<1>34. CASE position = 32
  BY <1>2, <1>34, AdoptionOrder, SlotNames DEF Learns, OnAdoption, PreflightAdmitted, Comparisons
<1>35. CASE position = 33
  BY <1>2, <1>35, AdoptionOrder, SlotNames DEF Learns, OnAdoption, PreflightAdmitted, Comparisons
<1> QED
  BY <1>2, <1>3, <1>4, <1>5, <1>6, <1>7, <1>8, <1>9, <1>10, <1>11, <1>12, <1>13, <1>14, <1>15,
     <1>16, <1>17, <1>18, <1>19, <1>20, <1>21, <1>22, <1>23, <1>24, <1>25, <1>26, <1>27, <1>28,
     <1>29, <1>30, <1>31, <1>32, <1>33, <1>34, <1>35

LEMMA TrialKept ==
    ASSUME ImageInv, mode = "launch", AnyMoves, verdict' # "refused"
    PROVE  TrialInv'
<1>1. PICK op \in Slots : Advances(op)
  BY DEF AnyMoves, Moving
<1>2. /\ position \in 1..32 /\ position' = position + 1
      /\ Program["launch"][position] = op
      /\ Learns(op)
      /\ trial \subseteq {"program", "leaf", "directories"}
      /\ position # 13 => "directories" \notin trial
      /\ position # 16 => "leaf" \notin trial
  BY <1>1, ProgramLengths DEF ImageInv, OrderInv, Advances, TrialInv
<1>3. CASE position = 12
  <2>1. op = "namespace"
    BY <1>2, <1>3, LaunchOrder
  <2>2. trial' \subseteq trial \cup {"directories"}
    BY <1>2, <2>1 DEF Learns
  <2>3. position' = 13 /\ trial' \subseteq {"program", "leaf", "directories"}
    BY <1>2, <1>3, <2>2
  <2>4. position' # 13 => "directories" \notin trial'
    BY <1>2, <1>3, <2>2, <2>3
  <2>5. position' # 16 => "leaf" \notin trial'
    BY <1>2, <1>3, <2>2, <2>3
  <2> QED BY <2>3, <2>4, <2>5 DEF TrialInv
<1>4. CASE position = 13
  <2>1. op = "guard"
    BY <1>2, <1>4, LaunchOrder
  <2>2. trial' = trial \ {"directories"}
    BY <1>2, <2>1 DEF Learns
  <2>3. position' = 14 /\ trial' \subseteq {"program", "leaf", "directories"}
    BY <1>2, <1>4, <2>2
  <2>4. position' # 13 => "directories" \notin trial'
    BY <1>2, <1>4, <2>2, <2>3
  <2>5. position' # 16 => "leaf" \notin trial'
    BY <1>2, <1>4, <2>2, <2>3
  <2> QED BY <2>3, <2>4, <2>5 DEF TrialInv
<1>5. CASE position = 14
  <2>1. op = "program"
    BY <1>2, <1>5, LaunchOrder
  <2>2. trial' \subseteq trial \cup {"program"}
    BY <1>2, <2>1 DEF Learns
  <2>3. position' = 15 /\ trial' \subseteq {"program", "leaf", "directories"}
    BY <1>2, <1>5, <2>2
  <2>4. position' # 13 => "directories" \notin trial'
    BY <1>2, <1>5, <2>2, <2>3
  <2>5. position' # 16 => "leaf" \notin trial'
    BY <1>2, <1>5, <2>2, <2>3
  <2> QED BY <2>3, <2>4, <2>5 DEF TrialInv
<1>6. CASE position = 15
  <2>1. op = "leaf"
    BY <1>2, <1>6, LaunchOrder
  <2>2. trial' \subseteq trial \cup {"leaf"}
    BY <1>2, <2>1 DEF Learns
  <2>3. position' = 16 /\ trial' \subseteq {"program", "leaf", "directories"}
    BY <1>2, <1>6, <2>2
  <2>4. position' # 13 => "directories" \notin trial'
    BY <1>2, <1>6, <2>2, <2>3
  <2>5. position' # 16 => "leaf" \notin trial'
    BY <1>2, <1>6, <2>2, <2>3
  <2> QED BY <2>3, <2>4, <2>5 DEF TrialInv
<1>7. CASE position = 16
  <2>1. op = "group"
    BY <1>2, <1>7, LaunchOrder
  <2>2. trial' = trial \ {"leaf"}
    BY <1>2, <2>1 DEF Learns
  <2>3. position' = 17 /\ trial' \subseteq {"program", "leaf", "directories"}
    BY <1>2, <1>7, <2>2
  <2>4. position' # 13 => "directories" \notin trial'
    BY <1>2, <1>7, <2>2, <2>3
  <2>5. position' # 16 => "leaf" \notin trial'
    BY <1>2, <1>7, <2>2, <2>3
  <2> QED BY <2>3, <2>4, <2>5 DEF TrialInv
<1>8. CASE position \notin 12..16
  <2>1. op \notin {"namespace", "guard", "program", "leaf", "group"}
    BY <1>2, <1>8, LaunchOrder
  <2>2. trial' = trial
    BY <1>2, <2>1 DEF Learns
  <2> QED BY <1>2, <1>8, <2>2 DEF TrialInv
<1> QED BY <1>2, <1>3, <1>4, <1>5, <1>6, <1>7, <1>8

LEMMA OrderKept == ASSUME OrderInv, AnyMoves PROVE OrderInv'
<1>1. PICK op \in Slots : Advances(op)
  BY DEF AnyMoves, Moving
<1>2. Len(Program[mode]) \in {32, 15, 33}
  BY ProgramLengths, ModesAssumption DEF OrderInv
<1> QED BY <1>1, <1>2 DEF OrderInv, Advances

LEMMA ImageStarts == LaunchInit => ImageInv
<1>1. ASSUME LaunchInit PROVE OrderInv
  <2>1. Len(Program[mode]) \in {32, 15, 33}
    BY <1>1, ProgramLengths, ModesAssumption DEF LaunchInit
  <2>2. \A n \in {32, 15, 33} : 1 \in 1..n + 1 /\ 1 <= n
    OBVIOUS
  <2>4. position \in 1..Len(Program[mode]) + 1 /\ position <= Len(Program[mode])
    BY <1>1, <2>1, <2>2, Zenon DEF LaunchInit
  <2>3. DOMAIN got = Slots
    BY <1>1 DEF LaunchInit
  <2> QED BY <1>1, <2>3, <2>4 DEF LaunchInit, OrderInv
<1>2. ASSUME LaunchInit PROVE OnLaunch /\ TrialInv /\ OnBoundary /\ OnAdoption
  BY <1>2 DEF LaunchInit, OnLaunch, TrialInv, OnBoundary, OnAdoption
<1> QED BY <1>1, <1>2 DEF ImageInv

\* Nobody else writes what the chain has read.
LEMMA OthersKeep ==
    ASSUME ImageInv, Others \/ UNCHANGED launchVars
    PROVE  ImageInv'
<1>1. UNCHANGED <<mode, position, verdict, got, trial, capsule>>
  BY DEF Others, Install, Edit, LeftWrites, LeftWritesCopy, launchVars, readVars
<1>2. OrderInv'
  BY <1>1 DEF ImageInv, OrderInv
<1>3. (OnLaunch /\ TrialInv => OnLaunch' /\ TrialInv') /\ (OnBoundary => OnBoundary')
      /\ (OnAdoption => OnAdoption')
  BY <1>1 DEF OnLaunch, TrialInv, OnBoundary, OnAdoption
<1> QED BY <1>1, <1>2, <1>3 DEF ImageInv

LEMMA ImageStepsSound == ImageInv /\ [LaunchNext]_launchVars => ImageInv'
<1> SUFFICES ASSUME ImageInv, [LaunchNext]_launchVars PROVE ImageInv'
  OBVIOUS
<1>1. CASE Supervisor \/ Bootstrap \/ Dispatcher \/ Namespace
  <2>1. AnyMoves
    BY <1>1, StepsOfTheChain DEF ImageInv
  <2>2. OrderInv' /\ mode' = mode
    BY <2>1, OrderKept DEF ImageInv, AnyMoves, Moving, Advances
  <2> QED
    BY <2>1, <2>2, LaunchKept, TrialKept, BoundaryKept, AdoptionKept DEF ImageInv
<1>2. CASE GivesUp
  BY <1>2 DEF GivesUp, ImageInv, OrderInv, readVars
<1>3. CASE Others \/ UNCHANGED launchVars
  BY <1>3, OthersKeep
<1> QED BY <1>1, <1>2, <1>3 DEF LaunchNext

LEMMA ImageInvHolds == LaunchSpec => []ImageInv
BY ImageStarts, ImageStepsSound, PTL DEF LaunchSpec

-----------------------------------------------------------------------------
(* Which readings of the runtime and of the tools are of the same bytes.    *)

LEMMA FilesOfSteps ==
    /\ Dated \subseteq Slots
    /\ \A s : FileOf(s) \in {"runtime", "tools"}
    /\ {"runtime", "tools"} \subseteq ImageFiles
BY SlotNames DEF Dated, Comparisons, ByPath, FileOf, ImageFiles

LEMMA DatesStart == LaunchInit => DateInv /\ PassedInv
<1> SUFFICES ASSUME LaunchInit PROVE DateInv /\ PassedInv
  OBVIOUS
<1>1. \A s \in Dated : ~Was(s)
  BY FilesOfSteps DEF LaunchInit, Was
<1>2. DateTypes
  BY DEF LaunchInit, DateTypes
<1>3. 1..position - 1 = {}
  BY DEF LaunchInit
<1> QED BY <1>1, <1>2, <1>3 DEF DateInv, PassedInv

\* A step reads what is there now.
LEMMA MarksKeepDates ==
    ASSUME OrderInv, DateInv, NEW op \in Slots, Moving(op)
    PROVE  DateInv' /\ (op \in Dated => Was(op)')
<1>1. /\ disk' = disk /\ replaced' = replaced
      /\ \A s \in Dated : s # op => got'[s] = got[s] /\ dates'[s] = dates[s]
  BY FilesOfSteps DEF Moving, Marks, Advances, DateInv, DateTypes
<1>2. CASE op \in Dated
  <2>1. got'[op] = disk[FileOf(op)] /\ dates'[op] = replaced[FileOf(op)]
    BY <1>2 DEF Moving, Marks, DateInv, DateTypes
  <2>2. got'[op] \in Images /\ replaced[FileOf(op)] \in Nat
    BY <2>1, FilesOfSteps DEF DateInv, DateTypes
  <2>3. DateTypes'
    <3>1. dates' = [dates EXCEPT ![op] = replaced[FileOf(op)]]
      BY <1>2 DEF Moving, Marks
    <3> QED BY <1>1, <2>2, <3>1 DEF DateInv, DateTypes
  <2>4. \A s \in Dated : s # op => (Was(s)' <=> Was(s))
    BY <1>1 DEF Was
  <2>5. \A s \in Dated : Was(s)' =>
          /\ dates'[s] <= replaced'[FileOf(s)]
          /\ dates'[s] = replaced'[FileOf(s)] => got'[s] = disk'[FileOf(s)]
    BY <1>1, <2>1, <2>2, <2>4 DEF DateInv
  <2>6. ASSUME NEW s \in Dated, NEW t \in Dated, Was(s)', Was(t)', FileOf(s) = FileOf(t),
               dates'[s] = dates'[t]
        PROVE  got'[s] = got'[t]
    <3>1. CASE s # op /\ t # op
      BY <1>1, <2>4, <2>6, <3>1 DEF DateInv
    <3>2. CASE s = op \/ t = op
      BY <1>1, <2>1, <2>5, <2>6, <3>2
    <3> QED BY <3>1, <3>2
  <2>7. Was(op)'
    BY <2>2, UnreadAssumption DEF Was
  <2> QED BY <2>3, <2>5, <2>6, <2>7 DEF DateInv
<1>3. CASE op \notin Dated
  <2>1. \A s \in Dated : got'[s] = got[s] /\ (Was(s)' <=> Was(s))
    BY <1>1, <1>3 DEF Was
  <2>2. dates' = dates
    BY <1>3 DEF Moving, Marks
  <2> QED BY <1>1, <1>3, <2>1, <2>2 DEF DateInv, DateTypes
<1> QED BY <1>2, <1>3

LEMMA PassedKept ==
    ASSUME OrderInv, PassedInv, NEW op \in Slots, Moving(op), op \in Dated => Was(op)'
    PROVE  PassedInv'
<1> SUFFICES ASSUME verdict' # "refused", NEW i \in 1..position' - 1,
                    Program[mode'][i] \in Dated
             PROVE  Was(Program[mode][i])'
  BY DEF PassedInv, Moving, Advances
<1>1. /\ mode' = mode /\ position' = position + 1 /\ Program[mode][position] = op
      /\ verdict = "running" /\ \A s \in Slots : s # op => got'[s] = got[s]
  BY DEF Moving, Advances
<1>2. position \in Nat
  BY ProgramLengths, ModesAssumption DEF OrderInv
<1>3. CASE Program[mode][i] = op
  BY <1>1, <1>3
<1>4. CASE Program[mode][i] # op
  <2>1. i \in 1..position - 1
    BY <1>1, <1>2, <1>4
  <2>2. Was(Program[mode][i]) /\ Program[mode][i] \in Slots
    BY <1>1, <2>1, FilesOfSteps DEF PassedInv
  <2> QED BY <1>1, <1>4, <2>2 DEF Was
<1> QED BY <1>3, <1>4

\* A replacement leaves what was read, and none of it is as new as the file.
LEMMA InstallKeepsDates ==
    ASSUME DateInv, NEW f \in ImageFiles, NEW i \in Images, Install(f, i)
    PROVE  DateInv'
<1>1. /\ got' = got /\ dates' = dates /\ disk' = [disk EXCEPT ![f] = i]
      /\ replaced' = IF f \in {"runtime", "tools"}
                     THEN [replaced EXCEPT ![f] = replaced[f] + 1] ELSE replaced
  BY DEF Install, readVars
<1>2. DateTypes'
  BY <1>1 DEF DateInv, DateTypes
<1>3. \A s \in Dated : Was(s)' <=> Was(s)
  BY <1>1 DEF Was
<1>4. ASSUME NEW s \in Dated, Was(s)
      PROVE  /\ dates[s] <= replaced'[FileOf(s)]
             /\ dates[s] = replaced'[FileOf(s)] => got[s] = disk'[FileOf(s)]
  <2>1. /\ dates[s] \in Nat /\ replaced[FileOf(s)] \in Nat /\ dates[s] <= replaced[FileOf(s)]
        /\ dates[s] = replaced[FileOf(s)] => got[s] = disk[FileOf(s)]
    BY <1>4, FilesOfSteps DEF DateInv, DateTypes
  <2>2. CASE FileOf(s) = f
    <3>1. replaced'[FileOf(s)] = replaced[FileOf(s)] + 1
      BY <1>1, <2>2, FilesOfSteps DEF DateInv, DateTypes
    <3> QED BY <2>1, <3>1
  <2>3. CASE FileOf(s) # f
    <3>1. replaced'[FileOf(s)] = replaced[FileOf(s)] /\ disk'[FileOf(s)] = disk[FileOf(s)]
      BY <1>1, <2>3, FilesOfSteps DEF DateInv, DateTypes
    <3> QED BY <2>1, <3>1
  <2> QED BY <2>2, <2>3
<1> QED BY <1>1, <1>2, <1>3, <1>4 DEF DateInv

LEMMA DateStepsSound ==
    OrderInv /\ DateInv /\ PassedInv /\ [LaunchNext]_launchVars => DateInv' /\ PassedInv'
<1> SUFFICES ASSUME OrderInv, DateInv, PassedInv, [LaunchNext]_launchVars
             PROVE  DateInv' /\ PassedInv'
  OBVIOUS
<1>1. CASE Supervisor \/ Bootstrap \/ Dispatcher \/ Namespace
  <2>1. PICK op \in Slots : Moving(op)
    BY <1>1, StepsOfTheChain DEF AnyMoves
  <2> QED BY <2>1, MarksKeepDates, PassedKept
<1>2. ASSUME NEW f \in ImageFiles, NEW i \in Images, Install(f, i) PROVE DateInv' /\ PassedInv'
  <2>1. UNCHANGED <<mode, position, verdict, got>>
    BY <1>2 DEF Install, readVars
  <2>2. PassedInv'
    BY <2>1 DEF PassedInv, Was
  <2> QED BY <1>2, <2>2, InstallKeepsDates
<1>3. ASSUME UNCHANGED <<mode, position, readVars, imageVars>>,
             verdict' = verdict \/ verdict' = "refused"
      PROVE  DateInv' /\ PassedInv'
  <2>1. UNCHANGED <<mode, position, got, dates, disk, replaced>>
    BY <1>3 DEF readVars, imageVars
  <2> QED BY <1>3, <2>1 DEF DateInv, DateTypes, PassedInv, Was
<1>4. CASE GivesUp
  BY <1>3, <1>4 DEF GivesUp
<1>5. CASE Others
  BY <1>2, <1>3, <1>5 DEF Others, Edit, LeftWrites, LeftWritesCopy
<1>6. CASE UNCHANGED launchVars
  BY <1>3, <1>6 DEF launchVars
<1> QED BY <1>1, <1>4, <1>5, <1>6 DEF LaunchNext

LEMMA DatesHold == LaunchSpec => [](DateInv /\ PassedInv)
<1>1. ImageInv => OrderInv
  BY DEF ImageInv
<1> QED BY <1>1, DatesStart, DateStepsSound, ImageInvHolds, PTL DEF LaunchSpec

\* Of a chain that ended, what a program started by its path was: that of any
\* comparison of its file which no replacement parts from the start.
LEMMA StartedIsCompared ==
    ASSUME OrderInv, DateInv, PassedInv, verdict = "accepted",
           \A c \in Comparisons \cap ChainSteps : got[c] = got["attestation"],
           NEW s \in ByPath \cap ChainSteps
    PROVE  got[s] = got["attestation"] \/ ReplacedAround(s)
<1>1. \A t \in Dated \cap ChainSteps : Was(t)
  <2> SUFFICES ASSUME NEW t \in Dated \cap ChainSteps PROVE Was(t)
    OBVIOUS
  <2>1. PICK i \in DOMAIN Program[mode] : Program[mode][i] = t
    BY DEF ChainSteps
  <2>2. DOMAIN Program[mode] = 1..Len(Program[mode]) /\ Len(Program[mode]) \in Nat
    BY ProgramLengths, ModesAssumption DEF OrderInv, Program
  <2>3. i \in 1..position - 1
    BY <2>1, <2>2 DEF OrderInv
  <2> QED BY <2>1, <2>3 DEF PassedInv
<1>2. ASSUME ~ReplacedAround(s) PROVE got[s] = got["attestation"]
  <2>1. PICK c \in Comparisons \cap ChainSteps : FileOf(c) = FileOf(s) /\ dates[c] = dates[s]
    BY <1>2 DEF ReplacedAround
  <2>2. s \in Dated /\ c \in Dated /\ Was(s) /\ Was(c)
    BY <1>1 DEF Dated
  <2>3. got[c] = got[s]
    BY <2>1, <2>2 DEF DateInv
  <2> QED BY <2>3
<1> QED BY <1>2

\* Of a chain that reached its end: what it started by a descriptor or from a copy
\* that had been compared, its bootstrap and its manifest are of the image whose
\* attestation it sealed at its start; so is what it started by its path of the
\* runtime and of the tools, unless that file was replaced between the start and
\* each comparison of it; it left of its probes at most their copy of a program,
\* and gave the namespace its own authority: for any number of images, commits,
\* replacements and edits.
THEOREM LaunchesAreOfOneImage == LaunchSpec => []LaunchIsOfOneImage
<1>1. ASSUME ImageInv, DateInv, PassedInv PROVE LaunchIsOfOneImage
  <2> SUFFICES ASSUME verdict = "accepted" PROVE LaunchIsOfOneImage
    BY DEF LaunchIsOfOneImage
  <2>1. mode \in {"launch", "boundary", "adoption"} /\ position = Len(Program[mode]) + 1
    BY <1>1, ModesAssumption DEF ImageInv, OrderInv
  <2>2. ASSUME \A c \in Comparisons \cap ChainSteps : got[c] = got["attestation"]
        PROVE  \A s \in ByPath \cap ChainSteps : got[s] = got["attestation"] \/ ReplacedAround(s)
    BY <1>1, <2>2, StartedIsCompared DEF ImageInv
  <2>3. CASE mode = "launch"
    <3>1. position = 33 /\ OnLaunch /\ TrialInv
      BY <1>1, <2>1, <2>3, ProgramLengths DEF ImageInv
    <3>2. Ran = {"supervisor", "tools", "exec", "git", "tools-again", "inputs"}
      BY <2>3 DEF Ran
    <3>3. \A c \in Comparisons : got[c] = got["attestation"]
      BY <3>1 DEF OnLaunch, Comparisons
    <3>4. \A s \in Ran \cup {"manifest", "key-again"} : got[s] = got["attestation"]
      BY <3>1, <3>2 DEF OnLaunch
    <3>5. got["worker-again"] = got["worker"] /\ trial \subseteq {"program"}
      BY <3>1 DEF OnLaunch, TrialInv
    <3> QED BY <2>2, <2>3, <3>3, <3>4, <3>5 DEF LaunchIsOfOneImage
  <2>4. CASE mode = "boundary"
    <3>1. position = 16 /\ OnBoundary
      BY <1>1, <2>1, <2>4, ProgramLengths DEF ImageInv
    <3>2. Ran = {"supervisor", "dispatcher"}
      BY <2>4 DEF Ran
    <3>3. Comparisons \cap ChainSteps = {}
      <4>1. ChainSteps = {Program["boundary"][i] : i \in 1..15}
        BY <2>4, ProgramLengths DEF ChainSteps, Program
      <4>2. \A i \in 1..15 : Program["boundary"][i] \notin Comparisons
        BY BoundaryOrder DEF Comparisons
      <4> QED BY <4>1, <4>2
    <3>4. \A s \in Ran \cup {"manifest", "key-again"} : got[s] = got["attestation"]
      BY <3>1, <3>2 DEF OnBoundary
    <3> QED BY <2>2, <2>4, <3>3, <3>4 DEF LaunchIsOfOneImage
  <2>5. CASE mode = "adoption"
    <3>1. position = 34 /\ OnAdoption
      BY <1>1, <2>1, <2>5, ProgramLengths DEF ImageInv
    <3>2. Ran = {"supervisor", "dispatcher", "entrypoint", "tools", "stage"}
      BY <2>5 DEF Ran
    <3>3. \A c \in Comparisons \cap ChainSteps : c \in {"tools", "runtime", "inputs"}
      <4>1. ChainSteps = {Program["adoption"][i] : i \in 1..33}
        BY <2>5, ProgramLengths DEF ChainSteps, Program
      <4>2. \A i \in 1..33 : Program["adoption"][i] \in Comparisons =>
               Program["adoption"][i] \in {"tools", "runtime", "inputs"}
        BY AdoptionOrder DEF Comparisons
      <4> QED BY <4>1, <4>2
    <3>4. \A s \in Ran \cup {"manifest", "key-again"} : got[s] = got["attestation"]
      BY <3>1, <3>2 DEF OnAdoption
    <3>5. \A c \in Comparisons \cap ChainSteps : got[c] = got["attestation"]
      BY <3>1, <3>3 DEF OnAdoption
    <3>6. capsule = "own"
      BY <3>1 DEF OnAdoption
    <3> QED BY <2>2, <2>5, <3>4, <3>5, <3>6 DEF LaunchIsOfOneImage
  <2> QED BY <2>1, <2>3, <2>4, <2>5
<1> QED BY <1>1, ImageInvHolds, DatesHold, PTL

\* The compiler and the archive of the last row.  A change of a file of the build
\* changes its time, so that a file whose time did not change since it was looked
\* at was read as it was then; the two looks enclose both reads.
BuildTypes ==
    /\ stamps \in [Built -> Nat] /\ target \in [Built -> Nat]
    /\ left \in BOOLEAN /\ touched \in BOOLEAN
    /\ ~left => ~touched

LookedAt == [f \in Built |-> got["stat"][f] + 1]

OnBuild ==
    /\ position <= 26 => ~left
    /\ ~left => \A f \in Built : stamps[f] = 0
    /\ position > 26 => (\A f \in Built : target[f] = stamps[f] + 1) /\ target \in shown
    /\ position > 27 =>
        /\ got["stat"] \in [Built -> Nat]
        /\ \A f \in Built : got["stat"][f] <= stamps[f]
        /\ LookedAt \in shown
    /\ position > 28 =>
        \/ stamps["compiler"] # got["stat"]["compiler"]
        \/ got["compiler"] = got["stat"]["compiler"] + 1
    /\ position > 29 =>
        \/ stamps["archive"] # got["stat"]["archive"]
        \/ got["archive"] = got["stat"]["archive"] + 1
    /\ position > 30 => \A f \in Built : got[f] = got["stat"][f] + 1
    /\ position > 31 => touched \/ copies = LookedAt
    /\ position > 33 => /\ got["launcher"] = got["describe"]
                        /\ touched \/ got["launcher"] = LookedAt

BuildInv ==
    /\ BuildTypes
    /\ mode = "adoption" /\ verdict # "refused" => OnBuild


BuildSteps == {"build", "stat", "compiler", "archive", "stat-again", "copy", "describe", "launcher"}

LEMMA BeforeTheBuild ==
    ASSUME Supervisor \/ Bootstrap \/ Dispatcher \/ AdmitsCapsule \/ StagesInputs
    PROVE  UNCHANGED buildVars /\ Program[mode][position] \notin BuildSteps
<1>1. CASE Supervisor
  BY <1>1
     DEF Supervisor, StartsSupervisor, StartsPython, Interpreters, SealsAttestation,
         ReadsKey, ReadsBootstrap, ReadsManifest, ReadsDigests, VerifiesImage, TestsRuntime, TestsTools,
         StartsTarget, ProbesNamespace, GuardsMounts, ProbesExecution, MakesLeaf, ProbesGroup,
         RetainsGit, ReadsHead, ReadsWorker, SignsRun, ExecsBootstrap,
     Probes, Takes, Compares, At, BuildSteps
<1>2. CASE Bootstrap
  BY <1>2
     DEF Bootstrap, ReadsKeyAgain, VerifiesItself, ReadsManifestAgain, ReadsWorkerAgain,
         CopiesInputs,
     Takes, Compares, At, BuildSteps
<1>3. CASE Dispatcher
  BY <1>3
     DEF Dispatcher, OpensDispatcher, RetainsRoots, BindsInputs, ReportsPresence, Preflight,
         AuthenticatesParent, BindsEntrypoint, SendsProof, ReadsAttestationAgain,
         BindsEntrypointAgain,
     Takes, Compares, At, BuildSteps
<1>4. CASE AdmitsCapsule \/ StagesInputs
  BY <1>4 DEF AdmitsCapsule, StagesInputs, Takes, At, BuildSteps
<1> QED BY <1>1, <1>2, <1>3, <1>4

LEMMA BuildStarts == LaunchInit => BuildInv
<1> SUFFICES ASSUME LaunchInit PROVE BuildInv
  OBVIOUS
<1>1. BuildTypes
  BY DEF LaunchInit, BuildTypes
<1>2. OnBuild
  BY DEF LaunchInit, OnBuild
<1> QED BY <1>1, <1>2 DEF BuildInv

LEMMA BuildOrder ==
    ASSUME OrderInv, mode = "adoption", verdict = "running"
    PROVE  /\ position \in 1..33
           /\ Program[mode][position] \notin BuildSteps => position <= 25
           /\ Program[mode][position] = "build" => position = 26
           /\ Program[mode][position] = "stat" => position = 27
           /\ Program[mode][position] = "compiler" => position = 28
           /\ Program[mode][position] = "archive" => position = 29
           /\ Program[mode][position] = "stat-again" => position = 30
           /\ Program[mode][position] = "copy" => position = 31
           /\ Program[mode][position] = "describe" => position = 32
           /\ Program[mode][position] = "launcher" => position = 33
BY ProgramLengths, AdoptionOrder DEF OrderInv, BuildSteps

LEMMA Earlier ==
    ASSUME BuildTypes, OnBuild, position <= 25, position \in Nat, UNCHANGED buildVars,
           position' = position + 1
    PROVE  OnBuild'
BY DEF BuildTypes, OnBuild, buildVars

LEMMA BuildsSound ==
    ASSUME BuildTypes, OnBuild, position = 26, position' = 27, Builds
    PROVE  OnBuild'
<1>1. target' = [f \in Built |-> 1] /\ shown' = {target'} /\ stamps' = stamps
  BY DEF Builds
<1>2. \A f \in Built : stamps[f] = 0
  BY DEF OnBuild
<1>3. \A f \in Built : target'[f] = 1 /\ stamps'[f] = 0
  BY <1>1, <1>2
<1> QED BY <1>1, <1>3 DEF OnBuild

LEMMA StatsSound ==
    ASSUME OrderInv, BuildTypes, OnBuild, position = 27, position' = 28, Stats
    PROVE  OnBuild'
<1>1. UNCHANGED buildVars /\ got'["stat"] = stamps
  BY SlotNames DEF Stats, Takes, Records, OrderInv
<1>2. (\A f \in Built : target[f] = stamps[f] + 1) /\ target \in shown
  BY DEF OnBuild
<1>3. LookedAt' = target
  BY <1>1, <1>2 DEF LookedAt, BuildTypes
<1> QED BY <1>1, <1>2, <1>3 DEF OnBuild, BuildTypes, buildVars

LEMMA CompilerSound ==
    ASSUME OrderInv, BuildTypes, OnBuild, position = 28, position' = 29, ReadsCompiler
    PROVE  OnBuild'
<1>1. /\ UNCHANGED buildVars
      /\ got'["stat"] = got["stat"] /\ got'["compiler"] = target["compiler"]
  BY SlotNames DEF ReadsCompiler, Takes, Records, OrderInv
<1>2. LookedAt' = LookedAt
  BY <1>1 DEF LookedAt
<1>3. "compiler" \in Built
  BY DEF Built
<1> QED BY <1>1, <1>2, <1>3 DEF OnBuild, BuildTypes, buildVars

LEMMA ArchiveSound ==
    ASSUME OrderInv, BuildTypes, OnBuild, position = 29, position' = 30, ReadsArchive
    PROVE  OnBuild'
<1>1. /\ UNCHANGED buildVars
      /\ got'["stat"] = got["stat"] /\ got'["compiler"] = got["compiler"]
      /\ got'["archive"] = target["archive"]
  BY SlotNames DEF ReadsArchive, Takes, Records, OrderInv
<1>2. LookedAt' = LookedAt
  BY <1>1 DEF LookedAt
<1>3. "archive" \in Built
  BY DEF Built
<1> QED BY <1>1, <1>2, <1>3 DEF OnBuild, BuildTypes, buildVars

LEMMA StatsAgainSound ==
    ASSUME OrderInv, BuildTypes, OnBuild, position = 30, position' = 31, StatsAgain,
           verdict' # "refused"
    PROVE  OnBuild'
<1>1. /\ UNCHANGED buildVars /\ stamps = got["stat"]
      /\ got'["stat"] = got["stat"] /\ got'["compiler"] = got["compiler"]
      /\ got'["archive"] = got["archive"]
  BY SlotNames DEF StatsAgain, Compares, Takes, Records, Decides, SourcesStable, OrderInv
<1>2. LookedAt' = LookedAt
  BY <1>1 DEF LookedAt
<1>3. \A f \in Built : f = "compiler" \/ f = "archive"
  BY DEF Built
<1> QED BY <1>1, <1>2, <1>3 DEF OnBuild, BuildTypes, buildVars

LEMMA WritesSound ==
    ASSUME OrderInv, BuildTypes, OnBuild, position = 31, position' = 32, WritesCopies
    PROVE  OnBuild'
<1>1. /\ copies' = [f \in Built |-> got[f]]
      /\ UNCHANGED <<got, left, target, stamps, shown, touched>>
  BY DEF WritesCopies, readVars
<1>2. LookedAt' = LookedAt
  BY <1>1 DEF LookedAt
<1>3. copies' = LookedAt
  BY <1>1 DEF LookedAt, OnBuild
<1> QED BY <1>1, <1>2, <1>3 DEF OnBuild, BuildTypes

LEMMA DescribesSound ==
    ASSUME OrderInv, BuildTypes, OnBuild, position = 32, position' = 33, Describes
    PROVE  OnBuild'
<1>1. /\ UNCHANGED buildVars /\ got'["stat"] = got["stat"]
      /\ got'["compiler"] = got["compiler"] /\ got'["archive"] = got["archive"]
  BY SlotNames DEF Describes, Takes, Records, OrderInv
<1>2. LookedAt' = LookedAt
  BY <1>1 DEF LookedAt
<1>3. \A f \in Built : f = "compiler" \/ f = "archive"
  BY DEF Built
<1> QED BY <1>1, <1>2, <1>3 DEF OnBuild, BuildTypes, buildVars

LEMMA LaunchesSound ==
    ASSUME OrderInv, BuildTypes, OnBuild, position = 33, position' = 34, Launches,
           verdict' # "refused"
    PROVE  OnBuild'
<1>1. /\ UNCHANGED buildVars /\ got'["stat"] = got["stat"]
      /\ got'["compiler"] = got["compiler"] /\ got'["archive"] = got["archive"]
      /\ got'["launcher"] = copies /\ got'["describe"] = got["describe"]
      /\ copies = got["describe"]
  BY SlotNames DEF Launches, Takes, Records, Decides, LauncherAdmits, OrderInv
<1>2. LookedAt' = LookedAt
  BY <1>1 DEF LookedAt
<1>3. \A f \in Built : f = "compiler" \/ f = "archive"
  BY DEF Built
<1> QED BY <1>1, <1>2, <1>3 DEF OnBuild, BuildTypes, buildVars

LEMMA LeftSound ==
    ASSUME BuildTypes, OnBuild, position \in Nat, NEW f \in Built, LeftWrites(f)
    PROVE  OnBuild'
<1>1. /\ left' = left /\ left /\ UNCHANGED <<got, position, copies, touched>>
      /\ stamps' = [stamps EXCEPT ![f] = stamps[f] + 1]
      /\ target' = [target EXCEPT ![f] = target[f] + 1]
      /\ shown' = shown \cup {target'}
  BY DEF LeftWrites, readVars
<1>2. position > 26
  BY <1>1 DEF OnBuild
<1>3. \A g \in Built : target'[g] = stamps'[g] + 1
  BY <1>1, <1>2 DEF OnBuild, BuildTypes
<1>4. \A g \in Built : stamps'[g] = stamps[g] \/ stamps'[g] = stamps[g] + 1
  BY <1>1 DEF BuildTypes
<1>5. LookedAt' = LookedAt
  BY <1>1 DEF LookedAt
<1>6. position > 27 => \A g \in Built : got["stat"][g] <= stamps'[g]
  BY <1>4 DEF OnBuild, BuildTypes
<1>7. ASSUME NEW g \in Built, position > 27, stamps'[g] = got["stat"][g]
      PROVE  stamps[g] = got["stat"][g]
  BY <1>4, <1>7 DEF OnBuild, BuildTypes
<1>8. position > 28 => \/ stamps'["compiler"] # got["stat"]["compiler"]
                       \/ got["compiler"] = got["stat"]["compiler"] + 1
  BY <1>7 DEF OnBuild, Built
<1>9. position > 29 => \/ stamps'["archive"] # got["stat"]["archive"]
                       \/ got["archive"] = got["stat"]["archive"] + 1
  BY <1>7 DEF OnBuild, Built
<1> QED BY <1>1, <1>2, <1>3, <1>5, <1>6, <1>8, <1>9 DEF OnBuild

LEMMA LeftCopySound ==
    ASSUME BuildTypes, OnBuild, position \in Nat, NEW f \in Built, LeftWritesCopy(f)
    PROVE  OnBuild'
<1>1. UNCHANGED <<left, position, target, stamps, shown, got>> /\ touched' = TRUE
  BY DEF LeftWritesCopy, readVars
<1>2. LookedAt' = LookedAt
  BY <1>1 DEF LookedAt
<1>3. position <= 33 \/ got["launcher"] = got["describe"]
  BY DEF OnBuild
<1> QED BY <1>1, <1>2, <1>3 DEF OnBuild

LEMMA OthersBuildNothing ==
    ASSUME OrderInv, verdict = "running", mode # "adoption"
    PROVE  Program[mode][position] \notin BuildSteps
<1>1. CASE mode = "launch"
  BY <1>1, ProgramLengths, LaunchOrder DEF OrderInv, BuildSteps
<1>2. CASE mode = "boundary"
  BY <1>2, ProgramLengths, BoundaryOrder DEF OrderInv, BuildSteps
<1> QED BY <1>1, <1>2, ModesAssumption DEF OrderInv

\* Only the rows build, and before them nobody of them is left.
LEMMA ChainKeepsBuild ==
    ASSUME OrderInv, BuildInv, Supervisor \/ Bootstrap \/ Dispatcher \/ Namespace
    PROVE  BuildInv'
<1>1. PICK op \in Slots : Advances(op)
  BY StepsOfTheChain DEF AnyMoves, Moving
<1>2. /\ verdict = "running" /\ mode' = mode /\ position \in Nat
      /\ verdict' = "refused" \/ position' = position + 1
  BY <1>1 DEF Advances, OrderInv
<1>3. CASE Supervisor \/ Bootstrap \/ Dispatcher \/ AdmitsCapsule \/ StagesInputs
  <2>1. UNCHANGED buildVars /\ Program[mode][position] \notin BuildSteps
    BY <1>3, BeforeTheBuild
  <2>2. BuildTypes'
    BY <2>1 DEF BuildInv, BuildTypes, buildVars
  <2>3. ASSUME mode = "adoption", verdict' # "refused" PROVE OnBuild'
    <3>1. position <= 25 /\ OnBuild /\ BuildTypes /\ position' = position + 1
      BY <1>2, <2>1, <2>3, BuildOrder DEF BuildInv
    <3> QED BY <1>2, <2>1, <3>1, Earlier
  <2> QED BY <1>2, <2>2, <2>3 DEF BuildInv
<1>4. ASSUME \/ Builds \/ Stats \/ ReadsCompiler \/ ReadsArchive \/ StatsAgain
             \/ WritesCopies \/ Describes \/ Launches
      PROVE  BuildInv'
  <2>1. mode = "adoption"
    <3>1. Program[mode][position] \in BuildSteps
      BY <1>4 DEF Builds, Stats, ReadsCompiler, ReadsArchive, StatsAgain, WritesCopies,
         Describes, Launches, Takes, Compares, At, BuildSteps
    <3> QED BY <1>2, <3>1, OthersBuildNothing
  <2>2. OnBuild /\ BuildTypes
    BY <1>2, <2>1 DEF BuildInv
  <2>3. /\ Builds => position = 26
        /\ Stats => position = 27
        /\ ReadsCompiler => position = 28
        /\ ReadsArchive => position = 29
        /\ StatsAgain => position = 30
        /\ WritesCopies => position = 31
        /\ Describes => position = 32
        /\ Launches => position = 33
    BY <1>2, <2>1, BuildOrder DEF Builds, Stats, ReadsCompiler, ReadsArchive, StatsAgain,
       WritesCopies, Describes, Launches, Takes, Compares, At
  <2>4. BuildTypes'
    <3>1. CASE Builds
      <4>1. ~touched /\ left' \in BOOLEAN /\ target' = [f \in Built |-> 1]
            /\ UNCHANGED <<stamps, touched>>
        BY <2>2, <2>3, <3>1 DEF Builds, BuildTypes, OnBuild
      <4> QED BY <2>2, <4>1 DEF BuildTypes
    <3>2. CASE WritesCopies
      BY <2>2, <3>2 DEF WritesCopies, BuildTypes
    <3>3. CASE Stats \/ ReadsCompiler \/ ReadsArchive \/ StatsAgain \/ Describes \/ Launches
      <4>1. UNCHANGED buildVars
        BY <3>3 DEF Stats, ReadsCompiler, ReadsArchive, StatsAgain, Describes, Launches,
           Takes,
           Compares
      <4> QED BY <2>2, <4>1 DEF BuildTypes, buildVars
    <3> QED BY <1>4, <3>1, <3>2, <3>3
  <2>5. ASSUME verdict' # "refused" PROVE OnBuild'
    <3>1. position' = position + 1
      BY <1>2, <2>5
    <3>2. CASE Builds BY <2>2, <2>3, <3>1, <3>2, BuildsSound
    <3>3. CASE Stats BY <2>2, <2>3, <3>1, <3>3, StatsSound
    <3>4. CASE ReadsCompiler BY <2>2, <2>3, <3>1, <3>4, CompilerSound
    <3>5. CASE ReadsArchive BY <2>2, <2>3, <3>1, <3>5, ArchiveSound
    <3>6. CASE StatsAgain BY <2>2, <2>3, <2>5, <3>1, <3>6, StatsAgainSound
    <3>7. CASE WritesCopies BY <2>2, <2>3, <3>1, <3>7, WritesSound
    <3>8. CASE Describes BY <2>2, <2>3, <3>1, <3>8, DescribesSound
    <3>9. CASE Launches BY <2>2, <2>3, <2>5, <3>1, <3>9, LaunchesSound
    <3> QED BY <1>4, <3>2, <3>3, <3>4, <3>5, <3>6, <3>7, <3>8, <3>9
  <2> QED BY <2>4, <2>5 DEF BuildInv
<1> QED BY <1>3, <1>4 DEF Namespace

LEMMA OthersKeepBuild ==
    ASSUME OrderInv, BuildInv, Others \/ GivesUp \/ UNCHANGED launchVars
    PROVE  BuildInv'
<1>0. position \in Nat
  BY ProgramLengths, ModesAssumption DEF OrderInv
<1>1. CASE GivesUp
  BY <1>1 DEF GivesUp, BuildInv, BuildTypes, buildVars
<1>2. ASSUME UNCHANGED <<mode, position, verdict, got, buildVars>> PROVE BuildInv'
  <2>1. BuildTypes'
    BY <1>2 DEF BuildInv, BuildTypes, buildVars
  <2>2. LookedAt' = LookedAt
    BY <1>2 DEF LookedAt
  <2>3. OnBuild => OnBuild'
    BY <1>2, <2>2 DEF OnBuild, buildVars
  <2> QED BY <1>2, <2>1, <2>3 DEF BuildInv
<1>3. ASSUME NEW f \in Built, LeftWrites(f) PROVE BuildInv'
  <2>1. UNCHANGED <<mode, verdict>>
    BY <1>3 DEF LeftWrites
  <2>2. BuildTypes'
    BY <1>3 DEF LeftWrites, BuildInv, BuildTypes
  <2> QED BY <1>0, <1>3, <2>1, <2>2, LeftSound DEF BuildInv
<1>4. ASSUME NEW f \in Built, LeftWritesCopy(f) PROVE BuildInv'
  <2>1. UNCHANGED <<mode, verdict>>
    BY <1>4 DEF LeftWritesCopy
  <2>2. BuildTypes'
    BY <1>4 DEF LeftWritesCopy, BuildInv, BuildTypes
  <2> QED BY <1>0, <1>4, <2>1, <2>2, LeftCopySound DEF BuildInv
<1>5. CASE \/ \E f \in ImageFiles, i \in Images : Install(f, i)
           \/ Edit \/ UNCHANGED launchVars
  BY <1>2, <1>5 DEF Install, Edit, launchVars, readVars
<1> QED BY <1>1, <1>3, <1>4, <1>5 DEF Others

LEMMA BuildStepsSound == ImageInv /\ BuildInv /\ [LaunchNext]_launchVars => BuildInv'
BY ChainKeepsBuild, OthersKeepBuild DEF ImageInv, LaunchNext

LEMMA BuildInvHolds == LaunchSpec => []BuildInv
BY BuildStarts, BuildStepsSound, ImageInvHolds, PTL DEF LaunchSpec

\* What the last row executes is what was described for it; unless a process that
\* was left wrote into the copies it is a pair that was in the build directory at
\* one moment, and without such a process it is the pair the build left, for any
\* number of writes.
THEOREM CompilersAreTheDescribed == LaunchSpec => []CompilerIsTheDescribed
<1>1. ASSUME ImageInv, BuildInv PROVE CompilerIsTheDescribed
  <2> SUFFICES ASSUME mode = "adoption", verdict = "accepted" PROVE CompilerIsTheDescribed
    BY DEF CompilerIsTheDescribed
  <2>1. position = 34 /\ OnBuild /\ BuildTypes
    BY <1>1, ProgramLengths DEF ImageInv, OrderInv, BuildInv
  <2>2. /\ got["launcher"] = got["describe"]
        /\ touched \/ got["launcher"] = LookedAt
        /\ LookedAt \in shown
    BY <2>1 DEF OnBuild
  <2>3. ASSUME ~left PROVE got["launcher"] = [f \in Built |-> 1]
    <3>1. \A f \in Built : got["stat"][f] \in Nat /\ got["stat"][f] <= 0
      BY <2>1, <2>3 DEF OnBuild
    <3>2. \A f \in Built : got["stat"][f] + 1 = 1
      BY <3>1
    <3>3. LookedAt = [f \in Built |-> 1]
      BY <3>2 DEF LookedAt
    <3> QED BY <2>1, <2>2, <2>3, <3>3 DEF BuildTypes
  <2> QED BY <2>2, <2>3 DEF CompilerIsTheDescribed
<1> QED BY <1>1, ImageInvHolds, BuildInvHolds, PTL
=============================================================================
