----------------------------- MODULE SourceTree -----------------------------
(***************************************************************************)
(* A checkout while somebody works in it.  Every tool of the repository    *)
(* that names a commit in a record reads HEAD, the index and the files of  *)
(* such a checkout one after the other, and whoever works in it (an        *)
(* editor, git, another build) may write between any two of the reads.     *)
(*                                                                         *)
(* A commit is the tree it names, so two commits of one tree are one here: *)
(* going back to an earlier tree is going back to an earlier commit, which *)
(* makes a change that is taken back harder to see.  The value of a path   *)
(* stands for its type, mode and bytes together.  plain is FALSE while the *)
(* repository has a replacement reference, a graft, an alternate or a      *)
(* configuration with commands, that is, while git may answer for another  *)
(* repository than the one on the disk.                                    *)
(*                                                                         *)
(* stamp[t] is the change time of t: the number of the edit that last      *)
(* wrote it.  It never returns to an earlier number.                       *)
(***************************************************************************)
EXTENDS Naturals, FiniteSets

CONSTANTS
    Tracked,        \* the paths of the commit the readers expect
    Stray,          \* the paths that commit does not have
    Good,           \* the value the expected commit gives its paths
    Bad,            \* any other value of a path
    Absent,         \* the value of a path that is not there
    MaxEdits        \* bound on the writes of a behaviour

ASSUME PathsAssumption == Tracked \cap Stray = {} /\ Tracked # {}
ASSUME ValuesAssumption == Cardinality({Good, Bad, Absent}) = 3
ASSUME NamesAssumption == (Tracked \cup Stray) \cap {"HEAD", "index", "root"} = {}

Files == Tracked \cup Stray
Values == {Good, Bad, Absent}
Trees == [Files -> Values]

\* A path the commit does not have is there or not.
ValuesOf(f) == IF f \in Tracked THEN Values ELSE {Bad, Absent}

\* The commit the readers expect.
Pinned == [f \in Files |-> IF f \in Tracked THEN Good ELSE Absent]

\* What carries a change time that a reader may keep.
Things == Files \cup {"HEAD", "index", "root"}

VARIABLES
    head,       \* the tree of the commit HEAD resolves to
    index,      \* the tree of the index
    work,       \* the worktree
    plain,      \* git answers for this repository
    stamp,      \* change times
    edits,      \* the writes so far
    had,        \* history: the values each path, and HEAD, has had
    undone,     \* history: a path, or HEAD, was given a value it had before
    moments     \* history: every state of HEAD, index and worktree

treeVars == <<head, index, work, plain, stamp, edits, had, undone, moments>>

TreeTypeOK ==
    /\ head \in Trees /\ index \in Trees /\ work \in Trees
    /\ plain \in BOOLEAN
    /\ stamp \in [Things -> 0..MaxEdits]
    /\ edits \in 0..MaxEdits
    /\ \A f \in Files : had[f] \subseteq Values
    /\ had["HEAD"] \subseteq Trees
    /\ undone \in BOOLEAN
    /\ moments \subseteq [head : Trees, index : Trees, work : Trees]

Moment(h, i, w) == [head |-> h, index |-> i, work |-> w]

\* Somebody is in the middle of an edit, or of a change of commit.
TreeInit ==
    /\ head \in {Pinned, [f \in Files |-> IF f \in Tracked THEN Bad ELSE Absent]}
    /\ index = head
    /\ work \in {t \in Trees : \A f \in Files :
            t[f] \in ValuesOf(f) /\ (f \in Tracked => t[f] # Absent)}
    /\ plain = TRUE
    /\ stamp = [t \in Things |-> 0]
    /\ edits = 0
    /\ had = [t \in Files \cup {"HEAD"} |-> IF t = "HEAD" THEN {head} ELSE {work[t]}]
    /\ undone = FALSE
    /\ moments = {Moment(head, index, work)}

Written(things) ==
    /\ edits < MaxEdits
    /\ edits' = edits + 1
    /\ stamp' = [t \in Things |-> IF t \in things THEN edits + 1 ELSE stamp[t]]
    /\ moments' = moments \cup {Moment(head', index', work')}

\* A path gets a value.  A path that comes or goes changes its directory.
WriteFile(f, v) ==
    /\ work[f] # v
    /\ work' = [work EXCEPT ![f] = v]
    /\ had' = [had EXCEPT ![f] = @ \cup {v}]
    /\ undone' = (undone \/ v \in had[f])
    /\ UNCHANGED <<head, index, plain>>
    /\ Written({f} \cup (IF Absent \in {work[f], v} THEN {"root"} ELSE {}))

\* git add of everything, or git reset of the index.
WriteIndex(tree) ==
    /\ index # tree
    /\ index' = tree
    /\ UNCHANGED <<head, work, plain, had, undone>>
    /\ Written({"index"})

\* git commit, or git reset to the expected commit.
MoveHead(tree) ==
    /\ head # tree
    /\ head' = tree
    /\ had' = [had EXCEPT !["HEAD"] = @ \cup {tree}]
    /\ undone' = (undone \/ tree \in had["HEAD"])
    /\ UNCHANGED <<index, work, plain>>
    /\ Written({"HEAD"})

\* A replacement reference, a graft or an alternate is made or removed.
Interfere ==
    /\ plain' = ~plain
    /\ UNCHANGED <<head, index, work, had, undone>>
    /\ Written({})

Developer ==
    \/ \E f \in Files : \E v \in ValuesOf(f) : WriteFile(f, v)
    \/ \E tree \in {work, head} : WriteIndex(tree)
    \/ \E tree \in {index, Pinned} : MoveHead(tree)
    \/ Interfere
=============================================================================
