---------------------------- MODULE ProcessTree ----------------------------
(***************************************************************************)
(* The process table as the owner of a child sees it: a model of Linux,    *)
(* not of the repository.  The owner is process 0, a child subreaper; its  *)
(* child, process 1, leads a group of its own.  Process ids ascend and are *)
(* not used again.  A process forks, leaves the group of its parent, exits,*)
(* is reaped by its parent; its children go to the owner when it exits.  A *)
(* process that was sent SIGKILL does nothing more but exit.               *)
(*                                                                         *)
(* A directory scan of the table lists the present processes at once and   *)
(* then reads the entry of one after the other.                            *)
(***************************************************************************)
EXTENDS Naturals, FiniteSetsExt

CONSTANT Processes   \* 1..n: the child and those it may ever fork

ASSUME ProcessAssumption ==
  IsFiniteSet(Processes) /\ Processes = 1..Cardinality(Processes) /\ 1 \in Processes

VARIABLES
  life,     \* "unborn", "live", "zombie" or "gone"
  parent,   \* who may wait for it
  forker,   \* who forked it
  inGroup,  \* whether it is in the child's process group
  killed    \* those that were sent SIGKILL

treeVars == <<life, parent, forker, inGroup, killed>>

Owner == 0
Child == 1
InTable(p) == life[p] \in {"live", "zombie"}
Table == {p \in Processes : InTable(p)}
Living == {p \in Processes : life[p] = "live"}
Unborn == {p \in Processes : life[p] = "unborn"}
Group == {p \in Table : inGroup[p]}
Children(p) == {q \in Table : parent[q] = p}

TreeInit ==
  /\ life = [p \in Processes |-> IF p = Child THEN "live" ELSE "unborn"]
  /\ parent = [p \in Processes |-> Owner] /\ forker = [p \in Processes |-> Owner]
  /\ inGroup = [p \in Processes |-> p = Child]
  /\ killed = {}

Forks(p) ==
  /\ life[p] = "live" /\ p \notin killed /\ Unborn # {}
  /\ LET q == Min(Unborn)
     IN  /\ life' = [life EXCEPT ![q] = "live"]
         /\ parent' = [parent EXCEPT ![q] = p] /\ forker' = [forker EXCEPT ![q] = p]
         /\ \E setsid \in BOOLEAN : inGroup' = [inGroup EXCEPT ![q] = inGroup[p] /\ ~setsid]
  /\ UNCHANGED killed

\* Its children are adopted by the owner.
Exits(p) ==
  /\ life[p] = "live" /\ life' = [life EXCEPT ![p] = "zombie"]
  /\ parent' = [q \in Processes |-> IF InTable(q) /\ parent[q] = p THEN Owner ELSE parent[q]]
  /\ UNCHANGED <<forker, inGroup, killed>>

ReapedByParent(p) ==
  /\ life[p] = "zombie" /\ parent[p] # Owner
  /\ life[parent[p]] = "live" /\ parent[p] \notin killed
  /\ life' = [life EXCEPT ![p] = "gone"]
  /\ UNCHANGED <<parent, forker, inGroup, killed>>

TreeNext == \E p \in Processes : Forks(p) \/ Exits(p) \/ ReapedByParent(p)
=============================================================================
