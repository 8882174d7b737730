--------------------------- MODULE FreshChildren ---------------------------
(***************************************************************************)
(* The child boundaries of the fresh image, beside those of ChildBoundary: *)
(*                                                                         *)
(*   "control"   _run_controlled_child of fresh_image_control.py: a child  *)
(*               in a control group of its own (its leaf), a subreaper;    *)
(*   "dispatch"  _boundary_dispatch of the same file;                      *)
(*   "git" and   _run_git and _launch_worker of request6_adoption.py;      *)
(*   "worker"                                                              *)
(*   "row"       _run_row of adoption_namespace.py, a subreaper too.       *)
(*                                                                         *)
(* Abstractions: a process may close its outputs at any time, so their end *)
(* may be read at any time; SIGTERM may be ignored.  A process is a member *)
(* of the leaf until it exits, as in version 2 of control groups, and a    *)
(* write to cgroup.kill kills all members, whoever they belong to.         *)
(***************************************************************************)
EXTENDS ChildBoundary

CONSTANT FreshCallers

ASSUME FreshAssumption == FreshCallers \subseteq {"control", "dispatch", "git", "worker", "row"}

VARIABLES
  leaf,      \* "none", "ours", "removed" or "kept"
  ended,     \* both outputs were read to their end
  polled,    \* the owner has the exit status of its child
  active,    \* the last look found children that run
  failed,    \* an adopted process of a row ended badly
  forced,    \* the control child had to be terminated
  error,     \* an error of the control child is on its way up
  late       \* history: the exit of a row was seen by the condition of its loop

freshVars == <<leaf, ended, polled, active, failed, forced, error, late>>
allVars == <<toolVars, freshVars>>
rest == <<scanVars, callVars>>

Waitable == life[Child] = "zombie"
\* waitpid of the child by its id, when it has been waited for already or not.
Polls == polled' = (polled \/ Waitable) /\ Reaps(IF Waitable THEN {Child} ELSE {})
Childless == Children(Owner) = {}

FreshInit ==
  /\ life = [p \in Processes |-> "unborn"]
  /\ parent = [p \in Processes |-> Owner] /\ forker = [p \in Processes |-> Owner]
  /\ inGroup = [p \in Processes |-> p = Child] /\ killed = {}
  /\ caller \in FreshCallers /\ stubborn = {}
  /\ place = "lease" /\ cause = "none" /\ code = 0
  /\ scan = NoScan /\ owned = {} /\ complete = TRUE /\ rounds = Rounds
  /\ outcome = NoOutcome

NoFresh ==
  /\ leaf = "none" /\ error = FALSE /\ forced = FALSE /\ late = FALSE
  /\ ended = FALSE /\ polled = FALSE /\ active = FALSE /\ failed = FALSE

Raises == Ends("RAISED", FALSE, FALSE)
-----------------------------------------------------------------------------
(* The control child.                                                      *)

\* _control_cgroup_lease, or Popen, fails.  An error after the directory was made
\* and before it was opened leaves it there.
LeaseFails ==
  /\ place = "lease" /\ caller = "control"
  /\ leaf' \in {"none", "kept", "removed"} /\ Raises
  /\ UNCHANGED <<treeVars, rest, cause, code, ended, polled, active, failed, forced, error, late>>

\* The child enters its leaf before it executes anything.  Every caller starts
\* its child in a group of its own but the boundary's dispatcher, whose group is
\* never looked at.
StartsChild ==
  /\ place = "lease"
  /\ life' = [life EXCEPT ![Child] = "live"] /\ UNCHANGED <<parent, forker, inGroup, killed>>
  /\ IF caller = "control" THEN place' = "admit" /\ leaf' = "ours" ELSE place' = "loop" /\ UNCHANGED leaf
  /\ code' \in {0, 1}
  /\ UNCHANGED <<rest, cause, outcome, ended, polled, active, failed, forced, error, late>>

\* _control_cgroup_child_membership: the child is the only member, or it has
\* ended and there is none.
Admits ==
  /\ place = "admit"
  /\ \/ Living = {Child} /\ place' = "reading" /\ UNCHANGED <<treeVars, polled, error>>
     \/ /\ Living # {Child} /\ Polls
        /\ IF polled' /\ Living = {} THEN place' = "reading" /\ UNCHANGED error
           ELSE place' = "terminate" /\ error' = TRUE
  /\ UNCHANGED <<rest, cause, code, outcome, leaf, ended, active, failed, forced, late>>

\* Both outputs to their end, or to the deadline or the limit, or an error.
ControlReads ==
  /\ place = "reading"
  /\ \/ cause' = "end" /\ place' = "waiting-child" /\ UNCHANGED error
     \/ cause' \in {"timeout", "output"} /\ place' = "terminate" /\ UNCHANGED error
     \/ place' = "terminate" /\ error' = TRUE /\ UNCHANGED cause
  /\ UNCHANGED <<treeVars, rest, code, outcome, leaf, ended, polled, active, failed, forced, late>>

ControlWaits ==
  /\ place = "waiting-child" /\ place' = "terminate"
  /\ \/ (polled \/ Waitable) /\ Polls /\ UNCHANGED cause
     \/ ~polled /\ cause' = "timeout" /\ UNCHANGED <<treeVars, polled>>
  /\ UNCHANGED <<rest, code, outcome, leaf, ended, active, failed, forced, error, late>>

\* _control_terminate.  Whether the child still ran, then SIGTERM to its group.
Terminates ==
  /\ place = "terminate" /\ place' = "grace"
  /\ Polls /\ forced' = ~polled'
  /\ UNCHANGED <<rest, cause, code, outcome, leaf, ended, active, failed, error, late>>

\* _control_reap_descendants: every child is reaped until there is none, or to
\* a deadline.
ReapsAll(next, otherwise) ==
  \/ /\ Children(Owner) \subseteq Zombies(Table) /\ Reaps(Children(Owner))
     /\ polled' = TRUE /\ next
  \/ /\ ~Childless /\ otherwise
     /\ \E set \in SUBSET Zombies(Table) :
          Reaps(set) /\ polled' = (polled \/ Child \in set)

\* A grace of one second.
Grace ==
  /\ place = "grace" /\ place' = "populated"
  /\ ReapsAll(active' = FALSE, active' = TRUE)
  /\ UNCHANGED <<rest, cause, code, outcome, leaf, ended, failed, forced, error, late>>

\* Somebody is left: the leaf is killed.
Populated == Living # {}
LeftOver == active \/ ~polled \/ Populated
KillsLeaf ==
  /\ place = "populated" /\ place' = "wait-five"
  /\ IF LeftOver THEN forced' = TRUE /\ killed' = killed \cup Living ELSE UNCHANGED <<forced, killed>>
  /\ UNCHANGED <<life, parent, forker, inGroup>>
  /\ UNCHANGED <<rest, cause, code, outcome, leaf, ended, polled, active, failed, error, late>>

\* What goes wrong in the termination is raised; the error path terminates once
\* more, and an error there is final.
TerminationFails ==
  IF error THEN place' = "clean-leaf" /\ UNCHANGED error ELSE place' = "terminate" /\ error' = TRUE

\* The leaf or the process table cannot be read, or the child does not go.
TerminationBreaks ==
  /\ place \in {"grace", "populated", "wait-five", "reap-all", "empty"}
  /\ TerminationFails
  /\ UNCHANGED <<treeVars, rest, cause, code, outcome, leaf, ended, polled, active, failed, forced, late>>

WaitsFive ==
  /\ place = "wait-five" /\ (polled \/ Waitable) /\ place' = "reap-all"
  /\ Polls
  /\ UNCHANGED <<rest, cause, code, outcome, leaf, ended, active, failed, forced, error, late>>

ReapsRest ==
  /\ place = "reap-all"
  /\ ReapsAll(place' = "empty" /\ UNCHANGED error, TerminationFails)
  /\ UNCHANGED <<rest, cause, code, outcome, leaf, ended, active, failed, forced, late>>

LeafEmpty ==
  /\ place = "empty"
  /\ IF Populated THEN TerminationFails ELSE place' = "clean-leaf" /\ UNCHANGED error
  /\ UNCHANGED <<treeVars, rest, cause, code, outcome, leaf, ended, polled, active, failed, forced, late>>

\* What the caller is told, in the order of the raises.  A result whatever had
\* to be killed for it.
ControlStatusOfChild(kept) ==
  IF kept \/ error \/ cause \in {"timeout", "output"} THEN "RAISED" ELSE "RETURNED"
ControlStatus(kept) ==
  IF kept \/ error \/ cause \in {"timeout", "output"} \/ forced THEN "RAISED" ELSE "RETURNED"

\* _control_cleanup_lease: the leaf is removed if nobody is in it.
CleansLeaf ==
  /\ place = "clean-leaf"
  /\ \/ ~Populated /\ leaf' = "removed"
     \/ leaf' = "kept"
  /\ LET status == ControlStatus(leaf' = "kept") IN Ends(status, status = "RETURNED", ~forced)
  /\ UNCHANGED <<treeVars, rest, cause, code, ended, polled, active, failed, forced, error, late>>
-----------------------------------------------------------------------------
(* The loops of the other callers: while an output is open or the child    *)
(* runs.                                                                   *)

\* The condition of a loop looks at the child only when both outputs have ended.
\* The dispatcher looks at it at the head of each pass instead.
Condition ==
  /\ place = "loop" /\ caller # "dispatch"
  /\ IF ended THEN Polls ELSE UNCHANGED <<treeVars, polled>>
  /\ late' = (late \/ (ended /\ polled' /\ ~polled))
  /\ place' = IF ended /\ polled' /\ ~active THEN "exit" ELSE "head"
  /\ UNCHANGED <<rest, cause, code, outcome, leaf, ended, active, failed, forced, error>>

\* reap_descendants of a row: everything that has ended is reaped.  (A look that
\* stopped at the first child that runs would say that there is none.)
Adopted == Zombies(Table) \ {Child}
LooksAtEnded ==
  /\ Reaps(Zombies(Table)) /\ active' = FALSE /\ UNCHANGED failed
LooksAtAdopted ==
  /\ Reaps(Zombies(Table)) /\ active' = (Children(Owner) # Zombies(Table))
  /\ \/ UNCHANGED failed
     \/ Adopted # {} /\ failed' = TRUE

\* A row first asks whether its channel is open and, once its child has ended,
\* what it left behind.
RowHead ==
  /\ place = "head" /\ caller = "row"
  /\ \/ /\ (polled \/ Waitable) /\ polled' = TRUE /\ LooksAtAdopted
     \/ ~(polled \/ Waitable) /\ UNCHANGED <<treeVars, polled, active, failed>>
  /\ place' = "select"
  /\ UNCHANGED <<rest, cause, code, outcome, leaf, ended, forced, error, late>>

OtherHead ==
  /\ place = "head" /\ caller \in {"git", "worker"} /\ place' = "select"
  /\ UNCHANGED <<treeVars, rest, cause, code, outcome, freshVars>>

DispatchHead ==
  /\ place = "loop" /\ caller = "dispatch"
  /\ \/ ended /\ polled /\ place' = "exit" /\ UNCHANGED <<treeVars, polled>>
     \/ ~(ended /\ polled) /\ Polls /\ place' = "select"
  /\ UNCHANGED <<rest, cause, code, outcome, leaf, ended, active, failed, forced, error, late>>

\* A pass reads what is there.  Without an open output git, the worker and the
\* row sleep for a moment, the dispatcher to its deadline.
Selects ==
  /\ place = "select"
  /\ \/ ~ended /\ ended' \in BOOLEAN /\ place' = "loop"
     \/ ended /\ (caller # "dispatch" \/ polled) /\ place' = "loop" /\ UNCHANGED ended
  /\ UNCHANGED <<treeVars, rest, cause, code, outcome, leaf, polled, active, failed, forced, error, late>>

\* A deadline, a limit, a closed channel or an error.
Stops ==
  /\ place = "select" /\ place' = "stop"
  /\ cause' \in {"timeout", "output"}
  /\ UNCHANGED <<treeVars, rest, code, outcome, freshVars>>

\* The exit status decides.
Exits0 ==
  /\ place = "exit"
  /\ IF code = 0 /\ ~failed THEN Ends("ACCEPTED", TRUE, TRUE) ELSE Raises
  /\ UNCHANGED <<treeVars, rest, cause, code, freshVars>>

\* terminate of git and of the worker: the group of a child that still runs is
\* killed and the child waited for.  The dispatcher kills its child only.
KillsChild ==
  /\ place = "stop" /\ caller # "row"
  /\ Polls
  /\ place' = "stopped"
  /\ UNCHANGED <<rest, cause, code, outcome, leaf, ended, active, failed, forced, error, late>>
SendsKill ==
  /\ place = "stopped" /\ place' = "reaped" /\ caller # "row"
  /\ Kills(IF polled THEN {} ELSE IF caller = "dispatch" THEN {Child} ELSE Group)
  /\ UNCHANGED <<rest, cause, code, outcome, freshVars>>
\* git and the worker give up waiting at a deadline, the dispatcher does not.
WaitsKilled ==
  /\ place = "reaped"
  /\ \/ (polled \/ Waitable) /\ Polls
     \/ caller # "dispatch" /\ ~polled /\ UNCHANGED <<treeVars, polled>>
  /\ Raises
  /\ UNCHANGED <<rest, cause, code, leaf, ended, active, failed, forced, error, late>>

\* terminate of a row: what has ended is reaped, the group is killed if anybody
\* is left, then all children of the owner, again and again.
RowStops ==
  /\ place = "stop" /\ caller = "row" /\ place' = "kill-owned"
  /\ polled' = (polled \/ Waitable)
  /\ life' = [p \in Processes |-> IF p \in Zombies(Table) THEN "gone" ELSE life[p]]
  /\ killed' = killed \cup (IF Children(Owner) # Zombies(Table) THEN Group \ Zombies(Table) ELSE {})
  /\ UNCHANGED <<parent, forker, inGroup>>
  /\ UNCHANGED <<rest, cause, code, outcome, leaf, ended, active, failed, forced, error, late>>
KillsChildren ==
  /\ place = "kill-owned" /\ place' = "reap-owned"
  /\ Kills(Children(Owner))
  /\ UNCHANGED <<rest, cause, code, outcome, freshVars>>
ReapsChildren ==
  /\ place = "reap-owned"
  /\ Reaps(Zombies(Table)) /\ polled' = (polled \/ Waitable)
  /\ \/ Children(Owner) = Zombies(Table) /\ Ends("RAISED", TRUE, FALSE) /\ UNCHANGED rounds
     \/ /\ Children(Owner) # Zombies(Table)
        /\ \/ rounds > 0 /\ rounds' = rounds - 1 /\ place' = "kill-owned" /\ UNCHANGED outcome
           \/ Raises /\ UNCHANGED rounds
  /\ UNCHANGED <<callVars, scan, owned, complete, cause, code, leaf, ended, active, failed, forced, error, late>>
-----------------------------------------------------------------------------
Control ==
  \/ LeaseFails \/ Admits \/ ControlReads \/ ControlWaits \/ Terminates \/ Grace
  \/ KillsLeaf \/ TerminationBreaks \/ WaitsFive \/ ReapsRest \/ LeafEmpty \/ CleansLeaf
Loops ==
  \/ Condition \/ RowHead \/ OtherHead \/ DispatchHead \/ Selects \/ Stops \/ Exits0
  \/ KillsChild \/ SendsKill \/ WaitsKilled \/ RowStops \/ KillsChildren \/ ReapsChildren

Image == caller \in FreshCallers /\ (StartsChild \/ Control \/ Loops)
Tools == ToolNext /\ UNCHANGED freshVars

ChildInit == (ToolInit \/ FreshInit) /\ NoFresh
ChildNext == Tools \/ Image
ChildSpec == ChildInit /\ [][ChildNext]_allVars

-----------------------------------------------------------------------------
\* A result of a control child means that nothing of it is left: no process of
\* it is there, no process had to be killed for it, and its leaf is removed.
ControlReturnsAlone ==
  Done /\ caller = "control" /\ outcome.clean => Table = {} /\ killed = {} /\ leaf = "removed"

\* An accepted row leaves nobody behind, unless the condition of its loop was
\* the first to see the exit: then what the child left is not looked at.
AcceptedRowIsAlone ==
  Done /\ caller = "row" /\ outcome.clean /\ ~late => Table = {}

\* Neither of the owners inside the image hands on a result with a process of
\* its child behind it.
FreshReturnsAlone == ControlReturnsAlone /\ AcceptedRowIsAlone
=============================================================================
