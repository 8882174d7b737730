--------------------------- MODULE ChildBoundary ---------------------------
(***************************************************************************)
(* The child boundaries of the Python tools: a caller starts one child in  *)
(* a group of its own, reads it to its end or to a deadline, and then      *)
(* looks for processes that were left behind and removes them.             *)
(*                                                                         *)
(* The prompt tools (evaluator, gate, verifier, snapshot helper, the two   *)
(* runs of an adapter) share one cleanup, copied into every script; the    *)
(* coding-task runner, the qualifier of GPU runs and the verification      *)
(* summary have each their own.  One run is of one caller, chosen at the   *)
(* start, beside the processes of ProcessTree that fork, change groups and *)
(* exit between any two of its steps.                                      *)
(*                                                                         *)
(* Abstractions: output is read in one step; a deadline may pass at any    *)
(* moment at which the code compares with it; SIGTERM and a relayed signal *)
(* may be ignored and have no effect of their own.                         *)
(***************************************************************************)
EXTENDS ProcessTree

CONSTANTS
  Callers,    \* the callers looked at
  Stubborn,   \* processes the owner may lack the right to signal
  Rounds      \* bound: passes of a loop that looks at a deadline

Contained == {"evaluator", "gate", "verifier", "helper", "generation", "validation", "fixture"}
Adapters == {"generation", "validation", "fixture"}

ASSUME BoundaryAssumption ==
  /\ Callers \subseteq Contained \cup {"coding", "qualifier", "summary"}
  /\ Stubborn \subseteq Processes /\ Rounds \in Nat

VARIABLES
  caller,
  stubborn,  \* those that refuse a signal in this run
  place,     \* where the caller is
  cause,     \* why reading ended
  code,      \* the exit status of the child
  scan,      \* the scan of the process table: listed, not yet read, read
  owned,     \* processes the cleanup has seen
  complete,  \* no signal was refused
  rounds,
  outcome

callVars == <<caller, stubborn>>
scanVars == <<scan, owned, complete, rounds>>
toolVars == <<treeVars, callVars, place, cause, code, scanVars, outcome>>

NoScan == [on |-> FALSE, listed |-> {}, todo |-> {}, read |-> <<>>, dead |-> {}]
NoOutcome == [status |-> "none", clean |-> FALSE, contained |-> FALSE]

ToolInit ==
  /\ TreeInit
  /\ caller \in Callers /\ stubborn \in {{}, Stubborn}
  /\ place = "run" /\ cause = "none" /\ code = 0
  /\ scan = NoScan /\ owned = {} /\ complete = TRUE /\ rounds = Rounds
  /\ outcome = NoOutcome

Passes(a, b) == place = a /\ place' = b
CallIsKept == UNCHANGED <<callVars, code, outcome>>
Ends(status, clean, contained) ==
  /\ place' = "done" /\ outcome' = [status |-> status, clean |-> clean, contained |-> contained]

Reaps(set) ==
  /\ life' = [p \in Processes |-> IF p \in set THEN "gone" ELSE life[p]]
  /\ UNCHANGED <<parent, forker, inGroup, killed>>
Zombies(set) == {p \in set : life[p] = "zombie" /\ parent[p] = Owner}
\* kill_process_ids: a process that is gone is no failure, a refusal is one.
Kills(set) ==
  /\ killed' = killed \cup ((set \cap Table) \ stubborn)
  /\ UNCHANGED <<life, parent, forker, inGroup>>
Refused(set) == set \cap Table \cap stubborn
\* killpg fails when not one member could be signalled.
GroupRefuses == Group # {} /\ Group \subseteq stubborn
-----------------------------------------------------------------------------
(* descendant_process_ids                                                  *)

ScanPoints == {"checking", "first", "second", "again", "final",
               "owned", "adopted", "before", "terminating", "killing", "after"}

BeginScan ==
  /\ place \in ScanPoints /\ ~scan.on
  /\ scan' = [on |-> TRUE, listed |-> Table, todo |-> Table, read |-> <<>>, dead |-> {}]
  /\ UNCHANGED <<treeVars, place, cause, owned, complete, rounds>> /\ CallIsKept

\* An entry that is gone when it is read is dropped.
ReadEntry ==
  /\ scan.on /\ scan.todo # {}
  /\ LET p == Min(scan.todo)
     IN  scan' = [scan EXCEPT
           !.todo = @ \ {p},
           !.read = IF InTable(p) THEN [q \in DOMAIN @ \cup {p} |-> IF q = p THEN parent[p] ELSE @[q]] ELSE @,
           !.dead = IF life[p] = "zombie" THEN @ \cup {p} ELSE @]
  /\ UNCHANGED <<treeVars, place, cause, owned, complete, rounds>> /\ CallIsKept

Scanned(point) == place = point /\ scan.on /\ scan.todo = {}
\* The entries under the roots by the parent links that were read.
Reached(roots) ==
  LET reach[p \in {Owner} \cup Processes] ==
        p \in roots \/ (p \in DOMAIN scan.read /\ reach[scan.read[p]])
  IN  {p \in DOMAIN scan.read \ roots : reach[p]}
\* What a scan that trusted the process group alone would report.
FoundInGroup(roots) == {p \in Reached(roots) \ scan.dead : inGroup[p]}
Found(roots) == Reached(roots) \ scan.dead
EndsScan == scan' = [scan EXCEPT !.on = FALSE, !.todo = {}, !.read = <<>>, !.dead = {}]
-----------------------------------------------------------------------------
(* Reading the child of a prompt tool.                                     *)

\* End of both streams, and the child waited for.
ReadToEnd ==
  /\ place = "run" /\ caller \in Contained /\ life[Child] = "zombie"
  /\ Reaps({Child}) /\ code' \in {0, 1} /\ cause' = "end"
  /\ place' = IF caller \in Adapters THEN "sealed" ELSE "check"
  /\ UNCHANGED <<callVars, scanVars, outcome>>

ReadFails ==
  /\ place = "run" /\ caller \in Contained
  /\ cause' \in {"timeout", "oserror"} \cup IF caller \in Adapters THEN {} ELSE {"output"}
  /\ place' = "first" /\ complete' = TRUE
  /\ UNCHANGED <<treeVars, scan, owned, rounds>> /\ CallIsKept

\* The adapters compare their sealed inputs.  In run_generation_child nobody
\* catches the error there, and the cleanup is left out.
Sealed ==
  /\ place = "sealed"
  /\ \/ place' = "check" /\ UNCHANGED <<cause, outcome>>
     \/ /\ cause' = "unsealed"
        /\ IF caller = "generation" THEN Ends("ERROR", TRUE, TRUE)
           ELSE place' = "first" /\ UNCHANGED outcome
  /\ UNCHANGED <<treeVars, callVars, code, scanVars>>

Success ==
  CASE caller \in {"validation", "fixture"} -> IF code = 0 THEN "PASS" ELSE "TEST_FAIL"
    [] caller = "generation" -> IF code = 0 THEN "GENERATED" ELSE "ERROR"
    [] OTHER -> IF code = 0 THEN "OK" ELSE "FAILED"

\* A group that still exists is enough; otherwise the descendants are scanned.
CheckGroup ==
  /\ place = "check"
  /\ IF Group # {} THEN place' = "first" /\ cause' = "leftover" ELSE place' = "checking" /\ UNCHANGED cause
  /\ UNCHANGED <<treeVars, scanVars>> /\ CallIsKept
CheckDescendants ==
  /\ Scanned("checking") /\ EndsScan
  /\ IF Found({Owner, Child}) = {}
     THEN Ends(Success, TRUE, TRUE) /\ UNCHANGED cause
     ELSE place' = "first" /\ cause' = "leftover" /\ UNCHANGED outcome
  /\ UNCHANGED <<treeVars, callVars, code, owned, complete, rounds>>
-----------------------------------------------------------------------------
(* cleanup_process_group                                                   *)

KillFirst ==
  /\ Scanned("first") /\ EndsScan /\ place' = "group"
  /\ owned' = Found({Owner, Child}) /\ Kills(owned') /\ complete' = (Refused(owned') = {})
  /\ UNCHANGED <<cause, rounds>> /\ CallIsKept
KillGroup ==
  /\ Passes("group", "wait")
  /\ Kills(Group) /\ complete' = (complete /\ ~GroupRefuses)
  /\ UNCHANGED <<cause, scan, owned, rounds>> /\ CallIsKept
\* wait(2 s): the child may already have been waited for.
WaitChild ==
  /\ Passes("wait", "second")
  /\ \/ life[Child] = "zombie" /\ Reaps({Child}) /\ UNCHANGED complete
     \/ life[Child] = "gone" /\ UNCHANGED <<treeVars, complete>>
     \/ life[Child] # "gone" /\ complete' = FALSE /\ UNCHANGED treeVars
  /\ UNCHANGED <<cause, scan, owned, rounds>> /\ CallIsKept
KillAdopted ==
  /\ Scanned("second") /\ EndsScan /\ place' = "reap"
  /\ owned' = owned \cup Found({Owner}) /\ Kills(Found({Owner}))
  /\ complete' = (complete /\ Refused(Found({Owner})) = {})
  /\ UNCHANGED <<cause, rounds>> /\ CallIsKept
\* reap_process_ids, to its own deadline.
ReapOwned ==
  /\ Passes("reap", "again")
  /\ \E set \in SUBSET Zombies(owned) : Reaps(set)
  /\ UNCHANGED <<cause, scanVars>> /\ CallIsKept

\* What each caller makes of a cleanup.
ToolVerdict(clean) ==
  IF ~clean THEN "CLEANUP"
  ELSE CASE cause = "timeout" -> "TIMEOUT"
         [] cause = "output" -> "OUTPUT"
         [] OTHER -> "PROCESS"
GateVerdict(clean) == IF clean THEN "GateError" ELSE "GateCleanupError"
VerifierVerdict(clean) == IF clean THEN "VerificationError" ELSE "VerificationCleanupError"
HelperVerdict(clean) == IF clean THEN "SnapshotError" ELSE "SnapshotCleanupError"
\* An adapter reports cleanup_passed and containment_passed of its own child.
\* An OSError of the generation child drops what the cleanup returned.
GenerationEnds(clean) ==
  CASE cause = "leftover" -> Ends("ERROR", clean, FALSE)
    [] cause = "timeout" -> Ends("ERROR", clean, clean)
    [] OTHER -> Ends("ERROR", TRUE, TRUE)
ValidationEnds(clean) == Ends("ERROR", clean, cause # "leftover" /\ clean)
FixtureEnds(clean) == Ends("ERROR", clean, cause # "leftover" /\ clean)
Cleaned(clean) ==
  CASE caller = "evaluator" -> Ends(ToolVerdict(clean), clean, FALSE)
    [] caller = "gate" -> Ends(GateVerdict(clean), clean, FALSE)
    [] caller = "verifier" -> Ends(VerifierVerdict(clean), clean, FALSE)
    [] caller = "helper" -> Ends(HelperVerdict(clean), clean, FALSE)
    [] caller = "generation" -> GenerationEnds(clean)
    [] caller = "validation" -> ValidationEnds(clean)
    [] caller = "fixture" -> FixtureEnds(clean)

\* A loop that was satisfied with the group.
AbsentGroup == Group = {}
ProvedAbsent == Group = {} /\ Found({Owner}) = {}
LookAgain ==
  /\ Scanned("again") /\ EndsScan
  /\ IF ProvedAbsent
     THEN Cleaned(complete) /\ UNCHANGED <<treeVars, owned, complete>>
     ELSE /\ place' = "reapagain" /\ UNCHANGED outcome
          /\ owned' = Found({Owner}) /\ Kills(owned')
          /\ complete' = (complete /\ Refused(owned') = {})
  /\ UNCHANGED <<callVars, cause, code, rounds>>
ReapAgain ==
  /\ place = "reapagain"
  /\ \E set \in SUBSET Zombies(owned) : Reaps(set)
  /\ \/ rounds > 0 /\ place' = "again" /\ rounds' = rounds - 1
     \/ place' = "last" /\ UNCHANGED rounds
  /\ UNCHANGED <<cause, scan, owned, complete>> /\ CallIsKept
\* complete and not group and not descendants, in this order.
LookLast ==
  /\ place = "last"
  /\ IF complete /\ Group = {} THEN place' = "final" /\ UNCHANGED outcome ELSE Cleaned(FALSE)
  /\ UNCHANGED <<treeVars, callVars, cause, code, scanVars>>
LookFinal ==
  /\ Scanned("final") /\ EndsScan /\ Cleaned(Found({Owner}) = {})
  /\ UNCHANGED <<treeVars, callVars, cause, code, owned, complete, rounds>>
-----------------------------------------------------------------------------
(* run of the coding-task runner.  A signal that is refused escapes.       *)

CodingEnds ==
  /\ place = "run" /\ caller = "coding" /\ life[Child] = "zombie"
  /\ Reaps({Child}) /\ code' \in {0, 1} /\ cause' = "end" /\ place' = "killpg"
  /\ UNCHANGED <<callVars, scanVars, outcome>>
CodingStops ==
  /\ place = "run" /\ caller = "coding"
  /\ cause' \in {"timeout", "resource"} /\ place' = "owned"
  /\ UNCHANGED <<treeVars, scanVars>> /\ CallIsKept
\* kill_owned_processes
KillOwned ==
  /\ Scanned("owned") /\ EndsScan
  /\ LET found == Reached({Owner, Child})
     IN  IF Refused(found) # {}
         THEN Ends("ESCAPED", FALSE, FALSE) /\ Kills(found) /\ UNCHANGED owned
         ELSE place' = "killowned" /\ owned' = owned \cup found /\ Kills(found) /\ UNCHANGED outcome
  /\ UNCHANGED <<callVars, cause, code, complete, rounds>>
KillOwnedGroup ==
  /\ place \in {"killowned", "killpg"}
  /\ Kills(Group)
  /\ IF GroupRefuses THEN Ends("ESCAPED", FALSE, FALSE)
     ELSE place' = (IF place = "killpg" THEN "adopted" ELSE "drain") /\ UNCHANGED outcome
  /\ UNCHANGED <<callVars, cause, code, scanVars>>
\* communicate_after_kill, or the shorter handler of other exceptions: read for
\* a second, and after a timeout kill again what is not waited for.
DrainKilled ==
  /\ place = "drain"
  /\ \/ life[Child] = "zombie" /\ Reaps({Child}) /\ place' = "adopted" /\ UNCHANGED rounds
     \/ life[Child] = "gone" /\ place' = "adopted" /\ UNCHANGED <<treeVars, rounds>>
     \/ /\ life[Child] # "gone" /\ UNCHANGED treeVars
        /\ \/ cause = "timeout" /\ rounds > 0 /\ place' = "owned" /\ rounds' = rounds - 1
           \/ cause = "resource" /\ place' = "adopted" /\ UNCHANGED rounds
           \/ cause = "timeout" /\ rounds < Rounds /\ place' = "adopted" /\ UNCHANGED rounds
  /\ UNCHANGED <<cause, scan, owned, complete>> /\ CallIsKept
\* A runner that trusted the group it had killed.
KillsAdoptedNever == UNCHANGED treeVars
KillsAdopted == Kills(Reached({Owner}))
\* kill_adopted_descendants
KillCodingAdopted ==
  /\ Scanned("adopted") /\ EndsScan
  /\ KillsAdopted /\ owned' = owned \cup Reached({Owner})
  /\ IF Refused(Reached({Owner})) # {} THEN Ends("ESCAPED", FALSE, FALSE)
     ELSE place' = "reapcoding" /\ UNCHANGED outcome
  /\ UNCHANGED <<callVars, cause, code, complete, rounds>>
ReapCoding ==
  /\ place = "reapcoding"
  /\ \E set \in SUBSET Zombies(owned) : Reaps(set)
  /\ Ends(CASE cause = "end" -> IF code = 0 THEN "RETURNED_0" ELSE "RETURNED"
            [] cause = "timeout" -> "CommandTimedOut" [] OTHER -> "TaskError", FALSE, FALSE)
  /\ UNCHANGED <<callVars, cause, code, scanVars>>
-----------------------------------------------------------------------------
(* run_owned_command of the GPU qualifier.  It counts group members with   *)
(* ps, zombies included; an inspection that fails breaks off the command.  *)

Members == {p \in DOMAIN scan.read : inGroup[p]}
InspectionFails ==
  /\ caller = "qualifier" /\ scan.on
  /\ EndsScan /\ place' = "broken"
  /\ UNCHANGED <<treeVars, cause, owned, complete, rounds>> /\ CallIsKept
QualifierPolls ==
  /\ place = "run" /\ caller = "qualifier" /\ place' = "before"
  /\ \/ life[Child] = "zombie" /\ Reaps({Child}) /\ code' \in {0, 1} /\ cause' = "end"
     \/ life[Child] = "live" /\ cause' = "timeout" /\ UNCHANGED <<treeVars, code>>
  /\ UNCHANGED <<callVars, scanVars, outcome>>
CountBefore ==
  /\ Scanned("before") /\ EndsScan /\ owned' = Members
  /\ place' = IF cause = "timeout" \/ Members # {} THEN "term" ELSE "waiting"
  /\ UNCHANGED <<treeVars, cause, complete, rounds>> /\ CallIsKept
\* _terminate_group: SIGTERM and a wait, then the members are polled.
TermGroup ==
  /\ place = "term"
  /\ \/ Group = {} /\ place' = "waiting" /\ UNCHANGED treeVars
     \/ Group # {} /\ GroupRefuses /\ place' = "broken" /\ UNCHANGED treeVars
     \/ Group # {} /\ ~GroupRefuses /\ place' = "terminating"
        /\ \E set \in SUBSET Zombies({Child}) : Reaps(set)
  /\ UNCHANGED <<cause, scanVars>> /\ CallIsKept
PollTerm ==
  /\ Scanned("terminating") /\ EndsScan
  /\ \/ Members = {} /\ place' = "waiting" /\ UNCHANGED rounds
     \/ Members # {} /\ rounds > 0 /\ rounds' = rounds - 1 /\ UNCHANGED place
     \/ Members # {} /\ place' = "killgroup" /\ UNCHANGED rounds
  /\ UNCHANGED <<treeVars, cause, owned, complete>> /\ CallIsKept
KillQualified ==
  /\ Passes("killgroup", "killing") /\ Kills(Group)
  /\ UNCHANGED <<cause, scanVars>> /\ CallIsKept
PollKill ==
  /\ Scanned("killing") /\ EndsScan
  /\ \/ Members = {} /\ place' = "waiting" /\ UNCHANGED rounds
     \/ Members # {} /\ rounds > 0 /\ rounds' = rounds - 1 /\ UNCHANGED place
     \/ Members # {} /\ place' = "broken" /\ UNCHANGED rounds
  /\ UNCHANGED <<treeVars, cause, owned, complete>> /\ CallIsKept
\* The child is waited for, after one more _terminate_group when it must be.
WaitQualified ==
  /\ place = "waiting"
  /\ \/ life[Child] = "gone" /\ place' = "after" /\ UNCHANGED <<treeVars, rounds>>
     \/ life[Child] = "zombie" /\ Reaps({Child}) /\ place' = "after" /\ UNCHANGED rounds
     \/ /\ life[Child] # "gone" /\ UNCHANGED treeVars
        /\ \/ rounds > 0 /\ rounds' = rounds - 1 /\ place' = "term"
           \/ place' = "broken" /\ UNCHANGED rounds
  /\ UNCHANGED <<cause, scan, owned, complete>> /\ CallIsKept
CountAfter ==
  /\ Scanned("after") /\ EndsScan
  /\ Ends(IF cause = "timeout" THEN "TIMEOUT" ELSE IF code = 0 THEN "PASS" ELSE "FAIL",
          Members = {}, owned = {})
  /\ UNCHANGED <<treeVars, callVars, cause, code, owned, complete, rounds>>
\* The finally of a command that was broken off: the group is killed, the
\* child waited for, and the error goes on.
BreakOff ==
  /\ place = "broken" /\ Ends("RAISED", FALSE, FALSE) /\ Kills(Group)
  /\ UNCHANGED <<callVars, cause, code, scanVars>>
-----------------------------------------------------------------------------
(* run_command of the verification summary.                                *)

\* A signal is relayed; ten seconds later the group is killed, once.
SignalArrives ==
  /\ place = "run" /\ caller = "summary" /\ cause = "none" /\ cause' = "signal"
  /\ UNCHANGED <<treeVars, place, scanVars>> /\ CallIsKept
SignalDeadline ==
  /\ place = "run" /\ caller = "summary" /\ cause = "signal" /\ cause' = "killed"
  /\ Kills(Group) /\ UNCHANGED <<place, scanVars>> /\ CallIsKept
SummaryWaits ==
  /\ place = "run" /\ caller = "summary" /\ life[Child] = "zombie"
  /\ Reaps({Child}) /\ code' \in {0, 1} /\ place' = "remaining"
  /\ UNCHANGED <<callVars, cause, scanVars, outcome>>
\* A summary that reported the child's status whatever it left behind.
SummaryCodeOfChild(remained) == code
SummaryCode(remained) == IF remained /\ cause = "none" /\ code = 0 THEN 125 ELSE code
SummaryEnds(remained, cleaned) ==
  Ends(IF SummaryCode(remained) = 0 THEN "EXIT_0" ELSE "EXIT", cleaned, ~remained)
\* stop_remaining_process_group
StopRemaining ==
  /\ place = "remaining"
  /\ \/ Group = {} /\ SummaryEnds(FALSE, TRUE)
     \/ Group # {} /\ GroupRefuses /\ Ends("ESCAPED", FALSE, FALSE)
     \/ Group # {} /\ ~GroupRefuses /\ place' = "stopterm" /\ UNCHANGED outcome
  /\ UNCHANGED <<treeVars, callVars, cause, code, scanVars>>
StopTerm ==
  /\ place = "stopterm"
  /\ \/ Group = {} /\ SummaryEnds(TRUE, TRUE) /\ UNCHANGED treeVars
     \/ Group # {} /\ GroupRefuses /\ Ends("ESCAPED", FALSE, FALSE) /\ UNCHANGED treeVars
     \/ Group # {} /\ ~GroupRefuses /\ place' = "stopkill" /\ Kills(Group) /\ UNCHANGED outcome
  /\ UNCHANGED <<callVars, cause, code, scanVars>>
StopKill ==
  /\ place = "stopkill" /\ SummaryEnds(TRUE, Group = {})
  /\ UNCHANGED <<treeVars, callVars, cause, code, scanVars>>
-----------------------------------------------------------------------------
Processing == place # "done" /\ TreeNext /\ UNCHANGED <<callVars, place, cause, code, scanVars, outcome>>

Cleanup ==
  \/ KillFirst \/ KillGroup \/ WaitChild \/ KillAdopted \/ ReapOwned
  \/ LookAgain \/ ReapAgain \/ LookLast \/ LookFinal
Tool == ReadToEnd \/ ReadFails \/ Sealed \/ CheckGroup \/ CheckDescendants \/ Cleanup
Coding == CodingEnds \/ CodingStops \/ KillOwned \/ KillOwnedGroup \/ DrainKilled \/ KillCodingAdopted \/ ReapCoding
Qualifier ==
  \/ InspectionFails \/ QualifierPolls \/ CountBefore \/ TermGroup \/ PollTerm
  \/ KillQualified \/ PollKill \/ WaitQualified \/ CountAfter \/ BreakOff
Summary == SignalArrives \/ SignalDeadline \/ SummaryWaits \/ StopRemaining \/ StopTerm \/ StopKill
ToolNext == BeginScan \/ ReadEntry \/ Tool \/ Coding \/ Qualifier \/ Summary \/ Processing
ToolSpec == ToolInit /\ [][ToolNext]_toolVars
-----------------------------------------------------------------------------
Done == place = "done"

\* The forebears of a process, by who forked whom.
Forebears(p) == {q \in Processes : \E path \in SUBSET Processes :
                    /\ q \in path /\ p \notin path
                    /\ \A x \in path \cup {p} : x = q \/ forker[x] \in path}
\* A process that no scan could show: it was forked after the last listing, and
\* a forebear that was listed had ended before its entry was read.
Unseen(p) == p \notin scan.listed /\ \E q \in Forebears(p) \cap scan.listed : life[q] # "live"

\* "Kill the private group plus nested-session descendants and prove absence":
\* when a prompt tool reports success or a cleanup that passed, the only
\* processes still alive were forked behind the back of the last scan.  Two ends
\* of run_generation_child are excepted, which report a cleanup nobody checked.
CleanMeansGone ==
  Done /\ caller \in Contained /\ outcome.clean
  /\ ~(caller = "generation" /\ cause \in {"oserror", "unsealed"})
  => \A p \in Living : Unseen(p)

\* When the coding-task runner returns, whatever is still alive has been killed
\* and is about to exit, or was forked after its last scan began.
CodingLeavesOnlyDying ==
  Done /\ caller = "coding" /\ outcome.status # "ESCAPED"
  => \A p \in Living : p \in killed \/ p \notin scan.listed

\* The owners that look at the process group only: a command the qualifier
\* reports without descendants afterwards has no live group member that was not
\* forked behind the back of the last count, and the summary turns into its exit
\* status 0 only a child whose group had ended with it.
ReportedGroupIsEmpty ==
  Done /\ caller \in {"qualifier", "summary"} =>
    /\ caller = "qualifier" /\ outcome.clean => \A p \in Living \cap Group : Unseen(p)
    /\ outcome.status = "EXIT_0" /\ cause = "none" => Group = {} /\ outcome.contained

\* No caller reports a clean end that its cleanup did not establish.
CleanupIsProved ==
  /\ CleanMeansGone
  /\ CodingLeavesOnlyDying
  /\ ReportedGroupIsEmpty
=============================================================================
