-------------------------- MODULE SourceCaptureProofs --------------------------
(***************************************************************************)
(* Proofs about the readers of a checkout (SourceCapture) and about the    *)
(* qualifier (GpuQualification), for any number of paths, of cases and of  *)
(* edits.                                                                  *)
(*                                                                         *)
(* TreeInv says what a change of the checkout leaves behind: a change time *)
(* that is new, and the values every path has had.  The invariant of each  *)
(* reader says what follows from what it has read so far if its premise    *)
(* still holds; the premises are such that they can only become false      *)
(* (EditLeavesTraces), which is what makes them usable at an earlier step. *)
(*                                                                         *)
(* The qualifier publishes only what its own reader admits; RunInv says of *)
(* the run that led there what no record says of itself: what the children *)
(* read, on what device they ran, and what is left of it.                  *)
(*                                                                         *)
(* That it can publish at all is a matter of two programs that share no    *)
(* code: ReadyInv says of every place what has been retained and reserved, *)
(* that every row made so far is one the reader takes, and that the        *)
(* verdict claims nothing that is not so.                                  *)
(***************************************************************************)
EXTENDS GpuQualification, FiniteSetTheorems, TLAPS

----------------------------------------------------------------------------
\* The checkout.

TreeInv ==
    /\ head \in Trees /\ index \in Trees /\ work \in Trees
    /\ edits \in Nat
    /\ stamp \in [Things -> Nat]
    /\ \A t \in Things : stamp[t] <= edits
    /\ had = [t \in Files \cup {"HEAD"} |-> had[t]]
    /\ \A f \in Files : work[f] \in had[f]
    /\ head \in had["HEAD"]
    /\ undone \in BOOLEAN
    /\ Moment(head, index, work) \in moments

\* What an edit does that a reader can tell, or that its premise excludes.
EditLeavesTraces ==
    /\ edits' = edits + 1
    /\ \A t \in Things : stamp'[t] \in {stamp[t], edits + 1}
    /\ moments \subseteq moments'
    /\ undone => undone'
    /\ \A t \in Files \cup {"HEAD"} : had[t] \subseteq had'[t]
    /\ \A f \in Files : work'[f] # work[f] =>
        /\ stamp'[f] = edits + 1
        /\ work'[f] \in had[f] => undone'
        /\ Absent \in {work[f], work'[f]} => stamp'["root"] = edits + 1
    /\ head' # head =>
        /\ stamp'["HEAD"] = edits + 1
        /\ head' \in had["HEAD"] => undone'
    /\ index' # index => stamp'["index"] = edits + 1

----------------------------------------------------------------------------
\* The variables of a reader.

MaybeRead == [Files -> Values \cup {Unread}]
Mark == Nat \cup {Unread}

PcTypes ==
    /\ outcome \in {"running", "accepted", "refused"}
    /\ outcome = "running" => pc \in 1..Len(Program[who])
    /\ outcome = "accepted" => pc = Len(Program[who]) + 1

DataTypes ==
    /\ walking \in BOOLEAN /\ dirty \in BOOLEAN
    /\ listed \in MaybeRead
    /\ got \in [Purposes \cup {"head"} -> MaybeRead \cup {Unread}]
    /\ \A p \in Purposes : got[p] \in MaybeRead
    /\ kept \in [{"HEAD", "index", "root"} -> Mark]
    /\ marks \in [Files -> Mark] /\ held \in [Files -> Mark]

ReaderTypes == who \in Readers /\ PcTypes /\ DataTypes

\* A walk at position p has passed f, or is over.
Passed(p, f) == pc > p \/ (pc = p /\ walking /\ f \notin todo)

\* The status that is being made has found nothing so far.
Clean(p) == pc = p /\ walking /\ ~dirty

----------------------------------------------------------------------------
\* A recipe works with what it copied and validated.
RecipeInv ==
    /\ pc > 5 => got["copy"] = Pinned
    /\ pc > 9 => got["source"] = Pinned
    /\ pc > 10 => got["retained"] = Pinned

\* A bundle is published last, by a recipe.
OutputInv ==
    output = "ours" =>
        who = "recipe" /\ outcome = "accepted" /\ got["source"] = Pinned /\ got["retained"] = Pinned

----------------------------------------------------------------------------
\* An identity.  What it keeps open has not been written as long as its change
\* time is the one that was kept.
Same(t) == kept[t] = stamp[t]

KeptInv ==
    /\ \A t \in {"HEAD", "index", "root"} : kept[t] # Unread => kept[t] <= edits
    /\ \A f \in Files : marks[f] # Unread => marks[f] <= edits
    /\ \A f \in Files : held[f] # Unread => held[f] <= edits
    /\ pc > 1 => kept["root"] # Unread
    /\ pc > 2 => kept["HEAD"] # Unread /\ (Same("HEAD") => got["head"] = head)
    /\ pc > 3 => kept["index"] # Unread
    /\ pc > 5 => got["head"] = Pinned
    /\ pc > 6 => (Same("index") => index = Pinned)

\* The first walk: names that were listed are there, and what was visited is of
\* the commit.
Visited(f) == pc \in {8, 9} /\ f \notin todo /\ listed[f] # Absent
WalkInv ==
    /\ pc \in {8, 9} /\ Same("root") => \A f \in Files : work[f] = Absent <=> listed[f] = Absent
    /\ \A f \in Files : Visited(f) =>
        f \in Tracked /\ marks[f] # Unread /\ (marks[f] = stamp[f] => work[f] = Good)
    /\ pc = 9 => todo = {} /\ \A f \in Tracked : listed[f] # Absent

\* When the first capture was held, everything was of the commit unless a path
\* had been written after it was visited; then the second walk finds it newer.
Revisited(f) == pc > 14 \/ (pc = 14 /\ f \notin todo /\ listed[f] # Absent)
Unmoved(f) == IF Revisited(f) THEN marks[f] = held[f] ELSE stamp[f] = held[f]
HeldInv ==
    /\ pc > 9 => \A f \in Tracked : held[f] # Unread
    /\ pc > 9 /\ (\A f \in Tracked : Unmoved(f)) => Moment(Pinned, Pinned, Pinned) \in moments
    /\ pc > 15 => marks = held

IdentityInv == KeptInv /\ WalkInv /\ HeldInv

----------------------------------------------------------------------------
\* A snapshot.  Once the status was clean each file has had its value, so that it
\* cannot get it again unnoticed by the premise.
TaskPremise == ~undone /\ head = got["head"]
TaskInv ==
    /\ walking => pc \in {3, 4}
    /\ pc > 2 => got["head"] \in had["HEAD"]
    /\ Clean(3) => \A f \in Files \ todo : listed[f] \in had[f]
    /\ Clean(3) /\ TaskPremise => listed = head
    /\ pc > 3 /\ TaskPremise => \A f \in Tracked : Good \in had[f]
    /\ pc > 3 /\ TaskPremise /\ (\A f \in Tracked : Passed(4, f) \/ work[f] = Good) =>
            \E m \in moments : TaskMoment(m)

\* A capsule.  The first reading plays the part of the status.
AdoptionInv ==
    /\ walking => pc \in {2, 3, 4, 5}
    /\ \A f \in Files : Passed(3, f) => got["tree"][f] \in had[f]
    /\ pc > 3 /\ ~undone /\ (\A f \in Files : Passed(4, f) \/ work[f] = got["tree"][f]) =>
            \E m \in moments : AdoptionMoment(m)

\* A baseline.  A file that still, or again, has the value of the commit has had
\* it since the status before; so what was read of it was that value.
BaselinePremise == ~undone /\ had["HEAD"] = {head}
BaselineInv ==
    /\ walking => pc \in {1, 2, 3, 5, 6, 8}
    /\ Clean(3) => \A f \in Files \ todo : listed[f] \in had[f]
    /\ (Clean(3) \/ Clean(8)) /\ BaselinePremise => listed = head
    /\ pc > 3 /\ BaselinePremise => \A f \in Files : head[f] \in had[f]
    /\ BaselinePremise => \A f \in Files : work[f] = head[f] =>
            /\ Passed(5, f) => got["artifacts"][f] = head[f]
            /\ Passed(6, f) => got["samples"][f] = head[f]
    /\ (Clean(8) \/ pc > 8) /\ BaselinePremise => \A f \in Files :
            pc > 8 \/ f \notin todo => got["artifacts"][f] = head[f] /\ got["samples"][f] = head[f]

\* A gate.
GatePremise == \A t \in Files \cup {"HEAD"} : stamp[t] = 0
GateInv ==
    /\ walking => pc \in {1, 3}
    /\ GatePremise =>
        /\ \A f \in Files : Passed(1, f) => got["documents"][f] = work[f]
        /\ Clean(3) => listed = head /\ \A f \in Files \ todo : work[f] = head[f]
        /\ pc > 3 => work = head
        /\ pc > 4 => got["head"] = head

----------------------------------------------------------------------------
ReaderInv ==
    /\ TreeInv
    /\ ReaderTypes
    /\ outcome # "refused" =>
        /\ who = "recipe" => RecipeInv
        /\ who = "identity" => IdentityInv
        /\ who = "task" => TaskInv
        /\ who = "adoption" => AdoptionInv
        /\ who = "baseline" => BaselineInv
        /\ who = "gate" => GateInv

\* The qualifier writes a history of its own and is no concern of the others.
CaptureInv ==
    /\ OutputInv
    /\ who # "qualifier" => ReaderInv
----------------------------------------------------------------------------
LEMMA Kinds ==
    /\ Good # Absent
    /\ Pinned \in Trees
    /\ \A f \in Tracked : Pinned[f] = Good
    /\ \A f \in Stray : Pinned[f] = Absent
    /\ "HEAD" \notin Files /\ "index" \notin Files /\ "root" \notin Files
    /\ PathsOfCommit = Tracked
<1>1. Good # Absent
  <2>1. SUFFICES ASSUME Good = Absent PROVE FALSE
    OBVIOUS
  <2>2. {Good, Bad, Absent} = {Good, Bad}
    BY <2>1
  <2>3. Cardinality({Good, Bad}) \in {1, 2}
    <3>1. IsFiniteSet({}) /\ Cardinality({}) = 0
      BY FS_EmptySet
    <3>2. IsFiniteSet({Bad}) /\ Cardinality({Bad}) = 1
      BY FS_Singleton
    <3>3. {Bad} \cup {Good} = {Good, Bad}
      OBVIOUS
    <3>4. Cardinality({Bad} \cup {Good}) = IF Good \in {Bad} THEN Cardinality({Bad}) ELSE Cardinality({Bad}) + 1
      BY <3>2, FS_AddElement
    <3> QED BY <3>2, <3>3, <3>4
  <2> QED BY <2>2, <2>3, ValuesAssumption
<1>2. Tracked \cap Stray = {} /\ Files = Tracked \cup Stray
  BY PathsAssumption DEF Files
<1> QED BY <1>1, <1>2, NamesAssumption DEF Pinned, Trees, Values, PathsOfCommit

\* Every change of the checkout is traced.
LEMMA EditIsTraced ==
    ASSUME TreeInv, Developer PROVE TreeInv' /\ EditLeavesTraces
<1> USE Kinds DEF TreeInv, EditLeavesTraces, Moment, Things
<1> DEFINE changed == edits' = edits + 1 /\ moments' = moments \cup {Moment(head', index', work')}
<1>0. ASSUME NEW things \in SUBSET Things, Written(things)
      PROVE /\ edits' = edits + 1 /\ edits' \in Nat
            /\ moments' = moments \cup {Moment(head', index', work')}
            /\ stamp' \in [Things -> Nat]
            /\ \A t \in Things : stamp'[t] = IF t \in things THEN edits + 1 ELSE stamp[t]
            /\ \A t \in Things : stamp'[t] <= edits' /\ stamp'[t] \in {stamp[t], edits + 1}
  BY <1>0 DEF Written
<1>1. ASSUME NEW f \in Files, NEW v \in ValuesOf(f), WriteFile(f, v) PROVE TreeInv' /\ EditLeavesTraces
  <2> DEFINE things == {f} \cup (IF Absent \in {work[f], v} THEN {"root"} ELSE {})
  <2>1. Written(things) /\ things \in SUBSET Things
    BY <1>1 DEF WriteFile
  <2>2. v \in Values
    BY DEF ValuesOf, Values
  <2>3. /\ work' \in Trees /\ work'[f] = v /\ \A g \in Files \ {f} : work'[g] = work[g]
        /\ had' = [t \in Files \cup {"HEAD"} |-> had'[t]]
        /\ had'[f] = had[f] \cup {v} /\ \A t \in (Files \cup {"HEAD"}) \ {f} : had'[t] = had[t]
        /\ undone' = (undone \/ v \in had[f])
        /\ head' = head /\ index' = index
    BY <1>1, <2>2 DEF WriteFile, Trees
  <2>4. f \in things /\ (Absent \in {work[f], v} => "root" \in things)
    OBVIOUS
  <2> HIDE DEF things
  <2>5. /\ edits' = edits + 1 /\ edits' \in Nat
        /\ moments' = moments \cup {Moment(head', index', work')}
        /\ stamp' \in [Things -> Nat]
        /\ \A t \in Things : stamp'[t] = IF t \in things THEN edits + 1 ELSE stamp[t]
        /\ \A t \in Things : stamp'[t] <= edits' /\ stamp'[t] \in {stamp[t], edits + 1}
    BY <1>0, <2>1
  <2>6. \A g \in Files : work'[g] \in had'[g]
    BY <2>3
  <2>7. TreeInv'
    BY <2>3, <2>5, <2>6
  <2>8. \A g \in Files : work'[g] # work[g] =>
            /\ stamp'[g] = edits + 1
            /\ work'[g] \in had[g] => undone'
            /\ Absent \in {work[g], work'[g]} => stamp'["root"] = edits + 1
    BY <2>3, <2>4, <2>5
  <2> QED BY <2>3, <2>5, <2>7, <2>8
<1>2. ASSUME NEW tree \in {work, head}, WriteIndex(tree) PROVE TreeInv' /\ EditLeavesTraces
  BY <1>0, <1>2 DEF WriteIndex
<1>3. ASSUME NEW tree \in {index, Pinned}, MoveHead(tree) PROVE TreeInv' /\ EditLeavesTraces
  <2>1. Written({"HEAD"}) /\ {"HEAD"} \in SUBSET Things
    BY <1>3 DEF MoveHead
  <2>2. /\ head' = tree /\ index' = index /\ work' = work
        /\ had' = [t \in Files \cup {"HEAD"} |-> had'[t]]
        /\ had'["HEAD"] = had["HEAD"] \cup {tree} /\ \A f \in Files : had'[f] = had[f]
        /\ undone' = (undone \/ tree \in had["HEAD"])
    BY <1>3 DEF MoveHead
  <2>3. /\ edits' = edits + 1 /\ edits' \in Nat
        /\ moments' = moments \cup {Moment(head', index', work')}
        /\ stamp' \in [Things -> Nat]
        /\ \A t \in Things : stamp'[t] = IF t \in {"HEAD"} THEN edits + 1 ELSE stamp[t]
        /\ \A t \in Things : stamp'[t] <= edits' /\ stamp'[t] \in {stamp[t], edits + 1}
    BY <1>0, <2>1
  <2>4. stamp'["HEAD"] = edits + 1
    BY <2>3
  <2>5. TreeInv'
    BY <2>2, <2>3
  <2> QED BY <2>2, <2>3, <2>4, <2>5
<1>4. ASSUME Interfere PROVE TreeInv' /\ EditLeavesTraces
  <2>1. Written({}) /\ {} \in SUBSET Things
    BY <1>4 DEF Interfere
  <2>2. UNCHANGED <<head, index, work, had, undone>>
    BY <1>4 DEF Interfere
  <2> QED BY <1>0, <2>1, <2>2
<1> QED BY <1>1, <1>2, <1>3, <1>4 DEF Developer

LEMMA TreeStutters ==
    ASSUME TreeInv, UNCHANGED treeVars PROVE TreeInv'
BY DEF TreeInv, treeVars, Moment
----------------------------------------------------------------------------
\* Which step a reader can be at.
LEMMA Lengths ==
    /\ Len(Program["identity"]) = 15
    /\ Len(Program["task"]) = 4
    /\ Len(Program["source"]) = 3
    /\ Len(Program["gate"]) = 5
    /\ Len(Program["recipe"]) = 11
    /\ Len(Program["baseline"]) = 8
    /\ Len(Program["adoption"]) = 5
    /\ \A r \in Readers : Len(Program[r]) \in Nat /\ 1 <= Len(Program[r])
<1>1. /\ Len(IdentityProgram) = 15
      /\ Len(TaskProgram) = 4
      /\ Len(SourceProgram) = 3
      /\ Len(GateProgram) = 5
      /\ Len(RecipeProgram) = 11
      /\ Len(BaselineProgram) = 8
      /\ Len(AdoptionProgram) = 5
  BY DEF IdentityProgram, TaskProgram, SourceProgram, GateProgram, RecipeProgram, BaselineProgram, AdoptionProgram
<1>2. /\ Program["identity"] = IdentityProgram
      /\ Program["task"] = TaskProgram
      /\ Program["source"] = SourceProgram
      /\ Program["gate"] = GateProgram
      /\ Program["recipe"] = RecipeProgram
      /\ Program["baseline"] = BaselineProgram
      /\ Program["adoption"] = AdoptionProgram
  BY DEF Program
<1>3. ASSUME NEW r \in Readers PROVE Len(Program[r]) \in {3, 4, 5, 8, 11, 15}
  <2>1. CASE r = "identity" BY <1>1, <1>2, <2>1
  <2>2. CASE r = "task" BY <1>1, <1>2, <2>2
  <2>3. CASE r = "source" BY <1>1, <1>2, <2>3
  <2>4. CASE r = "gate" BY <1>1, <1>2, <2>4
  <2>5. CASE r = "recipe" BY <1>1, <1>2, <2>5
  <2>6. CASE r = "baseline" BY <1>1, <1>2, <2>6
  <2>7. CASE r = "adoption" BY <1>1, <1>2, <2>7
  <2> QED BY <2>1, <2>2, <2>3, <2>4, <2>5, <2>6, <2>7, ReadersAssumption
<1>4. \A n \in {3, 4, 5, 8, 11, 15} : n \in Nat /\ 1 <= n
  OBVIOUS
<1>5. \A r \in Readers : Len(Program[r]) \in Nat /\ 1 <= Len(Program[r])
  BY <1>3, <1>4, Zenon
<1> QED BY <1>1, <1>2, <1>5

LEMMA AtIdentity ==
    ASSUME who = "identity", pc \in 1..Len(Program[who])
    PROVE  \/ Program[who][pc] = "retain_root" /\ pc = 1
           \/ Program[who][pc] = "retain_head" /\ pc = 2
           \/ Program[who][pc] = "retain_index" /\ pc = 3
           \/ Program[who][pc] = "admit" /\ pc \in {4, 10}
           \/ Program[who][pc] = "revision" /\ pc \in {5, 11}
           \/ Program[who][pc] = "index" /\ pc \in {6, 12}
           \/ Program[who][pc] = "list" /\ pc \in {7, 13}
           \/ Program[who][pc] = "walk" /\ pc \in {8, 14}
           \/ Program[who][pc] = "hold" /\ pc = 9
           \/ Program[who][pc] = "seal" /\ pc = 15
<1>1. Program[who] = IdentityProgram /\ pc \in 1..15
  BY Lengths DEF Program
<1>2. /\ IdentityProgram[1] = "retain_root"
      /\ IdentityProgram[2] = "retain_head"
      /\ IdentityProgram[3] = "retain_index"
      /\ IdentityProgram[4] = "admit"
      /\ IdentityProgram[5] = "revision"
      /\ IdentityProgram[6] = "index"
      /\ IdentityProgram[7] = "list"
      /\ IdentityProgram[8] = "walk"
      /\ IdentityProgram[9] = "hold"
      /\ IdentityProgram[10] = "admit"
      /\ IdentityProgram[11] = "revision"
      /\ IdentityProgram[12] = "index"
      /\ IdentityProgram[13] = "list"
      /\ IdentityProgram[14] = "walk"
      /\ IdentityProgram[15] = "seal"
  BY DEF IdentityProgram
<1>3. pc = 1 \/ pc = 2 \/ pc = 3 \/ pc = 4 \/ pc = 5 \/ pc = 6 \/ pc = 7 \/ pc = 8 \/ pc = 9 \/ pc = 10 \/ pc = 11 \/ pc = 12 \/ pc = 13 \/ pc = 14 \/ pc = 15
  BY <1>1
<1>4. Program[who][pc] = IdentityProgram[pc]
  BY <1>1
<1>5. CASE pc = 1 BY <1>2, <1>4, <1>5
<1>6. CASE pc = 2 BY <1>2, <1>4, <1>6
<1>7. CASE pc = 3 BY <1>2, <1>4, <1>7
<1>8. CASE pc = 4 BY <1>2, <1>4, <1>8
<1>9. CASE pc = 5 BY <1>2, <1>4, <1>9
<1>10. CASE pc = 6 BY <1>2, <1>4, <1>10
<1>11. CASE pc = 7 BY <1>2, <1>4, <1>11
<1>12. CASE pc = 8 BY <1>2, <1>4, <1>12
<1>13. CASE pc = 9 BY <1>2, <1>4, <1>13
<1>14. CASE pc = 10 BY <1>2, <1>4, <1>14
<1>15. CASE pc = 11 BY <1>2, <1>4, <1>15
<1>16. CASE pc = 12 BY <1>2, <1>4, <1>16
<1>17. CASE pc = 13 BY <1>2, <1>4, <1>17
<1>18. CASE pc = 14 BY <1>2, <1>4, <1>18
<1>19. CASE pc = 15 BY <1>2, <1>4, <1>19
<1> QED BY <1>3, <1>5, <1>6, <1>7, <1>8, <1>9, <1>10, <1>11, <1>12, <1>13, <1>14, <1>15, <1>16, <1>17, <1>18, <1>19

LEMMA AtTask ==
    ASSUME who = "task", pc \in 1..Len(Program[who])
    PROVE  \/ Program[who][pc] = "policy" /\ pc = 1
           \/ Program[who][pc] = "head" /\ pc = 2
           \/ Program[who][pc] = "status" /\ pc = 3
           \/ Program[who][pc] = "expect" /\ pc = 4
<1>1. Program[who] = TaskProgram /\ pc \in 1..4
  BY Lengths DEF Program
<1> QED BY <1>1 DEF TaskProgram

LEMMA AtSource ==
    ASSUME who = "source", pc \in 1..Len(Program[who])
    PROVE  \/ Program[who][pc] = "policy" /\ pc = 1
           \/ Program[who][pc] = "head" /\ pc = 2
           \/ Program[who][pc] = "status" /\ pc = 3
<1>1. Program[who] = SourceProgram /\ pc \in 1..3
  BY Lengths DEF Program
<1> QED BY <1>1 DEF SourceProgram

LEMMA AtGate ==
    ASSUME who = "gate", pc \in 1..Len(Program[who])
    PROVE  \/ Program[who][pc] = "documents" /\ pc = 1
           \/ Program[who][pc] = "policy" /\ pc = 2
           \/ Program[who][pc] = "status" /\ pc = 3
           \/ Program[who][pc] = "head" /\ pc = 4
           \/ Program[who][pc] = "bundle" /\ pc = 5
<1>1. Program[who] = GateProgram /\ pc \in 1..5
  BY Lengths DEF Program
<1>2. /\ GateProgram[1] = "documents"
      /\ GateProgram[2] = "policy"
      /\ GateProgram[3] = "status"
      /\ GateProgram[4] = "head"
      /\ GateProgram[5] = "bundle"
  BY DEF GateProgram
<1>3. pc = 1 \/ pc = 2 \/ pc = 3 \/ pc = 4 \/ pc = 5
  BY <1>1
<1>4. Program[who][pc] = GateProgram[pc]
  BY <1>1
<1>5. CASE pc = 1 BY <1>2, <1>4, <1>5
<1>6. CASE pc = 2 BY <1>2, <1>4, <1>6
<1>7. CASE pc = 3 BY <1>2, <1>4, <1>7
<1>8. CASE pc = 4 BY <1>2, <1>4, <1>8
<1>9. CASE pc = 5 BY <1>2, <1>4, <1>9
<1> QED BY <1>3, <1>5, <1>6, <1>7, <1>8, <1>9

LEMMA AtRecipe ==
    ASSUME who = "recipe", pc \in 1..Len(Program[who])
    PROVE  \/ Program[who][pc] = "head" /\ pc \in {1, 6}
           \/ Program[who][pc] = "policy" /\ pc \in {2, 7}
           \/ Program[who][pc] = "status" /\ pc \in {3, 8}
           \/ Program[who][pc] = "copy" /\ pc = 4
           \/ Program[who][pc] = "validate" /\ pc = 5
           \/ Program[who][pc] = "materialize" /\ pc = 9
           \/ Program[who][pc] = "retain" /\ pc = 10
           \/ Program[who][pc] = "publish" /\ pc = 11
<1>1. Program[who] = RecipeProgram /\ pc \in 1..11
  BY Lengths DEF Program
<1>2. /\ RecipeProgram[1] = "head"
      /\ RecipeProgram[2] = "policy"
      /\ RecipeProgram[3] = "status"
      /\ RecipeProgram[4] = "copy"
      /\ RecipeProgram[5] = "validate"
      /\ RecipeProgram[6] = "head"
      /\ RecipeProgram[7] = "policy"
      /\ RecipeProgram[8] = "status"
      /\ RecipeProgram[9] = "materialize"
      /\ RecipeProgram[10] = "retain"
      /\ RecipeProgram[11] = "publish"
  BY DEF RecipeProgram
<1>3. pc = 1 \/ pc = 2 \/ pc = 3 \/ pc = 4 \/ pc = 5 \/ pc = 6 \/ pc = 7 \/ pc = 8 \/ pc = 9 \/ pc = 10 \/ pc = 11
  BY <1>1
<1>4. Program[who][pc] = RecipeProgram[pc]
  BY <1>1
<1>5. CASE pc = 1 BY <1>2, <1>4, <1>5
<1>6. CASE pc = 2 BY <1>2, <1>4, <1>6
<1>7. CASE pc = 3 BY <1>2, <1>4, <1>7
<1>8. CASE pc = 4 BY <1>2, <1>4, <1>8
<1>9. CASE pc = 5 BY <1>2, <1>4, <1>9
<1>10. CASE pc = 6 BY <1>2, <1>4, <1>10
<1>11. CASE pc = 7 BY <1>2, <1>4, <1>11
<1>12. CASE pc = 8 BY <1>2, <1>4, <1>12
<1>13. CASE pc = 9 BY <1>2, <1>4, <1>13
<1>14. CASE pc = 10 BY <1>2, <1>4, <1>14
<1>15. CASE pc = 11 BY <1>2, <1>4, <1>15
<1> QED BY <1>3, <1>5, <1>6, <1>7, <1>8, <1>9, <1>10, <1>11, <1>12, <1>13, <1>14, <1>15

LEMMA AtBaseline ==
    ASSUME who = "baseline", pc \in 1..Len(Program[who])
    PROVE  \/ Program[who][pc] = "status" /\ pc \in {1, 3, 8}
           \/ Program[who][pc] = "build" /\ pc = 2
           \/ Program[who][pc] = "head" /\ pc \in {4, 7}
           \/ Program[who][pc] = "artifacts" /\ pc = 5
           \/ Program[who][pc] = "samples" /\ pc = 6
<1>1. Program[who] = BaselineProgram /\ pc \in 1..8
  BY Lengths DEF Program
<1>2. /\ BaselineProgram[1] = "status"
      /\ BaselineProgram[2] = "build"
      /\ BaselineProgram[3] = "status"
      /\ BaselineProgram[4] = "head"
      /\ BaselineProgram[5] = "artifacts"
      /\ BaselineProgram[6] = "samples"
      /\ BaselineProgram[7] = "head"
      /\ BaselineProgram[8] = "status"
  BY DEF BaselineProgram
<1>3. pc = 1 \/ pc = 2 \/ pc = 3 \/ pc = 4 \/ pc = 5 \/ pc = 6 \/ pc = 7 \/ pc = 8
  BY <1>1
<1>4. Program[who][pc] = BaselineProgram[pc]
  BY <1>1
<1>5. CASE pc = 1 BY <1>2, <1>4, <1>5
<1>6. CASE pc = 2 BY <1>2, <1>4, <1>6
<1>7. CASE pc = 3 BY <1>2, <1>4, <1>7
<1>8. CASE pc = 4 BY <1>2, <1>4, <1>8
<1>9. CASE pc = 5 BY <1>2, <1>4, <1>9
<1>10. CASE pc = 6 BY <1>2, <1>4, <1>10
<1>11. CASE pc = 7 BY <1>2, <1>4, <1>11
<1>12. CASE pc = 8 BY <1>2, <1>4, <1>12
<1> QED BY <1>3, <1>5, <1>6, <1>7, <1>8, <1>9, <1>10, <1>11, <1>12

LEMMA AtAdoption ==
    ASSUME who = "adoption", pc \in 1..Len(Program[who])
    PROVE  \/ Program[who][pc] = "head" /\ pc = 1
           \/ Program[who][pc] = "status" /\ pc = 2
           \/ Program[who][pc] = "tree" /\ pc = 3
           \/ Program[who][pc] = "tree_again" /\ pc = 4
           \/ Program[who][pc] = "stage" /\ pc = 5
<1>1. Program[who] = AdoptionProgram /\ pc \in 1..5
  BY Lengths DEF Program
<1>2. /\ AdoptionProgram[1] = "head"
      /\ AdoptionProgram[2] = "status"
      /\ AdoptionProgram[3] = "tree"
      /\ AdoptionProgram[4] = "tree_again"
      /\ AdoptionProgram[5] = "stage"
  BY DEF AdoptionProgram
<1>3. pc = 1 \/ pc = 2 \/ pc = 3 \/ pc = 4 \/ pc = 5
  BY <1>1
<1>4. Program[who][pc] = AdoptionProgram[pc]
  BY <1>1
<1>5. CASE pc = 1 BY <1>2, <1>4, <1>5
<1>6. CASE pc = 2 BY <1>2, <1>4, <1>6
<1>7. CASE pc = 3 BY <1>2, <1>4, <1>7
<1>8. CASE pc = 4 BY <1>2, <1>4, <1>8
<1>9. CASE pc = 5 BY <1>2, <1>4, <1>9
<1> QED BY <1>3, <1>5, <1>6, <1>7, <1>8, <1>9

LEMMA StepsAreAt ==
    /\ RetainsRoot => Program[who][pc] = "retain_root"
    /\ RetainsHead => Program[who][pc] = "retain_head"
    /\ RetainsIndex => Program[who][pc] = "retain_index"
    /\ AdmitsRepository => Program[who][pc] = "admit"
    /\ ComparesRevision => Program[who][pc] = "revision"
    /\ ComparesIndex => Program[who][pc] = "index"
    /\ Lists => Program[who][pc] = "list"
    /\ WalkEnds => Program[who][pc] = "walk"
    /\ Holds => Program[who][pc] = "hold"
    /\ Seals => Program[who][pc] = "seal"
    /\ ChecksPolicy => Program[who][pc] = "policy"
    /\ ReadsHead => Program[who][pc] = "head"
    /\ StatusBegins => Program[who][pc] = "status"
    /\ StatusEnds => Program[who][pc] = "status"
    /\ ObservesBundle => Program[who][pc] = "bundle"
    /\ ValidatesCopy => Program[who][pc] = "validate"
    /\ Materializes => Program[who][pc] = "materialize"
    /\ Retains => Program[who][pc] = "retain"
    /\ Publish => Program[who][pc] = "publish"
    /\ \A f \in Files : Visits(f) => Program[who][pc] = "walk"
    /\ \A f \in Files : StatusLooks(f) => Program[who][pc] = "status"
    /\ ReadsDocuments => Program[who][pc] = "documents"
    /\ ReadsExpectations => Program[who][pc] = "expect"
    /\ CopiesSource => Program[who][pc] = "copy"
    /\ Builds => Program[who][pc] = "build"
    /\ NamesArtifacts => Program[who][pc] = "artifacts"
    /\ RunsSamples => Program[who][pc] = "samples"
    /\ ReadsTree => Program[who][pc] = "tree"
    /\ ReadsTreeAgain => Program[who][pc] = "tree_again"
    /\ StagesTree => Program[who][pc] = "stage"
BY DEF At, RetainsRoot, RetainsHead, RetainsIndex, AdmitsRepository, ComparesRevision, ComparesIndex, Lists, WalkEnds, Holds, Seals, ChecksPolicy, ReadsHead, StatusBegins, StatusEnds, ObservesBundle, ValidatesCopy, Materializes, Retains, Publish, Visits, StatusLooks,
    ReadsFiles, ReadingBegins, Reads, ReadingEnds, ReadsDocuments, ReadsExpectations, CopiesSource, Builds, NamesArtifacts, RunsSamples, ReadsTree, ReadsTreeAgain, StagesTree

LEMMA IdentitySteps ==
    ASSUME who = "identity", pc \in 1..Len(Program[who]), Reader
    PROVE  \/ pc = 1 /\ RetainsRoot
           \/ pc = 2 /\ RetainsHead
           \/ pc = 3 /\ RetainsIndex
           \/ pc \in {4, 10} /\ AdmitsRepository
           \/ pc \in {5, 11} /\ ComparesRevision
           \/ pc \in {6, 12} /\ ComparesIndex
           \/ pc \in {7, 13} /\ Lists
           \/ pc \in {8, 14} /\ (WalkEnds \/ (\E f \in Files : Visits(f)))
           \/ pc = 9 /\ Holds
           \/ pc = 15 /\ Seals
           \/ GivesUp
BY StepsAreAt, AtIdentity DEF Reader, Identity

LEMMA TaskSteps ==
    ASSUME who = "task", pc \in 1..Len(Program[who]), Reader
    PROVE  \/ pc = 1 /\ ChecksPolicy
           \/ pc = 2 /\ ReadsHead
           \/ pc = 3 /\ (StatusBegins \/ StatusEnds \/ (\E f \in Files : StatusLooks(f)))
           \/ pc = 4 /\ ReadsExpectations
           \/ GivesUp
BY StepsAreAt, AtTask DEF Reader, Identity

LEMMA GateSteps ==
    ASSUME who = "gate", pc \in 1..Len(Program[who]), Reader
    PROVE  \/ pc = 1 /\ ReadsDocuments
           \/ pc = 2 /\ ChecksPolicy
           \/ pc = 3 /\ (StatusBegins \/ StatusEnds \/ (\E f \in Files : StatusLooks(f)))
           \/ pc = 4 /\ ReadsHead
           \/ pc = 5 /\ ObservesBundle
           \/ GivesUp
BY StepsAreAt, AtGate DEF Reader, Identity

LEMMA RecipeSteps ==
    ASSUME who = "recipe", pc \in 1..Len(Program[who]), Reader
    PROVE  \/ pc \in {1, 6} /\ ReadsHead
           \/ pc \in {2, 7} /\ ChecksPolicy
           \/ pc \in {3, 8} /\ (StatusBegins \/ StatusEnds \/ (\E f \in Files : StatusLooks(f)))
           \/ pc = 4 /\ CopiesSource
           \/ pc = 5 /\ ValidatesCopy
           \/ pc = 9 /\ Materializes
           \/ pc = 10 /\ Retains
           \/ pc = 11 /\ Publish
           \/ GivesUp
BY StepsAreAt, AtRecipe DEF Reader, Identity

LEMMA BaselineSteps ==
    ASSUME who = "baseline", pc \in 1..Len(Program[who]), Reader
    PROVE  \/ pc \in {1, 3, 8} /\ (StatusBegins \/ StatusEnds \/ (\E f \in Files : StatusLooks(f)))
           \/ pc = 2 /\ Builds
           \/ pc \in {4, 7} /\ ReadsHead
           \/ pc = 5 /\ NamesArtifacts
           \/ pc = 6 /\ RunsSamples
           \/ GivesUp
BY StepsAreAt, AtBaseline DEF Reader, Identity

LEMMA AdoptionSteps ==
    ASSUME who = "adoption", pc \in 1..Len(Program[who]), Reader
    PROVE  \/ pc = 1 /\ ReadsHead
           \/ pc = 2 /\ (StatusBegins \/ StatusEnds \/ (\E f \in Files : StatusLooks(f)))
           \/ pc = 3 /\ ReadsTree
           \/ pc = 4 /\ ReadsTreeAgain
           \/ pc = 5 /\ StagesTree
           \/ GivesUp
BY StepsAreAt, AtAdoption DEF Reader, Identity

----------------------------------------------------------------------------
\* Types.
LEMMA PcMoves ==
    ASSUME ReaderTypes, outcome = "running", who' = who, Continues \/ Refuses
    PROVE  PcTypes'
<1>1. Len(Program[who]) \in Nat /\ pc \in 1..Len(Program[who])
  BY Lengths DEF ReaderTypes, PcTypes
<1> HIDE DEF Program
<1>2. CASE Continues
  BY <1>1, <1>2 DEF PcTypes, Continues
<1>3. CASE Refuses
  BY <1>1, <1>3 DEF PcTypes, Refuses
<1> QED BY <1>2, <1>3

LEMMA NothingTyped ==
    /\ Nothing.listed \in MaybeRead
    /\ Nothing.got \in [Purposes \cup {"head"} -> MaybeRead \cup {Unread}]
    /\ \A p \in Purposes : Nothing.got[p] = NoFiles /\ NoFiles \in MaybeRead
    /\ Nothing.kept \in [{"HEAD", "index", "root"} -> Mark]
    /\ Nothing.marks \in [Files -> Mark]
    /\ Nothing.todo = {}
    /\ Nothing.listed = NoFiles /\ Nothing.marks = NoFiles
    /\ \A f \in Files : NoFiles[f] = Unread
    /\ \A t \in {"HEAD", "index", "root"} : Nothing.kept[t] = Unread
<1>1. NoFiles \in MaybeRead /\ NoFiles \in [Files -> Mark] /\ \A f \in Files : NoFiles[f] = Unread
  BY DEF NoFiles, MaybeRead, Mark
<1>2. /\ Nothing.listed = NoFiles /\ Nothing.marks = NoFiles /\ Nothing.todo = {}
      /\ Nothing.got = [p \in Purposes \cup {"head"} |-> IF p = "head" THEN Unread ELSE NoFiles]
      /\ Nothing.kept = [t \in {"HEAD", "index", "root"} |-> Unread]
  BY DEF Nothing
<1>3. "head" \notin Purposes
  BY DEF Purposes
<1> QED BY <1>1, <1>2, <1>3 DEF Mark

\* What a read leaves in its purpose, and in the others.
LEMMA ReadsGot ==
    ASSUME TreeInv, DataTypes, NEW op \in Purposes, NEW f \in Files, Reads(op, f)
    PROVE  /\ got'[op][f] = work[f]
           /\ \A g \in Files : g # f => got'[op][g] = got[op][g]
           /\ \A p \in Purposes \cup {"head"} : p # op => got'[p] = got[p]
           /\ got' \in [Purposes \cup {"head"} -> MaybeRead \cup {Unread}]
           /\ \A p \in Purposes : got'[p] \in MaybeRead
<1> DEFINE row == [got[op] EXCEPT ![f] = work[f]]
<1>1. got[op] \in MaybeRead /\ work[f] \in Values
  BY DEF DataTypes, TreeInv, Trees
<1>2. row \in MaybeRead /\ row[f] = work[f] /\ \A g \in Files : g # f => row[g] = got[op][g]
  BY <1>1 DEF MaybeRead
<1>3. got' = [got EXCEPT ![op] = row]
  BY DEF Reads
<1> HIDE DEF row
<1> QED BY <1>2, <1>3 DEF DataTypes

LEMMA TypesAreKept ==
    ASSUME TreeInv, ReaderTypes, Reader
    PROVE  ReaderTypes' /\ UNCHANGED <<treeVars, who>> /\ outcome = "running"
<1> USE DEF ReaderTypes, DataTypes, MaybeRead, Mark
<1> DEFINE Goal == ReaderTypes' /\ UNCHANGED <<treeVars, who>> /\ outcome = "running"
<1>0. /\ Trees \subseteq MaybeRead /\ head \in Trees /\ index \in Trees /\ work \in Trees
      /\ \A t \in Things : stamp[t] \in Mark
      /\ "head" \notin Purposes
  BY DEF TreeInv, Trees, Purposes
<1>1. ASSUME outcome = "running", who' = who, Continues \/ Refuses PROVE PcTypes'
  BY <1>1, PcMoves
<1>2. ASSUME who' = who, pc' = pc, outcome' \in {outcome, "refused"} PROVE PcTypes'
  BY <1>2 DEF PcTypes
<1>3. ASSUME ChecksPolicy \/ StatusEnds \/ ObservesBundle \/ ValidatesCopy \/ AdmitsRepository \/ ComparesRevision
             \/ ComparesIndex \/ WalkEnds \/ Seals \/ Publish
      PROVE  Goal
  BY <1>1, <1>3 DEF ChecksPolicy, StatusEnds, ObservesBundle, ValidatesCopy, AdmitsRepository, ComparesRevision,
        ComparesIndex, WalkEnds, Seals, Publish, At, Asked, Decides
<1>4. ASSUME ReadsHead PROVE Goal
  <2>1. got' = [got EXCEPT !["head"] = head] /\ head \in MaybeRead
    BY <1>0, <1>4 DEF ReadsHead
  <2> QED BY <1>0, <1>1, <1>4, <2>1 DEF ReadsHead, At, Decides
<1>5. ASSUME StatusBegins PROVE Goal
  <2>1. Base \in Trees /\ listed' = Base
    BY <1>0, <1>5 DEF Base, StatusBegins, Trees
  <2> QED BY <1>0, <1>2, <1>5, <2>1 DEF StatusBegins, At
<1>6. ASSUME NEW f \in Files, StatusLooks(f) PROVE Goal
  BY <1>2, <1>6 DEF StatusLooks, At
<1>7. ASSUME NEW op \in Purposes, ReadsFiles(op) PROVE Goal
  <2>1. CASE ReadingBegins(op)
    BY <1>2, <2>1 DEF ReadingBegins, At
  <2>2. ASSUME NEW f \in Files, Reads(op, f) PROVE Goal
    <3>1. /\ got' \in [Purposes \cup {"head"} -> MaybeRead \cup {Unread}]
          /\ \A p \in Purposes : got'[p] \in MaybeRead
      BY <2>2, ReadsGot
    <3> QED BY <1>2, <2>2, <3>1 DEF Reads, At
  <2>3. CASE ReadingEnds(op)
    BY <1>1, <2>3 DEF ReadingEnds, At
  <2> QED BY <1>7, <2>1, <2>2, <2>3 DEF ReadsFiles
<1>8. ASSUME Materializes \/ Retains PROVE Goal
  <2>1. PICK p \in Purposes : got' = [got EXCEPT ![p] = got["copy"]]
    BY <1>8 DEF Materializes, Retains, Purposes
  <2>2. got["copy"] \in MaybeRead
    BY DEF Purposes
  <2>3. got' \in [Purposes \cup {"head"} -> MaybeRead \cup {Unread}] /\ \A q \in Purposes : got'[q] \in MaybeRead
    BY <2>1, <2>2
  <2> QED BY <1>1, <1>8, <2>3 DEF Materializes, Retains, At, Decides
<1>9. ASSUME RetainsRoot \/ RetainsHead \/ RetainsIndex PROVE Goal
  <2>1. PICK t \in {"HEAD", "index", "root"} : kept' = [kept EXCEPT ![t] = stamp[t]]
    BY <1>9 DEF RetainsRoot, RetainsHead, RetainsIndex
  <2>2. kept' \in [{"HEAD", "index", "root"} -> Mark]
    BY <1>0, <2>1 DEF Things
  <2>3. got' = got \/ got' = [got EXCEPT !["head"] = head]
    BY <1>9 DEF RetainsRoot, RetainsHead, RetainsIndex
  <2>4. got' \in [Purposes \cup {"head"} -> MaybeRead \cup {Unread}] /\ \A q \in Purposes : got'[q] \in MaybeRead
    BY <1>0, <2>3
  <2> QED BY <1>1, <1>9, <2>2, <2>4 DEF RetainsRoot, RetainsHead, RetainsIndex, At, Decides
<1>10. ASSUME Lists PROVE Goal
  BY <1>0, <1>1, <1>10 DEF Lists, At
<1>11. ASSUME NEW f \in Files, Visits(f) PROVE Goal
  <2>1. marks' = [marks EXCEPT ![f] = stamp[f]] /\ stamp[f] \in Mark
    BY <1>0, <1>11 DEF Visits, Things
  <2> QED BY <1>2, <1>11, <2>1 DEF Visits, At
<1>12. ASSUME Holds PROVE Goal
  BY <1>1, <1>12 DEF Holds, At, Asked, Decides
<1>13. ASSUME GivesUp PROVE Goal
  BY <1>13, NothingTyped DEF GivesUp, PcTypes
<1>14. {"expect", "copy", "build", "artifacts", "samples", "tree", "tree_again", "stage", "documents"} \subseteq Purposes
  BY DEF Purposes
<1>15. \A op \in Purposes : ReadsFiles(op) => Goal
  BY <1>7
<1> HIDE DEF Goal
<1>16. Goal
  BY <1>3, <1>4, <1>5, <1>6, <1>8, <1>9, <1>10, <1>11, <1>12, <1>13, <1>14, <1>15
     DEF Reader, Identity, ReadsDocuments, ReadsExpectations, CopiesSource, Builds, NamesArtifacts, RunsSamples,
         ReadsTree, ReadsTreeAgain, StagesTree
<1> QED BY <1>16 DEF Goal

----------------------------------------------------------------------------
\* The recipe.
LEMMA RecipeStep ==
    ASSUME TreeInv, ReaderTypes, who = "recipe", RecipeInv, Reader, outcome' # "refused"
    PROVE  RecipeInv'
<1> USE DEF RecipeInv
<1>1. /\ outcome = "running" /\ pc \in 1..Len(Program[who]) /\ pc \in Nat
      /\ got \in [Purposes \cup {"head"} -> MaybeRead \cup {Unread}] /\ DataTypes
  BY TypesAreKept DEF ReaderTypes, PcTypes, DataTypes
<1>2. /\ "copy" \in Purposes /\ "source" \in Purposes /\ "retained" \in Purposes
      /\ "head" \notin Purposes
  BY DEF Purposes
<1>3. CASE pc \in {1, 6} /\ ReadsHead
  BY <1>1, <1>2, <1>3 DEF ReadsHead, Decides, Continues, Refuses
<1>4. CASE pc \in {2, 7} /\ ChecksPolicy
  BY <1>1, <1>4 DEF ChecksPolicy, Decides, Continues, Refuses
<1>5. ASSUME pc \in {3, 8}, StatusBegins \/ StatusEnds \/ \E f \in Files : StatusLooks(f) PROVE RecipeInv'
  BY <1>1, <1>5 DEF StatusBegins, StatusEnds, StatusLooks, Decides, Continues, Refuses
<1>6. CASE pc = 4 /\ CopiesSource
  BY <1>6 DEF CopiesSource, ReadsFiles, ReadingBegins, Reads, ReadingEnds, Continues
<1>7. CASE pc = 5 /\ ValidatesCopy
  BY <1>7 DEF ValidatesCopy, Decides, Continues, Refuses
<1>8. CASE pc = 9 /\ Materializes
  BY <1>1, <1>2, <1>8 DEF Materializes, Continues
<1>9. CASE pc = 10 /\ Retains
  BY <1>1, <1>2, <1>9 DEF Retains, Replayed, Decides, Continues, Refuses
<1>10. CASE pc = 11 /\ Publish
  BY <1>10 DEF Publish, Decides, Continues, Refuses
<1>11. CASE GivesUp
  BY <1>11 DEF GivesUp
<1> QED BY <1>1, <1>3, <1>4, <1>5, <1>6, <1>7, <1>8, <1>9, <1>10, <1>11, RecipeSteps

LEMMA OutputStep ==
    ASSUME ReaderTypes, OutputInv, Reader, who = "recipe" /\ outcome # "refused" => RecipeInv
    PROVE  OutputInv'
<1>1. CASE Publish
  <2>1. SUFFICES ASSUME output' = "ours" PROVE OutputInv'
    BY DEF OutputInv
  <2>2. output = "none" /\ outcome = "running" /\ Continues /\ got' = got /\ who' = who /\ Program[who][pc] = "publish"
    BY <1>1, <2>1 DEF Publish, OutputInv, Decides, At
  <2>3. pc \in 1..Len(Program[who])
    BY <2>2 DEF ReaderTypes, PcTypes
  <2>4. who = "recipe" /\ pc = 11
    <3>1. who \in {"identity", "task", "source", "gate", "recipe", "baseline", "adoption"}
      BY ReadersAssumption DEF ReaderTypes
    <3> QED BY <2>2, <2>3, <3>1, AtIdentity, AtTask, AtSource, AtGate, AtRecipe, AtBaseline, AtAdoption
  <2>5. outcome' = "accepted"
    BY <2>2, <2>4, Lengths DEF Continues
  <2> QED BY <2>2, <2>4, <2>5 DEF OutputInv, RecipeInv
<1>2. CASE ~Publish
  <2>1. output' = output /\ outcome = "running"
    BY <1>2 DEF Reader, Identity, ReadsDocuments, ReadsExpectations, CopiesSource, Builds, NamesArtifacts,
        RunsSamples, ReadsTree, ReadsTreeAgain, StagesTree, ReadsFiles, ReadingBegins, Reads, ReadingEnds,
        RetainsRoot, RetainsHead, RetainsIndex, AdmitsRepository, ComparesRevision, ComparesIndex, Lists, Visits,
        WalkEnds, Holds, Seals, ChecksPolicy, ReadsHead, StatusBegins, StatusLooks, StatusEnds, ObservesBundle,
        ValidatesCopy, Materializes, Retains, GivesUp, At
  <2> QED BY <2>1 DEF OutputInv
<1> QED BY <1>1, <1>2

----------------------------------------------------------------------------
\* The snapshot.
LEMMA TaskStep ==
    ASSUME TreeInv, ReaderTypes, who = "task", TaskInv, Reader, outcome' # "refused"
    PROVE  TaskInv'
<1> USE DEF TaskInv, TaskPremise, Clean, Passed, TaskMoment
<1>1. /\ outcome = "running" /\ pc \in 1..Len(Program[who]) /\ pc \in Nat
      /\ got \in [Purposes \cup {"head"} -> MaybeRead \cup {Unread}] /\ DataTypes
      /\ listed' \in MaybeRead
      /\ UNCHANGED <<head, index, work, edits, stamp, had, undone, moments>>
  BY TypesAreKept DEF ReaderTypes, PcTypes, DataTypes, treeVars
<1>2. "head" \notin Purposes /\ "expect" \in Purposes
  BY DEF Purposes
<1>3. /\ head \in Trees /\ index \in Trees /\ work \in Trees /\ head \in had["HEAD"]
      /\ \A f \in Files : work[f] \in had[f]
      /\ Moment(head, index, work) \in moments
      /\ Tracked \subseteq Files
  BY DEF TreeInv, Files
<1>4. CASE pc = 1 /\ ChecksPolicy
  BY <1>1, <1>4 DEF ChecksPolicy, Decides, Continues, Refuses
<1>5. CASE pc = 2 /\ ReadsHead
  <2>1. got'["head"] = head /\ pc' = 3 /\ ~walking'
    BY <1>1, <1>5 DEF ReadsHead, Decides, Continues, Refuses
  <2> QED BY <1>1, <1>3, <2>1
<1>6. CASE pc = 3 /\ StatusBegins
  <2>1. listed' = index
    BY <1>3, <1>6 DEF StatusBegins, Base, Trees
  <2> QED BY <1>1, <1>6, <2>1 DEF StatusBegins
<1>7. ASSUME pc = 3, NEW f \in Files, StatusLooks(f) PROVE TaskInv'
  BY <1>1, <1>3, <1>7 DEF StatusLooks
<1>8. CASE pc = 3 /\ StatusEnds
  <2>1. ~dirty /\ got["head"] = Pinned /\ pc' = 4 /\ ~walking' /\ todo = {} /\ walking /\ got' = got
    BY <1>8 DEF StatusEnds, StatusAdmitted, Decides, Continues, Refuses
  <2>2. TaskPremise => \A f \in Tracked : Good \in had[f]
    BY <1>3, <1>8, <2>1, Kinds
  <2>3. (\A f \in Tracked : work[f] = Good) => \E m \in moments : TaskMoment(m)
    BY <1>3 DEF Moment
  <2> QED BY <1>1, <1>3, <1>8, <2>1, <2>2, <2>3
<1>9. ASSUME pc = 4, ReadsExpectations PROVE TaskInv'
  <2>1. CASE ReadingBegins("expect")
    BY <1>1, <1>3, <1>9, <2>1 DEF ReadingBegins
  <2>2. ASSUME NEW f \in Files, Reads("expect", f) PROVE TaskInv'
    <3>1. got'["head"] = got["head"]
      BY <1>1, <1>2, <2>2, ReadsGot
    <3>2. f \in Tracked => work[f] = Good
      BY <1>1, <2>2 DEF Reads, Admits, ExpectAdmits
    <3> QED BY <1>1, <1>3, <1>9, <2>2, <3>1, <3>2 DEF Reads
  <2>3. CASE ReadingEnds("expect")
    BY <1>1, <1>3, <1>9, <2>3 DEF ReadingEnds, Continues
  <2> QED BY <1>9, <2>1, <2>2, <2>3 DEF ReadsExpectations, ReadsFiles
<1>10. CASE GivesUp
  BY <1>10 DEF GivesUp
<1> QED BY <1>1, <1>4, <1>5, <1>6, <1>7, <1>8, <1>9, <1>10, TaskSteps

LEMMA TaskEdit ==
    ASSUME TreeInv, TaskInv, TreeInv', EditLeavesTraces, UNCHANGED readVars, pc \in Nat
    PROVE  TaskInv'
<1> USE DEF TaskInv, TaskPremise, Clean, Passed, TaskMoment, EditLeavesTraces, readVars
<1>1. Tracked \subseteq Files /\ head \in had["HEAD"]
  BY DEF Files, TreeInv
<1>2. pc > 2 /\ TaskPremise' => TaskPremise /\ head' = head
  BY <1>1
<1>3. pc > 3 /\ TaskPremise' /\ (\A f \in Tracked : Passed(4, f) \/ work'[f] = Good) =>
            \A f \in Tracked : Passed(4, f) \/ work[f] = Good
  BY <1>1, <1>2
<1> QED BY <1>1, <1>2, <1>3

----------------------------------------------------------------------------
\* The capsule.
LEMMA AdoptionStep ==
    ASSUME TreeInv, ReaderTypes, who = "adoption", AdoptionInv, Reader, outcome' # "refused"
    PROVE  AdoptionInv'
<1>1. /\ outcome = "running" /\ pc \in 1..Len(Program[who]) /\ pc \in Nat
      /\ got \in [Purposes \cup {"head"} -> MaybeRead \cup {Unread}] /\ DataTypes
      /\ \A p \in Purposes : got[p] \in MaybeRead
      /\ UNCHANGED <<head, index, work, edits, stamp, had, undone, moments>>
  BY TypesAreKept DEF ReaderTypes, PcTypes, DataTypes, treeVars
<1>2. "head" \notin Purposes /\ "tree" \in Purposes /\ "tree_again" \in Purposes /\ "stage" \in Purposes
  BY DEF Purposes
<1>3. /\ work \in Trees
      /\ \A f \in Files : work[f] \in had[f]
      /\ Moment(head, index, work) \in moments
  BY DEF TreeInv
<1>4. CASE pc = 1 /\ ReadsHead
  <2>1. got' = [got EXCEPT !["head"] = head]
    BY <1>4 DEF ReadsHead
  <2>2. got'["tree"] = got["tree"]
    BY <1>1, <1>2, <2>1
  <2>3. pc' = 2 /\ walking' = walking
    BY <1>1, <1>4 DEF ReadsHead, Decides, Continues, Refuses
  <2> QED BY <1>4, <2>2, <2>3 DEF AdoptionInv, Passed, AdoptionMoment
<1>5. ASSUME pc = 2, StatusBegins \/ StatusEnds \/ \E f \in Files : StatusLooks(f) PROVE AdoptionInv'
  BY <1>1, <1>5 DEF StatusBegins, StatusEnds, StatusLooks, Decides, Continues, Refuses, AdoptionInv, Passed, AdoptionMoment
<1>6. ASSUME pc = 3, ReadsTree PROVE AdoptionInv'
  <2>1. CASE ReadingBegins("tree")
    BY <1>1, <1>6, <2>1 DEF ReadingBegins, AdoptionInv, Passed, AdoptionMoment
  <2>2. ASSUME NEW f \in Files, Reads("tree", f) PROVE AdoptionInv'
    <3>1. got'["tree"][f] = work[f] /\ \A g \in Files : g # f => got'["tree"][g] = got["tree"][g]
      BY <1>1, <1>2, <2>2, ReadsGot
    <3> QED BY <1>1, <1>3, <1>6, <2>2, <3>1 DEF Reads, AdoptionInv, Passed, AdoptionMoment
  <2>3. CASE ReadingEnds("tree")
    <3>1. /\ pc' = 4 /\ ~walking' /\ got' = got /\ todo = {} /\ walking
      BY <1>1, <1>6, <2>3 DEF ReadingEnds, Continues
    <3>2. got["tree"] \in MaybeRead
      BY <1>1, <1>2
    <3>3. (\A f \in Files : work[f] = got["tree"][f]) => work = got["tree"]
      BY <1>3, <3>2 DEF Trees, MaybeRead
    <3>4. work = got["tree"] => \E m \in moments : AdoptionMoment(m)
      BY <1>3 DEF Moment, AdoptionInv, Passed, AdoptionMoment
    <3> QED BY <1>1, <1>6, <3>1, <3>3, <3>4 DEF AdoptionInv, Passed, AdoptionMoment
  <2> QED BY <1>6, <2>1, <2>2, <2>3 DEF ReadsTree, ReadsFiles
<1>7. ASSUME pc = 4, ReadsTreeAgain PROVE AdoptionInv'
  <2>1. CASE ReadingBegins("tree_again")
    BY <1>1, <1>7, <2>1 DEF ReadingBegins, AdoptionInv, Passed, AdoptionMoment
  <2>2. ASSUME NEW f \in Files, Reads("tree_again", f) PROVE AdoptionInv'
    <3>1. got'["tree"] = got["tree"]
      BY <1>1, <1>2, <2>2, ReadsGot
    <3>2. work[f] = got["tree"][f]
      BY <1>1, <2>2 DEF Reads, Admits, AgainAdmits
    <3>3. pc' = 4 /\ walking' /\ walking /\ todo' = todo \ {f}
      BY <1>7, <2>2 DEF Reads
    <3>4. \A g \in Files : Passed(4, g)' => Passed(4, g) \/ work[g] = got["tree"][g]
      BY <1>7, <3>2, <3>3 DEF Passed
    <3>5. \A g \in Files : Passed(3, g)
      BY <1>7 DEF Passed
    <3> QED BY <1>1, <1>7, <3>1, <3>3, <3>4, <3>5 DEF AdoptionInv, AdoptionMoment
  <2>3. CASE ReadingEnds("tree_again")
    <3>1. pc' = 5
      BY <1>7, <2>3 DEF ReadingEnds, Continues
    <3>2. walking /\ todo = {} /\ got' = got
      BY <2>3 DEF ReadingEnds
    <3>3. \A g \in Files : Passed(3, g) /\ Passed(4, g)
      BY <1>7, <3>2 DEF Passed
    <3> QED BY <1>1, <1>7, <3>1, <3>2, <3>3 DEF AdoptionInv, AdoptionMoment
  <2> QED BY <1>7, <2>1, <2>2, <2>3 DEF ReadsTreeAgain, ReadsFiles
<1>8. ASSUME pc = 5, StagesTree PROVE AdoptionInv'
  <2>1. CASE ReadingBegins("stage")
    BY <1>1, <1>8, <2>1 DEF ReadingBegins, AdoptionInv, Passed, AdoptionMoment
  <2>2. ASSUME NEW f \in Files, Reads("stage", f) PROVE AdoptionInv'
    <3>1. got'["tree"] = got["tree"]
      BY <1>1, <1>2, <2>2, ReadsGot
    <3> QED BY <1>1, <1>8, <2>2, <3>1 DEF Reads, AdoptionInv, Passed, AdoptionMoment
  <2>3. CASE ReadingEnds("stage")
    BY <1>1, <1>8, <2>3 DEF ReadingEnds, Continues, AdoptionInv, Passed, AdoptionMoment
  <2> QED BY <1>8, <2>1, <2>2, <2>3 DEF StagesTree, ReadsFiles
<1>9. CASE GivesUp
  BY <1>9 DEF GivesUp, AdoptionInv, Passed, AdoptionMoment
<1> QED BY <1>1, <1>4, <1>5, <1>6, <1>7, <1>8, <1>9, AdoptionSteps

LEMMA AdoptionEdit ==
    ASSUME TreeInv, AdoptionInv, TreeInv', EditLeavesTraces, UNCHANGED readVars, pc \in Nat
    PROVE  AdoptionInv'
<1> USE DEF AdoptionInv, Passed, AdoptionMoment, EditLeavesTraces, readVars
<1>1. pc > 3 /\ ~undone' /\ (\A f \in Files : Passed(4, f) \/ work'[f] = got["tree"][f]) =>
            \A f \in Files : Passed(4, f) \/ work[f] = got["tree"][f]
  OBVIOUS
<1> QED BY <1>1

----------------------------------------------------------------------------
\* The gate.
LEMMA GateStep ==
    ASSUME TreeInv, ReaderTypes, who = "gate", GateInv, Reader, outcome' # "refused"
    PROVE  GateInv'
<1> USE DEF GateInv, GatePremise, Clean, Passed
<1>1. /\ outcome = "running" /\ pc \in 1..Len(Program[who]) /\ pc \in Nat
      /\ got \in [Purposes \cup {"head"} -> MaybeRead \cup {Unread}] /\ DataTypes
      /\ UNCHANGED <<head, index, work, edits, stamp, had, undone, moments>>
  BY TypesAreKept DEF ReaderTypes, PcTypes, DataTypes, treeVars
<1>2. "head" \notin Purposes /\ "documents" \in Purposes
  BY DEF Purposes
<1>3. head \in Trees /\ index \in Trees /\ work \in Trees
  BY DEF TreeInv
<1>4. ASSUME pc = 1, ReadsDocuments PROVE GateInv'
  <2>1. CASE ReadingBegins("documents")
    BY <1>1, <1>4, <2>1 DEF ReadingBegins
  <2>2. ASSUME NEW f \in Files, Reads("documents", f) PROVE GateInv'
    <3>1. got'["documents"][f] = work[f] /\ \A g \in Files : g # f => got'["documents"][g] = got["documents"][g]
      BY <1>1, <1>2, <2>2, ReadsGot
    <3> QED BY <1>1, <1>4, <2>2, <3>1 DEF Reads
  <2>3. CASE ReadingEnds("documents")
    BY <1>1, <1>4, <2>3 DEF ReadingEnds, Continues
  <2> QED BY <1>4, <2>1, <2>2, <2>3 DEF ReadsDocuments, ReadsFiles
<1>5. CASE pc = 2 /\ ChecksPolicy
  BY <1>1, <1>5 DEF ChecksPolicy, Decides, Continues, Refuses
<1>6. CASE pc = 3 /\ StatusBegins
  <2>1. listed' = index
    BY <1>3, <1>6 DEF StatusBegins, Base, Trees
  <2> QED BY <1>1, <1>6, <2>1 DEF StatusBegins
<1>7. ASSUME pc = 3, NEW f \in Files, StatusLooks(f) PROVE GateInv'
  <2>1. /\ pc' = 3 /\ walking' = walking /\ got' = got /\ listed' = listed /\ todo' = todo \ {f} /\ walking
        /\ dirty' = (dirty \/ work[f] # listed[f])
    BY <1>7 DEF StatusLooks
  <2>2. GatePremise /\ ~dirty' => listed = head /\ \A g \in Files \ todo' : work[g] = head[g]
    BY <1>7, <2>1
  <2> QED BY <1>1, <1>7, <2>1, <2>2
<1>8. CASE pc = 3 /\ StatusEnds
  <2>1. ~dirty /\ pc' = 4 /\ ~walking' /\ todo = {} /\ walking /\ got' = got
    BY <1>8 DEF StatusEnds, StatusAdmitted, Decides, Continues, Refuses
  <2>2. GatePremise => work = head
    BY <1>3, <1>8, <2>1 DEF Trees
  <2> QED BY <1>1, <1>8, <2>1, <2>2
<1>9. CASE pc = 4 /\ ReadsHead
  <2>1. /\ got'["documents"] = got["documents"] /\ got'["head"] = head /\ pc' = 5 /\ ~walking'
    BY <1>1, <1>2, <1>9 DEF ReadsHead, Decides, Continues, Refuses
  <2> QED BY <1>1, <1>9, <2>1
<1>10. CASE pc = 5 /\ ObservesBundle
  BY <1>1, <1>10 DEF ObservesBundle, Decides, Continues, Refuses
<1>11. CASE GivesUp
  BY <1>11 DEF GivesUp
<1> QED BY <1>1, <1>4, <1>5, <1>6, <1>7, <1>8, <1>9, <1>10, <1>11, GateSteps

LEMMA GateEdit ==
    ASSUME TreeInv, GateInv, TreeInv', EditLeavesTraces, UNCHANGED readVars, pc \in Nat
    PROVE  GateInv'
<1> USE DEF GateInv, GatePremise, Clean, Passed, EditLeavesTraces, readVars
<1>1. /\ edits \in Nat /\ \A t \in Files \cup {"HEAD"} : t \in Things
      /\ work \in Trees /\ work' \in Trees
  BY DEF TreeInv, Things
<1>2. GatePremise' => GatePremise /\ head' = head /\ \A f \in Files : work'[f] = work[f]
  BY <1>1
<1>3. GatePremise' => work' = work
  BY <1>1, <1>2 DEF Trees
<1> QED BY <1>2, <1>3

----------------------------------------------------------------------------
\* The baseline.
LEMMA BaselineStep ==
    ASSUME TreeInv, ReaderTypes, who = "baseline", BaselineInv, Reader, outcome' # "refused"
    PROVE  BaselineInv'
<1> USE DEF BaselineInv, BaselinePremise, Clean, Passed
<1>1. /\ outcome = "running" /\ pc \in 1..Len(Program[who]) /\ pc \in Nat
      /\ got \in [Purposes \cup {"head"} -> MaybeRead \cup {Unread}] /\ DataTypes
      /\ UNCHANGED <<head, index, work, edits, stamp, had, undone, moments>>
  BY TypesAreKept DEF ReaderTypes, PcTypes, DataTypes, treeVars
<1>2. "head" \notin Purposes /\ "build" \in Purposes /\ "artifacts" \in Purposes /\ "samples" \in Purposes
  BY DEF Purposes
<1>3. /\ head \in Trees /\ index \in Trees /\ work \in Trees
      /\ \A f \in Files : work[f] \in had[f]
  BY DEF TreeInv
<1>4. ASSUME pc \in {1, 3, 8}, StatusBegins PROVE BaselineInv'
  <2>1. listed' = index
    BY <1>3, <1>4 DEF StatusBegins, Base, Trees
  <2> QED BY <1>1, <1>4, <2>1 DEF StatusBegins
<1>5. ASSUME pc \in {1, 3, 8}, NEW f \in Files, StatusLooks(f) PROVE BaselineInv'
  <2>1. /\ pc' = pc /\ walking' = walking /\ got' = got /\ listed' = listed /\ todo' = todo \ {f} /\ walking
        /\ dirty' = (dirty \/ work[f] # listed[f])
    BY <1>5 DEF StatusLooks
  <2>2. pc = 3 /\ ~dirty' => \A g \in Files \ todo' : listed[g] \in had[g]
    BY <1>3, <2>1
  <2>3. pc = 8 /\ ~dirty' /\ BaselinePremise => \A g \in Files :
            g \notin todo' => got["artifacts"][g] = head[g] /\ got["samples"][g] = head[g]
    <3>1. SUFFICES ASSUME pc = 8, ~dirty', BaselinePremise, NEW g \in Files, g \notin todo'
                   PROVE  got["artifacts"][g] = head[g] /\ got["samples"][g] = head[g]
      OBVIOUS
    <3>2. listed = head /\ ~dirty
      BY <2>1, <3>1
    <3>3. CASE g \notin todo
      BY <2>1, <3>1, <3>2, <3>3
    <3>4. CASE g = f
      <4>1. work[f] = head[f]
        BY <2>1, <3>1, <3>2
      <4> QED BY <3>1, <3>4, <4>1
    <3> QED BY <2>1, <3>1, <3>3, <3>4
  <2>4. BaselinePremise' = BaselinePremise /\ head' = head
    BY <1>1
  <2>5. (Clean(3) \/ Clean(8))' /\ BaselinePremise => listed' = head
    BY <2>1
  <2> QED BY <1>1, <1>5, <2>1, <2>2, <2>3, <2>4, <2>5
<1>6. ASSUME pc \in {1, 3, 8}, StatusEnds PROVE BaselineInv'
  <2>1. ~dirty /\ pc' = pc + 1 /\ ~walking' /\ todo = {} /\ walking /\ got' = got
    BY <1>6 DEF StatusEnds, StatusAdmitted, Decides, Continues, Refuses
  <2> QED BY <1>1, <1>6, <2>1
<1>7. ASSUME pc \in {4, 7}, ReadsHead PROVE BaselineInv'
  <2>1. /\ got'["artifacts"] = got["artifacts"] /\ got'["samples"] = got["samples"]
        /\ pc' = pc + 1 /\ ~walking'
    BY <1>1, <1>2, <1>7 DEF ReadsHead, Decides, Continues, Refuses
  <2> QED BY <1>1, <1>7, <2>1
<1>8. ASSUME NEW op \in {"build", "artifacts", "samples"}, ReadingBegins(op), pc \in {2, 5, 6} PROVE BaselineInv'
  BY <1>1, <1>8 DEF ReadingBegins
<1>9. ASSUME NEW op \in {"build", "artifacts", "samples"}, ReadingEnds(op), pc \in {2, 5, 6} PROVE BaselineInv'
  BY <1>1, <1>9 DEF ReadingEnds, Continues
<1>10. ASSUME NEW op \in {"build", "artifacts", "samples"}, NEW f \in Files, Reads(op, f),
              pc = (CASE op = "build" -> 2 [] op = "artifacts" -> 5 [] OTHER -> 6)
       PROVE  BaselineInv'
  <2>1. /\ got'[op][f] = work[f] /\ \A g \in Files : g # f => got'[op][g] = got[op][g]
        /\ \A p \in Purposes \cup {"head"} : p # op => got'[p] = got[p]
    BY <1>1, <1>2, <1>10, ReadsGot
  <2>2. pc' = pc /\ walking /\ walking' /\ todo' = todo \ {f} /\ dirty' = dirty
    BY <1>1, <1>10 DEF Reads
  <2>3. CASE op = "build"
    BY <1>1, <1>2, <1>10, <2>1, <2>2, <2>3
  <2>4. CASE op = "artifacts"
    BY <1>1, <1>2, <1>10, <2>1, <2>2, <2>4
  <2>5. CASE op = "samples"
    BY <1>1, <1>2, <1>10, <2>1, <2>2, <2>5
  <2> QED BY <2>3, <2>4, <2>5
<1>11. CASE pc = 2 /\ Builds
  BY <1>8, <1>9, <1>10, <1>11 DEF Builds, ReadsFiles
<1>12. CASE pc = 5 /\ NamesArtifacts
  BY <1>8, <1>9, <1>10, <1>12 DEF NamesArtifacts, ReadsFiles
<1>13. CASE pc = 6 /\ RunsSamples
  BY <1>8, <1>9, <1>10, <1>13 DEF RunsSamples, ReadsFiles
<1>14. CASE GivesUp
  BY <1>14 DEF GivesUp
<1> QED BY <1>1, <1>4, <1>5, <1>6, <1>7, <1>11, <1>12, <1>13, <1>14, BaselineSteps

LEMMA BaselineEdit ==
    ASSUME TreeInv, BaselineInv, TreeInv', EditLeavesTraces, UNCHANGED readVars, pc \in Nat
    PROVE  BaselineInv'
<1> USE DEF BaselineInv, BaselinePremise, Clean, Passed, EditLeavesTraces, readVars
<1>1. head \in had["HEAD"] /\ head' \in had'["HEAD"]
  BY DEF TreeInv
<1>2. BaselinePremise' => BaselinePremise /\ head' = head
  BY <1>1
<1>3. BaselinePremise' /\ pc > 3 => \A f \in Files : work'[f] = head'[f] => work[f] = head[f]
  BY <1>1, <1>2
<1> QED BY <1>1, <1>2, <1>3

----------------------------------------------------------------------------
\* The identity, part by part.  What is kept and marked is never newer than the
\* last edit, so that a later edit makes a difference.
LEMMA IdentityFacts ==
    ASSUME TreeInv, ReaderTypes, who = "identity", Reader
    PROVE  /\ outcome = "running" /\ pc \in 1..Len(Program[who]) /\ pc \in Nat /\ pc' \in {pc, pc + 1, 1}
           /\ got \in [Purposes \cup {"head"} -> MaybeRead \cup {Unread}]
           /\ kept \in [{"HEAD", "index", "root"} -> Mark]
           /\ marks \in [Files -> Mark] /\ held \in [Files -> Mark]
           /\ UNCHANGED <<head, index, work, edits, stamp, had, undone, moments>>
           /\ \A t \in Things : stamp[t] \in Nat /\ stamp[t] # Unread /\ stamp[t] <= edits
           /\ \A f \in Files : f \in Things
           /\ {"HEAD", "index", "root"} \subseteq Things
           /\ Moment(head, index, work) \in moments
<1>1. outcome = "running" /\ UNCHANGED <<treeVars, who>>
  BY TypesAreKept
<1>2. pc \in 1..Len(Program[who]) /\ Len(Program[who]) = 15
  BY <1>1, Lengths DEF ReaderTypes, PcTypes
<1>3. pc \in Nat
  BY <1>2
<1>4. pc' \in {pc, pc + 1, 1}
  BY <1>2, IdentitySteps DEF RetainsRoot, RetainsHead, RetainsIndex, AdmitsRepository, ComparesRevision, ComparesIndex,
     Lists, Visits, WalkEnds, Holds, Seals, GivesUp, Asked, Decides, Continues, Refuses
<1>5. /\ \A t \in Things : stamp[t] \in Nat /\ stamp[t] # Unread /\ stamp[t] <= edits
      /\ Moment(head, index, work) \in moments
  BY UnreadAssumption DEF TreeInv
<1>6. (\A f \in Files : f \in Things) /\ {"HEAD", "index", "root"} \subseteq Things
  BY DEF Things
<1> QED BY <1>1, <1>2, <1>3, <1>4, <1>5, <1>6 DEF ReaderTypes, DataTypes, treeVars

\* What a step of the identity does, without its guards.
LEMMA IdentityMoves ==
    ASSUME TreeInv, ReaderTypes, who = "identity", Reader, outcome' # "refused"
    PROVE  \/ pc = 1 /\ pc' = 2 /\ kept' = [kept EXCEPT !["root"] = stamp["root"]]
                /\ UNCHANGED <<got, marks, held, todo, listed>>
           \/ pc = 2 /\ pc' = 3 /\ kept' = [kept EXCEPT !["HEAD"] = stamp["HEAD"]]
                /\ got' = [got EXCEPT !["head"] = head] /\ UNCHANGED <<marks, held, todo, listed>>
           \/ pc = 3 /\ pc' = 4 /\ kept' = [kept EXCEPT !["index"] = stamp["index"]]
                /\ UNCHANGED <<got, marks, held, todo, listed>>
           \/ pc \in {4, 10} /\ pc' = pc + 1 /\ UNCHANGED <<got, kept, marks, held, todo, listed>>
           \/ pc \in {5, 11} /\ pc' = pc + 1 /\ Stable /\ got["head"] = Pinned /\ head = Pinned
                /\ UNCHANGED <<got, kept, marks, held, todo, listed>>
           \/ pc \in {6, 12} /\ pc' = pc + 1 /\ Stable /\ index = Pinned
                /\ UNCHANGED <<got, kept, marks, held, todo, listed>>
           \/ pc \in {7, 13} /\ pc' = pc + 1 /\ listed' = work /\ todo' = {f \in Files : work[f] # Absent}
                /\ UNCHANGED <<got, kept, marks, held>>
           \/ pc \in {8, 14} /\ pc' = pc /\ (\E f \in Files : EntryAdmitted(f) /\ todo' = todo \ {f}
                    /\ f \in todo /\ marks' = [marks EXCEPT ![f] = stamp[f]])
                /\ UNCHANGED <<got, kept, held, listed>>
           \/ pc \in {8, 14} /\ pc' = pc + 1 /\ Stable /\ todo = {} /\ (\A f \in PathsOfCommit : listed[f] # Absent)
                /\ UNCHANGED <<got, kept, marks, held, todo, listed>>
           \/ pc = 9 /\ pc' = 10 /\ Stable /\ held' = marks /\ UNCHANGED <<got, kept, marks, todo, listed>>
           \/ pc = 15 /\ pc' = 16 /\ Stable /\ marks = held /\ UNCHANGED <<got, kept, marks, held, todo, listed>>
<1>1. pc \in 1..Len(Program[who]) /\ outcome = "running"
  BY IdentityFacts
<1>2. CASE pc = 1 /\ RetainsRoot
  BY <1>2 DEF RetainsRoot, Continues
<1>3. CASE pc = 2 /\ RetainsHead
  BY <1>3 DEF RetainsHead, Continues
<1>4. CASE pc = 3 /\ RetainsIndex
  BY <1>4 DEF RetainsIndex, Decides, Continues, Refuses
<1>5. CASE pc \in {4, 10} /\ AdmitsRepository
  BY <1>5 DEF AdmitsRepository, Asked, Decides, Continues, Refuses
<1>6. CASE pc \in {5, 11} /\ ComparesRevision
  BY <1>6 DEF ComparesRevision, Asked, Decides, Continues, Refuses
<1>7. CASE pc \in {6, 12} /\ ComparesIndex
  BY <1>7 DEF ComparesIndex, Asked, Decides, Continues, Refuses
<1>8. CASE pc \in {7, 13} /\ Lists
  BY <1>8 DEF Lists, Continues
<1>9. CASE pc \in {8, 14} /\ WalkEnds
  BY <1>9 DEF WalkEnds, Decides, Continues, Refuses
<1>10. ASSUME pc \in {8, 14}, NEW f \in Files, Visits(f)
       PROVE  /\ pc' = pc /\ EntryAdmitted(f) /\ todo' = todo \ {f} /\ f \in todo
              /\ marks' = [marks EXCEPT ![f] = stamp[f]] /\ UNCHANGED <<got, kept, held, listed>>
  BY <1>1, <1>10 DEF Visits
<1>11. CASE pc = 9 /\ Holds
  BY <1>11 DEF Holds, Asked, Decides, Continues, Refuses
<1>12. CASE pc = 15 /\ Seals
  BY <1>12 DEF Seals, Asked, Decides, Continues, Refuses
<1>13. ~GivesUp
  BY DEF GivesUp
<1> QED BY <1>1, <1>2, <1>3, <1>4, <1>5, <1>6, <1>7, <1>8, <1>9, <1>10, <1>11, <1>12, <1>13, IdentitySteps


LEMMA KeptStep ==
    ASSUME TreeInv, ReaderTypes, who = "identity", KeptInv, Reader, outcome' # "refused"
    PROVE  KeptInv'
<1> USE DEF KeptInv, Same
<1> USE IdentityFacts
<1> DEFINE T == {"HEAD", "index", "root"}
<1>1. \A t \in T : t \in Things /\ stamp[t] <= edits /\ stamp[t] # Unread
  OBVIOUS
<1>2. \A t \in T : kept[t] # Unread => kept[t] <= edits
  OBVIOUS
<1>3. ASSUME pc # 2, UNCHANGED got PROVE got'["head"] = got["head"]
  BY <1>3
<1>4. (\A f \in Files : marks'[f] # Unread => marks'[f] <= edits) /\ (\A f \in Files : held'[f] # Unread => held'[f] <= edits)
  <2>1. CASE UNCHANGED <<marks, held>>
    BY <2>1
  <2>2. ASSUME NEW f \in Files, marks' = [marks EXCEPT ![f] = stamp[f]], UNCHANGED held
        PROVE  (\A g \in Files : marks'[g] # Unread => marks'[g] <= edits) /\ (\A g \in Files : held'[g] # Unread => held'[g] <= edits)
    <3>1. marks'[f] = stamp[f] /\ \A g \in Files : g # f => marks'[g] = marks[g]
      BY <2>2
    <3> QED BY <2>2, <3>1
  <2>3. CASE held' = marks /\ UNCHANGED marks
    BY <2>3
  <2> QED BY <2>1, <2>2, <2>3, IdentityMoves
<1>5. CASE pc = 1
  <2>1. pc' = 2 /\ kept' = [kept EXCEPT !["root"] = stamp["root"]] /\ got' = got
    BY <1>5, IdentityMoves
  <2>2. kept'["root"] = stamp["root"] /\ \A t \in T : t # "root" => kept'[t] = kept[t]
    BY <2>1
  <2> QED BY <1>1, <1>2, <1>4, <2>1, <2>2
<1>6. CASE pc = 2
  <2>1. pc' = 3 /\ kept' = [kept EXCEPT !["HEAD"] = stamp["HEAD"]] /\ got' = [got EXCEPT !["head"] = head]
    BY <1>6, IdentityMoves
  <2>2. kept'["HEAD"] = stamp["HEAD"] /\ (\A t \in T : t # "HEAD" => kept'[t] = kept[t]) /\ got'["head"] = head
    BY <2>1
  <2> QED BY <1>1, <1>2, <1>4, <1>6, <2>1, <2>2
<1>7. CASE pc = 3
  <2>1. pc' = 4 /\ kept' = [kept EXCEPT !["index"] = stamp["index"]] /\ got' = got
    BY <1>7, IdentityMoves
  <2>2. kept'["index"] = stamp["index"] /\ \A t \in T : t # "index" => kept'[t] = kept[t]
    BY <2>1
  <2> QED BY <1>1, <1>2, <1>4, <1>7, <2>1, <2>2
<1>8. CASE pc = 5
  <2>1. pc' = 6 /\ got["head"] = Pinned /\ UNCHANGED <<got, kept>>
    BY <1>8, IdentityMoves
  <2> QED BY <1>4, <1>8, <2>1
<1>9. CASE pc = 6
  <2>1. pc' = 7 /\ index = Pinned /\ UNCHANGED <<got, kept>>
    BY <1>9, IdentityMoves
  <2> QED BY <1>4, <1>9, <2>1
<1>10. CASE pc \notin {1, 2, 3, 5, 6}
  <2>1. UNCHANGED <<got, kept>> /\ pc' \in {pc, pc + 1}
    BY <1>10, IdentityMoves
  <2>2. (pc' > 1 => pc > 1) /\ (pc' > 2 => pc > 2) /\ (pc' > 3 => pc > 3) /\ (pc' > 5 => pc > 5) /\ (pc' > 6 => pc > 6)
    BY <1>10, <2>1
  <2> QED BY <1>4, <2>1, <2>2
<1> QED BY <1>5, <1>6, <1>7, <1>8, <1>9, <1>10

LEMMA WalkStep ==
    ASSUME TreeInv, ReaderTypes, who = "identity", KeptInv, WalkInv, Reader, outcome' # "refused"
    PROVE  WalkInv'
<1> USE DEF WalkInv, Visited, Same
<1> USE IdentityFacts
<1>1. CASE pc \notin {7, 8, 9}
  <2>1. pc' \notin {8, 9}
    BY <1>1, IdentityMoves
  <2> QED BY <2>1
<1>2. CASE pc = 7
  <2>1. pc' = 8 /\ listed' = work /\ todo' = {f \in Files : work[f] # Absent}
    BY <1>2, IdentityMoves
  <2> QED BY <2>1
<1>3. CASE pc = 8 /\ pc' = 8
  <2>1. PICK f \in Files : EntryAdmitted(f) /\ todo' = todo \ {f} /\ marks' = [marks EXCEPT ![f] = stamp[f]]
    BY <1>3, IdentityMoves
  <2>2. kept' = kept /\ listed' = listed
    BY <1>3, IdentityMoves
  <2>3. f \in Tracked /\ work[f] = Good
    BY <2>1, Kinds DEF EntryAdmitted
  <2>4. marks'[f] = stamp[f] /\ stamp[f] # Unread /\ \A g \in Files : g # f => marks'[g] = marks[g]
    BY <2>1
  <2>5. \A g \in Files : Visited(g)' =>
            g \in Tracked /\ marks'[g] # Unread /\ (marks'[g] = stamp[g] => work[g] = Good)
    BY <1>3, <2>1, <2>2, <2>3, <2>4
  <2> QED BY <1>3, <2>2, <2>5
<1>4. CASE pc = 8 /\ pc' # 8
  <2>1. pc' = 9 /\ todo = {} /\ (\A f \in PathsOfCommit : listed[f] # Absent) /\ UNCHANGED <<kept, marks, todo, listed>>
    BY <1>4, IdentityMoves
  <2> QED BY <1>4, <2>1, Kinds
<1>5. CASE pc = 9
  <2>1. pc' = 10
    BY <1>5, IdentityMoves
  <2> QED BY <2>1
<1> QED BY <1>1, <1>2, <1>3, <1>4, <1>5

LEMMA HeldStep ==
    ASSUME TreeInv, ReaderTypes, who = "identity", KeptInv, WalkInv, HeldInv, Reader, outcome' # "refused"
    PROVE  HeldInv'
<1> USE DEF HeldInv, Revisited, Unmoved
<1> USE IdentityFacts
<1>0. Tracked \subseteq Files
  BY DEF Files
<1>1. CASE pc < 9
  <2>1. pc' <= 9
    BY <1>1, IdentityMoves
  <2> QED BY <2>1
\* The first capture is held.
<1>2. CASE pc = 9
  <2>1. pc' = 10 /\ Stable /\ held' = marks /\ UNCHANGED <<got, kept, marks>>
    BY <1>2, IdentityMoves
  <2>2. \A t \in {"HEAD", "index", "root"} : kept[t] \in {Unread, stamp[t]}
    BY <2>1 DEF Stable
  <2>3. kept["root"] = stamp["root"] /\ kept["HEAD"] = stamp["HEAD"] /\ kept["index"] = stamp["index"]
    BY <1>2, <2>2 DEF KeptInv
  <2>4. head = Pinned /\ index = Pinned
    BY <1>2, <2>3 DEF KeptInv, Same
  <2>5. \A f \in Files : (work[f] = Absent <=> listed[f] = Absent) /\ (listed[f] # Absent <=> f \in Tracked)
    BY <1>0, <1>2, <2>3 DEF WalkInv, Same, Visited
  <2>6. \A f \in Tracked : marks[f] # Unread /\ (marks[f] = stamp[f] => work[f] = Good)
    BY <1>0, <1>2 DEF WalkInv, Visited
  <2>7. ASSUME \A f \in Tracked : stamp[f] = marks[f] PROVE work = Pinned
    <3>1. \A f \in Files : work[f] = Pinned[f]
      BY <2>5, <2>6, <2>7, Kinds DEF Files
    <3> QED BY <3>1, Kinds DEF TreeInv, Trees
  <2>8. (\A f \in Tracked : Unmoved(f)') => Moment(Pinned, Pinned, Pinned) \in moments
    BY <2>1, <2>4, <2>7
  <2> QED BY <2>1, <2>6, <2>8
<1>3. CASE pc \in 10..12
  <2>1. pc' \in 11..13 /\ UNCHANGED <<marks, held>>
    BY <1>3, IdentityMoves
  <2>2. \A f \in Tracked : Unmoved(f)' => Unmoved(f)
    BY <1>3, <2>1
  <2> QED BY <1>3, <2>1, <2>2
<1>4. CASE pc = 13
  <2>1. pc' = 14 /\ listed' = work /\ todo' = {f \in Files : work[f] # Absent} /\ UNCHANGED <<marks, held>>
    BY <1>4, IdentityMoves
  <2>2. \A f \in Tracked : Unmoved(f)' => Unmoved(f)
    BY <1>0, <1>4, <2>1
  <2> QED BY <1>4, <2>1, <2>2
<1>5. CASE pc = 14 /\ pc' = 14
  <2>1. PICK f \in Files : todo' = todo \ {f} /\ f \in todo /\ marks' = [marks EXCEPT ![f] = stamp[f]]
    BY <1>5, IdentityMoves
  <2>2. held' = held /\ listed' = listed
    BY <1>5, IdentityMoves
  <2>3. marks'[f] = stamp[f] /\ \A g \in Files : g # f => marks'[g] = marks[g]
    BY <2>1
  <2>4. \A g \in Tracked : Unmoved(g)' => Unmoved(g)
    BY <1>0, <1>5, <2>1, <2>2, <2>3
  <2> QED BY <1>5, <2>2, <2>4
<1>6. CASE pc = 14 /\ pc' # 14
  <2>1. pc' = 15 /\ todo = {} /\ (\A f \in Tracked : listed[f] # Absent) /\ UNCHANGED <<marks, held>>
    BY <1>6, IdentityMoves, Kinds
  <2>2. \A f \in Tracked : Unmoved(f)' => Unmoved(f)
    BY <1>6, <2>1
  <2> QED BY <1>6, <2>1, <2>2
<1>7. CASE pc = 15
  <2>1. pc' = 16 /\ marks = held /\ UNCHANGED <<marks, held>>
    BY <1>7, IdentityMoves
  <2>2. \A f \in Tracked : Unmoved(f)' => Unmoved(f)
    BY <1>7, <2>1
  <2> QED BY <1>7, <2>1, <2>2
<1>8. pc \in 1..15
  BY Lengths
<1> QED BY <1>1, <1>2, <1>3, <1>4, <1>5, <1>6, <1>7, <1>8

LEMMA IdentityEdit ==
    ASSUME TreeInv, DataTypes, IdentityInv, TreeInv', EditLeavesTraces, UNCHANGED readVars, pc \in Nat
    PROVE  IdentityInv'
<1> USE DEF EditLeavesTraces, readVars, Same
<1>1. /\ edits \in Nat /\ edits' = edits + 1
      /\ \A t \in Things : stamp[t] \in Nat /\ stamp'[t] \in Nat
      /\ (\A f \in Files : f \in Things) /\ "HEAD" \in Things /\ "index" \in Things /\ "root" \in Things
  BY DEF TreeInv, Things
<1>2. \A t \in {"HEAD", "index", "root"} : kept[t] \in Nat \cup {Unread} /\ (kept[t] # Unread => kept[t] <= edits)
  BY DEF DataTypes, Mark, IdentityInv, KeptInv
<1>3. \A f \in Files : /\ marks[f] \in Nat \cup {Unread} /\ (marks[f] # Unread => marks[f] <= edits)
                       /\ held[f] \in Nat \cup {Unread} /\ (held[f] # Unread => held[f] <= edits)
  BY DEF DataTypes, Mark, IdentityInv, KeptInv
\* What has its old change time still is as it was.
<1>4. \A t \in {"HEAD", "index", "root"} : kept[t] # Unread /\ kept[t] = stamp'[t] => kept[t] = stamp[t] /\ stamp'[t] # edits + 1
  BY <1>1, <1>2
<1>5. KeptInv'
  <2>1. kept["HEAD"] # Unread /\ kept["HEAD"] = stamp'["HEAD"] => head' = head
    BY <1>4
  <2>2. kept["index"] # Unread /\ kept["index"] = stamp'["index"] => index' = index
    BY <1>4
  <2> QED BY <1>1, <1>2, <1>3, <1>4, <2>1, <2>2 DEF IdentityInv, KeptInv
<1>6. WalkInv'
  <2>1. kept["root"] # Unread /\ kept["root"] = stamp'["root"] =>
            kept["root"] = stamp["root"] /\ \A f \in Files : work'[f] = Absent <=> work[f] = Absent
    BY <1>4
  <2>2. pc \in {8, 9} => kept["root"] # Unread
    BY DEF IdentityInv, KeptInv
  <2>3. \A f \in Files : marks[f] # Unread /\ marks[f] = stamp'[f] => marks[f] = stamp[f] /\ work'[f] = work[f]
    BY <1>1, <1>3
  <2> QED BY <2>1, <2>2, <2>3 DEF IdentityInv, WalkInv, Visited
<1>7. HeldInv'
  <2>1. \A f \in Files : held[f] # Unread /\ stamp'[f] = held[f] => stamp[f] = held[f]
    BY <1>1, <1>3
  <2>2. Tracked \subseteq Files
    BY DEF Files
  <2>3. pc > 9 => \A f \in Tracked : Unmoved(f)' => Unmoved(f)
    BY <2>1, <2>2 DEF IdentityInv, HeldInv, Unmoved, Revisited
  <2> QED BY <2>3 DEF IdentityInv, HeldInv
<1> QED BY <1>5, <1>6, <1>7 DEF IdentityInv

----------------------------------------------------------------------------
\* All readers together.
LEMMA ReaderStep ==
    ASSUME ReaderInv, Reader PROVE ReaderInv'
<1> USE DEF ReaderInv
<1>1. /\ ReaderTypes' /\ who' = who /\ outcome = "running" /\ TreeInv'
  BY TypesAreKept, TreeStutters
<1>2. SUFFICES ASSUME outcome' # "refused" PROVE
        /\ who = "recipe" => RecipeInv'
        /\ who = "identity" => IdentityInv'
        /\ who = "task" => TaskInv'
        /\ who = "adoption" => AdoptionInv'
        /\ who = "baseline" => BaselineInv'
        /\ who = "gate" => GateInv'
  BY <1>1
<1> HIDE DEF ReaderInv
<1>3. /\ TreeInv /\ ReaderTypes
      /\ who = "recipe" => RecipeInv
      /\ who = "identity" => IdentityInv
      /\ who = "task" => TaskInv
      /\ who = "adoption" => AdoptionInv
      /\ who = "baseline" => BaselineInv
      /\ who = "gate" => GateInv
  BY <1>1 DEF ReaderInv
<1>4. who = "recipe" => RecipeInv'
  BY <1>2, <1>3, RecipeStep
<1>5. who = "identity" => IdentityInv'
  BY <1>2, <1>3, KeptStep, WalkStep, HeldStep DEF IdentityInv
<1>6. who = "task" => TaskInv'
  BY <1>2, <1>3, TaskStep
<1>7. who = "adoption" => AdoptionInv'
  BY <1>2, <1>3, AdoptionStep
<1>8. who = "baseline" => BaselineInv'
  BY <1>2, <1>3, BaselineStep
<1>9. who = "gate" => GateInv'
  BY <1>2, <1>3, GateStep
<1> QED BY <1>4, <1>5, <1>6, <1>7, <1>8, <1>9

LEMMA EditStep ==
    ASSUME ReaderInv, DeveloperWrites PROVE ReaderInv'
<1>1. TreeInv' /\ EditLeavesTraces /\ UNCHANGED readVars /\ outcome' = outcome /\ outcome = "running"
  BY EditIsTraced DEF ReaderInv, DeveloperWrites
<1>2. pc \in Nat
  <2>1. pc \in 1..Len(Program[who]) /\ Len(Program[who]) \in Nat
    BY <1>1, Lengths DEF ReaderInv, ReaderTypes, PcTypes
  <2> QED BY <2>1
<1>3. ReaderTypes'
  BY <1>1 DEF ReaderInv, ReaderTypes, PcTypes, DataTypes, readVars
<1>4. TreeInv /\ DataTypes
  BY DEF ReaderInv, ReaderTypes
<1>5. who' = who
  BY <1>1 DEF readVars
<1>6. who = "recipe" => RecipeInv'
  BY <1>1 DEF ReaderInv, RecipeInv, readVars
<1>7. who = "identity" => IdentityInv'
  BY <1>1, <1>2, <1>4, IdentityEdit DEF ReaderInv
<1>8. who = "task" => TaskInv'
  BY <1>1, <1>2, <1>4, TaskEdit DEF ReaderInv
<1>9. who = "adoption" => AdoptionInv'
  BY <1>1, <1>2, <1>4, AdoptionEdit DEF ReaderInv
<1>10. who = "baseline" => BaselineInv'
  BY <1>1, <1>2, <1>4, BaselineEdit DEF ReaderInv
<1>11. who = "gate" => GateInv'
  BY <1>1, <1>2, <1>4, GateEdit DEF ReaderInv
<1> QED BY <1>1, <1>3, <1>5, <1>6, <1>7, <1>8, <1>9, <1>10, <1>11 DEF ReaderInv

LEMMA ReaderStutters ==
    ASSUME ReaderInv, UNCHANGED treeVars, UNCHANGED readVars, outcome' = outcome PROVE ReaderInv'
<1> USE DEF treeVars, readVars
<1>1. TreeInv /\ ReaderTypes => TreeInv' /\ ReaderTypes'
  BY TreeStutters DEF ReaderTypes, PcTypes, DataTypes
<1>2. RecipeInv => RecipeInv'
  BY DEF RecipeInv
<1>3. IdentityInv => IdentityInv'
  <2>1. KeptInv => KeptInv'
    BY DEF KeptInv, Same
  <2>2. WalkInv => WalkInv'
    BY DEF WalkInv, Same, Visited
  <2>3. HeldInv => HeldInv'
    BY DEF HeldInv, Revisited, Unmoved
  <2> QED BY <2>1, <2>2, <2>3 DEF IdentityInv
<1>4. TaskInv => TaskInv'
  BY DEF TaskInv, TaskPremise, TaskMoment, Clean, Passed
<1>5. AdoptionInv => AdoptionInv'
  BY DEF AdoptionInv, AdoptionMoment, Passed
<1>6. BaselineInv => BaselineInv'
  BY DEF BaselineInv, BaselinePremise, Clean, Passed
<1>7. GateInv => GateInv'
  BY DEF GateInv, GatePremise, Clean, Passed
<1>8. who' = who
  OBVIOUS
<1> QED BY <1>1, <1>2, <1>3, <1>4, <1>5, <1>6, <1>7, <1>8 DEF ReaderInv

LEMMA InitiallyCaptured ==
    ASSUME CaptureInit PROVE CaptureInv
<1>1. output = "none"
  BY DEF CaptureInit, Init, QualifierInit
<1>2. OutputInv
  BY <1>1 DEF OutputInv
<1>3. SUFFICES ASSUME who # "qualifier" PROVE ReaderInv
  BY <1>2 DEF CaptureInv
<1>4. Init
  BY <1>3 DEF CaptureInit, QualifierInit
<1>5. TreeInv
  <2>1. TreeInit
    BY <1>4 DEF Init
  <2>2. head \in Trees /\ index \in Trees /\ work \in Trees
    BY <2>1, Kinds DEF TreeInit, Trees, Values
  <2>3. had = [t \in Files \cup {"HEAD"} |-> had[t]] /\ (\A f \in Files : work[f] \in had[f]) /\ head \in had["HEAD"]
    BY <2>1, Kinds DEF TreeInit
  <2>4. edits = 0 /\ stamp = [t \in Things |-> 0] /\ undone = FALSE /\ moments = {Moment(head, index, work)}
    BY <2>1 DEF TreeInit
  <2>5. stamp \in [Things -> Nat] /\ \A t \in Things : stamp[t] <= edits
    BY <2>4
  <2> QED BY <2>2, <2>3, <2>4, <2>5 DEF TreeInv
<1>6. ReaderTypes
  <2>1. who \in Readers /\ pc = 1 /\ outcome = "running" /\ walking = FALSE /\ dirty = FALSE
    BY <1>4 DEF Init
  <2>2. Len(Program[who]) \in Nat /\ 1 <= Len(Program[who])
    BY <2>1, Lengths
  <2>3. DataTypes
    BY <1>4, <2>1, NothingTyped DEF Init, DataTypes
  <2> QED BY <2>1, <2>2, <2>3 DEF ReaderTypes, PcTypes
<1>7. /\ pc = 1 /\ ~walking /\ todo = {} /\ \A f \in Files : marks[f] = Unread /\ held[f] = Unread /\ listed[f] = Unread
      /\ \A t \in {"HEAD", "index", "root"} : kept[t] = Unread
  BY <1>4, NothingTyped DEF Init
<1>8. RecipeInv /\ TaskInv /\ AdoptionInv /\ BaselineInv /\ GateInv
  BY <1>7 DEF RecipeInv, TaskInv, AdoptionInv, BaselineInv, GateInv, Clean, Passed
<1>9. IdentityInv
  BY <1>7 DEF IdentityInv, KeptInv, WalkInv, HeldInv, Visited
<1> QED BY <1>5, <1>6, <1>8, <1>9 DEF ReaderInv

LEMMA CaptureStep ==
    ASSUME CaptureInv, [CaptureNext]_<<vars, qualVars>> PROVE CaptureInv'
<1>1. CASE QualifierNext
  <2>1. who = "qualifier" /\ who' = who
    BY <1>1 DEF QualifierNext, AdmitsInput, Opens, StagesBackend, Prepares, PreparationFails, PreparationIsNotStarted,
        Plans, Constructs, ConstructionFails, ChildRuns, ChildIsLost, Accepts, AcceptRaises, RemovesScratch, SumsUp,
        VerifiesSources, RechecksInput, Collects, Cleans, StagesEvidence, PublishesEvidence, Aborts, WritesInput,
        TakesPlace, Is, captureVars, PrepUnchanged, CaseUnchanged, EndUnchanged
  <2>2. output' \in {output, "theirs", "evidence"}
    BY <1>1 DEF QualifierNext, AdmitsInput, Opens, StagesBackend, Prepares, PreparationFails, PreparationIsNotStarted,
        Plans, Constructs, ConstructionFails, ChildRuns, ChildIsLost, Accepts, AcceptRaises, RemovesScratch, SumsUp,
        VerifiesSources, RechecksInput, Collects, Cleans, StagesEvidence, PublishesEvidence, Aborts, WritesInput,
        TakesPlace, PrepUnchanged, CaseUnchanged, EndUnchanged
  <2> QED BY <2>1, <2>2 DEF CaptureInv, OutputInv
<1>2. ASSUME who # "qualifier", Next PROVE CaptureInv'
  <2>1. ReaderInv /\ OutputInv
    BY <1>2 DEF CaptureInv
  <2>2. CASE DeveloperWrites
    <3>1. UNCHANGED <<output, got, who, outcome>>
      BY <2>2 DEF DeveloperWrites, readVars
    <3> QED BY <1>2, <2>1, <2>2, <3>1, EditStep DEF CaptureInv, OutputInv
  <2>3. CASE SomebodyPublishes
    <3>1. output' = "theirs" /\ UNCHANGED <<treeVars, readVars, outcome>>
      BY <2>3 DEF SomebodyPublishes
    <3>2. ReaderInv'
      BY <2>1, <3>1, ReaderStutters
    <3> QED BY <3>1, <3>2 DEF CaptureInv, OutputInv
  <2>4. CASE Reader
    <3>1. OutputInv'
      BY <2>1, <2>4, OutputStep DEF ReaderInv
    <3> QED BY <2>1, <2>4, <3>1, ReaderStep DEF CaptureInv
  <2> QED BY <1>2, <2>2, <2>3, <2>4 DEF Next
<1>3. CASE UNCHANGED <<vars, qualVars>>
  <2>1. UNCHANGED <<output, treeVars, readVars, outcome>>
    BY <1>3 DEF vars
  <2>2. who' = who /\ got' = got
    BY <2>1 DEF readVars
  <2>3. who # "qualifier" => ReaderInv'
    BY <2>1, ReaderStutters DEF CaptureInv
  <2> QED BY <2>1, <2>2, <2>3 DEF CaptureInv, OutputInv
<1> QED BY <1>1, <1>2, <1>3 DEF CaptureNext, OtherReaders

----------------------------------------------------------------------------
\* The inductive invariant of the readers.
THEOREM CapturesAreTracked == CaptureSpec => []CaptureInv
<1>1. CaptureInit => CaptureInv
  BY InitiallyCaptured
<1>2. CaptureInv /\ [CaptureNext]_<<vars, qualVars>> => CaptureInv'
  BY CaptureStep
<1> QED BY <1>1, <1>2, PTL DEF CaptureSpec

\* For any paths and any number of edits, a bundle that is published was built
\* from, and retains, the tree of the pinned commit (gpu_backend_recipe.py).
THEOREM BundlesAreOfThePinnedCommit == CaptureSpec => []BundleIsOfThePinnedCommit
<1>1. CaptureInv => BundleIsOfThePinnedCommit
  BY DEF CaptureInv, OutputInv, BundleIsOfThePinnedCommit
<1> QED BY <1>1, CapturesAreTracked, PTL

LEMMA AcceptedHere ==
    ASSUME CaptureInv PROVE AcceptedIsOfOneMoment
<1> USE DEF TaskPremise, BaselinePremise, GatePremise, IdentityMoment, Passed
<1>1. SUFFICES ASSUME outcome = "accepted" PROVE
        /\ who = "identity" => \E m \in moments : IdentityMoment(m)
        /\ who = "task" /\ ~undone /\ head = got["head"] => \E m \in moments : TaskMoment(m)
        /\ who = "adoption" /\ ~undone => \E m \in moments : AdoptionMoment(m)
        /\ who = "baseline" /\ ~undone /\ had["HEAD"] = {got["head"]} =>
                got["artifacts"] = got["head"] /\ got["samples"] = got["head"]
        /\ who = "gate" /\ (\A t \in Files \cup {"HEAD"} : stamp[t] = 0) =>
                \A f \in Tracked : got["documents"][f] = got["head"][f]
  BY DEF AcceptedIsOfOneMoment
<1>2. who # "qualifier" => ReaderInv /\ pc = Len(Program[who]) + 1 /\ TreeInv
  BY <1>1 DEF CaptureInv, ReaderInv, ReaderTypes, PcTypes
<1>3. ASSUME who = "identity" PROVE \E m \in moments : IdentityMoment(m)
  <2>1. pc = 16 /\ HeldInv
    BY <1>1, <1>2, <1>3, Lengths DEF ReaderInv, IdentityInv
  <2>2. \A f \in Tracked : Unmoved(f)
    BY <2>1 DEF HeldInv, Unmoved, Revisited
  <2> QED BY <2>1, <2>2 DEF HeldInv
<1>4. ASSUME who = "task", ~undone, head = got["head"] PROVE \E m \in moments : TaskMoment(m)
  BY <1>1, <1>2, <1>4, Lengths DEF ReaderInv, TaskInv
<1>5. ASSUME who = "adoption", ~undone PROVE \E m \in moments : AdoptionMoment(m)
  BY <1>1, <1>2, <1>5, Lengths DEF ReaderInv, AdoptionInv
<1>6. ASSUME who = "baseline", ~undone, had["HEAD"] = {got["head"]}
      PROVE  got["artifacts"] = got["head"] /\ got["samples"] = got["head"]
  <2>1. head = got["head"] /\ head \in Trees
    BY <1>2, <1>6 DEF TreeInv
  <2>2. \A f \in Files : got["artifacts"][f] = head[f] /\ got["samples"][f] = head[f]
    BY <1>1, <1>2, <1>6, <2>1, Lengths DEF ReaderInv, BaselineInv
  <2>3. got["artifacts"] \in MaybeRead /\ got["samples"] \in MaybeRead
    BY <1>2, <1>6 DEF ReaderInv, ReaderTypes, DataTypes, Purposes
  <2> QED BY <2>1, <2>2, <2>3 DEF MaybeRead, Trees
<1>7. ASSUME who = "gate", \A t \in Files \cup {"HEAD"} : stamp[t] = 0
      PROVE  \A f \in Tracked : got["documents"][f] = got["head"][f]
  <2>1. pc = 6 /\ GateInv
    BY <1>1, <1>2, <1>7, Lengths DEF ReaderInv
  <2> QED BY <1>7, <2>1 DEF GateInv, Files
<1> QED BY <1>3, <1>4, <1>5, <1>6, <1>7

\* For any paths and any number of edits between any two reads, what a reader
\* accepted was in the checkout at one moment (fresh_source_identity.py,
\* prompt-snapshot-helper.py, request6_adoption.py), and what a baseline and a
\* gate name beside a commit is of that commit (record-baseline.py,
\* prompt-gate-validator.py), each under its premise.
THEOREM AcceptedIsAlwaysOfOneMoment == CaptureSpec => []AcceptedIsOfOneMoment
<1>1. CaptureInv => AcceptedIsOfOneMoment
  BY AcceptedHere
<1> QED BY <1>1, CapturesAreTracked, PTL

----------------------------------------------------------------------------
\* The qualifier (GpuQualification).

Before == {"admit", "open", "stage_backend", "prepare", "plan"}
InCases == {"construct", "child", "accept"}
AfterCases == {"finish", "sum_up"}
After == {"verify", "recheck", "collect", "clean", "stage", "publish"}

\* The causes and the rows a case may come to.
Causes == [category : FAILURE_CATEGORIES \cup {""}, stage : FAILURE_STAGES \cup {""}]
Row ==
    [terminal : {"PASS", "FAIL", "TIMEOUT", "SIGNAL"}, cause : Causes, spawned : BOOLEAN,
     exit : {"zero", "nonzero", "none"}, signal : BOOLEAN, output : {"frozen", "none"}, nonfinite : BOOLEAN,
     numeric : [compared : BOOLEAN, expected : {0, 1}, actual : {0, 1}, mismatches : {0, 1}],
     placement : [expected : 0..PlannedWork, gpu : 0..PlannedWork, cpu : {0}, readback : {0}],
     memory : {"within", "over"}]

Records ==
    [status : {"PASS", "FAIL"}, cause : Causes, ordinal : Int, device : {"none", "A", "B"}, loaded : BOOLEAN,
     aggregate : [cases : Nat, passed : Nat], owned : BOOLEAN, safe : BOOLEAN, source : BOOLEAN,
     inputs : BOOLEAN, descendants : BOOLEAN]

\* A row says what its case was expected to do.
SaysOf(row, ordinal) ==
    /\ row.numeric.compared => row.numeric.expected = 1 /\ row.numeric.actual = 1
    /\ row.placement.expected = IF Gpu(ordinal) THEN PlannedWork ELSE 0

QualTypes ==
    /\ at \in Before \cup InCases \cup AfterCases \cup After
    /\ edits \in Nat /\ work \in Trees
    /\ stamp \in [Things -> Nat] /\ \A t \in Things : stamp[t] <= edits
    /\ marks \in [Files -> Mark] /\ todo \subseteq Tracked
    /\ got = [p \in Purposes \cup {"head"} |-> got[p]]
    /\ child \in Children \cup {NoChild}
    /\ accepted \in 0..Cases /\ rows \in Seq(Row)
    /\ record \in Records
    /\ broke \in BOOLEAN /\ commands \in Nat

\* What was admitted has the admitted bytes as long as it has its change time,
\* and so has what the children read of it.
InputInv ==
    /\ at # "admit" => todo = {}
    /\ \A f \in Tracked \ todo : marks[f] \in Nat /\ marks[f] <= edits /\ (marks[f] = stamp[f] => work[f] = Good)
    /\ at \in Before => seen = {}
    /\ (\A f \in ByPath : marks[f] = stamp[f]) => seen \subseteq {Good}
    /\ at \notin {"admit", "open", "stage_backend"} => \A f \in Staged : got["copy"][f] = Good
    /\ at \in {"clean", "stage", "publish"} => \A f \in Staged : got["retained"][f] = Good

\* The cases ran one after the other, the GPU cases on the device of the first.
CasesInv ==
    /\ at \in Before => rows = <<>> /\ accepted = 0 /\ devices = {} /\ scratch = {}
    /\ at \in InCases =>
        accepted < Cases /\ Len(rows) = accepted /\ (record.device # "none" => record.loaded)
    /\ at = "accept" => child # NoChild
    /\ at \in AfterCases => Len(rows) \in {accepted, accepted + 1}
    /\ \A n \in 1..Len(rows) : SaysOf(rows[n], n - 1)
    /\ devices # {} => devices = {record.device} /\ record.loaded /\ record.device # "none"
    /\ accepted > 1 => devices # {}

\* Only the verdict of the cases passes, and only the end removes the root.
VerdictInv ==
    /\ at \notin After => record.status = "FAIL"
    /\ record.status = "PASS" => accepted = Cases /\ ~broke
    /\ at \in After \cup {"sum_up"} => scratch = {} \/ broke
    /\ record.owned => root = "gone" /\ at \in {"stage", "publish"}

RunInv == QualTypes /\ InputInv /\ CasesInv /\ VerdictInv

\* What a published directory says (QualificationIsEarned).
Earned ==
    record.status = "PASS" =>
        /\ PassedRows(rows) = 1..Cases
        /\ \A n \in 1..Cases : Gpu(n - 1) =>
            rows[n].numeric = [compared |-> TRUE, expected |-> 1, actual |-> 1, mismatches |-> 0]
                /\ rows[n].placement.gpu = PlannedWork
        /\ devices = {record.device} /\ record.loaded
        /\ seen \subseteq {Good}
        /\ \A f \in Staged : got["copy"][f] = Good /\ got["retained"][f] = Good
        /\ root = "gone" /\ scratch = {}

QualInv ==
    /\ who = "qualifier" /\ outcome = "running" => output # "evidence" /\ RunInv
    /\ output = "evidence" => who = "qualifier" /\ outcome = "accepted" /\ Earned


----------------------------------------------------------------------------
\* What the records and rows of a qualification are.
LEMMA CountsOfRows ==
    ASSUME NEW all \in Seq(Row) PROVE Aggregate(all) \in [cases : Nat, passed : Nat]
<1>1. IsFiniteSet(1..Len(all)) /\ PassedRows(all) \subseteq 1..Len(all)
  BY FS_Interval DEF PassedRows
<1>2. IsFiniteSet(PassedRows(all))
  BY <1>1, FS_Subset
<1>3. Cardinality(PassedRows(all)) \in Nat
  BY <1>2, FS_CardinalityType
<1> QED BY <1>3 DEF Aggregate

LEMMA CausesKnown ==
    /\ NoCause \in Causes /\ Unreported \in Causes /\ Nonfinite \in Causes
    /\ Cause("ALLOCATION", "allocate") \in Causes /\ Cause("COMPUTE", "readback") \in Causes
    /\ Cause("PROCESS", "qualifier_cleanup") \in Causes /\ Cause("CLEANUP", "qualifier_cleanup") \in Causes
    /\ Cause("DEVICE_UNAVAILABLE", "device") \in Causes /\ Cause("PROCESS", "readback") \in Causes
    /\ Cause("SOURCE_IDENTITY", "source") \in Causes /\ Cause("CONFIG", "source") \in Causes
    /\ Cause("CONFIG", "plan") \in Causes
BY DEF Cause, Causes, NoCause, Unreported, Nonfinite, FAILURE_CATEGORIES, FAILURE_STAGES

LEMMA RecordOfFailure ==
    /\ NoRecord \in Records /\ NoRecord.status = "FAIL" /\ NoRecord.device = "none" /\ ~NoRecord.owned
    /\ \A category \in {"SOURCE_IDENTITY", "CONFIG", "CLEANUP"}, stage \in {"source", "qualifier_cleanup"}, r \in Records :
        /\ Fails(r, category, stage) \in Records
        /\ Fails(r, category, stage).status = "FAIL"
        /\ Fails(r, category, stage).device = r.device /\ Fails(r, category, stage).loaded = r.loaded
        /\ Fails(r, category, stage).owned = r.owned
<1>0. <<>> \in Seq(Row)
  OBVIOUS
<1>1. Aggregate(<<>>) \in [cases : Nat, passed : Nat]
  BY <1>0, CountsOfRows
<1>2. NoRecord \in Records /\ NoRecord.status = "FAIL" /\ NoRecord.device = "none" /\ ~NoRecord.owned
  BY <1>1, CausesKnown DEF NoRecord, Records
<1>3. ASSUME NEW category \in {"SOURCE_IDENTITY", "CONFIG", "CLEANUP"}, NEW stage \in {"source", "qualifier_cleanup"},
             NEW r \in Records
      PROVE  /\ Fails(r, category, stage) \in Records
             /\ Fails(r, category, stage).status = "FAIL"
             /\ Fails(r, category, stage).device = r.device /\ Fails(r, category, stage).loaded = r.loaded
             /\ Fails(r, category, stage).owned = r.owned
  <2>1. Cause(category, stage) \in Causes
    BY DEF Cause, Causes, FAILURE_CATEGORIES, FAILURE_STAGES
  <2> QED BY <2>1 DEF Fails, Records
<1> QED BY <1>2, <1>3

\* A case's row, whatever its child did.
OutcomesSet ==
    [native : BOOLEAN, compared : BOOLEAN, mismatches : {0, 1}, accepted : BOOLEAN, operations : 0..PlannedWork,
     memory : {"within", "over"}, report : {Unreported, Nonfinite, Cause("ALLOCATION", "allocate")}]

LEMMA AssembledIsRow ==
    ASSUME NEW c \in Children \cup {NoChild}, NEW o \in OutcomesSet, NEW ordinal \in Nat
    PROVE  /\ Assembled(c, o, ordinal) \in Row
           /\ SaysOf(Assembled(c, o, ordinal), ordinal)
           /\ Assembled(c, o, ordinal).terminal = "PASS" => o.accepted
<1>1. Terminal(c, o) \in {"PASS", "FAIL", "TIMEOUT", "SIGNAL"} /\ (Terminal(c, o) = "PASS" => o.accepted)
  BY DEF Terminal, Children, NoChild, OutcomesSet
<1>2. Exit(c) \in {"zero", "nonzero", "none"}
  BY DEF Exit
<1>3. ReasonOf(c, o) \in Causes
  BY CausesKnown DEF ReasonOf, OutcomesSet
<1>4. Cause("PROCESS", "qualifier_cleanup") \in Causes
  BY CausesKnown
<1>5. PlannedWork \in 0..PlannedWork /\ 0 \in 0..PlannedWork
  BY DEF PlannedWork
<1>6. PICK bad \in BOOLEAN : bad <=> Unclean(c, o)
  OBVIOUS
<1> DEFINE placement == [expected |-> IF Gpu(ordinal) THEN PlannedWork ELSE 0, gpu |-> o.operations, cpu |-> 0, readback |-> 0]
           numeric == IF o.compared THEN [compared |-> TRUE, expected |-> 1, actual |-> 1, mismatches |-> o.mismatches]
                      ELSE [compared |-> FALSE, expected |-> 0, actual |-> 0, mismatches |-> 0]
<1>7. /\ placement \in [expected : 0..PlannedWork, gpu : 0..PlannedWork, cpu : {0}, readback : {0}]
      /\ placement.expected = IF Gpu(ordinal) THEN PlannedWork ELSE 0
  BY <1>5 DEF OutcomesSet
<1>8. /\ numeric \in [compared : BOOLEAN, expected : {0, 1}, actual : {0, 1}, mismatches : {0, 1}]
      /\ numeric.compared => numeric.expected = 1 /\ numeric.actual = 1
  BY DEF OutcomesSet
<1> DEFINE terminal == IF Unclean(c, o) THEN "FAIL" ELSE Terminal(c, o)
           cause == IF Unclean(c, o) THEN Cause("PROCESS", "qualifier_cleanup") ELSE ReasonOf(c, o)
           row == [terminal |-> terminal, cause |-> cause,
                   spawned |-> c # NoChild, exit |-> Exit(c), signal |-> c.terminal = "SIGNAL",
                   output |-> IF o.native THEN "frozen" ELSE "none", nonfinite |-> o.report = Nonfinite,
                   numeric |-> numeric, placement |-> placement, memory |-> o.memory]
<1>9. Assembled(c, o, ordinal) = row
  BY DEF Assembled
<1>10. terminal \in {"PASS", "FAIL", "TIMEOUT", "SIGNAL"} /\ cause \in Causes /\ (terminal = "PASS" => o.accepted)
  BY <1>1, <1>3, <1>4
<1>11. o.memory \in {"within", "over"} /\ (IF o.native THEN "frozen" ELSE "none") \in {"frozen", "none"}
  BY DEF OutcomesSet
<1> HIDE DEF placement, numeric, terminal, cause
<1>12. row \in Row /\ row.numeric = numeric /\ row.placement = placement /\ row.terminal = terminal
  BY <1>2, <1>7, <1>8, <1>10, <1>11 DEF Row
<1> HIDE DEF row
<1> QED BY <1>7, <1>8, <1>9, <1>10, <1>12 DEF SaysOf


----------------------------------------------------------------------------
\* The steps of the qualifier.
LEMMA QualKinds ==
    /\ Tracked \subseteq Files /\ Staged \subseteq Tracked /\ ByPath \subseteq Tracked
    /\ {"copy", "retained"} \subseteq Purposes
    /\ Cases \in Nat /\ Cases > 1 /\ Preparations \in Nat
    /\ Gpu(1)
<1>1. Cases \in Nat /\ Cases > 1
  BY CasesAssumption
<1>2. Preparations = 5
  BY DEF Preparations, PreparationStages
<1> QED BY <1>1, <1>2, StagedAssumption DEF Files, ByPath, Purposes, Gpu

\* What a step leaves alone beside the variables of its own part.
LEMMA InputStays ==
    ASSUME QualTypes, InputInv, UNCHANGED <<inputVars, todo, marks>>,
           at # "admit", at' # "admit", at' \in Before => at \in Before /\ seen' = seen,
           seen' \in {seen, seen \cup {work[f] : f \in ByPath}},
           at' \notin {"admit", "open", "stage_backend"} => \A f \in Staged : got'["copy"][f] = Good,
           at' \in {"clean", "stage", "publish"} => \A f \in Staged : got'["retained"][f] = Good
    PROVE  InputInv'
<1> USE DEF InputInv, inputVars
<1>1. todo = {} /\ todo' = {} /\ \A f \in Tracked : marks[f] = stamp[f] => work[f] = Good
  OBVIOUS
<1>2. (\A f \in ByPath : marks'[f] = stamp'[f]) => seen' \subseteq {Good}
  BY <1>1, QualKinds
<1> QED BY <1>1, <1>2

LEMMA AdmitStep ==
    ASSUME RunInv, NEW f \in Tracked, AdmitsInput(f), outcome' = "running" PROVE RunInv'
<1> USE QualKinds DEF RunInv, AdmitsInput, Is, inputVars
<1>1. /\ work[f] = Good /\ at = "admit" /\ at' \in {"admit", "open"} /\ todo' = todo \ {f}
      /\ at' # "admit" => todo' = {}
      /\ UNCHANGED <<work, stamp, edits, seen, got, child, accepted, rows, record, broke, scratch, devices, root, commands>>
  BY DEF caseVars, historyVars, prepVars
<1>2. /\ marks' \in [Files -> Mark] /\ marks'[f] = stamp[f] /\ \A g \in Files : g # f => marks'[g] = marks[g]
  BY DEF QualTypes, Mark, Things
<1>3. stamp[f] \in Nat /\ stamp[f] <= edits
  BY DEF QualTypes, Things
<1>4. QualTypes'
  BY <1>1, <1>2 DEF QualTypes, Before
<1>5. InputInv'
  BY <1>1, <1>2, <1>3 DEF InputInv, Before
<1>6. CasesInv' /\ VerdictInv'
  BY <1>1 DEF CasesInv, VerdictInv, Before, InCases, AfterCases, After
<1> QED BY <1>4, <1>5, <1>6

LEMMA OpenStep ==
    ASSUME RunInv, Opens, outcome' = "running" PROVE RunInv'
<1> USE DEF RunInv, Opens, Is
<1>1. /\ at = "open" /\ at' = "stage_backend" /\ root' = "there"
      /\ UNCHANGED <<inputVars, todo, marks, seen, got, child, accepted, rows, record, broke, scratch, devices, commands>>
  BY DEF caseVars, historyVars, prepVars
<1>2. QualTypes'
  BY <1>1 DEF QualTypes, Before, inputVars
<1>3. InputInv'
  BY <1>1, InputStays DEF Before
<1>4. CasesInv' /\ VerdictInv'
  BY <1>1 DEF CasesInv, VerdictInv, Before, InCases, AfterCases, After
<1> QED BY <1>2, <1>3, <1>4

LEMMA StageBackendStep ==
    ASSUME RunInv, StagesBackend, outcome' = "running" PROVE RunInv'
<1> USE DEF RunInv, StagesBackend, Is
<1>1. /\ at = "stage_backend" /\ at' = "prepare" /\ root' = root /\ Unchanged
      /\ UNCHANGED <<inputVars, todo, marks, seen, child, accepted, rows, record, broke, scratch, devices, commands>>
  BY DEF caseVars, historyVars, prepVars, RaisesOut
<1> DEFINE copy == [f \in Files |-> IF f \in Staged THEN work[f] ELSE Unread]
<1>2. got' = [got EXCEPT !["copy"] = copy] /\ \A f \in Staged : copy[f] = Good
  BY <1>1, QualKinds DEF Unchanged, SameFile
<1> HIDE DEF copy
<1>3. /\ got' = [p \in Purposes \cup {"head"} |-> got'[p]]
      /\ \A f \in Staged : got'["copy"][f] = Good
  BY <1>2, QualKinds DEF QualTypes
<1>4. QualTypes'
  BY <1>1, <1>3 DEF QualTypes, Before, inputVars
<1>5. InputInv'
  BY <1>1, <1>3, InputStays DEF Before
<1>6. CasesInv' /\ VerdictInv'
  BY <1>1 DEF CasesInv, VerdictInv, Before, InCases, AfterCases, After
<1> QED BY <1>4, <1>5, <1>6

\* The preparation and the plan write a record that has failed so far.
LEMMA PreparationStep ==
    ASSUME RunInv, Prepares \/ PreparationFails \/ PreparationIsNotStarted \/ Plans, outcome' = "running"
    PROVE  RunInv'
<1>1. /\ at \in {"prepare", "plan"} /\ at' \in {"prepare", "plan", "construct", "verify"}
      /\ UNCHANGED <<inputVars, todo, marks, seen, got, child, accepted, rows, broke, scratch, devices, root>>
      /\ commands' \in {commands, commands + 1}
  BY DEF Prepares, PreparationFails, PreparationIsNotStarted, Plans, Is, PrepUnchanged, caseVars, historyVars, prepVars
<1>2. /\ record' \in Records /\ record'.status = "FAIL" /\ ~record'.owned
      /\ at' = "construct" => record'.device = "none"
  <2>1. CASE Prepares
    BY <2>1 DEF Prepares, RunInv, VerdictInv, QualTypes, After, Is
  <2> DEFINE blames(e) ==
        e \in Records /\ e.status = "FAIL" /\ e.device = "none" /\ ~e.owned
  <2>2. ASSUME NEW k \in 0..Preparations - 1 PROVE blames(FailureEvidence(k))
    <3>1. Cause(IF k < 2 THEN "PREPARATION" ELSE "BUILD", PreparationStage(k)) \in Causes
      <4>1. k + 1 \in 1..Preparations
        BY <2>2, QualKinds
      <4>2. PreparationStage(k) \in FAILURE_STAGES
        BY <4>1 DEF PreparationStage, FAILURE_STAGES
      <4> QED BY <4>2 DEF Cause, Causes, FAILURE_CATEGORIES
    <3> QED BY <3>1, RecordOfFailure DEF FailureEvidence, Records
  <2>3. CASE PreparationFails
    <3>1. commands \in Nat /\ commands < Preparations /\ commands' = commands + 1 /\ fault' = "failed"
      BY <2>3 DEF PreparationFails, RunInv, QualTypes
    <3>2. FailureOrdinal(commands', fault') = commands /\ commands \in 0..Preparations - 1
      BY <3>1, QualKinds DEF FailureOrdinal
    <3>3. PICK left \in BOOLEAN : record' = [FailureEvidence(commands) EXCEPT !.descendants = left]
      BY <2>3, <3>2 DEF PreparationFails
    <3>4. blames(FailureEvidence(commands))
      BY <2>2, <3>2
    <3> HIDE DEF FailureEvidence
    <3> QED BY <3>3, <3>4 DEF Records
  <2>4. CASE PreparationIsNotStarted
    <3>1. commands \in Nat /\ commands < Preparations /\ fault' = "unstarted"
      BY <2>4 DEF PreparationIsNotStarted, RunInv, QualTypes
    <3>2. FailureOrdinal(commands, fault') = commands /\ commands \in 0..Preparations - 1
      BY <3>1, QualKinds DEF FailureOrdinal
    <3> QED BY <2>2, <2>4, <3>2 DEF PreparationIsNotStarted
  <2>5. CASE Plans
    BY <2>5, CausesKnown, RecordOfFailure DEF Plans, PlanEvidence, Records
  <2> QED BY <2>1, <2>3, <2>4, <2>5
<1>3. QualTypes'
  BY <1>1, <1>2 DEF RunInv, QualTypes, Before, InCases, After, inputVars
<1>4. InputInv'
  BY <1>1, InputStays DEF RunInv, Before, InputInv
<1>5. CasesInv' /\ VerdictInv'
  BY <1>1, <1>2, QualKinds DEF RunInv, CasesInv, VerdictInv, Before, InCases, AfterCases, After
<1> QED BY <1>3, <1>4, <1>5 DEF RunInv


\* A case is made ready, its child runs, or is not started or lost.
LEMMA CaseStep ==
    ASSUME RunInv, Constructs \/ ConstructionFails \/ ChildRuns \/ ChildIsLost, outcome' = "running"
    PROVE  RunInv'
<1>1. /\ at \in {"construct", "child"} /\ at' \in {"child", "accept", "finish"}
      /\ at' = "accept" => child' # NoChild
      /\ child' \in Children \cup {NoChild}
      /\ UNCHANGED <<inputVars, todo, marks, got, accepted, rows, broke, devices, root, record, commands>>
      /\ seen' \in {seen, seen \cup {work[f] : f \in ByPath}}
  <2>1. CleanPass # NoChild /\ \A c \in Children : c # NoChild
    BY DEF CleanPass, NoChild, Children
  <2> QED BY <2>1 DEF Constructs, ConstructionFails, ChildRuns, ChildIsLost, Is, CaseUnchanged, caseVars, historyVars, prepVars,
        RunInv, QualTypes
<1>2. QualTypes'
  BY <1>1 DEF RunInv, QualTypes, Before, InCases, AfterCases, inputVars
<1>3. InputInv'
  BY <1>1, InputStays DEF RunInv, Before, InputInv
<1>4. CasesInv' /\ VerdictInv'
  BY <1>1 DEF RunInv, CasesInv, VerdictInv, Before, InCases, AfterCases, After
<1> QED BY <1>2, <1>3, <1>4 DEF RunInv

\* The row of a case is not taken.
LEMMA RaiseStep ==
    ASSUME RunInv, AcceptRaises, outcome' = "running" PROVE RunInv'
<1>1. /\ at = "accept" /\ at' = "finish"
      /\ UNCHANGED <<inputVars, todo, marks, got, accepted, rows, broke, child, seen, devices, root, record, commands>>
  BY DEF AcceptRaises, Is, CaseUnchanged, historyVars, prepVars
<1>2. QualTypes'
  BY <1>1 DEF RunInv, QualTypes, AfterCases, inputVars
<1>3. InputInv'
  BY <1>1, InputStays DEF RunInv, Before, InputInv
<1>4. CasesInv' /\ VerdictInv'
  BY <1>1 DEF RunInv, CasesInv, VerdictInv, Before, InCases, AfterCases, After
<1> QED BY <1>2, <1>3, <1>4 DEF RunInv

LEMMA RemoveStep ==
    ASSUME RunInv, RemovesScratch, outcome' = "running" PROVE RunInv'
<1>1. /\ at = "finish" /\ at' = "sum_up" /\ (scratch' = {} \/ broke')
      /\ broke' \in BOOLEAN
      /\ UNCHANGED <<inputVars, todo, marks, got, accepted, rows, child, seen, devices, root, record, commands>>
  BY DEF RemovesScratch, Is, CaseUnchanged, historyVars, prepVars, RunInv, QualTypes
<1>2. QualTypes'
  BY <1>1 DEF RunInv, QualTypes, AfterCases, inputVars
<1>3. InputInv'
  BY <1>1, InputStays DEF RunInv, Before, InputInv
<1>4. CasesInv' /\ VerdictInv'
  BY <1>1 DEF RunInv, CasesInv, VerdictInv, Before, InCases, AfterCases, After
<1> QED BY <1>2, <1>3, <1>4 DEF RunInv

\* What is appended to the rows says what it has to of its case.
LEMMA RowsGrow ==
    ASSUME NEW all \in Seq(Row), NEW row \in Row, NEW n \in Nat, Len(all) = n, SaysOf(row, n),
           \A m \in 1..Len(all) : SaysOf(all[m], m - 1)
    PROVE  /\ Append(all, row) \in Seq(Row) /\ Len(Append(all, row)) = n + 1
           /\ \A m \in 1..Len(Append(all, row)) : SaysOf(Append(all, row)[m], m - 1)
<1>1. \A m \in 1..n + 1 : Append(all, row)[m] = IF m = n + 1 THEN row ELSE all[m]
  OBVIOUS
<1>2. Append(all, row) \in Seq(Row) /\ Len(Append(all, row)) = n + 1
  OBVIOUS
<1>3. ASSUME NEW m \in 1..n + 1 PROVE SaysOf(Append(all, row)[m], m - 1)
  <2>1. CASE m = n + 1
    <3>1. m - 1 = n /\ Append(all, row)[m] = row
      BY <1>1, <2>1
    <3> QED BY <3>1
  <2>2. CASE m # n + 1
    <3>1. m \in 1..Len(all) /\ Append(all, row)[m] = all[m]
      BY <1>1, <2>2
    <3> QED BY <3>1
  <2> QED BY <2>1, <2>2
<1> QED BY <1>2, <1>3

\* A row is taken; the device of the first GPU case becomes the one of all.
LEMMA AcceptStep ==
    ASSUME RunInv, Accepts, outcome' = "running" PROVE RunInv'
<1>1. /\ at = "accept" /\ accepted \in Nat /\ accepted < Cases /\ Len(rows) = accepted
      /\ child \in Children /\ record \in Records /\ rows \in Seq(Row)
  BY QualKinds DEF Accepts, Is, RunInv, QualTypes, CasesInv, InCases
<1>2. PICK found \in Findable, report \in Reports, late \in BOOLEAN, device \in {"A", "B"}, lookup \in Lookups :
      \E removed \in Removals(found), operations \in Works(found), memory \in Memories(found) :
        LET o == Outcome(found, removed, operations, memory, report)
        IN  Takes(Assembled(child, o, Ordinal), o, late, device, lookup)
  BY DEF Accepts
<1>3. PICK removed \in Removals(found), operations \in Works(found), memory \in Memories(found) :
        LET o == Outcome(found, removed, operations, memory, report)
        IN  Takes(Assembled(child, o, Ordinal), o, late, device, lookup)
  BY <1>2
<1> DEFINE o == Outcome(found, removed, operations, memory, report)
           row == Assembled(child, o, Ordinal)
           admitted == AdmitsDevice(o, device, lookup)
           passes == row.terminal = "PASS" /\ admitted /\ ~late
           facts == IF LooksAtDevice(o) THEN DeviceFacts(device, lookup[1], lookup[2]) ELSE record
<1>4. /\ o \in OutcomesSet
      /\ o.accepted => o.native
  <2>1. operations \in 0..PlannedWork /\ memory \in {"within", "over"}
    BY DEF Works, Memories, PlannedWork
  <2>2. report \in {Unreported, Nonfinite, Cause("ALLOCATION", "allocate")}
    BY DEF Reports
  <2>3. /\ (found # "unreadable") \in BOOLEAN /\ Compared(found) \in BOOLEAN
        /\ (found = "read" \/ (found = "same" /\ removed = 2)) \in BOOLEAN
    BY DEF Compared
  <2> QED BY <2>1, <2>2, <2>3 DEF Outcome, OutcomesSet
<1>5. row \in Row /\ SaysOf(row, accepted) /\ (row.terminal = "PASS" => o.accepted)
  BY <1>1, <1>4, AssembledIsRow DEF Ordinal
<1>6. /\ rows' = Append(rows, Consumed(row, admitted))
      /\ record' = CountsChild(facts)
      /\ devices' = IF passes /\ Gpu(accepted) THEN devices \cup {device} ELSE devices
      /\ IF passes
         THEN accepted' = accepted + 1 /\ at' = IF accepted' = Cases THEN "finish" ELSE "construct"
         ELSE at' = "finish" /\ accepted' = accepted
  BY <1>3 DEF Takes, Ordinal
<1> HIDE DEF o, row
<1>7. Consumed(row, admitted) \in Row /\ SaysOf(Consumed(row, admitted), accepted)
  <2>1. CASE admitted \/ row.terminal # "PASS"
    <3>1. Consumed(row, admitted) = row
      BY <2>1, Zenon DEF Consumed
    <3> QED BY <1>5, <3>1
  <2>2. CASE ~(admitted \/ row.terminal # "PASS")
    <3> DEFINE failed == [row EXCEPT !.terminal = "FAIL", !.cause = Cause("DEVICE_UNAVAILABLE", "device")]
    <3>1. Consumed(row, admitted) = failed
      BY <2>2, Zenon DEF Consumed
    <3>2. failed \in Row /\ failed.numeric = row.numeric /\ failed.placement = row.placement
      BY <1>5, CausesKnown DEF Row
    <3> QED BY <1>5, <3>1, <3>2 DEF SaysOf
  <2> QED BY <2>1, <2>2
<1>8. /\ facts \in Records /\ facts.status = record.status /\ facts.owned = record.owned
      /\ record.device # "none" => facts.device = record.device /\ facts.loaded = record.loaded
  <2>1. lookup[2] \in BOOLEAN
    <3>1. lookup = <<TRUE, TRUE>> \/ lookup = <<TRUE, FALSE>> \/ lookup = <<FALSE, FALSE>>
      BY <1>2, Zenon DEF Lookups
    <3>2. <<TRUE, TRUE>>[2] = TRUE /\ <<TRUE, FALSE>>[2] = FALSE /\ <<FALSE, FALSE>>[2] = FALSE
      OBVIOUS
    <3> QED BY <3>1, <3>2, Zenon
  <2> QED BY <1>1, <2>1 DEF DeviceFacts, Records
<1>9. passes /\ Gpu(accepted) => facts.device = device /\ device # "none" /\ (record.device = "none" => facts.loaded)
  BY <1>1, <1>2, <1>4, <1>5 DEF AdmitsDevice, LooksAtDevice, DeviceIsAdmitted, DeviceFacts, Ordinal, Records
<1>10. passes => (record.device = "none" => facts.device = "none" \/ facts.loaded)
  BY <1>1, <1>2, <1>4, <1>5 DEF AdmitsDevice, LooksAtDevice, DeviceIsAdmitted, DeviceFacts, Ordinal, Records
<1>11. /\ record' \in Records /\ record'.status = record.status /\ record'.owned = record.owned
       /\ record'.device = facts.device /\ record'.loaded = facts.loaded
  BY <1>1, <1>6, <1>8 DEF CountsChild, Records
<1> HIDE DEF admitted, facts, passes
<1>12. /\ UNCHANGED <<inputVars, todo, marks, got, broke, child, seen, root, commands>>
  BY DEF Accepts, CaseUnchanged, prepVars
<1>13. at' \in {"construct", "finish"} /\ accepted' \in 0..Cases
  BY <1>1, <1>6, QualKinds
<1>14. /\ rows' \in Seq(Row) /\ Len(rows') = accepted + 1
       /\ \A n \in 1..Len(rows') : SaysOf(rows'[n], n - 1)
  <2>1. \A m \in 1..Len(rows) : SaysOf(rows[m], m - 1)
    BY DEF RunInv, CasesInv
  <2> QED BY <1>1, <1>6, <1>7, <2>1, RowsGrow
<1>15. QualTypes'
  BY <1>11, <1>12, <1>13, <1>14 DEF RunInv, QualTypes, InCases, AfterCases, inputVars
<1>16. InputInv'
  BY <1>1, <1>12, <1>13, InputStays DEF RunInv, Before, InputInv
<1>17. /\ devices # {} => devices = {record.device} /\ record.loaded /\ record.device # "none"
       /\ accepted > 1 => devices # {}
       /\ record.device # "none" => record.loaded
  BY <1>1 DEF RunInv, CasesInv, InCases
<1>18. devices' # {} => devices' = {record'.device} /\ record'.loaded /\ record'.device # "none"
  <2>1. CASE passes /\ Gpu(accepted)
    <3>1. devices' = devices \cup {device} /\ record'.device = device /\ device # "none"
      BY <1>6, <1>9, <1>11, <2>1
    <3>2. CASE record.device = "none"
      BY <1>9, <1>11, <1>17, <2>1, <3>1, <3>2
    <3>3. CASE record.device # "none"
      BY <1>8, <1>11, <1>17, <3>1, <3>3
    <3> QED BY <3>2, <3>3
  <2>2. CASE ~(passes /\ Gpu(accepted))
    BY <1>6, <1>8, <1>11, <1>17, <2>2
  <2> QED BY <2>1, <2>2
<1>19. accepted' > 1 => devices' # {}
  <2>1. CASE accepted > 1
    BY <1>6, <1>17, <2>1
  <2>2. CASE accepted' > 1 /\ ~(accepted > 1)
    <3>1. accepted = 1 /\ passes
      BY <1>1, <1>6, <2>2
    <3> QED BY <1>6, <3>1, QualKinds
  <2> QED BY <2>1, <2>2
<1>20. at' = "construct" => accepted' < Cases /\ Len(rows') = accepted' /\ (record'.device # "none" => record'.loaded)
  <2>1. at' = "construct" => passes /\ accepted' = accepted + 1 /\ accepted' # Cases
    BY <1>6
  <2> QED BY <1>1, <1>8, <1>10, <1>11, <1>14, <1>17, <2>1, QualKinds
<1>21. at' = "finish" => Len(rows') \in {accepted', accepted' + 1}
  BY <1>1, <1>6, <1>14
<1>22. CasesInv'
  BY <1>13, <1>14, <1>18, <1>19, <1>20, <1>21 DEF CasesInv, Before, InCases, AfterCases
<1>23. VerdictInv'
  BY <1>1, <1>11, <1>12, <1>13 DEF RunInv, VerdictInv, After
<1> QED BY <1>15, <1>16, <1>22, <1>23 DEF RunInv


\* The verdict passes only when all cases were accepted and nothing broke.
LEMMA SumStep ==
    ASSUME RunInv, SumsUp, outcome' = "running" PROVE RunInv'
<1>1. /\ at = "sum_up" /\ at' = "verify" /\ rows' = Finished
      /\ record' = [(IF IsMissing THEN CountsChild(CasesRecord) ELSE CasesRecord) EXCEPT !.aggregate = Aggregate(rows')]
      /\ UNCHANGED <<inputVars, todo, marks, got, accepted, scratch, broke, child, seen, devices, root, commands>>
  BY DEF SumsUp, Is, CaseUnchanged, historyVars, prepVars
<1>2. /\ accepted \in Nat /\ accepted <= Cases /\ Len(rows) \in {accepted, accepted + 1} /\ rows \in Seq(Row)
      /\ child \in Children \cup {NoChild} /\ record \in Records
      /\ record.status = "FAIL" /\ ~record.owned
      /\ \A n \in 1..Len(rows) : SaysOf(rows[n], n - 1)
  BY <1>1, QualKinds DEF RunInv, QualTypes, CasesInv, VerdictInv, AfterCases, After
<1> DEFINE all == FinishedAsFound
<1>3. all \in Seq(Row) /\ (\A n \in 1..Len(all) : SaysOf(all[n], n - 1)) /\ (~Complete => Len(all) = accepted + 1)
  <2>1. CASE IsMissing
    <3> DEFINE row == Assembled(child, NoOutcome, Ordinal)
    <3>1. NoOutcome \in OutcomesSet
      <4>1. Outcome("unreadable", 0, 0, "within", Unreported) \in OutcomesSet
        BY DEF Outcome, OutcomesSet, Compared, PlannedWork
      <4> QED BY <4>1 DEF NoOutcome
    <3>2. row \in Row /\ SaysOf(row, accepted)
      BY <1>2, <3>1, AssembledIsRow DEF Ordinal
    <3>3. all = Append(rows, row) /\ Len(rows) = accepted
      BY <2>1 DEF FinishedAsFound, IsMissing, Ordinal
    <3> HIDE DEF row, all
    <3> QED BY <1>2, <3>2, <3>3, RowsGrow
  <2>2. CASE ~IsMissing
    BY <1>2, <2>2 DEF FinishedAsFound, IsMissing, Ordinal
  <2> QED BY <2>1, <2>2
<1> HIDE DEF all
<1>4. /\ Finished \in Seq(Row) /\ Len(Finished) = Len(all)
      /\ \A n \in 1..Len(Finished) : SaysOf(Finished[n], n - 1)
  <2>1. CASE ~Complete /\ all[accepted + 1].terminal = "PASS"
    <3> DEFINE last == [all[accepted + 1] EXCEPT !.terminal = "FAIL", !.cause = Cause("PROCESS", "readback")]
    <3>1. Finished = [all EXCEPT ![accepted + 1] = last]
      BY <2>1, Zenon DEF Finished, all, Ordinal
    <3>2. accepted + 1 \in 1..Len(all) /\ all[accepted + 1] \in Row
      BY <1>2, <1>3, <2>1
    <3>3. last \in Row /\ last.numeric = all[accepted + 1].numeric /\ last.placement = all[accepted + 1].placement
      BY <3>2, CausesKnown DEF Row
    <3>4. PICK k \in 1..Len(all) : k = accepted + 1
      BY <3>2
    <3>5. SaysOf(last, k - 1)
      <4>1. SaysOf(all[k], k - 1)
        BY <1>3
      <4> QED BY <3>3, <3>4, <4>1 DEF SaysOf
    <3> HIDE DEF last
    <3>6. Finished \in Seq(Row) /\ Len(Finished) = Len(all)
      BY <1>3, <3>1, <3>2, <3>3
    <3>7. \A n \in 1..Len(all) : Finished[n] = IF n = accepted + 1 THEN last ELSE all[n]
      BY <1>3, <3>1, <3>2
    <3>8. ASSUME NEW n \in 1..Len(all) PROVE SaysOf(Finished[n], n - 1)
      <4>1. CASE n = k
        BY <3>4, <3>5, <3>7, <4>1
      <4>2. CASE n # k
        <5>1. Finished[n] = all[n]
          BY <3>4, <3>7, <4>2
        <5> QED BY <1>3, <5>1
      <4> QED BY <4>1, <4>2
    <3> QED BY <3>6, <3>8
  <2>2. CASE ~(~Complete /\ all[accepted + 1].terminal = "PASS")
    <3>1. Finished = all
      BY <2>2, Zenon DEF Finished, all, Ordinal
    <3> QED BY <1>3, <3>1
  <2> QED BY <2>1, <2>2
<1>5. /\ CasesRecord \in Records
      /\ CasesRecord.status = "PASS" => accepted = Cases /\ ~broke
      /\ CasesRecord.device = record.device /\ CasesRecord.loaded = record.loaded /\ ~CasesRecord.owned
  <2>1. CASE Complete /\ ~broke
    <3>1. CasesRecord = [record EXCEPT !.status = "PASS", !.cause = NoCause]
      BY <2>1, Zenon DEF CasesRecord
    <3> QED BY <1>2, <2>1, <3>1, CausesKnown DEF Records, Complete
  <2>2. CASE Complete /\ broke
    <3>1. CasesRecord = [record EXCEPT !.cause = Cause("CLEANUP", "qualifier_cleanup"), !.safe = FALSE]
      BY <2>2, Zenon DEF CasesRecord
    <3> QED BY <1>2, <3>1, CausesKnown DEF Records
  <2>3. CASE ~Complete
    <3> DEFINE cause == Finished[Ordinal + 1].cause
               safe == ~broke
    <3>1. accepted + 1 \in 1..Len(Finished) /\ cause \in Causes
      <4>1. accepted + 1 \in 1..Len(Finished) /\ Finished \in Seq(Row)
        BY <1>2, <1>3, <1>4, <2>3
      <4>2. Finished[accepted + 1] \in Row
        BY <4>1
      <4> QED BY <4>1, <4>2 DEF Row, Ordinal
    <3>2. CasesRecord = [record EXCEPT !.cause = cause, !.ordinal = Ordinal, !.safe = safe]
      BY <2>3, Zenon DEF CasesRecord
    <3>3. safe \in BOOLEAN /\ Ordinal \in Int
      BY <1>2 DEF Ordinal
    <3> HIDE DEF cause, safe
    <3> QED BY <1>2, <3>1, <3>2, <3>3 DEF Records
  <2> QED BY <2>1, <2>2, <2>3
<1>6. /\ record' \in Records /\ (record'.status = "PASS" => accepted = Cases /\ ~broke)
      /\ record'.device = record.device /\ record'.loaded = record.loaded /\ ~record'.owned
  <2> DEFINE counted == IF IsMissing THEN CountsChild(CasesRecord) ELSE CasesRecord
  <2>1. /\ counted \in Records /\ counted.status = CasesRecord.status /\ counted.device = CasesRecord.device
        /\ counted.loaded = CasesRecord.loaded /\ counted.owned = CasesRecord.owned
    BY <1>5 DEF CountsChild, Records
  <2>2. Aggregate(rows') \in [cases : Nat, passed : Nat]
    BY <1>1, <1>4, CountsOfRows
  <2>3. record' = [counted EXCEPT !.aggregate = Aggregate(rows')]
    BY <1>1
  <2> HIDE DEF counted
  <2> QED BY <1>5, <2>1, <2>2, <2>3 DEF Records
<1>7. QualTypes'
  BY <1>1, <1>4, <1>6 DEF RunInv, QualTypes, After, inputVars
<1>8. InputInv'
  BY <1>1, InputStays DEF RunInv, Before, InputInv
<1>9. CasesInv'
  BY <1>1, <1>4, <1>6 DEF RunInv, CasesInv, Before, InCases, AfterCases
<1>10. VerdictInv'
  BY <1>1, <1>6 DEF RunInv, VerdictInv, After
<1> QED BY <1>7, <1>8, <1>9, <1>10 DEF RunInv

\* After the cases the record can only get worse, until the root is removed.
LEMMA EndStep ==
    ASSUME RunInv, VerifiesSources \/ RechecksInput \/ Collects \/ Cleans \/ StagesEvidence, outcome' = "running"
    PROVE  RunInv'
<1>1. /\ at \in After \ {"publish"} /\ at' \in After
      /\ UNCHANGED <<inputVars, todo, marks, rows, accepted, scratch, broke, child, seen, devices, commands>>
  BY DEF VerifiesSources, RechecksInput, Collects, Cleans, StagesEvidence, Is, After, EndUnchanged, caseVars,
        historyVars, prepVars
<1>2. /\ got' = [p \in Purposes \cup {"head"} |-> got'[p]]
      /\ \A f \in Staged : got'["copy"][f] = Good
      /\ at' \in {"clean", "stage", "publish"} => \A f \in Staged : got'["retained"][f] = Good
  <2>1. CASE Collects
    <3> DEFINE retained == [f \in Files |-> IF f \in Staged THEN work[f] ELSE Unread]
    <3>1. /\ got' = [got EXCEPT !["retained"] = retained] /\ at = "collect"
          /\ at' \in {"clean", "stage", "publish"} => \A f \in Staged : retained[f] = Good
      BY <2>1, QualKinds DEF Collects, Is, SameFile
    <3> HIDE DEF retained
    <3> QED BY <3>1, QualKinds DEF RunInv, QualTypes, InputInv
  <2>2. CASE VerifiesSources \/ RechecksInput
    <3>1. got' = got /\ at' \in {"recheck", "collect"} /\ at \in {"verify", "recheck"}
      BY <2>2 DEF VerifiesSources, RechecksInput, Is
    <3> QED BY <3>1 DEF RunInv, QualTypes, InputInv
  <2>3. CASE Cleans \/ StagesEvidence
    <3>1. got' = got /\ at \in {"clean", "stage"}
      BY <2>3 DEF Cleans, StagesEvidence, Is
    <3> QED BY <3>1 DEF RunInv, QualTypes, InputInv
  <2> QED BY <1>1, <2>1, <2>2, <2>3
<1>3. /\ record' \in Records /\ record'.device = record.device /\ record'.loaded = record.loaded
      /\ record'.status \in {record.status, "FAIL"}
      /\ record'.owned => root' = "gone" /\ at' \in {"stage", "publish"}
  <2>1. record \in Records /\ (record.owned => root = "gone" /\ at \in {"stage", "publish"})
    BY DEF RunInv, QualTypes, VerdictInv
  <2>2. CASE VerifiesSources
    <3> DEFINE r == Fails(record, "SOURCE_IDENTITY", "source")
    <3>1. /\ r \in Records /\ r.status = "FAIL" /\ r.device = record.device /\ r.loaded = record.loaded
          /\ r.owned = record.owned
      BY <2>1, RecordOfFailure
    <3> HIDE DEF r
    <3>2. record' = record \/ record' = [r EXCEPT !.source = FALSE]
      BY <2>2 DEF VerifiesSources, r
    <3>3. at = "verify"
      BY <2>2 DEF VerifiesSources, Is
    <3> QED BY <2>1, <3>1, <3>2, <3>3 DEF Records
  <2>3. CASE RechecksInput
    <3> DEFINE r == Fails(record, "CONFIG", "source")
    <3>1. /\ r \in Records /\ r.status = "FAIL" /\ r.device = record.device /\ r.loaded = record.loaded
          /\ r.owned = record.owned
      BY <2>1, RecordOfFailure
    <3> HIDE DEF r
    <3>2. record' = record \/ record' = [r EXCEPT !.inputs = FALSE]
      BY <2>3 DEF RechecksInput, r
    <3>3. at = "recheck"
      BY <2>3 DEF RechecksInput, Is
    <3> QED BY <2>1, <3>1, <3>2, <3>3 DEF Records
  <2>4. CASE Collects
    <3>1. at = "collect" /\ record' = record
      BY <2>4 DEF Collects, Is
    <3> QED BY <2>1, <3>1 DEF Records
  <2>5. CASE Cleans
    <3> DEFINE r == Fails(record, "CLEANUP", "qualifier_cleanup")
    <3>1. /\ r \in Records /\ r.status = "FAIL" /\ r.device = record.device /\ r.loaded = record.loaded
          /\ r.owned = record.owned
      BY <2>1, RecordOfFailure
    <3> HIDE DEF r
    <3>2. \/ record' = [record EXCEPT !.owned = TRUE] /\ root' = "gone"
          \/ record' = [r EXCEPT !.safe = FALSE]
      BY <2>5 DEF Cleans, r
    <3>3. at = "clean" /\ at' = "stage"
      BY <2>5 DEF Cleans, Is
    <3> QED BY <2>1, <3>1, <3>2, <3>3 DEF Records
  <2>6. CASE StagesEvidence
    <3>1. at = "stage" /\ at' = "publish" /\ record' = record /\ root' = root
      BY <2>6 DEF StagesEvidence, Is, RaisesOut
    <3> QED BY <2>1, <3>1 DEF Records
  <2> QED BY <2>2, <2>3, <2>4, <2>5, <2>6
<1>4. QualTypes'
  BY <1>1, <1>2, <1>3 DEF RunInv, QualTypes, inputVars
<1>5. InputInv'
  BY <1>1, <1>2, InputStays DEF RunInv, Before, InputInv, After
<1>6. CasesInv'
  BY <1>1, <1>3 DEF RunInv, CasesInv, Before, InCases, AfterCases, After
<1>7. VerdictInv'
  BY <1>1, <1>3 DEF RunInv, VerdictInv, After
<1> QED BY <1>4, <1>5, <1>6, <1>7 DEF RunInv

\* A write makes a file newer than what was admitted of it.
LEMMA InputWritten ==
    ASSUME RunInv, NEW f \in Tracked, NEW v \in {Good, Bad}, WritesInput(f, v) PROVE RunInv'
<1>1. /\ UNCHANGED <<todo, marks, got, rows, accepted, scratch, broke, child, seen, devices, commands, record, root, at>>
      /\ edits' = edits + 1 /\ work' = [work EXCEPT ![f] = v] /\ stamp' = [stamp EXCEPT ![f] = edits + 1]
  BY DEF WritesInput, caseVars, historyVars, prepVars
<1>2. QualTypes /\ InputInv
  BY DEF RunInv
<1>3. /\ edits \in Nat /\ work' \in Trees /\ \A g \in Files \ {f} : work'[g] = work[g]
      /\ stamp' \in [Things -> Nat] /\ \A t \in Things : stamp'[t] <= edits'
      /\ stamp'[f] = edits + 1 /\ \A g \in Files \ {f} : stamp'[g] = stamp[g]
  BY <1>1, <1>2, QualKinds DEF QualTypes, Trees, Values, Things
<1>4. QualTypes'
  BY <1>1, <1>2, <1>3 DEF QualTypes
<1>5. InputInv'
  <2>1. ASSUME NEW g \in Tracked \ todo
        PROVE  marks[g] \in Nat /\ marks[g] <= edits' /\ (marks[g] = stamp'[g] => g # f /\ work'[g] = Good)
    <3>1. marks[g] \in Nat /\ marks[g] <= edits /\ (marks[g] = stamp[g] => work[g] = Good) /\ g \in Files
      BY <1>2, QualKinds DEF InputInv
    <3> QED BY <1>1, <1>3, <3>1
  <2>2. (\A g \in ByPath : marks[g] = stamp'[g]) => seen \subseteq {Good}
    <3>1. CASE at = "admit"
      BY <1>2, <3>1 DEF InputInv, Before
    <3>2. CASE at # "admit" /\ f \notin ByPath
      BY <1>2, <1>3, <3>2, QualKinds DEF InputInv
    <3>3. CASE at # "admit" /\ f \in ByPath
      BY <1>2, <2>1, <3>3, QualKinds DEF InputInv
    <3> QED BY <3>1, <3>2, <3>3
  <2> QED BY <1>1, <1>2, <2>1, <2>2 DEF InputInv
<1>6. CasesInv' /\ VerdictInv'
  BY <1>1 DEF RunInv, CasesInv, VerdictInv
<1> QED BY <1>4, <1>5, <1>6 DEF RunInv

\* What is published has just been replayed and rechecked.
LEMMA PublishStep ==
    ASSUME RunInv, PublishesEvidence, output' = "evidence", output # "evidence" PROVE outcome' = "accepted" /\ Earned'
<1>1. /\ at = "publish" /\ outcome' = "accepted" /\ Unchanged /\ Replays(Evidence, kept_files)
      /\ UNCHANGED <<rows, scratch, seen, devices, record, got, root>>
  BY DEF PublishesEvidence, Is, EndUnchanged, caseVars, historyVars
<1>2. SUFFICES ASSUME record.status = "PASS"
               PROVE  /\ PassedRows(rows) = 1..Cases
                      /\ \A n \in 1..Cases : Gpu(n - 1) =>
                            rows[n].numeric = [compared |-> TRUE, expected |-> 1, actual |-> 1, mismatches |-> 0]
                                /\ rows[n].placement.gpu = PlannedWork
                      /\ devices = {record.device} /\ record.loaded
                      /\ seen \subseteq {Good}
                      /\ \A f \in Staged : got["copy"][f] = Good /\ got["retained"][f] = Good
                      /\ root = "gone" /\ scratch = {}
  BY <1>1 DEF Earned, PassedRows
<1>3. /\ Evidence.status = "PASS" /\ Evidence.rows = rows /\ Evidence.owned = record.owned
      /\ RowsAdmitted(Evidence) /\ CleanupAdmitted(Evidence)
  BY <1>1, <1>2 DEF Evidence, Replays, ValidEvidence
<1>4. Len(rows) = Cases /\ (\A n \in 1..Cases : rows[n].terminal = "PASS" /\ ValidCase(rows[n], n - 1)) /\ record.owned
  BY <1>3 DEF RowsAdmitted, CleanupAdmitted
<1>5. rows \in Seq(Row) /\ \A n \in 1..Len(rows) : SaysOf(rows[n], n - 1)
  BY DEF RunInv, QualTypes, CasesInv
<1>6. ASSUME NEW n \in 1..Cases, Gpu(n - 1)
      PROVE  /\ rows[n].numeric = [compared |-> TRUE, expected |-> 1, actual |-> 1, mismatches |-> 0]
             /\ rows[n].placement.gpu = PlannedWork
  <2>1. rows[n] \in Row /\ SaysOf(rows[n], n - 1)
    BY <1>4, <1>5
  <2>2. /\ rows[n].numeric.compared /\ rows[n].numeric.mismatches = 0
        /\ rows[n].placement.gpu = rows[n].placement.expected
    BY <1>4, <1>6 DEF ValidCase, NumericAdmitted, PlacementAdmitted
  <2>3. rows[n].numeric.expected = 1 /\ rows[n].numeric.actual = 1 /\ rows[n].placement.expected = PlannedWork
    BY <1>6, <2>1, <2>2 DEF SaysOf
  <2>4. rows[n].numeric \in [compared : BOOLEAN, expected : {0, 1}, actual : {0, 1}, mismatches : {0, 1}]
    BY <2>1 DEF Row
  <2> QED BY <2>2, <2>3, <2>4
<1>7. PassedRows(rows) = 1..Cases
  BY <1>4 DEF PassedRows
<1>8. devices = {record.device} /\ record.loaded
  BY <1>2, QualKinds DEF RunInv, VerdictInv, CasesInv
<1>9. seen \subseteq {Good}
  <2>1. \A f \in ByPath : marks[f] = stamp[f]
    BY <1>1, QualKinds DEF Unchanged, SameFile
  <2> QED BY <2>1 DEF RunInv, InputInv
<1>10. \A f \in Staged : got["copy"][f] = Good /\ got["retained"][f] = Good
  BY <1>1 DEF RunInv, InputInv
<1>11. root = "gone" /\ scratch = {}
  BY <1>1, <1>2, <1>4 DEF RunInv, VerdictInv, After
<1> QED BY <1>6, <1>7, <1>8, <1>9, <1>10, <1>11


LEMMA QualifierStep ==
    ASSUME QualInv, QualifierNext PROVE QualInv'
<1>1. who = "qualifier" /\ outcome = "running" /\ who' = who
  BY DEF QualifierNext, AdmitsInput, Opens, StagesBackend, Prepares, PreparationFails, PreparationIsNotStarted,
        Plans, Constructs, ConstructionFails, ChildRuns, ChildIsLost, Accepts, AcceptRaises, RemovesScratch, SumsUp,
        VerifiesSources, RechecksInput, Collects, Cleans, StagesEvidence, PublishesEvidence, Aborts, WritesInput,
        TakesPlace, Is, captureVars, PrepUnchanged, CaseUnchanged, EndUnchanged
<1>2. output # "evidence" /\ RunInv
  BY <1>1 DEF QualInv
<1>3. ASSUME output' # "evidence", outcome' = "running" => RunInv' PROVE QualInv'
  BY <1>1, <1>3 DEF QualInv
<1>4. CASE \E f \in Tracked : AdmitsInput(f)
  <2>1. output' = output
    BY <1>4 DEF AdmitsInput
  <2> QED BY <1>2, <1>3, <1>4, <2>1, AdmitStep
<1>5. CASE Opens \/ StagesBackend
  <2>1. output' = output
    BY <1>5 DEF Opens, StagesBackend
  <2> QED BY <1>2, <1>3, <1>5, <2>1, OpenStep, StageBackendStep
<1>6. CASE Prepares \/ PreparationFails \/ PreparationIsNotStarted \/ Plans
  <2>1. output' = output
    BY <1>6 DEF Prepares, PreparationFails, PreparationIsNotStarted, Plans, PrepUnchanged
  <2> QED BY <1>2, <1>3, <1>6, <2>1, PreparationStep
<1>7. CASE Constructs \/ ConstructionFails \/ ChildRuns \/ ChildIsLost
  <2>1. output' = output
    BY <1>7 DEF Constructs, ConstructionFails, ChildRuns, ChildIsLost, CaseUnchanged
  <2> QED BY <1>2, <1>3, <1>7, <2>1, CaseStep
<1>8. CASE Accepts \/ AcceptRaises \/ RemovesScratch \/ SumsUp
  <2>1. output' = output
    BY <1>8 DEF Accepts, AcceptRaises, RemovesScratch, SumsUp, CaseUnchanged
  <2> QED BY <1>2, <1>3, <1>8, <2>1, AcceptStep, RaiseStep, RemoveStep, SumStep
<1>9. CASE VerifiesSources \/ RechecksInput \/ Collects \/ Cleans \/ StagesEvidence
  <2>1. output' = output
    BY <1>9 DEF VerifiesSources, RechecksInput, Collects, Cleans, StagesEvidence
  <2> QED BY <1>2, <1>3, <1>9, <2>1, EndStep
<1>10. CASE PublishesEvidence
  <2>1. outcome' # "running" /\ output' \in {output, "evidence"}
    BY <1>10 DEF PublishesEvidence, RaisesOut
  <2> QED BY <1>1, <1>2, <1>10, <2>1, PublishStep DEF QualInv
<1>11. CASE Aborts
  <2>1. outcome' = "refused" /\ output' = output
    BY <1>11 DEF Aborts
  <2> QED BY <1>2, <1>3, <2>1
<1>12. CASE \E f \in Tracked, v \in {Good, Bad} : WritesInput(f, v)
  <2>1. output' = output
    BY <1>12 DEF WritesInput
  <2> QED BY <1>2, <1>3, <1>12, <2>1, InputWritten
<1>13. CASE TakesPlace
  <2>1. /\ output' = "theirs" /\ at \in {"open", "stage", "publish"}
        /\ UNCHANGED <<inputVars, todo, marks, got, rows, accepted, scratch, broke, child, seen, devices, commands>>
        /\ UNCHANGED <<record, root, at>>
    BY <1>13 DEF TakesPlace, Is, caseVars, historyVars, prepVars
  <2>2. QualTypes' /\ CasesInv' /\ VerdictInv'
    BY <1>2, <2>1 DEF RunInv, QualTypes, CasesInv, VerdictInv, inputVars
  <2>3. InputInv'
    BY <1>2, <2>1, InputStays DEF RunInv, InputInv, Before
  <2> QED BY <1>2, <1>3, <2>1, <2>2, <2>3 DEF RunInv
<1> QED BY <1>4, <1>5, <1>6, <1>7, <1>8, <1>9, <1>10, <1>11, <1>12, <1>13 DEF QualifierNext


LEMMA ReaderPublishesItsOwn ==
    ASSUME Reader PROVE output' \in {output, "ours"}
BY DEF Publish, Decides, Reader, Identity, ReadsDocuments, ReadsExpectations, CopiesSource, Builds, NamesArtifacts,
    RunsSamples, ReadsTree, ReadsTreeAgain, StagesTree, ReadsFiles, ReadingBegins, Reads, ReadingEnds,
    RetainsRoot, RetainsHead, RetainsIndex, AdmitsRepository, ComparesRevision, ComparesIndex, Lists, Visits,
    WalkEnds, Holds, Seals, ChecksPolicy, ReadsHead, StatusBegins, StatusLooks, StatusEnds, ObservesBundle,
    ValidatesCopy, Materializes, Retains, GivesUp

LEMMA InitiallyQualified ==
    ASSUME CaptureInit PROVE QualInv
<1>1. output = "none"
  BY DEF CaptureInit, Init, QualifierInit
<1>2. SUFFICES ASSUME who = "qualifier" PROVE RunInv
  BY <1>1 DEF QualInv
<1>3. QualifierInit /\ QualificationInit
  <2>1. who \in Readers => who # "qualifier"
    BY ReadersAssumption
  <2> QED BY <1>2, <2>1 DEF CaptureInit, Init
<1>4. /\ work \in Trees /\ edits = 0 /\ stamp = [t \in Things |-> 0]
  <2>1. TreeInit
    BY <1>3 DEF QualifierInit
  <2> QED BY <2>1 DEF TreeInit
<1>5. marks = Nothing.marks /\ got = Nothing.got /\ todo = Tracked
  BY <1>3 DEF QualifierInit
<1>6. /\ Nothing.marks \in [Files -> Mark]
      /\ Nothing.got = [p \in Purposes \cup {"head"} |-> Nothing.got[p]]
  BY NothingTyped
<1>7. /\ at = "admit" /\ commands = 0 /\ rows = <<>> /\ accepted = 0 /\ child = NoChild
      /\ scratch = {} /\ broke = FALSE /\ record = NoRecord /\ seen = {} /\ devices = {}
  BY <1>3 DEF QualificationInit
<1>8. QualTypes
  <2>1. <<>> \in Seq(Row) /\ 0 \in 0..Cases
    BY QualKinds
  <2>2. edits \in Nat /\ work \in Trees /\ stamp \in [Things -> Nat] /\ \A t \in Things : stamp[t] <= edits
    BY <1>4
  <2> QED BY <1>5, <1>6, <1>7, <2>1, <2>2, RecordOfFailure DEF QualTypes, Before
<1>9. InputInv
  BY <1>5, <1>7 DEF InputInv, Before
<1>10. CasesInv /\ VerdictInv
  BY <1>7, RecordOfFailure DEF CasesInv, VerdictInv, Before, InCases, AfterCases, After
<1> QED BY <1>8, <1>9, <1>10 DEF RunInv

LEMMA QualStep ==
    ASSUME CaptureInv, QualInv, [CaptureNext]_<<vars, qualVars>> PROVE QualInv'
<1>1. CASE QualifierNext
  BY <1>1, QualifierStep
<1>2. ASSUME who # "qualifier", Next PROVE QualInv'
  <2>1. output # "evidence" /\ ReaderInv
    BY <1>2 DEF QualInv, CaptureInv
  <2>2. who' = who /\ output' # "evidence"
    <3>1. CASE Reader
      BY <2>1, <3>1, ReaderPublishesItsOwn, TypesAreKept DEF ReaderInv
    <3>2. CASE DeveloperWrites \/ SomebodyPublishes
      BY <2>1, <3>2 DEF DeveloperWrites, SomebodyPublishes, readVars
    <3> QED BY <1>2, <3>1, <3>2 DEF Next
  <2> QED BY <1>2, <2>2 DEF QualInv
<1>3. CASE UNCHANGED <<vars, qualVars>>
  <2>1. UNCHANGED <<output, outcome, who, inputVars, todo, marks, got, rows, accepted, scratch, broke, child, seen,
                    devices, commands, record, root, at>>
    BY <1>3 DEF vars, treeVars, readVars, qualVars, inputVars, caseVars, historyVars, prepVars
  <2>2. Earned => Earned'
    BY <2>1 DEF Earned, PassedRows
  <2>3. RunInv => RunInv'
    <3>1. QualTypes => QualTypes'
      BY <2>1 DEF QualTypes, inputVars
    <3>2. InputInv => InputInv'
      BY <2>1 DEF InputInv, inputVars
    <3>3. CasesInv /\ VerdictInv => CasesInv' /\ VerdictInv'
      BY <2>1 DEF CasesInv, VerdictInv
    <3> QED BY <3>1, <3>2, <3>3 DEF RunInv
  <2> QED BY <2>1, <2>2, <2>3 DEF QualInv
<1> QED BY <1>1, <1>2, <1>3 DEF CaptureNext, OtherReaders

\* Whatever is written into the input while it runs, and however many cases there
\* are, a qualification that is published as passed is earned: by every case, on
\* one device, with the admitted files only (gpu_qualification_result.py).
THEOREM QualificationIsAlwaysEarned == CaptureSpec => []QualificationIsEarned
<1>1. CaptureInit => CaptureInv /\ QualInv
  BY InitiallyCaptured, InitiallyQualified
<1>2. CaptureInv /\ QualInv /\ [CaptureNext]_<<vars, qualVars>> => (CaptureInv /\ QualInv)'
  BY CaptureStep, QualStep
<1>3. CaptureInv /\ QualInv => QualificationIsEarned
  BY DEF QualInv, Earned, QualificationIsEarned
<1> QED BY <1>1, <1>2, <1>3, PTL DEF CaptureSpec

----------------------------------------------------------------------------
\* The counts of a numeric comparison (NumericTraversal).

LEMMA ProductGrows ==
    ASSUME NEW c \in Nat, NEW a \in Int, NEW b \in Int, a <= b PROVE c * a <= c * b
<1>1. c * b = c * a + c * (b - a) /\ b - a \in Nat
  OBVIOUS
<1>2. c * (b - a) \in Nat
  BY <1>1
<1>3. c * a \in Int /\ c * b \in Int
  OBVIOUS
<1> QED BY <1>1, <1>2, <1>3

LEMMA Quotient ==
    ASSUME NEW a \in Nat, NEW c \in Nat \ {0}
    PROVE  a \div c \in Nat /\ a % c \in 0..c - 1 /\ a = c * (a \div c) + (a % c)
OBVIOUS

LEMMA Division ==
    ASSUME NEW k \in Nat, NEW c \in Nat \ {0}, NEW d \in 0..c - 1
    PROVE  (c * k + d) % c = d /\ (c * k + d) \div c = k
<1> DEFINE a == c * k + d
           q == a \div c
           r == a % c
<1>1. a \in Nat /\ c * k \in Nat
  OBVIOUS
<1>2. q \in Nat /\ r \in 0..c - 1 /\ c * k + d = c * q + r
  BY <1>1, Quotient
<1> HIDE DEF a, q, r
<1>3. ~(q + 1 <= k)
  <2>1. SUFFICES ASSUME q + 1 <= k PROVE FALSE
    OBVIOUS
  <2>2. c * (q + 1) <= c * k
    BY <1>2, <2>1, ProductGrows
  <2>3. c * (q + 1) = c * q + c /\ c * q \in Nat
    BY <1>2
  <2> QED BY <1>1, <1>2, <2>2, <2>3
<1>4. ~(k + 1 <= q)
  <2>1. SUFFICES ASSUME k + 1 <= q PROVE FALSE
    OBVIOUS
  <2>2. c * (k + 1) <= c * q
    BY <1>2, <2>1, ProductGrows
  <2>3. c * (k + 1) = c * k + c /\ c * q \in Nat
    BY <1>2
  <2> QED BY <1>1, <1>2, <2>2, <2>3
<1>5. q = k
  BY <1>2, <1>3, <1>4
<1>6. r = d
  BY <1>1, <1>2, <1>5
<1> QED BY <1>5, <1>6 DEF a, q, r

\* What is in a one-to-one correspondence has as many members.
LEMMA AsMany ==
    ASSUME NEW S, IsFiniteSet(S), NEW T, NEW f \in [S -> T],
           \A x, y \in S : f[x] = f[y] => x = y, \A t \in T : \E x \in S : f[x] = t
    PROVE  IsFiniteSet(T) /\ Cardinality(T) = Cardinality(S)
<1>1. f \in Bijection(S, T)
  BY DEF Bijection, Injection, Surjection, IsInjective
<1> QED BY <1>1, FS_Bijection DEF ExistsBijection

LEMMA PairsOf ==
    ASSUME NEW S, IsFiniteSet(S), NEW T, IsFiniteSet(T), NEW m, Cardinality(S) = m, NEW n, Cardinality(T) = n
    PROVE  IsFiniteSet(S \X T) /\ Cardinality(S \X T) = m * n
<1>1. Cardinality(S \X T) = Cardinality(S) * Cardinality(T) /\ IsFiniteSet(S \X T)
  BY FS_Product
<1> QED BY <1>1, Zenon

\* The offsets of the chunks are the multiples of their length below the prompt's.
LEMMA ChunkOffsets ==
    ASSUME NEW s \in Shapes
    PROVE  /\ prefill_chunks(s) \in Nat \ {0}
           /\ Chunk * (prefill_chunks(s) - 1) < s.prompt /\ s.prompt <= Chunk * prefill_chunks(s)
           /\ \A k \in 0..prefill_chunks(s) - 1 : Chunk * k \in Offsets(s, 0)
           /\ \A o \in Offsets(s, 0) : \E k \in 0..prefill_chunks(s) - 1 : o = Chunk * k
<1> DEFINE p == s.prompt
           n == (p + Chunk - 1) \div Chunk
<1>1. p \in Nat \ {0} /\ Chunk \in Nat \ {0}
  BY TraversalAssumption, ShapesAssumption
<1> HIDE DEF p
<1>2. p + Chunk - 1 \in Nat
  BY <1>1
<1>3. n \in Nat /\ \E r \in 0..Chunk - 1 : p + Chunk - 1 = Chunk * n + r
  BY <1>1, <1>2, Quotient
<1> HIDE DEF n
<1>4. p <= Chunk * n /\ Chunk * n <= p + Chunk - 1 /\ Chunk * n \in Nat
  BY <1>1, <1>3
<1>5. n # 0
  BY <1>1, <1>4
<1>6. Chunk * (n - 1) = Chunk * n - Chunk
  BY <1>1, <1>3
<1>7. Chunk * (n - 1) < p
  BY <1>1, <1>3, <1>4, <1>6
<1>8. ASSUME NEW k \in 0..n - 1 PROVE Chunk * k \in Offsets(s, 0)
  <2>1. Chunk * k <= Chunk * (n - 1) /\ Chunk * k \in Nat
    BY <1>1, <1>3, ProductGrows
  <2>2. Chunk * k \in 0..p - 1
    BY <1>1, <1>3, <1>6, <1>7, <2>1
  <2>3. (Chunk * k) % Chunk = 0
    <3>1. (Chunk * k + 0) % Chunk = 0
      BY <1>1, <1>3, Division
    <3> QED BY <1>1, <1>3, <3>1
  <2> HIDE DEF p
  <2> QED BY <2>2, <2>3 DEF Offsets, p
<1>9. ASSUME NEW o \in Offsets(s, 0) PROVE \E k \in 0..n - 1 : o = Chunk * k
  <2>1. o \in 0..p - 1 /\ o % Chunk = 0
    BY DEF Offsets, p
  <2>2. o \div Chunk \in Nat /\ o = Chunk * (o \div Chunk)
    BY <1>1, <2>1, Quotient
  <2>3. ~(n <= o \div Chunk)
    <3>1. n <= o \div Chunk => Chunk * n <= o
      BY <1>1, <1>3, <2>2, ProductGrows
    <3> QED BY <1>1, <1>4, <2>1, <3>1
  <2> QED BY <1>3, <2>2, <2>3
<1>10. prefill_chunks(s) = n
  BY DEF prefill_chunks, n, p
<1> QED BY <1>3, <1>4, <1>5, <1>7, <1>8, <1>9, <1>10 DEF p

\* The frames of a pass: below the highest layer, where it ends, and later.
Frame(pass, step, offset, layer) == [pass |-> pass, step |-> step, offset |-> offset, layer |-> layer]
Top(s) == s.layers - 1
Below(s, pass) == {f \in LayerFrames(s, pass) : f.step = 0 /\ f.layer # Top(s)}
AtTop(s, pass) == {f \in LayerFrames(s, pass) : f.step = 0 /\ f.layer = Top(s)}
Later(s, pass) == {f \in LayerFrames(s, pass) : f.step # 0}

LEMMA ShapeIsNatural ==
    ASSUME NEW s \in Shapes
    PROVE  /\ s.layers \in Nat \ {0} /\ s.prompt \in Nat \ {0} /\ s.positions \in Nat \ {0}
           /\ s.forced \in Nat /\ s.vocabulary \in Nat /\ s.embedding \in Nat
           /\ s.experts \in Nat /\ s.selected \in Nat /\ Chunk \in Nat \ {0}
           /\ Top(s) \in Nat /\ \A pass \in {1, 2} : Steps(s, pass) \in Nat \ {0}
BY TraversalAssumption, ShapesAssumption DEF Top, Steps

\* What is in a frame of a pass.
LEMMA FramesAre ==
    ASSUME NEW s \in Shapes, NEW pass \in {1, 2}
    PROVE  /\ \A f \in LayerFrames(s, pass) :
                /\ f = Frame(pass, f.step, f.offset, f.layer)
                /\ f.step \in 0..Steps(s, pass) - 1 /\ f.layer \in 0..Top(s)
                /\ f.offset \in Offsets(s, f.step) /\ f.offset \in 0..s.prompt - 1
                /\ f.layer = Top(s) => IsLast(s, f.step, f.offset)
           /\ \A step \in 0..Steps(s, pass) - 1, layer \in 0..Top(s) : \A offset \in Offsets(s, step) :
                (layer = Top(s) => IsLast(s, step, offset)) => Frame(pass, step, offset, layer) \in LayerFrames(s, pass)
<1>1. ASSUME NEW f \in LayerFrames(s, pass)
      PROVE  /\ f = Frame(pass, f.step, f.offset, f.layer)
             /\ f.step \in 0..Steps(s, pass) - 1 /\ f.layer \in 0..Top(s)
             /\ f.offset \in Offsets(s, f.step) /\ f.offset \in 0..s.prompt - 1
             /\ f.layer = Top(s) => IsLast(s, f.step, f.offset)
  BY DEF LayerFrames, Frame, Top
<1>2. ASSUME NEW step \in 0..Steps(s, pass) - 1, NEW layer \in 0..Top(s), NEW offset \in Offsets(s, step),
             layer = Top(s) => IsLast(s, step, offset)
      PROVE  Frame(pass, step, offset, layer) \in LayerFrames(s, pass)
  <2>1. offset \in 0..s.prompt - 1
    BY ShapeIsNatural DEF Offsets
  <2> DEFINE f == Frame(pass, step, offset, layer)
  <2>2. f \in [pass : {pass}, step : 0..Steps(s, pass) - 1, offset : 0..s.prompt - 1, layer : 0..Top(s)]
    BY <2>1 DEF Frame
  <2>3. f.offset = offset /\ f.step = step /\ f.layer = layer
    BY DEF Frame
  <2> HIDE DEF f
  <2>4. f.offset \in Offsets(s, f.step) /\ (f.layer = Top(s) => IsLast(s, f.step, f.offset))
    BY <1>2, <2>3
  <2>5. f \in LayerFrames(s, pass)
    BY <2>2, <2>4 DEF LayerFrames, Top
  <2> QED BY <2>5 DEF f
<1> QED BY <1>1, <1>2

LEMMA BelowCounted ==
    ASSUME NEW s \in Shapes, NEW pass \in {1, 2}
    PROVE  /\ IsFiniteSet(Below(s, pass))
           /\ Cardinality(Below(s, pass)) = prefill_chunks(s) * Top(s)
<1> DEFINE n == prefill_chunks(s)
           S == (0..n - 1) \X (0..Top(s) - 1)
           T == Below(s, pass)
           g == [x \in S |-> Frame(pass, 0, Chunk * x[1], x[2])]
<1>1. n \in Nat \ {0} /\ Top(s) \in Nat /\ Chunk \in Nat \ {0}
  BY ChunkOffsets, ShapeIsNatural
<1>2. /\ \A k \in 0..n - 1 : Chunk * k \in Offsets(s, 0)
      /\ \A o \in Offsets(s, 0) : \E k \in 0..n - 1 : o = Chunk * k
  BY ChunkOffsets
<1> HIDE DEF n
<1>3. IsFiniteSet(S) /\ Cardinality(S) = n * Top(s)
  <2>1. ASSUME NEW j \in Nat PROVE IsFiniteSet(0..j - 1) /\ Cardinality(0..j - 1) = j
    BY FS_Interval
  <2>2. /\ IsFiniteSet(0..n - 1) /\ Cardinality(0..n - 1) = n
        /\ IsFiniteSet(0..Top(s) - 1) /\ Cardinality(0..Top(s) - 1) = Top(s)
    BY <1>1, <2>1
  <2> DEFINE A == 0..n - 1
             B == 0..Top(s) - 1
             a == n
             b == Top(s)
  <2> HIDE DEF A, B, a, b, S, T, g
  <2>3. IsFiniteSet(A) /\ Cardinality(A) = a /\ IsFiniteSet(B) /\ Cardinality(B) = b
    BY <2>2 DEF A, B, a, b
  <2>4. IsFiniteSet(A \X B) /\ Cardinality(A \X B) = a * b
    BY <2>3, PairsOf
  <2> QED BY <2>4 DEF A, B, a, b, S
<1>4. ASSUME NEW x \in S PROVE Frame(pass, 0, Chunk * x[1], x[2]) \in T
  <2>1. x[1] \in 0..n - 1 /\ x[2] \in 0..Top(s) /\ x[2] # Top(s) /\ 0 \in 0..Steps(s, pass) - 1
    BY <1>1, ShapeIsNatural
  <2>2. Frame(pass, 0, Chunk * x[1], x[2]) \in LayerFrames(s, pass)
    BY <1>2, <2>1, FramesAre
  <2> QED BY <2>1, <2>2 DEF Below, Frame
<1>5. g \in [S -> T]
  BY <1>4
<1>6. ASSUME NEW x \in S, NEW y \in S, g[x] = g[y] PROVE x = y
  <2>1. Chunk * x[1] = Chunk * y[1] /\ x[2] = y[2]
    BY <1>6 DEF Frame
  <2>2. x[1] \in Nat /\ y[1] \in Nat
    OBVIOUS
  <2>3. x[1] = y[1]
    <3>1. 0 \in 0..Chunk - 1
      BY <1>1
    <3>2. (Chunk * x[1] + 0) \div Chunk = x[1] /\ (Chunk * y[1] + 0) \div Chunk = y[1]
      BY <1>1, <2>2, <3>1, Division
    <3> QED BY <2>1, <3>2
  <2> QED BY <2>1, <2>3
<1>7. ASSUME NEW f \in T PROVE \E x \in S : g[x] = f
  <2>1. /\ f = Frame(pass, 0, f.offset, f.layer) /\ f.layer \in 0..Top(s) - 1
        /\ f.offset \in Offsets(s, 0)
    BY <1>1, FramesAre DEF Below
  <2>2. PICK k \in 0..n - 1 : f.offset = Chunk * k
    BY <1>2, <2>1
  <2>3. <<k, f.layer>> \in S /\ g[<<k, f.layer>>] = f
    BY <2>1, <2>2
  <2> QED BY <2>3
<1> HIDE DEF S, T, g
<1>8. IsFiniteSet(T) /\ Cardinality(T) = Cardinality(S)
  BY <1>3, <1>5, <1>6, <1>7, AsMany
<1> QED BY <1>3, <1>8 DEF T, n

LEMMA TopCounted ==
    ASSUME NEW s \in Shapes, NEW pass \in {1, 2}
    PROVE  IsFiniteSet(AtTop(s, pass)) /\ Cardinality(AtTop(s, pass)) = 1
<1> DEFINE n == prefill_chunks(s)
           last == Frame(pass, 0, Chunk * (n - 1), Top(s))
<1>1. n \in Nat \ {0} /\ Top(s) \in Nat /\ Chunk \in Nat \ {0} /\ s.prompt \in Nat \ {0}
  BY ChunkOffsets, ShapeIsNatural
<1>2. /\ \A k \in 0..n - 1 : Chunk * k \in Offsets(s, 0)
      /\ \A o \in Offsets(s, 0) : \E k \in 0..n - 1 : o = Chunk * k
      /\ Chunk * (n - 1) < s.prompt /\ s.prompt <= Chunk * n
  BY ChunkOffsets
<1> HIDE DEF n
<1>3. Chunk * (n - 1) \in Nat /\ Chunk * n = Chunk * (n - 1) + Chunk
  BY <1>1
<1>4. last \in AtTop(s, pass)
  <2>1. IsLast(s, 0, Chunk * (n - 1))
    BY <1>1, <1>2, <1>3 DEF IsLast
  <2>2. n - 1 \in 0..n - 1 /\ 0 \in 0..Steps(s, pass) - 1 /\ Top(s) \in 0..Top(s)
    BY <1>1, ShapeIsNatural
  <2>3. last \in LayerFrames(s, pass)
    BY <1>2, <2>1, <2>2, FramesAre
  <2> QED BY <2>3 DEF AtTop, Frame
<1>5. ASSUME NEW f \in AtTop(s, pass) PROVE f = last
  <2>1. /\ f = Frame(pass, 0, f.offset, Top(s)) /\ f.offset \in Offsets(s, 0) /\ IsLast(s, 0, f.offset)
    BY FramesAre DEF AtTop
  <2>2. PICK k \in 0..n - 1 : f.offset = Chunk * k
    BY <1>2, <2>1
  <2>3. Chunk * k + Chunk >= s.prompt
    BY <2>1, <2>2 DEF IsLast
  <2>4. ~(k + 1 <= n - 1)
    <3>1. SUFFICES ASSUME k + 1 <= n - 1 PROVE FALSE
      OBVIOUS
    <3>2. Chunk * (k + 1) <= Chunk * (n - 1)
      BY <1>1, <2>2, <3>1, ProductGrows
    <3>3. Chunk * (k + 1) = Chunk * k + Chunk /\ Chunk * k \in Nat
      BY <1>1
    <3> QED BY <1>1, <1>2, <1>3, <2>3, <3>2, <3>3
  <2>5. k = n - 1
    BY <1>1, <2>4
  <2> QED BY <2>1, <2>2, <2>5
<1> HIDE DEF last
<1>6. AtTop(s, pass) = {last}
  BY <1>4, <1>5
<1> QED BY <1>6, FS_Singleton

LEMMA LaterCounted ==
    ASSUME NEW s \in Shapes, NEW pass \in {1, 2}
    PROVE  /\ IsFiniteSet(Later(s, pass))
           /\ Cardinality(Later(s, pass)) = (Steps(s, pass) - 1) * s.layers
<1> DEFINE m == Steps(s, pass)
           S == (1..m - 1) \X (0..Top(s))
           T == Later(s, pass)
           g == [x \in S |-> Frame(pass, x[1], 0, x[2])]
<1>1. m \in Nat \ {0} /\ Top(s) \in Nat /\ s.layers = Top(s) + 1
  BY ShapeIsNatural DEF Top
<1> HIDE DEF m
<1>2. IsFiniteSet(S) /\ Cardinality(S) = (m - 1) * s.layers
  <2>1. /\ IsFiniteSet(1..m - 1) /\ Cardinality(1..m - 1) = m - 1
        /\ IsFiniteSet(0..Top(s)) /\ Cardinality(0..Top(s)) = s.layers
    BY <1>1, FS_Interval
  <2> DEFINE A == 1..m - 1
             B == 0..Top(s)
             a == m - 1
             b == s.layers
  <2> HIDE DEF A, B, a, b, S, T, g
  <2>3. IsFiniteSet(A) /\ Cardinality(A) = a /\ IsFiniteSet(B) /\ Cardinality(B) = b
    BY <2>1 DEF A, B, a, b
  <2>4. IsFiniteSet(A \X B) /\ Cardinality(A \X B) = a * b
    BY <2>3, PairsOf
  <2> QED BY <2>4 DEF A, B, a, b, S
<1>3. ASSUME NEW x \in S PROVE Frame(pass, x[1], 0, x[2]) \in T
  <2>1. x[1] \in 0..m - 1 /\ x[1] # 0 /\ x[2] \in 0..Top(s)
    BY <1>1
  <2>2. 0 \in Offsets(s, x[1]) /\ IsLast(s, x[1], 0)
    BY <2>1 DEF Offsets, IsLast
  <2>3. Frame(pass, x[1], 0, x[2]) \in LayerFrames(s, pass)
    BY <2>1, <2>2, FramesAre DEF m
  <2> QED BY <2>1, <2>3 DEF Later, Frame
<1>4. g \in [S -> T]
  BY <1>3
<1>5. ASSUME NEW x \in S, NEW y \in S, g[x] = g[y] PROVE x = y
  BY <1>5 DEF Frame
<1>6. ASSUME NEW f \in T PROVE \E x \in S : g[x] = f
  <2>1. /\ f = Frame(pass, f.step, f.offset, f.layer) /\ f.layer \in 0..Top(s) /\ f.step \in 0..m - 1
        /\ f.step # 0 /\ f.offset \in Offsets(s, f.step)
    BY FramesAre DEF Later, m
  <2>2. f.offset = 0 /\ f.step \in 1..m - 1
    BY <1>1, <2>1 DEF Offsets
  <2>3. <<f.step, f.layer>> \in S /\ g[<<f.step, f.layer>>] = f
    BY <2>1, <2>2
  <2> QED BY <2>3
<1> HIDE DEF S, T, g
<1>7. IsFiniteSet(T) /\ Cardinality(T) = Cardinality(S)
  BY <1>2, <1>4, <1>5, <1>6, AsMany
<1> QED BY <1>2, <1>7 DEF T, m

LEMMA FramesCounted ==
    ASSUME NEW s \in Shapes, NEW pass \in {1, 2}
    PROVE  Cardinality(LayerFrames(s, pass)) = prefill_chunks(s) * Top(s) + 1 + (Steps(s, pass) - 1) * s.layers
<1> DEFINE B == Below(s, pass)
           A == AtTop(s, pass)
           L == Later(s, pass)
<1>1. LayerFrames(s, pass) = B \cup (A \cup L) /\ B \cap (A \cup L) = {} /\ A \cap L = {}
  BY DEF Below, AtTop, Later
<1>2. IsFiniteSet(B) /\ IsFiniteSet(A) /\ IsFiniteSet(L)
  BY BelowCounted, TopCounted, LaterCounted
<1> HIDE DEF A, B, L
<1>3. IsFiniteSet(A \cup L) /\ Cardinality(A \cup L) = Cardinality(A) + Cardinality(L) - Cardinality({})
  BY <1>1, <1>2, FS_Union
<1>4. Cardinality(B \cup (A \cup L)) = Cardinality(B) + Cardinality(A \cup L) - Cardinality({})
  BY <1>1, <1>2, <1>3, FS_Union
<1>5. Cardinality(B) \in Nat /\ Cardinality(A) \in Nat /\ Cardinality(L) \in Nat /\ Cardinality({}) = 0
  BY <1>2, FS_CardinalityType, FS_EmptySet
<1>6. Cardinality(LayerFrames(s, pass)) = Cardinality(B) + Cardinality(A) + Cardinality(L)
  BY <1>1, <1>3, <1>4, <1>5
<1> QED BY <1>5, <1>6, BelowCounted, TopCounted, LaterCounted DEF A, B, L

\* The columns of some frames.
ColumnsOf(s, frames) == UNION {{<<f, c>> : c \in 1..Width(s, f)} : f \in frames}

\* Below the highest layer there is one for every position of the prompt.
LEMMA BelowColumns ==
    ASSUME NEW s \in Shapes, NEW pass \in {1, 2}
    PROVE  /\ IsFiniteSet(ColumnsOf(s, Below(s, pass)))
           /\ Cardinality(ColumnsOf(s, Below(s, pass))) = s.prompt * Top(s)
<1> DEFINE n == prefill_chunks(s)
           p == s.prompt
           S == (0..p - 1) \X (0..Top(s) - 1)
           T == ColumnsOf(s, Below(s, pass))
           frame(i, layer) == Frame(pass, 0, Chunk * (i \div Chunk), layer)
           g == [x \in S |-> <<frame(x[1], x[2]), (x[1] % Chunk) + 1>>]
<1>1. n \in Nat \ {0} /\ Top(s) \in Nat /\ Chunk \in Nat \ {0} /\ p \in Nat \ {0}
  BY ChunkOffsets, ShapeIsNatural
<1>2. /\ \A k \in 0..n - 1 : Chunk * k \in Offsets(s, 0)
      /\ \A o \in Offsets(s, 0) : \E k \in 0..n - 1 : o = Chunk * k
      /\ p <= Chunk * n
  BY ChunkOffsets
<1>3. \A f \in Below(s, pass) : Width(s, f) = Lower(Chunk, p - f.offset)
  BY DEF Below, Width, Top
<1> HIDE DEF n, p
<1>4. IsFiniteSet(S) /\ Cardinality(S) = p * Top(s)
  <2>1. ASSUME NEW j \in Nat PROVE IsFiniteSet(0..j - 1) /\ Cardinality(0..j - 1) = j
    BY FS_Interval
  <2>2. /\ IsFiniteSet(0..p - 1) /\ Cardinality(0..p - 1) = p
        /\ IsFiniteSet(0..Top(s) - 1) /\ Cardinality(0..Top(s) - 1) = Top(s)
    BY <1>1, <2>1
  <2> DEFINE A == 0..p - 1
             B == 0..Top(s) - 1
             a == p
             b == Top(s)
  <2> HIDE DEF A, B, a, b, S, T, g
  <2>3. IsFiniteSet(A) /\ Cardinality(A) = a /\ IsFiniteSet(B) /\ Cardinality(B) = b
    BY <2>2 DEF A, B, a, b
  <2>4. IsFiniteSet(A \X B) /\ Cardinality(A \X B) = a * b
    BY <2>3, PairsOf
  <2> QED BY <2>4 DEF A, B, a, b, S
<1>5. ASSUME NEW i \in 0..p - 1, NEW layer \in 0..Top(s) - 1
      PROVE  <<frame(i, layer), (i % Chunk) + 1>> \in T
  <2> DEFINE k == i \div Chunk
             d == i % Chunk
             f == Frame(pass, 0, Chunk * k, layer)
  <2>1. k \in Nat /\ d \in 0..Chunk - 1 /\ i = Chunk * k + d /\ Chunk * k \in Nat
    <3>1. i \in Nat
      BY <1>1
    <3>2. k \in Nat /\ d \in 0..Chunk - 1 /\ i = Chunk * k + d
      BY <1>1, <3>1, Quotient
    <3> HIDE DEF k, d
    <3> QED BY <1>1, <3>2
  <2> HIDE DEF k, d
  <2>2. ~(n <= k)
    <3>1. n <= k => Chunk * n <= Chunk * k
      BY <1>1, <2>1, ProductGrows
    <3>2. Chunk * n \in Nat
      BY <1>1
    <3> QED BY <1>1, <1>2, <2>1, <3>1, <3>2
  <2>3. k \in 0..n - 1
    BY <1>1, <2>1, <2>2
  <2>4. layer \in 0..Top(s) /\ layer # Top(s) /\ 0 \in 0..Steps(s, pass) - 1
    BY <1>1, ShapeIsNatural
  <2>5. f \in LayerFrames(s, pass)
    BY <1>2, <2>3, <2>4, FramesAre
  <2>6. f \in Below(s, pass) /\ f.offset = Chunk * k
    BY <2>4, <2>5 DEF Below, Frame
  <2> HIDE DEF f
  <2>7. d + 1 \in 1..Lower(Chunk, p - Chunk * k)
    BY <1>1, <2>1 DEF Lower
  <2>8. d + 1 \in 1..Width(s, f)
    BY <1>3, <2>6, <2>7
  <2>9. <<f, d + 1>> \in T
    BY <2>6, <2>8 DEF ColumnsOf
  <2> QED BY <2>9 DEF f, k, d
<1>6. g \in [S -> T]
  BY <1>5
<1>7. ASSUME NEW x \in S, NEW y \in S, g[x] = g[y] PROVE x = y
  <2>1. frame(x[1], x[2]) = frame(y[1], y[2]) /\ (x[1] % Chunk) + 1 = (y[1] % Chunk) + 1
    BY <1>7
  <2>2. x[1] \in Nat /\ y[1] \in Nat
    OBVIOUS
  <2>3. x[2] = y[2] /\ Chunk * (x[1] \div Chunk) = Chunk * (y[1] \div Chunk)
    BY <2>1 DEF Frame
  <2>4. /\ x[1] = Chunk * (x[1] \div Chunk) + (x[1] % Chunk) /\ x[1] % Chunk \in 0..Chunk - 1
        /\ y[1] = Chunk * (y[1] \div Chunk) + (y[1] % Chunk) /\ y[1] % Chunk \in 0..Chunk - 1
    BY <1>1, <2>2, Quotient
  <2>5. x[1] % Chunk = y[1] % Chunk
    BY <1>1, <2>1, <2>4
  <2>6. x[1] = y[1]
    BY <2>3, <2>4, <2>5
  <2> QED BY <2>3, <2>6
<1>8. ASSUME NEW t \in T PROVE \E x \in S : g[x] = t
  <2>1. PICK f \in Below(s, pass), c \in Nat : t = <<f, c>> /\ c \in 1..Width(s, f)
    BY <1>3 DEF ColumnsOf
  <2>2. /\ f = Frame(pass, 0, f.offset, f.layer) /\ f.layer \in 0..Top(s) - 1
        /\ f.offset \in Offsets(s, 0) /\ f.offset \in 0..p - 1
    BY <1>1, FramesAre DEF Below, p
  <2>3. PICK k \in 0..n - 1 : f.offset = Chunk * k
    BY <1>2, <2>2
  <2>4. Chunk * k \in Nat /\ c \in 1..Lower(Chunk, p - Chunk * k)
    BY <1>1, <1>3, <2>1, <2>3
  <2> DEFINE i == Chunk * k + (c - 1)
  <2>5. c - 1 \in 0..Chunk - 1 /\ i \in 0..p - 1
    BY <1>1, <2>2, <2>3, <2>4 DEF Lower
  <2>6. i % Chunk = c - 1 /\ i \div Chunk = k
    <3>1. k \in Nat
      BY <1>1
    <3> QED BY <1>1, <2>5, <3>1, Division
  <2> HIDE DEF i
  <2>7. <<i, f.layer>> \in S /\ g[<<i, f.layer>>] = <<Frame(pass, 0, Chunk * k, f.layer), (c - 1) + 1>>
    BY <2>2, <2>5, <2>6
  <2>8. (c - 1) + 1 = c
    OBVIOUS
  <2> QED BY <2>1, <2>2, <2>3, <2>7, <2>8
<1> HIDE DEF S, T, g
<1>9. IsFiniteSet(T) /\ Cardinality(T) = Cardinality(S)
  BY <1>4, <1>6, <1>7, <1>8, AsMany
<1> QED BY <1>4, <1>9 DEF T, p

\* Everywhere else a frame has one column.
LEMMA NarrowColumns ==
    ASSUME NEW s, NEW frames, IsFiniteSet(frames), \A f \in frames : Width(s, f) = 1
    PROVE  /\ IsFiniteSet(ColumnsOf(s, frames))
           /\ Cardinality(ColumnsOf(s, frames)) = Cardinality(frames)
<1> DEFINE g == [f \in frames |-> <<f, 1>>]
<1>1. ColumnsOf(s, frames) = {<<f, 1>> : f \in frames}
  BY DEF ColumnsOf
<1>2. g \in [frames -> ColumnsOf(s, frames)] /\ \A t \in ColumnsOf(s, frames) : \E f \in frames : g[f] = t
  BY <1>1
<1>3. \A x, y \in frames : g[x] = g[y] => x = y
  OBVIOUS
<1> HIDE DEF g
<1> QED BY <1>2, <1>3, AsMany

LEMMA ColumnsCounted ==
    ASSUME NEW s \in Shapes, NEW pass \in {1, 2}
    PROVE  Cardinality(Columns(s, pass)) = s.prompt * Top(s) + 1 + (Steps(s, pass) - 1) * s.layers
<1> DEFINE A == AtTop(s, pass)
           L == Later(s, pass)
           B == ColumnsOf(s, Below(s, pass))
           N == ColumnsOf(s, A \cup L)
<1>1. LayerFrames(s, pass) = Below(s, pass) \cup (A \cup L) /\ Below(s, pass) \cap (A \cup L) = {} /\ A \cap L = {}
  BY DEF Below, AtTop, Later
<1>2. Columns(s, pass) = B \cup N
  BY <1>1 DEF Columns, ColumnsOf
<1>3. B \cap N = {}
  BY <1>1 DEF ColumnsOf
<1>4. \A f \in A \cup L : Width(s, f) = 1
  BY DEF Width, AtTop, Later, Top
<1>5. IsFiniteSet(A) /\ IsFiniteSet(L)
  BY TopCounted, LaterCounted
<1>6. IsFiniteSet(A \cup L) /\ Cardinality(A \cup L) = Cardinality(A) + Cardinality(L) - Cardinality({})
  BY <1>1, <1>5, FS_Union
<1>7. IsFiniteSet(N) /\ Cardinality(N) = Cardinality(A \cup L)
  BY <1>4, <1>6, NarrowColumns
<1>8. IsFiniteSet(B) /\ Cardinality(B) = s.prompt * Top(s)
  BY BelowColumns
<1>9. Cardinality(A) = 1 /\ Cardinality(L) = (Steps(s, pass) - 1) * s.layers
  BY TopCounted, LaterCounted
<1> HIDE DEF A, B, L, N
<1>10. Cardinality(B \cup N) = Cardinality(B) + Cardinality(N) - Cardinality({})
  BY <1>3, <1>7, <1>8, FS_Union
<1>11. Cardinality(B) \in Nat /\ Cardinality(A) \in Nat /\ Cardinality(L) \in Nat /\ Cardinality({}) = 0
  BY <1>5, <1>8, FS_CardinalityType, FS_EmptySet
<1>12. Cardinality(B \cup N) = Cardinality(B) + Cardinality(A) + Cardinality(L)
  BY <1>6, <1>7, <1>10, <1>11
<1> QED BY <1>2, <1>8, <1>9, <1>11, <1>12

LEMMA LogitsCounted ==
    ASSUME NEW s \in Shapes
    PROVE  Cardinality(LogitFrames(s)) = 2 * s.positions + s.forced + 1
<1> DEFINE row(pass, m) == {<<pass, n>> : n \in 1..m}
<1>1. ASSUME NEW pass \in 0..2, NEW m \in Nat
      PROVE  IsFiniteSet(row(pass, m)) /\ Cardinality(row(pass, m)) = m
  <2> DEFINE g == [n \in 1..m |-> <<pass, n>>]
  <2>1. IsFiniteSet(1..m) /\ Cardinality(1..m) = m
    BY FS_Interval
  <2>2. /\ g \in [1..m -> row(pass, m)] /\ \A t \in row(pass, m) : \E n \in 1..m : g[n] = t
        /\ \A x, y \in 1..m : g[x] = g[y] => x = y
    OBVIOUS
  <2> HIDE DEF g
  <2> QED BY <2>1, <2>2, AsMany
<1> DEFINE Q == row(0, s.positions)
           R == row(1, s.positions)
           F == row(2, s.forced + 1)
<1>2. LogitFrames(s) = Q \cup (R \cup F)
  <2>1. Steps(s, 1) = s.positions /\ Steps(s, 2) = s.forced + 1
    BY DEF Steps
  <2> QED BY <2>1 DEF LogitFrames
<1>3. Q \cap (R \cup F) = {} /\ R \cap F = {}
  OBVIOUS
<1>4. s.positions \in Nat /\ s.forced \in Nat /\ s.forced + 1 \in Nat
  BY ShapeIsNatural
<1> HIDE DEF row
<1>5. /\ IsFiniteSet(Q) /\ Cardinality(Q) = s.positions
      /\ IsFiniteSet(R) /\ Cardinality(R) = s.positions
      /\ IsFiniteSet(F) /\ Cardinality(F) = s.forced + 1
  BY <1>1, <1>4
<1> HIDE DEF Q, R, F
<1>6. IsFiniteSet(R \cup F) /\ Cardinality(R \cup F) = Cardinality(R) + Cardinality(F) - Cardinality({})
  BY <1>3, <1>5, FS_Union
<1>7. Cardinality(Q \cup (R \cup F)) = Cardinality(Q) + Cardinality(R \cup F) - Cardinality({})
  BY <1>3, <1>5, <1>6, FS_Union
<1> QED BY <1>2, <1>4, <1>5, <1>6, <1>7, FS_EmptySet

\* The closed forms that the counts of the readers, the size of a stream and the
\* device's work are compared with are those of the sequence of frames, for every
\* geometry (gpu_qualification_traversal.py says it twice).
THEOREM ClosedFormsCount == CountsAgree
<1>1. SUFFICES ASSUME NEW s \in Shapes
               PROVE  CompareAdmits(s) /\ ReportAdmits(s) /\ StreamAdmits(s) /\ WorkAdmits(s)
  BY DEF CountsAgree
<1> DEFINE n == prefill_chunks(s)
           t == Top(s)
<1>2. /\ s.layers \in Nat /\ s.prompt \in Nat /\ s.positions \in Nat /\ s.forced \in Nat
      /\ s.vocabulary \in Nat /\ s.embedding \in Nat /\ s.experts \in Nat /\ s.selected \in Nat
      /\ n \in Nat /\ t \in Nat /\ s.layers = t + 1
  BY ShapeIsNatural, ChunkOffsets DEF Top
<1>3. Steps(s, 1) = s.positions /\ Steps(s, 2) = s.forced + 1
  BY DEF Steps
<1>4. /\ Cardinality(LayerFrames(s, 1)) = n * t + 1 + (s.positions - 1) * s.layers
      /\ Cardinality(LayerFrames(s, 2)) = n * t + 1 + s.forced * s.layers
  BY <1>2, <1>3, FramesCounted
<1>5. /\ Cardinality(Columns(s, 1)) = s.prompt * t + 1 + (s.positions - 1) * s.layers
      /\ Cardinality(Columns(s, 2)) = s.prompt * t + 1 + s.forced * s.layers
  BY <1>2, <1>3, ColumnsCounted
<1>6. layer_count(s) = pair_layer_count(s)
  <2>1. pair_layer_count(s) = Cardinality(LayerFrames(s, 1)) + Cardinality(LayerFrames(s, 2))
    BY DEF pair_layer_count, Both
  <2>2. layer_count(s) = 2 * (t * n + 1) + s.layers * (s.positions - 1 + s.forced)
    BY DEF layer_count, Top
  <2>3. s.layers * (s.positions - 1 + s.forced) = (s.positions - 1) * s.layers + s.forced * s.layers
    BY <1>2
  <2>4. (s.positions - 1) * s.layers \in Int /\ s.forced * s.layers \in Int /\ t * n \in Int /\ t * n = n * t
    BY <1>2
  <2> QED BY <1>4, <2>1, <2>2, <2>3, <2>4
<1>7. columns(s) = pair_columns(s)
  <2>1. pair_columns(s) = Cardinality(Columns(s, 1)) + Cardinality(Columns(s, 2))
    BY DEF pair_columns, Both
  <2>2. columns(s) = 2 * (t * s.prompt + 1) + (s.positions - 1 + s.forced) * s.layers
    BY DEF columns, Top
  <2> HIDE DEF n, t
  <2> QED BY <1>2, <1>5, <2>1, <2>2
<1>8. router_count(s) = pair_boundary_count(s)
  BY <1>7 DEF router_count, pair_boundary_count
<1>9. Cardinality(LogitFrames(s)) = 2 * s.positions + s.forced + 1
  BY LogitsCounted
<1>10. final_count(s) = pair_final_logit_count(s)
  BY <1>9 DEF final_count, pair_final_logit_count
<1>11. scalar_count(s) = pair_scalar_count(s)
  BY <1>7, <1>8, <1>10 DEF scalar_count, pair_scalar_count
<1>12. layer_count(s) \in Int /\ columns(s) \in Int /\ router_count(s) \in Int /\ final_count(s) \in Int
  <2>1. layer_count(s) \in Int /\ columns(s) \in Int
    <3> HIDE DEF n, t
    <3>1. layer_count(s) = 2 * (t * n + 1) + s.layers * (s.positions - 1 + s.forced)
      BY DEF layer_count, Top, n, t
    <3>2. columns(s) = 2 * (t * s.prompt + 1) + (s.positions - 1 + s.forced) * s.layers
      BY DEF columns, Top, t
    <3> QED BY <1>2, <3>1, <3>2
  <2>2. router_count(s) \in Int
    BY <2>1 DEF router_count
  <2>3. final_count(s) \in Int
    BY <1>2 DEF final_count
  <2> QED BY <2>1, <2>2, <2>3
<1>13. frame_count(s) = stream_records(s) /\ frame_count(s) \in Int
  BY <1>2, <1>6, <1>8, <1>9, <1>12 DEF frame_count, stream_records
<1>14. maximum_bytes(s) = consumed_bytes(s)
  <2>1. scalar_count(s) + s.selected * router_count(s) = payload_values(s)
    <3>1. /\ scalar_count(s) = s.embedding * columns(s) + final_count(s) + (s.experts + s.selected) * router_count(s)
          /\ payload_values(s) = s.embedding * columns(s) + (s.experts + 2 * s.selected) * router_count(s) + final_count(s)
      BY <1>7, <1>8, <1>10 DEF scalar_count, payload_values
    <3> DEFINE e == s.embedding * columns(s)
    <3>2. e \in Int
      BY <1>2, <1>12
    <3>3. (s.experts + 2 * s.selected) * router_count(s) = (s.experts + s.selected) * router_count(s) + s.selected * router_count(s)
      BY <1>2, <1>12
    <3>4. (s.experts + s.selected) * router_count(s) \in Int /\ s.selected * router_count(s) \in Int
      BY <1>2, <1>12
    <3> HIDE DEF e
    <3> QED BY <1>12, <3>1, <3>2, <3>3, <3>4 DEF e
  <2> QED BY <1>13, <2>1 DEF maximum_bytes, consumed_bytes
<1>15. work_layers(s) = Cardinality(LayerFrames(s, 1))
  <2>1. work_layers(s) = s.layers * s.positions + t * (n - 1)
    BY DEF work_layers, Top
  <2> HIDE DEF n, t
  <2>2. s.layers * s.positions = (s.positions - 1) * s.layers + t + 1 /\ t * (n - 1) = n * t - t
    BY <1>2
  <2>3. (s.positions - 1) * s.layers \in Int /\ n * t \in Int
    BY <1>2
  <2> QED BY <1>2, <1>4, <2>1, <2>2, <2>3
<1>16. work_experts(s) = s.selected * Cardinality(Columns(s, 1))
  <2>1. work_experts(s) = s.selected * (t * s.prompt + 1 + s.layers * (s.positions - 1))
    BY DEF work_experts, Top
  <2>2. t * s.prompt + 1 + s.layers * (s.positions - 1) = s.prompt * t + 1 + (s.positions - 1) * s.layers
    BY <1>2
  <2> QED BY <1>5, <2>1, <2>2
<1> QED BY <1>6, <1>8, <1>10, <1>11, <1>13, <1>14, <1>15, <1>16
      DEF CompareAdmits, ReportAdmits, StreamAdmits, WorkAdmits

----------------------------------------------------------------------------
\* That the evidence of a run can be published (ResultIsPublishable).

Early == {"admit", "open", "stage_backend"}

\* The causes of rows.
CaseCauses ==
    {NoCause, Unreported, Nonfinite, Cause("ALLOCATION", "allocate"), Cause("COMPUTE", "readback"),
     Cause("PROCESS", "qualifier_cleanup"), Cause("DEVICE_UNAVAILABLE", "device"), Cause("PROCESS", "readback")}

\* The preparation is complete, or stopped at the command that the cause names.
Prepared == commands = Preparations /\ identities = 0..Preparations - 1
Blames(cause) == \E k \in 0..Preparations - 1 : cause.stage = PreparationStage(k)
StoppedAt(k) ==
    /\ commands \in {k, k + 1} /\ identities = 0..k - 1 /\ rows = <<>>
    /\ record.ordinal = -1 /\ record.cause.stage = PreparationStage(k)
PreparedInv ==
    /\ at \in Early => commands = 0
    /\ at \in Early \cup {"prepare"} =>
        commands \in 0..Preparations - 1 /\ identities = 0..commands - 1 /\ record = NoRecord
    /\ at = "plan" => Prepared /\ record = NoRecord
    /\ at \in InCases \cup AfterCases => Prepared /\ ~Blames(record.cause)
    /\ at \in After =>
        \/ Prepared /\ ~Blames(record.cause)
        \/ record.status = "FAIL" /\ \E k \in 0..Preparations - 1 : StoppedAt(k)

\* What is retained is what the evidence will need, and there is room for it.
FilesInv ==
    /\ standard \in Nat
    /\ at \notin Early => Projected(standard) <= FileLimit /\ kept_files = Roles(Evidence)

\* Every row is one that the reader admits, those of the accepted cases passed.
RowsInv ==
    /\ \A n \in 1..Len(rows) : ValidCase(rows[n], n - 1) /\ rows[n].cause \in CaseCauses
    /\ accepted <= Len(rows) /\ Len(rows) <= Cases
    /\ accepted = Cases => Len(rows) = Cases
    /\ \A n \in 1..accepted : rows[n].terminal = "PASS"

\* A verdict that passes claims nothing that is not so, one that does not says why.
ClaimInv ==
    /\ at \in InCases \cup AfterCases => record.ordinal = -1 /\ record.safe /\ record.source /\ record.inputs
    /\ at \in InCases \/ (at \in AfterCases /\ accepted = Cases) => ~record.descendants
    /\ at \in After => record.aggregate = Aggregate(rows)
    /\ at \in After /\ record.status = "PASS" =>
        /\ Prepared /\ record.cause = NoCause /\ record.ordinal = -1
        /\ record.safe /\ record.source /\ record.inputs /\ ~record.descendants
    /\ at \in {"stage", "publish"} /\ record.status = "PASS" => record.owned
    /\ at \in After /\ record.status = "FAIL" => CauseKnown(record.cause) /\ record.ordinal \in -1..Cases - 1

\* A run in which nothing went wrong is on its way to pass.
FaultlessInv ==
    ~faults =>
        /\ \A f \in Tracked \ todo : SameFile(f)
        /\ ~broke
        /\ at = "accept" => child = CleanPass
        /\ at \in AfterCases => accepted = Cases
        /\ at \in After => record.status = "PASS"

ReadyInv == PreparedInv /\ FilesInv /\ RowsInv /\ ClaimInv /\ FaultlessInv

EvidenceInv ==
    /\ who = "qualifier" /\ outcome = "running" => ReadyInv
    /\ who = "qualifier" /\ outcome # "running" => ResultIsPublishable
    /\ who # "qualifier" => at = "admit"

----------------------------------------------------------------------------
\* The stages of the preparation are five, and no cause of a case is among them.
LEMMA StagesDiffer ==
    /\ Preparations = 5
    /\ \A j, k \in 0..Preparations - 1 : PreparationStage(j) = PreparationStage(k) => j = k
    /\ \A k \in 0..Preparations - 1 : PreparationStage(k) \in FAILURE_STAGES
    /\ \A k \in 0..Preparations - 1 :
        PreparationStage(k) \notin {"", "readback", "case_spawn", "allocate", "qualifier_cleanup", "device", "source", "plan"}
<1>1. Preparations = 5
  BY DEF Preparations, PreparationStages
<1>2. /\ PreparationStage(0) = "compiler" /\ PreparationStage(1) = "runtime" /\ PreparationStage(2) = "shim_build"
      /\ PreparationStage(3) = "candidate_build" /\ PreparationStage(4) = "cpu_reference_build"
  BY DEF PreparationStage, PreparationStages
<1>3. \A k \in 0..Preparations - 1 : k \in {0, 1, 2, 3, 4}
  BY <1>1
<1>4. \A j, k \in 0..Preparations - 1 : PreparationStage(j) = PreparationStage(k) => j = k
  BY <1>2, <1>3
<1>5. \A k \in 0..Preparations - 1 : PreparationStage(k) \in FAILURE_STAGES
  <2>1. \A k \in 0..Preparations - 1 : k + 1 \in 1..Preparations
    BY <1>1
  <2> QED BY <2>1 DEF PreparationStage, FAILURE_STAGES
<1>6. \A k \in 0..Preparations - 1 :
        PreparationStage(k) \notin {"", "readback", "case_spawn", "allocate", "qualifier_cleanup", "device", "source", "plan"}
  BY <1>2, <1>3
<1> QED BY <1>1, <1>4, <1>5, <1>6

LEMMA CausesOfCases ==
    /\ \A c \in CaseCauses : ~Blames(c) /\ (c # NoCause => CauseKnown(c))
    /\ \A category \in {"SOURCE_IDENTITY", "CONFIG", "CLEANUP"}, stage \in {"source", "qualifier_cleanup", "plan"} :
        ~Blames(Cause(category, stage)) /\ CauseKnown(Cause(category, stage))
    /\ ~Blames(NoRecord.cause)
<1>1. \A c \in CaseCauses :
        c.stage \in {"", "readback", "case_spawn", "allocate", "qualifier_cleanup", "device", "source", "plan"}
  <2>1. /\ NoCause.stage = "" /\ Unreported.stage = "case_spawn" /\ Nonfinite.stage = "readback"
        /\ Cause("ALLOCATION", "allocate").stage = "allocate" /\ Cause("COMPUTE", "readback").stage = "readback"
    BY DEF Cause, NoCause, Unreported, Nonfinite
  <2>2. /\ Cause("PROCESS", "qualifier_cleanup").stage = "qualifier_cleanup"
        /\ Cause("DEVICE_UNAVAILABLE", "device").stage = "device" /\ Cause("PROCESS", "readback").stage = "readback"
    BY DEF Cause
  <2> QED BY <2>1, <2>2, Zenon DEF CaseCauses
<1>2. \A c \in CaseCauses : c # NoCause => CauseKnown(c)
  BY DEF CaseCauses, Unreported, Nonfinite, Cause, CauseKnown, FAILURE_CATEGORIES, FAILURE_STAGES
<1>3. \A category \in {"SOURCE_IDENTITY", "CONFIG", "CLEANUP"}, stage \in {"source", "qualifier_cleanup", "plan"} :
        /\ Cause(category, stage).stage \in {"", "readback", "case_spawn", "allocate", "qualifier_cleanup", "device", "source", "plan"}
        /\ CauseKnown(Cause(category, stage))
  BY DEF Cause, CauseKnown, FAILURE_CATEGORIES, FAILURE_STAGES
<1>4. NoRecord.cause.stage = ""
  BY DEF NoRecord, NoCause, Cause
<1> QED BY <1>1, <1>2, <1>3, <1>4, StagesDiffer DEF Blames

\* The files of the evidence, in parts.
Artifacts == {<<"artifact", k>> : k \in identities}
Blamed ==
    {j \in 0..Preparations - 1 :
        record.status = "FAIL" /\ record.ordinal = -1 /\ record.cause.stage = PreparationStage(j) /\ commands = j + 1}
Logs == {<<"logs", k>> : k \in Blamed}
Inputs == {<<"case", n - 1>> : n \in {m \in 1..Len(rows) : rows[m].spawned}}
Parts == {<<"qualifier", 0>>} \cup Artifacts \cup Logs \cup Inputs

LEMMA RolesHere == Roles(Evidence) = Parts /\ Roles(Evidence)' = Parts'
BY DEF Roles, Evidence, Parts, Artifacts, Blamed, Logs, Inputs

LEMMA Tagged ==
    ASSUME NEW tag, NEW n \in Nat
    PROVE  /\ IsFiniteSet({<<tag, k>> : k \in 0..n - 1})
           /\ Cardinality({<<tag, k>> : k \in 0..n - 1}) = n
<1> DEFINE S == 0..n - 1
           T == {<<tag, k>> : k \in S}
           f == [k \in S |-> <<tag, k>>]
<1>1. IsFiniteSet(S) /\ Cardinality(S) = n
  BY FS_Interval
<1>2. f \in [S -> T] /\ (\A x, y \in S : f[x] = f[y] => x = y) /\ (\A t \in T : \E x \in S : f[x] = t)
  OBVIOUS
<1> HIDE DEF S, T, f
<1>3. IsFiniteSet(T) /\ Cardinality(T) = Cardinality(S)
  BY <1>1, <1>2, AsMany
<1> QED BY <1>1, <1>3 DEF S, T

\* There is room for whatever a run comes to keep.
LEMMA RoomForAll ==
    ASSUME identities \subseteq 0..Preparations - 1, commands \in Nat, Len(rows) \in Nat, Len(rows) <= Cases,
           standard \in Nat, Projected(standard) <= FileLimit, kept_files = Parts
    PROVE  CountAdmitted(standard, kept_files)
<1> DEFINE A == {<<"artifact", k>> : k \in 0..Preparations - 1}
           C == {<<"case", k>> : k \in 0..Cases - 1}
           L == {<<"logs", commands - 1>>}
           Q == {<<"qualifier", 0>>}
<1>1. Cases \in Nat /\ Preparations = 5 /\ Preparations \in Nat
  BY QualKinds, StagesDiffer
<1>2. IsFiniteSet(A) /\ Cardinality(A) = Preparations
  BY <1>1, Tagged
<1>3. IsFiniteSet(C) /\ Cardinality(C) = Cases
  BY <1>1, Tagged
<1>4. IsFiniteSet(L) /\ Cardinality(L) = 1 /\ IsFiniteSet(Q) /\ Cardinality(Q) = 1
  BY FS_Singleton
<1>5. Artifacts \subseteq A
  BY DEF Artifacts
<1>6. Logs \subseteq L
  BY <1>1 DEF Logs, Blamed
<1>7. Inputs \subseteq C
  BY <1>1 DEF Inputs
<1>8. OfKind(kept_files, "logs") \subseteq Logs
  BY DEF OfKind, Parts, Artifacts, Logs, Inputs
<1>9. OfKind(kept_files, "case") \subseteq Inputs
  BY DEF OfKind, Parts, Artifacts, Logs, Inputs
<1> HIDE DEF A, C, L, Q
<1>10. IsFiniteSet(Q \cup A) /\ Cardinality(Q \cup A) <= 1 + Preparations /\ Cardinality(Q \cup A) \in Nat
  <2>1. IsFiniteSet(Q \cup A) /\ Cardinality(Q \cup A) = Cardinality(Q) + Cardinality(A) - Cardinality(Q \cap A)
    BY <1>2, <1>4, FS_Union
  <2>2. Cardinality(Q \cap A) \in Nat /\ Cardinality(Q \cup A) \in Nat
    BY <2>1, <1>2, FS_Subset, FS_CardinalityType
  <2> QED BY <1>1, <1>2, <1>4, <2>1, <2>2
<1>11. IsFiniteSet(L \cup C) /\ Cardinality(L \cup C) <= 1 + Cases /\ Cardinality(L \cup C) \in Nat
  <2>1. IsFiniteSet(L \cup C) /\ Cardinality(L \cup C) = Cardinality(L) + Cardinality(C) - Cardinality(L \cap C)
    BY <1>3, <1>4, FS_Union
  <2>2. Cardinality(L \cap C) \in Nat /\ Cardinality(L \cup C) \in Nat
    BY <2>1, <1>3, FS_Subset, FS_CardinalityType
  <2> QED BY <1>1, <1>3, <1>4, <2>1, <2>2
<1> DEFINE X == Q \cup A
           Y == L \cup C
<1>12. IsFiniteSet(X \cup Y) /\ Cardinality(X \cup Y) <= 2 + Preparations + Cases /\ Cardinality(X \cup Y) \in Nat
  <2>0. /\ IsFiniteSet(X) /\ Cardinality(X) \in Nat /\ Cardinality(X) <= 1 + Preparations
        /\ IsFiniteSet(Y) /\ Cardinality(Y) \in Nat /\ Cardinality(Y) <= 1 + Cases
    BY <1>10, <1>11
  <2> HIDE DEF X, Y
  <2>1. IsFiniteSet(X \cup Y) /\ Cardinality(X \cup Y) = Cardinality(X) + Cardinality(Y) - Cardinality(X \cap Y)
    BY <2>0, FS_Union
  <2>2. Cardinality(X \cap Y) \in Nat /\ Cardinality(X \cup Y) \in Nat
    BY <2>0, <2>1, FS_Subset, FS_CardinalityType
  <2> QED BY <1>1, <2>0, <2>1, <2>2
<1>13. kept_files \subseteq X \cup Y
  BY <1>5, <1>6, <1>7 DEF Parts, Q
<1> HIDE DEF X, Y
<1>14. Cardinality(kept_files) \in Nat /\ Cardinality(kept_files) <= 2 + Preparations + Cases
  <2>1. IsFiniteSet(kept_files) /\ Cardinality(kept_files) <= Cardinality(X \cup Y)
    BY <1>12, <1>13, FS_Subset
  <2>2. Cardinality(kept_files) \in Nat
    BY <2>1, FS_CardinalityType
  <2> QED BY <1>1, <1>12, <2>1, <2>2
<1>15. Cardinality(OfKind(kept_files, "logs")) \in Nat /\ Cardinality(OfKind(kept_files, "logs")) <= 1
  <2>1. OfKind(kept_files, "logs") \subseteq L
    BY <1>6, <1>8
  <2>2. IsFiniteSet(OfKind(kept_files, "logs")) /\ Cardinality(OfKind(kept_files, "logs")) <= Cardinality(L)
    BY <1>4, <2>1, FS_Subset
  <2>3. Cardinality(OfKind(kept_files, "logs")) \in Nat
    BY <2>2, FS_CardinalityType
  <2> QED BY <1>4, <2>2, <2>3
<1>16. Cardinality(OfKind(kept_files, "case")) \in Nat /\ Cardinality(OfKind(kept_files, "case")) <= Cases
  <2>1. OfKind(kept_files, "case") \subseteq C
    BY <1>7, <1>9
  <2>2. IsFiniteSet(OfKind(kept_files, "case")) /\ Cardinality(OfKind(kept_files, "case")) <= Cardinality(C)
    BY <1>3, <2>1, FS_Subset
  <2>3. Cardinality(OfKind(kept_files, "case")) \in Nat
    BY <2>2, FS_CardinalityType
  <2> QED BY <1>3, <2>2, <2>3
<1>17. FileLimit \in Nat
  BY LimitAssumption
<1> DEFINE n == Cardinality(kept_files)
           l == Cardinality(OfKind(kept_files, "logs"))
           c == Cardinality(OfKind(kept_files, "case"))
<1>18. CountAdmitted(standard, kept_files) <=> standard + (n + l + 2 * c) + 1 <= FileLimit
  BY DEF CountAdmitted, FileCount
<1>19. standard + 1 + Preparations + 2 + 3 * Cases + 1 <= FileLimit
  BY DEF Projected
<1> HIDE DEF n, l, c
<1> QED BY <1>1, <1>14, <1>15, <1>16, <1>17, <1>18, <1>19 DEF n, l, c

\* A row that failed for a reason of its own is admitted like the one that passed.
LEMMA FailedRowIsValid ==
    ASSUME NEW row \in Row, NEW n \in Nat, ValidCase(row, n), row.terminal = "PASS", NEW cause, CauseKnown(cause)
    PROVE  /\ ValidCase([row EXCEPT !.terminal = "FAIL", !.cause = cause], n)
           /\ [row EXCEPT !.terminal = "FAIL", !.cause = cause].cause = cause
           /\ [row EXCEPT !.terminal = "FAIL", !.cause = cause].spawned = row.spawned
<1> DEFINE f == [row EXCEPT !.terminal = "FAIL", !.cause = cause]
<1>1. /\ f.terminal = "FAIL" /\ f.cause = cause /\ f.spawned = row.spawned /\ f.exit = row.exit /\ f.signal = row.signal
      /\ f.output = row.output /\ f.nonfinite = row.nonfinite /\ f.numeric = row.numeric /\ f.placement = row.placement
  BY DEF Row
<1>2. row.exit = "zero" /\ ~row.signal /\ row.spawned
  BY DEF ValidCase, ExitAdmitted, ChildAdmitted
<1>3. NumericAdmitted(row, n)
  BY DEF ValidCase
<1> HIDE DEF f
<1>4. ExitAdmitted(f)
  BY <1>1, <1>2 DEF ExitAdmitted
<1>5. CauseAdmitted(f) /\ ChildAdmitted(f)
  BY <1>1, <1>2 DEF CauseAdmitted, ChildAdmitted, Row
<1>6. OutputAdmitted(f) /\ NumericAdmitted(f, n) /\ PlacementAdmitted(f, n)
  BY <1>1, <1>3 DEF OutputAdmitted, NumericAdmitted, PlacementAdmitted
<1>7. ValidCase(f, n)
  BY <1>4, <1>5, <1>6 DEF ValidCase
<1> QED BY <1>1, <1>7 DEF f

LEMMA AssembledFields ==
    ASSUME NEW c \in Children \cup {NoChild}, NEW o \in OutcomesSet, NEW n \in Nat
    PROVE  /\ Assembled(c, o, n).cause \in CaseCauses
           /\ Assembled(c, o, n).spawned <=> c # NoChild
           /\ Assembled(c, o, n).terminal = "PASS" => c.state = "clean"
<1>1. o.report \in CaseCauses /\ Cause("PROCESS", "qualifier_cleanup") \in CaseCauses
      /\ Cause("COMPUTE", "readback") \in CaseCauses /\ NoCause \in CaseCauses
  BY DEF OutcomesSet, CaseCauses
<1>2. ReasonOf(c, o) \in CaseCauses
  BY <1>1 DEF ReasonOf
<1>3. Assembled(c, o, n).cause = IF Unclean(c, o) THEN Cause("PROCESS", "qualifier_cleanup") ELSE ReasonOf(c, o)
  BY DEF Assembled
<1>4. Assembled(c, o, n).spawned <=> c # NoChild
  BY DEF Assembled
<1>5. Assembled(c, o, n).terminal = IF Unclean(c, o) THEN "FAIL" ELSE Terminal(c, o)
  BY DEF Assembled
<1>6. Assembled(c, o, n).terminal = "PASS" => c.state = "clean"
  BY <1>5 DEF Unclean
<1> QED BY <1>1, <1>2, <1>3, <1>4, <1>6

\* The row that is added for a case without one.
LEMMA MissingRowIsValid ==
    ASSUME NEW c \in Children \cup {NoChild}, NEW n \in Nat
    PROVE  /\ NoOutcome \in OutcomesSet
           /\ ValidCase(Assembled(c, NoOutcome, n), n)
           /\ Assembled(c, NoOutcome, n).terminal # "PASS"
<1> DEFINE row == Assembled(c, NoOutcome, n)
<1>1. /\ ~NoOutcome.native /\ ~NoOutcome.compared /\ ~NoOutcome.accepted /\ NoOutcome.report = Unreported
      /\ NoOutcome.mismatches = 0 /\ NoOutcome.operations = 0 /\ NoOutcome.memory = "within"
  BY DEF NoOutcome, Outcome, Compared
<1>2. NoOutcome \in OutcomesSet
  <2>1. Outcome("unreadable", 0, 0, "within", Unreported) \in OutcomesSet
    BY DEF Outcome, OutcomesSet, Compared, PlannedWork
  <2> QED BY <2>1 DEF NoOutcome
<1>3. c.terminal \in {"none", "PASS", "FAIL", "TIMEOUT", "SIGNAL"} /\ (c = NoChild <=> c.terminal = "none")
  BY DEF Children, NoChild
<1>4. Terminal(c, NoOutcome) = IF c = NoChild \/ c.terminal = "PASS" THEN "FAIL" ELSE c.terminal
  BY <1>1 DEF Terminal
<1>5. ~Unclean(c, NoOutcome)
  BY <1>3, <1>4 DEF Unclean
<1>6. ReasonOf(c, NoOutcome) \in {Unreported, Cause("COMPUTE", "readback")}
  BY <1>1 DEF ReasonOf
<1>7. CauseKnown(Unreported) /\ CauseKnown(Cause("COMPUTE", "readback"))
  BY DEF Unreported, Cause, CauseKnown, FAILURE_CATEGORIES, FAILURE_STAGES
<1>8. /\ row.terminal = Terminal(c, NoOutcome) /\ row.cause = ReasonOf(c, NoOutcome)
      /\ row.spawned = (c # NoChild) /\ row.exit = Exit(c) /\ row.signal = (c.terminal = "SIGNAL")
      /\ row.numeric = [compared |-> FALSE, expected |-> 0, actual |-> 0, mismatches |-> 0]
  BY <1>1, <1>5 DEF Assembled
<1> HIDE DEF row
<1>9. row.terminal # "PASS"
  BY <1>3, <1>4, <1>8
<1>10. ExitAdmitted(row)
  BY <1>3, <1>4, <1>8 DEF ExitAdmitted, Exit
<1>11. CauseAdmitted(row)
  BY <1>6, <1>7, <1>8, <1>9 DEF CauseAdmitted
<1>12. ChildAdmitted(row)
  BY <1>3, <1>4, <1>8 DEF ChildAdmitted, Exit
<1>13. OutputAdmitted(row) /\ NumericAdmitted(row, n) /\ PlacementAdmitted(row, n)
  BY <1>8, <1>9 DEF OutputAdmitted, NumericAdmitted, PlacementAdmitted
<1>14. ValidCase(row, n)
  BY <1>10, <1>11, <1>12, <1>13 DEF ValidCase
<1> QED BY <1>2, <1>9, <1>14 DEF row

\* What a run has ready is what its reader will ask for.
LEMMA ReadyIsPublishable ==
    ASSUME RunInv, ReadyInv PROVE ResultIsPublishable
<1>1. /\ Len(rows) \in Nat /\ rows \in Seq(Row) /\ Len(rows) <= Cases /\ commands \in Nat /\ record \in Records
      /\ Cases \in Nat /\ Cases > 1 /\ Preparations = 5
      /\ record.status \in {"PASS", "FAIL"}
  <2>1. rows \in Seq(Row) /\ commands \in Nat /\ record \in Records
    BY DEF RunInv, QualTypes
  <2>2. Len(rows) <= Cases
    BY DEF ReadyInv, RowsInv
  <2>3. record.status \in {"PASS", "FAIL"}
    BY <2>1 DEF Records
  <2>4. Len(rows) \in Nat
    BY <2>1
  <2>5. Cases \in Nat /\ Cases > 1 /\ Preparations = 5
    BY QualKinds, StagesDiffer
  <2> QED BY <2>1, <2>2, <2>3, <2>4, <2>5
<1>2. SUFFICES ASSUME at \in {"verify", "stage"}
               PROVE  /\ at = "stage" /\ KeptToBudget => Replays(Evidence, kept_files)
                      /\ CountAdmitted(standard, kept_files)
                      /\ at = "stage" /\ ~faults => record.status = "PASS"
  BY DEF ResultIsPublishable
<1>3. /\ (Prepared /\ ~Blames(record.cause)) \/ (record.status = "FAIL" /\ \E k \in 0..Preparations - 1 : StoppedAt(k))
      /\ standard \in Nat /\ Projected(standard) <= FileLimit /\ kept_files = Roles(Evidence) /\ kept_files = Parts
      /\ record.aggregate = Aggregate(rows)
  BY <1>2, RolesHere DEF ReadyInv, PreparedInv, FilesInv, ClaimInv, After, Early
<1>4. commands \in 0..Preparations /\ identities \subseteq 0..Preparations - 1
  BY <1>1, <1>3 DEF Prepared, StoppedAt
<1>5. CountAdmitted(standard, kept_files)
  BY <1>1, <1>3, <1>4, RoomForAll
<1>6. at = "stage" /\ ~faults => record.status = "PASS"
  BY DEF ReadyInv, FaultlessInv, After
<1>7. ASSUME at = "stage", KeptToBudget PROVE Replays(Evidence, kept_files)
  <2> DEFINE e == Evidence
  <2>1. /\ e.status = record.status /\ e.cause = record.cause /\ e.ordinal = record.ordinal /\ e.device = record.device
        /\ e.aggregate = record.aggregate /\ e.owned = record.owned /\ e.safe = record.safe /\ e.source = record.source
        /\ e.inputs = record.inputs /\ e.descendants = record.descendants /\ e.commands = commands
        /\ e.identities = identities /\ e.rows = rows /\ e.files = kept_files /\ e.standard = standard
    BY DEF Evidence
  <2>2. kept_files = Roles(e)
    BY <1>3
  <2>3. /\ record.status = "PASS" =>
            /\ Prepared /\ record.cause = NoCause /\ record.ordinal = -1 /\ record.owned
            /\ record.safe /\ record.source /\ record.inputs /\ ~record.descendants
        /\ record.status = "FAIL" => CauseKnown(record.cause) /\ record.ordinal \in -1..Cases - 1
    BY <1>7 DEF ReadyInv, ClaimInv, After
  <2>4. record.status = "PASS" => record.device # "none" /\ Len(rows) = Cases /\ \A n \in 1..Cases : rows[n].terminal = "PASS"
    BY <1>1 DEF RunInv, VerdictInv, CasesInv, ReadyInv, RowsInv
  <2>5. \A k \in 0..Preparations - 1 : StoppedAt(k) =>
            \A j \in 0..Preparations - 1 : record.cause.stage = PreparationStage(j) => j = k
    BY StagesDiffer DEF StoppedAt
  <2> HIDE DEF e
  <2>6. DeviceAdmitted(e)
    BY <1>1, <2>1, <2>4 DEF DeviceAdmitted
  <2>7. PreparationAdmitted(e)
    <3>1. CASE Prepared
      BY <1>1, <2>1, <3>1 DEF PreparationAdmitted, Prepared
    <3>2. CASE record.status = "FAIL" /\ \E k \in 0..Preparations - 1 : StoppedAt(k)
      BY <1>1, <1>4, <2>1, <3>2 DEF PreparationAdmitted, StoppedAt
    <3> QED BY <1>3, <3>1, <3>2
  <2>8. RowsAdmitted(e)
    <3>1. ASSUME NEW n \in 1..Len(rows)
          PROVE  /\ ValidCase(rows[n], n - 1) /\ rows[n].memory = "within"
                 /\ rows[n].spawned => ExecutableBuilt(e, n - 1) /\ InputRetained(e, n - 1)
      <4>1. Prepared
        <5>1. rows # <<>>
          BY <1>1, <3>1
        <5> QED BY <1>3, <5>1 DEF StoppedAt
      <4>2. ExecutableBuilt(e, n - 1)
        BY <1>1, <2>1, <4>1 DEF ExecutableBuilt, Prepared
      <4>3. rows[n].spawned => <<"case", n - 1>> \in Parts
        BY <3>1 DEF Parts, Inputs
      <4>4. rows[n].spawned => InputRetained(e, n - 1)
        BY <1>3, <2>1, <4>3 DEF InputRetained
      <4> QED BY <1>7, <4>2, <4>4 DEF ReadyInv, RowsInv, KeptToBudget
    <3> QED BY <1>1, <2>1, <2>4, <3>1 DEF RowsAdmitted
  <2>9. AggregateAdmitted(e) /\ CleanupAdmitted(e)
    BY <1>3, <2>1, <2>3 DEF AggregateAdmitted, CleanupAdmitted
  <2>10. FailureAdmitted(e)
    <3>1. PreparationFailureAdmitted(e)
      BY <1>3, <2>1, <2>5 DEF PreparationFailureAdmitted, StoppedAt, Blames
    <3> QED BY <1>1, <2>1, <2>3, <3>1 DEF FailureAdmitted
  <2> QED BY <1>5, <2>1, <2>2, <2>6, <2>7, <2>8, <2>9, <2>10 DEF Replays, ValidEvidence, e
<1> QED BY <1>5, <1>6, <1>7

----------------------------------------------------------------------------
\* What each step does to it.

\* Until the preparation nothing is kept.
LEMMA EarlyReady ==
    ASSUME RunInv, ReadyInv, outcome' = "running", (\E f \in Tracked : AdmitsInput(f)) \/ Opens \/ StagesBackend
    PROVE  ReadyInv'
<1>1. /\ at \in Early /\ at' \in Early \cup {"prepare"}
      /\ UNCHANGED <<commands, identities, rows, accepted, child, broke, record, standard, faults>>
      /\ at' = "prepare" => Projected(standard) <= FileLimit /\ kept_files' = {<<"qualifier", 0>>}
  BY DEF AdmitsInput, Opens, StagesBackend, RaisesOut, Is, Early, prepVars, caseVars, historyVars
<1>2. rows = <<>> /\ commands = 0 /\ identities = {} /\ record = NoRecord /\ accepted = 0 /\ standard \in Nat
  <2>1. rows = <<>> /\ accepted = 0
    BY <1>1 DEF RunInv, CasesInv, Before, Early
  <2>2. commands = 0 /\ identities = 0..commands - 1 /\ record = NoRecord
    BY <1>1 DEF ReadyInv, PreparedInv, Early
  <2>3. standard \in Nat
    BY DEF ReadyInv, FilesInv
  <2> QED BY <2>1, <2>2, <2>3
<1>3. PreparedInv'
  BY <1>1, <1>2, StagesDiffer DEF PreparedInv, Early, InCases, AfterCases, After, ReadyInv
<1>4. FilesInv'
  <2>1. Artifacts' = {} /\ Inputs' = {} /\ Logs' = {}
    <3>1. ~Blames(NoRecord.cause)
      BY CausesOfCases
    <3>2. Blamed' = {}
      BY <1>1, <1>2, <3>1 DEF Blamed, Blames
    <3> QED BY <1>1, <1>2, <3>2 DEF Artifacts, Inputs, Logs
  <2>2. at' \notin Early => kept_files' = Parts'
    BY <1>1, <2>1 DEF Parts
  <2>3. at' \notin Early => Projected(standard') <= FileLimit
    BY <1>1 DEF Projected
  <2> QED BY <1>1, <1>2, <2>2, <2>3, RolesHere DEF FilesInv
<1>5. RowsInv'
  BY <1>1 DEF ReadyInv, RowsInv
<1>6. ClaimInv'
  BY <1>1 DEF ClaimInv, Early, InCases, AfterCases, After
<1>7. FaultlessInv'
  <2>1. ~faults => \A f \in Tracked \ todo' : SameFile(f)'
    <3>1. CASE \E f \in Tracked : AdmitsInput(f)
      <4>1. PICK g \in Tracked : AdmitsInput(g)
        BY <3>1
      <4>2. todo' = todo \ {g} /\ work' = work /\ stamp' = stamp /\ marks' = [marks EXCEPT ![g] = stamp[g]] /\ work[g] = Good
        BY <4>1 DEF AdmitsInput, inputVars
      <4>3. marks'[g] = stamp[g] /\ \A f \in Tracked : f # g => marks'[f] = marks[f]
        BY <4>2, QualKinds DEF RunInv, QualTypes
      <4> QED BY <4>2, <4>3 DEF ReadyInv, FaultlessInv, SameFile
    <3>2. CASE Opens \/ StagesBackend
      <4>1. UNCHANGED <<work, stamp, marks, todo>>
        BY <3>2 DEF Opens, StagesBackend, inputVars
      <4> QED BY <4>1 DEF ReadyInv, FaultlessInv, SameFile
    <3> QED BY <3>1, <3>2
  <2> QED BY <1>1, <2>1 DEF ReadyInv, FaultlessInv, Early, AfterCases, After
<1> QED BY <1>3, <1>4, <1>5, <1>6, <1>7 DEF ReadyInv

LEMMA PreparesReady ==
    ASSUME RunInv, ReadyInv, Prepares PROVE ReadyInv'
<1>1. /\ at = "prepare" /\ commands < Preparations /\ commands' = commands + 1
      /\ at' = IF commands' = Preparations THEN "plan" ELSE at
      /\ identities' = identities \cup {commands} /\ kept_files' = kept_files \cup {<<"artifact", commands>>}
      /\ UNCHANGED <<work, stamp, marks, todo, rows, accepted, child, broke, record, standard, faults>>
  BY DEF Prepares, PrepUnchanged, Is, inputVars, caseVars
<1>2. /\ commands \in 0..Preparations - 1 /\ identities = 0..commands - 1 /\ record = NoRecord /\ Preparations = 5
      /\ standard \in Nat /\ Projected(standard) <= FileLimit /\ kept_files = Parts
  BY <1>1, StagesDiffer, RolesHere DEF ReadyInv, PreparedInv, FilesInv, Early
<1>3. identities' = 0..commands' - 1
  BY <1>1, <1>2
<1>4. PreparedInv'
  BY <1>1, <1>2, <1>3 DEF PreparedInv, Prepared, Early, InCases, AfterCases, After
<1>5. FilesInv'
  <2>1. Blamed = {} /\ Blamed' = {}
    <3>1. ~Blames(NoRecord.cause)
      BY CausesOfCases
    <3> QED BY <1>1, <1>2, <3>1 DEF Blamed, Blames
  <2>2. Artifacts' = Artifacts \cup {<<"artifact", commands>>}
    BY <1>1 DEF Artifacts
  <2>3. Inputs' = Inputs
    BY <1>1 DEF Inputs
  <2>4. kept_files' = Parts'
    BY <1>1, <1>2, <2>1, <2>2, <2>3 DEF Parts, Logs
  <2>5. Projected(standard') <= FileLimit
    BY <1>1, <1>2 DEF Projected
  <2> QED BY <1>1, <1>2, <2>4, <2>5, RolesHere DEF FilesInv
<1>6. RowsInv' /\ ClaimInv'
  BY <1>1 DEF ReadyInv, RowsInv, ClaimInv, InCases, AfterCases, After
<1>7. FaultlessInv'
  BY <1>1 DEF ReadyInv, FaultlessInv, SameFile, AfterCases, After
<1> QED BY <1>4, <1>5, <1>6, <1>7 DEF ReadyInv

\* The evidence of a preparation that stopped.
LEMMA StoppedRecord ==
    ASSUME NEW k \in 0..Preparations - 1, NEW left \in BOOLEAN, NEW r,
           r \in {FailureEvidence(k), [FailureEvidence(k) EXCEPT !.descendants = left]}
    PROVE  /\ r.status = "FAIL" /\ r.ordinal = -1 /\ r.cause.stage = PreparationStage(k) /\ CauseKnown(r.cause)
           /\ r.aggregate = Aggregate(<<>>)
<1> DEFINE c == Cause(IF k < 2 THEN "PREPARATION" ELSE "BUILD", PreparationStage(k))
<1>1. c.stage = PreparationStage(k) /\ CauseKnown(c)
  BY StagesDiffer DEF Cause, CauseKnown, FAILURE_CATEGORIES
<1>2. FailureEvidence(k) = [NoRecord EXCEPT !.cause = c]
  BY DEF FailureEvidence
<1> HIDE DEF c
<1>3. \A q : q = [NoRecord EXCEPT !.cause = c] =>
        /\ q.status = "FAIL" /\ q.ordinal = -1 /\ q.cause = c /\ q.aggregate = Aggregate(<<>>)
        /\ LET f == [q EXCEPT !.descendants = left]
           IN  f.status = "FAIL" /\ f.ordinal = -1 /\ f.cause = c /\ f.aggregate = Aggregate(<<>>)
  BY DEF NoRecord
<1> QED BY <1>1, <1>2, <1>3

LEMMA StopsReady ==
    ASSUME RunInv, ReadyInv, PreparationFails \/ PreparationIsNotStarted PROVE ReadyInv'
<1>1. /\ at = "prepare" /\ commands < Preparations /\ at' = "verify" /\ faults' /\ identities' = identities
      /\ UNCHANGED <<work, stamp, marks, todo, rows, accepted, child, broke, standard>>
  BY DEF PreparationFails, PreparationIsNotStarted, PrepUnchanged, Is, inputVars, caseVars, Wrong
<1>2. /\ commands \in 0..Preparations - 1 /\ identities = 0..commands - 1 /\ record = NoRecord /\ Preparations = 5
      /\ standard \in Nat /\ Projected(standard) <= FileLimit /\ kept_files = Parts
  BY <1>1, StagesDiffer, RolesHere DEF ReadyInv, PreparedInv, FilesInv, Early
<1>3. rows = <<>> /\ accepted = 0
  BY <1>1 DEF RunInv, CasesInv, Before
<1>4. /\ record'.status = "FAIL" /\ record'.ordinal = -1 /\ record'.cause.stage = PreparationStage(commands)
      /\ CauseKnown(record'.cause) /\ record'.aggregate = Aggregate(<<>>)
  <2>1. CASE PreparationFails
    <3>1. FailureOrdinal(commands', fault') = commands
      BY <1>2, <2>1 DEF PreparationFails, FailureOrdinal
    <3>2. PICK left \in BOOLEAN : record' = [FailureEvidence(FailureOrdinal(commands', fault')) EXCEPT !.descendants = left]
      BY <2>1 DEF PreparationFails
    <3> QED BY <1>2, <3>1, <3>2, StoppedRecord
  <2>2. CASE PreparationIsNotStarted
    <3>1. FailureOrdinal(commands, fault') = commands
      BY <2>2 DEF PreparationIsNotStarted, FailureOrdinal
    <3>2. record' = FailureEvidence(FailureOrdinal(commands, fault'))
      BY <2>2 DEF PreparationIsNotStarted
    <3>3. TRUE \in BOOLEAN
      OBVIOUS
    <3> QED BY <1>2, <3>1, <3>2, <3>3, StoppedRecord
  <2> QED BY <2>1, <2>2
<1>5. \/ commands' = commands + 1 /\ kept_files' = kept_files \cup {<<"logs", commands>>}
      \/ commands' = commands /\ kept_files' = kept_files
  BY DEF PreparationFails, PreparationIsNotStarted
<1>7. PreparedInv'
  <2>1. \E k \in 0..Preparations - 1 : StoppedAt(k)'
    <3>1. PICK k \in 0..Preparations - 1 : k = commands
      BY <1>2
    <3>2. /\ commands' \in {k, k + 1} /\ identities' = 0..k - 1 /\ rows' = <<>>
          /\ record'.ordinal = -1 /\ record'.cause.stage = PreparationStage(k)
      BY <1>1, <1>2, <1>3, <1>4, <1>5, <3>1
    <3> QED BY <3>2 DEF StoppedAt
  <2> QED BY <1>1, <1>4, <2>1 DEF PreparedInv, Early, InCases, AfterCases, After
<1>8. FilesInv'
  <2>1. Blamed = {}
    <3>1. ~Blames(NoRecord.cause)
      BY CausesOfCases
    <3> QED BY <1>2, <3>1 DEF Blamed, Blames
  <2>2. \A j \in 0..Preparations - 1 : record'.cause.stage = PreparationStage(j) <=> j = commands
    BY <1>2, <1>4, StagesDiffer
  <2>3. Blamed' = {j \in 0..Preparations - 1 : j = commands /\ commands' = j + 1}
    BY <1>4, <2>2 DEF Blamed
  <2>4. Blamed' = IF commands' = commands + 1 THEN {commands} ELSE {}
    BY <1>2, <2>3
  <2>5. Artifacts' = Artifacts /\ Inputs' = Inputs
    BY <1>1 DEF Artifacts, Inputs
  <2>6. kept_files' = Parts'
    <3>1. CASE commands' = commands + 1 /\ kept_files' = kept_files \cup {<<"logs", commands>>}
      BY <1>2, <2>1, <2>4, <2>5, <3>1 DEF Parts, Logs
    <3>2. CASE commands' = commands /\ kept_files' = kept_files
      <4>1. Blamed' = {}
        BY <1>2, <2>4, <3>2
      <4> QED BY <1>2, <2>1, <2>5, <3>2, <4>1 DEF Parts, Logs
    <3> QED BY <1>5, <3>1, <3>2
  <2>7. Projected(standard') <= FileLimit
    BY <1>1, <1>2 DEF Projected
  <2> QED BY <1>1, <1>2, <2>6, <2>7, RolesHere DEF FilesInv
<1>9. RowsInv'
  BY <1>1 DEF ReadyInv, RowsInv
<1>10. ClaimInv'
  BY <1>1, <1>3, <1>4, QualKinds DEF ClaimInv, InCases, AfterCases, After
<1>11. FaultlessInv'
  BY <1>1 DEF FaultlessInv
<1> QED BY <1>7, <1>8, <1>9, <1>10, <1>11 DEF ReadyInv

LEMMA PlanKnown ==
    /\ PlanEvidence.status = "FAIL" /\ PlanEvidence.cause = Cause("CONFIG", "plan") /\ PlanEvidence.ordinal = -1
    /\ PlanEvidence.safe /\ PlanEvidence.source /\ PlanEvidence.inputs /\ ~PlanEvidence.descendants
    /\ PlanEvidence.aggregate = Aggregate(<<>>)
BY DEF PlanEvidence, NoRecord

LEMMA PlansReady ==
    ASSUME RunInv, ReadyInv, Plans PROVE ReadyInv'
<1>1. /\ at = "plan" /\ at' \in {"construct", "verify"} /\ record' = PlanEvidence
      /\ at' = "construct" => faults' = faults
      /\ at' = "verify" => faults'
      /\ UNCHANGED <<work, stamp, marks, todo, rows, accepted, child, broke, standard, commands, identities, kept_files>>
  BY DEF Plans, PrepUnchanged, Is, inputVars, caseVars, prepVars, Wrong
<1>2. Prepared /\ record = NoRecord /\ standard \in Nat /\ Projected(standard) <= FileLimit /\ kept_files = Parts
  BY <1>1, RolesHere DEF ReadyInv, PreparedInv, FilesInv, Early
<1>3. rows = <<>> /\ accepted = 0
  BY <1>1 DEF RunInv, CasesInv, Before
<1>4. ~Blames(record'.cause) /\ CauseKnown(record'.cause)
  BY <1>1, PlanKnown, CausesOfCases
<1>5. PreparedInv'
  <2>1. Prepared' /\ ~Blames(record'.cause)
    BY <1>1, <1>2, <1>4 DEF Prepared
  <2> QED BY <1>1, <2>1 DEF PreparedInv, Early, InCases, AfterCases, After, Blames
<1>6. FilesInv'
  <2>1. Blamed = {} /\ Blamed' = {}
    <3>1. ~Blames(NoRecord.cause)
      BY CausesOfCases
    <3> QED BY <1>1, <1>2, <1>4, <3>1 DEF Blamed, Blames
  <2>2. kept_files' = Parts'
    BY <1>1, <1>2, <2>1 DEF Parts, Logs, Artifacts, Inputs
  <2>3. Projected(standard') <= FileLimit
    BY <1>1, <1>2 DEF Projected
  <2> QED BY <1>1, <1>2, <2>2, <2>3, RolesHere DEF FilesInv
<1>7. RowsInv'
  BY <1>1 DEF ReadyInv, RowsInv
<1>8. ClaimInv'
  BY <1>1, <1>3, <1>4, PlanKnown, QualKinds DEF ClaimInv, InCases, AfterCases, After
<1>9. FaultlessInv'
  BY <1>1 DEF ReadyInv, FaultlessInv, SameFile, AfterCases, After
<1> QED BY <1>5, <1>6, <1>7, <1>8, <1>9 DEF ReadyInv

\* What is kept stays what is needed as long as nothing else is.
LEMMA FilesStay ==
    ASSUME FilesInv, UNCHANGED <<identities, rows, kept_files, standard>>, Blamed' = Blamed, at \in Early => at' \in Early
    PROVE  FilesInv'
<1>1. Parts' = Parts
  BY DEF Parts, Artifacts, Logs, Inputs
<1>2. Projected(standard') = Projected(standard)
  BY DEF Projected
<1> QED BY <1>1, <1>2, RolesHere DEF FilesInv

\* The steps of a case but those that take or add its row.
LEMMA CaseReady ==
    ASSUME RunInv, ReadyInv,
           Constructs \/ ConstructionFails \/ ChildRuns \/ ChildIsLost \/ AcceptRaises \/ RemovesScratch
    PROVE  ReadyInv'
<1>1. /\ at \in InCases \cup {"finish"} /\ at' \in {"child", "accept", "finish", "sum_up"}
      /\ at = "finish" <=> at' = "sum_up"
      /\ UNCHANGED <<work, stamp, marks, todo, rows, accepted, commands, identities, kept_files, record, standard>>
  BY DEF Constructs, ConstructionFails, ChildRuns, ChildIsLost, AcceptRaises, RemovesScratch, CaseUnchanged, Is,
         inputVars, prepVars, InCases
<1>2. ~faults' => ~faults /\ at' # "finish" /\ (at' = "accept" => child' = CleanPass) /\ broke' = broke
  BY DEF Constructs, ConstructionFails, ChildRuns, ChildIsLost, AcceptRaises, RemovesScratch, Wrong
<1>3. PreparedInv'
  BY <1>1 DEF ReadyInv, PreparedInv, Prepared, Early, InCases, AfterCases, After, Blames
<1>4. FilesInv'
  <2>1. Blamed' = Blamed
    BY <1>1 DEF Blamed
  <2> QED BY <1>1, <2>1, FilesStay DEF ReadyInv, Early, InCases
<1>5. RowsInv'
  BY <1>1 DEF ReadyInv, RowsInv
<1>6. ClaimInv'
  BY <1>1 DEF ReadyInv, ClaimInv, InCases, AfterCases, After
<1>7. FaultlessInv'
  BY <1>1, <1>2 DEF ReadyInv, FaultlessInv, SameFile, InCases, AfterCases, After
<1> QED BY <1>3, <1>4, <1>5, <1>6, <1>7 DEF ReadyInv

\* At the end a verdict that passed may fail, and says where; what was known of a
\* failure stays.
Worse ==
    /\ record.status = "FAIL" =>
        /\ record'.status = "FAIL" /\ record'.cause = record.cause /\ record'.ordinal = record.ordinal
        /\ record'.aggregate = record.aggregate
    /\ record.status = "PASS" /\ record'.status # "PASS" =>
        /\ \E category \in {"SOURCE_IDENTITY", "CONFIG", "CLEANUP"}, stage \in {"source", "qualifier_cleanup"} :
            record'.cause = Cause(category, stage)
        /\ record'.status = "FAIL" /\ record'.ordinal = record.ordinal /\ record'.aggregate = record.aggregate
    /\ record'.status = "PASS" =>
        /\ record.status = "PASS" /\ record'.cause = record.cause /\ record'.ordinal = record.ordinal
        /\ record'.aggregate = record.aggregate /\ record'.safe = record.safe /\ record'.source = record.source
        /\ record'.inputs = record.inputs /\ record'.descendants = record.descendants

LEMMA FailsIsWorse ==
    ASSUME record \in Records,
           NEW category \in {"SOURCE_IDENTITY", "CONFIG", "CLEANUP"}, NEW stage \in {"source", "qualifier_cleanup"},
           \/ record' = [Fails(record, category, stage) EXCEPT !.source = FALSE]
           \/ record' = [Fails(record, category, stage) EXCEPT !.inputs = FALSE]
           \/ record' = [Fails(record, category, stage) EXCEPT !.safe = FALSE]
    PROVE  Worse
<1> DEFINE r == Fails(record, category, stage)
           c == Cause(category, stage)
<1>1. CASE record.status = "PASS"
  <2>1. r = [record EXCEPT !.status = "FAIL", !.cause = c]
    BY <1>1 DEF Fails
  <2> HIDE DEF c
  <2>2. r.status = "FAIL" /\ r.cause = c /\ r.ordinal = record.ordinal /\ r.aggregate = record.aggregate
    BY <2>1 DEF Records
  <2>3. /\ record'.status = "FAIL" /\ record'.cause = c /\ record'.ordinal = record.ordinal
        /\ record'.aggregate = record.aggregate
    BY <2>1, <2>2 DEF Records
  <2> QED BY <1>1, <2>3 DEF Worse, c
<1>2. CASE record.status # "PASS"
  <2>1. r = record
    BY <1>2 DEF Fails
  <2>2. /\ record'.status = record.status /\ record'.cause = record.cause /\ record'.ordinal = record.ordinal
        /\ record'.aggregate = record.aggregate
    BY <2>1 DEF Records
  <2> QED BY <1>2, <2>2 DEF Worse
<1> QED BY <1>1, <1>2

LEMMA EndReady ==
    ASSUME RunInv, ReadyInv, VerifiesSources \/ RechecksInput \/ Collects \/ Cleans \/ StagesEvidence, outcome' = "running"
    PROVE  ReadyInv'
<1>1. /\ at \in {"verify", "recheck", "collect", "clean", "stage"} /\ at' \in After /\ record \in Records
      /\ UNCHANGED <<work, stamp, marks, todo, rows, accepted, child, broke, commands, identities, kept_files, standard>>
      /\ todo = {}
  <2>1. /\ at \in {"verify", "recheck", "collect", "clean", "stage"} /\ at' \in After
        /\ UNCHANGED <<work, stamp, marks, todo, rows, accepted, child, broke, commands, identities, kept_files, standard>>
    BY DEF VerifiesSources, RechecksInput, Collects, Cleans, StagesEvidence, EndUnchanged, RaisesOut, Is,
           inputVars, prepVars, caseVars, After
  <2>2. record \in Records /\ (at # "admit" => todo = {})
    BY DEF RunInv, QualTypes, InputInv
  <2> QED BY <2>1, <2>2
<1>2. /\ Worse
      /\ ~faults' => ~faults /\ record'.status = record.status
      /\ at' \in {"stage", "publish"} /\ record'.status = "PASS" => record'.owned
  <2>0. /\ "CONFIG" \in {"SOURCE_IDENTITY", "CONFIG", "CLEANUP"} /\ "source" \in {"source", "qualifier_cleanup"}
        /\ "CLEANUP" \in {"SOURCE_IDENTITY", "CONFIG", "CLEANUP"} /\ "qualifier_cleanup" \in {"source", "qualifier_cleanup"}
        /\ "SOURCE_IDENTITY" \in {"SOURCE_IDENTITY", "CONFIG", "CLEANUP"}
        /\ record.status \in {"PASS", "FAIL"}
    BY <1>1 DEF Records
  <2>00. record' = record => Worse
    BY <2>0 DEF Worse
  <2>1. CASE VerifiesSources
    <3>1. at' = "recheck"
      BY <2>1 DEF VerifiesSources
    <3>2. \/ record' = record /\ faults' = faults
          \/ record' = [Fails(record, "SOURCE_IDENTITY", "source") EXCEPT !.source = FALSE] /\ faults'
      BY <2>1 DEF VerifiesSources, Wrong
    <3>3. Worse
      BY <1>1, <2>0, <2>00, <3>2, FailsIsWorse
    <3> QED BY <3>1, <3>2, <3>3
  <2>2. CASE RechecksInput
    <3>1. at' = "collect" /\ faults' = faults
      BY <2>2 DEF RechecksInput
    <3>2. \/ record' = record
          \/ ~Unchanged /\ record' = [Fails(record, "CONFIG", "source") EXCEPT !.inputs = FALSE]
      BY <2>2 DEF RechecksInput
    <3>3. Worse
      BY <1>1, <2>0, <2>00, <3>2, FailsIsWorse
    <3>4. ~faults => Unchanged
      BY <1>1 DEF ReadyInv, FaultlessInv, Unchanged
    <3> QED BY <3>1, <3>2, <3>3, <3>4
  <2>3. CASE Collects
    <3>1. record' = record /\ faults' = faults /\ at' = "clean"
      BY <2>3 DEF Collects, RaisesOut
    <3> QED BY <2>00, <3>1
  <2>4. CASE Cleans
    <3>1. at' = "stage" /\ at = "clean"
      BY <2>4 DEF Cleans, Is
    <3>2. \/ record' = [record EXCEPT !.owned = TRUE] /\ faults' = faults
          \/ record' = [Fails(record, "CLEANUP", "qualifier_cleanup") EXCEPT !.safe = FALSE] /\ faults'
      BY <2>4 DEF Cleans, Wrong
    <3>3. CASE record' = [record EXCEPT !.owned = TRUE] /\ faults' = faults
      <4>1. /\ record'.status = record.status /\ record'.cause = record.cause /\ record'.ordinal = record.ordinal
            /\ record'.aggregate = record.aggregate /\ record'.safe = record.safe /\ record'.source = record.source
            /\ record'.inputs = record.inputs /\ record'.descendants = record.descendants /\ record'.owned
        BY <1>1, <3>3 DEF Records
      <4> QED BY <2>0, <3>3, <4>1 DEF Worse
    <3>4. CASE record' = [Fails(record, "CLEANUP", "qualifier_cleanup") EXCEPT !.safe = FALSE] /\ faults'
      <4>1. Worse
        BY <1>1, <2>0, <3>4, FailsIsWorse
      <4>2. record'.status = "FAIL"
        BY <1>1, <2>0, <3>4 DEF Fails, Records
      <4> QED BY <3>4, <4>1, <4>2
    <3> QED BY <3>2, <3>3, <3>4
  <2>5. CASE StagesEvidence
    <3>1. record' = record /\ faults' = faults /\ at = "stage"
      BY <2>5 DEF StagesEvidence, Is
    <3>2. record.status = "PASS" => record.owned
      BY <3>1 DEF ReadyInv, ClaimInv
    <3> QED BY <2>00, <3>1, <3>2
  <2> QED BY <2>1, <2>2, <2>3, <2>4, <2>5
<1>3. /\ record.status \in {"PASS", "FAIL"}
      /\ record.status = "PASS" => Prepared
      /\ \/ Prepared /\ ~Blames(record.cause)
         \/ record.status = "FAIL" /\ \E k \in 0..Preparations - 1 : StoppedAt(k)
  BY <1>1 DEF Records, ReadyInv, PreparedInv, ClaimInv, After
<1>4. record.status = "PASS" =>
        /\ ~Blames(record.cause) /\ ~Blames(record'.cause) /\ record'.ordinal = -1 /\ record.cause = NoCause
        /\ record.safe /\ record.source /\ record.inputs /\ ~record.descendants
        /\ record'.status # "PASS" => CauseKnown(record'.cause)
  <2>1. record.status = "PASS" =>
          /\ record.ordinal = -1 /\ record.cause = NoCause
          /\ record.safe /\ record.source /\ record.inputs /\ ~record.descendants
    BY <1>1 DEF ReadyInv, ClaimInv, After
  <2>2. ~Blames(NoCause)
    BY CausesOfCases DEF CaseCauses
  <2>3. CASE record'.status = "PASS"
    BY <1>2, <2>1, <2>2, <2>3 DEF Worse
  <2>4. CASE record.status = "PASS" /\ record'.status # "PASS"
    <3>1. PICK category \in {"SOURCE_IDENTITY", "CONFIG", "CLEANUP"}, stage \in {"source", "qualifier_cleanup"} :
            record'.cause = Cause(category, stage)
      BY <1>2, <2>4 DEF Worse
    <3>2. stage \in {"source", "qualifier_cleanup", "plan"}
      OBVIOUS
    <3>3. ~Blames(record'.cause) /\ CauseKnown(record'.cause)
      BY <3>1, <3>2, CausesOfCases
    <3> QED BY <1>2, <2>1, <2>2, <2>4, <3>3 DEF Worse
  <2> QED BY <2>3, <2>4
<1>5. PreparedInv'
  <2>1. CASE record.status = "PASS"
    <3>1. Prepared' /\ ~Blames(record'.cause)
      BY <1>1, <1>3, <1>4, <2>1 DEF Prepared
    <3> QED BY <1>1, <3>1 DEF PreparedInv, Early, InCases, AfterCases, After, Blames
  <2>2. CASE record.status = "FAIL"
    <3>1. record'.status = "FAIL" /\ record'.cause = record.cause /\ record'.ordinal = record.ordinal
      BY <1>2, <2>2 DEF Worse
    <3>2. (Prepared => Prepared') /\ \A k \in 0..Preparations - 1 : StoppedAt(k) => StoppedAt(k)'
      BY <1>1, <3>1 DEF Prepared, StoppedAt
    <3> QED BY <1>1, <1>3, <3>1, <3>2 DEF PreparedInv, Early, InCases, AfterCases, After, Blames
  <2> QED BY <1>3, <2>1, <2>2
<1>6. FilesInv'
  <2>1. Blamed' = Blamed
    <3>1. CASE record.status = "PASS"
      <4>1. Blamed = {}
        BY <3>1 DEF Blamed
      <4>2. Blamed' = {}
        BY <1>4, <3>1 DEF Blamed, Blames
      <4> QED BY <4>1, <4>2
    <3>2. CASE record.status = "FAIL"
      BY <1>1, <1>2, <3>2 DEF Worse, Blamed
    <3> QED BY <1>3, <3>1, <3>2
  <2> QED BY <1>1, <2>1, FilesStay DEF ReadyInv, Early
<1>7. RowsInv'
  BY <1>1 DEF ReadyInv, RowsInv
<1>8. ClaimInv'
  <2>1. record'.aggregate = record.aggregate /\ record.aggregate = Aggregate(rows) /\ Aggregate(rows') = Aggregate(rows)
    BY <1>1, <1>2, <1>3 DEF Worse, ReadyInv, ClaimInv, After
  <2>2. record'.status = "PASS" =>
          /\ Prepared' /\ record'.cause = NoCause /\ record'.ordinal = -1
          /\ record'.safe /\ record'.source /\ record'.inputs /\ ~record'.descendants
    BY <1>1, <1>2, <1>3, <1>4 DEF Worse, Prepared
  <2>3. record'.status = "FAIL" => CauseKnown(record'.cause) /\ record'.ordinal \in -1..Cases - 1
    <3>1. CASE record.status = "PASS"
      BY <1>4, <3>1, QualKinds
    <3>2. CASE record.status = "FAIL"
      BY <1>1, <1>2, <3>2 DEF Worse, ReadyInv, ClaimInv, After
    <3> QED BY <1>3, <3>1, <3>2
  <2> QED BY <1>1, <1>2, <2>1, <2>2, <2>3 DEF ClaimInv, InCases, AfterCases, After
<1>9. FaultlessInv'
  BY <1>1, <1>2 DEF ReadyInv, FaultlessInv, SameFile, AfterCases, After
<1> QED BY <1>5, <1>6, <1>7, <1>8, <1>9 DEF ReadyInv

LEMMA WrittenReady ==
    ASSUME ReadyInv, TakesPlace \/ \E f \in Tracked, v \in {Good, Bad} : WritesInput(f, v) PROVE ReadyInv'
<1>1. /\ UNCHANGED <<at, rows, accepted, commands, identities, kept_files, record, standard>>
      /\ faults'
  BY DEF TakesPlace, WritesInput, prepVars, caseVars, Wrong
<1>2. PreparedInv'
  BY <1>1 DEF ReadyInv, PreparedInv, Prepared, Blames, StoppedAt
<1>3. FilesInv'
  <2>1. Blamed' = Blamed
    BY <1>1 DEF Blamed
  <2> QED BY <1>1, <2>1, FilesStay DEF ReadyInv
<1>4. RowsInv' /\ ClaimInv' /\ FaultlessInv'
  BY <1>1 DEF ReadyInv, RowsInv, ClaimInv, FaultlessInv, Prepared
<1> QED BY <1>2, <1>3, <1>4 DEF ReadyInv

\* The rows of the cases, and the inputs that go with them.
RowsFit(all) == \A n \in 1..Len(all) : ValidCase(all[n], n - 1) /\ all[n].cause \in CaseCauses
InputsOf(all) == {<<"case", n - 1>> : n \in {m \in 1..Len(all) : all[m].spawned}}

LEMMA RowAdded ==
    ASSUME NEW all \in Seq(Row), NEW row \in Row, RowsFit(all), ValidCase(row, Len(all)), row.cause \in CaseCauses
    PROVE  /\ Append(all, row) \in Seq(Row) /\ Len(Append(all, row)) = Len(all) + 1 /\ RowsFit(Append(all, row))
           /\ Append(all, row)[Len(all) + 1] = row /\ \A n \in 1..Len(all) : Append(all, row)[n] = all[n]
           /\ InputsOf(Append(all, row)) = InputsOf(all) \cup (IF row.spawned THEN {<<"case", Len(all)>>} ELSE {})
<1> DEFINE more == Append(all, row)
           last == Len(all)
<1>1. more \in Seq(Row) /\ Len(more) = last + 1 /\ last \in Nat
  OBVIOUS
<1>2. more[last + 1] = row /\ \A n \in 1..last : more[n] = all[n]
  OBVIOUS
<1> HIDE DEF more, last
<1>3. \A n \in 1..last + 1 : n \in 1..last \/ n = last + 1
  BY <1>1
<1>4. 1..last \subseteq 1..last + 1 /\ last + 1 \in 1..last + 1 /\ (last + 1) - 1 = last
  BY <1>1
<1>5. RowsFit(more)
  <2>1. ASSUME NEW n \in 1..last + 1 PROVE ValidCase(more[n], n - 1) /\ more[n].cause \in CaseCauses
    <3>1. CASE n = last + 1
      <4>1. n - 1 = Len(all) /\ more[n] = row
        BY <1>2, <1>4, <3>1 DEF last
      <4> QED BY <4>1
    <3>2. CASE n \in 1..last
      <4>1. more[n] = all[n]
        BY <1>2, <3>2
      <4> QED BY <3>2, <4>1 DEF RowsFit, last
    <3> QED BY <1>3, <3>1, <3>2
  <2> QED BY <1>1, <2>1 DEF RowsFit
<1>6. {m \in 1..Len(more) : more[m].spawned} =
        {m \in 1..last : all[m].spawned} \cup {m \in {last + 1} : row.spawned}
  BY <1>1, <1>2, <1>3, <1>4
<1>7. InputsOf(more) = InputsOf(all) \cup (IF row.spawned THEN {<<"case", last>>} ELSE {})
  BY <1>4, <1>6 DEF InputsOf, last
<1> QED BY <1>1, <1>2, <1>5, <1>7 DEF more, last

LEMMA RowReplaced ==
    ASSUME NEW all \in Seq(Row), NEW k \in 1..Len(all), NEW row \in Row, RowsFit(all),
           ValidCase(row, k - 1), row.cause \in CaseCauses, row.spawned = all[k].spawned
    PROVE  /\ [all EXCEPT ![k] = row] \in Seq(Row) /\ Len([all EXCEPT ![k] = row]) = Len(all)
           /\ RowsFit([all EXCEPT ![k] = row])
           /\ \A n \in 1..Len(all) : [all EXCEPT ![k] = row][n] = IF n = k THEN row ELSE all[n]
           /\ InputsOf([all EXCEPT ![k] = row]) = InputsOf(all)
<1> DEFINE new == [all EXCEPT ![k] = row]
<1>1. new \in Seq(Row) /\ Len(new) = Len(all)
  OBVIOUS
<1>2. \A n \in 1..Len(all) : new[n] = IF n = k THEN row ELSE all[n]
  OBVIOUS
<1> HIDE DEF new
<1>3. RowsFit(new)
  <2>1. ASSUME NEW n \in 1..Len(all) PROVE ValidCase(new[n], n - 1) /\ new[n].cause \in CaseCauses
    <3>1. CASE n = k
      BY <1>2, <3>1
    <3>2. CASE n # k
      <4>1. new[n] = all[n]
        BY <1>2, <3>2
      <4> QED BY <4>1 DEF RowsFit
    <3> QED BY <3>1, <3>2
  <2> QED BY <1>1, <2>1 DEF RowsFit
<1>4. \A n \in 1..Len(all) : new[n].spawned = all[n].spawned
  BY <1>2
<1>5. InputsOf(new) = InputsOf(all)
  BY <1>1, <1>4 DEF InputsOf
<1> QED BY <1>1, <1>2, <1>3, <1>5 DEF new

\* A child whose case is as it should be passes.
LEMMA RightPasses ==
    ASSUME child = CleanPass, NEW found \in Findings, found = Right, NEW removed \in Removals(found),
           ~(removed # 2 /\ Compared(found)), NEW operations, NEW memory, NEW report
    PROVE  Assembled(child, Outcome(found, removed, operations, memory, report), Ordinal).terminal = "PASS"
<1> DEFINE o == Outcome(found, removed, operations, memory, report)
<1>1. found = "read" \/ found = "same"
  BY ClosedFormsCount DEF Right
<1>2. found = "same" => removed = 2
  BY DEF Compared
<1>3. o.accepted
  BY <1>1, <1>2 DEF Outcome
<1>4. child.terminal = "PASS" /\ child.state = "clean" /\ child # NoChild
  BY DEF CleanPass, NoChild
<1> HIDE DEF o
<1>5. Terminal(child, o) = "PASS"
  BY <1>3, <1>4 DEF Terminal
<1>6. ~Unclean(child, o)
  BY <1>4 DEF Unclean
<1>7. Assembled(child, o, Ordinal).terminal = "PASS"
  BY <1>5, <1>6 DEF Assembled
<1> QED BY <1>7 DEF o

\* An accepted child's row is admitted, and its input is kept.
LEMMA AcceptReady ==
    ASSUME RunInv, ReadyInv, Accepts PROVE ReadyInv'
<1>1. /\ at = "accept" /\ accepted \in Nat /\ accepted < Cases /\ Len(rows) = accepted /\ Cases \in Nat
      /\ child \in Children /\ child # NoChild /\ record \in Records /\ rows \in Seq(Row)
  BY QualKinds DEF Accepts, Is, RunInv, QualTypes, CasesInv, InCases
<1>2. PICK found \in Findable, report \in Reports, late \in BOOLEAN, device \in {"A", "B"}, lookup \in Lookups :
      \E removed \in Removals(found), operations \in Works(found), memory \in Memories(found) :
        LET o == Outcome(found, removed, operations, memory, report)
        IN  /\ Takes(Assembled(child, o, Ordinal), o, late, device, lookup)
            /\ Wrong(found # Right \/ (removed # 2 /\ Compared(found)) \/ memory # "within" \/ late
                        \/ ~AdmitsDevice(o, device, lookup))
  BY DEF Accepts
<1>3. PICK removed \in Removals(found), operations \in Works(found), memory \in Memories(found) :
        LET o == Outcome(found, removed, operations, memory, report)
        IN  /\ Takes(Assembled(child, o, Ordinal), o, late, device, lookup)
            /\ Wrong(found # Right \/ (removed # 2 /\ Compared(found)) \/ memory # "within" \/ late
                        \/ ~AdmitsDevice(o, device, lookup))
  BY <1>2
<1> DEFINE o == Outcome(found, removed, operations, memory, report)
           row == Assembled(child, o, Ordinal)
           admitted == AdmitsDevice(o, device, lookup)
           passes == row.terminal = "PASS" /\ admitted /\ ~late
           facts == IF LooksAtDevice(o) THEN DeviceFacts(device, lookup[1], lookup[2]) ELSE record
           taken == Consumed(row, admitted)
<1>4. o \in OutcomesSet
  <2>1. operations \in 0..PlannedWork /\ memory \in {"within", "over"}
    BY DEF Works, Memories, PlannedWork
  <2>2. report \in {Unreported, Nonfinite, Cause("ALLOCATION", "allocate")}
    BY DEF Reports
  <2>3. /\ (found # "unreadable") \in BOOLEAN /\ Compared(found) \in BOOLEAN
        /\ (found = "read" \/ (found = "same" /\ removed = 2)) \in BOOLEAN
    BY DEF Compared
  <2> QED BY <2>1, <2>2, <2>3 DEF Outcome, OutcomesSet
<1>5. /\ row \in Row /\ row.cause \in CaseCauses /\ row.spawned /\ (row.terminal = "PASS" => child.state = "clean")
  <2>1. accepted \in Nat /\ child \in Children \cup {NoChild}
    BY <1>1
  <2> HIDE DEF o
  <2> QED BY <1>1, <1>4, <2>1, AssembledIsRow, AssembledFields DEF Ordinal
<1>6. /\ rows' = Append(rows, taken) /\ ValidCase(row, accepted)
      /\ kept_files' = kept_files \cup {<<"case", accepted>>}
      /\ record' = CountsChild(facts)
      /\ IF passes
         THEN accepted' = accepted + 1 /\ at' = IF accepted' = Cases THEN "finish" ELSE "construct"
         ELSE at' = "finish" /\ accepted' = accepted
  BY <1>3 DEF Takes, Ordinal
<1>7. ~faults' => ~faults /\ passes
  <2>1. ~faults' => /\ ~faults /\ found = Right /\ ~(removed # 2 /\ Compared(found)) /\ ~late /\ admitted
    BY <1>3 DEF Wrong
  <2>2. ~faults => child = CleanPass
    BY <1>1 DEF ReadyInv, FaultlessInv
  <2>3. found \in Findings
    BY DEF Findable, Findings
  <2>4. ~faults' => row.terminal = "PASS"
    BY <2>1, <2>2, <2>3, RightPasses
  <2> QED BY <2>1, <2>4
<1>8. UNCHANGED <<work, stamp, marks, todo, commands, identities, standard, broke, child>>
  BY DEF Accepts, CaseUnchanged, inputVars, prepVars
<1>9. /\ record'.status = record.status /\ record'.cause = record.cause /\ record'.ordinal = record.ordinal
      /\ record'.safe = record.safe /\ record'.source = record.source /\ record'.inputs = record.inputs
      /\ (record'.descendants <=> record.descendants \/ child.state = "left")
  <2>1. facts = record \/ facts = [record EXCEPT !.device = device, !.loaded = lookup[2]]
    BY DEF DeviceFacts
  <2>2. record' = [facts EXCEPT !.descendants = facts.descendants \/ child.state = "left"]
    BY <1>6 DEF CountsChild
  <2> DEFINE l == lookup[2]
             d == facts.descendants \/ child.state = "left"
  <2>3. facts.descendants = record.descendants
    BY <1>1, <2>1 DEF Records
  <2>4. record' = [record EXCEPT !.descendants = d] \/ record' = [[record EXCEPT !.device = device, !.loaded = l] EXCEPT !.descendants = d]
    BY <2>1, <2>2
  <2> HIDE DEF facts, l, d
  <2>5. /\ record'.status = record.status /\ record'.cause = record.cause /\ record'.ordinal = record.ordinal
        /\ record'.safe = record.safe /\ record'.source = record.source /\ record'.inputs = record.inputs
        /\ record'.descendants = d
    BY <1>1, <2>4 DEF Records
  <2> QED BY <2>3, <2>5 DEF d
<1> HIDE DEF o, row, admitted, facts
<1>10. /\ taken \in Row /\ ValidCase(taken, accepted) /\ taken.cause \in CaseCauses /\ taken.spawned
       /\ passes => taken.terminal = "PASS"
  <2>1. CASE admitted \/ row.terminal # "PASS"
    <3>1. taken = row
      BY <2>1, Zenon DEF Consumed
    <3> QED BY <1>5, <1>6, <3>1
  <2>2. CASE ~admitted /\ row.terminal = "PASS"
    <3> DEFINE c == Cause("DEVICE_UNAVAILABLE", "device")
    <3>1. taken = [row EXCEPT !.terminal = "FAIL", !.cause = c]
      BY <2>2, Zenon DEF Consumed
    <3>2. c \in Causes /\ c \in CaseCauses /\ c # NoCause
      BY CausesKnown DEF CaseCauses, Cause, NoCause
    <3>3. CauseKnown(c)
      BY <3>2, CausesOfCases
    <3>4. taken \in Row
      BY <1>5, <3>1, <3>2 DEF Row
    <3> HIDE DEF c
    <3>5. ValidCase(taken, accepted) /\ taken.cause = c /\ taken.spawned = row.spawned
      <4>1. row \in Row /\ accepted \in Nat /\ ValidCase(row, accepted) /\ row.terminal = "PASS"
        BY <1>1, <1>5, <1>6, <2>2
      <4> HIDE DEF taken
      <4> QED BY <3>1, <3>3, <4>1, FailedRowIsValid
    <3> QED BY <1>5, <2>2, <3>2, <3>4, <3>5
  <2> QED BY <2>1, <2>2
<1> HIDE DEF taken, passes
<1>11. /\ accepted' \in {accepted, accepted + 1} /\ at' \in {"construct", "finish"}
       /\ accepted' = accepted + 1 => passes
       /\ at' = "construct" => passes
       /\ passes /\ at' = "finish" => accepted' = Cases
       /\ accepted' = Cases => passes
  BY <1>1, <1>6
<1>12. RowsFit(rows)
  BY DEF ReadyInv, RowsInv, RowsFit
<1>13. /\ Len(rows') = accepted + 1 /\ RowsFit(rows') /\ rows'[accepted + 1] = taken
       /\ \A n \in 1..accepted : rows'[n] = rows[n]
       /\ InputsOf(rows') = InputsOf(rows) \cup {<<"case", accepted>>}
  BY <1>1, <1>6, <1>10, <1>12, RowAdded
<1>14. Prepared /\ ~Blames(record.cause) /\ Prepared'
  BY <1>1, <1>8 DEF ReadyInv, PreparedInv, InCases, Prepared
<1>15. PreparedInv'
  BY <1>9, <1>11, <1>14 DEF PreparedInv, Early, InCases, AfterCases, After, Blames
<1>16. FilesInv'
  <2>1. standard \in Nat /\ Projected(standard) <= FileLimit /\ kept_files = Parts
    BY <1>1, RolesHere DEF ReadyInv, FilesInv, Early
  <2>2. Blamed = {} /\ Blamed' = {}
    BY <1>9, <1>14 DEF Blamed, Blames
  <2>3. Inputs = InputsOf(rows) /\ Inputs' = InputsOf(rows')
    BY DEF Inputs, InputsOf
  <2>4. Artifacts' = Artifacts
    BY <1>8 DEF Artifacts
  <2>5. kept_files' = Parts'
    BY <1>6, <1>13, <2>1, <2>2, <2>3, <2>4 DEF Parts, Logs
  <2>6. Projected(standard') <= FileLimit
    BY <1>8, <2>1 DEF Projected
  <2> QED BY <1>8, <2>1, <2>5, <2>6, RolesHere DEF FilesInv
<1>17. RowsInv'
  <2>1. \A n \in 1..Len(rows') : ValidCase(rows'[n], n - 1) /\ rows'[n].cause \in CaseCauses
    BY <1>13 DEF RowsFit
  <2>2. accepted' <= Len(rows') /\ Len(rows') <= Cases /\ (accepted' = Cases => Len(rows') = Cases)
    BY <1>1, <1>11, <1>13
  <2>3. ASSUME NEW n \in 1..accepted' PROVE rows'[n].terminal = "PASS"
    <3>1. CASE n \in 1..accepted
      BY <1>13, <3>1 DEF ReadyInv, RowsInv
    <3>2. CASE n \notin 1..accepted
      <4>1. n = accepted + 1 /\ passes
        BY <1>1, <1>11, <3>2
      <4> QED BY <1>10, <1>13, <4>1
    <3> QED BY <3>1, <3>2
  <2> QED BY <2>1, <2>2, <2>3 DEF RowsInv
<1>18. ClaimInv'
  <2>1. record.ordinal = -1 /\ record.safe /\ record.source /\ record.inputs /\ ~record.descendants
    BY <1>1 DEF ReadyInv, ClaimInv, InCases
  <2>2. passes => ~record'.descendants
    BY <1>5, <1>9, <2>1 DEF passes
  <2> QED BY <1>9, <1>11, <2>1, <2>2 DEF ClaimInv, InCases, AfterCases, After
<1>19. FaultlessInv'
  <2>1. ~faults => (\A f \in Tracked \ todo : SameFile(f)) /\ ~broke
    BY DEF ReadyInv, FaultlessInv
  <2> QED BY <1>7, <1>8, <1>11, <2>1 DEF FaultlessInv, SameFile, AfterCases, After
<1> QED BY <1>15, <1>16, <1>17, <1>18, <1>19 DEF ReadyInv

\* With the missing row every row is admitted; the one of a case that was not
\* accepted says why.
LEMMA SumReady ==
    ASSUME RunInv, ReadyInv, SumsUp PROVE ReadyInv'
<1>1. /\ at = "sum_up" /\ at' = "verify" /\ rows' = Finished
      /\ kept_files' = IF IsMissing /\ child # NoChild THEN kept_files \cup {<<"case", accepted>>} ELSE kept_files
      /\ record' = [(IF IsMissing THEN CountsChild(CasesRecord) ELSE CasesRecord) EXCEPT !.aggregate = Aggregate(rows')]
      /\ UNCHANGED <<work, stamp, marks, todo, accepted, broke, child, commands, identities, standard, faults>>
  BY DEF SumsUp, Is, CaseUnchanged, inputVars, prepVars, Ordinal
<1>2. /\ accepted \in Nat /\ accepted <= Cases /\ Cases \in Nat /\ Len(rows) \in {accepted, accepted + 1} /\ rows \in Seq(Row)
      /\ child \in Children \cup {NoChild} /\ record \in Records /\ record.status = "FAIL" /\ broke \in BOOLEAN
      /\ Len(rows) <= Cases /\ (accepted = Cases => Len(rows) = Cases) /\ RowsFit(rows)
      /\ \A n \in 1..accepted : rows[n].terminal = "PASS"
  <2>1. /\ accepted \in 0..Cases /\ rows \in Seq(Row) /\ child \in Children \cup {NoChild} /\ record \in Records /\ broke \in BOOLEAN
        /\ Len(rows) \in {accepted, accepted + 1} /\ record.status = "FAIL"
    BY <1>1 DEF RunInv, QualTypes, CasesInv, VerdictInv, AfterCases, After
  <2>2. /\ Len(rows) <= Cases /\ (accepted = Cases => Len(rows) = Cases) /\ RowsFit(rows)
        /\ \A n \in 1..accepted : rows[n].terminal = "PASS"
    BY DEF ReadyInv, RowsInv, RowsFit
  <2> QED BY <2>1, <2>2, QualKinds
<1> DEFINE all == FinishedAsFound
<1>3. /\ all \in Seq(Row) /\ RowsFit(all) /\ Len(all) <= Cases /\ accepted <= Len(all)
      /\ (~Complete => Len(all) = accepted + 1) /\ (Complete => all = rows)
      /\ \A n \in 1..accepted : all[n].terminal = "PASS"
      /\ kept_files' = kept_files \cup InputsOf(all) /\ InputsOf(rows) \subseteq InputsOf(all)
  <2>0. InputsOf(rows) \subseteq kept_files
    <3>1. kept_files = Parts /\ Inputs = InputsOf(rows)
      BY <1>1, RolesHere DEF ReadyInv, FilesInv, Early, Inputs, InputsOf
    <3> QED BY <3>1 DEF Parts
  <2>1. CASE IsMissing
    <3> DEFINE row == Assembled(child, NoOutcome, accepted)
    <3>1. NoOutcome \in OutcomesSet /\ ValidCase(row, accepted) /\ row.terminal # "PASS"
      BY <1>2, MissingRowIsValid
    <3>2. row \in Row /\ row.cause \in CaseCauses /\ (row.spawned <=> child # NoChild)
      BY <1>2, <3>1, AssembledIsRow, AssembledFields
    <3>3. all = Append(rows, row) /\ Len(rows) = accepted /\ ~Complete /\ accepted < Cases
      BY <1>2, <2>1 DEF FinishedAsFound, IsMissing, Ordinal, Complete
    <3>4. kept_files' = kept_files \cup (IF row.spawned THEN {<<"case", accepted>>} ELSE {})
      BY <1>1, <2>1, <3>2
    <3> HIDE DEF row, all
    <3>5. /\ all \in Seq(Row) /\ Len(all) = accepted + 1 /\ RowsFit(all) /\ (\A n \in 1..accepted : all[n] = rows[n])
          /\ InputsOf(all) = InputsOf(rows) \cup (IF row.spawned THEN {<<"case", accepted>>} ELSE {})
      BY <1>2, <3>1, <3>2, <3>3, RowAdded
    <3>6. kept_files' = kept_files \cup InputsOf(all)
      BY <2>0, <3>4, <3>5
    <3> QED BY <1>2, <3>3, <3>5, <3>6
  <2>2. CASE ~IsMissing
    <3>1. all = rows /\ kept_files' = kept_files
      BY <1>1, <2>2 DEF FinishedAsFound
    <3>2. ~Complete => Len(rows) = accepted + 1
      BY <1>2, <2>2 DEF IsMissing, Ordinal
    <3> QED BY <1>2, <2>0, <3>1, <3>2
  <2> QED BY <2>1, <2>2
<1> HIDE DEF all
<1>4. /\ Finished \in Seq(Row) /\ RowsFit(Finished) /\ Len(Finished) = Len(all) /\ InputsOf(Finished) = InputsOf(all)
      /\ \A n \in 1..accepted : Finished[n].terminal = "PASS"
      /\ ~Complete => Finished[accepted + 1].terminal # "PASS"
  <2>1. CASE ~Complete /\ all[accepted + 1].terminal = "PASS"
    <3> DEFINE c == Cause("PROCESS", "readback")
               last == [all[accepted + 1] EXCEPT !.terminal = "FAIL", !.cause = c]
    <3>1. Finished = [all EXCEPT ![accepted + 1] = last]
      BY <2>1, Zenon DEF Finished, all, Ordinal
    <3>2. c \in Causes /\ c \in CaseCauses /\ c # NoCause
      BY CausesKnown DEF CaseCauses, Cause, NoCause
    <3>3. CauseKnown(c)
      BY <3>2, CausesOfCases
    <3>4. PICK k \in 1..Len(all) : k = accepted + 1
      BY <1>2, <1>3, <2>1
    <3>5. all[k] \in Row /\ ValidCase(all[k], k - 1) /\ all[k].terminal = "PASS" /\ k - 1 \in Nat
      BY <1>2, <1>3, <2>1, <3>4 DEF RowsFit
    <3> HIDE DEF c
    <3>6. last \in Row /\ last.terminal = "FAIL"
      BY <3>2, <3>4, <3>5 DEF Row
    <3> DEFINE old == all[k]
    <3>7. last = [old EXCEPT !.terminal = "FAIL", !.cause = c]
      BY <3>4
    <3> HIDE DEF last
    <3>8. ValidCase(last, k - 1) /\ last.cause = c /\ last.spawned = all[k].spawned
      <4>1. old \in Row /\ k - 1 \in Nat /\ ValidCase(old, k - 1) /\ old.terminal = "PASS"
        BY <3>5
      <4> HIDE DEF old
      <4>2. /\ ValidCase([old EXCEPT !.terminal = "FAIL", !.cause = c], k - 1)
            /\ [old EXCEPT !.terminal = "FAIL", !.cause = c].cause = c
            /\ [old EXCEPT !.terminal = "FAIL", !.cause = c].spawned = old.spawned
        BY <3>3, <4>1, FailedRowIsValid
      <4> QED BY <3>7, <4>2 DEF old
    <3> DEFINE new == [all EXCEPT ![k] = last]
    <3>9. /\ new \in Seq(Row) /\ Len(new) = Len(all) /\ RowsFit(new)
          /\ (\A n \in 1..Len(all) : new[n] = IF n = k THEN last ELSE all[n])
          /\ InputsOf(new) = InputsOf(all)
      BY <1>3, <3>2, <3>6, <3>8, RowReplaced
    <3>10. Finished = new
      BY <3>1, <3>4
    <3> HIDE DEF new
    <3>11. \A n \in 1..accepted : n \in 1..Len(all) /\ n # k
      BY <1>2, <1>3, <3>4
    <3> QED BY <1>3, <3>4, <3>6, <3>9, <3>10, <3>11
  <2>2. CASE ~(~Complete /\ all[accepted + 1].terminal = "PASS")
    <3>1. Finished = all
      BY <2>2, Zenon DEF Finished, all, Ordinal
    <3> QED BY <1>3, <2>2, <3>1
  <2> QED BY <2>1, <2>2
<1>5. /\ record.ordinal = -1 /\ record.safe /\ record.source /\ record.inputs
      /\ (accepted = Cases => ~record.descendants) /\ Prepared /\ ~Blames(record.cause)
  BY <1>1 DEF ReadyInv, ClaimInv, PreparedInv, InCases, AfterCases
<1> DEFINE c == IF Complete THEN IF broke THEN Cause("CLEANUP", "qualifier_cleanup") ELSE NoCause
                ELSE Finished[accepted + 1].cause
<1>6. /\ CasesRecord.status = (IF Complete /\ ~broke THEN "PASS" ELSE "FAIL") /\ CasesRecord.cause = c
      /\ CasesRecord.ordinal = (IF Complete THEN -1 ELSE accepted)
      /\ CasesRecord.source /\ CasesRecord.inputs /\ CasesRecord.descendants = record.descendants
      /\ (Complete /\ ~broke => CasesRecord.safe)
      /\ DOMAIN CasesRecord = DOMAIN record
  <2>1. CASE Complete /\ ~broke
    <3>1. CasesRecord = [record EXCEPT !.status = "PASS", !.cause = NoCause]
      BY <2>1, Zenon DEF CasesRecord
    <3> QED BY <1>2, <1>5, <2>1, <3>1 DEF Records
  <2>2. CASE Complete /\ broke
    <3>1. CasesRecord = [record EXCEPT !.cause = Cause("CLEANUP", "qualifier_cleanup"), !.safe = FALSE]
      BY <2>2, Zenon DEF CasesRecord
    <3> QED BY <1>2, <1>5, <2>2, <3>1 DEF Records
  <2>3. CASE ~Complete
    <3> DEFINE safe == ~broke
    <3>1. CasesRecord = [record EXCEPT !.cause = c, !.ordinal = Ordinal, !.safe = safe]
      BY <2>3, Zenon DEF CasesRecord, Ordinal
    <3> HIDE DEF c, safe
    <3> QED BY <1>2, <1>5, <2>3, <3>1 DEF Records, Ordinal
  <2> QED BY <2>1, <2>2, <2>3
<1>7. /\ record'.status = (IF Complete /\ ~broke THEN "PASS" ELSE "FAIL") /\ record'.cause = c
      /\ record'.ordinal = (IF Complete THEN -1 ELSE accepted)
      /\ record'.source /\ record'.inputs /\ (Complete => record'.descendants = record.descendants)
      /\ (Complete /\ ~broke => record'.safe)
      /\ record'.aggregate = Aggregate(rows')
  <2> DEFINE counted == IF IsMissing THEN CountsChild(CasesRecord) ELSE CasesRecord
  <2>0. DOMAIN CasesRecord = {"status", "cause", "ordinal", "device", "loaded", "aggregate", "owned", "safe", "source",
                              "inputs", "descendants"}
    BY <1>2, <1>6 DEF Records
  <2>1. /\ counted.status = CasesRecord.status /\ counted.cause = CasesRecord.cause /\ counted.ordinal = CasesRecord.ordinal
        /\ counted.source = CasesRecord.source /\ counted.inputs = CasesRecord.inputs /\ counted.safe = CasesRecord.safe
        /\ (~IsMissing => counted.descendants = CasesRecord.descendants) /\ DOMAIN counted = DOMAIN CasesRecord
    <3> DEFINE d == CasesRecord.descendants \/ child.state = "left"
    <3>1. counted = CasesRecord \/ (IsMissing /\ counted = [CasesRecord EXCEPT !.descendants = d])
      BY DEF CountsChild
    <3> HIDE DEF counted, d
    <3> QED BY <2>0, <3>1
  <2>2. Complete => ~IsMissing
    BY DEF IsMissing
  <2> DEFINE counts == Aggregate(rows')
  <2>3. record' = [counted EXCEPT !.aggregate = counts]
    BY <1>1
  <2> HIDE DEF counted, counts, c
  <2>4. /\ record'.status = counted.status /\ record'.cause = counted.cause /\ record'.ordinal = counted.ordinal
        /\ record'.source = counted.source /\ record'.inputs = counted.inputs /\ record'.safe = counted.safe
        /\ record'.descendants = counted.descendants /\ record'.aggregate = counts
    BY <2>0, <2>1, <2>3
  <2> QED BY <1>6, <2>1, <2>2, <2>4 DEF counts
<1>8. /\ ~Blames(record'.cause) /\ (record'.status = "FAIL" => CauseKnown(record'.cause))
      /\ (record'.status = "PASS" => record'.cause = NoCause)
  <2>1. ~Blames(NoCause) /\ CauseKnown(Cause("CLEANUP", "qualifier_cleanup")) /\ ~Blames(Cause("CLEANUP", "qualifier_cleanup"))
    <3>1. NoCause \in CaseCauses /\ "CLEANUP" \in {"SOURCE_IDENTITY", "CONFIG", "CLEANUP"}
          /\ "qualifier_cleanup" \in {"source", "qualifier_cleanup", "plan"}
      BY DEF CaseCauses
    <3> QED BY <3>1, CausesOfCases
  <2>2. ~Complete => CauseKnown(Finished[accepted + 1].cause) /\ ~Blames(Finished[accepted + 1].cause)
    <3>1. SUFFICES ASSUME ~Complete PROVE CauseKnown(Finished[accepted + 1].cause) /\ ~Blames(Finished[accepted + 1].cause)
      OBVIOUS
    <3>2. PICK k \in 1..Len(Finished) : k = accepted + 1
      BY <1>2, <1>3, <1>4, <3>1
    <3>3. ValidCase(Finished[k], k - 1) /\ Finished[k].cause \in CaseCauses
      BY <1>4 DEF RowsFit
    <3>4. CauseKnown(Finished[accepted + 1].cause)
      BY <1>4, <3>1, <3>2, <3>3 DEF ValidCase, CauseAdmitted
    <3> QED BY <3>2, <3>3, <3>4, CausesOfCases
  <2> QED BY <1>2, <1>7, <2>1, <2>2
<1> HIDE DEF c
<1>9. PreparedInv'
  <2>1. Prepared'
    BY <1>1, <1>5 DEF Prepared
  <2> QED BY <1>1, <1>8, <2>1 DEF PreparedInv, Early, InCases, AfterCases, After, Blames
<1>10. FilesInv'
  <2>1. standard \in Nat /\ Projected(standard) <= FileLimit /\ kept_files = Parts
    BY <1>1, RolesHere DEF ReadyInv, FilesInv, Early
  <2>2. Blamed = {} /\ Blamed' = {}
    BY <1>5, <1>8 DEF Blamed, Blames
  <2>3. Inputs = InputsOf(rows) /\ Inputs' = InputsOf(all)
    <3>1. Inputs' = InputsOf(rows')
      BY DEF Inputs, InputsOf
    <3> QED BY <1>1, <1>4, <3>1 DEF Inputs, InputsOf
  <2>4. Artifacts' = Artifacts
    BY <1>1 DEF Artifacts
  <2>5. kept_files' = Parts'
    BY <1>3, <2>1, <2>2, <2>3, <2>4 DEF Parts, Logs
  <2>6. Projected(standard') <= FileLimit
    BY <1>1, <2>1 DEF Projected
  <2> QED BY <1>1, <2>1, <2>5, <2>6, RolesHere DEF FilesInv
<1>11. RowsInv'
  <2>1. \A n \in 1..Len(rows') : ValidCase(rows'[n], n - 1) /\ rows'[n].cause \in CaseCauses
    BY <1>1, <1>4 DEF RowsFit
  <2>2. accepted' <= Len(rows') /\ Len(rows') <= Cases /\ (accepted' = Cases => Len(rows') = Cases)
    BY <1>1, <1>2, <1>3, <1>4
  <2> QED BY <1>1, <1>4, <2>1, <2>2 DEF RowsInv
<1>12. ClaimInv'
  <2>1. record'.status = "PASS" => Complete /\ ~broke
    BY <1>7
  <2>2. record'.ordinal \in -1..Cases - 1
    BY <1>2, <1>7 DEF Complete
  <2>3. record'.status = "PASS" =>
          /\ Prepared' /\ record'.cause = NoCause /\ record'.ordinal = -1
          /\ record'.safe /\ record'.source /\ record'.inputs /\ ~record'.descendants
    <3>1. Prepared'
      BY <1>1, <1>5 DEF Prepared
    <3> QED BY <1>5, <1>7, <1>8, <2>1, <3>1 DEF Complete
  <2> QED BY <1>1, <1>7, <1>8, <2>2, <2>3 DEF ClaimInv, InCases, AfterCases, After
<1>13. FaultlessInv'
  <2>1. ~faults => (\A f \in Tracked \ todo : SameFile(f)) /\ ~broke /\ accepted = Cases
    BY <1>1 DEF ReadyInv, FaultlessInv, AfterCases
  <2>2. ~faults => record'.status = "PASS"
    BY <1>7, <2>1 DEF Complete
  <2> QED BY <1>1, <2>1, <2>2 DEF FaultlessInv, SameFile, AfterCases, After
<1> QED BY <1>9, <1>10, <1>11, <1>12, <1>13 DEF ReadyInv

LEMMA InitiallyReady ==
    ASSUME CaptureInit PROVE EvidenceInv
<1>1. /\ at = "admit" /\ commands = 0 /\ identities = {} /\ rows = <<>> /\ accepted = 0 /\ broke = FALSE
      /\ record = NoRecord
  BY DEF CaptureInit, QualificationInit
<1>2. SUFFICES ASSUME who = "qualifier" PROVE outcome = "running" /\ ReadyInv
  BY <1>1 DEF EvidenceInv
<1>3. QualifierInit
  <2>1. who \in Readers => who # "qualifier"
    BY ReadersAssumption
  <2> QED BY <1>2, <2>1 DEF CaptureInit, Init
<1>4. outcome = "running" /\ todo = Tracked /\ standard \in Nat
  BY <1>3, StandardsAssumption DEF QualifierInit
<1>5. PreparedInv
  <2>1. 0 \in 0..Preparations - 1
    <3>1. Preparations = 5
      BY StagesDiffer
    <3> QED BY <3>1
  <2>2. 0..0 - 1 = {}
    OBVIOUS
  <2> QED BY <1>1, <2>1, <2>2 DEF PreparedInv, Early, InCases, AfterCases, After
<1>6. FilesInv /\ ClaimInv
  BY <1>1, <1>4 DEF FilesInv, ClaimInv, Early, InCases, AfterCases, After
<1>7. RowsInv
  BY <1>1, QualKinds DEF RowsInv
<1>8. FaultlessInv
  BY <1>1, <1>4 DEF FaultlessInv, AfterCases, After
<1> QED BY <1>4, <1>5, <1>6, <1>7, <1>8 DEF ReadyInv

LEMMA ReadyStep ==
    ASSUME QualInv, EvidenceInv, QualifierNext PROVE EvidenceInv'
<1>1. who = "qualifier" /\ outcome = "running" /\ who' = who
  BY DEF QualifierNext, AdmitsInput, Opens, StagesBackend, Prepares, PreparationFails, PreparationIsNotStarted,
        Plans, Constructs, ConstructionFails, ChildRuns, ChildIsLost, Accepts, AcceptRaises, RemovesScratch, SumsUp,
        VerifiesSources, RechecksInput, Collects, Cleans, StagesEvidence, PublishesEvidence, Aborts, WritesInput,
        TakesPlace, Is, captureVars, PrepUnchanged, CaseUnchanged, EndUnchanged
<1>2. RunInv /\ ReadyInv
  BY <1>1 DEF QualInv, EvidenceInv
<1>3. ASSUME outcome' = "running" => ReadyInv', outcome' # "running" => ResultIsPublishable' PROVE EvidenceInv'
  BY <1>1, <1>3 DEF EvidenceInv
<1>4. ASSUME at' \notin {"verify", "stage"} PROVE ResultIsPublishable'
  BY <1>4 DEF ResultIsPublishable
<1>5. CASE (\E f \in Tracked : AdmitsInput(f)) \/ Opens \/ StagesBackend
  <2>1. outcome' # "running" => at' \notin {"verify", "stage"}
    BY <1>5 DEF AdmitsInput, Opens, StagesBackend, Is
  <2> QED BY <1>2, <1>3, <1>4, <1>5, <2>1, EarlyReady
<1>6. CASE Prepares \/ PreparationFails \/ PreparationIsNotStarted \/ Plans
  <2>1. outcome' = "running"
    BY <1>1, <1>6 DEF Prepares, PreparationFails, PreparationIsNotStarted, Plans, PrepUnchanged
  <2> QED BY <1>2, <1>3, <1>6, <2>1, PreparesReady, StopsReady, PlansReady
<1>7. CASE Constructs \/ ConstructionFails \/ ChildRuns \/ ChildIsLost \/ AcceptRaises \/ RemovesScratch
  <2>1. outcome' = "running"
    BY <1>1, <1>7 DEF Constructs, ConstructionFails, ChildRuns, ChildIsLost, AcceptRaises, RemovesScratch, CaseUnchanged
  <2> QED BY <1>2, <1>3, <1>7, <2>1, CaseReady
<1>8. CASE Accepts \/ SumsUp
  <2>1. outcome' = "running"
    BY <1>1, <1>8 DEF Accepts, SumsUp, CaseUnchanged
  <2> QED BY <1>2, <1>3, <1>8, <2>1, AcceptReady, SumReady
<1>9. CASE VerifiesSources \/ RechecksInput \/ Cleans \/ Collects
  <2>1. outcome' # "running" => at' \notin {"verify", "stage"}
    BY <1>1, <1>9 DEF VerifiesSources, RechecksInput, Cleans, Collects, Is
  <2> QED BY <1>2, <1>3, <1>4, <1>9, <2>1, EndReady
<1>10. CASE StagesEvidence
  <2>1. outcome' # "running" =>
          UNCHANGED <<at, record, commands, identities, rows, kept_files, standard, faults>>
    BY <1>1, <1>10 DEF StagesEvidence, EndUnchanged, prepVars, caseVars
  <2>2. ResultIsPublishable
    BY <1>2, ReadyIsPublishable
  <2>3. outcome' # "running" => ResultIsPublishable'
    <3>1. SUFFICES ASSUME outcome' # "running" PROVE ResultIsPublishable'
      OBVIOUS
    <3>2. Evidence' = Evidence
      BY <2>1, <3>1 DEF Evidence
    <3>3. Replays(Evidence, kept_files)' <=> Replays(Evidence, kept_files)
      BY <2>1, <3>1, <3>2
    <3>4. CountAdmitted(standard, kept_files)' <=> CountAdmitted(standard, kept_files)
      BY <2>1, <3>1
    <3> QED BY <2>1, <2>2, <3>1, <3>3, <3>4 DEF ResultIsPublishable, KeptToBudget
  <2> QED BY <1>2, <1>3, <1>10, <2>3, EndReady
<1>11. CASE PublishesEvidence \/ Aborts
  <2>1. outcome' # "running" /\ at' \notin {"verify", "stage"}
    BY <1>11 DEF PublishesEvidence, Aborts, RaisesOut, Is
  <2> QED BY <1>3, <1>4, <2>1
<1>12. CASE TakesPlace \/ \E f \in Tracked, v \in {Good, Bad} : WritesInput(f, v)
  <2>1. outcome' = "running"
    BY <1>1, <1>12 DEF TakesPlace, WritesInput
  <2> QED BY <1>2, <1>3, <1>12, <2>1, WrittenReady
<1> QED BY <1>5, <1>6, <1>7, <1>8, <1>9, <1>10, <1>11, <1>12 DEF QualifierNext

LEMMA EvidenceStep ==
    ASSUME QualInv, CaptureInv, EvidenceInv, [CaptureNext]_<<vars, qualVars>> PROVE EvidenceInv'
<1>1. CASE QualifierNext
  BY <1>1, ReadyStep
<1>2. ASSUME who # "qualifier", Next, UNCHANGED qualVars PROVE EvidenceInv'
  <2>1. who' = who
    <3>1. CASE Reader
      BY <1>2, <3>1, TypesAreKept DEF CaptureInv, ReaderInv
    <3>2. CASE DeveloperWrites \/ SomebodyPublishes
      BY <3>2 DEF DeveloperWrites, SomebodyPublishes, readVars
    <3> QED BY <1>2, <3>1, <3>2 DEF Next
  <2> QED BY <1>2, <2>1 DEF EvidenceInv, qualVars
<1>3. CASE UNCHANGED <<vars, qualVars>>
  <2>1. /\ UNCHANGED <<who, outcome, todo, work, stamp, marks>>
        /\ UNCHANGED <<at, record, commands, identities, rows, kept_files, standard, faults, accepted, broke, child>>
    BY <1>3 DEF vars, treeVars, readVars, qualVars, inputVars, caseVars, historyVars, prepVars
  <2>2. Evidence' = Evidence
    BY <2>1 DEF Evidence
  <2>3. /\ Replays(Evidence, kept_files)' <=> Replays(Evidence, kept_files)
        /\ CountAdmitted(standard, kept_files)' <=> CountAdmitted(standard, kept_files)
    BY <2>1, <2>2
  <2>4. ResultIsPublishable => ResultIsPublishable'
    BY <2>1, <2>3 DEF ResultIsPublishable, KeptToBudget
  <2>5. PreparedInv => PreparedInv'
    BY <2>1 DEF PreparedInv, Prepared, Blames, StoppedAt
  <2>6. FilesInv => FilesInv'
    <3>1. Blamed' = Blamed
      BY <2>1 DEF Blamed
    <3> QED BY <2>1, <3>1, FilesStay
  <2>7. RowsInv /\ ClaimInv /\ FaultlessInv => RowsInv' /\ ClaimInv' /\ FaultlessInv'
    BY <2>1 DEF RowsInv, ClaimInv, FaultlessInv, SameFile, Prepared
  <2> QED BY <2>1, <2>4, <2>5, <2>6, <2>7 DEF EvidenceInv, ReadyInv
<1> QED BY <1>1, <1>2, <1>3 DEF CaptureNext, OtherReaders

\* Whatever happens to a qualification, however many cases it has, it comes to
\* evidence that its own reader admits, within the files that were reserved for
\* it; one in which nothing goes wrong comes to a pass
\* (gpu_qualification_result.py, gpu_qualification_records.py).
THEOREM EvidenceIsAlwaysPublishable == CaptureSpec => []ResultIsPublishable
<1>1. CaptureInit => CaptureInv /\ QualInv /\ EvidenceInv
  BY InitiallyCaptured, InitiallyQualified, InitiallyReady
<1>2. CaptureInv /\ QualInv /\ EvidenceInv /\ [CaptureNext]_<<vars, qualVars>> => (CaptureInv /\ QualInv /\ EvidenceInv)'
  BY CaptureStep, QualStep, EvidenceStep
<1>3. QualInv /\ EvidenceInv => ResultIsPublishable
  <2>1. CASE who = "qualifier" /\ outcome = "running"
    BY <2>1, ReadyIsPublishable DEF QualInv, EvidenceInv
  <2>2. CASE who = "qualifier" /\ outcome # "running"
    BY <2>2 DEF EvidenceInv
  <2>3. CASE who # "qualifier"
    BY <2>3 DEF EvidenceInv, ResultIsPublishable
  <2> QED BY <2>1, <2>2, <2>3
<1> QED BY <1>1, <1>2, <1>3, PTL DEF CaptureSpec
=============================================================================
