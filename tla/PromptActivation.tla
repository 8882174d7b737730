-------------------------- MODULE PromptActivation --------------------------
(***************************************************************************)
(* The prompt a repository works with, as a history of documents: a        *)
(* baseline written by hand, `prompt accept`, which makes the candidate of *)
(* an improved evaluation effective, and `prompt rollback`, which makes an *)
(* ancestor's variant effective again (src/prompt_state.align).  There is  *)
(* no pointer to the latest one and no lock: an activation names its       *)
(* parent by digest, a command creates its result file first, and a path   *)
(* says nothing about what lies there.  The gate later asks for a          *)
(* baseline, an acceptance and a rollback that belong together             *)
(* (validate_chain of scripts/prompt-gate-validator.py).                   *)
(*                                                                         *)
(* Abstractions: a digest is a position in the sequence of all contents    *)
(* that were ever written, 0 is the empty pair of id and digest.  A        *)
(* command is one step: it builds on the contents it has read, wherever    *)
(* they are when it writes, and until then its result file is to others as *)
(* good as absent.  A failed decision does not keep which failure it was,  *)
(* nor a file that cannot be decoded what is wrong with it.  The evidence  *)
(* goes with its evaluation, of which an incomplete one is like one that   *)
(* found no improvement: accept refuses both.                              *)
(***************************************************************************)
EXTENDS Naturals, Sequences, FiniteSets

CONSTANTS
  Paths, Ids, Variants, Scopes,
  MaxAncestors,  \* ancestor paths that a rollback request may name
  Decisions,     \* bound: contents written
  Evaluations,   \* bound: evaluations published
  Mishaps        \* bound: failed decisions, crashes, and what is done by hand:
                 \* more baselines, copies and removals

ASSUME LineageAssumption ==
  /\ Decisions \in Nat \ {0} /\ Evaluations \in Nat /\ Mishaps \in Nat
  /\ MaxAncestors \in Nat

ASSUME NamesAreThere == Ids # {} /\ Variants # {} /\ Scopes # {}

VARIABLES
  files,     \* what a path holds
  written,   \* the activations
  measured,  \* the evaluations
  mishaps

lineage == <<files, written, measured, mishaps>>

File(is, digest) == [is |-> is, digest |-> digest]
Absent == File("ABSENT", 0)
Torn == File("TORN", 0)

Operations == {"BASELINE", "ACCEPT", "ROLLBACK"}
Digests == 0..Decisions

Contents ==
  [id : Ids, operation : Operations, scope : Scopes, parent : Digests,
   variant : Variants, evaluation : 0..Evaluations, target : Digests]
Measurements ==
  [path : Paths, parent : Digests, candidate : Variants, scope : Scopes, improved : BOOLEAN]

LineageTypeOK ==
  /\ files \in [Paths -> [is : {"ABSENT", "TORN", "FAILURE", "ACTIVATION"}, digest : Digests]]
  /\ written \in Seq(Contents) /\ measured \in Seq(Measurements)
  /\ Len(measured) <= Evaluations /\ mishaps \in 0..Mishaps

\* A failure is a document like another; only an activation can be selected.
Decodes(p) == files[p] \notin {Absent, Torn}
Selectable(p) == files[p].is = "ACTIVATION"
Selected == {p \in Paths : Selectable(p)}
At(p) == written[files[p].digest]

\* write_prompt_activation_result: equal contents have equal digests.
Retains(p, a) ==
  LET same == {n \in DOMAIN written : written[n] = a}
      digest == IF same = {} THEN Len(written) + 1 ELSE CHOOSE n \in same : TRUE
  IN  /\ digest <= Decisions
      /\ written' = IF same = {} THEN Append(written, a) ELSE written
      /\ files' = [files EXCEPT ![p] = File("ACTIVATION", digest)]
Mishap(p, content) ==
  /\ mishaps < Mishaps /\ mishaps' = mishaps + 1
  /\ files' = [files EXCEPT ![p] = content] /\ UNCHANGED written
-----------------------------------------------------------------------------
(* What happens around the two commands.                                   *)

\* The reviewed initial envelope.
Baseline(id, v, s) ==
  [id |-> id, operation |-> "BASELINE", scope |-> s, parent |-> 0,
   variant |-> v, evaluation |-> 0, target |-> 0]
Baselines(p, id, v, s) ==
  /\ files[p] = Absent /\ Retains(p, Baseline(id, v, s))
  /\ mishaps < Mishaps /\ mishaps' = mishaps + 1 /\ UNCHANGED measured

\* The evaluator compares a candidate with the activation at p, in its scope, and
\* does not start on one that is the activation's own (variants_match).
Evaluates(p, v, improved) ==
  LET e == [path |-> p, parent |-> files[p].digest, candidate |-> v,
            scope |-> At(p).scope, improved |-> improved]
  IN  /\ Selectable(p) /\ v # At(p).variant /\ Len(measured) < Evaluations
      /\ \A n \in DOMAIN measured : measured[n] # e
      /\ measured' = Append(measured, e)
      /\ UNCHANGED <<files, written, mishaps>>

\* By hand: q copied over p, or p removed.
Moves(p, content) ==
  /\ content # files[p] /\ content.is \in {"ABSENT", "ACTIVATION"}
  /\ Mishap(p, content) /\ UNCHANGED measured

\* create_exclusive_beneath comes before anything is looked at: after a crash,
\* or an error while the result is written, nothing removes the file.
Dies(p) ==
  /\ files[p] = Absent /\ Mishap(p, Torn) /\ UNCHANGED measured

\* write_failure
Fails(p) == Mishap(p, File("FAILURE", 0))
-----------------------------------------------------------------------------
(* prompt accept                                                           *)

\* prompt_score.verify_result, beside the verdict: the embedded parent and the
\* candidate are those of the scope, and they differ.
Verified(e) ==
  e.scope = written[e.parent].scope /\ e.candidate # written[e.parent].variant

\* parent_matches_evaluation, for one that trusts the path.
ParentAtPath(e, q) == Selectable(q) /\ e.path = q
ParentMatches(e, q) == Selectable(q) /\ e.path = q /\ e.parent = files[q].digest

\* An evaluation that ended in an error is an input as invalid as one that cannot be
\* verified; it fails as one without an improvement does.
AcceptStatus(e, q) ==
  IF ~Decodes(q) \/ ~Verified(e) THEN "INVALID_INPUT"
  ELSE IF ~e.improved THEN "INELIGIBLE"
  ELSE IF ~ParentMatches(e, q) THEN "PARENT_MISMATCH"
  ELSE "ACCEPTED"

Acceptance(id, n, q) ==
  [id |-> id, operation |-> "ACCEPT", scope |-> measured[n].scope, parent |-> files[q].digest,
   variant |-> measured[n].candidate, evaluation |-> n, target |-> 0]
Accepts(p) ==
  /\ files[p] = Absent
  /\ \E n \in DOMAIN measured, q \in Paths :
       IF AcceptStatus(measured[n], q) = "ACCEPTED"
       THEN \E id \in Ids : Retains(p, Acceptance(id, n, q)) /\ UNCHANGED mishaps
       ELSE Fails(p)
  /\ UNCHANGED measured
-----------------------------------------------------------------------------
(* prompt rollback                                                         *)

\* identities_unique
Unique(line) ==
  \A i, j \in DOMAIN line :
    i # j => At(line[i]).id # At(line[j]).id /\ files[line[i]].digest # files[line[j]].digest

\* Each path of a line holds the parent of the one before it.
LinkedFromSecond(line) ==
  \A i \in 2..Len(line) - 1 : files[line[i + 1]].digest = At(line[i]).parent
Linked(line) ==
  \A i \in 1..Len(line) - 1 : files[line[i + 1]].digest = At(line[i]).parent

\* The request names the current activation, the target and what lies between.
RollbackStatus(current, between, target, reason) ==
  LET line == <<current>> \o between
      all == line \o <<target>>
      last == line[Len(line)]
      foreign(p) == At(p).scope # At(current).scope
  IN  IF \E i \in DOMAIN all : ~Selectable(all[i]) THEN "INVALID_INPUT"
      ELSE IF ~Unique(all) \/ ~Linked(line) THEN "INVALID_INPUT"
      ELSE IF \E i \in DOMAIN line : foreign(line[i]) THEN "SCOPE_MISMATCH"
      ELSE IF files[target].digest # At(last).parent THEN "UNKNOWN_TARGET"
      ELSE IF foreign(target) THEN "SCOPE_MISMATCH"
      ELSE IF At(target).variant = At(current).variant THEN "NO_CHANGE"
      ELSE IF ~reason THEN "INVALID_INPUT"
      ELSE "ROLLED_BACK"

Between(paths) == UNION {[1..n -> paths] : n \in 0..MaxAncestors}

\* A rollback that keeps the provenance of what it leaves.
RollbackOfCurrent(id, current, target) ==
  [id |-> id, operation |-> "ROLLBACK", scope |-> At(current).scope,
   parent |-> files[current].digest, variant |-> At(target).variant,
   evaluation |-> At(current).evaluation, target |-> files[target].digest]
Rollback(id, current, target) ==
  [id |-> id, operation |-> "ROLLBACK", scope |-> At(current).scope,
   parent |-> files[current].digest, variant |-> At(target).variant,
   evaluation |-> At(target).evaluation, target |-> files[target].digest]
RollsBack(p) ==
  /\ files[p] = Absent
  /\ \E current, target \in Paths, between \in Between(Paths), reason \in BOOLEAN :
       IF RollbackStatus(current, between, target, reason) = "ROLLED_BACK"
       THEN \E id \in Ids : Retains(p, Rollback(id, current, target)) /\ UNCHANGED mishaps
       ELSE Fails(p)
  /\ UNCHANGED measured
-----------------------------------------------------------------------------
\* One baseline is there; its id, scope and variant are as good as any.
LineageInit ==
  /\ \E p \in Paths : files = [q \in Paths |-> IF q = p THEN File("ACTIVATION", 1) ELSE Absent]
  /\ LET first == CHOOSE x \in Ids \X Variants \X Scopes : TRUE
     IN  written = <<Baseline(first[1], first[2], first[3])>>
  /\ measured = <<>> /\ mishaps = 0

LineageNext ==
  \/ \E p \in Paths, id \in Ids, v \in Variants, s \in Scopes : Baselines(p, id, v, s)
  \/ \E p \in Paths, v \in Variants, improved \in BOOLEAN : Evaluates(p, v, improved)
  \/ \E p, q \in Paths : \E content \in {Absent, files[q]} : Moves(p, content)
  \/ \E p \in Paths : Dies(p) \/ Accepts(p) \/ RollsBack(p)

LineageSpec == LineageInit /\ [][LineageNext]_lineage
-----------------------------------------------------------------------------
(* The gate's chain: the documents at b, a and r, and the evaluation e.    *)

Serves(e) == e.improved /\ e.candidate # written[e.parent].variant

\* validate_chain, for one that accepts a rollback of anything to the baseline.
ChainToBaseline(b, a, r, n) ==
  LET e == measured[n]
  IN  /\ \A p \in {b, a, r} : At(p).scope = e.scope
      /\ At(b).variant = written[e.parent].variant /\ At(a).variant = e.candidate
      /\ At(r).variant = written[e.parent].variant
      /\ At(a).parent = files[b].digest /\ At(a).evaluation = n
      /\ At(r).target = files[b].digest
      /\ Cardinality({At(p).id : p \in {b, a, r}}) = 3
ChainAdmitted(b, a, r, n) ==
  LET e == measured[n]
  IN  /\ \A p \in {b, a, r} : At(p).scope = e.scope
      /\ At(b).variant = written[e.parent].variant /\ At(a).variant = e.candidate
      /\ At(r).variant = written[e.parent].variant
      /\ At(a).parent = files[b].digest /\ At(a).evaluation = n
      /\ At(r).parent = files[a].digest /\ At(r).target = files[b].digest
      /\ Cardinality({At(p).id : p \in {b, a, r}}) = 3

\* validate_activation
Is(p, operation) == Selectable(p) /\ At(p).operation = operation

\* validate_manifest asks for three paths.
GateTakes(b, a, r, n) ==
  /\ b # a /\ b # r /\ a # r
  /\ Is(b, "BASELINE") /\ Is(a, "ACCEPT") /\ Is(r, "ROLLBACK")
  /\ Serves(measured[n]) /\ ChainAdmitted(b, a, r, n)
-----------------------------------------------------------------------------
\* An activation with those it descends from: they are in every set that holds it
\* and the parents of its members.
HoldsParents(S, contents) == \A k \in S : contents[k].parent # 0 => contents[k].parent \in S
LineIn(contents, n) ==
  {k \in DOMAIN contents :
     \A S \in SUBSET DOMAIN contents : n \in S /\ HoldsParents(S, contents) => k \in S}
LineOf(n) == LineIn(written, n)

(* Whatever is copied, removed, torn or decided in between, a decision     *)
(* keeps the scope of its parent and changes the variant, and a variant    *)
(* that is not a baseline's is the candidate of the improved evaluation    *)
(* the activation names.                                                   *)
DecisionsAreSound ==
  \A n \in DOMAIN written :
    LET a == written[n]
    IN  /\ a.parent # 0 => a.scope = written[a.parent].scope /\ a.variant # written[a.parent].variant
        /\ a.evaluation # 0 =>
             measured[a.evaluation].improved /\ measured[a.evaluation].candidate = a.variant

(* Along a line: its scope is one, and the variant of an activation is one *)
(* that was effective on this line before, the baseline's or the one that  *)
(* was accepted on it over the parent its evaluation measured.             *)
LinesAreSound ==
  \A n \in DOMAIN written :
    LET a == written[n]
    IN  /\ \A k \in LineOf(n) : written[k].scope = a.scope
        /\ IF a.evaluation = 0
           THEN \A k \in LineOf(n) : written[k].parent = 0 => written[k].variant = a.variant
           ELSE \E k \in LineOf(n) :
                  /\ written[k].operation = "ACCEPT" /\ written[k].evaluation = a.evaluation
                  /\ measured[a.evaluation].parent = written[k].parent

(* No decision is final: where the documents of a line are still there, no *)
(* id is used twice and the variants differ, a rollback along it succeeds; *)
(* to a direct parent the variants always differ.                          *)
DecisionsCanBeUndone ==
  \A current, target \in Selected, between \in Between(Selected) :
    LET line == <<current>> \o between \o <<target>>
    IN  /\ \A i, j \in DOMAIN line : i # j => At(line[i]).id # At(line[j]).id
        /\ \A i \in 1..Len(line) - 1 : files[line[i + 1]].digest = At(line[i]).parent
        /\ between = <<>> \/ At(current).variant # At(target).variant
        => RollbackStatus(current, between, target, TRUE) = "ROLLED_BACK"

\* The rollback, to the baseline b, of the acceptance of evaluation n over it.
AreOfOneLine(b, a, r, n) ==
  /\ At(b).parent = 0
  /\ At(a).parent = files[b].digest /\ At(a).evaluation = n /\ At(a).operation = "ACCEPT"
  /\ At(r).parent = files[a].digest /\ At(r).target = files[b].digest
  /\ Cardinality({At(p).id : p \in {b, a, r}}) = 3

(* The gate takes exactly what the two commands made of each other's       *)
(* documents, under three ids.                                             *)
GateTakesTheLine ==
  \A b, a, r \in Selected, n \in DOMAIN measured :
    Cardinality({b, a, r}) = 3 => (GateTakes(b, a, r, n) <=> AreOfOneLine(b, a, r, n))

\* The history of activations holds together, for whoever continues it and for
\* the gate.
LineageIsKept ==
  DecisionsAreSound /\ LinesAreSound /\ DecisionsCanBeUndone /\ GateTakesTheLine

(* The id of a decision is used once.  This is not kept by the code and no *)
(* part of a run: neither command compares the id it is given with those   *)
(* of the line, and a line with an id twice cannot be rolled back across.  *)
IdsAreUsedOnce ==
  \A n \in DOMAIN written : \A k \in LineOf(n) \ {n} : written[k].id # written[n].id
=============================================================================
