---------------------------- MODULE PromptScore ----------------------------
(***************************************************************************)
(* The verdict of a prompt evaluation: what complete_score in              *)
(* scripts/prompt-evaluate.py concludes from the rows of the two arms, the *)
(* parent prompt and its candidate, over every task and sample.            *)
(*                                                                         *)
(* An arm is a function from trials to rows.  A row keeps what the verdict *)
(* tells apart: the status of its last attempt, how the build and the test *)
(* ended, the repairs that ran, the time to the passing patch and whether  *)
(* one of the task's own limits (diff, API, size, benchmark) was exceeded. *)
(***************************************************************************)
EXTENDS Integers, FiniteSets

CONSTANTS
  Tasks,            \* the tasks of the corpus
  SampleCount,      \* request["sample_count"]
  RepairLimit,      \* maximum_repair_loops of every task
  MinimumGain,      \* minimum_completion_gain_count
  MinimumFaster,    \* minimum_time_improvement_ppm
  MaximumSlower,    \* maximum_time_regression_ppm
  MaximumRepairs    \* maximum_repair_loop_regression_count

\* Parts per million.
Ppm == 1000000

\* The bounds validate_input_artifact_shape and the task rules impose.
ASSUME ScoreAssumption ==
  /\ IsFiniteSet(Tasks) /\ Tasks # {}
  /\ SampleCount \in Nat \ {0}
  /\ RepairLimit \in {0, 1}
ASSUME PolicyAssumption ==
  /\ MinimumGain \in 1..1024
  /\ MinimumFaster \in 1..Ppm
  /\ MaximumSlower \in 0..Ppm
  /\ MaximumRepairs \in 0..65536

Trials == Tasks \X (1..SampleCount)
Statuses == {"PASS", "FAIL", "POLICY_VIOLATION"}
Row == [status: Statuses, build: {"PASS", "FAIL"}, test: {"PASS", "FAIL"},
        repairs: {0, 1}, time: Nat, over: BOOLEAN]
Verdicts == {"SERIOUS_REGRESSION", "IMPROVED", "NO_IMPROVEMENT"}

Of(t) == {x \in Trials : x[1] = t}
Passes(a) == {x \in Trials : a[x].status = "PASS"}
Paired(p, c) == Passes(p) \cap Passes(c)
Repairs(a) == Cardinality({x \in Trials : a[x].repairs = 1})

\* score_median: the middle of the sorted times, the mean of the two middle
\* ones rounded down when their number is even.
Kth(a, S, k) ==
  CHOOSE v \in {a[x].time : x \in S} :
    /\ Cardinality({x \in S : a[x].time < v}) < k
    /\ k <= Cardinality({x \in S : a[x].time <= v})
Median(a, S) ==
  LET n == Cardinality(S)
      lower == Kth(a, S, n \div 2)
      upper == Kth(a, S, n \div 2 + 1)
  IN  IF n % 2 = 1 THEN upper ELSE lower + (upper - lower) \div 2

\* time_metrics: defined only where some trial passed on both arms and the
\* parent's median is not zero.
Timed(p, S) == S # {} /\ Median(p, S) > 0
Faster(p, c, S) ==
  LET old == Median(p, S)
      new == Median(c, S)
  IN  IF new <= old THEN ((old - new) * Ppm) \div old ELSE 0
Slower(p, c, S) ==
  LET old == Median(p, S)
      new == Median(c, S)
  IN  IF new <= old THEN 0 ELSE ((new - old) * Ppm) \div old
TooSlow(p, c, S) == Timed(p, S) /\ Slower(p, c, S) > MaximumSlower

\* The serious regressions: of the corpus, of a task, of a trial.
CorpusRegresses(p, c) ==
  \/ Repairs(c) - Repairs(p) > MaximumRepairs
  \/ TooSlow(p, c, Paired(p, c))
TaskRegresses(p, c) == \E t \in Tasks : TooSlow(p, c, Paired(p, c) \cap Of(t))
TrialRegresses(p, c) ==
  \E x \in Trials :
    \/ p[x].repairs > RepairLimit \/ c[x].repairs > RepairLimit
    \/ p[x].status = "PASS" /\ c[x].status # "PASS"
    \/ p[x].build = "PASS" /\ c[x].build # "PASS"
    \/ p[x].test = "PASS" /\ c[x].test # "PASS"
    \/ c[x].status = "POLICY_VIOLATION"
    \/ c[x].over
Regresses(p, c) == CorpusRegresses(p, c) \/ TaskRegresses(p, c) \/ TrialRegresses(p, c)

Gain(p, c) == Cardinality(Passes(c)) - Cardinality(Passes(p))
Completes(p, c) == Gain(p, c) >= MinimumGain
\* The code also asks that no task lose a pass, which the absence of a
\* PASS_TO_FAIL regression already gives.
Hastens(p, c) ==
  /\ Gain(p, c) = 0
  /\ \A t \in Tasks : Cardinality(Passes(c) \cap Of(t)) >= Cardinality(Passes(p) \cap Of(t))
  /\ Repairs(c) <= Repairs(p)
  /\ Timed(p, Paired(p, c))
  /\ Faster(p, c, Paired(p, c)) >= MinimumFaster

Verdict(p, c) ==
  IF Regresses(p, c) THEN "SERIOUS_REGRESSION"
  ELSE IF Completes(p, c) \/ Hastens(p, c) THEN "IMPROVED"
  ELSE "NO_IMPROVEMENT"
=============================================================================
