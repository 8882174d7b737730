------------------------------ MODULE Residency ------------------------------
(***************************************************************************)
(* The expert residency simulator, residency_sim.align: from the traces of *)
(* routed experts to the verdict whether a candidate policy fetches fewer  *)
(* bytes than lru.  A behaviour is one row of the sweep: one replay order  *)
(* at one budget, and for the requested budget the leave-one-document-out  *)
(* jackknife.                                                              *)
(*                                                                         *)
(* Abstracted: the documents' text and schema checks (a trace is its       *)
(* graphs and its selections), the report, the hash of the trace list.  A  *)
(* key is layer * NExpert + expert, as in the code; the packed words are   *)
(* the tuples they pack.  Indices start at 1.                              *)
(***************************************************************************)
EXTENDS Integers, Sequences, SequencesExt, FiniteSetsExt, Functions

CONSTANTS
  NLayer, NExpert,        \* the shape of the model
  Windows, Degrees,       \* windows of recent_reuse, degrees of topk_prefetch
  MaxDemands,             \* MAX_DEMANDS
  MaxSteps,               \* MAX_SIMULATION_STEPS
  MaxByteTotal,           \* MAX_BYTE_TOTAL
  MaxDegree,              \* MAX_PREFETCH_DEGREE
  Corpora                 \* the lists of traces and Model IRs a run is given

VARIABLES
  traces,     \* the admitted list, in order: [graphs, selections] each
  blocks,     \* size of each key's expert block, of the keys that have one
  requested,  \* BUDGET_BYTES
  resets,     \* reset_per_trace
  order,      \* "token_major" or "layer_major"
  row,        \* the row of the sweep that is replayed
  stage,      \* where the simulation is, or its error code
  stream,     \* the pooled demands
  results,    \* what each policy's replay gave
  jackknife,  \* which candidates were tried, and who won
  answer      \* the row's verdict

simulator ==
  <<traces, blocks, requested, resets, order, row, stage, stream, results, jackknife, answer>>
inputs == <<traces, blocks, requested, resets, order>>

ASSUME ResidencyAssumption ==
  /\ NLayer \in Nat \ {0} /\ NExpert \in Nat \ {0} /\ MaxDegree \in Nat
  /\ \A i \in DOMAIN Windows : Windows[i] \in Nat
  /\ \A i \in DOMAIN Degrees : Degrees[i] \in 1..MaxDegree

-----------------------------------------------------------------------------
(***************************************************************************)
(* The policies, in the order of the table.  Every one after lru is a      *)
(* candidate.                                                              *)
(***************************************************************************)

Plain == <<"null", "compulsory", "belady", "lru", "lfu", "weighted">>
Policies ==
  [i \in DOMAIN Plain |-> [family |-> Plain[i], degree |-> 0]]
    \o [i \in DOMAIN Windows |-> [family |-> "recent", degree |-> Windows[i]]]
    \o [i \in DOMAIN Degrees |-> [family |-> "topk", degree |-> Degrees[i]]]
Belady == 3
Lru == 4
Candidates == 5..Len(Policies)

MARGIN == 50

\* Align divides towards zero.
Quotient(a, b) == IF a >= 0 THEN a \div b ELSE -((-a) \div b)
PerMille(a, b) == IF b > 0 THEN Quotient(a * 1000, b) ELSE 0

-----------------------------------------------------------------------------
(***************************************************************************)
(* Admission of a trace and the pooled stream.                             *)
(***************************************************************************)

Place(x) == <<x.graph, x.token, x.layer, x.slot>>
Precedes(a, b) ==
  \E n \in 1..4 : a[n] < b[n] /\ \A k \in 1..(n - 1) : a[k] = b[k]
KeyOf(x) == x.layer * NExpert + x.expert

\* What is wrong with a selection, in the order of the checks; selections of a
\* truncated graph are not looked at any further.
SelectionCode(trace, x) ==
  IF x.graph \notin DOMAIN trace.graphs THEN "SELECTION_UNPACKABLE"
  ELSE IF x.weight \notin 0..10000 THEN "ROUTER_WEIGHT_RANGE"
  ELSE IF trace.graphs[x.graph] THEN ""
  ELSE IF x.layer \notin 0..(NLayer - 1) \/ x.expert \notin 0..(NExpert - 1) THEN "EXPERT_OUT_OF_RANGE"
  ELSE IF KeyOf(x) \notin DOMAIN blocks THEN "MISSING_EXPERT_BLOCK"
  ELSE ""

Replayed(trace) ==
  SelectSeq(trace.selections, LAMBDA x : x.graph \in DOMAIN trace.graphs /\ ~trace.graphs[x.graph])

Twice(rows) == \E i, j \in DOMAIN rows : i # j /\ Place(rows[i]) = Place(rows[j])

TraceCode(trace) ==
  LET bad == SelectSeq(trace.selections, LAMBDA x : SelectionCode(trace, x) # "")
  IN IF bad # <<>> THEN SelectionCode(trace, bad[1])
     ELSE IF Twice(Replayed(trace)) THEN "SELECTION_UNPACKABLE" ELSE ""

\* A trace's demands in one of the two orders.
RowsOf(trace, ord) ==
  LET rows == Replayed(trace)
  IN IF ord = "layer_major" THEN rows
     ELSE SortSeq(rows, LAMBDA a, b : Precedes(Place(a), Place(b)))

\* The columns of the stream: a demand that starts a trace, or is of another
\* graph or token than the one before it, is at a new token position.
Pooled(corpus, ord) ==
  LET parts == [t \in DOMAIN corpus |-> RowsOf(corpus[t], ord)]
      rows == FlattenSeq(parts)
      start[t \in 1..(Len(parts) + 1)] ==
        IF t = 1 THEN 1 ELSE start[t - 1] + Len(parts[t - 1])
      Opens(i) ==
        \/ \E t \in DOMAIN parts : start[t] = i
        \/ rows[i].graph # rows[i - 1].graph \/ rows[i].token # rows[i - 1].token
  IN [keys |-> [i \in DOMAIN rows |-> KeyOf(rows[i])],
      toks |-> [i \in DOMAIN rows |-> Cardinality({j \in 1..i : Opens(j)}) - 1],
      weights |-> [i \in DOMAIN rows |-> rows[i].weight],
      starts |-> [t \in DOMAIN parts |-> start[t]],
      ends |-> [t \in DOMAIN parts |-> start[t + 1]]]

Sizes == {blocks[k] : k \in DOMAIN blocks}
Largest == Max(Sizes)
Smallest == Min(Sizes)
TotalBytes == SumFunction(blocks)
KeySpace == NLayer * NExpert

\* The accounting of the stream: positions of a layer at which it demanded
\* nothing, and the keys of the first token.
StreamAccounts(s) ==
  LET Shown(l) == Cardinality({s.toks[i] : i \in {j \in DOMAIN s.keys : s.keys[j] \div NExpert = l}})
  IN [distinct |-> Cardinality(Range(s.keys)),
      omitted |-> (s.toks[Len(s.toks)] + 1) * NLayer - SumFunction([l \in 0..(NLayer - 1) |-> Shown(l)]),
      first |-> {s.keys[i] : i \in {j \in DOMAIN s.keys : s.toks[j] = 0}}]

-----------------------------------------------------------------------------
(***************************************************************************)
(* One replay of a stream against a policy at a budget.  `cache' holds     *)
(* everything the policies know; hits and misses are counted by layer.     *)
(***************************************************************************)

Keys == 0..(KeySpace - 1)
Layers == 0..(NLayer - 1)
NoDrop == [lo |-> 0, hi |-> 0]
Kept(i, drop) == i < drop.lo \/ i >= drop.hi

Cold ==
  [resident |-> {}, used |-> 0, last |-> [k \in Keys |-> 0], freq |-> [k \in Keys |-> 0],
   score |-> [k \in Keys |-> 0], recent |-> [k \in Keys |-> 0], next |-> [k \in Keys |-> 0],
   ahead |-> {}, current |-> -1, ring |-> 1, ordinal |-> 1,
   hits |-> [l \in Layers |-> 0], misses |-> [l \in Layers |-> 0],
   bytes |-> 0, prefetches |-> 0, useful |-> 0, high |-> 0]

\* A new trace in reset mode: the totals and the count of demands go on.
ResetKeepingFrequency(cache, i) ==
  [Cold EXCEPT !.ring = i, !.ordinal = cache.ordinal, !.hits = cache.hits, !.misses = cache.misses,
               !.bytes = cache.bytes, !.prefetches = cache.prefetches, !.useful = cache.useful,
               !.high = cache.high, !.freq = cache.freq]
Reset(cache, i) ==
  [Cold EXCEPT !.ring = i, !.ordinal = cache.ordinal, !.hits = cache.hits, !.misses = cache.misses,
               !.bytes = cache.bytes, !.prefetches = cache.prefetches, !.useful = cache.useful,
               !.high = cache.high]

\* For belady: where a key is demanded next in what is left of the stream.
NextUse(s, reset, drop) ==
  LET Again(i) ==
        {j \in (i + 1)..Len(s.keys) :
            /\ s.keys[j] = s.keys[i] /\ Kept(j, drop)
            /\ reset => \A t \in DOMAIN s.starts : s.starts[t] \notin (i + 1)..j}
  IN [i \in DOMAIN s.keys |-> IF Again(i) = {} THEN Len(s.keys) + 1 ELSE Min(Again(i))]

Metric(cache, family, k) ==
  CASE family = "lfu" -> cache.freq[k]
    [] family = "weighted" -> cache.score[k]
    [] family = "recent" -> cache.recent[k]
    [] family = "belady" -> -cache.next[k]
    [] OTHER -> 0

VictimByKey(cache, family) ==
  CHOOSE k \in cache.resident : \A j \in cache.resident \ {k} :
    LET a == Metric(cache, family, k) b == Metric(cache, family, j) IN a < b \/ (a = b /\ k < j)
Victim(cache, family) ==
  CHOOSE k \in cache.resident : \A j \in cache.resident \ {k} :
    LET a == <<Metric(cache, family, k), cache.last[k], k>>
        b == <<Metric(cache, family, j), cache.last[j], j>>
    IN \E n \in 1..3 : a[n] < b[n] /\ \A m0 \in 1..(n - 1) : a[m0] = b[m0]

RECURSIVE RoomFor(_, _, _, _)
RoomFor(cache, family, size, budget) ==
  IF cache.used + size <= budget \/ cache.resident = {} THEN cache
  ELSE LET victim == Victim(cache, family)
       IN RoomFor([cache EXCEPT !.resident = @ \ {victim}, !.ahead = @ \ {victim},
                                !.used = @ - blocks[victim]], family, size, budget)

Inserts(cache, k) ==
  [cache EXCEPT !.resident = @ \cup {k}, !.used = @ + blocks[k],
                !.high = Max({@, Cardinality(cache.resident) + 1})]

\* A token boundary of recent_reuse: uses older than the window expire, and the
\* ring passes over what the fold left out.
Expires(cache, s, i, window, drop) ==
  LET ring == Min({j \in cache.ring..i :
                     j = i \/ (Kept(j, drop) /\ s.toks[j] >= s.toks[i] - window)})
      Gone(k) == Cardinality({j \in cache.ring..(ring - 1) : Kept(j, drop) /\ s.keys[j] = k})
  IN [cache EXCEPT !.ring = ring, !.recent = [k \in Keys |-> @[k] - Gone(k)]]

\* The most demanded experts of a layer, the lower first where they tie.
Chosen(cache, layer, degree) ==
  LET asked == {k \in Keys : k \div NExpert = layer /\ cache.freq[k] > 0}
      ranked == SetToSortSeq(asked, LAMBDA a, b :
                  cache.freq[a] > cache.freq[b] \/ (cache.freq[a] = cache.freq[b] /\ a < b))
  IN SubSeq(ranked, 1, Min({degree, Len(ranked)}))

PrefetchesAsOld(cache, k, budget) ==
  IF k \in cache.resident \/ blocks[k] > budget THEN cache
  ELSE [Inserts(RoomFor(cache, "topk", blocks[k], budget), k) EXCEPT
          !.ahead = @ \cup {k}, !.bytes = @ + blocks[k], !.prefetches = @ + 1]
Prefetches(cache, k, budget) ==
  IF k \in cache.resident \/ blocks[k] > budget THEN cache
  ELSE [Inserts(RoomFor(cache, "topk", blocks[k], budget), k) EXCEPT
          !.last[k] = cache.ordinal, !.ahead = @ \cup {k},
          !.bytes = @ + blocks[k], !.prefetches = @ + 1]

\* A token boundary of topk_prefetch, one layer after the other.
PrefetchesAll(cache, degree, budget) ==
  FoldLeft(LAMBDA c, layer : FoldLeft(LAMBDA d, k : Prefetches(d, k, budget), c, Chosen(c, layer, degree)),
           cache, [l \in 1..NLayer |-> l - 1])

Boundary(cache, s, i, policy, budget, drop) ==
  LET new == [cache EXCEPT !.current = s.toks[i]]
  IN CASE s.toks[i] = cache.current -> cache
       [] policy.family = "recent" -> Expires(new, s, i, policy.degree, drop)
       [] policy.family = "topk" -> PrefetchesAll(new, policy.degree, budget)
       [] OTHER -> new

Answers(cache, k, policy, budget) ==
  LET layer == k \div NExpert
      missed == [cache EXCEPT !.misses[layer] = @ + 1, !.bytes = @ + blocks[k]]
  IN CASE policy.family = "null" -> missed
       [] policy.family # "null" /\ k \in cache.resident ->
            [cache EXCEPT !.hits[layer] = @ + 1, !.ahead = @ \ {k},
                          !.useful = @ + IF k \in cache.ahead THEN 1 ELSE 0]
       [] policy.family = "compulsory" /\ k \notin cache.resident -> Inserts(missed, k)
       [] OTHER -> IF blocks[k] > budget THEN missed
                   ELSE Inserts(RoomFor(missed, policy.family, blocks[k], budget), k)

Demand(cache, s, i, policy, budget, drop, next) ==
  LET k == s.keys[i]
      served == Answers(Boundary(cache, s, i, policy, budget, drop), k, policy, budget)
  IN [served EXCEPT !.freq[k] = @ + 1, !.score[k] = @ + s.weights[i], !.last[k] = cache.ordinal,
                    !.recent[k] = @ + 1, !.next[k] = next[i], !.ordinal = @ + 1]

Totals(cache) ==
  [hits |-> cache.hits, misses |-> cache.misses, bytes |-> cache.bytes,
   prefetches |-> cache.prefetches, useful |-> cache.useful, high |-> cache.high]

Replay(s, reset, drop, budget, policy) ==
  LET next == IF policy.family = "belady" THEN NextUse(s, reset, drop) ELSE s.keys
      Opened(cache, i) == IF reset /\ i > 1 /\ i \in Range(s.starts) THEN Reset(cache, i) ELSE cache
      Step(cache, i) ==
        IF Kept(i, drop) THEN Demand(Opened(cache, i), s, i, policy, budget, drop, next)
        ELSE Opened(cache, i)
  IN Totals(FoldLeft(Step, Cold, [i \in DOMAIN s.keys |-> i]))

-----------------------------------------------------------------------------
(***************************************************************************)
(* The sweep and the verdict rule.                                         *)
(***************************************************************************)

\* Eight halvings of all expert bytes, none below the largest expert, and the
\* requested budget put in its place unless it is one of them.
build_budgets ==
  LET halves == [i \in 1..8 |-> Max({Largest, TotalBytes \div (2 ^ (8 - i))})]
      below == Cardinality({i \in 1..8 : halves[i] <= requested})
      same == {i \in 1..8 : halves[i] = requested}
      Entry(bytes, i) == [bytes |-> bytes, clamped |-> TotalBytes \div (2 ^ (8 - i)) < Largest,
                          requested |-> same # {} /\ i = Min(same)]
      swept == [i \in 1..8 |-> Entry(halves[i], i)]
  IN IF same # {} THEN swept
     ELSE InsertAt(swept, below + 1, [bytes |-> requested, clamped |-> FALSE, requested |-> TRUE])

Budget == build_budgets[row]
Bytes(p) == results[p].bytes
LruBytes == Bytes(Lru)

\* The effect floor.
Clears(bytes) == bytes < LruBytes /\ bytes * 1000 <= LruBytes * (1000 - MARGIN)

\* The candidate of the fewest bytes; the first of the table where they tie.
Least(candidates) ==
  CHOOSE p \in candidates : \A q \in candidates \ {p} :
    Bytes(p) < Bytes(q) \/ (Bytes(p) = Bytes(q) /\ p < q)

None == 0
decideByBytes(stable, winner) ==
  LET headroom == PerMille(LruBytes - Bytes(Belady), LruBytes)
      least == Least(Candidates)
      chosen == IF Bytes(least) < LruBytes THEN least ELSE None
      bytes == IF chosen = None THEN LruBytes ELSE Bytes(chosen)
  IN [best |-> chosen, bytes |-> bytes, headroom |-> headroom,
      gain |-> IF chosen = None THEN 0 ELSE PerMille(LruBytes - bytes, LruBytes),
      result |-> IF stable /\ chosen # None THEN "BEATS_BASELINE"
                 ELSE IF headroom < MARGIN THEN "NO_HEADROOM" ELSE "NO_POLICY_BEATS_BASELINE"]
decide(stable, winner) ==
  LET headroom == PerMille(LruBytes - Bytes(Belady), LruBytes)
      least == Least(Candidates)
      best == IF Bytes(least) < LruBytes THEN least ELSE None
      qualified == stable /\ winner # None
      chosen == IF qualified THEN winner ELSE best
      bytes == IF chosen = None THEN LruBytes ELSE Bytes(chosen)
  IN [best |-> chosen, bytes |-> bytes, headroom |-> headroom,
      gain |-> IF chosen = None THEN 0 ELSE PerMille(LruBytes - bytes, LruBytes),
      result |-> IF qualified \/ (stable /\ winner = None /\ best # None /\ Clears(Bytes(best)))
                 THEN "BEATS_BASELINE"
                 ELSE IF headroom < MARGIN THEN "NO_HEADROOM" ELSE "NO_POLICY_BEATS_BASELINE"]

\* What a candidate gains when a document is left out.
FoldGain(p, t) ==
  LET drop == [lo |-> stream.starts[t], hi |-> stream.ends[t]]
      Left(q) == Replay(stream, resets, drop, requested, Policies[q]).bytes
      base == Left(Lru)
  IN PerMille(base - Left(p), base)

-----------------------------------------------------------------------------
(***************************************************************************)
(* The run.                                                                *)
(***************************************************************************)

Untried == [ranked |-> {}, tested |-> FALSE, minimum |-> 0, winner |-> None]
NoStream == [keys |-> <<>>, toks |-> <<>>, weights |-> <<>>, starts |-> <<>>, ends |-> <<>>]
NoAnswer == [best |-> None, bytes |-> 0, headroom |-> 0, gain |-> 0, result |-> ""]

SimulatorInit ==
  /\ \E c \in Corpora :
       /\ traces = c.traces /\ blocks = c.blocks /\ requested \in c.budgets
       /\ resets \in BOOLEAN /\ order \in c.orders
  /\ row = 0 /\ stage = "budget" /\ stream = NoStream /\ results = <<>>
  /\ jackknife = Untried /\ answer = NoAnswer

Rejects(code) ==
  stage' = code /\ UNCHANGED <<inputs, row, stream, results, jackknife, answer>>

BudgetTooSmall == stage = "budget" /\ requested < Largest /\ Rejects("BUDGET_TOO_SMALL")

\* The traces in list order; each is admitted before its demands are counted.
TracesCode ==
  LET Upto(t) == SumFunction([u \in 1..t |-> Len(Replayed(traces[u]))])
      Code(t) == IF TraceCode(traces[t]) # "" THEN TraceCode(traces[t])
                 ELSE IF Upto(t) > MaxDemands THEN "SELECTION_TOO_MANY" ELSE ""
      bad == {t \in DOMAIN traces : Code(t) # ""}
  IN IF bad = {} THEN "" ELSE Code(Min(bad))

\* What the totals could add up to, and the work a replay could be.
TotalsFit(demands) ==
  demands + demands * NLayer * MaxDegree <= MaxByteTotal \div Largest
WorkFits(demands) ==
  LET capacity == Min({requested \div Smallest, KeySpace})
      reset == IF resets THEN Min({MaxSteps, Len(traces) * KeySpace}) ELSE 0
  IN capacity > 0 => demands <= (MaxSteps - reset) \div capacity

StreamCode(s) ==
  IF s.keys = <<>> THEN "EMPTY_STREAM"
  ELSE IF ~TotalsFit(Len(s.keys)) THEN "BYTE_TOTAL_OVERFLOW"
  ELSE IF ~WorkFits(Len(s.keys)) THEN "SIMULATION_COST" ELSE ""

TracesFail ==
  /\ stage = "budget" /\ requested >= Largest
  /\ TracesCode # "" /\ Rejects(TracesCode)

StreamFails ==
  /\ stage = "budget" /\ requested >= Largest /\ TracesCode = ""
  /\ LET code == StreamCode(Pooled(traces, "token_major")) IN code # "" /\ Rejects(code)

\* Rows at the same budget are replayed alike; the first stands for them.
Admits ==
  /\ stage = "budget" /\ requested >= Largest /\ TracesCode = ""
  /\ StreamCode(Pooled(traces, "token_major")) = ""
  /\ stream' = Pooled(traces, order)
  /\ \E r \in DOMAIN build_budgets :
       /\ \A q \in 1..(r - 1) : build_budgets[q].bytes # build_budgets[r].bytes
       /\ row' = r
  /\ stage' = "sweep" /\ UNCHANGED <<inputs, results, jackknife, answer>>

Sweeps ==
  /\ stage = "sweep"
  /\ LET budget == Budget.bytes
     IN results' = [p \in DOMAIN Policies |-> Replay(stream, resets, NoDrop, budget, Policies[p])]
  /\ stage' = IF Budget.requested /\ order = "token_major" THEN "jackknife" ELSE "row"
  /\ UNCHANGED <<inputs, row, stream, jackknife, answer>>

\* A row of the sweep runs no jackknife.
DecidesRow ==
  /\ stage = "row" /\ answer' = decide(TRUE, None) /\ stage' = "decided"
  /\ UNCHANGED <<inputs, row, stream, results, jackknife>>

Remaining == Candidates \ jackknife.ranked
Gains(p) == {FoldGain(p, t) : t \in DOMAIN stream.starts}

\* The next candidate in the order of their bytes does not clear the floor.
PassesOver ==
  /\ stage = "jackknife" /\ Remaining # {} /\ ~Clears(Bytes(Least(Remaining)))
  /\ jackknife' = [jackknife EXCEPT !.ranked = @ \cup {Least(Remaining)}]
  /\ UNCHANGED <<inputs, row, stage, stream, results, answer>>

\* Every document but one, for each: the candidate must win without it.
Tries ==
  /\ stage = "jackknife" /\ Remaining # {} /\ Clears(Bytes(Least(Remaining)))
  /\ LET p == Least(Remaining)
         least == Min(Gains(p))
         clear == least >= MARGIN
     IN /\ jackknife' = [ranked |-> jackknife.ranked \cup {p}, tested |-> TRUE,
                         minimum |-> IF clear \/ ~jackknife.tested THEN least ELSE jackknife.minimum,
                         winner |-> IF clear THEN p ELSE None]
        /\ stage' = IF clear THEN "verdict" ELSE "jackknife"
  /\ UNCHANGED <<inputs, row, stream, results, answer>>

RunsOut ==
  /\ stage = "jackknife" /\ Remaining = {} /\ stage' = "verdict"
  /\ UNCHANGED <<inputs, row, stream, results, jackknife, answer>>

Decides ==
  /\ stage = "verdict" /\ answer' = decide(jackknife.winner # None, jackknife.winner)
  /\ stage' = "decided" /\ UNCHANGED <<inputs, row, stream, results, jackknife>>

SimulatorNext ==
  \/ BudgetTooSmall \/ TracesFail \/ StreamFails \/ Admits
  \/ Sweeps \/ DecidesRow \/ PassesOver \/ Tries \/ RunsOut \/ Decides

SimulatorSpec == SimulatorInit /\ [][SimulatorNext]_simulator
=============================================================================
