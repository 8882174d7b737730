--------------------------- MODULE ResidencyOracle ---------------------------
(***************************************************************************)
(* The second implementation of the simulator, residency_oracle.py, that   *)
(* the smoke compares every integer of the first with, and the projections *)
(* of residency_projection.py that decide what a trace list contains.      *)
(*                                                                         *)
(* Where Residency replays one stream in place, skipping what a fold left  *)
(* out and clearing its tables where a trace begins, the oracle replays    *)
(* the list of live demands of each session and adds up.  A dictionary     *)
(* that defaults to 0 is a function.                                       *)
(***************************************************************************)
EXTENDS Residency

-----------------------------------------------------------------------------
(***************************************************************************)
(* Projections: which graphs of a captured trace reach the simulator.      *)
(***************************************************************************)

ARM_NAMES == {"mixed", "decode_only", "prefill_only", "decode_head4"}
DECODE_HEAD_STEPS == 4
KEEPS(arm, graph) ==
  CASE arm = "mixed" -> TRUE
    [] arm = "decode_only" -> graph # 0
    [] arm = "prefill_only" -> graph = 0
    [] arm = "decode_head4" -> graph \in 1..DECODE_HEAD_STEPS

select(trace, arm) ==
  [graphs |-> [g \in {h \in DOMAIN trace.graphs : KEEPS(arm, h)} |-> trace.graphs[g]],
   selections |-> SelectSeq(trace.selections, LAMBDA x : KEEPS(arm, x.graph))]

declared_demands(trace) ==
  LET admitted == {g \in DOMAIN trace.graphs : ~trace.graphs[g]}
  IN Len(SelectSeq(trace.selections, LAMBDA x : x.graph \in admitted))

-----------------------------------------------------------------------------
(***************************************************************************)
(* The stream: one row after another, with the running numbers of the      *)
(* token positions.                                                        *)
(***************************************************************************)

\* A selection is refused before the rows that follow it are looked at.
build_rows(trace) ==
  LET Add(got, x) ==
        IF got.code # "" THEN got
        ELSE IF SelectionCode(trace, x) # "" THEN [got EXCEPT !.code = SelectionCode(trace, x)]
        ELSE IF trace.graphs[x.graph] THEN got
        ELSE IF Place(x) \in got.orders THEN [got EXCEPT !.code = "SELECTION_UNPACKABLE"]
        ELSE [got EXCEPT !.orders = @ \cup {Place(x)}, !.rows = Append(@, x)]
  IN FoldLeft(Add, [code |-> "", orders |-> {}, rows |-> <<>>], trace.selections)

build_stream(corpus, ord) ==
  LET Order(rows) ==
        IF ord = "layer_major" THEN rows
        ELSE SortSeq(rows, LAMBDA a, b : Precedes(Place(a), Place(b)))
      AddRow(got, x) ==
        LET at == IF <<x.graph, x.token>> = got.previous THEN got.at ELSE got.at + 1
        IN [got EXCEPT !.previous = <<x.graph, x.token>>, !.at = at,
                       !.s.keys = Append(@, KeyOf(x)), !.s.toks = Append(@, at - 1),
                       !.s.weights = Append(@, x.weight)]
      AddTrace(got, trace) ==
        LET added == FoldLeft(AddRow, [got EXCEPT !.previous = <<>>], Order(build_rows(trace).rows))
        IN [added EXCEPT !.s.starts = Append(@, Len(got.s.keys) + 1),
                         !.s.ends = Append(@, Len(added.s.keys) + 1)]
  IN FoldLeft(AddTrace, [s |-> NoStream, at |-> 0, previous |-> <<>>], corpus).s

\* The sets the accounting is taken from.
stream_state(s) ==
  LET positions == {<<s.toks[i], s.keys[i] \div NExpert>> : i \in DOMAIN s.keys}
  IN [distinct |-> Cardinality(Range(s.keys)),
      omitted |-> (s.toks[Len(s.toks)] + 1) * NLayer - Cardinality(positions),
      first |-> Range(SelectSeq(s.keys, LAMBDA k : \E i \in DOMAIN s.keys : s.toks[i] = 0 /\ s.keys[i] = k))]

-----------------------------------------------------------------------------
(***************************************************************************)
(* One replay over the live demands.                                       *)
(***************************************************************************)

Nothing ==
  [resident |-> {}, last |-> [k \in Keys |-> 0], freq |-> [k \in Keys |-> 0],
   score |-> [k \in Keys |-> 0], recent |-> [k \in Keys |-> 0], next |-> [k \in Keys |-> 0],
   prefetched |-> {}, current |-> -1, ring |-> 1,
   hits |-> [l \in Layers |-> 0], misses |-> [l \in Layers |-> 0],
   bytes |-> 0, prefetches |-> 0, useful |-> 0, high |-> 0]

Rank(o, policy, k) ==
  <<CASE policy.family = "lfu" -> o.freq[k]
      [] policy.family = "weighted" -> o.score[k]
      [] policy.family = "recent" -> o.recent[k]
      [] policy.family = "belady" -> -o.next[k]
      [] OTHER -> 0, o.last[k], k>>

\* Evicts the least ranks until the block fits.
admit(o, policy, budget, k) ==
  LET Below(j) == {i \in o.resident : Rank(o, policy, i) = Rank(o, policy, j)
                     \/ \E n \in 1..3 : /\ Rank(o, policy, i)[n] < Rank(o, policy, j)[n]
                                        /\ \A l \in 1..(n - 1) : Rank(o, policy, i)[l] = Rank(o, policy, j)[l]}
      Size(keys) == MapThenSumSet(LAMBDA j : blocks[j], keys)
      Fits(gone) == Size(o.resident \ gone) + blocks[k] <= budget
      Fewest(cuts) == CHOOSE c \in cuts : \A d \in cuts : c \subseteq d
      Evict(gone) ==
        [o EXCEPT !.resident = (@ \ gone) \cup {k}, !.prefetched = @ \ gone,
                  !.high = Max({@, Cardinality(o.resident \ gone) + 1})]
  IN Evict(Fewest({c \in {{}} \cup {Below(j) : j \in o.resident} : Fits(c)}))

prefetch(o, position, budget, policy) ==
  LET Sorted(layer) ==
        SetToSortSeq({k \in Keys : o.freq[k] > 0 /\ k \div NExpert = layer},
                     LAMBDA a, b : -o.freq[a] < -o.freq[b] \/ (o.freq[a] = o.freq[b] /\ a < b))
      First(layer) == SubSeq(Sorted(layer), 1, Min({policy.degree, Len(Sorted(layer))}))
      ranked == FlattenSeq([l \in 1..NLayer |-> First(l - 1)])
      Fetch(p, k) ==
        IF k \in p.resident \/ blocks[k] > budget THEN p
        ELSE [admit(p, policy, budget, k) EXCEPT
                !.last[k] = position, !.bytes = @ + blocks[k], !.prefetches = @ + 1,
                !.prefetched = @ \cup {k}]
  IN FoldLeft(Fetch, o, ranked)

replay_continuing(keys, toks, weights, budget, policy, drop) ==
  LET live == SelectSeq([i \in DOMAIN keys |-> i], LAMBDA i : ~(drop.lo <= i /\ i < drop.hi))
      Next(position) ==
        LET later == {q \in (position + 1)..Len(live) : keys[live[q]] = keys[live[position]]}
        IN IF later = {} THEN Len(live) + 1 ELSE Min(later)
      Expire(o, position) ==
        LET ring == Min({q \in o.ring..position :
                           q = position \/ toks[live[q]] >= toks[live[position]] - policy.degree})
        IN [o EXCEPT !.ring = ring,
              !.recent = [k \in Keys |-> @[k] - Cardinality({q \in o.ring..(ring - 1) : keys[live[q]] = k})]]
      Begin(o, position) ==
        LET begun == [o EXCEPT !.current = toks[live[position]]]
        IN IF toks[live[position]] = o.current THEN o
           ELSE IF policy.family = "recent" THEN Expire(begun, position)
           ELSE IF policy.family = "topk" THEN prefetch(begun, position, budget, policy) ELSE begun
      Serve(o, k) ==
        LET hit == policy.family # "null" /\ k \in o.resident
            found == [o EXCEPT !.hits[k \div NExpert] = @ + 1, !.prefetched = @ \ {k},
                               !.useful = @ + Cardinality({k} \cap o.prefetched)]
            missed == [o EXCEPT !.misses[k \div NExpert] = @ + 1, !.bytes = @ + blocks[k]]
            unbounded == [missed EXCEPT !.resident = @ \cup {k},
                                        !.high = Max({@, Cardinality(o.resident) + 1})]
        IN IF hit THEN found
           ELSE IF policy.family = "null" THEN missed
           ELSE IF policy.family = "compulsory" THEN unbounded
           ELSE IF blocks[k] <= budget THEN admit(missed, policy, budget, k) ELSE missed
      Count(o, position) ==
        LET k == keys[live[position]]
        IN [o EXCEPT !.freq[k] = @ + 1, !.score[k] = @ + weights[live[position]],
                     !.last[k] = position, !.recent[k] = @ + 1,
                     !.next[k] = IF policy.family = "belady" THEN Next(position) ELSE 0]
      Take(o, position) == Count(Serve(Begin(o, position), keys[live[position]]), position)
  IN Totals(FoldLeft(Take, Nothing, [q \in DOMAIN live |-> q]))

\* Isolated sessions: complete replays of one trace each, added up; a fold
\* leaves out its whole session.
replay(s, reset, drop, budget, policy) ==
  LET Session(t) ==
        LET Cut(column) == SubSeq(column, s.starts[t], s.ends[t] - 1)
        IN replay_continuing(Cut(s.keys), Cut(s.toks), Cut(s.weights), budget, policy, NoDrop)
      taken == {t \in DOMAIN s.starts : [lo |-> s.starts[t], hi |-> s.ends[t]] # drop}
      Total(parts) ==
        [hits |-> [l \in Layers |-> SumFunction([t \in taken |-> parts[t].hits[l]])],
         misses |-> [l \in Layers |-> SumFunction([t \in taken |-> parts[t].misses[l]])],
         bytes |-> SumFunction([t \in taken |-> parts[t].bytes]),
         prefetches |-> SumFunction([t \in taken |-> parts[t].prefetches]),
         useful |-> SumFunction([t \in taken |-> parts[t].useful]),
         high |-> Max({0} \cup {parts[t].high : t \in taken})]
  IN IF reset THEN Total([t \in taken |-> Session(t)])
     ELSE replay_continuing(s.keys, s.toks, s.weights, budget, policy, drop)

-----------------------------------------------------------------------------
(***************************************************************************)
(* The verdict.                                                            *)
(***************************************************************************)

\* Python floors; the oracle truncates where a fold was lost.
truncatingFloors(numerator, denominator) ==
  IF denominator <= 0 THEN 0 ELSE (numerator * 1000) \div denominator
truncating(numerator, denominator) ==
  IF denominator <= 0 THEN 0
  ELSE IF numerator >= 0 THEN (numerator * 1000) \div denominator
  ELSE -((-numerator * 1000) \div denominator)

oracle_budgets ==
  LET entries == [i \in 1..8 |-> [bytes |-> Max({Largest, TotalBytes \div (2 ^ (8 - i))}),
                                  clamped |-> TotalBytes \div (2 ^ (8 - i)) < Largest,
                                  requested |-> FALSE]]
      named == {i \in 1..8 : entries[i].bytes = requested}
  IN IF named # {} THEN [entries EXCEPT ![Min(named)].requested = TRUE]
     ELSE SortSeq(Append(entries, [bytes |-> requested, clamped |-> FALSE, requested |-> TRUE]),
                  LAMBDA a, b : a.bytes < b.bytes)

\* Candidates by their bytes, then by their place in the table.
ranking(got) ==
  SetToSortSeq(Candidates, LAMBDA p, q : got[p].bytes < got[q].bytes \/ (got[p].bytes = got[q].bytes /\ p < q))

Row(best, lru, optimal, bytes, won) ==
  LET headroom == IF lru = 0 THEN 0 ELSE (1000 * (lru - optimal)) \div lru
  IN [best |-> best, bytes |-> bytes, headroom |-> headroom,
      gain |-> IF best = None THEN 0 ELSE (1000 * (lru - bytes)) \div lru,
      result |-> IF won THEN "BEATS_BASELINE"
                 ELSE IF headroom < MARGIN THEN "NO_HEADROOM" ELSE "NO_POLICY_BEATS_BASELINE"]

sweep_entry(got) ==
  LET lru == got[Lru].bytes
      first == ranking(got)[1]
      best == IF got[first].bytes >= lru THEN None ELSE first
      bytes == IF best = None THEN lru ELSE got[first].bytes
  IN Row(best, lru, got[Belady].bytes, bytes, best # None /\ 1000 * bytes <= (1000 - MARGIN) * lru)

\* The first candidate of the ranking that wins every fold.
Verdict(got, tried, gains) ==
  LET lru == got[Lru].bytes
      First(stable) == IF stable = {} THEN None ELSE tried[Min(stable)]
      Reported(winner, entry) ==
        [row |-> IF winner # None THEN Row(winner, lru, got[Belady].bytes, got[winner].bytes, TRUE)
                 ELSE Row(entry.best, lru, got[Belady].bytes, entry.bytes, FALSE),
         minimum |-> IF winner # None THEN Min(gains[winner])
                     ELSE IF tried # <<>> THEN Min(gains[tried[1]]) ELSE 0,
         stable |-> winner # None]
  IN Reported(First({i \in DOMAIN tried : \A g \in gains[tried[i]] : g >= MARGIN}), sweep_entry(got))

oracle_decide(s, budget, got) ==
  LET lru == got[Lru].bytes
      Left(p, t) ==
        replay(s, resets, [lo |-> s.starts[t], hi |-> s.ends[t]], budget, Policies[p]).bytes
      Fold(base, left) == truncating(base - left, base)
  IN Verdict(got,
             SelectSeq(ranking(got), LAMBDA p :
               got[p].bytes < lru /\ 1000 * got[p].bytes <= (1000 - MARGIN) * lru),
             [p \in Candidates |-> {Fold(Left(Lru, t), Left(p, t)) : t \in DOMAIN s.starts}])

\* The guards of `simulate', with the products taken as they are.
refused ==
  LET s == build_stream(traces, "token_major")
      capacity == Min({KeySpace, requested \div Smallest})
      work == IF resets THEN Len(traces) * KeySpace ELSE 0
      demands == Len(s.keys)
  IN \/ requested < Largest
     \/ \E t \in DOMAIN traces : build_rows(traces[t]).code # ""
     \/ demands = 0 \/ demands > MaxDemands
     \/ demands + demands * NLayer * MaxDegree > MaxByteTotal \div Largest
     \/ demands * capacity > MaxSteps - work

-----------------------------------------------------------------------------
(***************************************************************************)
(* Properties.                                                             *)
(***************************************************************************)

Decided == stage = "decided"
Codes ==
  {"BUDGET_TOO_SMALL", "SELECTION_UNPACKABLE", "ROUTER_WEIGHT_RANGE", "EXPERT_OUT_OF_RANGE",
   "MISSING_EXPERT_BLOCK", "SELECTION_TOO_MANY", "EMPTY_STREAM", "BYTE_TOTAL_OVERFLOW",
   "SIMULATION_COST"}

(* The two implementations agree: on what is refused, on the stream and    *)
(* its accounts, on what every policy hit, fetched and held, on the sweep  *)
(* and on the verdict with its jackknife.                                  *)
OracleAgrees ==
  /\ Decided =>
       /\ ~refused /\ stream = build_stream(traces, order)
       /\ stream_state(stream) = StreamAccounts(stream)
       /\ build_budgets = oracle_budgets
       /\ results = [p \in DOMAIN Policies |->
                       replay(stream, resets, NoDrop, Budget.bytes, Policies[p])]
       /\ IF Budget.requested /\ order = "token_major"
          THEN oracle_decide(stream, requested, results) =
                 [row |-> answer, minimum |-> jackknife.minimum, stable |-> jackknife.winner # None]
          ELSE answer = sweep_entry(results)
  /\ stage \in Codes => refused

(* What the verdict rests on.  Every demand a projection declares is       *)
(* served once; no policy beats the compulsory floor or holds more than    *)
(* its budget; where the experts are of one size none fetches less than    *)
(* belady, so that NO_HEADROOM never hides a candidate that clears the     *)
(* floor; and the named winner of the requested budget wins without any    *)
(* one document.                                                           *)
VerdictIsSound ==
  Decided =>
    LET uniform == Cardinality(Sizes) = 1
        budget == Budget.bytes
        least == Smallest
        Served(p) == SumFunction(results[p].hits) + SumFunction(results[p].misses)
        floor == results[2]
        declared == SumFunction([t \in DOMAIN traces |-> declared_demands(traces[t])])
    IN /\ \A p \in DOMAIN Policies :
            /\ Served(p) = declared
            /\ SumFunction(results[p].misses) >= SumFunction(floor.misses)
            /\ Bytes(p) >= floor.bytes
            /\ p > 2 => results[p].high * least <= budget
            /\ uniform /\ p # 2 => Bytes(p) >= Bytes(Belady)
       /\ uniform /\ answer.result = "NO_HEADROOM" => \A p \in Candidates : ~Clears(Bytes(p))
       /\ answer.result = "BEATS_BASELINE" /\ jackknife.winner # None =>
            /\ answer.best = jackknife.winner /\ answer.bytes = Bytes(answer.best)
            /\ Clears(answer.bytes)
            /\ \A t \in DOMAIN stream.starts : FoldGain(answer.best, t) >= MARGIN
=============================================================================
