---------------------------- MODULE MCCandidates ----------------------------
(***************************************************************************)
(* Two judgements of a candidate: a patch, by the coding-task runner, and  *)
(* a cache policy, by the residency simulator.  A behaviour is one of      *)
(* them; nothing is shared but the run.                                    *)
(***************************************************************************)
EXTENDS CodingTask, ResidencyOracle

\* Two names in one directory and one in the other.
SmallNames == {<<"A", 1>>, <<"A", 2>>, <<"B", 1>>}
Interchangeable == Permutations(Scratch)

-----------------------------------------------------------------------------
(***************************************************************************)
(* Small corpora for the simulator.                                        *)
(***************************************************************************)

SmallWindows == <<1, 3>>
SmallDegrees == <<1, 2>>

\* Weights disagree with frequencies: the first expert weighs most.
Asked(graph, token, layer, expert) ==
  [graph |-> graph, token |-> token, layer |-> layer, slot |-> 0, expert |-> expert,
   weight |-> IF expert = 0 THEN 5 ELSE 1 + ((token + expert) % 2)]

\* One layer, one demand a token.
Session(experts) ==
  [graphs |-> (0 :> FALSE), selections |-> [t \in DOMAIN experts |-> Asked(0, t - 1, 0, experts[t])]]
\* Two tokens in two layers, as a prefill observes them: layer after layer.
Square(e) ==
  [graphs |-> (0 :> FALSE),
   selections |-> <<Asked(0, 0, 0, e[1]), Asked(0, 1, 0, e[2]), Asked(0, 0, 1, e[3]), Asked(0, 1, 1, e[4])>>]
\* A prompt of one token and decode steps, a graph each.
Decode(experts, cut) ==
  [graphs |-> [g \in 0..(Len(experts) - 1) |-> g \in cut],
   selections |-> [t \in DOMAIN experts |-> Asked(t - 1, 0, 0, experts[t])]]
Odd ==
  LET good == Asked(0, 0, 0, 1)
  IN {[graphs |-> (0 :> FALSE), selections |-> s] :
        s \in {<<good, good>>, <<Asked(1, 0, 0, 0), good>>, <<Asked(0, 0, 2, 0), good>>, <<>>,
               <<Asked(0, 0, 1, 2)>>, <<[good EXCEPT !.weight = 10001]>>,
               <<good, good, Asked(0, 0, 2, 0)>>}}

Experts == 0..(NExpert - 1)

\* The last expert of the last layer has no block.
Held == (0..(KeySpace - 1)) \ {KeySpace - 1}
Uniform == [k \in Held |-> 2]
Mixed == [k \in Held |-> IF k \in {0, 4} THEN 1 ELSE IF k \in {1, 3} THEN 2 ELSE 3]
Huge == [k \in Held |-> IF k = 0 THEN 30 ELSE 1]

\* Sessions that come back to where they began, after one that fills the cache;
\* and three short ones, whose rankings change when one is left out.
Rounds == {Session(<<a, b, c, a>>) : a \in Experts, b \in Experts, c \in Experts}
Lists ==
  {<<Session(<<0, 2, a, b>>), d>> : a \in Experts, b \in Experts, d \in Rounds}
    \cup {<<Session(<<0, 0, a>>), Session(<<2, 0, b>>), Session(<<c, 2, d>>)>> :
            a \in Experts, b \in Experts, c \in Experts, d \in Experts}
Squares ==
  {<<Square(a), Square(b)>> : a \in {f \in [1..4 -> {0, 1}] : f[1] = 0},
                               b \in {f \in [1..4 -> {0, 1}] : f[1] # f[4]}}
\* Every arm of a prompt and its decode steps, one of whose graphs may be cut.
Arms ==
  {<<select(Decode(<<0, 1, a, b, 1, a>>, cut), arm), select(Decode(<<2, b>>, {}), arm)>> :
     a \in Experts, b \in Experts, cut \in {{}, {2}}, arm \in ARM_NAMES}

Corpus(lists, sizes, budgets, orders) ==
  [traces : lists, blocks : sizes, budgets : {budgets}, orders : {orders}]
SmallCorpora ==
  Corpus(Lists, {Uniform, Mixed}, {4}, {"token_major"})
    \cup Corpus(Squares, {Mixed}, {4}, {"token_major", "layer_major"})
    \cup Corpus(Arms, {Uniform}, {4}, {"layer_major"})
    \cup Corpus({<<Session(<<0>>), t>> : t \in Odd}, {Mixed}, {2, 4}, {"token_major"})
    \cup Corpus({<<Session(<<0, 1, 2, 0, 1, 2>>), Session(<<0, 1, 2, 0, 1, 2>>)>>}, {Mixed, Huge}, {12, 30}, {"token_major"})
    \cup Corpus({<<Session([t \in 1..13 |-> t % 3])>>, <<Session(<<>>)>>}, {Uniform}, {4}, {"token_major"})

-----------------------------------------------------------------------------
(***************************************************************************)
(* One of the two runs; the variables of the other do not move.            *)
(***************************************************************************)

NoTask ==
  /\ pc = "none" /\ patch = NoPatch /\ fresh = FALSE
  /\ fds = 0 /\ tree = NoTree
  /\ started = <<NoTree, NoTree>> /\ codes = <<9, 9>> /\ kept = NoTree /\ moves = 0
  /\ procs = NoProcs /\ watch = Idle /\ use = Unused
  /\ exists = FALSE /\ exit = 9
NoSimulation ==
  /\ traces = <<>> /\ blocks = <<>> /\ requested = 0 /\ resets = FALSE /\ order = "none"
  /\ row = 0 /\ stage = "none" /\ stream = NoStream /\ results = <<>>
  /\ jackknife = Untried /\ answer = NoAnswer

CandidatesInit == (Init /\ NoSimulation) \/ (SimulatorInit /\ NoTask)
CandidatesNext ==
  \/ pc # "none" /\ Next /\ UNCHANGED simulator
  \/ pc = "none" /\ SimulatorNext /\ UNCHANGED vars
CandidatesSpec == CandidatesInit /\ [][CandidatesNext]_<<vars, simulator>>
=============================================================================
