--------------------------- MODULE NumericTraversal ---------------------------
(***************************************************************************)
(* What the numeric stream of a qualification case has to contain:         *)
(* src/scripts/gpu_qualification_traversal.py and the work of the model in *)
(* src/scripts/gpu_qualification_native.py.  The code says it twice: as a  *)
(* sequence of frames (instructions) that the readers follow, and as       *)
(* closed forms that the counts of the readers, the size of the stream and *)
(* the observations of the device are compared with.                       *)
(*                                                                         *)
(* A case is a record of the model's geometry and of the lengths of its    *)
(* token sequences.  Frames are sets here: their order is that of their    *)
(* ordinals, which the readers compare one by one.                         *)
(***************************************************************************)
EXTENDS Naturals, FiniteSets

CONSTANTS
    Chunk,      \* positions of a prefill step, 128 in the code
    Shapes      \* the cases of the instance

ASSUME TraversalAssumption == Chunk \in Nat \ {0}

\* What from_inputs admits of a geometry and of a case; dense models have no experts.
ASSUME ShapesAssumption ==
    \A s \in Shapes :
        /\ {s.layers, s.prompt, s.positions} \subseteq Nat \ {0}
        /\ {s.forced, s.vocabulary, s.embedding, s.experts, s.selected} \subseteq Nat

Lower(a, b) == IF a < b THEN a ELSE b

\* Two passes: the production run and the teacher-forced run.
Steps(s, pass) == IF pass = 1 THEN s.positions ELSE s.forced + 1

\* The prompt is taken in chunks in step 0, later steps have one position.
Offsets(s, step) == IF step = 0 THEN {o \in 0..s.prompt - 1 : o % Chunk = 0} ELSE {0}
IsLast(s, step, offset) == step # 0 \/ offset + Chunk >= s.prompt

\* The highest layer ends in the last chunk only, narrowed to its last position.
LayerFrames(s, pass) ==
    {f \in [pass : {pass}, step : 0..Steps(s, pass) - 1, offset : 0..s.prompt - 1,
            layer : 0..s.layers - 1] :
        /\ f.offset \in Offsets(s, f.step)
        /\ f.layer = s.layers - 1 => IsLast(s, f.step, f.offset)}
Width(s, f) ==
    IF f.step = 0 /\ f.layer # s.layers - 1 THEN Lower(Chunk, s.prompt - f.offset) ELSE 1

\* One column, and in a routed model one routing boundary, per position.
Columns(s, pass) ==
    UNION {{<<f, c>> : c \in 1..Width(s, f)} : f \in LayerFrames(s, pass)}

\* A row of logits per sampled position, and one at the end of each step.
LogitFrames(s) ==
    {<<0, n>> : n \in 1..s.positions} \cup
    UNION {{<<pass, n>> : n \in 1..Steps(s, pass)} : pass \in {1, 2}}

----------------------------------------------------------------------------
\* The closed forms.

prefill_chunks(s) == (s.prompt + Chunk - 1) \div Chunk

columns(s) == 2 * ((s.layers - 1) * s.prompt + 1) + (s.positions - 1 + s.forced) * s.layers

\* (A count by prompt positions instead of chunks agrees as long as a prompt is
\* one position.)
layer_count_by_position(s) ==
    2 * ((s.layers - 1) * s.prompt + 1) + s.layers * (s.positions - 1 + s.forced)
layer_count(s) ==
    2 * ((s.layers - 1) * prefill_chunks(s) + 1) + s.layers * (s.positions - 1 + s.forced)

Routed(s) == s.experts > 0
router_count(s) == IF Routed(s) THEN columns(s) ELSE 0

final_count(s) == s.vocabulary * (2 * s.positions + s.forced + 1)

scalar_count(s) ==
    s.embedding * columns(s) + final_count(s) + (s.experts + s.selected) * router_count(s)

frame_count(s) == layer_count(s) + 3 * router_count(s) + 2 * s.positions + s.forced + 1

\* A header, a record per frame and one for the end, and the payloads.
maximum_bytes(s) ==
    24 + 40 * (frame_count(s) + 1) + 4 * (scalar_count(s) + s.selected * router_count(s))

\* The layers and experts of the production run alone.
work_layers(s) == s.layers * s.positions + (s.layers - 1) * (prefill_chunks(s) - 1)
work_experts(s) ==
    s.selected * ((s.layers - 1) * s.prompt + 1 + s.layers * (s.positions - 1))

----------------------------------------------------------------------------
\* What the readers count: a pair of streams frame by frame, its router
\* boundaries (scores, indices and weights) and its logits.
Both(count(_)) == count(1) + count(2)

pair_layer_count(s) == Both(LAMBDA pass : Cardinality(LayerFrames(s, pass)))
pair_columns(s) == Both(LAMBDA pass : Cardinality(Columns(s, pass)))
pair_boundary_count(s) == IF Routed(s) THEN pair_columns(s) ELSE 0
pair_final_logit_count(s) == s.vocabulary * Cardinality(LogitFrames(s))
pair_scalar_count(s) ==
    s.embedding * pair_columns(s) + pair_final_logit_count(s)
        + (s.experts + s.selected) * pair_boundary_count(s)

\* compare() raises when a count of the pair is not the closed form.
CompareAdmits(s) ==
    /\ scalar_count(s) = pair_scalar_count(s)
    /\ layer_count(s) = pair_layer_count(s)
    /\ router_count(s) = pair_boundary_count(s)
    /\ final_count(s) = pair_final_logit_count(s)

\* The records of a stream and the bytes that were consumed at its end: the
\* payloads are the columns of the layers, scores, indices and weights of each
\* boundary, and the logits, of four bytes.
stream_records(s) ==
    pair_layer_count(s) + 3 * pair_boundary_count(s) + Cardinality(LogitFrames(s))
payload_values(s) ==
    s.embedding * pair_columns(s) + (s.experts + 2 * s.selected) * pair_boundary_count(s)
        + pair_final_logit_count(s)
consumed_bytes(s) == 24 + 40 * (stream_records(s) + 1) + 4 * payload_values(s)

\* A child that follows the frames writes so many records and bytes, as its
\* report says, and its stream is read to its end.
ReportAdmits(s) == frame_count(s) = stream_records(s)
StreamAdmits(s) == maximum_bytes(s) = consumed_bytes(s)

\* A device that does what the production run says.
WorkAdmits(s) ==
    /\ work_layers(s) = Cardinality(LayerFrames(s, 1))
    /\ work_experts(s) = s.selected * Cardinality(Columns(s, 1))

\* A correct pair of children is admitted.
CountsAgree == \A s \in Shapes : CompareAdmits(s) /\ ReportAdmits(s) /\ StreamAdmits(s) /\ WorkAdmits(s)
=============================================================================
