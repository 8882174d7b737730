-------------------------- MODULE MCGpuQualification --------------------------
(***************************************************************************)
(* GpuQualification with small cases: one and two layers, prompts of one   *)
(* to five positions in chunks of two, dense and routed.                   *)
(***************************************************************************)
EXTENDS GpuQualification

SmallShapes ==
    {[layers |-> l, prompt |-> p, positions |-> n, forced |-> t, vocabulary |-> 3, embedding |-> 2,
      experts |-> e, selected |-> IF e = 0 THEN 0 ELSE 2] :
        l \in {1, 2}, p \in 1..5, n \in {1, 3}, t \in {1, 2}, e \in {0, 4}}
=============================================================================
