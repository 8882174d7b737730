----------------------------- MODULE MCGpuGraphs -----------------------------
(***************************************************************************)
(* Instances of GpuGraphs: two prefill entries and two topologies, each    *)
(* with its own rows, so that an entry is hit, missed and replaced.        *)
(***************************************************************************)
EXTENDS GpuGraphs, TLC

CONSTANTS k1, k2, d1, x1, x2

MCExtentOf == k1 :> x1 @@ k2 :> x2 @@ d1 :> x1

(* One decode graph beside the cached prefill graphs.                      *)
OneDecode == PREFILL :> {k1, k2} @@ DECODE :> {d1} @@ DECODE_ALT :> {}

EntriesAlike == Permutations(Entries)
=============================================================================
