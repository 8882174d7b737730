--------------------------- MODULE GpuGraphsProofs ---------------------------
(***************************************************************************)
(* Theorems about GpuGraphs, for every set of entries, keys and extents,   *)
(* every bound and every mode of the workspace: the types, the stamps that *)
(* tell a readable slot, the poison, the anchors of the slices, and the    *)
(* soundness of the workspace, with and without the prefill graph cache    *)
(* and the retained workspace.                                             *)
(***************************************************************************)
EXTENDS GpuGraphs, TLAPS

(* What makes a slot's readiness mean what it says.  A stamp is never      *)
(* ahead of the generation, so whatever moves the generation makes every   *)
(* stamp stale; the one stamp that is current is of the graph whose        *)
(* outputs are there; and the cached slot is only kept while they are.     *)
(* Once the owner is poisoned nothing is readable, and nothing is asked.   *)
StampsAreFresh ==
  /\ generation \in Nat
  /\ result \in [Kinds -> Nat]
  /\ RetainWorkspace /\ ~workspaceFailed =>
       /\ \A k \in Kinds : result[k] <= generation
       /\ \A k \in Kinds : prepared[k] /\ executed[k] /\ result[k] = generation
                             /\ generation # 0 => content = GraphOf(k)
       /\ lastSlot # NoGraph => content = lastSlot

(* A graph is never the sentinel of no graph: its slice is not Null.       *)
LEMMA GraphsAreNotNull == ASSUME NEW g \in Graphs PROVE g # NoGraph
<1>1. PICK s \in Slices, at \in 1..GraphsPerSlice : g = <<s, at>>
  BY DEF Graphs
<1>2. s # Null
  BY SentinelsAssumption
<1> QED
  BY <1>1, <1>2 DEF NoGraph

(* With fresh stamps, a retained slot that is ready is of the graph that   *)
(* was computed last (slot_ready, its fast path included).                 *)
LEMMA FreshStampsSuffice == StampsAreFresh => ReadableIsLatest
<1> SUFFICES ASSUME StampsAreFresh, RetainWorkspace, NEW g \in Graphs, SlotReady(g)
             PROVE  content = g
  BY DEF ReadableIsLatest
<1>1. ~workspaceFailed /\ generation # 0
  BY DEF SlotReady
<1>2. CASE lastSlot = g
  BY <1>1, <1>2, GraphsAreNotNull DEF StampsAreFresh
<1>3. CASE \E k \in Kinds : /\ prepared[k] /\ executed[k]
                            /\ RetainWorkspace => result[k] = generation
                            /\ GraphOf(k) = g
  BY <1>1, <1>3 DEF StampsAreFresh
<1> QED
  BY <1>2, <1>3 DEF SlotReady

(* Whatever moves the generation and stamps nothing keeps stamps fresh,    *)
(* because it makes all of them stale.                                     *)
LEMMA AdvanceMakesStale ==
  ASSUME StampsAreFresh, ~workspaceFailed,
         NEW g \in Nat, NEW last, generation <= g, ContentAdvances(g, last),
         result' \in [Kinds -> Nat],
         \A k \in Kinds : result'[k] = result[k] \/ result'[k] = 0
  PROVE  StampsAreFresh'
<1>1. CASE RetainWorkspace
  <2>1. generation' = g + 1 /\ lastSlot' = NoGraph
    BY <1>1 DEF ContentAdvances
  <2>2. \A k \in Kinds : result'[k] < generation'
    BY <1>1, <2>1 DEF StampsAreFresh
  <2> QED
    BY <2>1, <2>2 DEF StampsAreFresh
<1>2. CASE ~RetainWorkspace
  BY <1>2 DEF StampsAreFresh, ContentAdvances
<1> QED
  BY <1>1, <1>2

(* A step that poisons the owner asks only for the types.                  *)
LEMMA PoisonedIsFresh ==
  ASSUME workspaceFailed', generation' \in Nat, result' \in [Kinds -> Nat]
  PROVE  StampsAreFresh'
BY DEF StampsAreFresh

LEMMA BreakIsFresh ==
  ASSUME StampsAreFresh, NEW g \in Nat, NEW last, RebuildBreaks(g, last),
         result' \in [Kinds -> Nat]
  PROVE  StampsAreFresh'
BY PoisonedIsFresh DEF RebuildBreaks, GenerationExhausted, ContentAdvances

LEMMA InitIsFresh == Init => StampsAreFresh
BY DEF Init, StampsAreFresh, Kinds, NoGraph

LEMMA NextIsFresh == StampsAreFresh /\ [Next]_gpuVars => StampsAreFresh'
<1> SUFFICES ASSUME StampsAreFresh, [Next]_gpuVars PROVE StampsAreFresh'
  OBVIOUS
<1>t. generation \in Nat /\ generation + 1 \in Nat /\ result \in [Kinds -> Nat]
  BY DEF StampsAreFresh
<1>u. ASSUME UNCHANGED <<generation, result, workspaceFailed, prepared, executed, context,
                         graph, content, lastSlot>>
      PROVE  StampsAreFresh'
  BY <1>u DEF StampsAreFresh, GraphOf
<1>1. ASSUME NEW k \in Kinds, NEW id, Build(k, id) PROVE StampsAreFresh'
  BY <1>1, <1>u DEF Build, kindVars, workspaceVars, faultVars
<1>2. ASSUME NEW k \in Kinds, NEW id, BuildFails(k, id) PROVE StampsAreFresh'
  <2>1. CASE workspaceFailed'
    BY <1>2, <1>t, <2>1, PoisonedIsFresh DEF BuildFails, kindVars, workspaceVars
  <2>2. CASE ~workspaceFailed'
    <3>1. ~workspaceFailed
      BY <1>2 DEF BuildFails, CanBuild, Usable
    <3> QED
      BY <1>2, <2>2, <3>1, <1>t
      DEF BuildFails, kindVars, workspaceVars, StampsAreFresh, GraphOf
  <2> QED
    BY <2>1, <2>2
<1>3. ASSUME NEW k \in Kinds, NEW id, Compute(k, id) PROVE StampsAreFresh'
  <2>1. ~workspaceFailed /\ ~workspaceFailed'
    BY <1>3 DEF Compute, CanCompute, Usable, faultVars
  <2>2. ContentAdvances(generation, lastSlot) /\ GraphOf(k)' = GraphOf(k) /\ content' = GraphOf(k)
    BY <1>3 DEF Compute, GraphOf
  <2>3. CASE RetainWorkspace
    <3>1. /\ generation' = generation + 1 /\ lastSlot' = NoGraph
          /\ result' = [result EXCEPT ![k] = generation']
      BY <1>3, <2>2, <2>3 DEF Compute, ContentAdvances
    <3>2. \A j \in Kinds : j # k => result'[j] < generation'
      BY <1>t, <2>1, <2>3, <3>1 DEF StampsAreFresh
    <3>3. generation' \in Nat /\ result' \in [Kinds -> Nat] /\ result'[k] = generation'
      BY <1>t, <3>1
    <3>4. \A j \in Kinds : result'[j] <= generation'
      BY <3>2, <3>3
    <3>5. \A j \in Kinds : result'[j] = generation' => content' = GraphOf(j)'
      BY <2>2, <3>2, <3>3
    <3> QED
      BY <3>1, <3>3, <3>4, <3>5 DEF StampsAreFresh
  <2>4. CASE ~RetainWorkspace
    BY <1>3, <1>t, <2>2, <2>4 DEF Compute, ContentAdvances, StampsAreFresh
  <2> QED
    BY <2>3, <2>4
<1>4. ASSUME NEW k \in Kinds, NEW id, ComputeFails(k, id) PROVE StampsAreFresh'
  <2>1. ~workspaceFailed /\ result' = result
    BY <1>4 DEF ComputeFails, CanCompute, Usable, kindVars
  <2>2. CASE GenerationExhausted(generation)
    BY <1>t, <2>1, <2>2, PoisonedIsFresh DEF GenerationExhausted
  <2>3. CASE ContentAdvances(generation, lastSlot)
    BY <1>t, <2>1, <2>3, AdvanceMakesStale
  <2> QED
    BY <1>4, <2>2, <2>3 DEF ComputeFails
<1>5. ASSUME NEW k \in Kinds, NEW id, NEW at, Prepare(k, id, at) PROVE StampsAreFresh'
  <2>1. ~workspaceFailed /\ result' = result /\ ContentAdvances(generation, lastSlot)
    BY <1>5 DEF Prepare, CanPrepare, Usable, Installs, Rebuilds
  <2> QED
    BY <1>t, <2>1, AdvanceMakesStale
<1>6. ASSUME NEW k \in Kinds, NEW id, NEW at, PrepareFails(k, id, at) PROVE StampsAreFresh'
  <2>1. CASE workspaceFailed' /\ UNCHANGED <<kindVars, workspaceVars>>
    BY <1>t, <2>1, PoisonedIsFresh DEF kindVars, workspaceVars
  <2>2. CASE UNCHANGED <<kindVars, workspaceVars, workspaceFailed>>
    BY <1>u, <2>2 DEF kindVars, workspaceVars
  <2>3. CASE Installs(k, id, at) /\ RebuildBreaks(generation, lastSlot)
    <3>1. result' = result
      BY <2>3 DEF Installs
    <3> QED
      BY <1>t, <2>3, <3>1, BreakIsFresh
  <2> QED
    BY <1>6, <2>1, <2>2, <2>3 DEF PrepareFails
<1>7. ASSUME NEW k \in Kinds, Invalidate(k) PROVE StampsAreFresh'
  <2>1. ~workspaceFailed /\ result' = result /\ ContentAdvances(generation, NoGraph)
    BY <1>7 DEF Invalidate, CanInvalidate, Usable, Removes, Rebuilds
  <2> QED
    BY <1>t, <2>1, AdvanceMakesStale
<1>8. ASSUME NEW k \in Kinds, InvalidateFails(k) PROVE StampsAreFresh'
  <2>1. CASE workspaceFailed' /\ UNCHANGED <<kindVars, workspaceVars>>
    BY <1>t, <2>1, PoisonedIsFresh DEF kindVars, workspaceVars
  <2>2. CASE UNCHANGED <<kindVars, workspaceVars, workspaceFailed>>
    BY <1>u, <2>2 DEF kindVars, workspaceVars
  <2>3. CASE Removes(k) /\ RebuildBreaks(generation, NoGraph)
    <3>1. result' = result
      BY <2>3 DEF Removes
    <3> QED
      BY <1>t, <2>3, <3>1, BreakIsFresh
  <2> QED
    BY <1>8, <2>1, <2>2, <2>3 DEF InvalidateFails
<1>a. ASSUME NEW s, NEW r, Aliases(s, r), ~workspaceFailed, NEW g \in Nat, generation <= g,
             NEW last, ContentAdvances(g, last)
      PROVE  StampsAreFresh'
  <2>1. result' = [result EXCEPT ![PREFILL] = 0]
    BY <1>a DEF Aliases
  <2>2. /\ result' \in [Kinds -> Nat]
        /\ \A k \in Kinds : result'[k] = result[k] \/ result'[k] = 0
    BY <1>t, <2>1
  <2> QED
    BY <1>a, <2>2, AdvanceMakesStale
<1>9. ASSUME NEW e \in Entries, NEW id, ActivateHit(e, id) PROVE StampsAreFresh'
  <2>1. ~workspaceFailed /\ ContentAdvances(generation, lastSlot) /\ Aliases(e, entry'[e])
    BY <1>9 DEF ActivateHit, CanActivate
  <2> QED
    BY <1>a, <1>t, <2>1
<1>10. ASSUME NEW e \in Entries, NEW id, ActivateMiss(e, id) PROVE StampsAreFresh'
  <2>1. ~workspaceFailed /\ ContentAdvances(generation, lastSlot) /\ Aliases(e, EmptyEntry)
    BY <1>10 DEF ActivateMiss, CanActivate
  <2> QED
    BY <1>a, <1>t, <2>1
<1>11. ASSUME NEW e \in Entries, NEW id, ActivateFails(e, id) PROVE StampsAreFresh'
  BY <1>11, <1>t, PoisonedIsFresh
  DEF ActivateFails, GenerationExhausted, untouchedByFault, kindVars
<1>12. ASSUME ReleasePark PROVE StampsAreFresh'
  <2>1. ~workspaceFailed /\ ContentAdvances(generation, lastSlot) /\ Aliases(Null, EmptyEntry)
    BY <1>12 DEF ReleasePark, CanRelease, Detaches
  <2> QED
    BY <1>a, <1>t, <2>1
<1>13. ASSUME ReleaseClear PROVE StampsAreFresh'
  <2>1. /\ ~workspaceFailed
        /\ ContentAdvances(generation + 1, NoGraph)
        /\ Aliases(Null, EmptyEntry)
    BY <1>13 DEF ReleaseClear, CanRelease, ClearsEntries, Detaches, Rebuilds
  <2> QED
    BY <1>a, <1>t, <2>1
<1>14. ASSUME NEW clear, ReleaseFails(clear) PROVE StampsAreFresh'
  <2>1. CASE workspaceFailed' /\ generation' = generation /\ UNCHANGED untouchedByFault
    BY <1>t, <2>1, PoisonedIsFresh DEF untouchedByFault, kindVars
  <2>2. CASE ClearsEntries /\ RebuildBreaks(generation + 1, NoGraph)
    <3>1. result' = [result EXCEPT ![PREFILL] = 0]
      BY <2>2 DEF ClearsEntries, Detaches, Aliases
    <3>2. result' \in [Kinds -> Nat]
      BY <1>t, <3>1
    <3> QED
      BY <1>t, <2>2, <3>2, BreakIsFresh
  <2> QED
    BY <1>14, <2>1, <2>2 DEF ReleaseFails, GenerationExhausted
<1>15. ASSUME NEW x, UpdateRows(x) PROVE StampsAreFresh'
  BY <1>15, <1>u DEF UpdateRows, kindVars, workspaceVars, faultVars
<1>16. ASSUME NEW g \in Graphs, Read(g) PROVE StampsAreFresh'
  <2>1. RetainWorkspace => content = g
    BY <1>16, FreshStampsSuffice DEF Read, ReadableIsLatest
  <2> QED
    BY <1>16, <1>t, <2>1 DEF Read, kindVars, faultVars, StampsAreFresh, GraphOf
<1>17. CASE UNCHANGED gpuVars
  BY <1>17, <1>u DEF gpuVars, kindVars, workspaceVars, faultVars
<1> QED
  BY <1>1, <1>2, <1>3, <1>4, <1>5, <1>6, <1>7, <1>8, <1>9, <1>10, <1>11, <1>12, <1>13, <1>14,
     <1>15, <1>16, <1>17
  DEF Next

(* With a retained workspace, whatever is bound, activated, released or    *)
(* computed in whatever order, a slot is only readable while the workspace *)
(* holds the outputs of its own graph: align_gpu_slot_ready never hands    *)
(* out a result that something else has overwritten.                       *)
THEOREM ReadableIsAlwaysLatest == Spec => []ReadableIsLatest
<1>1. Init => StampsAreFresh
  BY InitIsFresh
<1>2. StampsAreFresh /\ [Next]_gpuVars => StampsAreFresh'
  BY NextIsFresh
<1>3. StampsAreFresh => ReadableIsLatest
  BY FreshStampsSuffice
<1> QED
  BY <1>1, <1>2, <1>3, PTL DEF Spec
-----------------------------------------------------------------------------
(* Every call that would change a graph, a slice, an entry, a binding or   *)
(* the generation asks first whether the owner is poisoned.                *)
LEMMA PoisonRefuses ==
  ASSUME workspaceFailed, [Next]_gpuVars
  PROVE  /\ workspaceFailed'
         /\ UNCHANGED <<kindVars, entryVars, slice, generation, bound, content>>
<1> DEFINE Kept == /\ workspaceFailed'
                   /\ UNCHANGED <<kindVars, entryVars, slice, generation, bound, content>>
<1>1. ASSUME NEW k \in Kinds, NEW id, Build(k, id) \/ BuildFails(k, id) PROVE Kept
  BY <1>1 DEF Build, BuildFails, CanBuild, Usable
<1>2. ASSUME NEW k \in Kinds, NEW id, Compute(k, id) \/ ComputeFails(k, id) PROVE Kept
  BY <1>2 DEF Compute, ComputeFails, CanCompute, Usable
<1>3. ASSUME NEW k \in Kinds, NEW id, NEW at, Prepare(k, id, at) \/ PrepareFails(k, id, at)
      PROVE  Kept
  BY <1>3 DEF Prepare, PrepareFails, CanPrepare, Usable
<1>4. ASSUME NEW k \in Kinds, Invalidate(k) \/ InvalidateFails(k) PROVE Kept
  BY <1>4 DEF Invalidate, InvalidateFails, CanInvalidate, Usable
<1>5. ASSUME NEW e \in Entries, NEW id,
             ActivateHit(e, id) \/ ActivateMiss(e, id) \/ ActivateFails(e, id)
      PROVE  Kept
  BY <1>5 DEF ActivateHit, ActivateMiss, ActivateFails, CanActivate
<1>6. ASSUME NEW clear, ReleasePark \/ ReleaseClear \/ ReleaseFails(clear) PROVE Kept
  BY <1>6 DEF ReleasePark, ReleaseClear, ReleaseFails, CanRelease
<1>7. ASSUME NEW x, UpdateRows(x) PROVE Kept
  BY <1>7 DEF UpdateRows, workspaceVars, sliceVars, faultVars
<1>8. ASSUME NEW g \in Graphs, Read(g) PROVE Kept
  BY <1>8 DEF Read, sliceVars, faultVars
<1>9. CASE UNCHANGED gpuVars
  BY <1>9 DEF gpuVars, workspaceVars, sliceVars, faultVars
<1> QED
  BY <1>1, <1>2, <1>3, <1>4, <1>5, <1>6, <1>7, <1>8, <1>9 DEF Next

(* A poisoned owner stays poisoned, and no later call computes, binds,     *)
(* activates or gives back a graph (workspace_failed is never cleared).    *)
THEOREM PoisonIsForGood == Spec => PoisonedForGood
<1>1. [Next]_gpuVars =>
        [workspaceFailed =>
           /\ workspaceFailed'
           /\ UNCHANGED <<kindVars, entryVars, slice, generation, bound, content>>]_gpuVars
  BY PoisonRefuses
<1> QED
  BY <1>1, PTL DEF Spec, PoisonedForGood
-----------------------------------------------------------------------------
(* TypeOK by groups of variables that change together.                     *)
KindTypes ==
  /\ context \in [Kinds -> Slices \cup {Null}]
  /\ graph \in [Kinds -> 0..GraphsPerSlice]
  /\ key \in [Kinds -> Keys \cup {Null}]
  /\ prepared \in [Kinds -> BOOLEAN]
  /\ executed \in [Kinds -> BOOLEAN]

EntryTypes == entry \in [Entries -> Records] /\ active \in Entries \cup {Null}

RowTypes == rows \in Extents \cup {Null} /\ rowsValid \in BOOLEAN

SliceTypes ==
  /\ slice \in [Slices -> Seq(Keys \cup {Null})]
  /\ \A s \in Slices : Len(slice[s]) <= GraphsPerSlice

ResultTypes == result \in [Kinds -> 0..MaxGeneration] /\ generation \in 0..MaxGeneration

WorkspaceTypes ==
  /\ workspacePrepared \in BOOLEAN
  /\ lastSlot \in Graphs \cup {NoGraph}
  /\ bound \subseteq Graphs
  /\ content \in Graphs \cup {NoGraph}

FaultTypes == workspaceFailed \in BOOLEAN /\ observationFailed \in BOOLEAN

(* A graph that is prepared, as an alias or in an entry, has a place in a  *)
(* slice: without this a binding of it would not be one of a graph.        *)
PreparedArePlaced ==
  /\ \A k \in Kinds : prepared[k] => GraphOf(k) \in Graphs
  /\ \A e \in Entries : entry[e].prepared => entry[e].graph \in 1..GraphsPerSlice

TypeInv ==
  /\ KindTypes /\ EntryTypes /\ RowTypes /\ uploaded \in Extents \cup {Null}
  /\ SliceTypes /\ anchor \in [Slices -> 0..GraphsPerSlice]
  /\ ResultTypes /\ WorkspaceTypes /\ FaultTypes /\ PreparedArePlaced

LEMMA TypeInvImpliesTypeOK == TypeInv => TypeOK
BY DEF TypeInv, TypeOK, KindTypes, EntryTypes, RowTypes, SliceTypes, ResultTypes,
       WorkspaceTypes, FaultTypes

(* The live graphs are graphs.                                             *)
LEMMA LiveGraphsAreGraphs == TypeInv => LiveGraphs \subseteq Graphs
<1> SUFFICES ASSUME TypeInv, NEW g \in LiveGraphs PROVE g \in Graphs
  OBVIOUS
<1>1. CASE \E k \in Kinds : prepared[k] /\ g = GraphOf(k)
  BY <1>1 DEF TypeInv, PreparedArePlaced
<1>2. CASE \E e \in Entries : entry[e].prepared /\ g = <<e, entry[e].graph>>
  BY <1>2 DEF TypeInv, PreparedArePlaced, Graphs, Slices
<1> QED
  BY <1>1, <1>2 DEF LiveGraphs

LEMMA DecodeGraphsAreGraphs == TypeInv => DecodeGraphs \subseteq Graphs
BY DEF TypeInv, PreparedArePlaced, DecodeGraphs, Kinds

LEMMA RecordIsTyped ==
  ASSUME NEW at \in 0..GraphsPerSlice, NEW id \in Keys \cup {Null},
         NEW waiting \in Keys \cup {Null}, NEW ready \in BOOLEAN, NEW ran \in BOOLEAN,
         NEW x \in Extents \cup {Null}
  PROVE  Record(at, id, waiting, ready, ran, x) \in Records
BY DEF Record, Records

(* An entry that is saved keeps its record and its place.                  *)
LEMMA SavedIsTyped ==
  ASSUME TypeInv
  PROVE  /\ Saved \in [Entries -> Records]
         /\ \A e \in Entries : Saved[e].prepared => Saved[e].graph \in 1..GraphsPerSlice
<1>1. CASE active # Null /\ prepared[PREFILL]
  <2>1. active \in Entries
    BY <1>1 DEF TypeInv, EntryTypes
  <2>2. /\ graph[PREFILL] \in 0..GraphsPerSlice /\ graph[PREFILL] \in 1..GraphsPerSlice
        /\ key[PREFILL] \in Keys \cup {Null}
        /\ executed[PREFILL] \in BOOLEAN /\ rows \in Extents \cup {Null}
    BY <1>1 DEF TypeInv, PreparedArePlaced, KindTypes, RowTypes, GraphOf, Graphs, Kinds
  <2>3. entry[active].pending \in Keys \cup {Null} /\ entry[active].prepared \in BOOLEAN
    BY <2>1 DEF TypeInv, EntryTypes, Records
  <2> DEFINE r == Record(graph[PREFILL], key[PREFILL], entry[active].pending,
                         entry[active].prepared, executed[PREFILL], rows)
  <2>4. r \in Records
    BY <2>2, <2>3, RecordIsTyped
  <2>5. r.graph = graph[PREFILL]
    BY DEF Record
  <2>6. Saved = [entry EXCEPT ![active] = r]
    BY <1>1 DEF Saved
  <2> HIDE DEF r
  <2> QED
    BY <2>1, <2>2, <2>4, <2>5, <2>6 DEF TypeInv, EntryTypes, PreparedArePlaced
<1>2. CASE ~(active # Null /\ prepared[PREFILL])
  BY <1>2 DEF Saved, TypeInv, EntryTypes, PreparedArePlaced
<1> QED
  BY <1>1, <1>2

LEMMA EmptyEntryIsTyped == EmptyEntry \in Records /\ ~EmptyEntry.prepared
<1>1. 0 \in 0..GraphsPerSlice
  BY ConstantsAssumption
<1>2. EmptyEntry \in Records
  BY <1>1, RecordIsTyped DEF EmptyEntry
<1> QED
  BY <1>2 DEF EmptyEntry, Record
-----------------------------------------------------------------------------
LEMMA InitIsTyped == Init => TypeInv
<1> SUFFICES ASSUME Init PROVE TypeInv
  OBVIOUS
<1>1. 0 \in 0..GraphsPerSlice /\ 0 \in 0..MaxGeneration
  BY ConstantsAssumption
<1>2. context \in [Kinds -> Slices \cup {Null}]
  BY DEF Init
<1>3. KindTypes /\ RowTypes /\ FaultTypes /\ uploaded \in Extents \cup {Null}
  BY <1>1, <1>2 DEF Init, KindTypes, RowTypes, FaultTypes
<1>4. EntryTypes /\ PreparedArePlaced
  BY EmptyEntryIsTyped DEF Init, EntryTypes, PreparedArePlaced
<1>5. slice \in [Slices -> Seq(Keys \cup {Null})] /\ \A s \in Slices : Len(slice[s]) = 0
  BY DEF Init
<1>6. SliceTypes /\ anchor \in [Slices -> 0..GraphsPerSlice]
  BY <1>1, <1>5, ConstantsAssumption DEF Init, SliceTypes
<1>7. ResultTypes /\ WorkspaceTypes
  BY <1>1 DEF Init, ResultTypes, WorkspaceTypes
<1> QED
  BY <1>3, <1>4, <1>6, <1>7 DEF TypeInv

(* A rebuild of graphs leaves a workspace of graphs, whether it succeeds   *)
(* or breaks, and its generation within the limit.                         *)
LEMMA AdvanceIsTyped ==
  ASSUME NEW g \in 0..MaxGeneration, NEW last \in Graphs \cup {NoGraph}, ContentAdvances(g, last)
  PROVE  generation' \in 0..MaxGeneration /\ lastSlot' \in Graphs \cup {NoGraph}
BY ConstantsAssumption DEF ContentAdvances

LEMMA RebuildIsTyped ==
  ASSUME FaultTypes, NEW g \in 0..MaxGeneration, NEW last \in Graphs \cup {NoGraph},
         NEW live \in SUBSET Graphs, Rebuilds(g, last, live)
  PROVE  generation' \in 0..MaxGeneration /\ WorkspaceTypes' /\ FaultTypes'
<1>1. generation' \in 0..MaxGeneration /\ lastSlot' \in Graphs \cup {NoGraph}
  BY AdvanceIsTyped DEF Rebuilds
<1>2. workspacePrepared' \in BOOLEAN
  BY ConstantsAssumption DEF Rebuilds
<1> QED
  BY <1>1, <1>2 DEF Rebuilds, WorkspaceTypes, FaultTypes, faultVars

LEMMA BreakIsTyped ==
  ASSUME TypeInv, NEW g \in 0..MaxGeneration, NEW last \in Graphs \cup {NoGraph},
         RebuildBreaks(g, last)
  PROVE  generation' \in 0..MaxGeneration /\ WorkspaceTypes' /\ FaultTypes'
<1>1. FaultTypes'
  BY DEF RebuildBreaks, TypeInv, FaultTypes
<1>2. CASE generation' = g /\ lastSlot' = last /\ UNCHANGED <<workspacePrepared, bound, content>>
  BY <1>1, <1>2 DEF TypeInv, WorkspaceTypes
<1>3. CASE GenerationExhausted(g) /\ UNCHANGED <<workspacePrepared, bound, content>>
  BY <1>1, <1>3 DEF GenerationExhausted, TypeInv, WorkspaceTypes
<1>4. CASE /\ ContentAdvances(g, last)
           /\ workspacePrepared' = FALSE /\ bound' = {} /\ content' = NoGraph
  BY <1>1, <1>4, AdvanceIsTyped DEF WorkspaceTypes
<1> QED
  BY <1>2, <1>3, <1>4 DEF RebuildBreaks

(* An alias of a typed record is typed.                                    *)
LEMMA AliasIsTyped ==
  ASSUME TypeInv, NEW s \in Entries \cup {Null}, NEW r \in Records, Aliases(s, r),
         r.prepared => s \in Entries /\ r.graph \in 1..GraphsPerSlice
  PROVE  /\ KindTypes' /\ RowTypes' /\ result' \in [Kinds -> 0..MaxGeneration]
         /\ \A k \in Kinds : prepared'[k] => GraphOf(k)' \in Graphs
<1>1. /\ r.graph \in 0..GraphsPerSlice /\ r.key \in Keys \cup {Null}
      /\ r.prepared \in BOOLEAN /\ r.executed \in BOOLEAN /\ r.rows \in Extents \cup {Null}
  BY DEF Records
<1>2. s \in Slices \cup {Null}
  BY DEF Slices
<1>3. KindTypes'
  BY <1>1, <1>2 DEF Aliases, TypeInv, KindTypes
<1>4. RowTypes'
  BY <1>1 DEF Aliases, RowTypes
<1>5. result' \in [Kinds -> 0..MaxGeneration]
  <2>1. result' = [result EXCEPT ![PREFILL] = 0] /\ result \in [Kinds -> 0..MaxGeneration]
    BY DEF Aliases, TypeInv, ResultTypes
  <2>2. 0 \in 0..MaxGeneration
    BY ConstantsAssumption
  <2> QED
    BY <2>1, <2>2
<1>6. ASSUME NEW k \in Kinds, prepared'[k] PROVE GraphOf(k)' \in Graphs
  <2>1. CASE k = PREFILL
    <3>1. prepared'[k] = r.prepared /\ context'[k] = s /\ graph'[k] = r.graph
      BY <2>1 DEF Aliases, TypeInv, KindTypes
    <3> QED
      BY <1>6, <3>1 DEF GraphOf, Graphs, Slices
  <2>2. CASE k # PREFILL
    <3>1. prepared'[k] = prepared[k] /\ GraphOf(k)' = GraphOf(k)
      BY <2>2 DEF Aliases, TypeInv, KindTypes, GraphOf
    <3> QED
      BY <1>6, <3>1 DEF TypeInv, PreparedArePlaced
  <2> QED
    BY <2>1, <2>2
<1> QED
  BY <1>3, <1>4, <1>5, <1>6
-----------------------------------------------------------------------------
(* One lemma for each operation, its failures included.                    *)
LEMMA BuildIsTyped ==
  ASSUME TypeInv, NEW k \in Kinds, NEW id \in KeysOf[k], Build(k, id) \/ BuildFails(k, id)
  PROVE  TypeInv'
<1>1. id \in Keys /\ ExtentOf[id] \in Extents
  BY ConstantsAssumption
<1>2. context[k] \in Slices /\ Len(slice[context[k]]) < GraphsPerSlice
  BY DEF Build, BuildFails, CanBuild, TypeInv, KindTypes
<1>3. PICK x \in Keys \cup {Null} : slice' = [slice EXCEPT ![context[k]] = Append(@, x)]
  BY <1>1 DEF Build, BuildFails
<1>4. SliceTypes'
  <2> DEFINE old == slice[context[k]]
  <2>1. old \in Seq(Keys \cup {Null})
    BY <1>2 DEF TypeInv, SliceTypes
  <2>2. Append(old, x) \in Seq(Keys \cup {Null}) /\ Len(Append(old, x)) = Len(old) + 1
    BY <2>1
  <2>3. Len(Append(old, x)) <= GraphsPerSlice
    BY <1>2, <2>1, <2>2, ConstantsAssumption
  <2>4. slice' = [slice EXCEPT ![context[k]] = Append(old, x)]
    BY <1>3
  <2> HIDE DEF old
  <2> QED
    BY <1>2, <2>2, <2>3, <2>4 DEF TypeInv, SliceTypes
<1>5. RowTypes'
  BY <1>1 DEF Build, BuildFails, RegistersRows, TypeInv, RowTypes, rowVars
<1>6. FaultTypes'
  BY DEF Build, BuildFails, TypeInv, FaultTypes, faultVars
<1>7. UNCHANGED <<kindVars, entryVars, anchor, uploaded, workspaceVars>>
  BY DEF Build, BuildFails
<1> QED
  BY <1>4, <1>5, <1>6, <1>7
  DEF TypeInv, KindTypes, EntryTypes, ResultTypes, WorkspaceTypes, PreparedArePlaced, GraphOf,
      kindVars, entryVars, workspaceVars

LEMMA ComputeIsTyped ==
  ASSUME TypeInv, NEW k \in Kinds, NEW id, Compute(k, id)
  PROVE  TypeInv'
<1>1. lastSlot \in Graphs \cup {NoGraph} /\ generation \in 0..MaxGeneration
  BY DEF TypeInv, WorkspaceTypes, ResultTypes
<1>2. generation' \in 0..MaxGeneration /\ lastSlot' \in Graphs \cup {NoGraph}
  BY <1>1, AdvanceIsTyped DEF Compute
<1>3. ResultTypes'
  BY <1>2 DEF Compute, TypeInv, ResultTypes
<1>4. content' \in Graphs
  BY DEF Compute, CanCompute, TypeInv, PreparedArePlaced
<1>5. WorkspaceTypes'
  BY <1>2, <1>4 DEF Compute, TypeInv, WorkspaceTypes
<1>6. RowTypes'
  BY DEF Compute, ConsumesRows, TypeInv, RowTypes
<1>7. /\ entry' \in [Entries -> Records]
      /\ \A e \in Entries : entry'[e].prepared => entry'[e].graph \in 1..GraphsPerSlice
  <2>1. CASE entry' = entry
    BY <2>1 DEF TypeInv, EntryTypes, PreparedArePlaced
  <2>2. CASE entry' = [entry EXCEPT ![active] =
                        Record(@.graph, @.key, @.pending, @.prepared, TRUE, @.rows)]
    <3> DEFINE r(e) == Record(entry[e].graph, entry[e].key, entry[e].pending,
                              entry[e].prepared, TRUE, entry[e].rows)
    <3>1. \A e \in Entries : r(e) \in Records
      <4> SUFFICES ASSUME NEW e \in Entries PROVE r(e) \in Records
        OBVIOUS
      <4>1. entry[e] \in Records
        BY DEF TypeInv, EntryTypes
      <4>2. /\ entry[e].graph \in 0..GraphsPerSlice /\ entry[e].key \in Keys \cup {Null}
            /\ entry[e].pending \in Keys \cup {Null} /\ entry[e].prepared \in BOOLEAN
            /\ entry[e].rows \in Extents \cup {Null}
        BY <4>1 DEF Records
      <4> QED
        BY <4>2, RecordIsTyped
    <3>2. \A e \in Entries : r(e).prepared = entry[e].prepared /\ r(e).graph = entry[e].graph
      BY DEF Record
    <3>3. \A e \in Entries : entry'[e] = IF e = active THEN r(e) ELSE entry[e]
      BY <2>2 DEF TypeInv, EntryTypes
    <3>4. entry' = [e \in Entries |-> entry'[e]]
      BY <2>2 DEF TypeInv, EntryTypes
    <3> HIDE DEF r
    <3>5. \A e \in Entries : entry'[e] \in Records
      BY <3>1, <3>3 DEF TypeInv, EntryTypes
    <3> QED
      BY <3>2, <3>3, <3>4, <3>5 DEF TypeInv, PreparedArePlaced
  <2> QED
    BY <2>1, <2>2 DEF Compute
<1>8. KindTypes' /\ \A j \in Kinds : prepared'[j] => GraphOf(j)' \in Graphs
  BY DEF Compute, TypeInv, KindTypes, PreparedArePlaced, GraphOf
<1>9. UNCHANGED <<active, uploaded, sliceVars, faultVars>>
  BY DEF Compute
<1> QED
  BY <1>3, <1>5, <1>6, <1>7, <1>8, <1>9
  DEF TypeInv, EntryTypes, SliceTypes, FaultTypes, PreparedArePlaced, sliceVars, faultVars

LEMMA ComputeFailsIsTyped ==
  ASSUME TypeInv, NEW k \in Kinds, NEW id, ComputeFails(k, id)
  PROVE  TypeInv'
<1>1. lastSlot \in Graphs \cup {NoGraph} /\ generation \in 0..MaxGeneration
  BY DEF TypeInv, WorkspaceTypes, ResultTypes
<1>2. generation' \in 0..MaxGeneration /\ lastSlot' \in Graphs \cup {NoGraph}
  BY <1>1, AdvanceIsTyped DEF ComputeFails, GenerationExhausted
<1>3. content' \in Graphs \cup {NoGraph}
  BY DEF ComputeFails, CanCompute, TypeInv, PreparedArePlaced, WorkspaceTypes
<1>4. RowTypes'
  BY DEF ComputeFails, ConsumesRows, TypeInv, RowTypes
<1>5. FaultTypes'
  BY DEF ComputeFails, GenerationExhausted, TypeInv, FaultTypes
<1>6. UNCHANGED <<kindVars, entryVars, sliceVars, workspacePrepared, bound, uploaded>>
  BY DEF ComputeFails
<1> QED
  BY <1>2, <1>3, <1>4, <1>5, <1>6
  DEF TypeInv, KindTypes, EntryTypes, SliceTypes, ResultTypes, WorkspaceTypes,
      PreparedArePlaced, GraphOf, kindVars, entryVars, sliceVars

(* A graph that is installed has a place, and leaves the slices alone.     *)
LEMMA InstallIsTyped ==
  ASSUME TypeInv, NEW k \in Kinds, NEW id \in KeysOf[k], NEW at, CanPrepare(k, id, at),
         Installs(k, id, at), executed' \in [Kinds -> BOOLEAN]
  PROVE  /\ KindTypes' /\ <<context[k], at>> \in Graphs /\ RowTypes' /\ SliceTypes'
         /\ anchor' \in [Slices -> 0..GraphsPerSlice] /\ at \in 1..GraphsPerSlice
         /\ result' \in [Kinds -> 0..MaxGeneration]
         /\ \A j \in Kinds : prepared'[j] => GraphOf(j)' \in Graphs
<1>1. context[k] \in Slices /\ at \in 1..Len(slice[context[k]])
  BY DEF CanPrepare, TypeInv, KindTypes
<1>2. Len(slice[context[k]]) \in Nat /\ Len(slice[context[k]]) <= GraphsPerSlice
  BY <1>1 DEF TypeInv, SliceTypes
<1>3. at \in 1..GraphsPerSlice /\ at \in 0..GraphsPerSlice
  BY <1>1, <1>2, ConstantsAssumption
<1>4. id \in Keys
  BY ConstantsAssumption
<1>5. KindTypes'
  BY <1>3, <1>4 DEF Installs, TypeInv, KindTypes
<1>6. RowTypes' /\ SliceTypes' /\ result' \in [Kinds -> 0..MaxGeneration]
  BY DEF Installs, TypeInv, RowTypes, SliceTypes, ResultTypes, rowVars
<1>7. anchor' \in [Slices -> 0..GraphsPerSlice]
  BY <1>3 DEF Installs, TakesAnchor, TypeInv
<1>8. ASSUME NEW j \in Kinds, prepared'[j] PROVE GraphOf(j)' \in Graphs
  <2>1. CASE j = k
    BY <2>1, <1>1, <1>3 DEF Installs, TypeInv, KindTypes, GraphOf, Graphs
  <2>2. CASE j # k
    BY <1>8, <2>2 DEF Installs, TypeInv, KindTypes, GraphOf, PreparedArePlaced
  <2> QED
    BY <2>1, <2>2
<1> QED
  BY <1>1, <1>3, <1>5, <1>6, <1>7, <1>8 DEF Graphs

LEMMA PrepareIsTyped ==
  ASSUME TypeInv, NEW k \in Kinds, NEW id \in KeysOf[k], NEW at, Prepare(k, id, at)
  PROVE  TypeInv'
<1>1. executed' \in [Kinds -> BOOLEAN]
  BY DEF Prepare, TypeInv, KindTypes
<1>2. /\ KindTypes' /\ <<context[k], at>> \in Graphs /\ RowTypes' /\ SliceTypes'
      /\ anchor' \in [Slices -> 0..GraphsPerSlice] /\ at \in 1..GraphsPerSlice
      /\ result' \in [Kinds -> 0..MaxGeneration]
      /\ \A j \in Kinds : prepared'[j] => GraphOf(j)' \in Graphs
  BY <1>1, InstallIsTyped DEF Prepare
<1>3. LiveGraphs \cup {<<context[k], at>>} \in SUBSET Graphs
  BY <1>2, LiveGraphsAreGraphs
<1>4. generation' \in 0..MaxGeneration /\ WorkspaceTypes' /\ FaultTypes'
  <2>1. FaultTypes /\ generation \in 0..MaxGeneration /\ lastSlot \in Graphs \cup {NoGraph}
    BY DEF TypeInv, ResultTypes, WorkspaceTypes
  <2> QED
    BY <1>3, <2>1, RebuildIsTyped DEF Prepare
<1>5. /\ entry' \in [Entries -> Records]
      /\ \A e \in Entries : entry'[e].prepared => entry'[e].graph \in 1..GraphsPerSlice
  <2>1. CASE entry' = entry
    BY <2>1 DEF TypeInv, EntryTypes, PreparedArePlaced
  <2>2. CASE entry' = [entry EXCEPT ![active] = Record(at, id, Null, TRUE, FALSE, rows)]
    <3> DEFINE r == Record(at, id, Null, TRUE, FALSE, rows)
    <3>1. id \in Keys \cup {Null} /\ at \in 0..GraphsPerSlice /\ rows \in Extents \cup {Null}
      BY <1>2, ConstantsAssumption DEF TypeInv, RowTypes
    <3>2. r \in Records
      BY <3>1, RecordIsTyped
    <3>3. r.graph = at
      BY DEF Record
    <3>0. entry' = [entry EXCEPT ![active] = r]
      BY <2>2
    <3> HIDE DEF r
    <3>4. \A e \in Entries : entry'[e] = IF e = active THEN r ELSE entry[e]
      BY <3>0 DEF TypeInv, EntryTypes
    <3>5. entry' \in [Entries -> Records]
      BY <3>0, <3>2 DEF TypeInv, EntryTypes
    <3>6. ASSUME NEW e \in Entries, entry'[e].prepared
          PROVE  entry'[e].graph \in 1..GraphsPerSlice
      <4>1. CASE e = active
        BY <1>2, <3>3, <3>4, <4>1
      <4>2. CASE e # active
        BY <3>4, <3>6, <4>2 DEF TypeInv, PreparedArePlaced
      <4> QED
        BY <4>1, <4>2
    <3> QED
      BY <3>5, <3>6
  <2> QED
    BY <2>1, <2>2 DEF Prepare
<1>6. UNCHANGED <<active, uploaded>>
  BY DEF Prepare
<1> QED
  BY <1>2, <1>4, <1>5, <1>6 DEF TypeInv, EntryTypes, ResultTypes, PreparedArePlaced

LEMMA PrepareFailsIsTyped ==
  ASSUME TypeInv, NEW k \in Kinds, NEW id \in KeysOf[k], NEW at, PrepareFails(k, id, at)
  PROVE  TypeInv'
<1>0. CanPrepare(k, id, at) /\ UNCHANGED <<entryVars, uploaded>>
  BY DEF PrepareFails
<1>1. CASE /\ TakesAnchor(k, at) \/ UNCHANGED anchor
           /\ UNCHANGED <<kindVars, rowVars, slice, workspaceVars>>
           /\ FaultTypes'
  <2>1. context[k] \in Slices /\ at \in 1..Len(slice[context[k]])
    BY <1>0 DEF CanPrepare, TypeInv, KindTypes
  <2>2. Len(slice[context[k]]) \in Nat /\ Len(slice[context[k]]) <= GraphsPerSlice
    BY <2>1 DEF TypeInv, SliceTypes
  <2>3. at \in 0..GraphsPerSlice
    BY <2>1, <2>2, ConstantsAssumption
  <2>4. anchor' \in [Slices -> 0..GraphsPerSlice]
    BY <1>1, <2>3 DEF TakesAnchor, TypeInv
  <2> QED
    BY <1>0, <1>1, <2>4
    DEF TypeInv, KindTypes, EntryTypes, RowTypes, SliceTypes, ResultTypes, WorkspaceTypes,
        PreparedArePlaced, GraphOf, kindVars, entryVars, rowVars, workspaceVars
<1>2. CASE Installs(k, id, at) /\ RebuildBreaks(generation, lastSlot) /\ UNCHANGED executed
  <2>1. executed' \in [Kinds -> BOOLEAN]
    BY <1>2 DEF TypeInv, KindTypes
  <2>2. /\ KindTypes' /\ RowTypes' /\ SliceTypes'
        /\ anchor' \in [Slices -> 0..GraphsPerSlice]
        /\ result' \in [Kinds -> 0..MaxGeneration]
        /\ \A j \in Kinds : prepared'[j] => GraphOf(j)' \in Graphs
    BY <1>0, <1>2, <2>1, InstallIsTyped
  <2>3. generation \in 0..MaxGeneration /\ lastSlot \in Graphs \cup {NoGraph}
    BY DEF TypeInv, ResultTypes, WorkspaceTypes
  <2>4. generation' \in 0..MaxGeneration /\ WorkspaceTypes' /\ FaultTypes'
    BY <1>2, <2>3, BreakIsTyped
  <2> QED
    BY <1>0, <2>2, <2>4 DEF TypeInv, EntryTypes, ResultTypes, PreparedArePlaced, entryVars
<1>3. FaultTypes'
  <2>1. FaultTypes
    BY DEF TypeInv
  <2> QED
    BY <2>1 DEF PrepareFails, RebuildBreaks, FaultTypes
<1> QED
  BY <1>1, <1>2, <1>3 DEF PrepareFails

(* Resetting slices keeps the slices typed.                                *)
LEMMA ResetIsTyped ==
  ASSUME TypeInv, slice' = [s \in Slices |-> slice'[s]],
         \A s \in Slices : slice'[s] = slice[s] \/ slice'[s] = <<>>
  PROVE  SliceTypes'
<1>1. <<>> \in Seq(Keys \cup {Null}) /\ Len(<<>>) <= GraphsPerSlice
  BY ConstantsAssumption
<1>2. ASSUME NEW s \in Slices
      PROVE  slice'[s] \in Seq(Keys \cup {Null}) /\ Len(slice'[s]) <= GraphsPerSlice
  <2>1. CASE slice'[s] = slice[s]
    BY <2>1 DEF TypeInv, SliceTypes
  <2>2. CASE slice'[s] = <<>>
    BY <1>1, <2>2
  <2> QED
    BY <2>1, <2>2
<1>3. slice' \in [Slices -> Seq(Keys \cup {Null})]
  BY <1>2
<1> QED
  BY <1>2, <1>3 DEF SliceTypes

(* Taking a graph out touches its kind and, for PREFILL, its rows.         *)
LEMMA RemoveIsTyped ==
  ASSUME TypeInv, NEW k \in Kinds, Removes(k)
  PROVE  /\ KindTypes' /\ RowTypes' /\ EntryTypes' /\ PreparedArePlaced'
         /\ result' \in [Kinds -> 0..MaxGeneration] /\ uploaded' \in Extents \cup {Null}
         /\ anchor' \in [Slices -> 0..GraphsPerSlice]
<1>1. 0 \in 0..GraphsPerSlice
  BY ConstantsAssumption
<1>2. KindTypes'
  BY <1>1 DEF Removes, TypeInv, KindTypes
<1>3. RowTypes'
  BY DEF Removes, TypeInv, RowTypes, rowVars
<1>4. EntryTypes' /\ result' \in [Kinds -> 0..MaxGeneration]
  BY DEF Removes, TypeInv, EntryTypes, ResultTypes, entryVars
<1>5. ASSUME NEW j \in Kinds, prepared'[j] PROVE prepared[j] /\ GraphOf(j)' = GraphOf(j)
  BY <1>5 DEF Removes, TypeInv, KindTypes, GraphOf
<1>6. PreparedArePlaced'
  BY <1>5 DEF Removes, TypeInv, PreparedArePlaced, entryVars
<1> QED
  BY <1>2, <1>3, <1>4, <1>6 DEF Removes, TypeInv

LEMMA InvalidateIsTyped ==
  ASSUME TypeInv, NEW k \in Kinds, Invalidate(k)
  PROVE  TypeInv'
<1>1. /\ KindTypes' /\ RowTypes' /\ EntryTypes' /\ PreparedArePlaced'
      /\ result' \in [Kinds -> 0..MaxGeneration] /\ uploaded' \in Extents \cup {Null}
      /\ anchor' \in [Slices -> 0..GraphsPerSlice]
  BY RemoveIsTyped DEF Invalidate
<1>2. LiveGraphs \ {GraphOf(k)} \in SUBSET Graphs
  BY LiveGraphsAreGraphs
<1>3. generation' \in 0..MaxGeneration /\ WorkspaceTypes' /\ FaultTypes'
  <2>1. FaultTypes /\ generation \in 0..MaxGeneration
    BY DEF TypeInv, ResultTypes
  <2> QED
    BY <1>2, <2>1, RebuildIsTyped DEF Invalidate
<1>4. SliceTypes'
  <2>1. slice' = [slice EXCEPT ![context[k]] = <<>>]
    BY DEF Invalidate
  <2>2. /\ slice' = [s \in Slices |-> slice'[s]]
        /\ \A s \in Slices : slice'[s] = slice[s] \/ slice'[s] = <<>>
    BY <2>1 DEF TypeInv, SliceTypes
  <2> QED
    BY <2>2, ResetIsTyped
<1> QED
  BY <1>1, <1>3, <1>4 DEF TypeInv, ResultTypes

LEMMA InvalidateFailsIsTyped ==
  ASSUME TypeInv, NEW k \in Kinds, InvalidateFails(k)
  PROVE  TypeInv'
<1>0. FaultTypes'
  BY DEF InvalidateFails, RebuildBreaks, TypeInv, FaultTypes
<1>1. CASE UNCHANGED <<kindVars, entryVars, rowVars, uploaded, sliceVars, workspaceVars>>
  BY <1>0, <1>1
  DEF TypeInv, KindTypes, EntryTypes, RowTypes, SliceTypes, ResultTypes, WorkspaceTypes,
      PreparedArePlaced, GraphOf, kindVars, entryVars, rowVars, sliceVars, workspaceVars
<1>2. CASE Removes(k) /\ RebuildBreaks(generation, NoGraph) /\ UNCHANGED slice
  <2>1. /\ KindTypes' /\ RowTypes' /\ EntryTypes' /\ PreparedArePlaced'
        /\ result' \in [Kinds -> 0..MaxGeneration] /\ uploaded' \in Extents \cup {Null}
        /\ anchor' \in [Slices -> 0..GraphsPerSlice]
    BY <1>2, RemoveIsTyped
  <2>2. generation \in 0..MaxGeneration
    BY DEF TypeInv, ResultTypes
  <2>3. generation' \in 0..MaxGeneration /\ WorkspaceTypes' /\ FaultTypes'
    BY <1>2, <2>2, BreakIsTyped
  <2> QED
    BY <1>2, <2>1, <2>3 DEF TypeInv, ResultTypes, SliceTypes
<1> QED
  BY <1>1, <1>2 DEF InvalidateFails

LEMMA ActivateHitIsTyped ==
  ASSUME TypeInv, NEW e \in Entries, NEW id, ActivateHit(e, id)
  PROVE  TypeInv'
<1>1. /\ entry' \in [Entries -> Records] /\ EntryTypes'
      /\ \A f \in Entries : entry'[f].prepared => entry'[f].graph \in 1..GraphsPerSlice
  BY SavedIsTyped DEF ActivateHit, EntryTypes
<1>2. /\ KindTypes' /\ RowTypes' /\ result' \in [Kinds -> 0..MaxGeneration]
      /\ \A k \in Kinds : prepared'[k] => GraphOf(k)' \in Graphs
  <2>1. entry'[e] \in Records /\ Aliases(e, entry'[e])
    BY <1>1 DEF ActivateHit
  <2>2. entry'[e].prepared => e \in Entries /\ entry'[e].graph \in 1..GraphsPerSlice
    BY <1>1
  <2> DEFINE r == entry'[e]
  <2>3. r \in Records /\ Aliases(e, r) /\ (r.prepared => e \in Entries /\ r.graph \in 1..GraphsPerSlice)
    BY <2>1, <2>2
  <2> HIDE DEF r
  <2> QED
    BY <2>3, AliasIsTyped
<1>3. generation' \in 0..MaxGeneration /\ lastSlot' \in Graphs \cup {NoGraph}
  BY AdvanceIsTyped DEF ActivateHit, TypeInv, ResultTypes, WorkspaceTypes
<1>4. UNCHANGED <<uploaded, sliceVars, workspacePrepared, bound, content, faultVars>>
  BY DEF ActivateHit
<1> QED
  BY <1>1, <1>2, <1>3, <1>4
  DEF TypeInv, SliceTypes, ResultTypes, WorkspaceTypes, FaultTypes, PreparedArePlaced,
      sliceVars, faultVars

LEMMA EmptyAliasIsTyped ==
  ASSUME TypeInv, NEW s \in Entries \cup {Null}, Aliases(s, EmptyEntry)
  PROVE  /\ KindTypes' /\ RowTypes' /\ result' \in [Kinds -> 0..MaxGeneration]
         /\ \A k \in Kinds : prepared'[k] => GraphOf(k)' \in Graphs
<1> DEFINE r == EmptyEntry
<1>1. r \in Records /\ ~r.prepared /\ Aliases(s, r)
  BY EmptyEntryIsTyped
<1> HIDE DEF r
<1> QED
  BY <1>1, AliasIsTyped

LEMMA ActivateMissIsTyped ==
  ASSUME TypeInv, NEW e \in Entries, NEW id \in KeysOf[PREFILL], ActivateMiss(e, id)
  PROVE  TypeInv'
<1> DEFINE r == Record(0, Null, id, FALSE, FALSE, Null)
<1>1. r \in Records /\ ~r.prepared
  <2>1. id \in Keys \cup {Null} /\ 0 \in 0..GraphsPerSlice
    BY ConstantsAssumption DEF Kinds
  <2>2. r \in Records
    BY <2>1, RecordIsTyped
  <2> QED
    BY <2>2 DEF Record
<1>2. entry' = [Saved EXCEPT ![e] = r]
  BY DEF ActivateMiss
<1> HIDE DEF r
<1>3. \A f \in Entries : entry'[f] = IF f = e THEN r ELSE Saved[f]
  BY <1>2, SavedIsTyped
<1>4. entry' \in [Entries -> Records] /\ EntryTypes'
  BY <1>1, <1>2, SavedIsTyped DEF ActivateMiss, EntryTypes
<1>5. ASSUME NEW f \in Entries, entry'[f].prepared PROVE entry'[f].graph \in 1..GraphsPerSlice
  BY <1>1, <1>3, <1>5, SavedIsTyped
<1>6. /\ KindTypes' /\ RowTypes' /\ result' \in [Kinds -> 0..MaxGeneration]
      /\ \A k \in Kinds : prepared'[k] => GraphOf(k)' \in Graphs
  BY EmptyAliasIsTyped DEF ActivateMiss
<1>7. generation' \in 0..MaxGeneration /\ lastSlot' \in Graphs \cup {NoGraph}
  BY AdvanceIsTyped DEF ActivateMiss, TypeInv, ResultTypes, WorkspaceTypes
<1>8. SliceTypes'
  <2>1. slice' = [slice EXCEPT ![e] = <<>>]
    BY DEF ActivateMiss
  <2>2. /\ slice' = [s \in Slices |-> slice'[s]]
        /\ \A s \in Slices : slice'[s] = slice[s] \/ slice'[s] = <<>>
    BY <2>1 DEF TypeInv, SliceTypes
  <2> QED
    BY <2>2, ResetIsTyped
<1>9. workspacePrepared' \in BOOLEAN /\ bound' \subseteq Graphs
  BY DEF ActivateMiss, TypeInv, WorkspaceTypes
<1>10. UNCHANGED <<uploaded, anchor, content, faultVars>>
  BY DEF ActivateMiss
<1> QED
  BY <1>4, <1>5, <1>6, <1>7, <1>8, <1>9, <1>10
  DEF TypeInv, ResultTypes, WorkspaceTypes, FaultTypes, PreparedArePlaced, faultVars

(* A failure that leaves the graphs alone.                                 *)
LEMMA UntouchedIsTyped ==
  ASSUME TypeInv, UNCHANGED untouchedByFault,
         \/ workspaceFailed' = TRUE /\ UNCHANGED <<generation, lastSlot>>
         \/ GenerationExhausted(generation)
  PROVE  TypeInv'
BY DEF TypeInv, KindTypes, EntryTypes, RowTypes, SliceTypes, ResultTypes, WorkspaceTypes,
       FaultTypes, PreparedArePlaced, GraphOf, GenerationExhausted, untouchedByFault,
       kindVars, entryVars, rowVars, sliceVars

LEMMA ClearIsTyped ==
  ASSUME TypeInv, ClearsEntries
  PROVE  /\ KindTypes' /\ EntryTypes' /\ RowTypes' /\ SliceTypes' /\ PreparedArePlaced'
         /\ result' \in [Kinds -> 0..MaxGeneration]
         /\ anchor' \in [Slices -> 0..GraphsPerSlice] /\ uploaded' \in Extents \cup {Null}
<1>1. /\ KindTypes' /\ RowTypes' /\ result' \in [Kinds -> 0..MaxGeneration]
      /\ \A k \in Kinds : prepared'[k] => GraphOf(k)' \in Graphs
  BY EmptyAliasIsTyped DEF ClearsEntries, Detaches
<1>2. /\ EntryTypes'
      /\ \A e \in Entries : ~entry'[e].prepared
  BY EmptyEntryIsTyped DEF ClearsEntries, Detaches, EntryTypes
<1>3. SliceTypes'
  <2>1. /\ slice' = [s \in Slices |-> slice'[s]]
        /\ \A s \in Slices : slice'[s] = slice[s] \/ slice'[s] = <<>>
    BY DEF ClearsEntries
  <2> QED
    BY <2>1, ResetIsTyped
<1> QED
  BY <1>1, <1>2, <1>3 DEF ClearsEntries, TypeInv, PreparedArePlaced

LEMMA ReleaseIsTyped ==
  ASSUME TypeInv, ReleasePark \/ ReleaseClear
  PROVE  TypeInv'
<1>1. CASE ReleasePark
  <2>1. /\ EntryTypes'
        /\ \A e \in Entries : entry'[e].prepared => entry'[e].graph \in 1..GraphsPerSlice
    BY <1>1, SavedIsTyped DEF ReleasePark, Detaches, EntryTypes
  <2>2. /\ KindTypes' /\ RowTypes' /\ result' \in [Kinds -> 0..MaxGeneration]
        /\ \A k \in Kinds : prepared'[k] => GraphOf(k)' \in Graphs
    BY <1>1, EmptyAliasIsTyped DEF ReleasePark, Detaches
  <2>3. generation' \in 0..MaxGeneration /\ lastSlot' \in Graphs \cup {NoGraph}
    BY <1>1, AdvanceIsTyped DEF ReleasePark, TypeInv, ResultTypes, WorkspaceTypes
  <2>4. UNCHANGED <<uploaded, sliceVars, workspacePrepared, bound, content, faultVars>>
    BY <1>1 DEF ReleasePark
  <2> QED
    BY <2>1, <2>2, <2>3, <2>4
    DEF TypeInv, SliceTypes, ResultTypes, WorkspaceTypes, FaultTypes, PreparedArePlaced,
        sliceVars, faultVars
<1>2. CASE ReleaseClear
  <2>1. /\ KindTypes' /\ EntryTypes' /\ RowTypes' /\ SliceTypes' /\ PreparedArePlaced'
        /\ result' \in [Kinds -> 0..MaxGeneration]
        /\ anchor' \in [Slices -> 0..GraphsPerSlice] /\ uploaded' \in Extents \cup {Null}
    BY <1>2, ClearIsTyped DEF ReleaseClear
  <2>2. generation + 1 \in 0..MaxGeneration /\ FaultTypes
    BY <1>2, ConstantsAssumption DEF ReleaseClear, TypeInv, ResultTypes
  <2>3. generation' \in 0..MaxGeneration /\ WorkspaceTypes' /\ FaultTypes'
    BY <1>2, <2>2, DecodeGraphsAreGraphs, RebuildIsTyped DEF ReleaseClear
  <2> QED
    BY <2>1, <2>3 DEF TypeInv, ResultTypes
<1> QED
  BY <1>1, <1>2

LEMMA ReleaseFailsIsTyped ==
  ASSUME TypeInv, NEW clear, ReleaseFails(clear)
  PROVE  TypeInv'
<1>1. CASE ClearsEntries /\ generation < MaxGeneration /\ RebuildBreaks(generation + 1, NoGraph)
  <2>1. /\ KindTypes' /\ EntryTypes' /\ RowTypes' /\ SliceTypes' /\ PreparedArePlaced'
        /\ result' \in [Kinds -> 0..MaxGeneration]
        /\ anchor' \in [Slices -> 0..GraphsPerSlice] /\ uploaded' \in Extents \cup {Null}
    BY <1>1, ClearIsTyped
  <2>2. generation + 1 \in 0..MaxGeneration
    BY <1>1, ConstantsAssumption DEF TypeInv, ResultTypes
  <2>3. generation' \in 0..MaxGeneration /\ WorkspaceTypes' /\ FaultTypes'
    BY <1>1, <2>2, BreakIsTyped
  <2> QED
    BY <2>1, <2>3 DEF TypeInv, ResultTypes
<1> QED
  BY <1>1, UntouchedIsTyped DEF ReleaseFails

LEMMA UpdateRowsIsTyped ==
  ASSUME TypeInv, NEW x \in Extents, UpdateRows(x)
  PROVE  TypeInv'
BY DEF UpdateRows, TypeInv, KindTypes, EntryTypes, RowTypes, SliceTypes, ResultTypes,
       WorkspaceTypes, FaultTypes, PreparedArePlaced, GraphOf, kindVars, entryVars, sliceVars,
       workspaceVars, faultVars

LEMMA ReadIsTyped ==
  ASSUME TypeInv, NEW g \in Graphs, Read(g)
  PROVE  TypeInv'
BY DEF Read, TypeInv, KindTypes, EntryTypes, RowTypes, SliceTypes, ResultTypes,
       WorkspaceTypes, FaultTypes, PreparedArePlaced, GraphOf, kindVars, entryVars, rowVars,
       sliceVars, faultVars

LEMMA NextIsTyped == TypeInv /\ [Next]_gpuVars => TypeInv'
<1> SUFFICES ASSUME TypeInv, [Next]_gpuVars PROVE TypeInv'
  OBVIOUS
<1>1. ASSUME NEW k \in Kinds, NEW id \in KeysOf[k], Build(k, id) \/ BuildFails(k, id)
      PROVE  TypeInv'
  BY <1>1, BuildIsTyped
<1>2. ASSUME NEW k \in Kinds, NEW id \in KeysOf[k], Compute(k, id) \/ ComputeFails(k, id)
      PROVE  TypeInv'
  BY <1>2, ComputeIsTyped, ComputeFailsIsTyped
<1>3. ASSUME NEW k \in Kinds, NEW id \in KeysOf[k], NEW at,
             Prepare(k, id, at) \/ PrepareFails(k, id, at)
      PROVE  TypeInv'
  BY <1>3, PrepareIsTyped, PrepareFailsIsTyped
<1>4. ASSUME NEW k \in Kinds, Invalidate(k) \/ InvalidateFails(k) PROVE TypeInv'
  BY <1>4, InvalidateIsTyped, InvalidateFailsIsTyped
<1>5. ASSUME NEW e \in Entries, NEW id \in KeysOf[PREFILL],
             ActivateHit(e, id) \/ ActivateMiss(e, id)
      PROVE  TypeInv'
  BY <1>5, ActivateHitIsTyped, ActivateMissIsTyped
<1>6. ASSUME NEW e \in Entries, NEW id, ActivateFails(e, id) PROVE TypeInv'
  BY <1>6, UntouchedIsTyped DEF ActivateFails
<1>7. CASE ReleasePark \/ ReleaseClear
  BY <1>7, ReleaseIsTyped
<1>8. ASSUME NEW clear, ReleaseFails(clear) PROVE TypeInv'
  BY <1>8, ReleaseFailsIsTyped
<1>9. ASSUME NEW x \in Extents, UpdateRows(x) PROVE TypeInv'
  BY <1>9, UpdateRowsIsTyped
<1>10. ASSUME NEW g \in Graphs, Read(g) PROVE TypeInv'
  BY <1>10, ReadIsTyped
<1>11. CASE UNCHANGED gpuVars
  BY <1>11
  DEF TypeInv, KindTypes, EntryTypes, RowTypes, SliceTypes, ResultTypes, WorkspaceTypes,
      FaultTypes, PreparedArePlaced, GraphOf, gpuVars, kindVars, entryVars, rowVars, sliceVars,
      workspaceVars, faultVars
<1> QED
  BY <1>1, <1>2, <1>3, <1>4, <1>5, <1>6, <1>7, <1>8, <1>9, <1>10, <1>11 DEF Next

(* Every field of the owner stays in its type, and no operation, failed or *)
(* not, publishes or parks a graph without a place in a metadata slice or  *)
(* moves the content generation past its limit.                            *)
THEOREM TypesAreKept == Spec => []TypeOK
<1>1. Init => TypeInv
  BY InitIsTyped
<1>2. TypeInv /\ [Next]_gpuVars => TypeInv'
  BY NextIsTyped
<1>3. TypeInv => TypeOK
  BY TypeInvImpliesTypeOK
<1> QED
  BY <1>1, <1>2, <1>3, PTL DEF Spec
-----------------------------------------------------------------------------
(* Every graph that can be found, as an alias or in an entry, is at the    *)
(* anchor of its slice, and the PREFILL alias is of the active entry, so   *)
(* that saving it is saving a graph of that slice.                         *)
AliasesAreAnchored == \A k \in Kinds : prepared[k] => graph[k] = anchor[context[k]]
EntriesAreAnchored == \A e \in Entries : entry[e].prepared => entry[e].graph = anchor[e]

AnchorInv ==
  PrefillGraphCache => AliasesAreAnchored /\ EntriesAreAnchored /\ context[PREFILL] = active

AnchorsStay == \A s \in Slices : anchor[s] # 0 => anchor'[s] = anchor[s]

(* What a step has to keep.                                                *)
Kept == AnchorInv' /\ (PrefillGraphCache => AnchorsStay)

(* An anchor is taken once: a slice whose anchor is unset has published    *)
(* nothing.                                                                *)
LEMMA AnchorIsTakenOnce ==
  ASSUME TypeInv, PrefillGraphCache, NEW k \in Kinds, NEW at, Anchored(k, at), TakesAnchor(k, at)
  PROVE  AnchorsStay
<1>1. anchor' = [anchor EXCEPT ![context[k]] = at] /\ anchor[context[k]] \in {0, at}
  BY DEF Anchored, TakesAnchor
<1> QED
  BY <1>1 DEF AnchorsStay, TypeInv

(* What is published is where it was as long as the anchors stay.          *)
LEMMA PublishedStayAnchored ==
  ASSUME TypeInv, AnchorInv, PrefillGraphCache, AnchorsStay
  PROVE  /\ \A k \in Kinds : prepared[k] => graph[k] = anchor'[context[k]]
         /\ \A e \in Entries : entry[e].prepared => entry[e].graph = anchor'[e]
<1>1. ASSUME NEW k \in Kinds, prepared[k] PROVE graph[k] = anchor'[context[k]]
  <2>1. context[k] \in Slices /\ graph[k] \in 1..GraphsPerSlice
    BY <1>1 DEF TypeInv, PreparedArePlaced, GraphOf, Graphs
  <2>2. anchor[context[k]] = graph[k] /\ graph[k] # 0
    BY <1>1, <2>1, ConstantsAssumption DEF AnchorInv, AliasesAreAnchored
  <2> QED
    BY <2>1, <2>2 DEF AnchorsStay
<1>2. ASSUME NEW e \in Entries, entry[e].prepared PROVE entry[e].graph = anchor'[e]
  <2>1. entry[e].graph \in 1..GraphsPerSlice /\ entry[e].graph = anchor[e]
    BY <1>2 DEF TypeInv, PreparedArePlaced, AnchorInv, EntriesAreAnchored
  <2>2. anchor[e] # 0 /\ e \in Slices
    BY <2>1, ConstantsAssumption DEF Slices
  <2> QED
    BY <2>1, <2>2 DEF AnchorsStay
<1> QED
  BY <1>1, <1>2

(* A step that leaves graphs, entries and anchors alone.                   *)
LEMMA SteadyKeepsAnchors ==
  ASSUME TypeInv, AnchorInv, UNCHANGED <<context, graph, prepared, active, anchor>>,
         \A e \in Entries :
           entry'[e].prepared = entry[e].prepared /\ entry'[e].graph = entry[e].graph
  PROVE  Kept
BY DEF Kept, AnchorInv, AliasesAreAnchored, EntriesAreAnchored, AnchorsStay

(* An installed graph takes its anchor, and its entry is that of the alias.*)
LEMMA InstallsKeepsAnchors ==
  ASSUME TypeInv, AnchorInv, NEW k \in Kinds, NEW id, NEW at,
         CanPrepare(k, id, at), Anchored(k, at), Installs(k, id, at), UNCHANGED active,
         \A e \in Entries : entry'[e].prepared =>
           \/ entry[e].prepared /\ entry'[e].graph = entry[e].graph
           \/ e = active /\ k = PREFILL /\ entry'[e].graph = at
  PROVE  Kept
<1> SUFFICES ASSUME PrefillGraphCache
             PROVE  /\ AliasesAreAnchored' /\ EntriesAreAnchored'
                    /\ (context[PREFILL] = active)' /\ AnchorsStay
  BY DEF Kept, AnchorInv
<1>1. AnchorsStay
  BY AnchorIsTakenOnce DEF Installs
<1>2. context' = context /\ context[k] \in Slices
  BY DEF Installs, CanPrepare, TypeInv, KindTypes
<1>3. anchor'[context[k]] = at
  BY <1>2 DEF Installs, TakesAnchor, TypeInv
<1>4. AliasesAreAnchored'
  <2> SUFFICES ASSUME NEW j \in Kinds, prepared'[j] PROVE graph'[j] = anchor'[context[j]]
    BY <1>2 DEF AliasesAreAnchored
  <2>1. CASE j = k
    BY <1>3, <2>1 DEF Installs, TypeInv, KindTypes
  <2>2. CASE j # k
    <3>1. prepared[j] /\ graph'[j] = graph[j]
      BY <2>2 DEF Installs, TypeInv, KindTypes
    <3> QED
      BY <1>1, <3>1, PublishedStayAnchored
  <2> QED
    BY <2>1, <2>2
<1>5. EntriesAreAnchored'
  <2> SUFFICES ASSUME NEW e \in Entries, entry'[e].prepared PROVE entry'[e].graph = anchor'[e]
    BY DEF EntriesAreAnchored
  <2>1. CASE entry[e].prepared /\ entry'[e].graph = entry[e].graph
    BY <1>1, <2>1, PublishedStayAnchored
  <2>2. CASE e = active /\ k = PREFILL /\ entry'[e].graph = at
    BY <1>3, <2>2 DEF AnchorInv
  <2> QED
    BY <2>1, <2>2
<1> QED
  BY <1>1, <1>2, <1>4, <1>5 DEF AnchorInv

LEMMA PrepareKeepsAnchors ==
  ASSUME TypeInv, AnchorInv, NEW k \in Kinds, NEW id, NEW at, Prepare(k, id, at)
  PROVE  Kept
<1>1. CASE PrefillGraphCache /\ k = PREFILL
  <2>1. active \in Entries
    BY <1>1 DEF Prepare, CanPrepare
  <2>2. entry' = [entry EXCEPT ![active] = Record(at, id, Null, TRUE, FALSE, rows)]
    BY <1>1 DEF Prepare
  <2>3. Record(at, id, Null, TRUE, FALSE, rows).graph = at
    BY DEF Record
  <2>4. \A e \in Entries : e = active \/ entry'[e] = entry[e]
    BY <2>1, <2>2 DEF TypeInv, EntryTypes
  <2>5. entry'[active].graph = at
    BY <2>1, <2>2, <2>3 DEF TypeInv, EntryTypes
  <2> QED
    BY <1>1, <2>4, <2>5, InstallsKeepsAnchors DEF Prepare
<1>2. CASE ~(PrefillGraphCache /\ k = PREFILL)
  <2>1. entry' = entry
    BY <1>2 DEF Prepare
  <2> QED
    BY <2>1, InstallsKeepsAnchors DEF Prepare
<1> QED
  BY <1>1, <1>2

LEMMA PrepareFailsKeepsAnchors ==
  ASSUME TypeInv, AnchorInv, NEW k \in Kinds, NEW id, NEW at, PrepareFails(k, id, at)
  PROVE  Kept
<1>1. UNCHANGED entryVars
  BY DEF PrepareFails
<1>2. CASE Anchored(k, at) /\ Installs(k, id, at)
  BY <1>1, <1>2, InstallsKeepsAnchors DEF PrepareFails, entryVars
<1>3. CASE UNCHANGED <<kindVars, anchor>>
  BY <1>1, <1>3, SteadyKeepsAnchors DEF kindVars, entryVars
<1>4. CASE UNCHANGED kindVars /\ Anchored(k, at) /\ TakesAnchor(k, at)
  <2> SUFFICES ASSUME PrefillGraphCache PROVE AnchorInv' /\ AnchorsStay
    BY DEF Kept, AnchorInv
  <2>1. AnchorsStay
    BY <1>4, AnchorIsTakenOnce
  <2> QED
    BY <1>1, <1>4, <2>1, PublishedStayAnchored
    DEF AnchorInv, AliasesAreAnchored, EntriesAreAnchored, kindVars, entryVars
<1> QED
  BY <1>2, <1>3, <1>4 DEF PrepareFails
-----------------------------------------------------------------------------
(* Saving the alias saves a graph at the anchor of the active entry.       *)
LEMMA SavedAreAnchored ==
  ASSUME TypeInv, AnchorInv, PrefillGraphCache, NEW e \in Entries, Saved[e].prepared
  PROVE  Saved[e].graph = anchor[e]
<1>1. CASE active # Null /\ prepared[PREFILL]
  <2>1. active \in Entries /\ graph[PREFILL] = anchor[active]
    BY <1>1 DEF TypeInv, EntryTypes, AnchorInv, AliasesAreAnchored, Kinds
  <2> DEFINE r == Record(graph[PREFILL], key[PREFILL], entry[active].pending,
                         entry[active].prepared, executed[PREFILL], rows)
  <2>2. r.graph = graph[PREFILL]
    BY DEF Record
  <2>3. Saved = [entry EXCEPT ![active] = r]
    BY <1>1 DEF Saved
  <2> HIDE DEF r
  <2> QED
    BY <2>1, <2>2, <2>3 DEF TypeInv, EntryTypes, AnchorInv, EntriesAreAnchored
<1>2. CASE ~(active # Null /\ prepared[PREFILL])
  BY <1>2 DEF Saved, AnchorInv, EntriesAreAnchored
<1> QED
  BY <1>1, <1>2

(* An alias of a record at the anchor of the entry it is given.            *)
LEMMA AliasIsAnchored ==
  ASSUME TypeInv, AnchorInv, NEW s, NEW r, Aliases(s, r), active' = s, UNCHANGED anchor,
         r.prepared => r.graph = anchor[s],
         PrefillGraphCache => EntriesAreAnchored'
  PROVE  Kept
<1> SUFFICES ASSUME PrefillGraphCache PROVE AnchorInv'
  BY DEF Kept, AnchorInv, AnchorsStay
<1>1. context'[PREFILL] = s /\ graph'[PREFILL] = r.graph /\ prepared'[PREFILL] = r.prepared
  BY DEF Aliases, TypeInv, KindTypes, Kinds
<1>2. \A k \in Kinds \ {PREFILL} :
        context'[k] = context[k] /\ graph'[k] = graph[k] /\ prepared'[k] = prepared[k]
  BY DEF Aliases, TypeInv, KindTypes
<1>3. AliasesAreAnchored'
  BY <1>1, <1>2 DEF AliasesAreAnchored, AnchorInv
<1> QED
  BY <1>1, <1>3 DEF AnchorInv

LEMMA ActivateKeepsAnchors ==
  ASSUME TypeInv, AnchorInv, NEW e \in Entries, NEW id,
         ActivateHit(e, id) \/ ActivateMiss(e, id)
  PROVE  Kept
<1>1. PrefillGraphCache /\ active' = e /\ anchor' = anchor
  BY DEF ActivateHit, ActivateMiss, CanActivate, sliceVars
<1>2. CASE ActivateHit(e, id)
  <2>1. entry' = Saved /\ Aliases(e, entry'[e])
    BY <1>2 DEF ActivateHit
  <2>2. EntriesAreAnchored'
    BY <1>1, <2>1, SavedAreAnchored DEF EntriesAreAnchored
  <2>3. entry'[e].prepared => entry'[e].graph = anchor[e]
    BY <1>1, <2>1, SavedAreAnchored
  <2> QED
    BY <1>1, <2>1, <2>2, <2>3, AliasIsAnchored
<1>3. CASE ActivateMiss(e, id)
  <2> DEFINE r == Record(0, Null, id, FALSE, FALSE, Null)
  <2>1. entry' = [Saved EXCEPT ![e] = r] /\ Aliases(e, EmptyEntry)
    BY <1>3 DEF ActivateMiss
  <2>2. ~r.prepared /\ ~EmptyEntry.prepared
    BY DEF Record, EmptyEntry
  <2> HIDE DEF r
  <2>3. \A f \in Entries : entry'[f].prepared => Saved[f].prepared /\ entry'[f] = Saved[f]
    BY <2>1, <2>2, SavedIsTyped
  <2>4. EntriesAreAnchored'
    BY <1>1, <2>3, SavedAreAnchored DEF EntriesAreAnchored
  <2> QED
    BY <1>1, <2>1, <2>2, <2>4, AliasIsAnchored
<1> QED
  BY <1>2, <1>3

(* What is given back leaves no alias.                                     *)
LEMMA DetachKeepsAnchors ==
  ASSUME TypeInv, AnchorInv, Detaches, UNCHANGED anchor,
         entry' = Saved \/ entry' = [e \in Entries |-> EmptyEntry]
  PROVE  Kept
<1>1. active' = Null /\ Aliases(Null, EmptyEntry) /\ ~EmptyEntry.prepared
  BY EmptyEntryIsTyped DEF Detaches
<1>2. PrefillGraphCache => EntriesAreAnchored'
  <2>1. CASE entry' = Saved
    BY <2>1, SavedAreAnchored DEF EntriesAreAnchored
  <2>2. CASE entry' = [e \in Entries |-> EmptyEntry]
    BY <1>1, <2>2 DEF EntriesAreAnchored
  <2> QED
    BY <2>1, <2>2
<1> QED
  BY <1>1, <1>2, AliasIsAnchored

LEMMA ReleaseKeepsAnchors ==
  ASSUME TypeInv, AnchorInv, ReleasePark \/ ReleaseClear PROVE Kept
BY DetachKeepsAnchors DEF ReleasePark, ReleaseClear, ClearsEntries, sliceVars

LEMMA ReleaseFailsKeepsAnchors ==
  ASSUME TypeInv, AnchorInv, NEW clear, ReleaseFails(clear) PROVE Kept
<1>1. CASE UNCHANGED untouchedByFault
  BY <1>1, SteadyKeepsAnchors DEF untouchedByFault, kindVars, entryVars, sliceVars
<1>2. CASE ClearsEntries
  BY <1>2, DetachKeepsAnchors DEF ClearsEntries
<1> QED
  BY <1>1, <1>2 DEF ReleaseFails
-----------------------------------------------------------------------------
LEMMA InvalidateKeepsAnchors ==
  ASSUME TypeInv, AnchorInv, NEW k \in Kinds, Invalidate(k) \/ InvalidateFails(k)
  PROVE  Kept
<1>1. CASE Removes(k)
  <2>1. \A j \in Kinds : prepared'[j] => prepared[j] /\ graph'[j] = graph[j]
    BY <1>1 DEF Removes, TypeInv, KindTypes
  <2> QED
    BY <1>1, <2>1
    DEF Removes, entryVars, Kept, AnchorInv, AliasesAreAnchored, EntriesAreAnchored, AnchorsStay
<1>2. CASE UNCHANGED <<kindVars, entryVars, sliceVars>>
  BY <1>2, SteadyKeepsAnchors DEF kindVars, entryVars, sliceVars
<1> QED
  BY <1>1, <1>2 DEF Invalidate, InvalidateFails

LEMMA ComputeKeepsAnchors ==
  ASSUME TypeInv, AnchorInv, NEW k \in Kinds, NEW id, Compute(k, id) \/ ComputeFails(k, id)
  PROVE  Kept
<1>1. UNCHANGED <<context, graph, prepared, active, anchor>>
  BY DEF Compute, ComputeFails, kindVars, entryVars, sliceVars
<1>2. CASE Compute(k, id) /\ PrefillGraphCache /\ k = PREFILL
  <2> DEFINE old == entry[active]
             r == Record(old.graph, old.key, old.pending, old.prepared, TRUE, old.rows)
  <2>1. r.graph = old.graph /\ r.prepared = old.prepared
    BY DEF Record
  <2>2. entry' = [entry EXCEPT ![active] = r]
    BY <1>2 DEF Compute
  <2>3. \A e \in Entries : entry'[e] = IF e = active THEN r ELSE entry[e]
    BY <2>2 DEF TypeInv, EntryTypes
  <2> HIDE DEF r
  <2> QED
    BY <1>1, <2>1, <2>3, SteadyKeepsAnchors
<1>3. CASE entry' = entry
  BY <1>1, <1>3, SteadyKeepsAnchors
<1> QED
  BY <1>2, <1>3 DEF Compute, ComputeFails, entryVars

LEMMA NextKeepsAnchors ==
  ASSUME TypeInv, AnchorInv, [Next]_gpuVars PROVE Kept
<1>1. ASSUME NEW k \in Kinds, NEW id, Build(k, id) \/ BuildFails(k, id) PROVE Kept
  BY <1>1, SteadyKeepsAnchors DEF Build, BuildFails, kindVars, entryVars
<1>2. ASSUME NEW k \in Kinds, NEW id, Compute(k, id) \/ ComputeFails(k, id) PROVE Kept
  BY <1>2, ComputeKeepsAnchors
<1>3. ASSUME NEW k \in Kinds, NEW id, NEW at, Prepare(k, id, at) \/ PrepareFails(k, id, at)
      PROVE  Kept
  BY <1>3, PrepareKeepsAnchors, PrepareFailsKeepsAnchors
<1>4. ASSUME NEW k \in Kinds, Invalidate(k) \/ InvalidateFails(k) PROVE Kept
  BY <1>4, InvalidateKeepsAnchors
<1>5. ASSUME NEW e \in Entries, NEW id, ActivateHit(e, id) \/ ActivateMiss(e, id) PROVE Kept
  BY <1>5, ActivateKeepsAnchors
<1>6. ASSUME NEW e \in Entries, NEW id, ActivateFails(e, id) PROVE Kept
  BY <1>6, SteadyKeepsAnchors
  DEF ActivateFails, untouchedByFault, kindVars, entryVars, sliceVars
<1>7. CASE ReleasePark \/ ReleaseClear
  BY <1>7, ReleaseKeepsAnchors
<1>8. ASSUME NEW clear, ReleaseFails(clear) PROVE Kept
  BY <1>8, ReleaseFailsKeepsAnchors
<1>9. ASSUME NEW x, UpdateRows(x) PROVE Kept
  BY <1>9, SteadyKeepsAnchors DEF UpdateRows, kindVars, entryVars, sliceVars
<1>10. ASSUME NEW g, Read(g) PROVE Kept
  BY <1>10, SteadyKeepsAnchors DEF Read, kindVars, entryVars, sliceVars
<1>11. CASE UNCHANGED gpuVars
  BY <1>11, SteadyKeepsAnchors DEF gpuVars, kindVars, entryVars, sliceVars
<1> QED
  BY <1>1, <1>2, <1>3, <1>4, <1>5, <1>6, <1>7, <1>8, <1>9, <1>10, <1>11 DEF Next

LEMMA InitIsAnchored == Init => AnchorInv
<1> SUFFICES ASSUME Init, PrefillGraphCache
             PROVE  AliasesAreAnchored /\ EntriesAreAnchored /\ context[PREFILL] = active
  BY DEF AnchorInv
<1>1. \A e \in Entries : ~entry[e].prepared
  BY EmptyEntryIsTyped DEF Init
<1> QED
  BY <1>1 DEF Init, AliasesAreAnchored, EntriesAreAnchored

(* Whatever is abandoned, released, evicted, parked or fails in between,   *)
(* the backend sees at most one graph address for each slice               *)
(* (align_gpu_graph_prepare's comparison of the first node).               *)
THEOREM SlicesHaveOneBackendKey == Spec => OneBackendKeyPerSlice
<1>1. Init => TypeInv /\ AnchorInv
  BY InitIsTyped, InitIsAnchored
<1>2. TypeInv /\ AnchorInv /\ [Next]_gpuVars => TypeInv' /\ AnchorInv'
  BY NextIsTyped, NextKeepsAnchors DEF Kept
<1>3. TypeInv /\ AnchorInv /\ [Next]_gpuVars =>
        [PrefillGraphCache =>
           /\ \A s \in Slices : anchor[s] # 0 => anchor'[s] = anchor[s]
           /\ \A k \in Kinds : prepared'[k] => graph'[k] = anchor'[context'[k]]
           /\ \A e \in Entries : entry'[e].prepared => entry'[e].graph = anchor'[e]]_gpuVars
  BY NextKeepsAnchors DEF Kept, AnchorInv, AliasesAreAnchored, EntriesAreAnchored, AnchorsStay
<1> QED
  BY <1>1, <1>2, <1>3, PTL DEF Spec, OneBackendKeyPerSlice

-----------------------------------------------------------------------------
(* WorkspaceIsSound.                                                       *)

(* The graphs of two kinds are in different slices, so that resetting the  *)
(* slice of one leaves the others; the entries are only used by the cache. *)
ContextsApart ==
  /\ context[DECODE] = DECODE /\ context[DECODE_ALT] = DECODE_ALT
  /\ context[PREFILL] \in Entries \cup {Null}
  /\ ~PrefillGraphCache => active = Null /\ \A e \in Entries : entry[e] = EmptyEntry

AliasesAlive ==
  \A k \in Kinds : prepared[k] => context[k] # Null /\ Names(context[k], graph[k], key[k])

EntriesAlive == \A e \in Entries : entry[e].prepared => Names(e, entry[e].graph, entry[e].key)

SlotAlive == lastSlot # NoGraph => lastSlot[2] \in 1..Len(slice[lastSlot[1]])

(* The rows of a prefill graph are registered before it is prepared: until *)
(* then every graph that was built in its slice, and abandoned, asked for  *)
(* the same rows, because a registered extent is not replaced.             *)
PreparedRows == prepared[PREFILL] => rows = ExtentOf[key[PREFILL]]

EntryRows == \A e \in Entries : entry[e].prepared => entry[e].rows = ExtentOf[entry[e].key]

BuiltRows ==
  ~prepared[PREFILL] /\ context[PREFILL] # Null =>
    \A i \in 1..Len(slice[context[PREFILL]]) :
      slice[context[PREFILL]][i] # Null => rows = ExtentOf[slice[context[PREFILL]][i]]

RowsRegistered ==
  IndexedPrefill /\ ~workspaceFailed => PreparedRows /\ EntryRows /\ BuiltRows

(* Registered rows that are valid are those on the device.                 *)
RowsFresh == rowsValid /\ rows # Null => uploaded = rows

SoundInv ==
  /\ ContextsApart /\ AliasesAlive /\ EntriesAlive /\ SlotAlive
  /\ ActiveEntryOwnsAlias /\ LiveGraphsBound /\ RowsRegistered /\ RowsFresh

(* What every step starts from.                                            *)
Before == TypeInv /\ AnchorInv /\ SoundInv

LEMMA SoundInvIsEnough == TypeInv /\ SoundInv => WorkspaceIsSound
<1> SUFFICES ASSUME TypeInv, SoundInv PROVE WorkspaceIsSound
  OBVIOUS
<1>1. ReferencesAlive
  BY DEF SoundInv, AliasesAlive, EntriesAlive, SlotAlive, ReferencesAlive
<1>2. RowsWrittenAreItsOwn
  <2> SUFFICES ASSUME IndexedPrefill, NEW id \in Keys, CanCompute(PREFILL, id)
               PROVE  uploaded = ExtentOf[id]
    BY DEF RowsWrittenAreItsOwn
  <2>1. rows = ExtentOf[id]
    BY DEF CanCompute, Usable, SoundInv, RowsRegistered, PreparedRows
  <2>2. ExtentOf[id] \in Extents
    BY ConstantsAssumption
  <2>3. rows # Null
    BY <2>1, <2>2, SentinelsAssumption
  <2> QED
    BY <2>1, <2>3 DEF CanCompute, SoundInv, RowsFresh
<1> QED
  BY <1>1, <1>2 DEF SoundInv, WorkspaceIsSound
-----------------------------------------------------------------------------
LEMMA KindsAreThree ==
  /\ PREFILL # DECODE /\ PREFILL # DECODE_ALT /\ DECODE # DECODE_ALT
  /\ DECODE \notin Entries \cup {Null} /\ DECODE_ALT \notin Entries \cup {Null}
  /\ Null \notin Entries
BY SentinelsAssumption DEF PREFILL, DECODE, DECODE_ALT, Slices

(* Contexts that are set are those of one kind only.                       *)
LEMMA ContextsDiffer ==
  ASSUME ContextsApart, NEW k \in Kinds, NEW j \in Kinds, context[k] = context[j],
         context[k] # Null
  PROVE  k = j
BY KindsAreThree DEF ContextsApart, Kinds

(* The cached slot is alive when it is forgotten, or kept while no slice   *)
(* gets shorter.                                                           *)
LEMMA SlotStaysAlive ==
  ASSUME TypeInv, SlotAlive,
         \/ lastSlot' = NoGraph
         \/ /\ lastSlot' = lastSlot
            /\ \A s \in Slices : \A i \in 1..Len(slice[s]) : i \in 1..Len(slice'[s])
  PROVE  SlotAlive'
<1>1. lastSlot # NoGraph => lastSlot[1] \in Slices
  BY DEF TypeInv, WorkspaceTypes, Graphs
<1> QED
  BY <1>1 DEF SlotAlive

LEMMA AdvanceForgetsSlot ==
  ASSUME NEW g, NEW last, ContentAdvances(g, last)
  PROVE  lastSlot' = last \/ lastSlot' = NoGraph
BY DEF ContentAdvances

LEMMA BreakForgetsSlot ==
  ASSUME NEW g, NEW last, RebuildBreaks(g, last)
  PROVE  workspaceFailed' = TRUE /\ (lastSlot' = last \/ lastSlot' = NoGraph)
BY AdvanceForgetsSlot DEF RebuildBreaks, GenerationExhausted

(* A step that leaves the graphs, their slices, bindings and rows alone.   *)
LEMMA SteadyIsSound ==
  ASSUME Before,
         UNCHANGED <<context, graph, key, prepared, active, slice, bound, workspacePrepared, rows>>,
         \A e \in Entries : /\ entry'[e].prepared = entry[e].prepared
                            /\ entry'[e].graph = entry[e].graph
                            /\ entry'[e].key = entry[e].key
                            /\ entry'[e].pending = entry[e].pending
                            /\ entry'[e].rows = entry[e].rows,
         ~PrefillGraphCache => entry' = entry,
         workspaceFailed => workspaceFailed', SlotAlive', RowsFresh'
  PROVE  SoundInv'
<1> USE DEF Before, SoundInv
<1>1. ContextsApart'
  BY DEF ContextsApart
<1>2. AliasesAlive' /\ EntriesAlive'
  BY DEF AliasesAlive, EntriesAlive, Names
<1>3. ActiveEntryOwnsAlias'
  BY DEF ActiveEntryOwnsAlias
<1>4. LiveGraphs' = LiveGraphs
  BY DEF LiveGraphs, GraphOf
<1>5. LiveGraphsBound'
  BY <1>4 DEF LiveGraphsBound
<1>6. RowsRegistered'
  BY DEF RowsRegistered, PreparedRows, EntryRows, BuiltRows
<1> QED
  BY <1>1, <1>2, <1>3, <1>5, <1>6

(* The same, for a step that leaves the entries and uploads nothing.       *)
LEMMA UntouchedIsSound ==
  ASSUME Before,
         UNCHANGED <<context, graph, key, prepared, active, slice, bound, workspacePrepared, rows,
                     entry, uploaded>>,
         workspaceFailed => workspaceFailed', rowsValid' => rowsValid,
         lastSlot' = lastSlot \/ lastSlot' = NoGraph
  PROVE  SoundInv'
<1>1. SlotAlive'
  BY SlotStaysAlive DEF Before, SoundInv
<1>2. RowsFresh'
  BY DEF Before, SoundInv, RowsFresh
<1> QED
  BY <1>1, <1>2, SteadyIsSound
-----------------------------------------------------------------------------
LEMMA BuildIsSound ==
  ASSUME Before, NEW k \in Kinds, NEW id \in KeysOf[k], Build(k, id) \/ BuildFails(k, id)
  PROVE  SoundInv'
<1> USE DEF Before, SoundInv
<1>1. id \in Keys /\ ExtentOf[id] \in Extents /\ Null \notin Extents /\ id # Null
  BY ConstantsAssumption, SentinelsAssumption
<1>2. context[k] \in Slices /\ ~prepared[k]
  BY DEF Build, BuildFails, CanBuild, TypeInv, KindTypes
<1>3. /\ UNCHANGED <<kindVars, entryVars, anchor, uploaded, workspaceVars>>
      /\ workspaceFailed => workspaceFailed'
  BY DEF Build, BuildFails, CanBuild, Usable, faultVars
<1>4. PICK x \in {id, Null} : slice' = [slice EXCEPT ![context[k]] = Append(@, x)]
  BY DEF Build, BuildFails
<1>5. /\ \A s \in Slices : \A i \in 1..Len(slice[s]) :
           i \in 1..Len(slice'[s]) /\ slice'[s][i] = slice[s][i]
      /\ \A s \in Slices : s = context[k] \/ slice'[s] = slice[s]
      /\ \A i \in 1..Len(slice'[context[k]]) :
           i \in 1..Len(slice[context[k]]) \/ slice'[context[k]][i] = x
  <2> DEFINE old == slice[context[k]]
  <2>1. old \in Seq(Keys \cup {Null}) /\ x \in Keys \cup {Null}
    BY <1>1, <1>2 DEF TypeInv, SliceTypes
  <2>2. /\ Len(Append(old, x)) = Len(old) + 1 /\ Len(old) \in Nat
        /\ \A i \in 1..Len(old) : Append(old, x)[i] = old[i]
        /\ Append(old, x)[Len(old) + 1] = x
    BY <2>1
  <2>3. /\ slice'[context[k]] = Append(old, x)
        /\ \A s \in Slices : s = context[k] \/ slice'[s] = slice[s]
    BY <1>2, <1>4 DEF TypeInv, SliceTypes
  <2> HIDE DEF old
  <2>4. \A i \in 1..Len(old) : i \in 1..Len(Append(old, x))
    BY <2>2
  <2>5. \A i \in 1..Len(Append(old, x)) : i \in 1..Len(old) \/ i = Len(old) + 1
    BY <2>2
  <2> QED
    BY <2>2, <2>3, <2>4, <2>5 DEF old
<1>6. ContextsApart' /\ ActiveEntryOwnsAlias'
  BY <1>3 DEF ContextsApart, ActiveEntryOwnsAlias, kindVars, entryVars
<1>7. AliasesAlive'
  <2> SUFFICES ASSUME NEW j \in Kinds, prepared[j]
               PROVE  context[j] # Null /\ Names(context[j], graph[j], key[j])'
    BY <1>3 DEF AliasesAlive, kindVars
  <2>1. context[j] \in Slices /\ Names(context[j], graph[j], key[j])
    BY DEF AliasesAlive, TypeInv, KindTypes
  <2> QED
    BY <1>3, <1>5, <2>1, SentinelsAssumption DEF Names, kindVars
<1>8. EntriesAlive'
  BY <1>3, <1>5 DEF EntriesAlive, Names, entryVars, Slices
<1>9. SlotAlive'
  BY <1>3, <1>5, SlotStaysAlive DEF workspaceVars
<1>10. LiveGraphsBound'
  <2>1. LiveGraphs' = LiveGraphs
    BY <1>3 DEF LiveGraphs, GraphOf, kindVars, entryVars
  <2> QED
    BY <1>3, <2>1 DEF LiveGraphsBound, workspaceVars
<1>11. CASE UNCHANGED rowVars /\ (k = PREFILL => x = Null \/ ~IndexedPrefill)
  <2>1. RowsFresh'
    BY <1>3, <1>11 DEF RowsFresh, rowVars
  <2>2. RowsRegistered'
    <3> SUFFICES ASSUME IndexedPrefill, ~workspaceFailed
                 PROVE  (PreparedRows /\ EntryRows /\ BuiltRows)'
      BY <1>3 DEF RowsRegistered
    <3>1. PreparedRows' /\ EntryRows'
      BY <1>3, <1>11 DEF RowsRegistered, PreparedRows, EntryRows, kindVars, entryVars, rowVars
    <3>2. BuiltRows'
      <4> SUFFICES ASSUME ~prepared[PREFILL], context[PREFILL] # Null,
                          NEW i \in 1..Len(slice'[context[PREFILL]]),
                          slice'[context[PREFILL]][i] # Null
                   PROVE  rows = ExtentOf[slice'[context[PREFILL]][i]]
        BY <1>3, <1>11 DEF BuiltRows, kindVars, rowVars
      <4>1. context[PREFILL] \in Slices
        BY DEF ContextsApart, Slices
      <4>2. /\ i \in 1..Len(slice[context[PREFILL]])
            /\ slice'[context[PREFILL]][i] = slice[context[PREFILL]][i]
        <5>1. CASE k = PREFILL
          BY <1>5, <1>11, <4>1, <5>1
        <5>2. CASE k # PREFILL
          BY <1>2, <1>5, <4>1, <5>2, ContextsDiffer DEF Kinds
        <5> QED
          BY <5>1, <5>2
      <4> QED
        BY <4>2 DEF RowsRegistered, BuiltRows
    <3> QED
      BY <3>1, <3>2
  <2> QED
    BY <1>6, <1>7, <1>8, <1>9, <1>10, <2>1, <2>2
<1>12. CASE /\ k = PREFILL /\ IndexedPrefill
            /\ RowsAgree(id) /\ rows' = ExtentOf[id] /\ rowsValid' = (rowsValid /\ rows # Null)
  <2>1. RowsFresh'
    BY <1>1, <1>3, <1>12 DEF RowsFresh, RowsAgree
  <2>2. RowsRegistered'
    <3> SUFFICES ASSUME ~workspaceFailed PROVE (PreparedRows /\ EntryRows /\ BuiltRows)'
      BY <1>3 DEF RowsRegistered
    <3>1. PreparedRows' /\ EntryRows'
      BY <1>2, <1>3, <1>12 DEF RowsRegistered, PreparedRows, EntryRows, kindVars, entryVars
    <3>2. BuiltRows'
      <4> SUFFICES ASSUME NEW i \in 1..Len(slice'[context[PREFILL]]),
                          slice'[context[PREFILL]][i] # Null
                   PROVE  ExtentOf[id] = ExtentOf[slice'[context[PREFILL]][i]]
        BY <1>3, <1>12 DEF BuiltRows, kindVars
      <4>1. CASE i \in 1..Len(slice[context[PREFILL]])
        <5> DEFINE old == slice[context[PREFILL]][i]
        <5>1. slice'[context[PREFILL]][i] = old /\ old # Null
          BY <1>2, <1>5, <1>12, <4>1
        <5>2. rows = ExtentOf[old] /\ old \in Keys
          <6>1. old \in Keys \cup {Null}
            BY <1>2, <1>12, <4>1 DEF TypeInv, SliceTypes
          <6>2. context[PREFILL] # Null
            BY <1>2, <1>12, SentinelsAssumption
          <6> QED
            BY <1>2, <1>12, <4>1, <5>1, <6>1, <6>2 DEF RowsRegistered, BuiltRows
        <5>3. rows # Null
          BY <5>2, ConstantsAssumption, SentinelsAssumption
        <5> QED
          BY <1>12, <5>1, <5>2, <5>3 DEF RowsAgree
      <4>2. CASE i \notin 1..Len(slice[context[PREFILL]])
        BY <1>4, <1>5, <1>12, <4>2
      <4> QED
        BY <4>1, <4>2
    <3> QED
      BY <3>1, <3>2
  <2> QED
    BY <1>6, <1>7, <1>8, <1>9, <1>10, <2>1, <2>2
<1>13. \/ UNCHANGED rowVars /\ (k = PREFILL => x = Null \/ ~IndexedPrefill)
       \/ /\ k = PREFILL /\ IndexedPrefill
          /\ RowsAgree(id) /\ rows' = ExtentOf[id] /\ rowsValid' = (rowsValid /\ rows # Null)
  <2>1. CASE RegistersRows(k, id)
    BY <2>1 DEF RegistersRows
  <2>2. CASE UNCHANGED rowVars /\ BuildFails(k, id)
    <3>1. slice' = [slice EXCEPT ![context[k]] = Append(@, Null)]
      BY <2>2 DEF BuildFails
    <3>2. Append(slice[context[k]], x) = Append(slice[context[k]], Null)
      BY <1>2, <1>4, <3>1 DEF TypeInv, SliceTypes
    <3>3. x = Null
      <4>1. slice[context[k]] \in Seq(Keys \cup {Null}) /\ x \in Keys \cup {Null}
        BY <1>1, <1>2 DEF TypeInv, SliceTypes
      <4>2. Append(slice[context[k]], x)[Len(slice[context[k]]) + 1] = x
        BY <4>1
      <4>3. Append(slice[context[k]], Null)[Len(slice[context[k]]) + 1] = Null
        BY <4>1
      <4> QED
        BY <3>2, <4>2, <4>3
    <3> QED
      BY <2>2, <3>3
  <2> QED
    BY <2>1, <2>2 DEF Build, BuildFails
<1> QED
  BY <1>11, <1>12, <1>13

LEMMA ComputeIsSound ==
  ASSUME Before, NEW k \in Kinds, NEW id, Compute(k, id) \/ ComputeFails(k, id)
  PROVE  SoundInv'
<1>1. CASE Compute(k, id)
  <2>1. /\ UNCHANGED <<context, graph, key, prepared, active, slice, bound, workspacePrepared, rows,
                       uploaded, workspaceFailed>>
        /\ rowsValid' => rowsValid
    BY <1>1 DEF Compute, ConsumesRows, sliceVars, faultVars
  <2>2. SlotAlive'
    BY <1>1, <2>1, AdvanceForgetsSlot, SlotStaysAlive DEF Compute, Before, SoundInv
  <2>3. RowsFresh'
    BY <2>1 DEF Before, SoundInv, RowsFresh
  <2>4. /\ ~PrefillGraphCache => entry' = entry
        /\ \A e \in Entries : /\ entry'[e].prepared = entry[e].prepared
                              /\ entry'[e].graph = entry[e].graph
                              /\ entry'[e].key = entry[e].key
                              /\ entry'[e].pending = entry[e].pending
                              /\ entry'[e].rows = entry[e].rows
    <3>1. CASE PrefillGraphCache /\ k = PREFILL
      <4> DEFINE old == entry[active]
                 r == Record(old.graph, old.key, old.pending, old.prepared, TRUE, old.rows)
      <4>1. /\ r.graph = old.graph /\ r.key = old.key /\ r.pending = old.pending
            /\ r.prepared = old.prepared /\ r.rows = old.rows
        BY DEF Record
      <4>2. entry' = [entry EXCEPT ![active] = r]
        BY <1>1, <3>1 DEF Compute
      <4>3. \A e \in Entries : entry'[e] = IF e = active THEN r ELSE entry[e]
        BY <4>2 DEF Before, TypeInv, EntryTypes
      <4> HIDE DEF r
      <4> QED
        BY <3>1, <4>1, <4>3
    <3>2. CASE ~(PrefillGraphCache /\ k = PREFILL)
      BY <1>1, <3>2 DEF Compute
    <3> QED
      BY <3>1, <3>2
  <2> QED
    BY <2>1, <2>2, <2>3, <2>4, SteadyIsSound
<1>2. CASE ComputeFails(k, id)
  <2>1. /\ UNCHANGED <<context, graph, key, prepared, entry, active, slice, bound,
                       workspacePrepared, rows, uploaded>>
        /\ rowsValid' => rowsValid
    BY <1>2 DEF ComputeFails, ConsumesRows, kindVars, entryVars, sliceVars
  <2>2. /\ lastSlot' = lastSlot \/ lastSlot' = NoGraph
        /\ workspaceFailed => workspaceFailed'
    BY <1>2, AdvanceForgetsSlot DEF ComputeFails, GenerationExhausted, CanCompute, Usable
  <2> QED
    BY <2>1, <2>2, UntouchedIsSound
<1> QED
  BY <1>1, <1>2
-----------------------------------------------------------------------------
(* A graph that is installed was built for the key it is installed under,  *)
(* and a prefill graph asked for the rows that are registered.             *)
LEMMA InstallIsSound ==
  ASSUME Before, NEW k \in Kinds, NEW id \in KeysOf[k], NEW at, CanPrepare(k, id, at),
         slice[context[k]][at] = id, Installs(k, id, at), UNCHANGED uploaded
  PROVE  /\ Names(context[k], at, id) /\ AliasesAlive' /\ RowsFresh'
         /\ IndexedPrefill /\ k = PREFILL => rows = ExtentOf[id]
<1> USE DEF Before, SoundInv
<1>1. Names(context[k], at, id) /\ context[k] # Null
  BY DEF CanPrepare, Names
<1>2. AliasesAlive'
  <2> SUFFICES ASSUME NEW j \in Kinds, prepared'[j]
               PROVE  context[j] # Null /\ Names(context[j], graph'[j], key'[j])
    BY DEF AliasesAlive, Names, Installs
  <2>1. CASE j = k
    BY <1>1, <2>1 DEF Installs, TypeInv, KindTypes
  <2>2. CASE j # k
    BY <2>2 DEF Installs, TypeInv, KindTypes, AliasesAlive
  <2> QED
    BY <2>1, <2>2
<1>3. ASSUME IndexedPrefill, k = PREFILL PROVE rows = ExtentOf[id]
  <2>1. id # Null
    BY ConstantsAssumption, SentinelsAssumption
  <2> QED
    BY <1>1, <1>3, <2>1 DEF CanPrepare, Usable, RowsRegistered, BuiltRows, Names
<1> QED
  BY <1>1, <1>2, <1>3 DEF RowsFresh, Installs, rowVars

LEMMA PrepareIsSound ==
  ASSUME Before, NEW k \in Kinds, NEW id \in KeysOf[k], NEW at,
         slice[context[k]][at] = id, Prepare(k, id, at)
  PROVE  SoundInv'
<1> USE DEF Before, SoundInv
<1>1. /\ CanPrepare(k, id, at) /\ Installs(k, id, at) /\ UNCHANGED <<active, uploaded, faultVars>>
      /\ Rebuilds(generation, lastSlot, LiveGraphs \cup {<<context[k], at>>})
  BY DEF Prepare, Rebuilds
<1>2. /\ Names(context[k], at, id) /\ AliasesAlive' /\ RowsFresh'
      /\ IndexedPrefill /\ k = PREFILL => rows = ExtentOf[id]
  BY <1>1, InstallIsSound
<1>3. /\ UNCHANGED <<context, slice, rows, rowsValid, workspaceFailed>> /\ ~workspaceFailed
      /\ graph'[k] = at /\ key'[k] = id /\ prepared'[k]
      /\ \A j \in Kinds :
           j = k \/ (graph'[j] = graph[j] /\ key'[j] = key[j] /\ prepared'[j] = prepared[j])
  BY <1>1 DEF Installs, CanPrepare, Usable, TypeInv, KindTypes, rowVars, faultVars
<1>4. SlotAlive'
  BY <1>1, <1>3, AdvanceForgetsSlot, SlotStaysAlive DEF Rebuilds
<1>5. IndexedPrefill => PreparedRows' /\ BuiltRows'
  <2>1. CASE k = PREFILL
    BY <1>2, <1>3, <2>1 DEF PreparedRows, BuiltRows
  <2>2. CASE k # PREFILL
    BY <1>3, <2>2 DEF PreparedRows, BuiltRows, RowsRegistered, Kinds
  <2> QED
    BY <2>1, <2>2
<1>6. CASE PrefillGraphCache /\ k = PREFILL
  <2>1. active \in Entries /\ context[PREFILL] = active
    BY <1>1, <1>6 DEF CanPrepare, AnchorInv
  <2> DEFINE r == Record(at, id, Null, TRUE, FALSE, rows)
  <2>2. /\ r.graph = at /\ r.key = id /\ r.pending = Null /\ r.prepared = TRUE /\ r.rows = rows
    BY DEF Record
  <2>3. entry' = [entry EXCEPT ![active] = r]
    BY <1>6 DEF Prepare
  <2> HIDE DEF r
  <2>4. entry'[active] = r /\ \A e \in Entries : e = active \/ entry'[e] = entry[e]
    BY <2>1, <2>3 DEF TypeInv, EntryTypes
  <2>5. ContextsApart'
    BY <1>3, <1>6 DEF ContextsApart
  <2>6. EntriesAlive'
    BY <1>2, <1>3, <1>6, <2>1, <2>2, <2>4 DEF EntriesAlive, Names
  <2>7. ActiveEntryOwnsAlias'
    <3>1. \A e \in Entries : entry'[e].pending # Null => e = active' /\ ~entry'[e].prepared
      BY <1>1, <2>2, <2>4 DEF ActiveEntryOwnsAlias
    <3>2. prepared'[PREFILL] = TRUE /\ context'[PREFILL] = active'
      BY <1>1, <1>3, <1>6, <2>1 DEF Installs, TypeInv, KindTypes
    <3>3. \E e \in Entries : e = active' /\ entry'[e].prepared
      BY <1>1, <2>1, <2>2, <2>4
    <3> QED
      BY <3>1, <3>2, <3>3 DEF ActiveEntryOwnsAlias
  <2>8. LiveGraphsBound'
    <3> SUFFICES ASSUME NEW g \in LiveGraphs' PROVE g \in LiveGraphs \cup {<<context[k], at>>}
      BY <1>1 DEF Rebuilds, LiveGraphsBound
    <3>1. CASE \E j \in Kinds : prepared'[j] /\ g = <<context'[j], graph'[j]>>
      BY <1>3, <3>1 DEF LiveGraphs, GraphOf
    <3>2. CASE \E e \in Entries : entry'[e].prepared /\ e # active' /\ g = <<e, entry'[e].graph>>
      BY <1>1, <1>6, <2>4, <3>2 DEF LiveGraphs
    <3> QED
      BY <3>1, <3>2 DEF LiveGraphs, GraphOf
  <2>9. IndexedPrefill => EntryRows'
    BY <1>2, <1>3, <1>6, <2>2, <2>4 DEF EntryRows, RowsRegistered
  <2> QED
    BY <1>2, <1>4, <1>5, <2>5, <2>6, <2>7, <2>8, <2>9 DEF RowsRegistered
<1>7. CASE ~(PrefillGraphCache /\ k = PREFILL)
  <2>1. entry' = entry
    BY <1>7 DEF Prepare
  <2>2. ContextsApart' /\ EntriesAlive'
    BY <1>1, <1>3, <2>1 DEF ContextsApart, EntriesAlive, Names
  <2>3. ActiveEntryOwnsAlias'
    BY <1>1, <1>3, <1>7, <2>1 DEF ActiveEntryOwnsAlias, Kinds
  <2>4. LiveGraphsBound'
    <3> SUFFICES ASSUME NEW g \in LiveGraphs' PROVE g \in LiveGraphs \cup {<<context[k], at>>}
      BY <1>1 DEF Rebuilds, LiveGraphsBound
    <3>1. CASE \E j \in Kinds : prepared'[j] /\ g = <<context'[j], graph'[j]>>
      BY <1>3, <3>1 DEF LiveGraphs, GraphOf
    <3>2. CASE PrefillGraphCache /\ \E e \in Entries :
                 entry'[e].prepared /\ e # active' /\ g = <<e, entry'[e].graph>>
      BY <1>1, <2>1, <3>2 DEF LiveGraphs
    <3> QED
      BY <3>1, <3>2 DEF LiveGraphs, GraphOf
  <2>5. IndexedPrefill => EntryRows'
    BY <1>3, <2>1 DEF EntryRows, RowsRegistered
  <2> QED
    BY <1>2, <1>4, <1>5, <2>2, <2>3, <2>4, <2>5 DEF RowsRegistered
<1> QED
  BY <1>6, <1>7

LEMMA PrepareFailsIsSound ==
  ASSUME Before, NEW k \in Kinds, NEW id \in KeysOf[k], NEW at,
         slice[context[k]][at] = id, PrepareFails(k, id, at)
  PROVE  SoundInv'
<1>1. CASE /\ UNCHANGED <<kindVars, entryVars, uploaded, rowVars, slice, workspaceVars>>
           /\ workspaceFailed => workspaceFailed'
  BY <1>1, UntouchedIsSound DEF kindVars, entryVars, rowVars, workspaceVars
<1>2. CASE Installs(k, id, at) /\ RebuildBreaks(generation, lastSlot)
  <2> USE DEF Before, SoundInv
  <2>1. CanPrepare(k, id, at) /\ UNCHANGED <<entry, active, uploaded>>
    BY DEF PrepareFails, entryVars
  <2>2. AliasesAlive' /\ RowsFresh'
    BY <1>2, <2>1, InstallIsSound
  <2>3. context' = context /\ slice' = slice
    BY <1>2 DEF Installs
  <2>4. workspaceFailed' /\ SlotAlive'
    BY <1>2, <2>3, BreakForgetsSlot, SlotStaysAlive
  <2>5. ContextsApart' /\ EntriesAlive' /\ ActiveEntryOwnsAlias'
    BY <2>1, <2>3, <2>4 DEF ContextsApart, EntriesAlive, Names, ActiveEntryOwnsAlias
  <2> QED
    BY <2>2, <2>4, <2>5 DEF LiveGraphsBound, RowsRegistered
<1> QED
  BY <1>1, <1>2 DEF PrepareFails, CanPrepare, Usable, sliceVars
-----------------------------------------------------------------------------
LEMMA InvalidateIsSound ==
  ASSUME Before, NEW k \in Kinds, Invalidate(k) \/ InvalidateFails(k)
  PROVE  SoundInv'
<1> USE DEF Before, SoundInv
<1>1. CASE /\ UNCHANGED <<kindVars, entryVars, rowVars, uploaded, sliceVars, workspaceVars>>
           /\ workspaceFailed => workspaceFailed'
  BY <1>1, UntouchedIsSound DEF kindVars, entryVars, rowVars, sliceVars, workspaceVars
<1>2. CASE /\ CanInvalidate(k) /\ Removes(k) /\ lastSlot' = NoGraph
           /\ slice' = [slice EXCEPT ![context[k]] = <<>>] \/ (slice' = slice /\ workspaceFailed')
           /\ \/ workspaceFailed'
              \/ bound' = LiveGraphs \ {GraphOf(k)} /\ workspaceFailed' = workspaceFailed
  <2>1. /\ UNCHANGED <<context, entry, active, uploaded>> /\ ~prepared'[k]
        /\ \A j \in Kinds :
             j = k \/ (graph'[j] = graph[j] /\ key'[j] = key[j] /\ prepared'[j] = prepared[j])
    BY <1>2 DEF Removes, entryVars, TypeInv, KindTypes
  <2>2. ~(PrefillGraphCache /\ k = PREFILL) /\ context[k] # Null /\ prepared[k]
    BY <1>2 DEF CanInvalidate, AliasesAlive
  <2>3. \A s \in Slices : s = context[k] \/ slice'[s] = slice[s]
    BY <1>2 DEF TypeInv, SliceTypes
  <2>4. \A j \in Kinds : prepared'[j] =>
          prepared[j] /\ j # k /\ context[j] # context[k] /\ context[j] \in Slices
    BY <2>1, <2>2, ContextsDiffer DEF AliasesAlive, TypeInv, KindTypes
  <2>5. PrefillGraphCache => context[k] \notin Entries /\ k # PREFILL
    BY <2>2, KindsAreThree DEF ContextsApart, Kinds
  <2>6. \A e \in Entries : entry[e].prepared => PrefillGraphCache
    BY EmptyEntryIsTyped DEF ContextsApart
  <2>7. ContextsApart'
    BY <2>1 DEF ContextsApart
  <2>8. AliasesAlive'
    BY <2>1, <2>3, <2>4 DEF AliasesAlive, Names
  <2>9. EntriesAlive'
    BY <2>1, <2>3, <2>5, <2>6 DEF EntriesAlive, Names, Slices
  <2>10. SlotAlive'
    BY <1>2 DEF SlotAlive
  <2>11. ActiveEntryOwnsAlias'
    <3>1. \A e \in Entries : entry'[e].pending # Null => e = active' /\ ~entry'[e].prepared
      BY <2>1 DEF ActiveEntryOwnsAlias
    <3>2. ASSUME PrefillGraphCache, ~workspaceFailed'
          PROVE  /\ context'[PREFILL] = active'
                 /\ prepared'[PREFILL] = (\E e \in Entries : e = active' /\ entry'[e].prepared)
      <4>1. prepared'[PREFILL] = prepared[PREFILL] /\ ~workspaceFailed
        BY <1>2, <2>1, <2>5, <3>2 DEF Kinds, CanInvalidate, Usable
      <4> QED
        BY <2>1, <3>2, <4>1 DEF ActiveEntryOwnsAlias
    <3> QED
      BY <3>1, <3>2 DEF ActiveEntryOwnsAlias
  <2>12. LiveGraphsBound'
    <3> SUFFICES ASSUME ~workspaceFailed', NEW g \in LiveGraphs'
                 PROVE  g \in LiveGraphs /\ g # GraphOf(k)
      BY <1>2 DEF LiveGraphsBound
    <3>1. CASE \E j \in Kinds : prepared'[j] /\ g = <<context'[j], graph'[j]>>
      BY <2>1, <2>4, <3>1 DEF LiveGraphs, GraphOf
    <3>2. CASE PrefillGraphCache /\ \E e \in Entries :
                 entry'[e].prepared /\ e # active' /\ g = <<e, entry'[e].graph>>
      BY <2>1, <2>5, <3>2 DEF LiveGraphs, GraphOf
    <3> QED
      BY <3>1, <3>2 DEF LiveGraphs, GraphOf
  <2>13. RowsFresh'
    BY <1>2, <2>1 DEF Removes, RowsFresh, rowVars
  <2>14. RowsRegistered'
    <3> SUFFICES ASSUME IndexedPrefill, ~workspaceFailed'
                 PROVE  (PreparedRows /\ EntryRows /\ BuiltRows)'
      BY DEF RowsRegistered
    <3>1. EntryRows' /\ ~workspaceFailed
      BY <1>2, <2>1 DEF RowsRegistered, EntryRows, CanInvalidate, Usable
    <3>2. CASE k = PREFILL
      <4>1. slice'[context[PREFILL]] = <<>>
        BY <1>2, <2>2, <3>2 DEF TypeInv, SliceTypes, KindTypes
      <4>2. Len(slice'[context'[PREFILL]]) = 0
        BY <2>1, <4>1
      <4> QED
        BY <2>1, <3>1, <3>2, <4>2 DEF PreparedRows, BuiltRows
    <3>3. CASE k # PREFILL
      <4>1. rows' = rows /\ prepared'[PREFILL] = prepared[PREFILL] /\ key'[PREFILL] = key[PREFILL]
        BY <1>2, <2>1, <3>3 DEF Removes, rowVars, Kinds
      <4>2. context[PREFILL] # Null => slice'[context[PREFILL]] = slice[context[PREFILL]]
        BY <2>2, <2>3, <3>3, ContextsDiffer DEF Kinds, ContextsApart, Slices
      <4> QED
        BY <2>1, <3>1, <4>1, <4>2 DEF RowsRegistered, PreparedRows, BuiltRows
    <3> QED
      BY <3>2, <3>3
  <2> QED
    BY <2>7, <2>8, <2>9, <2>10, <2>11, <2>12, <2>13, <2>14
<1>3. CASE Invalidate(k)
  <2>1. CanInvalidate(k) /\ Removes(k) /\ Rebuilds(generation, NoGraph, LiveGraphs \ {GraphOf(k)})
    BY <1>3 DEF Invalidate
  <2>2. /\ lastSlot' = NoGraph
        /\ bound' = LiveGraphs \ {GraphOf(k)} /\ workspaceFailed' = workspaceFailed
    BY <2>1, AdvanceForgetsSlot DEF Rebuilds, faultVars
  <2>3. slice' = [slice EXCEPT ![context[k]] = <<>>]
    BY <1>3 DEF Invalidate
  <2> QED
    BY <1>2, <2>1, <2>2, <2>3
<1>4. CASE Removes(k) /\ RebuildBreaks(generation, NoGraph) /\ slice' = slice /\ InvalidateFails(k)
  BY <1>2, <1>4, BreakForgetsSlot DEF InvalidateFails
<1>5. CASE InvalidateFails(k)
  <2>1. \/ /\ UNCHANGED <<kindVars, entryVars, rowVars, uploaded, sliceVars, workspaceVars>>
           /\ workspaceFailed' = workspaceFailed \/ workspaceFailed' = TRUE
        \/ Removes(k) /\ RebuildBreaks(generation, NoGraph) /\ slice' = slice
    BY <1>5 DEF InvalidateFails
  <2> QED
    BY <1>1, <1>4, <1>5, <2>1
<1> QED
  BY <1>3, <1>5
-----------------------------------------------------------------------------
(* When nothing is pending, saving the alias leaves entries that are       *)
(* alive, bound and registered with their rows.                            *)
LEMMA SavedIsSound ==
  ASSUME Before, PrefillGraphCache, ~workspaceFailed, NothingPending, NEW e \in Entries
  PROVE  /\ Saved[e].pending = Null
         /\ Saved[e].prepared => /\ Names(e, Saved[e].graph, Saved[e].key)
                                 /\ <<e, Saved[e].graph>> \in LiveGraphs
                                 /\ IndexedPrefill => Saved[e].rows = ExtentOf[Saved[e].key]
<1> USE DEF Before, SoundInv
<1>1. entry[e].pending = Null
  BY DEF NothingPending, ActiveEntryOwnsAlias
<1>2. CASE e = active /\ prepared[PREFILL]
  <2>1. context[PREFILL] = active /\ active # Null
    BY <1>2, KindsAreThree DEF AnchorInv
  <2> DEFINE r == Record(graph[PREFILL], key[PREFILL], entry[active].pending,
                         entry[active].prepared, executed[PREFILL], rows)
  <2>2. /\ r.graph = graph[PREFILL] /\ r.key = key[PREFILL] /\ r.pending = entry[active].pending
        /\ r.rows = rows
    BY DEF Record
  <2>3. Saved = [entry EXCEPT ![active] = r]
    BY <1>2, <2>1 DEF Saved
  <2> HIDE DEF r
  <2>4. Saved[e] = r
    BY <1>2, <2>3 DEF TypeInv, EntryTypes
  <2>5. Names(e, graph[PREFILL], key[PREFILL])
    BY <1>2, <2>1 DEF AliasesAlive, Kinds
  <2>6. <<e, graph[PREFILL]>> \in LiveGraphs
    BY <1>2, <2>1 DEF LiveGraphs, GraphOf, Kinds
  <2>7. IndexedPrefill => rows = ExtentOf[key[PREFILL]]
    BY <1>2 DEF RowsRegistered, PreparedRows
  <2> QED
    BY <1>1, <1>2, <2>2, <2>4, <2>5, <2>6, <2>7
<1>3. CASE ~(e = active /\ prepared[PREFILL])
  <2>1. Saved[e] = entry[e]
    BY <1>3 DEF Saved, TypeInv, EntryTypes
  <2>2. ASSUME entry[e].prepared PROVE e # active
    BY <1>3, <2>2 DEF ActiveEntryOwnsAlias
  <2>3. entry[e].prepared => <<e, entry[e].graph>> \in LiveGraphs
    BY <2>2 DEF LiveGraphs
  <2> QED
    BY <1>1, <2>1, <2>3 DEF EntriesAlive, RowsRegistered, EntryRows
<1> QED
  BY <1>2, <1>3

(* What replacing the PREFILL alias by record r of entry s does.           *)
LEMMA AliasReplaces ==
  ASSUME Before, NEW s, NEW r, Aliases(s, r)
  PROVE  /\ context'[PREFILL] = s /\ graph'[PREFILL] = r.graph /\ key'[PREFILL] = r.key
         /\ prepared'[PREFILL] = r.prepared /\ rows' = r.rows /\ RowsFresh'
         /\ \A k \in {DECODE, DECODE_ALT} :
              /\ context'[k] = context[k] /\ graph'[k] = graph[k] /\ key'[k] = key[k]
              /\ prepared'[k] = prepared[k] /\ context[k] = k
BY KindsAreThree DEF Before, SoundInv, TypeInv, KindTypes, Aliases, ContextsApart, RowsFresh, Kinds

(* An alias of a record that is alive, or of none, while the slices of the *)
(* decode graphs are left alone.                                           *)
LEMMA AliasIsAlive ==
  ASSUME Before, PrefillGraphCache, NEW s \in Entries \cup {Null}, NEW r, Aliases(s, r),
         active' = s, slice'[DECODE] = slice[DECODE], slice'[DECODE_ALT] = slice[DECODE_ALT],
         r.prepared => s # Null /\ Names(s, r.graph, r.key)'
  PROVE  AliasesAlive' /\ ContextsApart'
<1>1. ContextsApart'
  BY AliasReplaces DEF ContextsApart
<1>2. ASSUME NEW k \in Kinds, prepared'[k]
      PROVE  (context[k] # Null /\ Names(context[k], graph[k], key[k]))'
  <2>1. CASE k = PREFILL
    BY <1>2, <2>1, AliasReplaces DEF Names
  <2>2. CASE k \in {DECODE, DECODE_ALT}
    <3>1. context[k] # Null /\ Names(context[k], graph[k], key[k])
      BY <1>2, <2>2, AliasReplaces DEF Before, SoundInv, AliasesAlive
    <3> QED
      BY <2>2, <3>1, AliasReplaces DEF Names
  <2> QED
    BY <2>1, <2>2 DEF Kinds
<1> QED
  BY <1>1, <1>2 DEF AliasesAlive

LEMMA ActivateHitIsSound ==
  ASSUME Before, NEW e \in Entries, NEW id, ActivateHit(e, id)
  PROVE  SoundInv'
<1>1. /\ PrefillGraphCache /\ ~workspaceFailed /\ NothingPending
      /\ workspaceFailed' = workspaceFailed
      /\ active' = e /\ entry' = Saved /\ Aliases(e, Saved[e])
      /\ UNCHANGED <<slice, bound, workspacePrepared>>
  BY DEF ActivateHit, CanActivate, sliceVars, faultVars
<1>2. Saved[e].prepared
  <2>1. entry[e].prepared
    BY DEF ActivateHit, IsHit
  <2>2. Record(graph[PREFILL], key[PREFILL], entry[active].pending, entry[active].prepared,
               executed[PREFILL], rows).prepared = entry[active].prepared
    BY DEF Record
  <2> QED
    BY <2>1, <2>2 DEF Saved, Before, TypeInv, EntryTypes
<1>3. \A f \in Entries :
        /\ Saved[f].pending = Null
        /\ Saved[f].prepared => /\ Names(f, Saved[f].graph, Saved[f].key)
                                /\ <<f, Saved[f].graph>> \in LiveGraphs
                                /\ IndexedPrefill => Saved[f].rows = ExtentOf[Saved[f].key]
  BY <1>1, SavedIsSound
<1>4. e # Null
  BY KindsAreThree
<1>5. AliasesAlive' /\ ContextsApart'
  BY <1>1, <1>3, <1>4, AliasIsAlive DEF Names
<1>6. EntriesAlive'
  BY <1>1, <1>3 DEF EntriesAlive, Names
<1>7. SlotAlive'
  BY <1>1, AdvanceForgetsSlot, SlotStaysAlive DEF ActivateHit, Before, SoundInv
<1>8. ActiveEntryOwnsAlias'
  <2>1. /\ context'[PREFILL] = e /\ prepared'[PREFILL] = Saved[e].prepared
        /\ Saved[e].prepared \in BOOLEAN
    BY <1>1, AliasReplaces, SavedIsTyped DEF Before, Records
  <2> QED
    BY <1>1, <1>2, <1>3, <2>1 DEF ActiveEntryOwnsAlias
<1>9. LiveGraphsBound'
  <2> SUFFICES ASSUME workspacePrepared, NEW g \in LiveGraphs' PROVE g \in bound
    BY <1>1 DEF LiveGraphsBound
  <2>1. LiveGraphs \subseteq bound
    BY <1>1 DEF Before, SoundInv, LiveGraphsBound
  <2>2. CASE \E k \in {DECODE, DECODE_ALT} : prepared'[k] /\ g = <<context'[k], graph'[k]>>
    BY <1>1, <2>1, <2>2, AliasReplaces DEF LiveGraphs, GraphOf, Kinds
  <2>3. CASE prepared'[PREFILL] /\ g = <<context'[PREFILL], graph'[PREFILL]>>
    BY <1>1, <1>2, <1>3, <2>1, <2>3, AliasReplaces
  <2>4. CASE \E f \in Entries : entry'[f].prepared /\ g = <<f, entry'[f].graph>>
    BY <1>1, <1>3, <2>1, <2>4
  <2> QED
    BY <2>2, <2>3, <2>4 DEF LiveGraphs, GraphOf, Kinds
<1>10. RowsRegistered' /\ RowsFresh'
  BY <1>1, <1>2, <1>3, AliasReplaces DEF RowsRegistered, PreparedRows, EntryRows, BuiltRows
<1> QED
  BY <1>5, <1>6, <1>7, <1>8, <1>9, <1>10 DEF SoundInv

LEMMA ActivateMissIsSound ==
  ASSUME Before, NEW e \in Entries, NEW id, ActivateMiss(e, id)
  PROVE  SoundInv'
<1> DEFINE r == Record(0, Null, id, FALSE, FALSE, Null)
<1>1. /\ PrefillGraphCache /\ ~workspaceFailed /\ NothingPending
      /\ workspaceFailed' = workspaceFailed
      /\ active' = e /\ entry' = [Saved EXCEPT ![e] = r] /\ Aliases(e, EmptyEntry)
      /\ slice' = [slice EXCEPT ![e] = <<>>] /\ workspacePrepared' = FALSE
  BY DEF ActivateMiss, CanActivate, faultVars
<1>2. ~r.prepared /\ ~EmptyEntry.prepared
  BY EmptyEntryIsTyped DEF Record
<1> HIDE DEF r
<1>3. /\ entry'[e] = r
      /\ \A f \in Entries : f = e \/ entry'[f] = Saved[f]
  BY <1>1, SavedIsTyped DEF Before
<1>4. /\ slice'[e] = <<>> /\ \A s \in Slices : s = e \/ slice'[s] = slice[s]
      /\ slice'[DECODE] = slice[DECODE] /\ slice'[DECODE_ALT] = slice[DECODE_ALT]
  BY <1>1, KindsAreThree DEF Before, TypeInv, SliceTypes, Slices
<1>5. \A f \in Entries :
        /\ Saved[f].pending = Null
        /\ Saved[f].prepared => /\ Names(f, Saved[f].graph, Saved[f].key)
                                /\ IndexedPrefill => Saved[f].rows = ExtentOf[Saved[f].key]
  BY <1>1, SavedIsSound
<1>6. AliasesAlive' /\ ContextsApart'
  BY <1>1, <1>2, <1>4, AliasIsAlive
<1>7. EntriesAlive'
  BY <1>2, <1>3, <1>4, <1>5 DEF EntriesAlive, Names, Slices
<1>8. SlotAlive'
  <2>1. lastSlot' = NoGraph
    BY <1>1, ConstantsAssumption DEF ActivateMiss, ContentAdvances
  <2> QED
    BY <2>1 DEF SlotAlive
<1>9. ActiveEntryOwnsAlias'
  <2>1. context'[PREFILL] = e /\ prepared'[PREFILL] = EmptyEntry.prepared
    BY <1>1, AliasReplaces
  <2>2. EmptyEntry.prepared = FALSE
    BY DEF EmptyEntry, Record
  <2> QED
    BY <1>1, <1>2, <1>3, <1>5, <2>1, <2>2 DEF ActiveEntryOwnsAlias
<1>10. LiveGraphsBound'
  BY <1>1 DEF LiveGraphsBound
<1>11. RowsRegistered' /\ RowsFresh'
  <2>1. Len(slice'[context'[PREFILL]]) = 0
    BY <1>1, <1>4, AliasReplaces
  <2>2. BuiltRows'
    BY <2>1 DEF BuiltRows
  <2>3. PreparedRows' /\ RowsFresh'
    BY <1>1, <1>2, AliasReplaces DEF PreparedRows
  <2>4. IndexedPrefill => EntryRows'
    BY <1>2, <1>3, <1>5 DEF EntryRows
  <2> QED
    BY <2>2, <2>3, <2>4 DEF RowsRegistered
<1> QED
  BY <1>6, <1>7, <1>8, <1>9, <1>10, <1>11 DEF SoundInv

LEMMA ReleaseParkIsSound ==
  ASSUME Before, ReleasePark
  PROVE  SoundInv'
<1>1. /\ PrefillGraphCache /\ ~workspaceFailed /\ NothingPending
      /\ workspaceFailed' = workspaceFailed
      /\ active' = Null /\ entry' = Saved /\ Aliases(Null, EmptyEntry)
      /\ UNCHANGED <<slice, bound, workspacePrepared>>
  BY DEF ReleasePark, CanRelease, Detaches, sliceVars, faultVars
<1>2. EmptyEntry.prepared = FALSE
  BY DEF EmptyEntry, Record
<1>3. \A f \in Entries :
        /\ Saved[f].pending = Null
        /\ Saved[f].prepared => /\ Names(f, Saved[f].graph, Saved[f].key)
                                /\ <<f, Saved[f].graph>> \in LiveGraphs
                                /\ IndexedPrefill => Saved[f].rows = ExtentOf[Saved[f].key]
  BY <1>1, SavedIsSound
<1>4. AliasesAlive' /\ ContextsApart'
  BY <1>1, <1>2, AliasIsAlive
<1>5. EntriesAlive'
  BY <1>1, <1>3 DEF EntriesAlive, Names
<1>6. SlotAlive'
  BY <1>1, AdvanceForgetsSlot, SlotStaysAlive DEF ReleasePark, Before, SoundInv
<1>7. context'[PREFILL] = Null /\ prepared'[PREFILL] = FALSE
  BY <1>1, <1>2, AliasReplaces
<1>8. ActiveEntryOwnsAlias'
  BY <1>1, <1>3, <1>7, KindsAreThree DEF ActiveEntryOwnsAlias
<1>9. LiveGraphsBound'
  <2> SUFFICES ASSUME workspacePrepared, NEW g \in LiveGraphs' PROVE g \in bound
    BY <1>1 DEF LiveGraphsBound
  <2>1. LiveGraphs \subseteq bound
    BY <1>1 DEF Before, SoundInv, LiveGraphsBound
  <2>2. CASE \E k \in {DECODE, DECODE_ALT} : prepared'[k] /\ g = <<context'[k], graph'[k]>>
    BY <1>1, <2>1, <2>2, AliasReplaces DEF LiveGraphs, GraphOf, Kinds
  <2>3. CASE \E f \in Entries : entry'[f].prepared /\ g = <<f, entry'[f].graph>>
    BY <1>1, <1>3, <2>1, <2>3
  <2> QED
    BY <1>7, <2>2, <2>3 DEF LiveGraphs, GraphOf, Kinds
<1>10. RowsRegistered' /\ RowsFresh'
  BY <1>1, <1>3, <1>7, AliasReplaces DEF RowsRegistered, PreparedRows, EntryRows, BuiltRows
<1> QED
  BY <1>4, <1>5, <1>6, <1>8, <1>9, <1>10 DEF SoundInv

(* Giving back every entry leaves the decode graphs, bound again or not.   *)
LEMMA ClearIsSound ==
  ASSUME Before, PrefillGraphCache, ClearsEntries, lastSlot' = NoGraph,
         workspaceFailed' \/ bound' = DecodeGraphs
  PROVE  SoundInv'
<1>1. /\ active' = Null /\ entry' = [e \in Entries |-> EmptyEntry] /\ Aliases(Null, EmptyEntry)
      /\ slice' = [s \in Slices |-> IF s \in Entries THEN <<>> ELSE slice[s]]
  BY DEF ClearsEntries, Detaches
<1>2. EmptyEntry.prepared = FALSE /\ EmptyEntry.pending = Null
  BY DEF EmptyEntry, Record
<1>3. slice'[DECODE] = slice[DECODE] /\ slice'[DECODE_ALT] = slice[DECODE_ALT]
  BY <1>1, KindsAreThree DEF Slices
<1>4. AliasesAlive' /\ ContextsApart'
  BY <1>1, <1>2, <1>3, AliasIsAlive
<1>5. EntriesAlive' /\ SlotAlive'
  BY <1>1, <1>2 DEF EntriesAlive, SlotAlive
<1>6. context'[PREFILL] = Null /\ prepared'[PREFILL] = FALSE
  BY <1>1, <1>2, AliasReplaces
<1>7. ActiveEntryOwnsAlias'
  BY <1>1, <1>2, <1>6, KindsAreThree DEF ActiveEntryOwnsAlias
<1>8. LiveGraphsBound'
  <2> SUFFICES ASSUME NEW g \in LiveGraphs' PROVE g \in DecodeGraphs
    BY DEF LiveGraphsBound
  <2>1. CASE \E k \in {DECODE, DECODE_ALT} : prepared'[k] /\ g = <<context'[k], graph'[k]>>
    BY <1>1, <2>1, AliasReplaces DEF DecodeGraphs, GraphOf
  <2>2. ~\E f \in Entries : entry'[f].prepared
    BY <1>1, <1>2
  <2> QED
    BY <1>6, <2>1, <2>2 DEF LiveGraphs, GraphOf, Kinds
<1>9. RowsRegistered' /\ RowsFresh'
  BY <1>1, <1>2, <1>6, AliasReplaces DEF RowsRegistered, PreparedRows, EntryRows, BuiltRows
<1> QED
  BY <1>4, <1>5, <1>7, <1>8, <1>9 DEF SoundInv

LEMMA ReleaseClearIsSound ==
  ASSUME Before, ReleaseClear PROVE SoundInv'
<1>1. PrefillGraphCache /\ ClearsEntries /\ Rebuilds(generation + 1, NoGraph, DecodeGraphs)
  BY DEF ReleaseClear, CanRelease
<1>2. lastSlot' = NoGraph /\ bound' = DecodeGraphs
  BY <1>1, AdvanceForgetsSlot DEF Rebuilds
<1> QED
  BY <1>1, <1>2, ClearIsSound

LEMMA ReleaseFailsIsSound ==
  ASSUME Before, NEW clear \in BOOLEAN, ReleaseFails(clear) PROVE SoundInv'
<1>1. PrefillGraphCache
  BY DEF ReleaseFails, CanRelease
<1>2. CASE /\ UNCHANGED untouchedByFault /\ workspaceFailed'
           /\ lastSlot' = lastSlot \/ lastSlot' = NoGraph
  BY <1>2, UntouchedIsSound DEF untouchedByFault, kindVars, entryVars, rowVars, sliceVars
<1>3. CASE ClearsEntries /\ RebuildBreaks(generation + 1, NoGraph)
  BY <1>1, <1>3, BreakForgetsSlot, ClearIsSound
<1> QED
  BY <1>2, <1>3 DEF ReleaseFails, GenerationExhausted
-----------------------------------------------------------------------------
LEMMA ActivateFailsIsSound ==
  ASSUME Before, NEW e \in Entries, NEW id, ActivateFails(e, id) PROVE SoundInv'
<1>1. /\ UNCHANGED untouchedByFault /\ workspaceFailed'
      /\ lastSlot' = lastSlot \/ lastSlot' = NoGraph
  BY DEF ActivateFails, GenerationExhausted
<1> QED
  BY <1>1, UntouchedIsSound DEF untouchedByFault, kindVars, entryVars, rowVars, sliceVars

LEMMA UpdateRowsIsSound ==
  ASSUME Before, NEW x, UpdateRows(x) PROVE SoundInv'
<1>1. SlotAlive'
  BY DEF UpdateRows, Before, SoundInv, SlotAlive, sliceVars, workspaceVars
<1>2. RowsFresh'
  BY DEF UpdateRows, Before, SoundInv, RowsFresh
<1> QED
  BY <1>1, <1>2, SteadyIsSound
  DEF UpdateRows, kindVars, entryVars, sliceVars, workspaceVars, faultVars

(* A slot that is found through its kind becomes the cached one, and lives.*)
LEMMA ReadIsSound ==
  ASSUME Before, NEW g \in Graphs, Read(g) PROVE SoundInv'
<1>1. SlotAlive'
  <2>1. CASE lastSlot = g
    BY <2>1 DEF Read, Before, SoundInv, SlotAlive, sliceVars
  <2>2. CASE \E k \in Kinds : prepared[k] /\ GraphOf(k) = g
    BY <2>2 DEF Read, Before, SoundInv, SlotAlive, AliasesAlive, Names, GraphOf, sliceVars
  <2> QED
    BY <2>1, <2>2 DEF Read, SlotReady
<1>2. RowsFresh'
  BY DEF Read, Before, SoundInv, RowsFresh, rowVars
<1> QED
  BY <1>1, <1>2, SteadyIsSound
  DEF Read, kindVars, entryVars, rowVars, sliceVars, faultVars

LEMMA NextIsSound ==
  ASSUME Before, [Next]_gpuVars PROVE SoundInv'
<1>1. ASSUME NEW k \in Kinds, NEW id \in KeysOf[k], Build(k, id) \/ BuildFails(k, id)
      PROVE  SoundInv'
  BY <1>1, BuildIsSound
<1>2. ASSUME NEW k \in Kinds, NEW id, Compute(k, id) \/ ComputeFails(k, id) PROVE SoundInv'
  BY <1>2, ComputeIsSound
<1>3. ASSUME NEW k \in Kinds, NEW id \in KeysOf[k], NEW at, slice[context[k]][at] = id,
             Prepare(k, id, at) \/ PrepareFails(k, id, at)
      PROVE  SoundInv'
  BY <1>3, PrepareIsSound, PrepareFailsIsSound
<1>4. ASSUME NEW k \in Kinds, Invalidate(k) \/ InvalidateFails(k) PROVE SoundInv'
  BY <1>4, InvalidateIsSound
<1>5. ASSUME NEW e \in Entries, NEW id,
             ActivateHit(e, id) \/ ActivateMiss(e, id) \/ ActivateFails(e, id)
      PROVE  SoundInv'
  BY <1>5, ActivateHitIsSound, ActivateMissIsSound, ActivateFailsIsSound
<1>6. CASE ReleasePark \/ ReleaseClear
  BY <1>6, ReleaseParkIsSound, ReleaseClearIsSound
<1>7. ASSUME NEW clear \in BOOLEAN, ReleaseFails(clear) PROVE SoundInv'
  BY <1>7, ReleaseFailsIsSound
<1>8. ASSUME NEW x, UpdateRows(x) PROVE SoundInv'
  BY <1>8, UpdateRowsIsSound
<1>9. ASSUME NEW g \in Graphs, Read(g) PROVE SoundInv'
  BY <1>9, ReadIsSound
<1>10. CASE UNCHANGED gpuVars
  BY <1>10, UntouchedIsSound
  DEF gpuVars, kindVars, entryVars, rowVars, sliceVars, workspaceVars, faultVars
<1> QED
  BY <1>1, <1>2, <1>3, <1>4, <1>5, <1>6, <1>7, <1>8, <1>9, <1>10 DEF Next

LEMMA InitIsSound == Init => SoundInv
<1> SUFFICES ASSUME Init PROVE SoundInv
  OBVIOUS
<1>1. /\ \A k \in Kinds : ~prepared[k]
      /\ \A e \in Entries : entry[e] = EmptyEntry
      /\ active = Null /\ rowsValid = FALSE /\ lastSlot = NoGraph /\ workspacePrepared = FALSE
  BY DEF Init
<1>2. EmptyEntry.prepared = FALSE /\ EmptyEntry.pending = Null
  BY DEF EmptyEntry, Record
<1>3. /\ context \in [Kinds -> Slices \cup {Null}]
      /\ context[DECODE] = DECODE /\ context[DECODE_ALT] = DECODE_ALT
      /\ context[PREFILL] \in Entries \cup {Null}
      /\ PrefillGraphCache => context[PREFILL] = Null
  BY DEF Init
<1>4. ContextsApart
  BY <1>1, <1>3 DEF ContextsApart
<1>5. AliasesAlive /\ EntriesAlive /\ SlotAlive /\ LiveGraphsBound /\ RowsFresh
  BY <1>1, <1>2 DEF AliasesAlive, EntriesAlive, SlotAlive, LiveGraphsBound, RowsFresh
<1>6. ActiveEntryOwnsAlias
  <2>1. prepared[PREFILL] = FALSE
    BY DEF Init, Kinds
  <2> QED
    BY <1>1, <1>2, <1>3, <2>1 DEF ActiveEntryOwnsAlias
<1>7. RowsRegistered
  <2>1. \A s \in Slices : Len(slice[s]) = 0
    BY DEF Init
  <2>2. context[PREFILL] # Null => Len(slice[context[PREFILL]]) = 0
    BY <1>3, <2>1 DEF Slices
  <2> QED
    BY <1>1, <1>2, <2>2 DEF RowsRegistered, PreparedRows, EntryRows, BuiltRows, Kinds
<1> QED
  BY <1>4, <1>5, <1>6, <1>7 DEF SoundInv

(* Whatever was built, abandoned, activated, evicted, parked, given back   *)
(* or failed before, every graph the owner names is alive and was built    *)
(* for its key, what may be computed is bound and writes its own rows, and *)
(* the PREFILL alias is that of the active entry.                          *)
THEOREM OwnerKeepsWorkspaceSound == Spec => []WorkspaceIsSound
<1>1. Init => Before
  BY InitIsTyped, InitIsAnchored, InitIsSound DEF Before
<1>2. Before /\ [Next]_gpuVars => Before'
  BY NextIsTyped, NextKeepsAnchors, NextIsSound DEF Before, Kept
<1>3. Before => WorkspaceIsSound
  BY SoundInvIsEnough DEF Before
<1> QED
  BY <1>1, <1>2, <1>3, PTL DEF Spec
=============================================================================
