------------------------------ MODULE GpuGraphs ------------------------------
(***************************************************************************)
(* The compute graphs of one GPU owner (scripts/ggml_shim.c).              *)
(*                                                                         *)
(* A session keeps at most one prepared graph of each kind: PREFILL and    *)
(* the two decode graphs.  All of them are bound into ONE device           *)
(* workspace, so every change of the set of live graphs binds all of them  *)
(* again, and every computation overwrites what the others left there.     *)
(* With the prefill graph cache the PREFILL fields are aliases of one of a *)
(* few entries: activating an entry saves the fields into the entry that   *)
(* leaves and loads them from the one that enters.                         *)
(*                                                                         *)
(* A graph is named by the metadata slice it was built in and its position *)
(* in that slice: slice[s] is the sequence of keys of the graphs built in  *)
(* s since the last ggml_reset, so a position past its end is a graph      *)
(* whose memory was given back.                                            *)
(*                                                                         *)
(* The owner is as it is once its contexts are open: weights, KV planes    *)
(* and inputs are finished.  The counters that only feed reports are left  *)
(* out, and with them the refusals at their own limits.                    *)
(***************************************************************************)
EXTENDS Naturals, Sequences

CONSTANTS
  Entries,            \* the metadata slices PREFILL graphs are built in
  Keys,               \* topology keys
  Extents,            \* row extents a PREFILL graph writes: start and count
  KeysOf,             \* [Kinds -> SUBSET Keys]: the topologies of a kind
  ExtentOf,           \* [Keys -> Extents]
  Null,               \* no key, no slice, no extent
  RetainWorkspace,    \* align_gpu_workspace_retain_mode
  PrefillGraphCache,  \* align_gpu_prefill_graph_cache_mode
  IndexedPrefill,     \* PREFILL graphs write the KV rows named by an input
  GraphsPerSlice,     \* graphs that fit in one metadata slice
  MaxGeneration       \* UINT64_MAX in the code

PREFILL == "PREFILL"
DECODE == "DECODE"
DECODE_ALT == "DECODE_ALT"
Kinds == {PREFILL, DECODE, DECODE_ALT}
Slices == Entries \cup {DECODE, DECODE_ALT}

ASSUME ConstantsAssumption ==
  /\ RetainWorkspace \in BOOLEAN
  /\ PrefillGraphCache \in BOOLEAN
  /\ IndexedPrefill \in BOOLEAN
  /\ PrefillGraphCache => RetainWorkspace
  /\ GraphsPerSlice \in Nat
  /\ MaxGeneration \in Nat
  /\ KeysOf \in [Kinds -> SUBSET Keys]
  /\ ExtentOf \in [Keys -> Extents]

ASSUME SentinelsAssumption ==
  /\ Null \notin Keys \cup Extents \cup Slices
  /\ Entries \cap {DECODE, DECODE_ALT} = {}
  /\ ~PrefillGraphCache => \E e \in Entries : Entries = {e}

Graphs == Slices \X (1..GraphsPerSlice)
NoGraph == <<Null, 0>>

(* What a prefill entry holds; waiting is the key its activation missed on *)
(* until the graph is published (pending_key).                             *)
Record(at, id, waiting, ready, ran, x) ==
  [graph |-> at, key |-> id, pending |-> waiting, prepared |-> ready, executed |-> ran,
   rows |-> x]

EmptyEntry == Record(0, Null, Null, FALSE, FALSE, Null)

VARIABLES
  context,            \* [Kinds -> slice]: graph_contexts
  graph,              \* [Kinds -> position]: workspace_graphs, 0 for NULL
  key,                \* [Kinds -> key]: graph_keys
  prepared,           \* [Kinds -> BOOLEAN]: graph_prepared
  executed,           \* [Kinds -> BOOLEAN]: graph_current_execution_count > 0
  result,             \* [Kinds -> generation]: graph_result_generation
  entry,              \* [Entries -> record]: prefill_entries
  active,             \* prefill_active, Null for none
  rows,               \* the extent registered for PREFILL rows
  rowsValid,          \* prefill_rows_valid
  uploaded,           \* the extent the row-index input holds on the device
  slice,              \* [Slices -> Seq(key)]
  anchor,             \* [Slices -> position]: first node ever published, 0 unset
  generation,         \* workspace_content_generation
  workspacePrepared,  \* workspace_prepared
  workspaceFailed,    \* workspace_failed, which nothing clears
  observationFailed,  \* observation_failed
  lastSlot,           \* the graph last_slot_get_tensor belongs to
  bound,              \* the graphs whose tensors hold the current offsets
  content             \* the graph whose outputs the workspace holds

kindVars == <<context, graph, key, prepared, executed, result>>
entryVars == <<entry, active>>
rowVars == <<rows, rowsValid>>
sliceVars == <<slice, anchor>>
workspaceVars == <<generation, workspacePrepared, lastSlot, bound, content>>
faultVars == <<workspaceFailed, observationFailed>>
gpuVars ==
  <<kindVars, entryVars, rowVars, uploaded, sliceVars, workspaceVars, faultVars>>
-----------------------------------------------------------------------------
Init ==
  /\ context \in {c \in [Kinds -> Slices \cup {Null}] :
                   /\ IF PrefillGraphCache THEN c[PREFILL] = Null
                                           ELSE c[PREFILL] \in Entries
                   /\ c[DECODE] = DECODE
                   /\ c[DECODE_ALT] = DECODE_ALT}
  /\ graph = [k \in Kinds |-> 0]
  /\ key = [k \in Kinds |-> Null]
  /\ prepared = [k \in Kinds |-> FALSE]
  /\ executed = [k \in Kinds |-> FALSE]
  /\ result = [k \in Kinds |-> 0]
  /\ entry = [e \in Entries |-> EmptyEntry]
  /\ active = Null
  /\ rows = Null
  /\ rowsValid = FALSE
  /\ uploaded = Null
  /\ slice = [s \in Slices |-> <<>>]
  /\ anchor = [s \in Slices |-> 0]
  /\ generation = 0
  /\ workspacePrepared = FALSE
  /\ workspaceFailed = FALSE
  /\ observationFailed = FALSE
  /\ lastSlot = NoGraph
  /\ bound = {}
  /\ content = NoGraph

GraphOf(k) == <<context[k], graph[k]>>

(* Mutant: the poison is not looked at.                                    *)
UsableThoughPoisoned == PrefillGraphCache => ~observationFailed

(* workspace_failed refuses everywhere; observation_failed is part of the  *)
(* health the prefill cache asks for.                                      *)
Usable == ~workspaceFailed /\ (PrefillGraphCache => ~observationFailed)

(* The graphs a rebuild binds.  The active entry appears once, as the      *)
(* PREFILL alias and not as the copy it was parked with.                   *)
LiveGraphs ==
  {GraphOf(k) : k \in {k \in Kinds : prepared[k]}}
    \cup IF PrefillGraphCache
         THEN {<<e, entry[e].graph>> : e \in {e \in Entries : entry[e].prepared /\ e # active}}
         ELSE {}
-----------------------------------------------------------------------------
(* Mutant: a fast path that survives.                                      *)
ContentAdvancesKeepingSlot(g, last) ==
  /\ RetainWorkspace => g < MaxGeneration
  /\ generation' = IF RetainWorkspace THEN g + 1 ELSE g
  /\ lastSlot' = last

(* Any change of the workspace's content moves the generation, when the    *)
(* allocation is retained: results stamped before it are void.  g is the   *)
(* generation before, last what lastSlot is when nothing is retained.      *)
ContentAdvances(g, last) ==
  IF RetainWorkspace
  THEN g < MaxGeneration /\ generation' = g + 1 /\ lastSlot' = NoGraph
  ELSE generation' = g /\ lastSlot' = last

(* The generation never wraps: the owner is poisoned instead.              *)
GenerationExhausted(g) ==
  /\ RetainWorkspace /\ g = MaxGeneration
  /\ generation' = g
  /\ lastSlot' = NoGraph
  /\ workspaceFailed' = TRUE

(* A rebuild that binds every graph of live into one allocation.           *)
Rebuilds(g, last, live) ==
  /\ ContentAdvances(g, last)
  /\ workspacePrepared' = (live # {} \/ PrefillGraphCache)
  /\ bound' = live
  /\ content' = NoGraph
  /\ UNCHANGED faultVars

(* Mutant: a rebuild that fails before it binds does not poison.           *)
RebuildBreaksSilently(g, last) ==
  /\ generation' = g
  /\ lastSlot' = last
  /\ UNCHANGED <<workspacePrepared, bound, content, faultVars>>

(* A rebuild that fails: a helper does not drain, the generation is at its *)
(* limit, or a binding fails when the old one is gone.                     *)
RebuildBreaks(g, last) ==
  /\ workspaceFailed' = TRUE
  /\ UNCHANGED observationFailed
  /\ \/ /\ generation' = g
        /\ lastSlot' = last
        /\ UNCHANGED <<workspacePrepared, bound, content>>
     \/ /\ GenerationExhausted(g)
        /\ UNCHANGED <<workspacePrepared, bound, content>>
     \/ /\ ContentAdvances(g, last)
        /\ workspacePrepared' = FALSE
        /\ bound' = {}
        /\ content' = NoGraph
-----------------------------------------------------------------------------
(* The caller creates a graph in the kind's context and adds its nodes.    *)
(* A PREFILL graph that writes indexed rows registers their extent, which  *)
(* a graph that was abandoned before may still hold.                       *)
CanBuild(k) ==
  /\ Usable
  /\ context[k] # Null
  /\ ~prepared[k]
  /\ Len(slice[context[k]]) < GraphsPerSlice

RowsAgree(id) == rows \in {Null, ExtentOf[id]}

RegistersRows(k, id) ==
  IF k = PREFILL /\ IndexedPrefill
  THEN /\ RowsAgree(id)
       /\ rows' = ExtentOf[id]
       /\ rowsValid' = (rowsValid /\ rows # Null)
  ELSE UNCHANGED rowVars

Build(k, id) ==
  /\ CanBuild(k)
  /\ slice' = [slice EXCEPT ![context[k]] = Append(@, id)]
  /\ RegistersRows(k, id)
  /\ UNCHANGED <<kindVars, entryVars, anchor, uploaded, workspaceVars, faultVars>>

(* A graph whose construction is abandoned keeps its room and gets no key. *)
BuildFails(k, id) ==
  /\ CanBuild(k)
  /\ slice' = [slice EXCEPT ![context[k]] = Append(@, Null)]
  /\ RegistersRows(k, id) \/ UNCHANGED rowVars
  /\ workspaceFailed' \in BOOLEAN
  /\ UNCHANGED <<kindVars, entryVars, anchor, uploaded, workspaceVars,
                 observationFailed>>
-----------------------------------------------------------------------------
(* align_gpu_graph_prepare.  With the cache a PREFILL graph is published   *)
(* into the entry whose activation missed on the same key, and the first   *)
(* node of every graph of a slice sits at one address (the anchor).        *)
CanPrepare(k, id, at) ==
  /\ Usable
  /\ context[k] # Null
  /\ ~prepared[k]
  /\ at \in 1..Len(slice[context[k]])
  /\ PrefillGraphCache /\ k = PREFILL =>
       \E e \in Entries : e = active /\ entry[e].pending = id

(* Mutant: the first node may move.                                        *)
AnchoredAnywhere(k, at) == TRUE

Anchored(k, at) == PrefillGraphCache => anchor[context[k]] \in {0, at}

TakesAnchor(k, at) ==
  anchor' = IF PrefillGraphCache THEN [anchor EXCEPT ![context[k]] = at] ELSE anchor

Installs(k, id, at) ==
  /\ graph' = [graph EXCEPT ![k] = at]
  /\ key' = [key EXCEPT ![k] = id]
  /\ prepared' = [prepared EXCEPT ![k] = TRUE]
  /\ TakesAnchor(k, at)
  /\ UNCHANGED <<context, result, slice, rowVars>>

Prepare(k, id, at) ==
  /\ CanPrepare(k, id, at)
  /\ Anchored(k, at)
  /\ ~observationFailed
  /\ Installs(k, id, at)
  /\ executed' = [executed EXCEPT ![k] = FALSE]
  /\ Rebuilds(generation, lastSlot, LiveGraphs \cup {<<context[k], at>>})
  /\ entry' = IF PrefillGraphCache /\ k = PREFILL
              THEN [entry EXCEPT ![active] =
                     Record(at, id, Null, TRUE, FALSE, rows)]
              ELSE entry
  /\ UNCHANGED <<active, uploaded>>

PrepareFails(k, id, at) ==
  /\ CanPrepare(k, id, at)
  /\ UNCHANGED <<entryVars, uploaded>>
  /\ \/ \* a moved first node, or an operation the device does not support
        /\ workspaceFailed' = TRUE
        /\ (Anchored(k, at) /\ TakesAnchor(k, at)) \/ UNCHANGED anchor
        /\ UNCHANGED <<kindVars, rowVars, slice, workspaceVars, observationFailed>>
     \/ \* the resident payload is not where it was
        /\ Anchored(k, at)
        /\ observationFailed' = TRUE
        /\ TakesAnchor(k, at)
        /\ UNCHANGED <<kindVars, rowVars, slice, workspaceVars, workspaceFailed>>
     \/ \* the candidate is installed and the rebuild fails
        /\ Anchored(k, at)
        /\ ~observationFailed
        /\ Installs(k, id, at)
        /\ RebuildBreaks(generation, lastSlot)
        /\ UNCHANGED executed
-----------------------------------------------------------------------------
(* align_gpu_prefill_save: the active alias is copied into its entry.      *)
Saved ==
  IF active # Null /\ prepared[PREFILL]
  THEN [entry EXCEPT ![active] =
         Record(graph[PREFILL], key[PREFILL], @.pending, @.prepared, executed[PREFILL], rows)]
  ELSE entry

(* Mutant: the rows of the entry that leaves stay valid.                   *)
AliasesKeepingRows(s, r) ==
  /\ context' = [context EXCEPT ![PREFILL] = s]
  /\ graph' = [graph EXCEPT ![PREFILL] = r.graph]
  /\ key' = [key EXCEPT ![PREFILL] = r.key]
  /\ prepared' = [prepared EXCEPT ![PREFILL] = r.prepared]
  /\ executed' = [executed EXCEPT ![PREFILL] = r.executed]
  /\ result' = [result EXCEPT ![PREFILL] = 0]
  /\ rows' = r.rows
  /\ UNCHANGED rowsValid

(* align_gpu_prefill_detach leaves no alias; Aliases(e, r) is what follows *)
(* it in an activation: the context of e, and the topology r on a hit.     *)
Aliases(s, r) ==
  /\ context' = [context EXCEPT ![PREFILL] = s]
  /\ graph' = [graph EXCEPT ![PREFILL] = r.graph]
  /\ key' = [key EXCEPT ![PREFILL] = r.key]
  /\ prepared' = [prepared EXCEPT ![PREFILL] = r.prepared]
  /\ executed' = [executed EXCEPT ![PREFILL] = r.executed]
  /\ result' = [result EXCEPT ![PREFILL] = 0]
  /\ rows' = r.rows
  /\ rowsValid' = FALSE

Detaches == active' = Null /\ Aliases(Null, EmptyEntry)

IsHit(e, id) == entry[e].prepared /\ entry[e].key = id

(* Mutant: an entry may be left between its miss and its publication.      *)
PendingIgnored == TRUE

NothingPending == \A e \in Entries : e = active => entry[e].pending = Null

CanActivate(e, id) ==
  /\ PrefillGraphCache
  /\ ~workspaceFailed /\ ~observationFailed
  /\ NothingPending
  /\ IsHit(e, id) => workspacePrepared

ActivateHit(e, id) ==
  /\ CanActivate(e, id)
  /\ IsHit(e, id)
  /\ ContentAdvances(generation, lastSlot)
  /\ entry' = Saved
  /\ active' = e
  /\ Aliases(e, entry'[e])
  /\ UNCHANGED <<uploaded, sliceVars, workspacePrepared, bound, content, faultVars>>

(* A miss leaves the workspace unprepared until the entry is published.    *)
ActivateMiss(e, id) ==
  /\ CanActivate(e, id)
  /\ ~IsHit(e, id)
  /\ ContentAdvances(generation, lastSlot)
  /\ entry' = [Saved EXCEPT ![e] = Record(0, Null, id, FALSE, FALSE, Null)]
  /\ active' = e
  /\ Aliases(e, EmptyEntry)
  /\ slice' = [slice EXCEPT ![e] = <<>>]
  /\ workspacePrepared' = FALSE
  /\ bound' = bound \ ({e} \X (1..GraphsPerSlice))
  /\ UNCHANGED <<uploaded, anchor, content, faultVars>>

untouchedByFault ==
  <<kindVars, entryVars, rowVars, uploaded, sliceVars, workspacePrepared, bound, content,
    observationFailed>>

ActivateFails(e, id) ==
  /\ CanActivate(e, id)
  /\ \/ workspaceFailed' = TRUE /\ UNCHANGED <<generation, lastSlot>>
     \/ GenerationExhausted(generation)
  /\ UNCHANGED untouchedByFault
-----------------------------------------------------------------------------
(* align_gpu_prefill_graph_cache_release: 0 parks the active alias after a *)
(* request; 1 gives back every entry and binds the decode graphs again.    *)
CanRelease(clear) ==
  /\ PrefillGraphCache
  /\ ~workspaceFailed /\ ~observationFailed
  /\ clear \/ NothingPending

DecodeGraphsForgotten == {}

DecodeGraphs == {GraphOf(k) : k \in {k \in {DECODE, DECODE_ALT} : prepared[k]}}

ReleasePark ==
  /\ CanRelease(FALSE)
  /\ ContentAdvances(generation, lastSlot)
  /\ entry' = Saved
  /\ Detaches
  /\ UNCHANGED <<uploaded, sliceVars, workspacePrepared, bound, content, faultVars>>

(* Mutants: the records outlive their slices; the decode graphs are not    *)
(* bound again.                                                            *)
ClearsEntriesKeepingRecords ==
  /\ Detaches
  /\ slice' = [s \in Slices |-> IF s \in Entries THEN <<>> ELSE slice[s]]
  /\ UNCHANGED <<entry, anchor, uploaded>>

ClearsEntries ==
  /\ Detaches
  /\ entry' = [e \in Entries |-> EmptyEntry]
  /\ slice' = [s \in Slices |-> IF s \in Entries THEN <<>> ELSE slice[s]]
  /\ UNCHANGED <<anchor, uploaded>>

ReleaseClear ==
  /\ CanRelease(TRUE)
  /\ generation < MaxGeneration
  /\ ClearsEntries
  /\ Rebuilds(generation + 1, NoGraph, DecodeGraphs)

ReleaseFails(clear) ==
  /\ CanRelease(clear)
  /\ \/ /\ workspaceFailed' = TRUE
        /\ UNCHANGED <<generation, lastSlot>>
        /\ UNCHANGED untouchedByFault
     \/ /\ GenerationExhausted(generation)
        /\ UNCHANGED untouchedByFault
     \/ /\ clear /\ generation < MaxGeneration
        /\ ClearsEntries
        /\ RebuildBreaks(generation + 1, NoGraph)
-----------------------------------------------------------------------------
(* align_gpu_graph_invalidate of a kind that is not cached: the graph is   *)
(* taken out, the others are bound again and its slice is reset.           *)
CanInvalidate(k) ==
  /\ ~(PrefillGraphCache /\ k = PREFILL)
  /\ prepared[k]
  /\ Usable
  /\ ~observationFailed

Removes(k) ==
  /\ prepared' = [prepared EXCEPT ![k] = FALSE]
  /\ graph' = [graph EXCEPT ![k] = 0]
  /\ key' = [key EXCEPT ![k] = Null]
  /\ executed' = [executed EXCEPT ![k] = FALSE]
  /\ IF k = PREFILL THEN rows' = Null /\ rowsValid' = FALSE ELSE UNCHANGED rowVars
  /\ UNCHANGED <<context, result, entryVars, anchor, uploaded>>

Invalidate(k) ==
  /\ CanInvalidate(k)
  /\ Removes(k)
  /\ Rebuilds(generation, NoGraph, LiveGraphs \ {GraphOf(k)})
  /\ slice' = [slice EXCEPT ![context[k]] = <<>>]

InvalidateFails(k) ==
  /\ CanInvalidate(k)
  /\ \/ /\ observationFailed' = TRUE
        /\ UNCHANGED <<kindVars, entryVars, rowVars, uploaded, sliceVars, workspaceVars,
                       workspaceFailed>>
     \/ /\ workspaceFailed' = TRUE
        /\ UNCHANGED <<kindVars, entryVars, rowVars, uploaded, sliceVars, workspaceVars,
                       observationFailed>>
     \/ /\ Removes(k)
        /\ RebuildBreaks(generation, NoGraph)
        /\ UNCHANGED slice
-----------------------------------------------------------------------------
(* align_gpu_input_update of the row indices: only the registered extent   *)
(* is accepted, and a computation consumes it.                             *)
UpdateRows(x) ==
  /\ workspacePrepared
  /\ rows \in {Null, x}
  /\ uploaded' = x
  /\ rowsValid' = (rowsValid \/ rows # Null)
  /\ UNCHANGED <<kindVars, entryVars, rows, sliceVars, workspaceVars, faultVars>>
-----------------------------------------------------------------------------
(* align_gpu_graph_compute.                                                *)
CanCompute(k, id) ==
  /\ workspacePrepared
  /\ Usable
  /\ prepared[k]
  /\ key[k] = id
  /\ k = PREFILL /\ rows # Null => rowsValid

ConsumesRows(k) ==
  /\ rowsValid' = (rowsValid /\ ~(k = PREFILL /\ rows # Null))
  /\ UNCHANGED rows

Compute(k, id) ==
  /\ CanCompute(k, id)
  /\ ~observationFailed
  /\ ConsumesRows(k)
  /\ ContentAdvances(generation, lastSlot)
  /\ executed' = [executed EXCEPT ![k] = TRUE]
  /\ result' = IF RetainWorkspace THEN [result EXCEPT ![k] = generation'] ELSE result
  /\ content' = GraphOf(k)
  /\ entry' = IF PrefillGraphCache /\ k = PREFILL
              THEN [entry EXCEPT ![active] =
                     Record(@.graph, @.key, @.pending, @.prepared, TRUE, @.rows)]
              ELSE entry
  /\ UNCHANGED <<context, graph, key, prepared, active, uploaded, sliceVars, workspacePrepared,
                 bound, faultVars>>

ComputeFails(k, id) ==
  /\ CanCompute(k, id)
  /\ ConsumesRows(k)
  /\ \/ /\ GenerationExhausted(generation)
        /\ UNCHANGED <<content, observationFailed>>
     \/ \* the backend or a native helper fails, or the payload has moved
        /\ ContentAdvances(generation, lastSlot)
        /\ \/ ~observationFailed /\ workspaceFailed' = TRUE /\ UNCHANGED observationFailed
           \/ observationFailed' = TRUE /\ UNCHANGED workspaceFailed
        /\ IF observationFailed THEN UNCHANGED content
           ELSE content' \in {content, NoGraph, GraphOf(k)}
  /\ UNCHANGED <<kindVars, entryVars, sliceVars, workspacePrepared, bound, uploaded>>
-----------------------------------------------------------------------------
(* align_gpu_slot_ready, for a tensor of graph g.                          *)
SlotReady(g) ==
  /\ ~observationFailed
  /\ RetainWorkspace => workspacePrepared /\ ~workspaceFailed /\ generation # 0
  /\ \/ lastSlot = g
     \/ \E k \in Kinds : /\ prepared[k] /\ executed[k]
                         /\ RetainWorkspace => result[k] = generation
                         /\ GraphOf(k) = g

Read(g) ==
  /\ SlotReady(g)
  /\ lastSlot' = g
  /\ UNCHANGED <<kindVars, entryVars, rowVars, uploaded, sliceVars, generation,
                 workspacePrepared, bound, content, faultVars>>
-----------------------------------------------------------------------------
Next ==
  \/ \E k \in Kinds : \E id \in KeysOf[k] :
       \/ Build(k, id)
       \/ BuildFails(k, id)
       \/ Compute(k, id)
       \/ ComputeFails(k, id)
       \/ \E at \in 1..GraphsPerSlice :
            /\ context[k] # Null /\ at <= Len(slice[context[k]])
            /\ slice[context[k]][at] = id
            /\ Prepare(k, id, at) \/ PrepareFails(k, id, at)
  \/ \E k \in Kinds : Invalidate(k) \/ InvalidateFails(k)
  \/ \E e \in Entries, id \in KeysOf[PREFILL] :
       ActivateHit(e, id) \/ ActivateMiss(e, id) \/ ActivateFails(e, id)
  \/ ReleasePark
  \/ ReleaseClear
  \/ \E clear \in BOOLEAN : ReleaseFails(clear)
  \/ \E x \in Extents : UpdateRows(x)
  \/ \E g \in Graphs : Read(g)

Spec == Init /\ [][Next]_gpuVars
-----------------------------------------------------------------------------
Records ==
  [graph : 0..GraphsPerSlice, key : Keys \cup {Null}, pending : Keys \cup {Null},
   prepared : BOOLEAN, executed : BOOLEAN, rows : Extents \cup {Null}]

(* The values the owner's fields range over.                               *)
TypeOK ==
  /\ context \in [Kinds -> Slices \cup {Null}]
  /\ graph \in [Kinds -> 0..GraphsPerSlice]
  /\ key \in [Kinds -> Keys \cup {Null}]
  /\ prepared \in [Kinds -> BOOLEAN]
  /\ executed \in [Kinds -> BOOLEAN]
  /\ result \in [Kinds -> 0..MaxGeneration]
  /\ entry \in [Entries -> Records]
  /\ active \in Entries \cup {Null}
  /\ rows \in Extents \cup {Null}
  /\ rowsValid \in BOOLEAN
  /\ uploaded \in Extents \cup {Null}
  /\ slice \in [Slices -> Seq(Keys \cup {Null})]
  /\ \A s \in Slices : Len(slice[s]) <= GraphsPerSlice
  /\ anchor \in [Slices -> 0..GraphsPerSlice]
  /\ generation \in 0..MaxGeneration
  /\ workspacePrepared \in BOOLEAN
  /\ workspaceFailed \in BOOLEAN
  /\ observationFailed \in BOOLEAN
  /\ lastSlot \in Graphs \cup {NoGraph}
  /\ bound \subseteq Graphs
  /\ content \in Graphs \cup {NoGraph}

(* With a retained allocation the readiness of a slot, its cached fast     *)
(* path included, admits only the outputs of the graph that was computed   *)
(* last: nothing was bound, activated, released or computed since.         *)
ReadableIsLatest ==
  RetainWorkspace => \A g \in Graphs : SlotReady(g) => content = g

(* The graphs the owner still names: as an alias or as a parked entry.     *)
Names(s, at, id) == at \in 1..Len(slice[s]) /\ slice[s][at] = id

(* No alias, parked entry or cached slot names a graph whose metadata      *)
(* slice was reset, and each names the graph that was built for its key:   *)
(* a lookup or a hit returns the topology it was asked for.                *)
ReferencesAlive ==
  /\ \A k \in Kinds : prepared[k] =>
       context[k] # Null /\ Names(context[k], graph[k], key[k])
  /\ \A e \in Entries : entry[e].prepared => Names(e, entry[e].graph, entry[e].key)
  /\ lastSlot # NoGraph => lastSlot[2] \in 1..Len(slice[lastSlot[1]])

(* A workspace that admits a computation holds a binding of every live     *)
(* graph, the parked ones included: none computes into offsets of an       *)
(* allocation that was laid out without it.                                *)
LiveGraphsBound ==
  workspacePrepared /\ ~workspaceFailed => LiveGraphs \subseteq bound

(* A prefill that may be computed finds in the row-index input the rows of *)
(* its own topology, never those of the chunk before, of another entry or  *)
(* of a graph that was abandoned: it writes its own range of the KV plane. *)
RowsWrittenAreItsOwn ==
  IndexedPrefill =>
    \A id \in Keys : CanCompute(PREFILL, id) => uploaded = ExtentOf[id]

(* With the cache, every graph a slice ever publishes starts at the node   *)
(* address of the first one, whatever was abandoned, released, evicted or  *)
(* parked between the two, so the backend, which keeps what it allocated   *)
(* for an address, sees at most one key for each slice.                    *)
OneBackendKeyPerSlice ==
  [][PrefillGraphCache =>
       /\ \A s \in Slices : anchor[s] # 0 => anchor'[s] = anchor[s]
       /\ \A k \in Kinds : prepared'[k] => graph'[k] = anchor'[context'[k]]
       /\ \A e \in Entries : entry'[e].prepared => entry'[e].graph = anchor'[e]]_gpuVars

(* Only the active entry is between its miss and its publication, and the  *)
(* alias of the active entry agrees with what it is saved as.              *)
ActiveEntryOwnsAlias ==
  /\ \A e \in Entries : entry[e].pending # Null => e = active /\ ~entry[e].prepared
  /\ PrefillGraphCache /\ ~workspaceFailed =>
       /\ context[PREFILL] = active
       /\ prepared[PREFILL] = (\E e \in Entries : e = active /\ entry[e].prepared)

(* The retained workspace as a whole: whatever was prepared, parked,       *)
(* activated, evicted or abandoned before, what the owner names is alive   *)
(* and was built for its key, what may be computed is bound and writes its *)
(* own rows, and the alias is that of the active entry.                    *)
WorkspaceIsSound ==
  ReferencesAlive /\ LiveGraphsBound /\ RowsWrittenAreItsOwn /\ ActiveEntryOwnsAlias

(* A poisoned owner stays poisoned: no later call computes, binds,         *)
(* activates or gives back a graph, or moves the generation.               *)
PoisonedForGood ==
  [][workspaceFailed =>
       /\ workspaceFailed'
       /\ UNCHANGED <<kindVars, entryVars, slice, generation, bound, content>>]_gpuVars
=============================================================================
