---------------------------- MODULE Qwen35Session ----------------------------
(***************************************************************************)
(* One resident generation session on one GPU owner                        *)
(* (src/runtime_qwen35_generation.align over scripts/ggml_shim.c), one     *)
(* device call per step.                                                   *)
(*                                                                         *)
(* Positions are counted in units: a prompt is a number of prefill chunks, *)
(* a generated token is one more unit.  The resident data is abstracted to *)
(* what it was computed from: a recurrent state to the number of units of  *)
(* this request it has absorbed, a KV row to the request that wrote it.    *)
(* The recurrent state is double-buffered: a graph reads the buffer of the *)
(* parity it was built for and writes the other one.                       *)
(***************************************************************************)
EXTENDS Naturals, Sequences

CONSTANTS
  Null,
  EntryOrder,         \* the prefill entries in index order
  MaxChunks,          \* longest prompt, in chunks
  MaxTokens,          \* largest max_tokens
  WidthUnit,          \* units an attention width is rounded up to
  RetainWorkspace, PrefillGraphCache, IndexedPrefill, GraphsPerSlice, MaxGeneration

ASSUME SessionAssumption ==
  /\ EntryOrder # <<>>
  /\ EntryOrder \in Seq({EntryOrder[i] : i \in DOMAIN EntryOrder})
  /\ MaxChunks \in Nat \ {0}
  /\ MaxTokens \in Nat \ {0}
  /\ WidthUnit \in Nat \ {0}
  /\ {RetainWorkspace, PrefillGraphCache, IndexedPrefill} \subseteq BOOLEAN
  /\ PrefillGraphCache => RetainWorkspace
  /\ ~PrefillGraphCache => Len(EntryOrder) = 1
  /\ GraphsPerSlice \in Nat
  /\ MaxGeneration \in Nat

PREFILL == "PREFILL"
DECODE == "DECODE"
DECODE_ALT == "DECODE_ALT"
DecodeKinds == {DECODE, DECODE_ALT}

Positions == 0..(MaxChunks + MaxTokens)

(* runtime_inputs.attention_width of valid units, below the context length *)
(* that caps it.                                                           *)
WidthOf(valid) == ((valid + WidthUnit - 1) \div WidthUnit) * WidthUnit

Widths == {WidthOf(v) : v \in Positions \ {0}}

(* The topology keys: what of key()'s text varies in one session.  at is   *)
(* the offset of a prefill chunk and the width of a decode graph, last is  *)
(* emit_logits together with the count of the last chunk.                  *)
Topology(k, at, parity, last) == [kind |-> k, at |-> at, parity |-> parity, last |-> last]

(* A decode graph always emits logits.                                     *)
Emits == TRUE

PrefillKeys == {Topology(PREFILL, i, p, l) :
                  i \in 0..(MaxChunks - 1), p \in {0, 1}, l \in BOOLEAN}
DecodeKeysOf(k) == {Topology(k, w, p, Emits) : w \in Widths, p \in {0, 1}}

TopologyKeys == PrefillKeys \cup DecodeKeysOf(DECODE) \cup DecodeKeysOf(DECODE_ALT)
TopologyKeysOf == [k \in {PREFILL} \cup DecodeKinds |->
                     IF k = PREFILL THEN PrefillKeys ELSE DecodeKeysOf(k)]
RowsOf == [id \in TopologyKeys |-> <<id.at, id.last>>]

(* Null is none of these, and an entry is not a decode kind.               *)
ASSUME NamesAssumption ==
  LET entries == {EntryOrder[i] : i \in DOMAIN EntryOrder}
  IN  /\ Null \notin TopologyKeys
      /\ Null \notin {RowsOf[id] : id \in TopologyKeys}
      /\ Null \notin entries \cup DecodeKinds
      /\ entries \cap DecodeKinds = {}

EntryAt(i) == EntryOrder[(i % Len(EntryOrder)) + 1]

VARIABLES
  context, graph, key, prepared, executed, result, entry, active, rows, rowsValid,
  uploaded, slice, anchor, generation, workspacePrepared, workspaceFailed,
  observationFailed, lastSlot, bound, content

Gpu == INSTANCE GpuGraphs
         WITH Entries <- {EntryOrder[i] : i \in DOMAIN EntryOrder},
              Keys <- TopologyKeys, KeysOf <- TopologyKeysOf,
              Extents <- {RowsOf[id] : id \in TopologyKeys}, ExtentOf <- RowsOf

VARIABLES
  op, healthy, streamActive, budget, step,    \* as in SessionApi
  pc,             \* what the operation does next
  firstRequest,   \* Session.first_request
  chunks,         \* prompt.len(), in chunks
  offset,         \* the chunk being prefilled
  parity,         \* State.active, in stream_state between calls
  prefilled,      \* prefill_key is not empty
  decodeKey,      \* [decode kind -> key]: decode_a_key, decode_b_key
  recurrent,      \* [{0, 1} -> units absorbed, or Foreign]
  kv,             \* [Positions -> "zero", "own" or "foreign"]
  failed          \* whether a call failed since the session last recovered

gpuVars ==
  <<context, graph, key, prepared, executed, result, entry, active, rows, rowsValid,
    uploaded, slice, anchor, generation, workspacePrepared, workspaceFailed,
    observationFailed, lastSlot, bound, content>>
residentVars == <<recurrent, kv>>
callVars == <<healthy, streamActive, budget, firstRequest, chunks>>
cursorVars == <<step, offset, parity, prefilled>>
vars == <<gpuVars, residentVars, callVars, cursorVars, decodeKey, op, pc, failed>>

(* A recurrent state of another request, or of an aborted computation.     *)
Foreign == MaxChunks + MaxTokens + 1

Init ==
  /\ Gpu!Init
  /\ op = "none" /\ pc = "idle" /\ failed = FALSE
  /\ healthy = TRUE /\ streamActive = FALSE /\ firstRequest = TRUE
  /\ budget = 0 /\ chunks = 0
  /\ step = 0 /\ offset = 0 /\ parity = 0 /\ prefilled = FALSE
  /\ decodeKey = [k \in DecodeKinds |-> Null]
  /\ recurrent = [p \in {0, 1} |-> 0]
  /\ kv = [i \in Positions |-> "zero"]
-----------------------------------------------------------------------------
(* Steps of an operation.  Every failing call returns at once (`?`): the   *)
(* fields assigned so far stay as they are.                                *)
Calls(o, at) == op = "none" /\ op' = o /\ pc' = at /\ UNCHANGED failed

Goes(from, to) == pc = from /\ pc' = to /\ UNCHANGED <<op, failed>>

ReturnsFrom(at) == pc = at /\ pc' = "idle" /\ op' = "none" /\ UNCHANGED failed

Fails(at) ==
  /\ pc = at /\ pc' = "idle" /\ op' = "none" /\ failed' = TRUE
  /\ UNCHANGED <<callVars, cursorVars, decodeKey>>

(* A device call whose preconditions fail changes nothing.                 *)
Refused(admitted) == ~admitted /\ UNCHANGED gpuVars

LastChunk == offset + 1 = chunks
ChunkKey == Topology(PREFILL, offset, parity, LastChunk)

(* The decode kind is the parity's, its width that of the next position.   *)
DecodeKind == IF parity = 1 THEN DECODE ELSE DECODE_ALT
Position == chunks + step - 1
StepKey == Topology(DecodeKind, WidthOf(Position + 1), parity, Emits)

Newest(k) == Len(slice[context[k]])
-----------------------------------------------------------------------------
(* A computation of topology id that absorbs unit n and writes KV row r:   *)
(* it continues the request if the state it reads has absorbed exactly the *)
(* units before, and every row its attention window covers is the          *)
(* request's own or still zero (masked rows are multiplied, so they must   *)
(* at least not be another request's).                                     *)
Continues(id, n, r) ==
  /\ recurrent[id.parity] = n
  /\ r = n
  /\ \A i \in Positions : i < n => kv[i] = "own"
  /\ \A i \in Positions : i > n => kv[i] # "foreign"

Absorbs(id, n, r) ==
  /\ recurrent' = [recurrent EXCEPT ![1 - id.parity] =
                    IF Continues(id, n, r) THEN n + 1 ELSE Foreign]
  /\ kv' = [kv EXCEPT ![r] = "own"]

Aborts(id, r) ==
  \/ UNCHANGED residentVars
  \/ /\ recurrent' = [recurrent EXCEPT ![1 - id.parity] = Foreign]
     /\ kv' = [kv EXCEPT ![r] = "foreign"]

Zeroed == recurrent' = [p \in {0, 1} |-> 0] /\ kv' = [i \in Positions |-> "zero"]

(* The KV row of a prefill chunk: named by the row-index input, or fixed   *)
(* in the graph.                                                           *)
ChunkRow == IF IndexedPrefill THEN uploaded[1] ELSE offset
-----------------------------------------------------------------------------
(* generate_session, begin_stream: admission, then the resident state of   *)
(* the request before is cleared.  What it left is foreign to this one.    *)
CallRequest(o, c, n) ==
  /\ Calls(o, "zero")
  /\ healthy
  /\ healthy' = FALSE
  /\ chunks' = c /\ budget' = n
  /\ offset' = 0 /\ parity' = 0 /\ prefilled' = FALSE
  /\ recurrent' = [p \in {0, 1} |-> IF recurrent[p] = 0 THEN 0 ELSE Foreign]
  /\ kv' = [i \in Positions |-> IF kv[i] = "zero" THEN "zero" ELSE "foreign"]
  /\ UNCHANGED <<gpuVars, streamActive, firstRequest, step, decodeKey>>

(* Mutant: the resident state of the request before is kept.               *)
ZeroResidentNever ==
  /\ Goes("zero", "select")
  /\ firstRequest' = FALSE
  /\ UNCHANGED <<gpuVars, residentVars, healthy, streamActive, budget, chunks, cursorVars,
                 decodeKey>>

ZeroResident ==
  /\ Goes("zero", "select")
  /\ IF firstRequest THEN UNCHANGED residentVars ELSE Zeroed
  /\ firstRequest' = FALSE
  /\ UNCHANGED <<gpuVars, healthy, streamActive, budget, chunks, cursorVars, decodeKey>>

(* The prefill loop: select a graph for the chunk, build and prepare it    *)
(* unless the cache has it, write the inputs, compute, read, commit.       *)
SelectHit ==
  /\ Goes("select", "inputs")
  /\ Gpu!ActivateHit(EntryAt(offset), ChunkKey)
  /\ prefilled' = TRUE
  /\ UNCHANGED <<residentVars, callVars, step, offset, parity, decodeKey>>

SelectMiss ==
  /\ Goes("select", "build")
  /\ Gpu!ActivateMiss(EntryAt(offset), ChunkKey)
  /\ UNCHANGED <<residentVars, callVars, cursorVars, decodeKey>>

SelectPlain ==
  /\ Goes("select", "build")
  /\ ~PrefillGraphCache
  /\ IF prefilled THEN Gpu!Invalidate(PREFILL) ELSE UNCHANGED gpuVars
  /\ UNCHANGED <<residentVars, callVars, cursorVars, decodeKey>>

SelectFails ==
  /\ Fails("select")
  /\ UNCHANGED residentVars
  /\ IF PrefillGraphCache THEN Gpu!ActivateFails(EntryAt(offset), ChunkKey)
     ELSE prefilled /\ Gpu!InvalidateFails(PREFILL)

BuildChunk ==
  /\ Goes("build", "prepare")
  /\ Gpu!Build(PREFILL, ChunkKey)
  /\ UNCHANGED <<residentVars, callVars, cursorVars, decodeKey>>

BuildChunkFails ==
  /\ Fails("build")
  /\ Gpu!BuildFails(PREFILL, ChunkKey) \/ UNCHANGED gpuVars
  /\ UNCHANGED residentVars

PrepareChunk ==
  /\ Goes("prepare", "inputs")
  /\ Gpu!Prepare(PREFILL, ChunkKey, Newest(PREFILL))
  /\ prefilled' = TRUE
  /\ UNCHANGED <<residentVars, callVars, step, offset, parity, decodeKey>>

PrepareChunkFails ==
  /\ Fails("prepare")
  /\ Gpu!PrepareFails(PREFILL, ChunkKey, Newest(PREFILL))
  /\ UNCHANGED residentVars

(* Mutant: the row indices of the chunk before are kept.                   *)
ChunkInputsStale ==
  /\ Goes("inputs", "compute")
  /\ workspacePrepared
  /\ UNCHANGED <<gpuVars, residentVars, callVars, cursorVars, decodeKey>>

ChunkInputs ==
  /\ Goes("inputs", "compute")
  /\ IF IndexedPrefill THEN Gpu!UpdateRows(RowsOf[ChunkKey])
     ELSE workspacePrepared /\ UNCHANGED gpuVars
  /\ UNCHANGED <<residentVars, callVars, cursorVars, decodeKey>>

ComputeChunk ==
  /\ Goes("compute", "read")
  /\ Gpu!Compute(PREFILL, ChunkKey)
  /\ Absorbs(ChunkKey, offset, ChunkRow)
  /\ UNCHANGED <<callVars, cursorVars, decodeKey>>

ComputeChunkFails ==
  /\ Fails("compute")
  /\ Gpu!ComputeFails(PREFILL, ChunkKey)
  /\ Aborts(ChunkKey, ChunkRow)

(* Mutants: the buffers are not swapped; the loop does not advance.        *)
CommitsChunkSameParity == offset' = offset + 1 /\ UNCHANGED <<parity, prefilled>>
CommitsChunkInPlace == parity' = 1 - parity /\ UNCHANGED <<offset, prefilled>>

CommitsChunk ==
  /\ parity' = 1 - parity
  /\ offset' = offset + 1
  /\ UNCHANGED prefilled

(* Only the last chunk emits logits (final_prefill_logits).                *)
NextChunk ==
  /\ Goes("read", "select")
  /\ ~LastChunk
  /\ CommitsChunk
  /\ UNCHANGED <<gpuVars, residentVars, callVars, step, decodeKey>>

FirstToken ==
  /\ pc = "read" /\ LastChunk
  /\ Gpu!Read(Gpu!GraphOf(PREFILL))
  /\ CommitsChunk
  /\ step' = 1
  /\ IF op = "begin"
     THEN streamActive' = TRUE /\ ReturnsFrom("read")
     ELSE Goes("read", "token") /\ UNCHANGED streamActive
  /\ UNCHANGED <<residentVars, healthy, budget, firstRequest, chunks, decodeKey>>

FirstTokenFails ==
  /\ Fails("read")
  /\ UNCHANGED <<gpuVars, residentVars>>
-----------------------------------------------------------------------------
(* One decoded token, of execute's loop or of stream_next.  execute stops  *)
(* at the budget or at an end-of-generation token.                         *)
StopsAtToken ==
  /\ Goes("token", "release")
  /\ UNCHANGED <<gpuVars, residentVars, callVars, cursorVars, decodeKey>>

ContinuesAtToken ==
  /\ Goes("token", "decode")
  /\ step < budget
  /\ UNCHANGED <<gpuVars, residentVars, callVars, cursorVars, decodeKey>>

(* Mutant: the budget is not looked at.                                    *)
CallNextUnbounded ==
  /\ Calls("next", "decode")
  /\ streamActive /\ ~healthy
  /\ UNCHANGED <<gpuVars, residentVars, callVars, cursorVars, decodeKey>>

CallNext ==
  /\ Calls("next", "decode")
  /\ streamActive /\ ~healthy
  /\ step < budget
  /\ UNCHANGED <<gpuVars, residentVars, callVars, cursorVars, decodeKey>>

(* The kind's graph is kept while its width fits.                          *)
ReuseDecode ==
  /\ Goes("decode", "decodeInputs")
  /\ decodeKey[DecodeKind] = StepKey
  /\ UNCHANGED <<gpuVars, residentVars, callVars, cursorVars, decodeKey>>

ReplaceDecode ==
  /\ Goes("decode", "decodeBuild")
  /\ decodeKey[DecodeKind] # StepKey
  /\ IF decodeKey[DecodeKind] # Null THEN Gpu!Invalidate(DecodeKind) ELSE UNCHANGED gpuVars
  /\ UNCHANGED <<residentVars, callVars, cursorVars, decodeKey>>

ReplaceDecodeFails ==
  /\ Fails("decode")
  /\ decodeKey[DecodeKind] \notin {Null, StepKey}
  /\ Gpu!InvalidateFails(DecodeKind) \/ Refused(Gpu!CanInvalidate(DecodeKind))
  /\ UNCHANGED residentVars

BuildDecode ==
  /\ Goes("decodeBuild", "decodePrepare")
  /\ Gpu!Build(DecodeKind, StepKey)
  /\ UNCHANGED <<residentVars, callVars, cursorVars, decodeKey>>

BuildDecodeFails ==
  /\ Fails("decodeBuild")
  /\ Gpu!BuildFails(DecodeKind, StepKey) \/ UNCHANGED gpuVars
  /\ UNCHANGED residentVars

PrepareDecode ==
  /\ Goes("decodePrepare", "decodeInputs")
  /\ Gpu!Prepare(DecodeKind, StepKey, Newest(DecodeKind))
  /\ decodeKey' = [decodeKey EXCEPT ![DecodeKind] = StepKey]
  /\ UNCHANGED <<residentVars, callVars, cursorVars>>

PrepareDecodeFails ==
  /\ Fails("decodePrepare")
  /\ Gpu!PrepareFails(DecodeKind, StepKey, Newest(DecodeKind))
  /\ UNCHANGED residentVars

DecodeInputs ==
  /\ Goes("decodeInputs", "decodeCompute")
  /\ workspacePrepared
  /\ UNCHANGED <<gpuVars, residentVars, callVars, cursorVars, decodeKey>>

DecodeInputsFail ==
  /\ Fails("decodeInputs")
  /\ UNCHANGED <<gpuVars, residentVars>>

ComputeDecode ==
  /\ Goes("decodeCompute", "decodeRead")
  /\ Gpu!Compute(DecodeKind, decodeKey[DecodeKind])
  /\ Absorbs(decodeKey[DecodeKind], Position, Position)
  /\ UNCHANGED <<callVars, cursorVars, decodeKey>>

ComputeDecodeFails ==
  /\ Fails("decodeCompute")
  /\ \/ /\ Gpu!ComputeFails(DecodeKind, decodeKey[DecodeKind])
        /\ Aborts(decodeKey[DecodeKind], Position)
     \/ /\ Refused(Gpu!CanCompute(DecodeKind, decodeKey[DecodeKind]))
        /\ UNCHANGED residentVars

CommitToken ==
  /\ pc = "decodeRead"
  /\ Gpu!Read(Gpu!GraphOf(DecodeKind))
  /\ parity' = 1 - parity
  /\ step' = step + 1
  /\ IF op = "next" THEN ReturnsFrom("decodeRead") ELSE Goes("decodeRead", "token")
  /\ UNCHANGED <<residentVars, callVars, offset, prefilled, decodeKey>>

(* Mutant: the state is swapped before the read that fails.                *)
CommitTokenFailsCommitted ==
  /\ pc = "decodeRead" /\ pc' = "idle" /\ op' = "none" /\ failed' = TRUE
  /\ parity' = 1 - parity
  /\ UNCHANGED <<gpuVars, residentVars, callVars, step, offset, prefilled, decodeKey>>

CommitTokenFails ==
  /\ Fails("decodeRead")
  /\ UNCHANGED <<gpuVars, residentVars>>
-----------------------------------------------------------------------------
(* Mutant: a finished stream may be continued.                             *)
CallFinishKeepingStream ==
  /\ Calls("finish", "release")
  /\ streamActive /\ ~healthy
  /\ UNCHANGED <<gpuVars, residentVars, callVars, cursorVars, decodeKey>>

(* stream_finish and the end of execute give the prefill graph back.       *)
CallFinish ==
  /\ Calls("finish", "release")
  /\ streamActive /\ ~healthy
  /\ streamActive' = FALSE
  /\ UNCHANGED <<gpuVars, residentVars, healthy, budget, firstRequest, chunks, cursorVars,
                 decodeKey>>

(* Mutant: the prefill graph is not given back.                            *)
ReleaseForgotten ==
  /\ ReturnsFrom("release")
  /\ healthy' = TRUE
  /\ UNCHANGED <<gpuVars, residentVars, streamActive, budget, firstRequest, chunks, cursorVars,
                 decodeKey>>

Release ==
  /\ ReturnsFrom("release")
  /\ IF PrefillGraphCache THEN Gpu!ReleasePark ELSE Gpu!Invalidate(PREFILL)
  /\ healthy' = TRUE
  /\ UNCHANGED <<residentVars, streamActive, budget, firstRequest, chunks, cursorVars, decodeKey>>

ClearFails(clear) ==
  \/ IF PrefillGraphCache THEN Gpu!ReleaseFails(clear) ELSE Gpu!InvalidateFails(PREFILL)
  \/ Refused(IF PrefillGraphCache THEN Gpu!CanRelease(clear) ELSE Gpu!CanInvalidate(PREFILL))

ReleaseFails ==
  /\ Fails("release")
  /\ ClearFails(FALSE)
  /\ UNCHANGED residentVars

(* recover_failed_request: the prefill graphs, then each decode graph the  *)
(* session has a key for, then the resident state.                         *)
CallRecover ==
  /\ Calls("recover", "clearPrefill")
  /\ ~healthy
  /\ UNCHANGED <<gpuVars, residentVars, callVars, cursorVars, decodeKey>>

ClearPrefill ==
  /\ Goes("clearPrefill", DECODE)
  /\ IF PrefillGraphCache THEN Gpu!ReleaseClear ELSE Gpu!Invalidate(PREFILL)
  /\ UNCHANGED <<residentVars, callVars, cursorVars, decodeKey>>

ClearPrefillFails ==
  /\ Fails("clearPrefill")
  /\ ClearFails(TRUE)
  /\ UNCHANGED residentVars

(* Mutant: the session keeps the key of a graph that is gone.              *)
ClearDecodeKeepingKey(k, to) ==
  /\ Goes(k, to)
  /\ IF decodeKey[k] # Null THEN Gpu!Invalidate(k) ELSE UNCHANGED gpuVars
  /\ UNCHANGED <<residentVars, callVars, cursorVars, decodeKey>>

ClearDecode(k, to) ==
  /\ Goes(k, to)
  /\ IF decodeKey[k] # Null THEN Gpu!Invalidate(k) ELSE UNCHANGED gpuVars
  /\ decodeKey' = [decodeKey EXCEPT ![k] = Null]
  /\ UNCHANGED <<residentVars, callVars, cursorVars>>

ClearDecodeFails(k) ==
  /\ Fails(k)
  /\ decodeKey[k] # Null
  /\ Gpu!InvalidateFails(k) \/ Refused(Gpu!CanInvalidate(k))
  /\ UNCHANGED residentVars

Recovered ==
  /\ pc = "clearResident" /\ pc' = "idle" /\ op' = "none" /\ failed' = FALSE
  /\ Zeroed
  /\ healthy' = TRUE /\ streamActive' = FALSE /\ firstRequest' = FALSE
  /\ UNCHANGED <<gpuVars, budget, chunks, cursorVars, decodeKey>>
-----------------------------------------------------------------------------
Call ==
  \/ \E o \in {"generate", "begin"}, c \in 1..MaxChunks, n \in 1..MaxTokens :
       CallRequest(o, c, n)
  \/ CallNext
  \/ CallFinish
  \/ CallRecover

Chunk ==
  \/ ZeroResident
  \/ SelectHit \/ SelectMiss \/ SelectPlain \/ SelectFails
  \/ BuildChunk \/ BuildChunkFails
  \/ PrepareChunk \/ PrepareChunkFails
  \/ ChunkInputs
  \/ ComputeChunk \/ ComputeChunkFails
  \/ NextChunk \/ FirstToken \/ FirstTokenFails

Token ==
  \/ StopsAtToken \/ ContinuesAtToken
  \/ ReuseDecode \/ ReplaceDecode \/ ReplaceDecodeFails
  \/ BuildDecode \/ BuildDecodeFails
  \/ PrepareDecode \/ PrepareDecodeFails
  \/ DecodeInputs \/ DecodeInputsFail
  \/ ComputeDecode \/ ComputeDecodeFails
  \/ CommitToken \/ CommitTokenFails

Cleanup ==
  \/ Release \/ ReleaseFails
  \/ ClearPrefill \/ ClearPrefillFails
  \/ ClearDecode(DECODE, DECODE_ALT) \/ ClearDecode(DECODE_ALT, "clearResident")
  \/ ClearDecodeFails(DECODE) \/ ClearDecodeFails(DECODE_ALT)
  \/ Recovered

Work == Chunk \/ Token \/ Cleanup

Next == Call \/ Work

(* A call runs on the one server thread and every device call returns:     *)
(* an operation that was called goes on.  Nobody must call.                *)
Spec == Init /\ [][Next]_vars /\ WF_vars(Work)
-----------------------------------------------------------------------------
Pcs ==
  {"idle", "zero", "select", "build", "prepare", "inputs", "compute", "read", "token",
   "decode", "decodeBuild", "decodePrepare", "decodeInputs", "decodeCompute", "decodeRead",
   "release", "clearPrefill", "clearResident"} \cup DecodeKinds

(* The values the session's fields range over.                             *)
TypeOK ==
  /\ Gpu!TypeOK
  /\ op \in {"none", "generate", "begin", "next", "finish", "recover"}
  /\ pc \in Pcs /\ (pc = "idle" <=> op = "none")
  /\ {healthy, streamActive, firstRequest, prefilled, failed} \subseteq BOOLEAN
  /\ budget \in 0..MaxTokens /\ step \in 0..MaxTokens
  /\ chunks \in 0..MaxChunks /\ offset \in 0..MaxChunks
  /\ parity \in {0, 1}
  /\ decodeKey \in [DecodeKinds -> TopologyKeys \cup {Null}]
  /\ recurrent \in [{0, 1} -> 0..Foreign]
  /\ kv \in [Positions -> {"zero", "own", "foreign"}]

(* Every token is chosen from the outputs of a computation that continued  *)
(* exactly this request: the state it read had absorbed the units before   *)
(* it, no request, retry, parity or reused graph mixed up.                 *)
TokensContinueTheRequest ==
  /\ pc = "read" => recurrent[1 - parity] = offset + 1
  /\ pc = "decodeRead" => recurrent[1 - parity] = Position + 1

(* A stream can always be continued from where it stands: a step that      *)
(* failed, whatever it left in the other buffer, did not touch the state   *)
(* the next attempt reads.                                                 *)
StreamStateIntact ==
  streamActive =>
    /\ pc # "decodeRead" => recurrent[parity] = Position
    /\ \A i \in Positions : i < Position => kv[i] = "own"

(* A session that admits a request, and was recovered from every failed    *)
(* call, agrees with its device on the decode graphs: what it would reuse  *)
(* is prepared under that key, and what it would invalidate is there.      *)
DeviceAgreesWithSession ==
  healthy /\ ~failed => \A k \in DecodeKinds :
               /\ prepared[k] = (decodeKey[k] # Null)
               /\ key[k] = decodeKey[k]

(* A session is healthy only on a device that is: nothing is poisoned, no  *)
(* prefill graph is selected and, with a retained workspace, no output of  *)
(* an earlier request can be read.                                         *)
HealthyIsQuiescent ==
  healthy =>
    /\ ~workspaceFailed /\ ~observationFailed
    /\ ~prepared[PREFILL] /\ active = Null
    /\ RetainWorkspace => \A g \in Gpu!Graphs : ~Gpu!SlotReady(g)

(* The session as a whole, between any two calls and in the middle of      *)
(* them: its fields are in their ranges, its stream can go on, its keys    *)
(* are the device's, and it calls itself healthy only on a device that is. *)
SessionIsSound == TypeOK /\ StreamStateIntact /\ DeviceAgreesWithSession /\ HealthyIsQuiescent

(* What the session computes through the device is what the device         *)
(* promises: the PREFILL rows are the chunk's.                             *)
ChunkWritesItsOwnRows == pc = "compute" /\ IndexedPrefill => uploaded = RowsOf[ChunkKey]

(* What is read and what is written for a request is the request's own.    *)
RequestKeepsToItself == TokensContinueTheRequest /\ ChunkWritesItsOwnRows

(* The session implements what its callers rely on.                        *)
Api == INSTANCE SessionApi WITH step <- IF streamActive THEN step ELSE 0
ImplementsApi == Api!Spec

(* docs/specs/openai-local-serving.md:92 says that recoverable failures    *)
(* clear resident state before another request: recovering a session whose *)
(* device is not poisoned succeeds.  recover_failed_request invalidates a  *)
(* PREFILL graph that a request which failed before preparing one never    *)
(* had, and is refused.                                                    *)
RecoverableIsRecovered ==
  [][op = "recover" /\ op' = "none" /\ ~healthy' => workspaceFailed' \/ observationFailed']_vars

(* Every call returns, whatever fails in it.                               *)
CallsReturn == op # "none" ~> op = "none"
=============================================================================
