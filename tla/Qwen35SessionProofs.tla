------------------------- MODULE Qwen35SessionProofs -------------------------
(***************************************************************************)
(* Theorems about Qwen35Session, for every number of entries, chunks and   *)
(* tokens, and every mode of the device's workspace.                       *)
(*                                                                         *)
(* The session's own fields are proved about here; what they need of the   *)
(* device is taken from the theorems about GpuGraphs, because every step   *)
(* of the session is a step of the owner or leaves it alone.               *)
(***************************************************************************)
EXTENDS Qwen35Session, TLAPS

(* Where an operation can be: in the prefill of a request, in a token, in a *)
(* recovery that has given the prefill graphs back.                        *)
ChunkPcs == {"select", "build", "prepare", "inputs", "compute"}
RequestPcs == ChunkPcs \cup {"zero", "read"}
DecodePcs ==
  {"decode", "decodeBuild", "decodePrepare", "decodeInputs", "decodeCompute", "decodeRead"}
TokenPcs == DecodePcs \cup {"token"}
ClearPcs == {DECODE, DECODE_ALT, "clearResident"}

(* Which operation is where, and what a session admits while it is there.  *)
ControlInv ==
  /\ op \in {"none", "generate", "begin", "next", "finish", "recover"}
  /\ op = "none" => pc = "idle"
  /\ op = "begin" => pc \in RequestPcs
  /\ op = "generate" => pc \in RequestPcs \cup TokenPcs \cup {"release"}
  /\ op = "next" => pc \in DecodePcs /\ streamActive
  /\ op = "finish" => pc = "release"
  /\ op = "recover" => pc \in ClearPcs \cup {"clearPrefill"}
  /\ healthy => op = "none" /\ ~streamActive
  /\ streamActive => op \in {"none", "next", "recover"}

FieldTypes ==
  /\ healthy \in BOOLEAN /\ streamActive \in BOOLEAN /\ firstRequest \in BOOLEAN
  /\ prefilled \in BOOLEAN /\ failed \in BOOLEAN
  /\ budget \in 0..MaxTokens /\ step \in 0..MaxTokens
  /\ chunks \in 0..MaxChunks /\ offset \in 0..MaxChunks
  /\ parity \in {0, 1}

KeyTypes == decodeKey \in [DecodeKinds -> TopologyKeys \cup {Null}]

ResidentTypes ==
  /\ recurrent \in [{0, 1} -> 0..Foreign]
  /\ kv \in [Positions -> {"zero", "own", "foreign"}]

(* A stream, or a request past its prefill, has produced at least one token. *)
Streaming == streamActive \/ pc \in TokenPcs

CursorInv ==
  /\ pc \in RequestPcs => offset < chunks /\ budget > 0
  /\ Streaming => chunks > 0 /\ step \in 1..budget
  /\ pc \in DecodePcs => step < budget
  /\ pc = "zero" => offset = 0 /\ parity = 0

(* State p has absorbed n units, their rows are the request's own, and no  *)
(* row after the next one to be written is another's.                      *)
Holds(p, n) ==
  /\ recurrent[p] = n
  /\ \A i \in Positions : i < n => kv[i] = "own"
  /\ \A i \in Positions : i > n => kv[i] = "zero"

Blank == recurrent = [p \in {0, 1} |-> 0] /\ kv = [i \in Positions |-> "zero"]

(* The state the next computation reads is the request's own and as long as *)
(* the request; a first request finds a blank device.                      *)
ResidentInv ==
  /\ firstRequest => Blank /\ ~streamActive /\ (pc = "zero" \/ (pc = "idle" /\ healthy))
  /\ pc \in ChunkPcs => Holds(parity, offset)
  /\ pc = "read" => Holds(1 - parity, offset + 1)
  /\ Streaming => Holds(parity, Position)
  /\ pc = "decodeRead" => Holds(1 - parity, Position + 1)

(* A decode graph that is fed, computed or read is the one for this step,  *)
(* and the row indices of a chunk are its own.                             *)
KeyInv ==
  /\ pc \in {"decodeInputs", "decodeCompute", "decodeRead"} => decodeKey[DecodeKind] = StepKey
  /\ ChunkWritesItsOwnRows

(* What is prepared next is what was just built, and what is read is what  *)
(* was just computed.                                                      *)
NewestIs(k, id) == slice[context[k]][Newest(k)] = id

PlaceInv ==
  /\ pc = "prepare" => NewestIs(PREFILL, ChunkKey)
  /\ pc = "decodePrepare" => NewestIs(DecodeKind, StepKey)
  /\ pc = "read" => prepared[PREFILL]
  /\ pc = "decodeRead" => prepared[DecodeKind]

Replacing(k) == pc \in {"decodeBuild", "decodePrepare"} /\ k = DecodeKind

(* The session and its device on the decode graphs.  Until the owner is    *)
(* poisoned a prepared one is known to the session under its key; and while *)
(* no call has failed, one the session has a key for is prepared, except in *)
(* the middle of being replaced.                                           *)
AgreeInv ==
  \A k \in DecodeKinds :
    /\ ~prepared[k] => key[k] = Null
    /\ ~workspaceFailed /\ prepared[k] => decodeKey[k] # Null /\ key[k] = decodeKey[k]
    /\ ~failed /\ ~Replacing(k) /\ decodeKey[k] # Null => prepared[k]

(* Nothing is poisoned, no prefill graph is selected, and nothing can be   *)
(* read; a recovery that got so far knows no decode graph any more.        *)
Quiet ==
  /\ ~workspaceFailed /\ ~observationFailed
  /\ ~prepared[PREFILL] /\ active = Null
  /\ RetainWorkspace => \A g \in Gpu!Graphs : ~Gpu!SlotReady(g)

RecoveryInv ==
  /\ healthy \/ pc \in ClearPcs => Quiet
  /\ pc \in {DECODE_ALT, "clearResident"} => decodeKey[DECODE] = Null
  /\ pc = "clearResident" => decodeKey[DECODE_ALT] = Null

-----------------------------------------------------------------------------
(* The operation and its place go together.                                *)
LEMMA ControlIsKept ==
  ASSUME ControlInv, [Next]_vars
  PROVE  ControlInv'
<1> DEFINE Goal == ControlInv'
<1> SUFFICES Goal
  OBVIOUS
<1> USE DEF ControlInv, callVars, cursorVars, PREFILL, DECODE, DECODE_ALT, RequestPcs,
    ChunkPcs, TokenPcs, DecodePcs, ClearPcs
<1>1. CASE Call
  BY <1>1 DEF Call, CallRequest, CallNext, CallFinish, CallRecover, Calls
<1>2. CASE Chunk
  BY <1>2
  DEF Chunk, ZeroResident, SelectHit, SelectMiss, SelectPlain, SelectFails, BuildChunk,
      BuildChunkFails, PrepareChunk, PrepareChunkFails, ChunkInputs, ComputeChunk,
      ComputeChunkFails, NextChunk, FirstToken, FirstTokenFails, Goes, Fails, ReturnsFrom
<1>3. CASE Token
  BY <1>3
  DEF Token, StopsAtToken, ContinuesAtToken, ReuseDecode, ReplaceDecode, ReplaceDecodeFails,
      BuildDecode, BuildDecodeFails, PrepareDecode, PrepareDecodeFails, DecodeInputs,
      DecodeInputsFail, ComputeDecode, ComputeDecodeFails, CommitToken, CommitTokenFails,
      Goes, Fails, ReturnsFrom
<1>4. CASE Cleanup
  <2>1. CASE Release
    BY <2>1 DEF Release, Goes, Fails, ReturnsFrom
  <2>2. CASE ReleaseFails
    BY <2>2 DEF ReleaseFails, Goes, Fails, ReturnsFrom
  <2>3. CASE ClearPrefill
    BY <2>3 DEF ClearPrefill, Goes, Fails, ReturnsFrom
  <2>4. CASE ClearPrefillFails
    BY <2>4 DEF ClearPrefillFails, Goes, Fails, ReturnsFrom
  <2>5. CASE ClearDecode(DECODE, DECODE_ALT)
    BY <2>5 DEF ClearDecode, Goes, Fails, ReturnsFrom
  <2>6. CASE ClearDecode(DECODE_ALT, "clearResident")
    BY <2>6 DEF ClearDecode, Goes, Fails, ReturnsFrom
  <2>7. CASE ClearDecodeFails(DECODE)
    BY <2>7 DEF ClearDecodeFails, Goes, Fails, ReturnsFrom
  <2>8. CASE ClearDecodeFails(DECODE_ALT)
    BY <2>8 DEF ClearDecodeFails, Goes, Fails, ReturnsFrom
  <2>9. CASE Recovered
    BY <2>9 DEF Recovered, Goes, Fails, ReturnsFrom
  <2> QED
    BY <1>4, <2>1, <2>2, <2>3, <2>4, <2>5, <2>6, <2>7, <2>8, <2>9 DEF Cleanup
<1>5. CASE UNCHANGED vars
  BY <1>5 DEF vars
<1> QED
  BY <1>1, <1>2, <1>3, <1>4, <1>5 DEF Next, Work

(* The keys that are asked for are known ones, and say what they are for.  *)
LEMMA ChunkKeyIsKnown ==
  ASSUME FieldTypes, CursorInv, pc \in RequestPcs
  PROVE  /\ ChunkKey \in PrefillKeys
         /\ ChunkKey \in TopologyKeys
         /\ ChunkKey.parity = parity
         /\ RowsOf[ChunkKey] = <<offset, LastChunk>>
<1>1. offset \in 0..(MaxChunks - 1) /\ parity \in {0, 1} /\ LastChunk \in BOOLEAN
  BY SessionAssumption DEF FieldTypes, CursorInv, LastChunk
<1>2. ChunkKey \in PrefillKeys /\ ChunkKey \in TopologyKeys
  BY <1>1 DEF PrefillKeys, ChunkKey, TopologyKeys
<1>3. ChunkKey.parity = parity /\ ChunkKey.at = offset /\ ChunkKey.last = LastChunk
  BY DEF ChunkKey, Topology
<1> QED
  BY <1>2, <1>3 DEF RowsOf

LEMMA StepKeyIsKnown ==
  ASSUME FieldTypes, CursorInv, pc \in DecodePcs
  PROVE  /\ DecodeKind \in DecodeKinds
         /\ StepKey \in DecodeKeysOf(DecodeKind)
         /\ StepKey \in TopologyKeys
         /\ StepKey.parity = parity
         /\ Position \in Positions /\ Position \in Nat
<1>1. Position \in Nat /\ Position \in Positions /\ Position + 1 \in Positions \ {0}
  BY SessionAssumption DEF FieldTypes, CursorInv, Position, Positions, TokenPcs, Streaming
<1>2. StepKey.parity = parity
  BY DEF StepKey, Topology
<1>3. DecodeKind \in DecodeKinds
  BY DEF DecodeKind, DecodeKinds
<1>4. WidthOf(Position + 1) \in Widths /\ parity \in {0, 1}
  BY <1>1 DEF Widths, FieldTypes
<1>5. StepKey \in DecodeKeysOf(DecodeKind)
  BY <1>4 DEF StepKey, DecodeKeysOf
<1> QED
  BY <1>1, <1>2, <1>3, <1>5 DEF TopologyKeys, DecodeKinds

(* The loops stay in their bounds.                                         *)
LEMMA CursorIsKept ==
  ASSUME ControlInv, FieldTypes, CursorInv, [Next]_vars
  PROVE  CursorInv'
<1> DEFINE Goal == CursorInv'
<1> SUFFICES Goal
  OBVIOUS
<1> USE DEF ControlInv, FieldTypes, CursorInv, Streaming, callVars, cursorVars, CommitsChunk,
    LastChunk, PREFILL, DECODE, DECODE_ALT, RequestPcs, ChunkPcs, TokenPcs, DecodePcs, ClearPcs
<1>1. CASE Call
  BY <1>1, SessionAssumption DEF Call, CallRequest, CallNext, CallFinish, CallRecover, Calls
<1>2. CASE Chunk
  BY <1>2, SessionAssumption
  DEF Chunk, ZeroResident, SelectHit, SelectMiss, SelectPlain, SelectFails, BuildChunk,
      BuildChunkFails, PrepareChunk, PrepareChunkFails, ChunkInputs, ComputeChunk,
      ComputeChunkFails, NextChunk, FirstToken, FirstTokenFails, Goes, Fails, ReturnsFrom
<1>3. CASE Token
  BY <1>3, SessionAssumption
  DEF Token, StopsAtToken, ContinuesAtToken, ReuseDecode, ReplaceDecode, ReplaceDecodeFails,
      BuildDecode, BuildDecodeFails, PrepareDecode, PrepareDecodeFails, DecodeInputs,
      DecodeInputsFail, ComputeDecode, ComputeDecodeFails, CommitToken, CommitTokenFails,
      Goes, Fails, ReturnsFrom
<1>4. CASE Cleanup
  <2>1. CASE Release
    BY <2>1, SessionAssumption DEF Release, Goes, Fails, ReturnsFrom
  <2>2. CASE ReleaseFails
    BY <2>2, SessionAssumption DEF ReleaseFails, Goes, Fails, ReturnsFrom
  <2>3. CASE ClearPrefill
    BY <2>3, SessionAssumption DEF ClearPrefill, Goes, Fails, ReturnsFrom
  <2>4. CASE ClearPrefillFails
    BY <2>4, SessionAssumption DEF ClearPrefillFails, Goes, Fails, ReturnsFrom
  <2>5. CASE ClearDecode(DECODE, DECODE_ALT)
    BY <2>5, SessionAssumption DEF ClearDecode, Goes, Fails, ReturnsFrom
  <2>6. CASE ClearDecode(DECODE_ALT, "clearResident")
    BY <2>6, SessionAssumption DEF ClearDecode, Goes, Fails, ReturnsFrom
  <2>7. CASE ClearDecodeFails(DECODE)
    BY <2>7, SessionAssumption DEF ClearDecodeFails, Goes, Fails, ReturnsFrom
  <2>8. CASE ClearDecodeFails(DECODE_ALT)
    BY <2>8, SessionAssumption DEF ClearDecodeFails, Goes, Fails, ReturnsFrom
  <2>9. CASE Recovered
    BY <2>9, SessionAssumption DEF Recovered, Goes, Fails, ReturnsFrom
  <2> QED
    BY <1>4, <2>1, <2>2, <2>3, <2>4, <2>5, <2>6, <2>7, <2>8, <2>9 DEF Cleanup
<1>5. CASE UNCHANGED vars
  BY <1>5, SessionAssumption DEF vars
<1> QED
  BY <1>1, <1>2, <1>3, <1>4, <1>5 DEF Next, Work

LEMMA FieldsAreKept ==
  ASSUME FieldTypes, CursorInv, [Next]_vars
  PROVE  FieldTypes'
<1> DEFINE Goal == FieldTypes'
<1> SUFFICES Goal
  OBVIOUS
<1> USE DEF FieldTypes, CursorInv, Streaming, RequestPcs, ChunkPcs, TokenPcs, DecodePcs,
    callVars, cursorVars, CommitsChunk, LastChunk
<1>1. CASE Call
  <2>1. ASSUME NEW o \in {"generate", "begin"}, NEW c \in 1..MaxChunks,
            NEW n \in 1..MaxTokens, CallRequest(o, c, n)
     PROVE Goal
    <3>1. n \in 0..MaxTokens /\ c \in 0..MaxChunks /\ 0 \in 0..MaxChunks
      BY SessionAssumption
    <3> QED
      BY <2>1, <3>1 DEF CallRequest, Calls
  <2>2. CASE CallNext \/ CallFinish \/ CallRecover
    BY <2>2, SessionAssumption DEF CallNext, CallFinish, CallRecover, Calls
  <2> QED
    BY <1>1, <2>1, <2>2 DEF Call
<1>2. CASE Chunk
  <2>1. CASE NextChunk
    BY <2>1, SessionAssumption DEF NextChunk, Goes, Fails, ReturnsFrom
  <2>2. CASE FirstToken
    <3>1. 1 \in 0..MaxTokens /\ offset + 1 \in 0..MaxChunks /\ 1 - parity \in {0, 1}
      BY <2>2, SessionAssumption DEF FirstToken
    <3>2. /\ step' = 1 /\ offset' = offset + 1 /\ parity' = 1 - parity
          /\ streamActive' \in {streamActive, TRUE}
          /\ UNCHANGED <<healthy, budget, firstRequest, chunks, failed, prefilled>>
      BY <2>2 DEF FirstToken, Goes, ReturnsFrom
    <3> QED
      BY <3>1, <3>2
  <2>3. CASE ZeroResident \/ SelectHit \/ SelectMiss \/ SelectPlain \/ SelectFails \/
      BuildChunk \/ BuildChunkFails \/ PrepareChunk \/ PrepareChunkFails \/ ChunkInputs \/
      ComputeChunk \/ ComputeChunkFails \/ FirstTokenFails
    BY <2>3, SessionAssumption
    DEF ZeroResident, SelectHit, SelectMiss, SelectPlain, SelectFails, BuildChunk,
        BuildChunkFails, PrepareChunk, PrepareChunkFails, ChunkInputs, ComputeChunk,
        ComputeChunkFails, FirstTokenFails, Goes, Fails, ReturnsFrom
  <2> QED
    BY <1>2, <2>1, <2>2, <2>3 DEF Chunk
<1>3. CASE Token
  <2>1. CASE CommitToken
    BY <2>1, SessionAssumption DEF CommitToken, Goes, Fails, ReturnsFrom
  <2>2. CASE StopsAtToken \/ ContinuesAtToken \/ ReuseDecode \/ ReplaceDecode \/
      ReplaceDecodeFails \/ BuildDecode \/ BuildDecodeFails \/ PrepareDecode \/ PrepareDecodeFails
      \/ DecodeInputs \/ DecodeInputsFail \/ ComputeDecode \/ ComputeDecodeFails \/
      CommitTokenFails
    BY <2>2, SessionAssumption
    DEF StopsAtToken, ContinuesAtToken, ReuseDecode, ReplaceDecode, ReplaceDecodeFails,
        BuildDecode, BuildDecodeFails, PrepareDecode, PrepareDecodeFails, DecodeInputs,
        DecodeInputsFail, ComputeDecode, ComputeDecodeFails, CommitTokenFails, Goes, Fails,
        ReturnsFrom
  <2> QED
    BY <1>3, <2>1, <2>2 DEF Token
<1>4. CASE Cleanup
  <2>1. CASE Release
    BY <2>1, SessionAssumption DEF Release, Goes, Fails, ReturnsFrom
  <2>2. CASE ReleaseFails
    BY <2>2, SessionAssumption DEF ReleaseFails, Goes, Fails, ReturnsFrom
  <2>3. CASE ClearPrefill
    BY <2>3, SessionAssumption DEF ClearPrefill, Goes, Fails, ReturnsFrom
  <2>4. CASE ClearPrefillFails
    BY <2>4, SessionAssumption DEF ClearPrefillFails, Goes, Fails, ReturnsFrom
  <2>5. CASE ClearDecode(DECODE, DECODE_ALT)
    BY <2>5, SessionAssumption DEF ClearDecode, Goes, Fails, ReturnsFrom
  <2>6. CASE ClearDecode(DECODE_ALT, "clearResident")
    BY <2>6, SessionAssumption DEF ClearDecode, Goes, Fails, ReturnsFrom
  <2>7. CASE ClearDecodeFails(DECODE)
    BY <2>7, SessionAssumption DEF ClearDecodeFails, Goes, Fails, ReturnsFrom
  <2>8. CASE ClearDecodeFails(DECODE_ALT)
    BY <2>8, SessionAssumption DEF ClearDecodeFails, Goes, Fails, ReturnsFrom
  <2>9. CASE Recovered
    BY <2>9, SessionAssumption DEF Recovered, Goes, Fails, ReturnsFrom
  <2> QED
    BY <1>4, <2>1, <2>2, <2>3, <2>4, <2>5, <2>6, <2>7, <2>8, <2>9 DEF Cleanup
<1>5. CASE UNCHANGED vars
  BY <1>5, SessionAssumption DEF vars
<1> QED
  BY <1>1, <1>2, <1>3, <1>4, <1>5 DEF Next, Work

LEMMA KeyTypesAreKept ==
  ASSUME FieldTypes, CursorInv, KeyTypes, [Next]_vars
  PROVE  KeyTypes'
<1>1. CASE UNCHANGED decodeKey
  BY <1>1 DEF KeyTypes
<1>2. CASE PrepareDecode
  <2>1. StepKey \in TopologyKeys
    BY <1>2, StepKeyIsKnown DEF PrepareDecode, Goes, DecodePcs
  <2> QED
    BY <1>2, <2>1 DEF PrepareDecode, KeyTypes
<1>3. ASSUME NEW k, NEW to, ClearDecode(k, to)
      PROVE  KeyTypes'
  BY <1>3 DEF ClearDecode, KeyTypes
<1> QED
  BY <1>1, <1>2, <1>3
  DEF Next, Call, Work, Chunk, Token, Cleanup, CallRequest, CallNext, CallFinish, CallRecover,
      ZeroResident, SelectHit, SelectMiss, SelectPlain, SelectFails, BuildChunk,
      BuildChunkFails, PrepareChunk, PrepareChunkFails, ChunkInputs, ComputeChunk,
      ComputeChunkFails, NextChunk, FirstToken, FirstTokenFails, StopsAtToken,
      ContinuesAtToken, ReuseDecode, ReplaceDecode, ReplaceDecodeFails, BuildDecode,
      BuildDecodeFails, PrepareDecodeFails, DecodeInputs, DecodeInputsFail, ComputeDecode,
      ComputeDecodeFails, CommitToken, CommitTokenFails, Release, ReleaseFails, ClearPrefill,
      ClearPrefillFails, ClearDecodeFails, Recovered, Fails, vars

LEMMA ResidentTypesAreKept ==
  ASSUME FieldTypes, CursorInv, ResidentTypes, [Next]_vars
  PROVE  ResidentTypes'
<1>1. 0 \in 0..Foreign /\ Foreign \in 0..Foreign /\ {0, 1} \subseteq Nat
  BY SessionAssumption DEF Foreign
<1>2. ASSUME NEW id, NEW n, n \in Positions, NEW r, Absorbs(id, n, r)
      PROVE  ResidentTypes'
  <2>1. n + 1 \in 0..Foreign
    BY <1>2, SessionAssumption DEF Positions, Foreign
  <2> QED
    BY <1>1, <1>2, <2>1 DEF Absorbs, ResidentTypes
<1>3. ASSUME NEW id, NEW r, Aborts(id, r)
      PROVE  ResidentTypes'
  BY <1>1, <1>3 DEF Aborts, ResidentTypes, residentVars
<1>4. Zeroed => ResidentTypes'
  BY <1>1 DEF Zeroed, ResidentTypes
<1>5. UNCHANGED residentVars => ResidentTypes'
  BY DEF residentVars, ResidentTypes
<1>6. CASE Call
  BY <1>1, <1>5, <1>6 DEF Call, CallRequest, CallNext, CallFinish, CallRecover, ResidentTypes
<1>7. CASE ComputeChunk
  <2>1. offset \in Positions
    BY <1>7, SessionAssumption DEF ComputeChunk, Goes, FieldTypes, Positions
  <2> QED
    BY <1>2, <1>7, <2>1 DEF ComputeChunk
<1>8. CASE ComputeDecode
  <2>1. Position \in Positions
    BY <1>8, StepKeyIsKnown DEF ComputeDecode, Goes, DecodePcs
  <2> QED
    BY <1>2, <1>8, <2>1 DEF ComputeDecode
<1>9. CASE Work /\ ~ComputeChunk /\ ~ComputeDecode
  BY <1>3, <1>4, <1>5, <1>9
  DEF Work, Chunk, Token, Cleanup, ZeroResident, SelectHit, SelectMiss, SelectPlain,
      SelectFails, BuildChunk, BuildChunkFails, PrepareChunk, PrepareChunkFails, ChunkInputs,
      ComputeChunkFails, NextChunk, FirstToken, FirstTokenFails, StopsAtToken,
      ContinuesAtToken, ReuseDecode, ReplaceDecode, ReplaceDecodeFails, BuildDecode,
      BuildDecodeFails, PrepareDecode, PrepareDecodeFails, DecodeInputs, DecodeInputsFail,
      ComputeDecodeFails, CommitToken, CommitTokenFails, Release, ReleaseFails, ClearPrefill,
      ClearPrefillFails, ClearDecode, ClearDecodeFails, Recovered
<1> QED
  BY <1>5, <1>6, <1>7, <1>8, <1>9 DEF Next, vars

(* A computation that finds its request where it left it carries it on.    *)
LEMMA AbsorbingCarriesOn ==
  ASSUME ResidentTypes, NEW id, NEW n \in Positions, NEW p \in {0, 1}, id.parity = p,
         Holds(p, n), Absorbs(id, n, n)
  PROVE  /\ recurrent'[p] = n /\ recurrent'[1 - p] = n + 1
         /\ \A i \in Positions : i < n + 1 => kv'[i] = "own"
         /\ \A i \in Positions : i > n => kv'[i] = "zero"
<1>1. Continues(id, n, n)
  BY DEF Continues, Holds, Positions
<1> QED
  BY <1>1 DEF Absorbs, Holds, ResidentTypes, Positions

(* An aborted one leaves the state it read, and the rows below its own.    *)
LEMMA AbortingKeepsWhatItRead ==
  ASSUME ResidentTypes, NEW id, NEW n \in Positions, NEW p \in {0, 1}, id.parity = p,
         Holds(p, n), Aborts(id, n) \/ UNCHANGED residentVars
  PROVE  /\ recurrent'[p] = n
         /\ \A i \in Positions : i < n => kv'[i] = "own"
         /\ \A i \in Positions : i > n => kv'[i] = "zero"
<1>1. CASE UNCHANGED residentVars
  BY <1>1 DEF residentVars, Holds
<1>2. CASE /\ recurrent' = [recurrent EXCEPT ![1 - id.parity] = Foreign]
           /\ kv' = [kv EXCEPT ![n] = "foreign"]
  BY <1>2 DEF Holds, ResidentTypes, Positions
<1> QED
  BY <1>1, <1>2 DEF Aborts

(* Prefill and decode computations, and the decode that fails.             *)
LEMMA ChunkCarriesOn ==
  ASSUME ControlInv, FieldTypes, ResidentTypes, CursorInv, ResidentInv, KeyInv, ComputeChunk
  PROVE  ResidentInv'
<1>1. pc = "compute" /\ pc' = "read" /\ UNCHANGED <<callVars, cursorVars, op>>
  BY DEF ComputeChunk, Goes
<1>2. ChunkKey.parity = parity /\ ChunkRow = offset /\ parity \in {0, 1} /\ offset \in Positions
  BY <1>1, ChunkKeyIsKnown, SessionAssumption
  DEF RequestPcs, ChunkPcs, KeyInv, ChunkWritesItsOwnRows, ChunkRow, FieldTypes, Positions
<1>3. Holds(parity, offset)
  BY <1>1 DEF ResidentInv, ChunkPcs
<1>4. Absorbs(ChunkKey, offset, offset)
  BY <1>2 DEF ComputeChunk
<1>5. Holds(1 - parity, offset + 1)'
  BY <1>1, <1>2, <1>3, <1>4, AbsorbingCarriesOn DEF Holds, cursorVars, Positions
<1> QED
  BY <1>1, <1>5
  DEF ResidentInv, ControlInv, RequestPcs, ChunkPcs, TokenPcs, DecodePcs, ClearPcs, PREFILL,
      DECODE, DECODE_ALT, Streaming, cursorVars, callVars

LEMMA TokenCarriesOn ==
  ASSUME FieldTypes, ResidentTypes, CursorInv, ResidentInv, KeyInv, ComputeDecode
  PROVE  ResidentInv'
<1>1. pc = "decodeCompute" /\ pc' = "decodeRead" /\ UNCHANGED <<callVars, cursorVars>>
  BY DEF ComputeDecode, Goes
<1>2. StepKey.parity = parity /\ parity \in {0, 1} /\ Position \in Positions /\ Position' =
    Position
  BY <1>1, StepKeyIsKnown DEF DecodePcs, Position, callVars, cursorVars, FieldTypes
<1>3. Holds(parity, Position)
  BY <1>1 DEF ResidentInv, Streaming, TokenPcs, DecodePcs
<1>4. Absorbs(StepKey, Position, Position)
  BY <1>1 DEF ComputeDecode, KeyInv
<1>5. Holds(1 - parity, Position + 1)' /\ Holds(parity, Position)'
  BY <1>1, <1>2, <1>3, <1>4, AbsorbingCarriesOn DEF Holds, cursorVars, Positions
<1> QED
  BY <1>1, <1>5 DEF ResidentInv, ChunkPcs, Streaming, cursorVars, callVars

LEMMA FailedTokenKeepsStream ==
  ASSUME FieldTypes, ResidentTypes, CursorInv, ResidentInv, KeyInv, ComputeDecodeFails
  PROVE  ResidentInv'
<1>1. pc = "decodeCompute" /\ pc' = "idle" /\ UNCHANGED <<callVars, cursorVars>>
  BY DEF ComputeDecodeFails, Fails
<1>2. StepKey.parity = parity /\ parity \in {0, 1} /\ Position \in Positions /\ Position' =
    Position
  BY <1>1, StepKeyIsKnown DEF DecodePcs, Position, callVars, cursorVars, FieldTypes
<1>3. Holds(parity, Position)
  BY <1>1 DEF ResidentInv, Streaming, TokenPcs, DecodePcs
<1>4. Aborts(StepKey, Position) \/ UNCHANGED residentVars
  BY <1>1 DEF ComputeDecodeFails, KeyInv
<1>5. Holds(parity, Position)'
  BY <1>1, <1>2, <1>3, <1>4, AbortingKeepsWhatItRead DEF Holds, cursorVars
<1> QED
  BY <1>1, <1>5 DEF ResidentInv, ChunkPcs, TokenPcs, DecodePcs, Streaming, cursorVars, callVars

(* The resident data stays the request's own, whatever fails.              *)
LEMMA ResidentIsKept ==
  ASSUME ControlInv, FieldTypes, ResidentTypes, CursorInv, ResidentInv, KeyInv, [Next]_vars
  PROVE  ResidentInv'
<1> DEFINE Goal == ResidentInv'
<1> SUFFICES Goal
  OBVIOUS
<1> USE DEF ControlInv, FieldTypes, CursorInv, ResidentInv, Streaming, Holds, Blank, Zeroed,
    callVars, cursorVars, residentVars, CommitsChunk, LastChunk, Aborts, Position, Positions,
    Foreign, PREFILL, DECODE, DECODE_ALT, RequestPcs, ChunkPcs, TokenPcs, DecodePcs, ClearPcs
<1>1. CASE Call
  <2>1. ASSUME NEW o \in {"generate", "begin"}, NEW c \in 1..MaxChunks,
            NEW n \in 1..MaxTokens, CallRequest(o, c, n)
     PROVE Goal
    BY <2>1, SessionAssumption DEF CallRequest, Calls
  <2>2. CASE CallNext
    BY <2>2, SessionAssumption DEF CallNext, Calls
  <2>3. CASE CallFinish
    BY <2>3, SessionAssumption DEF CallFinish, Calls
  <2>4. CASE CallRecover
    BY <2>4, SessionAssumption DEF CallRecover, Calls
  <2> QED
    BY <1>1, <2>1, <2>2, <2>3, <2>4 DEF Call
<1>2. CASE Chunk
  <2>1. CASE ZeroResident
    BY <2>1, SessionAssumption DEF ZeroResident, Goes, Fails, ReturnsFrom
  <2>2. CASE ComputeChunk
    BY <2>2, ChunkCarriesOn
  <2>3. CASE ComputeChunkFails
    BY <2>3, SessionAssumption DEF ComputeChunkFails, Goes, Fails, ReturnsFrom
  <2>4. CASE NextChunk
    BY <2>4, SessionAssumption DEF NextChunk, Goes, Fails, ReturnsFrom
  <2>5. CASE FirstToken
    BY <2>5, SessionAssumption DEF FirstToken, Goes, Fails, ReturnsFrom
  <2>6. CASE SelectHit \/ SelectMiss \/ SelectPlain
    BY <2>6, SessionAssumption DEF SelectHit, SelectMiss, SelectPlain, Goes
  <2>7. CASE BuildChunk \/ PrepareChunk \/ ChunkInputs
    BY <2>7, SessionAssumption DEF BuildChunk, PrepareChunk, ChunkInputs, Goes
  <2>8. CASE SelectFails \/ BuildChunkFails
    BY <2>8, SessionAssumption DEF SelectFails, BuildChunkFails, Fails
  <2>9. CASE PrepareChunkFails
    BY <2>9, SessionAssumption DEF PrepareChunkFails, Fails
  <2>10. CASE FirstTokenFails
    BY <2>10, SessionAssumption DEF FirstTokenFails, Fails
  <2> QED
    BY <1>2, <2>1, <2>2, <2>3, <2>4, <2>5, <2>6, <2>7, <2>8, <2>9, <2>10 DEF Chunk
<1>3. CASE Token
  <2>1. CASE ComputeDecode
    BY <2>1, TokenCarriesOn
  <2>2. CASE ComputeDecodeFails
    BY <2>2, FailedTokenKeepsStream
  <2>3. CASE CommitToken
    BY <2>3, SessionAssumption DEF CommitToken, Goes, Fails, ReturnsFrom
  <2>4. CASE StopsAtToken \/ ContinuesAtToken \/ ReuseDecode \/ ReplaceDecode
    <3>1. CASE StopsAtToken
      BY <3>1, SessionAssumption DEF StopsAtToken, Goes, ReturnsFrom
    <3>2. CASE ContinuesAtToken
      BY <3>2, SessionAssumption DEF ContinuesAtToken, Goes, ReturnsFrom
    <3>3. CASE ReuseDecode
      BY <3>3, SessionAssumption DEF ReuseDecode, Goes, ReturnsFrom
    <3>4. CASE ReplaceDecode
      BY <3>4, SessionAssumption DEF ReplaceDecode, Goes, ReturnsFrom
    <3> QED
      BY <2>4, <3>1, <3>2, <3>3, <3>4
  <2>5. CASE BuildDecode \/ DecodeInputs
    <3>1. CASE BuildDecode
      BY <3>1, SessionAssumption DEF BuildDecode, Goes
    <3>2. CASE DecodeInputs
      BY <3>2, SessionAssumption DEF DecodeInputs, Goes
    <3> QED
      BY <2>5, <3>1, <3>2
  <2>8. CASE PrepareDecode
    BY <2>8, SessionAssumption DEF PrepareDecode, Goes
  <2>6. CASE ReplaceDecodeFails \/ BuildDecodeFails \/ PrepareDecodeFails
    <3>1. CASE ReplaceDecodeFails
      BY <3>1, SessionAssumption DEF ReplaceDecodeFails, Fails
    <3>2. CASE BuildDecodeFails
      BY <3>2, SessionAssumption DEF BuildDecodeFails, Fails
    <3>3. CASE PrepareDecodeFails
      BY <3>3, SessionAssumption DEF PrepareDecodeFails, Fails
    <3> QED
      BY <2>6, <3>1, <3>2, <3>3
  <2>7. CASE DecodeInputsFail \/ CommitTokenFails
    BY <2>7, SessionAssumption DEF DecodeInputsFail, CommitTokenFails, Fails
  <2> QED
    BY <1>3, <2>1, <2>2, <2>3, <2>4, <2>5, <2>6, <2>7, <2>8 DEF Token
<1>4. CASE Cleanup
  <2>1. CASE Release
    BY <2>1, SessionAssumption DEF Release, Goes, Fails, ReturnsFrom
  <2>2. CASE ReleaseFails
    BY <2>2, SessionAssumption DEF ReleaseFails, Goes, Fails, ReturnsFrom
  <2>3. CASE ClearPrefill
    BY <2>3, SessionAssumption DEF ClearPrefill, Goes, Fails, ReturnsFrom
  <2>4. CASE ClearPrefillFails
    BY <2>4, SessionAssumption DEF ClearPrefillFails, Goes, Fails, ReturnsFrom
  <2>5. CASE ClearDecode(DECODE, DECODE_ALT)
    BY <2>5, SessionAssumption DEF ClearDecode, Goes, Fails, ReturnsFrom
  <2>6. CASE ClearDecode(DECODE_ALT, "clearResident")
    BY <2>6, SessionAssumption DEF ClearDecode, Goes, Fails, ReturnsFrom
  <2>7. CASE ClearDecodeFails(DECODE)
    BY <2>7, SessionAssumption DEF ClearDecodeFails, Goes, Fails, ReturnsFrom
  <2>8. CASE ClearDecodeFails(DECODE_ALT)
    BY <2>8, SessionAssumption DEF ClearDecodeFails, Goes, Fails, ReturnsFrom
  <2>9. CASE Recovered
    BY <2>9, SessionAssumption DEF Recovered, Goes, Fails, ReturnsFrom
  <2> QED
    BY <1>4, <2>1, <2>2, <2>3, <2>4, <2>5, <2>6, <2>7, <2>8, <2>9 DEF Cleanup
<1>5. CASE UNCHANGED vars
  BY <1>5, SessionAssumption DEF vars
<1> QED
  BY <1>1, <1>2, <1>3, <1>4, <1>5 DEF Next, Work

(* A reused decode graph is one for this width and parity.                 *)
LEMMA KeysAreKept ==
  ASSUME ControlInv, FieldTypes, KeyTypes, CursorInv, KeyInv, [Next]_vars
  PROVE  KeyInv'
<1> DEFINE Goal == KeyInv'
<1> SUFFICES Goal
  OBVIOUS
<1> USE DEF ControlInv, KeyInv, ChunkWritesItsOwnRows, DecodeKind, StepKey, ChunkKey,
    LastChunk, Position, cursorVars, callVars, PREFILL, DECODE, DECODE_ALT, RequestPcs, ChunkPcs,
    TokenPcs, DecodePcs, ClearPcs
<1>1. CASE Call
  BY <1>1 DEF Call, CallRequest, CallNext, CallFinish, CallRecover, Calls
<1>2. CASE Chunk
  <2>1. CASE ChunkInputs
    BY <2>1 DEF ChunkInputs, Goes, Fails, ReturnsFrom, Gpu!UpdateRows
  <2>2. CASE ZeroResident \/ SelectHit \/ SelectMiss \/ SelectPlain \/ SelectFails \/
      BuildChunk \/ BuildChunkFails \/ PrepareChunk \/ PrepareChunkFails \/ ComputeChunk \/
      ComputeChunkFails \/ NextChunk \/ FirstToken \/ FirstTokenFails
    BY <2>2
    DEF ZeroResident, SelectHit, SelectMiss, SelectPlain, SelectFails, BuildChunk,
        BuildChunkFails, PrepareChunk, PrepareChunkFails, ComputeChunk, ComputeChunkFails,
        NextChunk, FirstToken, FirstTokenFails, Goes, Fails, ReturnsFrom
  <2> QED
    BY <1>2, <2>1, <2>2 DEF Chunk
<1>3. CASE Token
  <2>1. CASE PrepareDecode
    BY <2>1 DEF PrepareDecode, Goes, Fails, ReturnsFrom, DecodeKinds, KeyTypes
  <2>2. CASE StopsAtToken \/ ContinuesAtToken \/ ReuseDecode \/ ReplaceDecode \/
      ReplaceDecodeFails \/ BuildDecode \/ BuildDecodeFails \/ PrepareDecodeFails \/ DecodeInputs
      \/ DecodeInputsFail \/ ComputeDecode \/ ComputeDecodeFails \/ CommitToken \/ CommitTokenFails
    BY <2>2
    DEF StopsAtToken, ContinuesAtToken, ReuseDecode, ReplaceDecode, ReplaceDecodeFails,
        BuildDecode, BuildDecodeFails, PrepareDecodeFails, DecodeInputs, DecodeInputsFail,
        ComputeDecode, ComputeDecodeFails, CommitToken, CommitTokenFails, Goes, Fails,
        ReturnsFrom
  <2> QED
    BY <1>3, <2>1, <2>2 DEF Token
<1>4. CASE Cleanup
  <2>1. CASE Release
    BY <2>1 DEF Release, Goes, Fails, ReturnsFrom
  <2>2. CASE ReleaseFails
    BY <2>2 DEF ReleaseFails, Goes, Fails, ReturnsFrom
  <2>3. CASE ClearPrefill
    BY <2>3 DEF ClearPrefill, Goes, Fails, ReturnsFrom
  <2>4. CASE ClearPrefillFails
    BY <2>4 DEF ClearPrefillFails, Goes, Fails, ReturnsFrom
  <2>5. CASE ClearDecode(DECODE, DECODE_ALT)
    BY <2>5 DEF ClearDecode, Goes, Fails, ReturnsFrom
  <2>6. CASE ClearDecode(DECODE_ALT, "clearResident")
    BY <2>6 DEF ClearDecode, Goes, Fails, ReturnsFrom
  <2>7. CASE ClearDecodeFails(DECODE)
    BY <2>7 DEF ClearDecodeFails, Goes, Fails, ReturnsFrom
  <2>8. CASE ClearDecodeFails(DECODE_ALT)
    BY <2>8 DEF ClearDecodeFails, Goes, Fails, ReturnsFrom
  <2>9. CASE Recovered
    BY <2>9 DEF Recovered, Goes, Fails, ReturnsFrom
  <2> QED
    BY <1>4, <2>1, <2>2, <2>3, <2>4, <2>5, <2>6, <2>7, <2>8, <2>9 DEF Cleanup
<1>5. CASE UNCHANGED vars
  BY <1>5 DEF vars, gpuVars
<1> QED
  BY <1>1, <1>2, <1>3, <1>4, <1>5 DEF Next, Work

-----------------------------------------------------------------------------

(* What a call of the owner does to the decode graphs and to the faults.   *)
DecodesKept ==
  \A k \in DecodeKinds : prepared'[k] = prepared[k] /\ key'[k] = key[k]

FaultsGrow == workspaceFailed => workspaceFailed'

KindTypes == prepared \in [Gpu!Kinds -> BOOLEAN] /\ key \in [Gpu!Kinds -> TopologyKeys \cup
    {Null}]

LEMMA KindsAreThree ==
  /\ Gpu!Kinds = {PREFILL} \cup DecodeKinds /\ Gpu!PREFILL = PREFILL /\ PREFILL \notin
      DecodeKinds
  /\ Gpu!DECODE = DECODE /\ Gpu!DECODE_ALT = DECODE_ALT /\ DECODE # DECODE_ALT
BY
DEF Gpu!Kinds, Gpu!PREFILL, Gpu!DECODE, Gpu!DECODE_ALT, DecodeKinds, PREFILL, DECODE,
    DECODE_ALT

(* The owner's operations, one by one.                                     *)
LEMMA ActivationKeepsDecodes ==
  ASSUME KindTypes, NEW e, NEW id, Gpu!ActivateHit(e, id) \/ Gpu!ActivateMiss(e, id) \/
      Gpu!ActivateFails(e, id)
  PROVE  DecodesKept /\ FaultsGrow
<1>1. CASE Gpu!ActivateHit(e, id)
  BY <1>1, KindsAreThree
  DEF DecodesKept, FaultsGrow, KindTypes, Gpu!ActivateHit, Gpu!CanActivate, Gpu!Aliases,
      Gpu!faultVars
<1>2. CASE Gpu!ActivateMiss(e, id)
  BY <1>2, KindsAreThree
  DEF DecodesKept, FaultsGrow, KindTypes, Gpu!ActivateMiss, Gpu!CanActivate, Gpu!Aliases,
      Gpu!faultVars
<1>3. CASE Gpu!ActivateFails(e, id)
  BY <1>3, KindsAreThree
  DEF DecodesKept, FaultsGrow, Gpu!ActivateFails, Gpu!CanActivate, Gpu!untouchedByFault,
      Gpu!kindVars
<1> QED
  BY <1>1, <1>2, <1>3

LEMMA BuildKeepsKinds ==
  ASSUME NEW k, NEW id, Gpu!Build(k, id) \/ Gpu!BuildFails(k, id)
  PROVE  UNCHANGED <<prepared, key>> /\ FaultsGrow
BY
DEF FaultsGrow, Gpu!Build, Gpu!BuildFails, Gpu!CanBuild, Gpu!Usable, Gpu!kindVars,
    Gpu!faultVars

LEMMA PreparePublishes ==
  ASSUME NEW k, NEW id, NEW at, Gpu!Prepare(k, id, at)
  PROVE  /\ prepared' = [prepared EXCEPT ![k] = TRUE]
         /\ key' = [key EXCEPT ![k] = id]
         /\ FaultsGrow /\ ~workspaceFailed /\ ~workspaceFailed'
BY
DEF FaultsGrow, Gpu!Prepare, Gpu!CanPrepare, Gpu!Usable, Gpu!Installs, Gpu!Rebuilds,
    Gpu!faultVars

(* A graph is installed by a preparation that fails only on an owner that  *)
(* is poisoned with it.                                                    *)
LEMMA PrepareFailsPublishingPoisoned ==
  ASSUME NEW k, NEW id, NEW at, Gpu!PrepareFails(k, id, at)
  PROVE  /\ FaultsGrow
         /\ \/ UNCHANGED <<prepared, key>>
            \/ /\ prepared' = [prepared EXCEPT ![k] = TRUE]
               /\ key' = [key EXCEPT ![k] = id]
               /\ workspaceFailed'
BY
DEF FaultsGrow, Gpu!PrepareFails, Gpu!CanPrepare, Gpu!Usable, Gpu!Installs, Gpu!RebuildBreaks,
    Gpu!kindVars

LEMMA InvalidateRemoves ==
  ASSUME NEW k, Gpu!Invalidate(k)
  PROVE  /\ prepared' = [prepared EXCEPT ![k] = FALSE]
         /\ key' = [key EXCEPT ![k] = Null]
         /\ FaultsGrow /\ ~workspaceFailed
BY
DEF FaultsGrow, Gpu!Invalidate, Gpu!CanInvalidate, Gpu!Usable, Gpu!Removes, Gpu!Rebuilds,
    Gpu!faultVars

LEMMA InvalidateFailsRemovingPoisoned ==
  ASSUME NEW k, Gpu!InvalidateFails(k)
  PROVE  /\ FaultsGrow
         /\ \/ UNCHANGED <<prepared, key>>
            \/ /\ prepared' = [prepared EXCEPT ![k] = FALSE]
               /\ key' = [key EXCEPT ![k] = Null]
               /\ workspaceFailed'
BY
DEF FaultsGrow, Gpu!InvalidateFails, Gpu!CanInvalidate, Gpu!Usable, Gpu!Removes,
    Gpu!RebuildBreaks, Gpu!kindVars

LEMMA ComputeKeepsKinds ==
  ASSUME NEW k, NEW id, Gpu!Compute(k, id) \/ Gpu!ComputeFails(k, id)
  PROVE  UNCHANGED <<prepared, key>> /\ FaultsGrow
BY
DEF FaultsGrow, Gpu!Compute, Gpu!ComputeFails, Gpu!CanCompute, Gpu!Usable, Gpu!kindVars,
    Gpu!faultVars

LEMMA TransfersKeepKinds ==
  /\ \A x : Gpu!UpdateRows(x) => UNCHANGED <<prepared, key>> /\ FaultsGrow
  /\ \A g : Gpu!Read(g) => UNCHANGED <<prepared, key>> /\ FaultsGrow
BY DEF FaultsGrow, Gpu!UpdateRows, Gpu!Read, Gpu!kindVars, Gpu!faultVars

LEMMA ReleaseKeepsDecodes ==
  ASSUME KindTypes, NEW clear, Gpu!ReleasePark \/ Gpu!ReleaseClear \/ Gpu!ReleaseFails(clear)
  PROVE  DecodesKept /\ FaultsGrow
<1>1. CASE Gpu!ReleasePark
  BY <1>1, KindsAreThree
  DEF DecodesKept, FaultsGrow, KindTypes, Gpu!ReleasePark, Gpu!CanRelease, Gpu!Detaches,
      Gpu!Aliases, Gpu!faultVars
<1>2. CASE Gpu!ReleaseClear
  BY <1>2, KindsAreThree
  DEF DecodesKept, FaultsGrow, KindTypes, Gpu!ReleaseClear, Gpu!CanRelease, Gpu!ClearsEntries,
      Gpu!Detaches, Gpu!Aliases, Gpu!Rebuilds, Gpu!faultVars
<1>3. CASE Gpu!ReleaseFails(clear)
  BY <1>3, KindsAreThree
  DEF DecodesKept, FaultsGrow, KindTypes, Gpu!ReleaseFails, Gpu!CanRelease, Gpu!ClearsEntries,
      Gpu!Detaches, Gpu!Aliases, Gpu!untouchedByFault, Gpu!kindVars
<1> QED
  BY <1>1, <1>2, <1>3

(* A step that is not about a decode graph leaves both as they are, in the *)
(* session and on the device, and a replacement in progress goes on.       *)
Undisturbed ==
  /\ DecodesKept /\ FaultsGrow /\ UNCHANGED decodeKey
  /\ failed => failed'
  /\ \A k \in DecodeKinds : Replacing(k) /\ ~failed' => Replacing(k)'

LEMMA UnchangedDeviceKeepsDecodes == UNCHANGED gpuVars => DecodesKept /\ FaultsGrow
BY DEF gpuVars, DecodesKept, FaultsGrow

LEMMA UnchangedKindsKeepDecodes == UNCHANGED <<prepared, key>> => DecodesKept
BY DEF DecodesKept

LEMMA CallsLeaveDecodes ==
  ASSUME ControlInv, Call PROVE Undisturbed
BY UnchangedDeviceKeepsDecodes
DEF Call, CallRequest, CallNext, CallFinish, CallRecover, Calls, ControlInv, Undisturbed,
    Replacing

LEMMA ChunksLeaveDecodes ==
  ASSUME KindTypes, Chunk PROVE Undisturbed
<1>1. DecodesKept /\ FaultsGrow
  <2>1. CASE SelectHit
    BY <2>1, ActivationKeepsDecodes DEF SelectHit
  <2>2. CASE SelectMiss
    BY <2>2, ActivationKeepsDecodes DEF SelectMiss
  <2>3. CASE SelectPlain
    <3>1. CASE Gpu!Invalidate(PREFILL)
      BY <3>1, InvalidateRemoves, KindsAreThree DEF DecodesKept, KindTypes
    <3> QED
      BY <2>3, <3>1, UnchangedDeviceKeepsDecodes DEF SelectPlain
  <2>4. CASE SelectFails
    <3>1. CASE Gpu!InvalidateFails(PREFILL)
      BY <3>1, InvalidateFailsRemovingPoisoned, KindsAreThree DEF DecodesKept, KindTypes
    <3> QED
      BY <2>4, <3>1, ActivationKeepsDecodes DEF SelectFails
  <2>5. CASE BuildChunk \/ BuildChunkFails
    BY <2>5, BuildKeepsKinds, UnchangedKindsKeepDecodes, UnchangedDeviceKeepsDecodes
    DEF BuildChunk, BuildChunkFails
  <2>6. CASE PrepareChunk
    BY <2>6, PreparePublishes, KindsAreThree DEF PrepareChunk, DecodesKept, KindTypes
  <2>7. CASE PrepareChunkFails
    BY <2>7, PrepareFailsPublishingPoisoned, KindsAreThree
    DEF PrepareChunkFails, DecodesKept, KindTypes
  <2>8. CASE ChunkInputs
    BY <2>8, TransfersKeepKinds, UnchangedKindsKeepDecodes, UnchangedDeviceKeepsDecodes
    DEF ChunkInputs
  <2>9. CASE ComputeChunk \/ ComputeChunkFails
    BY <2>9, ComputeKeepsKinds, UnchangedKindsKeepDecodes DEF ComputeChunk, ComputeChunkFails
  <2>10. CASE FirstToken
    BY <2>10, TransfersKeepKinds, UnchangedKindsKeepDecodes DEF FirstToken
  <2>11. CASE ZeroResident \/ NextChunk \/ FirstTokenFails
    BY <2>11, UnchangedDeviceKeepsDecodes DEF ZeroResident, NextChunk, FirstTokenFails
  <2> QED
    BY <2>1, <2>2, <2>3, <2>4, <2>5, <2>6, <2>7, <2>8, <2>9, <2>10, <2>11 DEF Chunk
<1>2. UNCHANGED decodeKey /\ (failed => failed')
  BY
  DEF Chunk, ZeroResident, SelectHit, SelectMiss, SelectPlain, SelectFails, BuildChunk,
      BuildChunkFails, PrepareChunk, PrepareChunkFails, ChunkInputs, ComputeChunk,
      ComputeChunkFails, NextChunk, FirstToken, FirstTokenFails, Goes, Fails, ReturnsFrom
<1>3. pc \notin {"decodeBuild", "decodePrepare"}
  BY
  DEF Chunk, ZeroResident, SelectHit, SelectMiss, SelectPlain, SelectFails, BuildChunk,
      BuildChunkFails, PrepareChunk, PrepareChunkFails, ChunkInputs, ComputeChunk,
      ComputeChunkFails, NextChunk, FirstToken, FirstTokenFails, Goes, Fails, ReturnsFrom
<1> QED
  BY <1>1, <1>2, <1>3 DEF Undisturbed, Replacing

TokenSteps ==
  \/ StopsAtToken \/ ContinuesAtToken \/ ReuseDecode
  \/ BuildDecode \/ BuildDecodeFails
  \/ DecodeInputs \/ DecodeInputsFail
  \/ ComputeDecode \/ ComputeDecodeFails
  \/ CommitToken \/ CommitTokenFails

LEMMA TokensLeaveDecodes ==
  ASSUME TokenSteps PROVE Undisturbed
<1>1. DecodesKept /\ FaultsGrow
  <2>1. CASE BuildDecode \/ BuildDecodeFails
    BY <2>1, BuildKeepsKinds, UnchangedKindsKeepDecodes, UnchangedDeviceKeepsDecodes
    DEF BuildDecode, BuildDecodeFails
  <2>2. CASE ComputeDecode \/ ComputeDecodeFails
    BY <2>2, ComputeKeepsKinds, UnchangedKindsKeepDecodes, UnchangedDeviceKeepsDecodes
    DEF ComputeDecode, ComputeDecodeFails, Refused
  <2>3. CASE CommitToken
    BY <2>3, TransfersKeepKinds, UnchangedKindsKeepDecodes DEF CommitToken
  <2>4. CASE \/ StopsAtToken \/ ContinuesAtToken \/ ReuseDecode
             \/ DecodeInputs \/ DecodeInputsFail \/ CommitTokenFails
    BY <2>4, UnchangedDeviceKeepsDecodes
    DEF StopsAtToken, ContinuesAtToken, ReuseDecode, DecodeInputs, DecodeInputsFail,
        CommitTokenFails
  <2> QED
    BY <2>1, <2>2, <2>3, <2>4 DEF TokenSteps
<1>2. UNCHANGED decodeKey /\ (failed => failed')
  BY
  DEF TokenSteps, StopsAtToken, ContinuesAtToken, ReuseDecode, BuildDecode, BuildDecodeFails,
      DecodeInputs, DecodeInputsFail, ComputeDecode, ComputeDecodeFails, CommitToken,
      CommitTokenFails, Goes, Fails, ReturnsFrom
<1>3. \A k \in DecodeKinds : Replacing(k) /\ ~failed' => Replacing(k)'
  BY
  DEF TokenSteps, StopsAtToken, ContinuesAtToken, ReuseDecode, BuildDecode, BuildDecodeFails,
      DecodeInputs, DecodeInputsFail, ComputeDecode, ComputeDecodeFails, CommitToken,
      CommitTokenFails, Goes, Fails, ReturnsFrom, Replacing, DecodeKind, cursorVars
<1> QED
  BY <1>1, <1>2, <1>3 DEF Undisturbed

ReleaseSteps == Release \/ ReleaseFails \/ ClearPrefill \/ ClearPrefillFails

LEMMA ReleasesLeaveDecodes ==
  ASSUME KindTypes, ReleaseSteps PROVE Undisturbed
<1>1. Gpu!Invalidate(PREFILL) => DecodesKept /\ FaultsGrow
  BY InvalidateRemoves, KindsAreThree DEF DecodesKept, KindTypes
<1>2. Gpu!InvalidateFails(PREFILL) => DecodesKept /\ FaultsGrow
  BY InvalidateFailsRemovingPoisoned, KindsAreThree DEF DecodesKept, KindTypes
<1>3. \A clear : ClearFails(clear) => DecodesKept /\ FaultsGrow
  BY <1>2, ReleaseKeepsDecodes, UnchangedDeviceKeepsDecodes DEF ClearFails, Refused
<1>4. DecodesKept /\ FaultsGrow
  BY <1>1, <1>3, ReleaseKeepsDecodes
  DEF ReleaseSteps, Release, ReleaseFails, ClearPrefill, ClearPrefillFails
<1>5. UNCHANGED decodeKey /\ (failed => failed') /\ pc \notin {"decodeBuild", "decodePrepare"}
  <2>1. CASE ReleaseFails \/ ClearPrefillFails
    <3>1. Fails("release") \/ Fails("clearPrefill")
      BY <2>1 DEF ReleaseFails, ClearPrefillFails
    <3> QED
      BY <3>1 DEF Fails
  <2>2. CASE Release \/ ClearPrefill
    BY <2>2 DEF Release, ClearPrefill, Goes, ReturnsFrom
  <2> QED
    BY <2>1, <2>2 DEF ReleaseSteps
<1> QED
  BY <1>4, <1>5 DEF Undisturbed, Replacing

LEMMA UndisturbedAgree ==
  ASSUME AgreeInv, Undisturbed PROVE AgreeInv'
BY DEF AgreeInv, Undisturbed, DecodesKept, FaultsGrow

(* The decode graph of this parity is replaced: until the new one is       *)
(* prepared the session still has the key of the old one.                  *)
LEMMA ReplacingAgrees ==
  ASSUME KindTypes, AgreeInv, ReplaceDecode \/ ReplaceDecodeFails PROVE AgreeInv'
<1>1. DecodeKind \in DecodeKinds
  BY DEF DecodeKind, DecodeKinds
<1>2. CASE ReplaceDecode
  <2>1. /\ UNCHANGED <<decodeKey, failed>> /\ DecodeKind' = DecodeKind
        /\ pc' = "decodeBuild" /\ pc = "decode"
    BY <1>2 DEF ReplaceDecode, Goes, DecodeKind, cursorVars
  <2>2. CASE decodeKey[DecodeKind] = Null
    <3>1. UNCHANGED gpuVars
      BY <1>2, <2>2 DEF ReplaceDecode
    <3> QED
      BY <2>1, <3>1 DEF AgreeInv, Replacing, gpuVars
  <2>3. CASE decodeKey[DecodeKind] # Null
    <3>1. Gpu!Invalidate(DecodeKind)
      BY <1>2, <2>3 DEF ReplaceDecode
    <3> QED
      BY <1>1, <2>1, <3>1, InvalidateRemoves, KindsAreThree
      DEF AgreeInv, Replacing, KindTypes, FaultsGrow
  <2> QED
    BY <2>2, <2>3
<1>3. CASE ReplaceDecodeFails
  <2>1. /\ UNCHANGED decodeKey /\ failed'
    BY <1>3 DEF ReplaceDecodeFails, Fails
  <2>2. CASE UNCHANGED gpuVars
    BY <2>1, <2>2 DEF AgreeInv, gpuVars
  <2>3. CASE Gpu!InvalidateFails(DecodeKind)
    BY <1>1, <2>1, <2>3, InvalidateFailsRemovingPoisoned, KindsAreThree
    DEF AgreeInv, KindTypes, FaultsGrow
  <2> QED
    BY <1>3, <2>2, <2>3 DEF ReplaceDecodeFails, Refused
<1> QED
  BY <1>2, <1>3

(* The new graph is published under the key of this step, or the owner is  *)
(* poisoned.                                                               *)
LEMMA PreparingAgrees ==
  ASSUME FieldTypes, KeyTypes, CursorInv, KindTypes, AgreeInv, PrepareDecode \/
      PrepareDecodeFails PROVE AgreeInv'
<1>1. pc = "decodePrepare" /\ DecodeKind \in DecodeKinds /\ StepKey \in TopologyKeys
  BY StepKeyIsKnown DEF PrepareDecode, PrepareDecodeFails, Goes, Fails, DecodePcs
<1>2. CASE PrepareDecode
  <2>1. StepKey # Null
    BY <1>1, NamesAssumption
  <2>2. /\ decodeKey' = [decodeKey EXCEPT ![DecodeKind] = StepKey]
        /\ UNCHANGED failed
        /\ Gpu!Prepare(DecodeKind, StepKey, Newest(DecodeKind))
        /\ \A k \in DecodeKinds : k # DecodeKind => ~Replacing(k)
    BY <1>2 DEF PrepareDecode, Goes, Replacing
  <2> QED
    BY <1>1, <2>1, <2>2, PreparePublishes, KindsAreThree DEF AgreeInv, KindTypes, KeyTypes
<1>3. CASE PrepareDecodeFails
  <2>1. /\ UNCHANGED decodeKey /\ failed'
        /\ Gpu!PrepareFails(DecodeKind, StepKey, Newest(DecodeKind))
    BY <1>3 DEF PrepareDecodeFails, Fails
  <2> QED
    BY <1>1, <2>1, PrepareFailsPublishingPoisoned, KindsAreThree
    DEF AgreeInv, KindTypes, FaultsGrow
<1> QED
  BY <1>2, <1>3

(* A recovery forgets a key when, and only when, its graph is taken out.   *)
LEMMA ClearingAgrees ==
  ASSUME KeyTypes, KindTypes, AgreeInv, NEW k \in DecodeKinds, NEW to,
         pc = k, ClearDecode(k, to) \/ ClearDecodeFails(k)
  PROVE  AgreeInv'
<1>1. pc \notin {"decodeBuild", "decodePrepare"}
  BY DEF DecodeKinds, DECODE, DECODE_ALT
<1>2. CASE ClearDecode(k, to)
  <2>1. UNCHANGED failed /\ decodeKey' = [decodeKey EXCEPT ![k] = Null]
    BY <1>2 DEF ClearDecode, Goes
  <2>2. CASE decodeKey[k] = Null
    <3>1. UNCHANGED gpuVars /\ decodeKey' = decodeKey
      BY <1>2, <2>1, <2>2 DEF ClearDecode, KeyTypes
    <3> QED
      BY <1>1, <2>1, <3>1 DEF AgreeInv, Replacing, gpuVars
  <2>3. CASE decodeKey[k] # Null
    <3>1. Gpu!Invalidate(k)
      BY <1>2, <2>3 DEF ClearDecode
    <3> QED
      BY <1>1, <2>1, <3>1, InvalidateRemoves, KindsAreThree
      DEF AgreeInv, Replacing, KindTypes, KeyTypes, FaultsGrow
  <2> QED
    BY <2>2, <2>3
<1>3. CASE ClearDecodeFails(k)
  <2>1. UNCHANGED decodeKey /\ failed'
    BY <1>3 DEF ClearDecodeFails, Fails
  <2>2. CASE UNCHANGED gpuVars
    BY <2>1, <2>2 DEF AgreeInv, gpuVars
  <2>3. CASE Gpu!InvalidateFails(k)
    BY <2>1, <2>3, InvalidateFailsRemovingPoisoned, KindsAreThree
    DEF AgreeInv, KindTypes, FaultsGrow
  <2> QED
    BY <1>3, <2>2, <2>3 DEF ClearDecodeFails, Refused
<1> QED
  BY <1>2, <1>3

LEMMA RecoveredAgrees ==
  ASSUME KeyTypes, AgreeInv, RecoveryInv, Recovered PROVE AgreeInv'
<1>1. /\ UNCHANGED <<prepared, key, workspaceFailed, decodeKey>>
      /\ \A k \in DecodeKinds : decodeKey[k] = Null
  BY DEF Recovered, gpuVars, RecoveryInv, DecodeKinds
<1> QED
  BY <1>1 DEF AgreeInv

LEMMA AgreementIsKept ==
  ASSUME ControlInv, FieldTypes, KeyTypes, CursorInv, KindTypes, AgreeInv, RecoveryInv,
         [Next]_vars
  PROVE  AgreeInv'
<1>1. CASE Call \/ Chunk \/ TokenSteps \/ ReleaseSteps
  BY <1>1, CallsLeaveDecodes, ChunksLeaveDecodes, TokensLeaveDecodes, ReleasesLeaveDecodes,
      UndisturbedAgree
<1>2. CASE ReplaceDecode \/ ReplaceDecodeFails
  BY <1>2, ReplacingAgrees
<1>3. CASE PrepareDecode \/ PrepareDecodeFails
  BY <1>3, PreparingAgrees
<1>4. ASSUME NEW k \in DecodeKinds, NEW to, ClearDecode(k, to) \/ ClearDecodeFails(k)
      PROVE  AgreeInv'
  BY <1>4, ClearingAgrees DEF ClearDecode, ClearDecodeFails, Goes, Fails
<1>5. CASE Recovered
  BY <1>5, RecoveredAgrees
<1>6. CASE UNCHANGED vars
  BY <1>6 DEF vars, gpuVars, cursorVars, callVars, AgreeInv, Replacing, DecodeKind
<1> QED
  BY <1>1, <1>2, <1>3, <1>4, <1>5, <1>6
  DEF Next, Work, Token, TokenSteps, Cleanup, ReleaseSteps, DecodeKinds

-----------------------------------------------------------------------------
(* The theorems about the owner, of this session's owner.                  *)
Owner == INSTANCE GpuGraphsProofs
           WITH Entries <- {EntryOrder[i] : i \in DOMAIN EntryOrder},
                Keys <- TopologyKeys, KeysOf <- TopologyKeysOf,
                Extents <- {RowsOf[id] : id \in TopologyKeys}, ExtentOf <- RowsOf

(* A session gives its owner constants that the owner's assumptions allow. *)
LEMMA SessionFitsItsOwner == Owner!ConstantsAssumption /\ Owner!SentinelsAssumption
<1> DEFINE entries == {EntryOrder[i] : i \in DOMAIN EntryOrder}
<1>1. TopologyKeysOf \in [Owner!Kinds -> SUBSET TopologyKeys]
  <2>1. Owner!Kinds = {PREFILL} \cup DecodeKinds
    BY DEF Owner!Kinds, Owner!PREFILL, Owner!DECODE, Owner!DECODE_ALT, DecodeKinds, PREFILL,
           DECODE, DECODE_ALT
  <2>2. PrefillKeys \subseteq TopologyKeys /\ \A k \in DecodeKinds : DecodeKeysOf(k) \subseteq
      TopologyKeys
    BY DEF TopologyKeys, DecodeKinds
  <2>3. DOMAIN TopologyKeysOf = Owner!Kinds
    BY <2>1 DEF TopologyKeysOf
  <2>4. \A k \in Owner!Kinds : TopologyKeysOf[k] \in SUBSET TopologyKeys
    BY <2>1, <2>2 DEF TopologyKeysOf
  <2>5. TopologyKeysOf = [k \in Owner!Kinds |-> TopologyKeysOf[k]]
    BY <2>1 DEF TopologyKeysOf
  <2> QED
    BY <2>4, <2>5
<1>2. RowsOf \in [TopologyKeys -> {RowsOf[id] : id \in TopologyKeys}]
  BY DEF RowsOf
<1>3. Owner!ConstantsAssumption
  BY <1>1, <1>2, SessionAssumption DEF Owner!ConstantsAssumption
<1>4. /\ Null \notin TopologyKeys /\ Null \notin {RowsOf[id] : id \in TopologyKeys}
      /\ Null \notin entries \cup DecodeKinds
      /\ entries \cap DecodeKinds = {}
  BY NamesAssumption
<1>5. ~PrefillGraphCache => \E e \in entries : entries = {e}
  <2>1. DOMAIN EntryOrder = 1..Len(EntryOrder)
    BY SessionAssumption
  <2>2. Len(EntryOrder) = 1 => entries = {EntryOrder[1]}
    BY <2>1
  <2> QED
    BY <2>2, SessionAssumption
<1>6. Owner!Slices = entries \cup DecodeKinds /\ {Owner!DECODE, Owner!DECODE_ALT} = DecodeKinds
  BY DEF Owner!Slices, Owner!DECODE, Owner!DECODE_ALT, DecodeKinds, DECODE, DECODE_ALT
<1> HIDE DEF entries
<1>7. Null \notin TopologyKeys \cup {RowsOf[id] : id \in TopologyKeys} \cup Owner!Slices
  BY <1>4, <1>6
<1>8. entries \cap {Owner!DECODE, Owner!DECODE_ALT} = {}
  BY <1>4, <1>6
<1> QED
  BY <1>3, <1>5, <1>7, <1>8 DEF Owner!SentinelsAssumption, entries

(* The owner the session is composed with is the one the theorems are of.  *)
LEMMA OwnersAreOne ==
  /\ Gpu!Init <=> Owner!Init
  /\ Gpu!Next <=> Owner!Next
  /\ Gpu!TypeOK <=> Owner!TypeOK
  /\ Gpu!gpuVars = Owner!gpuVars
<1>1. Gpu!Init <=> Owner!Init
  BY
  DEF Gpu!Init, Owner!Init, Gpu!Kinds, Owner!Kinds, Gpu!Slices, Owner!Slices, Gpu!PREFILL,
      Owner!PREFILL, Gpu!DECODE, Owner!DECODE, Gpu!DECODE_ALT, Owner!DECODE_ALT, Gpu!NoGraph,
      Owner!NoGraph, Gpu!EmptyEntry, Owner!EmptyEntry, Gpu!Record, Owner!Record
<1>2. Gpu!Next <=> Owner!Next
  BY
  DEF Gpu!PREFILL, Owner!PREFILL, Gpu!DECODE, Owner!DECODE, Gpu!DECODE_ALT, Owner!DECODE_ALT,
      Gpu!Kinds, Owner!Kinds, Gpu!Slices, Owner!Slices, Gpu!Graphs, Owner!Graphs, Gpu!NoGraph,
      Owner!NoGraph, Gpu!Record, Owner!Record, Gpu!EmptyEntry, Owner!EmptyEntry, Gpu!kindVars,
      Owner!kindVars, Gpu!entryVars, Owner!entryVars, Gpu!rowVars, Owner!rowVars,
      Gpu!sliceVars, Owner!sliceVars, Gpu!workspaceVars, Owner!workspaceVars, Gpu!faultVars,
      Owner!faultVars, Gpu!gpuVars, Owner!gpuVars, Gpu!GraphOf, Owner!GraphOf, Gpu!Usable,
      Owner!Usable, Gpu!LiveGraphs, Owner!LiveGraphs, Gpu!ContentAdvances,
      Owner!ContentAdvances, Gpu!GenerationExhausted, Owner!GenerationExhausted, Gpu!Rebuilds,
      Owner!Rebuilds, Gpu!RebuildBreaks, Owner!RebuildBreaks, Gpu!CanBuild, Owner!CanBuild,
      Gpu!RowsAgree, Owner!RowsAgree, Gpu!RegistersRows, Owner!RegistersRows, Gpu!Build,
      Owner!Build, Gpu!BuildFails, Owner!BuildFails, Gpu!CanPrepare, Owner!CanPrepare,
      Gpu!Anchored, Owner!Anchored, Gpu!TakesAnchor, Owner!TakesAnchor, Gpu!Installs,
      Owner!Installs, Gpu!Prepare, Owner!Prepare, Gpu!PrepareFails, Owner!PrepareFails,
      Gpu!Saved, Owner!Saved, Gpu!Aliases, Owner!Aliases, Gpu!Detaches, Owner!Detaches,
      Gpu!IsHit, Owner!IsHit, Gpu!NothingPending, Owner!NothingPending, Gpu!CanActivate,
      Owner!CanActivate, Gpu!ActivateHit, Owner!ActivateHit, Gpu!ActivateMiss,
      Owner!ActivateMiss, Gpu!untouchedByFault, Owner!untouchedByFault, Gpu!ActivateFails,
      Owner!ActivateFails, Gpu!CanRelease, Owner!CanRelease, Gpu!DecodeGraphs,
      Owner!DecodeGraphs, Gpu!ReleasePark, Owner!ReleasePark, Gpu!ClearsEntries,
      Owner!ClearsEntries, Gpu!ReleaseClear, Owner!ReleaseClear, Gpu!ReleaseFails,
      Owner!ReleaseFails, Gpu!CanInvalidate, Owner!CanInvalidate, Gpu!Removes, Owner!Removes,
      Gpu!Invalidate, Owner!Invalidate, Gpu!InvalidateFails, Owner!InvalidateFails,
      Gpu!UpdateRows, Owner!UpdateRows, Gpu!CanCompute, Owner!CanCompute, Gpu!ConsumesRows,
      Owner!ConsumesRows, Gpu!Compute, Owner!Compute, Gpu!ComputeFails, Owner!ComputeFails,
      Gpu!SlotReady, Owner!SlotReady, Gpu!Read, Owner!Read, Gpu!Next, Owner!Next
<1>3. Gpu!TypeOK <=> Owner!TypeOK
  BY
  DEF Gpu!TypeOK, Owner!TypeOK, Gpu!Kinds, Owner!Kinds, Gpu!Slices, Owner!Slices, Gpu!PREFILL,
      Owner!PREFILL, Gpu!DECODE, Owner!DECODE, Gpu!DECODE_ALT, Owner!DECODE_ALT, Gpu!Graphs,
      Owner!Graphs, Gpu!NoGraph, Owner!NoGraph, Gpu!Records, Owner!Records
<1>4. Gpu!gpuVars = Owner!gpuVars
  BY
  DEF Gpu!gpuVars, Owner!gpuVars, Gpu!kindVars, Owner!kindVars, Gpu!entryVars,
      Owner!entryVars, Gpu!rowVars, Owner!rowVars, Gpu!sliceVars, Owner!sliceVars,
      Gpu!workspaceVars, Owner!workspaceVars, Gpu!faultVars, Owner!faultVars
<1> QED
  BY <1>1, <1>2, <1>3, <1>4

OwnerInv == Owner!Before /\ Owner!StampsAreFresh

LEMMA OwnerStartsWell == Gpu!Init => OwnerInv
BY OwnersAreOne, SessionFitsItsOwner, Owner!InitIsTyped, Owner!InitIsAnchored,
    Owner!InitIsSound, Owner!InitIsFresh
DEF OwnerInv, Owner!Before

(* The invariants of the owner's theorems, together.                       *)
LEMMA OwnerStepsWell == OwnerInv /\ [Gpu!Next]_Gpu!gpuVars => OwnerInv'
<1>1. UNCHANGED Gpu!gpuVars => UNCHANGED Owner!gpuVars
  BY
  DEF Gpu!gpuVars, Owner!gpuVars, Gpu!kindVars, Owner!kindVars, Gpu!entryVars,
      Owner!entryVars, Gpu!rowVars, Owner!rowVars, Gpu!sliceVars, Owner!sliceVars,
      Gpu!workspaceVars, Owner!workspaceVars, Gpu!faultVars, Owner!faultVars
<1>2. [Gpu!Next]_Gpu!gpuVars => [Owner!Next]_Owner!gpuVars
  BY <1>1, OwnersAreOne
<1> QED
  BY <1>2, SessionFitsItsOwner, Owner!NextIsTyped, Owner!NextKeepsAnchors, Owner!NextIsSound,
      Owner!NextIsFresh
  DEF OwnerInv, Owner!Before, Owner!Kept

(* What the session relies on.                                             *)
LEMMA OwnerFacts ==
  ASSUME OwnerInv
  PROVE  /\ Gpu!TypeOK
         /\ KindTypes
         /\ \A k \in Gpu!Kinds : prepared[k] => Gpu!GraphOf(k) \in Gpu!Graphs
         /\ RetainWorkspace /\ ~workspaceFailed => \A k \in Gpu!Kinds : result[k] <= generation
         /\ ~PrefillGraphCache => active = Null
<1>1. Owner!TypeInv /\ Owner!SoundInv /\ Owner!StampsAreFresh
  BY DEF OwnerInv, Owner!Before
<1>2. Gpu!TypeOK
  BY <1>1, SessionFitsItsOwner, OwnersAreOne, Owner!TypeInvImpliesTypeOK
<1>3. KindTypes
  BY <1>2 DEF Gpu!TypeOK, KindTypes
<1>4. \A k \in Gpu!Kinds : prepared[k] => Gpu!GraphOf(k) \in Gpu!Graphs
  BY <1>1
  DEF Owner!TypeInv, Owner!PreparedArePlaced, Owner!GraphOf, Gpu!GraphOf, Owner!Graphs,
      Gpu!Graphs, Owner!Slices, Gpu!Slices, Owner!Kinds, Gpu!Kinds, Owner!PREFILL,
      Gpu!PREFILL, Owner!DECODE, Gpu!DECODE, Owner!DECODE_ALT, Gpu!DECODE_ALT
<1>5. RetainWorkspace /\ ~workspaceFailed => \A k \in Gpu!Kinds : result[k] <= generation
  BY <1>1
  DEF Owner!StampsAreFresh, Owner!Kinds, Gpu!Kinds, Owner!PREFILL, Gpu!PREFILL, Owner!DECODE,
      Gpu!DECODE, Owner!DECODE_ALT, Gpu!DECODE_ALT
<1>6. ~PrefillGraphCache => active = Null
  BY <1>1 DEF Owner!SoundInv, Owner!ContextsApart
<1> QED
  BY <1>2, <1>3, <1>4, <1>5, <1>6

(* A graph that was just built is the newest of its slice.                 *)
LEMMA BuiltIsNewest ==
  ASSUME Gpu!TypeOK, NEW k \in Gpu!Kinds, NEW id \in TopologyKeys, Gpu!Build(k, id)
  PROVE  NewestIs(k, id)'
<1>1. context[k] \in Gpu!Slices /\ context' = context
  BY DEF Gpu!TypeOK, Gpu!Build, Gpu!CanBuild, Gpu!kindVars
<1>2. slice[context[k]] \in Seq(TopologyKeys \cup {Null})
  BY <1>1 DEF Gpu!TypeOK
<1>3. slice'[context[k]] = Append(slice[context[k]], id)
  BY <1>1 DEF Gpu!TypeOK, Gpu!Build
<1> QED
  BY <1>1, <1>2, <1>3 DEF NewestIs, Newest

(* Every call of the session is one the owner's specification allows.      *)
LEMMA CallsOfTheOwner ==
  /\ \A k \in Gpu!Kinds : \A id \in TopologyKeysOf[k] :
       Gpu!Build(k, id) \/ Gpu!BuildFails(k, id) \/ Gpu!Compute(k, id) \/ Gpu!ComputeFails(k,
           id)
         => Gpu!Next
  /\ \A k \in Gpu!Kinds : Gpu!Invalidate(k) \/ Gpu!InvalidateFails(k) => Gpu!Next
  /\ \A e \in {EntryOrder[i] : i \in DOMAIN EntryOrder} : \A id \in TopologyKeysOf[PREFILL] :
       Gpu!ActivateHit(e, id) \/ Gpu!ActivateMiss(e, id) \/ Gpu!ActivateFails(e, id) => Gpu!Next
  /\ Gpu!ReleasePark \/ Gpu!ReleaseClear => Gpu!Next
  /\ \A clear \in BOOLEAN : Gpu!ReleaseFails(clear) => Gpu!Next
  /\ \A id \in TopologyKeys : Gpu!UpdateRows(RowsOf[id]) => Gpu!Next
  /\ \A g \in Gpu!Graphs : Gpu!Read(g) => Gpu!Next
BY KindsAreThree DEF Gpu!Next

LEMMA PreparesOfTheOwner ==
  ASSUME Gpu!TypeOK, NEW k \in Gpu!Kinds, NEW id \in TopologyKeysOf[k], NewestIs(k, id),
         Gpu!Prepare(k, id, Newest(k)) \/ Gpu!PrepareFails(k, id, Newest(k))
  PROVE  Gpu!Next
<1>1. context[k] # Null /\ Newest(k) \in 1..Len(slice[context[k]])
  BY DEF Gpu!Prepare, Gpu!PrepareFails, Gpu!CanPrepare
<1>2. Len(slice[context[k]]) <= GraphsPerSlice /\ slice[context[k]] \in Seq(TopologyKeys \cup
    {Null})
  BY <1>1 DEF Gpu!TypeOK
<1>3. Newest(k) \in 1..GraphsPerSlice /\ Newest(k) <= Len(slice[context[k]])
  BY <1>1, <1>2, SessionAssumption
<1> QED
  BY <1>1, <1>3 DEF Gpu!Next, NewestIs

LEMMA EntriesAreEntries ==
  ASSUME NEW i \in Nat PROVE EntryAt(i) \in {EntryOrder[j] : j \in DOMAIN EntryOrder}
<1>1. DOMAIN EntryOrder = 1..Len(EntryOrder) /\ Len(EntryOrder) \in Nat \ {0}
  BY SessionAssumption
<1>2. (i % Len(EntryOrder)) + 1 \in 1..Len(EntryOrder)
  BY <1>1
<1> QED
  BY <1>1, <1>2 DEF EntryAt

LEMMA UnchangedOwner == UNCHANGED gpuVars => UNCHANGED Gpu!gpuVars
BY
DEF gpuVars, Gpu!gpuVars, Gpu!kindVars, Gpu!entryVars, Gpu!rowVars, Gpu!sliceVars,
    Gpu!workspaceVars, Gpu!faultVars

(* Every step of the session is a step of its owner, or leaves it alone.   *)
LEMMA SessionStepsAreOwnerSteps ==
  ASSUME FieldTypes, KeyTypes, CursorInv, KeyInv, PlaceInv, OwnerInv, [Next]_vars
  PROVE  [Gpu!Next]_Gpu!gpuVars
<1> DEFINE Goal == Gpu!Next \/ UNCHANGED gpuVars
<1> SUFFICES Goal
  BY UnchangedOwner
<1>1. TopologyKeysOf[PREFILL] = PrefillKeys /\ \A k \in DecodeKinds : TopologyKeysOf[k] =
    DecodeKeysOf(k)
  BY DEF TopologyKeysOf, DecodeKinds, PREFILL, DECODE, DECODE_ALT
<1>2. CASE Call \/ UNCHANGED vars
  BY <1>2 DEF Call, CallRequest, CallNext, CallFinish, CallRecover, vars
<1>3. CASE Chunk
  <2>1. pc \in RequestPcs
    BY <1>3
    DEF Chunk, ZeroResident, SelectHit, SelectMiss, SelectPlain, SelectFails, BuildChunk,
        BuildChunkFails, PrepareChunk, PrepareChunkFails, ChunkInputs, ComputeChunk,
        ComputeChunkFails, NextChunk, FirstToken, FirstTokenFails, Goes, Fails, RequestPcs,
        ChunkPcs
  <2>2. /\ ChunkKey \in TopologyKeysOf[PREFILL] /\ ChunkKey \in TopologyKeys
        /\ PREFILL \in Gpu!Kinds /\ EntryAt(offset) \in {EntryOrder[i] : i \in DOMAIN
            EntryOrder}
    BY <1>1, <2>1, ChunkKeyIsKnown, KindsAreThree, EntriesAreEntries DEF FieldTypes
  <2>3. CASE SelectHit \/ SelectMiss
    BY <2>2, <2>3, CallsOfTheOwner DEF SelectHit, SelectMiss
  <2>4. CASE SelectPlain \/ SelectFails
    BY <2>2, <2>4, CallsOfTheOwner DEF SelectPlain, SelectFails
  <2>5. CASE BuildChunk \/ BuildChunkFails
    BY <2>2, <2>5, CallsOfTheOwner DEF BuildChunk, BuildChunkFails
  <2>6. CASE PrepareChunk \/ PrepareChunkFails
    <3>1. NewestIs(PREFILL, ChunkKey)
      BY <2>6 DEF PrepareChunk, PrepareChunkFails, Goes, Fails, PlaceInv
    <3> QED
      BY <2>2, <2>6, <3>1, PreparesOfTheOwner, OwnerFacts DEF PrepareChunk, PrepareChunkFails
  <2>7. CASE ChunkInputs
    BY <2>2, <2>7, CallsOfTheOwner DEF ChunkInputs
  <2>8. CASE ComputeChunk \/ ComputeChunkFails
    BY <2>2, <2>8, CallsOfTheOwner DEF ComputeChunk, ComputeChunkFails
  <2>9. CASE FirstToken
    <3>1. Gpu!GraphOf(PREFILL) \in Gpu!Graphs
      BY <2>2, <2>9, OwnerFacts DEF FirstToken, PlaceInv
    <3> QED
      BY <2>9, <3>1, CallsOfTheOwner DEF FirstToken
  <2>10. CASE ZeroResident \/ NextChunk \/ FirstTokenFails
    BY <2>10 DEF ZeroResident, NextChunk, FirstTokenFails
  <2> QED
    BY <1>3, <2>3, <2>4, <2>5, <2>6, <2>7, <2>8, <2>9, <2>10 DEF Chunk
<1>4. CASE Token
  <2>1. CASE StopsAtToken \/ ContinuesAtToken
    BY <2>1 DEF StopsAtToken, ContinuesAtToken
  <2>2. CASE ~(StopsAtToken \/ ContinuesAtToken)
    <3>1. pc \in DecodePcs
      BY <1>4, <2>2
      DEF Token, StopsAtToken, ContinuesAtToken, ReuseDecode, ReplaceDecode,
          ReplaceDecodeFails, BuildDecode, BuildDecodeFails, PrepareDecode,
          PrepareDecodeFails, DecodeInputs, DecodeInputsFail, ComputeDecode,
          ComputeDecodeFails, CommitToken, CommitTokenFails, Goes, Fails, DecodePcs
    <3>2. DecodeKind \in DecodeKinds /\ DecodeKind \in Gpu!Kinds /\ StepKey \in
        TopologyKeysOf[DecodeKind]
      BY <1>1, <3>1, StepKeyIsKnown, KindsAreThree
    <3>3. CASE ReplaceDecode \/ ReplaceDecodeFails
      BY <3>2, <3>3, CallsOfTheOwner DEF ReplaceDecode, ReplaceDecodeFails, Refused
    <3>4. CASE BuildDecode \/ BuildDecodeFails
      BY <3>2, <3>4, CallsOfTheOwner DEF BuildDecode, BuildDecodeFails
    <3>5. CASE PrepareDecode \/ PrepareDecodeFails
      <4>1. NewestIs(DecodeKind, StepKey)
        BY <3>5 DEF PrepareDecode, PrepareDecodeFails, Goes, Fails, PlaceInv
      <4> QED
        BY <3>2, <3>5, <4>1, PreparesOfTheOwner, OwnerFacts
        DEF PrepareDecode, PrepareDecodeFails
    <3>6. CASE ComputeDecode \/ ComputeDecodeFails
      <4>1. decodeKey[DecodeKind] = StepKey
        BY <3>6 DEF ComputeDecode, ComputeDecodeFails, Goes, Fails, KeyInv
      <4> QED
        BY <3>2, <3>6, <4>1, CallsOfTheOwner DEF ComputeDecode, ComputeDecodeFails, Refused
    <3>7. CASE CommitToken
      <4>1. Gpu!GraphOf(DecodeKind) \in Gpu!Graphs
        BY <3>2, <3>7, OwnerFacts DEF CommitToken, PlaceInv
      <4> QED
        BY <3>7, <4>1, CallsOfTheOwner DEF CommitToken
    <3>8. CASE ReuseDecode \/ DecodeInputs \/ DecodeInputsFail \/ CommitTokenFails
      BY <3>8 DEF ReuseDecode, DecodeInputs, DecodeInputsFail, CommitTokenFails
    <3> QED
      BY <1>4, <2>2, <3>3, <3>4, <3>5, <3>6, <3>7, <3>8 DEF Token
  <2> QED
    BY <2>1, <2>2
<1>5. CASE Cleanup
  <2>1. \A clear \in BOOLEAN : ClearFails(clear) => Goal
    BY CallsOfTheOwner, KindsAreThree DEF ClearFails, Refused
  <2>2. CASE Release \/ ClearPrefill
    BY <2>2, CallsOfTheOwner, KindsAreThree DEF Release, ClearPrefill
  <2>3. CASE ReleaseFails
    BY <2>1, <2>3 DEF ReleaseFails
  <2>4. CASE ClearPrefillFails
    BY <2>1, <2>4 DEF ClearPrefillFails
  <2>5. ASSUME NEW k \in DecodeKinds, NEW to, ClearDecode(k, to) \/ ClearDecodeFails(k)
        PROVE  Goal
    BY <2>5, CallsOfTheOwner, KindsAreThree DEF ClearDecode, ClearDecodeFails, Refused
  <2>6. CASE Recovered
    BY <2>6 DEF Recovered
  <2> QED
    BY <1>5, <2>2, <2>3, <2>4, <2>5, <2>6 DEF Cleanup, DecodeKinds
<1> QED
  BY <1>2, <1>3, <1>4, <1>5 DEF Next, Work

(* What is prepared next is what was just built, and what is read is what  *)
(* was just computed.                                                      *)
LEMMA PlacesAreKept ==
  ASSUME FieldTypes, CursorInv, OwnerInv, PlaceInv, [Next]_vars
  PROVE  PlaceInv'
<1>1. CASE UNCHANGED vars
  BY <1>1
  DEF PlaceInv, vars, gpuVars, NewestIs, Newest, ChunkKey, LastChunk, StepKey, DecodeKind,
      Position, callVars, cursorVars
<1>2. CASE BuildChunk
  <2>1. pc = "build" /\ pc' = "prepare" /\ ChunkKey' = ChunkKey /\ ChunkKey \in TopologyKeys
    BY <1>2, ChunkKeyIsKnown
    DEF BuildChunk, Goes, ChunkKey, LastChunk, callVars, cursorVars, RequestPcs, ChunkPcs
  <2>2. NewestIs(PREFILL, ChunkKey)'
    BY <1>2, <2>1, BuiltIsNewest, OwnerFacts, KindsAreThree DEF BuildChunk, NewestIs
  <2> QED
    BY <2>1, <2>2 DEF PlaceInv
<1>3. CASE BuildDecode
  <2>1. /\ pc = "decodeBuild" /\ pc' = "decodePrepare"
        /\ StepKey' = StepKey /\ DecodeKind' = DecodeKind
        /\ StepKey \in TopologyKeys /\ DecodeKind \in Gpu!Kinds
    BY <1>3, StepKeyIsKnown, KindsAreThree
    DEF BuildDecode, Goes, StepKey, DecodeKind, Position, callVars, cursorVars, DecodePcs
  <2>2. NewestIs(DecodeKind, StepKey)'
    BY <1>3, <2>1, BuiltIsNewest, OwnerFacts DEF BuildDecode, NewestIs, Newest
  <2> QED
    BY <2>1, <2>2 DEF PlaceInv
<1>4. CASE ComputeChunk
  <2>1. pc' = "read" /\ prepared[PREFILL]
    BY <1>4 DEF ComputeChunk, Goes, Gpu!Compute, Gpu!CanCompute
  <2>2. prepared' = prepared
    BY <1>4, ComputeKeepsKinds DEF ComputeChunk
  <2> QED
    BY <2>1, <2>2 DEF PlaceInv
<1>5. CASE ComputeDecode
  <2>1. pc' = "decodeRead" /\ prepared[DecodeKind] /\ DecodeKind' = DecodeKind
    BY <1>5 DEF ComputeDecode, Goes, DecodeKind, cursorVars, Gpu!Compute, Gpu!CanCompute
  <2>2. prepared' = prepared
    BY <1>5, ComputeKeepsKinds DEF ComputeDecode
  <2> QED
    BY <2>1, <2>2 DEF PlaceInv
<1>6. CASE Call
  BY <1>6 DEF Call, CallRequest, CallNext, CallFinish, CallRecover, Calls, PlaceInv
<1>7. CASE Chunk /\ ~BuildChunk /\ ~ComputeChunk
  BY <1>7
  DEF Chunk, ZeroResident, SelectHit, SelectMiss, SelectPlain, SelectFails, BuildChunkFails,
      PrepareChunk, PrepareChunkFails, ChunkInputs, ComputeChunkFails, NextChunk, FirstToken,
      FirstTokenFails, Goes, Fails, ReturnsFrom, PlaceInv
<1>8. CASE Token /\ ~BuildDecode /\ ~ComputeDecode
  BY <1>8
  DEF Token, StopsAtToken, ContinuesAtToken, ReuseDecode, ReplaceDecode, ReplaceDecodeFails,
      BuildDecodeFails, PrepareDecode, PrepareDecodeFails, DecodeInputs, DecodeInputsFail,
      ComputeDecodeFails, CommitToken, CommitTokenFails, Goes, Fails, ReturnsFrom, PlaceInv
<1>9. CASE Cleanup
  <2>1. pc' \in {"idle", "clearResident"} \cup DecodeKinds
    <3>1. CASE ReleaseFails \/ ClearPrefillFails
      <4>1. Fails("release") \/ Fails("clearPrefill")
        BY <3>1 DEF ReleaseFails, ClearPrefillFails
      <4> QED
        BY <4>1 DEF Fails
    <3>2. CASE Release \/ ClearPrefill
      BY <3>2 DEF Release, ClearPrefill, Goes, ReturnsFrom, DecodeKinds
    <3>3. CASE ClearDecode(DECODE, DECODE_ALT) \/ ClearDecode(DECODE_ALT, "clearResident")
      BY <3>3 DEF ClearDecode, Goes, DecodeKinds
    <3>4. CASE ClearDecodeFails(DECODE) \/ ClearDecodeFails(DECODE_ALT) \/ Recovered
      BY <3>4 DEF ClearDecodeFails, Fails, Recovered
    <3> QED
      BY <1>9, <3>1, <3>2, <3>3, <3>4 DEF Cleanup
  <2> QED
    BY <2>1 DEF PlaceInv, DecodeKinds, DECODE, DECODE_ALT
<1> QED
  BY <1>1, <1>2, <1>3, <1>4, <1>5, <1>6, <1>7, <1>8, <1>9 DEF Next, Work

-----------------------------------------------------------------------------
(* No slot of an owner whose content moved, and was not computed since, is *)
(* ready.                                                                  *)
LEMMA MovedContentIsNotReady ==
  ASSUME RetainWorkspace => /\ lastSlot' = Gpu!NoGraph
                            /\ \A k \in Gpu!Kinds : result'[k] # generation'
  PROVE  (RetainWorkspace => \A g \in Gpu!Graphs : ~Gpu!SlotReady(g))'
<1>1. \A g \in Gpu!Graphs : g # Gpu!NoGraph
  <2>1. Null \notin Gpu!Slices
    BY NamesAssumption
    DEF Gpu!Slices, Gpu!DECODE, Gpu!DECODE_ALT, DecodeKinds, DECODE, DECODE_ALT
  <2> QED
    BY <2>1 DEF Gpu!Graphs, Gpu!NoGraph
<1> QED
  BY <1>1 DEF Gpu!SlotReady

LEMMA OwnerNumbers ==
  ASSUME OwnerInv
  PROVE  /\ generation \in Nat /\ result \in [Gpu!Kinds -> Nat]
         /\ PREFILL \in Gpu!Kinds /\ prepared \in [Gpu!Kinds -> BOOLEAN]
<1>1. 0..MaxGeneration \subseteq Nat
  BY SessionAssumption
<1> QED
  BY <1>1, OwnerFacts, KindsAreThree DEF Gpu!TypeOK

(* Giving the prefill graph back, or taking any graph out, silences the    *)
(* device: what was stamped before it is older than the content.           *)
LEMMA ReleaseSilences ==
  ASSUME OwnerInv, Gpu!ReleasePark \/ Gpu!ReleaseClear
  PROVE  Quiet'
<1>1. /\ PrefillGraphCache /\ ~workspaceFailed /\ ~observationFailed
      /\ UNCHANGED <<workspaceFailed, observationFailed>>
      /\ active' = Null /\ prepared' = [prepared EXCEPT ![PREFILL] = FALSE]
      /\ result' = [result EXCEPT ![PREFILL] = 0]
  BY KindsAreThree
  DEF Gpu!ReleasePark, Gpu!ReleaseClear, Gpu!CanRelease, Gpu!ClearsEntries, Gpu!Detaches,
      Gpu!Aliases,
      Gpu!EmptyEntry, Gpu!Record, Gpu!Rebuilds, Gpu!faultVars
<1>2. RetainWorkspace
  BY <1>1, SessionAssumption
<1>3. generation \in Nat /\ result \in [Gpu!Kinds -> Nat] /\ PREFILL \in Gpu!Kinds
      /\ prepared \in [Gpu!Kinds -> BOOLEAN]
  BY OwnerNumbers
<1>4. lastSlot' = Gpu!NoGraph /\ generation' \in Nat /\ generation' > generation
  <2>1. CASE Gpu!ReleasePark
    BY <1>2, <1>3, <2>1 DEF Gpu!ReleasePark, Gpu!ContentAdvances
  <2>2. CASE Gpu!ReleaseClear
    BY <1>2, <1>3, <2>2 DEF Gpu!ReleaseClear, Gpu!Rebuilds, Gpu!ContentAdvances
  <2> QED
    BY <2>1, <2>2
<1>5. \A k \in Gpu!Kinds : result[k] <= generation
  BY <1>1, <1>2, OwnerFacts
<1>6. \A k \in Gpu!Kinds : result'[k] # generation'
  BY <1>1, <1>3, <1>4, <1>5
<1>7. (RetainWorkspace => \A g \in Gpu!Graphs : ~Gpu!SlotReady(g))'
  BY <1>4, <1>6, MovedContentIsNotReady
<1> QED
  BY <1>1, <1>3, <1>7 DEF Quiet

LEMMA InvalidateSilences ==
  ASSUME OwnerInv, NEW k \in Gpu!Kinds, Gpu!Invalidate(k), active = Null,
         k = PREFILL \/ ~prepared[PREFILL]
  PROVE  Quiet'
<1>1. /\ ~workspaceFailed /\ ~observationFailed
      /\ UNCHANGED <<workspaceFailed, observationFailed, active, result>>
      /\ prepared' = [prepared EXCEPT ![k] = FALSE]
  BY
  DEF Gpu!Invalidate, Gpu!CanInvalidate, Gpu!Usable, Gpu!Removes, Gpu!Rebuilds, Gpu!faultVars,
      Gpu!entryVars
<1>2. generation \in Nat /\ result \in [Gpu!Kinds -> Nat] /\ PREFILL \in Gpu!Kinds
      /\ prepared \in [Gpu!Kinds -> BOOLEAN]
  BY OwnerNumbers
<1>3. RetainWorkspace => lastSlot' = Gpu!NoGraph /\ generation' = generation + 1
  BY DEF Gpu!Invalidate, Gpu!Rebuilds, Gpu!ContentAdvances
<1>4. RetainWorkspace => \A i \in Gpu!Kinds : result'[i] # generation'
  BY <1>1, <1>2, <1>3, OwnerFacts
<1>5. (RetainWorkspace => \A g \in Gpu!Graphs : ~Gpu!SlotReady(g))'
  BY <1>3, <1>4, MovedContentIsNotReady
<1> QED
  BY <1>1, <1>2, <1>5 DEF Quiet

LEMMA UnchangedDeviceStaysQuiet == Quiet /\ UNCHANGED gpuVars => Quiet'
BY DEF Quiet, gpuVars, Gpu!SlotReady, Gpu!GraphOf

(* A session becomes healthy only after the device was silenced.           *)
LEMMA RecoveryIsKept ==
  ASSUME ControlInv, KeyTypes, OwnerInv, RecoveryInv, [Next]_vars
  PROVE  RecoveryInv'
<1>1. ASSUME ~healthy', pc' \notin ClearPcs
      PROVE  RecoveryInv'
  BY <1>1 DEF RecoveryInv, ClearPcs
<1>2. PREFILL \in Gpu!Kinds /\ DECODE \in Gpu!Kinds /\ DECODE_ALT \in Gpu!Kinds
  BY KindsAreThree DEF DecodeKinds
<1>3. CASE Call
  BY <1>1, <1>3
  DEF Call, CallRequest, CallNext, CallFinish, CallRecover, Calls, ClearPcs, DECODE,
      DECODE_ALT, callVars
<1>4. CASE Chunk
  <2>1. ~healthy /\ UNCHANGED healthy
    BY <1>4
    DEF Chunk, ZeroResident, SelectHit, SelectMiss, SelectPlain, SelectFails, BuildChunk,
        BuildChunkFails, PrepareChunk, PrepareChunkFails, ChunkInputs, ComputeChunk,
        ComputeChunkFails, NextChunk, FirstToken, FirstTokenFails, Goes, Fails, ReturnsFrom,
        callVars, ControlInv
  <2>2. pc' \notin ClearPcs
    BY <1>4
    DEF Chunk, ZeroResident, SelectHit, SelectMiss, SelectPlain, SelectFails, BuildChunk,
        BuildChunkFails, PrepareChunk, PrepareChunkFails, ChunkInputs, ComputeChunk,
        ComputeChunkFails, NextChunk, FirstToken, FirstTokenFails, Goes, Fails, ReturnsFrom,
        ClearPcs, DECODE, DECODE_ALT
  <2> QED
    BY <1>1, <2>1, <2>2
<1>5. CASE Token
  <2>1. ~healthy /\ UNCHANGED healthy
    BY <1>5
    DEF Token, StopsAtToken, ContinuesAtToken, ReuseDecode, ReplaceDecode, ReplaceDecodeFails,
        BuildDecode, BuildDecodeFails, PrepareDecode, PrepareDecodeFails, DecodeInputs,
        DecodeInputsFail, ComputeDecode, ComputeDecodeFails, CommitToken, CommitTokenFails,
        Goes, Fails, ReturnsFrom, callVars, ControlInv
  <2>2. pc' \notin ClearPcs
    BY <1>5
    DEF Token, StopsAtToken, ContinuesAtToken, ReuseDecode, ReplaceDecode, ReplaceDecodeFails,
        BuildDecode, BuildDecodeFails, PrepareDecode, PrepareDecodeFails, DecodeInputs,
        DecodeInputsFail, ComputeDecode, ComputeDecodeFails, CommitToken, CommitTokenFails,
        Goes, Fails, ReturnsFrom, ClearPcs, DECODE, DECODE_ALT
  <2> QED
    BY <1>1, <2>1, <2>2
<1>6. CASE Release \/ ClearPrefill
  <2>1. (Gpu!Invalidate(PREFILL) /\ ~PrefillGraphCache) \/ (Gpu!ReleasePark \/ Gpu!ReleaseClear)
    BY <1>6 DEF Release, ClearPrefill
  <2>2. Quiet'
    BY <1>2, <2>1, ReleaseSilences, InvalidateSilences, OwnerFacts
  <2>3. pc' \in {"idle", DECODE}
    BY <1>6 DEF Release, ClearPrefill, Goes, ReturnsFrom
  <2> QED
    BY <2>2, <2>3 DEF RecoveryInv, DECODE, DECODE_ALT
<1>7. CASE ReleaseFails \/ ClearPrefillFails
  <2>1. Fails("release") \/ Fails("clearPrefill")
    BY <1>7 DEF ReleaseFails, ClearPrefillFails
  <2>2. ~healthy' /\ pc' = "idle"
    BY <2>1 DEF Fails, callVars, ControlInv
  <2> QED
    BY <1>1, <2>2 DEF ClearPcs, DECODE, DECODE_ALT
<1>8. ASSUME NEW k \in DecodeKinds, pc = k, NEW to, ClearDecode(k, to)
      PROVE  Quiet' /\ decodeKey' = [decodeKey EXCEPT ![k] = Null]
  <2>1. Quiet
    BY <1>8 DEF RecoveryInv, ClearPcs, DecodeKinds
  <2>2. Gpu!Invalidate(k) \/ UNCHANGED gpuVars
    BY <1>8 DEF ClearDecode
  <2>3. Quiet'
    BY <2>1, <2>2, UnchangedDeviceStaysQuiet, InvalidateSilences, KindsAreThree DEF Quiet
  <2> QED
    BY <1>8, <2>3 DEF ClearDecode
<1>9. CASE ClearDecode(DECODE, DECODE_ALT)
  <2>1. pc = DECODE /\ pc' = DECODE_ALT
    BY <1>9 DEF ClearDecode, Goes
  <2>2. Quiet' /\ decodeKey'[DECODE] = Null
    BY <1>8, <1>9, <2>1 DEF DecodeKinds, KeyTypes
  <2> QED
    BY <2>1, <2>2 DEF RecoveryInv, DECODE, DECODE_ALT
<1>10. CASE ClearDecode(DECODE_ALT, "clearResident")
  <2>1. pc = DECODE_ALT /\ pc' = "clearResident"
    BY <1>10 DEF ClearDecode, Goes
  <2>2. Quiet' /\ decodeKey'[DECODE_ALT] = Null
    BY <1>8, <1>10, <2>1 DEF DecodeKinds, KeyTypes
  <2>3. decodeKey'[DECODE] = Null
    BY <1>8, <1>10, <2>1 DEF RecoveryInv, DecodeKinds, KeyTypes
  <2> QED
    BY <2>1, <2>2, <2>3 DEF RecoveryInv
<1>11. CASE ClearDecodeFails(DECODE) \/ ClearDecodeFails(DECODE_ALT)
  <2>1. ~healthy' /\ pc' = "idle"
    BY <1>11 DEF ClearDecodeFails, Fails, callVars, ControlInv, DECODE, DECODE_ALT
  <2> QED
    BY <1>1, <2>1 DEF ClearPcs, DECODE, DECODE_ALT
<1>12. CASE Recovered
  <2>1. Quiet /\ UNCHANGED gpuVars /\ pc' = "idle"
    BY <1>12 DEF Recovered, RecoveryInv, ClearPcs
  <2> QED
    BY <2>1, UnchangedDeviceStaysQuiet DEF RecoveryInv, DECODE, DECODE_ALT
<1>13. CASE UNCHANGED vars
  BY <1>13, UnchangedDeviceStaysQuiet DEF vars, callVars, RecoveryInv
<1> QED
  BY <1>3, <1>4, <1>5, <1>6, <1>7, <1>9, <1>10, <1>11, <1>12, <1>13 DEF Next, Work, Cleanup

-----------------------------------------------------------------------------
(* The inductive invariant.                                                *)
SessionInv ==
  /\ ControlInv /\ FieldTypes /\ KeyTypes /\ ResidentTypes /\ CursorInv
  /\ ResidentInv /\ KeyInv
  /\ OwnerInv /\ PlaceInv /\ AgreeInv /\ RecoveryInv

LEMMA SessionStartsWell == Init => SessionInv
<1> SUFFICES ASSUME Init PROVE SessionInv
  OBVIOUS
<1>1. OwnerInv
  BY OwnerStartsWell DEF Init
<1>2. ControlInv /\ FieldTypes /\ CursorInv /\ KeyInv
  <2>1. ControlInv
    BY DEF Init, ControlInv, Streaming, RequestPcs, ChunkPcs, TokenPcs, DecodePcs, ClearPcs
  <2>0. /\ healthy = TRUE /\ streamActive = FALSE /\ firstRequest = TRUE /\ prefilled = FALSE
        /\ failed = FALSE /\ pc = "idle" /\ budget = 0 /\ chunks = 0 /\ step = 0 /\ offset = 0
        /\ parity = 0
    BY DEF Init
  <2>2. FieldTypes
    <3>1. MaxTokens \in Nat /\ MaxChunks \in Nat
      BY SessionAssumption
    <3>2. 0 \in 0..MaxTokens /\ 0 \in 0..MaxChunks
      BY <3>1
    <3> QED BY <2>0, <3>2, Zenon DEF FieldTypes
  <2>3. CursorInv
    BY <2>0 DEF CursorInv, Streaming, RequestPcs, ChunkPcs, TokenPcs, DecodePcs
  <2>4. KeyInv
    BY DEF Init, KeyInv, ChunkWritesItsOwnRows, Streaming, ChunkPcs, TokenPcs, DecodePcs
  <2> QED BY <2>1, <2>2, <2>3, <2>4
<1>3. KeyTypes /\ ResidentTypes
  BY SessionAssumption DEF Init, KeyTypes, ResidentTypes, Foreign
<1>4. ResidentInv
  BY DEF Init, ResidentInv, Blank, ChunkPcs, TokenPcs, DecodePcs, Streaming
<1>5. PlaceInv
  BY DEF Init, PlaceInv
<1>6. prepared = [k \in Gpu!Kinds |-> FALSE] /\ key = [k \in Gpu!Kinds |-> Null]
  BY DEF Init, Gpu!Init
<1>7. AgreeInv
  BY <1>6, KindsAreThree DEF Init, AgreeInv
<1>8. Quiet
  <2>1. ~workspaceFailed /\ ~observationFailed /\ active = Null /\ generation = 0
    BY DEF Init, Gpu!Init
  <2> QED
    BY <1>6, <2>1, KindsAreThree DEF Quiet, Gpu!SlotReady
<1>9. RecoveryInv
  BY <1>8 DEF Init, RecoveryInv, DECODE, DECODE_ALT
<1> QED
  BY <1>1, <1>2, <1>3, <1>4, <1>5, <1>7, <1>9 DEF SessionInv

LEMMA SessionStepsWell == SessionInv /\ [Next]_vars => SessionInv'
<1> SUFFICES ASSUME SessionInv, [Next]_vars PROVE SessionInv'
  OBVIOUS
<1> USE DEF SessionInv
<1>1. ControlInv' /\ FieldTypes' /\ KeyTypes' /\ ResidentTypes' /\ CursorInv'
  BY ControlIsKept, FieldsAreKept, KeyTypesAreKept, ResidentTypesAreKept, CursorIsKept
<1>2. ResidentInv' /\ KeyInv'
  BY ResidentIsKept, KeysAreKept
<1>3. OwnerInv'
  BY SessionStepsAreOwnerSteps, OwnerStepsWell
<1>4. PlaceInv' /\ AgreeInv' /\ RecoveryInv'
  BY PlacesAreKept, AgreementIsKept, RecoveryIsKept, OwnerFacts
<1> QED
  BY <1>1, <1>2, <1>3, <1>4

LEMMA SessionInvIsSound == SessionInv => SessionIsSound
<1> SUFFICES ASSUME SessionInv PROVE SessionIsSound
  OBVIOUS
<1> USE DEF SessionInv
<1>1. TypeOK
  BY OwnerFacts
  DEF TypeOK, ControlInv, FieldTypes, KeyTypes, ResidentTypes, Pcs, DecodeKinds, PREFILL,
      DECODE, DECODE_ALT, RequestPcs, ChunkPcs, TokenPcs, DecodePcs, ClearPcs
<1>2. StreamStateIntact
  BY DEF StreamStateIntact, ResidentInv, Streaming, Holds
<1>3. DeviceAgreesWithSession
  <2> SUFFICES ASSUME healthy, ~failed, NEW k \in DecodeKinds
               PROVE  prepared[k] = (decodeKey[k] # Null) /\ key[k] = decodeKey[k]
    BY DEF DeviceAgreesWithSession
  <2>1. ~Replacing(k) /\ ~workspaceFailed
    BY DEF ControlInv, Replacing, RecoveryInv, Quiet
  <2>2. prepared[k] \in BOOLEAN
    BY OwnerFacts, KindsAreThree DEF KindTypes
  <2>3. prepared[k] <=> decodeKey[k] # Null
    BY <2>1 DEF AgreeInv
  <2>4. key[k] = decodeKey[k]
    BY <2>1, <2>3 DEF AgreeInv
  <2> QED
    BY <2>2, <2>3, <2>4
<1>4. HealthyIsQuiescent
  BY DEF HealthyIsQuiescent, RecoveryInv, Quiet
<1> QED
  BY <1>1, <1>2, <1>3, <1>4 DEF SessionIsSound

LEMMA SessionInvKeepsToItself == SessionInv => RequestKeepsToItself
BY DEF SessionInv, ResidentInv, KeyInv, Holds, RequestKeepsToItself, TokensContinueTheRequest

(* Whatever call is made, and whatever device call fails in it: the        *)
(* session's fields are in their ranges, a stream can always be continued  *)
(* from the state its next step reads, the decode graphs the session has   *)
(* keys for are those of the device, and a healthy session has a device    *)
(* that is not poisoned and of which nothing can be read.                  *)
THEOREM SessionsStaySound == Spec => []SessionIsSound
BY SessionStartsWell, SessionStepsWell, SessionInvIsSound, PTL DEF Spec

(* Every token is chosen from a computation that continued this request,   *)
(* and every chunk writes the rows of the KV plane that are its own.       *)
THEOREM RequestsKeepToThemselves == Spec => []RequestKeepsToItself
BY SessionStartsWell, SessionStepsWell, SessionInvKeepsToItself, PTL DEF Spec

(* The session uses its device as the owner's specification says a caller  *)
(* may, so whatever is proved of the owner holds of the session's device.  *)
THEOREM SessionsDriveTheirOwner == Spec => [][Gpu!Next]_(Gpu!gpuVars)
<1>1. SessionInv /\ [Next]_vars => [Gpu!Next]_(Gpu!gpuVars)
  BY SessionStepsAreOwnerSteps DEF SessionInv
<1> QED
  BY <1>1, SessionStartsWell, SessionStepsWell, PTL DEF Spec

(* So what is proved of every owner is true of a session's device: what it *)
(* names is alive and was built for its key, what may be computed is bound *)
(* and writes its own rows.                                                *)
THEOREM SessionsKeepTheWorkspaceSound == Spec => []Gpu!WorkspaceIsSound
<1>1. SessionInv => Owner!WorkspaceIsSound
  BY SessionFitsItsOwner, Owner!SoundInvIsEnough DEF SessionInv, OwnerInv, Owner!Before
<1>2. Owner!WorkspaceIsSound => Gpu!WorkspaceIsSound
  BY
  DEF Gpu!WorkspaceIsSound, Owner!WorkspaceIsSound, Gpu!ReferencesAlive,
      Owner!ReferencesAlive, Gpu!LiveGraphsBound, Owner!LiveGraphsBound,
      Gpu!RowsWrittenAreItsOwn, Owner!RowsWrittenAreItsOwn, Gpu!ActiveEntryOwnsAlias,
      Owner!ActiveEntryOwnsAlias, Gpu!Names, Owner!Names, Gpu!LiveGraphs, Owner!LiveGraphs,
      Gpu!CanCompute, Owner!CanCompute, Gpu!Usable, Owner!Usable, Gpu!GraphOf, Owner!GraphOf,
      Gpu!Kinds, Owner!Kinds, Gpu!PREFILL, Owner!PREFILL, Gpu!DECODE, Owner!DECODE,
      Gpu!DECODE_ALT, Owner!DECODE_ALT, Gpu!Slices, Owner!Slices, Gpu!NoGraph, Owner!NoGraph
<1> QED
  BY <1>1, <1>2, SessionStartsWell, SessionStepsWell, PTL DEF Spec

-----------------------------------------------------------------------------
(* The refinement of SessionApi: the entry of an operation is the entry of *)
(* the call, its last step the return, and every step in between a stutter.*)
LEMMA StutterOfTheApi ==
  ASSUME UNCHANGED <<op, healthy, streamActive, budget>>, streamActive => UNCHANGED step
  PROVE  UNCHANGED Api!apiVars
BY DEF Api!apiVars

LEMMA FailsReturnsErr ==
  ASSUME ControlInv, NEW at, pc = at, at # "idle", Fails(at)
  PROVE  Api!Next
<1>1. op # "none" /\ op' = "none" /\ UNCHANGED <<healthy, streamActive, budget, step>>
  BY DEF Fails, ControlInv, callVars, cursorVars
<1> QED
  BY <1>1 DEF Api!Next, Api!ReturnErr

LEMMA CallsOfTheApi == ASSUME Call PROVE Api!Next
<1>1. ASSUME NEW o \in {"generate", "begin"}, NEW c \in 1..MaxChunks, NEW n \in 1..MaxTokens,
             CallRequest(o, c, n)
      PROVE  Api!Next
  <2>1. Api!CallRequest(o, n)
    BY <1>1 DEF CallRequest, Calls, Api!CallRequest
  <2> QED
    BY <2>1 DEF Api!Next, Api!Call
<1>2. CASE CallNext
  BY <1>2 DEF CallNext, Calls, callVars, cursorVars, Api!Next, Api!Call, Api!CallNext
<1>3. CASE CallFinish
  BY <1>3 DEF CallFinish, Calls, callVars, cursorVars, Api!Next, Api!Call, Api!CallFinish
<1>4. CASE CallRecover
  BY <1>4 DEF CallRecover, Calls, callVars, cursorVars, Api!Next, Api!Call, Api!CallRecover
<1> QED
  BY <1>1, <1>2, <1>3, <1>4 DEF Call

LEMMA ChunksOfTheApi == ASSUME ControlInv, Chunk PROVE [Api!Next]_(Api!apiVars)
<1>1. CASE FirstToken
  <2>1. /\ op \in {"begin", "generate"} /\ ~streamActive
        /\ step' = 1 /\ UNCHANGED <<healthy, budget>>
    BY <1>1 DEF FirstToken, ControlInv, DecodePcs, ClearPcs, DECODE, DECODE_ALT
  <2>2. CASE op = "begin"
    BY <1>1, <2>1, <2>2 DEF FirstToken, ReturnsFrom, Api!Next, Api!ReturnOk, Api!ReturnBegin
  <2>3. CASE op # "begin"
    BY <1>1, <2>1, <2>3, StutterOfTheApi DEF FirstToken, Goes
  <2> QED
    BY <2>2, <2>3
<1>2. CASE SelectFails \/ BuildChunkFails \/ PrepareChunkFails \/ ComputeChunkFails \/
    FirstTokenFails
  <2>1. Fails("select") \/ Fails("build") \/ Fails("prepare") \/ Fails("compute") \/
      Fails("read")
    BY <1>2
    DEF SelectFails, BuildChunkFails, PrepareChunkFails, ComputeChunkFails, FirstTokenFails
  <2> QED
    BY <2>1, FailsReturnsErr DEF Fails
<1>3. CASE \/ ZeroResident \/ SelectHit \/ SelectMiss \/ SelectPlain \/ BuildChunk
           \/ PrepareChunk \/ ChunkInputs \/ ComputeChunk \/ NextChunk
  BY <1>3, StutterOfTheApi
  DEF ZeroResident, SelectHit, SelectMiss, SelectPlain, BuildChunk, PrepareChunk, ChunkInputs,
      ComputeChunk, NextChunk, Goes, callVars, cursorVars
<1> QED
  BY <1>1, <1>2, <1>3 DEF Chunk

LEMMA TokensOfTheApi == ASSUME ControlInv, Token PROVE [Api!Next]_(Api!apiVars)
<1>1. CASE CommitToken
  <2>1. UNCHANGED <<healthy, streamActive, budget>> /\ step' = step + 1
    BY <1>1 DEF CommitToken, callVars
  <2>2. CASE op = "next"
    <3>1. streamActive /\ op' = "none"
      BY <1>1, <2>2 DEF CommitToken, ReturnsFrom, ControlInv
    <3> QED
      BY <2>1, <2>2, <3>1 DEF Api!Next, Api!ReturnOk, Api!ReturnNext
  <2>3. CASE op # "next"
    <3>1. ~streamActive /\ op' = op
      BY <1>1, <2>3 DEF CommitToken, Goes, ControlInv, ClearPcs, DECODE, DECODE_ALT
    <3> QED
      BY <2>1, <3>1, StutterOfTheApi
  <2> QED
    BY <2>2, <2>3
<1>2. CASE \/ ReplaceDecodeFails \/ BuildDecodeFails \/ PrepareDecodeFails
           \/ DecodeInputsFail \/ ComputeDecodeFails \/ CommitTokenFails
  <2>1. \/ Fails("decode") \/ Fails("decodeBuild") \/ Fails("decodePrepare")
        \/ Fails("decodeInputs") \/ Fails("decodeCompute") \/ Fails("decodeRead")
    BY <1>2
    DEF ReplaceDecodeFails, BuildDecodeFails, PrepareDecodeFails, DecodeInputsFail,
        ComputeDecodeFails, CommitTokenFails
  <2> QED
    BY <2>1, FailsReturnsErr DEF Fails
<1>3. CASE \/ StopsAtToken \/ ContinuesAtToken \/ ReuseDecode \/ ReplaceDecode
           \/ BuildDecode \/ PrepareDecode \/ DecodeInputs \/ ComputeDecode
  BY <1>3, StutterOfTheApi
  DEF StopsAtToken, ContinuesAtToken, ReuseDecode, ReplaceDecode, BuildDecode, PrepareDecode,
      DecodeInputs, ComputeDecode, Goes, callVars, cursorVars
<1> QED
  BY <1>1, <1>2, <1>3 DEF Token

LEMMA CleanupsOfTheApi == ASSUME ControlInv, Cleanup PROVE [Api!Next]_(Api!apiVars)
<1>1. CASE Release
  <2>1. /\ op \in {"generate", "finish"} /\ op' = "none" /\ healthy' = TRUE
        /\ UNCHANGED <<streamActive, budget, step>>
    BY <1>1
    DEF Release, ReturnsFrom, ControlInv, RequestPcs, ChunkPcs, DecodePcs, ClearPcs, DECODE,
        DECODE_ALT, cursorVars
  <2> QED
    BY <2>1 DEF Api!Next, Api!ReturnOk, Api!ReturnGenerate, Api!ReturnFinish
<1>2. CASE Recovered
  <2>1. /\ op = "recover" /\ op' = "none" /\ healthy' = TRUE /\ streamActive' = FALSE
        /\ UNCHANGED budget
    BY <1>2
    DEF Recovered, ControlInv, RequestPcs, ChunkPcs, TokenPcs, DecodePcs
  <2> QED
    BY <2>1 DEF Api!Next, Api!ReturnOk, Api!ReturnRecover
<1>3. CASE ReleaseFails
  BY <1>3, FailsReturnsErr DEF ReleaseFails, Fails
<1>4. CASE ClearPrefillFails
  BY <1>4, FailsReturnsErr DEF ClearPrefillFails, Fails
<1>5. CASE ClearDecodeFails(DECODE) \/ ClearDecodeFails(DECODE_ALT)
  <2>1. Fails("DECODE") \/ Fails("DECODE_ALT")
    BY <1>5 DEF ClearDecodeFails, DECODE, DECODE_ALT
  <2> QED
    BY <2>1, FailsReturnsErr DEF Fails
<1>6. CASE \/ ClearPrefill
           \/ ClearDecode(DECODE, DECODE_ALT) \/ ClearDecode(DECODE_ALT, "clearResident")
  BY <1>6, StutterOfTheApi DEF ClearPrefill, ClearDecode, Goes, callVars, cursorVars
<1> QED
  BY <1>1, <1>2, <1>3, <1>4, <1>5, <1>6 DEF Cleanup

LEMMA StepsOfTheApi == ControlInv /\ [Next]_vars => [Api!Next]_(Api!apiVars)
<1>1. UNCHANGED vars => UNCHANGED Api!apiVars
  BY StutterOfTheApi DEF vars, callVars, cursorVars
<1> QED
  BY <1>1, CallsOfTheApi, ChunksOfTheApi, TokensOfTheApi, CleanupsOfTheApi DEF Next, Work

(* The session implements SessionApi: the public functions, whatever the   *)
(* device does behind them, do what their callers rely on.                 *)
THEOREM SessionsImplementTheApi == Spec => ImplementsApi
<1>1. Init => Api!Init
  BY DEF Init, Api!Init
<1>2. SessionInv /\ [Next]_vars => [Api!Next]_(Api!apiVars)
  BY StepsOfTheApi DEF SessionInv
<1> QED
  BY <1>1, <1>2, SessionStartsWell, SessionStepsWell, PTL DEF Spec, ImplementsApi, Api!Spec
=============================================================================
