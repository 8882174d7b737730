----------------------------- MODULE SessionApi ------------------------------
(***************************************************************************)
(* What a resident Qwen3.5 session promises its caller                     *)
(* (src/runtime_qwen35_generation.align): the public functions, without    *)
(* the device behind them.  A call is two steps, the entry and the return, *)
(* because a request is what the session works on in between.              *)
(*                                                                         *)
(* A session that is not healthy and not streaming has failed: only        *)
(* recover_failed_request makes it healthy again.                          *)
(***************************************************************************)
EXTENDS Naturals

CONSTANT MaxTokens    \* the largest max_tokens a caller asks for

ASSUME MaxTokensAssumption == MaxTokens \in Nat \ {0}

VARIABLES
  op,             \* the call in progress, "none" between calls
  healthy,        \* Session.healthy
  streamActive,   \* Session.stream_active
  budget,         \* max_tokens of the request
  step            \* Session.stream_step: tokens the stream has produced

apiVars == <<op, healthy, streamActive, budget, step>>

Ops == {"none", "generate", "begin", "next", "finish", "recover"}

Init ==
  /\ op = "none"
  /\ healthy = TRUE
  /\ streamActive = FALSE
  /\ budget = 0
  /\ step = 0
-----------------------------------------------------------------------------
(* generate_session and begin_stream admit a request of n tokens; any      *)
(* return before the last one leaves the session not healthy.              *)
CallRequest(o, n) ==
  /\ op = "none" /\ healthy
  /\ o \in {"generate", "begin"}
  /\ op' = o
  /\ healthy' = FALSE
  /\ budget' = n
  /\ UNCHANGED <<streamActive, step>>

(* stream_next at the budget returns None and touches nothing.             *)
Exhausted == streamActive /\ ~healthy /\ step >= budget

(* Mutant: the budget is not looked at.                                    *)
CallNextUnbounded ==
  /\ op = "none" /\ streamActive /\ ~healthy
  /\ op' = "next"
  /\ UNCHANGED <<healthy, streamActive, budget, step>>

CallNext ==
  /\ op = "none" /\ streamActive /\ ~healthy
  /\ step < budget
  /\ op' = "next"
  /\ UNCHANGED <<healthy, streamActive, budget, step>>

(* Mutant: the stream that is finished stays active.                       *)
CallFinishKeepingStream ==
  /\ op = "none" /\ streamActive /\ ~healthy
  /\ op' = "finish"
  /\ UNCHANGED <<healthy, streamActive, budget, step>>

CallFinish ==
  /\ op = "none" /\ streamActive /\ ~healthy
  /\ op' = "finish"
  /\ streamActive' = FALSE
  /\ step' = 0
  /\ UNCHANGED <<healthy, budget>>

CallRecover ==
  /\ op = "none" /\ ~healthy
  /\ op' = "recover"
  /\ UNCHANGED <<healthy, streamActive, budget, step>>
-----------------------------------------------------------------------------
ReturnGenerate == op = "generate" /\ healthy' = TRUE /\ UNCHANGED <<streamActive, step>>

ReturnBegin == op = "begin" /\ streamActive' = TRUE /\ step' = 1 /\ UNCHANGED healthy

ReturnNext == op = "next" /\ step' = step + 1 /\ UNCHANGED <<healthy, streamActive>>

ReturnFinish == op = "finish" /\ healthy' = TRUE /\ UNCHANGED <<streamActive, step>>

ReturnRecover ==
  op = "recover" /\ healthy' = TRUE /\ streamActive' = FALSE /\ step' = 0

ReturnOk ==
  /\ ReturnGenerate \/ ReturnBegin \/ ReturnNext \/ ReturnFinish \/ ReturnRecover
  /\ op' = "none"
  /\ UNCHANGED budget

(* Every call may fail, and then leaves what it had entered with: a        *)
(* stream whose step failed is still active, its step not taken.           *)
ReturnErr ==
  /\ op # "none"
  /\ op' = "none"
  /\ UNCHANGED <<healthy, streamActive, budget, step>>

Call ==
  \/ \E o \in {"generate", "begin"}, n \in 1..MaxTokens : CallRequest(o, n)
  \/ CallNext
  \/ CallFinish
  \/ CallRecover

Next == Call \/ ReturnOk \/ ReturnErr

Spec == Init /\ [][Next]_apiVars
-----------------------------------------------------------------------------
TypeOK ==
  /\ op \in Ops
  /\ healthy \in BOOLEAN
  /\ streamActive \in BOOLEAN
  /\ budget \in 0..MaxTokens
  /\ step \in 0..MaxTokens

(* A session that admits a request has no stream left behind, and a stream *)
(* never produces more tokens than its request asked for.                  *)
AdmissionIsExclusive ==
  /\ healthy => op = "none" /\ ~streamActive
  /\ streamActive => step \in 1..budget
=============================================================================
