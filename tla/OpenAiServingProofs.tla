------------------------- MODULE OpenAiServingProofs -------------------------
(***************************************************************************)
(* Theorems about the session's contract and the server over it, for every *)
(* budget and every limit of pending tokens.                               *)
(***************************************************************************)
EXTENDS OpenAiServing, TLAPS

-----------------------------------------------------------------------------
(* The session between calls and in the middle of one: a request is what   *)
(* health was given up for, and a stream has a token left to produce while *)
(* one is produced.                                                        *)
SessionInv ==
  /\ TypeOK
  /\ AdmissionIsExclusive
  /\ op # "none" => ~healthy
  /\ op \in {"generate", "begin", "finish"} => ~streamActive
  /\ op = "begin" => budget \in 1..MaxTokens
  /\ op = "next" => streamActive /\ step < budget

Idle == {"accept", "open", "role", "piece", "advance", "recover", "finish", "verdict", "done"}
Streaming == {"open", "role", "piece", "advance", "advancing", "finish"}

(* Where run() is tells what the session does, and whether it has failed.  *)
ControlInv ==
  /\ pc \in Idle => op = "none"
  /\ pc = "native" => op = IF route = "stream" THEN "begin" ELSE "generate"
  /\ pc = "advancing" => op = "next"
  /\ pc = "recovering" => op = "recover"
  /\ pc = "finishing" => op = "finish"
  /\ pc \in Streaming => streamActive /\ route = "stream"
  /\ pc = "recover" => ~healthy
  /\ pc \in {"accept", "done"} => healthy
  /\ pc = "verdict" /\ ~fatal => healthy
  /\ fatal => failed /\ pc \in {"verdict", "exited"}

(* A failure is on its way to the client, or has been reported.            *)
OutcomeInv ==
  /\ failed => pc \in {"recover", "recovering", "verdict", "accept", "exited"}
  /\ pc \in {"recover", "recovering"} => failed
  /\ pc \in {"native", "open"} => status = 0
  /\ pc \in {"role", "piece", "advance", "advancing"} => status = 200
  /\ pc \in {"native", "open", "role", "piece", "advance", "advancing"} => ~disconnected
  /\ pc = "done" => HeadersSent /\ ~disconnected
  /\ FailureIsReported

Plain(s) == \A i \in DOMAIN s : s[i] = IF i = 1 THEN "role" ELSE "delta"

(* What the client has received so far, by where run() is.                 *)
StreamInv ==
  /\ sse \in Seq({"role", "delta", "error", "finish", "[DONE]"})
  /\ pc \in {"native", "open", "role"} => sse = <<>>
  /\ pc \in {"piece", "advance", "advancing", "recover", "recovering", "finish", "finishing",
             "verdict"} => Plain(sse)
  /\ pc \in {"piece", "advance", "advancing"} => sse # <<>>
  /\ pc \in {"recover", "recovering", "finish", "finishing", "verdict"} /\ HeadersSent /\ ~disconnected
       => sse # <<>>
  /\ pc = "done" => /\ Len(sse) > 1 /\ sse[Len(sse)] = "finish"
                    /\ \A i \in 1..(Len(sse) - 1) : sse[i] = IF i = 1 THEN "role" ELSE "delta"
  /\ StreamIsOrdered

(* The tokens the session produced are those that were sent, those that    *)
(* wait and the one at hand.                                               *)
TokenInv ==
  /\ {produced, rendered, pending} \subseteq Nat
  /\ pc = "native" => produced = 0 /\ rendered = 0 /\ pending = 0
  /\ pc \in {"open", "role"} => pending = 0 /\ rendered = 0
  /\ pc \in {"open", "role", "piece", "advance", "advancing"} => ~stopped /\ produced = step
  /\ pc = "native" => ~stopped
  /\ pc \in {"open", "role", "piece"} => rendered + pending + 1 = produced
  /\ pc \in {"advance", "advancing"} => rendered + pending = produced
  /\ pc \in {"finish", "finishing", "verdict", "done"} /\ HeadersSent /\ ~disconnected /\ ~failed =>
       IF stopped THEN rendered + pending + 1 = produced
       ELSE rendered + pending = produced /\ produced = budget
  /\ NoPartialSuccess

IInv == SessionInv /\ ControlInv /\ OutcomeInv /\ StreamInv /\ TokenInv
-----------------------------------------------------------------------------
(* Every call and every return keeps the session's invariant.              *)
LEMMA SessionStep == ASSUME SessionInv, [Next]_apiVars PROVE SessionInv'
<1> USE MaxTokensAssumption DEF SessionInv, TypeOK, AdmissionIsExclusive, Ops
<1>1. CASE UNCHANGED apiVars
  BY <1>1 DEF apiVars
<1>2. ASSUME NEW o \in {"generate", "begin"}, NEW n \in 1..MaxTokens, CallRequest(o, n)
      PROVE  SessionInv'
  <2>1. ~healthy' /\ ~streamActive' /\ healthy' \in BOOLEAN /\ streamActive' \in BOOLEAN
    BY <1>2 DEF CallRequest
  <2>2. op' = o /\ budget' = n /\ step' = step
    BY <1>2 DEF CallRequest
  <2> QED
    BY <2>1, <2>2
<1>3. CASE CallNext
  BY <1>3 DEF CallNext
<1>4. CASE CallFinish
  <2>1. ~healthy' /\ ~streamActive' /\ healthy' \in BOOLEAN /\ streamActive' \in BOOLEAN
    BY <1>4 DEF CallFinish
  <2>2. op' = "finish" /\ budget' = budget /\ step' = 0
    BY <1>4 DEF CallFinish
  <2> QED
    BY <2>1, <2>2
<1>5. CASE CallRecover
  BY <1>5 DEF CallRecover
<1>6. CASE ReturnOk
  <2>1. op' = "none" /\ budget' = budget
    BY <1>6 DEF ReturnOk
  <2>2. CASE ReturnNext
    BY <2>1, <2>2 DEF ReturnNext
  <2>3. CASE ReturnBegin
    <3>1. ~healthy' /\ streamActive' /\ healthy' \in BOOLEAN /\ streamActive' \in BOOLEAN
      BY <2>3 DEF ReturnBegin
    <3>2. step' = 1 /\ budget \in 1..MaxTokens
      BY <2>3 DEF ReturnBegin
    <3> QED
      BY <2>1, <3>1, <3>2
  <2>4. CASE ReturnGenerate \/ ReturnFinish
    <3>1. ~streamActive
      BY <2>4 DEF ReturnGenerate, ReturnFinish
    <3>2. healthy' = TRUE /\ streamActive' = streamActive /\ step' = step
      BY <2>4 DEF ReturnGenerate, ReturnFinish
    <3>3. ~streamActive' /\ healthy' \in BOOLEAN /\ streamActive' \in BOOLEAN
      BY <3>1, <3>2
    <3> QED
      BY <2>1, <3>2, <3>3
  <2>5. CASE ReturnRecover
    <3>1. ~streamActive' /\ healthy' \in BOOLEAN /\ streamActive' \in BOOLEAN
      BY <2>5 DEF ReturnRecover
    <3>2. step' = 0
      BY <2>5 DEF ReturnRecover
    <3> QED
      BY <2>1, <3>1, <3>2
  <2> QED
    BY <1>6, <2>2, <2>3, <2>4, <2>5 DEF ReturnOk
<1>7. CASE ReturnErr
  BY <1>7 DEF ReturnErr
<1> QED
  BY <1>1, <1>2, <1>3, <1>4, <1>5, <1>6, <1>7 DEF Next, Call

(* A session that was just created is in it.                               *)
LEMMA SessionStarts == ASSUME Init PROVE SessionInv
<1>1. ~streamActive /\ healthy \in BOOLEAN /\ streamActive \in BOOLEAN
  BY DEF Init
<1>2. op = "none" /\ budget = 0 /\ step = 0
  BY DEF Init
<1> QED
  BY <1>1, <1>2, MaxTokensAssumption DEF SessionInv, TypeOK, AdmissionIsExclusive, Ops

(* The server calls the session only as its contract allows.               *)
LEMMA ServingStepIsApiStep == ASSUME [ServingNext]_vars PROVE [Next]_apiVars
<1>1. CASE UNCHANGED vars
  BY <1>1 DEF vars
<1>2. CASE Accept
  <2>1. ASSUME NEW r \in {"json", "stream"}, NEW n \in 1..MaxTokens, Admit(r, n)
        PROVE  Next
    BY <2>1 DEF Admit, Next, Call
  <2> QED
    BY <1>2, <2>1 DEF Accept, AcceptFails, Answer, Refuse
<1>3. CASE Serve
  BY <1>3 DEF Serve, Generated, GeneratedUndecodable, NativeFails, StreamBegun, Advanced,
       OpenStream, OpenStreamFails, RoleEvent, EogStops, PieceFails, PieceIncomplete,
       PieceText, Advance, AdvanceNone, AdvanceFails, Recover, Recovered, Finish, Finished,
       Respond500, ClientGone, ErrorEvent, FinishEvent, DoneEvent, Next, Call
<1> QED
  BY <1>1, <1>2, <1>3 DEF ServingNext

(* The server is a client of the session's contract, and of nothing else.  *)
THEOREM ContractIsKept == ServingSpec => Spec
<1>1. ServingInit => Init
  BY DEF ServingInit
<1>2. [ServingNext]_vars => [Next]_apiVars
  BY ServingStepIsApiStep
<1> QED
  BY <1>1, <1>2, PTL DEF ServingSpec, Spec

(* A session never admits a request while it works on one or streams one,  *)
(* and no stream is longer than its budget, whatever the caller does       *)
(* (the guards of begin_stream, stream_next and stream_finish).            *)
THEOREM AdmissionIsAlwaysExclusive == Spec => []AdmissionIsExclusive
<1>1. Init => SessionInv
  BY SessionStarts
<1>2. SessionInv /\ [Next]_apiVars => SessionInv'
  BY SessionStep
<1>3. SessionInv => AdmissionIsExclusive
  BY DEF SessionInv
<1> QED
  BY <1>1, <1>2, <1>3, PTL DEF Spec
-----------------------------------------------------------------------------
(* Every step of the server keeps each part of the invariant.              *)
LEMMA ControlStep ==
  ASSUME SessionInv, ControlInv, OutcomeInv, [ServingNext]_vars
  PROVE  ControlInv'
<1> USE DEF ControlInv, Idle, Streaming, SessionInv, TypeOK, AdmissionIsExclusive
<1> USE DEF Goes, apiVars, replyVars, tokenVars, outcomeVars,
        ReturnOk, ReturnGenerate, ReturnBegin, ReturnNext, ReturnFinish, ReturnRecover
<1>1. CASE UNCHANGED vars
  BY <1>1 DEF vars
<1>2. CASE AcceptFails
  BY <1>2 DEF AcceptFails
<1>3. ASSUME NEW s \in {200, 400, 404, 405}, Answer(s) PROVE ControlInv'
  BY <1>3 DEF Answer, Arrives
<1>4. ASSUME NEW r \in {"json", "stream"}, Refuse(r) PROVE ControlInv'
  BY <1>4 DEF Refuse, Arrives
<1>5. ASSUME NEW r \in {"json", "stream"}, NEW n \in 1..MaxTokens, Admit(r, n) PROVE ControlInv'
  BY <1>5 DEF Admit, CallRequest, Arrives
<1>6. CASE Generated
  BY <1>6 DEF Generated
<1>7. CASE GeneratedUndecodable
  BY <1>7 DEF GeneratedUndecodable
<1>8. CASE NativeFails
  BY <1>8 DEF NativeFails, ReturnErr
<1>9. ASSUME NEW t \in {"text", "eog"}, StreamBegun(t) PROVE ControlInv'
  BY <1>9 DEF StreamBegun, Tokens
<1>10. ASSUME NEW t \in {"text", "eog"}, Advanced(t) PROVE ControlInv'
  BY <1>10 DEF Advanced, Tokens
<1>11. CASE OpenStream
  BY <1>11 DEF OpenStream
<1>12. CASE OpenStreamFails
  BY <1>12 DEF OpenStreamFails
<1>13. CASE RoleEvent
  BY <1>13 DEF RoleEvent, Sends, SendFails
<1>14. CASE EogStops
  BY <1>14 DEF EogStops
<1>15. CASE PieceFails
  BY <1>15 DEF PieceFails
<1>16. CASE PieceIncomplete
  BY <1>16 DEF PieceIncomplete
<1>17. CASE PieceText
  BY <1>17 DEF PieceText, Sends, SendFails
<1>18. CASE Advance
  BY <1>18 DEF Advance, CallNext
<1>19. CASE AdvanceNone
  BY <1>19 DEF AdvanceNone, Exhausted
<1>20. CASE AdvanceFails
  BY <1>20 DEF AdvanceFails, ReturnErr
<1>21. CASE Recover
  BY <1>21 DEF Recover, CallRecover
<1>22. CASE Recovered
  <2>1. Goes("recovering", "verdict") /\ op = "recover" /\ failed /\ UNCHANGED failed
    BY <1>22 DEF Recovered, Goes, OutcomeInv
  <2>2. CASE ReturnOk /\ fatal' = FALSE
    <3>1. op' = "none" /\ healthy' = TRUE
      BY <2>1, <2>2 DEF ReturnOk, ReturnGenerate, ReturnBegin, ReturnNext, ReturnFinish,
           ReturnRecover
    <3> QED
      BY <2>1, <2>2, <3>1 DEF Goes
  <2>3. CASE ReturnErr /\ fatal' = TRUE
    <3>1. op' = "none"
      BY <2>3 DEF ReturnErr
    <3> QED
      BY <2>1, <2>3, <3>1 DEF Goes
  <2> QED
    BY <1>22, <2>2, <2>3 DEF Recovered
<1>23. CASE Finish
  BY <1>23 DEF Finish, CallFinish
<1>24. CASE Finished
  BY <1>24 DEF Finished, ReturnErr
<1>25. CASE Respond500
  BY <1>25 DEF Respond500, Concludes, HeadersSent
<1>26. CASE ClientGone
  BY <1>26 DEF ClientGone, Concludes
<1>27. CASE ErrorEvent
  BY <1>27 DEF ErrorEvent, Sends, SendFails, Concludes, HeadersSent
<1>28. CASE FinishEvent
  BY <1>28 DEF FinishEvent, Sends, SendFails, Concludes, HeadersSent
<1>29. CASE DoneEvent
  BY <1>29 DEF DoneEvent, Sends, SendFails, Concludes, HeadersSent
<1> QED
  BY <1>1, <1>2, <1>3, <1>4, <1>5, <1>6, <1>7, <1>8, <1>9, <1>10, <1>11, <1>12, <1>13,
       <1>14, <1>15, <1>16, <1>17, <1>18, <1>19, <1>20, <1>21, <1>22, <1>23, <1>24, <1>25,
       <1>26, <1>27, <1>28, <1>29 DEF ServingNext, Accept, Serve

(* The failures: what ends a request tells its client.                     *)
LEMMA OutcomeStep ==
  ASSUME SessionInv, ControlInv, OutcomeInv, StreamInv, [ServingNext]_vars
  PROVE  OutcomeInv'
<1> USE DEF OutcomeInv, FailureIsReported, HeadersSent, ControlInv, Idle, Streaming,
        StreamInv, Last
<1> USE DEF Goes, apiVars, replyVars, tokenVars, outcomeVars,
        ReturnOk, ReturnGenerate, ReturnBegin, ReturnNext, ReturnFinish, ReturnRecover
<1>1. CASE UNCHANGED vars
  BY <1>1 DEF vars
<1>2. CASE AcceptFails
  BY <1>2 DEF AcceptFails
<1>3. ASSUME NEW s \in {200, 400, 404, 405}, Answer(s) PROVE OutcomeInv'
  BY <1>3 DEF Answer, Arrives
<1>4. ASSUME NEW r \in {"json", "stream"}, Refuse(r) PROVE OutcomeInv'
  BY <1>4 DEF Refuse, Arrives
<1>5. ASSUME NEW r \in {"json", "stream"}, NEW n \in 1..MaxTokens, Admit(r, n) PROVE OutcomeInv'
  BY <1>5 DEF Admit, CallRequest, Arrives
<1>6. CASE Generated
  BY <1>6 DEF Generated
<1>7. CASE GeneratedUndecodable
  BY <1>7 DEF GeneratedUndecodable
<1>8. CASE NativeFails
  BY <1>8 DEF NativeFails, ReturnErr
<1>9. ASSUME NEW t \in {"text", "eog"}, StreamBegun(t) PROVE OutcomeInv'
  BY <1>9 DEF StreamBegun, Tokens
<1>10. ASSUME NEW t \in {"text", "eog"}, Advanced(t) PROVE OutcomeInv'
  BY <1>10 DEF Advanced, Tokens
<1>11. CASE OpenStream
  BY <1>11 DEF OpenStream
<1>12. CASE OpenStreamFails
  BY <1>12 DEF OpenStreamFails
<1>13. CASE RoleEvent
  BY <1>13 DEF RoleEvent, Sends, SendFails
<1>14. CASE EogStops
  BY <1>14 DEF EogStops
<1>15. CASE PieceFails
  BY <1>15 DEF PieceFails
<1>16. CASE PieceIncomplete
  BY <1>16 DEF PieceIncomplete
<1>17. CASE PieceText
  BY <1>17 DEF PieceText, Sends, SendFails
<1>18. CASE Advance
  BY <1>18 DEF Advance, CallNext
<1>19. CASE AdvanceNone
  BY <1>19 DEF AdvanceNone, Exhausted
<1>20. CASE AdvanceFails
  BY <1>20 DEF AdvanceFails, ReturnErr
<1>21. CASE Recover
  BY <1>21 DEF Recover, CallRecover
<1>22. CASE Recovered
  BY <1>22 DEF Recovered, ReturnErr
<1>23. CASE Finish
  BY <1>23 DEF Finish, CallFinish
<1>24. CASE Finished
  BY <1>24 DEF Finished, ReturnErr
<1>25. CASE Respond500
  BY <1>25 DEF Respond500, Concludes, HeadersSent
<1>26. CASE ClientGone
  BY <1>26 DEF ClientGone, Concludes
<1>27. CASE ErrorEvent
  BY <1>27 DEF ErrorEvent, Sends, SendFails, Concludes, HeadersSent
<1>28. CASE FinishEvent
  BY <1>28 DEF FinishEvent, Sends, SendFails, Concludes, HeadersSent
<1>29. CASE DoneEvent
  BY <1>29 DEF DoneEvent, Sends, SendFails, Concludes, HeadersSent
<1> QED
  BY <1>1, <1>2, <1>3, <1>4, <1>5, <1>6, <1>7, <1>8, <1>9, <1>10, <1>11, <1>12, <1>13,
       <1>14, <1>15, <1>16, <1>17, <1>18, <1>19, <1>20, <1>21, <1>22, <1>23, <1>24, <1>25,
       <1>26, <1>27, <1>28, <1>29 DEF ServingNext, Accept, Serve

(* The events: one more at the end, of the kind that may come next.        *)
LEMMA StreamStep ==
  ASSUME SessionInv, ControlInv, OutcomeInv, StreamInv, [ServingNext]_vars
  PROVE  StreamInv'
<1> USE DEF StreamInv, StreamIsOrdered, Plain, OutcomeInv, HeadersSent, ControlInv, Idle,
        Streaming
<1> USE DEF Goes, apiVars, replyVars, tokenVars, outcomeVars,
        ReturnOk, ReturnGenerate, ReturnBegin, ReturnNext, ReturnFinish, ReturnRecover
<1>1. CASE UNCHANGED vars
  BY <1>1 DEF vars
<1>2. CASE AcceptFails
  BY <1>2 DEF AcceptFails
<1>3. ASSUME NEW s \in {200, 400, 404, 405}, Answer(s) PROVE StreamInv'
  BY <1>3 DEF Answer, Arrives
<1>4. ASSUME NEW r \in {"json", "stream"}, Refuse(r) PROVE StreamInv'
  BY <1>4 DEF Refuse, Arrives
<1>5. ASSUME NEW r \in {"json", "stream"}, NEW n \in 1..MaxTokens, Admit(r, n) PROVE StreamInv'
  BY <1>5 DEF Admit, CallRequest, Arrives
<1>6. CASE Generated
  BY <1>6 DEF Generated
<1>7. CASE GeneratedUndecodable
  BY <1>7 DEF GeneratedUndecodable
<1>8. CASE NativeFails
  BY <1>8 DEF NativeFails, ReturnErr
<1>9. ASSUME NEW t \in {"text", "eog"}, StreamBegun(t) PROVE StreamInv'
  BY <1>9 DEF StreamBegun, Tokens
<1>10. ASSUME NEW t \in {"text", "eog"}, Advanced(t) PROVE StreamInv'
  BY <1>10 DEF Advanced, Tokens
<1>11. CASE OpenStream
  BY <1>11 DEF OpenStream
<1>12. CASE OpenStreamFails
  BY <1>12 DEF OpenStreamFails
<1>13. CASE RoleEvent
  <2>1. pc = "role" /\ sse = <<>>
    BY <1>13 DEF RoleEvent
  <2>2. CASE Sends("role") /\ pc' = "piece"
    <3>1. sse' = <<"role">>
      BY <2>1, <2>2 DEF Sends
    <3> QED
      BY <2>2, <3>1
  <2>3. CASE SendFails /\ pc' = "finish"
    BY <2>1, <2>3 DEF SendFails
  <2> QED
    BY <1>13, <2>2, <2>3 DEF RoleEvent
<1>14. CASE EogStops
  BY <1>14 DEF EogStops
<1>15. CASE PieceFails
  BY <1>15 DEF PieceFails
<1>16. CASE PieceIncomplete
  BY <1>16 DEF PieceIncomplete
<1>17. CASE PieceText
  BY <1>17 DEF PieceText, Sends, SendFails
<1>18. CASE Advance
  BY <1>18 DEF Advance, CallNext
<1>19. CASE AdvanceNone
  BY <1>19 DEF AdvanceNone, Exhausted
<1>20. CASE AdvanceFails
  BY <1>20 DEF AdvanceFails, ReturnErr
<1>21. CASE Recover
  BY <1>21 DEF Recover, CallRecover
<1>22. CASE Recovered
  BY <1>22 DEF Recovered, ReturnErr
<1>23. CASE Finish
  BY <1>23 DEF Finish, CallFinish
<1>24. CASE Finished
  BY <1>24 DEF Finished, ReturnErr
<1>25. CASE Respond500
  BY <1>25 DEF Respond500, Concludes, HeadersSent
<1>26. CASE ClientGone
  BY <1>26 DEF ClientGone, Concludes
<1>27. CASE ErrorEvent
  BY <1>27 DEF ErrorEvent, Sends, SendFails, Concludes, HeadersSent
<1>28. CASE FinishEvent
  BY <1>28 DEF FinishEvent, Sends, SendFails, Concludes, HeadersSent
<1>29. CASE DoneEvent
  <2>1. CASE Sends("[DONE]")
    BY <1>29, <2>1 DEF DoneEvent, Sends, Concludes, HeadersSent
  <2>2. CASE SendFails
    BY <1>29, <2>2 DEF DoneEvent, SendFails, Concludes, HeadersSent
  <2> QED BY <1>29, <2>1, <2>2 DEF DoneEvent
<1> QED
  BY <1>1, <1>2, <1>3, <1>4, <1>5, <1>6, <1>7, <1>8, <1>9, <1>10, <1>11, <1>12, <1>13,
       <1>14, <1>15, <1>16, <1>17, <1>18, <1>19, <1>20, <1>21, <1>22, <1>23, <1>24, <1>25,
       <1>26, <1>27, <1>28, <1>29 DEF ServingNext, Accept, Serve

(* The tokens: none is produced, sent or left to wait unaccounted for.     *)
LEMMA TokenStep ==
  ASSUME SessionInv, ControlInv, OutcomeInv, StreamInv, TokenInv, [ServingNext]_vars
  PROVE  TokenInv'
<1> USE DEF TokenInv, NoPartialSuccess, OutcomeInv, StreamInv, Plain, HeadersSent,
        SessionInv, TypeOK, AdmissionIsExclusive, ControlInv, Idle, Streaming
<1> USE DEF Goes, apiVars, replyVars, tokenVars, outcomeVars,
        ReturnOk, ReturnGenerate, ReturnBegin, ReturnNext, ReturnFinish, ReturnRecover
<1>1. CASE UNCHANGED vars
  BY <1>1 DEF vars
<1>2. CASE AcceptFails
  BY <1>2 DEF AcceptFails
<1>3. ASSUME NEW s \in {200, 400, 404, 405}, Answer(s) PROVE TokenInv'
  BY <1>3 DEF Answer, Arrives
<1>4. ASSUME NEW r \in {"json", "stream"}, Refuse(r) PROVE TokenInv'
  BY <1>4 DEF Refuse, Arrives
<1>5. ASSUME NEW r \in {"json", "stream"}, NEW n \in 1..MaxTokens, Admit(r, n) PROVE TokenInv'
  BY <1>5 DEF Admit, CallRequest, Arrives
<1>6. CASE Generated
  BY <1>6 DEF Generated
<1>7. CASE GeneratedUndecodable
  BY <1>7 DEF GeneratedUndecodable
<1>8. CASE NativeFails
  BY <1>8 DEF NativeFails, ReturnErr
<1>9. ASSUME NEW t \in {"text", "eog"}, StreamBegun(t) PROVE TokenInv'
  BY <1>9 DEF StreamBegun, Tokens
<1>10. ASSUME NEW t \in {"text", "eog"}, Advanced(t) PROVE TokenInv'
  BY <1>10 DEF Advanced, Tokens
<1>11. CASE OpenStream
  BY <1>11 DEF OpenStream
<1>12. CASE OpenStreamFails
  BY <1>12 DEF OpenStreamFails
<1>13. CASE RoleEvent
  BY <1>13 DEF RoleEvent, Sends, SendFails
<1>14. CASE EogStops
  BY <1>14 DEF EogStops
<1>15. CASE PieceFails
  BY <1>15 DEF PieceFails
<1>16. CASE PieceIncomplete
  BY <1>16 DEF PieceIncomplete
<1>17. CASE PieceText
  <2>1. /\ pc = "piece" /\ pending' = 0
        /\ UNCHANGED <<op, healthy, streamActive, budget, step, produced, stopped, failed, fatal>>
    BY <1>17 DEF PieceText, apiVars, outcomeVars
  <2>2. \A i \in DOMAIN sse : sse[i] # "finish"
    BY <2>1
  <2>3. route' = "stream" /\ \A i \in DOMAIN sse' : sse'[i] # "finish"
    <3>1. CASE Sends("delta")
      <4>1. sse' = Append(sse, "delta") /\ route' = route
        BY <3>1 DEF Sends
      <4> QED BY <2>1, <2>2, <4>1
    <3>2. CASE UNCHANGED replyVars \/ SendFails
      <4>1. sse' = sse /\ route' = route
        BY <3>2 DEF replyVars, SendFails
      <4> QED BY <2>1, <2>2, <4>1
    <3> QED BY <1>17, <3>1, <3>2 DEF PieceText
  <2>4. CASE pc' = "advance" /\ rendered' = rendered + pending + 1
    BY <2>1, <2>3, <2>4
  <2>5. CASE SendFails /\ UNCHANGED rendered /\ pc' = "finish"
    BY <2>1, <2>3, <2>5 DEF SendFails
  <2> QED
    BY <1>17, <2>4, <2>5 DEF PieceText
<1>18. CASE Advance
  BY <1>18 DEF Advance, CallNext
<1>19. CASE AdvanceNone
  BY <1>19 DEF AdvanceNone, Exhausted
<1>20. CASE AdvanceFails
  BY <1>20 DEF AdvanceFails, ReturnErr
<1>21. CASE Recover
  BY <1>21 DEF Recover, CallRecover
<1>22. CASE Recovered
  BY <1>22 DEF Recovered, ReturnErr
<1>23. CASE Finish
  BY <1>23 DEF Finish, CallFinish
<1>24. CASE Finished
  BY <1>24 DEF Finished, ReturnErr
<1>25. CASE Respond500
  BY <1>25 DEF Respond500, Concludes, HeadersSent
<1>26. CASE ClientGone
  BY <1>26 DEF ClientGone, Concludes
<1>27. CASE ErrorEvent
  BY <1>27 DEF ErrorEvent, Sends, SendFails, Concludes, HeadersSent
<1>28. CASE FinishEvent
  BY <1>28 DEF FinishEvent, Sends, SendFails, Concludes, HeadersSent
<1>29. CASE DoneEvent
  BY <1>29 DEF DoneEvent, Sends, SendFails, Concludes, HeadersSent
<1> QED
  BY <1>1, <1>2, <1>3, <1>4, <1>5, <1>6, <1>7, <1>8, <1>9, <1>10, <1>11, <1>12, <1>13,
       <1>14, <1>15, <1>16, <1>17, <1>18, <1>19, <1>20, <1>21, <1>22, <1>23, <1>24, <1>25,
       <1>26, <1>27, <1>28, <1>29 DEF ServingNext, Accept, Serve

-----------------------------------------------------------------------------
(* run() starts with a new session and no request.                         *)
LEMMA ServingStarts == ASSUME ServingInit PROVE IInv
<1> USE DEF ServingInit
<1>1. SessionInv
  BY SessionStarts
<1>2. op = "none" /\ healthy = TRUE
  BY DEF Init
<1>3. ControlInv
  BY <1>2 DEF ControlInv, Idle, Streaming
<1>4. OutcomeInv
  BY DEF OutcomeInv, FailureIsReported
<1>5. StreamInv
  BY DEF StreamInv, StreamIsOrdered
<1>6. TokenInv
  BY DEF TokenInv, NoPartialSuccess
<1> QED
  BY <1>1, <1>3, <1>4, <1>5, <1>6 DEF IInv

(* Every step of the server keeps the invariant.                           *)
LEMMA ServingStays == ASSUME IInv, [ServingNext]_vars PROVE IInv'
<1>1. SessionInv'
  BY ServingStepIsApiStep, SessionStep DEF IInv
<1> QED
  BY <1>1, ControlStep, OutcomeStep, StreamStep, TokenStep DEF IInv

(* The invariant holds as long as the server runs, from which the theorems *)
(* below follow.                                                           *)
THEOREM ServingIsInvariant == ServingSpec => []IInv
<1>1. ServingInit => IInv
  BY ServingStarts
<1>2. IInv /\ [ServingNext]_vars => IInv'
  BY ServingStays
<1> QED
  BY <1>1, <1>2, PTL DEF ServingSpec

(* run() waits for a request only with a session that admits one, whatever *)
(* became of the request before (the recovery and finish of every path).   *)
THEOREM ReadyWheneverAccepting == ServingSpec => []ReadyWhenAccepting
<1>1. IInv => ReadyWhenAccepting
  BY DEF IInv, ControlInv, Idle, ReadyWhenAccepting
<1> QED
  BY <1>1, ServingIsInvariant, PTL

(* A finish event means that the whole answer was generated and sent, for  *)
(* every budget and every limit of token_piece.                            *)
THEOREM SuccessIsComplete == ServingSpec => []NoPartialSuccess
<1>1. IInv => NoPartialSuccess
  BY DEF IInv, TokenInv
<1> QED
  BY <1>1, ServingIsInvariant, PTL

(* The events of a stream come in order and end once.                      *)
THEOREM StreamIsAlwaysOrdered == ServingSpec => []StreamIsOrdered
<1>1. IInv => StreamIsOrdered
  BY DEF IInv, StreamInv
<1> QED
  BY <1>1, ServingIsInvariant, PTL

(* A failure is reported to the client before the next request.            *)
THEOREM FailureIsAlwaysReported == ServingSpec => []FailureIsReported
<1>1. IInv => FailureIsReported
  BY DEF IInv, OutcomeInv
<1> QED
  BY <1>1, ServingIsInvariant, PTL
=============================================================================
