---------------------------- MODULE OpenAiServing ----------------------------
(***************************************************************************)
(* The HTTP server over one resident session (src/openai_serving.align).   *)
(* One thread: it accepts a request, works on it to its end and accepts    *)
(* the next.  What it calls of the session are the steps of SessionApi,    *)
(* which Qwen35Session implements.                                         *)
(*                                                                         *)
(* The client is the SSE events it has received, and that it may be gone   *)
(* at any send.  A token is end-of-generation or text; whether a text      *)
(* token completes a UTF-8 sequence, and whether it decodes at all, is     *)
(* free.  Bounds on encoded sizes are not modelled.                        *)
(***************************************************************************)
EXTENDS SessionApi, Sequences

CONSTANT PendingLimit    \* 8 in token_piece

ASSUME PendingLimitAssumption == PendingLimit \in Nat

VARIABLES
  pc,             \* where run() is
  route,          \* the kind of the admitted request: "json", "stream" or "none"
  status,         \* the HTTP status sent for it, 0 before
  sse,            \* the events the client received
  disconnected,   \* a send to the client failed
  token,          \* the token the session returned last
  produced,       \* how many it has returned for this stream
  pending,        \* pending_ids.len(): tokens of an incomplete sequence
  rendered,       \* tokens whose text was sent
  stopped,        \* an end-of-generation token ended the stream
  failed,         \* a native operation or a decoding failed
  fatal           \* the session could not be recovered

replyVars == <<route, status, sse, disconnected>>
tokenVars == <<token, produced, pending, rendered, stopped>>
outcomeVars == <<failed, fatal>>
vars == <<apiVars, pc, replyVars, tokenVars, outcomeVars>>

Goes(from, to) == pc = from /\ pc' = to

ServingInit ==
  /\ Init
  /\ pc = "accept" /\ route = "none" /\ status = 0
  /\ sse = <<>> /\ disconnected = FALSE
  /\ token = "text" /\ produced = 0 /\ pending = 0 /\ rendered = 0
  /\ stopped = FALSE /\ failed = FALSE /\ fatal = FALSE
-----------------------------------------------------------------------------
(* accept, the routes and the validation before native work.  A listener   *)
(* that fails ends run(); a request that is refused calls nothing native.  *)
Arrives(r, s) ==
  /\ route' = r /\ status' = s /\ sse' = <<>> /\ disconnected' = FALSE
  /\ produced' = 0 /\ pending' = 0 /\ rendered' = 0 /\ stopped' = FALSE
  /\ failed' = FALSE
  /\ UNCHANGED <<token, fatal>>

AcceptFails ==
  /\ Goes("accept", "exited")
  /\ UNCHANGED <<apiVars, replyVars, tokenVars, outcomeVars>>

Answer(s) ==
  /\ Goes("accept", "accept")
  /\ Arrives("none", s)
  /\ UNCHANGED apiVars

Admit(r, n) ==
  /\ Goes("accept", "native")
  /\ CallRequest(IF r = "stream" THEN "begin" ELSE "generate", n)
  /\ Arrives(r, 0)

(* The session validates the request again, before it gives up its health. *)
Refuse(r) ==
  /\ pc = "accept" /\ pc' = "verdict"
  /\ Arrives(r, 0)
  /\ UNCHANGED apiVars
-----------------------------------------------------------------------------
(* native_generate: the tokens are decoded after the session returned.     *)
Generated ==
  /\ Goes("native", "accept")
  /\ op = "generate"
  /\ ReturnOk
  /\ status' = 200
  /\ UNCHANGED <<route, sse, disconnected, tokenVars, outcomeVars>>

GeneratedUndecodable ==
  /\ Goes("native", "verdict")
  /\ op = "generate"
  /\ ReturnOk
  /\ failed' = TRUE
  /\ UNCHANGED <<replyVars, tokenVars, fatal>>

NativeFails ==
  /\ Goes("native", "recover")
  /\ ReturnErr
  /\ failed' = TRUE
  /\ UNCHANGED <<replyVars, tokenVars, fatal>>

Tokens(t) == token' = t /\ produced' = produced + 1

StreamBegun(t) ==
  /\ Goes("native", "open")
  /\ op = "begin"
  /\ ReturnOk
  /\ Tokens(t)
  /\ UNCHANGED <<replyVars, pending, rendered, stopped, outcomeVars>>

(* respond_stream: 200 and the SSE headers.                                *)
OpenStream ==
  /\ Goes("open", "role")
  /\ status' = 200
  /\ UNCHANGED <<apiVars, route, sse, disconnected, tokenVars, outcomeVars>>

OpenStreamFails ==
  /\ Goes("open", "finish")
  /\ disconnected' = TRUE
  /\ UNCHANGED <<apiVars, route, status, sse, tokenVars, outcomeVars>>
-----------------------------------------------------------------------------
(* A send reaches the client, or shows that it is gone.                    *)
Sends(event) ==
  /\ sse' = Append(sse, event)
  /\ UNCHANGED <<route, status, disconnected>>

SendFails == disconnected' = TRUE /\ UNCHANGED <<route, status, sse>>

RoleEvent ==
  /\ pc = "role"
  /\ \/ Sends("role") /\ pc' = "piece"
     \/ SendFails /\ pc' = "finish"
  /\ UNCHANGED <<apiVars, tokenVars, outcomeVars>>

EogStops ==
  /\ Goes("piece", "finish")
  /\ token = "eog"
  /\ stopped' = TRUE
  /\ UNCHANGED <<apiVars, replyVars, token, produced, pending, rendered, outcomeVars>>

(* token_piece: an incomplete sequence waits for the next token, and fails *)
(* when too many wait.  An empty text is not sent.                         *)
PieceFails ==
  /\ Goes("piece", "recover")
  /\ token = "text"
  /\ failed' = TRUE
  /\ UNCHANGED <<apiVars, replyVars, tokenVars, fatal>>

PieceIncomplete ==
  /\ Goes("piece", "advance")
  /\ token = "text" /\ pending <= PendingLimit
  /\ pending' = pending + 1
  /\ UNCHANGED <<apiVars, replyVars, token, produced, rendered, stopped, outcomeVars>>

PieceText ==
  /\ pc = "piece"
  /\ token = "text" /\ pending <= PendingLimit
  /\ pending' = 0
  /\ \/ /\ Sends("delta") \/ UNCHANGED replyVars
        /\ rendered' = rendered + pending + 1
        /\ pc' = "advance"
     \/ SendFails /\ UNCHANGED rendered /\ pc' = "finish"
  /\ UNCHANGED <<apiVars, token, produced, stopped, outcomeVars>>

Advance ==
  /\ Goes("advance", "advancing")
  /\ CallNext
  /\ UNCHANGED <<replyVars, tokenVars, outcomeVars>>

(* Mutant: the end of the budget is missed by one.                         *)
AdvanceNoneLate ==
  /\ Goes("advance", "finish")
  /\ streamActive /\ step > budget
  /\ UNCHANGED <<apiVars, replyVars, tokenVars, outcomeVars>>

AdvanceNone ==
  /\ Goes("advance", "finish")
  /\ Exhausted
  /\ UNCHANGED <<apiVars, replyVars, tokenVars, outcomeVars>>

Advanced(t) ==
  /\ Goes("advancing", "piece")
  /\ ReturnOk
  /\ Tokens(t)
  /\ UNCHANGED <<replyVars, pending, rendered, stopped, outcomeVars>>

AdvanceFails ==
  /\ Goes("advancing", "recover")
  /\ ReturnErr
  /\ failed' = TRUE
  /\ UNCHANGED <<replyVars, tokenVars, fatal>>
-----------------------------------------------------------------------------
Recover ==
  /\ Goes("recover", "recovering")
  /\ CallRecover
  /\ UNCHANGED <<replyVars, tokenVars, outcomeVars>>

Recovered ==
  /\ Goes("recovering", "verdict")
  /\ \/ ReturnOk /\ fatal' = FALSE
     \/ ReturnErr /\ fatal' = TRUE
  /\ UNCHANGED <<replyVars, tokenVars, failed>>

Finish ==
  /\ Goes("finish", "finishing")
  /\ CallFinish
  /\ UNCHANGED <<replyVars, tokenVars, outcomeVars>>

(* stream_finish(active)? returns from run() when it fails.                *)
Finished ==
  /\ pc = "finishing"
  /\ \/ ReturnOk /\ pc' = "verdict"
     \/ ReturnErr /\ pc' = "exited"
  /\ UNCHANGED <<replyVars, tokenVars, outcomeVars>>

(* Mutant: a session that could not be recovered is kept.                  *)
ConcludesAccepting == pc' = "accept"

(* After the verdict run() accepts again, or returns when it is fatal.     *)
Concludes == pc' = IF fatal THEN "exited" ELSE "accept"

HeadersSent == route = "stream" /\ status = 200

Respond500 ==
  /\ pc = "verdict" /\ ~HeadersSent /\ ~disconnected
  /\ status' = 500
  /\ Concludes
  /\ UNCHANGED <<apiVars, route, sse, disconnected, tokenVars, outcomeVars>>

ClientGone ==
  /\ pc = "verdict" /\ disconnected
  /\ Concludes
  /\ UNCHANGED <<apiVars, replyVars, tokenVars, outcomeVars>>

(* Mutant: [DONE] follows an error event.                                  *)
ErrorEventThenDone ==
  /\ pc = "verdict" /\ HeadersSent /\ ~disconnected
  /\ failed \/ pending > 0
  /\ \/ Sends("error") /\ pc' = "done"
     \/ SendFails /\ Concludes
  /\ UNCHANGED <<apiVars, tokenVars, outcomeVars>>

ErrorEvent ==
  /\ pc = "verdict" /\ HeadersSent /\ ~disconnected
  /\ failed \/ pending > 0
  /\ Sends("error") \/ SendFails
  /\ Concludes
  /\ UNCHANGED <<apiVars, tokenVars, outcomeVars>>

(* Mutants: the tokens that wait are forgotten; the failure is.            *)
FinishEventThoughPending ==
  /\ pc = "verdict" /\ HeadersSent /\ ~disconnected
  /\ ~failed
  /\ \/ Sends("finish") /\ pc' = "done"
     \/ SendFails /\ Concludes
  /\ UNCHANGED <<apiVars, tokenVars, outcomeVars>>

FinishEventThoughFailed ==
  /\ pc = "verdict" /\ HeadersSent /\ ~disconnected
  /\ pending = 0
  /\ \/ Sends("finish") /\ pc' = "done"
     \/ SendFails /\ Concludes
  /\ UNCHANGED <<apiVars, tokenVars, outcomeVars>>

FinishEvent ==
  /\ pc = "verdict" /\ HeadersSent /\ ~disconnected
  /\ ~failed /\ pending = 0
  /\ \/ Sends("finish") /\ pc' = "done"
     \/ SendFails /\ Concludes
  /\ UNCHANGED <<apiVars, tokenVars, outcomeVars>>

DoneEvent ==
  /\ pc = "done"
  /\ Sends("[DONE]") \/ SendFails
  /\ Concludes
  /\ UNCHANGED <<apiVars, tokenVars, outcomeVars>>
-----------------------------------------------------------------------------
Accept ==
  \/ AcceptFails
  \/ \E s \in {200, 400, 404, 405} : Answer(s)
  \/ \E r \in {"json", "stream"} : Refuse(r) \/ \E n \in 1..MaxTokens : Admit(r, n)

Serve ==
  \/ Generated \/ GeneratedUndecodable \/ NativeFails
  \/ \E t \in {"text", "eog"} : StreamBegun(t) \/ Advanced(t)
  \/ OpenStream \/ OpenStreamFails
  \/ RoleEvent \/ EogStops \/ PieceFails \/ PieceIncomplete \/ PieceText
  \/ Advance \/ AdvanceNone \/ AdvanceFails
  \/ Recover \/ Recovered \/ Finish \/ Finished
  \/ Respond500 \/ ClientGone \/ ErrorEvent \/ FinishEvent \/ DoneEvent

ServingNext == Accept \/ Serve

(* One thread runs; the session's calls return (Qwen35Session's            *)
(* CallsReturn) and a send succeeds or fails.  Nobody must connect.        *)
ServingSpec == ServingInit /\ [][ServingNext]_vars /\ WF_vars(Serve)
-----------------------------------------------------------------------------
(* The values the server's variables range over.                           *)
ServingTypeOK ==
  /\ TypeOK
  /\ pc \in {"accept", "native", "open", "role", "piece", "advance", "advancing", "recover",
             "recovering", "finish", "finishing", "verdict", "done", "exited"}
  /\ route \in {"none", "json", "stream"}
  /\ status \in {0, 200, 400, 404, 405, 500}
  /\ sse \in Seq({"role", "delta", "error", "finish", "[DONE]"})
  /\ token \in {"text", "eog"}
  /\ produced \in 0..MaxTokens /\ rendered \in 0..MaxTokens
  /\ pending \in 0..(PendingLimit + 1)
  /\ {disconnected, stopped, failed, fatal} \subseteq BOOLEAN

(* The server waits for a request only with a session that admits one:     *)
(* nothing in progress, healthy, whatever happened to the request before.  *)
ReadyWhenAccepting == pc = "accept" => op = "none" /\ healthy /\ ~fatal

(* A finish event reaches a client only after a stream in which nothing    *)
(* failed and whose every text token was sent: all tokens but the one that *)
(* stopped it, or as many as the request asked for.  A 200 of a request    *)
(* that does not stream is no failed generation either.                    *)
NoPartialSuccess ==
  /\ \A i \in DOMAIN sse : sse[i] = "finish" =>
       /\ ~failed /\ pending = 0
       /\ IF stopped THEN rendered = produced - 1
          ELSE rendered = produced /\ produced = budget
  /\ route = "json" /\ status = 200 => ~failed

(* What a client receives is a role event, deltas, and one ending: an      *)
(* error event and nothing more, or a finish event and [DONE].             *)
StreamIsOrdered ==
  \A i \in DOMAIN sse :
    /\ (sse[i] = "role") = (i = 1)
    /\ sse[i] \in {"error", "[DONE]"} => i = Len(sse)
    /\ sse[i] = "[DONE]" => sse[i - 1] = "finish"
    /\ sse[i] = "finish" => i = Len(sse) \/ sse[i + 1] = "[DONE]"

Last == sse[Len(sse)]

(* A native operation or a decoding that failed is reported before the     *)
(* next request or the end of run(): 500 before the headers, an error      *)
(* event after them, to every client that is still there.                  *)
FailureIsReported ==
  pc \in {"accept", "exited"} /\ failed /\ ~disconnected =>
    IF HeadersSent THEN sse # <<>> /\ Last = "error" ELSE status = 500

(* docs/specs/openai-local-serving.md:93 says that when graph cleanup      *)
(* fails the server sends an SSE error event when possible, then           *)
(* terminates (and :62, after SSE headers, an error event when transport   *)
(* permits).  A stream whose client is still there ends with an error      *)
(* event or [DONE]; but run() returns from a failing stream_finish before  *)
(* it sends either.                                                        *)
StreamEndsWithVerdict ==
  pc \in {"accept", "exited"} /\ HeadersSent /\ ~disconnected =>
    sse # <<>> /\ Last \in {"error", "[DONE]"}

(* Every request comes to an end: run() accepts again or has returned.     *)
EveryRequestEnds == pc # "accept" ~> pc \in {"accept", "exited"}
=============================================================================
