---------------------------- MODULE AnswerMappings ----------------------------
(***************************************************************************)
(* An answer on its way back: what an upstream sent to a normalized        *)
(* message, and that to the body of the wire the client asked on.  Errors  *)
(* take the same way: what a provider makes of an upstream's status, and   *)
(* what each wire tells of it.                                             *)
(*                                                                         *)
(* An answer is its parts, texts before calls, and why it ended.  Usage is *)
(* StreamBridge's subject.                                                 *)
(***************************************************************************)
EXTENDS RequestMappings

Answer(parts, reason) == [parts |-> parts, reason |-> reason]
Answers200(parts, reason) == [status |-> 200, kind |-> "", parts |-> parts, reason |-> reason]

Pieces(parts) == SelectSeq(parts, LAMBDA p : p.k \in {"prose", "markup", "note"})
Marked(parts) == SelectSeq(parts, LAMBDA p : p.k = "markup")
Unmarked(parts) == SelectSeq(parts, LAMBDA p : p.k \in {"prose", "note"})

(***************************************************************************)
(* Calls written as markup into the text become calls when the upstream    *)
(* sent none of its own, and the markup goes either way the calls come.    *)
(***************************************************************************)
recoverBeside(text, calls, recovered, reason) ==   \* mutant: real calls give way to recovered ones
    LET found == Marked(text)
    IN  IF found = <<>> THEN Answer(text \o calls, reason)
        ELSE Answer(Unmarked(text) \o [i \in DOMAIN found |-> Call(<<"dsml", i - 1>>, found[i].name, found[i].args)], recovered)

recoverMessageToolCalls(text, calls, recovered, reason) ==
    LET found == Marked(text)
    IN  IF calls # <<>> \/ found = <<>> THEN Answer(text \o calls, reason)
        ELSE Answer(Unmarked(text) \o [i \in DOMAIN found |-> Call(<<"dsml", i - 1>>, found[i].name, found[i].args)], recovered)

-----------------------------------------------------------------------------
(* Upstream answers to normalized ones. *)

toToolCalls(parts) == Numbered(Calls(parts), "call")

OpenAIAnswer(a) ==
    recoverMessageToolCalls(Pieces(a.parts), toToolCalls(a.parts), "tool_calls",
                            CASE a.reason = "tool_calls" -> "tool-calls" [] a.reason = "content_filter" -> "content-filter" [] OTHER -> a.reason)

AnthropicAnswer(a) == Answer(Pieces(a.parts) \o Calls(a.parts), mapFinishReason(a.reason))

\* Ids by place in the answer, whatever the upstream called them.
OllamaAnswer(a) ==
    Answer(Pieces(a.parts) \o Numbered([i \in DOMAIN Calls(a.parts) |-> [Calls(a.parts)[i] EXCEPT !.id = NoId]], "ollama"),
           mapFinishReason(a.reason))

\* The plan answers in a stream only: the adapter's chunks are put together.
PlanEvents(a) ==
    FlattenSeq([i \in DOMAIN a.parts |->
        LET p == a.parts[i]
        IN  IF p.k = "call"
            THEN << [t |-> "item_added", kind |-> "call", item |-> <<"item", i>>, call |-> p.id, name |-> p.name],
                    [t |-> "args_delta", item |-> <<"item", i>>, args |-> p.args],
                    [t |-> "item_done", kind |-> "call", item |-> <<"item", i>>, call |-> p.id, args |-> p.args] >>
            ELSE << [t |-> "text_delta", text |-> p] >>])
    \o <<[t |-> "completed", usage |-> NoUsage]>>

aggregateStream(chunks) ==
    LET all == AggregateAll(Nothing, chunks)
    IN  Answer(all.text \o [i \in DOMAIN all.calls |-> Call(all.calls[i].key, all.calls[i].val.name, all.calls[i].val.args)], all.reason)

PlanAnswer(a) ==
    LET read == FoldLeft(LAMBDA r, e : LET d == PlanAdapt(r.to, e) IN [to |-> d.to, out |-> r.out \o d.out],
                         [to |-> Adapter, out |-> <<>>], PlanEvents(a))
    IN  aggregateStream(read.out \o PlanFlush(read.to).out)

chatResponses(a) ==
    LET calls == Numbered(Calls(a.parts), "call")
    IN  recoverMessageToolCalls(Pieces(a.parts), calls, "tool-calls",
            IF calls # <<>> THEN "tool-calls" ELSE IF a.reason = "incomplete" THEN "length" ELSE "stop")

chatGemini(a) ==
    LET calls == Numbered(Calls(a.parts), "call")
    IN  recoverMessageToolCalls(Pieces(a.parts), calls, "tool-calls",
            IF calls # <<>> THEN "tool-calls" ELSE IF a.reason = "MAX_TOKENS" THEN "length" ELSE "stop")

Normalized(upstream, a) == CASE upstream = "openai" -> OpenAIAnswer(a)
                          [] upstream = "anthropic" -> AnthropicAnswer(a)
                          [] upstream = "ollama" -> OllamaAnswer(a)
                          [] upstream = "plan" -> PlanAnswer(a)
                          [] upstream = "zen" -> chatResponses(a)
                          [] upstream = "gemini" -> chatGemini(a)

-----------------------------------------------------------------------------
(* Normalized answers to the wires. *)

toChatCompletion(r) == Answers200(serializeText(Pieces(r.parts)) \o Calls(r.parts), mapFinishReasonOpenAI(r.reason))

toAnthropicCompletion(r) == Answers200(serializeText(Pieces(r.parts)) \o Calls(r.parts), toAnthropicStopReason(r.reason))

toGeminiFinishReason(reason) == CASE reason = "tool-calls" -> "TOOL_CALLS" [] reason = "length" -> "MAX_TOKENS"
                                  [] reason = "content-filter" -> "SAFETY" [] OTHER -> "STOP"
toGeminiCompletion(r) == Answers200(serializeText(Pieces(r.parts)) \o Calls(r.parts), toGeminiFinishReason(r.reason))

\* Whatever the reason, the response is completed.
toResponsesCompletion(r) == Answers200(serializeText(Pieces(r.parts)) \o Calls(r.parts), "completed")

Told(wire, r) == CASE wire = "chat-completions" -> toChatCompletion(r)
                   [] wire = "messages" -> toAnthropicCompletion(r)
                   [] wire = "gemini" -> toGeminiCompletion(r)
                   [] wire = "responses" -> toResponsesCompletion(r)

-----------------------------------------------------------------------------
(* Errors. status 0: the error carries none. *)

Err(code, status) == [code |-> code, status |-> status]
Thrown == Err("not ours", 0)                       \* an error of another class

mapHTTPError(status, transient) ==
    CASE status \in {401, 403} -> Err("invalid-api-key", status)
      [] status = 429 -> Err("rate-limited", status)
      [] status = 404 -> Err("model-not-found", status)
      [] status = 400 -> Err(IF transient THEN "provider-error" ELSE "bad-request", status)
      [] OTHER -> Err(IF status >= 500 THEN "provider-error" ELSE "bad-request", status)

AnthropicError(status) == mapHTTPError(status, FALSE)
OllamaError(status) == Err("provider-error", 0)

Rejected(upstream, status, transient) ==
    CASE upstream = "anthropic" -> AnthropicError(status)
      [] upstream = "ollama" -> OllamaError(status)
      [] OTHER -> mapHTTPError(status, transient)

Refused(status, kind) == [status |-> status, kind |-> kind, parts |-> <<>>, reason |-> ""]

mapErrorStatus(e) ==
    IF e.status # 0 THEN e.status
    ELSE CASE e.code \in {"missing-api-key", "invalid-api-key"} -> 401
           [] e.code = "rate-limited" -> 429
           [] e.code \in {"model-not-found", "provider-not-found"} -> 404
           [] e.code \in {"provider-error", "network-error"} -> 502
           [] OTHER -> 400

toOpenAIError(e) ==
    IF e = Thrown THEN Refused(500, "server_error")
    ELSE Refused(mapErrorStatus(e),
                 CASE e.code \in {"missing-api-key", "invalid-api-key"} -> "authentication_error"
                   [] e.code = "rate-limited" -> "rate_limit_error"
                   [] e.code \in {"model-not-found", "provider-not-found", "bad-request"} -> "invalid_request_error"
                   [] OTHER -> "api_error")

toAnthropicError(e) ==
    Refused(IF e.status # 0 THEN e.status ELSE 500,
            CASE e.code = "bad-request" -> "invalid_request_error"
              [] e.code \in {"missing-api-key", "invalid-api-key"} -> "authentication_error"
              [] e.code = "rate-limited" -> "rate_limit_error"
              [] e.code = "model-not-found" -> "not_found_error"
              [] OTHER -> "api_error")

toGeminiError(e) ==
    Refused(IF e.status # 0 THEN e.status ELSE 500,
            CASE e.code = "bad-request" -> "INVALID_ARGUMENT"
              [] e.code = "missing-api-key" -> "UNAUTHENTICATED"
              [] e.code = "invalid-api-key" -> "PERMISSION_DENIED"
              [] e.code = "rate-limited" -> "RESOURCE_EXHAUSTED"
              [] e.code = "model-not-found" -> "NOT_FOUND"
              [] OTHER -> "INTERNAL")

ToldError(wire, e) == CASE wire = "messages" -> toAnthropicError(e)
                        [] wire = "gemini" -> toGeminiError(e)
                        [] OTHER -> toOpenAIError(e)
=============================================================================
