--------------------------- MODULE LocalExtractor ---------------------------
(***************************************************************************)
(* convilyn_edge/clientcompute/engine.py: HttpLocalExtractor, the request  *)
(* it sends to a local inference server and what it makes of the response. *)
(*                                                                         *)
(* An id of a model is its name and size, what stands between them, and    *)
(* whether it ends in :latest.  A response is an HTTP error (None), a      *)
(* shape without a message (NotText), or a message: its content is a       *)
(* reasoning block ("none", "closed" or "open"), then a body - an object,  *)
(* NotText for anything else, or None for nothing - and the server may     *)
(* report reasoning apart.  A body in a JSON fence is parsed as one        *)
(* without.                                                                *)
(***************************************************************************)
EXTENDS Grounding, TLC

(* resolve_local_model_tag: local-qwen3-8b is qwen3:8b.                    *)
LocalTag(id) ==
  [id EXCEPT !.prefix = FALSE, !.between = IF @ = "-" /\ ~id.latest THEN ":" ELSE @]

OllamaUrl == "localhost:11434"

ExtractorDefaults ==
  [max_tokens |-> 1024, num_ctx |-> 8192, temperature |-> 0, reasoning |-> None,
   extra_body |-> None]

(* HttpLocalExtractor.from_env *)
FromEnv(env, tag) ==
  [kind     |-> IF env.openaiUrl # None THEN "openai-compat" ELSE "ollama",
   url      |-> IF env.openaiUrl # None THEN env.openaiUrl ELSE OllamaUrl,
   model    |-> IF tag # None THEN tag ELSE env.model,
   guidance |-> {}, settings |-> ExtractorDefaults]

-----------------------------------------------------------------------------
(* _request *)

NestedKeys == {"options", "chat_template_kwargs", "response_format"}

(* _merge_extra_body: applied last, one level deep.                        *)
MergeExtra(body, extra) ==
  IF extra = None THEN body
  ELSE [k \in DOMAIN body \cup DOMAIN extra |->
          IF k \in NestedKeys \cap DOMAIN body \cap DOMAIN extra THEN extra[k] @@ body[k]
          ELSE IF k \in DOMAIN extra THEN extra[k] ELSE body[k]]

(* Of the body, the keys that decide what comes back.                      *)
RequestBody(x) ==
  LET s == x.settings
      openai ==
        ("max_tokens" :> s.max_tokens) @@ ("response_format" :> ("type" :> "json_object"))
          @@ (IF s.reasoning = FALSE
                THEN "chat_template_kwargs" :> ("enable_thinking" :> FALSE) ELSE <<>>)
      ollama ==
        ("think" :> IF s.reasoning = None THEN FALSE ELSE s.reasoning) @@ ("format" :> "json")
          @@ ("options" :> ("num_ctx" :> s.num_ctx @@ "num_predict" :> s.max_tokens))
  IN  MergeExtra(IF x.kind = "openai-compat" THEN openai ELSE ollama, s.extra_body)

(* Whether that body lets a reasoning model think (engine.py:270-277).     *)
Thinks(body) ==
  IF "think" \in DOMAIN body THEN body["think"]
  ELSE IF "chat_template_kwargs" \in DOMAIN body
         THEN "enable_thinking" \notin DOMAIN body["chat_template_kwargs"]
              \/ body["chat_template_kwargs"]["enable_thinking"]
         ELSE TRUE

-----------------------------------------------------------------------------
(* The response *)

Failed(how) == [how |-> how, anchors |-> None]

IsMessage(r) == r \notin {None, NotText}

(* _content and _strip_think: nothing is left of a response that only      *)
(* reasoned, nor of one whose block never ends.                            *)
ContentOf(r) == IF r.think = "open" THEN NotText ELSE r.body

(* Variant: one except clause for the request and the response.            *)
ExtractedTogether(r) ==
  IF IsMessage(r) /\ ContentOf(r) \notin {None, NotText}
    THEN [how |-> "output", anchors |-> ContentOf(r)] ELSE Failed("transport")

(* extract: ExtractorTransportError is the transport's, HTTP errors and    *)
(* bodies that are no JSON included; every other failure is an             *)
(* ExtractorOutputError.                                                   *)
Extracted(r) ==
  IF r = None THEN Failed("transport")
  ELSE IF ~IsMessage(r) THEN Failed("unparseable")
  ELSE IF ContentOf(r) \in {None, NotText} THEN Failed("unparseable")
  ELSE [how |-> "output", anchors |-> ContentOf(r)]

-----------------------------------------------------------------------------
(* model_available: listing is None for a failed request, NotText for an   *)
(* odd shape, or the set of the ids in it; an empty id is not one.         *)
Availability(tag, listing) ==
  LET candidates == {tag, IF tag.between = ":" THEN tag ELSE [tag EXCEPT !.latest = TRUE]}
  IN  IF listing = None THEN "unreachable"
      ELSE IF listing \in {NotText, {}} THEN "unknown"
      ELSE IF candidates \cap listing # {} THEN "available"
      ELSE "missing"
=============================================================================
