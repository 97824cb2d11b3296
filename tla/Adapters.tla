------------------------------ MODULE Adapters ------------------------------
(***************************************************************************)
(* nexus.adapters: what the handler of a model or tool adapter makes of one *)
(* call, given what the service behind it does.                            *)
(*                                                                         *)
(* A handler is given its configuration and input as two Booleans, `key`    *)
(* (an API key was found when the agent was made) and `asked` (the prompt   *)
(* or package it needs is in task.input), and the reply of the service:     *)
(*   "answer"       the JSON object its API documents                      *)
(*   "error_object" a JSON object with an error_code and a message         *)
(*   "retry_object" one that also says that it is retryable                *)
(*   "other_object" any other JSON object                                  *)
(*   "null"         JSON's null; "not_object"  any other JSON              *)
(*   "foreign"      an object that names another task                      *)
(*   "not_json", "not_utf8"   text that is not JSON, or not UTF-8          *)
(*   "http_error"   a status of 400 or above (a CLI: a nonzero exit)       *)
(*   "unreachable"  no connection (a CLI: not installed)                   *)
(*   "silent"       connected, and nothing until the timeout               *)
(*   "cut"          the connection ends before the body does               *)
(***************************************************************************)
Objects == {"answer", "error_object", "retry_object", "other_object", "foreign"}
Replies == Objects \cup {"null", "not_object", "not_json", "not_utf8", "http_error",
                         "unreachable", "silent", "cut"}

(* What a handler ends in: the forms Agent.handle tells apart. *)
Dict(output) == [form |-> "dict", output |-> output]
Failed(error_code, retryable) ==
  [form |-> "error_payload", error_code |-> error_code, retryable |-> retryable]
Raises == [form |-> "exception"]
-----------------------------------------------------------------------------
(* urlopen, read, decode, json.loads, and the three except clauses that     *)
(* turn a failure into the adapter's own error class.  A timeout or a lost *)
(* connection while the response is read is none of the three.             *)
Post(reply) ==
  CASE reply \in {"http_error", "unreachable", "not_json"} -> "error_cls"
    [] reply \in {"silent", "cut", "not_utf8"} -> "exception"
    [] OTHER -> reply

post_chat_completion(reply) == Post(reply)
call_anthropic(reply) == Post(reply)
call_google(reply) == Post(reply)
call_ollama(reply) == Post(reply)

(* The text of an object that has none where the API puts it is empty; what *)
(* is no object has no get().                                              *)
extract_message_text(response) == IF response = "answer" THEN "text" ELSE ""

(* Mutant: a failed call to the service is reported as permanent. *)
Chat_gives_up(asked, response) ==
  IF ~asked THEN Failed("missing_prompt", FALSE)
  ELSE CASE response = "error_cls" -> Failed("api_error", FALSE)
         [] response \in Objects -> Dict(extract_message_text(response))
         [] OTHER -> Raises

Chat(asked, response) ==
  IF ~asked THEN Failed("missing_prompt", FALSE)
  ELSE CASE response = "error_cls" -> Failed("api_error", TRUE)
         [] response \in Objects -> Dict(extract_message_text(response))
         [] OTHER -> Raises

Keyed(key, asked, response) ==
  IF key THEN Chat(asked, response) ELSE Failed("missing_api_key", FALSE)

make_openai_agent(key, asked, reply) == Keyed(key, asked, post_chat_completion(reply))
make_deepseek_agent(key, asked, reply) == Keyed(key, asked, post_chat_completion(reply))
make_doubao_agent(key, asked, reply) == Keyed(key, asked, post_chat_completion(reply))
make_ernie_agent(key, asked, reply) == Keyed(key, asked, post_chat_completion(reply))
make_glm_agent(key, asked, reply) == Keyed(key, asked, post_chat_completion(reply))
make_hunyuan_agent(key, asked, reply) == Keyed(key, asked, post_chat_completion(reply))
make_kimi_agent(key, asked, reply) == Keyed(key, asked, post_chat_completion(reply))
make_openrouter_agent(key, asked, reply) == Keyed(key, asked, post_chat_completion(reply))
make_qwen_agent(key, asked, reply) == Keyed(key, asked, post_chat_completion(reply))
make_anthropic_agent(key, asked, reply) == Keyed(key, asked, call_anthropic(reply))
make_google_agent(key, asked, reply) == Keyed(key, asked, call_google(reply))

(* Servers that are commonly run without a key. *)
make_llamacpp_agent(key, asked, reply) == Chat(asked, post_chat_completion(reply))
make_vllm_agent(key, asked, reply) == Chat(asked, post_chat_completion(reply))
make_ollama_agent(key, asked, reply) == Chat(asked, call_ollama(reply))
-----------------------------------------------------------------------------
(* The webhook of a workflow may answer with a Result or ErrorPayload of    *)
(* its own, which says whether it is retryable (it is not by default);      *)
(* HTTPError is a URLError, and TimeoutError is caught here.               *)
send_task(reply) ==
  CASE reply \in {"http_error", "unreachable", "silent"} -> Failed("n8n_unreachable", TRUE)
    [] reply = "not_json" -> Failed("n8n_invalid_response", FALSE)
    [] reply \in {"error_object", "retry_object"} ->
         Failed("webhook_error", reply = "retry_object")
    [] reply \in {"answer", "other_object"} -> [form |-> "result", output |-> "text"]
    [] reply = "foreign" -> [form |-> "foreign_result"]
    [] OTHER -> Raises

make_n8n_agent(key, asked, reply) == send_task(reply)

(* A package registry: every failure to fetch is None, and so is null. *)
fetch_json(reply) ==
  CASE reply \in {"http_error", "unreachable", "silent", "not_json", "null"} -> "none"
    [] reply \in {"cut", "not_utf8"} -> "exception"
    [] OTHER -> reply

make_registry_agent(key, asked, reply) ==
  IF ~asked \/ fetch_json(reply) \notin Objects \cup {"none"} THEN Raises
  ELSE Dict(IF fetch_json(reply) = "none" THEN "error" ELSE "versions")

(* A command line: whatever it prints is the output. *)
cli_runner(reply) ==
  IF reply \in {"http_error", "unreachable", "silent", "cut", "not_utf8"} THEN Raises
  ELSE Dict("text")

make_ruflo_agent(key, asked, reply) == cli_runner(reply)

(* A runner of the integrator, handing out anything it likes. *)
make_skill_agent(key, asked, reply) ==
  CASE reply \in Objects -> Dict("text")
    [] reply \in {"null", "not_object"} -> [form |-> "other_value"]
    [] OTHER -> Raises
=============================================================================
