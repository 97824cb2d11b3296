------------------------------- MODULE MCA2A -------------------------------
(***************************************************************************)
(* Every adapter behind a server that two clients call at once, in order    *)
(* to compare their answers; and an agent of the embedding program behind   *)
(* a server that crashes, is called with any message, places calls of its   *)
(* own, and has a foreign agent beside it.                                 *)
(***************************************************************************)
EXTENDS A2AHttp, TLC

CONSTANTS c1, c2

MCCalls == {c1, c2}

ModelAgents == {"openai", "deepseek", "doubao", "ernie", "glm", "hunyuan", "kimi", "openrouter",
                "qwen", "anthropic", "google", "llamacpp", "vllm", "ollama"}
Tools == {"n8n", "registry", "ruflo", "skill"}

(* An agent of the embedding program that uses all a Result can say. *)
OwnAgent(asked, reply) ==
  CASE reply = "answer" -> [form |-> "result", output |-> "text", status |-> "partial",
                            confidence |-> "0.5", evidence |-> <<"e1", "e2">>]
    [] reply = "other_object" -> [form |-> "result", output |-> "text", status |-> "refused"]
    [] reply = "error_object" -> Failed("refused", asked)
    [] reply = "not_object" -> [form |-> "other_value"]
    [] OTHER -> [form |-> "exception"]

MCHandler(name, k, asked, reply) ==
  CASE name = "openai" -> make_openai_agent(k, asked, reply)
    [] name = "deepseek" -> make_deepseek_agent(k, asked, reply)
    [] name = "doubao" -> make_doubao_agent(k, asked, reply)
    [] name = "ernie" -> make_ernie_agent(k, asked, reply)
    [] name = "glm" -> make_glm_agent(k, asked, reply)
    [] name = "hunyuan" -> make_hunyuan_agent(k, asked, reply)
    [] name = "kimi" -> make_kimi_agent(k, asked, reply)
    [] name = "openrouter" -> make_openrouter_agent(k, asked, reply)
    [] name = "qwen" -> make_qwen_agent(k, asked, reply)
    [] name = "anthropic" -> make_anthropic_agent(k, asked, reply)
    [] name = "google" -> make_google_agent(k, asked, reply)
    [] name = "llamacpp" -> make_llamacpp_agent(k, asked, reply)
    [] name = "vllm" -> make_vllm_agent(k, asked, reply)
    [] name = "ollama" -> make_ollama_agent(k, asked, reply)
    [] name = "n8n" -> make_n8n_agent(k, asked, reply)
    [] name = "registry" -> make_registry_agent(k, asked, reply)
    [] name = "ruflo" -> make_ruflo_agent(k, asked, reply)
    [] name = "skill" -> make_skill_agent(k, asked, reply)
    [] name = "own" -> OwnAgent(asked, reply)

Identity(name) == [agent_id |-> "agent:1", name |-> name, role |-> None,
                   capabilities |-> {"chat"}, scope |-> "network", model |-> None]
Names == [nexus |-> None, foreign |-> "other", none |-> "local"]
Urls == [nexus |-> "nexus", foreign |-> "foreign", none |-> None]

Asked(objective, input) ==
  task_to_a2a_message([id |-> "t1", objective |-> objective, input |-> input,
                       constraints |-> "given", risk |-> "high", deadline |-> None,
                       context |-> None])

(* Messages of peers that are no Nexus. *)
NoObjective == [taskId |-> None, parts |-> <<>>, metadata |-> [other |-> "x"]]
NoRisk == [taskId |-> "t2", parts |-> <<>>, metadata |-> [objective |-> "chat", risk |-> "some"]]
NoTaskId == [taskId |-> None, parts |-> <<Text, Data({"prompt"}), Data({"more"})>>,
             metadata |-> [objective |-> "chat", context |-> "given"]]

Messages == {Asked("chat", {"prompt"}), Asked("other", {}), Asked("", {}),
             NoObjective, NoRisk, NoTaskId}

Both(x) == [c \in Calls |-> x]

Compared ==
  {[agent |-> a, key |-> k, identity |-> Both(Identity(None)), url |-> Both("nexus"),
    message |-> Both(Asked("chat", input)),
    nested |-> {}, crashes |-> 0] :
     a \in ModelAgents \cup Tools, k \in BOOLEAN, input \in {{}, {"prompt"}}}

Crashed ==
  {[agent |-> "own", key |-> TRUE, identity |-> Both(Identity(None)), url |-> Both("nexus"),
    message |-> (c1 :> m @@ c2 :> Asked("chat", {"prompt"})), nested |-> {}, crashes |-> 1] :
     m \in Messages}

Apart ==
  {[agent |-> "own", key |-> TRUE,
    identity |-> (c1 :> Identity(None) @@ c2 :> Identity(Names[d])),
    url |-> (c1 :> "nexus" @@ c2 :> Urls[d]),
    message |-> (c1 :> Asked("chat", {"prompt"}) @@ c2 :> m), nested |-> n, crashes |-> 1] :
     d \in DOMAIN Urls, m \in {NoTaskId, Asked("chat", {})}, n \in {{}, {c2}}}

MCScenarios == Compared \cup Crashed \cup Apart

Message(type, object) == [message_type |-> type, payload |-> object]
MCForeignArtifacts ==
  {<<>>, <<[text |-> "hello"]>>, <<[message_type |-> "result"]>>,
   <<Message("error", [task_id |-> "t9", error_code |-> "full", message |-> "text"]),
     Message("result", [task_id |-> "t9", output |-> {"text"}])>>,
   <<Message("result", [task_id |-> "t9", status |-> "done"])>>,
   <<Message("result", [task_id |-> "t9", evidence |-> <<Malformed>>])>>,
   <<Message("result", [task_id |-> "t9"]), Message("error", [error_code |-> "full"])>>,
   <<Message("error", [task_id |-> "t9", error_code |-> "full", message |-> "text",
                       retryable |-> TRUE])>>}
=============================================================================
