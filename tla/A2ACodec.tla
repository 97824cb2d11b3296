------------------------------ MODULE A2ACodec ------------------------------
(***************************************************************************)
(* nexus.a2a and the to_payload / from_payload methods of nexus.protocol:   *)
(* tasks, results, errors and identities as the JSON objects that travel.   *)
(*                                                                         *)
(* A JSON object is a function from the keys it has; a value may be left    *)
(* out.  None is Python's None and, for constraints and context, the empty  *)
(* list or object.  An input or output is the set of its members, so that   *)
(* of two members of one name either may be the one that is kept.  An       *)
(* entry of evidence is a value; Malformed is one Evidence.from_dict        *)
(* refuses.  Raised is the outcome of a conversion that raises.             *)
(***************************************************************************)
EXTENDS Integers, Sequences, SequencesExt, FiniteSets, Functions

CONSTANTS None, Raised, Malformed

RISK_LEVELS == {"low", "medium", "high", "critical"}
RESULT_STATUSES == {"success", "partial", "refused"}
TERMINAL_STATES == {"COMPLETED", "FAILED", "CANCELED", "REJECTED"}

ASSUME NoneAssumption == None \notin RESULT_STATUSES \cup {"result", "error"}

Given(object) == Restrict(object, {key \in DOMAIN object : object[key] # None})
Get(object, key, default) == IF key \in DOMAIN object THEN object[key] ELSE default
Has(object, keys) == keys \subseteq DOMAIN object
-----------------------------------------------------------------------------
(* Results and errors as payloads of an envelope. *)

Task(task) == IF task.risk \in RISK_LEVELS \cup {None} THEN task ELSE Raised

Valid(result) ==
  result.status \in RESULT_STATUSES /\ ~Contains(result.evidence, Malformed)

NewResult(result) == IF Valid(result) THEN result ELSE Raised

(* What is a Result: its evidence is a list of Evidence. *)
AResult(o) ==
  /\ o = [task_id |-> o.task_id, status |-> o.status, output |-> o.output,
          confidence |-> o.confidence, evidence |-> o.evidence]
  /\ o.evidence \in Seq(Range(o.evidence))
  /\ Valid(o)

Failure(task_id, error_code, retryable) ==
  [task_id |-> task_id, error_code |-> error_code, retryable |-> retryable]

AnError(o) == o = Failure(o.task_id, o.error_code, o.retryable)

ResultPayload(result) ==
  Given([result EXCEPT !.evidence = IF @ = <<>> THEN None ELSE @])

PayloadResult(payload) ==
  IF ~Has(payload, {"task_id"}) THEN Raised
  ELSE NewResult([task_id |-> payload["task_id"], status |-> Get(payload, "status", "success"),
                  output |-> Get(payload, "output", {}),
                  confidence |-> Get(payload, "confidence", None),
                  evidence |-> Get(payload, "evidence", <<>>)])

PayloadError(payload) ==
  IF ~Has(payload, {"task_id", "error_code", "message"}) THEN Raised
  ELSE Failure(payload["task_id"], payload["error_code"], Get(payload, "retryable", FALSE))

ErrorPayload(error) ==
  [task_id |-> error.task_id, error_code |-> error.error_code, message |-> "text",
   retryable |-> error.retryable]
-----------------------------------------------------------------------------
(* Tasks as A2A messages.  A part is a text or an object; the first object  *)
(* is the input.                                                           *)
Data(object) == [structured |-> TRUE, data |-> object]
Text == [structured |-> FALSE, data |-> {}]

task_to_a2a_message(task) ==
  [taskId |-> task.id,
   parts |-> IF task.input = {} THEN <<>> ELSE <<Data(task.input)>>,
   metadata |-> Given([objective |-> task.objective, constraints |-> task.constraints,
                       risk |-> task.risk, deadline |-> task.deadline,
                       context |-> task.context])]

FirstInput(parts) ==
  LET data == {i \in DOMAIN parts : parts[i].structured}
  IN  IF data = {} THEN {} ELSE parts[Min(data)].data

a2a_message_to_task(message, newId) ==
  IF ~Has(message.metadata, {"objective"}) THEN Raised
  ELSE Task([id |-> IF message.taskId = None THEN newId ELSE message.taskId,
             objective |-> message.metadata["objective"],
             input |-> FirstInput(message.parts),
             constraints |-> Get(message.metadata, "constraints", None),
             risk |-> Get(message.metadata, "risk", None),
             deadline |-> Get(message.metadata, "deadline", None),
             context |-> Get(message.metadata, "context", None)])
-----------------------------------------------------------------------------
(* Results and errors as A2A tasks: an artifact of output, then one of the  *)
(* evidence extension for each entry.                                      *)
Output(object) == [extension |-> FALSE, data |-> object]
evidence_to_artifact(entry) == [extension |-> TRUE, data |-> entry]

State(status) == IF status = "refused" THEN "REJECTED" ELSE "COMPLETED"

(* Mutant: the task's metadata does not say what its state leaves open. *)
result_to_a2a_task_stateless(result) ==
  [id |-> result.task_id, state |-> State(result.status),
   artifacts |-> <<Output(result.output)>>
                 \o [i \in DOMAIN result.evidence |-> evidence_to_artifact(result.evidence[i])],
   metadata |-> Given([confidence |-> result.confidence])]

result_to_a2a_task(result) ==
  [id |-> result.task_id, state |-> State(result.status),
   artifacts |-> <<Output(result.output)>>
                 \o [i \in DOMAIN result.evidence |-> evidence_to_artifact(result.evidence[i])],
   metadata |-> Given([status |-> result.status, confidence |-> result.confidence])]

error_to_a2a_task(error) ==
  [id |-> error.task_id, state |-> "FAILED", artifacts |-> <<>>,
   metadata |-> [error_code |-> error.error_code, retryable |-> error.retryable]]

Merged(artifacts) ==
  UNION {artifacts[i].data : i \in {j \in DOMAIN artifacts : ~artifacts[j].extension}}

Evidence(artifacts) ==
  LET kept == {i \in DOMAIN artifacts : artifacts[i].extension}
      nth(n) == CHOOSE i \in kept : Cardinality({j \in kept : j <= i}) = n
  IN  [n \in 1..Cardinality(kept) |-> artifacts[nth(n)].data]

a2a_task_to_outcome(a2a_task) ==
  CASE a2a_task.state \notin TERMINAL_STATES -> Raised
    [] a2a_task.state = "FAILED" ->
         Failure(a2a_task.id, Get(a2a_task.metadata, "error_code", "unknown_error"),
                 Get(a2a_task.metadata, "retryable", FALSE))
    [] OTHER ->
         NewResult([task_id |-> a2a_task.id,
                    status |-> IF a2a_task.state = "REJECTED" THEN "refused"
                               ELSE Get(a2a_task.metadata, "status", "success"),
                    output |-> Merged(a2a_task.artifacts),
                    confidence |-> Get(a2a_task.metadata, "confidence", None),
                    evidence |-> Evidence(a2a_task.artifacts)])
-----------------------------------------------------------------------------
(* Identities as agent cards. *)

to_agent_card(identity, url) ==
  [id |-> identity.agent_id,
   provider |-> IF identity.name = None THEN identity.agent_id ELSE identity.name,
   skills |-> identity.capabilities,
   metadata |-> Given([scope |-> identity.scope, role |-> identity.role,
                       model |-> identity.model]),
   url |-> url]

agent_card_to_identity(card) ==
  [agent_id |-> card.id, name |-> card.provider, role |-> Get(card.metadata, "role", None),
   capabilities |-> card.skills, scope |-> Get(card.metadata, "scope", "project"),
   model |-> Get(card.metadata, "model", None)]
=============================================================================
