------------------------- MODULE NexusCoreProperties -------------------------
(***************************************************************************)
(* What NexusCore promises its callers and the readers of its records.     *)
(***************************************************************************)
EXTENDS NexusCore

EvidenceEntry == [agent_id : AgentIds, transformation : STRING, confidence : 0..100]

EnvelopeType ==
  [message_type : {"task", "result", "error"}, sender : AgentIds \cup {CORE}, call : Calls,
   error_code : ErrorCodes \cup {None}, output : Outputs \cup {None}, evidence : Seq(EvidenceEntry)]

ReplyType == [kind : Kinds, output : Outputs \cup {None}, evidence : Seq(EvidenceEntry)]

Places == {"idle", "approval", "handling", "conflict", "done", "escaped"}

(* One reply slot for each Agent of a pool. *)
PoolType ==
  /\ DOMAIN pool = Calls /\ DOMAIN replies = Calls
  /\ \A c \in Calls : /\ DOMAIN pool[c] \subseteq Nat
                       /\ pool[c] \in [DOMAIN pool[c] -> Agents]
                       /\ replies[c] \in [DOMAIN pool[c] -> ReplyType]

(* A verdict under review elects a member of the pool. *)
VerdictType ==
  /\ verdict \in [Calls -> Nat]
  /\ \A c \in Calls : pc[c] = "conflict" => verdict[c] \in DOMAIN pool[c]

(* Every variable has its type. *)
TypeOK ==
  /\ registry \in Seq(Agents)
  /\ handlers \in [Agents -> SUBSET Objectives]
  /\ trace \in Seq(EnvelopeType)
  /\ request \in [Calls -> Requests]
  /\ pc \in [Calls -> Places]
  /\ PoolType
  /\ VerdictType
  /\ approvals \in [Calls -> SUBSET {"risk", "conflict"}]

Envelopes(c, type) == {k \in DOMAIN trace : trace[k].call = c /\ trace[k].message_type = type}
Answers(c) == Envelopes(c, "result") \cup Envelopes(c, "error")

(* core.py:171 and :353: the task envelope of a call is recorded when the  *)
(* call is made and once; a call that ended in its own way has exactly one *)
(* correlated result or error envelope, recorded after it, and a call      *)
(* under way, or one an exception left, has none.                          *)
AnsweredOnce ==
  \A c \in Calls :
    /\ \A j, k \in Envelopes(c, "task") : j = k
    /\ \A j, k \in Answers(c) : j = k
    /\ Envelopes(c, "task") # {} <=> pc[c] # "idle"
    /\ Answers(c) # {} <=> pc[c] = "done"
    /\ \A k \in Answers(c) : \E j \in Envelopes(c, "task") : j < k

(* RFC-0006, and core.py:345 for debate(): no handler is started for a task *)
(* whose risk the policy does not allow outright, unless the approver was   *)
(* asked about this very call and said yes.  An absent approver never does. *)
GatedByPolicy ==
  \A c \in Calls :
    DOMAIN pool[c] # {} /\ HasPolicy =>
      \/ request[c].risk \in DOMAIN RiskPolicy /\ RiskPolicy[request[c].risk] = "allow"
      \/ HasApprover /\ "risk" \in approvals[c]

GivenOutputs(c) == {replies[c][i].output : i \in Answered(replies[c])}

(* conflict_policy.py:9, fails closed: with a conflict policy, candidates  *)
(* that gave different outputs never lead to a result envelope unless the  *)
(* conflict approver accepted this very verdict.                           *)
GatedByConflictPolicy ==
  \A c \in Calls :
    HasConflictPolicy /\ Envelopes(c, "result") # {} =>
      \/ \A o, p \in GivenOutputs(c) : o = p
      \/ HasConflictApprover /\ "conflict" \in approvals[c]

StrengthOf(reply) == evidence_strength(reply.evidence)

(* The result of a call is what one Agent of its pool answered, under that *)
(* Agent's id; in a disagreement no other answer was better supported.     *)
ResultIsBestAnswer ==
  \A c \in Calls : \A k \in Envelopes(c, "result") :
    \E i \in DOMAIN pool[c] :
      /\ replies[c][i].kind = "answered"
      /\ trace[k].sender = IdOf[pool[c][i]]
      /\ trace[k].output = replies[c][i].output
      /\ trace[k].evidence = replies[c][i].evidence
      /\ \/ \A o, p \in GivenOutputs(c) : o = p
         \/ \A j \in DOMAIN pool[c] :
              replies[c][j].kind = "answered" =>
                ~Less(StrengthOf(replies[c][i]), StrengthOf(replies[c][j]))

(* debate()'s limits: no more than max_candidates Agents are asked, all of *)
(* them among agent_ids, and a result rests on at least `quorum` answers.  *)
WithinLimits ==
  \A c \in Calls :
    /\ request[c].max_candidates # None => Cardinality(DOMAIN pool[c]) <= request[c].max_candidates
    /\ request[c].agent_ids # None =>
         \A i \in DOMAIN pool[c] : IdOf[pool[c][i]] \in request[c].agent_ids
    /\ Envelopes(c, "result") # {} => Cardinality(Answered(replies[c])) >= request[c].quorum

(* core.py:489: the graph, read back without the trace, tells who won what: *)
(* a task has a won edge to exactly the agents that debates of it ended     *)
(* with a result of.                                                        *)
WonIsRecorded ==
  HasGraph =>
    \A c \in Calls, id \in AgentIds :
      <<request[c].task_id, "won", id>> \in graph <=>
        \E d \in Calls : /\ request[d].operation = "debate"
                         /\ request[d].task_id = request[c].task_id
                         /\ \E k \in Envelopes(d, "result") : trace[k].sender = id

(* What won a task produced a result for it, what produced one was routed  *)
(* the task, and every Agent a finished call was dispatched to was routed  *)
(* it, whether it answered, failed or was late.                            *)
GraphIsConsistent ==
  \A c \in Calls, id \in AgentIds :
    LET t == request[c].task_id
    IN  /\ <<t, "won", id>> \in graph => <<id, "produced_result", t>> \in graph
        /\ <<id, "produced_result", t>> \in graph => <<t, "routed_to", id>> \in graph
        /\ HasGraph /\ pc[c] \in {"done", "conflict"} /\ (\E i \in DOMAIN pool[c] : IdOf[pool[c][i]] = id)
             => <<t, "routed_to", id>> \in graph

(* Every entry of the pool trust is computed from is also a supported_by   *)
(* edge of the graph: the losers of a debate are in the graph only, nobody *)
(* is in the pool only.                                                    *)
EvidenceIsSupported ==
  HasGraph =>
    \A c \in Calls : \A k \in Envelopes(c, "result") :
      \E i \in DOMAIN pool[c] :
        /\ trace[k].sender = IdOf[pool[c][i]]
        /\ \A e \in DOMAIN trace[k].evidence :
             <<request[c].task_id, "supported_by", <<c, i, e>> >> \in graph

(* Whom a call is dispatched to is settled once, in the step that starts    *)
(* the first handler, and not when the call was made, however long the      *)
(* approver took: whoever is in the pool is registered at that step and has *)
(* the handler, and an uncapped debate leaves out nobody who is, has it and *)
(* is among agent_ids.  An agent that leaves later is called all the same.  *)
DispatchIsCurrent ==
  [][\A c \in Calls : pool'[c] # pool[c] =>
       /\ DOMAIN pool[c] = {} /\ pc[c] \in {"idle", "approval"} /\ pc'[c] = "handling"
       /\ \A i \in DOMAIN pool'[c] :
            /\ \E k \in DOMAIN registry : registry[k] = pool'[c][i]
            /\ request[c].objective \in handlers[pool'[c][i]]
       /\ request[c].operation = "debate" /\ request[c].max_candidates = None =>
            \A k \in DOMAIN registry :
              /\ request[c].objective \in handlers[registry[k]]
              /\ request[c].agent_ids = None \/ IdOf[registry[k]] \in request[c].agent_ids
              => \E i \in DOMAIN pool'[c] : pool'[c][i] = registry[k]]_vars

(* RFC-0004 section 4: with a trust evaluator, a capable registered agent  *)
(* with a strictly better record is never passed over by route().          *)
RoutedToMostTrusted ==
  [][\A c \in Calls :
       HasTrust /\ request[c].operation = "route" /\ pool'[c] # pool[c] =>
         \A i \in DOMAIN pool'[c] : \A k \in DOMAIN registry \ {i} :
           request[c].objective \in handlers[registry[k]] =>
             ~Less(Score(IdOf[pool'[c][i]]), Score(IdOf[registry[k]]))]_vars

(* A call that was made ends, provided handlers and approvers come back. *)
EveryCallEnds ==
  \A c \in Calls : pc[c] # "idle" ~> pc[c] \in {"done", "escaped"}
-----------------------------------------------------------------------------
(* What the documentation says and the code does not do. *)

(* core.py:171: route() and debate() leave a result or an error envelope   *)
(* for every task they recorded.                                           *)
EveryTaskAnswered ==
  \A c \in Calls : Answers(c) = {} => pc[c] \in {"idle", "approval", "handling", "conflict"}
=============================================================================
