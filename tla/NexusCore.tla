------------------------------ MODULE NexusCore ------------------------------
(***************************************************************************)
(* nexus.core.NexusCore: the router.  route() sends a task to one capable  *)
(* agent, debate() to all of them and arbitrates; both record what happens *)
(* in the trace and the knowledge graph (and in the audit log, envelope by *)
(* envelope as in the trace: see AuditLog).                                *)
(*                                                                         *)
(* The core runs user code at three places: an approver of the risk        *)
(* policy, the handlers of the agents, and an approver of the conflict     *)
(* policy.  Each may take any time, and may itself register agents or      *)
(* start further calls, so a call is a process that runs atomically from   *)
(* one such callback to the next, and calls interleave at the callbacks.   *)
(***************************************************************************)
EXTENDS Arbitration, Gates, Sequences, SequencesExt

CONSTANTS Calls,       \* invocations of route() and debate()
          Agents,      \* Agent objects
          AgentIds,    \* agent_id strings
          IdOf,        \* identity.agent_id of an Agent object
          Objectives,  \* objectives handlers are registered for
          Outputs,     \* what a result may say
          Requests,    \* what a caller may ask for
          Returns,     \* what a handler may do, see Forms
          Setups,      \* registries and handlers the program may have set up before its first call
          Joins,       \* Agents it may register while calls are under way,
          Leaves,      \*   ids it may unregister,
          LateHandlers,\*   and <<Agent, objective>> pairs it may decorate
          Recurrences, \* lessons.recurrences_for, per agent id
          LessonsMayRaise, \* lessons.recurrences_for may raise: a file may be torn, see FileStores
          HasTrust,    \* NexusCore(trust=...)
          HasGraph,    \* NexusCore(graph=...)
          CORE,        \* CORE_SENDER
          None

(* A returned value of each shape agent.py:handle tells apart, an exception  *)
(* of the handler itself of a class the core catches (TaskFailed,            *)
(* CapabilityUnavailable, or "late", the TimeoutError debate() drops) or of  *)
(* any other.                                                                *)
Forms == {"result", "dict", "error_payload", "foreign_result", "other_value",
          "task_failed", "unavailable", "late", "exception"}

Kinds == {"pending", "answered", "failed", "unavailable", "late", "escaped"}

ErrorCodes == {"policy_blocked", "capability_unavailable", "task_failed", "no_usable_candidate",
               "quorum_not_met", "conflict_not_approved"}

ASSUME CoreAssumption ==
  /\ IdOf \in [Agents -> AgentIds]
  /\ CORE \notin AgentIds
  /\ {HasTrust, HasGraph, LessonsMayRaise} \subseteq BOOLEAN
  /\ Recurrences \in [AgentIds -> Nat]
  /\ Joins \subseteq Agents /\ Leaves \subseteq AgentIds /\ LateHandlers \subseteq Agents \X Objectives
  /\ \A s \in Setups :
       /\ s.registry \in Seq(Agents)
       /\ \A i, j \in DOMAIN s.registry : IdOf[s.registry[i]] = IdOf[s.registry[j]] => i = j
       /\ s.handlers \in [Agents -> SUBSET Objectives]
  /\ \A r \in Requests :
       /\ r.operation \in {"route", "debate"}
       /\ r.objective \in Objectives
       /\ r.agent_ids = None \/ r.agent_ids \subseteq AgentIds
       /\ r.max_candidates = None \/ r.max_candidates \in Nat
       /\ r.quorum \in Nat               \* 0: no quorum, `len(candidates) < 0` never holds
       /\ r.parallel \in BOOLEAN
       /\ r.operation = "route" =>        \* route() has none of debate()'s options
            r.agent_ids = None /\ r.max_candidates = None /\ r.quorum = 0 /\ ~r.parallel
  /\ \A x \in Returns : /\ x.form \in Forms
                           /\ x.output \in Outputs \cup {None}
                           /\ x.evidence \in Seq([transformation : STRING, confidence : 0..100])

VARIABLES registry,   \* NexusCore._agents in insertion order: a sequence of Agents
          handlers,   \* Agent._handlers: the objectives of each Agent object
          trace,      \* NexusCore.trace
          graph,      \* GraphStore edges <<from, relation, to>>
          pc,         \* where each call is: idle, approval, handling, conflict, done, escaped
          request,    \* the arguments each call is made with
          pool,       \* the Agents a call dispatches to, at their positions in the registry then
          replies,    \* what handle() did for each of them
          verdict,    \* position in the pool of the arbitrated winner
          approvals   \* history: the approvers that said yes to a call

vars == <<registry, handlers, trace, graph, pc, request, pool, replies, verdict, approvals>>
records == <<trace, graph>>
-----------------------------------------------------------------------------
(* Envelopes, protocol.py.  One task envelope per call, so its message_id is *)
(* the call, and so is the correlation_id of what answers it.                *)

Envelope(type, sender, c, code, output, evidence) ==
  [message_type |-> type, sender |-> sender, call |-> c, error_code |-> code,
   output |-> output, evidence |-> evidence]

TaskEnvelope(c) == Envelope("task", CORE, c, None, None, <<>>)
ErrorEnvelope(sender, c, code) == Envelope("error", sender, c, code, None, <<>>)
ResultEnvelope(a, c, reply) == Envelope("result", IdOf[a], c, None, reply.output, reply.evidence)

(* _record, for the envelopes one step records. *)
Record(envs) == trace' = trace \o envs

(* The evidence of every result recorded so far. *)
HistoricalEvidence ==
  FoldLeft(LAMBDA evidence, env : evidence \o env.evidence, <<>>,
           SelectSeq(trace, LAMBDA env : env.message_type = "result"))

AddEdges(edges) == graph' = IF HasGraph THEN graph \cup edges ELSE graph
-----------------------------------------------------------------------------
(* agent.py: one run of a handler, as NexusCore sees it. *)

Reply(kind, output, evidence) == [kind |-> kind, output |-> output, evidence |-> evidence]
Pending == Reply("pending", None, <<>>)

(* make_evidence: entries name the agent that made them. *)
MadeBy(id, evidence) ==
  [k \in 1..Len(evidence) |-> [agent_id       |-> id,
                               transformation |-> evidence[k].transformation,
                               confidence     |-> evidence[k].confidence]]

(* Agent.handle: a Result of this task or a dict answers, an ErrorPayload  *)
(* becomes TaskFailed, and a Result of another task or any other value      *)
(* leaves handle() as a ProtocolError the core does not catch.  Nor does it *)
(* catch an exception of the handler's own, unless that is a TaskFailed or  *)
(* a CapabilityUnavailable (of a debate() it made, say).  "late" is the     *)
(* TimeoutError that future.result(timeout) raises for a handler that       *)
(* outlives the caller's timeout (see DebateDispatch) or, the classes being *)
(* one since Python 3.11, that the handler raised itself: debate() drops    *)
(* the candidate, and route(), which has no timeout, lets it through.       *)
Handle(a, objective, x) ==
  CASE objective \notin handlers[a] -> Reply("unavailable", None, <<>>)
    [] objective \in handlers[a] /\ x.form = "result" ->
         Reply("answered", x.output, MadeBy(IdOf[a], x.evidence))
    [] objective \in handlers[a] /\ x.form = "dict" -> Reply("answered", x.output, <<>>)
    [] objective \in handlers[a] /\ x.form \in {"error_payload", "task_failed"} ->
         Reply("failed", None, <<>>)
    [] objective \in handlers[a] /\ x.form = "unavailable" -> Reply("unavailable", None, <<>>)
    [] objective \in handlers[a] /\ x.form = "late" -> Reply("late", None, <<>>)
    [] OTHER -> Reply("escaped", None, <<>>)
-----------------------------------------------------------------------------
(* Registration. *)

(* Assignment to _agents[agent_id]: a known id keeps its place in the dict. *)
Register(a) ==
  /\ registry' = IF \E i \in DOMAIN registry : IdOf[registry[i]] = IdOf[a]
                 THEN [i \in DOMAIN registry |->
                         IF IdOf[registry[i]] = IdOf[a] THEN a ELSE registry[i]]
                 ELSE Append(registry, a)
  /\ UNCHANGED <<handlers, records, pc, request, pool, replies, verdict, approvals>>

(* _agents.pop(agent_id, None) *)
Unregister(id) ==
  /\ \E i \in DOMAIN registry : /\ IdOf[registry[i]] = id
                                /\ registry' = RemoveAt(registry, i)
  /\ UNCHANGED <<handlers, records, pc, request, pool, replies, verdict, approvals>>

(* The decorator Agent.task(objective). *)
AddHandler(a, objective) ==
  /\ handlers' = [handlers EXCEPT ![a] = @ \cup {objective}]
  /\ UNCHANGED <<registry, records, pc, request, pool, replies, verdict, approvals>>
-----------------------------------------------------------------------------
(* Selection, by position in the registry: filtering a list keeps the order *)
(* of what it leaves in.                                                    *)

FindByObjective(objective) == {i \in DOMAIN registry : objective \in handlers[registry[i]]}

Capable(r) ==
  {i \in FindByObjective(r.objective) : r.agent_ids = None \/ IdOf[registry[i]] \in r.agent_ids}

(* pool[:max_candidates] *)
Capped(r, positions) ==
  {i \in positions : \/ r.max_candidates = None
                     \/ Cardinality({j \in positions : j < i}) < r.max_candidates}

Score(id) == evaluate(id, HistoricalEvidence, Recurrences[id])

(* Mutant: trust is ignored. *)
Preferred_first(positions) == First(positions)

(* The candidate route() picks: the first, or the first of the best scores. *)
Preferred(positions) ==
  IF HasTrust /\ Cardinality(positions) > 1
  THEN FirstMaximal([i \in positions |-> Score(IdOf[registry[i]])], LAMBDA a, b : Less(b, a))
  ELSE First(positions)
-----------------------------------------------------------------------------
(* Ends of a call. *)

Finish(c) == pc' = [pc EXCEPT ![c] = "done"]
Escape(c) == pc' = [pc EXCEPT ![c] = "escaped"]

(* Record envs, the last of which answers call c. *)
Conclude(c, envs) == Finish(c) /\ Record(envs)

(* Mutant: the exception is raised before the error envelope is recorded. *)
Refuse_silent(c, before, code) ==
  /\ Conclude(c, before)
  /\ UNCHANGED <<graph, pool, replies, verdict>>

Refuse(c, before, code) ==
  /\ Conclude(c, Append(before, ErrorEnvelope(CORE, c, code)))
  /\ UNCHANGED <<graph, pool, replies, verdict>>
-----------------------------------------------------------------------------
(* From the risk gate to the first handler.  `before` is what the same step *)
(* has recorded already.                                                    *)

(* Mutant: no reply slots for the new pool. *)
Start_without_slots(c, positions) ==
  /\ pool' = [pool EXCEPT ![c] = [i \in positions |-> registry[i]]]
  /\ pc' = [pc EXCEPT ![c] = "handling"]
  /\ UNCHANGED <<replies, verdict>>

(* The pool is a list of Agent objects: later registrations do not touch it. *)
Start(c, positions) ==
  /\ pool' = [pool EXCEPT ![c] = [i \in positions |-> registry[i]]]
  /\ replies' = [replies EXCEPT ![c] = [i \in positions |-> Pending]]
  /\ pc' = [pc EXCEPT ![c] = "handling"]
  /\ UNCHANGED verdict

(* route(): the routed_to edge is written before the handler runs. *)
StartRoute(c, r, before) ==
  \E i \in Preferred(FindByObjective(r.objective)) :
    /\ Start(c, {i})
    /\ Record(before)
    /\ AddEdges({<<r.task_id, "routed_to", IdOf[registry[i]]>>})

(* recurrences_for raises in the ranking: nothing catches it (core.py:235). *)
RankingRaises(c, r, before) ==
  /\ HasTrust /\ LessonsMayRaise
  /\ Cardinality(FindByObjective(r.objective)) > 1
  /\ Escape(c)
  /\ Record(before)
  /\ UNCHANGED <<graph, pool, replies, verdict>>

StartDebate(c, r, before) ==
  /\ Capped(r, Capable(r)) # {}
  /\ Start(c, Capped(r, Capable(r)))
  /\ Record(before)
  /\ UNCHANGED graph

(* max_candidates = 0 leaves nobody: one by one there is nothing to do and  *)
(* no candidate answers; a ThreadPoolExecutor of no workers cannot be made. *)
DebateNobody(c, r, before) ==
  /\ Capped(r, Capable(r)) = {}
  /\ \/ /\ ~r.parallel
        /\ Refuse(c, before, "no_usable_candidate")
     \/ /\ r.parallel
        /\ Escape(c)
        /\ Record(before)
        /\ UNCHANGED <<graph, pool, replies, verdict>>

Dispatch(c, r, before) ==
  \/ /\ Capable(r) = {}
     /\ Refuse(c, before, "capability_unavailable")
  \/ /\ Capable(r) # {}
     /\ r.operation = "route"
     /\ StartRoute(c, r, before) \/ RankingRaises(c, r, before)
  \/ /\ Capable(r) # {}
     /\ r.operation = "debate"
     /\ StartDebate(c, r, before) \/ DebateNobody(c, r, before)

(* Mutant: the candidates are looked up before the approver is asked. *)
Submit_early(c) ==
  /\ pc[c] = "idle"
  /\ \/ /\ RiskGate(request[c].risk) = "allow"
        /\ Dispatch(c, request[c], <<TaskEnvelope(c)>>)
     \/ /\ RiskGate(request[c].risk) = "block"
        /\ Refuse(c, <<TaskEnvelope(c)>>, "policy_blocked")
     \/ /\ RiskGate(request[c].risk) = "ask"
        /\ pc' = [pc EXCEPT ![c] = "approval"]
        /\ pool' = [pool EXCEPT ![c] = [i \in Capable(request[c]) |-> registry[i]]]
        /\ replies' = [replies EXCEPT ![c] = [i \in Capable(request[c]) |-> Pending]]
        /\ Record(<<TaskEnvelope(c)>>)
        /\ UNCHANGED <<graph, verdict>>
  /\ UNCHANGED <<registry, handlers, request, approvals>>

(* The entry of route() and debate(). *)
Submit(c) ==
  /\ pc[c] = "idle"
  /\ \/ /\ RiskGate(request[c].risk) = "allow"
        /\ Dispatch(c, request[c], <<TaskEnvelope(c)>>)
     \/ /\ RiskGate(request[c].risk) = "block"
        /\ Refuse(c, <<TaskEnvelope(c)>>, "policy_blocked")
     \/ /\ RiskGate(request[c].risk) = "ask"
        /\ pc' = [pc EXCEPT ![c] = "approval"]
        /\ Record(<<TaskEnvelope(c)>>)
        /\ UNCHANGED <<graph, pool, replies, verdict>>
  /\ UNCHANGED <<registry, handlers, request, approvals>>

ApproveRisk(c) ==
  /\ pc[c] = "approval"
  /\ approvals' = [approvals EXCEPT ![c] = @ \cup {"risk"}]
  /\ UNCHANGED <<registry, handlers, request>>
  /\ Dispatch(c, request[c], <<>>)

(* Mutant: the denial is recorded, but the call goes on. *)
DenyRisk_dispatches(c) ==
  /\ pc[c] = "approval"
  /\ UNCHANGED <<registry, handlers, request, approvals>>
  /\ Dispatch(c, request[c], <<ErrorEnvelope(CORE, c, "policy_blocked")>>)

DenyRisk(c) ==
  /\ pc[c] = "approval"
  /\ UNCHANGED <<registry, handlers, request, approvals>>
  /\ Refuse(c, <<>>, "policy_blocked")

(* An approver of either gate that raises: nothing in the core catches it. *)
ApproverRaises(c) ==
  /\ pc[c] \in {"approval", "conflict"}
  /\ Escape(c)
  /\ UNCHANGED <<registry, handlers, records, request, pool, replies, verdict, approvals>>
-----------------------------------------------------------------------------
(* From the handlers to the answer. *)

TaskNode(c) == request[c].task_id

Supported(c, i, reply) ==
  {<<TaskNode(c), "supported_by", <<c, i, k>> >> : k \in DOMAIN reply.evidence}

(* Mutant: the evidence behind a result is not written. *)
Produced_unsupported(c, i, reply) ==
  {<<IdOf[pool[c][i]], "produced_result", TaskNode(c)>>}

Produced(c, i, reply) ==
  {<<IdOf[pool[c][i]], "produced_result", TaskNode(c)>>} \cup Supported(c, i, reply)

FinishRoute(c, i, reply) ==
  \/ /\ reply.kind = "answered"
     /\ AddEdges(Produced(c, i, reply))
     /\ Conclude(c, <<ResultEnvelope(pool[c][i], c, reply)>>)
  \/ /\ reply.kind \in {"failed", "unavailable"}
     /\ Conclude(c, <<ErrorEnvelope(IdOf[pool[c][i]], c,
                        IF reply.kind = "failed" THEN "task_failed" ELSE "capability_unavailable")>>)
     /\ UNCHANGED graph
  \/ /\ reply.kind = "escaped"
     /\ Escape(c)
     /\ UNCHANGED records

(* Positions of the candidates that answered. *)
Answered(rs) == {i \in DOMAIN rs : rs[i].kind = "answered"}

Candidates(c, rs) ==
  [i \in Answered(rs) |->
     [agent_id |-> IdOf[pool[c][i]], output |-> rs[i].output, evidence |-> rs[i].evidence]]

(* Mutant: a candidate that did not answer leaves no routed_to edge. *)
DebateEdges_answered_only(c, rs) ==
  UNION {Produced(c, i, rs[i]) : i \in Answered(rs)}

(* debate() writes the edges of the whole pool once all handlers are done. *)
DebateEdges(c, rs) ==
  {<<TaskNode(c), "routed_to", IdOf[pool[c][i]]>> : i \in DOMAIN rs} \cup
  UNION {Produced(c, i, rs[i]) : i \in Answered(rs)}

(* The won edge and the result envelope of the candidate at position w. *)
Award(c, w, rs, edges) ==
  /\ AddEdges(edges \cup {<<TaskNode(c), "won", IdOf[pool[c][w]]>>})
  /\ Conclude(c, <<ResultEnvelope(pool[c][w], c, rs[w])>>)

Arbitrate(c, rs) ==
  \E w \in Winners(Candidates(c, rs), HistoricalEvidence) :
    LET gate == ConflictGate(Agreement(Candidates(c, rs)))
    IN  /\ verdict' = [verdict EXCEPT ![c] = w]
        /\ \/ /\ gate = "allow"
              /\ Award(c, w, rs, DebateEdges(c, rs))
           \/ /\ gate = "block"
              /\ AddEdges(DebateEdges(c, rs))
              /\ Conclude(c, <<ErrorEnvelope(CORE, c, "conflict_not_approved")>>)
           \/ /\ gate = "ask"
              /\ AddEdges(DebateEdges(c, rs))
              /\ pc' = [pc EXCEPT ![c] = "conflict"]
              /\ UNCHANGED trace

(* Mutant: the quorum counts the candidates that were asked. *)
Quorate_asked(c, rs) == Cardinality(DOMAIN rs) >= request[c].quorum

Quorate(c, rs) == Cardinality(Answered(rs)) >= request[c].quorum

FinishDebate(c, rs) ==
  \/ /\ \E i \in DOMAIN rs : rs[i].kind = "escaped"
     /\ Escape(c)
     /\ UNCHANGED <<records, verdict>>
  \/ /\ \A i \in DOMAIN rs : rs[i].kind # "escaped"
     /\ \/ /\ Answered(rs) = {}
           /\ AddEdges(DebateEdges(c, rs))
           /\ Conclude(c, <<ErrorEnvelope(CORE, c, "no_usable_candidate")>>)
           /\ UNCHANGED verdict
        \/ /\ Answered(rs) # {}
           /\ ~Quorate(c, rs)
           /\ AddEdges(DebateEdges(c, rs))
           /\ Conclude(c, <<ErrorEnvelope(CORE, c, "quorum_not_met")>>)
           /\ UNCHANGED verdict
        \/ /\ Answered(rs) # {}
           /\ Quorate(c, rs)
           /\ Arbitrate(c, rs)

(* One by one, or all at once in any order of completion. *)
Running(c, i) ==
  /\ replies[c][i].kind = "pending"
  /\ request[c].parallel \/ \A j \in DOMAIN replies[c] : j < i => replies[c][j].kind # "pending"

(* Mutant: a candidate that failed is still waited for. *)
MoreToRun_until_success(c, rs) == \E i \in DOMAIN rs : rs[i].kind \in {"pending", "failed"}

(* A pool of threads is joined; a sequence stops at the first exception. *)
MoreToRun(c, rs) ==
  /\ \E i \in DOMAIN rs : rs[i].kind = "pending"
  /\ request[c].parallel \/ \A i \in DOMAIN rs : rs[i].kind # "escaped"

HandlerReturns(c, i, x) ==
  LET rs == [replies[c] EXCEPT ![i] = Handle(pool[c][i], request[c].objective, x)]
  IN  /\ pc[c] = "handling"
      /\ Running(c, i)
      /\ x.form = "late" => request[c].operation = "debate"
      /\ replies' = [replies EXCEPT ![c] = rs]
      /\ \/ /\ MoreToRun(c, rs)
            /\ UNCHANGED <<records, pc, verdict>>
         \/ /\ ~MoreToRun(c, rs)
            /\ request[c].operation = "route"
            /\ FinishRoute(c, i, rs[i])
            /\ UNCHANGED verdict
         \/ /\ ~MoreToRun(c, rs)
            /\ request[c].operation = "debate"
            /\ FinishDebate(c, rs)
      /\ UNCHANGED <<registry, handlers, request, pool, approvals>>

(* Mutant: the result is recorded, the won edge is not. *)
ApproveConflict_no_edge(c) ==
  /\ pc[c] = "conflict"
  /\ approvals' = [approvals EXCEPT ![c] = @ \cup {"conflict"}]
  /\ Conclude(c, <<ResultEnvelope(pool[c][verdict[c]], c, replies[c][verdict[c]])>>)
  /\ UNCHANGED <<registry, handlers, graph, request, pool, replies, verdict>>

ApproveConflict(c) ==
  /\ pc[c] = "conflict"
  /\ approvals' = [approvals EXCEPT ![c] = @ \cup {"conflict"}]
  /\ Award(c, verdict[c], replies[c], {})
  /\ UNCHANGED <<registry, handlers, request, pool, replies, verdict>>

(* Mutant: the denial is ignored. *)
DenyConflict_awards(c) ==
  /\ pc[c] = "conflict"
  /\ Award(c, verdict[c], replies[c], {})
  /\ UNCHANGED <<registry, handlers, request, pool, replies, verdict, approvals>>

DenyConflict(c) ==
  /\ pc[c] = "conflict"
  /\ Conclude(c, <<ErrorEnvelope(CORE, c, "conflict_not_approved")>>)
  /\ UNCHANGED <<registry, handlers, graph, request, pool, replies, verdict, approvals>>
-----------------------------------------------------------------------------
Init ==
  /\ \E s \in Setups : registry = s.registry /\ handlers = s.handlers
  /\ trace = <<>>
  /\ graph = {}
  /\ pc = [c \in Calls |-> "idle"]
  /\ request \in [Calls -> Requests]
  /\ pool = [c \in Calls |-> <<>>]
  /\ replies = [c \in Calls |-> <<>>]
  /\ verdict = [c \in Calls |-> 0]
  /\ approvals = [c \in Calls |-> {}]

Proceed(c) ==
  \/ ApproveRisk(c) \/ DenyRisk(c)
  \/ \E i \in DOMAIN replies[c], x \in Returns : HandlerReturns(c, i, x)
  \/ ApproveConflict(c) \/ DenyConflict(c)
  \/ ApproverRaises(c)

Next ==
  \/ \E a \in Joins : Register(a)
  \/ \E id \in Leaves : Unregister(id)
  \/ \E p \in LateHandlers : AddHandler(p[1], p[2])
  \/ \E c \in Calls : Submit(c)
  \/ \E c \in Calls : Proceed(c)

Spec == Init /\ [][Next]_vars

(* Every approver and every handler returns or raises, sooner or later. *)
FairSpec == Spec /\ \A c \in Calls : WF_vars(Proceed(c))
=============================================================================
