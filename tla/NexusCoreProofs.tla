--------------------------- MODULE NexusCoreProofs ---------------------------
(***************************************************************************)
(* Proofs about NexusCore, for every set of calls, agents and requests.    *)
(***************************************************************************)
EXTENDS NexusCoreProperties, SequenceTheorems, FiniteSetTheorems, TLAPS

LEMMA InitType == Init => TypeOK
BY CoreAssumption DEF Init, TypeOK, PoolType, VerdictType, Places

(* What an Agent makes of its handler is a well-formed reply. *)
LEMMA HandleType ==
  ASSUME TypeOK, NEW a \in Agents, NEW objective, NEW x \in Returns
  PROVE  /\ Handle(a, objective, x) \in ReplyType
         /\ Handle(a, objective, x).kind # "pending"
<1>1. /\ IdOf[a] \in AgentIds
      /\ x.form \in Forms
      /\ x.output \in Outputs \cup {None}
      /\ x.evidence \in Seq([transformation : STRING, confidence : 0..100])
  BY CoreAssumption
<1>2. MadeBy(IdOf[a], x.evidence) \in Seq(EvidenceEntry)
  <2>1. \A k \in 1..Len(x.evidence) : x.evidence[k] \in [transformation : STRING, confidence : 0..100]
    BY <1>1, ElementOfSeq
  <2>2. \A k \in 1..Len(x.evidence) :
           [agent_id |-> IdOf[a], transformation |-> x.evidence[k].transformation,
            confidence |-> x.evidence[k].confidence] \in EvidenceEntry
    BY <1>1, <2>1 DEF EvidenceEntry
  <2>3. Len(x.evidence) \in Nat
    BY <1>1, LenProperties
  <2>4. MadeBy(IdOf[a], x.evidence) \in [1..Len(x.evidence) -> EvidenceEntry]
    BY <2>2 DEF MadeBy
  <2> QED
    BY <2>3, <2>4
<1>3. <<>> \in Seq(EvidenceEntry)
  OBVIOUS
<1> QED
  BY <1>1, <1>2, <1>3 DEF Handle, Reply, ReplyType, Kinds, Forms

LEMMA RegisterType == ASSUME TypeOK, NEW a \in Joins, Register(a) PROVE TypeOK'
<1>1. registry' \in Seq(Agents)
  <2>1. a \in Agents
    BY CoreAssumption
  <2>2. registry \in Seq(Agents)
    BY DEF TypeOK
  <2>3. CASE \E i \in DOMAIN registry : IdOf[registry[i]] = IdOf[a]
    <3>0. DOMAIN registry = 1..Len(registry)
      BY <2>2
    <3>1. registry' = [i \in DOMAIN registry |-> IF IdOf[registry[i]] = IdOf[a] THEN a ELSE registry[i]]
      BY <2>3 DEF Register
    <3>2. registry' \in [1..Len(registry) -> Agents]
      BY <2>1, <2>2, <3>0, <3>1
    <3>3. Len(registry) \in Nat
      BY <2>2
    <3> QED
      BY <3>2, <3>3
  <2>4. CASE ~\E i \in DOMAIN registry : IdOf[registry[i]] = IdOf[a]
    BY <2>1, <2>2, <2>4 DEF Register
  <2> QED
    BY <2>3, <2>4
<1> QED
  BY <1>1 DEF Register, TypeOK, PoolType, VerdictType, records

LEMMA UnregisterType == ASSUME TypeOK, NEW id, Unregister(id) PROVE TypeOK'
<1>1. PICK i \in DOMAIN registry : registry' = RemoveAt(registry, i)
  BY DEF Unregister
<1>2. registry \in Seq(Agents) /\ i \in 1..Len(registry) /\ Len(registry) \in Nat
  BY <1>1 DEF TypeOK
<1>3. SubSeq(registry, 1, i - 1) \in Seq(Agents) /\ SubSeq(registry, i + 1, Len(registry)) \in Seq(Agents)
  BY <1>2
<1>4. registry' \in Seq(Agents)
  BY <1>1, <1>3 DEF RemoveAt
<1> QED
  BY <1>4 DEF Unregister, TypeOK, PoolType, VerdictType, records

LEMMA AddHandlerType ==
  ASSUME TypeOK, NEW p \in LateHandlers, AddHandler(p[1], p[2]) PROVE TypeOK'
<1>1. p[1] \in Agents /\ p[2] \in Objectives
  BY CoreAssumption
<1> QED
  BY <1>1 DEF AddHandler, TypeOK, PoolType, VerdictType, records

(* The part of TypeOK a call's progress can disturb. *)
ProgressTypeOK ==
  /\ trace \in Seq(EnvelopeType)
  /\ pc \in [Calls -> Places]
  /\ PoolType
  /\ VerdictType

LEMMA PoolsUnchanged ==
  ASSUME PoolType, UNCHANGED <<pool, replies>> PROVE PoolType'
BY DEF PoolType

LEMMA VerdictsUnchanged ==
  ASSUME VerdictType, UNCHANGED <<pool, verdict>>,
         \A c \in Calls : pc'[c] = "conflict" => pc[c] = "conflict"
  PROVE  VerdictType'
BY DEF VerdictType

LEMMA EnvelopeTypes ==
  ASSUME NEW c \in Calls
  PROVE  /\ TaskEnvelope(c) \in EnvelopeType
         /\ \A sender \in AgentIds \cup {CORE}, code \in ErrorCodes :
              ErrorEnvelope(sender, c, code) \in EnvelopeType
         /\ \A a \in Agents, reply \in ReplyType : ResultEnvelope(a, c, reply) \in EnvelopeType
<1>1. <<>> \in Seq(EvidenceEntry)
  OBVIOUS
<1>2. TaskEnvelope(c) \in EnvelopeType
  BY <1>1 DEF TaskEnvelope, Envelope, EnvelopeType
<1>3. ASSUME NEW sender \in AgentIds \cup {CORE}, NEW code \in ErrorCodes
      PROVE  ErrorEnvelope(sender, c, code) \in EnvelopeType
  BY <1>1, <1>3 DEF ErrorEnvelope, Envelope, EnvelopeType
<1>4. ASSUME NEW a \in Agents, NEW reply \in ReplyType
      PROVE  ResultEnvelope(a, c, reply) \in EnvelopeType
  <2>1. IdOf[a] \in AgentIds
    BY CoreAssumption
  <2> QED
    BY <1>4, <2>1 DEF ResultEnvelope, Envelope, EnvelopeType, ReplyType
<1> QED
  BY <1>2, <1>3, <1>4

LEMMA RecordType ==
  ASSUME trace \in Seq(EnvelopeType), NEW envs \in Seq(EnvelopeType), Record(envs)
  PROVE  trace' \in Seq(EnvelopeType)
BY DEF Record

LEMMA PcMoves ==
  ASSUME pc \in [Calls -> Places], NEW c \in Calls, NEW p \in Places \ {"conflict"},
         pc' = [pc EXCEPT ![c] = p]
  PROVE  /\ pc' \in [Calls -> Places]
         /\ \A d \in Calls : pc'[d] = "conflict" => pc[d] = "conflict" /\ d # c
OBVIOUS

(* Recording the last envelopes of a call. *)
LEMMA ConcludeType ==
  ASSUME ProgressTypeOK, NEW c \in Calls, NEW envs \in Seq(EnvelopeType), Conclude(c, envs),
         UNCHANGED <<pool, verdict>>, PoolType'
  PROVE  ProgressTypeOK'
<1>1. trace' \in Seq(EnvelopeType)
  BY RecordType DEF Conclude, ProgressTypeOK
<1>2. /\ pc' \in [Calls -> Places]
      /\ \A d \in Calls : pc'[d] = "conflict" => pc[d] = "conflict"
  BY PcMoves DEF Conclude, Finish, ProgressTypeOK, Places
<1> QED
  BY <1>1, <1>2, VerdictsUnchanged DEF ProgressTypeOK

LEMMA EscapeType ==
  ASSUME ProgressTypeOK, NEW c \in Calls, Escape(c), trace' \in Seq(EnvelopeType),
         UNCHANGED <<pool, verdict>>, PoolType'
  PROVE  ProgressTypeOK'
<1>1. /\ pc' \in [Calls -> Places]
      /\ \A d \in Calls : pc'[d] = "conflict" => pc[d] = "conflict"
  BY PcMoves DEF Escape, ProgressTypeOK, Places
<1> QED
  BY <1>1, VerdictsUnchanged DEF ProgressTypeOK

LEMMA RefuseType ==
  ASSUME ProgressTypeOK, NEW c \in Calls, NEW before \in Seq(EnvelopeType),
         NEW code \in ErrorCodes, Refuse(c, before, code)
  PROVE  ProgressTypeOK'
<1>1. ErrorEnvelope(CORE, c, code) \in EnvelopeType
  BY EnvelopeTypes
<1>2. Append(before, ErrorEnvelope(CORE, c, code)) \in Seq(EnvelopeType)
  BY <1>1
<1>3. PoolType'
  BY PoolsUnchanged DEF Refuse, ProgressTypeOK
<1> QED
  BY <1>2, <1>3, ConcludeType DEF Refuse

LEMMA StartType ==
  ASSUME ProgressTypeOK, registry \in Seq(Agents), NEW c \in Calls, pc[c] # "conflict",
         NEW positions \in SUBSET DOMAIN registry,
         NEW before \in Seq(EnvelopeType), Start(c, positions), Record(before)
  PROVE  ProgressTypeOK'
<1>1. trace' \in Seq(EnvelopeType)
  BY RecordType DEF ProgressTypeOK
<1>2. Pending \in ReplyType
  BY DEF Pending, Reply, ReplyType, Kinds
<1>3. /\ positions \subseteq Nat
      /\ [i \in positions |-> registry[i]] \in [positions -> Agents]
      /\ [i \in positions |-> Pending] \in [positions -> ReplyType]
  BY <1>2
<1>4. /\ DOMAIN pool' = Calls /\ DOMAIN replies' = Calls
      /\ \A d \in Calls : d # c => pool'[d] = pool[d] /\ replies'[d] = replies[d]
      /\ pool'[c] = [i \in positions |-> registry[i]]
      /\ replies'[c] = [i \in positions |-> Pending]
  BY DEF Start, ProgressTypeOK, PoolType
<1>5. PoolType'
  BY <1>3, <1>4 DEF ProgressTypeOK, PoolType
<1>6. /\ pc' \in [Calls -> Places]
      /\ \A d \in Calls : pc'[d] = "conflict" => pc[d] = "conflict" /\ d # c
  BY PcMoves DEF Start, ProgressTypeOK, Places
<1>7. VerdictType'
  BY <1>4, <1>6 DEF Start, ProgressTypeOK, VerdictType
<1> QED
  BY <1>1, <1>5, <1>6, <1>7 DEF ProgressTypeOK

LEMMA DispatchType ==
  ASSUME ProgressTypeOK, registry \in Seq(Agents), NEW c \in Calls, pc[c] # "conflict", NEW r \in Requests,
         NEW before \in Seq(EnvelopeType), Dispatch(c, r, before)
  PROVE  ProgressTypeOK'
<1>1. FindByObjective(r.objective) \subseteq DOMAIN registry
  BY DEF FindByObjective
<1>2. Capped(r, Capable(r)) \subseteq DOMAIN registry
  BY <1>1 DEF Capped, Capable
<1>3. CASE Refuse(c, before, "capability_unavailable")
  BY <1>3, RefuseType DEF ErrorCodes
<1>4. CASE StartRoute(c, r, before)
  <2>1. PICK i \in Preferred(FindByObjective(r.objective)) : Start(c, {i}) /\ Record(before)
    BY <1>4 DEF StartRoute
  <2>2. i \in FindByObjective(r.objective)
    BY <2>1 DEF Preferred, First, FirstMaximal
  <2> QED
    BY <1>1, <2>1, <2>2, StartType
<1>5. CASE StartDebate(c, r, before)
  BY <1>2, <1>5, StartType DEF StartDebate
<1>6. CASE Refuse(c, before, "no_usable_candidate")
  BY <1>6, RefuseType DEF ErrorCodes
<1>7. CASE /\ Escape(c)
           /\ Record(before)
           /\ UNCHANGED <<graph, pool, replies, verdict>>
  <2>1. trace' \in Seq(EnvelopeType)
    BY <1>7, RecordType DEF ProgressTypeOK
  <2>2. PoolType'
    BY <1>7, PoolsUnchanged DEF ProgressTypeOK
  <2> QED
    BY <1>7, <2>1, <2>2, EscapeType
<1> QED
  BY <1>3, <1>4, <1>5, <1>6, <1>7 DEF Dispatch, DebateNobody, RankingRaises

(* Actions that leave registration alone preserve TypeOK if they preserve  *)
(* the rest of it.                                                         *)
LEMMA ProgressSuffices ==
  ASSUME TypeOK, ProgressTypeOK', UNCHANGED <<registry, handlers, request>>,
         approvals' \in [Calls -> SUBSET {"risk", "conflict"}]
  PROVE  TypeOK'
BY DEF TypeOK, ProgressTypeOK

LEMMA SubmitType == ASSUME TypeOK, NEW c \in Calls, Submit(c) PROVE TypeOK'
<1> DEFINE task == <<TaskEnvelope(c)>>
<1>1. /\ ProgressTypeOK /\ registry \in Seq(Agents) /\ request[c] \in Requests
      /\ task \in Seq(EnvelopeType)
  BY EnvelopeTypes DEF TypeOK, ProgressTypeOK
<1>2. pc[c] # "conflict"
  BY DEF Submit
<1>3. ProgressTypeOK'
  <2>1. CASE Dispatch(c, request[c], task)
    BY <1>1, <1>2, <2>1, DispatchType
  <2>2. CASE Refuse(c, task, "policy_blocked")
    BY <1>1, <2>2, RefuseType DEF ErrorCodes
  <2>3. CASE /\ pc' = [pc EXCEPT ![c] = "approval"]
             /\ Record(task)
             /\ UNCHANGED <<graph, pool, replies, verdict>>
    <3>1. trace' \in Seq(EnvelopeType)
      BY <1>1, <2>3, RecordType DEF ProgressTypeOK
    <3>2. /\ pc' \in [Calls -> Places]
          /\ \A d \in Calls : pc'[d] = "conflict" => pc[d] = "conflict"
      BY <1>1, <2>3, PcMoves DEF ProgressTypeOK, Places
    <3> QED
      BY <1>1, <2>3, <3>1, <3>2, PoolsUnchanged, VerdictsUnchanged DEF ProgressTypeOK
  <2> QED
    BY <2>1, <2>2, <2>3 DEF Submit
<1> QED
  BY <1>3, ProgressSuffices DEF Submit, TypeOK

LEMMA ApproveRiskType == ASSUME TypeOK, NEW c \in Calls, ApproveRisk(c) PROVE TypeOK'
<1>1. /\ ProgressTypeOK /\ registry \in Seq(Agents) /\ request[c] \in Requests
      /\ <<>> \in Seq(EnvelopeType)
  BY DEF TypeOK, ProgressTypeOK
<1>2. ProgressTypeOK'
  BY <1>1, DispatchType DEF ApproveRisk
<1>3. approvals' \in [Calls -> SUBSET {"risk", "conflict"}]
  BY DEF ApproveRisk, TypeOK
<1> QED
  BY <1>2, <1>3, ProgressSuffices DEF ApproveRisk

LEMMA DenyRiskType == ASSUME TypeOK, NEW c \in Calls, DenyRisk(c) PROVE TypeOK'
<1>1. ProgressTypeOK /\ <<>> \in Seq(EnvelopeType)
  BY DEF TypeOK, ProgressTypeOK
<1>2. ProgressTypeOK'
  BY <1>1, RefuseType DEF DenyRisk, ErrorCodes
<1> QED
  BY <1>2, ProgressSuffices DEF DenyRisk, TypeOK

LEMMA ApproverRaisesType == ASSUME TypeOK, NEW c \in Calls, ApproverRaises(c) PROVE TypeOK'
<1>1. ProgressTypeOK /\ PoolType' /\ trace' \in Seq(EnvelopeType)
  BY PoolsUnchanged DEF ApproverRaises, records, TypeOK, ProgressTypeOK
<1>2. ProgressTypeOK'
  BY <1>1, EscapeType DEF ApproverRaises
<1> QED
  BY <1>2, ProgressSuffices DEF ApproverRaises, TypeOK

LEMMA ConflictType ==
  ASSUME TypeOK, NEW c \in Calls, ApproveConflict(c) \/ DenyConflict(c) PROVE TypeOK'
<1>1. verdict[c] \in DOMAIN pool[c] /\ replies[c] \in [DOMAIN pool[c] -> ReplyType]
  BY DEF ApproveConflict, DenyConflict, TypeOK, VerdictType, PoolType
<1>2. pool[c][verdict[c]] \in Agents /\ replies[c][verdict[c]] \in ReplyType
  BY <1>1 DEF TypeOK, PoolType
<1>3. /\ ErrorEnvelope(CORE, c, "conflict_not_approved") \in EnvelopeType
      /\ ResultEnvelope(pool[c][verdict[c]], c, replies[c][verdict[c]]) \in EnvelopeType
  BY <1>2, EnvelopeTypes DEF ErrorCodes
<1>4. PICK env \in EnvelopeType : Conclude(c, <<env>>)
  BY <1>3 DEF ApproveConflict, DenyConflict, Award
<1>5. <<env>> \in Seq(EnvelopeType) /\ ProgressTypeOK
  BY DEF TypeOK, ProgressTypeOK
<1>6. UNCHANGED <<registry, handlers, request, pool, replies, verdict>>
  BY DEF ApproveConflict, DenyConflict
<1>7. PoolType'
  BY <1>5, <1>6, PoolsUnchanged DEF ProgressTypeOK
<1>8. ProgressTypeOK'
  BY <1>4, <1>5, <1>6, <1>7, ConcludeType
<1>9. approvals' \in [Calls -> SUBSET {"risk", "conflict"}]
  BY DEF ApproveConflict, DenyConflict, TypeOK
<1> QED
  BY <1>6, <1>8, <1>9, ProgressSuffices

LEMMA ArbitrateType ==
  ASSUME ProgressTypeOK, NEW c \in Calls, NEW rs \in [DOMAIN pool[c] -> ReplyType],
         Arbitrate(c, rs), UNCHANGED pool, PoolType'
  PROVE  ProgressTypeOK'
<1>1. PICK w \in Winners(Candidates(c, rs), HistoricalEvidence) :
        /\ verdict' = [verdict EXCEPT ![c] = w]
        /\ \/ Award(c, w, rs, DebateEdges(c, rs))
           \/ Conclude(c, <<ErrorEnvelope(CORE, c, "conflict_not_approved")>>)
           \/ pc' = [pc EXCEPT ![c] = "conflict"] /\ UNCHANGED trace
  BY DEF Arbitrate
<1>2. w \in DOMAIN Candidates(c, rs)
  BY <1>1 DEF Winners, First, FirstMaximal, Descriptions
<1>3. w \in DOMAIN pool[c]
  BY <1>2 DEF Candidates, Answered
<1>4. w \in Nat /\ pool[c][w] \in Agents /\ rs[w] \in ReplyType
  BY <1>3 DEF ProgressTypeOK, PoolType
<1>5. /\ verdict' \in [Calls -> Nat]
      /\ verdict'[c] = w
      /\ \A d \in Calls : d # c => verdict'[d] = verdict[d]
  BY <1>1, <1>4 DEF ProgressTypeOK, VerdictType
<1>6. CASE pc' = [pc EXCEPT ![c] = "conflict"] /\ UNCHANGED trace
  <2>1. /\ pc' \in [Calls -> Places]
        /\ \A d \in Calls : d # c => pc'[d] = pc[d]
    BY <1>6 DEF ProgressTypeOK, Places
  <2>2. VerdictType'
    BY <1>3, <1>5, <2>1 DEF ProgressTypeOK, VerdictType
  <2> QED
    BY <1>6, <2>1, <2>2 DEF ProgressTypeOK
<1>7. ASSUME NEW env \in EnvelopeType, Conclude(c, <<env>>)
      PROVE  ProgressTypeOK'
  <2>0. <<env>> \in Seq(EnvelopeType)
    OBVIOUS
  <2>1. trace' \in Seq(EnvelopeType)
    BY <1>7, <2>0, RecordType DEF Conclude, ProgressTypeOK
  <2>2. /\ pc' \in [Calls -> Places]
        /\ \A d \in Calls : pc'[d] = "conflict" => pc[d] = "conflict" /\ d # c
    BY <1>7, PcMoves DEF Conclude, Finish, ProgressTypeOK, Places
  <2>3. VerdictType'
    BY <1>5, <2>2 DEF ProgressTypeOK, VerdictType
  <2> QED
    BY <2>1, <2>2, <2>3 DEF ProgressTypeOK
<1>8. /\ ResultEnvelope(pool[c][w], c, rs[w]) \in EnvelopeType
      /\ ErrorEnvelope(CORE, c, "conflict_not_approved") \in EnvelopeType
  BY <1>4, EnvelopeTypes DEF ErrorCodes
<1> QED
  BY <1>1, <1>6, <1>7, <1>8 DEF Award

LEMMA HandlerReturnsType ==
  ASSUME TypeOK, NEW c \in Calls, NEW i \in DOMAIN replies[c], NEW x \in Returns,
         HandlerReturns(c, i, x)
  PROVE  TypeOK'
<1> DEFINE rs == [replies[c] EXCEPT ![i] = Handle(pool[c][i], request[c].objective, x)]
<1>1. /\ ProgressTypeOK /\ i \in DOMAIN pool[c] /\ pool[c][i] \in Agents
      /\ replies[c] \in [DOMAIN pool[c] -> ReplyType]
  BY DEF TypeOK, PoolType, ProgressTypeOK
<1>2. Handle(pool[c][i], request[c].objective, x) \in ReplyType
  BY <1>1, HandleType
<1>3. rs \in [DOMAIN pool[c] -> ReplyType] /\ rs[i] \in ReplyType
  BY <1>1, <1>2
<1>4. /\ replies' = [replies EXCEPT ![c] = rs]
      /\ UNCHANGED <<registry, handlers, request, pool, approvals>>
  BY DEF HandlerReturns
<1>5. \/ UNCHANGED <<records, pc, verdict>>
      \/ FinishRoute(c, i, rs[i]) /\ UNCHANGED verdict
      \/ FinishDebate(c, rs)
  BY DEF HandlerReturns
<1> HIDE DEF rs
<1>6. PoolType'
  BY <1>1, <1>3, <1>4 DEF ProgressTypeOK, PoolType
<1>7. ASSUME NEW env \in EnvelopeType, Conclude(c, <<env>>), UNCHANGED verdict
      PROVE  ProgressTypeOK'
  <2>1. <<env>> \in Seq(EnvelopeType)
    OBVIOUS
  <2> QED
    BY <1>1, <1>4, <1>6, <1>7, <2>1, ConcludeType
<1>8. CASE UNCHANGED <<records, pc, verdict>>
  <2>1. VerdictType'
    BY <1>1, <1>4, <1>8, VerdictsUnchanged DEF ProgressTypeOK
  <2>2. ProgressTypeOK'
    BY <1>1, <1>6, <1>8, <2>1 DEF records, ProgressTypeOK
  <2> QED
    BY <1>4, <2>2, ProgressSuffices DEF TypeOK
<1>9. CASE Escape(c) /\ UNCHANGED <<records, verdict>>
  <2>1. ProgressTypeOK'
    BY <1>1, <1>4, <1>6, <1>9, EscapeType DEF records, ProgressTypeOK
  <2> QED
    BY <1>4, <2>1, ProgressSuffices DEF TypeOK
<1>10. CASE FinishRoute(c, i, rs[i]) /\ UNCHANGED verdict
  <2>1. IdOf[pool[c][i]] \in AgentIds
    BY <1>1, CoreAssumption
  <2>2. /\ ResultEnvelope(pool[c][i], c, rs[i]) \in EnvelopeType
        /\ ErrorEnvelope(IdOf[pool[c][i]], c, "task_failed") \in EnvelopeType
        /\ ErrorEnvelope(IdOf[pool[c][i]], c, "capability_unavailable") \in EnvelopeType
    BY <1>1, <1>3, <2>1, EnvelopeTypes DEF ErrorCodes
  <2>3. \/ \E env \in EnvelopeType : Conclude(c, <<env>>)
        \/ Escape(c) /\ UNCHANGED records
    BY <1>10, <2>2 DEF FinishRoute
  <2>4. CASE \E env \in EnvelopeType : Conclude(c, <<env>>)
    <3>1. ProgressTypeOK'
      BY <1>7, <1>10, <2>4
    <3> QED
      BY <1>4, <3>1, ProgressSuffices DEF TypeOK
  <2> QED
    BY <1>9, <1>10, <2>3, <2>4
<1>11. CASE FinishDebate(c, rs)
  <2>1. /\ ErrorEnvelope(CORE, c, "no_usable_candidate") \in EnvelopeType
        /\ ErrorEnvelope(CORE, c, "quorum_not_met") \in EnvelopeType
    BY EnvelopeTypes DEF ErrorCodes
  <2>2. \/ Escape(c) /\ UNCHANGED <<records, verdict>>
        \/ \E env \in EnvelopeType : Conclude(c, <<env>>) /\ UNCHANGED verdict
        \/ Arbitrate(c, rs)
    BY <1>11, <2>1 DEF FinishDebate
  <2>3. CASE Arbitrate(c, rs)
    BY <1>1, <1>3, <1>4, <1>6, <2>3, ArbitrateType, ProgressSuffices DEF TypeOK
  <2>4. CASE \E env \in EnvelopeType : Conclude(c, <<env>>) /\ UNCHANGED verdict
    <3>1. ProgressTypeOK'
      BY <1>7, <2>4
    <3> QED
      BY <1>4, <3>1, ProgressSuffices DEF TypeOK
  <2> QED
    BY <1>9, <2>2, <2>3, <2>4
<1> QED
  BY <1>5, <1>8, <1>10, <1>11

LEMMA NextType == TypeOK /\ [Next]_vars => TypeOK'
<1> SUFFICES ASSUME TypeOK, [Next]_vars PROVE TypeOK'
  OBVIOUS
<1>1. CASE UNCHANGED vars
  BY <1>1 DEF vars, TypeOK, PoolType, VerdictType
<1>2. CASE \E a \in Joins : Register(a)
  BY <1>2, RegisterType
<1>3. CASE \E id \in Leaves : Unregister(id)
  BY <1>3, UnregisterType
<1>4. CASE \E p \in LateHandlers : AddHandler(p[1], p[2])
  BY <1>4, AddHandlerType
<1>5. CASE \E c \in Calls : Submit(c)
  BY <1>5, SubmitType
<1>6. ASSUME NEW c \in Calls, Proceed(c) PROVE TypeOK'
  BY <1>6, ApproveRiskType, DenyRiskType, HandlerReturnsType, ConflictType, ApproverRaisesType
  DEF Proceed
<1> QED
  BY <1>1, <1>2, <1>3, <1>4, <1>5, <1>6 DEF Next

(* Type correctness of the router, for any calls, agents and requests. *)
THEOREM TypeCorrect == Spec => []TypeOK
BY InitType, NextType, PTL DEF Spec
-----------------------------------------------------------------------------
(***************************************************************************)
(* The risk gate.  GatedByPolicy is not inductive: that a granted approval *)
(* came from an approver at all is known only while the call waits for it. *)
(***************************************************************************)
GateInv ==
  /\ GatedByPolicy
  /\ \A c \in Calls : pc[c] = "approval" => HasApprover

LEMMA RiskGateAnswers ==
  ASSUME NEW risk
  PROVE  /\ RiskGate(risk) = "allow" /\ HasPolicy =>
              risk \in DOMAIN RiskPolicy /\ RiskPolicy[risk] = "allow"
         /\ RiskGate(risk) = "ask" => HasApprover
<1>1. RiskAction(risk) \in {"allow", "block", "require_approval"}
  BY GatesAssumption DEF RiskAction
<1>2. HasPolicy \in BOOLEAN /\ HasApprover \in BOOLEAN
  BY GatesAssumption
<1>3. RiskAction(risk) = "allow" => risk \in DOMAIN RiskPolicy /\ RiskPolicy[risk] = "allow"
  BY DEF RiskAction
<1>4. CASE ~HasPolicy
  BY <1>4 DEF RiskGate
<1>5. CASE HasPolicy /\ RiskAction(risk) = "require_approval"
  BY <1>5 DEF RiskGate
<1>6. CASE HasPolicy /\ RiskAction(risk) # "require_approval"
  BY <1>1, <1>3, <1>6 DEF RiskGate
<1> QED
  BY <1>2, <1>4, <1>5, <1>6

(* A dispatch changes no other call, and never leaves its own waiting for  *)
(* an approver.                                                            *)
LEMMA DispatchIsLocal ==
  ASSUME TypeOK, NEW c \in Calls, NEW r, NEW before, Dispatch(c, r, before)
  PROVE  /\ \A d \in Calls : d # c => pool'[d] = pool[d] /\ pc'[d] = pc[d]
         /\ pc'[c] # "approval"
<1>1. DOMAIN pc = Calls /\ DOMAIN pool = Calls
  BY DEF TypeOK, PoolType
<1>2. \/ \E positions : Start(c, positions)
      \/ Finish(c) /\ UNCHANGED pool
      \/ Escape(c) /\ UNCHANGED pool
  BY DEF Dispatch, Refuse, Conclude, StartRoute, StartDebate, DebateNobody, RankingRaises
<1>3. CASE \E positions : Start(c, positions)
  BY <1>1, <1>3 DEF Start
<1>4. CASE Finish(c) /\ UNCHANGED pool
  BY <1>1, <1>4 DEF Finish
<1>5. CASE Escape(c) /\ UNCHANGED pool
  BY <1>1, <1>5 DEF Escape
<1> QED
  BY <1>2, <1>3, <1>4, <1>5

LEMMA NextGate == TypeOK /\ GateInv /\ [Next]_vars => GateInv'
<1> SUFFICES ASSUME TypeOK, GateInv, [Next]_vars PROVE GateInv'
  OBVIOUS
<1> USE DEF GateInv, GatedByPolicy
<1>1. ASSUME UNCHANGED <<pool, request, approvals>>,
             \A c \in Calls : pc'[c] = "approval" => pc[c] = "approval"
      PROVE  GateInv'
  BY <1>1
<1>2. CASE UNCHANGED vars
  BY <1>1, <1>2 DEF vars
<1>3. CASE \/ \E a \in Joins : Register(a)
           \/ \E id \in Leaves : Unregister(id)
           \/ \E p \in LateHandlers : AddHandler(p[1], p[2])
  BY <1>1, <1>3 DEF Register, Unregister, AddHandler
<1>4. ASSUME NEW c \in Calls, Submit(c) PROVE GateInv'
  <2>1. UNCHANGED <<request, approvals>> /\ DOMAIN pc = Calls
    BY <1>4 DEF Submit, TypeOK
  <2>2. CASE RiskGate(request[c].risk) = "allow" /\ Dispatch(c, request[c], <<TaskEnvelope(c)>>)
    BY <2>1, <2>2, DispatchIsLocal, RiskGateAnswers
  <2>3. CASE Refuse(c, <<TaskEnvelope(c)>>, "policy_blocked")
    BY <1>1, <2>1, <2>3 DEF Refuse, Conclude, Finish
  <2>4. CASE /\ RiskGate(request[c].risk) = "ask"
             /\ pc' = [pc EXCEPT ![c] = "approval"]
             /\ UNCHANGED pool
    BY <2>1, <2>4, RiskGateAnswers
  <2> QED
    BY <1>4, <2>2, <2>3, <2>4 DEF Submit
<1>5. ASSUME NEW c \in Calls, ApproveRisk(c) PROVE GateInv'
  <2>1. /\ Dispatch(c, request[c], <<>>)
        /\ UNCHANGED request
        /\ approvals' = [approvals EXCEPT ![c] = @ \cup {"risk"}]
        /\ HasApprover
    BY <1>5 DEF ApproveRisk
  <2>2. /\ "risk" \in approvals'[c]
        /\ \A d \in Calls : approvals[d] \subseteq approvals'[d]
    BY <2>1 DEF TypeOK
  <2> QED
    BY <2>1, <2>2, DispatchIsLocal
<1>6. ASSUME NEW c \in Calls, DenyRisk(c) \/ DenyConflict(c) \/ ApproverRaises(c) PROVE GateInv'
  BY <1>1, <1>6 DEF DenyRisk, DenyConflict, ApproverRaises, Refuse, Conclude, Finish, Escape, TypeOK
<1>7. ASSUME NEW c \in Calls, ApproveConflict(c) PROVE GateInv'
  <2>1. /\ UNCHANGED <<request, pool>>
        /\ pc' = [pc EXCEPT ![c] = "done"]
        /\ approvals' = [approvals EXCEPT ![c] = @ \cup {"conflict"}]
    BY <1>7 DEF ApproveConflict, Award, Conclude, Finish
  <2> QED
    BY <2>1 DEF TypeOK
<1>8. ASSUME NEW c \in Calls, NEW i \in DOMAIN replies[c], NEW x \in Returns, HandlerReturns(c, i, x)
      PROVE  GateInv'
  <2>1. \/ UNCHANGED pc \/ Escape(c) \/ Finish(c) \/ pc' = [pc EXCEPT ![c] = "conflict"]
    BY <1>8 DEF HandlerReturns, FinishRoute, FinishDebate, Arbitrate, Award, Conclude
  <2>2. \A d \in Calls : pc'[d] = "approval" => pc[d] = "approval"
    BY <2>1 DEF Escape, Finish, TypeOK
  <2> QED
    BY <1>1, <1>8, <2>2 DEF HandlerReturns
<1> QED
  BY <1>2, <1>3, <1>4, <1>5, <1>6, <1>7, <1>8 DEF Next, Proceed

(* RFC-0006 for any policy, approver and calls: no handler is ever started *)
(* for a task the policy does not allow and no approver accepted.          *)
THEOREM PolicyGateHolds == Spec => []GatedByPolicy
<1>1. Init => GateInv
  BY DEF Init, GateInv, GatedByPolicy
<1>2. GateInv => GatedByPolicy
  BY DEF GateInv
<1> QED
  BY <1>1, <1>2, NextGate, TypeCorrect, PTL DEF Spec
-----------------------------------------------------------------------------
(***************************************************************************)
(* One answer per task.  What a step of a call can append to the trace has *)
(* four shapes (StepShape); each of them keeps AnsweredOnce, which with    *)
(* TypeOK is inductive.                                                    *)
(***************************************************************************)
Active == {"approval", "handling", "conflict"}

TaskOf(c, env) == env \in EnvelopeType /\ env.call = c /\ env.message_type = "task"
AnswerOf(c, env) == env \in EnvelopeType /\ env.call = c /\ env.message_type \in {"result", "error"}

GoesOn(c) == \E p \in Active \cup {"escaped"} : pc' = [pc EXCEPT ![c] = p]

Shape(c) ==
  \/ pc[c] \in Active /\ UNCHANGED trace /\ GoesOn(c)
  \/ /\ pc[c] = "idle" /\ GoesOn(c)
     /\ \E task : TaskOf(c, task) /\ trace' = trace \o <<task>>
  \/ /\ pc[c] \in Active /\ Finish(c)
     /\ \E env : AnswerOf(c, env) /\ trace' = trace \o <<env>>
  \/ /\ pc[c] = "idle" /\ Finish(c)
     /\ \E task, env : TaskOf(c, task) /\ AnswerOf(c, env) /\ trace' = trace \o <<task, env>>

LEMMA EnvelopeShapes ==
  ASSUME NEW c \in Calls
  PROVE  /\ TaskOf(c, TaskEnvelope(c))
         /\ \A sender \in AgentIds \cup {CORE}, code \in ErrorCodes :
              AnswerOf(c, ErrorEnvelope(sender, c, code))
         /\ \A a \in Agents, reply \in ReplyType : AnswerOf(c, ResultEnvelope(a, c, reply))
BY EnvelopeTypes
DEF TaskOf, AnswerOf, TaskEnvelope, ErrorEnvelope, ResultEnvelope, Envelope

LEMMA RefuseShape ==
  ASSUME NEW c \in Calls, NEW before, NEW code \in ErrorCodes, Refuse(c, before, code)
  PROVE  \E env : AnswerOf(c, env) /\ trace' = trace \o Append(before, env) /\ Finish(c)
BY EnvelopeShapes DEF Refuse, Conclude, Record

LEMMA DispatchShape ==
  ASSUME NEW c \in Calls, NEW r, NEW before, Dispatch(c, r, before)
  PROVE  \/ \E env : AnswerOf(c, env) /\ trace' = trace \o Append(before, env) /\ Finish(c)
         \/ trace' = trace \o before /\ GoesOn(c)
<1>1. \/ Refuse(c, before, "capability_unavailable")
      \/ Refuse(c, before, "no_usable_candidate")
      \/ Escape(c) /\ Record(before)
      \/ \E positions : Start(c, positions) /\ Record(before)
  BY DEF Dispatch, StartRoute, StartDebate, DebateNobody, RankingRaises
<1> QED
  BY <1>1, RefuseShape DEF ErrorCodes, Escape, Start, Record, GoesOn, Active

LEMMA AppendToOne ==
  ASSUME NEW S, NEW x \in S, NEW y \in S
  PROVE  Append(<<x>>, y) = <<x, y>>
<1> DEFINE s == <<x>>
           t == Append(s, y)
           u == <<x, y>>
<1>1. s \in Seq(S)
  OBVIOUS
<1>2. Len(s) = 1 /\ s[1] = x
  OBVIOUS
<1>3. u \in Seq(S) /\ Len(u) = 2 /\ u[1] = x /\ u[2] = y
  OBVIOUS
<1> HIDE DEF s, u
<1>4. /\ t \in Seq(S)
      /\ Len(t) = Len(s) + 1
      /\ \A k \in 1..Len(s) : t[k] = s[k]
      /\ t[Len(s) + 1] = y
  BY <1>1, AppendProperties
<1> HIDE DEF t
<1>5. Len(t) = Len(u) /\ \A k \in 1..Len(t) : t[k] = u[k]
  BY <1>2, <1>3, <1>4
<1>6. t = u
  BY <1>3, <1>4, <1>5, SeqEqual
<1> QED
  BY <1>6 DEF s, t, u

LEMMA SubmitShape == ASSUME TypeOK, NEW c \in Calls, Submit(c) PROVE Shape(c)
<1> DEFINE task == TaskEnvelope(c)
<1>2. pc[c] = "idle"
  BY DEF Submit
<1>0. TaskOf(c, task)
  BY EnvelopeShapes
<1> HIDE DEF task
<1>1. TaskOf(c, task) /\ \A env : AnswerOf(c, env) => Append(<<task>>, env) = <<task, env>>
  BY <1>0, AppendToOne DEF TaskOf, AnswerOf
<1>3. CASE Dispatch(c, request[c], <<task>>)
  BY <1>1, <1>2, <1>3, DispatchShape DEF Shape
<1>4. CASE Refuse(c, <<task>>, "policy_blocked")
  BY <1>1, <1>2, <1>4, RefuseShape DEF Shape, ErrorCodes
<1>5. CASE pc' = [pc EXCEPT ![c] = "approval"] /\ Record(<<task>>)
  BY <1>1, <1>2, <1>5 DEF Shape, Record, GoesOn, Active
<1> QED
  BY <1>3, <1>4, <1>5 DEF Submit, task

LEMMA RiskShape ==
  ASSUME TypeOK, NEW c \in Calls, ApproveRisk(c) \/ DenyRisk(c) PROVE Shape(c)
<1>1. pc[c] \in Active /\ trace \o <<>> = trace /\ \A env : Append(<<>>, env) = <<env>>
  BY DEF ApproveRisk, DenyRisk, Active, TypeOK
<1>2. CASE Dispatch(c, request[c], <<>>)
  <2>1. \/ \E env : AnswerOf(c, env) /\ trace' = trace \o Append(<<>>, env) /\ Finish(c)
        \/ trace' = trace \o <<>> /\ GoesOn(c)
    BY <1>2, DispatchShape
  <2> QED
    BY <1>1, <2>1 DEF Shape
<1>3. CASE Refuse(c, <<>>, "policy_blocked")
  BY <1>1, <1>3, RefuseShape DEF Shape, ErrorCodes
<1> QED
  BY <1>2, <1>3 DEF ApproveRisk, DenyRisk

LEMMA ApproverRaisesShape == ASSUME NEW c \in Calls, ApproverRaises(c) PROVE Shape(c)
BY DEF ApproverRaises, Escape, records, Shape, GoesOn, Active

LEMMA ConflictShape ==
  ASSUME TypeOK, NEW c \in Calls, ApproveConflict(c) \/ DenyConflict(c) PROVE Shape(c)
<1>1. pc[c] \in Active
  BY DEF ApproveConflict, DenyConflict, Active
<1>2. pool[c][verdict[c]] \in Agents /\ replies[c][verdict[c]] \in ReplyType
  BY DEF ApproveConflict, DenyConflict, TypeOK, VerdictType, PoolType
<1>3. /\ AnswerOf(c, ErrorEnvelope(CORE, c, "conflict_not_approved"))
      /\ AnswerOf(c, ResultEnvelope(pool[c][verdict[c]], c, replies[c][verdict[c]]))
  BY <1>2, EnvelopeShapes DEF ErrorCodes
<1>4. \E env : AnswerOf(c, env) /\ Conclude(c, <<env>>)
  BY <1>3 DEF ApproveConflict, DenyConflict, Award
<1> QED
  BY <1>1, <1>4 DEF Conclude, Record, Shape

LEMMA HandlerReturnsShape ==
  ASSUME TypeOK, NEW c \in Calls, NEW i \in DOMAIN replies[c], NEW x \in Returns,
         HandlerReturns(c, i, x)
  PROVE  Shape(c)
<1> DEFINE rs == [replies[c] EXCEPT ![i] = Handle(pool[c][i], request[c].objective, x)]
<1>1. /\ i \in DOMAIN pool[c] /\ pool[c] \in [DOMAIN pool[c] -> Agents]
      /\ replies[c] \in [DOMAIN pool[c] -> ReplyType]
  BY DEF TypeOK, PoolType
<1>2. Handle(pool[c][i], request[c].objective, x) \in ReplyType
  BY <1>1, HandleType
<1>3. rs \in [DOMAIN pool[c] -> ReplyType]
  BY <1>1, <1>2
<1>4. pc[c] = "handling"
  BY DEF HandlerReturns
<1>5. \/ UNCHANGED <<records, pc, verdict>>
      \/ FinishRoute(c, i, rs[i])
      \/ FinishDebate(c, rs)
  BY DEF HandlerReturns
<1> HIDE DEF rs
<1>6. ASSUME NEW env, AnswerOf(c, env), Conclude(c, <<env>>) PROVE Shape(c)
  BY <1>4, <1>6 DEF Conclude, Record, Shape, Active
<1>7. CASE UNCHANGED <<records, pc, verdict>>
  <2>1. pc' = [pc EXCEPT ![c] = "handling"]
    BY <1>4, <1>7 DEF TypeOK
  <2> QED
    BY <1>4, <1>7, <2>1 DEF records, Shape, GoesOn, Active
<1>8. CASE Escape(c) /\ UNCHANGED records
  BY <1>4, <1>8 DEF Escape, records, Shape, GoesOn, Active
<1>9. CASE FinishRoute(c, i, rs[i])
  <2>1. IdOf[pool[c][i]] \in AgentIds
    BY <1>1, CoreAssumption
  <2>2. /\ AnswerOf(c, ResultEnvelope(pool[c][i], c, rs[i]))
        /\ AnswerOf(c, ErrorEnvelope(IdOf[pool[c][i]], c, "task_failed"))
        /\ AnswerOf(c, ErrorEnvelope(IdOf[pool[c][i]], c, "capability_unavailable"))
    BY <1>1, <1>3, <2>1, EnvelopeShapes DEF ErrorCodes
  <2> QED
    BY <1>6, <1>8, <1>9, <2>2 DEF FinishRoute
<1>10. CASE Arbitrate(c, rs)
  <2>1. PICK w \in Winners(Candidates(c, rs), HistoricalEvidence) :
          \/ Award(c, w, rs, DebateEdges(c, rs))
          \/ Conclude(c, <<ErrorEnvelope(CORE, c, "conflict_not_approved")>>)
          \/ pc' = [pc EXCEPT ![c] = "conflict"] /\ UNCHANGED trace
    BY <1>10 DEF Arbitrate
  <2>2. w \in DOMAIN Candidates(c, rs)
    BY <2>1 DEF Winners, First, FirstMaximal, Descriptions
  <2>3. pool[c][w] \in Agents /\ rs[w] \in ReplyType
    BY <1>1, <1>3, <2>2 DEF Candidates, Answered
  <2>4. /\ AnswerOf(c, ResultEnvelope(pool[c][w], c, rs[w]))
        /\ AnswerOf(c, ErrorEnvelope(CORE, c, "conflict_not_approved"))
    BY <2>3, EnvelopeShapes DEF ErrorCodes
  <2>5. CASE pc' = [pc EXCEPT ![c] = "conflict"] /\ UNCHANGED trace
    BY <1>4, <2>5 DEF Shape, GoesOn, Active
  <2> QED
    BY <1>6, <2>1, <2>4, <2>5 DEF Award
<1>11. CASE FinishDebate(c, rs)
  <2>1. /\ AnswerOf(c, ErrorEnvelope(CORE, c, "no_usable_candidate"))
        /\ AnswerOf(c, ErrorEnvelope(CORE, c, "quorum_not_met"))
    BY EnvelopeShapes DEF ErrorCodes
  <2> QED
    BY <1>6, <1>8, <1>10, <1>11, <2>1 DEF FinishDebate
<1> QED
  BY <1>5, <1>7, <1>9, <1>11

LEMMA ProceedShape == ASSUME TypeOK, NEW c \in Calls, Proceed(c) PROVE Shape(c)
BY RiskShape, ApproverRaisesShape, ConflictShape, HandlerReturnsShape DEF Proceed

(* What appending to a trace does to the envelopes of one call. *)
In(tr, c, types) == {k \in DOMAIN tr : tr[k].call = c /\ tr[k].message_type \in types}

Later(tr, envs, c, types) ==
  {k \in Len(tr)+1 .. Len(tr)+Len(envs) :
     envs[k - Len(tr)].call = c /\ envs[k - Len(tr)].message_type \in types}

LEMMA InGrows ==
  ASSUME NEW tr \in Seq(EnvelopeType), NEW envs \in Seq(EnvelopeType), NEW c, NEW types
  PROVE  /\ In(tr, c, types) \subseteq 1..Len(tr)
         /\ In(tr \o envs, c, types) = In(tr, c, types) \cup Later(tr, envs, c, types)
<1> DEFINE new == tr \o envs
<1>1. Len(tr) \in Nat /\ Len(envs) \in Nat
  OBVIOUS
<1>2. /\ Len(new) = Len(tr) + Len(envs)
      /\ new \in Seq(EnvelopeType)
      /\ \A k \in 1..Len(tr) : new[k] = tr[k]
      /\ \A k \in Len(tr)+1 .. Len(tr)+Len(envs) : new[k] = envs[k - Len(tr)]
  BY <1>1, ConcatProperties
<1>3. DOMAIN tr = 1..Len(tr) /\ DOMAIN new = 1..Len(new)
  BY <1>1, <1>2, LenProperties
<1> HIDE DEF new
<1>4. In(new, c, types) = In(tr, c, types) \cup Later(tr, envs, c, types)
  BY <1>1, <1>2, <1>3 DEF In, Later
<1> QED
  BY <1>3, <1>4 DEF In, new

LEMMA OneLater ==
  ASSUME NEW tr \in Seq(EnvelopeType), NEW env \in EnvelopeType, NEW types
  PROVE  Later(tr, <<env>>, env.call, types) =
           IF env.message_type \in types THEN {Len(tr)+1} ELSE {}
<1> DEFINE envs == <<env>>
<1>1. Len(envs) = 1 /\ envs[1] = env /\ Len(tr) \in Nat
  OBVIOUS
<1> HIDE DEF envs
<1>2. Later(tr, envs, env.call, types) = IF env.message_type \in types THEN {Len(tr)+1} ELSE {}
  BY <1>1 DEF Later
<1> QED
  BY <1>2 DEF envs

LEMMA TwoLater ==
  ASSUME NEW tr \in Seq(EnvelopeType), NEW c, NEW envs, Len(envs) = 2,
         TaskOf(c, envs[1]), AnswerOf(c, envs[2])
  PROVE  /\ Later(tr, envs, c, {"task"}) = {Len(tr)+1}
         /\ Later(tr, envs, c, {"result", "error"}) = {Len(tr)+2}
<1>1. Len(tr) \in Nat
  OBVIOUS
<1> QED
  BY <1>1 DEF Later, TaskOf, AnswerOf

LEMMA NoneLater ==
  ASSUME NEW tr \in Seq(EnvelopeType), NEW envs \in Seq(EnvelopeType), NEW c,
         \A k \in 1..Len(envs) : envs[k].call = c, NEW d, d # c, NEW types
  PROVE  Later(tr, envs, d, types) = {}
<1>1. Len(tr) \in Nat /\ Len(envs) \in Nat
  OBVIOUS
<1> QED
  BY <1>1 DEF Later

(* AnsweredOnce says this of each call, where p is the place the call is at. *)
Once(tr, c, p) ==
  LET tasks == In(tr, c, {"task"})
      answers == In(tr, c, {"result", "error"})
  IN  /\ \A j, k \in tasks : j = k
      /\ \A j, k \in answers : j = k
      /\ tasks # {} <=> p # "idle"
      /\ answers # {} <=> p = "done"
      /\ \A k \in answers : \E j \in tasks : j < k

LEMMA OnceEach == AnsweredOnce <=> \A c \in Calls : Once(trace, c, pc[c])
<1>1. ASSUME NEW c \in Calls
      PROVE  /\ Envelopes(c, "task") = In(trace, c, {"task"})
             /\ Answers(c) = In(trace, c, {"result", "error"})
  BY DEF Envelopes, Answers, In
<1> QED
  BY <1>1 DEF AnsweredOnce, Once

LEMMA OnceEachPrimed == AnsweredOnce' <=> \A c \in Calls : Once(trace', c, pc'[c])
<1>1. ASSUME NEW c \in Calls
      PROVE  /\ Envelopes(c, "task")' = In(trace', c, {"task"})
             /\ Answers(c)' = In(trace', c, {"result", "error"})
  BY DEF Envelopes, Answers, In
<1> QED
  BY <1>1 DEF AnsweredOnce, Once

(* Envelopes of one call leave what is said of the others as it was. *)
LEMMA OthersKeepOnce ==
  ASSUME NEW tr \in Seq(EnvelopeType), NEW envs \in Seq(EnvelopeType), NEW c,
         \A k \in 1..Len(envs) : envs[k].call = c, NEW d, d # c, NEW p
  PROVE  Once(tr \o envs, d, p) <=> Once(tr, d, p)
<1>1. ASSUME NEW types PROVE In(tr \o envs, d, types) = In(tr, d, types)
  <2>1. In(tr \o envs, d, types) = In(tr, d, types) \cup Later(tr, envs, d, types)
    BY InGrows
  <2>2. Later(tr, envs, d, types) = {}
    BY NoneLater
  <2> QED
    BY <2>1, <2>2
<1> QED
  BY <1>1 DEF Once

LEMMA ShapeKeepsOnce ==
  ASSUME TypeOK, NEW c \in Calls, Shape(c), \A d \in Calls : Once(trace, d, pc[d])
  PROVE  \A d \in Calls : Once(trace', d, pc'[d])
<1> DEFINE In0(types) == In(trace, c, types)
           In1(types) == In(trace', c, types)
           n == Len(trace)
<1>1. trace \in Seq(EnvelopeType) /\ n \in Nat /\ pc \in [Calls -> Places]
  BY DEF TypeOK
<1>2. Once(trace, c, pc[c])
  OBVIOUS
<1>3. \A types : In0(types) \subseteq 1..n
  BY <1>1, InGrows
<1>4. \A d \in Calls : d # c => pc'[d] = pc[d]
  BY <1>1 DEF Shape, GoesOn, Finish
<1>5. CASE pc[c] \in Active /\ UNCHANGED trace /\ GoesOn(c)
  <2>1. pc'[c] \in Active \cup {"escaped"}
    BY <1>1, <1>5 DEF GoesOn
  <2>2. Once(trace, c, pc'[c])
    BY <1>2, <1>5, <2>1 DEF Once, Active
  <2> QED
    BY <1>4, <1>5, <2>2
<1>6. CASE /\ pc[c] = "idle" /\ GoesOn(c)
           /\ \E task : TaskOf(c, task) /\ trace' = trace \o <<task>>
  <2>1. PICK task : TaskOf(c, task) /\ trace' = trace \o <<task>>
    BY <1>6
  <2>2. task \in EnvelopeType /\ task.call = c /\ task.message_type = "task"
    BY <2>1 DEF TaskOf
  <2>3. <<task>> \in Seq(EnvelopeType) /\ \A k \in 1..Len(<<task>>) : <<task>>[k].call = c
    BY <2>2
  <2>4. In0({"task"}) = {} /\ In0({"result", "error"}) = {}
    BY <1>2, <1>6 DEF Once
  <2>5. \A types : In1(types) = In0(types) \cup Later(trace, <<task>>, c, types)
    BY <1>1, <2>1, <2>3, InGrows
  <2>6. In1({"task"}) = {n + 1} /\ In1({"result", "error"}) = {}
    <3>1. /\ Later(trace, <<task>>, c, {"task"}) = {n + 1}
          /\ Later(trace, <<task>>, c, {"result", "error"}) = {}
      BY <1>1, <2>2, OneLater
    <3> QED
      BY <2>4, <2>5, <3>1
  <2>7. pc'[c] # "idle" /\ pc'[c] # "done"
    BY <1>1, <1>6 DEF GoesOn, Active
  <2>8. Once(trace', c, pc'[c])
    BY <2>6, <2>7 DEF Once
  <2> QED
    BY <1>1, <1>4, <2>1, <2>3, <2>8, OthersKeepOnce
<1>7. CASE /\ pc[c] \in Active /\ Finish(c)
           /\ \E env : AnswerOf(c, env) /\ trace' = trace \o <<env>>
  <2>1. PICK env : AnswerOf(c, env) /\ trace' = trace \o <<env>>
    BY <1>7
  <2>2. env \in EnvelopeType /\ env.call = c /\ env.message_type \in {"result", "error"}
    BY <2>1 DEF AnswerOf
  <2>3. <<env>> \in Seq(EnvelopeType) /\ \A k \in 1..Len(<<env>>) : <<env>>[k].call = c
    BY <2>2
  <2>4. /\ In0({"task"}) # {} /\ \A j, k \in In0({"task"}) : j = k
        /\ In0({"result", "error"}) = {}
    BY <1>2, <1>7 DEF Once, Active
  <2>5. \A types : In1(types) = In0(types) \cup Later(trace, <<env>>, c, types)
    BY <1>1, <2>1, <2>3, InGrows
  <2>6. In1({"task"}) = In0({"task"}) /\ In1({"result", "error"}) = {n + 1}
    <3>1. /\ Later(trace, <<env>>, c, {"task"}) = {}
          /\ Later(trace, <<env>>, c, {"result", "error"}) = {n + 1}
      BY <1>1, <2>2, OneLater
    <3> QED
      BY <2>4, <2>5, <3>1
  <2>7. pc'[c] = "done"
    BY <1>1, <1>7 DEF Finish
  <2>8. \A j \in In0({"task"}) : j < n + 1
    BY <1>1, <1>3
  <2>9. Once(trace', c, pc'[c])
    BY <2>4, <2>6, <2>7, <2>8 DEF Once
  <2> QED
    BY <1>1, <1>4, <2>1, <2>3, <2>9, OthersKeepOnce
<1>8. CASE /\ pc[c] = "idle" /\ Finish(c)
           /\ \E task, env : TaskOf(c, task) /\ AnswerOf(c, env) /\ trace' = trace \o <<task, env>>
  <2>1. PICK task, env : TaskOf(c, task) /\ AnswerOf(c, env) /\ trace' = trace \o <<task, env>>
    BY <1>8
  <2>2. /\ <<task, env>> \in Seq(EnvelopeType)
        /\ \A k \in 1..Len(<<task, env>>) : <<task, env>>[k].call = c
    BY <2>1 DEF TaskOf, AnswerOf
  <2>3. In0({"task"}) = {} /\ In0({"result", "error"}) = {}
    BY <1>2, <1>8 DEF Once
  <2>5. In1({"task"}) = {n + 1} /\ In1({"result", "error"}) = {n + 2}
    <3> DEFINE envs == <<task, env>>
    <3>1. /\ envs \in Seq(EnvelopeType) /\ trace' = trace \o envs
          /\ Len(envs) = 2 /\ TaskOf(c, envs[1]) /\ AnswerOf(c, envs[2])
      BY <2>1, <2>2
    <3> HIDE DEF envs
    <3>2. /\ Later(trace, envs, c, {"task"}) = {n + 1}
          /\ Later(trace, envs, c, {"result", "error"}) = {n + 2}
      BY <1>1, <3>1, TwoLater
    <3>3. \A types : In1(types) = In0(types) \cup Later(trace, envs, c, types)
      BY <1>1, <3>1, InGrows
    <3> QED
      BY <2>3, <3>2, <3>3
  <2>6. pc'[c] = "done" /\ n + 1 < n + 2
    BY <1>1, <1>8 DEF Finish
  <2>7. Once(trace', c, pc'[c])
    BY <2>5, <2>6 DEF Once
  <2> QED
    BY <1>1, <1>4, <2>1, <2>2, <2>7, OthersKeepOnce
<1> QED
  BY <1>5, <1>6, <1>7, <1>8 DEF Shape

LEMMA NextAnswersOnce == TypeOK /\ AnsweredOnce /\ [Next]_vars => AnsweredOnce'
<1> SUFFICES ASSUME TypeOK, \A c \in Calls : Once(trace, c, pc[c]), [Next]_vars
             PROVE  \A c \in Calls : Once(trace', c, pc'[c])
  BY OnceEach, OnceEachPrimed
<1>1. CASE \E c \in Calls : Shape(c)
  BY <1>1, ShapeKeepsOnce
<1>2. CASE UNCHANGED <<trace, pc>>
  BY <1>2
<1> QED
  BY <1>1, <1>2, SubmitShape, ProceedShape
  DEF Next, vars, Register, Unregister, AddHandler, records

(* Every call has one task envelope and, exactly when it has ended in its  *)
(* own way, one answer after it; for any calls, agents, requests, handlers *)
(* and policies, and any interleaving of them.                             *)
THEOREM AnsweredOnceHolds == Spec => []AnsweredOnce
<1>1. Init => AnsweredOnce
  BY DEF Init, AnsweredOnce, Answers, Envelopes
<1> QED
  BY <1>1, NextAnswersOnce, TypeCorrect, PTL DEF Spec
-----------------------------------------------------------------------------
(***************************************************************************)
(* The conflict gate.  GatedByConflictPolicy speaks of a result already     *)
(* recorded; what the steps before it must have kept is that a verdict is   *)
(* under review only if there is a reviewer, and that route(), which asks   *)
(* no gate, has one candidate and so nobody to disagree with.              *)
(***************************************************************************)
Settled(c) ==
  HasConflictPolicy /\ Envelopes(c, "result") # {} =>
    \/ \A o, p \in GivenOutputs(c) : o = p
    \/ HasConflictApprover /\ "conflict" \in approvals[c]

Reviewed(c) == pc[c] = "conflict" => HasConflictApprover

Single(c) == request[c].operation = "route" => \A i, j \in DOMAIN pool[c] : i = j

ConflictInv(c) == Settled(c) /\ Reviewed(c) /\ Single(c)

(* What a step of c leaves alone. *)
Elsewhere(c) ==
  /\ UNCHANGED request
  /\ \A d \in Calls : d # c =>
       /\ pc'[d] = pc[d] /\ pool'[d] = pool[d]
       /\ replies'[d] = replies[d] /\ approvals'[d] = approvals[d]

LEMMA DispatchElsewhere ==
  ASSUME TypeOK, NEW c \in Calls, NEW r, NEW before, Dispatch(c, r, before)
  PROVE  \A d \in Calls : d # c =>
           pc'[d] = pc[d] /\ pool'[d] = pool[d] /\ replies'[d] = replies[d]
<1>1. DOMAIN pc = Calls /\ DOMAIN pool = Calls /\ DOMAIN replies = Calls
  BY DEF TypeOK, PoolType
<1>2. \/ \E positions : Start(c, positions)
      \/ (Finish(c) \/ Escape(c)) /\ UNCHANGED <<pool, replies>>
  BY DEF Dispatch, Refuse, Conclude, StartRoute, StartDebate, DebateNobody, RankingRaises
<1> QED
  BY <1>1, <1>2 DEF Start, Finish, Escape

LEMMA StepElsewhere ==
  ASSUME TypeOK, NEW c \in Calls, Submit(c) \/ Proceed(c) PROVE Elsewhere(c)
<1>1. DOMAIN pc = Calls /\ DOMAIN replies = Calls /\ DOMAIN approvals = Calls
  BY DEF TypeOK, PoolType
<1>2. CASE Submit(c)
  BY <1>1, <1>2, DispatchElsewhere DEF Submit, Refuse, Conclude, Finish, Elsewhere
<1>3. CASE ApproveRisk(c)
  BY <1>1, <1>3, DispatchElsewhere DEF ApproveRisk, Elsewhere
<1>4. CASE DenyRisk(c) \/ ApproverRaises(c) \/ ApproveConflict(c) \/ DenyConflict(c)
  BY <1>1, <1>4 DEF DenyRisk, ApproverRaises, ApproveConflict, DenyConflict, Refuse, Award,
                    Conclude, Finish, Escape, Elsewhere
<1>5. ASSUME NEW i \in DOMAIN replies[c], NEW x \in Returns, HandlerReturns(c, i, x)
      PROVE  Elsewhere(c)
  <2>1. \E rs : replies' = [replies EXCEPT ![c] = rs]
    BY <1>5 DEF HandlerReturns
  <2>2. \/ UNCHANGED pc \/ Escape(c) \/ Finish(c) \/ pc' = [pc EXCEPT ![c] = "conflict"]
    BY <1>5 DEF HandlerReturns, FinishRoute, FinishDebate, Arbitrate, Award, Conclude
  <2>3. UNCHANGED <<request, pool, approvals>>
    BY <1>5 DEF HandlerReturns
  <2> QED
    BY <1>1, <2>1, <2>2, <2>3 DEF Escape, Finish, Elsewhere
<1> QED
  BY <1>2, <1>3, <1>4, <1>5 DEF Proceed

LEMMA ResultsOf ==
  ASSUME NEW c
  PROVE  /\ Envelopes(c, "result") = In(trace, c, {"result"})
         /\ Envelopes(c, "result")' = In(trace', c, {"result"})
BY DEF Envelopes, In

(* A call that has not ended has no result yet. *)
LEMMA NoResultYet ==
  ASSUME AnsweredOnce, NEW c \in Calls, pc[c] # "done" PROVE Envelopes(c, "result") = {}
BY DEF AnsweredOnce, Answers

LEMMA ShapeEnvelopes ==
  ASSUME TypeOK, NEW c \in Calls, Shape(c)
  PROVE  \E envs \in Seq(EnvelopeType) :
           trace' = trace \o envs /\ \A k \in 1..Len(envs) : envs[k].call = c
<1>1. CASE UNCHANGED trace
  <2>1. trace \o <<>> = trace
    BY DEF TypeOK
  <2>2. \A k \in 1..Len(<<>>) : <<>>[k].call = c
    OBVIOUS
  <2> WITNESS <<>> \in Seq(EnvelopeType)
  <2> QED
    BY <1>1, <2>1, <2>2
<1>2. ASSUME NEW env \in EnvelopeType, env.call = c, trace' = trace \o <<env>>
      PROVE  \E envs \in Seq(EnvelopeType) :
               trace' = trace \o envs /\ \A k \in 1..Len(envs) : envs[k].call = c
  <2>1. <<env>> \in Seq(EnvelopeType) /\ \A k \in 1..Len(<<env>>) : <<env>>[k].call = c
    BY <1>2
  <2> QED
    BY <1>2, <2>1
<1>3. ASSUME NEW task \in EnvelopeType, NEW env \in EnvelopeType, task.call = c, env.call = c,
             trace' = trace \o <<task, env>>
      PROVE  \E envs \in Seq(EnvelopeType) :
               trace' = trace \o envs /\ \A k \in 1..Len(envs) : envs[k].call = c
  <2>1. /\ <<task, env>> \in Seq(EnvelopeType)
        /\ \A k \in 1..Len(<<task, env>>) : <<task, env>>[k].call = c
    BY <1>3
  <2> QED
    BY <1>3, <2>1
<1> QED
  BY <1>1, <1>2, <1>3 DEF Shape, TaskOf, AnswerOf

(* A step of one call leaves the others as settled as they were. *)
LEMMA OthersSettled ==
  ASSUME TypeOK, NEW c \in Calls, Shape(c), Elsewhere(c), NEW d \in Calls, d # c, ConflictInv(d)
  PROVE  ConflictInv(d)'
<1>1. PICK envs \in Seq(EnvelopeType) :
        trace' = trace \o envs /\ \A k \in 1..Len(envs) : envs[k].call = c
  BY ShapeEnvelopes
<1>2. trace \in Seq(EnvelopeType)
  BY DEF TypeOK
<1>3. In(trace', d, {"result"}) = In(trace, d, {"result"}) \cup Later(trace, envs, d, {"result"})
  BY <1>1, <1>2, InGrows
<1>4. Later(trace, envs, d, {"result"}) = {}
  BY <1>1, <1>2, NoneLater
<1>5. Envelopes(d, "result")' = Envelopes(d, "result")
  BY <1>3, <1>4, ResultsOf
<1>6. GivenOutputs(d)' = GivenOutputs(d)
  BY DEF Elsewhere, GivenOutputs, Answered
<1> QED
  BY <1>5, <1>6 DEF ConflictInv, Settled, Reviewed, Single, Elsewhere

(* Recording no result leaves a call without one. *)
LEMMA StaysResultless ==
  ASSUME TypeOK, NEW c \in Calls, Envelopes(c, "result") = {},
         NEW envs \in Seq(EnvelopeType), trace' = trace \o envs,
         \A k \in 1..Len(envs) : envs[k].message_type # "result"
  PROVE  Envelopes(c, "result")' = {}
<1>1. trace \in Seq(EnvelopeType) /\ Len(trace) \in Nat /\ Len(envs) \in Nat
  BY DEF TypeOK
<1>2. Later(trace, envs, c, {"result"}) = {}
  BY <1>1 DEF Later
<1>3. In(trace', c, {"result"}) = In(trace, c, {"result"}) \cup Later(trace, envs, c, {"result"})
  BY <1>1, InGrows
<1> QED
  BY <1>2, <1>3, ResultsOf

LEMMA RefuseResultless ==
  ASSUME TypeOK, NEW c \in Calls, Envelopes(c, "result") = {},
         NEW before \in Seq(EnvelopeType), \A k \in 1..Len(before) : before[k].message_type # "result",
         NEW code \in ErrorCodes, Refuse(c, before, code)
  PROVE  Envelopes(c, "result")' = {}
<1> DEFINE env == ErrorEnvelope(CORE, c, code)
           envs == Append(before, env)
<1>1. env \in EnvelopeType /\ env.message_type # "result"
  BY EnvelopeTypes DEF ErrorEnvelope, Envelope
<1>2. trace' = trace \o envs
  BY DEF Refuse, Conclude, Record
<1> HIDE DEF env
<1>3. /\ envs \in Seq(EnvelopeType) /\ Len(envs) = Len(before) + 1 /\ Len(before) \in Nat
      /\ \A k \in 1..Len(before) : envs[k] = before[k]
      /\ envs[Len(before) + 1] = env
  BY <1>1, AppendProperties
<1> HIDE DEF envs
<1>4. \A k \in 1..Len(envs) : envs[k].message_type # "result"
  BY <1>1, <1>3
<1> QED
  BY <1>2, <1>3, <1>4, StaysResultless

(* A dispatch records no result, and route() gets one candidate. *)
LEMMA DispatchSettled ==
  ASSUME TypeOK, NEW c \in Calls, Envelopes(c, "result") = {}, Single(c), UNCHANGED request,
         NEW before \in Seq(EnvelopeType), \A k \in 1..Len(before) : before[k].message_type # "result",
         Dispatch(c, request[c], before)
  PROVE  Envelopes(c, "result")' = {} /\ pc'[c] # "conflict" /\ Single(c)'
<1>1. DOMAIN pc = Calls /\ DOMAIN pool = Calls
  BY DEF TypeOK, PoolType
<1>2. ASSUME Record(before) PROVE Envelopes(c, "result")' = {}
  BY <1>2, StaysResultless DEF Record
<1>3. ASSUME NEW code \in ErrorCodes, Refuse(c, before, code)
      PROVE  Envelopes(c, "result")' = {} /\ pc'[c] # "conflict" /\ Single(c)'
  <2>1. Envelopes(c, "result")' = {}
    BY <1>3, RefuseResultless
  <2>2. pc'[c] = "done" /\ UNCHANGED pool
    BY <1>1, <1>3 DEF Refuse, Conclude, Finish
  <2> QED
    BY <2>1, <2>2 DEF Single
<1>4. CASE StartRoute(c, request[c], before)
  <2>1. PICK i : Start(c, {i}) /\ Record(before)
    BY <1>4 DEF StartRoute
  <2>2. pc'[c] = "handling" /\ DOMAIN pool'[c] = {i}
    BY <1>1, <2>1 DEF Start
  <2> QED
    BY <1>2, <2>1, <2>2 DEF Single
<1>5. CASE request[c].operation = "debate" /\ StartDebate(c, request[c], before)
  <2>1. pc'[c] = "handling" /\ Record(before)
    BY <1>1, <1>5 DEF StartDebate, Start
  <2> QED
    BY <1>2, <1>5, <2>1 DEF Single
<1>6. CASE Escape(c) /\ Record(before) /\ UNCHANGED pool
  BY <1>1, <1>2, <1>6 DEF Escape, Single
<1> QED
  BY <1>3, <1>4, <1>5, <1>6 DEF Dispatch, DebateNobody, RankingRaises, ErrorCodes

LEMMA SubmitSettled ==
  ASSUME TypeOK, AnsweredOnce, NEW c \in Calls, ConflictInv(c), Submit(c) PROVE ConflictInv(c)'
<1> DEFINE task == <<TaskEnvelope(c)>>
<1>1. task \in Seq(EnvelopeType) /\ \A k \in 1..Len(task) : task[k].message_type # "result"
  <2>1. TaskEnvelope(c) \in EnvelopeType /\ TaskEnvelope(c).message_type = "task"
    BY EnvelopeShapes DEF TaskOf
  <2> QED
    BY <2>1
<1>2. /\ Envelopes(c, "result") = {} /\ UNCHANGED request
      /\ DOMAIN pc = Calls
  BY NoResultYet DEF Submit, TypeOK
<1>3. \/ Dispatch(c, request[c], task)
      \/ Refuse(c, task, "policy_blocked")
      \/ pc' = [pc EXCEPT ![c] = "approval"] /\ Record(task) /\ UNCHANGED pool
  BY DEF Submit
<1> HIDE DEF task
<1>4. CASE Dispatch(c, request[c], task)
  BY <1>1, <1>2, <1>4, DispatchSettled DEF ConflictInv, Settled, Reviewed
<1>5. CASE Refuse(c, task, "policy_blocked")
  <2>1. Envelopes(c, "result")' = {}
    BY <1>1, <1>2, <1>5, RefuseResultless DEF ErrorCodes
  <2> QED
    BY <1>2, <1>5, <2>1 DEF Refuse, Conclude, Finish, ConflictInv, Settled, Reviewed, Single
<1>6. CASE pc' = [pc EXCEPT ![c] = "approval"] /\ Record(task) /\ UNCHANGED pool
  <2>1. Envelopes(c, "result")' = {}
    BY <1>1, <1>2, <1>6, StaysResultless DEF Record
  <2> QED
    BY <1>2, <1>6, <2>1 DEF ConflictInv, Settled, Reviewed, Single
<1> QED
  BY <1>3, <1>4, <1>5, <1>6

LEMMA RiskSettled ==
  ASSUME TypeOK, AnsweredOnce, NEW c \in Calls, ConflictInv(c), ApproveRisk(c) \/ DenyRisk(c)
  PROVE  ConflictInv(c)'
<1>1. /\ Envelopes(c, "result") = {} /\ UNCHANGED request /\ DOMAIN pc = Calls
  BY NoResultYet DEF ApproveRisk, DenyRisk, TypeOK
<1>2. <<>> \in Seq(EnvelopeType) /\ \A k \in 1..Len(<<>>) : <<>>[k].message_type # "result"
  OBVIOUS
<1>3. CASE ApproveRisk(c)
  BY <1>1, <1>2, <1>3, DispatchSettled DEF ApproveRisk, ConflictInv, Settled, Reviewed
<1>4. CASE DenyRisk(c)
  <2>1. Envelopes(c, "result")' = {}
    BY <1>1, <1>2, <1>4, RefuseResultless DEF DenyRisk, ErrorCodes
  <2> QED
    BY <1>1, <1>4, <2>1 DEF DenyRisk, Refuse, Conclude, Finish, ConflictInv, Settled, Reviewed, Single
<1> QED
  BY <1>3, <1>4

LEMMA ReviewSettled ==
  ASSUME TypeOK, AnsweredOnce, NEW c \in Calls, ConflictInv(c),
         ApproveConflict(c) \/ DenyConflict(c) \/ ApproverRaises(c)
  PROVE  ConflictInv(c)'
<1>1. /\ Envelopes(c, "result") = {} /\ UNCHANGED <<request, pool>> /\ DOMAIN pc = Calls
      /\ pc'[c] \in {"done", "escaped"}
  BY NoResultYet
  DEF ApproveConflict, DenyConflict, ApproverRaises, Award, Conclude, Finish, Escape, TypeOK
<1>2. CASE ApproveConflict(c)
  <2>1. HasConflictApprover /\ "conflict" \in approvals'[c]
    BY <1>2 DEF ApproveConflict, ConflictInv, Reviewed, TypeOK
  <2> QED
    BY <1>1, <2>1 DEF ConflictInv, Settled, Reviewed, Single
<1>3. CASE DenyConflict(c)
  <2> DEFINE env == ErrorEnvelope(CORE, c, "conflict_not_approved")
  <2>1. env \in EnvelopeType /\ env.message_type # "result"
    BY EnvelopeTypes DEF ErrorEnvelope, Envelope, ErrorCodes
  <2>2. trace' = trace \o <<env>>
    BY <1>3 DEF DenyConflict, Conclude, Record
  <2> HIDE DEF env
  <2>3. <<env>> \in Seq(EnvelopeType) /\ \A k \in 1..Len(<<env>>) : <<env>>[k].message_type # "result"
    BY <2>1
  <2>4. Envelopes(c, "result")' = {}
    BY <1>1, <2>2, <2>3, StaysResultless
  <2> QED
    BY <1>1, <2>4 DEF ConflictInv, Settled, Reviewed, Single
<1>4. CASE ApproverRaises(c)
  <2>1. Envelopes(c, "result")' = {}
    BY <1>1, <1>4, ResultsOf DEF ApproverRaises, records
  <2> QED
    BY <1>1, <2>1 DEF ConflictInv, Settled, Reviewed, Single
<1> QED
  BY <1>2, <1>3, <1>4

LEMMA ConflictGateAnswers ==
  ASSUME NEW candidates
  PROVE  /\ ConflictGate(Agreement(candidates)) = "allow" /\ HasConflictPolicy => Agreement(candidates)
         /\ ConflictGate(Agreement(candidates)) = "ask" => HasConflictApprover
<1>1. CASE ~HasConflictPolicy \/ Agreement(candidates)
  <2>1. ConflictGate(Agreement(candidates)) = "allow"
    BY <1>1 DEF ConflictGate
  <2> QED
    BY <1>1, <2>1
<1>2. CASE ~(~HasConflictPolicy \/ Agreement(candidates))
  <2>1. ConflictGate(Agreement(candidates)) = IF HasConflictApprover THEN "ask" ELSE "block"
    BY <1>2 DEF ConflictGate
  <2>2. HasConflictApprover \in BOOLEAN
    BY GatesAssumption
  <2> QED
    BY <2>1, <2>2
<1> QED
  BY <1>1, <1>2

LEMMA HandlerReturnsSettled ==
  ASSUME TypeOK, AnsweredOnce, NEW c \in Calls, ConflictInv(c),
         NEW i \in DOMAIN replies[c], NEW x \in Returns, HandlerReturns(c, i, x)
  PROVE  ConflictInv(c)'
<1> DEFINE rs == [replies[c] EXCEPT ![i] = Handle(pool[c][i], request[c].objective, x)]
<1>1. /\ Envelopes(c, "result") = {} /\ UNCHANGED <<request, pool, approvals>>
      /\ pc[c] = "handling" /\ DOMAIN pc = Calls /\ DOMAIN replies = Calls
      /\ DOMAIN replies[c] = DOMAIN pool[c]
  BY NoResultYet DEF HandlerReturns, TypeOK, PoolType
<1>2. replies'[c] = rs /\ DOMAIN rs = DOMAIN pool[c]
  BY <1>1 DEF HandlerReturns
<1>3. \/ UNCHANGED <<records, pc>>
      \/ request[c].operation = "route" /\ FinishRoute(c, i, rs[i])
      \/ FinishDebate(c, rs)
  BY DEF HandlerReturns
<1> HIDE DEF rs
<1>4. Single(c)'
  BY <1>1 DEF ConflictInv, Single
<1>5. GivenOutputs(c)' = {rs[j].output : j \in Answered(rs)}
  BY <1>2 DEF GivenOutputs, Answered
<1>6. ASSUME UNCHANGED trace, pc'[c] # "conflict" \/ HasConflictApprover PROVE ConflictInv(c)'
  <2>1. Envelopes(c, "result")' = {}
    BY <1>1, <1>6, ResultsOf
  <2> QED
    BY <1>4, <1>6, <2>1 DEF ConflictInv, Settled, Reviewed
<1>7. ASSUME NEW code \in ErrorCodes, Conclude(c, <<ErrorEnvelope(CORE, c, code)>>)
      PROVE  ConflictInv(c)'
  <2> DEFINE env == ErrorEnvelope(CORE, c, code)
  <2>1. env \in EnvelopeType /\ env.message_type # "result"
    BY EnvelopeTypes DEF ErrorEnvelope, Envelope
  <2>2. trace' = trace \o <<env>> /\ pc'[c] = "done"
    BY <1>1, <1>7 DEF Conclude, Record, Finish
  <2> HIDE DEF env
  <2>3. <<env>> \in Seq(EnvelopeType) /\ \A k \in 1..Len(<<env>>) : <<env>>[k].message_type # "result"
    BY <2>1
  <2>4. Envelopes(c, "result")' = {}
    BY <1>1, <2>2, <2>3, StaysResultless
  <2> QED
    BY <1>4, <2>2, <2>4 DEF ConflictInv, Settled, Reviewed
<1>8. CASE UNCHANGED <<records, pc>>
  BY <1>1, <1>6, <1>8 DEF records
<1>9. CASE request[c].operation = "route" /\ FinishRoute(c, i, rs[i])
  <2>1. \A j, k \in DOMAIN rs : j = k
    BY <1>2, <1>9 DEF ConflictInv, Single
  <2>2. \A o, p \in GivenOutputs(c)' : o = p
    BY <1>5, <2>1 DEF Answered
  <2>3. pc'[c] \in {"done", "escaped"}
    BY <1>1, <1>9 DEF FinishRoute, Conclude, Finish, Escape
  <2> QED
    BY <1>4, <2>2, <2>3 DEF ConflictInv, Settled, Reviewed
<1>10. CASE Arbitrate(c, rs)
  <2> DEFINE gate == ConflictGate(Agreement(Candidates(c, rs)))
  <2>1. \/ gate = "allow" /\ pc' = [pc EXCEPT ![c] = "done"]
        \/ Conclude(c, <<ErrorEnvelope(CORE, c, "conflict_not_approved")>>)
        \/ gate = "ask" /\ UNCHANGED trace
    BY <1>10 DEF Arbitrate, Award, Conclude, Finish
  <2> HIDE DEF gate
  <2>2. CASE gate = "allow" /\ pc' = [pc EXCEPT ![c] = "done"]
    <3>1. HasConflictPolicy => Agreement(Candidates(c, rs))
      BY <2>2, ConflictGateAnswers DEF gate
    <3>2. HasConflictPolicy => \A o, p \in GivenOutputs(c)' : o = p
      BY <1>5, <3>1 DEF Agreement, Candidates
    <3>3. pc'[c] = "done"
      BY <1>1, <2>2
    <3> QED
      BY <1>4, <3>2, <3>3 DEF ConflictInv, Settled, Reviewed
  <2>3. CASE gate = "ask" /\ UNCHANGED trace
    BY <1>6, <2>3, ConflictGateAnswers DEF gate
  <2> QED
    BY <1>7, <2>1, <2>2, <2>3 DEF ErrorCodes
<1>11. CASE FinishDebate(c, rs)
  <2>1. \/ Escape(c) /\ UNCHANGED records
        \/ Conclude(c, <<ErrorEnvelope(CORE, c, "no_usable_candidate")>>)
        \/ Conclude(c, <<ErrorEnvelope(CORE, c, "quorum_not_met")>>)
        \/ Arbitrate(c, rs)
    BY <1>11 DEF FinishDebate
  <2>2. CASE Escape(c) /\ UNCHANGED records
    <3>1. pc'[c] = "escaped" /\ UNCHANGED trace
      BY <1>1, <2>2 DEF Escape, records
    <3> QED
      BY <1>6, <3>1
  <2> QED
    BY <1>7, <1>10, <2>1, <2>2 DEF ErrorCodes
<1> QED
  BY <1>3, <1>8, <1>9, <1>11

LEMMA NextConflict ==
  TypeOK /\ AnsweredOnce /\ (\A c \in Calls : ConflictInv(c)) /\ [Next]_vars
    => (\A c \in Calls : ConflictInv(c))'
<1> SUFFICES ASSUME TypeOK, AnsweredOnce, \A c \in Calls : ConflictInv(c), [Next]_vars,
                    NEW d \in Calls
             PROVE  ConflictInv(d)'
  OBVIOUS
<1>1. CASE UNCHANGED <<trace, pc, request, pool, replies, approvals>>
  <2>1. Envelopes(d, "result")' = Envelopes(d, "result")
    BY <1>1 DEF Envelopes
  <2>2. GivenOutputs(d)' = GivenOutputs(d)
    BY <1>1 DEF GivenOutputs, Answered
  <2>3. ConflictInv(d)
    OBVIOUS
  <2> QED
    BY <1>1, <2>1, <2>2, <2>3 DEF ConflictInv, Settled, Reviewed, Single
<1>2. ASSUME NEW c \in Calls, Submit(c) \/ Proceed(c) PROVE ConflictInv(d)'
  <2>1. Shape(c) /\ Elsewhere(c)
    BY <1>2, SubmitShape, ProceedShape, StepElsewhere
  <2>2. CASE d # c
    BY <2>1, <2>2, OthersSettled
  <2>3. CASE d = c
    BY <1>2, <2>3, SubmitSettled, RiskSettled, ReviewSettled, HandlerReturnsSettled DEF Proceed
  <2> QED
    BY <2>2, <2>3
<1> QED
  BY <1>1, <1>2 DEF Next, vars, Register, Unregister, AddHandler, records

(* conflict_policy.py:9, for any number of calls, agents, answers and       *)
(* approvers: candidates that disagree lead to a result only if somebody    *)
(* was there to accept the verdict and did.                                *)
THEOREM ConflictGateHolds == Spec => []GatedByConflictPolicy
<1>1. Init => \A c \in Calls : ConflictInv(c)
  BY DEF Init, ConflictInv, Settled, Reviewed, Single, Envelopes
<1>2. (\A c \in Calls : ConflictInv(c)) => GatedByConflictPolicy
  BY DEF ConflictInv, Settled, GatedByConflictPolicy
<1> QED
  BY <1>1, <1>2, NextConflict, TypeCorrect, AnsweredOnceHolds, PTL DEF Spec
-----------------------------------------------------------------------------
(***************************************************************************)
(* Whom a call is dispatched to.  A pool changes only when a call starts    *)
(* its handlers, and what it changes to is read from the registry of that   *)
(* step.                                                                   *)
(***************************************************************************)
(* The positions a dispatch of c may start with. *)
Chosen(c, positions) ==
  \/ /\ request[c].operation = "debate"
     /\ positions = Capped(request[c], Capable(request[c]))
  \/ /\ request[c].operation = "route"
     /\ \E i \in Preferred(FindByObjective(request[c].objective)) : positions = {i}

LEMMA DispatchStarts ==
  ASSUME NEW c \in Calls, NEW before, Dispatch(c, request[c], before)
  PROVE  UNCHANGED pool \/ \E positions : Chosen(c, positions) /\ Start(c, positions)
BY DEF Dispatch, Refuse, StartRoute, StartDebate, DebateNobody, RankingRaises, Chosen

LEMMA PoolMoves ==
  ASSUME [Next]_vars
  PROVE  \/ UNCHANGED pool
         \/ \E c \in Calls : \E positions :
              /\ pc[c] \in {"idle", "approval"}
              /\ Chosen(c, positions) /\ Start(c, positions)
              /\ UNCHANGED <<registry, handlers, request>>
<1>1. ASSUME NEW c \in Calls, Submit(c) \/ ApproveRisk(c)
      PROVE  \/ UNCHANGED pool
             \/ \E positions : /\ pc[c] \in {"idle", "approval"}
                               /\ Chosen(c, positions) /\ Start(c, positions)
                               /\ UNCHANGED <<registry, handlers, request>>
  <2>1. UNCHANGED <<registry, handlers, request>> /\ pc[c] \in {"idle", "approval"}
    BY <1>1 DEF Submit, ApproveRisk
  <2>2. UNCHANGED pool \/ \E before : Dispatch(c, request[c], before)
    BY <1>1 DEF Submit, ApproveRisk, Refuse
  <2> QED
    BY <2>1, <2>2, DispatchStarts
<1>2. ASSUME NEW c \in Calls, Proceed(c), ~ApproveRisk(c) PROVE UNCHANGED pool
  BY <1>2 DEF Proceed, DenyRisk, Refuse, HandlerReturns, ApproveConflict, DenyConflict, ApproverRaises
<1>3. CASE UNCHANGED vars
  BY <1>3 DEF vars
<1>4. CASE \/ \E a \in Joins : Register(a)
           \/ \E id \in Leaves : Unregister(id)
           \/ \E p \in LateHandlers : AddHandler(p[1], p[2])
  BY <1>4 DEF Register, Unregister, AddHandler
<1> QED
  BY <1>1, <1>2, <1>3, <1>4 DEF Next

LEMMA PreferredIsCandidate ==
  ASSUME NEW positions PROVE Preferred(positions) \subseteq positions
BY DEF Preferred, First, FirstMaximal

(* Every chosen position holds a registered agent with the handler, which  *)
(* is one of those asked for.                                              *)
LEMMA ChosenAreCapable ==
  ASSUME TypeOK, NEW c \in Calls, NEW positions, Chosen(c, positions)
  PROVE  positions \subseteq Capable(request[c])
<1>1. request[c] \in Requests
  BY DEF TypeOK
<1>2. CASE request[c].operation = "debate"
  BY <1>2 DEF Chosen, Capped
<1>3. CASE request[c].operation = "route"
  <2>1. request[c].agent_ids = None
    BY <1>1, <1>3, CoreAssumption
  <2>2. positions \subseteq FindByObjective(request[c].objective)
    BY <1>3, PreferredIsCandidate DEF Chosen
  <2> QED
    BY <2>1, <2>2 DEF Capable
<1> QED
  BY <1>2, <1>3 DEF Chosen

LEMMA PreferredIsBest ==
  ASSUME NEW positions, IsFiniteSet(positions), HasTrust,
         NEW i \in Preferred(positions), NEW k \in positions \ {i}
  PROVE  ~Less(Score(IdOf[registry[i]]), Score(IdOf[registry[k]]))
<1>1. i \in positions
  BY PreferredIsCandidate
<1>2. Cardinality(positions) > 1
  <2>1. Cardinality({i, k}) = 2 /\ {i, k} \subseteq positions
    <3> DEFINE one == {i}
    <3>1. IsFiniteSet(one) /\ Cardinality(one) = 1 /\ k \notin one
      BY FS_Singleton
    <3>3. one \cup {k} = {i, k}
      OBVIOUS
    <3> HIDE DEF one
    <3>2. Cardinality(one \cup {k}) = Cardinality(one) + 1
      BY <3>1, FS_AddElement
    <3> QED
      BY <1>1, <3>1, <3>2, <3>3
  <2>2. 2 <= Cardinality(positions) /\ Cardinality(positions) \in Nat
    BY <2>1, FS_Subset, FS_CardinalityType
  <2> QED
    BY <2>2
<1> DEFINE score == [j \in positions |-> Score(IdOf[registry[j]])]
<1>3. i \in FirstMaximal(score, LAMBDA a, b : Less(b, a))
  BY <1>2 DEF Preferred
<1>4. ~Less(score[i], score[k])
  BY <1>3 DEF FirstMaximal
<1> QED
  BY <1>1, <1>4

(* route() picks no agent while another capable one is trusted more, for    *)
(* any registry, history and recurrences.                                  *)
THEOREM RoutedToMostTrustedHolds == Spec => RoutedToMostTrusted
<1>1. ASSUME TypeOK, [Next]_vars
      PROVE  [\A c \in Calls :
               HasTrust /\ request[c].operation = "route" /\ pool'[c] # pool[c] =>
                 \A i \in DOMAIN pool'[c] : \A k \in DOMAIN registry \ {i} :
                   request[c].objective \in handlers[registry[k]] =>
                     ~Less(Score(IdOf[pool'[c][i]]), Score(IdOf[registry[k]]))]_vars
  <2>1. CASE UNCHANGED pool
    BY <2>1
  <2>2. ASSUME NEW d \in Calls, NEW positions, Chosen(d, positions), Start(d, positions),
               NEW c \in Calls, HasTrust, request[c].operation = "route", pool'[c] # pool[c],
               NEW i \in DOMAIN pool'[c], NEW k \in DOMAIN registry \ {i},
               request[c].objective \in handlers[registry[k]]
        PROVE  ~Less(Score(IdOf[pool'[c][i]]), Score(IdOf[registry[k]]))
    <3>1. DOMAIN pool = Calls
      BY <1>1 DEF TypeOK, PoolType
    <3>2. d = c /\ pool'[c] = [j \in positions |-> registry[j]]
      BY <2>2, <3>1 DEF Start
    <3> DEFINE capable == FindByObjective(request[c].objective)
    <3>3. i \in Preferred(capable) /\ pool'[c][i] = registry[i]
      BY <2>2, <3>2 DEF Chosen
    <3>4. k \in capable \ {i}
      BY <2>2 DEF FindByObjective
    <3>5. IsFiniteSet(capable)
      <4>1. DOMAIN registry = 1..Len(registry) /\ Len(registry) \in Nat
        BY <1>1 DEF TypeOK
      <4>2. IsFiniteSet(1..Len(registry)) /\ capable \in SUBSET (1..Len(registry))
        BY <4>1, FS_Interval DEF FindByObjective
      <4> QED
        BY <4>2, FS_Subset
    <3> HIDE DEF capable
    <3>6. ~Less(Score(IdOf[registry[i]]), Score(IdOf[registry[k]]))
      BY <2>2, <3>3, <3>4, <3>5, PreferredIsBest
    <3> QED
      BY <3>3, <3>6
  <2> QED
    BY <1>1, <2>1, <2>2, PoolMoves
<1> QED
  BY <1>1, TypeCorrect, PTL DEF Spec, RoutedToMostTrusted
-----------------------------------------------------------------------------
(***************************************************************************)
(* debate()'s limits on the pool.                                          *)
(***************************************************************************)
(* pool[:m] leaves no more than m.  Counting those before it numbers what  *)
(* is left from 0 to m - 1.                                                *)
LEMMA CapHolds ==
  ASSUME NEW n \in Nat, NEW positions \in SUBSET (1..n), NEW r, NEW m \in Nat, r.max_candidates = m
  PROVE  m # None => Cardinality(Capped(r, positions)) <= m
<1> SUFFICES ASSUME m # None PROVE Cardinality(Capped(r, positions)) <= m
  OBVIOUS
<1> DEFINE before(i) == {j \in positions : j < i}
           left == Capped(r, positions)
           number == [i \in left |-> Cardinality(before(i))]
<1>1. \A i \in 1..n : IsFiniteSet(before(i)) /\ Cardinality(before(i)) \in Nat
  <2>1. \A i \in 1..n : before(i) \in SUBSET (1..n)
    OBVIOUS
  <2>2. IsFiniteSet(1..n)
    BY FS_Interval
  <2> HIDE DEF before
  <2> QED
    BY <2>1, <2>2, FS_Subset, FS_CardinalityType
<1>2. left \subseteq 1..n /\ left \subseteq positions
  BY DEF Capped
<1>3. number \in [left -> 0..m-1]
  <2>1. ASSUME NEW i \in left PROVE Cardinality(before(i)) \in 0..m-1
    <3>1. Cardinality(before(i)) < m
      BY DEF Capped
    <3> QED
      BY <1>1, <1>2, <3>1
  <2> QED
    BY <2>1
<1>4. ASSUME NEW i \in left, NEW k \in left, i < k PROVE number[i] < number[k]
  <2>1. before(i) \in SUBSET before(k) /\ i \in before(k) /\ i \notin before(i)
    <3>1. i \in positions /\ i \in Int /\ k \in Int /\ positions \subseteq Int
      BY <1>2
    <3> HIDE DEF left
    <3>2. \A j \in positions : j < i => j < k
      BY <1>4, <3>1
    <3>3. i < k /\ ~(i < i)
      BY <1>4, <3>1
    <3> QED
      BY <3>1, <3>2, <3>3
  <2>2. before(i) # before(k) /\ IsFiniteSet(before(k))
    BY <1>1, <1>2, <2>1
  <2>3. Cardinality(before(i)) # Cardinality(before(k)) /\ Cardinality(before(i)) <= Cardinality(before(k))
    BY <2>1, <2>2, FS_Subset
  <2>4. Cardinality(before(i)) \in Nat /\ Cardinality(before(k)) \in Nat
    BY <1>1, <1>2
  <2> HIDE DEF before
  <2> QED
    BY <2>3, <2>4
<1>5. number \in Injection(left, 0..m-1)
  <2>1. \A i, k \in left : number[i] = number[k] => i = k
    <3>1. \A i \in left : i \in Int /\ number[i] \in Int
      BY <1>2, <1>3
    <3> HIDE DEF number, left
    <3> QED
      BY <1>4, <3>1
  <2> HIDE DEF number, left
  <2> QED
    BY <1>3, <2>1 DEF Injection, IsInjective
<1>6. IsFiniteSet(0..m-1) /\ Cardinality(0..m-1) = m
  <2>1. m - 1 \in Int /\ (m - 1) - 0 + 1 = m /\ (0 > m - 1 => m = 0)
    OBVIOUS
  <2> QED
    BY <2>1, FS_Interval
<1> HIDE DEF number, left
<1>7. Cardinality(left) <= Cardinality(0..m-1)
  BY <1>5, <1>6, FS_Injection
<1> QED
  BY <1>6, <1>7 DEF left
-----------------------------------------------------------------------------
(***************************************************************************)
(* The invariant.  What a result rests on is settled when its debate ends,  *)
(* which may be long before it is recorded, while the conflict approver     *)
(* decides; and the edges of a call are written in up to three steps.       *)
(***************************************************************************)
(* What the properties ask of the answer of position i, if it is recorded. *)
Eligible(c, i) ==
  /\ i \in DOMAIN pool[c]
  /\ replies[c][i].kind = "answered"
  /\ \/ \A o, p \in GivenOutputs(c) : o = p
     \/ \A j \in DOMAIN pool[c] :
          replies[c][j].kind = "answered" =>
            ~Less(StrengthOf(replies[c][i]), StrengthOf(replies[c][j]))
  /\ Quorate(c, replies[c])

Elected(c, i) == Eligible(c, i) /\ (HasGraph => Produced(c, i, replies[c][i]) \subseteq graph)

Speaks(c, i, env) ==
  /\ env.sender = IdOf[pool[c][i]]
  /\ env.output = replies[c][i].output
  /\ env.evidence = replies[c][i].evidence

ResultInv(c) ==
  /\ pc[c] = "conflict" => Elected(c, verdict[c])
  /\ \A k \in Envelopes(c, "result") : \E i \in DOMAIN pool[c] : Elected(c, i) /\ Speaks(c, i, trace[k])

(* A route() writes its routed_to edge when it starts its handler, a        *)
(* debate() when all of its handlers are done.                             *)
IsRouted(c) ==
  \/ pc[c] \in {"conflict", "done"}
  \/ pc[c] = "handling" /\ request[c].operation = "route"

(* The pool keeps to the limits, and once routed is in the graph.           *)
PoolInv(c) ==
  /\ request[c].max_candidates # None => Cardinality(DOMAIN pool[c]) <= request[c].max_candidates
  /\ request[c].agent_ids # None => \A i \in DOMAIN pool[c] : IdOf[pool[c][i]] \in request[c].agent_ids
  /\ pc[c] \in {"idle", "approval"} => DOMAIN pool[c] = {}
  /\ pc[c] = "conflict" => request[c].operation = "debate"
  /\ HasGraph /\ IsRouted(c)
       => \A i \in DOMAIN pool[c] : <<TaskNode(c), "routed_to", IdOf[pool[c][i]]>> \in graph

(* Who won produced a result, who produced one was routed the task.        *)
EdgesInv ==
  /\ ~HasGraph => graph = {}
  /\ \A c \in Calls, id \in AgentIds :
       LET t == request[c].task_id
       IN  /\ <<t, "won", id>> \in graph => <<id, "produced_result", t>> \in graph
           /\ <<id, "produced_result", t>> \in graph => <<t, "routed_to", id>> \in graph

RecordsInv ==
  /\ \A c \in Calls : ConflictInv(c) /\ ResultInv(c) /\ PoolInv(c)
  /\ EdgesInv
  /\ WonIsRecorded
-----------------------------------------------------------------------------
(***************************************************************************)
(* What a step of call c may do to the records: start handlers, nothing,    *)
(* write the edges of a debate that has no result yet, or award a result.   *)
(***************************************************************************)
NoResultNow(c) == Envelopes(c, "result")' = {} /\ UNCHANGED request

Starts(c) ==
  /\ NoResultNow(c)
  /\ \E positions :
       /\ Chosen(c, positions) /\ Start(c, positions)
       /\ AddEdges(IF request[c].operation = "debate" THEN {}
                   ELSE {<<TaskNode(c), "routed_to", IdOf[registry[i]]>> : i \in positions})

Quiet(c) ==
  /\ NoResultNow(c) /\ UNCHANGED <<graph, pool>>
  /\ pc'[c] \notin {"idle", "conflict"}
  /\ pc'[c] = "approval" => pc[c] = "idle"
  /\ pc'[c] = "handling" => pc[c] = "handling"
  /\ pc'[c] = "done" => pc[c] \in {"idle", "approval"} \/ IsRouted(c)

DebateEnds(c) ==
  /\ NoResultNow(c) /\ UNCHANGED pool
  /\ request[c].operation = "debate" /\ DOMAIN replies'[c] = DOMAIN pool[c]
  /\ AddEdges(DebateEdges(c, replies'[c]))
  /\ \/ pc'[c] = "done"
     \/ pc'[c] = "conflict" /\ Eligible(c, verdict[c])'

WonEdge(c, w) == {<<TaskNode(c), "won", IdOf[pool[c][w]]>>}

(* The edges written with the result of position w. *)
AwardEdges(c, w) ==
  \/ /\ pc[c] = "handling" /\ request[c].operation = "route" /\ Eligible(c, w)'
     /\ AddEdges(Produced(c, w, replies'[c][w]))
  \/ /\ pc[c] = "handling" /\ request[c].operation = "debate" /\ Eligible(c, w)'
     /\ AddEdges(DebateEdges(c, replies'[c]) \cup WonEdge(c, w))
  \/ /\ pc[c] = "conflict" /\ w = verdict[c] /\ UNCHANGED replies
     /\ AddEdges(WonEdge(c, w))

Awards(c) ==
  /\ UNCHANGED <<request, pool>> /\ DOMAIN replies'[c] = DOMAIN pool[c] /\ pc'[c] = "done"
  /\ \E w \in DOMAIN pool[c] :
       /\ AwardEdges(c, w)
       /\ Record(<<ResultEnvelope(pool[c][w], c, replies'[c][w])>>)

Kind(c) == Starts(c) \/ Quiet(c) \/ DebateEnds(c) \/ Awards(c)

LEMMA DispatchKind ==
  ASSUME TypeOK, NEW c \in Calls, Envelopes(c, "result") = {}, UNCHANGED request,
         pc[c] \in {"idle", "approval"},
         NEW before \in Seq(EnvelopeType), \A k \in 1..Len(before) : before[k].message_type # "result",
         Dispatch(c, request[c], before)
  PROVE  Kind(c)
<1>1. DOMAIN pc = Calls
  BY DEF TypeOK
<1>2. ASSUME NEW code \in ErrorCodes, Refuse(c, before, code) PROVE Kind(c)
  <2>1. Envelopes(c, "result")' = {}
    BY <1>2, RefuseResultless
  <2>2. pc'[c] = "done" /\ UNCHANGED <<graph, pool>>
    BY <1>1, <1>2 DEF Refuse, Conclude, Finish
  <2> QED
    BY <2>1, <2>2 DEF Kind, Quiet, NoResultNow
<1>3. ASSUME Record(before) PROVE NoResultNow(c)
  BY <1>3, StaysResultless DEF Record, NoResultNow
<1>4. CASE request[c].operation = "route" /\ StartRoute(c, request[c], before)
  <2>1. PICK i \in Preferred(FindByObjective(request[c].objective)) :
          /\ Start(c, {i}) /\ Record(before)
          /\ AddEdges({<<TaskNode(c), "routed_to", IdOf[registry[i]]>>})
    BY <1>4 DEF StartRoute, TaskNode
  <2> DEFINE one == {i}
  <2>2. {<<TaskNode(c), "routed_to", IdOf[registry[j]]>> : j \in one}
          = {<<TaskNode(c), "routed_to", IdOf[registry[i]]>>}
    OBVIOUS
  <2>3. Chosen(c, one)
    BY <1>4 DEF Chosen
  <2> QED
    BY <1>3, <1>4, <2>1, <2>2, <2>3 DEF Kind, Starts
<1>5. CASE request[c].operation = "debate" /\ StartDebate(c, request[c], before)
  <2>1. graph \cup {} = graph
    OBVIOUS
  <2> QED
    BY <1>3, <1>5, <2>1 DEF StartDebate, Chosen, AddEdges, Kind, Starts
<1>6. CASE Escape(c) /\ Record(before) /\ UNCHANGED <<graph, pool>>
  <2>1. pc'[c] = "escaped"
    BY <1>1, <1>6 DEF Escape
  <2> QED
    BY <1>3, <1>6, <2>1 DEF Kind, Quiet
<1> QED
  BY <1>2, <1>4, <1>5, <1>6 DEF Dispatch, DebateNobody, RankingRaises, ErrorCodes

LEMMA SubmitKind ==
  ASSUME TypeOK, AnsweredOnce, NEW c \in Calls, Submit(c) PROVE Kind(c)
<1> DEFINE task == <<TaskEnvelope(c)>>
<1>1. task \in Seq(EnvelopeType) /\ \A k \in 1..Len(task) : task[k].message_type # "result"
  <2>1. TaskEnvelope(c) \in EnvelopeType /\ TaskEnvelope(c).message_type = "task"
    BY EnvelopeShapes DEF TaskOf
  <2> QED
    BY <2>1
<1>2. /\ Envelopes(c, "result") = {} /\ UNCHANGED request
      /\ DOMAIN pc = Calls /\ pc[c] = "idle"
  BY NoResultYet DEF Submit, TypeOK
<1>3. \/ Dispatch(c, request[c], task)
      \/ Refuse(c, task, "policy_blocked")
      \/ pc' = [pc EXCEPT ![c] = "approval"] /\ Record(task) /\ UNCHANGED <<graph, pool>>
  BY DEF Submit
<1> HIDE DEF task
<1>4. CASE Dispatch(c, request[c], task)
  BY <1>1, <1>2, <1>4, DispatchKind
<1>5. CASE Refuse(c, task, "policy_blocked")
  <2>1. Envelopes(c, "result")' = {}
    BY <1>1, <1>2, <1>5, RefuseResultless DEF ErrorCodes
  <2>2. pc'[c] = "done" /\ UNCHANGED <<graph, pool>>
    BY <1>2, <1>5 DEF Refuse, Conclude, Finish
  <2> QED
    BY <1>2, <2>1, <2>2 DEF Kind, Quiet, NoResultNow
<1>6. CASE pc' = [pc EXCEPT ![c] = "approval"] /\ Record(task) /\ UNCHANGED <<graph, pool>>
  <2>1. Envelopes(c, "result")' = {}
    BY <1>1, <1>2, <1>6, StaysResultless DEF Record
  <2> QED
    BY <1>2, <1>6, <2>1 DEF Kind, Quiet, NoResultNow
<1> QED
  BY <1>3, <1>4, <1>5, <1>6

LEMMA RiskKind ==
  ASSUME TypeOK, AnsweredOnce, NEW c \in Calls, ApproveRisk(c) \/ DenyRisk(c) PROVE Kind(c)
<1>1. /\ Envelopes(c, "result") = {} /\ UNCHANGED request /\ DOMAIN pc = Calls /\ pc[c] = "approval"
  BY NoResultYet DEF ApproveRisk, DenyRisk, TypeOK
<1>2. <<>> \in Seq(EnvelopeType) /\ \A k \in 1..Len(<<>>) : <<>>[k].message_type # "result"
  OBVIOUS
<1>3. CASE ApproveRisk(c)
  BY <1>1, <1>2, <1>3, DispatchKind DEF ApproveRisk
<1>4. CASE DenyRisk(c)
  <2>1. Envelopes(c, "result")' = {}
    BY <1>1, <1>2, <1>4, RefuseResultless DEF DenyRisk, ErrorCodes
  <2>2. pc'[c] = "done" /\ UNCHANGED <<graph, pool>>
    BY <1>1, <1>4 DEF DenyRisk, Refuse, Conclude, Finish
  <2> QED
    BY <1>1, <2>1, <2>2 DEF Kind, Quiet, NoResultNow
<1> QED
  BY <1>3, <1>4

LEMMA ErrorIsNoResult ==
  ASSUME TypeOK, NEW c \in Calls, Envelopes(c, "result") = {},
         NEW sender \in AgentIds \cup {CORE}, NEW code \in ErrorCodes,
         Conclude(c, <<ErrorEnvelope(sender, c, code)>>)
  PROVE  Envelopes(c, "result")' = {} /\ pc'[c] = "done"
<1> DEFINE env == ErrorEnvelope(sender, c, code)
<1>1. env \in EnvelopeType /\ env.message_type # "result"
  BY EnvelopeTypes DEF ErrorEnvelope, Envelope
<1>2. trace' = trace \o <<env>> /\ pc'[c] = "done"
  BY DEF Conclude, Record, Finish, TypeOK
<1> HIDE DEF env
<1>3. <<env>> \in Seq(EnvelopeType) /\ \A k \in 1..Len(<<env>>) : <<env>>[k].message_type # "result"
  BY <1>1
<1> QED
  BY <1>2, <1>3, StaysResultless

LEMMA ReviewKind ==
  ASSUME TypeOK, AnsweredOnce, NEW c \in Calls,
         ApproveConflict(c) \/ DenyConflict(c) \/ ApproverRaises(c)
  PROVE  Kind(c)
<1>1. /\ Envelopes(c, "result") = {} /\ UNCHANGED <<request, pool>> /\ DOMAIN pc = Calls
      /\ pc[c] \in {"approval", "conflict"}
  BY NoResultYet DEF ApproveConflict, DenyConflict, ApproverRaises, TypeOK
<1>2. CASE ApproveConflict(c)
  <2>1. /\ verdict[c] \in DOMAIN pool[c] /\ DOMAIN replies[c] = DOMAIN pool[c]
        /\ pc[c] = "conflict" /\ UNCHANGED replies
    BY <1>2 DEF ApproveConflict, TypeOK, VerdictType, PoolType
  <2>2. /\ AddEdges({} \cup WonEdge(c, verdict[c])) /\ pc'[c] = "done"
        /\ Record(<<ResultEnvelope(pool[c][verdict[c]], c, replies[c][verdict[c]])>>)
    BY <1>1, <1>2 DEF ApproveConflict, Award, Conclude, Finish, WonEdge
  <2>3. AwardEdges(c, verdict[c])
    BY <2>1, <2>2 DEF AwardEdges
  <2> QED
    BY <1>1, <2>1, <2>2, <2>3 DEF Kind, Awards
<1>3. CASE DenyConflict(c)
  <2>1. /\ Conclude(c, <<ErrorEnvelope(CORE, c, "conflict_not_approved")>>)
        /\ UNCHANGED graph /\ pc[c] = "conflict"
    BY <1>3 DEF DenyConflict
  <2>2. Envelopes(c, "result")' = {} /\ pc'[c] = "done"
    BY <1>1, <2>1, ErrorIsNoResult DEF ErrorCodes
  <2> QED
    BY <1>1, <2>1, <2>2 DEF Kind, Quiet, NoResultNow, IsRouted
<1>4. CASE ApproverRaises(c)
  <2>1. Envelopes(c, "result")' = {} /\ UNCHANGED graph /\ pc'[c] = "escaped"
    BY <1>1, <1>4, ResultsOf DEF ApproverRaises, records, Escape
  <2> QED
    BY <1>1, <2>1 DEF Kind, Quiet, NoResultNow
<1> QED
  BY <1>2, <1>3, <1>4

(* Whom arbitrate() elects answered, and in a disagreement nobody who did   *)
(* has the stronger evidence.                                              *)
LEMMA WinnersAreBest ==
  ASSUME NEW c, NEW rs, NEW history, NEW w \in Winners(Candidates(c, rs), history)
  PROVE  /\ w \in Answered(rs)
         /\ \/ \A i, j \in Answered(rs) : rs[i].output = rs[j].output
            \/ \A j \in Answered(rs) : ~Less(StrengthOf(rs[w]), StrengthOf(rs[j]))
<1> DEFINE cs == Candidates(c, rs)
           ds == Descriptions(cs, history)
<1>1. /\ DOMAIN cs = Answered(rs)
      /\ \A i \in Answered(rs) : cs[i].output = rs[i].output /\ cs[i].evidence = rs[i].evidence
  BY DEF Candidates
<1> HIDE DEF cs
<1>2. /\ DOMAIN ds = Answered(rs)
      /\ \A i \in Answered(rs) : ds[i].strength = StrengthOf(rs[i])
  BY <1>1 DEF Descriptions, Describe, StrengthOf
<1>3. CASE Agreement(cs)
  <2>1. w \in First(DOMAIN cs)
    BY <1>3 DEF Winners, cs
  <2> QED
    BY <1>1, <1>3, <2>1 DEF Agreement, First
<1>4. CASE ~Agreement(cs)
  <2>1. w \in FirstMaximal(ds, Outranks)
    BY <1>4 DEF Winners, cs
  <2>2. w \in DOMAIN ds /\ \A j \in DOMAIN ds : ~Outranks(ds[j], ds[w])
    BY <2>1 DEF FirstMaximal
  <2>3. \A j \in DOMAIN ds : ~Less(ds[w].strength, ds[j].strength)
    BY <2>2 DEF Outranks
  <2> HIDE DEF ds
  <2> QED
    BY <1>2, <2>2, <2>3
<1> QED
  BY <1>3, <1>4

LEMMA HandlerKind ==
  ASSUME TypeOK, AnsweredOnce, NEW c \in Calls, ConflictInv(c),
         NEW i \in DOMAIN replies[c], NEW x \in Returns, HandlerReturns(c, i, x)
  PROVE  Kind(c)
<1> DEFINE rs == [replies[c] EXCEPT ![i] = Handle(pool[c][i], request[c].objective, x)]
<1>1. /\ Envelopes(c, "result") = {} /\ UNCHANGED <<request, pool>>
      /\ pc[c] = "handling" /\ DOMAIN pc = Calls /\ DOMAIN replies = Calls
      /\ DOMAIN replies[c] = DOMAIN pool[c] /\ DOMAIN verdict = Calls
  BY NoResultYet DEF HandlerReturns, TypeOK, PoolType, VerdictType
<1>2. replies'[c] = rs /\ DOMAIN rs = DOMAIN pool[c]
  BY <1>1 DEF HandlerReturns
<1>3. \/ UNCHANGED <<records, pc>>
      \/ request[c].operation = "route" /\ FinishRoute(c, i, rs[i])
      \/ request[c].operation = "debate" /\ FinishDebate(c, rs)
  BY DEF HandlerReturns
<1>4. IdOf[pool[c][i]] \in AgentIds
  BY <1>1, CoreAssumption DEF TypeOK, PoolType
<1> HIDE DEF rs
<1>5. GivenOutputs(c)' = {rs[j].output : j \in Answered(rs)} /\ Quorate(c, replies[c])' = Quorate(c, rs)
  BY <1>1, <1>2 DEF GivenOutputs, Answered, Quorate
<1>6. ASSUME UNCHANGED records, pc'[c] \in {"handling", "escaped"} PROVE Kind(c)
  <2>1. Envelopes(c, "result")' = {}
    BY <1>1, <1>6, ResultsOf DEF records
  <2> QED
    BY <1>1, <1>6, <2>1 DEF records, Kind, Quiet, NoResultNow
<1>7. CASE UNCHANGED <<records, pc>>
  BY <1>1, <1>6, <1>7
<1>8. CASE request[c].operation = "route" /\ FinishRoute(c, i, rs[i])
  <2>1. CASE Escape(c) /\ UNCHANGED records
    BY <1>1, <1>6, <2>1 DEF Escape
  <2>2. ASSUME NEW code \in {"task_failed", "capability_unavailable"}, UNCHANGED graph,
               Conclude(c, <<ErrorEnvelope(IdOf[pool[c][i]], c, code)>>)
        PROVE  Kind(c)
    <3>1. Envelopes(c, "result")' = {} /\ pc'[c] = "done"
      BY <1>1, <1>4, <2>2, ErrorIsNoResult DEF ErrorCodes
    <3> QED
      BY <1>1, <1>8, <2>2, <3>1 DEF Kind, Quiet, NoResultNow, IsRouted
  <2>3. CASE /\ rs[i].kind = "answered" /\ AddEdges(Produced(c, i, rs[i]))
             /\ Conclude(c, <<ResultEnvelope(pool[c][i], c, rs[i])>>)
    <3>1. Answered(rs) = {i} /\ \A o, p \in GivenOutputs(c)' : o = p
      BY <1>1, <1>2, <1>5, <1>8, <2>3 DEF ConflictInv, Single, Answered
    <3>2. Quorate(c, rs)
      <4>1. request[c] \in Requests
        BY DEF TypeOK
      <4>2. request[c].quorum = 0
        BY <1>8, <4>1, CoreAssumption
      <4>3. Cardinality({i}) = 1
        BY FS_Singleton
      <4> QED
        BY <3>1, <4>2, <4>3 DEF Quorate
    <3>3. Eligible(c, i)'
      BY <1>1, <1>2, <1>5, <2>3, <3>1, <3>2 DEF Eligible
    <3>4. AwardEdges(c, i)
      BY <1>1, <1>2, <1>8, <2>3, <3>3 DEF AwardEdges
    <3>5. pc'[c] = "done" /\ Record(<<ResultEnvelope(pool[c][i], c, rs[i])>>)
      BY <1>1, <2>3 DEF Conclude, Finish
    <3> QED
      BY <1>1, <1>2, <3>4, <3>5 DEF Kind, Awards
  <2> QED
    BY <1>8, <2>1, <2>2, <2>3 DEF FinishRoute
<1>9. ASSUME request[c].operation = "debate", AddEdges(DebateEdges(c, rs)),
             NEW code \in ErrorCodes, Conclude(c, <<ErrorEnvelope(CORE, c, code)>>)
      PROVE  Kind(c)
  <2>1. Envelopes(c, "result")' = {} /\ pc'[c] = "done"
    BY <1>1, <1>9, ErrorIsNoResult
  <2> QED
    BY <1>1, <1>2, <1>9, <2>1 DEF Kind, DebateEnds, NoResultNow
<1>10. CASE request[c].operation = "debate" /\ Quorate(c, rs) /\ Arbitrate(c, rs)
  <2>1. PICK w \in Winners(Candidates(c, rs), HistoricalEvidence) :
          /\ verdict' = [verdict EXCEPT ![c] = w]
          /\ \/ Award(c, w, rs, DebateEdges(c, rs))
             \/ /\ AddEdges(DebateEdges(c, rs))
                /\ Conclude(c, <<ErrorEnvelope(CORE, c, "conflict_not_approved")>>)
             \/ /\ AddEdges(DebateEdges(c, rs))
                /\ pc' = [pc EXCEPT ![c] = "conflict"]
                /\ UNCHANGED trace
    BY <1>10 DEF Arbitrate
  <2>2. /\ w \in Answered(rs) /\ verdict'[c] = w
        /\ \/ \A j, k \in Answered(rs) : rs[j].output = rs[k].output
           \/ \A j \in Answered(rs) : ~Less(StrengthOf(rs[w]), StrengthOf(rs[j]))
    BY <1>1, <2>1, WinnersAreBest
  <2>3. Eligible(c, w)' /\ Eligible(c, verdict[c])'
    <3>1. w \in DOMAIN pool'[c] /\ replies'[c][w].kind = "answered" /\ Quorate(c, replies[c])'
      BY <1>1, <1>2, <1>5, <1>10, <2>2 DEF Answered
    <3>2. CASE \A j, k \in Answered(rs) : rs[j].output = rs[k].output
      <4>1. \A o, p \in GivenOutputs(c)' : o = p
        BY <1>5, <3>2
      <4> QED
        BY <2>2, <3>1, <4>1 DEF Eligible
    <3>3. CASE \A j \in Answered(rs) : ~Less(StrengthOf(rs[w]), StrengthOf(rs[j]))
      <4>1. \A j \in DOMAIN pool'[c] :
              replies'[c][j].kind = "answered" =>
                ~Less(StrengthOf(replies'[c][w]), StrengthOf(replies'[c][j]))
        BY <1>1, <1>2, <3>3 DEF Answered
      <4> QED
        BY <2>2, <3>1, <4>1 DEF Eligible
    <3> QED
      BY <2>2, <3>2, <3>3
  <2>4. CASE Award(c, w, rs, DebateEdges(c, rs))
    <3>1. AwardEdges(c, w)
      BY <1>1, <1>2, <1>10, <2>3, <2>4 DEF Award, AwardEdges, WonEdge
    <3>2. pc'[c] = "done" /\ Record(<<ResultEnvelope(pool[c][w], c, rs[w])>>)
      BY <1>1, <2>4 DEF Award, Conclude, Finish
    <3> QED
      BY <1>1, <1>2, <2>2, <3>1, <3>2 DEF Kind, Awards, Answered
  <2>5. CASE /\ AddEdges(DebateEdges(c, rs))
             /\ Conclude(c, <<ErrorEnvelope(CORE, c, "conflict_not_approved")>>)
    BY <1>9, <1>10, <2>5 DEF ErrorCodes
  <2>6. CASE /\ AddEdges(DebateEdges(c, rs))
             /\ pc' = [pc EXCEPT ![c] = "conflict"]
             /\ UNCHANGED trace
    <3>1. Envelopes(c, "result")' = {} /\ pc'[c] = "conflict"
      BY <1>1, <2>6, ResultsOf
    <3> QED
      BY <1>1, <1>2, <1>10, <2>3, <2>6, <3>1 DEF Kind, DebateEnds, NoResultNow
  <2> QED
    BY <2>1, <2>4, <2>5, <2>6
<1>11. CASE request[c].operation = "debate" /\ FinishDebate(c, rs)
  <2>1. CASE Escape(c) /\ UNCHANGED records
    BY <1>1, <1>6, <2>1 DEF Escape
  <2> QED
    BY <1>9, <1>10, <1>11, <2>1 DEF FinishDebate, ErrorCodes
<1> QED
  BY <1>3, <1>7, <1>8, <1>11

LEMMA StepKind ==
  ASSUME TypeOK, AnsweredOnce, NEW c \in Calls, ConflictInv(c), Submit(c) \/ Proceed(c)
  PROVE  Kind(c)
BY SubmitKind, RiskKind, ReviewKind, HandlerKind DEF Proceed
-----------------------------------------------------------------------------
(***************************************************************************)
(* What such a step does to the envelopes and to each relation of the      *)
(* graph.                                                                  *)
(***************************************************************************)
LEMMA OthersKeepEnvelopes ==
  ASSUME TypeOK, NEW c \in Calls, Shape(c), NEW d \in Calls, d # c
  PROVE  /\ Envelopes(d, "result")' = Envelopes(d, "result")
         /\ \A k \in Envelopes(d, "result") : trace'[k] = trace[k]
<1>1. PICK envs \in Seq(EnvelopeType) :
        trace' = trace \o envs /\ \A k \in 1..Len(envs) : envs[k].call = c
  BY ShapeEnvelopes
<1>2. trace \in Seq(EnvelopeType)
  BY DEF TypeOK
<1>3. /\ In(trace, d, {"result"}) \subseteq 1..Len(trace)
      /\ In(trace', d, {"result"}) = In(trace, d, {"result"}) \cup Later(trace, envs, d, {"result"})
  BY <1>1, <1>2, InGrows
<1>4. Later(trace, envs, d, {"result"}) = {}
  BY <1>1, <1>2, NoneLater
<1>5. \A k \in 1..Len(trace) : trace'[k] = trace[k]
  BY <1>1, <1>2, ConcatProperties
<1> QED
  BY <1>3, <1>4, <1>5, ResultsOf

LEMMA AwardIsRecorded ==
  ASSUME TypeOK, NEW c \in Calls, Envelopes(c, "result") = {},
         NEW a \in Agents, NEW reply \in ReplyType, Record(<<ResultEnvelope(a, c, reply)>>)
  PROVE  /\ Envelopes(c, "result")' = {Len(trace) + 1}
         /\ trace'[Len(trace) + 1] = ResultEnvelope(a, c, reply)
<1> DEFINE env == ResultEnvelope(a, c, reply)
<1>1. env \in EnvelopeType /\ env.call = c /\ env.message_type = "result"
  BY EnvelopeTypes DEF ResultEnvelope, Envelope
<1>2. trace \in Seq(EnvelopeType) /\ trace' = trace \o <<env>> /\ Len(trace) \in Nat
  BY DEF Record, TypeOK
<1> HIDE DEF env
<1> DEFINE new == <<env>>
<1>3. new \in Seq(EnvelopeType) /\ Len(new) = 1 /\ new[1] = env /\ trace' = trace \o new
  BY <1>1, <1>2
<1>4. Later(trace, new, c, {"result"}) = {Len(trace) + 1}
  BY <1>1, <1>2, OneLater
<1> HIDE DEF new
<1>5. In(trace', c, {"result"}) = In(trace, c, {"result"}) \cup Later(trace, new, c, {"result"})
  BY <1>2, <1>3, InGrows
<1>6. Len(trace) + 1 \in Len(trace)+1 .. Len(trace)+Len(new)
  BY <1>2, <1>3
<1>7. trace'[Len(trace) + 1] = new[(Len(trace) + 1) - Len(trace)]
  BY <1>2, <1>3, <1>6, ConcatProperties
<1>8. trace'[Len(trace) + 1] = env
  BY <1>2, <1>3, <1>7
<1> QED
  BY <1>4, <1>5, <1>8, ResultsOf DEF env

LEMMA VerdictElsewhere ==
  ASSUME TypeOK, NEW c \in Calls, Submit(c) \/ Proceed(c), NEW d \in Calls, d # c
  PROVE  verdict'[d] = verdict[d]
<1>1. DOMAIN verdict = Calls
  BY DEF TypeOK, VerdictType
<1>2. ASSUME NEW before, Dispatch(c, request[c], before) PROVE UNCHANGED verdict
  BY <1>2 DEF Dispatch, Refuse, StartRoute, StartDebate, DebateNobody, RankingRaises, Start
<1>3. ASSUME NEW i \in DOMAIN replies[c], NEW x \in Returns, HandlerReturns(c, i, x)
      PROVE  UNCHANGED verdict \/ \E w : verdict' = [verdict EXCEPT ![c] = w]
  BY <1>3 DEF HandlerReturns, FinishDebate, Arbitrate
<1> QED
  BY <1>1, <1>2, <1>3 DEF Submit, Proceed, ApproveRisk, DenyRisk, Refuse, ApproveConflict,
                          DenyConflict, ApproverRaises

(* The edges of an answer, relation by relation. *)
LEMMA ProducedEdges ==
  ASSUME NEW c, NEW i, NEW reply, NEW x, NEW y
  PROVE  /\ <<x, "won", y>> \notin Produced(c, i, reply)
         /\ <<x, "routed_to", y>> \notin Produced(c, i, reply)
         /\ <<x, "produced_result", y>> \in Produced(c, i, reply)
              <=> x = IdOf[pool[c][i]] /\ y = TaskNode(c)
BY DEF Produced, Supported

LEMMA DebateEdgesByRelation ==
  ASSUME NEW c, NEW rs, NEW x, NEW y
  PROVE  /\ <<x, "won", y>> \notin DebateEdges(c, rs)
         /\ <<x, "routed_to", y>> \in DebateEdges(c, rs)
              <=> x = TaskNode(c) /\ \E i \in DOMAIN rs : y = IdOf[pool[c][i]]
         /\ <<x, "produced_result", y>> \in DebateEdges(c, rs)
              <=> y = TaskNode(c) /\ \E i \in Answered(rs) : x = IdOf[pool[c][i]]
<1> DEFINE answers == {Produced(c, i, rs[i]) : i \in Answered(rs)}
           routed == {<<TaskNode(c), "routed_to", IdOf[pool[c][i]]>> : i \in DOMAIN rs}
<1>1. DebateEdges(c, rs) = routed \cup UNION answers
  BY DEF DebateEdges
<1>2. /\ <<x, "won", y>> \notin UNION answers
      /\ <<x, "routed_to", y>> \notin UNION answers
      /\ <<x, "produced_result", y>> \in UNION answers
           <=> y = TaskNode(c) /\ \E i \in Answered(rs) : x = IdOf[pool[c][i]]
  <2>1. \A edge : edge \in UNION answers <=> \E i \in Answered(rs) : edge \in Produced(c, i, rs[i])
    OBVIOUS
  <2>2. \A i \in Answered(rs) :
          /\ <<x, "won", y>> \notin Produced(c, i, rs[i])
          /\ <<x, "routed_to", y>> \notin Produced(c, i, rs[i])
          /\ <<x, "produced_result", y>> \in Produced(c, i, rs[i])
               <=> x = IdOf[pool[c][i]] /\ y = TaskNode(c)
    BY ProducedEdges
  <2> HIDE DEF answers
  <2>3. <<x, "won", y>> \notin UNION answers /\ <<x, "routed_to", y>> \notin UNION answers
    BY <2>1, <2>2
  <2>4. <<x, "produced_result", y>> \in UNION answers
          <=> y = TaskNode(c) /\ \E i \in Answered(rs) : x = IdOf[pool[c][i]]
    BY <2>1, <2>2
  <2> QED
    BY <2>3, <2>4
<1>3. /\ <<x, "won", y>> \notin routed
      /\ <<x, "produced_result", y>> \notin routed
      /\ <<x, "routed_to", y>> \in routed
           <=> x = TaskNode(c) /\ \E i \in DOMAIN rs : y = IdOf[pool[c][i]]
  OBVIOUS
<1> HIDE DEF answers, routed
<1> QED
  BY <1>1, <1>2, <1>3

LEMMA WonEdgeIs ==
  ASSUME NEW c, NEW w, NEW x, NEW y
  PROVE  /\ <<x, "won", y>> \in WonEdge(c, w) <=> x = TaskNode(c) /\ y = IdOf[pool[c][w]]
         /\ <<x, "routed_to", y>> \notin WonEdge(c, w)
         /\ <<x, "produced_result", y>> \notin WonEdge(c, w)
BY DEF WonEdge
-----------------------------------------------------------------------------
(***************************************************************************)
(* The invariant is kept, part by part: by the call that moves, then by    *)
(* the others.                                                             *)
(***************************************************************************)
(* Nothing is ever taken out of the graph, and without one it is empty.    *)
LEMMA GraphGrows ==
  ASSUME NEW c \in Calls, Kind(c)
  PROVE  graph \subseteq graph' /\ (~HasGraph => UNCHANGED graph)
BY DEF Kind, Starts, Quiet, DebateEnds, Awards, AwardEdges, AddEdges

LEMMA EligibleAnswered ==
  ASSUME TypeOK', NEW c \in Calls, NEW w, Eligible(c, w)'
  PROVE  w \in Answered(replies'[c])
BY DEF Eligible, Answered, TypeOK, PoolType

LEMMA ResultKept ==
  ASSUME TypeOK, TypeOK', AnsweredOnce, NEW c \in Calls, pc[c] # "done", Kind(c), ResultInv(c)
  PROVE  ResultInv(c)'
<1>1. Envelopes(c, "result") = {}
  BY NoResultYet
<1>2. CASE Starts(c)
  <2>1. pc'[c] # "conflict" /\ Envelopes(c, "result")' = {}
    BY <1>2 DEF Starts, Start, NoResultNow, TypeOK
  <2> QED
    BY <2>1 DEF ResultInv
<1>3. CASE Quiet(c)
  BY <1>3 DEF Quiet, NoResultNow, ResultInv
<1>4. CASE DebateEnds(c)
  <2>1. Envelopes(c, "result")' = {}
    BY <1>4 DEF DebateEnds, NoResultNow
  <2>2. ASSUME pc'[c] = "conflict" PROVE Elected(c, verdict[c])'
    <3>1. Eligible(c, verdict[c])' /\ UNCHANGED <<request, pool>>
      BY <1>4, <2>2 DEF DebateEnds, NoResultNow
    <3>2. verdict'[c] \in Answered(replies'[c])
      BY <3>1, EligibleAnswered
    <3>3. HasGraph => Produced(c, verdict'[c], replies'[c][verdict'[c]]) \subseteq graph'
      BY <1>4, <3>2 DEF DebateEnds, AddEdges, DebateEdges
    <3>4. Produced(c, verdict[c], replies[c][verdict[c]])'
            = Produced(c, verdict'[c], replies'[c][verdict'[c]])
      BY <3>1 DEF Produced, Supported, TaskNode
    <3> QED
      BY <3>1, <3>3, <3>4 DEF Elected
  <2> QED
    BY <2>1, <2>2 DEF ResultInv
<1>5. CASE Awards(c)
  <2>1. PICK w \in DOMAIN pool[c] :
          /\ AwardEdges(c, w)
          /\ Record(<<ResultEnvelope(pool[c][w], c, replies'[c][w])>>)
    BY <1>5 DEF Awards
  <2>2. /\ UNCHANGED <<request, pool>> /\ pc'[c] = "done"
        /\ pool[c][w] \in Agents /\ replies'[c][w] \in ReplyType
    BY <1>5 DEF Awards, TypeOK, PoolType
  <2>3. /\ Envelopes(c, "result")' = {Len(trace) + 1}
        /\ trace'[Len(trace) + 1] = ResultEnvelope(pool[c][w], c, replies'[c][w])
    BY <1>1, <2>1, <2>2, AwardIsRecorded
  <2>4. Produced(c, w, replies[c][w])' = Produced(c, w, replies'[c][w])
    BY <2>2 DEF Produced, Supported, TaskNode
  <2>5. ASSUME Eligible(c, w)', AddEdges(Produced(c, w, replies'[c][w])) PROVE Elected(c, w)'
    BY <2>4, <2>5 DEF Elected, AddEdges
  <2>6. ASSUME Eligible(c, w)', AddEdges(DebateEdges(c, replies'[c]) \cup WonEdge(c, w))
        PROVE  Elected(c, w)'
    <3>1. w \in Answered(replies'[c])
      BY <2>6, EligibleAnswered
    <3>2. HasGraph => Produced(c, w, replies'[c][w]) \subseteq graph'
      BY <2>6, <3>1 DEF AddEdges, DebateEdges
    <3> QED
      BY <2>4, <2>6, <3>2 DEF Elected
  <2>7. ASSUME pc[c] = "conflict", w = verdict[c], UNCHANGED replies, AddEdges(WonEdge(c, w))
        PROVE  Elected(c, w)'
    <3>1. Elected(c, w) /\ graph \subseteq graph'
      BY <2>7 DEF ResultInv, AddEdges
    <3>2. Eligible(c, w)'
      BY <2>2, <2>7, <3>1 DEF Elected, Eligible, GivenOutputs, Quorate
    <3> QED
      BY <2>4, <2>7, <3>1, <3>2 DEF Elected
  <2>8. Elected(c, w)'
    BY <2>1, <2>5, <2>6, <2>7 DEF AwardEdges
  <2>9. ASSUME NEW k \in Envelopes(c, "result")' PROVE Speaks(c, w, trace[k])'
    <3>1. trace'[k] = ResultEnvelope(pool[c][w], c, replies'[c][w])
      BY <2>3, <2>9
    <3> QED
      BY <2>2, <3>1 DEF Speaks, ResultEnvelope, Envelope
  <2> QED
    BY <2>2, <2>3, <2>8, <2>9 DEF ResultInv
<1> QED
  BY <1>2, <1>3, <1>4, <1>5 DEF Kind

LEMMA PoolKept ==
  ASSUME TypeOK, NEW c \in Calls, Kind(c), PoolInv(c) PROVE PoolInv(c)'
<1>1. /\ DOMAIN pc = Calls /\ DOMAIN pool = Calls /\ request[c] \in Requests
      /\ registry \in Seq(Agents) /\ Len(registry) \in Nat /\ DOMAIN registry = 1..Len(registry)
  BY DEF TypeOK, PoolType
<1>2. CASE Starts(c)
  <2>1. UNCHANGED request
    BY <1>2 DEF Starts, NoResultNow
  <2>2. PICK positions :
          /\ Chosen(c, positions) /\ Start(c, positions)
          /\ AddEdges(IF request[c].operation = "debate" THEN {}
                      ELSE {<<TaskNode(c), "routed_to", IdOf[registry[i]]>> : i \in positions})
    BY <1>2 DEF Starts
  <2>3. pool'[c] = [i \in positions |-> registry[i]] /\ pc'[c] = "handling"
    BY <1>1, <2>2 DEF Start
  <2>4. positions \subseteq Capable(request[c])
    BY <2>2, ChosenAreCapable
  <2>5. request[c].agent_ids # None => \A i \in positions : IdOf[registry[i]] \in request[c].agent_ids
    BY <2>4 DEF Capable
  <2>6. ASSUME request[c].max_candidates # None PROVE Cardinality(positions) <= request[c].max_candidates
    <3>1. request[c].operation = "debate" /\ request[c].max_candidates \in Nat
      BY <1>1, <2>6, CoreAssumption
    <3>2. Capable(request[c]) \in SUBSET (1..Len(registry))
      BY <1>1 DEF Capable, FindByObjective
    <3>3. positions = Capped(request[c], Capable(request[c]))
      BY <2>2, <3>1 DEF Chosen
    <3> QED
      BY <1>1, <2>6, <3>1, <3>2, <3>3, CapHolds
  <2>7. ASSUME HasGraph, request[c].operation = "route", NEW i \in positions
        PROVE  <<TaskNode(c), "routed_to", IdOf[registry[i]]>> \in graph'
    BY <2>2, <2>7 DEF AddEdges
  <2>8. request[c].operation # "debate" => request[c].operation = "route"
    BY <1>1, CoreAssumption
  <2>9. TaskNode(c)' = TaskNode(c)
    BY <2>1 DEF TaskNode
  <2> QED
    BY <2>1, <2>3, <2>5, <2>6, <2>7, <2>9 DEF PoolInv, IsRouted
<1>3. CASE Quiet(c)
  <2>1. UNCHANGED <<request, graph, pool>>
    BY <1>3 DEF Quiet, NoResultNow
  <2>2. TaskNode(c)' = TaskNode(c)
    BY <2>1 DEF TaskNode
  <2>3. IsRouted(c)' => IsRouted(c) \/ DOMAIN pool[c] = {}
    BY <1>3, <2>1 DEF Quiet, IsRouted, PoolInv
  <2>4. pc'[c] \in {"idle", "approval"} => DOMAIN pool[c] = {}
    BY <1>3 DEF Quiet, PoolInv
  <2> QED
    BY <1>3, <2>1, <2>2, <2>3, <2>4 DEF Quiet, PoolInv
<1>4. CASE DebateEnds(c)
  <2>1. UNCHANGED <<request, pool>> /\ pc'[c] \in {"conflict", "done"}
    BY <1>4 DEF DebateEnds, NoResultNow
  <2>2. HasGraph => \A i \in DOMAIN pool[c] : <<TaskNode(c), "routed_to", IdOf[pool[c][i]]>> \in graph'
    BY <1>4, DebateEdgesByRelation DEF DebateEnds, AddEdges
  <2>3. TaskNode(c)' = TaskNode(c) /\ request[c].operation = "debate"
    BY <1>4, <2>1 DEF TaskNode, DebateEnds
  <2> QED
    BY <2>1, <2>2, <2>3 DEF PoolInv
<1>5. CASE Awards(c)
  <2>1. UNCHANGED <<request, pool>> /\ pc'[c] = "done"
    BY <1>5 DEF Awards
  <2>2. HasGraph => \A i \in DOMAIN pool[c] : <<TaskNode(c), "routed_to", IdOf[pool[c][i]]>> \in graph'
    <3>1. DOMAIN replies'[c] = DOMAIN pool[c] /\ \E w : AwardEdges(c, w)
      BY <1>5 DEF Awards
    <3>2. graph \subseteq graph'
      BY <1>5, GraphGrows
    <3>3. \/ IsRouted(c)
          \/ \E w : AddEdges(DebateEdges(c, replies'[c]) \cup WonEdge(c, w))
      BY <3>1 DEF AwardEdges, IsRouted
    <3>4. ASSUME NEW w, AddEdges(DebateEdges(c, replies'[c]) \cup WonEdge(c, w)), HasGraph,
                 NEW i \in DOMAIN pool[c]
          PROVE  <<TaskNode(c), "routed_to", IdOf[pool[c][i]]>> \in graph'
      <4>1. \E k \in DOMAIN replies'[c] : IdOf[pool[c][i]] = IdOf[pool[c][k]]
        BY <3>1, <3>4
      <4>2. \A rs : (\E k \in DOMAIN rs : IdOf[pool[c][i]] = IdOf[pool[c][k]]) =>
              <<TaskNode(c), "routed_to", IdOf[pool[c][i]]>> \in DebateEdges(c, rs)
        BY DebateEdgesByRelation
      <4>3. <<TaskNode(c), "routed_to", IdOf[pool[c][i]]>> \in DebateEdges(c, replies'[c])
        BY <4>1, <4>2
      <4> QED
        BY <3>4, <4>3 DEF AddEdges
    <3> QED
      BY <3>2, <3>3, <3>4 DEF PoolInv
  <2>3. TaskNode(c)' = TaskNode(c)
    BY <2>1 DEF TaskNode
  <2> QED
    BY <2>1, <2>2, <2>3 DEF PoolInv
<1> QED
  BY <1>2, <1>3, <1>4, <1>5 DEF Kind

(* The produced and won edges of a step are those of answers to this task. *)
LEMMA EdgesKept ==
  ASSUME TypeOK', NEW c \in Calls, Kind(c), ResultInv(c), PoolInv(c), EdgesInv
  PROVE  EdgesInv'
<1>1. UNCHANGED request /\ graph \subseteq graph' /\ (~HasGraph => graph' = {})
  BY GraphGrows DEF Kind, Starts, Quiet, DebateEnds, Awards, NoResultNow, EdgesInv
<1> SUFFICES ASSUME HasGraph, NEW t, NEW id
             PROVE  /\ <<t, "won", id>> \in graph' \ graph => <<id, "produced_result", t>> \in graph'
                    /\ <<id, "produced_result", t>> \in graph' \ graph => <<t, "routed_to", id>> \in graph'
  BY <1>1 DEF EdgesInv
<1>2. CASE Starts(c)
  <2>1. PICK positions :
          AddEdges(IF request[c].operation = "debate" THEN {}
                   ELSE {<<TaskNode(c), "routed_to", IdOf[registry[i]]>> : i \in positions})
    BY <1>2 DEF Starts
  <2> QED
    BY <2>1 DEF AddEdges
<1>3. CASE Quiet(c)
  BY <1>3 DEF Quiet
<1>4. ASSUME DOMAIN replies'[c] = DOMAIN pool[c], NEW w,
             w \in Answered(replies'[c]) \/ ~(<<t, "won", id>> \in graph' \ graph),
             graph' = graph \cup DebateEdges(c, replies'[c])
               \/ graph' = graph \cup (DebateEdges(c, replies'[c]) \cup WonEdge(c, w))
      PROVE  /\ <<t, "won", id>> \in graph' \ graph => <<id, "produced_result", t>> \in graph'
             /\ <<id, "produced_result", t>> \in graph' \ graph => <<t, "routed_to", id>> \in graph'
  <2> DEFINE rs == replies'[c]
             edges == DebateEdges(c, rs)
  <2> HIDE DEF rs
  <2>1. \A x, y :
          /\ <<x, "won", y>> \notin edges
          /\ <<x, "routed_to", y>> \in edges
               <=> x = TaskNode(c) /\ \E i \in DOMAIN rs : y = IdOf[pool[c][i]]
          /\ <<x, "produced_result", y>> \in edges
               <=> y = TaskNode(c) /\ \E i \in Answered(rs) : x = IdOf[pool[c][i]]
    BY DebateEdgesByRelation
  <2>2. Answered(rs) \subseteq DOMAIN rs
    BY DEF Answered
  <2> HIDE DEF edges
  <2>3. <<t, "won", id>> \in WonEdge(c, w) <=> t = TaskNode(c) /\ id = IdOf[pool[c][w]]
    BY WonEdgeIs
  <2>4. <<id, "produced_result", t>> \notin WonEdge(c, w)
    BY WonEdgeIs
  <2>5. ASSUME <<t, "won", id>> \in graph' \ graph PROVE <<id, "produced_result", t>> \in graph'
    <3>1. <<t, "won", id>> \notin edges
      BY <2>1
    <3>2. <<t, "won", id>> \in WonEdge(c, w)
      BY <1>4, <2>5, <3>1 DEF edges, rs
    <3>3. w \in Answered(rs)
      BY <1>4, <2>5 DEF rs
    <3>4. <<id, "produced_result", t>> \in edges
      BY <2>1, <2>3, <3>2, <3>3
    <3> QED
      BY <1>4, <3>4 DEF edges, rs
  <2>6. ASSUME <<id, "produced_result", t>> \in graph' \ graph PROVE <<t, "routed_to", id>> \in graph'
    <3>1. <<id, "produced_result", t>> \in edges
      BY <1>4, <2>4, <2>6 DEF edges, rs
    <3>2. <<t, "routed_to", id>> \in edges
      BY <2>1, <2>2, <3>1
    <3> QED
      BY <1>4, <3>2 DEF edges, rs
  <2> QED
    BY <2>5, <2>6
<1>5. CASE DebateEnds(c)
  <2>1. graph' = graph \cup DebateEdges(c, replies'[c]) /\ DOMAIN replies'[c] = DOMAIN pool[c]
    BY <1>5 DEF DebateEnds, AddEdges
  <2>2. ~(<<t, "won", id>> \in graph' \ graph)
    BY <2>1, DebateEdgesByRelation
  <2> QED
    BY <1>4, <2>1, <2>2
<1>6. CASE Awards(c)
  <2>1. PICK w \in DOMAIN pool[c] : AwardEdges(c, w)
    BY <1>6 DEF Awards
  <2>2. UNCHANGED <<request, pool>> /\ DOMAIN replies'[c] = DOMAIN pool[c]
    BY <1>6 DEF Awards
  <2>3. CASE /\ pc[c] = "handling" /\ request[c].operation = "route"
             /\ AddEdges(Produced(c, w, replies'[c][w]))
    <3>1. <<TaskNode(c), "routed_to", IdOf[pool[c][w]]>> \in graph'
      BY <1>1, <2>3 DEF PoolInv, IsRouted
    <3> QED
      BY <2>3, <3>1, ProducedEdges DEF AddEdges
  <2>4. CASE Eligible(c, w)' /\ AddEdges(DebateEdges(c, replies'[c]) \cup WonEdge(c, w))
    <3>1. w \in Answered(replies'[c])
      BY <2>4, EligibleAnswered
    <3> QED
      BY <1>4, <2>2, <2>4, <3>1 DEF AddEdges
  <2>5. CASE pc[c] = "conflict" /\ w = verdict[c] /\ AddEdges(WonEdge(c, w))
    <3>1. Produced(c, w, replies[c][w]) \subseteq graph
      BY <2>5 DEF ResultInv, Elected
    <3>2. <<IdOf[pool[c][w]], "produced_result", TaskNode(c)>> \in graph
      BY <3>1, ProducedEdges
    <3> QED
      BY <1>1, <2>5, <3>2, WonEdgeIs DEF AddEdges
  <2> QED
    BY <2>1, <2>3, <2>4, <2>5 DEF AwardEdges
<1> QED
  BY <1>2, <1>3, <1>5, <1>6 DEF Kind

(* Who has won call c, as the trace tells it. *)
Winner(c, id) ==
  request[c].operation = "debate" /\ \E k \in Envelopes(c, "result") : trace[k].sender = id

(* A step writes a won edge and a result of a debate, or neither.          *)
LEMMA WonMoves ==
  ASSUME TypeOK, TypeOK', AnsweredOnce, NEW c \in Calls, pc[c] # "done", Kind(c), PoolInv(c), HasGraph,
         NEW t, NEW id
  PROVE  <<t, "won", id>> \in graph' <=>
           <<t, "won", id>> \in graph \/ (t = TaskNode(c) /\ Winner(c, id)')
<1>1. Envelopes(c, "result") = {} /\ UNCHANGED request
  BY NoResultYet DEF Kind, Starts, Quiet, DebateEnds, Awards, NoResultNow
<1>2. ASSUME NoResultNow(c) PROVE ~Winner(c, id)'
  BY <1>2 DEF NoResultNow, Winner
<1>3. CASE Starts(c)
  <2>1. PICK positions :
          AddEdges(IF request[c].operation = "debate" THEN {}
                   ELSE {<<TaskNode(c), "routed_to", IdOf[registry[i]]>> : i \in positions})
    BY <1>3 DEF Starts
  <2> QED
    BY <1>2, <1>3, <2>1 DEF Starts, AddEdges
<1>4. CASE Quiet(c)
  BY <1>2, <1>4 DEF Quiet
<1>5. CASE DebateEnds(c)
  BY <1>2, <1>5, DebateEdgesByRelation DEF DebateEnds, AddEdges
<1>6. CASE Awards(c)
  <2>1. PICK w \in DOMAIN pool[c] :
          /\ AwardEdges(c, w)
          /\ Record(<<ResultEnvelope(pool[c][w], c, replies'[c][w])>>)
    BY <1>6 DEF Awards
  <2>2. pool[c][w] \in Agents /\ replies'[c][w] \in ReplyType
    BY <1>6, <2>1 DEF Awards, TypeOK, PoolType
  <2>3. /\ Envelopes(c, "result")' = {Len(trace) + 1}
        /\ trace'[Len(trace) + 1].sender = IdOf[pool[c][w]]
    BY <1>1, <2>1, <2>2, AwardIsRecorded DEF ResultEnvelope, Envelope
  <2>4. Winner(c, id)' <=> request[c].operation = "debate" /\ id = IdOf[pool[c][w]]
    BY <1>1, <2>3 DEF Winner
  <2>5. CASE request[c].operation = "route" /\ AddEdges(Produced(c, w, replies'[c][w]))
    BY <2>4, <2>5, ProducedEdges DEF AddEdges
  <2>6. CASE request[c].operation = "debate" /\ AddEdges(DebateEdges(c, replies'[c]) \cup WonEdge(c, w))
    <3>1. <<t, "won", id>> \notin DebateEdges(c, replies'[c])
      BY DebateEdgesByRelation
    <3>2. <<t, "won", id>> \in WonEdge(c, w) <=> t = TaskNode(c) /\ id = IdOf[pool[c][w]]
      BY WonEdgeIs
    <3> QED
      BY <2>4, <2>6, <3>1, <3>2 DEF AddEdges
  <2>7. CASE pc[c] = "conflict" /\ AddEdges(WonEdge(c, w))
    BY <2>4, <2>7, WonEdgeIs DEF AddEdges, PoolInv
  <2> QED
    BY <2>1, <2>5, <2>6, <2>7 DEF AwardEdges
<1> QED
  BY <1>3, <1>4, <1>5, <1>6 DEF Kind
-----------------------------------------------------------------------------
(* A call that does not move keeps its part, whatever is added to the graph. *)
LEMMA RecordsStand ==
  ASSUME NEW d \in Calls, ResultInv(d), PoolInv(d), graph \subseteq graph',
         Envelopes(d, "result")' = Envelopes(d, "result"),
         \A k \in Envelopes(d, "result") : trace'[k] = trace[k],
         UNCHANGED request, verdict'[d] = verdict[d],
         pc'[d] = pc[d], pool'[d] = pool[d], replies'[d] = replies[d]
  PROVE  ResultInv(d)' /\ PoolInv(d)'
<1>1. /\ Envelopes(d, "result")' = Envelopes(d, "result")
      /\ \A k \in Envelopes(d, "result") : trace'[k] = trace[k]
  OBVIOUS
<1>2. /\ UNCHANGED request /\ verdict'[d] = verdict[d]
      /\ pc'[d] = pc[d] /\ pool'[d] = pool[d] /\ replies'[d] = replies[d]
  OBVIOUS
<1>3. TaskNode(d)' = TaskNode(d) /\ IsRouted(d)' = IsRouted(d)
  BY <1>2 DEF TaskNode, IsRouted
<1>4. PoolInv(d)'
  BY <1>2, <1>3 DEF PoolInv
<1>5. GivenOutputs(d)' = GivenOutputs(d) /\ Quorate(d, replies[d])' = Quorate(d, replies[d])
  BY <1>2 DEF GivenOutputs, Answered, Quorate
<1>6. ASSUME NEW i, Elected(d, i) PROVE Elected(d, i)'
  <2>1. Eligible(d, i)'
    BY <1>2, <1>5, <1>6 DEF Elected, Eligible
  <2>2. Produced(d, i, replies[d][i])' = Produced(d, i, replies[d][i])
    BY <1>2, <1>3 DEF Produced, Supported
  <2> QED
    BY <1>6, <2>1, <2>2 DEF Elected
<1>7. pc'[d] = "conflict" => Elected(d, verdict[d])'
  <2>1. ASSUME NEW v, v = verdict[d], v = verdict'[d], Elected(d, v)' PROVE Elected(d, verdict[d])'
    BY <2>1 DEF Elected, Eligible, Produced, Supported
  <2> QED
    BY <1>2, <1>6, <2>1 DEF ResultInv
<1>8. ASSUME NEW k \in Envelopes(d, "result")
      PROVE  \E i \in DOMAIN pool'[d] : Elected(d, i)' /\ Speaks(d, i, trace[k])'
  <2>1. PICK i \in DOMAIN pool[d] : Elected(d, i) /\ Speaks(d, i, trace[k])
    BY DEF ResultInv
  <2>2. Speaks(d, i, trace[k])'
    BY <1>1, <1>2, <2>1 DEF Speaks
  <2> QED
    BY <1>2, <1>6, <2>1, <2>2
<1> QED
  BY <1>1, <1>4, <1>7, <1>8 DEF ResultInv

LEMMA WonKept ==
  ASSUME TypeOK, TypeOK', AnsweredOnce, NEW c \in Calls, pc[c] # "done", Kind(c), Shape(c), Elsewhere(c),
         PoolInv(c), WonIsRecorded
  PROVE  WonIsRecorded'
<1>1. UNCHANGED request
  BY DEF Elsewhere
<1> SUFFICES ASSUME HasGraph, NEW d \in Calls, NEW id \in AgentIds
             PROVE  <<TaskNode(d), "won", id>> \in graph' <=>
                      \E e \in Calls : TaskNode(e) = TaskNode(d) /\ Winner(e, id)'
  BY <1>1 DEF WonIsRecorded, Winner, TaskNode
<1>2. <<TaskNode(d), "won", id>> \in graph <=>
        \E e \in Calls : TaskNode(e) = TaskNode(d) /\ Winner(e, id)
  BY DEF WonIsRecorded, Winner, TaskNode
<1>3. <<TaskNode(d), "won", id>> \in graph' <=>
        <<TaskNode(d), "won", id>> \in graph \/ (TaskNode(d) = TaskNode(c) /\ Winner(c, id)')
  BY WonMoves
<1>4. ~Winner(c, id)
  BY NoResultYet DEF Winner
<1>5. ASSUME NEW e \in Calls, e # c PROVE Winner(e, id)' <=> Winner(e, id)
  BY <1>1, <1>5, OthersKeepEnvelopes DEF Winner
<1> QED
  BY <1>2, <1>3, <1>4, <1>5

LEMMA StepStarts ==
  ASSUME NEW c \in Calls, Submit(c) \/ Proceed(c) PROVE pc[c] # "done"
BY DEF Submit, Proceed, ApproveRisk, DenyRisk, HandlerReturns, ApproveConflict, DenyConflict, ApproverRaises

LEMMA NextRecords ==
  TypeOK /\ TypeOK' /\ AnsweredOnce /\ RecordsInv /\ [Next]_vars => RecordsInv'
<1> SUFFICES ASSUME TypeOK, TypeOK', AnsweredOnce, RecordsInv, [Next]_vars PROVE RecordsInv'
  OBVIOUS
<1>1. \A c \in Calls : ConflictInv(c)
  BY DEF RecordsInv
<1>2. \A c \in Calls : ConflictInv(c)'
  BY <1>1, NextConflict
<1>3. CASE UNCHANGED <<trace, graph, pc, request, pool, replies, verdict>>
  <2>1. \A c \in Calls : Envelopes(c, "result")' = Envelopes(c, "result")
    BY <1>3 DEF Envelopes
  <2>2. WonIsRecorded' /\ EdgesInv'
    BY <1>3, <2>1 DEF RecordsInv, WonIsRecorded, EdgesInv
  <2>3. ASSUME NEW d \in Calls PROVE ResultInv(d)' /\ PoolInv(d)'
    BY <1>3, <2>1, RecordsStand DEF RecordsInv
  <2> QED
    BY <1>2, <2>2, <2>3 DEF RecordsInv
<1>4. ASSUME NEW c \in Calls, Submit(c) \/ Proceed(c) PROVE RecordsInv'
  <2>1. Kind(c) /\ Shape(c) /\ Elsewhere(c) /\ pc[c] # "done"
    BY <1>1, <1>4, StepKind, SubmitShape, ProceedShape, StepElsewhere, StepStarts
  <2>2. graph \subseteq graph'
    BY <2>1, GraphGrows
  <2>3. /\ \A d \in Calls : ResultInv(d) /\ PoolInv(d)
        /\ EdgesInv /\ WonIsRecorded
    BY DEF RecordsInv
  <2>4. ASSUME NEW d \in Calls PROVE ResultInv(d)' /\ PoolInv(d)'
    <3>1. CASE d # c
      <4>1. /\ Envelopes(d, "result")' = Envelopes(d, "result")
            /\ \A k \in Envelopes(d, "result") : trace'[k] = trace[k]
        BY <2>1, <3>1, OthersKeepEnvelopes
      <4>2. /\ UNCHANGED request /\ verdict'[d] = verdict[d]
            /\ pc'[d] = pc[d] /\ pool'[d] = pool[d] /\ replies'[d] = replies[d]
        BY <1>4, <2>1, <3>1, VerdictElsewhere DEF Elsewhere
      <4> QED
        BY <2>2, <2>3, <4>1, <4>2, RecordsStand
    <3>2. CASE d = c
      BY <2>1, <2>3, <3>2, ResultKept, PoolKept
    <3> QED
      BY <3>1, <3>2
  <2>5. EdgesInv' /\ WonIsRecorded'
    BY <2>1, <2>3, EdgesKept, WonKept
  <2> QED
    BY <1>2, <2>4, <2>5 DEF RecordsInv
<1> QED
  BY <1>3, <1>4 DEF Next, vars, Register, Unregister, AddHandler, records

LEMMA InitRecords == Init => RecordsInv
<1> SUFFICES ASSUME Init PROVE RecordsInv
  OBVIOUS
<1>1. /\ trace = <<>> /\ graph = {}
      /\ \A c \in Calls : pc[c] = "idle" /\ pool[c] = <<>> /\ request[c] \in Requests
  BY DEF Init
<1>2. \A c \in Calls : Envelopes(c, "result") = {}
  BY <1>1 DEF Envelopes
<1>3. \A c \in Calls : ConflictInv(c) /\ ResultInv(c)
  BY <1>1, <1>2 DEF ConflictInv, Settled, Reviewed, Single, ResultInv
<1>4. ASSUME NEW c \in Calls PROVE PoolInv(c)
  <2>1. DOMAIN pool[c] = {} /\ Cardinality({}) = 0
    BY <1>1, FS_EmptySet
  <2>2. request[c].max_candidates # None => request[c].max_candidates \in Nat
    BY <1>1, CoreAssumption
  <2> QED
    BY <1>1, <2>1, <2>2 DEF PoolInv, IsRouted
<1>5. EdgesInv /\ WonIsRecorded
  BY <1>1, <1>2 DEF EdgesInv, WonIsRecorded
<1> QED
  BY <1>3, <1>4, <1>5 DEF RecordsInv

LEMMA RecordsInvHolds == Spec => []RecordsInv
BY InitRecords, NextRecords, TypeCorrect, AnsweredOnceHolds, PTL DEF Spec

(* The result of a call is what an Agent of its pool answered, and in a     *)
(* disagreement no answer was better supported: for any pool, order of      *)
(* completion, evidence and conflict approver.                             *)
THEOREM ResultIsBestAnswerHolds == Spec => []ResultIsBestAnswer
<1>1. RecordsInv => ResultIsBestAnswer
  BY DEF RecordsInv, ResultInv, Elected, Eligible, Speaks, ResultIsBestAnswer
<1> QED
  BY <1>1, RecordsInvHolds, PTL

(* A debate asks no more than max_candidates Agents, only those allowed,   *)
(* and needs its quorum of answers.                                        *)
THEOREM WithinLimitsHolds == Spec => []WithinLimits
<1>1. RecordsInv => WithinLimits
  <2> SUFFICES ASSUME RecordsInv, NEW c \in Calls, NEW k \in Envelopes(c, "result")
               PROVE  Cardinality(Answered(replies[c])) >= request[c].quorum
    BY DEF RecordsInv, PoolInv, WithinLimits
  <2> QED
    BY DEF RecordsInv, ResultInv, Elected, Eligible, Quorate
<1> QED
  BY <1>1, RecordsInvHolds, PTL

(* A task has a won edge to exactly the agents whose result ended a debate  *)
(* of it: for any number of debates of it, and calls under way at once.    *)
THEOREM WonIsRecordedHolds == Spec => []WonIsRecorded
<1>1. RecordsInv => WonIsRecorded
  BY DEF RecordsInv
<1> QED
  BY <1>1, RecordsInvHolds, PTL

(* Who won a task produced a result for it, who produced one was routed it, *)
(* and every Agent of a call that ended was.                               *)
THEOREM GraphIsConsistentHolds == Spec => []GraphIsConsistent
<1>1. RecordsInv => GraphIsConsistent
  BY DEF RecordsInv, EdgesInv, PoolInv, IsRouted, TaskNode, GraphIsConsistent
<1> QED
  BY <1>1, RecordsInvHolds, PTL

(* The evidence trust is computed from is in the graph, entry by entry.    *)
THEOREM EvidenceIsSupportedHolds == Spec => []EvidenceIsSupported
<1>1. RecordsInv => EvidenceIsSupported
  <2> SUFFICES ASSUME RecordsInv, HasGraph, NEW c \in Calls, NEW k \in Envelopes(c, "result")
               PROVE  \E i \in DOMAIN pool[c] :
                        /\ trace[k].sender = IdOf[pool[c][i]]
                        /\ \A e \in DOMAIN trace[k].evidence :
                             <<request[c].task_id, "supported_by", <<c, i, e>> >> \in graph
    BY DEF EvidenceIsSupported
  <2>1. PICK i \in DOMAIN pool[c] : Elected(c, i) /\ Speaks(c, i, trace[k])
    BY DEF RecordsInv, ResultInv
  <2>2. Supported(c, i, replies[c][i]) \subseteq graph /\ trace[k].evidence = replies[c][i].evidence
    BY <2>1 DEF Elected, Produced, Speaks
  <2> QED
    BY <2>1, <2>2 DEF Supported, Speaks, TaskNode
<1> QED
  BY <1>1, RecordsInvHolds, PTL

(* An uncapped debate chooses every position there is to choose. *)
LEMMA UncappedIsCapable ==
  ASSUME NEW c, NEW positions, Chosen(c, positions), request[c].operation = "debate",
         request[c].max_candidates = None
  PROVE  positions = Capable(request[c])
BY DEF Chosen, Capped

(* The pool of a call is read once, in the step that starts its first       *)
(* handler: whatever the approver's delay and the registrations meanwhile,  *)
(* it holds capable agents registered at that step, and a debate without a  *)
(* cap leaves out none of them.  Nothing is said of the later handlers of a *)
(* debate, which are not looked up again.                                  *)
THEOREM DispatchIsCurrentHolds == Spec => DispatchIsCurrent
<1> DEFINE Current(c) ==
      /\ DOMAIN pool[c] = {} /\ pc[c] \in {"idle", "approval"} /\ pc'[c] = "handling"
      /\ \A i \in DOMAIN pool'[c] :
           /\ \E k \in DOMAIN registry : registry[k] = pool'[c][i]
           /\ request[c].objective \in handlers[pool'[c][i]]
      /\ request[c].operation = "debate" /\ request[c].max_candidates = None =>
           \A k \in DOMAIN registry :
             /\ request[c].objective \in handlers[registry[k]]
             /\ request[c].agent_ids = None \/ IdOf[registry[k]] \in request[c].agent_ids
             => \E i \in DOMAIN pool'[c] : pool'[c][i] = registry[k]
<1>1. ASSUME TypeOK, RecordsInv, [Next]_vars
      PROVE  [\A c \in Calls : pool'[c] # pool[c] => Current(c)]_vars
  <2>1. CASE UNCHANGED pool
    BY <2>1
  <2>2. ASSUME NEW d \in Calls, NEW positions, pc[d] \in {"idle", "approval"},
               Chosen(d, positions), Start(d, positions),
               NEW c \in Calls, pool'[c] # pool[c]
        PROVE  Current(c)
    <3>1. DOMAIN pool = Calls /\ DOMAIN pc = Calls
      BY <1>1 DEF TypeOK, PoolType
    <3>2. d = c /\ pool'[c] = [j \in positions |-> registry[j]] /\ pc'[c] = "handling"
      BY <2>2, <3>1 DEF Start
    <3>3. DOMAIN pool[c] = {}
      BY <1>1, <2>2, <3>2 DEF RecordsInv, PoolInv
    <3>4. positions \subseteq Capable(request[c])
      BY <1>1, <2>2, <3>2, ChosenAreCapable
    <3>5. ASSUME NEW i \in DOMAIN pool'[c]
          PROVE  /\ \E k \in DOMAIN registry : registry[k] = pool'[c][i]
                 /\ request[c].objective \in handlers[pool'[c][i]]
      BY <3>2, <3>4 DEF Capable, FindByObjective
    <3>6. ASSUME request[c].operation = "debate", request[c].max_candidates = None,
                 NEW k \in DOMAIN registry, request[c].objective \in handlers[registry[k]],
                 request[c].agent_ids = None \/ IdOf[registry[k]] \in request[c].agent_ids
          PROVE  \E i \in DOMAIN pool'[c] : pool'[c][i] = registry[k]
      <4>1. k \in Capable(request[c])
        BY <3>6 DEF Capable, FindByObjective
      <4>2. k \in positions
        BY <2>2, <3>2, <3>6, <4>1, UncappedIsCapable
      <4> QED
        BY <3>2, <4>2
    <3> QED
      BY <2>2, <3>2, <3>3, <3>5, <3>6
  <2> QED
    BY <1>1, <2>1, <2>2, PoolMoves
<1> QED
  BY <1>1, TypeCorrect, RecordsInvHolds, PTL DEF Spec, DispatchIsCurrent
=============================================================================
