--------------------------- MODULE A2AHttpProofs ---------------------------
(***************************************************************************)
(* Proofs about calls over HTTP.  The codec first: what is sent comes back  *)
(* as it was.  Then an invariant that says, for every call, how far its     *)
(* client and the server's execute() are and what the answer, the artifact *)
(* and the outcome therefore are; the properties of A2AHttp follow.        *)
(***************************************************************************)
EXTENDS A2AHttp, FiniteSetTheorems, TLAPS
-----------------------------------------------------------------------------
(* The codec. *)

(* An ErrorPayload passes an envelope unchanged. *)
LEMMA ErrorReturns ==
  ASSUME NEW o, AnError(o)
  PROVE  PayloadError(ErrorPayload(o)) = o
BY DEF AnError, PayloadError, ErrorPayload, Has, Get, Failure

(* An ErrorPayload passes an A2A task unchanged. *)
LEMMA ErrorToldBack ==
  ASSUME NEW o, AnError(o)
  PROVE  a2a_task_to_outcome(error_to_a2a_task(o)) = o
BY DEF AnError, a2a_task_to_outcome, error_to_a2a_task, Get, Failure, TERMINAL_STATES

(* A key that was left out reads as its default. *)
LEMMA GetGiven ==
  ASSUME NEW f, NEW k, NEW default
  PROVE  Get(Given(f), k, default) = IF k \in DOMAIN f /\ f[k] # None THEN f[k] ELSE default
BY DEF Get, Given, Restrict

(* A Result passes an envelope unchanged: what is left out of the payload is *)
(* what its absence means.                                                 *)
LEMMA ResultReturns ==
  ASSUME NEW o, AResult(o), o.task_id # None, o.output # None, o.evidence # None
  PROVE  PayloadResult(ResultPayload(o)) = o
<1> DEFINE ev == IF o.evidence = <<>> THEN None ELSE o.evidence
           f == [task_id |-> o.task_id, status |-> o.status, output |-> o.output,
                 confidence |-> o.confidence, evidence |-> ev]
           p == Given(f)
<1>1. [o EXCEPT !.evidence = ev] = f
  BY DEF AResult
<1>2. ResultPayload(o) = p
  BY <1>1 DEF ResultPayload
<1>3. /\ DOMAIN f = {"task_id", "status", "output", "confidence", "evidence"}
      /\ f["task_id"] = o.task_id /\ f["status"] = o.status /\ f["output"] = o.output
      /\ f["confidence"] = o.confidence /\ f["evidence"] = ev
  OBVIOUS
<1>4. "task_id" \in DOMAIN p /\ p["task_id"] = o.task_id
  BY <1>3 DEF Given, Restrict
<1> HIDE DEF f
<1> HIDE DEF p
<1>5. /\ Get(p, "status", "success") = o.status
      /\ Get(p, "output", {}) = o.output
      /\ Get(p, "confidence", None) = o.confidence
      /\ Get(p, "evidence", <<>>) = o.evidence
  <2>1. \A k, d : Get(p, k, d) = IF k \in DOMAIN f /\ f[k] # None THEN f[k] ELSE d
    BY GetGiven DEF p
  <2>2. o.status # None
    BY NoneAssumption DEF AResult, Valid
  <2> QED BY <2>1, <2>2, <1>3
<1>6. PayloadResult(p) = NewResult(o)
  BY <1>4, <1>5 DEF PayloadResult, Has, AResult
<1>7. NewResult(o) = o
  BY DEF NewResult, Valid, AResult
<1> QED BY <1>2, <1>6, <1>7

(* An identity on a card comes back as one that makes the same card. *)
LEMMA CardReturns ==
  ASSUME NEW identity, NEW url, identity.agent_id # None, identity.scope # None
  PROVE  LET made == to_agent_card(identity, url)
         IN to_agent_card(agent_card_to_identity(made), url) = made
<1> DEFINE f == [scope |-> identity.scope, role |-> identity.role, model |-> identity.model]
           m == Given(f)
           made == to_agent_card(identity, url)
           back == agent_card_to_identity(made)
<1>1. /\ DOMAIN f = {"scope", "role", "model"}
      /\ f["scope"] = identity.scope /\ f["role"] = identity.role /\ f["model"] = identity.model
  OBVIOUS
<1>2. made.metadata = m /\ made.id = identity.agent_id /\ made.provider # None
      /\ made.skills = identity.capabilities
  BY DEF to_agent_card
<1> HIDE DEF f
<1>3. \A k, d : Get(m, k, d) = IF k \in DOMAIN f /\ f[k] # None THEN f[k] ELSE d
  BY GetGiven
<1>4. /\ Get(m, "scope", "project") = identity.scope
      /\ Get(m, "role", None) = identity.role
      /\ Get(m, "model", None) = identity.model
  BY <1>3, <1>1
<1> QED BY <1>2, <1>4 DEF to_agent_card, agent_card_to_identity, f
(* A task passes an A2A message unchanged. *)
LEMMA TaskReturns ==
  ASSUME NEW t, NEW newId, t.id # None, t.objective # None, t.risk \in RISK_LEVELS \cup {None},
         t = [id |-> t.id, objective |-> t.objective, input |-> t.input,
              constraints |-> t.constraints, risk |-> t.risk, deadline |-> t.deadline,
              context |-> t.context]
  PROVE  a2a_message_to_task(task_to_a2a_message(t), newId) = t
<1> DEFINE f == [objective |-> t.objective, constraints |-> t.constraints,
                 risk |-> t.risk, deadline |-> t.deadline, context |-> t.context]
           m == Given(f)
           parts == IF t.input = {} THEN <<>> ELSE <<Data(t.input)>>
           message == task_to_a2a_message(t)
<1>1. /\ DOMAIN f = {"objective", "constraints", "risk", "deadline", "context"}
      /\ f["objective"] = t.objective /\ f["constraints"] = t.constraints
      /\ f["risk"] = t.risk /\ f["deadline"] = t.deadline /\ f["context"] = t.context
  OBVIOUS
<1>2. message.metadata = m /\ message.taskId = t.id /\ message.parts = parts
  BY DEF task_to_a2a_message
<1>3. FirstInput(parts) = t.input
  <2>1. CASE t.input = {}
    BY <2>1 DEF FirstInput
  <2>2. CASE t.input # {}
    <3>1. DOMAIN parts = {1} /\ parts[1] = Data(t.input)
      BY <2>2
    <3>4. Data(t.input).structured
      BY DEF Data
    <3>5. Data(t.input).data = t.input
      BY DEF Data
    <3>2. {i \in DOMAIN parts : parts[i].structured} = {1}
      BY <3>1, <3>4
    <3>3. Min({1}) = 1
      BY DEF Min
    <3> QED BY <3>1, <3>2, <3>3, <3>5 DEF FirstInput
  <2> QED BY <2>1, <2>2
<1> HIDE DEF f
<1>4. \A k, d : Get(m, k, d) = IF k \in DOMAIN f /\ f[k] # None THEN f[k] ELSE d
  BY GetGiven
<1>5. /\ Get(m, "constraints", None) = t.constraints /\ Get(m, "risk", None) = t.risk
      /\ Get(m, "deadline", None) = t.deadline /\ Get(m, "context", None) = t.context
  BY <1>4, <1>1
<1>6. "objective" \in DOMAIN m /\ m["objective"] = t.objective
  BY <1>1 DEF Given, Restrict
<1> HIDE DEF m, message, parts
<1>7. a2a_message_to_task(message, newId) = Task(t)
  BY <1>2, <1>3, <1>5, <1>6 DEF a2a_message_to_task, Has
<1>8. Task(t) = t
  BY DEF Task
<1> QED BY <1>7, <1>8 DEF message

(* A Result passes an A2A task unchanged: state and metadata tell the status, *)
(* and the n-th entry of evidence is in the n-th artifact of evidence.       *)
LEMMA ResultToldBack ==
  ASSUME NEW o, AResult(o)
  PROVE  a2a_task_to_outcome(result_to_a2a_task(o)) = o
<1> DEFINE n == Len(o.evidence)
           f == [status |-> o.status, confidence |-> o.confidence]
           m == Given(f)
           entries == [i \in DOMAIN o.evidence |-> evidence_to_artifact(o.evidence[i])]
           as == <<Output(o.output)>> \o entries
           sent == result_to_a2a_task(o)
<1>1. sent.id = o.task_id /\ sent.state = State(o.status) /\ sent.artifacts = as /\ sent.metadata = m
  BY DEF result_to_a2a_task
<1>2. n \in Nat /\ DOMAIN o.evidence = 1..n
  BY DEF AResult
<1>3. entries = [i \in 1..n |-> Output(o.output)] \/ TRUE
  OBVIOUS
<1>4. /\ DOMAIN as = 1..(n + 1)
      /\ as[1] = Output(o.output)
      /\ \A i \in 1..n : as[i + 1] = evidence_to_artifact(o.evidence[i])
  <2>1. entries \in Seq(Range(entries)) /\ Len(entries) = n
    BY <1>2 DEF Range
  <2>2. DOMAIN entries = 1..n /\ \A i \in 1..n : entries[i] = evidence_to_artifact(o.evidence[i])
    BY <1>2
  <2> HIDE DEF entries
  <2> DEFINE one == <<Output(o.output)>>
  <2>3. one \in Seq({Output(o.output)}) /\ Len(one) = 1 /\ one[1] = Output(o.output)
    OBVIOUS
  <2> HIDE DEF one, n
  <2>4. DOMAIN as = 1..(n + 1) /\ as[1] = one[1] /\ \A i \in 1..n : as[i + 1] = entries[i]
    BY <2>1, <2>3, <1>2 DEF one
  <2> QED BY <2>2, <2>3, <2>4
<1>5. /\ ~as[1].extension /\ as[1].data = o.output
      /\ \A i \in 1..n : as[i + 1].extension /\ as[i + 1].data = o.evidence[i]
  BY <1>4 DEF Output, evidence_to_artifact
<1> HIDE DEF as, n
<1>6. \A i \in DOMAIN as : i = 1 \/ (i \in 2..(n + 1) /\ i - 1 \in 1..n /\ i - 1 + 1 = i)
  BY <1>2, <1>4
<1>7. \A i \in 2..(n + 1) : i \in DOMAIN as /\ as[i].extension /\ as[i].data = o.evidence[i - 1]
  <2> TAKE i \in 2..(n + 1)
  <2>1. i - 1 \in 1..n /\ i - 1 + 1 = i /\ i \in 1..(n + 1)
    BY <1>2
  <2> QED BY <2>1, <1>5, <1>4
<1>8. {j \in DOMAIN as : ~as[j].extension} = {1} /\ {j \in DOMAIN as : as[j].extension} = 2..(n + 1)
  <2>1. 1 \in DOMAIN as
    BY <1>2, <1>4
  <2>7. 1 \notin 2..(n + 1)
    BY <1>2
  <2>2. \A j \in DOMAIN as : as[j].extension <=> j \in 2..(n + 1)
    <3> TAKE j \in DOMAIN as
    <3>3. ~as[1].extension
      BY <1>5
    <3>1. CASE j = 1
      BY <3>1, <3>3, <2>7
    <3>2. CASE j \in 2..(n + 1)
      BY <3>2, <1>7
    <3> QED BY <3>1, <3>2, <1>6
  <2>3. \A j \in DOMAIN as : j = 1 <=> j \notin 2..(n + 1)
    BY <2>7, <1>6
  <2>4. 2..(n + 1) \subseteq DOMAIN as
    BY <1>7
  <2>5. {j \in DOMAIN as : as[j].extension} = 2..(n + 1)
    BY <2>2, <2>4
  <2>6. {j \in DOMAIN as : ~as[j].extension} = {1}
    <3>1. \A j \in DOMAIN as : ~as[j].extension <=> j = 1
      BY <2>2, <2>3
    <3> QED BY <3>1, <2>1
  <2> QED BY <2>5, <2>6
<1>9. Merged(as) = o.output
  <2>1. {as[i].data : i \in {1}} = {o.output}
    <3>1. as[1].data = o.output
      BY <1>5
    <3>2. {as[i].data : i \in {1}} = {as[1].data}
      OBVIOUS
    <3> QED BY <3>1, <3>2
  <2>2. UNION {o.output} = o.output
    OBVIOUS
  <2> QED BY <1>8, <2>1, <2>2 DEF Merged
<1>10. Evidence(as) = o.evidence
  <2> DEFINE kept == {j \in DOMAIN as : as[j].extension}
             nth(k) == CHOOSE i \in kept : Cardinality({j \in kept : j <= i}) = k
  <2>1. kept = 2..(n + 1)
    BY <1>8
  <2> HIDE DEF kept
  <2>2. Cardinality(kept) = n
    <3>1. Cardinality(2..(n + 1)) = IF 2 > n + 1 THEN 0 ELSE n + 1 - 2 + 1
      BY <1>2, FS_Interval
    <3> QED BY <3>1, <2>1, <1>2
  <2>3. \A i \in kept : Cardinality({j \in kept : j <= i}) = i - 1
    <3> TAKE i \in kept
    <3>1. {j \in kept : j <= i} = 2..i /\ i \in Nat /\ i >= 2
      BY <2>1, <1>2
    <3>2. Cardinality(2..i) = IF 2 > i THEN 0 ELSE i - 2 + 1
      BY <3>1, FS_Interval
    <3>3. Cardinality(2..i) = i - 1
      BY <3>1, <3>2
    <3> QED BY <3>1, <3>3
  <2>4. \A k \in 1..n : nth(k) = k + 1
    <3> TAKE k \in 1..n
    <3>1. k + 1 \in kept /\ k + 1 - 1 = k
      BY <2>1, <1>2
    <3>2. \A i \in kept : i - 1 = k => i = k + 1
      BY <2>1, <1>2
    <3> QED BY <3>1, <3>2, <2>3
  <2>5. Evidence(as) = [k \in 1..n |-> as[nth(k)].data]
    BY <2>2 DEF Evidence, kept
  <2>6. \A k \in 1..n : as[nth(k)].data = o.evidence[k]
    BY <2>4, <1>5
  <2> HIDE DEF nth
  <2>7. Evidence(as) = [k \in 1..n |-> o.evidence[k]]
    BY <2>5, <2>6
  <2>8. o.evidence = [k \in 1..n |-> o.evidence[k]]
    BY <1>2 DEF AResult
  <2> QED BY <2>7, <2>8
<1>11. Get(m, "status", "success") = o.status /\ Get(m, "confidence", None) = o.confidence
  <2>1. DOMAIN f = {"status", "confidence"} /\ f["status"] = o.status /\ f["confidence"] = o.confidence
    OBVIOUS
  <2> HIDE DEF f
  <2>2. \A k, d : Get(m, k, d) = IF k \in DOMAIN f /\ f[k] # None THEN f[k] ELSE d
    BY GetGiven
  <2>3. o.status # None
    BY NoneAssumption DEF AResult, Valid
  <2> QED BY <2>1, <2>2, <2>3
<1> HIDE DEF sent, m
<1>12. sent.state \in {"REJECTED", "COMPLETED"} /\ (sent.state = "REJECTED" <=> o.status = "refused")
  BY <1>1 DEF State
<1>13. a2a_task_to_outcome(sent) = NewResult(o)
  <2>1. CASE sent.state = "REJECTED"
    BY <2>1, <1>1, <1>9, <1>10, <1>11, <1>12 DEF a2a_task_to_outcome, TERMINAL_STATES, AResult
  <2>2. CASE sent.state = "COMPLETED"
    BY <2>2, <1>1, <1>9, <1>10, <1>11, <1>12 DEF a2a_task_to_outcome, TERMINAL_STATES, AResult
  <2> QED BY <2>1, <2>2, <1>12
<1> QED BY <1>13 DEF NewResult, Valid, AResult, sent
-----------------------------------------------------------------------------
(* The invariant. *)

Places == {"idle", "resolving", "sending", "waiting", "done"}

(* The type invariant: what a call carries is anything, one per call. *)
TypeOK ==
  /\ scenario \in Scenarios
  /\ pc \in [Calls -> Places] /\ work \in [Calls -> Steps \cup {None}]
  /\ task = [c \in Calls |-> task[c]] /\ outcome = [c \in Calls |-> outcome[c]]
  /\ told = [c \in Calls |-> told[c]] /\ returned = [c \in Calls |-> returned[c]]
  /\ nested \in [Calls -> Calls \cup {None}]
  /\ store = [c \in Calls |-> [state |-> store[c].state, artifact |-> store[c].artifact]]
  /\ up \in BOOLEAN /\ key \in BOOLEAN /\ crashes \in Nat /\ loop \in Calls \cup {None}

WellFormed(o) == (IsResult(o) /\ AResult(o)) \/ (IsError(o) /\ AnError(o))

(* What route() may return, so that an envelope carries it. *)
Sendable(o) ==
  /\ WellFormed(o)
  /\ IsResult(o) => o.task_id # None /\ o.evidence # None /\ o.output # None

TaskOf(c) == a2a_message_to_task(scenario.message[c], NewId)

(* The client of a call. *)
ClientInv(c) ==
  /\ task[c] = IF pc[c] = "idle" THEN None ELSE TaskOf(c)
  /\ pc[c] \in {"idle", "resolving", "sending"} => work[c] = None /\ returned[c] = None
  /\ pc[c] # "done" => outcome[c] = None
  /\ told[c] \in {None, outcome[c]}
  /\ ~IsNexus(c) /\ outcome[c] \notin {None, Raised, TransportError} =>
       WellFormed(outcome[c])
  /\ IsNexus(c) /\ pc[c] = "done" =>
       \/ outcome[c] = TransportError
       \/ outcome[c] = Raised /\ task[c] = Raised
       \/ outcome[c] = returned[c] /\ Sendable(returned[c]) /\ work[c] \in {None, "finished"}

(* The artifact tells what route() returned. *)
Told(c) ==
  \/ Sendable(returned[c]) /\ store[c].artifact = Envelope(returned[c])
  \/ returned[c] = None /\ store[c].artifact = [error_code |-> "missing_objective"]

(* A task of the server that has ended in nothing yet. *)
Open == [state |-> "WORKING", artifact |-> None]

StateOf(artifact) ==
  IF Get(artifact, "message_type", None) = "result" THEN "COMPLETED" ELSE "FAILED"

(* The execute() of a call. *)
ServerInv(c) ==
  /\ work[c] # None => IsNexus(c)
  /\ loop = c => work[c] = "routing"
  /\ work[c] = "routing" => TaskOf(c).objective \in Objectives
  /\ work[c] \in {None, "received"} => store[c] = NoTask
  /\ work[c] \in {"working", "routing", "failed"} => store[c] = Open
  /\ work[c] = "published" => store[c].state = "WORKING"
  /\ work[c] \in {"received", "working", "routing"} => returned[c] = None
  /\ work[c] = "failed" => returned[c] = Raised
  /\ work[c] \in {"published", "finished"} => Told(c)
  /\ work[c] = "finished" => store[c].state = StateOf(store[c].artifact)
  /\ returned[c] \notin {None, Raised} => Sendable(returned[c])
  /\ returned[c] = Raised => work[c] \in {"failed", None}
  /\ returned[c] # None => IsNexus(c)

(* Why the route() of a language model returned what it did. *)
Cause(c) ==
  \/ /\ TaskOf(c).objective \notin Objectives \cup {""}
     /\ returned[c] = Failure(c, "capability_unavailable", FALSE)
  \/ /\ TaskOf(c).objective \in Objectives
     /\ \E reply \in ServiceReplies :
          returned[c] = Handled(c, Handler(scenario.agent, scenario.key,
                                           TaskOf(c).input # {}, reply))

(* A server that has not crashed is the one that was started. *)
ServerAsStarted ==
  /\ crashes = 0 => up /\ key = scenario.key
  /\ scenario.nested = {} => \A c \in Calls : nested[c] = None
  /\ scenario.agent \in Models /\ crashes = 0 =>
       \A c \in Calls : returned[c] \notin {None, Raised} => Cause(c)

CallsInv == \A c \in Calls : ClientInv(c) /\ ServerInv(c)

IInv == TypeOK /\ CallsInv /\ ServerAsStarted
-----------------------------------------------------------------------------
(* What may be answered. *)

(* A Result is no ErrorPayload. *)
LEMMA EitherKind ==
  ASSUME NEW o, WellFormed(o)
  PROVE  IsResult(o) <=> ~IsError(o)
BY DEF WellFormed, IsResult, IsError, AResult, AnError, Failure

(* What the client reads in an envelope is what was put into it. *)
LEMMA ReadsBack ==
  ASSUME NEW o, Sendable(o)
  PROVE  Read(<<Envelope(o)>>) = o
<1>1. <<Envelope(o)>> # <<>> /\ Last(<<Envelope(o)>>) = Envelope(o)
  BY DEF Last
<1>2. CASE IsResult(o)
  <2>1. AResult(o) /\ o.task_id # None /\ o.evidence # None /\ o.output # None
    BY <1>2, EitherKind DEF Sendable, WellFormed
  <2>2. PayloadResult(ResultPayload(o)) = o
    BY <2>1, ResultReturns
  <2>3. /\ Get(Envelope(o), "message_type", None) = "result"
        /\ Payload(Envelope(o)) = ResultPayload(o)
    BY <1>2 DEF Envelope, Get, Payload
  <2> QED BY <1>1, <2>2, <2>3 DEF Read
<1>3. CASE ~IsResult(o)
  <2>1. AnError(o)
    BY <1>3 DEF Sendable, WellFormed
  <2>2. PayloadError(ErrorPayload(o)) = o
    BY <2>1, ErrorReturns
  <2>3. /\ Get(Envelope(o), "message_type", None) = "error"
        /\ Payload(Envelope(o)) = ErrorPayload(o)
    BY <1>3 DEF Envelope, Get, Payload
  <2> QED BY <1>1, <2>2, <2>3 DEF Read
<1> QED BY <1>2, <1>3

(* A message that was refused is no answer. *)
LEMMA ReadsRefusal == Read(<<[error_code |-> "missing_objective"]>>) = TransportError
<1> DEFINE refusal == [error_code |-> "missing_objective"]
<1>1. <<refusal>> # <<>> /\ Last(<<refusal>>) = refusal
  BY DEF Last
<1>2. Get(refusal, "message_type", None) = None
  BY DEF Get
<1> QED BY <1>1, <1>2, NoneAssumption DEF Read

(* What a foreign agent's artifacts are read as is well formed, or raises. *)
LEMMA ReadsForeign ==
  ASSUME NEW artifacts \in ForeignArtifacts, IsOutcome(Read(artifacts))
  PROVE  WellFormed(Read(artifacts))
<1> DEFINE o == Read(artifacts)
           envelope == Last(artifacts)
           payload == Payload(envelope)
           evidence == Get(payload, "evidence", <<>>)
<1>1. artifacts # <<>> /\ o # TransportError /\ o # Raised
  BY DEF IsOutcome, Read
<1>2. evidence \in Seq(Range(evidence))
  BY <1>1, ForeignAssumption
<1>3. o = PayloadResult(payload) \/ o = PayloadError(payload)
  BY <1>1 DEF Read
<1> HIDE DEF o, payload
<1>4. CASE o = PayloadResult(payload)
  <2> DEFINE r == [task_id |-> payload["task_id"], status |-> Get(payload, "status", "success"),
                   output |-> Get(payload, "output", {}),
                   confidence |-> Get(payload, "confidence", None), evidence |-> evidence]
  <2>1. o = NewResult(r)
    BY <1>1, <1>4 DEF PayloadResult
  <2>2. o = r /\ Valid(r)
    BY <1>1, <2>1 DEF NewResult
  <2>3. AResult(o)
    BY <1>2, <2>2 DEF AResult
  <2>4. "status" \in DOMAIN o
    BY <2>2
  <2> QED BY <2>3, <2>4 DEF WellFormed, IsResult, o
<1>5. CASE o = PayloadError(payload)
  <2>1. o = Failure(payload["task_id"], payload["error_code"], Get(payload, "retryable", FALSE))
    BY <1>1, <1>5 DEF PayloadError
  <2>2. AnError(o) /\ "error_code" \in DOMAIN o
    BY <2>1 DEF AnError, Failure
  <2> QED BY <2>2 DEF WellFormed, IsError, o
<1> QED BY <1>3, <1>4, <1>5

(* What the peer makes of the A2A task is what the task was made of. *)
LEMMA PeerIsTold ==
  ASSUME NEW o, WellFormed(o)
  PROVE  a2a_task_to_outcome(IF IsResult(o) THEN result_to_a2a_task(o)
                                            ELSE error_to_a2a_task(o)) = o
<1>1. CASE IsResult(o)
  BY <1>1, EitherKind, ResultToldBack DEF WellFormed
<1>2. CASE ~IsResult(o)
  BY <1>2, ErrorToldBack DEF WellFormed
<1> QED BY <1>1, <1>2

(* What a handler's outcome becomes is sent, or route() raises. *)
LEMMA HandledIsSendable ==
  ASSUME NEW s \in Scenarios, NEW c \in Calls, NEW k \in BOOLEAN, NEW asked \in BOOLEAN,
         NEW reply \in ServiceReplies
  PROVE  LET o == Handled(c, Handler(s.agent, k, asked, reply))
         IN  o = Raised \/ Sendable(o)
<1> DEFINE form == Handler(s.agent, k, asked, reply)
           o == Handled(c, form)
<1>1. \/ o = Raised
      \/ IsError(o) /\ AnError(o)
      \/ IsResult(o) /\ AResult(o) /\ o.evidence # None /\ o.output # None
  BY HandlerAssumption
<1>2. CASE IsError(o) /\ AnError(o)
  <2>1. WellFormed(o)
    BY <1>2 DEF WellFormed
  <2> QED BY <2>1, <1>2, EitherKind DEF Sendable
<1>3. CASE IsResult(o) /\ AResult(o) /\ o.evidence # None /\ o.output # None
  <2>1. o.task_id = c
    <3>1. "status" \in DOMAIN o /\ o # Raised
      BY <1>3 DEF IsResult, IsOutcome
    <3>2. o # Failure(c, form.error_code, form.retryable)
      BY <3>1 DEF Failure
    <3> HIDE DEF form
    <3> QED BY <3>1, <3>2 DEF Handled
  <2> QED BY <2>1, <1>3, CallAssumption DEF Sendable, WellFormed
<1> QED BY <1>1, <1>2, <1>3

(* A call nobody can take is answered with a failure. *)
LEMMA NobodyIsSendable ==
  ASSUME NEW c \in Calls
  PROVE  Sendable(Failure(c, "capability_unavailable", FALSE))
BY MarkAssumption DEF Sendable, WellFormed, IsResult, IsError, AnError, Failure

(* The state of a finished task is that of what route() returned. *)
LEMMA StateTells ==
  ASSUME NEW o, Sendable(o)
  PROVE  StateOf(Envelope(o)) = IF IsResult(o) THEN "COMPLETED" ELSE "FAILED"
BY DEF StateOf, Envelope, Get

LEMMA RefusalFails == StateOf([error_code |-> "missing_objective"]) = "FAILED"
BY NoneAssumption DEF StateOf, Get
-----------------------------------------------------------------------------
(* Initially, and types. *)

LEMMA InitInv == ASSUME Init PROVE IInv
<1>1. TypeOK
  BY ScenarioAssumption DEF Init, TypeOK, Places, Steps, NoTask
<1>2. \A c \in Calls : ClientInv(c)
  BY DEF Init, ClientInv, IsOutcome
<1>3. \A c \in Calls : ServerInv(c)
  <2> TAKE c \in Calls
  <2>1. work[c] = None /\ store[c] = NoTask /\ returned[c] = None /\ loop # c
    BY CallAssumption DEF Init
  <2> QED BY <2>1, MarkAssumption DEF ServerInv, Steps
<1>4. ServerAsStarted
  BY DEF Init, ServerAsStarted
<1> QED BY <1>1, <1>2, <1>3, <1>4 DEF IInv, CallsInv

(* How an action of one call ends: only that call's entries change. *)
LEMMA StoreState ==
  ASSUME TypeOK, NEW c \in Calls, NEW x
  PROVE  [store EXCEPT ![c].state = x] =
           [store EXCEPT ![c] = [state |-> x, artifact |-> store[c].artifact]]
<1>1. store[c] = [state |-> store[c].state, artifact |-> store[c].artifact]
  BY DEF TypeOK
<1>2. [store[c] EXCEPT !.state = x] = [state |-> x, artifact |-> store[c].artifact]
  BY <1>1
<1> QED BY <1>2

LEMMA StoreArtifact ==
  ASSUME TypeOK, NEW c \in Calls, NEW x
  PROVE  [store EXCEPT ![c].artifact = x] =
           [store EXCEPT ![c] = [state |-> store[c].state, artifact |-> x]]
<1>1. store[c] = [state |-> store[c].state, artifact |-> store[c].artifact]
  BY DEF TypeOK
<1>2. [store[c] EXCEPT !.artifact = x] = [state |-> store[c].state, artifact |-> x]
  BY <1>1
<1> QED BY <1>2

LEMMA StoreType ==
  ASSUME TypeOK, NEW c \in Calls, NEW x,
         \/ store' = [store EXCEPT ![c].state = x]
         \/ store' = [store EXCEPT ![c].artifact = x]
  PROVE  store' = [e \in Calls |-> [state |-> store'[e].state, artifact |-> store'[e].artifact]]
<1>1. PICK s, a : store' = [store EXCEPT ![c] = [state |-> s, artifact |-> a]]
  <2>1. CASE store' = [store EXCEPT ![c].state = x]
    <3>1. store' = [store EXCEPT ![c] = [state |-> x, artifact |-> store[c].artifact]]
      BY <2>1, StoreState
    <3> QED BY <3>1
  <2>2. CASE store' = [store EXCEPT ![c].artifact = x]
    <3>1. store' = [store EXCEPT ![c] = [state |-> store[c].state, artifact |-> x]]
      BY <2>2, StoreArtifact
    <3> QED BY <3>1
  <2> QED BY <2>1, <2>2
<1>2. store'[c] = [state |-> s, artifact |-> a]
  BY <1>1 DEF TypeOK
<1>3. \A e \in Calls : e # c => store'[e] = store[e]
  BY <1>1 DEF TypeOK
<1>4. \A e \in Calls :
        store'[e] = [state |-> store'[e].state, artifact |-> store'[e].artifact]
  BY <1>2, <1>3 DEF TypeOK
<1>5. store' = [e \in Calls |-> store'[e]]
  BY <1>1 DEF TypeOK
<1> QED BY <1>4, <1>5

LEMMA EndType ==
  ASSUME TypeOK, NEW c \in Calls, NEW o, End(c, o)
  PROVE  pc' \in [Calls -> Places] /\ outcome' = [e \in Calls |-> outcome'[e]]
BY DEF TypeOK, End, Places

LEMMA DispatchType ==
  ASSUME TypeOK, NEW c \in Calls, Dispatch(c)
  PROVE  pc' \in [Calls -> Places] /\ outcome' = [e \in Calls |-> outcome'[e]]
BY DEF TypeOK, End, Dispatch, Places

LEMMA RouteEndsType ==
  ASSUME TypeOK, NEW c \in Calls, NEW o, RouteEnds(c, o)
  PROVE  /\ work' \in [Calls -> Steps \cup {None}] /\ returned' = [e \in Calls |-> returned'[e]]
         /\ store' = [e \in Calls |-> [state |-> store'[e].state, artifact |-> store'[e].artifact]]
<1>1. store' = store \/ store' = [store EXCEPT ![c].artifact = Envelope(o)]
  BY DEF RouteEnds
<1>2. store' = [e \in Calls |-> [state |-> store'[e].state, artifact |-> store'[e].artifact]]
  BY <1>1, StoreType DEF TypeOK
<1>3. work' \in [Calls -> Steps \cup {None}] /\ returned' = [e \in Calls |-> returned'[e]]
  BY DEF TypeOK, RouteEnds, Steps
<1> QED BY <1>2, <1>3

(* The type invariant is inductive. *)
LEMMA NextType ==
  ASSUME TypeOK, Next
  PROVE  TypeOK'
<1>1. ASSUME NEW c \in Calls, Ask(c) PROVE TypeOK'
  BY <1>1, EndType, DispatchType DEF Ask, TypeOK, server
<1>2. ASSUME NEW c \in Calls, NEW d \in Calls, HandlerCalls(c, d) PROVE TypeOK'
  BY <1>2, DispatchType DEF HandlerCalls, TypeOK, server
<1>3. ASSUME NEW c \in Calls, GetCard(c) PROVE TypeOK'
  BY <1>3 DEF GetCard, TypeOK, server, Places
<1>4. ASSUME NEW c \in Calls, Send(c) PROVE TypeOK'
  BY <1>4 DEF Send, TypeOK, server, Places, Steps
<1>5. ASSUME NEW c \in Calls, Receive(c) PROVE TypeOK'
  BY <1>5, EndType DEF Receive, TypeOK, server
<1>6. ASSUME NEW c \in Calls, ForeignReply(c) PROVE TypeOK'
  BY <1>6, EndType DEF ForeignReply, TypeOK, server
<1>7. ASSUME NEW c \in Calls, GiveUp(c) PROVE TypeOK'
  BY <1>7, EndType DEF GiveUp, TypeOK, server
<1>8. ASSUME NEW c \in Calls, Answer(c) PROVE TypeOK'
  BY <1>8 DEF Answer, TypeOK, server
<1>9. ASSUME NEW c \in Calls, Accept(c) PROVE TypeOK'
  BY <1>9, StoreType DEF Accept, TypeOK, client, Steps
<1>10. ASSUME NEW c \in Calls, RefuseMessage(c) PROVE TypeOK'
  BY <1>10, StoreType DEF RefuseMessage, TypeOK, client, Steps
<1>11. ASSUME NEW c \in Calls, RouteNobody(c) PROVE TypeOK'
  BY <1>11, RouteEndsType DEF RouteNobody, TypeOK, client
<1>12. ASSUME NEW c \in Calls, Route(c) PROVE TypeOK'
  BY <1>12 DEF Route, TypeOK, client, Steps
<1>13. ASSUME NEW c \in Calls, HandlerReturns(c) PROVE TypeOK'
  BY <1>13, RouteEndsType DEF HandlerReturns, TypeOK, client
<1>14. ASSUME NEW c \in Calls, HandsOn(c) PROVE TypeOK'
  BY <1>14, RouteEndsType DEF HandsOn, TypeOK, client
<1>15. ASSUME NEW c \in Calls, Finish(c) PROVE TypeOK'
  BY <1>15, StoreType DEF Finish, TypeOK, client, Steps
<1>16. ASSUME Crash PROVE TypeOK'
  <2>1. /\ work' \in [Calls -> Steps \cup {None}] /\ pc' \in [Calls -> Places]
        /\ outcome' = [c \in Calls |-> outcome'[c]]
    BY <1>16 DEF Crash, TypeOK, Places, Steps
  <2>2. store' = [c \in Calls |-> NoTask]
    BY <1>16 DEF Crash
  <2>3. \A c \in Calls : store'[c] = [state |-> store'[c].state, artifact |-> store'[c].artifact]
    BY <2>2 DEF NoTask
  <2>4. store' = [c \in Calls |-> [state |-> store'[c].state, artifact |-> store'[c].artifact]]
    BY <2>2, <2>3
  <2>5. up' \in BOOLEAN /\ key' \in BOOLEAN /\ crashes' \in Nat /\ loop' \in Calls \cup {None}
    <3>1. up' = FALSE /\ key' = key /\ crashes' = crashes + 1 /\ loop' = None
      BY <1>16 DEF Crash
    <3>2. crashes \in Nat /\ key \in BOOLEAN
      BY DEF TypeOK
    <3>3. crashes' \in Nat
      BY <3>1, <3>2
    <3>4. key' \in BOOLEAN
      BY <3>1, <3>2
    <3> QED BY <3>1, <3>3, <3>4
  <2>6. /\ scenario' \in Scenarios
        /\ task' = [c \in Calls |-> task'[c]] /\ told' = [c \in Calls |-> told'[c]]
        /\ returned' = [c \in Calls |-> returned'[c]]
        /\ nested' \in [Calls -> Calls \cup {None}]
    BY <1>16 DEF Crash, TypeOK
  <2> QED BY <2>1, <2>4, <2>5, <2>6 DEF TypeOK
<1>17. ASSUME Restart PROVE TypeOK'
  BY <1>17 DEF Restart, TypeOK, client
<1> QED BY <1>1, <1>2, <1>3, <1>4, <1>5, <1>6, <1>7, <1>8, <1>9, <1>10, <1>11, <1>12, <1>13,
           <1>14, <1>15, <1>16, <1>17 DEF Next, Execute
-----------------------------------------------------------------------------
(* Every action preserves what is said of every call. *)

CallOK(c) == ClientInv(c) /\ ServerInv(c)

(* What a step does not touch stands. *)
ClientSame(c) ==
  /\ pc'[c] = pc[c] /\ task'[c] = task[c] /\ outcome'[c] = outcome[c] /\ told'[c] = told[c]
ServerSame(c) ==
  /\ work'[c] = work[c] /\ store'[c] = store[c] /\ returned'[c] = returned[c]
  /\ loop' = c => loop = c

LEMMA CardSame ==
  ASSUME NEW c \in Calls, scenario' = scenario
  PROVE  (IsNexus(c)' <=> IsNexus(c)) /\ TaskOf(c)' = TaskOf(c)
BY DEF IsNexus, card, TaskOf

LEMMA ServerStands ==
  ASSUME NEW c \in Calls, ServerInv(c), scenario' = scenario, ServerSame(c)
  PROVE  ServerInv(c)'
BY CardSame DEF ServerInv, ServerSame, Told, NoTask, Open

LEMMA CallStands ==
  ASSUME NEW c \in Calls, CallOK(c), scenario' = scenario, ClientSame(c), ServerSame(c)
  PROVE  CallOK(c)'
<1>1. ServerInv(c)'
  BY ServerStands DEF CallOK
<1>2. ClientInv(c)'
  BY CardSame DEF CallOK, ClientInv, ClientSame, ServerSame
<1> QED BY <1>1, <1>2 DEF CallOK

(* A client that goes on, or whose call ends without an answer. *)
LEMMA ClientMoves ==
  ASSUME TypeOK, CallsInv, NEW c \in Calls, scenario' = scenario, UNCHANGED <<told, server>>,
         NEW p \in Places \ {"idle"}, pc' = [pc EXCEPT ![c] = p],
         task'[c] = TaskOf(c), \A e \in Calls \ {c} : task'[e] = task[e],
         pc[c] # "done", p \in {"resolving", "sending"} => pc[c] \in {"idle", "resolving"},
         \/ p # "done" /\ outcome' = outcome
         \/ /\ p = "done"
            /\ \/ outcome' = [outcome EXCEPT ![c] = TransportError]
               \/ task'[c] = Raised /\ outcome' = [outcome EXCEPT ![c] = Raised]
  PROVE  CallsInv'
<1> USE DEF TypeOK
<1>1. ASSUME NEW e \in Calls, e # c PROVE CallOK(e)'
  BY <1>1, CallStands DEF CallsInv, CallOK, ClientSame, ServerSame, server
<1>2. ServerInv(c)'
  BY ServerStands DEF CallsInv, ServerSame, server
<1>3. ClientInv(c)'
  <2>1. ClientInv(c)
    BY DEF CallsInv
  <2>2. pc'[c] = p /\ work'[c] = work[c] /\ returned'[c] = returned[c] /\ told'[c] = told[c]
    BY DEF server
  <2>3. outcome[c] = None /\ told[c] = None
    BY <2>1 DEF ClientInv
  <2>4. /\ p # "done" => outcome'[c] = None
        /\ p = "done" => \/ outcome'[c] = TransportError
                         \/ outcome'[c] = Raised /\ task'[c] = Raised
    BY <2>3
  <2>5. task'[c] = TaskOf(c)'
    BY CardSame
  <2>6. pc'[c] # "idle"
    BY <2>2
  <2>7. pc'[c] \in {"resolving", "sending"} => work'[c] = None /\ returned'[c] = None
    BY <2>1, <2>2 DEF ClientInv
  <2>8. pc'[c] # "done" => outcome'[c] = None
    BY <2>2, <2>4
  <2>9. told'[c] = None /\ outcome'[c] \in {None, Raised, TransportError}
    BY <2>2, <2>3, <2>4
  <2>10. pc'[c] = "done" => \/ outcome'[c] = TransportError
                            \/ outcome'[c] = Raised /\ task'[c] = Raised
    BY <2>2, <2>4
  <2> QED BY <2>5, <2>6, <2>7, <2>8, <2>9, <2>10 DEF ClientInv
<1> QED BY <1>1, <1>2, <1>3 DEF CallsInv, CallOK

LEMMA AskKeeps ==
  ASSUME TypeOK, CallsInv, NEW c \in Calls, Ask(c)
  PROVE  CallsInv'
<1>1. /\ pc[c] = "idle" /\ scenario' = scenario /\ UNCHANGED <<told, server>>
      /\ task' = [task EXCEPT ![c] = TaskOf(c)]
  BY DEF Ask, TaskOf
<1>2. task'[c] = TaskOf(c) /\ \A e \in Calls \ {c} : task'[e] = task[e]
  BY <1>1 DEF TypeOK
<1>3. \/ TaskOf(c) = Raised /\ End(c, Raised)
      \/ End(c, TransportError)
      \/ pc' = [pc EXCEPT ![c] = "resolving"] /\ UNCHANGED outcome
  BY DEF Ask, Dispatch, TaskOf
<1>4. \E p \in {"resolving", "done"} :
        /\ pc' = [pc EXCEPT ![c] = p]
        /\ \/ p # "done" /\ outcome' = outcome
           \/ /\ p = "done"
              /\ \/ outcome' = [outcome EXCEPT ![c] = TransportError]
                 \/ task'[c] = Raised /\ outcome' = [outcome EXCEPT ![c] = Raised]
  BY <1>2, <1>3 DEF End
<1> QED BY <1>1, <1>2, <1>4, ClientMoves DEF Places

LEMMA HandlerCallsKeeps ==
  ASSUME TypeOK, CallsInv, NEW c \in Calls, NEW d \in Calls, HandlerCalls(c, d)
  PROVE  CallsInv'
<1>1. /\ pc[d] = "idle" /\ scenario' = scenario /\ UNCHANGED <<told, server>>
      /\ task' = [task EXCEPT ![d] = TaskOf(d)]
  BY DEF HandlerCalls, TaskOf
<1>2. task'[d] = TaskOf(d) /\ \A e \in Calls \ {d} : task'[e] = task[e]
  BY <1>1 DEF TypeOK
<1>3. \E p \in {"resolving", "done"} :
        /\ pc' = [pc EXCEPT ![d] = p]
        /\ \/ p # "done" /\ outcome' = outcome
           \/ p = "done" /\ outcome' = [outcome EXCEPT ![d] = TransportError]
  BY DEF HandlerCalls, Dispatch, End
<1> QED BY <1>1, <1>2, <1>3, ClientMoves DEF Places

LEMMA GetCardKeeps ==
  ASSUME TypeOK, CallsInv, NEW c \in Calls, GetCard(c)
  PROVE  CallsInv'
<1>1. task[c] = TaskOf(c)
  BY DEF CallsInv, ClientInv, GetCard
<1> QED BY <1>1, ClientMoves DEF GetCard, Places

LEMMA GiveUpKeeps ==
  ASSUME TypeOK, CallsInv, NEW c \in Calls, Waiting(c), End(c, TransportError),
         UNCHANGED <<scenario, task, nested, told, server>>
  PROVE  CallsInv'
<1>1. task[c] = TaskOf(c) /\ pc[c] # "done"
  BY DEF CallsInv, ClientInv, Waiting
<1>2. "done" \in Places \ {"idle"}
  BY DEF Places
<1> QED BY <1>1, <1>2, ClientMoves DEF End

LEMMA SendKeeps ==
  ASSUME TypeOK, CallsInv, NEW c \in Calls, Send(c)
  PROVE  CallsInv'
<1> USE DEF TypeOK
<1>1. ASSUME NEW e \in Calls, e # c PROVE CallOK(e)'
  BY <1>1, CallStands DEF CallsInv, CallOK, ClientSame, ServerSame, Send
<1>2. /\ ClientInv(c) /\ ServerInv(c) /\ pc[c] = "sending" /\ pc'[c] = "waiting"
      /\ UNCHANGED <<scenario, task, outcome, told, store, returned, loop>>
      /\ work'[c] = IF IsNexus(c) THEN "received" ELSE work[c]
  BY DEF Send, CallsInv
<1>3. work[c] = None /\ returned[c] = None /\ outcome[c] = None /\ store[c] = NoTask
  BY <1>2 DEF ClientInv, ServerInv
<1>4. ClientInv(c)'
  BY <1>2, <1>3, CardSame DEF ClientInv
<1>5. loop # c
  BY <1>2, <1>3, MarkAssumption DEF ServerInv, Steps
<1>6. ServerInv(c)'
  <2>1. CASE IsNexus(c)
    BY <2>1, <1>2, <1>3, <1>5, CardSame, MarkAssumption DEF ServerInv, NoTask, Steps
  <2>2. CASE ~IsNexus(c)
    BY <2>2, <1>2, ServerStands DEF ServerSame
  <2> QED BY <2>1, <2>2
<1> QED BY <1>1, <1>4, <1>6 DEF CallsInv, CallOK

LEMMA ReceiveKeeps ==
  ASSUME TypeOK, CallsInv, NEW c \in Calls, Receive(c)
  PROVE  CallsInv'
<1>1. CASE work[c] = "failed"
  BY <1>1, GiveUpKeeps DEF Receive, Waiting
<1>2. CASE work[c] = "finished" /\ End(c, Read(<<store[c].artifact>>))
  <2>1. ClientInv(c) /\ ServerInv(c) /\ Told(c)
    BY <1>2 DEF CallsInv, ServerInv
  <2>2. CASE Sendable(returned[c]) /\ store[c].artifact = Envelope(returned[c])
    <3> USE DEF TypeOK
    <3>1. End(c, returned[c])
      BY <1>2, <2>2, ReadsBack
    <3>2. ASSUME NEW e \in Calls, e # c PROVE CallOK(e)'
      BY <3>1, <3>2, CallStands
         DEF CallsInv, CallOK, ClientSame, ServerSame, Receive, End, server
    <3>3. ServerInv(c)'
      BY <2>1, ServerStands DEF ServerSame, Receive, server
    <3>4. /\ pc[c] = "waiting" /\ pc'[c] = "done" /\ outcome'[c] = returned[c]
          /\ UNCHANGED <<scenario, task, told, work, returned>>
      BY <3>1 DEF Receive, End, server
    <3>5. told[c] = None /\ IsNexus(c)
      BY <1>2, <2>1, <3>4, MarkAssumption DEF ClientInv, ServerInv, Steps
    <3>6. ClientInv(c)'
      BY <1>2, <2>1, <2>2, <3>4, <3>5, CardSame DEF ClientInv
    <3> QED BY <3>2, <3>3, <3>6 DEF CallsInv, CallOK
  <2>3. CASE store[c].artifact = [error_code |-> "missing_objective"]
    <3>1. End(c, TransportError)
      BY <1>2, <2>3, ReadsRefusal
    <3> QED BY <3>1, GiveUpKeeps DEF Receive, Waiting
  <2> QED BY <2>1, <2>2, <2>3 DEF Told
<1> QED BY <1>1, <1>2 DEF Receive

LEMMA ForeignReplyKeeps ==
  ASSUME TypeOK, CallsInv, NEW c \in Calls, ForeignReply(c)
  PROVE  CallsInv'
<1> USE DEF TypeOK
<1>1. PICK artifacts \in ForeignArtifacts : End(c, Read(artifacts))
  BY DEF ForeignReply
<1>2. ASSUME NEW e \in Calls, e # c PROVE CallOK(e)'
  BY <1>1, <1>2, CallStands
     DEF CallsInv, CallOK, ClientSame, ServerSame, ForeignReply, End, server
<1>3. ClientInv(c) /\ ServerInv(c)
  BY DEF CallsInv
<1>4. ServerInv(c)'
  BY <1>3, ServerStands DEF ServerSame, ForeignReply, server
<1>5. /\ pc[c] = "waiting" /\ ~IsNexus(c) /\ pc'[c] = "done" /\ outcome'[c] = Read(artifacts)
      /\ UNCHANGED <<scenario, task, told, work, returned>>
  BY <1>1 DEF ForeignReply, End, server
<1>6. told[c] = None
  BY <1>3, <1>5 DEF ClientInv
<1>7. outcome'[c] \notin {None, Raised, TransportError} => WellFormed(outcome'[c])
  BY <1>5, ReadsForeign DEF IsOutcome
<1>8. ClientInv(c)'
  BY <1>3, <1>5, <1>6, <1>7, CardSame DEF ClientInv
<1> QED BY <1>2, <1>4, <1>8 DEF CallsInv, CallOK

LEMMA AnswerKeeps ==
  ASSUME TypeOK, CallsInv, NEW c \in Calls, Answer(c)
  PROVE  CallsInv'
<1> USE DEF TypeOK
<1>1. ASSUME NEW e \in Calls, e # c PROVE CallOK(e)'
  BY <1>1, CallStands DEF CallsInv, CallOK, ClientSame, ServerSame, Answer, server
<1>2. ClientInv(c) /\ ServerInv(c)
  BY DEF CallsInv
<1>3. ServerInv(c)'
  BY <1>2, ServerStands DEF ServerSame, Answer, server
<1>4. IsOutcome(outcome[c]) /\ pc[c] = "done"
  BY DEF Answer
<1>5. WellFormed(outcome[c])
  <2>1. CASE IsNexus(c)
    BY <2>1, <1>2, <1>4 DEF ClientInv, Sendable, IsOutcome
  <2>2. CASE ~IsNexus(c)
    BY <2>2, <1>2, <1>4 DEF ClientInv, IsOutcome
  <2> QED BY <2>1, <2>2
<1>6. told'[c] = outcome[c]
  BY <1>5, PeerIsTold DEF Answer
<1>7. ClientInv(c)'
  BY <1>2, <1>6, CardSame DEF ClientInv, Answer, server
<1> QED BY <1>1, <1>3, <1>7 DEF CallsInv, CallOK

LEMMA Published ==
  ASSUME TypeOK, NEW c \in Calls, NEW x, store' = [store EXCEPT ![c].artifact = x]
  PROVE  store'[c].state = store[c].state /\ store'[c].artifact = x
<1>1. store' = [store EXCEPT ![c] = [state |-> store[c].state, artifact |-> x]]
  BY StoreArtifact
<1>2. store'[c] = [state |-> store[c].state, artifact |-> x]
  BY <1>1 DEF TypeOK
<1> QED BY <1>2

(* A step of the server with one call that has no artifact to end with yet. *)
LEMMA ServerMoves ==
  ASSUME TypeOK, CallsInv, NEW c \in Calls, scenario' = scenario, UNCHANGED client,
         work[c] \in Steps \ {"finished"},
         \A e \in Calls \ {c} : ServerSame(e),
         ServerInv(c)'
  PROVE  CallsInv'
<1>1. ASSUME NEW e \in Calls, e # c PROVE CallOK(e)'
  BY <1>1, CallStands DEF CallsInv, CallOK, ClientSame, client
<1>2. ClientInv(c)
  BY DEF CallsInv
<1>3. work[c] \notin {None, "finished"}
  BY MarkAssumption
<1>4. pc[c] \notin {"idle", "resolving", "sending"}
  BY <1>2, <1>3 DEF ClientInv
<1>5. IsNexus(c) /\ pc[c] = "done" =>
         outcome[c] = TransportError \/ (outcome[c] = Raised /\ task[c] = Raised)
  BY <1>2, <1>3 DEF ClientInv
<1>6. ClientInv(c)'
  BY <1>2, <1>4, <1>5, CardSame DEF ClientInv, client
<1> QED BY <1>1, <1>6 DEF CallsInv, CallOK

LEMMA AcceptKeeps ==
  ASSUME TypeOK, CallsInv, NEW c \in Calls, Accept(c)
  PROVE  CallsInv'
<1> USE DEF TypeOK
<1>1. \A e \in Calls \ {c} : ServerSame(e)
  BY DEF ServerSame, Accept
<1>2. /\ ServerInv(c) /\ work[c] = "received" /\ work'[c] = "working"
      /\ UNCHANGED <<scenario, returned, loop>>
  BY DEF CallsInv, Accept
<1>3. store'[c] = Open
  BY <1>2, StoreState DEF Accept, ServerInv, NoTask, Open
<1>4. ServerInv(c)'
  BY <1>2, <1>3, CardSame, MarkAssumption DEF ServerInv, Steps, Open
<1> QED BY <1>1, <1>2, <1>4, ServerMoves DEF Accept, Steps

LEMMA RefuseMessageKeeps ==
  ASSUME TypeOK, CallsInv, NEW c \in Calls, RefuseMessage(c)
  PROVE  CallsInv'
<1> USE DEF TypeOK
<1>1. \A e \in Calls \ {c} : ServerSame(e)
  BY DEF ServerSame, RefuseMessage
<1>2. /\ ServerInv(c) /\ work[c] = "working" /\ work'[c] = "published"
      /\ UNCHANGED <<scenario, returned, loop>>
  BY DEF CallsInv, RefuseMessage
<1>3. store'[c].state = store[c].state /\ store'[c].artifact = [error_code |-> "missing_objective"]
  BY Published DEF RefuseMessage
<1>4. ServerInv(c)'
  BY <1>2, <1>3, CardSame, MarkAssumption DEF ServerInv, Steps, Told, Open
<1> QED BY <1>1, <1>2, <1>4, ServerMoves DEF RefuseMessage, Steps

(* route() ends with what can be sent, or raises. *)
LEMMA RouteEndsKeeps ==
  ASSUME TypeOK, CallsInv, NEW c \in Calls, scenario' = scenario, UNCHANGED client,
         work[c] \in {"working", "routing"}, loop' # c, loop' \in {loop, None},
         NEW o, RouteEnds(c, o), o = Raised \/ Sendable(o)
  PROVE  CallsInv'
<1> USE DEF TypeOK
<1>1. \A e \in Calls \ {c} : ServerSame(e)
  <2> TAKE e \in Calls \ {c}
  <2>1. work'[e] = work[e] /\ returned'[e] = returned[e] /\ store'[e] = store[e]
    BY DEF RouteEnds
  <2>2. loop' = e => loop = e
    BY CallAssumption
  <2> QED BY <2>1, <2>2 DEF ServerSame
<1>2. ServerInv(c) /\ IsNexus(c)
  BY MarkAssumption DEF CallsInv, ServerInv, Steps
<1>3. store[c] = Open
  BY <1>2 DEF ServerInv
<1>4. ServerInv(c)'
  <2>1. CASE o = Raised
    <3>1. work'[c] = "failed" /\ store'[c] = Open /\ returned'[c] = Raised
      BY <2>1, <1>3 DEF RouteEnds
    <3> QED BY <3>1, <1>2, CardSame, MarkAssumption DEF ServerInv, Steps
  <2>2. CASE o # Raised
    <3>1. work'[c] = "published" /\ returned'[c] = o /\ Sendable(o)
      BY <2>2 DEF RouteEnds
    <3>2. store'[c].state = "WORKING" /\ store'[c].artifact = Envelope(o)
      BY <2>2, <1>3, Published DEF RouteEnds, Open
    <3> QED BY <2>2, <3>1, <3>2, <1>2, CardSame, MarkAssumption DEF ServerInv, Steps, Told
  <2> QED BY <2>1, <2>2
<1> QED BY <1>1, <1>4, ServerMoves DEF Steps

LEMMA RouteNobodyKeeps ==
  ASSUME TypeOK, CallsInv, NEW c \in Calls, RouteNobody(c)
  PROVE  CallsInv'
<1>1. loop = None /\ loop' = None /\ None # c
  BY CallAssumption DEF RouteNobody, Idle
<1> QED BY <1>1, NobodyIsSendable, RouteEndsKeeps DEF RouteNobody, client

LEMMA RouteKeeps ==
  ASSUME TypeOK, CallsInv, NEW c \in Calls, Route(c)
  PROVE  CallsInv'
<1> USE DEF TypeOK
<1>1. \A e \in Calls \ {c} : ServerSame(e)
  BY DEF ServerSame, Route
<1>2. /\ ServerInv(c) /\ work[c] = "working" /\ work'[c] = "routing"
      /\ UNCHANGED <<scenario, returned, store>>
  BY DEF CallsInv, Route
<1>3. TaskOf(c).objective \in Objectives
  <2>1. ClientInv(c) /\ task[c].objective \in Objectives
    BY DEF CallsInv, Route
  <2>2. pc[c] # "idle"
    BY <1>2, <2>1, MarkAssumption DEF ClientInv, Steps
  <2> QED BY <2>1, <2>2 DEF ClientInv
<1>4. ServerInv(c)'
  BY <1>2, <1>3, CardSame, MarkAssumption DEF ServerInv, Steps
<1> QED BY <1>1, <1>2, <1>4, ServerMoves DEF Route, Steps

LEMMA HandlerReturnsKeeps ==
  ASSUME TypeOK, CallsInv, NEW c \in Calls, HandlerReturns(c)
  PROVE  CallsInv'
<1>1. PICK reply \in ServiceReplies :
        RouteEnds(c, Handled(c, Handler(scenario.agent, key, task[c].input # {}, reply)))
  BY DEF HandlerReturns
<1> DEFINE asked == task[c].input # {}
           o == Handled(c, Handler(scenario.agent, key, asked, reply))
<1>2. o = Raised \/ Sendable(o)
  <2>1. asked \in BOOLEAN /\ key \in BOOLEAN /\ scenario \in Scenarios
    BY DEF TypeOK
  <2> HIDE DEF asked
  <2> QED BY <2>1, HandledIsSendable
<1>3. work[c] = "routing"
  BY DEF CallsInv, ServerInv, HandlerReturns
<1>4. loop' = None /\ None # c
  BY CallAssumption DEF HandlerReturns
<1> HIDE DEF o
<1>5. RouteEnds(c, o)
  BY <1>1 DEF o
<1> QED BY <1>2, <1>3, <1>4, <1>5, RouteEndsKeeps DEF HandlerReturns

LEMMA HandsOnKeeps ==
  ASSUME TypeOK, CallsInv, NEW c \in Calls, HandsOn(c)
  PROVE  CallsInv'
<1> DEFINE d == nested[c]
           o == IF IsError(outcome[d]) THEN outcome[d] ELSE Raised
<1>1. d \in Calls /\ pc[d] = "done"
  BY DEF HandsOn, TypeOK
<1>2. o = Raised \/ Sendable(o)
  <2>1. ASSUME IsError(outcome[d]) PROVE Sendable(outcome[d])
    <3>1. ClientInv(d)
      BY <1>1 DEF CallsInv
    <3>2. WellFormed(outcome[d]) \/ Sendable(outcome[d])
      BY <1>1, <2>1, <3>1 DEF ClientInv, IsError, IsOutcome
    <3> QED BY <3>2, <2>1, EitherKind DEF Sendable
  <2> QED BY <2>1
<1>3. work[c] = "routing"
  BY DEF CallsInv, ServerInv, HandsOn
<1>4. loop' = None /\ None # c
  BY CallAssumption DEF HandsOn
<1>5. RouteEnds(c, o)
  BY DEF HandsOn
<1> HIDE DEF o
<1> QED BY <1>2, <1>3, <1>4, <1>5, RouteEndsKeeps DEF HandsOn

LEMMA FinishKeeps ==
  ASSUME TypeOK, CallsInv, NEW c \in Calls, Finish(c)
  PROVE  CallsInv'
<1> USE DEF TypeOK
<1>1. \A e \in Calls \ {c} : ServerSame(e)
  BY DEF ServerSame, Finish
<1>2. /\ ServerInv(c) /\ work[c] = "published" /\ work'[c] = "finished"
      /\ UNCHANGED <<scenario, returned, loop>>
  BY DEF CallsInv, Finish
<1>3. store'[c].artifact = store[c].artifact /\ store'[c].state = StateOf(store[c].artifact)
  BY StoreState DEF Finish, StateOf
<1>4. ServerInv(c)'
  BY <1>2, <1>3, CardSame, MarkAssumption DEF ServerInv, Steps, Told, StateOf
<1> QED BY <1>1, <1>2, <1>4, ServerMoves DEF Finish, Steps

LEMMA CrashKeeps ==
  ASSUME TypeOK, CallsInv, Crash
  PROVE  CallsInv'
<1> USE DEF TypeOK
<1> SUFFICES ASSUME NEW c \in Calls PROVE CallOK(c)'
  BY DEF CallsInv, CallOK
<1>1. /\ work'[c] = None /\ store'[c] = NoTask /\ loop' = None
      /\ UNCHANGED <<scenario, task, told, returned>>
  BY DEF Crash
<1>2. ClientInv(c) /\ ServerInv(c)
  BY DEF CallsInv
<1>3. ServerInv(c)'
  BY <1>1, <1>2, CardSame, CallAssumption, MarkAssumption DEF ServerInv, Steps, NoTask
<1>4. \/ pc'[c] = pc[c] /\ outcome'[c] = outcome[c]
      \/ Waiting(c) /\ pc'[c] = "done" /\ outcome'[c] = TransportError
  BY DEF Crash
<1>5. ClientInv(c)'
  <2>1. CASE pc'[c] = pc[c] /\ outcome'[c] = outcome[c]
    BY <2>1, <1>1, <1>2, CardSame DEF ClientInv
  <2>2. CASE Waiting(c) /\ pc'[c] = "done" /\ outcome'[c] = TransportError
    <3>1. pc[c] \notin {"idle", "done"} /\ told[c] = None
      BY <2>2, <1>2 DEF Waiting, ClientInv
    <3> QED BY <2>2, <3>1, <1>1, <1>2, CardSame DEF ClientInv
  <2> QED BY <1>4, <2>1, <2>2
<1> QED BY <1>3, <1>5 DEF CallOK

LEMMA RestartKeeps ==
  ASSUME TypeOK, CallsInv, Restart
  PROVE  CallsInv'
BY CallStands DEF CallsInv, CallOK, ClientSame, ServerSame, Restart, client
-----------------------------------------------------------------------------
(* Every action preserves what is said of the server. *)

LEMMA CauseStands ==
  ASSUME NEW c \in Calls, Cause(c), scenario' = scenario, returned'[c] = returned[c]
  PROVE  Cause(c)'
BY DEF Cause, TaskOf

(* A step in which route() does not end. *)
LEMMA StartedStands ==
  ASSUME ServerAsStarted, UNCHANGED <<scenario, up, crashes, key, nested, returned>>
  PROVE  ServerAsStarted'
BY CauseStands DEF ServerAsStarted

LEMMA HandlerCallsStarted ==
  ASSUME ServerAsStarted, NEW c \in Calls, NEW d \in Calls, HandlerCalls(c, d)
  PROVE  ServerAsStarted'
<1>1. scenario.nested # {} /\ UNCHANGED <<scenario, up, crashes, key, returned>>
  BY DEF HandlerCalls, server
<1> QED BY <1>1, CauseStands DEF ServerAsStarted

(* A route() that ends has a cause, when a language model serves. *)
LEMMA RouteEndsStarted ==
  ASSUME TypeOK, ServerAsStarted, UNCHANGED <<scenario, up, crashes, key, nested>>,
         NEW c \in Calls, NEW o, RouteEnds(c, o),
         scenario.agent \in Models /\ crashes = 0 /\ o # Raised =>
           \/ /\ TaskOf(c).objective \notin Objectives \cup {""}
              /\ o = Failure(c, "capability_unavailable", FALSE)
           \/ /\ TaskOf(c).objective \in Objectives
              /\ \E reply \in ServiceReplies :
                   o = Handled(c, Handler(scenario.agent, scenario.key,
                                          TaskOf(c).input # {}, reply))
  PROVE  ServerAsStarted'
<1>1. ASSUME scenario.agent \in Models, crashes = 0, NEW e \in Calls,
             returned'[e] \notin {None, Raised}
      PROVE  Cause(e)'
  <2>1. CASE returned'[e] = returned[e]
    BY <1>1, <2>1, CauseStands DEF ServerAsStarted
  <2>2. CASE returned'[e] # returned[e]
    <3>1. e = c /\ o # Raised /\ returned'[c] = o
      BY <1>1, <2>2 DEF RouteEnds, TypeOK
    <3>2. TaskOf(c)' = TaskOf(c)
      BY DEF TaskOf
    <3> QED BY <1>1, <3>1, <3>2 DEF Cause
  <2> QED BY <2>1, <2>2
<1> QED BY <1>1 DEF ServerAsStarted

LEMMA RouteNobodyStarted ==
  ASSUME IInv, NEW c \in Calls, RouteNobody(c)
  PROVE  ServerAsStarted'
<1>1. TypeOK /\ ServerAsStarted /\ ClientInv(c)
  BY DEF IInv, CallsInv
<1>2. task[c] = TaskOf(c)
  BY <1>1, MarkAssumption DEF ClientInv, RouteNobody, Steps
<1> QED BY <1>1, <1>2, RouteEndsStarted DEF RouteNobody, client

LEMMA HandlerReturnsStarted ==
  ASSUME IInv, NEW c \in Calls, HandlerReturns(c)
  PROVE  ServerAsStarted'
<1>1. TypeOK /\ ServerAsStarted /\ ClientInv(c) /\ ServerInv(c)
  BY DEF IInv, CallsInv
<1>2. task[c] = TaskOf(c)
  BY <1>1, MarkAssumption DEF ClientInv, ServerInv, HandlerReturns, Steps
<1>3. /\ crashes = 0 => key = scenario.key
      /\ TaskOf(c).objective \in Objectives
  BY <1>1 DEF ServerAsStarted, ServerInv, HandlerReturns
<1>4. PICK reply \in ServiceReplies :
        RouteEnds(c, Handled(c, Handler(scenario.agent, key, TaskOf(c).input # {}, reply)))
  BY <1>2 DEF HandlerReturns
<1> QED BY <1>1, <1>3, <1>4, RouteEndsStarted DEF HandlerReturns, client

(* Only a handler that places calls hands on what another returned: no     *)
(* language model's does.                                                  *)
LEMMA HandsOnStarted ==
  ASSUME IInv, NEW c \in Calls, HandsOn(c)
  PROVE  ServerAsStarted'
<1>1. TypeOK /\ ServerAsStarted
  BY DEF IInv
<1>2. scenario.agent \notin Models
  <2>1. scenario.nested # {}
    BY <1>1 DEF ServerAsStarted, HandsOn
  <2> QED BY <2>1, <1>1, ModelAssumption DEF TypeOK
<1>3. PICK o : RouteEnds(c, o)
  BY DEF HandsOn
<1> QED BY <1>1, <1>2, <1>3, RouteEndsStarted DEF HandsOn, client

LEMMA CrashStarted ==
  ASSUME TypeOK, ServerAsStarted, Crash
  PROVE  ServerAsStarted'
<1>1. crashes' # 0
  <2>1. crashes' = crashes + 1 /\ crashes \in Nat
    BY DEF Crash, TypeOK
  <2> QED BY <2>1
<1>2. UNCHANGED <<scenario, nested>>
  BY DEF Crash
<1> QED BY <1>1, <1>2 DEF ServerAsStarted

LEMMA RestartStarted ==
  ASSUME ServerAsStarted, Restart
  PROVE  ServerAsStarted'
<1>1. crashes # 0 /\ crashes' = crashes
  BY DEF Restart, ServerAsStarted
<1>2. UNCHANGED <<scenario, nested>>
  BY DEF Restart, client
<1> QED BY <1>1, <1>2 DEF ServerAsStarted

(* Every step preserves the invariant. *)
LEMMA NextInv ==
  ASSUME IInv, [Next]_vars
  PROVE  IInv'
<1>1. TypeOK /\ CallsInv /\ ServerAsStarted
  BY DEF IInv
<1>2. CASE Next
  <2> SUFFICES CallsInv' /\ ServerAsStarted'
    BY <1>1, <1>2, NextType DEF IInv
  <2>1. ASSUME NEW c \in Calls, Ask(c) PROVE CallsInv' /\ ServerAsStarted'
    BY <1>1, <2>1, AskKeeps, StartedStands DEF Ask, server
  <2>2. ASSUME NEW c \in Calls, NEW d \in Calls, HandlerCalls(c, d)
        PROVE  CallsInv' /\ ServerAsStarted'
    BY <1>1, <2>2, HandlerCallsKeeps, HandlerCallsStarted
  <2>3. ASSUME NEW c \in Calls, GetCard(c) PROVE CallsInv' /\ ServerAsStarted'
    BY <1>1, <2>3, GetCardKeeps, StartedStands DEF GetCard, server
  <2>4. ASSUME NEW c \in Calls, Send(c) PROVE CallsInv' /\ ServerAsStarted'
    BY <1>1, <2>4, SendKeeps, StartedStands DEF Send
  <2>5. ASSUME NEW c \in Calls, Receive(c) PROVE CallsInv' /\ ServerAsStarted'
    BY <1>1, <2>5, ReceiveKeeps, StartedStands DEF Receive, server
  <2>6. ASSUME NEW c \in Calls, ForeignReply(c) PROVE CallsInv' /\ ServerAsStarted'
    BY <1>1, <2>6, ForeignReplyKeeps, StartedStands DEF ForeignReply, server
  <2>7. ASSUME NEW c \in Calls, GiveUp(c) PROVE CallsInv' /\ ServerAsStarted'
    BY <1>1, <2>7, GiveUpKeeps, StartedStands DEF GiveUp, server
  <2>8. ASSUME NEW c \in Calls, Answer(c) PROVE CallsInv' /\ ServerAsStarted'
    BY <1>1, <2>8, AnswerKeeps, StartedStands DEF Answer, server
  <2>9. ASSUME NEW c \in Calls, Accept(c) PROVE CallsInv' /\ ServerAsStarted'
    BY <1>1, <2>9, AcceptKeeps, StartedStands DEF Accept, client
  <2>10. ASSUME NEW c \in Calls, RefuseMessage(c) PROVE CallsInv' /\ ServerAsStarted'
    BY <1>1, <2>10, RefuseMessageKeeps, StartedStands DEF RefuseMessage, client
  <2>11. ASSUME NEW c \in Calls, RouteNobody(c) PROVE CallsInv' /\ ServerAsStarted'
    BY <1>1, <2>11, RouteNobodyKeeps, RouteNobodyStarted
  <2>12. ASSUME NEW c \in Calls, Route(c) PROVE CallsInv' /\ ServerAsStarted'
    BY <1>1, <2>12, RouteKeeps, StartedStands DEF Route, client
  <2>13. ASSUME NEW c \in Calls, HandlerReturns(c) PROVE CallsInv' /\ ServerAsStarted'
    BY <1>1, <2>13, HandlerReturnsKeeps, HandlerReturnsStarted
  <2>14. ASSUME NEW c \in Calls, HandsOn(c) PROVE CallsInv' /\ ServerAsStarted'
    BY <1>1, <2>14, HandsOnKeeps, HandsOnStarted
  <2>15. ASSUME NEW c \in Calls, Finish(c) PROVE CallsInv' /\ ServerAsStarted'
    BY <1>1, <2>15, FinishKeeps, StartedStands DEF Finish, client
  <2>16. ASSUME Crash PROVE CallsInv' /\ ServerAsStarted'
    BY <1>1, <2>16, CrashKeeps, CrashStarted
  <2>17. ASSUME Restart PROVE CallsInv' /\ ServerAsStarted'
    BY <1>1, <2>17, RestartKeeps, RestartStarted
  <2> QED BY <1>2, <2>1, <2>2, <2>3, <2>4, <2>5, <2>6, <2>7, <2>8, <2>9, <2>10, <2>11, <2>12,
             <2>13, <2>14, <2>15, <2>16, <2>17 DEF Next, Execute
<1>3. CASE UNCHANGED vars
  <2>1. UNCHANGED <<scenario, pc, task, nested, outcome, told, up, loop, crashes, key, work,
                    store, returned>>
    BY <1>3 DEF vars, client, server
  <2>2. TypeOK'
    BY <1>1, <2>1 DEF TypeOK
  <2>3. CallsInv'
    BY <1>1, <2>1, CallStands DEF CallsInv, CallOK, ClientSame, ServerSame
  <2>4. ServerAsStarted'
    BY <1>1, <2>1, StartedStands
  <2> QED BY <2>2, <2>3, <2>4 DEF IInv
<1> QED BY <1>2, <1>3

LEMMA Invariance == Spec => []IInv
BY InitInv, NextInv, PTL DEF Spec
-----------------------------------------------------------------------------
(* The properties. *)

(* A task read from a message has an id, an objective and a known risk. *)
LEMMA ReadTask ==
  ASSUME TypeOK, NEW c \in Calls, TaskOf(c) # Raised
  PROVE  TaskOf(c) = a2a_message_to_task(task_to_a2a_message(TaskOf(c)), NewId)
<1> DEFINE message == scenario.message[c]
           t == [id |-> IF message.taskId = None THEN NewId ELSE message.taskId,
                 objective |-> message.metadata["objective"],
                 input |-> FirstInput(message.parts),
                 constraints |-> Get(message.metadata, "constraints", None),
                 risk |-> Get(message.metadata, "risk", None),
                 deadline |-> Get(message.metadata, "deadline", None),
                 context |-> Get(message.metadata, "context", None)]
<1>1. "objective" \in DOMAIN message.metadata /\ TaskOf(c) = Task(t)
  BY DEF TaskOf, a2a_message_to_task, Has
<1>2. t.id # None
  BY MarkAssumption
<1>3. t.objective # None
  BY <1>1, ScenarioAssumption DEF TypeOK
<1>4. t = [id |-> t.id, objective |-> t.objective, input |-> t.input,
           constraints |-> t.constraints, risk |-> t.risk, deadline |-> t.deadline,
           context |-> t.context]
  OBVIOUS
<1> HIDE DEF t
<1>5. t.risk \in RISK_LEVELS \cup {None} /\ TaskOf(c) = t
  BY <1>1 DEF Task
<1> QED BY <1>2, <1>3, <1>4, <1>5, TaskReturns

(* A call to a NexusCore returns what its own route() returned, and what    *)
(* passes the codec comes out as it went in, for any calls, messages,       *)
(* handlers, foreign agents and number of crashes.                         *)
THEOREM AnswerIsRoutedHolds == Spec => []AnswerIsRouted
<1>1. ASSUME IInv PROVE AnswerIsRouted
  <2> SUFFICES ASSUME NEW c \in Calls
      PROVE  /\ IsNexus(c) /\ pc[c] = "done" /\ task[c] # Raised =>
                  outcome[c] = TransportError
                    \/ (IsOutcome(outcome[c]) /\ outcome[c] = returned[c])
             /\ told[c] \in {None, outcome[c]}
             /\ task[c] \notin {None, Raised} =>
                  task[c] = a2a_message_to_task(task_to_a2a_message(task[c]), NewId)
             /\ to_agent_card(agent_card_to_identity(card(c)), card(c).url) = card(c)
    BY DEF AnswerIsRouted
  <2>1. TypeOK /\ ClientInv(c)
    BY <1>1 DEF IInv, CallsInv
  <2>2. IsNexus(c) /\ pc[c] = "done" /\ task[c] # Raised =>
          outcome[c] = TransportError \/ (IsOutcome(outcome[c]) /\ outcome[c] = returned[c])
    BY <2>1 DEF ClientInv, Sendable, WellFormed, IsResult, IsError
  <2>3. told[c] \in {None, outcome[c]}
    BY <2>1 DEF ClientInv
  <2>4. task[c] \notin {None, Raised} =>
          task[c] = a2a_message_to_task(task_to_a2a_message(task[c]), NewId)
    BY <2>1, ReadTask DEF ClientInv
  <2>5. to_agent_card(agent_card_to_identity(card(c)), card(c).url) = card(c)
    <3>1. scenario.identity[c].agent_id # None /\ scenario.identity[c].scope # None
      BY <2>1, ScenarioAssumption DEF TypeOK
    <3>2. card(c).url = scenario.url[c]
      BY DEF card, to_agent_card
    <3> QED BY <3>1, <3>2, CardReturns DEF card
  <2> QED BY <2>2, <2>3, <2>4, <2>5
<1> QED BY <1>1, Invariance, PTL

(* The state of a task, what its route() did and what its client is told    *)
(* are one story, and a task is left WORKING by exactly the execute() whose *)
(* route() raised: for any handlers, messages, clients that give up and     *)
(* number of crashes.                                                      *)
THEOREM StoryIsOneHolds == Spec => []StoryIsOne
<1>1. ASSUME IInv PROVE StoryIsOne
  <2> SUFFICES ASSUME NEW c \in Calls
      PROVE  /\ store[c].state = "COMPLETED" => IsResult(returned[c]) /\ ~IsError(outcome[c])
             /\ store[c].state = "FAILED" =>
                  returned[c] # Raised /\ ~IsResult(returned[c]) /\ ~IsResult(outcome[c])
             /\ returned[c] = Raised => store[c] \in {NoTask, Open} /\ ~IsOutcome(outcome[c])
             /\ store[c].state = "WORKING" /\ work[c] \in {"failed", "finished"} =>
                  returned[c] = Raised
    BY DEF StoryIsOne, Open
  <2>1. ClientInv(c) /\ ServerInv(c) /\ TypeOK
    BY <1>1 DEF IInv, CallsInv
  <2>2. ASSUME store[c].state \in {"COMPLETED", "FAILED"}
        PROVE  /\ work[c] = "finished" /\ IsNexus(c) /\ Told(c) /\ returned[c] # Raised
               /\ store[c].state = StateOf(store[c].artifact)
    <3>1. store[c] # NoTask /\ store[c] # Open
      BY <2>2, MarkAssumption DEF NoTask, Open, States
    <3>2. work[c] = "finished"
      BY <2>1, <2>2, <3>1 DEF ServerInv, TypeOK, Steps
    <3> QED BY <2>1, <3>2, MarkAssumption DEF ServerInv, Steps
  <2>3. ASSUME store[c].state \in {"COMPLETED", "FAILED"}
        PROVE  /\ store[c].state = "COMPLETED" => IsResult(returned[c])
               /\ store[c].state = "FAILED" => ~IsResult(returned[c])
    <3>1. CASE Sendable(returned[c]) /\ store[c].artifact = Envelope(returned[c])
      BY <2>2, <2>3, <3>1, StateTells
    <3>2. CASE returned[c] = None /\ store[c].artifact = [error_code |-> "missing_objective"]
      BY <2>2, <2>3, <3>2, RefusalFails DEF IsResult, IsOutcome
    <3> QED BY <2>2, <2>3, <3>1, <3>2 DEF Told
  <2>4. ASSUME store[c].state \in {"COMPLETED", "FAILED"}
        PROVE  /\ outcome[c] \in {None, Raised, TransportError}
                    \/ (outcome[c] = returned[c] /\ Sendable(returned[c]))
    BY <2>1, <2>2, <2>4 DEF ClientInv
  <2>5. store[c].state = "COMPLETED" => ~IsError(outcome[c])
    BY <2>3, <2>4, EitherKind DEF IsError, IsOutcome, Sendable
  <2>6. store[c].state = "FAILED" => returned[c] # Raised /\ ~IsResult(outcome[c])
    BY <2>2, <2>3, <2>4 DEF IsResult, IsOutcome
  <2>7. ASSUME returned[c] = Raised
        PROVE  store[c] \in {NoTask, Open} /\ ~IsOutcome(outcome[c])
    <3>1. work[c] \in {"failed", None} /\ IsNexus(c) /\ ~Sendable(returned[c])
      BY <2>1, <2>7, MarkAssumption
         DEF ServerInv, Sendable, WellFormed, IsResult, IsError, IsOutcome
    <3>2. store[c] \in {NoTask, Open}
      BY <2>1, <3>1 DEF ServerInv
    <3>3. outcome[c] \in {None, Raised, TransportError}
      BY <2>1, <3>1 DEF ClientInv
    <3> QED BY <3>2, <3>3 DEF IsOutcome
  <2>8. ASSUME store[c].state = "WORKING", work[c] \in {"failed", "finished"}
        PROVE  returned[c] = Raised
    <3>1. work[c] # "finished"
      BY <2>1, <2>8 DEF ServerInv, StateOf
    <3> QED BY <2>1, <2>8, <3>1 DEF ServerInv
  <2> QED BY <2>3, <2>5, <2>6, <2>7, <2>8
<1> QED BY <1>1, Invariance, PTL

(* A failure the handler reports is the call's. *)
LEMMA HandledFailed ==
  ASSUME NEW c, NEW code, NEW retryable
  PROVE  Handled(c, Failed(code, retryable)) = Failure(c, code, retryable)
<1> DEFINE form == Failed(code, retryable)
<1>1. form.form = "error_payload" /\ form.error_code = code /\ form.retryable = retryable
  BY DEF Failed
<1>2. form.form \notin {"dict", "result"}
  BY <1>1
<1> HIDE DEF form
<1>3. Handled(c, form) = Failure(c, code, retryable)
  BY <1>1, <1>2 DEF Handled
<1> QED BY <1>3 DEF form

(* What a model adapter's handler makes of a call depends on the service    *)
(* only if the call can be retried.                                        *)
LEMMA ChatFailsForGood ==
  ASSUME NEW needsKey \in BOOLEAN, NEW k \in BOOLEAN, NEW asked \in BOOLEAN,
         NEW r1, NEW r2, NEW c, NEW d,
         LET Form(r) == IF needsKey THEN Keyed(k, asked, r) ELSE Chat(asked, r)
         IN  /\ IsError(Handled(c, Form(r1))) /\ ~Handled(c, Form(r1)).retryable
             /\ IsResult(Handled(d, Form(r2)))
  PROVE  FALSE
<1> DEFINE Form(r) == IF needsKey THEN Keyed(k, asked, r) ELSE Chat(asked, r)
<1>1. CASE (needsKey /\ ~k) \/ ~asked
  <2>1. PICK code : Form(r2) = Failed(code, FALSE)
    BY <1>1 DEF Keyed, Chat
  <2>2. Handled(d, Form(r2)) = Failure(d, code, FALSE)
    BY <2>1, HandledFailed
  <2> QED BY <2>2 DEF IsResult, Failure
<1>2. CASE ~((needsKey /\ ~k) \/ ~asked)
  <2>1. Form(r1) = Chat(asked, r1)
    BY <1>2 DEF Keyed
  <2>2. \/ Form(r1) = Failed("api_error", TRUE)
        \/ Form(r1) = Dict(extract_message_text(r1))
        \/ Form(r1) = Raises
    <3>1. asked
      BY <1>2
    <3>2. Chat(asked, r1) =
            CASE r1 = "error_cls" -> Failed("api_error", TRUE)
              [] r1 \in Objects -> Dict(extract_message_text(r1))
              [] OTHER -> Raises
      BY <3>1 DEF Chat
    <3>3. CASE r1 = "error_cls"
      BY <2>1, <3>2, <3>3 DEF Objects
    <3>4. CASE r1 # "error_cls" /\ r1 \in Objects
      BY <2>1, <3>2, <3>4
    <3>5. CASE r1 # "error_cls" /\ r1 \notin Objects
      BY <2>1, <3>2, <3>5
    <3> QED BY <3>3, <3>4, <3>5
  <2>3. CASE Form(r1) = Failed("api_error", TRUE)
    <3>1. Handled(c, Form(r1)) = Failure(c, "api_error", TRUE)
      BY <2>3, HandledFailed
    <3> QED BY <3>1 DEF Failure
  <2>4. CASE Form(r1) = Dict(extract_message_text(r1))
    <3>1. DOMAIN Handled(c, Form(r1)) =
            {"task_id", "status", "output", "confidence", "evidence"}
      BY <2>4 DEF Dict, Handled
    <3> QED BY <3>1 DEF IsError
  <2>5. CASE Form(r1) = Raises
    <3>1. Handled(c, Form(r1)) = Raised
      BY <2>5 DEF Raises, Handled
    <3> QED BY <3>1 DEF IsError, IsOutcome
  <2> QED BY <2>2, <2>3, <2>4, <2>5
<1> QED BY <1>1, <1>2

(* As long as the server is the same, a failure of a language model that is *)
(* not retryable is one of every identical call, whatever the service does. *)
THEOREM FailsForGoodHolds == Spec => []FailsForGood
<1>1. ASSUME IInv PROVE FailsForGood
  <2> SUFFICES ASSUME NEW c \in Calls, NEW d \in Calls,
                      scenario.agent \in Models, crashes = 0, IsNexus(c), IsError(outcome[c]),
                      ~outcome[c].retryable, card(d) = card(c),
                      scenario.message[d] = scenario.message[c], IsResult(outcome[d])
               PROVE  FALSE
    BY DEF FailsForGood
  <2>1. TypeOK /\ ClientInv(c) /\ ClientInv(d) /\ ServerAsStarted
    BY <1>1 DEF IInv, CallsInv
  <2>2. IsNexus(d) /\ TaskOf(d) = TaskOf(c)
    BY DEF IsNexus, TaskOf
  <2>3. outcome[c] \notin {None, Raised, TransportError}
        /\ outcome[d] \notin {None, Raised, TransportError}
    BY DEF IsError, IsResult, IsOutcome
  <2>4. outcome[c] = returned[c] /\ outcome[d] = returned[d]
    BY <2>1, <2>2, <2>3 DEF ClientInv
  <2>5. Cause(c) /\ Cause(d)
    BY <2>1, <2>3, <2>4 DEF ServerAsStarted
  <2>6. returned[d] # Failure(d, "capability_unavailable", FALSE)
    BY <2>4 DEF IsResult, Failure
  <2> DEFINE k == scenario.key
             asked == TaskOf(c).input # {}
  <2>7. PICK r1 \in ServiceReplies, r2 \in ServiceReplies :
          /\ returned[c] = Handled(c, Handler(scenario.agent, k, asked, r1))
          /\ returned[d] = Handled(d, Handler(scenario.agent, k, asked, r2))
    BY <2>2, <2>5, <2>6 DEF Cause
  <2>8. k \in BOOLEAN /\ asked \in BOOLEAN
    BY <2>1, ScenarioAssumption DEF TypeOK
  <2> HIDE DEF k, asked
  <2>9. PICK needsKey \in BOOLEAN : \A reply \in ServiceReplies :
          Handler(scenario.agent, k, asked, reply) =
            IF needsKey THEN Keyed(k, asked, Post(reply)) ELSE Chat(asked, Post(reply))
    BY <2>1, <2>8, ModelAssumption DEF TypeOK
  <2> QED BY <2>4, <2>7, <2>8, <2>9, ChatFailsForGood
<1> QED BY <1>1, Invariance, PTL
=============================================================================
