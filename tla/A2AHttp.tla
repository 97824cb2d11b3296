------------------------------ MODULE A2AHttp ------------------------------
(***************************************************************************)
(* nexus.transport.a2a_http: calls that reach a NexusCore, or a foreign     *)
(* agent, over HTTP.  A call begins with an A2A message a peer left (the    *)
(* shape nexus.a2a defines and FilesystemTransport carries): the process    *)
(* that found it decodes the task, places it with dispatch_via_card, and    *)
(* tells the peer the outcome as an A2A task.                               *)
(*                                                                         *)
(* The server is one event loop.  NexusCore.route() is no coroutine: while  *)
(* its handler runs the loop does nothing else, whoever waits.  What       *)
(* route() itself does is NexusCore's; here it ends in what the handler     *)
(* makes of a reply (Adapters), or never.  A handler may place a call of    *)
(* its own, with the same server too.  Clients may give up at every wait,   *)
(* and the server may crash and restart; its task store is in memory.       *)
(***************************************************************************)
EXTENDS A2ACodec, Adapters

CONSTANTS Calls,           \* calls
          Scenarios,       \* what agent serves, with which key; each call's message,
                           \* the identity and url on the card it goes to, and right to
                           \* be placed by a handler; crashes allowed
          Handler(_, _, _, _),  \* agent, key, asked, reply |-> form of the handler's outcome
          ServiceReplies,  \* what the service behind the agent may do
          ForeignArtifacts,     \* the data artifacts a foreign agent may answer with
          Models,          \* the agents that are language models
          Objectives,      \* what the server's agent has a handler for
          TransportError,  \* call_remote_agent or dispatch_via_card raised A2ATransportError
          NewId            \* an id made up for a message without one

VARIABLES scenario,   \* the scenario, as drawn
          pc, task,   \* where a call is at its client; the task it was asked for
          nested,     \* the call placed by the handler of a call
          outcome,    \* what dispatch_via_card returned or raised
          told,       \* what the peer makes of the A2A task it is sent
          up, loop, crashes, key,  \* the server: running, the call its loop is in
          work,       \* where execute() is with a call
          store,      \* the server's task: state and artifact
          returned    \* what route() returned for a call, or Raised: kept for the properties only

client == <<pc, task, nested, outcome, told>>
server == <<up, loop, crashes, key, work, store, returned>>
vars == <<scenario, client, server>>

card(c) == to_agent_card(scenario.identity[c], scenario.url[c])
IsNexus(c) == card(c).url = "nexus"
Waiting(c) == pc[c] \in {"resolving", "sending", "waiting"}
IsOutcome(o) == o \notin {None, Raised, TransportError}
IsResult(o) == IsOutcome(o) /\ "status" \in DOMAIN o
IsError(o) == IsOutcome(o) /\ "error_code" \in DOMAIN o
Idle == up /\ loop = None

Steps == {"received", "working", "routing", "failed", "published", "finished"}
States == {"WORKING", "COMPLETED", "FAILED"}
NoTask == [state |-> None, artifact |-> None]

Init ==
  /\ scenario \in Scenarios
  /\ pc = [c \in Calls |-> "idle"]
  /\ task = [c \in Calls |-> None]
  /\ nested = [c \in Calls |-> None]
  /\ outcome = [c \in Calls |-> None]
  /\ told = [c \in Calls |-> None]
  /\ up = TRUE /\ loop = None /\ crashes = 0
  /\ key = scenario.key
  /\ work = [c \in Calls |-> None]
  /\ store = [c \in Calls |-> NoTask]
  /\ returned = [c \in Calls |-> None]
-----------------------------------------------------------------------------
(* The client. *)

(* dispatch_via_card ends: it returns an outcome or raises. *)
End(c, o) ==
  /\ pc' = [pc EXCEPT ![c] = "done"]
  /\ outcome' = [outcome EXCEPT ![c] = o]

Dispatch(c) ==
  IF card(c).url = None THEN End(c, TransportError)
  ELSE pc' = [pc EXCEPT ![c] = "resolving"] /\ UNCHANGED outcome

(* A peer's message becomes a task, and the task a call. *)
Ask(c) ==
  LET asked == a2a_message_to_task(scenario.message[c], NewId)
  IN  /\ pc[c] = "idle" /\ c \notin scenario.nested
      /\ task' = [task EXCEPT ![c] = asked]
      /\ IF asked = Raised THEN End(c, Raised) ELSE Dispatch(c)
      /\ UNCHANGED <<scenario, nested, told, server>>

(* The handler of call c places call d. *)
HandlerCalls(c, d) ==
  /\ loop = c /\ nested[c] = None
  /\ pc[d] = "idle" /\ d \in scenario.nested
  /\ nested' = [nested EXCEPT ![c] = d]
  /\ task' = [task EXCEPT ![d] = a2a_message_to_task(scenario.message[d], NewId)]
  /\ Dispatch(d)
  /\ UNCHANGED <<scenario, told, server>>

GetCard(c) ==
  /\ pc[c] = "resolving"
  /\ IsNexus(c) => Idle
  /\ pc' = [pc EXCEPT ![c] = "sending"]
  /\ UNCHANGED <<scenario, task, nested, outcome, told, server>>

Send(c) ==
  /\ pc[c] = "sending"
  /\ IsNexus(c) => up
  /\ pc' = [pc EXCEPT ![c] = "waiting"]
  /\ work' = IF IsNexus(c) THEN [work EXCEPT ![c] = "received"] ELSE work
  /\ UNCHANGED <<scenario, task, nested, outcome, told,
                 up, loop, crashes, key, store, returned>>

Payload(envelope) == Get(envelope, "payload", [n \in {} |-> None])

(* The last data artifact counts, whatever state its task is in. *)
Read(artifacts) ==
  IF artifacts = <<>> THEN TransportError
  ELSE LET envelope == Last(artifacts)
       IN  CASE Get(envelope, "message_type", None) = "result" -> PayloadResult(Payload(envelope))
             [] Get(envelope, "message_type", None) = "error" -> PayloadError(Payload(envelope))
             [] OTHER -> TransportError

Receive(c) ==
  /\ pc[c] = "waiting" /\ Idle
  /\ \/ work[c] = "finished" /\ End(c, Read(<<store[c].artifact>>))
     \/ work[c] = "failed" /\ End(c, TransportError)
  /\ UNCHANGED <<scenario, task, nested, told, server>>

ForeignReply(c) ==
  /\ pc[c] = "waiting" /\ ~IsNexus(c)
  /\ \E artifacts \in ForeignArtifacts : End(c, Read(artifacts))
  /\ UNCHANGED <<scenario, task, nested, told, server>>

(* Mutant: the client that sends the message has no timeout. *)
GiveUp_unless_sent(c) ==
  /\ pc[c] \in {"resolving", "sending"}
  /\ End(c, TransportError)
  /\ UNCHANGED <<scenario, task, nested, told, server>>

(* A timeout, a refused or a lost connection. *)
GiveUp(c) ==
  /\ Waiting(c)
  /\ End(c, TransportError)
  /\ UNCHANGED <<scenario, task, nested, told, server>>

(* The peer gets the outcome; of what was raised it gets nothing. *)
Answer(c) ==
  /\ pc[c] = "done" /\ told[c] = None /\ IsOutcome(outcome[c])
  /\ told' = [told EXCEPT ![c] =
       a2a_task_to_outcome(IF IsResult(outcome[c]) THEN result_to_a2a_task(outcome[c])
                                                   ELSE error_to_a2a_task(outcome[c]))]
  /\ UNCHANGED <<scenario, pc, task, nested, outcome, server>>
-----------------------------------------------------------------------------
(* The server. *)

Accept(c) ==
  /\ Idle /\ work[c] = "received"
  /\ work' = [work EXCEPT ![c] = "working"]
  /\ store' = [store EXCEPT ![c].state = "WORKING"]
  /\ UNCHANGED <<scenario, client, up, loop, crashes, key, returned>>

RefuseMessage(c) ==
  /\ Idle /\ work[c] = "working" /\ task[c].objective = ""
  /\ work' = [work EXCEPT ![c] = "published"]
  /\ store' = [store EXCEPT ![c].artifact = [error_code |-> "missing_objective"]]
  /\ UNCHANGED <<scenario, client, up, loop, crashes, key, returned>>

Envelope(o) ==
  IF IsResult(o) THEN [message_type |-> "result", payload |-> ResultPayload(o)]
                 ELSE [message_type |-> "error", payload |-> ErrorPayload(o)]

(* route() ends: execute() publishes what it returned, or ends with it when *)
(* it raises.                                                              *)
RouteEnds(c, o) ==
  /\ returned' = [returned EXCEPT ![c] = o]
  /\ \/ /\ o = Raised
        /\ work' = [work EXCEPT ![c] = "failed"]
        /\ UNCHANGED store
     \/ /\ o # Raised
        /\ work' = [work EXCEPT ![c] = "published"]
        /\ store' = [store EXCEPT ![c].artifact = Envelope(o)]

RouteNobody(c) ==
  /\ Idle /\ work[c] = "working" /\ task[c].objective \notin Objectives \cup {""}
  /\ RouteEnds(c, Failure(c, "capability_unavailable", FALSE))
  /\ UNCHANGED <<scenario, client, up, loop, crashes, key>>

Route(c) ==
  /\ Idle /\ work[c] = "working" /\ task[c].objective \in Objectives
  /\ loop' = c
  /\ work' = [work EXCEPT ![c] = "routing"]
  /\ UNCHANGED <<scenario, client, up, crashes, key, store, returned>>

(* Agent.handle and the except clauses of route(): a task is the one of its *)
(* call, so c is its id too.                                                *)
Handled(c, form) ==
  CASE form.form \in {"dict", "result"} ->
         [task_id |-> c, status |-> Get(form, "status", "success"), output |-> {form.output},
          confidence |-> Get(form, "confidence", None), evidence |-> Get(form, "evidence", <<>>)]
    [] form.form = "error_payload" -> Failure(c, form.error_code, form.retryable)
    [] OTHER -> Raised

HandlerReturns(c) ==
  /\ loop = c /\ nested[c] = None
  /\ loop' = None
  /\ \E reply \in ServiceReplies :
       RouteEnds(c, Handled(c, Handler(scenario.agent, key, task[c].input # {}, reply)))
  /\ UNCHANGED <<scenario, client, up, crashes, key>>

(* A handler that hands on what its own call returned: another task's      *)
(* Result is refused, an ErrorPayload is not.                              *)
HandsOn(c) ==
  /\ loop = c /\ nested[c] # None /\ pc[nested[c]] = "done"
  /\ loop' = None
  /\ RouteEnds(c, IF IsError(outcome[nested[c]]) THEN outcome[nested[c]] ELSE Raised)
  /\ UNCHANGED <<scenario, client, up, crashes, key>>

(* Mutant: only a result ends the task; one that failed is left WORKING. *)
Finish_only_results(c) ==
  /\ Idle /\ work[c] = "published"
  /\ work' = [work EXCEPT ![c] = "finished"]
  /\ store' = [store EXCEPT ![c].state =
       IF Get(store[c].artifact, "message_type", None) = "result" THEN "COMPLETED" ELSE @]
  /\ UNCHANGED <<scenario, client, up, loop, crashes, key, returned>>

Finish(c) ==
  /\ Idle /\ work[c] = "published"
  /\ work' = [work EXCEPT ![c] = "finished"]
  /\ store' = [store EXCEPT ![c].state =
       IF Get(store[c].artifact, "message_type", None) = "result" THEN "COMPLETED" ELSE "FAILED"]
  /\ UNCHANGED <<scenario, client, up, loop, crashes, key, returned>>

(* The calls its handlers placed die with the server. *)
Crash ==
  /\ up /\ crashes < scenario.crashes
  /\ up' = FALSE /\ loop' = None /\ crashes' = crashes + 1
  /\ work' = [c \in Calls |-> None]
  /\ store' = [c \in Calls |-> NoTask]
  /\ LET killed == {nested[c] : c \in Calls} \cap {c \in Calls : Waiting(c)}
     IN  /\ pc' = [c \in Calls |-> IF c \in killed THEN "done" ELSE pc[c]]
         /\ outcome' = [c \in Calls |-> IF c \in killed THEN TransportError ELSE outcome[c]]
  /\ UNCHANGED <<scenario, task, nested, told, key, returned>>

Restart ==
  /\ ~up
  /\ up' = TRUE
  /\ key' \in BOOLEAN
  /\ UNCHANGED <<scenario, client, loop, crashes, work, store, returned>>

Execute(c) ==
  Accept(c) \/ RefuseMessage(c) \/ RouteNobody(c) \/ Route(c) \/ HandsOn(c) \/ Finish(c)

Next ==
  \/ \E c \in Calls : \/ Ask(c) \/ GetCard(c) \/ Send(c) \/ Receive(c) \/ ForeignReply(c)
                      \/ GiveUp(c) \/ Answer(c) \/ Execute(c) \/ HandlerReturns(c)
  \/ \E c, d \in Calls : HandlerCalls(c, d)
  \/ Crash \/ Restart

(* Clients and the loop are scheduled, and every wait of a client has a    *)
(* timeout; handlers may hang, foreign agents say nothing, a crashed server *)
(* stay down.                                                              *)
Fairness ==
  \A c \in Calls : /\ WF_vars(Ask(c)) /\ WF_vars(GiveUp(c)) /\ WF_vars(Answer(c))
                   /\ WF_vars(Execute(c))

Spec == Init /\ [][Next]_vars /\ Fairness
-----------------------------------------------------------------------------
(* What the constants stand for. *)

ASSUME CallAssumption == None \notin Calls

ASSUME MarkAssumption ==
  /\ None # Raised /\ None # TransportError /\ Raised # TransportError /\ None # NewId
  /\ None \notin Steps \cup States
  /\ \A c \in Calls : IsOutcome(Failure(c, "capability_unavailable", FALSE))

(* An identity has an id and a scope; the objective of a message, if it has *)
(* one, is a text.                                                         *)
ASSUME ScenarioAssumption ==
  \A s \in Scenarios :
    /\ s.key \in BOOLEAN /\ s.crashes \in Nat
    /\ \A c \in Calls :
         /\ s.identity[c].agent_id # None /\ s.identity[c].scope # None
         /\ "objective" \in DOMAIN s.message[c].metadata =>
              s.message[c].metadata["objective"] # None

(* What handle() returns is a Result or an ErrorPayload; an output is an    *)
(* object and evidence a list, both never None.                            *)
ASSUME HandlerAssumption ==
  \A s \in Scenarios, c \in Calls, k, asked \in BOOLEAN, reply \in ServiceReplies :
    LET o == Handled(c, Handler(s.agent, k, asked, reply))
    IN  \/ o = Raised
        \/ IsError(o) /\ AnError(o)
        \/ IsResult(o) /\ AResult(o) /\ o.evidence # None /\ o.output # None

(* A language model's adapter is a Chat, or one that needs a key, and its   *)
(* handler places no call.                                                 *)
ASSUME ModelAssumption ==
  \A s \in Scenarios : s.agent \in Models =>
    /\ s.nested = {}
    /\ \E needsKey \in BOOLEAN :
         \A k, asked \in BOOLEAN, reply \in ServiceReplies :
           Handler(s.agent, k, asked, reply) =
             IF needsKey THEN Keyed(k, asked, Post(reply)) ELSE Chat(asked, Post(reply))

(* What a foreign agent lists as evidence is a list, and its answer no mark *)
(* of this model's.                                                        *)
ASSUME ForeignAssumption ==
  \A artifacts \in ForeignArtifacts :
    /\ artifacts # <<>> =>
         LET evidence == Get(Payload(Last(artifacts)), "evidence", <<>>)
         IN  evidence \in Seq(Range(evidence))
    /\ Read(artifacts) # None
-----------------------------------------------------------------------------
(* What dispatch_via_card returns for a call to a NexusCore is what its    *)
(* route() returned for that very call, whoever else called, gave up or    *)
(* crashed; and what passes the codec comes out as it went in: the outcome *)
(* the peer is told, the task if it is handed on, the card if it is        *)
(* published again.                                                        *)
AnswerIsRouted ==
  \A c \in Calls :
    /\ IsNexus(c) /\ pc[c] = "done" /\ task[c] # Raised =>
         outcome[c] = TransportError \/ (IsOutcome(outcome[c]) /\ outcome[c] = returned[c])
    /\ told[c] \in {None, outcome[c]}
    /\ task[c] \notin {None, Raised} =>
         task[c] = a2a_message_to_task(task_to_a2a_message(task[c]), NewId)
    /\ to_agent_card(agent_card_to_identity(card(c)), card(c).url) = card(c)

(* The state of a task, what its route() did and what its client is told   *)
(* are one story: COMPLETED for a result, FAILED for an error or no         *)
(* objective, though the client looks at the artifact alone; a task whose   *)
(* route() raised stays WORKING, with no artifact and no answer, and is     *)
(* the only one that is WORKING when its execute() has ended.              *)
StoryIsOne ==
  \A c \in Calls :
    /\ store[c].state = "COMPLETED" => IsResult(returned[c]) /\ ~IsError(outcome[c])
    /\ store[c].state = "FAILED" =>
         returned[c] # Raised /\ ~IsResult(returned[c]) /\ ~IsResult(outcome[c])
    /\ returned[c] = Raised =>
         /\ store[c] \in {NoTask, [state |-> "WORKING", artifact |-> None]}
         /\ ~IsOutcome(outcome[c])
    /\ store[c].state = "WORKING" /\ work[c] \in {"failed", "finished"} => returned[c] = Raised

(* retryable=False of a model adapter is for good: as long as the server is *)
(* the same, no identical call succeeds, before or after.                  *)
FailsForGood ==
  \A c, d \in Calls :
    /\ scenario.agent \in Models /\ crashes = 0 /\ c \notin scenario.nested
    /\ IsNexus(c) /\ IsError(outcome[c]) /\ ~outcome[c].retryable
    /\ card(d) = card(c) /\ scenario.message[d] = scenario.message[c]
    => ~IsResult(outcome[d])

(* Nothing waits for ever: not a client for a handler that hangs, and not  *)
(* the loop for a handler that calls the server it blocks.                 *)
EveryWaitEnds ==
  \A c \in Calls : /\ pc[c] # "idle" ~> pc[c] = "done"
                   /\ loop = c /\ nested[c] # None ~> loop # c
=============================================================================
