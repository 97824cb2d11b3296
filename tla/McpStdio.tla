------------------------------ MODULE McpStdio ------------------------------
(***************************************************************************)
(* nexus.adapters.mcp: handlers of several agents, on several threads, call *)
(* the tools of one MCP server over one StdioMCPTransport.                  *)
(*                                                                         *)
(* A request takes an id, writes a line and reads a line; nothing but the   *)
(* order of the lines ties the two together until the ids are compared.     *)
(* Lines 86 and 87 are one step: an interpreter with a global lock does not *)
(* change threads between them.  A line is written and read whole.          *)
(***************************************************************************)
EXTENDS Integers, Sequences

CONSTANTS Calls,       \* requests, Handshake among them
          Handshake,   \* the request initialize() makes before all others
          Threads,
          ThreadOf,    \* the thread that makes a request
          Replies,     \* what the server may reply with, of Bodies
          Noises,      \* what it may say unasked, of Strays
          MaxNoise,    \* bound: lines it says unasked
          None

(* A tool result, one with isError, a JSON-RPC error, no result at all. *)
Bodies == {"result", "isError", "error", "null"}

(* An object without our id, text that is not JSON, JSON that is no object. *)
Strays == {"notification", "text", "array"}

(* What a handler makes of a request: a dict, fail() with retryable, fail() *)
(* without, an exception that is no MCPError.                               *)
Outcomes == {"answered", "failed", "reported", "escaped"}

ASSUME McpAssumption ==
  /\ Handshake \in Calls
  /\ ThreadOf \in [Calls -> Threads]
  /\ Replies \subseteq Bodies
  /\ Noises \subseteq Strays
  /\ MaxNoise \in Nat
  /\ None \notin Calls \cup Bodies \cup Outcomes

Line(kind, c) == [kind |-> kind, to |-> c]
LineType == [kind : Bodies \cup Strays, to : Calls \cup {None}]

VARIABLES pc,        \* idle, numbered, waiting, greeting (handshake: to be confirmed), done
          id,        \* message_id of each request
          next_id,   \* _next_id
          outcome,   \* what became of each request
          got,       \* the request whose reply was taken for this one's, or None
          asked,     \* requests the server has yet to reply to
          stdout,    \* lines written and not read
          server,    \* up, mute (its stdout closed, itself alive) or down
          closed,    \* close() was called
          noise,     \* lines that answer nothing, so far
          replied,   \* history: what the server replied to each request
          crossed    \* history: a request was written while another was waiting

vars == <<pc, id, next_id, outcome, got, asked, stdout, server, closed, noise, replied, crossed>>

Init ==
  /\ pc = [c \in Calls |-> "idle"]
  /\ id = [c \in Calls |-> 0]
  /\ next_id = 1
  /\ outcome = [c \in Calls |-> None]
  /\ got = [c \in Calls |-> None]
  /\ asked = {}
  /\ stdout = <<>>
  /\ server = "up"
  /\ closed = FALSE
  /\ noise = 0
  /\ replied = [c \in Calls |-> None]
  /\ crossed = FALSE

Waiting == {c \in Calls : pc[c] = "waiting"}

(* initialize() returned, and the thread is not in a request. *)
Ready(c) ==
  /\ c # Handshake => pc[Handshake] = "done" /\ outcome[Handshake] = "answered"
  /\ \A b \in Calls : ThreadOf[b] = ThreadOf[c] => pc[b] \in {"idle", "done"}

End(c, result) ==
  /\ pc' = [pc EXCEPT ![c] = "done"]
  /\ outcome' = [outcome EXCEPT ![c] = result]

(* Mutant: the counter stays where it is. *)
TakeId_kept(c) ==
  /\ pc[c] = "idle"
  /\ Ready(c)
  /\ pc' = [pc EXCEPT ![c] = "numbered"]
  /\ id' = [id EXCEPT ![c] = next_id]
  /\ UNCHANGED <<next_id, outcome, got, asked, stdout, server, closed, noise, replied, crossed>>

TakeId(c) ==
  /\ pc[c] = "idle"
  /\ Ready(c)
  /\ pc' = [pc EXCEPT ![c] = "numbered"]
  /\ id' = [id EXCEPT ![c] = next_id]
  /\ next_id' = next_id + 1
  /\ UNCHANGED <<outcome, got, asked, stdout, server, closed, noise, replied, crossed>>

(* What a write raises: ValueError on a file closed here, which nothing      *)
(* turns into an MCPError, and BrokenPipeError on one closed over there.     *)
WriteError == IF closed THEN "escaped" ELSE "failed"

Write(c) ==
  /\ pc[c] = "numbered"
  /\ ~closed /\ server # "down"
  /\ pc' = [pc EXCEPT ![c] = "waiting"]
  /\ asked' = asked \cup {c}
  /\ crossed' = (crossed \/ Waiting # {})
  /\ UNCHANGED <<id, next_id, outcome, got, stdout, server, closed, noise, replied>>

WriteFails(c) ==
  /\ pc[c] = "numbered"
  /\ closed \/ server = "down"
  /\ End(c, WriteError)
  /\ UNCHANGED <<id, next_id, got, asked, stdout, server, closed, noise, replied, crossed>>

(* Mutant: compared with the counter, which has gone on. *)
Matches_counter(c, line) == line.to # None /\ id[line.to] = next_id

Matches(c, line) == line.to # None /\ id[line.to] = id[c]

(* In the order request() and the handler look; initialize() does not look   *)
(* into its result.                                                         *)
Outcome(c, line) ==
  IF line.kind = "array" THEN "escaped"
  ELSE IF ~Matches(c, line) \/ line.kind = "error" THEN "failed"
  ELSE IF c # Handshake /\ line.kind = "isError" THEN "reported"
  ELSE IF c # Handshake /\ line.kind = "null" THEN "escaped"
  ELSE "answered"

(* Mutant: lines that do not match are dropped until one does. *)
Read_skips(c) ==
  /\ pc[c] = "waiting"
  /\ stdout # <<>>
  /\ IF Matches(c, Head(stdout))
     THEN End(c, "answered") /\ got' = [got EXCEPT ![c] = c]
     ELSE UNCHANGED <<pc, outcome, got>>
  /\ stdout' = Tail(stdout)
  /\ UNCHANGED <<id, next_id, asked, server, closed, noise, replied, crossed>>

Read(c) ==
  /\ pc[c] = "waiting"
  /\ stdout # <<>>
  /\ LET line == Head(stdout)
         result == Outcome(c, line)
     IN  /\ IF c = Handshake /\ result = "answered"
            THEN /\ pc' = [pc EXCEPT ![c] = "greeting"]
                 /\ UNCHANGED outcome
            ELSE End(c, result)
         /\ got' = [got EXCEPT ![c] = IF line.kind # "array" /\ Matches(c, line) THEN line.to ELSE None]
  /\ stdout' = Tail(stdout)
  /\ UNCHANGED <<id, next_id, asked, server, closed, noise, replied, crossed>>

(* The end of stdout; stderr is read to its end too, when the server ends. *)
ReadEnd(c) ==
  /\ pc[c] = "waiting"
  /\ stdout = <<>> /\ server = "down"
  /\ End(c, "failed")
  /\ UNCHANGED <<id, next_id, got, asked, stdout, server, closed, noise, replied, crossed>>

(* notify(): nothing is read, the server has nothing to say to it. *)
Confirm ==
  /\ pc[Handshake] = "greeting"
  /\ End(Handshake, IF closed \/ server = "down" THEN WriteError ELSE "answered")
  /\ UNCHANGED <<id, next_id, got, asked, stdout, server, closed, noise, replied, crossed>>

(* The stdin is closed and the server told to terminate. *)
Close ==
  /\ ~closed
  /\ closed' = TRUE
  /\ UNCHANGED <<pc, id, next_id, outcome, got, asked, stdout, server, noise, replied, crossed>>
-----------------------------------------------------------------------------
(* The server: requests may be served at once, so replied to in any order. *)

Reply(c, body) ==
  /\ server = "up"
  /\ c \in asked
  /\ asked' = asked \ {c}
  /\ stdout' = Append(stdout, Line(body, c))
  /\ replied' = [replied EXCEPT ![c] = body]
  /\ UNCHANGED <<pc, id, next_id, outcome, got, server, closed, noise, crossed>>

Stray(kind) ==
  /\ server = "up"
  /\ noise < MaxNoise
  /\ noise' = noise + 1
  /\ stdout' = Append(stdout, Line(kind, None))
  /\ UNCHANGED <<pc, id, next_id, outcome, got, asked, server, closed, replied, crossed>>

Stop(how) ==
  /\ \/ server = "up"
     \/ server = "mute" /\ how = "down"
  /\ server' = how
  /\ UNCHANGED <<pc, id, next_id, outcome, got, asked, stdout, closed, noise, replied, crossed>>

Step(c) == TakeId(c) \/ Write(c) \/ WriteFails(c) \/ Read(c) \/ ReadEnd(c)

Next ==
  \/ \E c \in Calls : Step(c)
  \/ Confirm
  \/ Close
  \/ \E c \in Calls, body \in Replies : Reply(c, body)
  \/ \E kind \in Noises : Stray(kind)
  \/ \E how \in {"mute", "down"} : Stop(how)

Spec == Init /\ [][Next]_vars

(* Threads run, and a server that is up replies.  Nothing makes anybody     *)
(* begin a request, close the transport, or stop a server.                  *)
FairSpec ==
  /\ Spec
  /\ WF_vars(Confirm)
  /\ \A c \in Calls :
       /\ WF_vars(Write(c) \/ WriteFails(c) \/ Read(c) \/ ReadEnd(c))
       /\ WF_vars(\E body \in Replies : Reply(c, body))
-----------------------------------------------------------------------------
TypeOK ==
  /\ pc \in [Calls -> {"idle", "numbered", "waiting", "greeting", "done"}]
  /\ id \in [Calls -> Nat]
  /\ next_id \in Nat
  /\ outcome \in [Calls -> Outcomes \cup {None}]
  /\ got \in [Calls -> Calls \cup {None}]
  /\ asked \subseteq Calls
  /\ stdout \in Seq(LineType)
  /\ server \in {"up", "mute", "down"}
  /\ closed \in BOOLEAN
  /\ noise \in 0 .. MaxNoise
  /\ replied \in [Calls -> Bodies \cup {None}]
  /\ crossed \in BOOLEAN

(* mcp.py:90: whatever the lines in between and whoever reads them, no       *)
(* request is given the reply to another one.                               *)
AnswersItsOwn == \A c \in Calls : got[c] # None => got[c] = c

(* mcp.py:50, "Each request() blocks for exactly one reply": a request fails *)
(* although the server replied to it with a result only if there were lines  *)
(* that reply to nothing, or requests on two threads at a time.              *)
FailureHasCause ==
  \A c \in Calls :
    outcome[c] = "failed" /\ replied[c] = "result" =>
      noise > 0 \/ crossed \/ server # "up" \/ closed

(* mcp.py:76, a readline() without a timeout: as each request is replied to  *)
(* and each reader takes one line, every request ends, whoever takes whose    *)
(* line, unless the server closes its stdout and lives on.                   *)
EveryRequestEnds ==
  \A c \in Calls : pc[c] \in {"numbered", "waiting", "greeting"} ~> pc[c] = "done" \/ server = "mute"
=============================================================================
