# AI Nexus Open: a TLA+ verification project

AI Nexus Open is a Python SDK in which agents register handlers with a router, `NexusCore`. The
router sends tasks to agents, compares their answers, records what happened, and is reached over
several transports. This directory holds TLA+ modules of its parts, TLC configurations that check
them on small instances, and TLAPS proofs of the results that hold for every instance. Paths below
are relative to `src/python/src/nexus/` unless they begin with `src/`.

Nothing here is generated: every definition is translated from the source, and `PROJECT.json`
(`map`) names the lines each one stands for.

## 1. The system

| Part | State it keeps | Operations | Talks to |
|---|---|---|---|
| Router, `core.py` | registered agents (an ordered dict), `trace` | `register`, `unregister`, `route`, `debate` | everything below, by calls |
| Agent, `agent.py` | handler per objective | `task`, `handle`, `make_evidence` | handlers: user code |
| Risk gate, `policy.py` | a map from risk to action | `evaluate` | an approver: user code |
| Conflict gate, `conflict_policy.py` | none | `evaluate` | an approver: user code |
| Arbitration, `arbitration.py` | none | `arbitrate` | trust |
| Trust, `trust.py` | none | `evidence_strength`, `evaluate`, `rank` | |
| Audit log, `audit.py` | hash-chained list of events | `append`, `verify` | called for each envelope |
| Graph store, `adapters/graph.py` | a table of edges (SQLite) | `add_edge`, queries | called by the router |
| Filesystem transport, `transport/filesystem.py` | inbox, claim and done files | `send`, `pending`, `claim`, `complete`, `release` | other processes, through the files |
| A2A over HTTP, `transport/a2a_http.py` | tasks of the a2a SDK | `execute`, `call_remote_agent`, `dispatch_via_card` | router; remote agents |
| A2A codec, `a2a.py` | none | conversions of cards, tasks, results, errors | |
| MCP client, `adapters/mcp.py` | a child process, next request id | `request`, `notify`, `initialize` | the server's pipes |
| Lessons, `adapters/lessons.py` | a JSON file per lesson | `record`, `recurrences_for`, `all` | read by the router's ranking |
| Discovery, `discovery.py` | cards, in memory or a file each | `publish`, `unpublish`, `get`, `all`, `find_by_skill` | other processes, through the files |
| Model and tool adapters, `adapters/*.py` | none | handlers that make an HTTP or subprocess call | the router, as agents |
| Identity, `identity.py`, `identity_crypto.py` | a key file | value classes, sign, verify | |

What makes it hard:

* **Callbacks in the middle of a call.** The router runs user code at three places: the risk
  approver, the handlers, the conflict approver. Each may take any time, raise anything, register or
  remove agents, and call the router again. What was read before is stale afterwards.
* **Threads and timeouts.** A parallel debate runs handlers in a pool and waits for them in turn; a
  timeout drops a handler that cannot be stopped.
* **Partial failure.** Some candidates fail, are late or raise; the answer, trace and graph are
  written one after the other.
* **Several processes on one directory.** They meet between the test and the use of a file, die
  between two system calls, and see half-written files.
* **Ties.** Arbitration is three rules in order; the case that matters is the one where the first
  does not decide.

What makes each part correct, in short: one answer for every task (router); no handler behind a
closed gate (gates); the best supported answer and never a vote (arbitration); a score that is an
agent's own and bounded (trust); trace and graph telling one story (records); at most one process
acting on a message, none after it is done, and every message done some day (filesystem transport);
a log that verifies says what was appended (audit log); outcomes surviving the wire, and a failing
route ending its task (A2A); a response answering its own request (MCP); no lost update and no
reader between truncation and write (file stores).

`PROJECT.json` lists every part under `components`, and under `hazards` what is hard to test, at the
line where it bites, with the property that covers it or why none does yet.

## 2. Modules

```
Trust <- Arbitration <- ArbitrationSession <- MCArbitration
                    \                   \- ArbitrationProofs
              Gates  -> NexusCore <- NexusCoreProperties <- MCNexusCore
                                                        \- NexusCoreProofs
DebateDispatch <- DebateDispatchProofs
MessageLock <-(INSTANCE)- FsTransport <- MCFsTransport
                                     \- FsTransportProofs
AuditLog <- MCAuditLog
        \- AuditLogProofs
McpStdio <- MCMcpStdio
       \- McpStdioProofs
FileStores <- MCFileStores
          \- FileStoresProofs
A2ACodec \
Adapters  -> A2AHttp <- MCA2A
                    \- A2AHttpProofs
```

### Trust, Arbitration, ArbitrationSession

`Trust` and `Arbitration` are the pure functions of `trust.py` and `arbitration.py`. A confidence is
a whole percentage and a weight a number of tenths, so every score is an exact fraction compared by
cross multiplication; the code uses floats. A list of evidence is a function over its positions, so that
an agent's own evidence is the history restricted to its entries, each in its place; its sum and its
length, all that a score is made of, are those of the code's filtered list. `rank` puts at place `k` the
agent that exactly `k - 1` come before, which is what a stable sort ends in. The first maximum of `max()` and of `route()`'s scan is
`FirstMaximal`, stated by what such a scan ends at. `ArbitrationSession` builds the inputs step by
step, one answer or one history entry at a time, so that a property can speak of what a *change* of
the input does to the outcome. Evidence is made by `make_evidence` and names its own agent; a handler
that builds `Evidence` by hand could name another.

### Gates, NexusCore, NexusCoreProperties

A call of `route()` or `debate()` is a process, `pc[c]`:

```
idle --Submit--> approval --ApproveRisk--> handling --HandlerReturns--> conflict --ApproveConflict--> done
   \                  \--DenyRisk--> done       \--> done, escaped           \--DenyConflict--> done
    \--> done (blocked, nobody capable), handling (allowed outright)
```

A step runs from one callback to the next and does everything the code does in between, recording
included. Calls interleave at the callbacks, which is where a nested call (a handler or approver that
uses the router) or a change of the registry can happen. Handlers of a parallel debate return in any
order. `escaped` is a call that an exception left without a recorded answer.

* `registry` is `_agents` in insertion order; `Register` replaces in place for a known id, as a dict
  assignment does. Two `Agent` objects may have the same id.
* `pool[c]` is the list of `Agent` objects of the call, kept by position. It is not touched by later
  registrations.
* `replies[c]` is what `handle()` did for each: `answered`, `failed` (TaskFailed), `unavailable`,
  `late`, `escaped`.
* `trace` is the list of envelopes; the audit log gets the same envelopes in the same order and is a
  module of its own. `graph` is the set of edges.
* `approvals` is a history variable: which approver said yes to which call.

The risk and conflict gates are split at their callback: `RiskGate` answers `allow`, `block` or
`ask`. The timeout of a debate appears here only as the outcome `late`; its timing is `DebateDispatch`.
A `TimeoutError` that a handler raises itself is `late` too, the two classes being one since
Python 3.11, and a `TaskFailed` or `CapabilityUnavailable` of a call the handler made is caught like the
candidate's own. With `LessonsMayRaise`, `recurrences_for` may raise while `route()` ranks
(`RankingRaises`), after the task envelope is recorded. `debate()`'s arbitration passes no lessons recurrences where `route()`'s ranking does;
the model follows the code in that.

### DebateDispatch

One call of `debate()` from the dispatch to the arbitration, in ticks. The calling thread submits,
waits for the candidate `at`, gives up after `timeout`, joins. Time passes only while the thread is
blocked: its own steps take none. A handler runs for a fixed duration, possibly for ever (`Hung`).
Without a shared executor (`parallel` false) each timed handler has its own executor, which is joined
before the next handler starts. A handler may also raise `TimeoutError` itself (outcome `timeout`): the
clauses at `core.py:309` and `:324` cannot tell it from a wait that ran out and drop the candidate, at
once and also without a timeout.

### MessageLock, FsTransport

`FsTransport` takes every system call of the transport as a step: test, exclusive create, write,
second test, unlink. `inbox[m]` tells how far the sender has come; `claimed[m]` is the pid in the
claim file, `Blank` between creation and write; `done[m]`. A process dies between any two steps
(`Die`, `SenderDies`) and a write may fail (`ClaimWrite`, `CompleteWrite`, `SendFails`), after which
`_exclusive_write` unlinks the file in a step of its own (`Unlink`, `CompleteUnlink`, `SendUnlink`), so
that a process can die, and others can look, in between. The second look at the done file
(`ClaimRecheck`) and the unlink it may lead to are two steps as well.

The transport is a library without a caller in the repository. The model's processes poll, claim what
they saw, act, complete or release, and poll again; a *recoverer* releases the claim of a process it
found dead by the pid in the file. These callers, the crash and the recovery are marked external.
`pending()` reads the files one by one; the model reads them at one moment, which makes no difference
because inbox files never go away and `claim` tests everything again.

`MessageLock` is what claim files are for: one holder at a time, of the receiver's processes, none once
finished. Ids that differ in a replaced character share a directory (`DirOf`), so that a process is shown
messages of another agent and must not take them.
`ImplementsLock` states that the files refine it, holders being the living processes that act on a
message, and a message being finished once its done file can no longer be taken back.

### AuditLog

`append` and `verify`, and what may happen to a list of dicts in memory or in a copy: an event's
payload is edited (the payload *is* the envelope the caller of `route()` was handed), events are
deleted or exchanged, hashes are recomputed. A hash is the tuple of its inputs, so equal hashes mean
equal inputs: SHA-256 is assumed free of collisions, and the genesis hash, the empty tuple, is the hash
of nothing. `kept` is history: each hash `append()` returned, with what the log said then; after a
rewriting, with what the rewritten log says, provided that it verifies.

### McpStdio

Handlers of several agents, on the threads of a parallel debate, share one `StdioMCPTransport`. A
request is three steps, `TakeId`, `Write` and `Read`; between them other threads and the server go
on. `stdout` is the sequence of lines not yet read, `asked` the requests the server has yet to reply
to, in whatever order. The server may also write something unasked (`Stray`), close its stdout and
live on (`mute`, in which case reading stderr to its end does not end) or end (`down`). `Handshake` is
the request of `initialize()`, with the notification after it (`Confirm`); the others wait for it.
`outcome` is what the handler makes of it: `answered`, `failed` (retryable), `reported` (the tool's own
error) or `escaped`, an exception that is no `MCPError` and that `NexusCore` sees as `exception`.
Lines 86 and 87, reading and advancing the counter, are one step: CPython's global lock is not handed
over between them. Pipes are unbounded.

### FileStores

Lessons, agent cards of a `FileRegistry`, key pairs and notes are files replaced in place with
`Path.write_text`. The steps of a call are those at which another process can see a difference: the
test for the file (`Look`), reading it (`Load`, `LoadFails`), opening it, which truncates (`Open`),
and closing it, which writes the text (`Write`). Each directory has its operations in the same seven
steps, chosen by the call's `op`; `all()` lists a directory and reads the files one after the other.
A document is a record with a length; a short text written over a longer one leaves its tail behind.
Texts are short enough to be written in one piece, and `unlink` takes a name away from a file that
somebody has open. `_slug` and `_safe_stem` are the map `FileOf`, under which names may collide. A
signature is the key it was made with. What a process calls is its `script`, so that a run can put
exactly those writers against each other that make a difference; `Mortals` may die at any step.
`saved`, `recorded`, `creators` and `raced` are history: what was written last, how often, by
whom, and whether two calls that write a file overlapped.

### Adapters

The handlers of the model and tool adapters are functions of three things: whether a key was found when
the agent was made, whether the input has what the handler needs, and what the service does. Their
values are the forms `Agent.handle` tells apart. `Post` is the part the model adapters share in fact or
in letter: three exception classes become the adapter's error, and a timeout or lost connection
*while the reply is read* is none of them. n8n and the package registries catch `TimeoutError` as well.
An error that a webhook of n8n reports says itself whether it is retryable, and JSON's `null` is one more
"not found" to the package registries, where the other adapters raise.
The fourteen model adapters are defined one by one because the code has each of them; the differences
are in which condition each treats as its own error.

### A2ACodec, A2AHttp

`A2ACodec` is `a2a.py` with the payload methods of `protocol.py`. A JSON object is a function from the keys
it has. An object that is an input or output is the set of its members; which of two members with one
name survives a merge is not modelled.

`A2AHttp` is a call from end to end. A peer has left an A2A message (`test_filesystem.py` shows such a
peer); it is decoded (`Ask`), placed with `dispatch_via_card`, and answered with an A2A task (`Answer`):

```
client:  idle --Ask--> resolving --GetCard--> sending --Send--> waiting --Receive--> done --Answer--> told
                 any wait --GiveUp--> done (A2ATransportError)
server:  received --Accept--> working --Route--> routing --HandlerReturns--> published --Finish--> finished
                                  \--RefuseMessage, RouteNobody--/        \--> failed (route() raised)
```

The server has one event loop, and `route()` holds it while its handler runs (`loop`): every step that
the loop makes for another call, the serving of its card and of a finished reply included, needs it
to be free. A handler may place a call of its own (`HandlerCalls`), with this server too, and hand on
what came back (`HandsOn`): a `Result`, which names another task, makes `Agent.handle` raise. A
client that gave up does not stop its request. A crash takes the task store and the calls its handlers
had under way; after a restart a key may be there or not. `route()` is represented by what it ends in;
what it does is the business of `NexusCore`. What the SDK does with a raising executor is external: a JSON-RPC
error or a task without artifact, both an `A2ATransportError` for this client.

## 3. Runs

| Run | Question | Bounds |
|---|---|---|
| `arbitration` | Which answer is kept, and what may change that? | 3 agents, 2 outputs, 4 evidence lists with two different exact ties, history of 2 |
| `core_route` | Three interleaved `route()` calls with a changing registry and lessons that may be unreadable | 4 agent objects, 3 ids, 3 risks, 2 joins, 1 leave, 1 late handler |
| `core_debate` | Two interleaved calls, debates or a `route()` that needs approval, with failures, late candidates and a conflict approver | 2 agents, of which one may leave and the other be replaced |
| `core_ends` | Limits, quorum, subsets, a missing approver, and termination | 3 agents, pool limits 0 to 2, quorum up to 2 |
| `core_unanswered` | *violation*: a task without an answer | 2 calls |
| `debate_dispatch` | What does a timeout bound? | pool of 3, timeouts none, 0, 2, durations 0 to 5 and hanging, 15 ticks |
| `fs_transport` | Do the files implement the lock, and is every message done? | 3 processes of 2 agents, 1 of them mortal and 1 a recoverer, 2 messages, 1 failed write, 1 release |
| `fs_recovery` | *violation*: two recoveries of one claim | 3 processes, 1 message |
| `mcp` | Whose reply does a request get, when does it fail, does it end? | 4 requests on 2 threads, 1 stray line, results and null results |
| `audit_log` | What does a log that verifies prove? | 4 appends, 3 changes |
| `files` | What survives colliding writers, and what a crash? | 3 processes, 1 of them mortal, 5 files, 5 scripts of up to 3 calls each |
| `a2a` | Is the answer that arrives the one that was given? | 2 calls, 19 agents, 13 replies, 6 messages, 8 foreign answers, 1 crash |

Why these bounds are enough to be interesting: three agents are the fewest for which a majority can
be outvoted by evidence; two history entries make averages differ from single values; four `Agent`
objects with two of one id make a replacement possible while a call is under way; three calls are the
fewest where one is decided on a history a second wrote while a third is asking. In `core_route` one
agent starts without a handler and gets it later. Duration 5 is more than three timeouts of 1 and more
than two of 2, so a late candidate can delay the next beyond its own timeout; `Horizon` (15) is the
sum of three longest finite durations, so no finite schedule is cut. In `fs_transport` two processes
run one agent, of which one may die and the other recovers, and the third runs an agent whose id shares
the directory; there is a message for each of the two agents, so that every process also sees what is
not for it.

In `mcp` two requests follow each other on one thread and one is made on another, so that a stray line
shifts replies both along a thread and across threads.

In `files` two symptoms share a lesson and two ids a card; the second recorder of a lesson has a longer
name, and cards come in two lengths, so that a text may be shorter than the one it meets. In `a2a` two
calls are enough for one to wait for the loop the other holds, for one to be placed by the other's
handler, and for two answers of one agent to be compared. The 18 adapters are checked with every reply and
with and without key and prompt; crashes, nested calls and foreign agents with an agent of the embedding
program, which uses every status, evidence and confidence.

Symmetry is used over calls in the runs of `NexusCore` that check safety only.

`CHECK_DEADLOCK FALSE` is set everywhere: sessions end when their bound is reached, all calls are
answered, all messages done, or a hung handler blocks a debate.

### Properties worth a second look

* `GatedByPolicy`, `GatedByConflictPolicy` are about the whole history of a call: the approval must
  be for that call, and a missing approver is a refusal. A property of the gate function alone would
  not see a call that goes on after recording a refusal.
* `AnsweredOnce` relates the trace to where each call is, in both directions.
* `DispatchIsCurrent` is the staleness property: a pool is read once, in the step that starts the first
  handler, and is judged by the registry of that step, approvers having taken any time before. It
  promises nothing for later: in a sequential debate an agent may have left by the time its turn comes,
  and is called all the same. It is checked in `core_debate`, which has both operations.
* `GraphIsConsistent`, `WonIsRecorded`, `EvidenceIsSupported` relate the graph to
  the trace and to itself. The losers' evidence is in the graph only.
* `NoVoteCounting`, `OrderOnlyBreaksTies`, `HistoryOnlyBreaksTies` compare the outcome for two inputs.
  `RankHeadIsFirstBest` speaks of every order in which the agents can be named. It compares `rank()` with
  a scan like the one `route()` makes itself; `route()` does not call `rank()`, which takes no
  recurrences, so with lessons on file the two may name different agents.
* `AcceptedBound` is tight: in parallel the i-th candidate may take `i * timeout`.
* `LateHasCause` is the other side of it: what is dropped raised `TimeoutError` or ran for the whole
  timeout; nobody pays for the slowness of another.
* `ImplementsLock` also says who: a step in which a process acts on a message of another agent is no step
  of `MessageLock`.
* `EveryMessageIsDone` is about messages to an agent with a process that does not die, in a directory
  with a recoverer that does not either. It names the two accidents that stop a message for good: a torn file in the
  inbox, which makes every `pending()` raise, and a claim file without a pid, which nobody can
  attribute.
* `FailureHasCause` delimits what the comment "a strictly synchronous cycle is enough" is worth: the two
  disturbances it names, strays and overlap, each do break it.
* `VerifiedWasWritten` says what passes `verify()`: only the loss of a tail. `HeadPinsLog` says what a
  hash noted earlier adds, whether it was noted before or after a rewriting.

* `SerialWritesHold` is the comment "no locking needed" with its reservation: it holds for writers that keep
  out of each other's way and live. It is silent about files that are `raced`, so it would not catch the lost
  repetition, the mixed card or the second key pair of writers that overlap: these happen (finding 7).
  `NeverOverCounted` and `AuthorFoundNoFile` are what is left when they do
  not: repetitions are lost, never invented, and a lesson never moves to an agent that did not find the file
  missing. `TornLessonStays` is the price: a lesson torn by a crash is never mended, and every later
  `recurrences_for`, and with it every `route()` that ranks, raises.
* `AnswerIsRouted` compares both ends of a call to a `NexusCore`: what its `route()` returned, what the client
  got and what the client's peer is told. It also says that no `KeyError` leaves `dispatch_via_card` then;
  foreign agents can cause one.
* `StoryIsOne` relates three records of one call that are written at different steps: the state of the
  server's task, what `route()` returned (or that it raised) and what the client ended with. A task that is
  WORKING when its `execute()` is over is one whose `route()` raised, and it has no artifact; one that raised
  and is FAILED, as the class documents it, would violate the property (finding 3).
* `FailsForGood` gives `retryable=False` a meaning: two calls are compared. It holds for the model adapters.
  It does not hold for n8n, where a reply that is not JSON is not retryable, and is not claimed for it.

### Fairness

* `NexusCore!FairSpec`: approvers and handlers return or raise, sooner or later (weak fairness of the
  steps of each call that is under way). Nothing is assumed about new calls and registrations.
  `EveryCallEnds` is about the router: given callbacks that come back, it neither waits for nor loops
  over anything else.
* `DebateDispatch!FairSpec`: time passes and the calling thread is scheduled. A hung handler is a
  matter of its duration, not of fairness.
* `FsTransport!FairSpec`: a process that lives goes on with what it has begun and polls when it is
  through (weak), a sender finishes its write or unlinks what it could not write (weak), and a recoverer that again and again finds an
  abandoned claim recovers it (strong: it is only enabled between its other work).
* `McpStdio!FairSpec`: threads go on with a request they began, and a server that is up replies to each
  request. Nobody is made to begin a request, to close the transport or to stop a server. Readers on
  several threads get lines in no particular order; weak fairness is enough as requests are finitely many.

* `A2AHttp!Fairness`: clients and the loop are scheduled, and every wait of a client has a timeout. Handlers
  need not return, foreign agents not answer, a crashed server not restart. The timeout of the wait for the
  reply is httpx's own default: `call_remote_agent` gives its `timeout` to the client that reads the card
  only, `create_client` makes another for the message.

### Findings

1. **A task without an answer** (`core_unanswered`). `route()` and `debate()` record the task, then
   let every exception but `CapabilityUnavailable` and `TaskFailed` through. `handle()` itself raises
   `ProtocolError` for a result of another task or of another type (`agent.py:86`, `:95`). The
   documentation promises an envelope (`core.py:171`, `:353`). A parallel debate with
   `max_candidates=0` ends the same way: `ThreadPoolExecutor(max_workers=0)` raises `ValueError`.
2. **Two owners after recovery** (`fs_recovery`). `release()` does not look at whose claim it
   removes, so two recoveries of one abandoned claim can hand a message to two processes;
   `transport/filesystem.py:20` says never.

Without a run of their own, each stated by a property that holds and says what is true instead:

3. **A route that raises ends no task.** `NexusAgentExecutor` documents that a missing objective and a failing
   `route()` both end the task FAILED with the reason in an artifact (`transport/a2a_http.py:69`). When
   `route()` raises, which most exceptions of a handler make it do (finding 1), nothing is published: the task
   stays WORKING, without an artifact (`StoryIsOne`, proved: a server that did what is documented violates it).
4. **A timeout that does not let go.** The documentation says that `debate()` has moved on while a late handler
   keeps running (`core.py:290`); leaving the executor's `with` block joins the handler, so `debate()` lasts
   as long as the slowest handler (`NothingLeftRunning`, proved). In parallel the i-th candidate gets up to i
   timeouts (`AcceptedBound`, proved), where `core.py:380` bounds "any single candidate" by one.
5. **A result that is lost.** `StdioMCPTransport.request()` reads one line, and raises if that is not its
   reply; it does not read on, as `adapters/mcp.py:50` has it ("blocks for exactly one reply matching the
   request's id"). One notification makes the request fail, and as its reply is left in the pipe, the
   next one too. `FailureHasCause` needs `noise > 0` for that reason.
6. **The tail of the log.** `verify()`'s documentation (`audit.py:92`) says a false answer means that
   something was "altered, reordered, or deleted", and the module's (`audit.py:7`) that a deletion
   breaks what follows. A deleted tail has nothing after it, and appends after it chain on.
   `VerifiedWasWritten` states exactly what is guaranteed.
7. **Writers that overlap.** `discovery.py:110` does without locks because an entry is replaceable. Two
   publishers that overlap can leave a text that is neither's: both truncate, both write, and the shorter
   text leaves the tail of the longer. Two recorders of one lesson lose a repetition
   (`adapters/lessons.py:123`), and two processes that find no key file go on with a key pair each, one of
   which is not on file (`identity_crypto.py:63`). `SerialWritesHold` needs `raced` for these reasons; that
   repetitions are lost and never invented is `NeverOverCounted`.

Met while modelling, and no property's subject:

8. **One note per evidence entry** (`adapters/obsidian.py:39`) is one note per task and agent: the file name is
   made of these two, and a second entry of one agent replaces the first.
9. A task's `risk` and `constraints` stay behind when it goes over HTTP: `dispatch_via_card` has no parameter
   for them, and the remote gate judges a task without risk. A foreign task that was CANCELED becomes a
   `Result` with status `success` (`a2a.py:210`). An identity without a name comes back from its card with
   its id for a name.

## 4. Proofs

Checked by TLAPS for every value of the constants that satisfies the assumptions in the modules.

**NexusCoreProofs.** Assumptions: `CoreAssumption`, `GatesAssumption`. `TypeCorrect`
(`Spec => []TypeOK`) comes first, one lemma per action; its non-obvious part is that reply slots match
the pool and that arbitration elects a member of the pool, which needs the facts about `Winners` and
sequences proved there. `PolicyGateHolds` needs a strengthening: a call that is past the gate without
an approval on file has a risk that is allowed outright, and a call waiting for approval has no pool
yet. `AnsweredOnceHolds` is inductive together with the types: every step that appends an answer also
moves its call to `done`, and steps of other calls append envelopes of their own. `ConflictGateHolds`
builds on it (a call that has not ended has no result yet) and strengthens the property by two facts: a
verdict is under review only if there is a reviewer, and `route()`, which asks no conflict gate, has a
single candidate. Each step either records no result or records one with answers that agree or an
acceptance on file.

The same module proves the rest of the router's safety, from the same assumptions and the types. The
two action properties need no invariant beyond the types: `DispatchIsCurrentHolds` and
`RoutedToMostTrustedHolds` follow one step, in which a pool is read off the registry as it is then.
The five invariants follow from `RecordsInv`: a call that has recorded a result has replies, and a verdict
under review was elected among the answers of its call (`ConflictInv`, `ResultInv`), so that nothing an
approver who takes his time lets pass can change it; a pool keeps the limits of its request and is routed in
the graph from the step that does so (`PoolInv`); and each kind of edge comes with the one it rests on
(`EdgesInv`). `WonIsRecordedHolds` is an
equivalence for all debates of a task together, so each step shows that it adds a `won` edge and the
result it stands for, or neither.

**DebateDispatchProofs.** Assumption: `DispatchAssumption`. None of the four properties is inductive.
The invariant `Inv` adds: how far the clock can have moved when the calling thread gets to a candidate
(`Clock`: in parallel every wait so far took at most a timeout), what is known of the candidate at
hand (`AtWork`), and which handlers can still run (`InOrder`: in sequence only the current one).
`AcceptedBoundHolds`, `LateHasCauseHolds`, `OneAtATimeHolds` and `NothingLeftRunningHolds` follow; the
second needs that a candidate is settled once, when the calling thread leaves it (`Passed`). The
bound of `AcceptedBound` is a product of two variables; the step that needs it is isolated.

**McpStdioProofs.** Assumption: `McpAssumption`. `AnswersItsOwnHolds` rests on `Inv`: ids in use are
below the counter and distinct, and nothing is asked or replied to before it was begun. For
`FailureHasCauseHolds` the invariant `LockStep` says what "in step" means while nothing has disturbed
the exchange (`Quiet`): at most one request waits, and the pipe holds nothing but the reply to it.
Being quiet cannot come back (`QuietBefore`), so a step is only looked at between two quiet states.

**FsTransportProofs.** Assumptions: `TransportAssumption`, and `OneRecoverer`: at most one process
releases the claims of dead ones, since two break the lock (run `fs_recovery`). The invariant
says whose the claim file is at every step between taking and giving up a message (`OwnsClaim`): a
stamping process has the only blank file, and still has it while it takes back a write that failed; from
the second look at the done file to the unlink the file names the process; whoever is past the test of the
receiver is one; and a claim being released is the releaser's own or that of a dead process. Hence no step
unlinks a claim somebody is relying on. `ImplementsLockHolds` maps every step to a step of
`MessageLock` or a stutter: the second look is `Acquire`; the written done file, or death after
creating it, is `Conclude`; any other stop is `Drop`. `ClaimHasOwnerHolds` follows from the same
invariant.

**FileStoresProofs.** Assumptions: `StoreAssumption`, `ScriptAssumption` (every operation works on files
of its own directory), `DocumentAssumption` (what is written is a document: not `None`, not torn).
`NeverOverCounted` and `AuthorFoundNoFile` speak of the file; the invariant says
the same of the text a `record()` holds between its read and its write (`PendingOK`), with room
for the one count its own write will add. Any number of such texts may be pending at once, which is why
repetitions can be lost and not invented. `TornLessonStaysHolds` splits a step by where the process is:
whoever reaches `open` in a lesson has read it whole or found no file, so nobody does in a torn one.

`SerialWritesHoldHolds` is about the files that are not `raced`, in all four directories. `SerialInv`
says of each (`SerialFile`): it has at most one writer; what that writer will write is whole, counts the
repetition that is recorded now, or is the first key pair (`Ready`); between truncation and write the
file is empty and still has its name (`StageOK`), which is where a text of any length is written whole;
when nobody is past its read the file is what was saved (`Settled`); and whoever asked for a key pair
was given the one that was saved, so that a second one is never made. `AnswersAreSoundHolds` is about the readers.
For the digest and the cards (`ReadersOK`) it needs that what `all()` read for a digest are lessons, of a
layer the digest knows. For the repetitions an agent is charged with, `ChargeInv` says of a reader that each
lesson it has read came from a file of its own, which it will not read again and which counts at least as
many (`FromFiles`); this survives a writer, since the recorded counts only grow, and at the end the sum over
some of the lessons is at most the sum over all files (`SumMatched`). `Files` is finite by assumption.
The lemmas about sums are needed because a fold over a set takes its elements in an order that `CHOOSE` fixes.
As an induction over sets is out of reach, the sums of all subsets are taken for one table (`SumIsTable`), and
two tables that differed, or a table and a bound, would do so at a smallest subset (`TablesAgree`).

**ArbitrationProofs.** Assumption: `SessionAssumption`. A sum of percentages times tenths lies between
0 and a thousand for each entry (`SumBounds`, by the same tables of sums). Hence strengths and scores are fractions
in [0, 1] with a positive denominator (`StrengthType`, `ScoreType`). Their order is total up to ties
(`LessBetween`, `SameIsNeither`), so is the order by strength and then by trust, and a scan of a list ends
at exactly one place (`FirstBestExists`, `FirstBestUnique`): the winner is *the* elected candidate
(`OneElected`), and two lists can be compared. `OrderOnlyBreaksTiesHolds`: the winners of a
list and of its reverse outrank each other in neither direction. `NoVoteCountingHolds`: the winner of the shorter list
is what the scan of the longer one ends at. `HistoryOnlyBreaksTiesHolds`: each of two winners is at least as
strong as the other. `ScoreIsOwnHolds`: new entries of others leave an agent's own evidence, positions
included, as it was. `RankHeadIsFirstBestHolds`: the head of the ranking is the one place nothing
comes before.

**AuditLogProofs.** Assumption: `AuditAssumption`. For `VerifiedWasWrittenHolds` the invariant `WrittenInv`
says of each event, as long as no hash was recomputed, that its hash is the one `append` computed
(`Genuine`): an edit of the dict, a move or a deletion leaves it so, and when such a log verifies, the dict
says what it said and the event before is the one it followed. `HeadPinsLogHolds` is about a
whole chain: every hash that was handed out is the last of a chain of hashes over the contents noted with
it (`Chain`, `Commits`, `KeptInv`), and so is the head of a log that verifies, rewritten or not
(`HeadCommits`). What is left is that a hash commits to one text (`CommitsToOne`): two chains that end in
one hash agree all the way down, the induction being a least counterexample (`LeastNat`, `ChainsMeet`).

**A2AHttpProofs.** Assumptions: what the constants stand for, listed in `A2AHttp`: `None`, `Raised` and the like
are no outcome of a handler; a handler's outcome is a well-formed `Result` or `ErrorPayload`, or it raises; a
language model's adapter is `Chat` or `Keyed` and its handler places no calls; a foreign
agent's evidence is a list. The codec lemmas come first: results and errors return from the envelope
(`ResultReturns`, `ErrorReturns`), are told to the peer as they are (`ResultToldBack`, `ErrorToldBack`),
and tasks and cards come back (`TaskReturns`, `CardReturns`). The invariant `IInv` relates the client's
and the server's half of each call (`CallsInv`): the server has work on a call only after its
client sent it, the artifact is the envelope of what `route()` returned for that very call (`Told`) and
decides the state of the finished task, a task whose `route()` raised is as it was when it was accepted
(`Open`), and a client that is done has what was told or an error of the transport. `AnswerIsRoutedHolds` and `StoryIsOneHolds` follow.
`FailsForGoodHolds` compares two calls, so it needs the cause of an outcome that is not retryable: as long
as the server has not restarted (`ServerAsStarted`), a missing key, a missing input or an objective nobody has
a handler for, each of which the other call meets as well, whatever the service replies.

**Only model-checked.** Every invariant and every action property of a passing run is the statement of a
theorem; what is left is:

* Liveness (`EveryCallEnds`, `EveryDebateEnds`, `EveryMessageIsDone`, `EveryRequestEnds`, `EveryWaitEnds`): the
  prover has no rule for fairness and ENABLED here.
* The functions in `Adapters`, which the `a2a` run evaluates for every reply; the proofs use the two shapes
  `Chat` and `Keyed`.

## 5. Not modelled

* Rounding. Scores are exact fractions; in the code equal strengths may differ in the last bit.
* Threads inside one call of the router. Two handlers of a parallel debate that call the router at the
  same time are taken to interleave at callbacks, not at bytecodes. `GraphStore`'s SQLite connection
  refuses to be used from their threads at all; for the outer call that is a handler that raises.
* A negative `max_candidates` or `quorum`; `quorum=None` is 0. An arbiter, trust evaluator or lessons
  store other than the repository's own.
* Message and agent id syntax, path containment, the mathematics of signatures, JSON text, numbers on the
  wire: the inputs are well formed where the code checks that they are.
* `InMemoryRegistry`, a dict without concurrency; `validate_envelope` on envelopes the router has just built;
  `Task.from_payload`, which nothing calls; the queries of `GraphStore`; parsing of notes.
* Streaming and push notification of the A2A SDK, which the server's card switches off; `cancel`, which
  raises.
* Examples, tests, `pyproject.toml` and the documentation, outside `src/python/src/nexus/`.

## 6. Plan

In order of what matters for the system:

1. *Done*: Trust, Arbitration; Gates, NexusCore; DebateDispatch; FsTransport with its abstract lock;
   AuditLog; McpStdio; FileStores; Adapters; A2ACodec, A2AHttp; the proofs of section 4.
2. Threads of one process: a handler of a parallel debate that calls the router.

The number of runs is kept small: a new module gets one run, and a run that asks nothing the others do
not is dropped, with what it showed kept under *Findings*.
