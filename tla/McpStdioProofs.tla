--------------------------- MODULE McpStdioProofs ---------------------------
(* Types of McpStdio, and that no request is given another one's reply. *)
EXTENDS McpStdio, SequenceTheorems, TLAPS

(* Reading an end of a request keeps the types of pc and outcome. *)
LEMMA EndType ==
  ASSUME TypeOK, NEW c \in Calls, NEW result \in Outcomes, End(c, result)
  PROVE  /\ pc' \in [Calls -> {"idle", "numbered", "waiting", "greeting", "done"}]
         /\ outcome' \in [Calls -> Outcomes \cup {None}]
BY DEF TypeOK, End

LEMMA OutcomeType ==
  ASSUME NEW c, NEW line PROVE Outcome(c, line) \in Outcomes
BY DEF Outcome, Outcomes

LEMMA WriteErrorType == WriteError \in Outcomes
BY DEF WriteError, Outcomes

LEMMA LineIsTyped ==
  /\ \A body \in Replies, c \in Calls : Line(body, c) \in LineType
  /\ \A kind \in Noises : Line(kind, None) \in LineType
BY McpAssumption DEF Line, LineType

LEMMA ReadType == ASSUME TypeOK, NEW c \in Calls, Read(c) PROVE TypeOK'
<1> DEFINE line == Head(stdout)
<1>1. line \in LineType /\ stdout' \in Seq(LineType)
  BY HeadTailProperties DEF TypeOK, Read
<1>2. Outcome(c, line) \in Outcomes
  BY OutcomeType
<1>3. /\ pc' \in [Calls -> {"idle", "numbered", "waiting", "greeting", "done"}]
      /\ outcome' \in [Calls -> Outcomes \cup {None}]
  <2>1. CASE c = Handshake /\ Outcome(c, line) = "answered"
    BY <2>1 DEF TypeOK, Read
  <2>2. CASE ~(c = Handshake /\ Outcome(c, line) = "answered")
    <3>1. End(c, Outcome(c, line))
      BY <2>2 DEF Read
    <3> QED BY <3>1, <1>2, EndType
  <2> QED BY <2>1, <2>2
<1>4. got' \in [Calls -> Calls \cup {None}]
  <2>1. line.to \in Calls \cup {None}
    BY <1>1 DEF LineType
  <2> QED BY <2>1 DEF TypeOK, Read
<1>5. UNCHANGED <<id, next_id, asked, server, closed, noise, replied, crossed>>
  BY DEF Read
<1> QED BY <1>1, <1>3, <1>4, <1>5 DEF TypeOK

LEMMA TypeInit == Init => TypeOK
<1> SUFFICES ASSUME Init PROVE TypeOK
  OBVIOUS
<1>1. stdout \in Seq(LineType) /\ noise \in 0 .. MaxNoise
  BY McpAssumption, EmptySeq DEF Init
<1>2. /\ outcome \in [Calls -> Outcomes \cup {None}]
      /\ got \in [Calls -> Calls \cup {None}]
      /\ replied \in [Calls -> Bodies \cup {None}]
  BY DEF Init
<1>3. closed \in BOOLEAN /\ crossed \in BOOLEAN
  BY DEF Init
<1> QED BY <1>1, <1>2, <1>3 DEF Init, TypeOK

LEMMA TypeStep == TypeOK /\ [Next]_vars => TypeOK'
<1> SUFFICES ASSUME TypeOK, [Next]_vars PROVE TypeOK'
  OBVIOUS
<1>1. ASSUME NEW c \in Calls, TakeId(c) PROVE TypeOK'
  BY <1>1 DEF TypeOK, TakeId
<1>2. ASSUME NEW c \in Calls, Write(c) PROVE TypeOK'
  BY <1>2 DEF TypeOK, Write
<1>3. ASSUME NEW c \in Calls, WriteFails(c) PROVE TypeOK'
  BY <1>3, EndType, WriteErrorType DEF TypeOK, WriteFails
<1>4. ASSUME NEW c \in Calls, ReadEnd(c) PROVE TypeOK'
  <2>1. "failed" \in Outcomes
    BY DEF Outcomes
  <2> QED BY <1>4, <2>1, EndType DEF TypeOK, ReadEnd
<1>5. ASSUME Confirm PROVE TypeOK'
  <2>1. (IF closed \/ server = "down" THEN WriteError ELSE "answered") \in Outcomes
    BY WriteErrorType DEF Outcomes
  <2> QED BY <1>5, <2>1, EndType, McpAssumption DEF TypeOK, Confirm
<1>6. CASE Close
  BY <1>6 DEF TypeOK, Close
<1>7. ASSUME NEW c \in Calls, NEW body \in Replies, Reply(c, body) PROVE TypeOK'
  <2>1. stdout' \in Seq(LineType)
    BY <1>7, LineIsTyped, AppendProperties DEF TypeOK, Reply
  <2>2. replied' \in [Calls -> Bodies \cup {None}]
    BY <1>7, McpAssumption DEF TypeOK, Reply
  <2> QED BY <1>7, <2>1, <2>2 DEF TypeOK, Reply
<1>8. ASSUME NEW kind \in Noises, Stray(kind) PROVE TypeOK'
  <2>1. stdout' \in Seq(LineType)
    BY <1>8, LineIsTyped, AppendProperties DEF TypeOK, Stray
  <2>2. noise' \in 0 .. MaxNoise
    BY <1>8, McpAssumption DEF TypeOK, Stray
  <2> QED BY <1>8, <2>1, <2>2 DEF TypeOK, Stray
<1>9. ASSUME NEW how \in {"mute", "down"}, Stop(how) PROVE TypeOK'
  BY <1>9 DEF TypeOK, Stop
<1>10. CASE UNCHANGED vars
  BY <1>10 DEF TypeOK, vars
<1> QED
  BY <1>1, <1>2, <1>3, <1>4, <1>5, <1>6, <1>7, <1>8, <1>9, <1>10, ReadType DEF Next, Step

(* mcp.py:55-98: the state of a transport and of its requests stays what it *)
(* is meant to be, for any calls, threads and server.                       *)
THEOREM TypeCorrect == Spec => []TypeOK
<1> QED BY TypeInit, TypeStep, PTL DEF Spec
-----------------------------------------------------------------------------
Begun(c) == pc[c] # "idle"

(* Ids are below the counter, and no two requests have the same. *)
Numbered ==
  /\ \A c \in Calls : Begun(c) => id[c] < next_id
  /\ \A b, c \in Calls : Begun(b) /\ Begun(c) /\ id[b] = id[c] => b = c

(* Nothing is asked, and no line replies to anything, that was not begun. *)
Asked ==
  /\ \A c \in asked : Begun(c)
  /\ \A k \in 1 .. Len(stdout) : stdout[k].to # None => Begun(stdout[k].to)

Inv == Numbered /\ Asked /\ AnswersItsOwn

LEMMA InvInit == Init => Inv
BY DEF Init, Inv, Numbered, Asked, AnswersItsOwn, Begun

(* All that a step needs to keep Inv, when it neither takes an id nor reads *)
(* or writes stdout.                                                        *)
LEMMA KeepsInv ==
  ASSUME TypeOK, Inv, UNCHANGED <<id, next_id, got>>,
         \A c \in Calls : Begun(c) <=> Begun(c)',
         \A c \in asked' : c \in Calls /\ Begun(c),
         \A k \in 1 .. Len(stdout') : stdout'[k].to # None =>
            stdout'[k].to \in Calls /\ Begun(stdout'[k].to)
  PROVE  Inv'
<1>1. Numbered'
  BY DEF Inv, Numbered
<1>2. Asked'
  BY DEF Asked, Begun
<1> QED BY <1>1, <1>2 DEF Inv, AnswersItsOwn

LEMMA LinesReplyToCalls ==
  ASSUME TypeOK, Inv
  PROVE  \A k \in 1 .. Len(stdout) : stdout[k].to # None =>
            stdout[k].to \in Calls /\ Begun(stdout[k].to)
<1> TAKE k \in 1 .. Len(stdout)
<1>1. stdout[k] \in LineType
  BY ElementOfSeq DEF TypeOK
<1> QED BY <1>1 DEF LineType, Inv, Asked

LEMMA ReadKeepsInv == ASSUME TypeOK, Inv, NEW c \in Calls, Read(c) PROVE Inv'
<1> DEFINE line == Head(stdout)
<1>1. line = stdout[1] /\ 1 \in 1 .. Len(stdout)
  BY HeadTailProperties DEF TypeOK, Read
<1>2. \A b \in Calls : Begun(b) <=> Begun(b)'
  BY DEF TypeOK, Read, End, Begun
<1>3. ASSUME Matches(c, line) PROVE line.to = c
  <2>1. line.to \in Calls /\ Begun(line.to) /\ id[line.to] = id[c]
    BY <1>1, <1>3, LinesReplyToCalls DEF Matches
  <2>2. Begun(c)
    BY DEF Read, Begun
  <2> QED BY <2>1, <2>2 DEF Inv, Numbered
<1>4. AnswersItsOwn'
  BY <1>3 DEF TypeOK, Read, Inv, AnswersItsOwn
<1>5. Numbered'
  BY <1>2 DEF Read, Inv, Numbered
<1>6. Asked'
  <2>1. ASSUME NEW k \in 1 .. Len(stdout') PROVE stdout'[k] = stdout[k + 1] /\ k + 1 \in 1 .. Len(stdout)
    BY <2>1, HeadTailProperties DEF TypeOK, Read
  <2>2. ASSUME NEW k \in 1 .. Len(stdout'), stdout'[k].to # None PROVE pc'[stdout'[k].to] # "idle"
    <3>1. stdout'[k].to \in Calls /\ Begun(stdout'[k].to)
      BY <2>1, <2>2, LinesReplyToCalls
    <3> QED BY <1>2, <3>1 DEF Begun
  <2>3. \A b \in asked' : Begun(b)'
    BY <1>2 DEF TypeOK, Read, Inv, Asked, Begun
  <2> QED BY <2>2, <2>3 DEF Asked, Begun
<1> QED BY <1>4, <1>5, <1>6 DEF Inv

LEMMA TakeIdKeepsInv == ASSUME TypeOK, Inv, NEW c \in Calls, TakeId(c) PROVE Inv'
<1>1. \A b \in Calls : Begun(b)' <=> Begun(b) \/ b = c
  BY DEF TypeOK, TakeId, Begun
<1>2. /\ \A b \in Calls : b # c => id'[b] = id[b]
      /\ id'[c] = next_id /\ next_id' = next_id + 1
  BY DEF TypeOK, TakeId
<1>3. Numbered'
  <2>1. \A b \in Calls : id[b] \in Nat /\ next_id \in Nat
    BY DEF TypeOK
  <2>2. \A b \in Calls : Begun(b)' => id'[b] < next_id'
    BY <1>1, <1>2, <2>1 DEF Inv, Numbered
  <2>3. ASSUME NEW a \in Calls, NEW b \in Calls, Begun(a)', Begun(b)', id'[a] = id'[b] PROVE a = b
    <3>1. \A d \in Calls : d # c /\ Begun(d)' => id'[d] < next_id
      BY <1>1, <1>2 DEF Inv, Numbered
    <3>2. CASE a = c \/ b = c
      BY <1>2, <2>1, <2>3, <3>1, <3>2
    <3>3. CASE a # c /\ b # c
      BY <1>1, <1>2, <2>3, <3>3 DEF Inv, Numbered
    <3> QED BY <3>2, <3>3
  <2> QED BY <2>2, <2>3 DEF Numbered
<1>4. Asked'
  BY <1>1, LinesReplyToCalls DEF TypeOK, TakeId, Inv, Asked
<1> QED BY <1>3, <1>4 DEF Inv, AnswersItsOwn, TakeId

LEMMA InvStep == TypeOK /\ Inv /\ [Next]_vars => Inv'
<1> SUFFICES ASSUME TypeOK, Inv, [Next]_vars PROVE Inv'
  OBVIOUS
<1>1. \A c \in asked : c \in Calls /\ Begun(c)
  BY DEF TypeOK, Inv, Asked
<1>2. ASSUME NEW c \in Calls, Write(c) PROVE Inv'
  BY <1>1, <1>2, KeepsInv, LinesReplyToCalls DEF TypeOK, Write, Begun
<1>3. ASSUME NEW c \in Calls, WriteFails(c) \/ ReadEnd(c) PROVE Inv'
  BY <1>1, <1>3, KeepsInv, LinesReplyToCalls DEF TypeOK, WriteFails, ReadEnd, End, Begun
<1>4. ASSUME Confirm PROVE Inv'
  BY <1>1, <1>4, KeepsInv, LinesReplyToCalls DEF TypeOK, Confirm, End, Begun
<1>5. ASSUME Close \/ \E how \in {"mute", "down"} : Stop(how) PROVE Inv'
  BY <1>1, <1>5, KeepsInv, LinesReplyToCalls DEF Close, Stop, Begun
<1>6. ASSUME NEW c \in Calls, NEW body \in Replies, Reply(c, body) PROVE Inv'
  <2>1. \A k \in 1 .. Len(stdout') :
          stdout'[k] = IF k \in 1 .. Len(stdout) THEN stdout[k] ELSE Line(body, c)
    BY <1>6, LineIsTyped, AppendProperties DEF TypeOK, Reply
  <2>2. Begun(c)
    BY <1>1, <1>6 DEF Reply
  <2>3. \A k \in 1 .. Len(stdout') : stdout'[k].to # None =>
          stdout'[k].to \in Calls /\ Begun(stdout'[k].to)
    BY <2>1, <2>2, LinesReplyToCalls DEF Line
  <2> QED BY <1>1, <1>6, <2>3, KeepsInv DEF Reply, Begun
<1>7. ASSUME NEW kind \in Noises, Stray(kind) PROVE Inv'
  <2>1. \A k \in 1 .. Len(stdout') :
          stdout'[k] = IF k \in 1 .. Len(stdout) THEN stdout[k] ELSE Line(kind, None)
    BY <1>7, LineIsTyped, AppendProperties DEF TypeOK, Stray
  <2>2. \A k \in 1 .. Len(stdout') : stdout'[k].to # None =>
          stdout'[k].to \in Calls /\ Begun(stdout'[k].to)
    BY <2>1, LinesReplyToCalls DEF Line
  <2> QED BY <1>1, <1>7, <2>2, KeepsInv DEF Stray, Begun
<1>8. CASE UNCHANGED vars
  BY <1>1, <1>8, KeepsInv, LinesReplyToCalls DEF vars, Begun
<1> QED
  BY <1>2, <1>3, <1>4, <1>5, <1>6, <1>7, <1>8, ReadKeepsInv, TakeIdKeepsInv DEF Next, Step

(* mcp.py:90: whatever the server writes, in whatever order, and however    *)
(* many threads share the transport, no request is given the reply to       *)
(* another one.                                                             *)
THEOREM AnswersItsOwnHolds == Spec => []AnswersItsOwn
<1>1. Inv => AnswersItsOwn
  BY DEF Inv
<1> QED BY TypeInit, TypeStep, InvInit, InvStep, <1>1, PTL DEF Spec
-----------------------------------------------------------------------------
Quiet == noise = 0 /\ ~crossed /\ server = "up" /\ ~closed

(* Without strays and overlaps the pipe holds nothing but the reply to the  *)
(* one request that waits, and nothing before that reply is written.        *)
InStep ==
  /\ \A b, c \in Waiting : b = c
  /\ \A c \in asked : c \in Waiting /\ stdout = <<>>
  /\ stdout # <<>> => \E c \in Waiting : stdout = <<Line(replied[c], c)>>

LockStep == Quiet => InStep

Unfinished == \A c \in Calls : pc[c] # "done" => outcome[c] = None

Cause == LockStep /\ Unfinished /\ FailureHasCause

LEMMA CauseInit == Init => Cause
<1> SUFFICES ASSUME Init PROVE Cause
  OBVIOUS
<1>1. Waiting = {} /\ asked = {} /\ stdout = <<>>
  BY DEF Init, Waiting
<1>2. \A c \in Calls : outcome[c] # "failed"
  BY McpAssumption DEF Init, Outcomes
<1> QED BY <1>1, <1>2 DEF Cause, LockStep, InStep, Unfinished, FailureHasCause, Init

(* A step after which the exchange is still quiet was taken in a quiet one. *)
LEMMA QuietBefore == ASSUME TypeOK, [Next]_vars, Quiet' PROVE Quiet
<1>1. ASSUME NEW c \in Calls, TakeId(c) \/ Read(c) \/ WriteFails(c) \/ ReadEnd(c) PROVE Quiet
  BY <1>1 DEF TakeId, WriteFails, Read, ReadEnd, Quiet
<1>2. ASSUME NEW c \in Calls, Write(c) PROVE Quiet
  BY <1>2 DEF Write, Quiet
<1>3. ASSUME NEW c \in Calls, NEW body \in Replies, Reply(c, body) PROVE Quiet
  BY <1>3 DEF Reply, Quiet
<1>4. ASSUME NEW kind \in Noises, Stray(kind) PROVE Quiet
  BY <1>4, McpAssumption DEF TypeOK, Stray, Quiet
<1> QED BY <1>1, <1>2, <1>3, <1>4 DEF Next, Step, Confirm, Close, Stop, Quiet, vars

LEMMA UnfinishedStep == ASSUME TypeOK, Unfinished, [Next]_vars PROVE Unfinished'
<1>1. ASSUME NEW c \in Calls, NEW result, End(c, result) PROVE Unfinished'
  BY <1>1 DEF TypeOK, Unfinished, End
<1>2. ASSUME NEW c \in Calls, Read(c) PROVE Unfinished'
  <2>1. CASE c = Handshake /\ Outcome(c, Head(stdout)) = "answered"
    BY <1>2, <2>1 DEF TypeOK, Unfinished, Read
  <2>2. CASE ~(c = Handshake /\ Outcome(c, Head(stdout)) = "answered")
    BY <1>1, <1>2, <2>2 DEF Read
  <2> QED BY <2>1, <2>2
<1>3. ASSUME NEW c \in Calls, TakeId(c) \/ Write(c) PROVE Unfinished'
  BY <1>3 DEF TypeOK, Unfinished, TakeId, Write
<1>4. ASSUME NEW c \in Calls, WriteFails(c) \/ ReadEnd(c) PROVE Unfinished'
  BY <1>1, <1>4 DEF WriteFails, ReadEnd
<1>5. ASSUME Confirm PROVE Unfinished'
  BY <1>1, <1>5, McpAssumption DEF Confirm
<1>6. ASSUME NEW c \in Calls, NEW body \in Replies, Reply(c, body) PROVE Unfinished'
  BY <1>6 DEF Unfinished, Reply
<1> QED BY <1>2, <1>3, <1>4, <1>5, <1>6 DEF Next, Step, Close, Stray, Stop, Unfinished, vars

(* In step, the line a request reads is the reply to it.                    *)
LEMMA ReadsItsReply ==
  ASSUME InStep, NEW c \in Calls, Read(c)
  PROVE  stdout = <<Line(replied[c], c)>> /\ asked = {} /\ Waiting = {c}
<1>1. c \in Waiting /\ stdout # <<>>
  BY DEF Read, Waiting
<1> QED BY <1>1 DEF InStep

LEMMA InStepStep == ASSUME TypeOK, InStep, Quiet, Quiet', [Next]_vars PROVE InStep'
<1>1. ASSUME Waiting' = Waiting, UNCHANGED <<asked, stdout, replied>> PROVE InStep'
  BY <1>1 DEF InStep
<1>2. ASSUME NEW c \in Calls, TakeId(c) PROVE InStep'
  <2>1. Waiting' = Waiting
    BY <1>2 DEF TypeOK, TakeId, Waiting
  <2> QED BY <1>1, <1>2, <2>1 DEF TakeId
<1>3. ASSUME NEW c \in Calls, Write(c) PROVE InStep'
  <2>1. Waiting = {}
    BY <1>3 DEF Write, Quiet
  <2>2. asked = {} /\ stdout = <<>>
    BY <2>1 DEF InStep
  <2>3. Waiting' = {c} /\ asked' = {c} /\ stdout' = <<>>
    BY <1>3, <2>1, <2>2 DEF TypeOK, Write, Waiting
  <2> QED BY <2>3 DEF InStep
<1>4. ASSUME NEW c \in Calls, Read(c) PROVE InStep'
  <2>1. stdout = <<Line(replied[c], c)>> /\ asked = {} /\ Waiting = {c}
    BY <1>4, ReadsItsReply
  <2>2. stdout' = <<>> /\ asked' = {}
    BY <1>4, <2>1 DEF Read
  <2>3. Waiting' = {}
    BY <1>4, <2>1 DEF TypeOK, Read, End, Waiting
  <2> QED BY <2>2, <2>3 DEF InStep
<1>5. ASSUME NEW c \in Calls, WriteFails(c) \/ ReadEnd(c) PROVE InStep'
  BY <1>5 DEF WriteFails, ReadEnd, Quiet
<1>6. ASSUME Confirm PROVE InStep'
  <2>1. Waiting' = Waiting
    BY <1>6, McpAssumption DEF TypeOK, Confirm, End, Waiting
  <2> QED BY <1>1, <1>6, <2>1 DEF Confirm
<1>7. ASSUME NEW c \in Calls, NEW body \in Replies, Reply(c, body) PROVE InStep'
  <2>1. c \in Waiting /\ stdout = <<>> /\ asked' = {} /\ Waiting' = Waiting
    BY <1>7 DEF Reply, InStep, Waiting
  <2>2. stdout' = <<Line(body, c)>> /\ replied'[c] = body
    BY <1>7, <2>1 DEF TypeOK, Reply
  <2> QED BY <2>1, <2>2 DEF InStep
<1>8. ~Close /\ (\A kind \in Noises : ~Stray(kind)) /\ \A how \in {"mute", "down"} : ~Stop(how)
  BY DEF Close, Stray, Stop, Quiet, TypeOK
<1>9. CASE UNCHANGED vars
  BY <1>1, <1>9 DEF vars, Waiting
<1> QED BY <1>2, <1>3, <1>4, <1>5, <1>6, <1>7, <1>8, <1>9 DEF Next, Step

AnsweredIsKept == \A c \in Calls : outcome[c] = "failed" => replied[c] # "result"

LEMMA FailureStep ==
  ASSUME TypeOK, Inv, InStep, Quiet, Quiet', Unfinished, AnsweredIsKept, [Next]_vars
  PROVE  AnsweredIsKept'
<1>1. ASSUME UNCHANGED <<outcome, replied>> PROVE AnsweredIsKept'
  BY <1>1 DEF AnsweredIsKept
<1>2. ASSUME NEW c \in Calls, Read(c) PROVE AnsweredIsKept'
  <2>1. stdout = <<Line(replied[c], c)>>
    BY <1>2, ReadsItsReply
  <2>2. Head(stdout) = Line(replied[c], c)
    BY <2>1
  <2>3. Matches(c, Line(replied[c], c))
    BY McpAssumption DEF Matches, Line
  <2>4. replied[c] = "result" => Outcome(c, Line(replied[c], c)) = "answered"
    BY <2>3 DEF Outcome, Line
  <2>5. CASE c = Handshake /\ Outcome(c, Head(stdout)) = "answered"
    BY <1>1, <1>2, <2>5 DEF Read
  <2>6. CASE ~(c = Handshake /\ Outcome(c, Head(stdout)) = "answered")
    <3>1. End(c, Outcome(c, Line(replied[c], c))) /\ UNCHANGED replied
      BY <1>2, <2>2, <2>6 DEF Read
    <3> QED BY <2>4, <3>1 DEF TypeOK, AnsweredIsKept, End
  <2> QED BY <2>5, <2>6
<1>3. ASSUME NEW c \in Calls, WriteFails(c) \/ ReadEnd(c) PROVE FALSE
  BY <1>3 DEF WriteFails, ReadEnd, Quiet
<1>4. ASSUME Confirm PROVE AnsweredIsKept'
  <2>1. End(Handshake, "answered") /\ UNCHANGED replied
    BY <1>4 DEF Confirm, Quiet
  <2> QED BY <2>1, McpAssumption DEF TypeOK, AnsweredIsKept, End
<1>5. ASSUME NEW c \in Calls, NEW body \in Replies, Reply(c, body) PROVE AnsweredIsKept'
  <2>1. outcome[c] # "failed"
    BY <1>5, McpAssumption DEF Reply, InStep, Waiting, Unfinished, Outcomes
  <2> QED BY <1>5, <2>1 DEF TypeOK, AnsweredIsKept, Reply
<1>6. ASSUME NEW c \in Calls, TakeId(c) \/ Write(c) PROVE AnsweredIsKept'
  BY <1>1, <1>6 DEF TakeId, Write
<1>7. Close \/ (\E kind \in Noises : Stray(kind)) \/ (\E how \in {"mute", "down"} : Stop(how))
        \/ UNCHANGED vars => AnsweredIsKept'
  BY <1>1 DEF Close, Stray, Stop, vars
<1> QED BY <1>2, <1>3, <1>4, <1>5, <1>6, <1>7 DEF Next, Step

LEMMA CauseStep == TypeOK /\ Inv /\ Cause /\ [Next]_vars => Cause'
<1> SUFFICES ASSUME TypeOK, Inv, Cause, [Next]_vars PROVE Cause'
  OBVIOUS
<1>1. FailureHasCause => (Quiet => AnsweredIsKept)
  BY DEF FailureHasCause, AnsweredIsKept, Quiet, TypeOK
<1>2. Unfinished'
  BY UnfinishedStep DEF Cause
<1>3. CASE ~Quiet'
  <2>1. noise' \in Nat
    BY TypeStep, McpAssumption DEF TypeOK
  <2>2. FailureHasCause'
    BY <1>3, <2>1 DEF FailureHasCause, Quiet
  <2> QED BY <1>2, <1>3, <2>2 DEF Cause, LockStep
<1>4. CASE Quiet'
  <2>1. Quiet
    BY <1>4, QuietBefore
  <2>2. InStep' /\ AnsweredIsKept'
    BY <1>1, <1>4, <2>1, InStepStep, FailureStep DEF Cause, LockStep
  <2> QED BY <1>2, <2>2 DEF Cause, LockStep, FailureHasCause, AnsweredIsKept
<1> QED BY <1>3, <1>4

(* mcp.py:50-53: "a strictly synchronous request/response cycle" is enough  *)
(* as long as requests do not overlap and the server writes nothing but     *)
(* replies: then no result is lost on its way to its request.               *)
THEOREM FailureHasCauseHolds == Spec => []FailureHasCause
<1>1. Cause => FailureHasCause
  BY DEF Cause
<1> QED BY TypeInit, TypeStep, InvInit, InvStep, CauseInit, CauseStep, <1>1, PTL DEF Spec
=============================================================================
