----------------------------- MODULE MCNexusCore -----------------------------
(***************************************************************************)
(* Instances of NexusCore.  Four Agent objects, two of them (agB, agB2)     *)
(* with the same agent_id; the constants the cfg files choose among.       *)
(***************************************************************************)
EXTENDS NexusCoreProperties

CONSTANTS agA, agB, agB2, agD,  \* Agent objects
          idA, idB, idD,           \* agent ids
          work,                    \* the objective calls are made for
          low, high, banned,       \* risks
          t1, t2,                  \* task ids
          yes, no                  \* outputs

MCIdOf == (agA :> idA) @@ (agB :> idB) @@ (agB2 :> idB) @@ (agD :> idD)

(* "high" is left out: an unmapped risk. *)
MCRiskPolicy == (low :> "allow") @@ (banned :> "block")

NoRecurrences == [id \in AgentIds |-> 0]
LessonsOnA == [NoRecurrences EXCEPT ![idA] = 10]

Setup(s, able) ==
  [registry |-> s, handlers |-> [x \in Agents |-> IF x \in able THEN {work} ELSE {}]]

TwoAble == {Setup(<<agA, agB>>, {agA, agB, agB2})}
ThreeAble == {Setup(<<agA, agB, agD>>, {agA, agB, agB2, agD})}
Mixed == {Setup(<<agB>>, {agA, agB2}), Setup(<<agB, agA>>, {agA, agB, agB2})}
AbleB == { <<agB, work>> }

Route(risk, t) ==
  [operation |-> "route", objective |-> work, risk |-> risk, task_id |-> t, agent_ids |-> None,
   max_candidates |-> None, quorum |-> 0, parallel |-> FALSE]

Debate(risk, t, ids, max, q, parallel) ==
  [operation |-> "debate", objective |-> work, risk |-> risk, task_id |-> t, agent_ids |-> ids,
   max_candidates |-> max, quorum |-> q, parallel |-> parallel]

Return(form, output, t, c) ==
  [form |-> form, output |-> output, evidence |-> << [transformation |-> t, confidence |-> c] >>]
Bare(form, output) == [form |-> form, output |-> output, evidence |-> <<>>]

Strong == Return("result", yes, "extracted_verbatim", 90)
Weak == Return("result", no, "inferred", 60)

RouteReturns == {Strong, Weak, Bare("error_payload", None), Bare("foreign_result", yes),
                 Bare("task_failed", None), Bare("unavailable", None)}
FewReturns == {Strong, Weak, Bare("error_payload", None), Bare("unavailable", None), Bare("exception", None)}
WrongReturns == {Strong, Bare("foreign_result", yes), Bare("other_value", None)}
DebateReturns == {Strong, Weak, Bare("dict", yes), Bare("error_payload", None), Bare("late", None)}

RouteRequests == {Route(low, t1), Route(high, t1), Route(banned, t2)}

DebateRequests ==
  { Debate(low, t1, None, None, 0, FALSE),
    Debate(low, t1, None, 2, 2, TRUE),
    Debate(high, t2, {idA, idB}, None, 1, FALSE),
    Route(high, t2) }

LimitRequests ==
  { Debate(low, t1, {idD}, 0, 0, FALSE),
    Debate(low, t1, None, 0, 0, TRUE),
    Debate(low, t2, {idD, idB}, 1, 2, FALSE),
    Debate(low, t2, None, 2, 2, TRUE),
    Debate(banned, t1, None, None, 0, FALSE),
    Debate(high, t1, None, None, 0, TRUE),
    Route(low, t1) }

MixedRequests == {Route(low, t1), Debate(low, t1, None, None, 2, TRUE)}

SymCalls == Permutations(Calls)
=============================================================================
