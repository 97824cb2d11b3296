-------------------------- MODULE ArbitrationSession --------------------------
(***************************************************************************)
(* Candidates answer one after the other while evidence accumulates in the *)
(* history: every reachable state is an input of arbitrate(), of evaluate()*)
(* and of rank(), and every step a change of one input whose effect on the *)
(* outcome the properties bound.                                           *)
(***************************************************************************)
EXTENDS Arbitration, Sequences, SequencesExt

CONSTANTS AgentIds,        \* identities of the candidates
          Outputs,         \* what an answer may say
          Evidences,       \* the evidence lists an answer may carry, without agent_id
          MaxCandidates,   \* bound: candidates of the debate
          MaxHistory       \* bound: entries of the history

ASSUME SessionAssumption ==
  /\ IsFiniteSet(AgentIds) /\ MaxCandidates \in Nat /\ MaxHistory \in Nat
  /\ Evidences \subseteq Seq([transformation : STRING, confidence : 0..100])

VARIABLES candidates,   \* the list given to arbitrate(), in pool order
          history       \* historical_evidence
vars == <<candidates, history>>

(* agent.py make_evidence: an agent's evidence names the agent itself. *)
By(id, evidence) ==
  [k \in DOMAIN evidence |-> [agent_id       |-> id,
                              transformation |-> evidence[k].transformation,
                              confidence     |-> evidence[k].confidence]]

Init == candidates = <<>> /\ history = <<>>

(* Each agent answers a debate at most once. *)
Answer(id, output, evidence) ==
  /\ Len(candidates) < MaxCandidates
  /\ \A i \in DOMAIN candidates : candidates[i].agent_id # id
  /\ candidates' = Append(candidates,
                     [agent_id |-> id, output |-> output, evidence |-> By(id, evidence)])
  /\ UNCHANGED history

RecordEvidence(id, evidence) ==
  /\ evidence # <<>>
  /\ Len(history) + Len(evidence) <= MaxHistory
  /\ history' = history \o By(id, evidence)
  /\ UNCHANGED candidates

Next == \E id \in AgentIds, e \in Evidences :
          \/ \E o \in Outputs : Answer(id, o, e)
          \/ RecordEvidence(id, e)

Spec == Init /\ [][Next]_vars
-----------------------------------------------------------------------------
TheWinner(cs, h) == CHOOSE i \in Winners(cs, h) : TRUE
WinnerId(cs, h) == cs[TheWinner(cs, h)].agent_id
Strength(c) == evidence_strength(c.evidence)

(* The order candidates were dispatched in matters only between candidates *)
(* that tie on evidence and on trust: a disagreement reversed has the same *)
(* winner or an exact tie.                                                 *)
OrderOnlyBreaksTies ==
  candidates # <<>> /\ ~Agreement(candidates) =>
    LET backwards == Reverse(candidates)
        w == candidates[TheWinner(candidates, history)]
        v == backwards[TheWinner(backwards, history)]
    IN  \/ w = v
        \/ /\ SameValue(Strength(w), Strength(v))
           /\ SameValue(evaluate(w.agent_id, history, 0), evaluate(v.agent_id, history, 0))

(* RFC-0005 principle 3, never a vote: once candidates disagree, one more  *)
(* candidate whose evidence is no stronger than the winner's changes       *)
(* nothing, whatever answer it repeats, unless it ties.                    *)
NoVoteCounting ==
  [][LET n == Len(candidates')
     IN  n > Len(candidates) /\ Len(candidates) > 1 /\ ~Agreement(candidates)
         /\ Less(Strength(candidates'[n]), Strength(candidates[TheWinner(candidates, history)]))
         => WinnerId(candidates', history') = WinnerId(candidates, history)]_vars

(* New history moves a decided disagreement only between candidates that   *)
(* tie on the evidence of their own answers.                               *)
HistoryOnlyBreaksTies ==
  [][candidates' = candidates /\ candidates # <<>> =>
       LET w == candidates[TheWinner(candidates, history)]
           v == candidates[TheWinner(candidates, history')]
       IN  w = v \/ (~Agreement(candidates) /\ SameValue(Strength(w), Strength(v)))]_vars

(* An agent's score moves only when evidence of its own is recorded. *)
ScoreIsOwn ==
  [][\A id \in AgentIds :
       ~SameValue(evaluate(id, history, 0), evaluate(id, history', 0))
       => \E k \in (Len(history) + 1)..Len(history') : history'[k].agent_id = id]_vars

(* rank() agrees with a scan for the first maximal score, in whatever order *)
(* the agents are named.  route() ranks with such a scan and never calls   *)
(* rank(), which is given no recurrences: of agents with lessons on file    *)
(* the two may name different ones.                                        *)
RankHeadIsFirstBest ==
  \A ids \in SetToSeqs(AgentIds) : ids # <<>> =>
    LET scores == [k \in DOMAIN ids |-> evaluate(ids[k], history, 0)]
        best == FirstMaximal(scores, LAMBDA a, b : Less(b, a))
    IN  \E k \in best : rank(ids, history)[1] = ids[k]
=============================================================================
