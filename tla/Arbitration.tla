----------------------------- MODULE Arbitration -----------------------------
(***************************************************************************)
(* nexus.arbitration: which of several answers to one task is kept.        *)
(*                                                                         *)
(* A candidate is a record [agent_id, output, evidence], a list of them a  *)
(* function over a set of positions: a sequence, or what is left of one    *)
(* when some of its elements are dropped and the others keep their place.  *)
(***************************************************************************)
EXTENDS Trust

(* ArbitrationEngine._describe.  An empty history scores every candidate   *)
(* zero, and lessons-learned recurrences play no part here.                *)
Describe(candidate, historical_evidence) ==
  [strength |-> evidence_strength(candidate.evidence),
   trust    |-> evaluate(candidate.agent_id, historical_evidence, 0)]

(* Mutant: trust is compared before evidence. *)
Outranks_trust_first(d, e) ==
  \/ Less(e.trust, d.trust)
  \/ SameValue(e.trust, d.trust) /\ Less(e.strength, d.strength)

(* The key of max(): evidence strength, then trust. *)
Outranks(d, e) ==
  \/ Less(e.strength, d.strength)
  \/ SameValue(e.strength, d.strength) /\ Less(e.trust, d.trust)

Agreement(candidates) ==
  \A i, j \in DOMAIN candidates : candidates[i].output = candidates[j].output

Descriptions(candidates, historical_evidence) ==
  [i \in DOMAIN candidates |-> Describe(candidates[i], historical_evidence)]

First(positions) == {i \in positions : \A j \in positions : i <= j}

(* Mutant: the answer most candidates gave wins. *)
Winners_majority(candidates, historical_evidence) ==
  LET votes == [i \in DOMAIN candidates |->
                  Cardinality({j \in DOMAIN candidates : candidates[j].output = candidates[i].output})]
  IN  FirstMaximal(votes, LAMBDA m, n : m > n)

(* Mutant: a disagreement is settled like an agreement. *)
Winners_first(candidates, historical_evidence) == First(DOMAIN candidates)

(* The position arbitrate() elects: the first candidate when all agree,    *)
(* otherwise the first maximal one.  A singleton (checked by               *)
(* ArbitrationSession) when there is a candidate at all.                   *)
Winners(candidates, historical_evidence) ==
  IF Agreement(candidates)
  THEN First(DOMAIN candidates)
  ELSE FirstMaximal(Descriptions(candidates, historical_evidence), Outranks)
=============================================================================
