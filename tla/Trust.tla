-------------------------------- MODULE Trust --------------------------------
(***************************************************************************)
(* nexus.trust: the score an agent earns from the Evidence recorded so     *)
(* far.                                                                    *)
(*                                                                         *)
(* A confidence is a whole percentage and a transformation weight a number *)
(* of tenths, so that a mean is an exact fraction [num, den]; the code     *)
(* computes the same quantities in floating point.                         *)
(*                                                                         *)
(* A list of evidence is a function over its positions: a sequence, or what *)
(* is left of one when some entries are dropped and the others keep their  *)
(* place.                                                                  *)
(***************************************************************************)
EXTENDS Integers, FiniteSets, Functions

(* trust.py:24 TRANSFORMATION_WEIGHTS, in tenths. *)
TRANSFORMATION_WEIGHTS ==
  [extracted_verbatim |-> 10, computed |-> 9, summarized |-> 7, inferred |-> 5]

(* weights.get(e.transformation, 0.5) *)
Weight(transformation) ==
  IF transformation \in DOMAIN TRANSFORMATION_WEIGHTS
  THEN TRANSFORMATION_WEIGHTS[transformation] ELSE 5

RECURRENCE_PENALTY_PER_LESSON == 5    \* percent
MAX_RECURRENCE_PENALTY == 50          \* percent

Zero == [num |-> 0, den |-> 1]

Less(a, b) == a.num * b.den < b.num * a.den
SameValue(a, b) == a.num * b.den = b.num * a.den

WeightedSum(evidence) ==
  SumFunction([k \in DOMAIN evidence |->
                 evidence[k].confidence * Weight(evidence[k].transformation)])

Entries(evidence) == Cardinality(DOMAIN evidence)

evidence_strength(evidence) ==
  IF DOMAIN evidence = {} THEN Zero
  ELSE [num |-> WeightedSum(evidence), den |-> 1000 * Entries(evidence)]

(* Mutant: everybody's evidence is scored. *)
OwnEvidence_all(id, evidence) == evidence

OwnEvidence(id, evidence) == RestrictValues(evidence, LAMBDA e : e.agent_id = id)

Clamp(n, low, high) == IF n < low THEN low ELSE IF n > high THEN high ELSE n

(* TrustEvaluator.evaluate(...).score: the mean strength of the agent's own *)
(* evidence, less the capped penalty, clamped to [0, 1].                    *)
evaluate(id, evidence, recurrences) ==
  LET own == OwnEvidence(id, evidence)
      raw == evidence_strength(own)
      penalty == Clamp(recurrences * RECURRENCE_PENALTY_PER_LESSON, 0, MAX_RECURRENCE_PENALTY)
  IN  IF DOMAIN own = {} THEN Zero
      ELSE [num |-> Clamp(raw.num - penalty * 10 * Entries(own), 0, raw.den), den |-> raw.den]

(* The positions a scan for the first strict maximum ends at (exactly one  *)
(* unless the sequence is empty): nothing beats it and it beats everything *)
(* before it.                                                              *)
FirstMaximal(s, Beats(_, _)) ==
  {i \in DOMAIN s : \A j \in DOMAIN s : /\ ~Beats(s[j], s[i])
                                        /\ j < i => Beats(s[i], s[j])}

(* A stable sort: each element stands behind those that come before it. *)
SortedBy(s, Before(_, _)) ==
  [k \in DOMAIN s |->
     s[CHOOSE i \in DOMAIN s : Cardinality({j \in DOMAIN s : Before(j, i)}) = k - 1]]

(* Mutant: worst score first. *)
rank_ascending(ids, evidence) ==
  LET score == [i \in DOMAIN ids |-> evaluate(ids[i], evidence, 0)]
  IN  SortedBy(ids, LAMBDA i, j : \/ Less(score[i], score[j])
                                  \/ SameValue(score[i], score[j]) /\ i < j)

(* TrustEvaluator.rank: best score first, agents of the same score in the  *)
(* order they were named.                                                  *)
rank(ids, evidence) ==
  LET score == [i \in DOMAIN ids |-> evaluate(ids[i], evidence, 0)]
  IN  SortedBy(ids, LAMBDA i, j : \/ Less(score[j], score[i])
                                  \/ SameValue(score[i], score[j]) /\ i < j)
=============================================================================
