-------------------------- MODULE ArbitrationProofs --------------------------
(***************************************************************************)
(* Proofs about ArbitrationSession, for any agents, answers and evidence   *)
(* and any number of candidates.                                           *)
(*                                                                         *)
(* Everything rests on two facts.  A strength and a score are fractions    *)
(* with a positive denominator, whose order is total up to ties; so a scan *)
(* of a list of them ends, at exactly one place.                           *)
(***************************************************************************)
EXTENDS ArbitrationSession, SequenceTheorems, FiniteSetTheorems, TLAPS

(***************************************************************************)
(* Sums.  SumFunction folds the domain in an order that CHOOSE fixes; a    *)
(* table of the sums over all its subsets satisfies the same equation.     *)
(***************************************************************************)
LEMMA LeastNat ==
  ASSUME NEW T, T \subseteq Nat, T # {}
  PROVE  \E n \in T : \A m \in T : n <= m
<1>1. PICK n \in T : \A m \in T : ~ (<<m, n>> \in OpToRel(<, Nat))
  BY NatLessThanWellFounded, WFMin
<1>2. \A m \in T : ~ (m < n)
  BY <1>1 DEF OpToRel
<1> QED
  BY <1>2

(* The least set, by its size, of a family of finite sets. *)
LEMMA SmallestSet ==
  ASSUME NEW Family, Family # {}, \A s \in Family : IsFiniteSet(s)
  PROVE  \E s \in Family : \A t \in Family : Cardinality(s) <= Cardinality(t)
<1> DEFINE sizes == {Cardinality(s) : s \in Family}
<1>1. sizes \subseteq Nat /\ sizes # {}
  BY FS_CardinalityType
<1>2. PICK n \in sizes : \A m \in sizes : n <= m
  BY <1>1, LeastNat
<1> QED BY <1>2

Some(s) == CHOOSE x \in s : TRUE

(* A table of the sums of f over the subsets of S. *)
Adds(f, S, table) ==
  table = [s \in SUBSET S |-> IF s = {} THEN 0 ELSE f[Some(s)] + table[s \ {Some(s)}]]

LEMMA SumIsTable ==
  ASSUME NEW f, NEW S
  PROVE  SumFunctionOnSet(f, S) = (CHOOSE table : Adds(f, S, table))[S]
BY DEF SumFunctionOnSet, FoldFunctionOnSet, MapThenFoldSet, Adds, Some

LEMMA TableExists ==
  ASSUME NEW f, NEW S, IsFiniteSet(S)
  PROVE  \E table : Adds(f, S, table)
<1> DEFINE Upto(n) == {s \in SUBSET S : Cardinality(s) <= n}
           Partial(n, t) == t = [s \in Upto(n) |-> IF s = {} THEN 0 ELSE f[Some(s)] + t[s \ {Some(s)}]]
           Missing == {n \in Nat : ~\E t : Partial(n, t)}
<1>1. \A s \in SUBSET S : /\ IsFiniteSet(s) /\ Cardinality(s) \in Nat
                          /\ Cardinality(s) <= Cardinality(S)
                          /\ Cardinality(s) = 0 <=> s = {}
  BY FS_Subset, FS_CardinalityType, FS_EmptySet
<1>2. \A s \in SUBSET S : s # {} => /\ s \ {Some(s)} \in SUBSET S
                                    /\ Cardinality(s \ {Some(s)}) = Cardinality(s) - 1
  BY <1>1, FS_RemoveElement DEF Some
<1>3. \E t : Partial(0, t)
  <2> DEFINE t == [s \in Upto(0) |-> 0]
  <2>1. \A s \in Upto(0) : s = {}
    BY <1>1
  <2>2. Partial(0, t)
    BY <2>1
  <2> QED BY <2>2
<1>4. ASSUME NEW n \in Nat, NEW t, Partial(n, t) PROVE \E u : Partial(n + 1, u)
  <2> DEFINE u == [s \in Upto(n + 1) |-> IF s = {} THEN 0 ELSE f[Some(s)] + t[s \ {Some(s)}]]
  <2>1. \A s \in Upto(n) : s \in Upto(n + 1) /\ u[s] = t[s]
    <3>1. \A s \in Upto(n) : s \in Upto(n + 1)
      BY <1>1
    <3>2. \A s \in Upto(n) : t[s] = IF s = {} THEN 0 ELSE f[Some(s)] + t[s \ {Some(s)}]
      <4> HIDE DEF Upto
      <4> QED BY <1>4
    <3>3. \A s \in Upto(n + 1) : u[s] = IF s = {} THEN 0 ELSE f[Some(s)] + t[s \ {Some(s)}]
      <4> HIDE DEF Upto
      <4> QED OBVIOUS
    <3> HIDE DEF u, Upto
    <3> QED BY <3>1, <3>2, <3>3
  <2>2. ASSUME NEW s \in Upto(n + 1), s # {} PROVE u[s \ {Some(s)}] = t[s \ {Some(s)}]
    <3>1. s \ {Some(s)} \in Upto(n)
      BY <1>1, <1>2, <2>2
    <3> QED BY <2>1, <3>1
  <2>3. Partial(n + 1, u)
    BY <2>2
  <2> QED BY <2>3
<1>5. Missing = {}
  <2> HIDE DEF Partial
  <2>1. ASSUME Missing # {} PROVE FALSE
    <3>1. PICK n \in Missing : \A m \in Missing : n <= m
      BY <2>1, LeastNat
    <3>2. n # 0 /\ n - 1 \in Nat
      BY <1>3, <3>1
    <3>3. n - 1 \notin Missing
      BY <3>1, <3>2
    <3>4. PICK t : Partial(n - 1, t)
      BY <3>2, <3>3
    <3>5. \E u : Partial(n - 1 + 1, u)
      BY <1>4, <3>2, <3>4
    <3> QED BY <3>1, <3>2, <3>5
  <2> QED BY <2>1
<1>6. Cardinality(S) \in Nat /\ Upto(Cardinality(S)) = SUBSET S
  BY <1>1
<1>7. PICK t : Partial(Cardinality(S), t)
  <2> HIDE DEF Partial
  <2> QED BY <1>5, <1>6
<1>8. Adds(f, S, t)
  <2> HIDE DEF Upto
  <2> QED BY <1>6, <1>7 DEF Adds
<1> QED BY <1>8

LEMMA TableEntry ==
  ASSUME NEW f, NEW S, NEW t, Adds(f, S, t), NEW s \in SUBSET S, s # {}
  PROVE  t[s] = f[Some(s)] + t[s \ {Some(s)}]
BY DEF Adds

(* A sum of percentages times tenths is at most a thousand for each term. *)
LEMMA SumBounds ==
  ASSUME NEW f, IsFiniteSet(DOMAIN f), \A x \in DOMAIN f : f[x] \in 0..1000
  PROVE  SumFunction(f) \in 0..(1000 * Cardinality(DOMAIN f))
<1> DEFINE S == DOMAIN f
           t == CHOOSE table : Adds(f, S, table)
           Bad == {s \in SUBSET S : t[s] \notin 0..(1000 * Cardinality(s))}
<1>1. Adds(f, S, t)
  BY TableExists
<1>2. SumFunction(f) = t[S]
  BY SumIsTable DEF SumFunction
<1> HIDE DEF t
<1>3. ASSUME Bad # {} PROVE FALSE
  <2>1. \A s \in Bad : IsFiniteSet(s)
    BY FS_Subset
  <2>2. PICK s \in Bad : \A r \in Bad : Cardinality(s) <= Cardinality(r)
    <3> HIDE DEF Bad
    <3> QED BY <1>3, <2>1, SmallestSet
  <2>3. s \in SUBSET S /\ IsFiniteSet(s) /\ t[s] \notin 0..(1000 * Cardinality(s))
    BY <2>1, <2>2
  <2>4. s # {}
    BY <1>1, <2>3, FS_EmptySet DEF Adds
  <2> DEFINE x == Some(s)
             rest == t[s \ {x}]
  <2>5. x \in s
    BY <2>4 DEF Some
  <2> HIDE DEF x
  <2>6. /\ s \ {x} \in SUBSET S /\ Cardinality(s \ {x}) = Cardinality(s) - 1
        /\ Cardinality(s) \in Nat
    BY <2>3, <2>5, FS_RemoveElement, FS_CardinalityType
  <2>7. s \ {x} \notin Bad
    <3> HIDE DEF Bad
    <3> QED BY <2>2, <2>6
  <2>8. rest \in 0..(1000 * (Cardinality(s) - 1))
    BY <2>6, <2>7
  <2>9. t[s] = f[x] + rest
    <3>1. t[s] = f[Some(s)] + t[s \ {Some(s)}]
      <4> HIDE DEF S, Bad
      <4> QED BY <1>1, <2>3, <2>4, TableEntry
    <3> QED BY <3>1 DEF x
  <2>10. f[x] \in 0..1000
    BY <2>3, <2>5
  <2> DEFINE size == Cardinality(s)
             fx == f[x]
             total == t[s]
  <2>11. size \in Nat /\ fx \in 0..1000 /\ rest \in 0..(1000 * (size - 1)) /\ total = fx + rest
    BY <2>6, <2>8, <2>9, <2>10
  <2>12. total \notin 0..(1000 * size)
    BY <2>3
  <2> HIDE DEF rest, size, fx, total
  <2>13. rest \in Int /\ rest <= 1000 * size - 1000
    BY <2>11
  <2> QED BY <2>11, <2>12, <2>13
<1>4. t[S] \in 0..(1000 * Cardinality(S))
  BY <1>3
<1> QED BY <1>2, <1>4

(***************************************************************************)
(* Fractions and their order.                                              *)
(***************************************************************************)
Fraction == [num : Int, den : Nat \ {0}]

LEMMA TimesPositive ==
  ASSUME NEW x \in Int, NEW y \in Int, NEW z \in Nat \ {0}
  PROVE  (x < y) <=> (x * z < y * z)
OBVIOUS

LEMMA ProductsAreInts ==
  ASSUME NEW a \in Fraction, NEW b \in Fraction
  PROVE  a.num * b.den \in Int /\ b.num * a.den \in Int
BY DEF Fraction

LEMMA LessAsymmetric ==
  ASSUME NEW a \in Fraction, NEW b \in Fraction, Less(a, b)
  PROVE  ~Less(b, a)
BY ProductsAreInts DEF Less

LEMMA SameIsNeither ==
  ASSUME NEW a \in Fraction, NEW b \in Fraction
  PROVE  SameValue(a, b) <=> ~Less(a, b) /\ ~Less(b, a)
BY ProductsAreInts DEF Less, SameValue

LEMMA LessBetween ==
  ASSUME NEW a \in Fraction, NEW b \in Fraction, NEW c \in Fraction, Less(a, b)
  PROVE  Less(a, c) \/ Less(c, b)
<1> DEFINE an == a.num ad == a.den bn == b.num bd == b.den cn == c.num cd == c.den
<1>1. /\ an \in Int /\ bn \in Int /\ cn \in Int
      /\ ad \in Nat \ {0} /\ bd \in Nat \ {0} /\ cd \in Nat \ {0}
  BY DEF Fraction
<1>2. an * bd < bn * ad
  BY DEF Less
<1>3. Less(a, c) <=> an * cd < cn * ad
  BY DEF Less
<1>4. Less(c, b) <=> cn * bd < bn * cd
  BY DEF Less
<1> HIDE DEF an, ad, bn, bd, cn, cd
<1>5. (an * bd) * cd < (bn * ad) * cd
  <2>1. an * bd \in Int /\ bn * ad \in Int
    BY <1>1
  <2> QED BY <1>1, <1>2, <2>1, TimesPositive
<1>6. (an * cd) * bd < (cn * ad) * bd \/ (cn * bd) * ad < (bn * cd) * ad
  <2>1. (an * bd) * cd = (an * cd) * bd /\ (bn * ad) * cd = (bn * cd) * ad
        /\ (cn * ad) * bd = (cn * bd) * ad
    BY <1>1
  <2>2. (an * cd) * bd \in Int /\ (bn * cd) * ad \in Int /\ (cn * ad) * bd \in Int
    BY <1>1
  <2> QED BY <1>5, <2>1, <2>2
<1>7. an * cd \in Int /\ cn * ad \in Int /\ cn * bd \in Int /\ bn * cd \in Int
  BY <1>1
<1>8. an * cd < cn * ad \/ cn * bd < bn * cd
  BY <1>1, <1>6, <1>7, TimesPositive
<1> QED BY <1>3, <1>4, <1>8

(* Evidence strength and, among its equals, trust. *)
Description == [strength : Fraction, trust : Fraction]

LEMMA OutranksAsymmetric ==
  ASSUME NEW d \in Description, NEW e \in Description, Outranks(d, e)
  PROVE  ~Outranks(e, d)
<1>1. /\ d.strength \in Fraction /\ d.trust \in Fraction
      /\ e.strength \in Fraction /\ e.trust \in Fraction
  BY DEF Description
<1> QED BY <1>1, LessAsymmetric, SameIsNeither DEF Outranks

LEMMA OutranksBetween ==
  ASSUME NEW d \in Description, NEW e \in Description, NEW m \in Description, Outranks(d, e)
  PROVE  Outranks(d, m) \/ Outranks(m, e)
<1>1. /\ d.strength \in Fraction /\ d.trust \in Fraction
      /\ e.strength \in Fraction /\ e.trust \in Fraction
      /\ m.strength \in Fraction /\ m.trust \in Fraction
  BY DEF Description
<1> QED BY <1>1, LessBetween, SameIsNeither DEF Outranks

(* Neither outranks the other: an exact tie on both. *)
LEMMA OutranksTies ==
  ASSUME NEW d \in Description, NEW e \in Description, ~Outranks(d, e), ~Outranks(e, d)
  PROVE  SameValue(d.strength, e.strength) /\ SameValue(d.trust, e.trust)
<1>1. /\ d.strength \in Fraction /\ d.trust \in Fraction
      /\ e.strength \in Fraction /\ e.trust \in Fraction
  BY DEF Description
<1> QED BY <1>1, SameIsNeither DEF Outranks

(***************************************************************************)
(* A scan for the first maximum of a list, by a relation on its places     *)
(* that orders them up to ties, ends at exactly one place.                 *)
(***************************************************************************)
FirstBest(i, n, R) == \A j \in 1..n : <<j, i>> \notin R /\ (j < i => <<i, j>> \in R)

LEMMA FirstBestExists ==
  ASSUME NEW n \in Nat \ {0}, NEW R,
         \A i, j \in 1..n : <<i, j>> \in R => <<j, i>> \notin R,
         \A i, j, k \in 1..n : <<i, j>> \in R => <<i, k>> \in R \/ <<k, j>> \in R
  PROVE  \E i \in 1..n : FirstBest(i, n, R)
<1> DEFINE Missing == {m \in 1..n : ~\E i \in 1..m : FirstBest(i, m, R)}
<1>1. ASSUME Missing # {} PROVE FALSE
  <2>1. PICK m \in Missing : \A k \in Missing : m <= k
    <3>1. Missing \subseteq Nat
      OBVIOUS
    <3> HIDE DEF Missing
    <3> QED BY <1>1, <3>1, LeastNat
  <2>2. m \in 1..n /\ ~\E i \in 1..m : FirstBest(i, m, R)
    BY <2>1
  <2>3. m # 1
    <3>1. ASSUME m = 1 PROVE FALSE
      <4>1. FirstBest(1, 1, R)
        BY DEF FirstBest
      <4> QED BY <2>2, <3>1, <4>1
    <3> QED BY <3>1
  <2> DEFINE l == m - 1
  <2>4. l \in 1..n /\ l \notin Missing /\ m = l + 1
    BY <2>1, <2>2, <2>3
  <2>5. PICK i \in 1..l : FirstBest(i, l, R)
    BY <2>4
  <2> HIDE DEF l, Missing
  <2>6. i \in 1..n /\ i \in 1..m /\ i < m
    BY <2>2, <2>4, <2>5
  <2>7. \A j \in 1..m : j = m \/ j \in 1..l
    BY <2>4, <2>2
  <2>8. \A j \in 1..l : <<j, i>> \notin R /\ (j < i => <<i, j>> \in R) /\ j \in 1..n
    BY <2>4, <2>5 DEF FirstBest
  <2>9. CASE <<m, i>> \in R
    <3>1. \A j \in 1..l : <<m, j>> \in R /\ <<j, m>> \notin R
      BY <2>2, <2>6, <2>8, <2>9
    <3>2. <<m, m>> \notin R
      BY <2>2
    <3>3. ASSUME NEW j \in 1..m PROVE <<j, m>> \notin R /\ (j < m => <<m, j>> \in R)
      <4>1. CASE j = m
        BY <3>2, <4>1
      <4>2. CASE j \in 1..l
        BY <3>1, <4>2
      <4> QED BY <2>7, <3>3, <4>1, <4>2
    <3>4. FirstBest(m, m, R)
      BY <3>3 DEF FirstBest
    <3>5. m \in 1..m
      BY <2>2
    <3> QED BY <2>2, <3>4, <3>5
  <2>10. CASE <<m, i>> \notin R
    <3>1. FirstBest(i, m, R)
      BY <2>6, <2>7, <2>8, <2>10 DEF FirstBest
    <3> QED BY <2>2, <2>6, <3>1
  <2> QED BY <2>9, <2>10
<1>2. n \notin Missing
  BY <1>1
<1> QED BY <1>2

LEMMA FirstBestUnique ==
  ASSUME NEW n \in Nat, NEW R, NEW i \in 1..n, NEW j \in 1..n,
         FirstBest(i, n, R), FirstBest(j, n, R)
  PROVE  i = j
<1>1. ~(i < j) /\ ~(j < i)
  BY DEF FirstBest
<1> QED BY <1>1

(***************************************************************************)
(* Strengths and scores.                                                   *)
(***************************************************************************)
(* A number between 0 and 1. *)
Share == {x \in Fraction : 0 <= x.num /\ x.num <= x.den}

Scorable(evidence) ==
  /\ IsFiniteSet(DOMAIN evidence)
  /\ \A k \in DOMAIN evidence : evidence[k].confidence \in 0..100

LEMMA ZeroShare == Zero \in Share /\ Zero \in Fraction
BY DEF Zero, Share, Fraction

LEMMA WeightBounds ==
  ASSUME NEW transformation PROVE Weight(transformation) \in 5..10
BY DEF Weight, TRANSFORMATION_WEIGHTS

LEMMA WeighedConfidence ==
  ASSUME NEW c \in 0..100, NEW w \in 5..10 PROVE c * w \in 0..1000
<1>1. c * w \in Int /\ 0 <= c * w /\ c * w <= c * 10
  OBVIOUS
<1> QED BY <1>1

LEMMA StrengthType ==
  ASSUME NEW evidence, Scorable(evidence)
  PROVE  evidence_strength(evidence) \in Share
<1> DEFINE n == Entries(evidence)
           weighed == [k \in DOMAIN evidence |->
                         evidence[k].confidence * Weight(evidence[k].transformation)]
           sum == WeightedSum(evidence)
<1>1. DOMAIN weighed = DOMAIN evidence /\ IsFiniteSet(DOMAIN evidence)
  BY DEF Scorable
<1>2. ASSUME NEW k \in DOMAIN evidence PROVE weighed[k] \in 0..1000
  <2>1. PICK c \in 0..100 : c = evidence[k].confidence
    BY DEF Scorable
  <2>2. PICK w : w = Weight(evidence[k].transformation)
    OBVIOUS
  <2>3. w \in 5..10
    BY <2>2, WeightBounds
  <2>4. c * w \in 0..1000
    BY <2>3, WeighedConfidence
  <2>5. weighed[k] = c * w
    BY <2>1, <2>2
  <2> QED BY <2>4, <2>5
<1>3. sum = SumFunction(weighed)
  BY DEF WeightedSum
<1> HIDE DEF weighed
<1>4. sum \in 0..(1000 * n)
  BY <1>1, <1>2, <1>3, SumBounds DEF Entries
<1>5. CASE DOMAIN evidence = {}
  BY <1>5, ZeroShare DEF evidence_strength
<1>6. CASE DOMAIN evidence # {}
  <2>1. n \in Nat /\ n # 0
    BY <1>1, <1>6, FS_CardinalityType, FS_EmptySet DEF Entries
  <2>2. evidence_strength(evidence) = [num |-> sum, den |-> 1000 * n]
    BY <1>6 DEF evidence_strength
  <2> HIDE DEF n, sum
  <2>3. 1000 * n \in Nat \ {0} /\ sum \in Int /\ 0 <= sum /\ sum <= 1000 * n
    BY <1>4, <2>1
  <2> QED BY <2>2, <2>3 DEF Share, Fraction
<1> QED BY <1>5, <1>6

LEMMA OwnIsScorable ==
  ASSUME NEW id, NEW evidence, Scorable(evidence)
  PROVE  Scorable(OwnEvidence(id, evidence))
<1> DEFINE places == {k \in DOMAIN evidence : evidence[k].agent_id = id}
<1>1. OwnEvidence(id, evidence) = [k \in places |-> evidence[k]]
  BY DEF OwnEvidence, RestrictValues, Restrict
<1>2. IsFiniteSet(places)
  BY FS_Subset DEF Scorable
<1> QED BY <1>1, <1>2 DEF Scorable

LEMMA ClampBounds ==
  ASSUME NEW n \in Int, NEW high \in Nat
  PROVE  Clamp(n, 0, high) \in Int /\ 0 <= Clamp(n, 0, high) /\ Clamp(n, 0, high) <= high
BY DEF Clamp

(* A score is between 0 and 1, whatever the evidence and the recurrences. *)
LEMMA ScoreType ==
  ASSUME NEW id, NEW evidence, Scorable(evidence), NEW recurrences \in Nat
  PROVE  evaluate(id, evidence, recurrences) \in Share
<1> DEFINE own == OwnEvidence(id, evidence)
           raw == evidence_strength(own)
           penalty == Clamp(recurrences * RECURRENCE_PENALTY_PER_LESSON, 0, MAX_RECURRENCE_PENALTY)
           less == raw.num - penalty * 10 * Entries(own)
<1>1. Scorable(own)
  BY OwnIsScorable
<1>2. raw \in Share
  BY <1>1, StrengthType
<1>3. CASE DOMAIN own = {}
  BY <1>3, ZeroShare DEF evaluate
<1>4. CASE DOMAIN own # {}
  <2>1. evaluate(id, evidence, recurrences) = [num |-> Clamp(less, 0, raw.den), den |-> raw.den]
    BY <1>4 DEF evaluate
  <2>2. Entries(own) \in Nat
    BY <1>1, FS_CardinalityType DEF Scorable, Entries
  <2>3. penalty \in Int
    BY DEF Clamp, RECURRENCE_PENALTY_PER_LESSON, MAX_RECURRENCE_PENALTY
  <2>4. raw.num \in Int /\ raw.den \in Nat \ {0}
    BY <1>2 DEF Share, Fraction
  <2> HIDE DEF penalty, raw, own
  <2>5. less \in Int
    <3>1. penalty * 10 * Entries(own) \in Int
      BY <2>2, <2>3
    <3> QED BY <2>4, <3>1
  <2> HIDE DEF less
  <2>6. /\ Clamp(less, 0, raw.den) \in Int /\ 0 <= Clamp(less, 0, raw.den)
        /\ Clamp(less, 0, raw.den) <= raw.den
    BY <2>4, <2>5, ClampBounds
  <2> QED BY <2>1, <2>4, <2>6 DEF Share, Fraction
<1> QED BY <1>3, <1>4

(***************************************************************************)
(* The session.                                                            *)
(***************************************************************************)
ENTRY == [agent_id : AgentIds, transformation : STRING, confidence : 0..100]
CANDIDATE == [agent_id : AgentIds, output : Outputs, evidence : Seq(ENTRY)]

TypeOK == candidates \in Seq(CANDIDATE) /\ history \in Seq(ENTRY)

LEMMA EvidenceType ==
  ASSUME NEW id \in AgentIds, NEW evidence \in Evidences
  PROVE  By(id, evidence) \in Seq(ENTRY) /\ Len(By(id, evidence)) = Len(evidence)
         /\ \A k \in 1..Len(By(id, evidence)) : By(id, evidence)[k].agent_id = id
<1>1. evidence \in Seq([transformation : STRING, confidence : 0..100])
  BY SessionAssumption
<1>2. /\ DOMAIN evidence = 1..Len(evidence) /\ Len(evidence) \in Nat
      /\ \A k \in 1..Len(evidence) : evidence[k] \in [transformation : STRING, confidence : 0..100]
  BY <1>1, LenProperties, ElementOfSeq
<1>3. By(id, evidence) \in [1..Len(evidence) -> ENTRY]
  BY <1>2 DEF By, ENTRY
<1>4. By(id, evidence) \in Seq(ENTRY) /\ Len(By(id, evidence)) = Len(evidence)
  BY <1>2, <1>3
<1> QED BY <1>2, <1>4 DEF By

LEMMA TypeStep == ASSUME TypeOK, [Next]_vars PROVE TypeOK'
<1>1. ASSUME NEW id \in AgentIds, NEW o \in Outputs, NEW e \in Evidences, Answer(id, o, e) PROVE TypeOK'
  <2>1. [agent_id |-> id, output |-> o, evidence |-> By(id, e)] \in CANDIDATE
    BY EvidenceType DEF CANDIDATE
  <2> QED BY <1>1, <2>1 DEF Answer, TypeOK
<1>2. ASSUME NEW id \in AgentIds, NEW e \in Evidences, RecordEvidence(id, e) PROVE TypeOK'
  BY <1>2, EvidenceType DEF RecordEvidence, TypeOK
<1>3. CASE UNCHANGED vars
  BY <1>3 DEF vars, TypeOK
<1> QED BY <1>1, <1>2, <1>3 DEF Next

(* Candidates and the history keep their types. *)
THEOREM TypeCorrect == Spec => []TypeOK
<1>1. Init => TypeOK
  BY DEF Init, TypeOK
<1>2. TypeOK /\ [Next]_vars => TypeOK'
  BY TypeStep
<1> QED BY <1>1, <1>2, PTL DEF Spec

LEMMA EntriesScorable ==
  ASSUME NEW evidence \in Seq(ENTRY) PROVE Scorable(evidence)
<1>1. DOMAIN evidence = 1..Len(evidence) /\ Len(evidence) \in Nat
      /\ \A k \in 1..Len(evidence) : evidence[k] \in ENTRY
  BY LenProperties, ElementOfSeq
<1>2. IsFiniteSet(1..Len(evidence))
  BY <1>1, FS_Interval
<1> QED BY <1>1, <1>2 DEF Scorable, ENTRY

LEMMA DescriptionType ==
  ASSUME NEW c \in CANDIDATE, NEW h \in Seq(ENTRY) PROVE Describe(c, h) \in Description
<1>1. c.evidence \in Seq(ENTRY)
  BY DEF CANDIDATE
<1>2. evidence_strength(c.evidence) \in Share
  BY <1>1, EntriesScorable, StrengthType
<1>3. evaluate(c.agent_id, h, 0) \in Share
  BY EntriesScorable, ScoreType
<1> QED BY <1>2, <1>3 DEF Describe, Description, Share

(* What a disagreement elects. *)
Elected(i, cs, h) ==
  \A j \in DOMAIN cs :
    /\ ~Outranks(Describe(cs[j], h), Describe(cs[i], h))
    /\ j < i => Outranks(Describe(cs[i], h), Describe(cs[j], h))

(* Which positions outrank which. *)
Ranked(cs, h) ==
  {p \in (1..Len(cs)) \X (1..Len(cs)) :
     Outranks(Describe(cs[p[1]], h), Describe(cs[p[2]], h))}

LEMMA RankedOrders ==
  ASSUME NEW cs \in Seq(CANDIDATE), NEW h \in Seq(ENTRY)
  PROVE  LET R == Ranked(cs, h) n == Len(cs)
         IN  /\ \A i, j \in 1..n : <<i, j>> \in R => <<j, i>> \notin R
             /\ \A i, j, k \in 1..n : <<i, j>> \in R => <<i, k>> \in R \/ <<k, j>> \in R
             /\ \A i \in 1..n : Elected(i, cs, h) <=> FirstBest(i, n, R)
<1>1. DOMAIN cs = 1..Len(cs)
  BY LenProperties
<1>2. \A i \in 1..Len(cs) : Describe(cs[i], h) \in Description
  BY ElementOfSeq, DescriptionType
<1>3. \A i, j \in 1..Len(cs) :
        <<i, j>> \in Ranked(cs, h) <=> Outranks(Describe(cs[i], h), Describe(cs[j], h))
  BY DEF Ranked
<1>4. \A i, j \in 1..Len(cs) : <<i, j>> \in Ranked(cs, h) => <<j, i>> \notin Ranked(cs, h)
  BY <1>2, <1>3, OutranksAsymmetric
<1>5. \A i, j, k \in 1..Len(cs) :
        <<i, j>> \in Ranked(cs, h) => <<i, k>> \in Ranked(cs, h) \/ <<k, j>> \in Ranked(cs, h)
  BY <1>2, <1>3, OutranksBetween
<1>6. \A i \in 1..Len(cs) : Elected(i, cs, h) <=> FirstBest(i, Len(cs), Ranked(cs, h))
  BY <1>1, <1>3 DEF Elected, FirstBest
<1> QED BY <1>4, <1>5, <1>6

(* arbitrate() elects exactly one candidate. *)
LEMMA WinnersAre ==
  ASSUME NEW cs \in Seq(CANDIDATE), NEW h \in Seq(ENTRY), ~Agreement(cs)
  PROVE  Winners(cs, h) = {i \in 1..Len(cs) : Elected(i, cs, h)}
<1>1. DOMAIN cs = 1..Len(cs)
  BY LenProperties
<1>2. DOMAIN Descriptions(cs, h) = 1..Len(cs)
      /\ \A i \in 1..Len(cs) : Descriptions(cs, h)[i] = Describe(cs[i], h)
  BY <1>1 DEF Descriptions
<1>3. Winners(cs, h) = FirstMaximal(Descriptions(cs, h), Outranks)
  BY DEF Winners
<1> QED BY <1>1, <1>2, <1>3 DEF FirstMaximal, Elected

LEMMA OneElected ==
  ASSUME NEW cs \in Seq(CANDIDATE), NEW h \in Seq(ENTRY), cs # <<>>, ~Agreement(cs)
  PROVE  /\ TheWinner(cs, h) \in 1..Len(cs)
         /\ Elected(TheWinner(cs, h), cs, h)
         /\ \A i \in 1..Len(cs) : Elected(i, cs, h) => i = TheWinner(cs, h)
<1> DEFINE R == Ranked(cs, h) n == Len(cs)
<1>1. n \in Nat \ {0}
  BY EmptySeq, LenProperties
<1>2. /\ \A i, j \in 1..n : <<i, j>> \in R => <<j, i>> \notin R
      /\ \A i, j, k \in 1..n : <<i, j>> \in R => <<i, k>> \in R \/ <<k, j>> \in R
      /\ \A i \in 1..n : Elected(i, cs, h) <=> FirstBest(i, n, R)
  BY RankedOrders
<1> HIDE DEF R, n
<1>3. \E i \in 1..n : FirstBest(i, n, R)
  BY <1>1, <1>2, FirstBestExists
<1>4. \A i, j \in 1..n : FirstBest(i, n, R) /\ FirstBest(j, n, R) => i = j
  BY <1>1, FirstBestUnique
<1>5. Winners(cs, h) = {i \in 1..n : Elected(i, cs, h)}
  BY WinnersAre DEF n
<1>6. TheWinner(cs, h) \in Winners(cs, h)
  BY <1>2, <1>3, <1>5 DEF TheWinner
<1>7. TheWinner(cs, h) \in 1..n /\ Elected(TheWinner(cs, h), cs, h)
  BY <1>5, <1>6
<1>8. \A i \in 1..n : Elected(i, cs, h) => i = TheWinner(cs, h)
  BY <1>2, <1>4, <1>7
<1> QED BY <1>7, <1>8 DEF n

LEMMA AgreementElects ==
  ASSUME NEW cs, NEW h, NEW g, Agreement(cs) PROVE TheWinner(cs, h) = TheWinner(cs, g)
BY DEF TheWinner, Winners

(***************************************************************************)
(* The order of the candidates.                                            *)
(***************************************************************************)
LEMMA Backwards ==
  ASSUME NEW cs \in Seq(CANDIDATE)
  PROVE  /\ Reverse(cs) \in Seq(CANDIDATE) /\ Len(Reverse(cs)) = Len(cs)
         /\ \A i \in 1..Len(cs) : /\ Len(cs) - i + 1 \in 1..Len(cs)
                                  /\ Reverse(cs)[i] = cs[Len(cs) - i + 1]
                                  /\ Reverse(cs)[Len(cs) - i + 1] = cs[i]
<1>1. Len(cs) \in Nat /\ \A i \in 1..Len(cs) : cs[i] \in CANDIDATE
  BY LenProperties, ElementOfSeq
<1>2. \A i \in 1..Len(cs) : Len(cs) - i + 1 \in 1..Len(cs) /\ Len(cs) - (Len(cs) - i + 1) + 1 = i
  BY <1>1
<1>3. \A i \in 1..Len(cs) : Reverse(cs)[i] = cs[Len(cs) - i + 1]
  BY DEF Reverse
<1>4. Reverse(cs) \in [1..Len(cs) -> CANDIDATE]
  BY <1>1, <1>2 DEF Reverse
<1>5. Reverse(cs) \in Seq(CANDIDATE) /\ Len(Reverse(cs)) = Len(cs)
  BY <1>1, <1>4
<1> QED BY <1>2, <1>3, <1>5

LEMMA BackwardsDisagrees ==
  ASSUME NEW cs \in Seq(CANDIDATE), ~Agreement(cs) PROVE ~Agreement(Reverse(cs))
<1>1. DOMAIN cs = 1..Len(cs) /\ DOMAIN Reverse(cs) = 1..Len(cs)
  BY Backwards, LenProperties
<1>2. PICK i \in 1..Len(cs), j \in 1..Len(cs) : cs[i].output # cs[j].output
  BY <1>1 DEF Agreement
<1> DEFINE k == Len(cs) - i + 1
           l == Len(cs) - j + 1
<1>3. /\ k \in 1..Len(cs) /\ Reverse(cs)[k] = cs[i]
      /\ l \in 1..Len(cs) /\ Reverse(cs)[l] = cs[j]
  BY Backwards
<1> HIDE DEF k, l
<1> QED BY <1>1, <1>2, <1>3 DEF Agreement

LEMMA OrderStep == ASSUME TypeOK PROVE OrderOnlyBreaksTies
<1> SUFFICES ASSUME candidates # <<>>, ~Agreement(candidates)
             PROVE  LET backwards == Reverse(candidates)
                        w == candidates[TheWinner(candidates, history)]
                        v == backwards[TheWinner(backwards, history)]
                    IN  /\ SameValue(Strength(w), Strength(v))
                        /\ SameValue(evaluate(w.agent_id, history, 0), evaluate(v.agent_id, history, 0))
  BY DEF OrderOnlyBreaksTies
<1> DEFINE cs == candidates
           back == Reverse(cs)
           n == Len(cs)
           w == TheWinner(cs, history)
           v == TheWinner(back, history)
<1>1. cs \in Seq(CANDIDATE) /\ history \in Seq(ENTRY) /\ back \in Seq(CANDIDATE)
  BY Backwards DEF TypeOK
<1>2. Len(back) = n /\ n \in Nat \ {0} /\ back # <<>>
  BY <1>1, Backwards, LenProperties, EmptySeq
<1>3. ~Agreement(back)
  BY <1>1, BackwardsDisagrees
<1>4. w \in 1..n /\ Elected(w, cs, history)
  BY <1>1, OneElected
<1>5. v \in 1..n /\ Elected(v, back, history)
  BY <1>1, <1>2, <1>3, OneElected
<1>6. DOMAIN cs = 1..n /\ DOMAIN back = 1..n
  BY <1>1, <1>2, LenProperties
<1> HIDE DEF w, v, back, n, cs
<1>7. n - v + 1 \in 1..n /\ back[v] = cs[n - v + 1] /\ n - w + 1 \in 1..n /\ back[n - w + 1] = cs[w]
  BY <1>1, <1>4, <1>5, Backwards DEF back, n
<1>8. ~Outranks(Describe(back[v], history), Describe(cs[w], history))
  BY <1>4, <1>6, <1>7 DEF Elected
<1>9. ~Outranks(Describe(cs[w], history), Describe(back[v], history))
  BY <1>5, <1>6, <1>7 DEF Elected
<1>10. cs[w] \in CANDIDATE /\ back[v] \in CANDIDATE
  BY <1>1, <1>2, <1>4, <1>5, ElementOfSeq DEF n
<1>11. Describe(cs[w], history) \in Description /\ Describe(back[v], history) \in Description
  BY <1>1, <1>10, DescriptionType
<1>12. /\ SameValue(Describe(cs[w], history).strength, Describe(back[v], history).strength)
       /\ SameValue(Describe(cs[w], history).trust, Describe(back[v], history).trust)
  BY <1>8, <1>9, <1>11, OutranksTies
<1> QED BY <1>12 DEF Describe, Strength, cs, back, w, v

(* A disagreement reversed elects the same candidate or an exact tie. *)
THEOREM OrderOnlyBreaksTiesHolds == Spec => []OrderOnlyBreaksTies
BY TypeCorrect, OrderStep, PTL

(***************************************************************************)
(* One more candidate.                                                     *)
(***************************************************************************)
LEMMA VoteStep ==
  ASSUME TypeOK, TypeOK', [Next]_vars, Len(candidates') > Len(candidates), Len(candidates) > 1,
         ~Agreement(candidates),
         Less(Strength(candidates'[Len(candidates')]),
              Strength(candidates[TheWinner(candidates, history)]))
  PROVE  WinnerId(candidates', history') = WinnerId(candidates, history)
<1> DEFINE cs == candidates
           n == Len(cs)
           w == TheWinner(cs, history)
<1>1. cs \in Seq(CANDIDATE) /\ history \in Seq(ENTRY) /\ n \in Nat /\ cs # <<>>
  BY LenProperties DEF TypeOK
<1>2. PICK c \in CANDIDATE : candidates' = Append(cs, c) /\ UNCHANGED history
  <2>1. candidates' # candidates
    BY <1>1
  <2>2. PICK id \in AgentIds, e \in Evidences :
          \/ \E o \in Outputs : Answer(id, o, e)
          \/ RecordEvidence(id, e)
    BY <2>1 DEF Next, vars
  <2>3. PICK o \in Outputs : Answer(id, o, e)
    BY <2>1, <2>2 DEF RecordEvidence
  <2>4. [agent_id |-> id, output |-> o, evidence |-> By(id, e)] \in CANDIDATE
    BY EvidenceType DEF CANDIDATE
  <2> QED BY <2>3, <2>4 DEF Answer
<1> DEFINE more == Append(cs, c)
<1>3. /\ more \in Seq(CANDIDATE) /\ Len(more) = n + 1 /\ more # <<>>
      /\ \A i \in 1..n : more[i] = cs[i]
      /\ more[n + 1] = c
  BY <1>1, AppendProperties
<1>4. w \in 1..n /\ Elected(w, cs, history)
  BY <1>1, OneElected
<1>5. DOMAIN cs = 1..n /\ DOMAIN more = 1..(n + 1)
  BY <1>1, <1>3, LenProperties
<1>6. Less(Strength(c), Strength(cs[w]))
  BY <1>2, <1>3
<1> HIDE DEF w, more, n, cs
<1>7. ~Agreement(more)
  BY <1>1, <1>3, <1>5 DEF Agreement, cs
<1>8. c \in CANDIDATE /\ cs[w] \in CANDIDATE
  BY <1>1, <1>4, ElementOfSeq DEF n
<1>9. ~Outranks(Describe(c, history), Describe(cs[w], history))
  <2>1. Describe(c, history) \in Description /\ Describe(cs[w], history) \in Description
    BY <1>1, <1>8, DescriptionType
  <2>2. /\ Describe(c, history).strength = Strength(c)
        /\ Describe(cs[w], history).strength = Strength(cs[w])
    BY DEF Describe, Strength
  <2>3. Strength(c) \in Fraction /\ Strength(cs[w]) \in Fraction
    BY <2>1, <2>2 DEF Description
  <2> QED BY <1>6, <2>2, <2>3, LessAsymmetric, SameIsNeither DEF Outranks
<1>10. Elected(w, more, history)
  <2>1. w \in 1..n /\ more[w] = cs[w]
    BY <1>3, <1>4
  <2>2. ASSUME NEW j \in 1..(n + 1)
        PROVE  /\ ~Outranks(Describe(more[j], history), Describe(more[w], history))
               /\ j < w => Outranks(Describe(more[w], history), Describe(more[j], history))
    <3>1. CASE j = n + 1
      <4>1. ~(j < w)
        BY <1>1, <2>1, <3>1 DEF n
      <4> QED BY <1>3, <1>9, <2>1, <3>1, <4>1
    <3>2. CASE j # n + 1
      <4>1. j \in 1..n
        BY <1>1, <2>2, <3>2 DEF n
      <4> QED BY <1>3, <1>4, <1>5, <2>1, <4>1 DEF Elected
    <3> QED BY <3>1, <3>2
  <2> QED BY <1>5, <2>2 DEF Elected
<1>11. w = TheWinner(more, history)
  <2>1. w \in 1..Len(more)
    BY <1>1, <1>3, <1>4 DEF n
  <2> QED BY <1>1, <1>3, <1>7, <1>10, <2>1, OneElected
<1>12. candidates' = more /\ history' = history
  BY <1>2 DEF more
<1>13. WinnerId(more, history) = cs[w].agent_id
  BY <1>3, <1>4, <1>11 DEF WinnerId
<1> QED BY <1>12, <1>13 DEF WinnerId, w, cs

(* Never a vote: once candidates disagree, one more candidate with weaker  *)
(* evidence than the winner's changes nothing, whatever answer it repeats. *)
THEOREM NoVoteCountingHolds == Spec => NoVoteCounting
<1>1. TypeOK /\ TypeOK' /\ [Next]_vars =>
        [LET n == Len(candidates')
         IN  n > Len(candidates) /\ Len(candidates) > 1 /\ ~Agreement(candidates)
             /\ Less(Strength(candidates'[n]), Strength(candidates[TheWinner(candidates, history)]))
             => WinnerId(candidates', history') = WinnerId(candidates, history)]_vars
  BY VoteStep
<1> QED BY <1>1, TypeCorrect, PTL DEF Spec, NoVoteCounting

(***************************************************************************)
(* New history.                                                            *)
(***************************************************************************)
LEMMA HistoryStep ==
  ASSUME TypeOK, TypeOK', candidates' = candidates, candidates # <<>>
  PROVE  LET w == candidates[TheWinner(candidates, history)]
             v == candidates[TheWinner(candidates, history')]
         IN  w = v \/ (~Agreement(candidates) /\ SameValue(Strength(w), Strength(v)))
<1> DEFINE cs == candidates
           w == TheWinner(cs, history)
           v == TheWinner(cs, history')
<1>1. CASE Agreement(cs)
  <2>1. w = v
    BY <1>1, AgreementElects
  <2> QED BY <2>1
<1>2. CASE ~Agreement(cs)
  <2>1. cs \in Seq(CANDIDATE) /\ history \in Seq(ENTRY) /\ history' \in Seq(ENTRY)
    BY DEF TypeOK
  <2>2. w \in 1..Len(cs) /\ Elected(w, cs, history)
    BY <1>2, <2>1, OneElected
  <2>3. v \in 1..Len(cs) /\ Elected(v, cs, history')
    BY <1>2, <2>1, OneElected
  <2> HIDE DEF w, v
  <2>4. DOMAIN cs = 1..Len(cs) /\ cs[w] \in CANDIDATE /\ cs[v] \in CANDIDATE
    BY <2>1, <2>2, <2>3, LenProperties, ElementOfSeq
  <2>5. ~Outranks(Describe(cs[v], history), Describe(cs[w], history))
    BY <2>2, <2>3, <2>4 DEF Elected
  <2>6. ~Outranks(Describe(cs[w], history'), Describe(cs[v], history'))
    BY <2>2, <2>3, <2>4 DEF Elected
  <2>7. ~Less(Strength(cs[w]), Strength(cs[v])) /\ ~Less(Strength(cs[v]), Strength(cs[w]))
    BY <2>5, <2>6 DEF Outranks, Describe, Strength
  <2>8. Strength(cs[w]) \in Fraction /\ Strength(cs[v]) \in Fraction
    <3>1. Describe(cs[w], history) \in Description /\ Describe(cs[v], history) \in Description
      BY <2>1, <2>4, DescriptionType
    <3>2. /\ Describe(cs[w], history).strength = Strength(cs[w])
          /\ Describe(cs[v], history).strength = Strength(cs[v])
      BY DEF Describe, Strength
    <3> QED BY <3>1, <3>2 DEF Description
  <2>9. SameValue(Strength(cs[w]), Strength(cs[v]))
    BY <2>7, <2>8, SameIsNeither
  <2> QED BY <1>2, <2>9 DEF w, v
<1> QED BY <1>1, <1>2

(* New history moves a decided disagreement only between candidates that   *)
(* tie on the evidence of their own answers.                               *)
THEOREM HistoryOnlyBreaksTiesHolds == Spec => HistoryOnlyBreaksTies
<1>1. TypeOK /\ TypeOK' /\ [Next]_vars =>
        [candidates' = candidates /\ candidates # <<>> =>
           LET w == candidates[TheWinner(candidates, history)]
               v == candidates[TheWinner(candidates, history')]
           IN  w = v \/ (~Agreement(candidates) /\ SameValue(Strength(w), Strength(v)))]_vars
  BY HistoryStep
<1> QED BY <1>1, TypeCorrect, PTL DEF Spec, HistoryOnlyBreaksTies

(***************************************************************************)
(* Scores.                                                                 *)
(***************************************************************************)
LEMMA OthersEvidence ==
  ASSUME NEW h \in Seq(ENTRY), NEW more \in Seq(ENTRY), NEW id,
         \A k \in (Len(h) + 1)..Len(h \o more) : (h \o more)[k].agent_id # id
  PROVE  OwnEvidence(id, h \o more) = OwnEvidence(id, h)
<1> DEFINE all == h \o more
           before == {k \in DOMAIN h : h[k].agent_id = id}
           after == {k \in DOMAIN all : all[k].agent_id = id}
<1>1. /\ Len(h) \in Nat /\ Len(more) \in Nat /\ DOMAIN h = 1..Len(h)
      /\ DOMAIN all = 1..Len(all) /\ Len(all) = Len(h) + Len(more)
      /\ \A k \in 1..Len(h) : all[k] = h[k]
  BY ConcatProperties, LenProperties
<1> HIDE DEF all
<1>2. \A k \in 1..Len(all) : k \in 1..Len(h) \/ k \in (Len(h) + 1)..Len(all)
  BY <1>1
<1>3. after = before
  BY <1>1, <1>2 DEF all
<1>4. \A k \in before : all[k] = h[k]
  BY <1>1
<1>5. OwnEvidence(id, h) = [k \in before |-> h[k]] /\ OwnEvidence(id, all) = [k \in after |-> all[k]]
  BY DEF OwnEvidence, RestrictValues, Restrict
<1> HIDE DEF before, after
<1>6. [k \in after |-> all[k]] = [k \in before |-> h[k]]
  BY <1>3, <1>4
<1> QED BY <1>5, <1>6 DEF all

LEMMA ScoreStep ==
  ASSUME TypeOK, [Next]_vars, NEW id \in AgentIds,
         ~SameValue(evaluate(id, history, 0), evaluate(id, history', 0))
  PROVE  \E k \in (Len(history) + 1)..Len(history') : history'[k].agent_id = id
<1>1. history' # history
  BY DEF SameValue
<1>2. PICK other \in AgentIds, e \in Evidences : RecordEvidence(other, e)
  BY <1>1 DEF Next, vars, Answer
<1>3. history' = history \o By(other, e) /\ history \in Seq(ENTRY) /\ By(other, e) \in Seq(ENTRY)
  BY <1>2, EvidenceType DEF RecordEvidence, TypeOK
<1>4. ASSUME \A k \in (Len(history) + 1)..Len(history') : history'[k].agent_id # id PROVE FALSE
  <2>1. OwnEvidence(id, history') = OwnEvidence(id, history)
    BY <1>3, <1>4, OthersEvidence
  <2>2. evaluate(id, history', 0) = evaluate(id, history, 0)
    BY <2>1 DEF evaluate
  <2> QED BY <2>2 DEF SameValue
<1> QED BY <1>4

(* An agent's score moves only when evidence of its own is recorded. *)
THEOREM ScoreIsOwnHolds == Spec => ScoreIsOwn
<1>1. TypeOK /\ [Next]_vars =>
        [\A id \in AgentIds :
           ~SameValue(evaluate(id, history, 0), evaluate(id, history', 0))
           => \E k \in (Len(history) + 1)..Len(history') : history'[k].agent_id = id]_vars
  BY ScoreStep
<1> QED BY <1>1, TypeCorrect, PTL DEF Spec, ScoreIsOwn

(***************************************************************************)
(* Ranking.                                                                *)
(***************************************************************************)
LEMMA RankHead ==
  ASSUME NEW n \in Nat \ {0}, NEW ids \in [1..n -> AgentIds], NEW h \in Seq(ENTRY)
  PROVE  LET scores == [k \in 1..n |-> evaluate(ids[k], h, 0)]
             best == FirstMaximal(scores, LAMBDA a, b : Less(b, a))
         IN  \E k \in best : rank(ids, h)[1] = ids[k]
<1> DEFINE score == [k \in 1..n |-> evaluate(ids[k], h, 0)]
           R == {p \in (1..n) \X (1..n) : Less(score[p[2]], score[p[1]])}
           Before(i, j) == \/ Less(score[j], score[i])
                           \/ SameValue(score[i], score[j]) /\ i < j
           Ahead(i) == {j \in 1..n : Before(j, i)}
           head == CHOOSE i \in 1..n : Cardinality(Ahead(i)) = 0
<1>1. DOMAIN ids = 1..n /\ DOMAIN score = 1..n
  OBVIOUS
<1>2. \A i \in 1..n : score[i] \in Fraction
  BY EntriesScorable, ScoreType DEF Share
<1>3. \A i, j \in 1..n : <<i, j>> \in R <=> Less(score[j], score[i])
  OBVIOUS
<1>4. rank(ids, h)[1] = ids[head]
  <2>1. rank(ids, h)[1] = ids[CHOOSE i \in 1..n : Cardinality({j \in 1..n : Before(j, i)}) = 1 - 1]
    BY <1>1 DEF rank, SortedBy
  <2> QED BY <2>1
<1> HIDE DEF score, R
<1>5. \A i, j \in 1..n : <<i, j>> \in R => <<j, i>> \notin R
  BY <1>2, <1>3, LessAsymmetric
<1>6. \A i, j, k \in 1..n : <<i, j>> \in R => <<i, k>> \in R \/ <<k, j>> \in R
  BY <1>2, <1>3, LessBetween
<1>7. \A i \in 1..n : FirstBest(i, n, R) <=> Ahead(i) = {}
  <2>1. \A i, j \in 1..n : SameValue(score[j], score[i]) <=> <<i, j>> \notin R /\ <<j, i>> \notin R
    BY <1>2, <1>3, SameIsNeither
  <2>2. \A i, j \in 1..n : Before(j, i) <=> <<j, i>> \in R \/ (<<i, j>> \notin R /\ j < i)
    BY <1>3, <2>1
  <2> HIDE DEF Before
  <2> QED BY <2>2 DEF FirstBest
<1>8. \A i \in 1..n : Cardinality(Ahead(i)) = 0 <=> Ahead(i) = {}
  <2>1. IsFiniteSet(1..n)
    BY FS_Interval
  <2>2. \A i \in 1..n : Ahead(i) \in SUBSET (1..n)
    OBVIOUS
  <2> HIDE DEF Ahead
  <2> QED BY <2>1, <2>2, FS_Subset, FS_EmptySet
<1>9. \E i \in 1..n : FirstBest(i, n, R)
  BY <1>5, <1>6, FirstBestExists
<1> HIDE DEF Ahead
<1>10. head \in 1..n /\ FirstBest(head, n, R)
  BY <1>7, <1>8, <1>9
<1> HIDE DEF head
<1>11. head \in FirstMaximal(score, LAMBDA a, b : Less(b, a))
  BY <1>1, <1>3, <1>10 DEF FirstMaximal, FirstBest
<1> QED BY <1>4, <1>11 DEF score

LEMMA RankStep == ASSUME TypeOK PROVE RankHeadIsFirstBest
<1> SUFFICES ASSUME NEW ids \in SetToSeqs(AgentIds), ids # <<>>
             PROVE  LET scores == [k \in DOMAIN ids |-> evaluate(ids[k], history, 0)]
                        best == FirstMaximal(scores, LAMBDA a, b : Less(b, a))
                    IN  \E k \in best : rank(ids, history)[1] = ids[k]
  BY DEF RankHeadIsFirstBest
<1> DEFINE n == Cardinality(AgentIds)
<1>1. n \in Nat
  BY SessionAssumption, FS_CardinalityType
<1>2. ids \in [1..n -> AgentIds] /\ DOMAIN ids = 1..n
  BY DEF SetToSeqs
<1> HIDE DEF n
<1>3. n # 0
  <2>1. ids \in Seq(AgentIds) /\ Len(ids) = n
    BY <1>1, <1>2
  <2> QED BY <2>1, EmptySeq
<1>4. n \in Nat \ {0} /\ history \in Seq(ENTRY)
  BY <1>1, <1>3 DEF TypeOK
<1>5. LET scores == [k \in 1..n |-> evaluate(ids[k], history, 0)]
          best == FirstMaximal(scores, LAMBDA a, b : Less(b, a))
      IN  \E k \in best : rank(ids, history)[1] = ids[k]
  BY <1>2, <1>4, RankHead, Zenon
<1> QED BY <1>2, <1>5, Zenon

(* In whatever order the agents are named, rank() puts the first agent of   *)
(* maximal score, the one route() would take, at the head.                 *)
THEOREM RankHeadIsFirstBestHolds == Spec => []RankHeadIsFirstBest
BY TypeCorrect, RankStep, PTL
=============================================================================
