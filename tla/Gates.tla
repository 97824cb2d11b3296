-------------------------------- MODULE Gates --------------------------------
(***************************************************************************)
(* nexus.policy and nexus.conflict_policy: the two gates a call passes,    *)
(* one on the declared risk of a task before any handler runs, one on the  *)
(* disagreement of a verdict before it is handed back.  Each answers       *)
(* "allow", "block", or "ask": the configured approver, a callback of the  *)
(* embedding program, has the last word.                                   *)
(***************************************************************************)
CONSTANTS HasPolicy,            \* NexusCore(policy=...) is given
          RiskPolicy,           \* PolicyEngine.risk_policy: a function from some risks to actions
          HasApprover,          \* PolicyEngine(approver=...)
          HasConflictPolicy,    \* NexusCore(conflict_policy=...)
          HasConflictApprover   \* ConflictPolicy(approver=...)

ASSUME GatesAssumption ==
  /\ {HasPolicy, HasApprover, HasConflictPolicy, HasConflictApprover} \subseteq BOOLEAN
  /\ \A risk \in DOMAIN RiskPolicy : RiskPolicy[risk] \in {"allow", "block", "require_approval"}

(* An unmapped risk requires approval. *)
RiskAction(risk) ==
  IF risk \in DOMAIN RiskPolicy THEN RiskPolicy[risk] ELSE "require_approval"

(* PolicyEngine.evaluate, up to the approver's answer. *)
RiskGate(risk) ==
  CASE ~HasPolicy -> "allow"
    [] HasPolicy /\ RiskAction(risk) = "require_approval" ->
         IF HasApprover THEN "ask" ELSE "block"
    [] OTHER -> RiskAction(risk)

(* ConflictPolicy.evaluate, up to the approver's answer. *)
ConflictGate(agreement) ==
  CASE ~HasConflictPolicy \/ agreement -> "allow"
    [] OTHER -> IF HasConflictApprover THEN "ask" ELSE "block"
=============================================================================
