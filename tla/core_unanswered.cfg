CONSTANTS
  agA = agA  agB = agB  agB2 = agB2  agD = agD
  idA = idA  idB = idB  idD = idD
  work = work
  low = low  high = high  banned = banned
  t1 = t1  t2 = t2
  yes = yes  no = no
  CORE = CORE
  None = None
  Agents = {agA, agB, agB2, agD}
  AgentIds = {idA, idB, idD}
  IdOf <- MCIdOf
  Objectives = {work}
  Outputs = {yes, no}
  Calls = {c1, c2}
  Setups <- TwoAble
  Joins = {}
  Leaves = {}
  LateHandlers = {}
  Requests <- MixedRequests
  Returns <- WrongReturns
  Recurrences <- NoRecurrences
  LessonsMayRaise = FALSE
  HasPolicy = FALSE
  RiskPolicy <- MCRiskPolicy
  HasApprover = FALSE
  HasConflictPolicy = FALSE
  HasConflictApprover = FALSE
  HasTrust = FALSE
  HasGraph = TRUE
SPECIFICATION Spec
INVARIANTS EveryTaskAnswered
CHECK_DEADLOCK FALSE
