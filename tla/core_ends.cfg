CONSTANTS
  agA = agA  agB = agB  agB2 = agB2  agD = agD
  idA = idA  idB = idB  idD = idD
  work = work
  low = low  high = high  banned = banned
  t1 = t1  t2 = t2
  yes = yes  no = no
  CORE = CORE
  None = None
  Agents = {agA, agB, agB2, agD}
  AgentIds = {idA, idB, idD}
  IdOf <- MCIdOf
  Objectives = {work}
  Outputs = {yes, no}
  Calls = {c1, c2}
  Setups <- ThreeAble
  Joins = {}
  Leaves = {}
  LateHandlers = {}
  Requests <- LimitRequests
  Returns <- FewReturns
  Recurrences <- NoRecurrences
  LessonsMayRaise = FALSE
  HasPolicy = TRUE
  RiskPolicy <- MCRiskPolicy
  HasApprover = FALSE
  HasConflictPolicy = TRUE
  HasConflictApprover = TRUE
  HasTrust = FALSE
  HasGraph = TRUE
SPECIFICATION FairSpec
INVARIANTS WithinLimits
PROPERTIES EveryCallEnds
CHECK_DEADLOCK FALSE
