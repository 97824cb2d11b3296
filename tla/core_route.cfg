CONSTANTS
  agA = agA  agB = agB  agB2 = agB2  agD = agD
  idA = idA  idB = idB  idD = idD
  work = work
  low = low  high = high  banned = banned
  t1 = t1  t2 = t2
  yes = yes  no = no
  CORE = CORE
  None = None
  Agents = {agA, agB, agB2, agD}
  AgentIds = {idA, idB, idD}
  IdOf <- MCIdOf
  Objectives = {work}
  Outputs = {yes, no}
  Calls = {c1, c2, c3}
  Setups <- Mixed
  Joins = {agA, agB2}
  Leaves = {idA}
  LateHandlers <- AbleB
  Requests <- RouteRequests
  Returns <- RouteReturns
  Recurrences <- LessonsOnA
  LessonsMayRaise = TRUE
  HasPolicy = TRUE
  RiskPolicy <- MCRiskPolicy
  HasApprover = TRUE
  HasConflictPolicy = FALSE
  HasConflictApprover = FALSE
  HasTrust = TRUE
  HasGraph = TRUE
SPECIFICATION Spec
INVARIANTS TypeOK AnsweredOnce GatedByPolicy
PROPERTIES RoutedToMostTrusted
SYMMETRY SymCalls
CHECK_DEADLOCK FALSE
