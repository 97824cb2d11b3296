CONSTANTS
  agA = agA  agB = agB  agB2 = agB2  agD = agD
  idA = idA  idB = idB  idD = idD
  work = work
  low = low  high = high  banned = banned
  t1 = t1  t2 = t2
  yes = yes  no = no
  CORE = CORE
  None = None
  Agents = {agA, agB, agB2, agD}
  AgentIds = {idA, idB, idD}
  IdOf <- MCIdOf
  Objectives = {work}
  Outputs = {yes, no}
  Calls = {c1, c2}
  Setups <- TwoAble
  Joins = {agB2}
  Leaves = {idA}
  LateHandlers = {}
  Requests <- DebateRequests
  Returns <- DebateReturns
  Recurrences <- NoRecurrences
  LessonsMayRaise = FALSE
  HasPolicy = TRUE
  RiskPolicy <- MCRiskPolicy
  HasApprover = TRUE
  HasConflictPolicy = TRUE
  HasConflictApprover = TRUE
  HasTrust = FALSE
  HasGraph = TRUE
SPECIFICATION Spec
INVARIANTS AnsweredOnce GatedByConflictPolicy ResultIsBestAnswer WonIsRecorded GraphIsConsistent EvidenceIsSupported
PROPERTIES DispatchIsCurrent
SYMMETRY SymCalls
CHECK_DEADLOCK FALSE
