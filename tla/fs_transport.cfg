CONSTANTS
  p = p  q = q  r = r  o = o
  A = A  B = B
  m1 = m1  m2 = m2
  Procs = {p, q, o}
  Recoverers = {q}
  Mortals = {p}
  Agents = {A, B}
  AgentOf <- MCAgentOf
  DirOf <- OneDir
  Messages = {m1, m2}
  To <- MCTo
  MaxReleases = 1
  MaxFailures = 1
  Blank = Blank
  None = None
SPECIFICATION FairSpec
INVARIANT ClaimHasOwner
PROPERTIES ImplementsLock EveryMessageIsDone
CHECK_DEADLOCK FALSE
