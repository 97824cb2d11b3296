CONSTANTS
  p = p  q = q  r = r  o = o
  A = A  B = B
  m1 = m1  m2 = m2
  Procs = {p, q, r}
  Recoverers = {q, r}
  Mortals = {p}
  Agents = {A}
  AgentOf <- MCAgentOf
  DirOf <- OneDir
  Messages = {m1}
  To <- MCTo
  MaxReleases = 0
  MaxFailures = 0
  Blank = Blank
  None = None
SPECIFICATION Spec
INVARIANT NeverBothAct
CHECK_DEADLOCK FALSE
