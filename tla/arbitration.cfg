CONSTANTS
  AgentIds = {a1, a2, a3}
  Outputs = {yes, no}
  Evidences <- MCEvidences
  MaxCandidates = 3
  MaxHistory = 2
SPECIFICATION Spec
INVARIANTS OrderOnlyBreaksTies RankHeadIsFirstBest
PROPERTIES NoVoteCounting HistoryOnlyBreaksTies ScoreIsOwn
CHECK_DEADLOCK FALSE
