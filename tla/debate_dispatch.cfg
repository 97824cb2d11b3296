CONSTANTS
  N = 3
  Timeouts = {0, 2, None}
  Durations = {0, 1, 2, 5, Hung}
  Hung = Hung
  Horizon = 15
  None = None
SPECIFICATION FairSpec
INVARIANTS AcceptedBound LateHasCause OneAtATime NothingLeftRunning
PROPERTIES EveryDebateEnds
CHECK_DEADLOCK FALSE
