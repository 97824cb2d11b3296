CONSTANTS
  c1 = c1
  c2 = c2
  None = None
  Raised = Raised
  Malformed = Malformed
  TransportError = TransportError
  NewId = NewId
  Calls <- MCCalls
  Scenarios <- MCScenarios
  Handler <- MCHandler
  ServiceReplies <- Replies
  ForeignArtifacts <- MCForeignArtifacts
  Models <- ModelAgents
  Objectives = {"chat"}
SPECIFICATION Spec
INVARIANTS AnswerIsRouted StoryIsOne FailsForGood
PROPERTIES EveryWaitEnds
CHECK_DEADLOCK FALSE
