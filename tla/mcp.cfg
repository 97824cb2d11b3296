CONSTANTS
  hello = hello  c1 = c1  c2 = c2  c3 = c3
  main = main  other = other
  Calls = {hello, c1, c2, c3}
  Handshake = hello
  Threads = {main, other}
  ThreadOf <- MCThreadOf
  Replies = {"result", "null"}
  Noises = {"notification"}
  MaxNoise = 1
  None = None
SPECIFICATION FairSpec
INVARIANTS AnswersItsOwn FailureHasCause
PROPERTY EveryRequestEnds
CHECK_DEADLOCK FALSE
