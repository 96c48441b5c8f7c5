SPECIFICATION Spec
CONSTANTS
  Sessions = {s1, s2}
  MaxCalls = 1
  MaxWire = 1
  NoIndex = NoIndex
  NoReader = NoReader
  NoAnswer = NoAnswer
  MaxTurns = 2
  MaxOps = 3
  MaxEvents = 1
  MaxLoops = 2
INVARIANTS AnswersStayHome ConversationComplete OnlyTornDiffer
PROPERTIES CalmAnswerWhole ThinkingEnds
CHECK_DEADLOCK FALSE
