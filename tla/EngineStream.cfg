SPECIFICATION FairSpec
CONSTANTS
  None = None
  s1 = s1
  s2 = s2
  tool1 = tool1
  tool2 = tool2
  Engine <- Engines
  Token <- TwoSessions
  NewPath = s1
  Tool <- TwoTools
  MaxLines = 6
INVARIANTS
  StartedRunCompletes
  FinalNamesSession
  AnswerSurvives
PROPERTY
  ImplementsContract
CHECK_DEADLOCK FALSE
