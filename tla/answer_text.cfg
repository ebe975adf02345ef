SPECIFICATION MCSpec
CONSTANTS
  Req = {1, 2}
  Kinds <- MCKinds
  Permits = 2
  Workers = 2
  MaxInput = 2
  MaxTotal = 3
INVARIANTS AnswerHasText
CHECK_DEADLOCK FALSE
