SPECIFICATION MCSpec
CONSTANTS
  Req = {1, 2, 3}
  Kinds <- MCKinds
  Permits = 2
  Workers = 2
  MaxInput = 2
  MaxTotal = 3
INVARIANTS Admission OneEnding
PROPERTIES EveryClientAnswered
CHECK_DEADLOCK FALSE
