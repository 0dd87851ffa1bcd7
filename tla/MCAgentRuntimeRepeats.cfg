CONSTANTS
  a = a
  b = b
  Calls = {a, b}
  MaxRounds = 3
  DuplicateLimit = 3
  MaxToolCalls = 3
  MaxRejections = 2
  FinalAnswer = TRUE
  MaxPerTurn = 2
  MaxCrashes = 1
SPECIFICATION Spec
CHECK_DEADLOCK FALSE
INVARIANTS RepetitionStops
