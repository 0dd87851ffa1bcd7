CONSTANTS
  a = a
  b = b
  Calls = {a, b}
  MaxRounds = 5
  DuplicateLimit = 2
  MaxToolCalls = 4
  MaxRejections = 2
  FinalAnswer = TRUE
  MaxPerTurn = 2
  MaxCrashes = 2
SPECIFICATION FairSpec
CHECK_DEADLOCK FALSE
INVARIANTS NoInvocationForgotten BudgetOverLives OnlyVerifiedTextReturned RepetitionStops
PROPERTIES RepairsUseNoTools RunsEnd
