CONSTANTS
  MaxStreamAttempts = 4
  MaxEvents = 3
SPECIFICATION FairSpec
CHECK_DEADLOCK FALSE
INVARIANTS OneRunOneText
PROPERTIES CallEnds
