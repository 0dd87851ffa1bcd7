CONSTANTS
  a1 = a1
  a2 = a2
  j1 = j1
  Actors = {a1, a2}
  Jobs = {j1}
  Pmo = a1
  Reviewers = {a1}
  None = None
  MaxRequests = 2
  MaxMoves = 2
SPECIFICATION FairSpec
CHECK_DEADLOCK FALSE
INVARIANTS OwnWorkspace
PROPERTIES CatchesUp
