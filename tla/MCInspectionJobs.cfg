CONSTANTS
  w1 = w1
  w2 = w2
  p1 = p1
  q1 = q1
  NoProject = NoProject
  NoWorker = NoWorker
  Workers = {w1, w2}
  Projects = {p1}
  EventShapes <- MCShapes
  Requests = {q1}
  MaxAttempts = 2
  BatchLimit = 1
  MaxEvents = 2
  MaxInputs = 2
SPECIFICATION FairSpec
CHECK_DEADLOCK FALSE
INVARIANTS OneJobPerKey NoEventSkipped CurrentRunUnique
PROPERTIES FollowsLifecycle OnlyLostRunsUndo EventsSettle
