CONSTANTS
  q1 = q1
  NoRequest = NoRequest
  Requests = {q1}
  MaxTasks = 3
  MaxWorkers = 2
  RecoverLimit = 1
  MaxLog = 4
  MaxCrashes = 1
  MaxDeletes = 1
SPECIFICATION FairSpec
CHECK_DEADLOCK FALSE
INVARIANTS SoundExecution MessagesFollowRun StreamSawTheEnd
PROPERTIES EndsAreFinal LogsAreTold TurnsEnd
