CONSTANTS
  s1 = s1
  s2 = s2
  s3 = s3
  c1 = c1
  c2 = c2
  NoJob = NoJob
  Sources = {s1, s2, s3}
  Long = {s1}
  Workbooks = {s3}
  NumChunks = 2
  NumItems = 1
  MaxAttempts = 2
  Clients = {c1, c2}
  MaxJobs = 2
  MaxCrashes = 1
SPECIFICATION FairSpec
CHECK_DEADLOCK FALSE
INVARIANTS CompletedIsComplete
PROPERTIES MappedChunksStay SettledJobsStay JobsSettle
