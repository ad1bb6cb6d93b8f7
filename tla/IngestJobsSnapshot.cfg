SPECIFICATION Safety
CONSTANTS
  Jobs = {j1, j2, j3}
  Watched = {j1}
  NoJob = NoJob
  MaxJobs = 2
  ThreadLimit = 2
  MaxRestarts = 1
INVARIANTS
  AnswerIsSnapshot
CHECK_DEADLOCK FALSE
