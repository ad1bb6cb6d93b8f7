SPECIFICATION Spec
CONSTANTS
  Jobs = {j1, j2}
  Watched = {j1, j2}
  NoJob = NoJob
  MaxJobs = 1
  ThreadLimit = 1
  MaxRestarts = 1
PROPERTIES
  RefinesProgress
  UploadGetsVerdict
CHECK_DEADLOCK FALSE
