SPECIFICATION FairSpec
CONSTANTS
  j1 = j1
  None = None
  Jobs <- MCOne
  TeamJobs <- MCNoTeam
  MaxTries = 1
  MaxAsks = 0
  MaxCrashes = 0
  Persisting = FALSE
  CanWithdraw = TRUE
  CanLoseRestore = FALSE
PROPERTIES
  QueuedNotStranded
CHECK_DEADLOCK FALSE
