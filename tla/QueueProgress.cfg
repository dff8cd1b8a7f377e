SPECIFICATION ProgressSpec
CONSTANTS
  j1 = j1
  j2 = j2
  r1 = r1
  r2 = r2
  None = None
  Jobs <- MCJobs
  Runs <- MCRuns
  Slots <- MCSlots
  Ops <- ProgressOps
  CanSuspend = TRUE
  RerunBusy = FALSE
PROPERTIES
  QueuedIsTaken
  StoppedEnds
  ProcessingEnds
CHECK_DEADLOCK FALSE
