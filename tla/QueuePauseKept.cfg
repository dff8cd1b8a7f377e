SPECIFICATION Spec
CONSTANTS
  j1 = j1
  j2 = j2
  r1 = r1
  r2 = r2
  None = None
  Jobs <- MCJobs
  Runs <- MCRuns
  Slots <- MCSlots
  Ops <- PauseKeptOps
  CanSuspend = TRUE
  RerunBusy = FALSE
PROPERTIES
  FreshRunNotPaused
CHECK_DEADLOCK FALSE
