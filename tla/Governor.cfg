SPECIFICATION MCSpec
CONSTANTS
  c1 = c1
  c2 = c2
  k1 = k1
  t1 = t1
  w1 = w1
  w2 = w2
  Windows <- MCWindows
  Limits <- MCLimits
  Full = 100
  Children <- MCChildren
  Kids <- MCKids
  Holders <- MCHolders
  CanLose = TRUE
INVARIANTS
  StoppedHasOwner
  TerminatingRuns
  TreeStopped
  LimitSurvives
PROPERTIES
  HeldStaysStopped
  FreedRuns
  PinEnds
CHECK_DEADLOCK FALSE
