SPECIFICATION Spec
CONSTANTS
  a = a
  b = b
  c = c
  x = x
  y = y
  NoImage = NoImage
  Calls <- MCCalls
  Images <- MCImages
  Selection <- MCSelection
  Already <- MCAlready
  MaxAttempts = 2
  HistoryLimit = 1
  j1 = j1
  j2 = j2
  None = None
PROPERTIES
  QuitComesToAnEnd
  ListeningIsHeard
CHECK_DEADLOCK FALSE
