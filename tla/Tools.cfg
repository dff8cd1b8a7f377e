SPECIFICATION ToolsSpec
CONSTANTS
  r1 = r1
  r2 = r2
  video = video
  NoRow = NoRow
  Rows <- MCRows
  Files <- MCFiles
  Source <- MCSource
  MaxPresses = 3
  MaxRestarts = 1
  a = a
  b = b
  c = c
  d = d
  x = x
  y = y
  NoImage = NoImage
  Calls <- MCCalls
  Images <- MCImages
  Selection <- MCSelection
  Already <- MCAlready
  MaxAttempts = 2
  HistoryLimit = 1
  MaxChanges = 3
  MaxDeaths = 1
  Lengths <- MCLengths
  Chained = TRUE
  OwnCopy = TRUE
  s1 = s1
  s2 = s2
  s3 = s3
  s4 = s4
  p1 = p1
  p2 = p2
  Readers <- MCReaders
  Panels <- MCPanels
  Requests <- MCRequests
  Power = "power"
  MaxPerProcess = 3
  MaxPerChannel = 2
  OpeningFails = FALSE
  j1 = j1
  t1 = t1
  None = None
  Jobs <- MCCards
  TeamJobs <- MCTeam
  MaxTries = 2
  MaxAsks = 1
  MaxCrashes = 1
  Persisting = TRUE
  CanWithdraw = TRUE
  CanLoseRestore = FALSE
INVARIANTS
  RunningIsTheTurn
  QueuedHasTurn
  StoppedLeftSource
  ConvertedIsThere
  FileIsAList
  CostsFollowReaders
  QuitLeavesNothing
  ProcessingIsTheRun
  DocumentKept
  ListeningIsInLine
  SavedIsCurrent
PROPERTIES
  FileKeepsUp
  
  ManualKept
  StopHitsItsRun
CHECK_DEADLOCK FALSE
