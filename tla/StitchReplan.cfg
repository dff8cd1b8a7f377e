SPECIFICATION StitchSpec
CONSTANTS
  r1 = r1
  r2 = r2
  f1 = f1
  NoRow = NoRow
  Rows <- MCRows
  Files <- MCFiles
  Source <- MCSource
  MaxPresses = 3
  MaxRestarts = 0
INVARIANT PlanIsOfTheVideo
CHECK_DEADLOCK FALSE
