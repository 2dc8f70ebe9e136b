SPECIFICATION FairSpec
CONSTANTS
  VoteFrames = 3
  MaxDist = 2
  Rows <- MCRows
  Frames <- MCFrames
  Lag = 1
  Points <- MCPoints
  Jitter = 1
  GridPoses <- MCGridPoses
  MmPerPx = 2
  CentreX = 100
INVARIANT AveragesNearReference
PROPERTY VoteTrusted
CHECK_DEADLOCK FALSE
