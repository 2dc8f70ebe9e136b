\* Two lines may wait in the board: an older command and the current one.
CONSTANTS
  InitialLevel = "0"
  MaxLines = 2
  MaxReplies = 2
SPECIFICATION FairSpec
INVARIANT LatestLineDelivered
PROPERTY ValveSettles
