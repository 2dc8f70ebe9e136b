\* Four keys: enough to enter, move, stop with each key and enter again; two of the
\* five stops: enough for a stop, a stale twist, a stop.
SPECIFICATION FairSpec
CONSTANTS
  MaxKeys = 4
  Stops = 2
INVARIANT TeleopSafe
PROPERTY TeleopSettles
CHECK_DEADLOCK FALSE
