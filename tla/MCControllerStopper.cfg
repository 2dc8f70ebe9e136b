SPECIFICATION FairStopper
CONSTANTS
  Controllers <- MCControllers
  Joint = {"trajectory", "servo"}
  Consistent = {"broadcaster"}
  SpawnOrder <- MCSpawnOrder
  Trajectory = "trajectory"
  Servo = "servo"
  StopOnStartup = TRUE
  MaxChanges = 5
  MaxSwitches = 2
INVARIANT MirrorsProgram
PROPERTY StopperMirrors
CHECK_DEADLOCK FALSE
