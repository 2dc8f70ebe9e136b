\* The two modes and one more controller of the joints, which the driver starts with
\* when its launch argument is left at the default.
SPECIFICATION SwitchSpec
CONSTANTS
  Controllers = {"trajectory", "servo", "scaled"}
  Joint = {"trajectory", "servo", "scaled"}
  Trajectory = "trajectory"
  Servo = "servo"
  MaxCommands = 3
  MaxOthers = 2
INVARIANT SwitchSafe
CHECK_DEADLOCK FALSE
