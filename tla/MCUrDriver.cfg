CONSTANTS
    Goals <- MCGoals
    Points <- MCPoints
    Lead <- MCLead
    Torque = TRUE
    Kinds = {"digital", "analog", "payload", "hand_back"}
    MaxRequests = 2
    MaxScales = 3
    Sessions = {"trajectory", "contact", "switching", "freedrive", "force", "gpio", "friction", "motion"}
    Lag = 1
    Motions <- MCMotions
    Whole = 2
    MaxMotions = 2
    MaxUpsets = 1
SPECIFICATION Spec
CHECK_DEADLOCK FALSE
INVARIANT PointsFit
INVARIANT FlagsFollowControllers
INVARIANT AckIsMine
PROPERTY SuccessIsExecution
PROPERTY ContactIsReal
PROPERTY FreedriveLeft
PROPERTY RequestsEnd
PROPERTY MotionTruth
PROPERTY MotionReturns
