CONSTANTS
    Shapes <- MCShapes
    MaxElements = 8
    Scripts <- MCScripts
    MaxEvents = 2
    Lag = 1
    QueueSize = 1
    Targets <- MCTargets
    MaxTargets = 1
    Services = {"power_off", "power_on", "brake_release", "restart_safety", "load", "play", "pause", "stop", "resume", "popup", "shutdown", "quit", "connect", "programState", "is_in_remote_control", "upload_program"}
    Policies = {"G5", "X"}
    MaxCalls = 2
    MaxTrouble = 1
    MaxPolls = 2
    MaxTries = 2
    MaxUntilGoals = 2
    Conditions <- MCConditions
    MaxLines = 5
    MaxConnections = 3
    Sessions = {"queue", "script", "state", "dashboard", "until", "template", "server"}
SPECIFICATION Spec
CHECK_DEADLOCK FALSE
INVARIANT QueueInOrder
PROPERTY ScriptTruth
PROPERTY SuccessIsReached
PROPERTY OkIsTrue
INVARIANT UntilTruth
PROPERTY CallsEnd
INVARIANT RendersChosen
INVARIANT OwnerKnowsClient
PROPERTY ServerAnswers
