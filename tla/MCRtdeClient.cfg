SPECIFICATION Spec
CONSTANTS
    Fields = {"slider", "digital"}
    Commands = 3
    MaxInit = 2
    MaxLosses <- MCLosses
    MaxRefusals = 1
    Uses = {"reads", "commands"}
INVARIANT OneReader
PROPERTY PackageOfThisConnection
PROPERTY CommandsInOrder
PROPERTY ThreadsGetOn
CHECK_DEADLOCK FALSE
