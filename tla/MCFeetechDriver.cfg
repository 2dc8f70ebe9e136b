\* Two servos, one of them with a command interface; 0.0 m is a tick away from every
\* place the arm is found in.
SPECIFICATION Spec
CONSTANTS
    Servos = 2
    Commanded = {2}
    Ticks = {0, 1, 2}
    Midpoint = 1
    ZeroTick = 2
    MaxStarts = 2
INVARIANT EpromGuarded
INVARIANT ComesUpConfigured
INVARIANT ReadIsCurrent
INVARIANT HoldsAtActivation
CHECK_DEADLOCK FALSE
