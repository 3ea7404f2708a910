SPECIFICATION Spec
CONSTANTS
    Cfg <- TwoTunnels
    MaxEvents = 2
CHECK_DEADLOCK FALSE
INVARIANT
    ClientSetupUndisturbed
