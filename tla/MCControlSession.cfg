SPECIFICATION FairSpec
CONSTANTS
    Cfg <- TwoTunnels
    MaxEvents = 6
CHECK_DEADLOCK FALSE
INVARIANTS
    SetupInv
    EstablishedIsRouted
PROPERTIES
    NoEarlyTimeout
    EndsTogether
