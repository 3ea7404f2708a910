SPECIFICATION TrayFairSpec
CONSTANTS
    MaxStarts = 3
    Ports = 2
    Targets = {t1}
INVARIANTS
    FlagIsRight
PROPERTIES
    CancelledAppsEnd
    RestartIsShown
CHECK_DEADLOCK FALSE
