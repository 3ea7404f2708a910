SPECIFICATION TrayFairSpec
CONSTANTS
    Runs = {r1, r2, r3}
    Sessions = {s1}
    Root = Root
    NoRun = NoRun
INVARIANTS
    RequestNotLost
PROPERTIES
    CancelNotLost
    CancelledRunsEnd
CHECK_DEADLOCK FALSE
