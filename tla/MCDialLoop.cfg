SPECIFICATION FairSpec
CONSTANTS
    Loops = {l1, l2}
    Names = {n1}
    NameOf <- SharedName
    Fps = {f1, f2}
    Reqs = {r1, r2, r3}
    Ops = {o1}
    AutoApprove = FALSE
    NoReq = NoReq
    NoFp = NoFp
CHECK_DEADLOCK FALSE
INVARIANTS
    ApprovalInv
    NoUnapprovedTrust
PROPERTIES
    PinIsNotReplaced
    ShutdownStopsLoops
