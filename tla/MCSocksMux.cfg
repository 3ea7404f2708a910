SPECIFICATION FairSpec
CONSTANTS
    Chans = {c1}
    MaxData = 2
INVARIANTS
    ChannelInv
    PayloadsConserved
    NoLossOnHalfClose
PROPERTIES
    BothClosedEndsRelay
CHECK_DEADLOCK FALSE
