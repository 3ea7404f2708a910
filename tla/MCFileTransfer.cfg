SPECIFICATION FairSpec
CONSTANTS
    s1 = s1
    s2 = s2
    s3 = s3
    Senders = {s1, s2, s3}
    Calls <- Pairs
    Handlers = {h1, h2}
    Gates = {g1, g2}
    Names = {"a", "a (1)"}
    NameOf <- TwoNames
    Size <- Sizes
    Cands <- Candidates
    Present = {"a"}
    Leftovers <- LongPart
    MaxRetries = 1
    MaxRestarts = 1
    NoSender = NoSender
    NoGate = NoGate
    NoHandler = NoHandler
INVARIANTS
    GateInv
    DeliveredIsIntact
    SentMeansDelivered
PROPERTIES
    ClobbersOnlyAcrossNames
    SendReturns
CHECK_DEADLOCK FALSE
