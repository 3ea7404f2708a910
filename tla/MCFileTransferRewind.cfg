SPECIFICATION Spec
CONSTANTS
    s1 = s1
    s2 = s2
    s3 = s3
    Senders = {s1, s2}
    Calls = {{s1, s2}}
    Handlers = {h1, h2}
    Gates = {g1, g2}
    Names = {"a"}
    NameOf <- OneName
    Size <- Sizes
    Cands <- Candidates
    Present = {"a"}
    Leftovers <- LongPart
    MaxRetries = 1
    MaxRestarts = 1
    NoSender = NoSender
    NoGate = NoGate
    NoHandler = NoHandler
INVARIANTS
    RewindAppends
CHECK_DEADLOCK FALSE
