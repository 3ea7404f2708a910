SPECIFICATION Spec
CONSTANTS
    Conns = {c1, c2, c3, c4}
    Ips = {i1}
    IpOf <- SameIp
    Burst = 2
    Limits <- OnAndOff
    MaxTime = 3
    NoConn = NoConn
SYMMETRY Symmetry
CHECK_DEADLOCK FALSE
INVARIANTS
    PlacesInv
    RateIsKept
