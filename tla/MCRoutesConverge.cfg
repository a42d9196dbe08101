\* Server and node replacement with the same IPs and CIDRs.
CONSTANTS
    a = a  b = b
    d1 = d1  d2 = d2
    i1 = i1  i2 = i2  i3 = i3
    None = None  Gone = Gone
    Names = {a, b}
    CIDRs = {d1}
    IPs = {i1, i2}
    ReuseIPs = TRUE
    MaxFaults = 1
    MaxEdits = 2
SPECIFICATION FairSpec
PROPERTY RoutesConverge
