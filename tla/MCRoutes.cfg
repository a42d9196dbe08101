\* Two servers and their CIDRs; IPs are not given to a second server.
CONSTANTS
    a = a  b = b
    d1 = d1  d2 = d2
    i1 = i1  i2 = i2  i3 = i3
    None = None  Gone = Gone
    Names = {a, b}
    CIDRs = {d1, d2}
    IPs = {i1, i2, i3}
    ReuseIPs = FALSE
    MaxFaults = 1
    MaxEdits = 2
SYMMETRY Symmetry
SPECIFICATION Spec
INVARIANT TypeOK
PROPERTY GoodRouteKept
