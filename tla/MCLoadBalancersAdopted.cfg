\* A Load Balancer that outlives its first Service is adopted by a second one.
CONSTANTS
    s1 = s1  s2 = s2
    l1 = l1
    None = None
    Services = {s1, s2}
    LBs = {l1}
    NamesOf <- SharedNames
    BadValues = {TRUE, FALSE}
    Serialised = TRUE
    MaxFaults = 0
    MaxEdits = 2
SPECIFICATION Spec
PROPERTY DeletedWithService
CHECK_DEADLOCK FALSE
