\* Lookups, a rename and a change of the credentials, time and failures.
CONSTANTS
    c1 = c1  c2 = c2
    s1 = s1  s2 = s2
    bm1 = bm1
    None = None
    Callers = {c1, c2}
    Servers = {s1, s2}
    Names = {bm1}
    Timeout = 1
    WaitTime = 1
    MaxTime = 2
    MaxFaults = 1
    MaxEdits = 2
SYMMETRY Symmetry
SPECIFICATION Spec
INVARIANT TypeOK
INVARIANT NodeKept
INVARIANT NoListOfOldCredentials
PROPERTIES ForcedOncePerTimeout RateLimitRespected
CHECK_DEADLOCK FALSE
