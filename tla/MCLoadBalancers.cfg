\* One operation at a time on each Service; names may be edited and shared.
CONSTANTS
    s1 = s1  s2 = s2
    l1 = l1  l2 = l2
    None = None
    Services = {s1, s2}
    LBs = {l1, l2}
    NamesOf <- SharedNames
    BadValues = {FALSE}
    Serialised = TRUE
    MaxFaults = 2
    MaxEdits = 2
SPECIFICATION Spec
INVARIANTS TypeOK UniqueOwner
PROPERTY OwnershipKept
SYMMETRY Symmetry
\* Once every Service is gone nothing is left to do.
CHECK_DEADLOCK FALSE
