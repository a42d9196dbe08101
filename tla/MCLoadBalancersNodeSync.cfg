\* Node sync overlaps the queue's work; the name of a Service stays.
CONSTANTS
    s1 = s1
    l1 = l1  l2 = l2
    None = None
    Services = {s1}
    LBs = {l1, l2}
    NamesOf <- SharedNames
    BadValues = {TRUE, FALSE}
    Serialised = FALSE
    MaxFaults = 2
    MaxEdits = 3
SPECIFICATION FairSpec
INVARIANT UniqueOwner
PROPERTIES FinalizerReleased DeletionCompletes OwnershipKept
CHECK_DEADLOCK FALSE
