\* Attributes, networks, certificate and listen ports, with passes beside one
\* another that work for an old and a new Service, and failing calls.
CONSTANTS
    bm1 = bm1
    n1 = n1  n2 = n2
    None = None
    Invalid = Invalid
    Servers = {}
    RobotServers = {bm1}
    Networks = {n1, n2}
    NetworkID = n1
    Ports = {80, 443}
    Types = {"lb11", "lb21"}
    Limit <- Limits
    TakenNames = {"taken"}
    Specs <- ConfigSpecs
    InitLBs <- OnlyImported
    UseRobot = FALSE
    MaxFaults = 1
    MaxEdits = 2
SPECIFICATION FairSpec
INVARIANTS TypeOK ConfigConverged ServicesConverged StatusFresh
PROPERTY Converges
CHECK_DEADLOCK FALSE
