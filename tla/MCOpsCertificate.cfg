\* The name of the managed certificate changes.
CONSTANTS
    srv1 = srv1
    n1 = n1  n2 = n2
    None = None
    Invalid = Invalid
    Servers = {srv1}
    RobotServers = {}
    Networks = {n1, n2}
    NetworkID = n1
    Ports = {80, 443}
    Types = {"lb11", "lb21"}
    Limit <- Limits
    TakenNames = {}
    Specs <- CertSpecs
    InitLBs <- OnlyFresh
    UseRobot = FALSE
    MaxFaults = 0
    MaxEdits = 1
SPECIFICATION FairSpec
PROPERTY CertificateServed
CHECK_DEADLOCK FALSE
