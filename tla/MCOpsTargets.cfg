\* Server and IP targets.
CONSTANTS
    srv1 = srv1  bm1 = bm1
    n1 = n1
    None = None
    Invalid = Invalid
    Servers = {srv1}
    RobotServers = {bm1}
    Networks = {n1}
    NetworkID = n1
    Ports = {80}
    Types = {"lb11", "lb21"}
    Limit <- Limits
    TakenNames = {}
    Specs <- TargetSpecs
    InitLBs <- OnlyImported
    UseRobot = TRUE
    MaxFaults = 1
    MaxEdits = 2
SPECIFICATION Spec
INVARIANT TargetsConverged
PROPERTY NoChurn
CHECK_DEADLOCK FALSE
