\* Annotations of all kinds that come and go, duplicate ports, failing calls.
CONSTANTS
    None = None
    Invalid = Invalid
    Default = Default
    CertNames = {"web"}
    Specs <- PortSpecs
    InitPorts <- InitListenPorts
    MaxFaults = 2
    MaxEdits = 2
SPECIFICATION FairSpec
INVARIANTS TypeOK PortsServed ModeMatchesPorts
PROPERTIES MalformedLeavesPorts FirstPortWins PassesSucceed
CHECK_DEADLOCK FALSE
