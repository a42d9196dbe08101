CONSTANTS
    Unset = Unset
    Invalid = Invalid
    CIDRs = {"office", "public", "public*", "private"}
    NetOf <- Nets
    PublicCIDR = "public"
    PrivateCIDRs = {"private"}
    Default = TRUE
    Settings = {FALSE, Unset, Invalid}
    MaxTries = 2
    MaxFaults = 1
    MaxEdits = 2
SPECIFICATION Spec
INVARIANTS TypeOK UserEntriesKept SourcesExact
CHECK_DEADLOCK FALSE
