\* Mounted and local files, changes during the start and while events are handled.
CONSTANTS
    Values = {"one", "two", "short"}
    Tokens = {"one", "two"}
    Missing = Missing
    Empty = Empty
    Nil = Nil
    Secrets <- SomeSecrets
    EnvToken = "two"
    MaxFaults = 2
    MaxEdits = 3
SPECIFICATION FairSpec
INVARIANTS TypeOK TokenFollows RobotFollows
PROPERTY ComesUp
CHECK_DEADLOCK FALSE
