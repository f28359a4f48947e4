CONSTANTS
    Client = {1}
    Key = {k}
    Server = {1, 2}
    Slots = 2
    BatchLimit <- Limits
    MaxLog = 3
    MaxFaults = 0
    Tcp = {1}
    Script <- Scripts
    MaxRequests = 2
    MaxTries = 2
    MaxAttempts = 3
SPECIFICATION Spec
INVARIANTS NoStragglerRead
CHECK_DEADLOCK FALSE
