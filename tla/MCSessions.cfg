CONSTANTS
    Client = {1, 2}
    Key = {k}
    Server = {1, 2}
    Slots = 2
    BatchLimit <- Limits
    MaxLog = 3
    MaxFaults = 1
    Tcp = {2}
    Script <- Scripts
    MaxRequests = 2
    MaxTries = 2
    MaxAttempts = 3
SPECIFICATION Spec
INVARIANTS ExactlyOnce Linearizable 
CHECK_DEADLOCK FALSE
