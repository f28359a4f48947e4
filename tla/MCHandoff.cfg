SPECIFICATION Spec
CONSTANTS
    Producer = {p1, p2}
    Value = {x, y}
    Torn = Torn
    Capacity = 2
    SpscItems = 5
    MpscItems = 4
    GateItems = 2
    Proposer = {p1}
    Rx = rx
    InboundSize = 1
    ApplySize = 1
    TxSize = 1
    MaxDrain = 2
    MaxFrames = 2
    MaxCommit = 3
INVARIANTS
    FirstInFirstOut
    ExclusiveSlots
    NoLostWakeup
    AppliedOnceInOrder
PROPERTIES
    ImplementsQueue
    EveryItemConsumed
    RaftNeverStalls
    CommittedIsApplied
    
