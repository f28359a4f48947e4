CONSTANTS
    Radix = 8
    Price = {1, 2}
    Qty = {1, 2}
    MaxOrders = 3
    MaxSeq = 1
    kMaxPayloadSize = 64
    kLengthPrefixSize = 2
    kMaxFrameSize = 3
    Client = {1, 2}
    Peer = {3}
    Splitting = {3}
    Bad = 0
    MaxDials = 3
    Caller = {1, 2}
    MaxOps = 3
    MaxMs = 1
    Node = {1, 2}
    Endpoint = {3}
    FaultEnd = 3
    MaxTime = 5
    FirstFault = {0, 1}
    Gap = {2}
    Down = {1, 2}
    Latency = {2}
    Extra = {1}
    Quiet = 2
    Settle = 1
    MaxSends = 2
SPECIFICATION Spec
INVARIANTS PriceTime SnapshotExact OnlyEncodingsDecode RepliesGoHome FramesIntact CheckerIsExact FaultsHoldAndEnd
CHECK_DEADLOCK FALSE
