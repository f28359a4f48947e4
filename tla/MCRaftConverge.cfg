SPECIFICATION FairLedSpec
CONSTANTS
    Node = {n1, n2, n3}
    NoNode = NoNode
    Command = {x}
    ApplySink = FALSE
    MaxTerm = 3
    MaxElections = 3
    MaxCrashes = 0
    MaxLogLen = 2
    MaxBatch = 1
PROPERTIES
    Converges
