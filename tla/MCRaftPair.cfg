SPECIFICATION Spec
CONSTANTS
    Node = {n1, n2}
    NoNode = NoNode
    Command = {x}
    ApplySink = TRUE
    MaxTerm = 2
    MaxElections = 2
    MaxCrashes = 1
    MaxLogLen = 2
    MaxBatch = 2
SYMMETRY Symmetry
INVARIANTS
    TypeOK StateMachineSafety CommitsAtOnce
PROPERTIES
    ImplementsReplicatedLog
