SPECIFICATION Figure8Spec
CONSTANTS
    Node = {n1, n2, n3}
    NoNode = NoNode
    Command = {x}
    ApplySink = FALSE
    MaxTerm = 4
    MaxElections = 4
    MaxCrashes = 1
    MaxLogLen = 1
    MaxBatch = 1
SYMMETRY Symmetry
INVARIANTS
    NoLostCommit
PROPERTIES
    CommittedPrefixStable
