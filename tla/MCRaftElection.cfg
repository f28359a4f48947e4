SPECIFICATION Spec
CONSTANTS
    Node = {n1, n2, n3}
    NoNode = NoNode
    Command = {x}
    ApplySink = FALSE
    MaxTerm = 2
    MaxElections = 2
    MaxCrashes = 1
    MaxLogLen = 0
    MaxBatch = 1
SYMMETRY Symmetry
INVARIANTS ElectionSafety OneVotePerTerm LeaderHintTruthful
