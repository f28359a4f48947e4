SPECIFICATION CampaignSpec
CONSTANTS
    Node = {n1, n2, n3}
    NoNode = NoNode
    Command = {x}
    ApplySink = FALSE
    MaxTerm = 2
    MaxElections = 2
    MaxCrashes = 0
    MaxLogLen = 1
    MaxBatch = 1
SYMMETRY Symmetry
INVARIANTS LeaderCompleteness FlaggedWinsAreStale DurableCommit NoImpossibleMessage
