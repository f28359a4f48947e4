CONSTANTS
    Terms = {1}
    Sizes = {1, 2}
    MaxLog = 3
    MaxBatch = 2
    MaxSaves = 2
    MaxCrashes = 3
    Faults <- AllFaults
SPECIFICATION Spec
INVARIANTS ReturnedSurvives  VoteSurvives
PROPERTIES ImplementsAtomicStore
CHECK_DEADLOCK FALSE
