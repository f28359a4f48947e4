CONSTANTS
    Terms = {1}
    Sizes = {1, 2}
    MaxLog = 2
    MaxBatch = 2
    MaxSaves = 2
    MaxCrashes = 3
    Faults <- MixedFaults
SPECIFICATION Spec
INVARIANTS AcksSurvive
CHECK_DEADLOCK FALSE
