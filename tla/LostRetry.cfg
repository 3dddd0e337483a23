SPECIFICATION Spec
CONSTANTS
    Step <- AB
    Waiting <- NoStep
    Branching <- OnlyB
    Skippable <- NoStep
    MaxRetries <- RetryA
    MaxParallel = 1
    RetryBound = 2
    Run = "run"
    Nobody = "nobody"
INVARIANT RetriesBounded
