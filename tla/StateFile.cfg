SPECIFICATION Spec
CONSTANTS
    Step <- ABC
    Waiting <- OnlyC
    Branching <- OnlyB
    Skippable <- OnlyB
    MaxRetries <- RetryAB
    MaxParallel = 2
    RetryBound = 2
    Run = "run"
    Nobody = "nobody"
INVARIANTS SealedState FailureReported RetriesGranted PanicOnlyWhenDisturbed
PROPERTY SpoiltForEver
