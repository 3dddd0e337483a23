SPECIFICATION Spec
CONSTANTS
    Step <- ABC
    Name <- Names
    BranchName <- Labels
    NoBranch = ""
    OutboundEdges <- PairEdges
    ReadinessGate <- AllABC
    FallbackStep <- PairFallback
    MaxParallel = 1
    MaxRetries <- NoRetryABC
    Outcomes <- PairOutcomes
    Branches <- UnlabelledABC
    SeedCompleted <- NoSeeds
    SeedBranches <- SeedlessABC
    NoStep = "none"
PROPERTY OnlyUnsatisfiableSkipped
