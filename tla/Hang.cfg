SPECIFICATION FairSpec
CONSTANTS
    Step <- A
    Name <- Names
    BranchName <- Labels
    NoBranch = ""
    OutboundEdges <- OneEdges
    ReadinessGate <- AllA
    FallbackStep <- NoFallbackA
    MaxParallel = 1
    MaxRetries <- NoRetryA
    Outcomes <- OneOutcomes
    Branches <- UnlabelledA
    SeedCompleted <- NoSeeds
    SeedBranches <- SeedlessA
    NoStep = "none"
PROPERTY Termination
