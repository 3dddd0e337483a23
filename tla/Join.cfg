SPECIFICATION Spec
CONSTANTS
    Step <- ABCDE
    Name <- Names
    BranchName <- Labels
    NoBranch = ""
    OutboundEdges <- JoinEdges
    ReadinessGate <- JoinGates
    FallbackStep <- NoFallbackABCDE
    MaxParallel = 3
    MaxRetries <- JoinRetries
    Outcomes <- JoinOutcomes
    Branches <- JoinBranches
    SeedCompleted <- NoSeeds
    SeedBranches <- SeedlessABCDE
    NoStep = "none"
INVARIANTS Tally OpenGateHasReason OutputsVisible
PROPERTY Implements
