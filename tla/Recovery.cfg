SPECIFICATION FairSpec
CONSTANTS
    Step <- ABCDEF
    Name <- Names
    BranchName <- Labels
    NoBranch = ""
    OutboundEdges <- RecoveryEdges
    ReadinessGate <- RecoveryGates
    FallbackStep <- RecoveryFallback
    MaxParallel = 2
    MaxRetries <- RecoveryRetries
    Outcomes <- RecoveryOutcomes
    Branches <- UnlabelledABCDEF
    SeedCompleted <- RecoverySeeds
    SeedBranches <- RecoveryBranches
    NoStep = "none"
INVARIANTS TypeOK QueueSound OneCallPerStep Limits SeedsNotRerun ReturnedComplete
PROPERTY TerminationUnlessOrphaned
