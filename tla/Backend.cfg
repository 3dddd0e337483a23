SPECIFICATION Spec
CONSTANTS
    Step <- ABC
    Name <- Names
    BranchName <- Labels
    NoBranch = ""
    OutboundEdges <- Edges
    ReadinessGate <- Gates
    FallbackStep <- NoFallback
    Outcomes <- Results
    Branches <- Chosen
    Declared <- OutputOfA
    RunBound = 3
INVARIANTS SeedsSound ContextFresh ResponseTruthful FailureHasReason
PROPERTY ResumeComplete
