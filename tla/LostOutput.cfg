SPECIFICATION Spec
CONSTANTS
    Step <- ABC
    Name <- Names
    BranchName <- Labels
    NoBranch = ""
    OutboundEdges <- Edges
    ReadinessGate <- Gates
    FallbackStep <- NoFallback
    Outcomes <- Results
    Branches <- Chosen
    Declared <- OutputOfA
    RunBound = 2
INVARIANT SeedOutputsRestored
